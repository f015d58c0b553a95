-------------------------------- MODULE Timers --------------------------------
(***************************************************************************)
(* What the alarms of the HAL promise: an alarm set to n ticks is called   *)
(* in the tick after those n, in that tick and in no other, and once; one  *)
(* whose callback returns r > 0 is called again r ticks later.             *)
(*                                                                         *)
(* Two things it does not promise.  An alarm set to the longest delay goes *)
(* astray: it may be called at any time.  And a callback that stops        *)
(* another alarm may strand the clock at that alarm: its callback is then  *)
(* called although it is stopped, and time stands still, until that        *)
(* callback itself starts the alarm again.  The other alarms keep their    *)
(* promise in either case.                                                 *)
(***************************************************************************)
EXTENDS Integers

CONSTANTS
    Alarms,
    Delays,      \* the delays an alarm is started with
    Longest,     \* the delay for which nothing is promised
    Returns,     \* what a callback may return; zero ends the alarm
    None

VARIABLES
    left,        \* per alarm: ticks to go, or that it is off or astray
    stranded     \* the stopped alarm the clock stands at, if there is one

timerVars == <<left, stranded>>

Off == -1
Astray == -2

TimersInit == left = [a \in Alarms |-> Off] /\ stranded = None

Started(l, a, n) == [l EXCEPT ![a] = IF n = Longest THEN Astray ELSE n + 1]
Stopped(l, a)    == [l EXCEPT ![a] = Off]

Start ==
    /\ stranded = None /\ UNCHANGED stranded
    /\ \E a \in Alarms, n \in Delays : left[a] = Off /\ left' = Started(left, a, n)

Stop ==
    /\ stranded = None /\ UNCHANGED stranded
    /\ \E a \in Alarms : left[a] # Off /\ left' = Stopped(left, a)

\* Time goes on only when every alarm that was due has been called.
Tick ==
    /\ stranded = None /\ UNCHANGED stranded
    /\ \A a \in Alarms : left[a] # 0
    /\ left' = [a \in Alarms |-> IF left[a] > 0 THEN left[a] - 1 ELSE left[a]]

\* A callback may itself start or stop one alarm.
Callback(l) ==
    {l} \cup {Stopped(l, b) : b \in Alarms}
        \cup {Started(l, b, n) : b \in {c \in Alarms : l[c] = Off}, n \in Delays}

Call ==
    /\ stranded = None
    /\ \E a \in {b \in Alarms : left[b] \in {0, Astray}}, r \in Returns :
           \E l \in Callback(left) :
               /\ left' = IF r = 0 \/ l[a] = Off THEN Stopped(l, a)
                          ELSE IF l[a] = Astray THEN l
                          ELSE [l EXCEPT ![a] = r]
               /\ stranded' \in {None} \cup
                      {b \in Alarms \ {a} : left[b] # Off /\ l[b] = Off}

\* The callback of the stopped alarm, which stays off or is started again.
CallStranded ==
    /\ stranded # None
    /\ \E l \in Callback(left) :
           \/ left' = Stopped(l, stranded) /\ UNCHANGED stranded
           \/ /\ l[stranded] # Off
              /\ left' = [l EXCEPT ![stranded] = Astray] /\ stranded' = None

TimersNext == Start \/ Stop \/ Tick \/ Call \/ CallStranded

TimersSpec == TimersInit /\ [][TimersNext]_timerVars
===============================================================================
