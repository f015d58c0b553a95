------------------------------ MODULE SystemClock -----------------------------
(***************************************************************************)
(* The system clock of the HAL (alt_tick.c, alt_alarm_start.c,             *)
(* alt_llist.h): a tick counter that wraps, and a list of alarms that the  *)
(* timer's interrupt walks at every tick.  An alarm holds the count at     *)
(* which it is due, and the flag rollover while that count lies beyond the *)
(* next wrap.  The JTAG UART driver watches the host with such an alarm.   *)
(*                                                                         *)
(* alt_alarm_start and alt_alarm_stop run with interrupts disabled, hence  *)
(* not within a tick, unless a callback calls them.  alt_llist_remove      *)
(* makes a removed alarm point to itself, so the list is a sequence and    *)
(* an alarm outside of it is its own successor.                            *)
(*                                                                         *)
(* This system is built without a timer: alt_ticks_per_second() is zero    *)
(* and alt_alarm_start refuses.  The module models the service with one.   *)
(***************************************************************************)
EXTENDS Integers, SequencesExt

CONSTANTS
    Alarms,
    WRAP,       \* 2^32, where the tick counter wraps
    Delays,     \* the delays alarms are started with
    HEAD        \* alt_alarm_list itself, no alarm

ASSUME ClockAssumption ==
    /\ WRAP \in Nat /\ WRAP > 1
    /\ Delays \subseteq 0..(WRAP - 1)
    /\ HEAD \notin Alarms

VARIABLES
    nticks,           \* _alt_nticks
    alarms,           \* alt_alarm_list, from its head
    time, rollover,   \* per alarm
    alarm,            \* where alt_tick is on its walk, HEAD when it is not running
    astray            \* history: the alarms whose count came out wrong

clockVars == <<nticks, alarms, time, rollover, alarm, astray>>

Returns == 0..(WRAP - 1)

ClockInit ==
    /\ nticks = 0
    /\ alarms = << >>
    /\ time = [a \in Alarms |-> 0]
    /\ rollover = [a \in Alarms |-> FALSE]
    /\ alarm = HEAD /\ astray = {}

-----------------------------------------------------------------------------
\* alt_llist_insert, alt_llist_remove, and the next pointers.
Where(list, a) == CHOOSE i \in 1..Len(list) : list[i] = a
Insert(list, a) == <<a>> \o list
Without(list, a) ==
    IF Contains(list, a) THEN RemoveAt(list, Where(list, a)) ELSE list
Listed(a) == Contains(alarms, a)
Position(a) == Where(alarms, a)
NextOf(a) ==
    IF ~Listed(a) THEN a
    ELSE IF Position(a) = Len(alarms) THEN HEAD
    ELSE alarms[Position(a) + 1]

Idle == alarm = HEAD

\* alt_alarm_start: the count n ticks and one from now.
DueTime(n) == (n + nticks + 1) % WRAP

\* The longest delay comes out as none: the count is the present one.
Longest == WRAP - 1
AstrayAfter(a, n) == IF n = Longest THEN astray \cup {a} ELSE astray \ {a}

AlarmStart(a, n) ==
    /\ Idle /\ ~Listed(a)
    /\ time' = [time EXCEPT ![a] = DueTime(n)]
    /\ rollover' = [rollover EXCEPT ![a] = DueTime(n) < nticks]
    /\ alarms' = Insert(alarms, a) /\ astray' = AstrayAfter(a, n)
    /\ UNCHANGED <<nticks, alarm>>

\* alt_alarm_stop.
AlarmStop(a) ==
    /\ Idle
    /\ alarms' = Without(alarms, a)
    /\ UNCHANGED <<nticks, time, rollover, alarm, astray>>

\* alt_tick begins.
TickBegins ==
    /\ Idle
    /\ nticks' = (nticks + 1) % WRAP
    /\ alarm' = IF alarms = << >> THEN HEAD ELSE Head(alarms)
    /\ UNCHANGED <<alarms, time, rollover, astray>>

-----------------------------------------------------------------------------
\* The wrap clears the flag before the alarm is looked at.
StillBeyond == rollover[alarm] /\ nticks # 0
Expired     == time[alarm] <= nticks /\ ~StillBeyond

\* alt_tick passes an alarm that is not due.
Pass ==
    /\ ~Idle /\ ~Expired
    /\ rollover' = [rollover EXCEPT ![alarm] = StillBeyond]
    /\ alarm' = NextOf(alarm)
    /\ UNCHANGED <<nticks, alarms, time, astray>>

\* Mutant: the flag is set when an alarm is started only.
RearmedRollover_Never(t) == FALSE

\* After the callback: due again, maybe beyond the wrap.
RearmedRollover(t) == t < nticks

\* alt_tick calls an alarm that is due, and the callback returns r.  list,
\* due and beyond are the list and the alarms' fields as the callback leaves
\* them; the successor was read before the call.
Called(r, list, due, beyond) ==
    /\ ~Idle /\ Expired
    /\ alarm' = NextOf(alarm)
    /\ \/ /\ r = 0
          /\ alarms' = Without(list, alarm)
          /\ time' = due /\ rollover' = beyond
       \/ /\ r # 0
          /\ alarms' = list
          /\ LET t == (due[alarm] + r) % WRAP
             IN  /\ time' = [due EXCEPT ![alarm] = t]
                 /\ rollover' = [beyond EXCEPT ![alarm] = @ \/ RearmedRollover(t)]
    /\ UNCHANGED nticks

\* The flag of an alarm that is called is down.
Cleared == [rollover EXCEPT ![alarm] = FALSE]

Call(r) == Called(r, alarms, time, Cleared) /\ UNCHANGED astray

\* The callback starts an alarm; its own only if it has been stopped, and then
\* what it returns is added to the count it has just been given.
CallStarting(r, b, n) ==
    /\ ~Listed(b)
    /\ Called(r, Insert(alarms, b), [time EXCEPT ![b] = DueTime(n)],
              [Cleared EXCEPT ![b] = DueTime(n) < nticks])
    /\ astray' = IF b = alarm THEN astray \cup {b} ELSE AstrayAfter(b, n)

\* The callback stops an alarm.  If that is the one alt_tick comes to next, the
\* walk goes on there, outside of the list, and has that alarm for successor.
CallStopping(r, b) ==
    Called(r, Without(alarms, b), time, Cleared) /\ UNCHANGED astray

ClockNext ==
    \/ TickBegins
    \/ \E a \in Alarms : AlarmStop(a)
    \/ \E a \in Alarms, n \in Delays : AlarmStart(a, n)
    \/ Pass
    \/ \E r \in Returns :
          \/ Call(r)
          \/ \E b \in Alarms : CallStopping(r, b)
          \/ \E b \in Alarms, n \in Delays : CallStarting(r, b, n)

ClockSpec == ClockInit /\ [][ClockNext]_clockVars

-----------------------------------------------------------------------------
\* How many ticks an alarm has to go.  While alt_tick is on its walk just
\* after the wrap, the alarms still before it have yet to lose their flag:
\* all of them when the walk stands outside of the list, which it can enter
\* again at its head only.
NotYetVisited(a) == ~Idle /\ (Listed(alarm) => Position(a) >= Position(alarm))
Beyond(a)        == rollover[a] /\ ~(nticks = 0 /\ NotYetVisited(a))
TicksLeft(a)     == time[a] - nticks + (IF Beyond(a) THEN WRAP ELSE 0)

Left(a) == IF ~Listed(a) THEN -1 ELSE IF a \in astray THEN -2 ELSE TicksLeft(a)

Promise == INSTANCE Timers WITH
    left <- [a \in Alarms |-> Left(a)],
    stranded <- IF Idle \/ Listed(alarm) THEN HEAD ELSE alarm,
    None <- HEAD

\* Every alarm but those set to the longest delay is called in exactly the tick
\* it was set to, across any number of wraps of the counter, also when
\* callbacks start, stop and rearm alarms while alt_tick is walking the list.
\* Only a callback that stops another alarm can strand the walk; and whatever
\* is called at a stranded one, no alarm of the list misses its tick.
ImplementsTimers == Promise!TimersSpec

\* alt_tick calls an alarm only if it is registered.  Does not hold: a callback
\* may stop the alarm that alt_tick has read as the next one.
StoppedStaysSilent == ~Idle /\ Expired => Listed(alarm)
===============================================================================
