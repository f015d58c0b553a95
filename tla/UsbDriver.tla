------------------------------ MODULE UsbDriver ------------------------------
(***************************************************************************)
(* The USB keyboard driver (main.c, usb.c) with the host chip it drives    *)
(* and the keyboard (both external).  The driver writes a list of TDs into *)
(* the chip's memory word by word, points the chip to it, polls a message  *)
(* register for the end of the list, and does the same again every 10 ms   *)
(* until there is a message: the chip may be at any place of the old list  *)
(* while the driver overwrites it, and meet a TD that is half written.     *)
(* Access to the chip is the atomic port that HpiBus.tla implements.       *)
(***************************************************************************)
EXTENDS TdLists

CONSTANTS Keys,             \* codes a report can hold, 0 for no key
          GameKeys,         \* codes of keys the game reacts to
          Tries,            \* looks for a device before giving it up
          Prompt,           \* does the chip take a list up within 10 ms?
          Ideal             \* do the chip and the keyboard keep up?
ASSUME KeysAssumption == /\ Keys \subseteq 0 .. 255 /\ 0 \notin GameKeys
                         /\ LinkCode(0) \notin GameKeys
                         /\ LinkCode(3) \notin GameKeys
ASSUME TriesAssumption == Tries \in Nat \ {0}
ASSUME ChipAssumption == /\ Prompt \in BOOLEAN /\ Ideal \in BOOLEAN
                         /\ Ideal => Prompt

\* hot_plug_count, bound by Tries here, by 5 and 7 in the code.
VARIABLES
    pc, step, slot, again, val, hot_plug_count,     \* main and usb.c
    keycode,                \* the register the game reads its key from
    list,                   \* external: the chip's memory, by slots: the step
                            \* whose TD is there, if any
    word, under,            \* how far the TD in slot is written, and what
                            \* it is written over
    packet,                 \* external: the request in the setup packet
    td508, key51e,          \* external: two words of it, retry and key
    cmd,                    \* external: what the mailbox asks the chip for
    msg, flag,              \* external: SIE1 message, and the flag of it
    start, at, td,          \* external: where the chip is to begin, where it
                            \* is, and the TD it is executing
    plugged, address, seen, report,         \* external: the keyboard
    reported                \* history: has the key word come with a report
                            \* since the last hot plug?

driver   == <<pc, step, slot, again, val, hot_plug_count>>
memory   == <<list, word, under, packet, td508, key51e>>
message  == <<msg, flag>>
engine   == <<start, at, td>>
keyboard == <<plugged, address, seen, report>>
vars == <<driver, keycode, memory, cmd, message, engine, keyboard,
          reported>>

Data == 0                   \* no TD is here, or no request
Patch == 11                 \* a place in the chip's memory that holds no list
Idle == 0
NoReport == -1
NoTd == [step |-> Data, stage |-> "none", address |-> 0, buffer |-> None,
         next |-> Idle]

\* Mail the chip may send apart from "list done": a device came or went.
Change == "change"
Done == "done"

\* A prompt chip has, whenever the driver has slept (ten frames of the bus),
\* gone to the list it was pointed to and fetched the first TD; it may be
\* slow in the rest.  An ideal one has finished its work by then, sends no
\* message but "list done", and no request to a keyboard that is there
\* fails.  Of one that is neither nothing is assumed.
Init ==
    /\ pc = "reset" /\ step = 1 /\ slot = 1 /\ again = FALSE /\ val = {}
    /\ hot_plug_count = 0 /\ keycode = 0
    /\ list = [s \in Slots |-> Data] /\ td508 = "new" /\ key51e = 0
    /\ word = "head" /\ under = Data /\ packet = Data
    /\ cmd = "none" /\ msg = {} /\ flag = FALSE
    /\ start = Idle /\ at = Idle /\ td = NoTd
    /\ plugged \in BOOLEAN /\ address = 0 /\ seen = {} /\ report = NoReport
    /\ reported = FALSE

Quiet == start = Idle /\ at = Idle /\ td = NoTd /\ cmd = "none"
TakenUp == start = Idle /\ (at = 1 => td # NoTd)
Goto(l) == pc' = l
External == UNCHANGED <<keyboard, reported>>
Calm == UNCHANGED <<keycode, memory, cmd, message, engine>> /\ External

------------------------------------------------------------------------------
(* USB_HOT_PLUG: reset of the chip, of its host controller and of the bus.  *)

HotPlug == Goto("reset") /\ step' = 1 /\ slot' = 1 /\ again' = FALSE
           /\ val' = {} /\ hot_plug_count' = 0

\* UsbSoftReset.  It sleeps 0.6 s, long enough for the chip to be reset; what
\* the chip's memory holds is not known any more.  What mail there was is
\* cleared, and the first routine is asked for.
SoftReset ==
    /\ pc = "reset" /\ Goto("status")
    /\ start' = Idle /\ at' = Idle /\ td' = NoTd
    /\ list' = [s \in Slots |-> Data] /\ td508' = "new" /\ packet' = Data
    /\ cmd' = "init" /\ msg' = {} /\ flag' = FALSE
    /\ reported' = FALSE
    /\ UNCHANGED <<step, slot, again, val, hot_plug_count, keycode, word, under,
                   key51e, keyboard>>

\* Any bit of the status ends the wait: the answer to the command or a message.
AwaitStatus ==
    /\ pc = "status" /\ (cmd = "none" \/ flag) /\ Goto("ack1")
    /\ UNCHANGED <<step, slot, again, val, hot_plug_count>> /\ Calm

\* The mailbox must hold an ACK; which routine it answers is not asked.
ResetBus ==
    /\ pc = "ack1"
    /\ \/ /\ Goto("ack2") /\ cmd' = "bus reset"
          /\ UNCHANGED <<step, slot, again, val, hot_plug_count>>
       \/ ~Ideal /\ HotPlug /\ UNCHANGED cmd
    /\ UNCHANGED <<keycode, memory, message, engine>> /\ External

\* No wait this time: the ACK may still be the one of the first routine.
BusIsReset ==
    /\ pc = "ack2"
    /\ \/ /\ Goto("port")
          /\ UNCHANGED <<step, slot, again, val, hot_plug_count>>
       \/ ~Ideal /\ HotPlug
    /\ Calm

\* Is there a device?  Some more looks, then the wait for one, and again.
Port ==
    /\ pc = "port"
    /\ IF plugged THEN Goto("write") /\ hot_plug_count' = 0
       ELSE IF hot_plug_count = Tries
            THEN Goto("absent") /\ hot_plug_count' = 0
            ELSE hot_plug_count' = hot_plug_count + 1 /\ UNCHANGED pc
    /\ UNCHANGED <<step, slot, again, val>> /\ Calm

Inserted == pc = "absent" /\ plugged /\ HotPlug /\ Calm

------------------------------------------------------------------------------
(* A step of the enumeration, or a poll.                                     *)

TdList == Lists[step]

\* The words of a TD up to the one that makes it active.  Its link is the last
\* word; until that is written, a chip that fetches the TD may get any of its
\* words as they were before.  (The words before the active one are of no
\* interest to a chip in the first slot: a new step begins when the TD there
\* is not active any more, and the same step writes the same words.)
WriteHead ==
    /\ pc = "write" /\ word = "head" /\ word' = "link"
    /\ list' = [list EXCEPT ![slot] = step] /\ under' = list[slot]
    /\ td508' = IF slot = 1 THEN "new" ELSE td508
    /\ UNCHANGED <<driver, keycode, packet, key51e, cmd, message, engine>>
    /\ External

\* The slot is written: on to the next one.
SlotWritten ==
    /\ word' = "head"
    /\ IF slot < Len(TdList) THEN slot' = slot + 1 /\ UNCHANGED pc
                             ELSE slot' = 1 /\ Goto("start")

\* Mutant: reports go to a place of their own, which no list overwrites.
WriteLink_KeyApart ==
    /\ pc = "write" /\ word = "link" /\ under' = Data
    /\ IF slot = 1 /\ step # Poll
       THEN /\ word' = "packet" /\ UNCHANGED <<pc, slot>>
            /\ packet' = IF packet = step THEN step ELSE Data
       ELSE SlotWritten /\ UNCHANGED packet
    /\ reported' = IF slot = 2 THEN FALSE ELSE reported
    /\ UNCHANGED <<step, again, val, hot_plug_count, keycode, list, td508, key51e,
                   cmd, message, engine, keyboard>>

\* The link.  The first TD of a request is followed by its setup packet; the
\* same step writes the same one, and until its last word the words of another
\* make no request.
WriteLink ==
    /\ pc = "write" /\ word = "link" /\ under' = Data
    /\ IF slot = 1 /\ step # Poll
       THEN /\ word' = "packet" /\ UNCHANGED <<pc, slot>>
            /\ packet' = IF packet = step THEN step ELSE Data
       ELSE SlotWritten /\ UNCHANGED packet
    /\ IF slot = 2
       THEN key51e' = LinkCode(TdList[2].next) /\ reported' = FALSE
       ELSE UNCHANGED <<key51e, reported>>
    /\ UNCHANGED <<step, again, val, hot_plug_count, keycode, list, td508, cmd,
                   message, engine, keyboard>>

\* The last word of the setup packet.
WritePacket ==
    /\ pc = "write" /\ word = "packet" /\ packet' = step /\ SlotWritten
    /\ UNCHANGED <<step, again, val, hot_plug_count, keycode, list, under, td508,
                   key51e, cmd, message, engine>> /\ External

\* UsbWrite(HUSB_SIE1_pCurrentTDPtr, 0x0500)
StartList ==
    /\ pc = "start" /\ start' = 1 /\ Goto("flag")
    /\ UNCHANGED <<step, slot, again, val, hot_plug_count, keycode, memory,
                   cmd, message, at, td>> /\ External

\* A look at the flag, the first one (but for one step) without a sleep
\* before it.  If there is no message, the whole list once more.
Slept == again \/ step = ConfigDesc2
CheckFlag ==
    /\ pc = "flag"
    /\ (Prompt /\ Slept => TakenUp) /\ (Ideal /\ Slept => Quiet)
    /\ Goto(IF flag THEN "msg" ELSE "write") /\ again' = ~flag
    /\ UNCHANGED <<step, slot, val, hot_plug_count>> /\ Calm

\* UsbWaitTDListDone, a turn of its loop: the read, which takes back the
\* flag, and the write that clears the message, perhaps not the one read.
ReadMessage ==
    /\ pc = "msg" /\ val' = msg /\ flag' = FALSE /\ Goto("clear")
    /\ UNCHANGED <<step, slot, again, hot_plug_count, keycode, memory,
                   cmd, msg, engine>> /\ External

ClearMessage ==
    /\ pc = "clear" /\ msg' = {} /\ val' = {}
    /\ Goto(IF val # {Done} THEN "msg"
            ELSE IF step = Poll THEN "key" ELSE "check")
    /\ UNCHANGED <<step, slot, again, hot_plug_count, keycode, memory,
                   cmd, flag, engine>> /\ External

\* Mutant: the success of the setup stage is not looked at.
CheckRetry_Not ==
    /\ pc = "check"
    /\ Goto(IF step = ConfigDesc2 THEN "patch" ELSE "write")
    /\ step' = step + 1
    /\ UNCHANGED <<slot, again, val, hot_plug_count>> /\ Calm

\* Was the setup a success?  If not, it all begins anew.
CheckRetry ==
    /\ pc = "check"
    /\ Goto(IF td508 # "done" THEN "retry"
            ELSE IF step = ConfigDesc2 THEN "patch" ELSE "write")
    /\ step' = IF td508 = "done" THEN step + 1 ELSE step
    /\ UNCHANGED <<slot, again, val, hot_plug_count>> /\ Calm

\* An endpoint descriptor is written into slot 10, which no list has used yet,
\* and the chip pointed to it.
PatchDescriptor ==
    /\ pc = "patch" /\ Goto("write") /\ start' = Patch
    /\ list' = [list EXCEPT ![10] = Data]
    /\ UNCHANGED <<step, slot, again, val, hot_plug_count, keycode, word, under,
                   packet, td508, key51e, cmd, message, at, td>> /\ External

\* Mutant: the other message is awaited in any case.
GetRetryCnt_Await ==
    /\ pc = "retry" /\ flag' = FALSE /\ Goto("retry clear")
    /\ UNCHANGED <<step, slot, again, val, hot_plug_count>>
    /\ UNCHANGED <<keycode, memory, cmd, msg, engine>> /\ External

\* UsbGetRetryCnt: a message "list done" is cleared, and another one awaited.
GetRetryCnt ==
    /\ pc = "retry" /\ flag' = FALSE
    /\ IF msg = {Done} THEN /\ Goto("retry clear")
                            /\ UNCHANGED <<step, slot, again, val,
                                           hot_plug_count>>
                       ELSE HotPlug
    /\ UNCHANGED <<keycode, memory, cmd, msg, engine>> /\ External

ClearRetry ==
    /\ pc = "retry clear" /\ Goto("retry wait") /\ msg' = {}
    /\ UNCHANGED <<step, slot, again, val, hot_plug_count, keycode, memory,
                   cmd, flag, engine>> /\ External

AwaitRetry == pc = "retry wait" /\ flag /\ HotPlug /\ Calm

\* The key, whether or not the poll has brought a report.
TakeKey ==
    /\ pc = "key" /\ keycode' = key51e /\ Goto("port2")
    /\ UNCHANGED <<step, slot, again, val, hot_plug_count, memory, cmd,
                   message, engine>> /\ External

PortWhilePolling ==
    /\ pc = "port2"
    /\ IF plugged THEN Goto("write") /\ hot_plug_count' = 0
       ELSE IF hot_plug_count = Tries
            THEN Goto("absent") /\ hot_plug_count' = 0
            ELSE hot_plug_count' = hot_plug_count + 1 /\ UNCHANGED pc
    /\ again' = FALSE
    /\ UNCHANGED <<step, slot, val>> /\ Calm

Driver == \/ SoftReset \/ AwaitStatus \/ ResetBus
          \/ BusIsReset \/ Port \/ Inserted \/ WriteHead \/ WriteLink
          \/ WritePacket \/ StartList
          \/ CheckFlag \/ ReadMessage \/ ClearMessage \/ CheckRetry
          \/ PatchDescriptor \/ GetRetryCnt \/ ClearRetry
          \/ AwaitRetry \/ TakeKey \/ PortWhilePolling

------------------------------------------------------------------------------
(* The chip (external).                                                     *)

\* A message overwrites the one before or is joined to it.
Post(m) == flag' = TRUE /\ msg' \in {{m}, msg \cup {m}}

\* A routine asked for through the mailbox.
ExecuteCommand ==
    /\ cmd # "none" /\ cmd' = "none"
    /\ IF cmd = "bus reset" THEN address' = 0 /\ seen' = {}
                            ELSE UNCHANGED <<address, seen>>
    /\ UNCHANGED <<driver, keycode, memory, message, engine, plugged, report,
                   reported>>

\* The chip goes to where it is pointed, whatever it was doing; to a TD that
\* is not active without a message, if it is ideal.
ChipStart ==
    /\ start # Idle /\ td = NoTd /\ start' = Idle
    /\ IF start = Patch
       THEN /\ at' = Idle
            /\ (~Ideal /\ Post(Done)) \/ UNCHANGED message
       ELSE at' = start /\ UNCHANGED message
    /\ UNCHANGED <<driver, keycode, memory, cmd, td, keyboard, reported>>

\* On with the list, or a message at its end.
Advance(next) ==
    /\ at' = next
    /\ IF next = Idle THEN Post(Done) ELSE UNCHANGED message

\* The steps whose words a slot holds: none if data was received there, two
\* while one TD is being written over another.
HalfWritten(s) == s = slot /\ word = "link"
Sources(s) ==
    IF list[s] = Data THEN {}
    ELSE {list[s]} \cup (IF HalfWritten(s) THEN {under} \ {Data} ELSE {})

\* A TD, its token, address and length of its buffer, and link as given by the
\* steps t, a, l and n.
Mixed(s, t, a, l, n) ==
    [step |-> t, stage |-> Lists[t][s].stage, address |-> Lists[t][s].address,
     buffer |-> <<Lists[a][s].buffer[1], Lists[l][s].buffer[2]>>,
     next |-> Lists[n][s].next]
Fetched(s) == {Mixed(s, t, a, l, n) : t, a, l, n \in Sources(s)}

\* A TD is fetched, and executed if it is active: of the first its retry word
\* tells, of the others it is left open.  What is no TD (data was received
\* in its slot) leads the chip astray, and it stops.
ChipFetch ==
    /\ at \in Slots /\ td = NoTd
    /\ \E t \in Fetched(at) :
          \/ /\ at = 1 => td508 = "new"
             /\ td' = t /\ UNCHANGED <<at, message>>
          \/ /\ at = 1 => td508 # "new" \/ HalfWritten(1)
             /\ UNCHANGED td /\ Advance(t.next)
    /\ UNCHANGED <<driver, keycode, memory, cmd, start, keyboard, reported>>

\* Executed: data is received in some slots, in the first of them where the
\* setup packet is.
Executed(data) ==
    /\ td' = NoTd
    /\ list' = [s \in Slots |-> IF s \in data \ {1} THEN Data ELSE list[s]]
    /\ packet' = IF 1 \in data THEN Data ELSE packet

\* A keyboard answers under its address, and to the later stages of a request
\* only if it has taken the setup stage.
Answers == plugged /\ address = td.address
           /\ (at # 1 => td.step \in seen)

\* What the keyboard takes of the first TD: the request that is in the setup
\* packet by then, or the poll.
Taken == IF td.stage = "poll" THEN {Poll} ELSE {packet} \ {Data}
Received == IF td.stage \in {"data", "poll"} THEN Touched(td.buffer) ELSE {}

ChipSuccess ==
    /\ td # NoTd /\ Answers
    /\ Executed(Received)
    /\ td508' = IF at = 1 THEN "done" ELSE td508
    /\ seen' = IF at = 1 THEN seen \cup Taken ELSE seen
    /\ address' = IF td.step = SetAddress /\ td.stage = "status" THEN 2
                  ELSE address
    /\ IF td.stage = "poll"
       THEN /\ report # NoReport /\ report' = NoReport
            /\ \/ 2 \in Received /\ key51e' = report /\ reported' = TRUE
               \/ UNCHANGED <<key51e, reported>>    \* taken for a repetition
       ELSE UNCHANGED <<key51e, reported, report>>
    /\ Advance(td.next)
    /\ UNCHANGED <<driver, keycode, word, under, cmd, start, plugged>>

\* No answer, or no report.  The rest of the list may be given up.
ChipFailure ==
    /\ td # NoTd
    /\ \/ ~Ideal \/ ~Answers
       \/ td.stage = "poll" /\ report = NoReport
    /\ Executed({})
    /\ td508' = IF at = 1 THEN "failed" ELSE td508
    /\ Advance(td.next) \/ Advance(Idle)
    /\ UNCHANGED <<driver, keycode, word, under, key51e, cmd, start>> /\ External

Chip == ExecuteCommand \/ ChipStart \/ ChipFetch \/ ChipSuccess \/ ChipFailure

------------------------------------------------------------------------------
(* The user (external).                                                     *)

Plug ==
    /\ plugged' = ~plugged /\ address' = 0 /\ seen' = {}
    /\ report' = NoReport
    /\ (~Ideal /\ Post(Change)) \/ UNCHANGED message
    /\ UNCHANGED <<driver, keycode, memory, cmd, engine, reported>>

\* A key is pressed or the keys are let go: the keyboard has a new report.
Press ==
    /\ plugged /\ step = Poll /\ report' \in Keys
    /\ UNCHANGED <<driver, keycode, memory, cmd, message, engine,
                   plugged, address, seen, reported>>

Next == Driver \/ Chip \/ Plug \/ Press

Spec == Init /\ [][Next]_vars

\* The driver is alone on its processor, the chip works by itself.
FairSpec == Spec /\ WF_vars(Driver) /\ WF_vars(Chip)

------------------------------------------------------------------------------
(* Properties.                                                              *)

\* If the chip is prompt, a keyboard never takes a request of the enumeration,
\* nor a poll, before all those that must come first, however slowly lists
\* are walked, started again, and overwritten word by word meanwhile, or the
\* keyboard is changed for another.
RequestsInOrder == Prompt => \A k \in seen : 1 .. k \subseteq seen

\* While the chip keeps up, it never runs into a TD of another list, into one
\* half of which is of another list, or into data, though most of the buffers
\* lie where other lists have their TDs.
ChipStaysInList ==
    Ideal /\ at \in Slots /\ pc # "reset" => Sources(at) = {step}

\* The game gets a key only if the keyboard reported it since the last hot
\* plug: not one left in the buffer, though a poll without a report is read
\* as well.
GameKeyWasReported ==
    [][keycode' # keycode /\ keycode' \in GameKeys => reported]_vars

\* While the chip keeps up the driver never waits for a message for ever: it
\* begins anew, polls or looks for a keyboard again and again.
NeverHangs ==
    Ideal => []<>(pc \in {"reset", "key", "absent"})
==============================================================================
