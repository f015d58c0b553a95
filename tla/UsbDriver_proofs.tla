--------------------------- MODULE UsbDriver_proofs ---------------------------
(***************************************************************************)
(* A chip that takes lists up in time gets the requests of the enumeration *)
(* to a keyboard in their order, whatever chip, keyboard and user do else; *)
(* with any chip the game gets reported keys only.  A chip that keeps up   *)
(* with the driver never leaves the list of the step.                      *)
(***************************************************************************)
EXTENDS UsbDriver, TLAPS

-----------------------------------------------------------------------------
(* The lists of usb.c *)

\* SET_ADDRESS goes to address 0 and everything after it to address 2; the
\* first TD is that of a setup stage, or the poll.
LEMMA FirstTds ==
    \A k \in Steps :
        /\ Lists[k][1].address = IF k = SetAddress THEN 0 ELSE 2
        /\ Lists[k][1].stage = IF k = Poll THEN "poll" ELSE "setup"
  BY DEF Lists, Steps, SetAddress, Poll, UsbSetAddress, UsbGetDeviceDesc1,
         UsbGetDeviceDesc2, UsbGetConfigDesc1, UsbGetConfigDesc2, UsbSetConfig,
         UsbClassRequest, UsbGetHidDesc, UsbGetReportDesc, PollList, Control, Td

LEMMA Lengths ==
    /\ \A k \in Steps : Len(Lists[k]) \in Nat /\ Len(Lists[k]) >= 1
                       /\ 1 \in 1 .. Len(Lists[k])
    /\ Len(Lists[SetAddress]) = 2
  BY DEF Lists, Steps, SetAddress, UsbSetAddress, UsbGetDeviceDesc1,
         UsbGetDeviceDesc2, UsbGetConfigDesc1, UsbGetConfigDesc2, UsbSetConfig,
         UsbClassRequest, UsbGetHidDesc, UsbGetReportDesc, PollList, Control, Td

\* What WriteLink leaves in the key word is no key of the game.
LEMMA LinkIsNoKey ==
    \A k \in Steps : Len(Lists[k]) >= 2 => LinkCode(Lists[k][2].next) \notin GameKeys
<1>1. \A a, d : Len(d) \in Nat => Control(a, d)[2].next \in {0, 3}
  BY DEF Control, Td
<1>2. \A k \in Steps \ {Poll} : \E a, d : Len(d) \in Nat /\ Lists[k] = Control(a, d)
  <2>1. SUFFICES ASSUME NEW k \in Steps \ {Poll}
                 PROVE  \E d : Len(d) \in Nat
                               /\ Lists[k] = Control(IF k = SetAddress THEN 0 ELSE 2, d)
    OBVIOUS
  <2>2. CASE k \in {1, 6, 7}
    BY <2>2, Len(<< >>) = 0 DEF Lists, SetAddress, UsbSetAddress, UsbSetConfig, UsbClassRequest
  <2>3. CASE k \in {2, 3, 4}
    BY <2>3 DEF Lists, SetAddress, UsbGetDeviceDesc1, UsbGetDeviceDesc2, UsbGetConfigDesc1
  <2>4. CASE k = 5
    BY <2>4 DEF Lists, SetAddress, UsbGetConfigDesc2
  <2>5. CASE k = 8
    BY <2>5 DEF Lists, SetAddress, UsbGetHidDesc
  <2>6. CASE k = 9
    BY <2>6 DEF Lists, SetAddress, UsbGetReportDesc
  <2> QED  BY <2>2, <2>3, <2>4, <2>5, <2>6 DEF Steps, Poll
<1>3. Len(Lists[Poll]) = 1
  BY DEF Lists, Poll, PollList
<1>4. \A k \in Steps : Len(Lists[k]) >= 2 => Lists[k][2].next \in {0, 3}
  BY <1>1, <1>2, <1>3
<1> QED  BY <1>4, KeysAssumption

\* Every buffer of a data stage, and that of the poll, begins where the list's
\* own TDs end, or later, and has eight bytes at most.
LEMMA BuffersFollow ==
    \A k \in Steps : \A s \in 1 .. Len(Lists[k]) : s # 1 \/ k = Poll =>
        /\ Lists[k][s].buffer[1] \in Nat /\ Lists[k][s].buffer[2] \in 0 .. 8
        /\ Lists[k][s].buffer = None \/ End(Len(Lists[k])) <= Lists[k][s].buffer[1]
<1>1. SUFFICES ASSUME NEW k \in Steps, NEW s \in 1 .. Len(Lists[k]), s # 1 \/ k = Poll
               PROVE  /\ Lists[k][s].buffer[1] \in Nat /\ Lists[k][s].buffer[2] \in 0 .. 8
                      /\ \/ Lists[k][s].buffer = None
                         \/ End(Len(Lists[k])) <= Lists[k][s].buffer[1]
  OBVIOUS
<1>2. k \in {1, 2, 3, 4, 5, 6, 7, 8, 9, 10}
  BY DEF Steps
<1> USE DEF Lists, End, At, Poll, None
<1>10. CASE k = 1
  BY <1>1, <1>10 DEF UsbSetAddress, Control, Td
<1>11. CASE k = 6
  BY <1>1, <1>11 DEF UsbSetConfig, Control, Td
<1>12. CASE k = 7
  BY <1>1, <1>12 DEF UsbClassRequest, Control, Td
<1>3. CASE k = 2
  BY <1>1, <1>3 DEF UsbGetDeviceDesc1, Control, Td
<1>4. CASE k = 3
  BY <1>1, <1>4 DEF UsbGetDeviceDesc2, Control, Td
<1>5. CASE k = 4
  BY <1>1, <1>5 DEF UsbGetConfigDesc1, Control, Td
<1>6. CASE k = 5
  BY <1>1, <1>6 DEF UsbGetConfigDesc2, Control, Td
<1>7. CASE k = 8
  BY <1>1, <1>7 DEF UsbGetHidDesc, Control, Td
<1>8. CASE k = 9
  BY <1>1, <1>8 DEF UsbGetReportDesc, Control, Td
<1>9. CASE k = 10
  BY <1>1, <1>9 DEF PollList, Td
<1> HIDE DEF Lists, End, At, Poll, None
<1> QED  BY <1>2, <1>3, <1>4, <1>5, <1>6, <1>7, <1>8, <1>9, <1>10, <1>11, <1>12

\* A list is walked within itself: to the end, or to another of its TDs, but
\* never back to the first.
LEMMA NextTds ==
    \A k \in Steps : \A s \in 1 .. Len(Lists[k]) :
        Lists[k][s].next \in 0 .. Len(Lists[k]) /\ Lists[k][s].next # 1
<1>1. SUFFICES ASSUME NEW k \in Steps, NEW s \in 1 .. Len(Lists[k])
               PROVE  Lists[k][s].next \in 0 .. Len(Lists[k]) /\ Lists[k][s].next # 1
  OBVIOUS
<1> USE DEF Lists
<1>2. CASE k = 1
  BY <1>2 DEF UsbSetAddress, Control, Td
<1>3. CASE k = 6
  BY <1>3 DEF UsbSetConfig, Control, Td
<1>4. CASE k = 7
  BY <1>4 DEF UsbClassRequest, Control, Td
<1>5. CASE k = 2
  BY <1>5 DEF UsbGetDeviceDesc1, Control, Td
<1>6. CASE k = 3
  BY <1>6 DEF UsbGetDeviceDesc2, Control, Td
<1>7. CASE k = 4
  BY <1>7 DEF UsbGetConfigDesc1, Control, Td
<1>8. CASE k = 5
  BY <1>8 DEF UsbGetConfigDesc2, Control, Td
<1>9. CASE k = 8
  BY <1>9 DEF UsbGetHidDesc, Control, Td
<1>10. CASE k = 9
  BY <1>10 DEF UsbGetReportDesc, Control, Td
<1>11. CASE k = 10
  BY <1>11 DEF PollList, Td
<1> QED  BY <1>2, <1>3, <1>4, <1>5, <1>6, <1>7, <1>8, <1>9, <1>10, <1>11 DEF Steps

\* All lists fit into the ten slots.
LEMMA Fitting == \A k \in Steps : Len(Lists[k]) \in Nat /\ Len(Lists[k]) <= 10
<1>1. ASSUME NEW k \in Steps PROVE Len(Lists[k]) \in 1 .. 10
  <2> USE DEF Lists
  <2>1. CASE k \in {1, 6, 7}
    BY <2>1 DEF UsbSetAddress, UsbSetConfig, UsbClassRequest, Control
  <2>2. CASE k \in {2, 3, 4}
    BY <2>2 DEF UsbGetDeviceDesc1, UsbGetDeviceDesc2, UsbGetConfigDesc1, Control
  <2>3. CASE k \in {5, 8, 9}
    BY <2>3 DEF UsbGetConfigDesc2, UsbGetHidDesc, UsbGetReportDesc, Control
  <2>4. CASE k = 10
    BY <2>4 DEF PollList
  <2> QED  BY <2>1, <2>2, <2>3, <2>4 DEF Steps
<1>2. \A n \in 1 .. 10 : n \in Nat /\ n <= 10
  OBVIOUS
<1> QED  BY <1>1, <1>2, Zenon

-----------------------------------------------------------------------------
(* The invariant *)

Booting == {"reset", "status", "ack1", "ack2", "port"}

\* Where the driver is tells its step, and where in a list it may be.
DriverPlace ==
    /\ step \in Steps /\ slot \in 1 .. Len(Lists[step])
    /\ word \in {"head", "link", "packet"}
    /\ pc # "write" => slot = 1 /\ word = "head"
    /\ word = "packet" => slot = 1 /\ step # Poll
    /\ again => pc \in {"write", "start", "flag"}
    /\ pc \in Booting => step = SetAddress
    /\ pc = "check" => step # Poll
    /\ pc \in {"key", "port2"} => step = Poll

\* A TD that does not lead back to the first slot, where nothing is received
\* through it either.
TdOK(t) ==
    /\ t.step \in Steps /\ t.next # 1
    /\ t.stage \in {"data", "poll"} => 1 \notin Touched(t.buffer)

\* The TD that step k has in the first slot.
First(k) == Mixed(1, k, k, k, k)

Types ==
    /\ list \in [Slots -> Steps \cup {Data}]
    /\ \A s \in Slots : list[s] # Data => s <= Len(Lists[list[s]])
    /\ under \in Steps \cup {Data}
    /\ word = "link" /\ under # Data => slot <= Len(Lists[under])
    /\ packet \in Steps \cup {Data}
    /\ td = NoTd \/ TdOK(td)
    /\ seen \subseteq Steps

\* The first TD of the step is still to be written.
Beginning == pc \in {"write", "patch"} /\ slot = 1 /\ word = "head"

\* The first slot holds a TD as a whole, with the request that belongs to it;
\* and it is that of the step.
Settled ==
    /\ list[1] \in {Data, Poll} \/ packet = list[1]
    /\ slot = 1 /\ word = "link" => under = list[1]
Ready == list[1] = step /\ Settled

\* The chip is not in the first slot, nor on its way there.
Away == start # 1 /\ at # 1

\* The chip meets nothing in the first slot that is half written.
Apart == (IF pc = "reset" THEN Settled ELSE Ready) \/ Away

Complete ==
    /\ \/ again
       \/ pc \in {"start", "flag", "msg", "clear", "check", "key", "port2"}
       \/ pc = "write" /\ slot # 1
       => Ready
    /\ pc = "write" /\ word # "head" /\ slot = 1 => list[1] = step

\* Before the list of a step is started the first time, the chip is away; from
\* then on until the next step, it is away again when it has been through the
\* first TD.
Early ==
    \/ pc \in {"status", "ack1", "ack2", "port"}
    \/ pc \in {"patch", "write", "start"} /\ ~again /\ step # Poll
Late ==
    /\ step # Poll
    /\ (pc = "flag" /\ ~again) \/ pc \in {"msg", "clear", "check"}
Timing ==
    /\ Early => Away /\ (Beginning \/ pc \notin {"write", "start"} \/ td508 = "new")
    /\ Late => (td508 # "new" => Away) /\ (start = 1 => at # 1)

\* The chip executes the TD that is in the first slot, and only if it is new.
Flight == at = 1 /\ td # NoTd => td508 = "new" /\ list[1] \in Steps /\ td = First(list[1])

\* A keyboard has an address only after SET_ADDRESS, and one that has seen
\* SET_ADDRESS has seen everything the driver has got through since.
Served ==
    /\ address = 2 => SetAddress \in seen
    /\ SetAddress \in seen => 1 .. step - 1 \subseteq seen
    /\ SetAddress \in seen /\ list[1] # Data /\ td508 = "new"
         => 1 .. list[1] - 1 \subseteq seen
    /\ SetAddress \in seen /\ td508 = "done" /\ pc # "reset" /\ ~Beginning
         => step \in seen

InOrder == \A k \in seen : 1 .. k \subseteq seen

OrderInv ==
    DriverPlace /\ Types /\ Apart /\ Complete /\ Timing /\ Flight /\ Served /\ InOrder

LEMMA OrderInit == Init => OrderInv
<1> SUFFICES ASSUME Init PROVE OrderInv
  OBVIOUS
<1> USE DEF Init, Steps, Slots, SetAddress, Poll, Data, Idle
<1>1. DriverPlace /\ Types
  BY Lengths DEF DriverPlace, Types, Booting
<1>2. Apart /\ Complete /\ Timing
  BY DEF Apart, Complete, Timing, Away, Early, Late
<1>3. Flight /\ Served /\ InOrder
  BY DEF Flight, Served, InOrder
<1> QED  BY <1>1, <1>2, <1>3 DEF OrderInv

LEMMA HotPlugPlace ==
    ASSUME HotPlug, UNCHANGED word, DriverPlace, pc # "write" PROVE DriverPlace'
  BY Lengths DEF HotPlug, Goto, DriverPlace, Booting, Steps, SetAddress, Poll

LEMMA SlotWrittenPlace ==
    ASSUME DriverPlace, SlotWritten, pc = "write", UNCHANGED <<step, again>>
    PROVE  DriverPlace'
<1>1. Len(Lists[step]) \in Nat /\ 1 \in 1 .. Len(Lists[step])
  BY Lengths DEF DriverPlace
<1>2. CASE slot < Len(TdList)
  BY <1>1, <1>2 DEF SlotWritten, TdList, DriverPlace, Booting, Goto
<1>3. CASE ~(slot < Len(TdList))
  BY <1>1, <1>3 DEF SlotWritten, TdList, DriverPlace, Booting, Goto
<1> QED  BY <1>2, <1>3

LEMMA PlaceNext == ASSUME DriverPlace, [Next]_vars PROVE DriverPlace'
<1> USE DEF DriverPlace, Booting, Steps, SetAddress, Poll, Goto, driver, Calm, memory
<1>1. CASE SoftReset
  BY <1>1 DEF SoftReset
<1>2. CASE AwaitStatus
  BY <1>2 DEF AwaitStatus
<1>3. CASE ResetBus
  <2>1. pc = "ack1" /\ UNCHANGED word
    BY <1>3 DEF ResetBus
  <2>2. CASE HotPlug
    BY <2>1, <2>2, HotPlugPlace
  <2>3. CASE ~HotPlug
    <3>1. pc' = "ack2" /\ UNCHANGED <<step, slot, again, val, word>>
      BY <1>3, <2>1, <2>3, Zenon DEF ResetBus
    <3> QED  BY <2>1, <3>1
  <2> QED  BY <2>2, <2>3
<1>4. CASE BusIsReset
  BY <1>4, HotPlugPlace DEF BusIsReset
<1>5. CASE Port
  BY <1>5 DEF Port
<1>6. CASE Inserted
  BY <1>6, HotPlugPlace DEF Inserted
<1>7. CASE WriteHead
  BY <1>7 DEF WriteHead
<1>8. CASE WriteLink
  <2>1. CASE slot = 1 /\ step # Poll
    BY <1>8, <2>1 DEF WriteLink
  <2>2. CASE ~(slot = 1 /\ step # Poll)
    BY <1>8, <2>2, SlotWrittenPlace DEF WriteLink
  <2> QED  BY <2>1, <2>2
<1>9. CASE WritePacket
  BY <1>9, SlotWrittenPlace DEF WritePacket
<1>10. CASE StartList
  BY <1>10 DEF StartList
<1>11. CASE CheckFlag
  BY <1>11 DEF CheckFlag
<1>12. CASE ReadMessage
  BY <1>12 DEF ReadMessage
<1>13. CASE ClearMessage
  BY <1>13 DEF ClearMessage
<1>14. CASE CheckRetry
  <2>1. pc' \in {"retry", "patch", "write"} /\ slot' = 1 /\ word' = "head" /\ ~again'
    <3>1. CASE td508 = "done" /\ step = ConfigDesc2
      BY <1>14, <3>1 DEF CheckRetry
    <3>2. CASE td508 = "done" /\ step # ConfigDesc2
      BY <1>14, <3>2 DEF CheckRetry
    <3>3. CASE td508 # "done"
      BY <1>14, <3>3 DEF CheckRetry
    <3> QED  BY <3>1, <3>2, <3>3
  <2>2. step' \in Steps
    BY <1>14 DEF CheckRetry
  <2>3. 1 \in 1 .. Len(Lists[step'])
    BY <2>2, Lengths
  <2> QED  BY <2>1, <2>2, <2>3
<1>15. CASE PatchDescriptor
  BY <1>15 DEF PatchDescriptor
<1>16. CASE GetRetryCnt
  BY <1>16, HotPlugPlace DEF GetRetryCnt
<1>17. CASE ClearRetry
  BY <1>17 DEF ClearRetry
<1>18. CASE AwaitRetry
  BY <1>18, HotPlugPlace DEF AwaitRetry
<1>19. CASE TakeKey
  BY <1>19 DEF TakeKey
<1>20. CASE PortWhilePolling
  BY <1>20 DEF PortWhilePolling
<1>21. CASE Chip \/ Plug \/ Press
  <2>1. UNCHANGED <<pc, step, slot, again, word>>
    BY <1>21 DEF Chip, Plug, Press, ExecuteCommand, ChipStart, ChipFetch, ChipSuccess, ChipFailure
  <2> QED  BY <2>1
<1>22. CASE UNCHANGED vars
  BY <1>22 DEF vars
<1> QED
  BY <1>1, <1>2, <1>3, <1>4, <1>5, <1>6, <1>7, <1>8, <1>9, <1>10, <1>11, <1>12, <1>13,
     <1>14, <1>15, <1>16, <1>17, <1>18, <1>19, <1>20, <1>21, <1>22 DEF Next, Driver


-----------------------------------------------------------------------------
(* What the chip can fetch *)

LEMMA InSlots ==
    ASSUME NEW k \in Steps, NEW s \in 1 .. Len(Lists[k]) PROVE s \in Slots
  BY Fitting DEF Slots

LEMMA SourcesOK ==
    ASSUME Types, DriverPlace, NEW s \in Slots, NEW k \in Sources(s)
    PROVE  k \in Steps /\ s \in 1 .. Len(Lists[k])
<1>1. list[s] # Data /\ list[s] \in Steps /\ s <= Len(Lists[list[s]])
  BY DEF Sources, Types
<1>2. CASE k = list[s]
  BY <1>1, <1>2, Lengths DEF Slots
<1>3. CASE k # list[s]
  <2>1. s = slot /\ word = "link" /\ k = under /\ under # Data /\ under \in Steps
    BY <1>3 DEF Sources, HalfWritten, Types
  <2>2. slot <= Len(Lists[under])
    BY <2>1 DEF Types
  <2> QED  BY <2>1, <2>2, Lengths DEF Slots
<1> QED  BY <1>2, <1>3

LEMMA FirstOf ==
    ASSUME NEW k \in Steps
    PROVE  /\ TdOK(First(k)) /\ First(k) # NoTd /\ First(k).step = k
           /\ First(k).address = IF k = SetAddress THEN 0 ELSE 2
           /\ First(k).stage = IF k = Poll THEN "poll" ELSE "setup"
<1>1. /\ First(k).step = k /\ First(k).stage = Lists[k][1].stage
      /\ First(k).address = Lists[k][1].address
      /\ First(k).next = Lists[k][1].next
      /\ First(k).buffer = <<Lists[k][1].buffer[1], Lists[k][1].buffer[2]>>
  BY DEF First, Mixed
<1>2. First(k).next # 1
  BY <1>1, Lengths, NextTds
<1>3. First(k).stage \in {"data", "poll"} => 1 \notin Touched(First(k).buffer)
  <2>1. SUFFICES ASSUME k = Poll PROVE 1 \notin Touched(First(k).buffer)
    BY <1>1, FirstTds
  <2>2. First(k).buffer = <<\h051C, 8>>
    BY <1>1, <2>1 DEF Lists, Poll, PollList, Td
  <2> QED  BY <2>2 DEF Touched, End, At, Slots
<1>4. First(k) # NoTd
  BY <1>1 DEF NoTd, Steps, Data
<1> QED  BY <1>1, <1>2, <1>3, <1>4, FirstTds DEF TdOK

\* A buffer of eight bytes at most that begins behind the first slot, or at 0.
LEMMA BehindFirst ==
    ASSUME NEW b \in Nat, NEW n \in 0 .. 8, b = 0 \/ b >= \h0514
    PROVE  1 \notin Touched(<<b, n>>)
  BY DEF Touched, End, At, Slots

LEMMA Behind ==
    ASSUME NEW k \in Steps, NEW s \in 1 .. Len(Lists[k]), s # 1
    PROVE  /\ Lists[k][s].buffer[1] \in Nat /\ Lists[k][s].buffer[2] \in 0 .. 8
           /\ Lists[k][s].buffer[1] = 0 \/ Lists[k][s].buffer[1] >= \h0514
<1>1. /\ Lists[k][s].buffer[1] \in Nat /\ Lists[k][s].buffer[2] \in 0 .. 8
      /\ Lists[k][s].buffer = None \/ End(Len(Lists[k])) <= Lists[k][s].buffer[1]
  BY BuffersFollow
<1>2. CASE Lists[k][s].buffer = None
  BY <1>1, <1>2 DEF None
<1>3. CASE End(Len(Lists[k])) <= Lists[k][s].buffer[1]
  <2>1. Len(Lists[k]) \in Nat /\ Len(Lists[k]) > 1
    BY Lengths
  <2>2. End(Len(Lists[k])) \in Nat /\ End(Len(Lists[k])) >= \h0514
    BY <2>1 DEF End, At
  <2> QED  BY <1>1, <1>3, <2>2
<1> QED  BY <1>1, <1>2, <1>3

LEMMA FetchedElsewhere ==
    ASSUME Types, DriverPlace, NEW s \in Slots \ {1}, NEW t \in Fetched(s)
    PROVE  TdOK(t)
<1>1. PICK k \in Sources(s), a \in Sources(s), l \in Sources(s), n \in Sources(s) :
          t = Mixed(s, k, a, l, n)
  BY DEF Fetched
<1>2. /\ k \in Steps /\ a \in Steps /\ l \in Steps /\ n \in Steps
      /\ s \in 1 .. Len(Lists[a]) /\ s \in 1 .. Len(Lists[l]) /\ s \in 1 .. Len(Lists[n])
  BY SourcesOK
<1>3. /\ t.step = k /\ t.next = Lists[n][s].next
      /\ t.buffer = <<Lists[a][s].buffer[1], Lists[l][s].buffer[2]>>
  BY <1>1 DEF Mixed
<1>4. t.next # 1
  BY <1>2, <1>3, NextTds
<1>5. /\ Lists[a][s].buffer[1] \in Nat /\ Lists[l][s].buffer[2] \in 0 .. 8
      /\ Lists[a][s].buffer[1] = 0 \/ Lists[a][s].buffer[1] >= \h0514
  BY <1>2, Behind
<1>6. 1 \notin Touched(t.buffer)
  BY <1>3, <1>5, BehindFirst
<1> QED  BY <1>2, <1>3, <1>4, <1>6 DEF TdOK

LEMMA FetchedFirst ==
    ASSUME Settled, NEW t \in Fetched(1)
    PROVE  list[1] # Data /\ t = First(list[1])
<1>1. Sources(1) = {} \/ (list[1] # Data /\ Sources(1) = {list[1]})
  BY DEF Sources, HalfWritten, Settled
<1>2. PICK k \in Sources(1), a \in Sources(1), l \in Sources(1), n \in Sources(1) :
          t = Mixed(1, k, a, l, n)
  BY DEF Fetched
<1> QED  BY <1>1, <1>2 DEF First

LEMMA NotAway == ASSUME OrderInv, ~Away PROVE Settled /\ (pc # "reset" => Ready)
  BY DEF OrderInv, Apart, Ready

LEMMA FetchedOK ==
    ASSUME OrderInv, at \in Slots, NEW t \in Fetched(at)
    PROVE  TdOK(t) /\ (at = 1 => list[1] \in Steps /\ t = First(list[1]))
<1>1. CASE at = 1
  <2>1. list[1] # Data /\ t = First(list[1])
    BY <1>1, NotAway, FetchedFirst DEF Away
  <2>2. list[1] \in Steps
    BY <2>1 DEF OrderInv, Types, Slots
  <2> QED  BY <2>1, <2>2, FirstOf
<1>2. CASE at # 1
  BY <1>2, FetchedElsewhere DEF OrderInv
<1> QED  BY <1>1, <1>2

-----------------------------------------------------------------------------
(* The driver *)

OrderState == <<list, word, under, packet, td508, start, at, td, address, seen>>

\* A step of the driver that writes nothing.
LEMMA OrderStays ==
    ASSUME OrderInv, UNCHANGED OrderState, UNCHANGED slot
    PROVE  Types' /\ Flight' /\ InOrder' /\ Settled' = Settled /\ Away' = Away
<1> USE DEF OrderState, OrderInv
<1>1. Types'
  BY DEF Types, TdOK
<1>2. Flight'
  BY DEF Flight, First, Mixed
<1>3. InOrder'
  BY DEF InOrder
<1>4. Settled' = Settled /\ Away' = Away
  BY DEF Settled, Away
<1> QED  BY <1>1, <1>2, <1>3, <1>4

LEMMA GoesOn ==
    ASSUME OrderInv, DriverPlace', UNCHANGED OrderState, UNCHANGED <<slot, step>>,
           pc \notin {"reset", "write", "patch"}, Complete', Timing'
    PROVE  OrderInv'
<1>1. Types' /\ Flight' /\ InOrder' /\ Settled' = Settled /\ Away' = Away
  BY OrderStays
<1>2. Apart'
  BY <1>1 DEF OrderInv, Apart, Ready, OrderState
<1>3. Served'
  BY DEF OrderInv, Served, OrderState, Beginning
<1> QED  BY <1>1, <1>2, <1>3 DEF OrderInv

LEMMA BeginsAnew ==
    ASSUME OrderInv, DriverPlace', UNCHANGED OrderState, HotPlug,
           pc \notin {"reset", "write"}
    PROVE  OrderInv'
<1>1. pc' = "reset" /\ step' = 1 /\ slot' = slot /\ again' = FALSE /\ word' = "head"
  BY DEF HotPlug, Goto, OrderInv, DriverPlace, OrderState
<1>2. Types' /\ Flight' /\ InOrder' /\ Settled' = Settled /\ Away' = Away
  BY <1>1, OrderStays
<1>3. Apart'
  BY <1>1, <1>2 DEF OrderInv, Apart, Ready
<1>4. Complete' /\ Timing'
  BY <1>1 DEF Complete, Timing, Early, Late
<1>5. Served'
  BY <1>1 DEF OrderInv, Served, OrderState, SetAddress
<1> QED  BY <1>2, <1>3, <1>4, <1>5 DEF OrderInv

LEMMA OrderSoftReset == ASSUME OrderInv, SoftReset, DriverPlace' PROVE OrderInv'
<1>1. /\ pc = "reset" /\ pc' = "status" /\ start' = Idle /\ at' = Idle /\ td' = NoTd
      /\ list' = [s \in Slots |-> Data] /\ td508' = "new" /\ packet' = Data
      /\ UNCHANGED <<step, slot, again, word, under, seen, address>>
  BY DEF SoftReset, Goto, keyboard
<1>2. word = "head" /\ slot = 1 /\ ~again
  BY <1>1 DEF OrderInv, DriverPlace
<1>3. Types'
  BY <1>1, <1>2 DEF OrderInv, Types
<1>4. Apart' /\ Complete' /\ Timing'
  BY <1>1, <1>2 DEF Apart, Away, Complete, Timing, Early, Late, Idle
<1>5. Flight' /\ InOrder'
  BY <1>1 DEF OrderInv, Flight, InOrder
<1>6. Served'
  BY <1>1 DEF OrderInv, Served, Slots, Beginning
<1> QED  BY <1>3, <1>4, <1>5, <1>6 DEF OrderInv

LEMMA OrderCheckFlag ==
    ASSUME Prompt, OrderInv, CheckFlag, DriverPlace' PROVE OrderInv'
<1>1. /\ pc = "flag" /\ pc' \in {"msg", "write"} /\ slot = 1 /\ word = "head"
      /\ pc' = "write" => again'
      /\ UNCHANGED <<step, slot>> /\ UNCHANGED OrderState
  BY DEF CheckFlag, Goto, Calm, External, memory, engine, keyboard, OrderState, OrderInv,
         DriverPlace
<1>2. Ready
  BY <1>1 DEF OrderInv, Complete
<1>3. Complete'
  BY <1>1, <1>2 DEF Complete, Ready, Settled, OrderState
<1>4. ASSUME step # Poll PROVE (td508 # "new" => Away) /\ (start = 1 => at # 1)
  <2>1. CASE again
    <3>1. TakenUp
      BY <2>1 DEF CheckFlag, Slept
    <3> QED  BY <3>1 DEF TakenUp, OrderInv, Flight, Away, Idle
  <2>2. CASE ~again
    BY <1>1, <1>4, <2>2 DEF OrderInv, Timing, Late
  <2> QED  BY <2>1, <2>2
<1>5. Timing'
  <2>1. Late' => ((td508 # "new" => Away) /\ (start = 1 => at # 1))
    BY <1>1, <1>4 DEF Late
  <2>2. ~Early'
    BY <1>1 DEF Early
  <2> QED  BY <1>1, <2>1, <2>2 DEF Timing, OrderState, Away
<1> QED  BY <1>1, <1>3, <1>5, GoesOn

LEMMA OrderCheckRetry == ASSUME OrderInv, CheckRetry, DriverPlace' PROVE OrderInv'
<1>1. /\ pc = "check" /\ slot = 1 /\ word = "head" /\ ~again /\ step # Poll
      /\ step \in Steps
      /\ UNCHANGED <<slot, again>> /\ UNCHANGED OrderState
  BY DEF CheckRetry, Calm, External, memory, engine, keyboard, OrderState, OrderInv,
         DriverPlace
<1>2. CASE td508 # "done"
  <2>1. pc' = "retry" /\ step' = step
    BY <1>2 DEF CheckRetry, Goto
  <2>2. ~again'
    BY <1>1
  <2>3. Complete' /\ Timing'
    BY <1>1, <2>1, <2>2 DEF Complete, Timing, Early, Late, OrderState
  <2> QED  BY <1>1, <2>1, <2>3, GoesOn
<1>3. CASE td508 = "done"
  <2>1. pc' \in {"patch", "write"} /\ step' = step + 1
    <3>1. CASE step = ConfigDesc2
      BY <1>3, <3>1 DEF CheckRetry, Goto
    <3>2. CASE step # ConfigDesc2
      BY <1>3, <3>2 DEF CheckRetry, Goto
    <3> QED  BY <3>1, <3>2
  <2>2. Types' /\ Flight' /\ InOrder' /\ Settled' = Settled /\ Away' = Away
    BY <1>1, OrderStays
  <2>3. Away
    BY <1>1, <1>3 DEF OrderInv, Timing, Late
  <2>4. Beginning' /\ ~again'
    BY <1>1, <2>1 DEF Beginning, OrderState
  <2>5. Apart'
    BY <2>2, <2>3 DEF Apart
  <2>6. Complete'
    BY <1>1, <2>1, <2>4 DEF Complete, OrderState
  <2>7. Timing'
    BY <2>1, <2>2, <2>3, <2>4 DEF Timing, Early, Late
  <2>8. SetAddress \in seen => 1 .. step \subseteq seen
    <3>1. SetAddress \in seen => step \in seen /\ 1 .. step - 1 \subseteq seen
      BY <1>1, <1>3 DEF OrderInv, Served, Beginning
    <3> QED  BY <1>1, <3>1 DEF Steps
  <2>9. Served'
    <3>1. step' - 1 = step
      BY <1>1, <2>1 DEF Steps
    <3> QED  BY <1>1, <2>4, <2>8, <3>1 DEF OrderInv, Served, OrderState
  <2> QED  BY <2>2, <2>5, <2>6, <2>7, <2>9 DEF OrderInv
<1> QED  BY <1>2, <1>3

LEMMA OrderWriteHead == ASSUME OrderInv, WriteHead, DriverPlace' PROVE OrderInv'
<1>1. /\ pc = "write" /\ word = "head" /\ word' = "link"
      /\ list' = [list EXCEPT ![slot] = step] /\ under' = list[slot]
      /\ td508' = IF slot = 1 THEN "new" ELSE td508
      /\ UNCHANGED <<pc, step, slot, again, packet, start, at, td, address, seen>>
  BY DEF WriteHead, driver, engine, External, keyboard
<1>2. slot \in Slots /\ step \in Steps /\ slot \in 1 .. Len(Lists[step])
      /\ slot <= Len(Lists[step]) /\ step # Data
  <2>1. step \in Steps /\ slot \in 1 .. Len(Lists[step])
    BY DEF OrderInv, DriverPlace
  <2>2. slot \in Slots /\ Len(Lists[step]) \in Nat
    BY <2>1, InSlots, Lengths
  <2> QED  BY <2>1, <2>2 DEF Steps, Data
<1>3. /\ \A s \in Slots : list'[s] = IF s = slot THEN step ELSE list[s]
      /\ list' \in [Slots -> Steps \cup {Data}] /\ 1 \in Slots
  BY <1>1, <1>2 DEF OrderInv, Types, Slots
<1>4. Types'
  <2>1. \A s \in Slots : list'[s] # Data => s <= Len(Lists[list'[s]])
    BY <1>2, <1>3 DEF OrderInv, Types
  <2>2. under' \in Steps \cup {Data} /\ (under' # Data => slot' <= Len(Lists[under']))
    BY <1>1, <1>2 DEF OrderInv, Types
  <2> QED  BY <1>1, <1>3, <2>1, <2>2 DEF OrderInv, Types, TdOK
<1>5. Ready => Ready'
  BY <1>1, <1>2, <1>3 DEF Ready, Settled
<1>6. Apart'
  BY <1>1, <1>5 DEF OrderInv, Apart, Away
<1>7. Complete'
  BY <1>1, <1>3, <1>5 DEF OrderInv, Complete
<1>8. Timing'
  BY <1>1 DEF OrderInv, Timing, Early, Late, Away, Beginning
<1>9. at = 1 => list'[1] = list[1]
  <2>1. at = 1 => Ready
    BY <1>1, NotAway DEF Away
  <2> QED  BY <1>3, <2>1 DEF Ready
<1>10. Flight'
  BY <1>1, <1>9 DEF OrderInv, Flight, First, Mixed
<1>11. Served'
  <2>1. CASE slot = 1
    BY <1>1, <1>3, <2>1 DEF OrderInv, Served
  <2>2. CASE slot # 1
    BY <1>1, <1>3, <2>2 DEF OrderInv, Served, Beginning
  <2> QED  BY <2>1, <2>2
<1>12. InOrder'
  BY <1>1 DEF OrderInv, InOrder
<1> QED  BY <1>4, <1>6, <1>7, <1>8, <1>10, <1>11, <1>12 DEF OrderInv

\* The step goes on with its next slot, or to the start of its list.
LEMMA OrderSlotWritten ==
    ASSUME OrderInv, DriverPlace', pc = "write", word # "head", SlotWritten,
           UNCHANGED <<step, again, list, td508, start, at, td, address, seen>>,
           Ready', Types'
    PROVE  OrderInv'
<1>1. pc' \in {"write", "start"} /\ word' = "head" /\ (pc' = "write" => slot' # 1)
  BY InSlots DEF SlotWritten, Goto, OrderInv, DriverPlace, Slots
<1>2. ~Beginning /\ ~Beginning'
  BY <1>1 DEF Beginning
<1>3. Apart' /\ Complete'
  BY <1>1 DEF Apart, Complete
<1>4. Timing'
  BY <1>1, <1>2 DEF OrderInv, Timing, Early, Late, Away
<1>5. Flight' /\ InOrder'
  BY DEF OrderInv, Flight, First, Mixed, InOrder
<1>6. Served'
  BY <1>2 DEF OrderInv, Served
<1> QED  BY <1>3, <1>4, <1>5, <1>6 DEF OrderInv

LEMMA OrderWriteLink == ASSUME OrderInv, WriteLink, DriverPlace' PROVE OrderInv'
<1>1. /\ pc = "write" /\ word = "link" /\ under' = Data
      /\ UNCHANGED <<step, again, list, td508, start, at, td, address, seen>>
      /\ step \in Steps
  BY DEF WriteLink, engine, keyboard, OrderInv, DriverPlace
<1>2. CASE slot = 1 /\ step # Poll
  <2>1. word' = "packet" /\ UNCHANGED <<pc, slot>>
        /\ packet' = IF packet = step THEN step ELSE Data
    BY <1>2 DEF WriteLink
  <2>2. Types'
    BY <1>1, <2>1 DEF OrderInv, Types, TdOK
  <2>3. Ready => Ready'
    BY <1>1, <1>2, <2>1 DEF Ready, Settled, Steps, Data
  <2>4. Apart' /\ Complete'
    BY <1>1, <2>1, <2>3 DEF OrderInv, Apart, Complete, Away
  <2>5. Timing'
    BY <1>1, <2>1 DEF OrderInv, Timing, Early, Late, Away, Beginning
  <2>6. Flight' /\ InOrder'
    BY <1>1 DEF OrderInv, Flight, First, Mixed, InOrder
  <2>7. Served'
    BY <1>1, <2>1 DEF OrderInv, Served, Beginning
  <2> QED  BY <2>2, <2>4, <2>5, <2>6, <2>7 DEF OrderInv
<1>3. CASE ~(slot = 1 /\ step # Poll)
  <2>1. SlotWritten /\ UNCHANGED packet
    BY <1>3 DEF WriteLink
  <2>2. word' = "head"
    BY <2>1 DEF SlotWritten
  <2>3. Types'
    BY <1>1, <2>1, <2>2 DEF OrderInv, Types, TdOK
  <2>4. Ready'
    <3>1. list[1] = step
      BY <1>1, <1>3 DEF OrderInv, Complete, Ready
    <3>2. list[1] \in {Data, Poll} \/ packet = list[1]
      BY <1>1, <1>3, <3>1 DEF OrderInv, Complete, Ready, Settled
    <3> QED  BY <1>1, <2>1, <2>2, <3>1, <3>2 DEF Ready, Settled
  <2> QED  BY <1>1, <2>1, <2>3, <2>4, OrderSlotWritten
<1> QED  BY <1>2, <1>3

LEMMA OrderWritePacket == ASSUME OrderInv, WritePacket, DriverPlace' PROVE OrderInv'
<1>1. /\ pc = "write" /\ word = "packet" /\ packet' = step /\ SlotWritten
      /\ UNCHANGED <<step, again, list, under, td508, start, at, td, address, seen>>
      /\ step \in Steps /\ slot = 1
  BY DEF WritePacket, engine, keyboard, External, OrderInv, DriverPlace
<1>2. word' = "head"
  BY <1>1 DEF SlotWritten
<1>3. Types'
  BY <1>1, <1>2 DEF OrderInv, Types, TdOK
<1>4. Ready'
  BY <1>1, <1>2 DEF OrderInv, Complete, Ready, Settled
<1> QED  BY <1>1, <1>3, <1>4, OrderSlotWritten

LEMMA OrderStartList == ASSUME OrderInv, StartList, DriverPlace' PROVE OrderInv'
<1>1. /\ pc = "start" /\ pc' = "flag" /\ start' = 1 /\ slot = 1 /\ word = "head"
      /\ UNCHANGED <<step, slot, again, list, word, under, packet, td508, at, td,
                     address, seen>>
  BY DEF StartList, Goto, memory, External, keyboard, OrderInv, DriverPlace
<1>2. Types'
  BY <1>1 DEF OrderInv, Types, TdOK
<1>3. Ready /\ Ready'
  BY <1>1 DEF OrderInv, Complete, Ready, Settled
<1>4. Apart' /\ Complete'
  BY <1>1, <1>3 DEF Apart, Complete
<1>5. Timing'
  <2>1. ~again /\ step # Poll => at # 1 /\ td508 = "new"
    BY <1>1 DEF OrderInv, Timing, Early, Away, Beginning
  <2> QED  BY <1>1, <2>1 DEF Timing, Early, Late
<1>6. Flight' /\ InOrder'
  BY <1>1 DEF OrderInv, Flight, First, Mixed, InOrder
<1>7. Served'
  BY <1>1 DEF OrderInv, Served, Beginning
<1> QED  BY <1>2, <1>4, <1>5, <1>6, <1>7 DEF OrderInv

LEMMA OrderPatch == ASSUME OrderInv, PatchDescriptor, DriverPlace' PROVE OrderInv'
<1>1. /\ pc = "patch" /\ pc' = "write" /\ start' = Patch /\ slot = 1 /\ word = "head"
      /\ list' = [list EXCEPT ![10] = Data] /\ ~again
      /\ UNCHANGED <<step, slot, again, word, under, packet, td508, at, td,
                     address, seen>>
  BY DEF PatchDescriptor, Goto, External, keyboard, OrderInv, DriverPlace
<1>2. list' \in [Slots -> Steps \cup {Data}] /\ list'[1] = list[1]
      /\ \A s \in Slots : list'[s] # Data => list'[s] = list[s]
  BY <1>1 DEF OrderInv, Types, Slots
<1>3. Types'
  BY <1>1, <1>2 DEF OrderInv, Types, TdOK
<1>4. Apart'
  BY <1>1, <1>2 DEF OrderInv, Apart, Ready, Settled, Away, Patch
<1>5. Complete' /\ Timing'
  BY <1>1 DEF OrderInv, Complete, Timing, Early, Late, Away, Beginning, Patch
<1>6. Flight' /\ InOrder'
  BY <1>1, <1>2 DEF OrderInv, Flight, First, Mixed, InOrder
<1>7. Served'
  BY <1>1, <1>2 DEF OrderInv, Served, Beginning
<1> QED  BY <1>3, <1>4, <1>5, <1>6, <1>7 DEF OrderInv

LEMMA OrderDriver == ASSUME Prompt, OrderInv, Driver, DriverPlace' PROVE OrderInv'
<1> USE DEF OrderState, Calm, External, memory, engine, keyboard, Goto
<1>1. CASE AwaitStatus
  <2>1. Complete' /\ Timing'
    BY <1>1 DEF AwaitStatus, OrderInv, DriverPlace, Complete, Timing, Early, Late, Away
  <2> QED  BY <1>1, <2>1, GoesOn DEF AwaitStatus
<1>2. CASE ResetBus
  <2>1. pc = "ack1" /\ UNCHANGED OrderState
    BY <1>2 DEF ResetBus
  <2>2. CASE HotPlug
    BY <2>1, <2>2, BeginsAnew
  <2>3. CASE ~HotPlug
    <3>1. pc' = "ack2" /\ UNCHANGED <<step, slot, again>>
      BY <1>2, <2>3, Zenon DEF ResetBus
    <3>2. Complete' /\ Timing'
      BY <2>1, <3>1 DEF OrderInv, DriverPlace, Complete, Timing, Early, Late, Away
    <3> QED  BY <2>1, <3>1, <3>2, GoesOn
  <2> QED  BY <2>2, <2>3
<1>3. CASE BusIsReset
  <2>1. pc = "ack2" /\ UNCHANGED OrderState
    BY <1>3 DEF BusIsReset
  <2>2. CASE HotPlug
    BY <2>1, <2>2, BeginsAnew
  <2>3. CASE ~HotPlug
    <3>1. pc' = "port" /\ UNCHANGED <<step, slot, again>>
      BY <1>3, <2>3, Zenon DEF BusIsReset
    <3>2. Complete' /\ Timing'
      BY <2>1, <3>1 DEF OrderInv, DriverPlace, Complete, Timing, Early, Late, Away
    <3> QED  BY <2>1, <3>1, <3>2, GoesOn
  <2> QED  BY <2>2, <2>3
<1>4. CASE Port
  <2>1. pc = "port" /\ pc' \in {"port", "write", "absent"}
        /\ UNCHANGED <<step, slot, again>> /\ UNCHANGED OrderState
    BY <1>4 DEF Port
  <2>2. Complete' /\ Timing'
    BY <2>1 DEF OrderInv, DriverPlace, Complete, Timing, Early, Late, Away, Beginning
  <2> QED  BY <2>1, <2>2, GoesOn
<1>5. CASE Inserted
  BY <1>5, BeginsAnew DEF Inserted
<1>6. CASE ReadMessage
  <2>1. Complete' /\ Timing'
    BY <1>6 DEF ReadMessage, OrderInv, DriverPlace, Complete, Ready, Settled, Timing,
                Early, Late, Away
  <2> QED  BY <1>6, <2>1, GoesOn DEF ReadMessage
<1>7. CASE ClearMessage
  <2>1. /\ pc = "clear" /\ pc' \in {"msg", "key", "check"}
        /\ UNCHANGED <<step, slot, again>> /\ UNCHANGED OrderState
    BY <1>7 DEF ClearMessage
  <2>2. Complete' /\ Timing'
    BY <2>1 DEF OrderInv, DriverPlace, Complete, Ready, Settled, Timing, Early, Late, Away
  <2> QED  BY <2>1, <2>2, GoesOn
<1>8. CASE GetRetryCnt
  <2>1. pc = "retry" /\ UNCHANGED OrderState
    BY <1>8 DEF GetRetryCnt
  <2>2. CASE msg = {Done}
    <3>1. pc' = "retry clear" /\ UNCHANGED <<step, slot, again>>
      BY <1>8, <2>2 DEF GetRetryCnt
    <3>2. Complete' /\ Timing'
      BY <2>1, <3>1 DEF OrderInv, DriverPlace, Complete, Timing, Early, Late
    <3> QED  BY <2>1, <3>1, <3>2, GoesOn
  <2>3. CASE msg # {Done}
    <3>1. HotPlug
      BY <1>8, <2>3 DEF GetRetryCnt
    <3> QED  BY <2>1, <3>1, BeginsAnew
  <2> QED  BY <2>2, <2>3
<1>9. CASE ClearRetry
  <2>1. Complete' /\ Timing'
    BY <1>9 DEF ClearRetry, OrderInv, DriverPlace, Complete, Timing, Early, Late
  <2> QED  BY <1>9, <2>1, GoesOn DEF ClearRetry
<1>10. CASE AwaitRetry
  BY <1>10, BeginsAnew DEF AwaitRetry
<1>11. CASE TakeKey
  <2>1. Complete' /\ Timing'
    BY <1>11 DEF TakeKey, OrderInv, DriverPlace, Complete, Ready, Settled, Timing, Early, Late
  <2> QED  BY <1>11, <2>1, GoesOn DEF TakeKey
<1>12. CASE PortWhilePolling
  <2>1. /\ pc = "port2" /\ pc' \in {"port2", "write", "absent"} /\ ~again'
        /\ UNCHANGED <<step, slot>> /\ UNCHANGED OrderState
    BY <1>12 DEF PortWhilePolling
  <2>2. Complete' /\ Timing'
    BY <2>1 DEF OrderInv, DriverPlace, Complete, Ready, Settled, Timing, Early, Late, Booting
  <2> QED  BY <2>1, <2>2, GoesOn
<1> HIDE DEF OrderState, Calm, External, memory, engine, keyboard, Goto
<1> QED
  BY <1>1, <1>2, <1>3, <1>4, <1>5, <1>6, <1>7, <1>8, <1>9, <1>10, <1>11, <1>12,
     OrderSoftReset, OrderWriteHead, OrderWriteLink, OrderWritePacket, OrderStartList,
     OrderCheckFlag, OrderCheckRetry, OrderPatch DEF Driver

-----------------------------------------------------------------------------
(* The chip, the keyboard and the user *)

\* Their steps leave the driver where it is, and what it has written.
LEMMA ChipOrder ==
    ASSUME OrderInv, DriverPlace', UNCHANGED <<pc, step, slot, again, word, under>>,
           UNCHANGED packet, Away => Away', Types',
           list'[1] = list[1], Timing', Flight', Served', InOrder'
    PROVE  OrderInv'
<1>1. Ready => Ready'
  BY DEF Ready, Settled
<1>2. Settled => Settled'
  BY DEF Settled
<1>3. Apart'
  BY <1>1, <1>2 DEF OrderInv, Apart
<1>4. Complete'
  BY <1>1 DEF OrderInv, Complete
<1> QED  BY <1>3, <1>4 DEF OrderInv

\* The chip goes on elsewhere, having done nothing.
LEMMA ChipMoves ==
    ASSUME OrderInv, DriverPlace', UNCHANGED <<pc, step, slot, again, word, under>>,
           UNCHANGED <<list, packet, td508, address, seen>>, td' = NoTd,
           (start' = Idle /\ at' \in {Idle, start}) \/ (start' = start /\ at' # 1)
    PROVE  OrderInv'
<1>1. Types' /\ Flight' /\ InOrder'
  BY DEF OrderInv, Types, Flight, InOrder
<1>2. Away => Away'
  BY DEF Away, Idle
<1>3. Timing'
  BY <1>2 DEF OrderInv, Timing, Early, Late, Beginning, Idle
<1>4. Served'
  BY DEF OrderInv, Served, Beginning
<1> QED  BY <1>1, <1>2, <1>3, <1>4, ChipOrder

LEMMA OrderExecuteCommand ==
    ASSUME OrderInv, ExecuteCommand, DriverPlace' PROVE OrderInv'
<1>1. UNCHANGED <<pc, step, slot, again, word, under, list, packet, td508, start, at, td>>
      /\ \/ address' = 0 /\ seen' = {}
         \/ UNCHANGED <<address, seen>>
  BY DEF ExecuteCommand, driver, memory, engine
<1>2. Types' /\ Flight' /\ InOrder'
  BY <1>1 DEF OrderInv, Types, TdOK, Flight, First, Mixed, InOrder
<1>3. Timing' /\ (Away => Away')
  BY <1>1 DEF OrderInv, Timing, Early, Late, Away, Beginning
<1>4. Served'
  BY <1>1 DEF OrderInv, Served, Beginning
<1> QED  BY <1>1, <1>2, <1>3, <1>4, ChipOrder

LEMMA OrderFetch == ASSUME OrderInv, ChipFetch, DriverPlace' PROVE OrderInv'
<1>1. /\ UNCHANGED <<pc, step, slot, again, word, under, list, packet, td508, start,
                     address, seen>>
      /\ at \in Slots /\ td = NoTd
  BY DEF ChipFetch, driver, memory, keyboard
<1>2. PICK t \in Fetched(at) :
         \/ (at = 1 => td508 = "new") /\ td' = t /\ UNCHANGED at
         \/ UNCHANGED td /\ at' = t.next
  BY DEF ChipFetch, Advance
<1>3. TdOK(t) /\ (at = 1 => list[1] \in Steps /\ t = First(list[1]))
  BY <1>1, FetchedOK
<1>4. CASE UNCHANGED td /\ at' = t.next
  BY <1>1, <1>3, <1>4, ChipMoves DEF TdOK
<1>5. CASE (at = 1 => td508 = "new") /\ td' = t /\ UNCHANGED at
  <2>1. Types' /\ InOrder'
    BY <1>1, <1>3, <1>5 DEF OrderInv, Types, TdOK, InOrder
  <2>2. Flight'
    BY <1>1, <1>3, <1>5 DEF Flight, First, Mixed
  <2>3. Timing' /\ (Away => Away')
    BY <1>1, <1>5 DEF OrderInv, Timing, Early, Late, Away, Beginning
  <2>4. Served'
    BY <1>1 DEF OrderInv, Served, Beginning
  <2> QED  BY <1>1, <2>1, <2>2, <2>3, <2>4, ChipOrder
<1> QED  BY <1>2, <1>4, <1>5

\* A TD is left for another one, a failure or a success.
LEMMA ChipLeaves ==
    ASSUME OrderInv, UNCHANGED <<pc, step, slot, again, word, under, start>>,
           td # NoTd, at' # 1, NEW w, w # "new", td508' = IF at = 1 THEN w ELSE td508
    PROVE  Timing' /\ (Away => Away')
<1>1. Away => Away'
  BY DEF Away
<1>2. Early' => Away' /\ (Beginning' \/ pc' \notin {"write", "start"} \/ td508' = "new")
  BY DEF OrderInv, Timing, Early, Away, Beginning
<1>3. ASSUME Late' PROVE (td508' # "new" => Away') /\ (start' = 1 => at' # 1)
  <2>1. Late
    BY <1>3 DEF Late
  <2>2. at = 1 => start # 1
    BY <2>1 DEF OrderInv, Timing
  <2>3. CASE at = 1
    BY <2>2, <2>3 DEF Away
  <2>4. CASE at # 1
    BY <2>1, <2>4 DEF OrderInv, Timing, Away
  <2> QED  BY <2>3, <2>4
<1> QED  BY <1>1, <1>2, <1>3 DEF Timing

LEMMA OrderFailure == ASSUME OrderInv, ChipFailure, DriverPlace' PROVE OrderInv'
<1>1. /\ UNCHANGED <<pc, step, slot, again, word, under, start, address, seen>>
      /\ td # NoTd /\ td' = NoTd /\ at' \in {td.next, Idle}
      /\ list' = [s \in Slots |-> list[s]] /\ packet' = packet
      /\ td508' = IF at = 1 THEN "failed" ELSE td508
  BY DEF ChipFailure, driver, keyboard, Executed, External, Advance
<1>2. UNCHANGED list /\ at' # 1
  BY <1>1 DEF OrderInv, Types, TdOK, Idle
<1>3. Types' /\ Flight' /\ InOrder'
  BY <1>1, <1>2 DEF OrderInv, Types, Flight, InOrder
<1>4. Timing' /\ (Away => Away')
  BY <1>1, <1>2, ChipLeaves
<1>5. Served'
  BY <1>1, <1>2 DEF OrderInv, Served, Beginning
<1> QED  BY <1>1, <1>2, <1>3, <1>4, <1>5, ChipOrder

\* The first TD is a success: its request is the next the keyboard is to get.
LEMMA FirstSuccess ==
    ASSUME OrderInv, at = 1, td # NoTd, Answers, NEW k, k = list[1]
    PROVE  /\ k \in Steps /\ td = First(k) /\ td508 = "new" /\ Taken = {k}
           /\ td.stage # "status"
           /\ 1 .. k - 1 \subseteq seen
           /\ k = SetAddress \/ SetAddress \in seen
           /\ pc # "reset" => k = step
<1>1. k \in Steps /\ td = First(k) /\ td508 = "new"
  BY DEF OrderInv, Flight
<1>2. Settled /\ (pc # "reset" => k = step)
  BY NotAway DEF Away, Ready
<1>3. /\ td.stage = IF k = Poll THEN "poll" ELSE "setup"
      /\ td.address = IF k = SetAddress THEN 0 ELSE 2
  BY <1>1, FirstOf
<1>4. Taken = {k}
  BY <1>1, <1>2, <1>3 DEF Taken, Settled, Steps, Data
<1>5. k # SetAddress => SetAddress \in seen
  BY <1>3 DEF Answers, OrderInv, Served
<1>6. 1 .. k - 1 \subseteq seen
  <2>1. CASE k = SetAddress
    BY <2>1 DEF SetAddress
  <2>2. CASE k # SetAddress
    BY <1>1, <1>5, <2>2 DEF OrderInv, Served, Steps, Data
  <2> QED  BY <2>1, <2>2
<1> QED  BY <1>1, <1>2, <1>3, <1>4, <1>5, <1>6

LEMMA OrderSuccess == ASSUME OrderInv, ChipSuccess, DriverPlace' PROVE OrderInv'
<1>1. /\ UNCHANGED <<pc, step, slot, again, word, under, start>>
      /\ td # NoTd /\ td' = NoTd /\ at' = td.next /\ Answers
      /\ list' = [s \in Slots |-> IF s \in Received \ {1} THEN Data ELSE list[s]]
      /\ packet' = IF 1 \in Received THEN Data ELSE packet
      /\ td508' = IF at = 1 THEN "done" ELSE td508
      /\ seen' = IF at = 1 THEN seen \cup Taken ELSE seen
      /\ address' = IF td.step = SetAddress /\ td.stage = "status" THEN 2 ELSE address
  BY DEF ChipSuccess, driver, Executed, Advance
<1>2. TdOK(td)
  BY <1>1 DEF OrderInv, Types
<1>3. at' # 1 /\ 1 \notin Received
  BY <1>1, <1>2 DEF TdOK, Received
<1>4. UNCHANGED packet /\ list'[1] = list[1]
  BY <1>1, <1>3 DEF Slots
<1>5. Timing' /\ (Away => Away')
  BY <1>1, <1>3, ChipLeaves
<1>6. Flight'
  BY <1>1 DEF Flight
<1>7. list' \in [Slots -> Steps \cup {Data}]
      /\ \A s \in Slots : list'[s] # Data => s <= Len(Lists[list'[s]])
  BY <1>1 DEF OrderInv, Types
<1>8. CASE at = 1
  <2>1. PICK k : k = list[1]
    OBVIOUS
  <2>2. /\ k \in Steps /\ td508 = "new" /\ Taken = {k}
        /\ td.stage # "status"
        /\ 1 .. k - 1 \subseteq seen
        /\ k = SetAddress \/ SetAddress \in seen
        /\ pc # "reset" => k = step
    BY <1>1, <1>8, <2>1, FirstSuccess
  <2>3. seen' = seen \cup {k} /\ address' = address /\ td508' = "done"
    BY <1>1, <1>8, <2>2
  <2>4. seen' \subseteq Steps
    BY <2>2, <2>3 DEF OrderInv, Types
  <2>5. Types'
    BY <1>1, <1>4, <1>7, <2>4 DEF OrderInv, Types
  <2>6. 1 .. k \subseteq seen'
    BY <2>2, <2>3 DEF Steps
  <2>7. InOrder'
    BY <2>3, <2>6 DEF OrderInv, InOrder
  <2>8. 1 .. step - 1 \subseteq seen'
    <3>1. CASE SetAddress \in seen
      BY <2>3, <3>1 DEF OrderInv, Served
    <3>2. CASE SetAddress \notin seen
      <4>1. step = SetAddress
        BY <2>2, <3>2 DEF OrderInv, DriverPlace, Booting
      <4> QED  BY <4>1 DEF SetAddress
    <3> QED  BY <3>1, <3>2
  <2>9. Served'
    BY <1>1, <2>2, <2>3, <2>8 DEF OrderInv, Served
  <2> QED  BY <1>1, <1>4, <1>5, <1>6, <2>5, <2>7, <2>9, ChipOrder
<1>9. CASE at # 1
  <2>1. seen' = seen /\ td508' = td508
    BY <1>1, <1>9
  <2>2. address' = 2 => SetAddress \in seen
    BY <1>1, <1>9 DEF Answers, OrderInv, Served
  <2>3. Types' /\ InOrder'
    BY <1>1, <1>4, <1>7, <2>1 DEF OrderInv, Types, InOrder
  <2>4. Served'
    BY <1>1, <1>4, <2>1, <2>2 DEF OrderInv, Served, Beginning
  <2> QED  BY <1>1, <1>4, <1>5, <1>6, <2>3, <2>4, ChipOrder
<1> QED  BY <1>8, <1>9

LEMMA OrderUser == ASSUME OrderInv, Plug \/ Press, DriverPlace' PROVE OrderInv'
<1>1. UNCHANGED <<pc, step, slot, again, word, under, list, packet, td508, start, at, td>>
      /\ \/ address' = 0 /\ seen' = {}
         \/ UNCHANGED <<address, seen>>
  BY DEF Plug, Press, driver, memory, engine
<1>2. Types' /\ Flight' /\ InOrder'
  BY <1>1 DEF OrderInv, Types, TdOK, Flight, First, Mixed, InOrder
<1>3. Timing' /\ (Away => Away')
  BY <1>1 DEF OrderInv, Timing, Early, Late, Away, Beginning
<1>4. Served'
  BY <1>1 DEF OrderInv, Served, Beginning
<1> QED  BY <1>1, <1>2, <1>3, <1>4, ChipOrder

LEMMA OrderNext == ASSUME Prompt, OrderInv, [Next]_vars PROVE OrderInv'
<1>1. DriverPlace'
  BY PlaceNext DEF OrderInv
<1>2. CASE ChipStart
  <2>1. /\ UNCHANGED <<pc, step, slot, again, word, under>>
        /\ UNCHANGED <<list, packet, td508, address, seen>> /\ td' = NoTd
        /\ start' = Idle /\ at' \in {Idle, start}
    BY <1>2 DEF ChipStart, driver, memory, keyboard
  <2> QED  BY <1>1, <2>1, ChipMoves
<1>3. CASE UNCHANGED vars
  <2>1. UNCHANGED OrderState /\ UNCHANGED <<pc, step, slot, again>>
    BY <1>3 DEF vars, driver, memory, engine, keyboard, OrderState
  <2>2. Types' /\ Flight' /\ InOrder' /\ Settled' = Settled /\ Away' = Away
    BY <2>1, OrderStays
  <2>3. Apart' /\ Complete' /\ Timing' /\ Served'
    BY <2>1, <2>2 DEF OrderInv, OrderState, Apart, Complete, Timing, Served, Ready, Early,
                      Late, Beginning
  <2> QED  BY <1>1, <2>2, <2>3 DEF OrderInv
<1> QED
  BY <1>1, <1>2, <1>3, OrderDriver, OrderExecuteCommand, OrderFetch, OrderSuccess,
     OrderFailure, OrderUser DEF Next, Chip

\* If the chip takes lists up in time, the keyboard gets every request after
\* all those that must come before it, whatever else chip, keyboard and user
\* do, and though lists are overwritten word by word while the chip may be
\* anywhere in them: the driver goes on to the next step only when the chip
\* has been through the first TD, and no list leads back to that.
THEOREM RequestsCorrect == Spec => []RequestsInOrder
<1>1. Init => (Prompt => OrderInv)
  BY OrderInit
<1>2. (Prompt => OrderInv) /\ [Next]_vars => (Prompt => OrderInv)'
  BY OrderNext
<1>3. (Prompt => OrderInv) => RequestsInOrder
  BY DEF OrderInv, InOrder, RequestsInOrder
<1> QED  BY <1>1, <1>2, <1>3, PTL DEF Spec

-----------------------------------------------------------------------------
(* The key *)

\* A key of the game is in the buffer only if it was reported, or before the
\* first list of the enumeration has overwritten it.
BufferInv ==
    \/ reported
    \/ key51e \notin GameKeys
    \/ step = SetAddress /\ (pc \in Booting \cup {"absent"} \/ (pc = "write" /\ slot \in {1, 2}))

KeyInv == DriverPlace /\ BufferInv

LEMMA KeyInit == Init => KeyInv
  BY OrderInit, KeysAssumption DEF Init, OrderInv, KeyInv, BufferInv

LEMMA BufferNext == ASSUME KeyInv, [Next]_vars PROVE BufferInv'
<1> USE DEF KeyInv, BufferInv, Booting, SetAddress
<1>1. CASE SoftReset
  BY <1>1 DEF SoftReset, Goto, DriverPlace
<1>2. CASE WriteHead
  BY <1>2 DEF WriteHead, driver, External
<1>3. CASE WriteLink
  <2>1. CASE slot = 2
    <3>1. key51e' = LinkCode(Lists[step][2].next)
      BY <1>3, <2>1 DEF WriteLink, TdList
    <3>2. step \in Steps /\ Len(Lists[step]) >= 2
      BY <2>1, Lengths DEF DriverPlace
    <3> QED  BY <3>1, <3>2, LinkIsNoKey
  <2>2. CASE slot = 1
    <3>1. UNCHANGED <<key51e, reported, step>> /\ pc = "write"
      BY <1>3, <2>2 DEF WriteLink
    <3>2. step = SetAddress => UNCHANGED <<pc, slot>>
      BY <1>3, <2>2 DEF WriteLink, Poll
    <3> QED  BY <2>2, <3>1, <3>2
  <2>3. CASE slot \notin {1, 2}
    BY <1>3, <2>3 DEF WriteLink
  <2> QED  BY <2>1, <2>2, <2>3
<1>4. CASE WritePacket
  <2>1. slot = 1 /\ UNCHANGED <<step, key51e, reported>> /\ SlotWritten /\ pc = "write"
    BY <1>4 DEF WritePacket, DriverPlace, External
  <2>2. step = SetAddress => slot' = 2 /\ pc' = "write"
    BY <2>1, Lengths DEF SlotWritten, TdList
  <2> QED  BY <2>1, <2>2
<1>5. CASE CheckRetry
  BY <1>5 DEF CheckRetry, Calm, External, memory
<1>6. CASE ChipSuccess
  BY <1>6 DEF ChipSuccess, driver
<1>7. CASE ExecuteCommand \/ ChipStart \/ ChipFetch \/ ChipFailure \/ Plug \/ Press
  BY <1>7 DEF ExecuteCommand, ChipStart, ChipFetch, ChipFailure, Plug, Press, External,
     memory, driver
<1>8. CASE \/ AwaitStatus \/ ResetBus \/ BusIsReset \/ Port \/ Inserted \/ StartList
           \/ CheckFlag \/ ReadMessage \/ ClearMessage \/ GetRetryCnt \/ ClearRetry
           \/ AwaitRetry \/ TakeKey \/ PortWhilePolling \/ PatchDescriptor
  <2>1. UNCHANGED <<key51e, reported>>
    BY <1>8 DEF AwaitStatus, ResetBus, BusIsReset, Port, Inserted, StartList, CheckFlag,
       ReadMessage, ClearMessage, GetRetryCnt, ClearRetry, AwaitRetry, TakeKey,
       PortWhilePolling, PatchDescriptor, Calm, External, memory
  <2>2. CASE AwaitStatus \/ ResetBus \/ BusIsReset \/ Port \/ Inserted
    BY <2>1, <2>2 DEF AwaitStatus, ResetBus, BusIsReset, Port, Inserted, HotPlug, Goto,
       DriverPlace
  <2>3. CASE ~(AwaitStatus \/ ResetBus \/ BusIsReset \/ Port \/ Inserted)
    BY <1>8, <2>1, <2>3 DEF StartList, CheckFlag, ReadMessage, ClearMessage, GetRetryCnt,
       ClearRetry, AwaitRetry, TakeKey, PortWhilePolling, PatchDescriptor
  <2> QED  BY <2>2, <2>3
<1>9. CASE UNCHANGED vars
  BY <1>9 DEF vars, driver, memory
<1> QED
  BY <1>1, <1>2, <1>3, <1>4, <1>5, <1>6, <1>7, <1>8, <1>9 DEF Next, Driver, Chip

LEMMA KeyStep ==
    ASSUME KeyInv, [Next]_vars
    PROVE  keycode' # keycode /\ keycode' \in GameKeys => reported
<1>1. CASE TakeKey
  BY <1>1 DEF TakeKey, KeyInv, BufferInv, DriverPlace, Booting, SetAddress, Poll
<1>2. CASE ~TakeKey
  BY <1>2 DEF Next, Driver, Chip, SoftReset, AwaitStatus, ResetBus, BusIsReset, Port, Inserted,
     WriteHead, WriteLink, WritePacket, StartList, CheckFlag, ReadMessage, ClearMessage,
     CheckRetry, PatchDescriptor, GetRetryCnt, ClearRetry, AwaitRetry, PortWhilePolling,
     ExecuteCommand, ChipStart, ChipFetch, ChipSuccess, ChipFailure, Plug, Press, Calm, vars
<1> QED  BY <1>1, <1>2

\* For every set of keys, whatever chip, keyboard and user do: the game gets
\* a key that it reacts to only if a report has put it into the buffer since
\* the last reset of the chip, for the links that main writes there itself
\* are the codes of no such key.
THEOREM KeysCorrect == Spec => GameKeyWasReported
<1>1. Init => KeyInv
  BY KeyInit
<1>2. KeyInv /\ [Next]_vars => KeyInv'
  BY PlaceNext, BufferNext DEF KeyInv
<1>3. KeyInv /\ [Next]_vars
        => [keycode' # keycode /\ keycode' \in GameKeys => reported]_vars
  BY KeyStep
<1> QED  BY <1>1, <1>2, <1>3, PTL DEF Spec, GameKeyWasReported

-----------------------------------------------------------------------------
(* The place of the chip *)

\* Nothing the keyboard answers is written into the list that asks for it.
LEMMA BuffersApart ==
    ASSUME NEW k \in Steps, NEW s \in 1 .. Len(Lists[k]), s # 1 \/ k = Poll
    PROVE  Touched(Lists[k][s].buffer) \cap 1 .. Len(Lists[k]) = {}
<1> DEFINE b == Lists[k][s].buffer
           n == Len(Lists[k])
<1>1. n \in Nat /\ n <= 10 /\ (b = None \/ (b[1] \in Nat /\ End(n) <= b[1]))
  BY Fitting, BuffersFollow
<1> SUFFICES ASSUME NEW t \in Touched(b), t \in 1 .. n PROVE FALSE
  OBVIOUS
<1>2. t \in Slots /\ b[1] < End(t) /\ At(t) < b[1] + b[2]
  BY DEF Touched
<1> HIDE DEF b, n
<1>3. CASE b = None
  BY <1>2, <1>3 DEF None, At, Slots
<1>4. CASE b[1] \in Nat /\ End(n) <= b[1]
  <2>1. End(t) <= End(n) /\ End(t) \in Int /\ End(n) \in Int
    BY <1>1, <1>2 DEF End, At, Slots
  <2> QED  BY <1>2, <1>4, <2>1
<1> QED  BY <1>1, <1>3, <1>4

\* The TD of the step at place s, as a chip gets it that finds it whole.
Own(s) == Mixed(s, step, step, step, step)

\* What the chip receives while it executes a TD of the step is out of the
\* way of its list.
LEMMA ReceivedApart ==
    ASSUME step \in Steps, at \in 1 .. Len(Lists[step]), td = Own(at)
    PROVE  Received \cap 1 .. Len(Lists[step]) = {} /\ td.next \in 0 .. Len(Lists[step])
<1>1. /\ td.stage = Lists[step][at].stage /\ td.next = Lists[step][at].next
      /\ td.buffer = <<Lists[step][at].buffer[1], Lists[step][at].buffer[2]>>
  BY DEF Own, Mixed
<1>2. Received # {} => at # 1 \/ step = Poll
  <2>1. step # Poll => Lists[step][1].stage = "setup"
    BY FirstTds
  <2> QED  BY <1>1, <2>1 DEF Received
<1>3. Received # {} => Received = Touched(Lists[step][at].buffer)
  BY <1>1 DEF Received, Touched
<1>4. Received \cap 1 .. Len(Lists[step]) = {}
  BY <1>2, <1>3, BuffersApart
<1> QED  BY <1>1, <1>4, NextTds

\* The chip has been pointed to a list and nothing has told the driver yet
\* that it is through with it.
Busy == pc = "flag" \/ again
Resting == at = Idle /\ td = NoTd

\* The TDs of the step that are in the chip's memory: what is written so far
\* the first time, all of them while they are written once more.
Written ==
    IF again \/ pc \in {"start", "flag"} THEN 1 .. Len(Lists[step])
    ELSE IF pc = "write" THEN IF word = "head" THEN 1 .. slot - 1 ELSE 1 .. slot
    ELSE {}

WrittenInv ==
    /\ \A s \in Written : list[s] = step
    /\ again /\ word = "link" => under = step

\* Only a busy chip walks, and only in the list of the step.
WalkInv ==
    /\ ~Busy => Resting /\ start # 1
    /\ at \in 0 .. Len(Lists[step])
    /\ td # NoTd => at # Idle /\ td = Own(at)
    /\ start \in {Idle, 1, Patch}
    /\ ~again /\ start # Idle => Resting

\* A flag is the one of this list, but for a list that is started again.
FlagInv == flag /\ ~again => pc \in {"flag", "msg"} /\ Resting /\ start = Idle

StayInv == WrittenInv /\ WalkInv /\ FlagInv

LEMMA StayInit == ASSUME Init PROVE StayInv
<1>1. /\ pc = "reset" /\ again = FALSE /\ step = 1 /\ start = Idle /\ at = Idle
      /\ td = NoTd /\ flag = FALSE
  BY DEF Init
<1>2. Len(Lists[step]) \in Nat /\ Len(Lists[step]) <= 10
  BY <1>1, Fitting DEF Steps
<1>3. WrittenInv /\ FlagInv
  BY <1>1 DEF WrittenInv, Written, FlagInv
<1>4. WalkInv
  BY <1>1, <1>2 DEF WalkInv, Busy, Resting, Idle, Patch
<1> QED  BY <1>3, <1>4 DEF StayInv

\* The driver goes its way while the chip rests, and writes nothing.
LEMMA DriverAlone ==
    ASSUME StayInv, DriverPlace', ~Busy, ~again', UNCHANGED <<list, engine>>,
           pc' \notin {"start", "flag"}, flag' => flag /\ pc' = "msg",
           pc' = "write" => slot' = 1 /\ word' = "head"
    PROVE  StayInv'
<1> USE DEF StayInv, engine
<1>1. WrittenInv'
  BY DEF WrittenInv, Written
<1>2. WalkInv'
  <2>1. Len(Lists[step']) \in Nat /\ Len(Lists[step']) <= 10
    BY Fitting DEF DriverPlace
  <2>2. Resting' /\ start' # 1 /\ start' \in {Idle, 1, Patch}
    BY DEF WalkInv, Resting
  <2> QED  BY <2>1, <2>2 DEF WalkInv, Busy, Resting, Idle
<1>3. FlagInv'
  BY DEF FlagInv, WalkInv, Resting, Busy
<1> QED  BY <1>1, <1>2, <1>3

\* While it writes, the chip and its flag are left alone.
LEMMA WritingStays ==
    ASSUME StayInv, pc = "write", UNCHANGED <<step, again, at, td, start, flag>>,
           pc' \in {"write", "start"}, WrittenInv'
    PROVE  StayInv'
<1>1. WalkInv'
  BY DEF StayInv, WalkInv, Busy, Resting, Own, Mixed
<1>2. FlagInv'
  BY DEF StayInv, FlagInv
<1> QED  BY <1>1, <1>2 DEF StayInv

LEMMA WriteHeadStays == ASSUME StayInv, OrderInv, WriteHead PROVE StayInv'
<1>1. /\ list' = [list EXCEPT ![slot] = step] /\ pc = "write" /\ word = "head"
      /\ word' = "link" /\ under' = list[slot]
      /\ UNCHANGED <<pc, step, slot, again, at, td, start, flag>>
      /\ slot \in 1 .. Len(Lists[step]) /\ step \in Steps
      /\ list \in [Slots -> Steps \cup {Data}]
  BY DEF WriteHead, driver, message, engine, OrderInv, DriverPlace, Types
<1>2. Len(Lists[step]) \in Nat /\ Len(Lists[step]) <= 10
  BY <1>1, Fitting
<1>3. \A s \in Slots : list'[s] = IF s = slot THEN step ELSE list[s]
  BY <1>1
<1>4. \A s \in Written' : s \in Slots /\ (s = slot \/ s \in Written)
  <2>1. CASE again
    <3>1. Written' = 1 .. Len(Lists[step]) /\ Written = 1 .. Len(Lists[step])
      BY <1>1, <2>1 DEF Written
    <3> QED  BY <1>2, <3>1 DEF Slots
  <2>2. CASE ~again
    <3>1. Written = 1 .. slot - 1 /\ Written' = 1 .. slot
      BY <1>1, <2>2 DEF Written
    <3> QED  BY <1>1, <1>2, <3>1 DEF Slots
  <2> QED  BY <2>1, <2>2
<1>5. again => list[slot] = step
  <2>1. again => Written = 1 .. Len(Lists[step])
    BY DEF Written
  <2> QED  BY <1>1, <2>1 DEF StayInv, WrittenInv
<1>6. WrittenInv'
  BY <1>1, <1>3, <1>4, <1>5 DEF StayInv, WrittenInv
<1> QED  BY <1>1, <1>6, WritingStays

LEMMA SlotWrittenStays ==
    ASSUME StayInv, DriverPlace, SlotWritten, pc = "write", word # "head",
           UNCHANGED <<step, again, list, at, td, start, flag>>
    PROVE  StayInv'
<1>1. Len(Lists[step]) \in Nat /\ Len(Lists[step]) <= 10 /\ slot \in 1 .. Len(Lists[step])
  BY Fitting DEF DriverPlace
<1>2. word' = "head" /\ \/ pc' = "write" /\ slot' = slot + 1
                        \/ pc' = "start" /\ slot = Len(Lists[step])
  <2>1. CASE slot < Len(Lists[step])
    BY <2>1 DEF SlotWritten, TdList
  <2>2. CASE ~(slot < Len(Lists[step]))
    BY <1>1, <2>2 DEF SlotWritten, TdList, Goto
  <2> QED  BY <2>1, <2>2
<1>3. Written' \subseteq Written
  <2>1. CASE again
    BY <2>1 DEF Written
  <2>2. CASE ~again /\ pc' = "write" /\ slot' = slot + 1
    <3>1. Written' = 1 .. slot' - 1 /\ Written = 1 .. slot
      BY <1>2, <2>2 DEF Written
    <3> QED  BY <1>1, <2>2, <3>1
  <2>3. CASE ~again /\ pc' = "start" /\ slot = Len(Lists[step])
    <3>1. Written' = 1 .. slot /\ Written = 1 .. slot
      BY <2>3 DEF Written
    <3> QED  BY <3>1
  <2> QED  BY <1>2, <2>1, <2>2, <2>3
<1>4. WrittenInv'
  BY <1>2, <1>3 DEF StayInv, WrittenInv
<1> QED  BY <1>2, <1>4, WritingStays

LEMMA WriteLinkStays == ASSUME StayInv, DriverPlace, WriteLink PROVE StayInv'
<1>1. pc = "write" /\ word = "link" /\ UNCHANGED <<step, again, list, at, td, start, flag>>
  BY DEF WriteLink, engine, message
<1>2. CASE slot = 1 /\ step # Poll
  <2>1. word' = "packet" /\ UNCHANGED <<pc, slot>>
    BY <1>2 DEF WriteLink
  <2>2. WrittenInv'
    BY <1>1, <2>1 DEF StayInv, WrittenInv, Written
  <2> QED  BY <1>1, <2>1, <2>2, WritingStays
<1>3. CASE ~(slot = 1 /\ step # Poll)
  BY <1>1, <1>3, SlotWrittenStays DEF WriteLink
<1> QED  BY <1>2, <1>3

LEMMA WritePacketStays == ASSUME StayInv, DriverPlace, WritePacket PROVE StayInv'
  BY SlotWrittenStays DEF WritePacket, engine, message

LEMMA StartListStays == ASSUME StayInv, DriverPlace, StartList PROVE StayInv'
<1> USE DEF StayInv
<1>1. /\ pc = "start" /\ pc' = "flag" /\ start' = 1 /\ word' = "head"
      /\ UNCHANGED <<step, again, at, td, list, flag>>
  BY DEF StartList, Goto, memory, message, DriverPlace
<1>2. WrittenInv'
  BY <1>1 DEF WrittenInv, Written
<1>3. WalkInv'
  BY <1>1 DEF WalkInv, Busy, Resting, Own, Mixed
<1>4. FlagInv'
  BY <1>1 DEF FlagInv
<1> QED  BY <1>2, <1>3, <1>4

\* The first look may come while the chip walks, and the list be written
\* once more; by the second one the chip rests.
LEMMA CheckFlagStays ==
    ASSUME StayInv, Ideal, DriverPlace, CheckFlag PROVE StayInv'
<1> USE DEF StayInv
<1>1. /\ pc = "flag" /\ UNCHANGED <<step, at, td, start, list, flag>>
      /\ again' = ~flag /\ word' = "head"
  BY DEF CheckFlag, Calm, memory, message, engine, DriverPlace
<1>2. CASE flag
  <2>1. pc' = "msg" /\ ~again' /\ Resting /\ start = Idle
    BY <1>1, <1>2 DEF CheckFlag, Goto, Slept, Quiet, FlagInv, Resting
  <2>2. WrittenInv'
    BY <2>1 DEF WrittenInv, Written
  <2>3. WalkInv' /\ FlagInv'
    BY <1>1, <2>1 DEF WalkInv, FlagInv, Busy, Resting, Idle
  <2> QED  BY <2>2, <2>3
<1>3. CASE ~flag
  <2>1. pc' = "write" /\ again' = TRUE
    BY <1>1, <1>3 DEF CheckFlag, Goto
  <2>2. WrittenInv'
    BY <1>1, <2>1 DEF WrittenInv, Written
  <2>3. WalkInv' /\ FlagInv'
    BY <1>1, <2>1 DEF WalkInv, FlagInv, Busy, Own, Mixed
  <2> QED  BY <2>2, <2>3
<1> QED  BY <1>2, <1>3

LEMMA PatchStays ==
    ASSUME StayInv, DriverPlace, PatchDescriptor PROVE StayInv'
<1> USE DEF StayInv
<1>1. /\ pc = "patch" /\ pc' = "write" /\ slot' = 1 /\ start' = Patch /\ word' = "head"
      /\ ~again /\ ~again' /\ UNCHANGED <<step, at, td, flag>> /\ Resting /\ ~flag
  <2>1. /\ pc = "patch" /\ pc' = "write" /\ start' = Patch /\ slot' = slot /\ word' = word
        /\ UNCHANGED <<step, again, at, td, flag>>
    BY DEF PatchDescriptor, Goto, message
  <2>2. ~again /\ Resting /\ ~flag
    BY <2>1 DEF WalkInv, FlagInv, Busy, DriverPlace
  <2> QED  BY <2>1, <2>2 DEF DriverPlace
<1>2. WrittenInv'
  BY <1>1 DEF WrittenInv, Written
<1>3. WalkInv' /\ FlagInv'
  BY <1>1 DEF WalkInv, FlagInv, Busy, Resting, Patch
<1> QED  BY <1>2, <1>3

-----------------------------------------------------------------------------
(* The chip keeps its place *)

\* A walking chip is at a TD of the step's list, all of which is there, and
\* finds it whole.
LEMMA Walking ==
    ASSUME StayInv, DriverPlace, at # Idle
    PROVE  /\ Busy /\ at \in 1 .. Len(Lists[step]) /\ at \in Slots
           /\ Sources(at) = {step}
           /\ Written = 1 .. Len(Lists[step])
           /\ ~again => start = Idle
           /\ flag => again
<1>1. step \in Steps /\ Len(Lists[step]) \in Nat /\ Len(Lists[step]) <= 10 /\ step # Data
  <2>1. step \in Steps
    BY DEF DriverPlace
  <2>2. Len(Lists[step]) \in Nat /\ Len(Lists[step]) <= 10
    BY <2>1, Fitting
  <2>3. step # Data
    BY <2>1 DEF Steps, Data
  <2> QED  BY <2>2, <2>3, <2>1
<1>2. Busy /\ at \in 1 .. Len(Lists[step]) /\ (~again => start = Idle) /\ (flag => again)
  BY <1>1 DEF StayInv, WalkInv, FlagInv, Resting, Idle
<1>3. Written = 1 .. Len(Lists[step])
  BY <1>2 DEF Busy, Written
<1>4. at \in Slots /\ list[at] = step
  BY <1>1, <1>2, <1>3 DEF StayInv, WrittenInv, Slots
<1>5. word = "link" => under = step
  BY <1>2 DEF StayInv, WrittenInv, Busy, DriverPlace
<1>6. Sources(at) = {step}
  BY <1>1, <1>4, <1>5 DEF Sources, HalfWritten
<1> QED  BY <1>2, <1>3, <1>4, <1>6

LEMMA WalkOn ==
    ASSUME StayInv, DriverPlace, at # Idle,
           UNCHANGED <<pc, step, slot, again, word, under, start>>,
           \A s \in 1 .. Len(Lists[step]) : list'[s] = list[s],
           at' \in 0 .. Len(Lists[step]), td' # NoTd => at' # Idle /\ td' = Own(at'),
           UNCHANGED flag \/ Resting'
    PROVE  StayInv'
<1>1. Busy' /\ Written' = Written /\ Written = 1 .. Len(Lists[step])
  BY Walking DEF Busy, Written
<1>2. WrittenInv'
  BY <1>1 DEF StayInv, WrittenInv
<1>3. WalkInv'
  <2>1. td' # NoTd => at' # Idle /\ td' = Own(at)'
    BY DEF Own, Mixed
  <2> QED  BY <1>1, <2>1, Walking DEF StayInv, WalkInv
<1>4. FlagInv'
  BY Walking DEF FlagInv, Resting, Busy
<1> QED  BY <1>2, <1>3, <1>4 DEF StayInv

LEMMA AdvanceStays ==
    ASSUME NEW next, Advance(next), td' = NoTd
    PROVE  at' = next /\ (UNCHANGED flag \/ Resting')
  BY DEF Advance, message, Resting

LEMMA ChipStartStays ==
    ASSUME StayInv, Ideal, DriverPlace, ChipStart PROVE StayInv'
<1>1. /\ UNCHANGED <<pc, step, slot, again, word, under, list, td, flag>> /\ td = NoTd
      /\ start' = Idle /\ start # Idle
  BY DEF ChipStart, driver, memory, message
<1>2. (at' = Idle /\ start = Patch) \/ (at' = 1 /\ start = 1)
  BY DEF ChipStart, StayInv, WalkInv
<1>3. WrittenInv'
  BY <1>1 DEF StayInv, WrittenInv, Written
<1>4. WalkInv'
  <2>1. Len(Lists[step]) \in Nat /\ 1 \in 0 .. Len(Lists[step])
    BY Lengths DEF DriverPlace
  <2>2. at' \in 0 .. Len(Lists[step']) /\ (~Busy' => at' = Idle)
    BY <1>1, <1>2, <2>1 DEF StayInv, WalkInv, Busy, Idle, Patch
  <2> QED  BY <1>1, <2>2 DEF StayInv, WalkInv, Busy, Resting, Idle
<1>5. FlagInv'
  BY <1>1 DEF StayInv, FlagInv
<1> QED  BY <1>3, <1>4, <1>5 DEF StayInv

LEMMA ChipFetchStays ==
    ASSUME StayInv, DriverPlace, ChipFetch PROVE StayInv'
<1>1. /\ UNCHANGED <<pc, step, slot, again, word, under, start, list>>
      /\ at \in Slots /\ td = NoTd
  BY DEF ChipFetch, driver, memory
<1>2. at # Idle
  BY <1>1 DEF Slots, Idle
<1>3. at \in 1 .. Len(Lists[step]) /\ Sources(at) = {step} /\ step \in Steps
  BY <1>2, Walking DEF DriverPlace
<1>4. PICK t \in Fetched(at) : \/ td' = t /\ UNCHANGED <<at, message>>
                               \/ UNCHANGED td /\ Advance(t.next)
  BY DEF ChipFetch
<1>5. t = Own(at) /\ t.next = Lists[step][at].next
  BY <1>3 DEF Fetched, Own, Mixed
<1>6. CASE td' = t /\ UNCHANGED <<at, message>>
  <2>1. at' \in 0 .. Len(Lists[step]) /\ td' = Own(at') /\ UNCHANGED flag /\ at' # Idle
    BY <1>2, <1>5, <1>6 DEF message, StayInv, WalkInv
  <2> QED  BY <1>1, <1>2, <2>1, WalkOn
<1>7. CASE UNCHANGED td /\ Advance(t.next)
  <2>1. t.next \in 0 .. Len(Lists[step])
    BY <1>3, <1>5, NextTds
  <2>2. at' = t.next /\ (UNCHANGED flag \/ Resting') /\ td' = NoTd
    BY <1>1, <1>7, AdvanceStays
  <2> QED  BY <1>1, <1>2, <2>1, <2>2, WalkOn
<1> QED  BY <1>4, <1>6, <1>7

LEMMA ExecutedStays ==
    ASSUME StayInv, DriverPlace, td # NoTd,
           UNCHANGED <<pc, step, slot, again, word, under, start>>,
           Executed({}) \/ Executed(Received), Advance(td.next) \/ Advance(Idle)
    PROVE  StayInv'
<1>1. td = Own(at) /\ at # Idle
  BY DEF StayInv, WalkInv
<1>2. at \in 1 .. Len(Lists[step]) /\ step \in Steps
  BY <1>1, Walking DEF DriverPlace
<1>3. Received \cap 1 .. Len(Lists[step]) = {} /\ td.next \in 0 .. Len(Lists[step])
  BY <1>1, <1>2, ReceivedApart
<1>4. Len(Lists[step]) \in Nat /\ Len(Lists[step]) <= 10
  BY <1>2, Fitting
<1>5. td' = NoTd /\ \A s \in 1 .. Len(Lists[step]) : list'[s] = list[s]
  <2>1. \A s \in 1 .. Len(Lists[step]) : s \in Slots /\ s \notin Received
    BY <1>3, <1>4 DEF Slots
  <2> QED  BY <2>1 DEF Executed
<1>6. at' \in 0 .. Len(Lists[step]) /\ (UNCHANGED flag \/ Resting')
  <2>1. CASE Advance(td.next)
    BY <1>3, <1>5, <2>1, AdvanceStays
  <2>2. CASE Advance(Idle)
    BY <1>4, <1>5, <2>2, AdvanceStays DEF Idle
  <2> QED  BY <2>1, <2>2
<1> QED  BY <1>1, <1>5, <1>6, WalkOn

LEMMA ChipStays ==
    ASSUME StayInv, Ideal, DriverPlace, Chip \/ Plug \/ Press PROVE StayInv'
<1>1. CASE ChipSuccess
  BY <1>1, ExecutedStays DEF ChipSuccess, driver
<1>2. CASE ChipFailure
  BY <1>2, ExecutedStays DEF ChipFailure, driver
<1>3. CASE ExecuteCommand \/ Plug \/ Press
  <2>1. UNCHANGED <<pc, step, slot, again, word, under, list, start, at, td, flag>>
    BY <1>3 DEF ExecuteCommand, Plug, Press, driver, memory, engine, message
  <2> QED
    BY <2>1 DEF StayInv, WrittenInv, Written, WalkInv, FlagInv, Busy, Resting, Own, Mixed
<1> QED  BY <1>1, <1>2, <1>3, ChipStartStays, ChipFetchStays DEF Chip

LEMMA DriverStays ==
    ASSUME StayInv, Ideal, OrderInv, DriverPlace', Driver PROVE StayInv'
<1>1. CASE WriteHead \/ WriteLink \/ WritePacket \/ StartList \/ CheckFlag \/ PatchDescriptor
  <2>1. DriverPlace
    BY DEF OrderInv
  <2> QED  BY <1>1, <2>1, WriteHeadStays, WriteLinkStays, WritePacketStays, StartListStays,
              CheckFlagStays, PatchStays
<1>2. CASE SoftReset
  <2>1. /\ pc = "reset" /\ pc' = "status" /\ start' = Idle /\ at' = Idle /\ td' = NoTd
        /\ flag' = FALSE /\ again' = again /\ step' = step /\ slot' = slot
    BY <1>2 DEF SoftReset, Goto
  <2>2. ~again /\ ~again'
    BY <2>1 DEF OrderInv, DriverPlace
  <2>3. Len(Lists[step']) \in Nat
    BY Fitting DEF DriverPlace
  <2> QED
    BY <2>1, <2>2, <2>3 DEF StayInv, WrittenInv, Written, WalkInv, FlagInv, Busy,
       Resting, Idle, Patch
<1>3. CASE \/ AwaitStatus \/ ResetBus \/ BusIsReset \/ Port \/ Inserted \/ ReadMessage
           \/ ClearMessage \/ CheckRetry \/ GetRetryCnt \/ ClearRetry \/ AwaitRetry
           \/ TakeKey \/ PortWhilePolling
  <2>1. UNCHANGED <<list, word, engine>>
    BY <1>3 DEF AwaitStatus, ResetBus, BusIsReset, Port, Inserted, ReadMessage,
       ClearMessage, CheckRetry, GetRetryCnt, ClearRetry, AwaitRetry, TakeKey,
       PortWhilePolling, Calm, memory
  <2>2. pc \notin {"write", "start", "flag"}
    BY <1>3 DEF AwaitStatus, ResetBus, BusIsReset, Port, Inserted, ReadMessage,
       ClearMessage, CheckRetry, GetRetryCnt, ClearRetry, AwaitRetry, TakeKey,
       PortWhilePolling
  <2>3. ~again /\ ~Busy
    BY <2>2 DEF OrderInv, DriverPlace, Busy
  <2>4. again' \in {again, FALSE}
    BY <1>3 DEF AwaitStatus, ResetBus, BusIsReset, Port, Inserted, ReadMessage,
       ClearMessage, CheckRetry, GetRetryCnt, ClearRetry, AwaitRetry, TakeKey,
       PortWhilePolling, HotPlug
  <2>5. pc' \notin {"start", "flag"}
    BY <1>3 DEF AwaitStatus, ResetBus, BusIsReset, Port, Inserted, ReadMessage,
       ClearMessage, CheckRetry, GetRetryCnt, ClearRetry, AwaitRetry, TakeKey,
       PortWhilePolling, HotPlug, Goto
  <2>6. slot = 1 /\ slot' \in {slot, 1} /\ word = "head"
    BY <1>3, <2>2 DEF AwaitStatus, ResetBus, BusIsReset, Port, Inserted, ReadMessage,
       ClearMessage, CheckRetry, GetRetryCnt, ClearRetry, AwaitRetry, TakeKey,
       PortWhilePolling, HotPlug, OrderInv, DriverPlace
  <2>7. flag' => flag /\ pc' = "msg"
    <3>1. flag => pc = "msg"
      BY <2>2, <2>3 DEF StayInv, FlagInv
    <3>2. CASE ReadMessage \/ GetRetryCnt
      BY <3>2 DEF ReadMessage, GetRetryCnt
    <3>3. CASE ~(ReadMessage \/ GetRetryCnt)
      <4>1. flag' = flag /\ pc # "msg"
        BY <1>3, <3>3 DEF AwaitStatus, ResetBus, BusIsReset, Port, Inserted,
           ClearMessage, CheckRetry, ClearRetry, AwaitRetry, TakeKey,
           PortWhilePolling, Calm, message
      <4> QED  BY <3>1, <4>1
    <3> QED  BY <3>2, <3>3
  <2>8. ~again'
    BY <2>3, <2>4
  <2> QED  BY <2>1, <2>3, <2>5, <2>6, <2>7, <2>8, DriverAlone
<1> QED  BY <1>1, <1>2, <1>3 DEF Driver

LEMMA StayNext ==
    ASSUME OrderInv, Ideal => StayInv, [Next]_vars PROVE Ideal => StayInv'
<1> SUFFICES ASSUME Ideal PROVE StayInv'
  OBVIOUS
<1>1. DriverPlace /\ DriverPlace'
  BY PlaceNext DEF OrderInv
<1>2. CASE UNCHANGED vars
  BY <1>2 DEF vars, driver, memory, message, engine, StayInv, WrittenInv, Written, WalkInv,
     FlagInv, Busy, Resting, Own, Mixed
<1> QED  BY <1>1, <1>2, ChipStays, DriverStays DEF Next

\* For every set of keys and number of looks: a chip that keeps up with the
\* driver never meets data, or a TD of another list as a whole or in part, in
\* the list it walks, whatever a keyboard answers into the buffers between the
\* lists, and though main writes and starts a list once more, word by word,
\* while the chip may be walking it.
THEOREM ChipPlaceCorrect == Spec => []ChipStaysInList
<1> DEFINE PlaceInv == (Prompt => OrderInv) /\ (Ideal => StayInv)
<1>1. Init => PlaceInv
  BY OrderInit, StayInit
<1>2. PlaceInv /\ [Next]_vars => PlaceInv'
  BY OrderNext, StayNext, ChipAssumption
<1>3. PlaceInv => ChipStaysInList
  BY Walking, ChipAssumption DEF ChipStaysInList, OrderInv, Slots, Idle
<1> QED  BY <1>1, <1>2, <1>3, PTL DEF Spec
===============================================================================
