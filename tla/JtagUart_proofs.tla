---------------------------- MODULE JtagUart_proofs ---------------------------
(***************************************************************************)
(* No byte waits for an interrupt that is off, a timeout for ever never     *)
(* passes, and the driver is two queues of bytes: proofs for rings and      *)
(* FIFOs of every size.                                                     *)
(***************************************************************************)
EXTENDS JtagUart, SequenceTheorems, TLAPS

Values == Bytes \cup {Free}

\* What the thread holds in its local variables, where it matters.
Locals ==
    /\ buffer \in Seq(Values) /\ rxFifo \in Seq(Bytes)
    /\ pc \in WritePcs => space <= Len(buffer)
    /\ pc = "w_memcpy" => n <= space
    /\ pc = "r_memcpy" => n \in 1 .. space /\ out + n <= BUF_LEN
    /\ pc = "r_advance" => buffer # << >>
    /\ pc = "w_test" => "WE" \in control \/ tx_in = tx_out

UartInv == TypeOK /\ Locals /\ NothingStuck

LEMMA Assumptions ==
    /\ BUF_LEN \in Nat /\ BUF_LEN >= 2 /\ MaxCount \in Nat
    /\ INT_MAX \in Nat /\ INT_MAX >= 4 /\ DEFAULT_TIMEOUT \in 2 .. INT_MAX
    /\ 0 \in Slots
  BY BufferAssumption, TimeoutAssumption DEF Slots

-----------------------------------------------------------------------------
(* The ring buffers.                                                       *)

LEMMA NextSlot ==
    ASSUME NEW s \in Slots
    PROVE  (s + 1) % BUF_LEN \in Slots /\ (s + 1) % BUF_LEN # s
<1> USE Assumptions
<1>1. CASE s + 1 < BUF_LEN
  BY <1>1 DEF Slots
<1>2. CASE s + 1 = BUF_LEN
  BY <1>2 DEF Slots
<1> QED  BY <1>1, <1>2 DEF Slots

LEMMA SomeSlot == ASSUME NEW k \in Nat PROVE k % BUF_LEN \in Slots
  BY Assumptions DEF Slots

LEMMA Room ==
    ASSUME NEW i \in Slots, NEW o \in Slots
    PROVE  /\ TxRoom(i, o) \in 0 .. BUF_LEN - 1
           /\ RxAvail(i, o) \in 0 .. BUF_LEN - 1
           /\ o + RxAvail(i, o) <= BUF_LEN
           /\ RxAvail(i, o) = 0 <=> i = o
  BY Assumptions DEF TxRoom, RxAvail, Slots

\* What one round of write() or of read() moves.
LEMMA Share ==
    ASSUME NEW i \in Slots, NEW o \in Slots, NEW s \in Nat
    PROVE  /\ Least(TxRoom(i, o), s) \in 0 .. BUF_LEN - 1
           /\ Least(TxRoom(i, o), s) <= s
           /\ Least(RxAvail(i, o), s) \in 0 .. BUF_LEN - 1
           /\ Least(RxAvail(i, o), s) <= s
           /\ o + Least(RxAvail(i, o), s) <= BUF_LEN
           /\ Least(RxAvail(i, o), s) = 0 <=> i = o \/ s = 0
<1>1. TxRoom(i, o) \in 0 .. BUF_LEN - 1 /\ RxAvail(i, o) \in 0 .. BUF_LEN - 1
  BY Room
<1>2. o + RxAvail(i, o) <= BUF_LEN
  BY Room
<1>3. RxAvail(i, o) = 0 <=> i = o
  BY Room
<1>4. o \in Nat /\ BUF_LEN \in Nat
  BY Assumptions DEF Slots
<1> QED  BY <1>1, <1>2, <1>3, <1>4 DEF Least

\* The rings' indices are slots, and a count is a number.
LEMMA Ranges ==
    ASSUME TypeOK
    PROVE  /\ tx_in \in Slots /\ tx_out \in Slots
           /\ rx_in \in Slots /\ rx_out \in Slots /\ space \in Nat
<1>1. tx_in \in Slots /\ tx_out \in Slots /\ rx_in \in Slots /\ rx_out \in Slots
  BY DEF TypeOK
<1>2. space \in 0 .. MaxCount
  BY DEF TypeOK
<1> QED  BY <1>1, <1>2, Assumptions

\* The buffer of a call of write().
LEMMA StringsAreBuffers ==
    ASSUME NEW s \in Strings
    PROVE  s \in Seq(Values) /\ Len(s) \in 0 .. MaxCount
<1>1. PICK k \in 0 .. MaxCount : s \in [1 .. k -> Bytes]
  BY DEF Strings
<1>2. k \in Nat /\ s \in [1 .. k -> Values]
  BY <1>1, Assumptions DEF Values
<1>3. s \in Seq(Values) /\ Len(s) = k
  BY <1>2
<1> QED  BY <1>1, <1>3

LEMMA UartInvInit == Init => UartInv
<1> SUFFICES ASSUME Init PROVE UartInv
  OBVIOUS
<1> USE Assumptions
<1>1. TypeOK
  BY DEF Init, TypeOK, Slots, Idle
<1>2. Locals
  BY DEF Init, Locals, WritePcs, Values, Idle
<1>3. NothingStuck
  BY DEF Init, NothingStuck
<1> QED  BY <1>1, <1>2, <1>3 DEF UartInv

-----------------------------------------------------------------------------
(* One step of the thread.                                                 *)

\* The end of a call leaves nothing to be said of the local variables.
LEMMA ReturnLocals ==
    ASSUME UartInv, NEW moved, Return(moved), rxFifo' = rxFifo
    PROVE  /\ Locals' /\ pc' = Idle
           /\ space' \in 0 .. MaxCount /\ n' \in 0 .. BUF_LEN - 1
           /\ in' \in Slots /\ out' \in Slots
  BY Assumptions DEF UartInv, Locals, Return, Idle, WritePcs

LEMMA CallInv ==
    ASSUME UartInv, WriteCall \/ ReadCall \/ CloseCall \/ CloseReturn
                    \/ (\E t \in Ints : SetTimeout(t))
    PROVE  UartInv'
<1> USE Assumptions
<1>1. CASE WriteCall
  <2>1. buffer' \in Seq(Values) /\ space' = Len(buffer') /\ space' \in 0 .. MaxCount
    BY <1>1, StringsAreBuffers DEF WriteCall
  <2>2. TypeOK'
    BY <1>1, <2>1 DEF WriteCall, UartInv, TypeOK, Thread, WritePcs, ring, device, clock
  <2>3. Locals'
    BY <1>1, <2>1 DEF WriteCall, UartInv, Locals, Thread, device
  <2>4. NothingStuck'
    BY <1>1 DEF WriteCall, UartInv, NothingStuck, Thread, Idle, WritePcs, ring, device
  <2> QED  BY <2>2, <2>3, <2>4 DEF UartInv
<1>2. CASE ReadCall
  <2>1. TypeOK'
    BY <1>2 DEF ReadCall, UartInv, TypeOK, Thread, ReadPcs, ring, device, clock
  <2>2. Locals'
    BY <1>2 DEF ReadCall, UartInv, Locals, Thread, WritePcs, device
  <2>3. NothingStuck'
    BY <1>2 DEF ReadCall, UartInv, NothingStuck, Thread, Idle, WritePcs, ring, device
  <2> QED  BY <2>1, <2>2, <2>3 DEF UartInv
<1>3. CASE CloseCall
  <2>1. TypeOK'
    BY <1>3 DEF CloseCall, UartInv, TypeOK, Thread, ring, device, clock
  <2>2. Locals'
    BY <1>3 DEF CloseCall, UartInv, Locals, Thread, WritePcs, device
  <2>3. NothingStuck'
    BY <1>3 DEF CloseCall, UartInv, NothingStuck, Thread, Idle, WritePcs, ring, device
  <2> QED  BY <2>1, <2>2, <2>3 DEF UartInv
<1>4. CASE CloseReturn
  <2>1. TypeOK'
    BY <1>4 DEF CloseReturn, UartInv, TypeOK, Thread, ring, device, clock
  <2>2. Locals'
    BY <1>4 DEF CloseReturn, UartInv, Locals, Thread, Idle, WritePcs, device
  <2>3. NothingStuck'
    BY <1>4 DEF CloseReturn, UartInv, NothingStuck, Thread, Idle, WritePcs, ring, device
  <2> QED  BY <2>1, <2>2, <2>3 DEF UartInv
<1>5. ASSUME NEW t \in Ints, SetTimeout(t) PROVE UartInv'
  <2>1. EffectiveTimeout(t) \in 2 .. INT_MAX
    BY DEF EffectiveTimeout, Ints
  <2>2. TypeOK'
    BY <1>5, <2>1 DEF SetTimeout, UartInv, TypeOK, Thread, ring, device
  <2>3. Locals'
    BY <1>5 DEF SetTimeout, UartInv, Locals, Thread, Idle, WritePcs, device
  <2>4. NothingStuck'
    BY <1>5 DEF SetTimeout, UartInv, NothingStuck, Thread, Idle, WritePcs, ring, device
  <2> QED  BY <2>2, <2>3, <2>4 DEF UartInv
<1> QED  BY <1>1, <1>2, <1>3, <1>4, <1>5

LEMMA WriteInv == ASSUME UartInv, Write PROVE UartInv'
<1> USE Assumptions
<1>1. CASE WriteSnapshot
  <2> DEFINE k == Least(TxRoom(tx_in, tx_out), space)
  <2>1. k \in 0 .. BUF_LEN - 1 /\ k <= space
    BY Share, Ranges DEF UartInv
  <2>2. \/ space = 0 /\ pc' = "w_kick" /\ UNCHANGED <<in, out, n>>
        \/ in' = tx_in /\ out' = tx_out /\ n' = k /\ pc' \in {"w_kick", "w_memcpy"}
    BY <1>1 DEF WriteSnapshot
  <2> HIDE DEF k
  <2>3. TypeOK'
    BY <1>1, <2>1, <2>2 DEF WriteSnapshot, UartInv, TypeOK, WritePcs, ring, device, clock
  <2>4. Locals'
    BY <1>1, <2>1, <2>2 DEF WriteSnapshot, UartInv, TypeOK, Locals, WritePcs, device
  <2>5. NothingStuck'
    BY <1>1, <2>2 DEF WriteSnapshot, UartInv, NothingStuck, WritePcs, ring, device
  <2> QED  BY <2>3, <2>4, <2>5 DEF UartInv
<1>2. CASE WriteMemcpy
  <2>1. /\ space \in Nat /\ n \in Nat /\ n <= space /\ space <= Len(buffer)
        /\ in \in Nat /\ buffer \in Seq(Values) /\ tx_buf \in [Slots -> Values]
    BY <1>2 DEF WriteMemcpy, Thread, UartInv, TypeOK, Locals, WritePcs, Slots, Values
  <2>2. tx_buf' \in [Slots -> Values]
    <3>1. ASSUME NEW s \in Slots, s \in in .. in + n - 1
          PROVE  buffer[ptr + 1 + s - in] \in Values
      <4>1. ptr + 1 + s - in \in 1 .. Len(buffer)
        BY <2>1, <3>1 DEF ptr, Slots
      <4> QED  BY <2>1, <4>1
    <3> QED  BY <1>2, <2>1, <3>1 DEF WriteMemcpy
  <2>3. TypeOK'
    BY <1>2, <2>1, <2>2
       DEF WriteMemcpy, UartInv, TypeOK, Thread, WritePcs, Values, device, clock
  <2>4. Locals'
    BY <1>2, <2>1 DEF WriteMemcpy, UartInv, TypeOK, Locals, Thread, WritePcs, device
  <2>5. NothingStuck'
    BY <1>2 DEF WriteMemcpy, UartInv, NothingStuck, Thread, WritePcs, device
  <2> QED  BY <2>3, <2>4, <2>5 DEF UartInv
<1>3. CASE WriteAdvance
  <2>1. (in + n) % BUF_LEN \in Slots
    <3>1. in + n \in Nat
      BY DEF UartInv, TypeOK, Slots
    <3> QED  BY <3>1, SomeSlot
  <2>2. TypeOK'
    BY <1>3, <2>1 DEF WriteAdvance, UartInv, TypeOK, Thread, WritePcs, device, clock
  <2>3. Locals'
    BY <1>3 DEF WriteAdvance, UartInv, Locals, Thread, WritePcs, device
  <2>4. NothingStuck'
    BY <1>3 DEF WriteAdvance, UartInv, NothingStuck, Thread, WritePcs, device
  <2> QED  BY <2>2, <2>3, <2>4 DEF UartInv
<1>4. CASE WriteKick
  <2>1. /\ irq_enable' = irq_enable \cup {"WE"} /\ control' = irq_enable'
        /\ UNCHANGED ring /\ UNCHANGED clock /\ rxFifo' = rxFifo
    BY <1>4 DEF WriteKick, SetEnable
  <2>2. CASE Return(ptr)
    <3>1. Locals' /\ pc' = Idle /\ space' \in 0 .. MaxCount /\ n' \in 0 .. BUF_LEN - 1
          /\ in' \in Slots /\ out' \in Slots
      BY <2>1, <2>2, ReturnLocals
    <3>2. TypeOK'
      BY <2>1, <3>1 DEF UartInv, TypeOK, ring, clock
    <3>3. NothingStuck'
      BY <1>4, <2>1, <3>1 DEF WriteKick, UartInv, TypeOK, NothingStuck, Idle, WritePcs, ring
    <3> QED  BY <3>1, <3>2, <3>3 DEF UartInv
  <2>3. CASE pc' = "w_wait" /\ Stay
    <3>1. TypeOK'
      BY <2>1, <2>3 DEF UartInv, TypeOK, WritePcs, Stay, ring, clock
    <3>2. Locals'
      BY <1>4, <2>1, <2>3 DEF WriteKick, UartInv, Locals, WritePcs, Stay
    <3>3. NothingStuck'
      BY <1>4, <2>1, <2>3 DEF WriteKick, UartInv, TypeOK, NothingStuck, WritePcs, ring
    <3> QED  BY <3>1, <3>2, <3>3 DEF UartInv
  <2> QED  BY <1>4, <2>2, <2>3 DEF WriteKick
<1>5. CASE WriteWait
  <2>1. TypeOK'
    BY <1>5 DEF WriteWait, UartInv, TypeOK, Thread, WritePcs, ring, device, clock
  <2>2. Locals'
    BY <1>5 DEF WriteWait, UartInv, Locals, NothingStuck, Thread, WritePcs, ring, device
  <2>3. NothingStuck'
    BY <1>5 DEF WriteWait, UartInv, NothingStuck, Thread, WritePcs, ring, device
  <2> QED  BY <2>1, <2>2, <2>3 DEF UartInv
<1>6. CASE WriteTest
  <2>1. pc = "w_test" /\ UNCHANGED <<ring, irq_enable, clock, device>>
    BY <1>6 DEF WriteTest
  <2>2. CASE Return(ptr)
    <3>1. Locals' /\ pc' = Idle /\ space' \in 0 .. MaxCount /\ n' \in 0 .. BUF_LEN - 1
          /\ in' \in Slots /\ out' \in Slots
      BY <2>1, <2>2, ReturnLocals DEF device
    <3>2. TypeOK'
      BY <2>1, <3>1 DEF UartInv, TypeOK, ring, clock, device
    <3>3. NothingStuck'
      BY <2>1, <3>1 DEF UartInv, Locals, NothingStuck, Idle, WritePcs, ring, device
    <3> QED  BY <3>1, <3>2, <3>3 DEF UartInv
  <2>3. CASE pc' = "w_copy" /\ Stay
    <3>1. TypeOK'
      BY <2>1, <2>3 DEF UartInv, TypeOK, WritePcs, Stay, ring, clock, device
    <3>2. Locals'
      BY <2>1, <2>3 DEF UartInv, Locals, WritePcs, Stay, device
    <3>3. NothingStuck'
      BY <2>1, <2>3 DEF UartInv, NothingStuck, WritePcs, ring, device
    <3> QED  BY <3>1, <3>2, <3>3 DEF UartInv
  <2> QED  BY <1>6, <2>2, <2>3 DEF WriteTest
<1> QED  BY <1>1, <1>2, <1>3, <1>4, <1>5, <1>6 DEF Write

LEMMA ReadInv == ASSUME UartInv, Read PROVE UartInv'
<1> USE Assumptions
<1>1. CASE ReadSnapshot
  <2> DEFINE k == Least(RxAvail(rx_in, rx_out), space)
  <2>1. /\ k \in 0 .. BUF_LEN - 1 /\ k <= space /\ rx_out + k <= BUF_LEN
        /\ k = 0 <=> rx_in = rx_out \/ space = 0
    BY Share, Ranges DEF UartInv
  <2>2. pc = "r_copy" /\ UNCHANGED <<ring, irq_enable, clock, device>>
    BY <1>1 DEF ReadSnapshot
  <2>3. CASE Return(0) /\ k = 0 /\ buffer = << >> /\ (flags \/ space = 0)
    <3>1. Locals' /\ pc' = Idle /\ space' \in 0 .. MaxCount /\ n' \in 0 .. BUF_LEN - 1
          /\ in' \in Slots /\ out' \in Slots
      BY <2>2, <2>3, ReturnLocals DEF device
    <3>2. TypeOK'
      BY <2>2, <3>1 DEF UartInv, TypeOK, ring, clock, device
    <3>3. NothingStuck'
      BY <2>2, <2>3, <3>1 DEF UartInv, NothingStuck, Idle, WritePcs, ring, device
    <3> QED  BY <3>1, <3>2, <3>3 DEF UartInv
  <2>4. CASE /\ in' = rx_in /\ out' = rx_out /\ n' = k
             /\ pc' = IF k > 0 THEN "r_memcpy"
                      ELSE IF buffer # << >> THEN "r_enable" ELSE "r_wait"
             /\ UNCHANGED <<flags, buffer, space, ret>>
    <3> HIDE DEF k
    <3>1. TypeOK'
      BY <2>1, <2>2, <2>4 DEF UartInv, TypeOK, ReadPcs, ring, clock, device
    <3>2. Locals'
      BY <2>1, <2>2, <2>4 DEF UartInv, TypeOK, Locals, WritePcs, ring, device
    <3>3. NothingStuck'
      BY <2>1, <2>2, <2>4 DEF UartInv, NothingStuck, WritePcs, ring, device
    <3> QED  BY <3>1, <3>2, <3>3 DEF UartInv
  <2> QED  BY <1>1, <2>3, <2>4 DEF ReadSnapshot
<1>2. CASE ReadMemcpy
  <2> DEFINE piece == [k \in 1 .. n |-> rx_buf[out + k - 1]]
  <2>1. /\ space \in Nat /\ n \in 1 .. space /\ out \in Nat /\ out + n <= BUF_LEN
        /\ buffer \in Seq(Values) /\ rx_buf \in [Slots -> Values]
    BY <1>2 DEF ReadMemcpy, Thread, UartInv, TypeOK, Locals, Slots, Values
  <2>2. piece \in Seq(Values) /\ Len(piece) = n
    <3>1. \A k \in 1 .. n : out + k - 1 \in Slots
      BY <2>1 DEF Slots
    <3>2. n \in Nat /\ piece \in [1 .. n -> Values]
      BY <2>1, <3>1
    <3> QED  BY <3>2
  <2>3. buffer' = buffer \o piece /\ space' = space - n
    BY <1>2 DEF ReadMemcpy
  <2> HIDE DEF piece
  <2>4. buffer' \in Seq(Values) /\ buffer' # << >>
    BY <2>1, <2>2, <2>3
  <2>5. TypeOK'
    BY <1>2, <2>1, <2>3 DEF ReadMemcpy, UartInv, TypeOK, Thread, ReadPcs, ring, device, clock
  <2>6. Locals'
    BY <1>2, <2>4 DEF ReadMemcpy, UartInv, Locals, Thread, WritePcs, device
  <2>7. NothingStuck'
    BY <1>2 DEF ReadMemcpy, UartInv, NothingStuck, Thread, WritePcs, ring, device
  <2> QED  BY <2>5, <2>6, <2>7 DEF UartInv
<1>3. CASE ReadAdvance
  <2>1. (out + n) % BUF_LEN \in Slots
    <3>1. out + n \in Nat
      BY DEF UartInv, TypeOK, Slots
    <3> QED  BY <3>1, SomeSlot
  <2>2. TypeOK'
    BY <1>3, <2>1 DEF ReadAdvance, UartInv, TypeOK, Thread, ReadPcs, Values, device, clock
  <2>3. Locals'
    BY <1>3 DEF ReadAdvance, UartInv, Locals, Thread, WritePcs, device
  <2>4. NothingStuck'
    BY <1>3 DEF ReadAdvance, UartInv, Locals, NothingStuck, Thread, WritePcs, device
  <2> QED  BY <2>2, <2>3, <2>4 DEF UartInv
<1>4. CASE ReadWait
  <2>1. TypeOK'
    BY <1>4 DEF ReadWait, UartInv, TypeOK, Thread, ReadPcs, ring, device, clock
  <2>2. Locals'
    BY <1>4 DEF ReadWait, UartInv, Locals, Thread, WritePcs, device
  <2>3. NothingStuck'
    BY <1>4 DEF ReadWait, UartInv, NothingStuck, Thread, WritePcs, ring, device
  <2> QED  BY <2>1, <2>2, <2>3 DEF UartInv
<1>5. CASE ReadTest
  <2>1. pc = "r_test" /\ UNCHANGED <<ring, irq_enable, clock, device>>
    BY <1>5 DEF ReadTest
  <2>2. CASE Return(0)
    <3>1. Locals' /\ pc' = Idle /\ space' \in 0 .. MaxCount /\ n' \in 0 .. BUF_LEN - 1
          /\ in' \in Slots /\ out' \in Slots
      BY <2>1, <2>2, ReturnLocals DEF device
    <3>2. TypeOK'
      BY <2>1, <3>1 DEF UartInv, TypeOK, ring, clock, device
    <3>3. NothingStuck'
      BY <2>1, <3>1 DEF UartInv, NothingStuck, Idle, WritePcs, ring, device
    <3> QED  BY <3>1, <3>2, <3>3 DEF UartInv
  <2>3. CASE pc' = "r_copy" /\ Stay
    <3>1. TypeOK'
      BY <2>1, <2>3 DEF UartInv, TypeOK, ReadPcs, Stay, ring, clock, device
    <3>2. Locals'
      BY <2>1, <2>3 DEF UartInv, Locals, WritePcs, Stay, device
    <3>3. NothingStuck'
      BY <2>1, <2>3 DEF UartInv, NothingStuck, WritePcs, ring, device
    <3> QED  BY <3>1, <3>2, <3>3 DEF UartInv
  <2> QED  BY <1>5, <2>2, <2>3 DEF ReadTest
<1>6. CASE ReadEnable
  <2>1. /\ irq_enable' = irq_enable \cup {"RE"} /\ control' = irq_enable'
        /\ UNCHANGED ring /\ UNCHANGED clock /\ rxFifo' = rxFifo /\ pc = "r_enable"
    BY <1>6 DEF ReadEnable, SetEnable
  <2>2. Locals' /\ pc' = Idle /\ space' \in 0 .. MaxCount /\ n' \in 0 .. BUF_LEN - 1
        /\ in' \in Slots /\ out' \in Slots
    BY <1>6, <2>1, ReturnLocals DEF ReadEnable
  <2>3. TypeOK'
    BY <2>1, <2>2 DEF UartInv, TypeOK, ring, clock
  <2>4. NothingStuck'
    BY <2>1, <2>2 DEF UartInv, TypeOK, NothingStuck, Idle, WritePcs, ring
  <2> QED  BY <2>2, <2>3, <2>4 DEF UartInv
<1> QED  BY <1>1, <1>2, <1>3, <1>4, <1>5, <1>6 DEF Read

-----------------------------------------------------------------------------
(* One step of the interrupt routine, the alarm or the host.               *)

LEMMA IrqInv == ASSUME UartInv, Irq PROVE UartInv'
<1> USE Assumptions
<1>1. CASE IrqControl
  <2>1. UNCHANGED <<ring, irq_enable, clock, device, thread>>
    BY <1>1 DEF IrqControl
  <2> QED
    BY <2>1 DEF UartInv, TypeOK, Locals, NothingStuck, ring, clock, device, thread
<1>2. CASE IrqReceive
  <2>1. CASE rxFifo = << >>
    BY <1>2, <2>1
       DEF IrqReceive, UartInv, TypeOK, Locals, NothingStuck, clock, thread
  <2>2. CASE rxFifo # << >>
    <3>1. /\ rx_buf' = [rx_buf EXCEPT ![rx_in] = Head(rxFifo)]
          /\ rx_in' = (rx_in + 1) % BUF_LEN /\ rxFifo' = Tail(rxFifo)
          /\ UNCHANGED <<rx_out, tx_in, tx_out, tx_buf, irq_enable, clock, control, thread>>
          /\ rx_in' # rx_out
      BY <1>2, <2>2 DEF IrqReceive, RxFull
    <3>2. rx_in' \in Slots
      BY <3>1, NextSlot DEF UartInv, TypeOK
    <3>3. Head(rxFifo) \in Bytes /\ rxFifo' \in Seq(Bytes)
      BY <2>2, <3>1 DEF UartInv, Locals
    <3>4. TypeOK'
      BY <3>1, <3>2, <3>3 DEF UartInv, TypeOK, clock, thread
    <3>5. Locals'
      BY <3>1, <3>3 DEF UartInv, Locals, thread
    <3>6. NothingStuck'
      BY <3>1 DEF UartInv, NothingStuck, thread
    <3> QED  BY <3>4, <3>5, <3>6 DEF UartInv
  <2> QED  BY <2>1, <2>2
<1>3. CASE IrqRxFull
  <2>1. rx_in # rx_out
    BY <1>3, NextSlot DEF IrqRxFull, RxFull, UartInv, TypeOK
  <2>2. /\ UNCHANGED <<ring, clock, rxFifo, thread>>
        /\ \/ irq_enable' = irq_enable \ {"RE"} /\ control' = irq_enable'
           \/ UNCHANGED <<irq_enable, control>>
    BY <1>3 DEF IrqRxFull, SetEnable
  <2>3. TypeOK'
    BY <2>2 DEF UartInv, TypeOK, ring, clock, thread
  <2>4. Locals'
    BY <2>2 DEF UartInv, TypeOK, Locals, ring, thread
  <2>5. NothingStuck'
    BY <2>1, <2>2 DEF UartInv, TypeOK, NothingStuck, ring, thread
  <2> QED  BY <2>3, <2>4, <2>5 DEF UartInv
<1>4. CASE IrqSend
  <2>1. /\ tx_out # tx_in /\ tx_out' = (tx_out + 1) % BUF_LEN
        /\ tx_buf' = [tx_buf EXCEPT ![tx_out] = Free]
        /\ UNCHANGED <<rx_in, rx_out, tx_in, rx_buf, irq_enable, clock, control, rxFifo, thread>>
    BY <1>4 DEF IrqSend
  <2>2. tx_out' \in Slots
    BY <2>1, NextSlot DEF UartInv, TypeOK
  <2>3. TypeOK'
    BY <2>1, <2>2 DEF UartInv, TypeOK, clock, thread
  <2>4. Locals'
    BY <2>1 DEF UartInv, Locals, thread
  <2>5. NothingStuck'
    BY <2>1 DEF UartInv, NothingStuck, thread
  <2> QED  BY <2>3, <2>4, <2>5 DEF UartInv
<1>5. CASE IrqTxEnd
  <2>1. /\ UNCHANGED <<ring, clock, rxFifo, thread>>
        /\ \/ tx_out = tx_in /\ irq_enable' = irq_enable \ {"WE"} /\ control' = irq_enable'
           \/ UNCHANGED <<irq_enable, control>>
    BY <1>5 DEF IrqTxEnd, SetEnable
  <2>2. TypeOK'
    BY <2>1 DEF UartInv, TypeOK, ring, clock, thread
  <2>3. Locals'
    BY <2>1 DEF UartInv, Locals, ring, thread
  <2>4. NothingStuck'
    BY <2>1 DEF UartInv, TypeOK, NothingStuck, ring, thread
  <2> QED  BY <2>2, <2>3, <2>4 DEF UartInv
<1> QED  BY <1>1, <1>2, <1>3, <1>4, <1>5 DEF Irq

LEMMA OutsideInv ==
    ASSUME UartInv, Second \/ HostTakes \/ HostSends \/ HostPolls \/ UNCHANGED vars
    PROVE  UartInv'
<1> USE Assumptions
<1>1. CASE Second
  <2>1. /\ UNCHANGED <<ring, irq_enable, timeout, rxFifo, thread>>
        /\ control' \in {control, irq_enable}
        /\ host_inactive' \in 0 .. INT_MAX - 2
    BY <1>1 DEF Second, OneMore, UartInv, TypeOK
  <2> QED
    BY <2>1 DEF UartInv, TypeOK, Locals, NothingStuck, ring, thread
<1>2. CASE HostTakes \/ HostPolls \/ UNCHANGED vars
  <2>1. UNCHANGED <<ring, irq_enable, clock, control, rxFifo, thread>>
    BY <1>2 DEF HostTakes, HostPolls, vars, device
  <2> QED
    BY <2>1 DEF UartInv, TypeOK, Locals, NothingStuck, ring, clock, thread
<1>3. CASE HostSends
  <2>1. PICK b \in Bytes : rxFifo' = Append(rxFifo, b)
    BY <1>3 DEF HostSends
  <2>2. UNCHANGED <<ring, irq_enable, clock, control, thread>> /\ rxFifo' \in Seq(Bytes)
    BY <1>3, <2>1 DEF HostSends, UartInv, Locals
  <2> QED
    BY <2>2 DEF UartInv, TypeOK, Locals, NothingStuck, ring, clock, thread
<1> QED  BY <1>1, <1>2, <1>3

-----------------------------------------------------------------------------
LEMMA UartInvariant == Spec => []UartInv
<1>1. UartInv /\ [Next]_vars => UartInv'
  BY CallInv, WriteInv, ReadInv, IrqInv, OutsideInv DEF Next
<1> QED  BY <1>1, UartInvInit, PTL DEF Spec

\* However the thread, the interrupt routine and the host interleave, bytes
\* that wait have the interrupt on that moves them, or a thread that is about
\* to turn it on (altera_avalon_jtag_uart_write.c:136-139, _read.c:188-195,
\* _init.c:156-184).
THEOREM NoLostInterrupt == Spec => []NothingStuck
<1>1. UartInv => NothingStuck
  BY DEF UartInv
<1> QED  BY <1>1, UartInvariant, PTL

\* The count of seconds never reaches a timeout that stands for ever
\* (altera_avalon_jtag_uart_init.c:203-225, _ioctl.c:52-84).
THEOREM ForeverNeverPasses == Spec => []ForeverIsForever
<1>1. UartInv => ForeverIsForever
  BY Assumptions DEF UartInv, TypeOK, ForeverIsForever
<1> QED  BY <1>1, UartInvariant, PTL

\* The indices stay in the rings, and no call moves more than it was given.
THEOREM UartTypeCorrect == Spec => []TypeOK
<1>1. UartInv => TypeOK
  BY DEF UartInv
<1> QED  BY <1>1, UartInvariant, PTL

-----------------------------------------------------------------------------
(* The rings and the FIFOs implement one queue of bytes each way.           *)

\* The number of bytes between two indices of a ring.
Used(o, i) == (i - o + BUF_LEN) % BUF_LEN

\* What the thread has snapshot or copied is still true of the rings when it
\* advances its index, because the interrupt routine only ever takes from the
\* transmit ring and adds to the receive ring.
Piece ==
    /\ pc \in {"w_memcpy", "w_advance"}
        => in = tx_in /\ n \in Nat \ {0} /\ in + n <= BUF_LEN
           /\ Used(tx_out, tx_in) + n <= BUF_LEN - 1
    /\ pc \in {"r_memcpy", "r_advance"}
        => out = rx_out /\ n \in Nat \ {0} /\ out + n <= BUF_LEN
           /\ n <= Used(rx_out, rx_in)
    /\ pc \in {"w_advance", "r_advance"}
        => space + n <= MaxCount /\ n <= Len(buffer)

Copied ==
    /\ pc = "w_advance"
        => /\ space + n <= Len(buffer)
           /\ \A k \in 1 .. n : tx_buf[tx_in + k - 1] = buffer[ptr - n + k]
    /\ pc = "r_advance"
        => \A k \in 1 .. n : buffer[Len(buffer) - n + k] = rx_buf[rx_out + k - 1]

\* The FIFO of the device takes what the interrupt routine has room for.
FifoRoom ==
    /\ txFifo \in Seq(Values)
    /\ room \in Nat /\ Len(txFifo) + room <= FIFO_LEN

NothingRead == pc \in {"r_wait", "r_test"} => buffer = << >>

ChannelInv == Piece /\ Copied /\ FifoRoom /\ NothingRead

-----------------------------------------------------------------------------
(* Counting around a ring.                                                  *)

\* A sum of two slots passes the end of the ring at most once.
LEMMA Wrap ==
    ASSUME NEW x \in 0 .. 2 * BUF_LEN - 1
    PROVE  x % BUF_LEN = IF x < BUF_LEN THEN x ELSE x - BUF_LEN
<1> USE Assumptions
<1>1. CASE x < BUF_LEN
  BY <1>1
<1>2. CASE x >= BUF_LEN
  <2>1. x - BUF_LEN \in 0 .. BUF_LEN - 1
    BY <1>2
  <2> QED  BY <1>2, <2>1
<1> QED  BY <1>1, <1>2

LEMMA UsedIs ==
    ASSUME NEW o \in Slots, NEW i \in Slots
    PROVE  /\ Used(o, i) = IF o <= i THEN i - o ELSE i - o + BUF_LEN
           /\ Used(o, i) \in 0 .. BUF_LEN - 1
<1>1. i - o + BUF_LEN \in 0 .. 2 * BUF_LEN - 1
  BY Assumptions DEF Slots
<1>2. Used(o, i) = IF i - o + BUF_LEN < BUF_LEN THEN i - o + BUF_LEN ELSE i - o
  BY <1>1, Wrap, Assumptions DEF Used, Slots
<1> QED  BY <1>2, Assumptions DEF Slots

\* The kth byte waiting in a ring whose oldest byte is in slot o.
Place(o, k) == (o + k - 1) % BUF_LEN

LEMMA PlaceIs ==
    ASSUME NEW o \in Slots, NEW k \in 1 .. BUF_LEN
    PROVE  /\ Place(o, k) = IF o + k - 1 < BUF_LEN THEN o + k - 1
                            ELSE o + k - 1 - BUF_LEN
           /\ Place(o, k) \in Slots
<1>1. o + k - 1 \in 0 .. 2 * BUF_LEN - 1
  BY Assumptions DEF Slots
<1>2. Place(o, k) = IF o + k - 1 < BUF_LEN THEN o + k - 1 ELSE o + k - 1 - BUF_LEN
  BY <1>1, Wrap, Assumptions DEF Place, Slots
<1> QED  BY <1>2, Assumptions DEF Slots

\* Slots behind the newest byte hold none of the bytes that wait.
LEMMA PlacesApart ==
    ASSUME NEW o \in Slots, NEW i \in Slots, NEW m \in Nat,
           Used(o, i) + m <= BUF_LEN - 1, i + m <= BUF_LEN,
           NEW k \in 1 .. Used(o, i)
    PROVE  Place(o, k) \in Slots /\ Place(o, k) \notin i .. i + m - 1
<1>1. k \in 1 .. BUF_LEN /\ k <= Used(o, i)
  BY UsedIs, Assumptions
<1>2. Place(o, k) = IF o + k - 1 < BUF_LEN THEN o + k - 1 ELSE o + k - 1 - BUF_LEN
  BY <1>1, PlaceIs
<1>3. Used(o, i) = IF o <= i THEN i - o ELSE i - o + BUF_LEN
  BY UsedIs
<1>4. Place(o, k) \in Slots
  BY <1>1, PlaceIs
<1> QED  BY <1>1, <1>2, <1>3, <1>4, Assumptions DEF Slots

\* Moving the inner index on by m makes the ring m bytes longer, moving the
\* outer one makes it m bytes shorter.
LEMMA UsedAfterPut ==
    ASSUME NEW o \in Slots, NEW i \in Slots, NEW m \in Nat,
           Used(o, i) + m <= BUF_LEN - 1, i + m <= BUF_LEN
    PROVE  /\ (i + m) % BUF_LEN \in Slots
           /\ Used(o, (i + m) % BUF_LEN) = Used(o, i) + m
           /\ \A k \in 1 .. m : Place(o, Used(o, i) + k) = i + k - 1
<1>1. (i + m) % BUF_LEN = IF i + m < BUF_LEN THEN i + m ELSE 0
  <2>1. i + m \in 0 .. 2 * BUF_LEN - 1
    BY Assumptions DEF Slots
  <2> QED  BY <2>1, Wrap, Assumptions DEF Slots
<1>2. (i + m) % BUF_LEN \in Slots
  BY <1>1, Assumptions DEF Slots
<1>3. Used(o, i) = IF o <= i THEN i - o ELSE i - o + BUF_LEN
  BY UsedIs
<1>4. Used(o, (i + m) % BUF_LEN) = Used(o, i) + m
  <2> DEFINE j == (i + m) % BUF_LEN
  <2>1. Used(o, j) = IF o <= j THEN j - o ELSE j - o + BUF_LEN
    BY <1>2, UsedIs
  <2>2. j = IF i + m < BUF_LEN THEN i + m ELSE 0
    BY <1>1
  <2> HIDE DEF j
  <2>3. Used(o, j) = Used(o, i) + m
    BY <1>3, <2>1, <2>2, Assumptions DEF Slots
  <2> QED  BY <2>3 DEF j
<1>5. ASSUME NEW k \in 1 .. m PROVE Place(o, Used(o, i) + k) = i + k - 1
  <2>1. Used(o, i) + k \in 1 .. BUF_LEN
    BY UsedIs, Assumptions
  <2>2. Place(o, Used(o, i) + k)
          = IF o + (Used(o, i) + k) - 1 < BUF_LEN THEN o + (Used(o, i) + k) - 1
            ELSE o + (Used(o, i) + k) - 1 - BUF_LEN
    BY <2>1, PlaceIs
  <2> QED  BY <1>3, <2>1, <2>2, Assumptions DEF Slots
<1> QED  BY <1>2, <1>4, <1>5

LEMMA UsedAfterGet ==
    ASSUME NEW o \in Slots, NEW i \in Slots, NEW m \in Nat,
           m <= Used(o, i), o + m <= BUF_LEN
    PROVE  /\ (o + m) % BUF_LEN \in Slots
           /\ Used((o + m) % BUF_LEN, i) = Used(o, i) - m
           /\ \A k \in 1 .. m : Place(o, k) = o + k - 1
           /\ \A k \in 1 .. Used(o, i) - m :
                 Place((o + m) % BUF_LEN, k) = Place(o, m + k)
<1> DEFINE p == (o + m) % BUF_LEN
<1>1. p = IF o + m < BUF_LEN THEN o + m ELSE 0
  <2>1. o + m \in 0 .. 2 * BUF_LEN - 1
    BY Assumptions DEF Slots
  <2> QED  BY <2>1, Wrap, Assumptions DEF Slots
<1>2. p \in Slots
  BY <1>1, Assumptions DEF Slots
<1> HIDE DEF p
<1>3. /\ Used(o, i) = IF o <= i THEN i - o ELSE i - o + BUF_LEN
      /\ Used(o, i) \in 0 .. BUF_LEN - 1
  BY UsedIs
<1>4. Used(p, i) = Used(o, i) - m
  <2>1. Used(p, i) = IF p <= i THEN i - p ELSE i - p + BUF_LEN
    BY <1>2, UsedIs
  <2> QED  BY <1>1, <1>3, <2>1, Assumptions DEF Slots
<1>5. ASSUME NEW k \in 1 .. m PROVE Place(o, k) = o + k - 1
  <2>1. k \in 1 .. BUF_LEN
    BY <1>3, Assumptions
  <2> QED  BY <2>1, PlaceIs, Assumptions DEF Slots
<1>6. ASSUME NEW k \in 1 .. Used(o, i) - m PROVE Place(p, k) = Place(o, m + k)
  <2>1. k \in 1 .. BUF_LEN /\ m + k \in 1 .. BUF_LEN
    BY <1>3, Assumptions
  <2>2. Place(p, k) = IF p + k - 1 < BUF_LEN THEN p + k - 1 ELSE p + k - 1 - BUF_LEN
    BY <1>2, <2>1, PlaceIs
  <2>3. Place(o, m + k) = IF o + (m + k) - 1 < BUF_LEN THEN o + (m + k) - 1
                          ELSE o + (m + k) - 1 - BUF_LEN
    BY <2>1, PlaceIs
  <2> QED  BY <1>1, <2>1, <2>2, <2>3, Assumptions DEF Slots
<1> QED  BY <1>2, <1>4, <1>5, <1>6 DEF p

-----------------------------------------------------------------------------
(* The bytes waiting in a ring.                                             *)

LEMMA ContentsIs ==
    ASSUME NEW buf \in [Slots -> Values], NEW o \in Slots, NEW i \in Slots
    PROVE  /\ Contents(buf, o, i) = [k \in 1 .. Used(o, i) |-> buf[Place(o, k)]]
           /\ Contents(buf, o, i) \in Seq(Values)
           /\ Len(Contents(buf, o, i)) = Used(o, i)
<1>1. Contents(buf, o, i) = [k \in 1 .. Used(o, i) |-> buf[Place(o, k)]]
  BY Zenon DEF Contents, Used, Place
<1>2. Used(o, i) \in Nat /\ Used(o, i) <= BUF_LEN
  BY UsedIs, Assumptions
<1>3. \A k \in 1 .. Used(o, i) : buf[Place(o, k)] \in Values
  BY <1>2, PlaceIs, Assumptions
<1>4. Contents(buf, o, i) \in [1 .. Used(o, i) -> Values]
  BY <1>1, <1>3
<1> QED  BY <1>1, <1>2, <1>4

\* Slots that hold none of the waiting bytes may change.
LEMMA ContentsSame ==
    ASSUME NEW b1 \in [Slots -> Values], NEW b2 \in [Slots -> Values],
           NEW o \in Slots, NEW i \in Slots,
           \A k \in 1 .. Used(o, i) : b1[Place(o, k)] = b2[Place(o, k)]
    PROVE  Contents(b1, o, i) = Contents(b2, o, i)
<1>1. /\ Contents(b1, o, i) = [k \in 1 .. Used(o, i) |-> b1[Place(o, k)]]
      /\ Contents(b2, o, i) = [k \in 1 .. Used(o, i) |-> b2[Place(o, k)]]
  BY ContentsIs
<1> QED  BY <1>1

LEMMA ContentsPut ==
    ASSUME NEW buf \in [Slots -> Values], NEW o \in Slots, NEW i \in Slots,
           NEW m \in Nat, Used(o, i) + m <= BUF_LEN - 1, i + m <= BUF_LEN,
           NEW p \in Seq(Values), Len(p) = m,
           \A k \in 1 .. m : buf[i + k - 1] = p[k]
    PROVE  Contents(buf, o, (i + m) % BUF_LEN) = Contents(buf, o, i) \o p
<1> DEFINE j == (i + m) % BUF_LEN
           u == Used(o, i)
           old == Contents(buf, o, i)
           new == Contents(buf, o, j)
<1>1. j \in Slots /\ Used(o, j) = u + m /\ u \in Nat
  BY UsedAfterPut, UsedIs
<1>2. \A k \in 1 .. m : Place(o, u + k) = i + k - 1
  BY UsedAfterPut
<1>3. /\ old \in Seq(Values) /\ Len(old) = u
      /\ old = [k \in 1 .. u |-> buf[Place(o, k)]]
  BY ContentsIs
<1> HIDE DEF j
<1>4. /\ new \in Seq(Values) /\ Len(new) = u + m
      /\ new = [k \in 1 .. u + m |-> buf[Place(o, k)]]
  <2>1. /\ new \in Seq(Values) /\ Len(new) = Used(o, j)
        /\ new = [k \in 1 .. Used(o, j) |-> buf[Place(o, k)]]
    BY <1>1, ContentsIs
  <2> QED  BY <1>1, <2>1, Zenon
<1> HIDE DEF u, old, new
<1>5. /\ old \o p \in Seq(Values) /\ Len(old \o p) = u + m
      /\ \A k \in 1 .. u + m : (old \o p)[k] = IF k <= u THEN old[k] ELSE p[k - u]
  BY <1>3, ConcatProperties
<1>6. ASSUME NEW k \in 1 .. u + m PROVE new[k] = (old \o p)[k]
  <2>1. CASE k <= u
    BY <1>1, <1>3, <1>4, <1>5, <2>1
  <2>2. CASE k > u
    <3>1. k - u \in 1 .. m /\ k = u + (k - u)
      BY <1>1, <2>2
    <3>2. Place(o, k) = i + (k - u) - 1
      BY <1>2, <3>1
    <3> QED  BY <1>1, <1>4, <1>5, <2>2, <3>1, <3>2
  <2>3. k <= u \/ k > u
    BY <1>1
  <2> QED  BY <2>1, <2>2, <2>3, Zenon
<1>7. new = old \o p
  BY <1>4, <1>5, <1>6, SeqEqual
<1> QED  BY <1>7 DEF j, old, new

LEMMA ContentsGet ==
    ASSUME NEW buf \in [Slots -> Values], NEW o \in Slots, NEW i \in Slots,
           NEW m \in Nat, m <= Used(o, i), o + m <= BUF_LEN,
           NEW p \in Seq(Values), Len(p) = m,
           \A k \in 1 .. m : buf[o + k - 1] = p[k]
    PROVE  Contents(buf, o, i) = p \o Contents(buf, (o + m) % BUF_LEN, i)
<1> DEFINE q == (o + m) % BUF_LEN
           u == Used(o, i)
           old == Contents(buf, o, i)
           new == Contents(buf, q, i)
<1>1. q \in Slots /\ Used(q, i) = u - m /\ u \in Nat /\ u - m \in Nat
  BY UsedAfterGet, UsedIs
<1>2. \A k \in 1 .. m : Place(o, k) = o + k - 1
  BY UsedAfterGet
<1>3. \A k \in 1 .. u - m : Place(q, k) = Place(o, m + k)
  BY UsedAfterGet
<1>4. /\ old \in Seq(Values) /\ Len(old) = u
      /\ old = [k \in 1 .. u |-> buf[Place(o, k)]]
  BY ContentsIs
<1> HIDE DEF q
<1>5. /\ new \in Seq(Values) /\ Len(new) = u - m
      /\ new = [k \in 1 .. u - m |-> buf[Place(q, k)]]
  <2>1. /\ new \in Seq(Values) /\ Len(new) = Used(q, i)
        /\ new = [k \in 1 .. Used(q, i) |-> buf[Place(q, k)]]
    BY <1>1, ContentsIs
  <2> QED  BY <1>1, <2>1, Zenon
<1> HIDE DEF u, old, new
<1>6. /\ p \o new \in Seq(Values) /\ Len(p \o new) = u
      /\ \A k \in 1 .. u : (p \o new)[k] = IF k <= m THEN p[k] ELSE new[k - m]
  <2>0. p \in Seq(Values) /\ new \in Seq(Values)
    BY <1>5
  <2>1. p \o new \in Seq(Values) /\ Len(p \o new) = Len(p) + Len(new)
    BY <2>0, ConcatProperties
  <2>3. \A k \in 1 .. Len(p) + Len(new) :
              (p \o new)[k] = IF k <= Len(p) THEN p[k] ELSE new[k - Len(p)]
    BY <2>0, ConcatProperties
  <2>2. Len(p) = m /\ Len(p) + Len(new) = u
    BY <1>1, <1>5
  <2> QED  BY <2>1, <2>2, <2>3
<1>7. ASSUME NEW k \in 1 .. u PROVE old[k] = (p \o new)[k]
  <2>1. CASE k <= m
    <3>1. k \in 1 .. m
      BY <1>1, <2>1
    <3> QED  BY <1>2, <1>4, <1>6, <2>1, <3>1
  <2>2. CASE k > m
    <3>1. k - m \in 1 .. u - m /\ k = m + (k - m)
      BY <1>1, <2>2
    <3>2. Place(q, k - m) = Place(o, k)
      BY <1>3, <3>1
    <3>3. (p \o new)[k] = new[k - m]
      BY <1>1, <1>6, <2>2
    <3> QED  BY <1>4, <1>5, <3>1, <3>2, <3>3
  <2>3. k <= m \/ k > m
    BY <1>1
  <2> QED  BY <2>1, <2>2, <2>3, Zenon
<1>8. old = p \o new
  BY <1>4, <1>6, <1>7, SeqEqual
<1> QED  BY <1>8 DEF q, old, new

\* The same of a piece that lies in the ring from slot s on.
Forward(s, m) == (s + m) % BUF_LEN
Lies(buf, s, p) == \A k \in 1 .. Len(p) : buf[s + k - 1] = p[k]
Fits(o, i, m)  == Used(o, i) + m <= BUF_LEN - 1 /\ i + m <= BUF_LEN
Waits(o, i, m) == m <= Used(o, i) /\ o + m <= BUF_LEN

LEMMA PutPiece ==
    ASSUME NEW buf \in [Slots -> Values], NEW o \in Slots, NEW i \in Slots,
           NEW p \in Seq(Values), Fits(o, i, Len(p)), Lies(buf, i, p)
    PROVE  Contents(buf, o, Forward(i, Len(p))) = Contents(buf, o, i) \o p
<1>1. Len(p) \in Nat
  OBVIOUS
<1> QED  BY <1>1, ContentsPut, Zenon DEF Fits, Lies, Forward

LEMMA GetPiece ==
    ASSUME NEW buf \in [Slots -> Values], NEW o \in Slots, NEW i \in Slots,
           NEW p \in Seq(Values), Waits(o, i, Len(p)), Lies(buf, o, p)
    PROVE  Contents(buf, o, i) = p \o Contents(buf, Forward(o, Len(p)), i)
<1>1. Len(p) \in Nat
  OBVIOUS
<1> QED  BY <1>1, ContentsGet, Zenon DEF Waits, Lies, Forward

-----------------------------------------------------------------------------
(* Sequences.                                                               *)

\* What follows a prefix, and the prefix.
LEMMA PrefixRest ==
    ASSUME NEW p \in Seq(Values), NEW s \in Seq(Values)
    PROVE  /\ channel!Prefix(p \o s, Len(p)) = p
           /\ channel!Rest(p \o s, Len(p)) = s
<1> DEFINE t == p \o s
<1>1. /\ t \in Seq(Values) /\ Len(t) = Len(p) + Len(s)
      /\ \A k \in 1 .. Len(p) + Len(s) : t[k] = IF k <= Len(p) THEN p[k] ELSE s[k - Len(p)]
  BY ConcatProperties
<1>2. Len(p) \in Nat /\ Len(s) \in Nat
  OBVIOUS
<1> HIDE DEF t
<1>3. SubSeq(t, 1, Len(p)) = p
  <2>1. /\ SubSeq(t, 1, Len(p)) \in Seq(Values)
        /\ Len(SubSeq(t, 1, Len(p))) = Len(p)
        /\ \A k \in 1 .. Len(p) : SubSeq(t, 1, Len(p))[k] = t[k]
    BY <1>1, <1>2
  <2> QED  BY <1>1, <1>2, <2>1, SeqEqual
<1>4. SubSeq(t, Len(p) + 1, Len(t)) = s
  <2>1. /\ SubSeq(t, Len(p) + 1, Len(t)) \in Seq(Values)
        /\ Len(SubSeq(t, Len(p) + 1, Len(t))) = Len(s)
        /\ \A k \in 1 .. Len(s) : SubSeq(t, Len(p) + 1, Len(t))[k] = t[Len(p) + k]
    BY <1>1, <1>2
  <2>2. \A k \in 1 .. Len(s) : t[Len(p) + k] = s[k]
    BY <1>1, <1>2
  <2> QED  BY <2>1, <2>2, SeqEqual
<1> QED  BY <1>3, <1>4 DEF channel!Prefix, channel!Rest, t

-----------------------------------------------------------------------------
(* ChannelInv is inductive.                                                 *)

LEMMA RingStep ==
    ASSUME NEW o \in Slots, NEW i \in Slots
    PROVE  /\ o # i => 1 <= Used(o, i) /\ o + 1 <= BUF_LEN
           /\ (i + 1) % BUF_LEN # o
                => Used(o, i) + 1 <= BUF_LEN - 1 /\ i + 1 <= BUF_LEN
<1>1. Used(o, i) = IF o <= i THEN i - o ELSE i - o + BUF_LEN
  BY UsedIs
<1>2. (i + 1) % BUF_LEN = IF i + 1 < BUF_LEN THEN i + 1 ELSE 0
  <2>1. i + 1 \in 0 .. 2 * BUF_LEN - 1
    BY Assumptions DEF Slots
  <2> QED  BY <2>1, Wrap, Assumptions DEF Slots
<1> QED  BY <1>1, <1>2, Assumptions DEF Slots

\* What a snapshot shows fits, and is there.
LEMMA SnapshotFits ==
    ASSUME NEW i \in Slots, NEW o \in Slots, NEW s \in Nat
    PROVE  /\ i + Least(TxRoom(i, o), s) <= BUF_LEN
           /\ Used(o, i) + Least(TxRoom(i, o), s) <= BUF_LEN - 1
           /\ Least(RxAvail(i, o), s) <= Used(o, i)
<1>1. Used(o, i) = IF o <= i THEN i - o ELSE i - o + BUF_LEN
  BY UsedIs
<1>2. /\ i + TxRoom(i, o) <= BUF_LEN /\ Used(o, i) + TxRoom(i, o) <= BUF_LEN - 1
      /\ RxAvail(i, o) <= Used(o, i)
  BY <1>1, Assumptions DEF TxRoom, RxAvail, Slots
<1>3. TxRoom(i, o) \in Nat /\ RxAvail(i, o) \in Nat /\ Used(o, i) \in Nat /\ i \in Nat
  BY Room, UsedIs, Assumptions DEF Slots
<1> QED  BY <1>2, <1>3, Assumptions DEF Least

Copying == {"w_memcpy", "w_advance", "r_memcpy", "r_advance"}

\* Outside the copy loops there is no piece.
LEMMA NoPiece == ASSUME pc' \notin Copying PROVE Piece' /\ Copied'
  BY DEF Copying, Piece, Copied

\* What the invariant says does not change with the clock and the interrupts.
LEMMA PieceSame ==
    ASSUME Piece, Copied, UNCHANGED ring, UNCHANGED thread
    PROVE  Piece' /\ Copied'
  BY DEF Piece, Copied, Used, ptr, ring, thread

LEMMA CallPiece ==
    ASSUME ChannelInv, WriteCall \/ ReadCall \/ CloseCall \/ CloseReturn
                       \/ (\E t \in Ints : SetTimeout(t))
    PROVE  ChannelInv'
<1>1. pc' \in {"w_copy", "r_copy", "c_wait", Idle}
  BY DEF WriteCall, ReadCall, CloseCall, CloseReturn, SetTimeout, Thread
<1>2. Piece' /\ Copied' /\ NothingRead'
  BY <1>1, NoPiece DEF Copying, NothingRead, Idle
<1>3. UNCHANGED <<txFifo, room>>
  BY DEF WriteCall, ReadCall, CloseCall, CloseReturn, SetTimeout, device, irq
<1> QED  BY <1>2, <1>3 DEF ChannelInv, FifoRoom

LEMMA ThreadFifo == ASSUME Write \/ Read PROVE UNCHANGED <<txFifo, room>>
  BY DEF Write, Read, WriteSnapshot, WriteMemcpy, WriteAdvance, WriteKick, WriteWait,
         WriteTest, ReadSnapshot, ReadMemcpy, ReadAdvance, ReadWait, ReadEnable,
         ReadTest, device, irq

LEMMA WritePiece == ASSUME UartInv, ChannelInv, Write PROVE ChannelInv'
<1> USE Assumptions
<1>1. FifoRoom'
  BY ThreadFifo DEF ChannelInv, FifoRoom
<1>2. CASE WriteSnapshot /\ pc' = "w_memcpy"
  <2> DEFINE k == Least(TxRoom(tx_in, tx_out), space)
  <2>1. /\ in' = tx_in /\ out' = tx_out /\ n' = k /\ n' # 0
        /\ UNCHANGED <<tx_in, tx_out, rx_in, rx_out>>
    BY <1>2 DEF WriteSnapshot, ring
  <2>2. tx_in \in Slots /\ tx_out \in Slots /\ space \in Nat
    BY Ranges DEF UartInv
  <2>3. /\ tx_in + k <= BUF_LEN /\ Used(tx_out, tx_in) + k <= BUF_LEN - 1
        /\ k \in 0 .. BUF_LEN - 1
    BY <2>2, SnapshotFits, Share
  <2> HIDE DEF k
  <2>4. Piece'
    BY <1>2, <2>1, <2>3 DEF Piece, Used
  <2>5. Copied' /\ NothingRead'
    BY <1>2 DEF Copied, NothingRead
  <2> QED  BY <1>1, <2>4, <2>5 DEF ChannelInv
<1>3. CASE WriteMemcpy
  <2>1. /\ pc = "w_memcpy" /\ pc' = "w_advance" /\ space' = space - n
        /\ UNCHANGED <<tx_in, tx_out, in, n, buffer>>
        /\ tx_buf' = [s \in Slots |-> IF s \in in .. in + n - 1
                                      THEN buffer[ptr + 1 + s - in] ELSE tx_buf[s]]
    BY <1>3 DEF WriteMemcpy, Thread
  <2>2. /\ in = tx_in /\ n \in Nat \ {0} /\ in + n <= BUF_LEN
        /\ Used(tx_out, tx_in) + n <= BUF_LEN - 1
    BY <2>1 DEF ChannelInv, Piece
  <2>3. /\ n <= space /\ space <= Len(buffer) /\ Len(buffer) \in Nat
        /\ space \in 0 .. MaxCount /\ tx_in \in 0 .. BUF_LEN - 1
    BY <2>1 DEF UartInv, Locals, TypeOK, WritePcs, Slots
  <2>4. Piece'
    BY <2>1, <2>2, <2>3 DEF Piece, Used
  <2>5. ASSUME NEW k \in 1 .. n
        PROVE  tx_buf'[tx_in' + k - 1] = buffer'[ptr' - n' + k]
    <3>1. tx_in + k - 1 \in Slots /\ tx_in + k - 1 \in in .. in + n - 1
      BY <2>2, <2>3 DEF Slots
    <3>2. tx_buf'[tx_in + k - 1] = buffer[ptr + 1 + (tx_in + k - 1) - in]
      BY <2>1, <3>1
    <3>3. ptr' = ptr + n /\ ptr \in Int
      BY <2>1, <2>2, <2>3 DEF ptr
    <3>4. ptr + 1 + (tx_in + k - 1) - in = ptr' - n' + k
      BY <2>1, <2>2, <2>3, <3>3
    <3> QED  BY <2>1, <3>2, <3>4
  <2>6. space' + n' <= Len(buffer')
    BY <2>1, <2>2, <2>3
  <2>7. Copied'
    BY <2>1, <2>5, <2>6 DEF Copied
  <2>8. NothingRead'
    BY <2>1 DEF NothingRead
  <2> QED  BY <1>1, <2>4, <2>7, <2>8 DEF ChannelInv
<1>4. CASE \/ WriteSnapshot /\ pc' # "w_memcpy"
           \/ WriteAdvance \/ WriteKick \/ WriteWait \/ WriteTest
  <2>1. pc' \in {"w_copy", "w_kick", "w_wait", "w_test", Idle}
    BY <1>4 DEF WriteSnapshot, WriteAdvance, WriteKick, WriteWait, WriteTest, Thread, Return
  <2>2. Piece' /\ Copied' /\ NothingRead'
    BY <2>1, NoPiece DEF Copying, NothingRead, Idle
  <2> QED  BY <1>1, <2>2 DEF ChannelInv
<1> QED  BY <1>2, <1>3, <1>4 DEF Write

LEMMA ReadPiece == ASSUME UartInv, ChannelInv, Read PROVE ChannelInv'
<1> USE Assumptions
<1>1. FifoRoom'
  BY ThreadFifo DEF ChannelInv, FifoRoom
<1>2. CASE ReadSnapshot
  <2> DEFINE k == Least(RxAvail(rx_in, rx_out), space)
  <2>1. CASE pc' \notin {"r_memcpy", "r_wait"}
    <3>1. pc' \in {"r_enable", Idle}
      BY <1>2, <2>1 DEF ReadSnapshot, Return
    <3> QED  BY <1>1, <3>1, NoPiece DEF Copying, NothingRead, ChannelInv, Idle
  <2>2. CASE pc' = "r_wait"
    <3>1. buffer' = << >>
      BY <1>2, <2>2 DEF ReadSnapshot, Return, Idle
    <3> QED  BY <1>1, <2>2, <3>1, NoPiece DEF Copying, NothingRead, ChannelInv
  <2>3. CASE pc' = "r_memcpy"
    <3>1. /\ out' = rx_out /\ n' = k /\ UNCHANGED <<rx_in, rx_out>>
          /\ k > 0
      BY <1>2, <2>3 DEF ReadSnapshot, Return, Idle, ring
    <3>2. rx_in \in Slots /\ rx_out \in Slots /\ space \in Nat
      BY Ranges DEF UartInv
    <3>3. /\ rx_out + k <= BUF_LEN /\ k <= Used(rx_out, rx_in)
          /\ k \in 0 .. BUF_LEN - 1
      BY <3>2, SnapshotFits, Share
    <3> HIDE DEF k
    <3>4. Piece'
      BY <2>3, <3>1, <3>3 DEF Piece, Used
    <3>5. Copied' /\ NothingRead'
      BY <2>3 DEF Copied, NothingRead
    <3> QED  BY <1>1, <3>4, <3>5 DEF ChannelInv
  <2> QED  BY <2>1, <2>2, <2>3
<1>3. CASE ReadMemcpy
  <2> DEFINE p == [k \in 1 .. n |-> rx_buf[out + k - 1]]
  <2>1. /\ pc = "r_memcpy" /\ pc' = "r_advance" /\ space' = space - n
        /\ UNCHANGED <<rx_in, rx_out, rx_buf, out, n>> /\ buffer' = buffer \o p
    BY <1>3 DEF ReadMemcpy, Thread, ring
  <2>2. /\ out = rx_out /\ n \in Nat \ {0} /\ out + n <= BUF_LEN
        /\ n <= Used(rx_out, rx_in)
    BY <2>1 DEF ChannelInv, Piece
  <2>3. /\ n <= space /\ space \in 0 .. MaxCount /\ rx_out \in 0 .. BUF_LEN - 1
        /\ buffer \in Seq(Values) /\ rx_buf \in [Slots -> Values]
    BY <2>1 DEF UartInv, Locals, TypeOK, Slots, Values
  <2>4. p \in Seq(Values) /\ Len(p) = n
    <3>1. \A k \in 1 .. n : out + k - 1 \in Slots
      BY <2>2, <2>3 DEF Slots
    <3>2. n \in Nat /\ p \in [1 .. n -> Values]
      BY <2>2, <2>3, <3>1
    <3> QED  BY <3>2
  <2>5. p = [k \in 1 .. n |-> rx_buf[out + k - 1]]
    OBVIOUS
  <2> HIDE DEF p
  <2>6. /\ Len(buffer') = Len(buffer) + n /\ Len(buffer) \in Nat
        /\ \A k \in 1 .. n : buffer'[Len(buffer) + k] = p[k]
    <3>1. Len(buffer) \in Nat /\ n \in Nat /\ Len(buffer) + n = Len(buffer) + Len(p)
      BY <2>2, <2>3, <2>4
    <3>2. Len(buffer \o p) = Len(buffer) + Len(p)
      BY <2>3, <2>4, ConcatProperties
    <3>3. ASSUME NEW k \in 1 .. n PROVE (buffer \o p)[Len(buffer) + k] = p[k]
      BY <2>3, <2>4, <3>1
    <3> QED  BY <2>1, <3>1, <3>2, <3>3
  <2>7. Piece'
    BY <2>1, <2>2, <2>3, <2>6 DEF Piece, Used
  <2>8. ASSUME NEW k \in 1 .. n'
        PROVE  buffer'[Len(buffer') - n' + k] = rx_buf'[rx_out' + k - 1]
    <3>1. Len(buffer') - n' + k = Len(buffer) + k /\ k \in 1 .. n
      BY <2>1, <2>2, <2>6
    <3> QED  BY <2>1, <2>2, <2>5, <2>6, <3>1
  <2>9. Copied' /\ NothingRead'
    BY <2>1, <2>8 DEF Copied, NothingRead
  <2> QED  BY <1>1, <2>7, <2>9 DEF ChannelInv
<1>4. CASE ReadWait
  <2>1. pc = "r_wait" /\ pc' = "r_test" /\ buffer' = buffer
    BY <1>4 DEF ReadWait, Thread
  <2>2. NothingRead'
    BY <2>1 DEF ChannelInv, NothingRead
  <2> QED  BY <1>1, <2>1, <2>2, NoPiece DEF Copying, ChannelInv
<1>5. CASE ReadAdvance \/ ReadTest \/ ReadEnable
  <2>1. pc' \in {"r_copy", "r_enable", Idle}
    BY <1>5 DEF ReadAdvance, ReadTest, ReadEnable, Thread, Return
  <2>2. Piece' /\ Copied' /\ NothingRead'
    BY <2>1, NoPiece DEF Copying, NothingRead, Idle
  <2> QED  BY <1>1, <2>2 DEF ChannelInv
<1> QED  BY <1>2, <1>3, <1>4, <1>5 DEF Read

LEMMA IrqPiece == ASSUME UartInv, ChannelInv, Irq PROVE ChannelInv'
<1> USE Assumptions
<1>1. UNCHANGED thread /\ NothingRead'
  BY DEF Irq, IrqControl, IrqReceive, IrqRxFull, IrqSend, IrqTxEnd, ChannelInv,
         NothingRead, thread
<1>2. CASE IrqControl
  <2>1. UNCHANGED ring /\ txFifo' = txFifo
    BY <1>2 DEF IrqControl, device
  <2>2. Piece' /\ Copied'
    BY <1>1, <2>1, PieceSame DEF ChannelInv
  <2>3. FifoRoom'
    <3>1. room' = FIFO_LEN - Len(txFifo) \/ room' = 0
      BY <1>2 DEF IrqControl
    <3> QED
      BY <2>1, <3>1, FifoAssumption DEF ChannelInv, FifoRoom
  <2> QED  BY <1>1, <2>2, <2>3 DEF ChannelInv
<1>3. CASE IrqRxFull
  <2>1. UNCHANGED ring /\ txFifo' = txFifo /\ room' = room
    BY <1>3 DEF IrqRxFull
  <2>2. Piece' /\ Copied'
    BY <1>1, <2>1, PieceSame DEF ChannelInv
  <2> QED  BY <1>1, <2>1, <2>2 DEF ChannelInv, FifoRoom
<1>4. CASE IrqTxEnd
  <2>1. UNCHANGED ring /\ txFifo' = txFifo /\ room' = 0
    BY <1>4 DEF IrqTxEnd
  <2>2. Piece' /\ Copied'
    BY <1>1, <2>1, PieceSame DEF ChannelInv
  <2>3. FifoRoom'
    <3>1. room \in Nat /\ Len(txFifo) + room <= FIFO_LEN /\ txFifo \in Seq(Values)
      BY DEF ChannelInv, FifoRoom
    <3>2. Len(txFifo) + 0 <= FIFO_LEN
      BY <3>1, FifoAssumption
    <3> QED  BY <2>1, <3>1, <3>2 DEF FifoRoom
  <2> QED  BY <1>1, <2>2, <2>3 DEF ChannelInv
<1>5. CASE IrqReceive
  <2>1. UNCHANGED <<tx_in, tx_out, tx_buf, rx_out, pc, buffer, space, in, out, n,
                    txFifo, room>>
    BY <1>1, <1>5 DEF IrqReceive, thread
  <2>2. rx_in \in Slots /\ rx_out \in Slots /\ rx_buf \in [Slots -> Values]
    BY DEF UartInv, TypeOK, Values
  <2>3. CASE UNCHANGED <<rx_in, rx_buf>>
    BY <1>1, <2>1, <2>3, PieceSame DEF ChannelInv, FifoRoom, ring
  <2>4. CASE /\ rx_in' = (rx_in + 1) % BUF_LEN
             /\ rx_buf' = [rx_buf EXCEPT ![rx_in] = Head(rxFifo)]
    <3>1. Used(rx_out, rx_in) + 1 <= BUF_LEN - 1 /\ rx_in + 1 <= BUF_LEN
      BY <1>5, <2>2, RingStep DEF IrqReceive, RxFull
    <3>2. Used(rx_out, rx_in') = Used(rx_out, rx_in) + 1 /\ Used(rx_out, rx_in) \in Nat
      BY <2>2, <2>4, <3>1, UsedAfterPut, UsedIs
    <3>3. Piece'
      BY <2>1, <3>2 DEF ChannelInv, Piece, Used
    <3>4. ASSUME pc = "r_advance", NEW k \in 1 .. n
          PROVE  rx_buf'[rx_out + k - 1] = rx_buf[rx_out + k - 1]
      <4>1. n \in Nat /\ n <= Used(rx_out, rx_in) /\ rx_out + n <= BUF_LEN
        BY <3>4 DEF ChannelInv, Piece
      <4>2. Used(rx_out, rx_in) = IF rx_out <= rx_in THEN rx_in - rx_out
                                  ELSE rx_in - rx_out + BUF_LEN
        BY <2>2, UsedIs
      <4>3. rx_out + k - 1 \in Slots /\ rx_out + k - 1 # rx_in
        BY <2>2, <3>4, <4>1, <4>2 DEF Slots
      <4> QED  BY <2>2, <2>4, <4>3
    <3>5. Copied'
      BY <2>1, <3>4 DEF ChannelInv, Copied, ptr
    <3> QED  BY <1>1, <2>1, <3>3, <3>5 DEF ChannelInv, FifoRoom
  <2> QED  BY <1>5, <2>3, <2>4 DEF IrqReceive
<1>6. CASE IrqSend
  <2>1. /\ UNCHANGED <<tx_in, rx_in, rx_out, rx_buf, pc, buffer, space, in, out, n>>
        /\ tx_out # tx_in /\ tx_out' = (tx_out + 1) % BUF_LEN
        /\ tx_buf' = [tx_buf EXCEPT ![tx_out] = Free]
    BY <1>1, <1>6 DEF IrqSend, thread
  <2>2. tx_in \in Slots /\ tx_out \in Slots /\ tx_buf \in [Slots -> Values]
    BY DEF UartInv, TypeOK, Values
  <2>3. /\ 1 <= Used(tx_out, tx_in) /\ tx_out + 1 <= BUF_LEN
        /\ Used(tx_out, tx_in) \in 0 .. BUF_LEN - 1
    BY <2>1, <2>2, RingStep, UsedIs
  <2>4. Used(tx_out', tx_in) = Used(tx_out, tx_in) - 1
    BY <2>1, <2>2, <2>3, UsedAfterGet
  <2>5. Piece'
    BY <2>1, <2>3, <2>4 DEF ChannelInv, Piece, Used
  <2>6. ASSUME pc = "w_advance", NEW k \in 1 .. n
        PROVE  tx_buf'[tx_in + k - 1] = tx_buf[tx_in + k - 1]
    <3>1. /\ n \in Nat /\ tx_in + n <= BUF_LEN
          /\ Used(tx_out, tx_in) + n <= BUF_LEN - 1
      BY <2>6 DEF ChannelInv, Piece
    <3>2. Used(tx_out, tx_in) = IF tx_out <= tx_in THEN tx_in - tx_out
                                ELSE tx_in - tx_out + BUF_LEN
      BY <2>2, UsedIs
    <3>3. tx_in + k - 1 \in Slots /\ tx_in + k - 1 # tx_out
      BY <2>1, <2>2, <2>6, <3>1, <3>2 DEF Slots
    <3> QED  BY <2>1, <2>2, <3>3
  <2>7. Copied'
    BY <2>1, <2>6 DEF ChannelInv, Copied, ptr
  <2>8. FifoRoom'
    <3>1. /\ room \in Nat /\ room > 0 /\ room' = room - 1
          /\ txFifo' = Append(txFifo, tx_buf[tx_out]) /\ tx_buf[tx_out] \in Values
          /\ txFifo \in Seq(Values) /\ Len(txFifo) + room <= FIFO_LEN
      BY <1>6, <2>2 DEF IrqSend, ChannelInv, FifoRoom
    <3>2. txFifo' \in Seq(Values) /\ Len(txFifo') = Len(txFifo) + 1 /\ Len(txFifo) \in Nat
      BY <3>1
    <3> QED  BY <3>1, <3>2, FifoAssumption DEF FifoRoom
  <2> QED  BY <1>1, <2>5, <2>7, <2>8 DEF ChannelInv
<1> QED  BY <1>2, <1>3, <1>4, <1>5, <1>6 DEF Irq

LEMMA OutsidePiece ==
    ASSUME ChannelInv, Second \/ HostTakes \/ HostSends \/ HostPolls \/ UNCHANGED vars
    PROVE  ChannelInv'
<1>1. UNCHANGED ring /\ UNCHANGED thread /\ room' = room
  BY DEF Second, HostTakes, HostSends, HostPolls, vars, irq
<1>2. Piece' /\ Copied' /\ NothingRead'
  BY <1>1, PieceSame DEF ChannelInv, NothingRead, thread
<1>3. FifoRoom'
  <2>1. CASE HostTakes
    <3>1. /\ txFifo # << >> /\ txFifo' = Tail(txFifo) /\ txFifo \in Seq(Values)
          /\ room \in Nat /\ Len(txFifo) + room <= FIFO_LEN
      BY <2>1 DEF HostTakes, ChannelInv, FifoRoom
    <3>2. txFifo' \in Seq(Values) /\ Len(txFifo') = Len(txFifo) - 1 /\ Len(txFifo) \in Nat
      BY <3>1
    <3> QED  BY <1>1, <3>1, <3>2, FifoAssumption DEF FifoRoom
  <2>2. CASE ~HostTakes
    <3>1. txFifo' = txFifo
      BY <2>2 DEF Second, HostSends, HostPolls, vars, device
    <3> QED  BY <1>1, <3>1 DEF ChannelInv, FifoRoom
  <2> QED  BY <2>1, <2>2
<1> QED  BY <1>2, <1>3 DEF ChannelInv

LEMMA ChannelInvariant == Spec => []ChannelInv
<1>1. Init => ChannelInv
  BY FifoAssumption DEF Init, ChannelInv, Piece, Copied, FifoRoom, NothingRead, Idle
<1>2. UartInv /\ ChannelInv /\ [Next]_vars => ChannelInv'
  BY CallPiece, WritePiece, ReadPiece, IrqPiece, OutsidePiece DEF Next
<1> QED  BY <1>1, <1>2, UartInvariant, PTL DEF Spec

-----------------------------------------------------------------------------
(* The refinement mapping, and what a step of the channel is in its terms.  *)

ToHost   == txFifo \o Contents(tx_buf, tx_out, tx_in)
FromHost == Contents(rx_buf, rx_out, rx_in) \o rxFifo
Op       == IF pc \in WritePcs THEN "write"
            ELSE IF pc \in ReadPcs THEN "read" ELSE "none"
Moved    == IF pc = "r_advance" THEN SubSeq(buffer, 1, Len(buffer) - n) ELSE buffer
Left     == IF pc \in {"w_advance", "r_advance"} THEN space + n ELSE space

LEMMA IsStutter ==
    ASSUME UNCHANGED <<ToHost, FromHost, Op, Moved, Left, ret>>
    PROVE  UNCHANGED channel!vars
  BY DEF channel!vars, ToHost, FromHost, Op, Moved, Left

LEMMA IsStart ==
    ASSUME Op = "none", UNCHANGED <<ToHost, FromHost>>, ret' = 0,
           \/ Op' = "write" /\ Moved' \in Strings /\ Left' = Len(Moved')
           \/ Op' = "read" /\ Moved' = << >> /\ Left' \in 0 .. MaxCount
    PROVE  channel!Next
  BY DEF channel!Next, channel!StartWrite, channel!StartRead, channel!Strings, Strings,
         ToHost, FromHost, Op, Moved, Left

LEMMA IsPut ==
    ASSUME NEW k \in 1 .. MaxCount, Op = "write", k <= Left,
           Len(ToHost) + k <= BUF_LEN - 1 + FIFO_LEN,
           ToHost' = ToHost \o channel!Prefix(channel!Rest(Moved, Len(Moved) - Left), k),
           Left' = Left - k, UNCHANGED <<FromHost, Op, Moved, ret>>
    PROVE  channel!Next
<1>1. channel!Put(k)
  BY DEF channel!Put, ToHost, FromHost, Op, Moved, Left
<1> QED  BY <1>1 DEF channel!Next

LEMMA IsGet ==
    ASSUME NEW k \in 1 .. MaxCount, Op = "read", k <= Left, k <= Len(FromHost),
           Moved' = Moved \o channel!Prefix(FromHost, k),
           FromHost' = channel!Rest(FromHost, k),
           Left' = Left - k, UNCHANGED <<ToHost, Op, ret>>
    PROVE  channel!Next
<1>1. channel!Get(k)
  BY DEF channel!Get, ToHost, FromHost, Op, Moved, Left
<1> QED  BY <1>1 DEF channel!Next

LEMMA IsReturn ==
    ASSUME Op' = "none", UNCHANGED <<ToHost, FromHost>>, Moved' = << >>, Left' = 0,
           \/ /\ Op = "write"
              /\ IF Left < Len(Moved) THEN ret' = Len(Moved) - Left
                                      ELSE ret' \in {EWOULDBLOCK, EIO}
           \/ /\ Op = "read"
              /\ IF Moved # << >> THEN ret' = Len(Moved)
                                  ELSE ret' \in {EWOULDBLOCK, EIO}
    PROVE  channel!Next
<1>1. CASE Op = "write"
  <2>1. channel!ReturnWrite
    BY <1>1 DEF channel!ReturnWrite, ToHost, FromHost, Op, Moved, Left
  <2> QED  BY <2>1 DEF channel!Next
<1>2. CASE Op = "read"
  <2>1. channel!ReturnRead
    BY <1>2 DEF channel!ReturnRead, ToHost, FromHost, Op, Moved, Left
  <2> QED  BY <2>1 DEF channel!Next
<1> QED  BY <1>1, <1>2

LEMMA IsClose ==
    ASSUME Op = "none", ret' \in {0, EWOULDBLOCK},
           UNCHANGED <<ToHost, FromHost, Op, Moved, Left>>
    PROVE  channel!Next
  BY DEF channel!Next, channel!Close, ToHost, FromHost, Op, Moved, Left

LEMMA IsHostTakes ==
    ASSUME ToHost # << >>, ToHost' = Tail(ToHost),
           UNCHANGED <<FromHost, Op, Moved, Left, ret>>
    PROVE  channel!Next
  BY DEF channel!Next, channel!HostTakes, ToHost, FromHost, Op, Moved, Left

LEMMA IsHostSends ==
    ASSUME Len(FromHost) < BUF_LEN - 1 + FIFO_LEN, NEW b \in Bytes,
           FromHost' = Append(FromHost, b), UNCHANGED <<ToHost, Op, Moved, Left, ret>>
    PROVE  channel!Next
<1>1. channel!HostSends
  BY DEF channel!HostSends, ToHost, FromHost, Op, Moved, Left
<1> QED  BY <1>1 DEF channel!Next

-----------------------------------------------------------------------------
(* Sequences, continued.                                                    *)

LEMMA Middle ==
    ASSUME NEW s \in Seq(Values), NEW a \in Nat, NEW m \in Nat, a + m <= Len(s)
    PROVE  /\ channel!Prefix(channel!Rest(s, a), m) \in Seq(Values)
           /\ Len(channel!Prefix(channel!Rest(s, a), m)) = m
           /\ \A k \in 1 .. m : channel!Prefix(channel!Rest(s, a), m)[k] = s[a + k]
<1> DEFINE r == SubSeq(s, a + 1, Len(s))
<1>1. Len(s) \in Nat
  OBVIOUS
<1>2. /\ r \in Seq(Values) /\ Len(r) = Len(s) - a
      /\ \A k \in 1 .. Len(s) - a : r[k] = s[a + k]
  BY <1>1
<1> HIDE DEF r
<1>3. /\ SubSeq(r, 1, m) \in Seq(Values) /\ Len(SubSeq(r, 1, m)) = m
      /\ \A k \in 1 .. m : SubSeq(r, 1, m)[k] = r[k]
  BY <1>1, <1>2
<1>4. \A k \in 1 .. m : SubSeq(r, 1, m)[k] = s[a + k]
  BY <1>1, <1>2, <1>3
<1>5. channel!Prefix(channel!Rest(s, a), m) = SubSeq(r, 1, m)
  BY DEF channel!Prefix, channel!Rest, r
<1> QED  BY <1>3, <1>4, <1>5

\* A sequence is what precedes a place in it, and what follows.
LEMMA Split ==
    ASSUME NEW s \in Seq(Values), NEW a \in Nat, a <= Len(s)
    PROVE  /\ SubSeq(s, 1, a) \in Seq(Values)
           /\ SubSeq(s, a + 1, Len(s)) \in Seq(Values)
           /\ Len(SubSeq(s, a + 1, Len(s))) = Len(s) - a
           /\ \A k \in 1 .. Len(s) - a : SubSeq(s, a + 1, Len(s))[k] = s[a + k]
           /\ s = SubSeq(s, 1, a) \o SubSeq(s, a + 1, Len(s))
<1> DEFINE l == SubSeq(s, 1, a)
           r == SubSeq(s, a + 1, Len(s))
<1>1. Len(s) \in Nat
  OBVIOUS
<1>2. /\ r \in Seq(Values) /\ Len(r) = Len(s) - a
      /\ \A k \in 1 .. Len(s) - a : r[k] = s[a + k]
  BY <1>1
<1>3. /\ l \in Seq(Values) /\ Len(l) = a
      /\ \A k \in 1 .. a : l[k] = s[k]
  BY <1>1
<1> HIDE DEF l, r
<1>4. /\ l \o r \in Seq(Values) /\ Len(l \o r) = Len(l) + Len(r)
      /\ \A k \in 1 .. Len(l) + Len(r) :
            (l \o r)[k] = IF k <= Len(l) THEN l[k] ELSE r[k - Len(l)]
  BY <1>2, <1>3, ConcatProperties
<1>5. ASSUME NEW k \in 1 .. Len(s) PROVE s[k] = (l \o r)[k]
  <2>1. (l \o r)[k] = IF k <= a THEN l[k] ELSE r[k - a]
    BY <1>1, <1>2, <1>3, <1>4
  <2>2. CASE k <= a
    BY <1>1, <1>3, <2>1, <2>2
  <2>3. CASE k > a
    <3>1. k - a \in 1 .. Len(s) - a /\ a + (k - a) = k
      BY <1>1, <2>3
    <3> QED  BY <1>2, <2>1, <2>3, <3>1
  <2>4. k <= a \/ k > a
    BY <1>1
  <2> QED  BY <2>2, <2>3, <2>4, Zenon
<1>6. Len(l \o r) = Len(s)
  BY <1>1, <1>2, <1>3, <1>4
<1>7. s = l \o r
  BY <1>4, <1>5, <1>6, SeqEqual
<1> QED  BY <1>2, <1>3, <1>7 DEF l, r

LEMMA OneByte ==
    ASSUME NEW b \in Values
    PROVE  <<b>> \in Seq(Values) /\ Len(<<b>>) = 1 /\ <<b>>[1] = b
  OBVIOUS

LEMMA HeadThenTail ==
    ASSUME NEW s \in Seq(Values), s # << >>
    PROVE  /\ Head(s) \in Values /\ Tail(s) \in Seq(Values)
           /\ s = <<Head(s)>> \o Tail(s)
<1>1. Head(s) \in Values /\ Tail(s) \in Seq(Values) /\ Len(s) >= 1 /\ Len(s) \in Nat
  OBVIOUS
<1>2. /\ SubSeq(s, 1, 1) = <<Head(s)>>
      /\ SubSeq(s, 2, Len(s)) = Tail(s)
  <2>1. SubSeq(s, 2, Len(s)) = Tail(s)
    BY TailIsSubSeq
  <2>2. /\ SubSeq(s, 1, 1) \in Seq(Values) /\ Len(SubSeq(s, 1, 1)) = 1
        /\ SubSeq(s, 1, 1)[1] = s[1]
    BY <1>1
  <2>3. <<Head(s)>> \in Seq(Values) /\ Len(<<Head(s)>>) = 1 /\ <<Head(s)>>[1] = s[1]
    BY <1>1
  <2>4. SubSeq(s, 1, 1) = <<Head(s)>>
    <3> DEFINE l == SubSeq(s, 1, 1)
               r == <<Head(s)>>
    <3>1. l \in Seq(Values) /\ r \in Seq(Values) /\ Len(l) = 1 /\ Len(r) = 1 /\ l[1] = r[1]
      BY <2>2, <2>3
    <3> HIDE DEF l, r
    <3>2. Len(l) = Len(r) /\ \A k \in 1 .. Len(l) : l[k] = r[k]
      BY <3>1
    <3>3. l = r
      BY <3>1, <3>2, SeqEqual
    <3> QED  BY <3>3 DEF l, r
  <2> QED  BY <2>1, <2>4
<1>3. s = SubSeq(s, 1, 1) \o SubSeq(s, 1 + 1, Len(s))
  BY <1>1, Split
<1> QED  BY <1>1, <1>2, <1>3

LEMMA TailOfConcat ==
    ASSUME NEW s \in Seq(Values), NEW t \in Seq(Values), s # << >>
    PROVE  Tail(s \o t) = Tail(s) \o t /\ s \o t # << >>
<1>1. /\ Head(s) \in Values /\ Tail(s) \in Seq(Values) /\ s = <<Head(s)>> \o Tail(s)
      /\ <<Head(s)>> \in Seq(Values)
  BY HeadThenTail
<1>2. s \o t = <<Head(s)>> \o (Tail(s) \o t) /\ Tail(s) \o t \in Seq(Values)
  <2>1. (<<Head(s)>> \o Tail(s)) \o t = <<Head(s)>> \o (Tail(s) \o t)
    BY <1>1, ConcatAssociative
  <2> QED  BY <1>1, <2>1, ConcatProperties
<1>3. ASSUME NEW b \in Values, NEW u \in Seq(Values)
      PROVE  Tail(<<b>> \o u) = u /\ <<b>> \o u # << >>
  <2>1. <<b>> \in Seq(Values) /\ Len(<<b>>) = 1
    OBVIOUS
  <2>2. /\ <<b>> \o u \in Seq(Values) /\ Len(<<b>> \o u) = 1 + Len(u)
    BY <2>1, ConcatProperties
  <2>3. channel!Rest(<<b>> \o u, 1) = u
    BY <2>1, PrefixRest
  <2>4. <<b>> \o u # << >>
    BY <2>2
  <2>5. Tail(<<b>> \o u) = SubSeq(<<b>> \o u, 2, Len(<<b>> \o u))
    BY <2>2, <2>4, TailIsSubSeq
  <2> QED  BY <2>3, <2>4, <2>5 DEF channel!Rest
<1> QED  BY <1>1, <1>2, <1>3

-----------------------------------------------------------------------------
(* Every step of the driver is one of the channel, or none.                 *)

LEMMA Typed ==
    ASSUME UartInv, ChannelInv
    PROVE  /\ tx_in \in Slots /\ tx_out \in Slots /\ rx_in \in Slots /\ rx_out \in Slots
           /\ tx_buf \in [Slots -> Values] /\ rx_buf \in [Slots -> Values]
           /\ txFifo \in Seq(Values) /\ rxFifo \in Seq(Values) /\ buffer \in Seq(Values)
           /\ space \in Nat
<1>1. rxFifo \in Seq(Bytes) /\ Bytes \subseteq Values
  BY DEF UartInv, Locals, Values
<1>2. rxFifo \in Seq(Values)
  BY <1>1, SeqMonotonic
<1>3. space \in Nat
  BY Ranges DEF UartInv
<1> QED  BY <1>2, <1>3 DEF UartInv, TypeOK, Locals, Values, ChannelInv, FifoRoom

LEMMA QueueLengths ==
    ASSUME UartInv, ChannelInv
    PROVE  /\ ToHost \in Seq(Values) /\ FromHost \in Seq(Values)
           /\ Len(ToHost) = Len(txFifo) + Used(tx_out, tx_in)
           /\ Len(FromHost) = Used(rx_out, rx_in) + Len(rxFifo)
<1>1. /\ Contents(tx_buf, tx_out, tx_in) \in Seq(Values)
      /\ Len(Contents(tx_buf, tx_out, tx_in)) = Used(tx_out, tx_in)
      /\ Contents(rx_buf, rx_out, rx_in) \in Seq(Values)
      /\ Len(Contents(rx_buf, rx_out, rx_in)) = Used(rx_out, rx_in)
  BY Typed, ContentsIs
<1>2. txFifo \in Seq(Values) /\ rxFifo \in Seq(Values)
  BY Typed
<1> QED  BY <1>1, <1>2, ConcatProperties DEF ToHost, FromHost

LEMMA QueuesSame ==
    ASSUME UNCHANGED <<ring, txFifo, rxFifo>>
    PROVE  UNCHANGED <<ToHost, FromHost>>
  BY DEF ToHost, FromHost, Contents, ring

LEMMA OpIs ==
    /\ pc \in WritePcs <=> Op = "write"
    /\ pc \in ReadPcs <=> Op = "read"
    /\ pc \in {Idle, "c_wait"} => Op = "none"
  BY DEF Op, WritePcs, ReadPcs, Idle

\* A thread that does not touch its call leaves the call as it is.
LEMMA CallSame ==
    ASSUME UNCHANGED thread
    PROVE  UNCHANGED <<Op, Moved, Left, ret>>
  BY DEF Op, Moved, Left, thread

LEMMA CallSteps ==
    ASSUME UartInv, WriteCall \/ ReadCall \/ CloseCall \/ CloseReturn
                    \/ (\E t \in Ints : SetTimeout(t))
    PROVE  [channel!Next]_(channel!vars)
<1>1. UNCHANGED <<ToHost, FromHost>>
  <2>1. UNCHANGED <<ring, txFifo, rxFifo>>
    BY DEF WriteCall, ReadCall, CloseCall, CloseReturn, SetTimeout, device
  <2> QED  BY <2>1, QueuesSame
<1>2. CASE WriteCall
  <2>1. /\ pc = Idle /\ pc' = "w_copy" /\ ret' = 0
        /\ buffer' \in Strings /\ space' = Len(buffer')
    BY <1>2 DEF WriteCall, Thread
  <2>2. /\ Op = "none" /\ Op' = "write" /\ Moved' = buffer' /\ Left' = space'
    BY <2>1 DEF Op, WritePcs, ReadPcs, Moved, Left, Idle
  <2> QED  BY <1>1, <2>1, <2>2, IsStart
<1>3. CASE ReadCall
  <2>1. /\ pc = Idle /\ pc' = "r_copy" /\ ret' = 0
        /\ buffer' = << >> /\ space' \in 0 .. MaxCount
    BY <1>3 DEF ReadCall, Thread
  <2>2. /\ Op = "none" /\ Op' = "read" /\ Moved' = buffer' /\ Left' = space'
    BY <2>1 DEF Op, WritePcs, ReadPcs, Moved, Left, Idle
  <2> QED  BY <1>1, <2>1, <2>2, IsStart
<1>4. CASE CloseReturn
  <2>1. /\ pc = "c_wait" /\ pc' = Idle /\ ret' \in {0, EWOULDBLOCK}
        /\ UNCHANGED <<buffer, space, n>>
    BY <1>4 DEF CloseReturn, Thread
  <2>2. Op = "none" /\ UNCHANGED <<Op, Moved, Left>>
    BY <2>1 DEF Op, WritePcs, ReadPcs, Moved, Left, Idle
  <2> QED  BY <1>1, <2>1, <2>2, IsClose
<1>5. CASE CloseCall \/ (\E t \in Ints : SetTimeout(t))
  <2>1. /\ pc = Idle /\ pc' \in {Idle, "c_wait"}
        /\ UNCHANGED <<buffer, space, n, ret>>
    BY <1>5 DEF CloseCall, SetTimeout, Thread
  <2>2. UNCHANGED <<Op, Moved, Left, ret>>
    BY <2>1 DEF Op, WritePcs, ReadPcs, Moved, Left, Idle
  <2> QED  BY <1>1, <2>2, IsStutter
<1> QED  BY <1>2, <1>3, <1>4, <1>5

\* The end of a call of write().
LEMMA WriteReturns ==
    ASSUME UartInv, pc \in {"w_kick", "w_test"}, Return(ptr),
           UNCHANGED <<ToHost, FromHost>>
    PROVE  channel!Next
<1>1. space \in Nat /\ Len(buffer) \in Nat /\ space <= Len(buffer)
  BY DEF UartInv, TypeOK, Locals, WritePcs
<1>2. /\ pc' = Idle /\ buffer' = << >> /\ space' = 0 /\ n' = 0
      /\ ret' = IF ptr > 0 THEN ptr ELSE IF flags THEN EWOULDBLOCK ELSE EIO
  BY DEF Return, Result
<1>3. /\ Op = "write" /\ Op' = "none" /\ Moved = buffer /\ Left = space
      /\ Moved' = << >> /\ Left' = 0
  BY <1>2 DEF Op, WritePcs, ReadPcs, Moved, Left, Idle
<1>4. IF space < Len(buffer) THEN ret' = Len(buffer) - space
                             ELSE ret' \in {EWOULDBLOCK, EIO}
  <2>1. ptr = Len(buffer) - space
    BY DEF ptr
  <2>2. CASE space < Len(buffer)
    BY <1>1, <1>2, <2>1, <2>2
  <2>3. CASE ~(space < Len(buffer))
    <3>1. ~(ptr > 0)
      BY <1>1, <2>1, <2>3
    <3> QED  BY <1>2, <2>3, <3>1
  <2> QED  BY <2>2, <2>3
<1> QED  BY <1>3, <1>4, IsReturn

\* The thread shows its bytes to the interrupt routine: they are in the channel.
LEMMA WriteAdvanceIsPut ==
    ASSUME UartInv, ChannelInv, WriteAdvance
    PROVE  channel!Next
<1> DEFINE a == Len(buffer) - (space + n)
           p == channel!Prefix(channel!Rest(buffer, a), n)
           old == Contents(tx_buf, tx_out, tx_in)
<1>1. /\ pc = "w_advance" /\ pc' = "w_copy" /\ tx_in' = (in + n) % BUF_LEN
      /\ UNCHANGED <<tx_buf, tx_out, rx_in, rx_out, rx_buf, txFifo, rxFifo, space,
                     buffer, ret>>
  BY DEF WriteAdvance, Thread, device
<1>2. /\ in = tx_in /\ n \in Nat \ {0} /\ tx_in + n <= BUF_LEN
      /\ Used(tx_out, tx_in) + n <= BUF_LEN - 1
      /\ space + n <= MaxCount /\ space + n <= Len(buffer)
      /\ \A k \in 1 .. n : tx_buf[tx_in + k - 1] = buffer[ptr - n + k]
  BY <1>1 DEF ChannelInv, Piece, Copied
<1>3. /\ space \in Nat /\ buffer \in Seq(Values) /\ Len(buffer) \in Nat
      /\ txFifo \in Seq(Values) /\ tx_in \in Slots /\ tx_out \in Slots
      /\ tx_buf \in [Slots -> Values]
  BY Typed
<1>4. a \in Nat /\ a + n <= Len(buffer) /\ a = ptr - n /\ n \in Nat
  BY <1>2, <1>3 DEF ptr
<1> HIDE DEF a, old
<1>5. /\ p \in Seq(Values) /\ Len(p) = n
      /\ \A k \in 1 .. n : p[k] = buffer[a + k]
  BY <1>3, <1>4, Middle
<1> HIDE DEF p
<1>6. Contents(tx_buf, tx_out, Forward(tx_in, n)) = old \o p
  <2>1. Lies(tx_buf, tx_in, p) /\ Fits(tx_out, tx_in, Len(p))
    BY <1>2, <1>4, <1>5 DEF Lies, Fits
  <2> QED  BY <1>3, <1>5, <2>1, PutPiece DEF old
<1>7. ToHost' = ToHost \o p
  <2>1. old \in Seq(Values)
    BY <1>3, ContentsIs DEF old
  <2>2. ToHost' = txFifo \o Contents(tx_buf, tx_out, Forward(tx_in, n))
    BY <1>1, <1>2 DEF ToHost, Contents, Forward
  <2>3. ToHost = txFifo \o old
    BY DEF ToHost, old
  <2>4. txFifo \o (old \o p) = (txFifo \o old) \o p
    BY <1>3, <1>5, <2>1, ConcatAssociative
  <2> QED  BY <1>6, <2>2, <2>3, <2>4
<1>8. FromHost' = FromHost
  BY <1>1 DEF FromHost, Contents
<1>9. Len(ToHost) + n <= BUF_LEN - 1 + FIFO_LEN
  <2>1. Len(txFifo) \in Nat /\ Len(txFifo) <= FIFO_LEN
    BY FifoAssumption DEF ChannelInv, FifoRoom
  <2>2. Used(tx_out, tx_in) \in Nat
    BY <1>3, UsedIs
  <2> QED  BY <1>2, <2>1, <2>2, QueueLengths, FifoAssumption, Assumptions
<1>10. /\ Op = "write" /\ Op' = "write" /\ Moved = buffer /\ Moved' = buffer
       /\ Left = space + n /\ Left' = space
  BY <1>1 DEF Op, WritePcs, ReadPcs, Moved, Left
<1>11. n \in 1 .. MaxCount /\ n <= Left /\ Left' = Left - n
  BY <1>2, <1>3, <1>10, Assumptions
<1>12. p = channel!Prefix(channel!Rest(Moved, Len(Moved) - Left), n)
  BY <1>10 DEF p, a
<1>13. UNCHANGED <<FromHost, Op, Moved, ret>>
  BY <1>1, <1>8, <1>10
<1>14. ToHost' = ToHost \o channel!Prefix(channel!Rest(Moved, Len(Moved) - Left), n)
  BY <1>7, <1>12
<1> QED  BY <1>9, <1>10, <1>11, <1>13, <1>14, IsPut

LEMMA WriteSteps ==
    ASSUME UartInv, ChannelInv, Write
    PROVE  [channel!Next]_(channel!vars)
<1>1. CASE WriteMemcpy
  <2>1. /\ pc = "w_memcpy" /\ pc' = "w_advance" /\ space' = space - n
        /\ UNCHANGED <<tx_in, tx_out, rx_in, rx_out, rx_buf, txFifo, rxFifo, n,
                       buffer, ret>>
        /\ tx_buf' = [s \in Slots |-> IF s \in in .. in + n - 1
                                      THEN buffer[ptr + 1 + s - in] ELSE tx_buf[s]]
    BY <1>1 DEF WriteMemcpy, Thread, device
  <2>2. /\ in = tx_in /\ n \in Nat /\ tx_in + n <= BUF_LEN
        /\ Used(tx_out, tx_in) + n <= BUF_LEN - 1
    BY <2>1 DEF ChannelInv, Piece
  <2>3. tx_buf' \in [Slots -> Values]
    BY WriteInv DEF Write, UartInv, TypeOK, Values
  <2>4. \A k \in 1 .. Used(tx_out, tx_in) :
            tx_buf[Place(tx_out, k)] = tx_buf'[Place(tx_out, k)]
    <3>1. \A k \in 1 .. Used(tx_out, tx_in) :
              /\ Place(tx_out, k) \in Slots
              /\ Place(tx_out, k) \notin tx_in .. tx_in + n - 1
      BY <2>2, Typed, PlacesApart
    <3> QED  BY <2>1, <2>2, <3>1
  <2>5. Contents(tx_buf, tx_out, tx_in) = Contents(tx_buf', tx_out, tx_in)
    <3>1. tx_buf \in [Slots -> Values] /\ tx_out \in Slots /\ tx_in \in Slots
      BY Typed
    <3> QED  BY <2>3, <2>4, <3>1, ContentsSame
  <2>6. ToHost' = ToHost /\ FromHost' = FromHost
    BY <2>1, <2>5 DEF ToHost, FromHost, Contents
  <2>7. space \in Nat /\ n \in Nat /\ space' + n' = space
    BY <2>1, <2>2, Typed
  <2>8. UNCHANGED <<Op, Moved, Left, ret>>
    BY <2>1, <2>7 DEF Op, WritePcs, ReadPcs, Moved, Left
  <2> QED  BY <2>6, <2>8, IsStutter
<1>2. CASE WriteAdvance
  BY <1>2, WriteAdvanceIsPut
<1>3. CASE WriteSnapshot \/ WriteKick \/ WriteWait \/ WriteTest
  <2>1. UNCHANGED <<ToHost, FromHost>>
    <3>1. UNCHANGED <<ring, txFifo, rxFifo>>
      BY <1>3 DEF WriteSnapshot, WriteKick, WriteWait, WriteTest, device
    <3> QED  BY <3>1, QueuesSame
  <2>2. CASE (WriteKick \/ WriteTest) /\ Return(ptr)
    BY <2>1, <2>2, WriteReturns DEF WriteKick, WriteTest
  <2>3. CASE ~((WriteKick \/ WriteTest) /\ Return(ptr))
    <3>1. /\ pc \in WritePcs \ {"w_advance"} /\ pc' \in WritePcs \ {"w_advance"}
          /\ UNCHANGED <<buffer, space, ret>>
      BY <1>3, <2>3 DEF WriteSnapshot, WriteKick, WriteWait, WriteTest, Thread, Stay, WritePcs
    <3>2. UNCHANGED <<Op, Moved, Left, ret>>
      BY <3>1 DEF Op, WritePcs, Moved, Left
    <3> QED  BY <2>1, <3>2, IsStutter
  <2> QED  BY <2>2, <2>3
<1> QED  BY <1>1, <1>2, <1>3 DEF Write

\* The reader frees the slots it has copied: the bytes left the channel.
LEMMA ReadAdvanceIsGet ==
    ASSUME UartInv, ChannelInv, ReadAdvance
    PROVE  channel!Next
<1> DEFINE a == Len(buffer) - n
           l == SubSeq(buffer, 1, a)
           p == SubSeq(buffer, a + 1, Len(buffer))
           q == Forward(rx_out, n)
           rest == Contents(rx_buf, q, rx_in)
<1>1. /\ pc = "r_advance" /\ pc' \in {"r_copy", "r_enable"}
      /\ rx_out' = (out + n) % BUF_LEN
      /\ rx_buf' = [s \in Slots |-> IF s \in out .. out + n - 1 THEN Free ELSE rx_buf[s]]
      /\ UNCHANGED <<tx_buf, tx_in, tx_out, rx_in, txFifo, rxFifo, space, buffer, ret>>
  BY DEF ReadAdvance, Thread, device
<1>2. /\ out = rx_out /\ n \in Nat \ {0} /\ rx_out + n <= BUF_LEN
      /\ n <= Used(rx_out, rx_in) /\ space + n <= MaxCount /\ n <= Len(buffer)
      /\ \A k \in 1 .. n : buffer[Len(buffer) - n + k] = rx_buf[rx_out + k - 1]
  BY <1>1 DEF ChannelInv, Piece, Copied
<1>3. /\ space \in Nat /\ buffer \in Seq(Values) /\ Len(buffer) \in Nat
      /\ rxFifo \in Seq(Values) /\ rx_in \in Slots /\ rx_out \in Slots
      /\ rx_buf \in [Slots -> Values]
  BY Typed
<1>4. a \in Nat /\ a <= Len(buffer) /\ Len(buffer) - a = n /\ n \in Nat
  BY <1>2, <1>3
<1>5. /\ l \in Seq(Values) /\ p \in Seq(Values) /\ Len(p) = n /\ buffer = l \o p
      /\ \A k \in 1 .. n : p[k] = buffer[a + k]
  <2> HIDE DEF a
  <2> QED  BY <1>3, <1>4, Split
<1>6. \A k \in 1 .. n : p[k] = rx_buf[rx_out + k - 1]
  <2> HIDE DEF p
  <2> QED  BY <1>2, <1>5
<1> HIDE DEF a, l, p, q, rest
<1>7. Contents(rx_buf, rx_out, rx_in) = p \o rest
  <2>1. Lies(rx_buf, rx_out, p) /\ Waits(rx_out, rx_in, Len(p))
    BY <1>2, <1>5, <1>6 DEF Lies, Waits
  <2> QED  BY <1>3, <1>5, <2>1, GetPiece DEF rest, q
<1>8. q \in Slots /\ rx_out' = q
  <2>1. rx_out + n \in Nat
    BY <1>3, <1>4, Assumptions DEF Slots
  <2> QED  BY <1>1, <1>2, <2>1, SomeSlot DEF Forward, q
<1>9. rest \in Seq(Values)
  BY <1>3, <1>8, ContentsIs DEF rest
<1>10. Contents(rx_buf', q, rx_in) = rest
  <2>1. rx_buf' \in [Slots -> Values]
    BY <1>1, <1>3 DEF Values
  <2>2. /\ Used(q, rx_in) = Used(rx_out, rx_in) - n
        /\ \A k \in 1 .. Used(rx_out, rx_in) - n : Place(q, k) = Place(rx_out, n + k)
    BY <1>2, <1>3, <1>4, UsedAfterGet DEF q, Forward
  <2>3. ASSUME NEW k \in 1 .. Used(q, rx_in)
        PROVE  rx_buf'[Place(q, k)] = rx_buf[Place(q, k)]
    <3>1. Used(rx_out, rx_in) \in 0 .. BUF_LEN - 1
      BY <1>3, UsedIs
    <3>2. /\ n + k \in 1 .. BUF_LEN /\ n + k <= BUF_LEN - 1 /\ k \in 1 .. BUF_LEN
          /\ k \in 1 .. Used(rx_out, rx_in) - n
      BY <1>4, <2>2, <3>1, Assumptions
    <3>3. Place(rx_out, n + k) = IF rx_out + (n + k) - 1 < BUF_LEN
                                 THEN rx_out + (n + k) - 1
                                 ELSE rx_out + (n + k) - 1 - BUF_LEN
      BY <1>3, <3>2, PlaceIs
    <3>4. Place(q, k) \in Slots /\ Place(q, k) = Place(rx_out, n + k)
      BY <1>8, <2>2, <3>2, PlaceIs
    <3>5. Place(q, k) \notin rx_out .. rx_out + n - 1
      BY <1>2, <1>3, <1>4, <3>2, <3>3, <3>4, Assumptions DEF Slots
    <3> QED  BY <1>1, <1>2, <3>4, <3>5
  <2>4. Contents(rx_buf', q, rx_in) = Contents(rx_buf, q, rx_in)
    BY <1>3, <1>8, <2>1, <2>3, ContentsSame
  <2> QED  BY <2>4 DEF rest
<1>11. /\ channel!Prefix(FromHost, n) = p
       /\ channel!Rest(FromHost, n) = rest \o rxFifo
  <2>1. FromHost = p \o (rest \o rxFifo)
    <3>1. p \in Seq(Values) /\ rest \in Seq(Values) /\ rxFifo \in Seq(Values)
      BY <1>3, <1>5, <1>9
    <3>2. (p \o rest) \o rxFifo = p \o (rest \o rxFifo)
      BY <3>1, ConcatAssociative
    <3> QED  BY <1>7, <3>2 DEF FromHost
  <2>2. rest \o rxFifo \in Seq(Values)
    BY <1>3, <1>9, ConcatProperties
  <2> QED  BY <1>5, <2>1, <2>2, PrefixRest
<1>12. FromHost' = channel!Rest(FromHost, n)
  <2>1. FromHost' = Contents(rx_buf', q, rx_in) \o rxFifo
    <3>1. FromHost' = Contents(rx_buf', rx_out', rx_in') \o rxFifo'
      BY DEF FromHost, Contents
    <3>2. rx_out' = q /\ rx_in' = rx_in /\ rxFifo' = rxFifo
      BY <1>1, <1>8
    <3> QED  BY <3>1, <3>2
  <2> QED  BY <1>10, <1>11, <2>1
<1>13. ToHost' = ToHost
  BY <1>1 DEF ToHost, Contents
<1>14. /\ Op = "read" /\ Op' = "read" /\ Moved = l /\ Moved' = buffer
       /\ Left = space + n /\ Left' = space
  BY <1>1 DEF Op, WritePcs, ReadPcs, Moved, Left, l, a
<1>15. n \in 1 .. MaxCount /\ n <= Left /\ Left' = Left - n
  BY <1>2, <1>3, <1>14, Assumptions
<1>16. n <= Len(FromHost)
  <2>1. Used(rx_out, rx_in) \in Nat /\ Len(rxFifo) \in Nat
    BY <1>3, UsedIs
  <2> QED  BY <1>2, <2>1, QueueLengths
<1>17. Moved' = Moved \o channel!Prefix(FromHost, n)
  BY <1>5, <1>11, <1>14
<1>18. UNCHANGED <<ToHost, Op, ret>>
  BY <1>1, <1>13, <1>14
<1> QED  BY <1>12, <1>14, <1>15, <1>16, <1>17, <1>18, IsGet

LEMMA ReadSteps ==
    ASSUME UartInv, ChannelInv, Read
    PROVE  [channel!Next]_(channel!vars)
<1>1. CASE ReadMemcpy
  <2> DEFINE p == [k \in 1 .. n |-> rx_buf[out + k - 1]]
  <2>1. /\ pc = "r_memcpy" /\ pc' = "r_advance" /\ space' = space - n
        /\ UNCHANGED <<ring, txFifo, rxFifo, n, ret>> /\ buffer' = buffer \o p
    BY <1>1 DEF ReadMemcpy, Thread, device
  <2>2. /\ out = rx_out /\ n \in Nat /\ out + n <= BUF_LEN
    BY <2>1 DEF ChannelInv, Piece
  <2>3. /\ space \in Nat /\ rx_out \in 0 .. BUF_LEN - 1
        /\ buffer \in Seq(Values) /\ rx_buf \in [Slots -> Values]
    BY Typed, Assumptions DEF Slots
  <2>4. p \in Seq(Values) /\ Len(p) = n
    <3>1. \A k \in 1 .. n : out + k - 1 \in Slots
      BY <2>2, <2>3, Assumptions DEF Slots
    <3>2. n \in Nat /\ p \in [1 .. n -> Values]
      BY <2>2, <2>3, <3>1
    <3> QED  BY <3>2
  <2> HIDE DEF p
  <2>5. SubSeq(buffer', 1, Len(buffer') - n) = buffer
    <3>1. Len(buffer') = Len(buffer) + Len(p) /\ Len(buffer) \in Nat
      <4>1. Len(buffer \o p) = Len(buffer) + Len(p)
        BY <2>3, <2>4, ConcatProperties
      <4> QED  BY <2>1, <2>3, <4>1
    <3>2. Len(buffer') - n = Len(buffer)
      BY <2>2, <2>4, <3>1
    <3>3. SubSeq(buffer \o p, 1, Len(buffer)) = buffer
      BY <2>3, <2>4, PrefixRest DEF channel!Prefix
    <3> QED  BY <2>1, <3>2, <3>3
  <2>6. UNCHANGED <<ToHost, FromHost>>
    BY <2>1, QueuesSame
  <2>7. /\ Op = "read" /\ Op' = "read" /\ Moved = buffer
        /\ Moved' = SubSeq(buffer', 1, Len(buffer') - n)
        /\ Left = space /\ Left' = space - n + n
    BY <2>1 DEF Op, WritePcs, ReadPcs, Moved, Left
  <2>8. UNCHANGED <<Op, Moved, Left, ret>>
    BY <2>1, <2>2, <2>3, <2>5, <2>7
  <2> QED  BY <2>6, <2>8, IsStutter
<1>2. CASE ReadAdvance
  BY <1>2, ReadAdvanceIsGet
<1>3. CASE ReadSnapshot \/ ReadWait \/ ReadTest \/ ReadEnable
  <2>1. UNCHANGED <<ToHost, FromHost>>
    <3>1. UNCHANGED <<ring, txFifo, rxFifo>>
      BY <1>3 DEF ReadSnapshot, ReadWait, ReadTest, ReadEnable, device
    <3> QED  BY <3>1, QueuesSame
  <2>2. CASE pc' = Idle
    <3>1. PICK moved : /\ Return(moved) /\ pc \in {"r_copy", "r_test", "r_enable"}
                       /\ (moved = 0 /\ buffer = << >>) \/ moved = Len(buffer)
      <4>1. CASE ReadSnapshot
        BY <2>2, <4>1 DEF ReadSnapshot, Idle
      <4>2. CASE ReadTest
        BY <2>2, <4>2 DEF ReadTest, Idle, ChannelInv, NothingRead
      <4>3. CASE ReadEnable
        BY <4>3 DEF ReadEnable
      <4> QED  BY <1>3, <2>2, <4>1, <4>2, <4>3 DEF ReadWait, Thread, Idle
    <3>2. buffer \in Seq(Values)
      BY Typed
    <3>3. moved = Len(buffer) /\ Len(buffer) \in Nat /\ (buffer # << >> <=> Len(buffer) > 0)
      BY <3>1, <3>2
    <3>4. /\ buffer' = << >> /\ space' = 0
          /\ ret' = IF moved > 0 THEN moved ELSE IF flags THEN EWOULDBLOCK ELSE EIO
      BY <3>1 DEF Return, Result
    <3>5. /\ Op = "read" /\ Op' = "none" /\ Moved = buffer
          /\ Moved' = << >> /\ Left' = 0
      BY <2>2, <3>1, <3>4 DEF Op, WritePcs, ReadPcs, Moved, Left, Idle
    <3>6. IF buffer # << >> THEN ret' = Len(buffer) ELSE ret' \in {EWOULDBLOCK, EIO}
      BY <3>3, <3>4
    <3> QED  BY <2>1, <3>5, <3>6, IsReturn
  <2>3. CASE pc' # Idle
    <3>1. /\ pc \in ReadPcs \ {"r_advance"} /\ pc' \in ReadPcs \ {"r_advance"}
          /\ UNCHANGED <<buffer, space, ret>>
      BY <1>3, <2>3 DEF ReadSnapshot, ReadWait, ReadTest, ReadEnable, Thread, Stay,
                        ReadPcs, Return
    <3>2. UNCHANGED <<Op, Moved, Left, ret>>
      BY <3>1 DEF Op, WritePcs, ReadPcs, Moved, Left
    <3> QED  BY <2>1, <3>2, IsStutter
  <2> QED  BY <2>2, <2>3
<1> QED  BY <1>1, <1>2, <1>3 DEF Read

\* A byte goes from the ring to the FIFO of the device: it stays in the channel.
LEMMA SendKeepsOrder ==
    ASSUME UartInv, ChannelInv, IrqSend
    PROVE  ToHost' = ToHost
<1> DEFINE b == tx_buf[tx_out]
           q == Forward(tx_out, 1)
           rest == Contents(tx_buf, q, tx_in)
<1>1. /\ tx_out # tx_in /\ tx_out' = (tx_out + 1) % BUF_LEN /\ tx_in' = tx_in
      /\ tx_buf' = [tx_buf EXCEPT ![tx_out] = Free] /\ txFifo' = Append(txFifo, b)
  BY DEF IrqSend
<1>2. /\ tx_in \in Slots /\ tx_out \in Slots /\ txFifo \in Seq(Values)
      /\ tx_buf \in [Slots -> Values] /\ b \in Values
  BY Typed
<1>3. <<b>> \in Seq(Values) /\ Len(<<b>>) = 1 /\ <<b>>[1] = b
  BY <1>2, OneByte
<1>4. 1 <= Used(tx_out, tx_in) /\ tx_out + 1 <= BUF_LEN
  BY <1>1, <1>2, RingStep
<1>5. Contents(tx_buf, tx_out, tx_in) = <<b>> \o rest
  <2>1. Lies(tx_buf, tx_out, <<b>>)
    <3>1. tx_out + 1 - 1 = tx_out
      BY <1>2, Assumptions DEF Slots
    <3> QED  BY <1>3, <3>1 DEF Lies
  <2>2. Waits(tx_out, tx_in, Len(<<b>>))
    BY <1>3, <1>4 DEF Waits
  <2> HIDE DEF b
  <2> QED  BY <1>2, <1>3, <2>1, <2>2, GetPiece
<1>6. q \in Slots /\ tx_out' = q
  <2>1. tx_out + 1 \in Nat
    BY <1>2, Assumptions DEF Slots
  <2> QED  BY <1>1, <2>1, SomeSlot DEF Forward
<1> HIDE DEF q
<1>7. rest \in Seq(Values)
  BY <1>2, <1>6, ContentsIs
<1>8. Contents(tx_buf', q, tx_in) = rest
  <2>1. tx_buf' \in [Slots -> Values]
    BY <1>1, <1>2 DEF Values
  <2>2. /\ Used(q, tx_in) = Used(tx_out, tx_in) - 1
        /\ \A k \in 1 .. Used(tx_out, tx_in) - 1 : Place(q, k) = Place(tx_out, 1 + k)
    BY <1>2, <1>4, UsedAfterGet DEF q, Forward
  <2>3. ASSUME NEW k \in 1 .. Used(q, tx_in)
        PROVE  tx_buf'[Place(q, k)] = tx_buf[Place(q, k)]
    <3>1. Used(tx_out, tx_in) \in 0 .. BUF_LEN - 1
      BY <1>2, UsedIs
    <3>2. 1 + k \in 1 .. BUF_LEN /\ 1 + k <= BUF_LEN - 1 /\ k \in 1 .. BUF_LEN
          /\ k \in 1 .. Used(tx_out, tx_in) - 1
      BY <2>2, <3>1, Assumptions
    <3>3. Place(tx_out, 1 + k) = IF tx_out + (1 + k) - 1 < BUF_LEN
                                 THEN tx_out + (1 + k) - 1
                                 ELSE tx_out + (1 + k) - 1 - BUF_LEN
      BY <1>2, <3>2, PlaceIs
    <3>4. Place(q, k) \in Slots /\ Place(q, k) = Place(tx_out, 1 + k)
      BY <1>6, <2>2, <3>2, PlaceIs
    <3>5. Place(q, k) # tx_out
      BY <1>2, <3>2, <3>3, <3>4, Assumptions DEF Slots
    <3> QED  BY <1>1, <1>2, <3>4, <3>5
  <2> QED  BY <1>2, <1>6, <2>1, <2>3, ContentsSame
<1> HIDE DEF b, rest
<1>9. txFifo' = txFifo \o <<b>>
  BY <1>1, <1>2, AppendIsConcat
<1>10. (txFifo \o <<b>>) \o rest = txFifo \o (<<b>> \o rest)
  BY <1>2, <1>3, <1>7, ConcatAssociative
<1>11. ToHost' = txFifo' \o Contents(tx_buf', tx_out', tx_in')
  BY DEF ToHost, Contents
<1>12. ToHost' = (txFifo \o <<b>>) \o rest
  BY <1>1, <1>6, <1>8, <1>9, <1>11
<1> QED  BY <1>5, <1>10, <1>12 DEF ToHost

\* A byte goes from the FIFO to the ring: it keeps its place in the channel.
LEMMA ReceiveKeepsOrder ==
    ASSUME UartInv, ChannelInv, IrqReceive
    PROVE  FromHost' = FromHost
<1>1. CASE rxFifo = << >>
  BY <1>1 DEF IrqReceive, FromHost, Contents
<1>2. CASE rxFifo # << >>
  <2> DEFINE b == Head(rxFifo)
             old == Contents(rx_buf, rx_out, rx_in)
  <2>1. /\ rx_in' = (rx_in + 1) % BUF_LEN /\ rx_out' = rx_out /\ rx_in' # rx_out
        /\ rx_buf' = [rx_buf EXCEPT ![rx_in] = b] /\ rxFifo' = Tail(rxFifo)
    BY <1>2 DEF IrqReceive, RxFull
  <2>2. /\ rx_in \in Slots /\ rx_out \in Slots /\ rxFifo \in Seq(Values)
        /\ rx_buf \in [Slots -> Values]
    BY Typed
  <2>3. b \in Values /\ Tail(rxFifo) \in Seq(Values) /\ rxFifo = <<b>> \o Tail(rxFifo)
    BY <1>2, <2>2, HeadThenTail
  <2>4. <<b>> \in Seq(Values) /\ Len(<<b>>) = 1 /\ <<b>>[1] = b
    BY <2>3, OneByte
  <2>5. Used(rx_out, rx_in) + 1 <= BUF_LEN - 1 /\ rx_in + 1 <= BUF_LEN
    BY <2>1, <2>2, RingStep
  <2>6. rx_buf' \in [Slots -> Values] /\ rx_buf'[rx_in] = b
    BY <2>1, <2>2, <2>3
  <2> HIDE DEF b
  <2>7. Contents(rx_buf', rx_out, Forward(rx_in, 1))
          = Contents(rx_buf', rx_out, rx_in) \o <<b>>
    <3>1. Lies(rx_buf', rx_in, <<b>>)
      <4>1. rx_in + 1 - 1 = rx_in
        BY <2>2, Assumptions DEF Slots
      <4> QED  BY <2>4, <2>6, <4>1 DEF Lies
    <3>2. Fits(rx_out, rx_in, Len(<<b>>))
      BY <2>4, <2>5 DEF Fits
    <3> QED  BY <2>2, <2>4, <2>6, <3>1, <3>2, PutPiece
  <2>8. Contents(rx_buf', rx_out, rx_in) = old
    <3>1. \A k \in 1 .. Used(rx_out, rx_in) :
              Place(rx_out, k) \in Slots /\ Place(rx_out, k) \notin rx_in .. rx_in + 1 - 1
      BY <2>2, <2>5, PlacesApart
    <3>2. rx_in \in rx_in .. rx_in + 1 - 1
      BY <2>2, Assumptions DEF Slots
    <3>3. \A k \in 1 .. Used(rx_out, rx_in) :
              rx_buf'[Place(rx_out, k)] = rx_buf[Place(rx_out, k)]
      BY <2>1, <2>2, <3>1, <3>2
    <3> QED  BY <2>2, <2>6, <3>3, ContentsSame
  <2>9. old \in Seq(Values)
    BY <2>2, ContentsIs
  <2>10. FromHost = old \o rxFifo
    BY DEF FromHost
  <2>11. FromHost' = Contents(rx_buf', rx_out', rx_in') \o rxFifo'
    BY DEF FromHost, Contents
  <2>12. rx_in' = Forward(rx_in, 1)
    BY <2>1 DEF Forward
  <2> HIDE DEF old
  <2>13. FromHost' = (old \o <<b>>) \o Tail(rxFifo)
    BY <2>1, <2>7, <2>8, <2>11, <2>12
  <2>14. (old \o <<b>>) \o Tail(rxFifo) = old \o (<<b>> \o Tail(rxFifo))
    BY <2>3, <2>4, <2>9, ConcatAssociative
  <2> QED  BY <2>3, <2>10, <2>13, <2>14
<1> QED  BY <1>1, <1>2

LEMMA IrqSteps ==
    ASSUME UartInv, ChannelInv, Irq
    PROVE  UNCHANGED channel!vars
<1>1. UNCHANGED <<Op, Moved, Left, ret>>
  <2>1. UNCHANGED thread
    BY DEF Irq, IrqControl, IrqReceive, IrqRxFull, IrqSend, IrqTxEnd
  <2> QED  BY <2>1, CallSame
<1>2. UNCHANGED <<ToHost, FromHost>>
  <2>1. CASE IrqControl \/ IrqRxFull \/ IrqTxEnd
    <3>1. UNCHANGED <<ring, txFifo, rxFifo>>
      BY <2>1 DEF IrqControl, IrqRxFull, IrqTxEnd, device
    <3> QED  BY <3>1, QueuesSame
  <2>2. CASE IrqReceive
    <3>1. ToHost' = ToHost
      BY <2>2 DEF IrqReceive, ToHost, Contents
    <3> QED  BY <2>2, <3>1, ReceiveKeepsOrder
  <2>3. CASE IrqSend
    <3>1. FromHost' = FromHost
      BY <2>3 DEF IrqSend, FromHost, Contents
    <3> QED  BY <2>3, <3>1, SendKeepsOrder
  <2> QED  BY <2>1, <2>2, <2>3 DEF Irq
<1> QED  BY <1>1, <1>2, IsStutter

LEMMA OutsideSteps ==
    ASSUME UartInv, ChannelInv,
           Second \/ HostTakes \/ HostSends \/ HostPolls \/ UNCHANGED vars
    PROVE  [channel!Next]_(channel!vars)
<1>1. UNCHANGED ring /\ UNCHANGED <<Op, Moved, Left, ret>>
  <2>1. UNCHANGED ring /\ UNCHANGED thread
    BY DEF Second, HostTakes, HostSends, HostPolls, vars
  <2> QED  BY <2>1, CallSame
<1>2. CASE Second \/ HostPolls \/ UNCHANGED vars
  <2>1. UNCHANGED <<ToHost, FromHost>>
    <3>1. UNCHANGED <<txFifo, rxFifo>>
      BY <1>2 DEF Second, HostPolls, vars, device
    <3> QED  BY <1>1, <3>1, QueuesSame
  <2> QED  BY <1>1, <2>1, IsStutter
<1>3. CASE HostTakes
  <2> DEFINE c == Contents(tx_buf, tx_out, tx_in)
  <2>1. txFifo # << >> /\ txFifo' = Tail(txFifo) /\ rxFifo' = rxFifo
    BY <1>3 DEF HostTakes
  <2>2. txFifo \in Seq(Values) /\ c \in Seq(Values)
    BY Typed, ContentsIs
  <2>3. ToHost = txFifo \o c /\ ToHost' = txFifo' \o c /\ FromHost' = FromHost
    BY <1>1, <2>1 DEF ToHost, FromHost, Contents, ring
  <2> HIDE DEF c
  <2>4. Tail(txFifo \o c) = Tail(txFifo) \o c /\ txFifo \o c # << >>
    BY <2>1, <2>2, TailOfConcat
  <2>5. ToHost # << >> /\ ToHost' = Tail(ToHost)
    BY <2>1, <2>3, <2>4
  <2> QED  BY <1>1, <2>3, <2>5, IsHostTakes
<1>4. CASE HostSends
  <2> DEFINE c == Contents(rx_buf, rx_out, rx_in)
  <2>1. PICK b \in Bytes : rxFifo' = Append(rxFifo, b)
    BY <1>4 DEF HostSends
  <2>2. Len(rxFifo) < FIFO_LEN /\ txFifo' = txFifo
    BY <1>4 DEF HostSends
  <2>3. /\ rxFifo \in Seq(Values) /\ c \in Seq(Values) /\ b \in Values
        /\ <<b>> \in Seq(Values)
    <3>1. rxFifo \in Seq(Values) /\ c \in Seq(Values)
      BY Typed, ContentsIs
    <3>2. b \in Values
      BY DEF Values
    <3> QED  BY <3>1, <3>2, OneByte
  <2>4. FromHost = c \o rxFifo /\ FromHost' = c \o rxFifo' /\ ToHost' = ToHost
    BY <1>1, <2>2 DEF ToHost, FromHost, Contents, ring
  <2> HIDE DEF c
  <2>5. FromHost' = Append(FromHost, b)
    <3>1. Append(rxFifo, b) = rxFifo \o <<b>>
      BY <2>3, AppendIsConcat
    <3>2. c \o (rxFifo \o <<b>>) = (c \o rxFifo) \o <<b>>
      BY <2>3, ConcatAssociative
    <3>3. c \o rxFifo \in Seq(Values)
      BY <2>3, ConcatProperties
    <3>4. Append(c \o rxFifo, b) = (c \o rxFifo) \o <<b>>
      BY <2>3, <3>3, AppendIsConcat
    <3> QED  BY <2>1, <2>4, <3>1, <3>2, <3>4
  <2>6. Len(FromHost) < BUF_LEN - 1 + FIFO_LEN
    <3>1. Used(rx_out, rx_in) \in 0 .. BUF_LEN - 1
      BY Typed, UsedIs
    <3>2. Len(rxFifo) \in Nat /\ Len(FromHost) = Used(rx_out, rx_in) + Len(rxFifo)
      BY <2>3, QueueLengths
    <3> QED  BY <2>2, <3>1, <3>2, Assumptions, FifoAssumption
  <2>7. UNCHANGED <<ToHost, Op, Moved, Left, ret>>
    BY <1>1, <2>4
  <2> QED  BY <2>5, <2>6, <2>7, IsHostSends
<1> QED  BY <1>2, <1>3, <1>4

LEMMA ChannelInit == Init => channel!Init
<1> SUFFICES ASSUME Init PROVE channel!Init
  OBVIOUS
<1>1. /\ pc = "none" /\ buffer = << >> /\ space = 0 /\ ret = 0
      /\ txFifo = << >> /\ rxFifo = << >>
      /\ tx_in = 0 /\ tx_out = 0 /\ rx_in = 0 /\ rx_out = 0
  BY DEF Init
<1>2. Used(0, 0) = 0 /\ 0 \in Slots
  BY UsedIs, Assumptions
<1>3. ASSUME NEW buf \in [Slots -> Values] PROVE Contents(buf, 0, 0) = << >>
  <2>1. Contents(buf, 0, 0) \in Seq(Values) /\ Len(Contents(buf, 0, 0)) = 0
    BY <1>2, ContentsIs
  <2> QED  BY <2>1, EmptySeq
<1>4. tx_buf \in [Slots -> Values] /\ rx_buf \in [Slots -> Values]
  BY UartInvInit DEF UartInv, TypeOK, Values
<1>5. ToHost = << >> /\ FromHost = << >>
  BY <1>1, <1>3, <1>4 DEF ToHost, FromHost
<1>6. Op = "none" /\ Moved = << >> /\ Left = 0
  BY <1>1 DEF Op, WritePcs, ReadPcs, Moved, Left
<1> QED  BY <1>1, <1>5, <1>6 DEF channel!Init, ToHost, FromHost, Op, Moved, Left

\* The driver keeps the promise of read() and write(): the rings and FIFOs are
\* one bounded queue of bytes in each direction.  No byte is lost, repeated or
\* overtaken between the thread, the interrupt routine and the host, and what
\* a call returns is what it moved, or why it moved nothing
\* (altera_avalon_jtag_uart_write.c:65-211, _read.c:64-199, _init.c:84-191).
THEOREM UartImplementsChannel == Spec => ImplementsChannel
<1>1. Init => channel!Init
  BY ChannelInit
<1>2. UartInv /\ ChannelInv /\ [Next]_vars => [channel!Next]_(channel!vars)
  BY CallSteps, WriteSteps, ReadSteps, IrqSteps, OutsideSteps DEF Next
<1> QED
  BY <1>1, <1>2, UartInvariant, ChannelInvariant, PTL
     DEF Spec, ImplementsChannel, channel!Spec
===============================================================================
