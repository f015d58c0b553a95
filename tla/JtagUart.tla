------------------------------- MODULE JtagUart -------------------------------
(***************************************************************************)
(* The interrupt driven driver of the JTAG UART, through which printf of   *)
(* main.c talks to the host (altera_avalon_jtag_uart_*.c):                 *)
(*   - one thread that calls write, read, ioctl and close and spins while  *)
(*     it has to wait;                                                     *)
(*   - the interrupt routine, which moves bytes between two ring buffers   *)
(*     and the two FIFOs of the device; the thread stands still meanwhile, *)
(*     the host does not;                                                  *)
(*   - the alarm of once a second that looks for a sign of the host;       *)
(*   - the device and the host (external).                                 *)
(* The ring buffers are shared without a lock: each index has one writer.  *)
(***************************************************************************)
EXTENDS Integers, Sequences

CONSTANTS Bytes, Free, MaxCount,
          BUF_LEN,          \* ALTERA_AVALON_JTAG_UART_BUF_LEN
          FIFO_LEN,         \* external: depth of the device's FIFOs
          DEFAULT_TIMEOUT, INT_MAX,
          Timer             \* does the system have a clock for alarms?

ASSUME BufferAssumption == BUF_LEN \in Nat /\ BUF_LEN >= 2 /\ MaxCount \in Nat
ASSUME FifoAssumption == FIFO_LEN \in Nat \ {0}
ASSUME TimeoutAssumption ==
    /\ Timer \in BOOLEAN /\ INT_MAX \in Nat
    /\ DEFAULT_TIMEOUT \in 2 .. INT_MAX - 2

\* Results of calls that moved nothing.
EWOULDBLOCK == -11
EIO == -5

VARIABLES
    rx_in, rx_out, tx_in, tx_out, rx_buf, tx_buf,   \* the ring buffers
    irq_enable,             \* the interrupts the driver means to have on
    timeout, host_inactive, \* seconds until the host counts as gone
    control, rxFifo, txFifo, AC,        \* external: the device
    pc, flags, buffer, space, in, out, n, ret,      \* the thread
    isr, ctl, room, data    \* the interrupt routine: where it is, the
                            \* control word it read, space, and data & RAVAIL

ring   == <<rx_in, rx_out, tx_in, tx_out, rx_buf, tx_buf>>
device == <<control, rxFifo, txFifo, AC>>
clock  == <<timeout, host_inactive>>
thread == <<pc, flags, buffer, space, in, out, n, ret>>
irq    == <<isr, ctl, room, data>>
vars   == <<ring, irq_enable, clock, device, thread, irq>>

Slots == 0 .. BUF_LEN - 1

\* A slot whose byte has been taken holds no byte: the old one stays in the
\* program's memory, but passing it on a second time must not go unnoticed.
ASSUME FreeAssumption == Free \notin Bytes
Strings == UNION {[1 .. k -> Bytes] : k \in 0 .. MaxCount}
Least(a, b) == IF a < b THEN a ELSE b

Init ==
    /\ rx_in = 0 /\ rx_out = 0 /\ tx_in = 0 /\ tx_out = 0
    /\ rx_buf = [s \in Slots |-> Free] /\ tx_buf = rx_buf
    /\ irq_enable = {"RE"} /\ control = {"RE"}
    /\ host_inactive = 0
    /\ timeout = IF Timer THEN DEFAULT_TIMEOUT ELSE INT_MAX
    /\ rxFifo = << >> /\ txFifo = << >> /\ AC = FALSE
    /\ pc = "none" /\ flags = FALSE /\ buffer = << >> /\ space = 0
    /\ in = 0 /\ out = 0 /\ n = 0 /\ ret = 0
    /\ isr = "off" /\ ctl = {} /\ room = 0 /\ data = FALSE

\* The thread runs while no interrupt is served.  A local variable that is not
\* used any more is set to 0.
Thread(here, there) == isr = "off" /\ pc = here /\ pc' = there

Idle == "none"

\* The call is over: it returns how many bytes it moved, or why none.
Result(moved) == IF moved > 0 THEN moved
                 ELSE IF flags THEN EWOULDBLOCK ELSE EIO

Return(moved) == pc' = Idle /\ ret' = Result(moved) /\ flags' = FALSE
                 /\ buffer' = << >> /\ space' = 0
                 /\ in' = 0 /\ out' = 0 /\ n' = 0
Stay == UNCHANGED <<flags, buffer, space, in, out, n, ret>>
SetEnable(e) == irq_enable' = e /\ control' = e

------------------------------------------------------------------------------
(* altera_avalon_jtag_uart_write                                            *)

WriteCall ==
    /\ Thread(Idle, "w_copy")
    /\ buffer' \in Strings /\ space' = Len(buffer') /\ flags' \in BOOLEAN
    /\ ret' = 0
    /\ UNCHANGED <<ring, irq_enable, clock, device, in, out, n, irq>>

\* Bytes that fit from tx_in on without a wrap; the ring never fills up.
\* Mutant: the last slot is used too, and a full ring looks empty.
TxRoom_Full(i, o) == IF i < o THEN o - i ELSE BUF_LEN - i

TxRoom(i, o) == IF i < o THEN o - 1 - i
                ELSE IF o > 0 THEN BUF_LEN - i ELSE BUF_LEN - 1 - i

\* One turn of the copy loop begins: a stable value of tx_out.
WriteSnapshot ==
    /\ isr = "off" /\ pc = "w_copy"
    /\ IF space = 0
       THEN pc' = "w_kick" /\ UNCHANGED <<in, out, n>>
       ELSE /\ in' = tx_in /\ out' = tx_out
            /\ n' = Least(TxRoom(tx_in, tx_out), space)
            /\ pc' = IF n' = 0 THEN "w_kick" ELSE "w_memcpy"
    /\ UNCHANGED <<ring, irq_enable, clock, device, flags, buffer, space, ret,
                   irq>>

ptr == Len(buffer) - space      \* bytes of the buffer already copied

WriteMemcpy ==
    /\ Thread("w_memcpy", "w_advance")
    /\ tx_buf' = [s \in Slots |-> IF s \in in .. in + n - 1
                                  THEN buffer[ptr + 1 + s - in] ELSE tx_buf[s]]
    /\ space' = space - n
    /\ UNCHANGED <<rx_in, rx_out, tx_in, tx_out, rx_buf, irq_enable, clock,
                   device, flags, buffer, in, out, n, ret, irq>>

\* Only now may the interrupt routine see the bytes.
WriteAdvance ==
    /\ Thread("w_advance", "w_copy")
    /\ tx_in' = (in + n) % BUF_LEN /\ in' = 0 /\ out' = 0 /\ n' = 0
    /\ UNCHANGED <<rx_in, rx_out, tx_out, rx_buf, tx_buf, irq_enable, clock,
                   device, flags, buffer, space, ret, irq>>

\* With interrupts disabled, the driver turns the write interrupt on.
WriteKick ==
    /\ isr = "off" /\ pc = "w_kick"
    /\ SetEnable(irq_enable \cup {"WE"})
    /\ IF space = 0 \/ flags THEN Return(ptr) ELSE pc' = "w_wait" /\ Stay
    /\ UNCHANGED <<ring, clock, rxFifo, txFifo, AC, irq>>

\* The spinning ends when the interrupt routine has removed something, or
\* the host counts as gone.
WriteWait ==
    /\ out # tx_out \/ host_inactive >= timeout
    /\ Thread("w_wait", "w_test") /\ in' = 0 /\ out' = 0
    /\ UNCHANGED <<ring, irq_enable, clock, device, flags, buffer, space, n,
                   ret, irq>>

WriteTest ==
    /\ isr = "off" /\ pc = "w_test"
    /\ IF host_inactive > 0 THEN Return(ptr) ELSE pc' = "w_copy" /\ Stay
    /\ UNCHANGED <<ring, irq_enable, clock, device, irq>>

------------------------------------------------------------------------------
(* altera_avalon_jtag_uart_read                                             *)

ReadCall ==
    /\ Thread(Idle, "r_copy")
    /\ space' \in 0 .. MaxCount /\ flags' \in BOOLEAN /\ buffer' = << >>
    /\ ret' = 0
    /\ UNCHANGED <<ring, irq_enable, clock, device, in, out, n, irq>>

RxAvail(i, o) == IF i >= o THEN i - o ELSE BUF_LEN - o

\* A call for nothing, or one that may not wait, returns when the ring is
\* empty.
ReadSnapshot ==
    /\ isr = "off" /\ pc = "r_copy"
    /\ LET k == Least(RxAvail(rx_in, rx_out), space)
       IN  IF k = 0 /\ buffer = << >> /\ (flags \/ space = 0) THEN Return(0)
           ELSE /\ in' = rx_in /\ out' = rx_out /\ n' = k
                /\ pc' = IF k > 0 THEN "r_memcpy"
                         ELSE IF buffer # << >> THEN "r_enable" ELSE "r_wait"
                /\ UNCHANGED <<flags, buffer, space, ret>>
    /\ UNCHANGED <<ring, irq_enable, clock, device, irq>>

ReadMemcpy ==
    /\ Thread("r_memcpy", "r_advance")
    /\ buffer' = buffer \o [k \in 1 .. n |-> rx_buf[out + k - 1]]
    /\ space' = space - n
    /\ UNCHANGED <<ring, irq_enable, clock, device, flags, in, out, n, ret,
                   irq>>

\* Only now may the interrupt routine use the slots again.
ReadAdvance ==
    /\ Thread("r_advance", IF space > 0 THEN "r_copy" ELSE "r_enable")
    /\ rx_out' = (out + n) % BUF_LEN /\ in' = 0 /\ out' = 0 /\ n' = 0
    /\ rx_buf' = [s \in Slots |-> IF s \in out .. out + n - 1 THEN Free
                                  ELSE rx_buf[s]]
    /\ UNCHANGED <<rx_in, tx_in, tx_out, tx_buf, irq_enable, clock,
                   device, flags, buffer, space, ret, irq>>

ReadWait ==
    /\ in # rx_in \/ host_inactive >= timeout
    /\ Thread("r_wait", "r_test")
    /\ UNCHANGED <<ring, irq_enable, clock, device, flags, buffer, space, in,
                   out, n, ret, irq>>

ReadTest ==
    /\ isr = "off" /\ pc = "r_test"
    /\ IF in = rx_in THEN Return(0) ELSE pc' = "r_copy" /\ Stay
    /\ UNCHANGED <<ring, irq_enable, clock, device, irq>>

\* Mutant: space in the ring does not turn the interrupt on again.
ReadEnable_Not ==
    /\ isr = "off" /\ pc = "r_enable"
    /\ Return(Len(buffer))
    /\ UNCHANGED <<ring, irq_enable, clock, device, irq>>

\* Something was read, so there is space: receive interrupts on.
ReadEnable ==
    /\ isr = "off" /\ pc = "r_enable"
    /\ SetEnable(irq_enable \cup {"RE"})
    /\ Return(Len(buffer))
    /\ UNCHANGED <<ring, clock, rxFifo, txFifo, AC, irq>>

------------------------------------------------------------------------------
(* altera_avalon_jtag_uart_close and _ioctl                                 *)

CloseCall ==
    /\ Thread(Idle, "c_wait")
    /\ flags' \in BOOLEAN
    /\ UNCHANGED <<ring, irq_enable, clock, device, buffer, space, in, out, n,
                   ret, irq>>

\* It waits until the ring is drained, or gives up.
CloseReturn ==
    /\ \/ tx_out = tx_in \/ host_inactive >= timeout
       \/ flags
    /\ Thread("c_wait", Idle)
    /\ flags' = FALSE
    /\ ret' = IF tx_out # tx_in /\ host_inactive < timeout THEN EWOULDBLOCK
              ELSE 0
    /\ UNCHANGED <<ring, irq_enable, clock, device, buffer, space, in, out, n,
                   irq>>

\* What TIOCSTIMEOUT makes of its argument: too small means for ever.
EffectiveTimeout(t) == IF t >= 2 /\ t < INT_MAX THEN t ELSE INT_MAX - 1

\* Every int there is.
Ints == -INT_MAX - 1 .. INT_MAX

SetTimeout(t) ==
    /\ Thread(Idle, Idle) /\ timeout # INT_MAX
    /\ timeout' = EffectiveTimeout(t)
    /\ UNCHANGED <<ring, irq_enable, host_inactive, device, flags, buffer,
                   space, in, out, n, ret, irq>>

------------------------------------------------------------------------------
(* altera_avalon_jtag_uart_irq.  The device asks for it while an interrupt   *)
(* that is turned on has a reason (external).                                *)

Pending == {i \in control : \/ i = "RE" /\ rxFifo # << >>
                            \/ i = "WE" /\ Len(txFifo) < FIFO_LEN}

\* The control word is read once per turn of the outer loop, the first time
\* on entry; nothing pending ends it.
IrqControl ==
    /\ isr = "loop" \/ (isr = "off" /\ Pending # {})
    /\ data' = ("RE" \in Pending)
    /\ ctl' = IF "RE" \in Pending THEN Pending ELSE {}
    /\ room' = IF "WE" \in Pending THEN FIFO_LEN - Len(txFifo) ELSE 0
    /\ isr' = CASE Pending = {}     -> "off"
                [] "RE" \in Pending -> "rx"
                [] OTHER            -> "tx"
    /\ UNCHANGED <<ring, irq_enable, clock, device, thread>>

AfterRx == IF "WE" \in ctl THEN "tx" ELSE "loop"

RxFull == (rx_in + 1) % BUF_LEN = rx_out

\* One byte from the FIFO, or the find that it has none.
IrqReceive ==
    /\ isr = "rx" /\ ~RxFull
    /\ IF rxFifo = << >>
       THEN /\ isr' = AfterRx /\ ctl' = {} /\ data' = FALSE
            /\ UNCHANGED <<rx_buf, rx_in, rxFifo>>
       ELSE /\ rx_buf' = [rx_buf EXCEPT ![rx_in] = Head(rxFifo)]
            /\ rx_in' = (rx_in + 1) % BUF_LEN
            /\ rxFifo' = Tail(rxFifo) /\ data' = (Len(rxFifo) > 1)
            /\ UNCHANGED <<isr, ctl>>
    /\ UNCHANGED <<rx_out, tx_in, tx_out, tx_buf, irq_enable, clock, control,
                   txFifo, AC, thread, room>>

\* The ring is full: if bytes are left, no more receive interrupts.
IrqRxFull ==
    /\ isr = "rx" /\ RxFull
    /\ isr' = AfterRx /\ ctl' = {} /\ data' = FALSE
    /\ IF data THEN SetEnable(irq_enable \ {"RE"})
               ELSE UNCHANGED <<irq_enable, control>>
    /\ UNCHANGED <<ring, clock, rxFifo, txFifo, AC, thread, room>>

IrqSend ==
    /\ isr = "tx" /\ room > 0 /\ tx_out # tx_in
    /\ txFifo' = Append(txFifo, tx_buf[tx_out])
    /\ tx_buf' = [tx_buf EXCEPT ![tx_out] = Free]
    /\ tx_out' = (tx_out + 1) % BUF_LEN
    /\ room' = room - 1
    /\ UNCHANGED <<rx_in, rx_out, tx_in, rx_buf, irq_enable, clock,
                   control, rxFifo, AC, thread, isr, ctl, data>>

\* Space is left, so the ring is empty: no more write interrupts.
IrqTxEnd ==
    /\ isr = "tx" /\ (room = 0 \/ tx_out = tx_in)
    /\ isr' = "loop" /\ room' = 0
    /\ IF room > 0 THEN SetEnable(irq_enable \ {"WE"})
                   ELSE UNCHANGED <<irq_enable, control>>
    /\ UNCHANGED <<ring, clock, rxFifo, txFifo, AC, thread, ctl, data>>

------------------------------------------------------------------------------
(* altera_avalon_jtag_uart_timeout, an alarm: once a second, as an interrupt *)

\* Mutant: the count of seconds reaches the timeouts that mean for ever.
OneMore_NoStop(h) == h + 1

OneMore(h) == IF h < INT_MAX - 2 THEN h + 1 ELSE h

Second ==
    /\ Timer /\ isr = "off"
    /\ IF AC THEN host_inactive' = 0 /\ AC' = FALSE /\ control' = irq_enable
       ELSE /\ host_inactive' = OneMore(host_inactive)
            /\ UNCHANGED <<AC, control>>
    /\ UNCHANGED <<ring, irq_enable, timeout, rxFifo, txFifo, thread, irq>>

\* External: the host takes or sends a byte, or only shows that it is there.
HostTakes ==
    /\ txFifo # << >> /\ txFifo' = Tail(txFifo) /\ AC' = TRUE
    /\ UNCHANGED <<ring, irq_enable, clock, control, rxFifo, thread, irq>>

HostSends ==
    /\ Len(rxFifo) < FIFO_LEN /\ AC' = TRUE
    /\ \E b \in Bytes : rxFifo' = Append(rxFifo, b)
    /\ UNCHANGED <<ring, irq_enable, clock, control, txFifo, thread, irq>>

HostPolls ==
    /\ ~AC /\ AC' = TRUE
    /\ UNCHANGED <<ring, irq_enable, clock, control, rxFifo, txFifo, thread,
                   irq>>

Write == WriteSnapshot \/ WriteMemcpy \/ WriteAdvance \/ WriteKick
         \/ WriteWait \/ WriteTest
Read  == ReadSnapshot \/ ReadMemcpy \/ ReadAdvance \/ ReadWait \/ ReadEnable
         \/ ReadTest
Irq   == IrqControl \/ IrqReceive \/ IrqRxFull \/ IrqSend \/ IrqTxEnd

Next == \/ WriteCall \/ ReadCall \/ CloseCall
        \/ \E t \in Ints : SetTimeout(t)
        \/ Write \/ Read \/ CloseReturn \/ Irq \/ Second
        \/ HostTakes \/ HostSends \/ HostPolls

Spec == Init /\ [][Next]_vars

------------------------------------------------------------------------------
(* Properties.                                                              *)

WritePcs == {"w_copy", "w_memcpy", "w_advance", "w_kick", "w_wait", "w_test"}
ReadPcs  == {"r_copy", "r_memcpy", "r_advance", "r_wait", "r_test",
             "r_enable"}

TypeOK ==
    /\ {rx_in, rx_out, tx_in, tx_out} \subseteq Slots
    /\ {rx_buf, tx_buf} \subseteq [Slots -> Bytes \cup {Free}]
    /\ irq_enable \subseteq {"RE", "WE"} /\ control = irq_enable
    /\ timeout \in 2 .. INT_MAX /\ host_inactive \in 0 .. INT_MAX - 2
    /\ pc \in {Idle, "c_wait"} \cup WritePcs \cup ReadPcs
    /\ space \in 0 .. MaxCount /\ n \in 0 .. BUF_LEN - 1
    /\ in \in Slots /\ out \in Slots

\* No byte waits for an interrupt that is off: bytes in the transmit ring
\* have the write interrupt on, unless the thread is just about to turn it
\* on, and a receive interrupt that is off will be turned on by the reader
\* of the bytes in the ring.  (Four places turn the two interrupts on and
\* off, two of them in the interrupt routine.)
NothingStuck ==
    /\ tx_in # tx_out /\ "WE" \notin control => pc \in WritePcs
    /\ pc = "w_wait" => "WE" \in control \/ tx_in = tx_out
    /\ "RE" \notin control
        => rx_in # rx_out \/ (pc \in {"r_copy", "r_enable"} /\ buffer # << >>)

\* A timeout "for ever" never passes, however long the host stays away: the
\* count of seconds stops below it.
ForeverIsForever == timeout >= INT_MAX - 1 => host_inactive < timeout

Contents(buf, o, i) ==
    [k \in 1 .. (i - o + BUF_LEN) % BUF_LEN |-> buf[(o + k - 1) % BUF_LEN]]

\* The two rings and the FIFOs behind them are one queue of bytes each way,
\* although thread, interrupt routine and host move at the same time; a call
\* returns the number of the bytes it moved.
channel == INSTANCE JtagChannel WITH
    Capacity <- BUF_LEN - 1 + FIFO_LEN,
    toHost   <- txFifo \o Contents(tx_buf, tx_out, tx_in),
    fromHost <- Contents(rx_buf, rx_out, rx_in) \o rxFifo,
    op       <- IF pc \in WritePcs THEN "write"
                ELSE IF pc \in ReadPcs THEN "read" ELSE "none",
    buffer   <- IF pc = "r_advance"
                THEN SubSeq(buffer, 1, Len(buffer) - n) ELSE buffer,
    space    <- IF pc \in {"w_advance", "r_advance"} THEN space + n ELSE space

ImplementsChannel == channel!Spec
=============================================================================
