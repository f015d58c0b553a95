------------------------------ MODULE HpiPort ------------------------------
(***************************************************************************)
(* What IO_write and IO_read of io_handler.c promise their callers: the    *)
(* four registers of the USB chip's host port, each call applied to them   *)
(* once and as a whole, in program order.  Nothing is said of the pins.    *)
(* HpiBus.tla is the detailed specification that implements this one.      *)
(***************************************************************************)
EXTENDS Naturals

CONSTANTS NWords,       \* words are 0 .. NWords-1, and so are addresses
          NoCall        \* no call is in progress

Words == 0 .. NWords - 1

\* The four registers (usb.h:26-29).
HPI_DATA    == 0
HPI_MAILBOX == 1
HPI_ADDR    == 2
HPI_STATUS  == 3
Registers   == {HPI_DATA, HPI_MAILBOX, HPI_ADDR, HPI_STATUS}

Calls == [op : {"write"}, reg : Registers, data : Words]
         \cup [op : {"read"}, reg : Registers]

\* The chip behind the port: its memory, the pointer HPI_DATA goes through,
\* which moves on with every word, the mailbox and the status, which can only
\* be read.
Chips == [mem : [Words -> Words], ptr : Words, mailbox : Words, status : Words]

Next1(w) == (w + 1) % NWords

\* The chip after a write of d to register reg.
Written(chip, reg, d) ==
    CASE reg = HPI_ADDR    -> [chip EXCEPT !.ptr = d]
      [] reg = HPI_MAILBOX -> [chip EXCEPT !.mailbox = d]
      [] reg = HPI_DATA    -> [chip EXCEPT !.mem[chip.ptr] = d,
                                           !.ptr = Next1(chip.ptr)]
      [] OTHER             -> chip

\* What a read of register reg returns, and the chip after it.
ReadValue(chip, reg) ==
    CASE reg = HPI_ADDR    -> chip.ptr
      [] reg = HPI_MAILBOX -> chip.mailbox
      [] reg = HPI_DATA    -> chip.mem[chip.ptr]
      [] OTHER             -> chip.status          \* HPI_STATUS

AfterRead(chip, reg) ==
    IF reg = HPI_DATA THEN [chip EXCEPT !.ptr = Next1(chip.ptr)] ELSE chip

----------------------------------------------------------------------------

VARIABLES up,           \* has IO_init returned since the last reset?
          chip,         \* the chip behind the port
          call,         \* the call in progress
          applied,      \* has the chip obeyed it?
          ret           \* what the last read returned

vars == <<up, chip, call, applied, ret>>

Init == /\ up = FALSE /\ chip \in Chips
        /\ call = NoCall /\ applied = FALSE /\ ret \in Words

\* Until IO_init returns nothing is promised: the chip may change at will.
Start == /\ ~up /\ up' \in BOOLEAN /\ chip' \in Chips
         /\ UNCHANGED <<call, applied, ret>>

Call(c) == /\ up /\ call = NoCall
           /\ call' = c /\ applied' = FALSE
           /\ UNCHANGED <<up, chip, ret>>

\* The one step of a call in which it takes place.
ApplyWrite == /\ call # NoCall /\ ~applied /\ call.op = "write"
              /\ applied' = TRUE
              /\ chip' = Written(chip, call.reg, call.data)
              /\ UNCHANGED <<up, call, ret>>

\* A read's value leaves with the call; the pointer has then moved on.
Load == /\ call # NoCall /\ ~applied /\ call.op = "read"
        /\ ret' = ReadValue(chip, call.reg)
        /\ UNCHANGED <<up, chip, call, applied>>

ApplyRead == /\ call # NoCall /\ ~applied /\ call.op = "read"
             /\ ret = ReadValue(chip, call.reg)
             /\ applied' = TRUE
             /\ chip' = AfterRead(chip, call.reg)
             /\ UNCHANGED <<up, call, ret>>

Return == /\ call # NoCall /\ applied
          /\ call' = NoCall /\ applied' = FALSE
          /\ UNCHANGED <<up, chip, ret>>

\* The push button abandons the call.
Reset == /\ up' = FALSE /\ call' = NoCall /\ applied' = FALSE
         /\ UNCHANGED <<chip, ret>>

Next == \/ Start \/ Return \/ Reset
        \/ \E c \in Calls : Call(c)
        \/ ApplyWrite \/ Load \/ ApplyRead

Spec == Init /\ [][Next]_vars
============================================================================
