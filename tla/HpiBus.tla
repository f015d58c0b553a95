------------------------------- MODULE HpiBus -------------------------------
(***************************************************************************)
(* The way from a call in io_handler.c to the pins of the USB chip:        *)
(*   - the software, which stores to six parallel ports one at a time      *)
(*     (IO_init, IO_write, IO_read of io_handler.c);                       *)
(*   - hpi_io_intf.sv, which copies the ports to the chip's pins one clock *)
(*     later but opens the data pins with the write strobe of the port     *)
(*     itself, so that strobe and data do not change together;             *)
(*   - the push button, which resets the processor and hpi_io_intf;        *)
(*   - the chip (external): it obeys a strobe when the strobe ends, and    *)
(*     drives the data pins while a read strobe lasts.                     *)
(* The software may store again when SwTicks clocks have passed, or later. *)
(***************************************************************************)
EXTENDS Naturals, Sequences

CONSTANTS NWords,       \* words are 0 .. NWords-1
          SwTicks,      \* least number of clocks between two stores
          Holds,        \* external: do data pins that nobody drives keep their
                        \* level until the next clock edge?
          NoCall        \* no call is in progress

ASSUME NWordsAssumption == NWords \in Nat \ {0}

\* A store, a register of hpi_io_intf and the sampling of the pins follow
\* each other: a processor that stores on every clock would overtake them.
ASSUME SwTicksAssumption == SwTicks \in Nat /\ SwTicks >= 2

ASSUME HoldsAssumption == Holds \in BOOLEAN

VARIABLES
    KEY0,       \* the push button, 0 while it is held
    Reset_h,    \* its registered inverse (lab8.sv:50)
    call,       \* the call of io_handler.c in progress, NoCall between calls
    todo,       \* the accesses to the parallel ports it still makes
    ready,      \* has IO_init returned?
    temp,       \* temp of IO_read
    age,        \* clocks since the last access, counted up to SwTicks
    pio,        \* the parallel ports: address, data, r, w, cs, reset
    otg,        \* hpi_io_intf's registers: the pins and the data buffer
    data_in,    \* from_sw_data_in, what a load from the data port returns
    bus,        \* the level on OTG_DATA
    chip,       \* external: memory, pointer and mailbox behind the port
    served      \* history: strobes of this call the chip obeyed

vars == <<KEY0, Reset_h, call, todo, ready, temp, age, pio, otg, data_in,
          bus, chip, served>>

port == INSTANCE HpiPort
        WITH up <- ready, applied <- (served > 0), ret <- temp

ASSUME NoCallAssumption == NoCall \notin port!Calls

----------------------------------------------------------------------------
(* io_handler.c: each function is the sequence of its accesses.            *)

Load == <<"temp", 0>>

IO_init == << <<"reset", 1>>, <<"cs", 1>>, <<"r", 1>>, <<"w", 1>>,
              <<"address", 0>>, <<"data", 0>>,
              <<"cs", 0>>, <<"reset", 0>>, <<"reset", 1>>, <<"cs", 1>> >>

\* Mutant: the write strobe ends before the data is stored.
IO_write_StrobeFirst(a, d) ==
    << <<"address", a>>, <<"cs", 0>>, <<"w", 0>>, <<"w", 1>>,
       <<"data", d>>, <<"cs", 1>> >>

IO_write(a, d) ==
    << <<"address", a>>, <<"cs", 0>>, <<"w", 0>>, <<"data", d>>,
       <<"w", 1>>, <<"cs", 1>> >>

\* Mutant: IO_read leaves its strobe on; the chip keeps driving the bus.
IO_read_NoRelease(a) ==
    << <<"address", a>>, <<"r", 0>>, <<"cs", 0>>, Load, <<"cs", 1>> >>

IO_read(a) ==
    << <<"address", a>>, <<"r", 0>>, <<"cs", 0>>, Load,
       <<"r", 1>>, <<"cs", 1>> >>

Code(c) == IF c.op = "write" THEN IO_write(c.reg, c.data) ELSE IO_read(c.reg)

----------------------------------------------------------------------------
(* The pins.                                                               *)

\* hpi_io_intf.sv:43: the write strobe of the port, not the pin, opens them.
FpgaDrives(p) == p.w = 0

\* External: the chip drives the data pins while it is read.
ChipDrives(o) == o.RST_N = 1 /\ o.CS_N = 0 /\ o.RD_N = 0

\* What is on the data pins, with the level they float to when nobody drives
\* them.
Level(p, o, c, floating) ==
    IF FpgaDrives(p) THEN o.buffer
    ELSE IF ChipDrives(o) THEN port!ReadValue(c, o.ADDR) ELSE floating

WriteStrobe(o) == o.CS_N = 0 /\ o.WR_N = 0
ReadStrobe(o)  == o.CS_N = 0 /\ o.RD_N = 0 /\ o.WR_N = 1

\* hpi_io_intf.sv:19-38, the registers after a clock edge.
Registered(p) ==
    [ADDR |-> p.address, RD_N |-> p.r, WR_N |-> p.w, CS_N |-> p.cs,
     RST_N |-> 1, buffer |-> p.data]

ResetPins == [ADDR |-> 0, RD_N |-> 1, WR_N |-> 1, CS_N |-> 0, RST_N |-> 0,
              buffer |-> 0]

\* The parallel ports come out of a reset with every bit 0 (system.h).
ResetPio == [address |-> 0, data |-> 0, r |-> 0, w |-> 0, cs |-> 0,
             reset |-> 0]

----------------------------------------------------------------------------
Init ==
    /\ KEY0 = 1 /\ Reset_h = 0
    /\ call = NoCall /\ todo = IO_init /\ ready = FALSE /\ temp = 0 /\ age = 0
    /\ pio = ResetPio /\ otg = ResetPins /\ data_in = 0 /\ bus = 0
    /\ chip \in port!Chips /\ served = 0

\* A caller enters IO_write or IO_read.
Enter(c) ==
    /\ KEY0 = 1 /\ ready /\ call = NoCall
    /\ call' = c /\ todo' = Code(c)
    /\ UNCHANGED <<KEY0, Reset_h, ready, temp, age, pio, otg, data_in, bus,
                   chip, served>>

\* A load from the data port returns what hpi_io_intf sampled.
LoadTemp ==
    /\ KEY0 = 1 /\ todo # << >> /\ age = SwTicks /\ Head(todo) = Load
    /\ temp' = data_in /\ todo' = Tail(todo) /\ age' = 0
    /\ UNCHANGED <<KEY0, Reset_h, call, ready, pio, otg, data_in, bus, chip,
                   served>>

\* A store to a port: w opens or closes the data pins at once, everything
\* else reaches the pins at the next clock.  The write strobe of the chip is
\* still on when the data pins are closed: whether it gets the data then is a
\* matter of the pins.
Store ==
    /\ KEY0 = 1 /\ todo # << >> /\ age = SwTicks /\ Head(todo) # Load
    /\ pio' = [pio EXCEPT ![Head(todo)[1]] = Head(todo)[2]]
    /\ \E floating \in port!Words :
          /\ Holds => floating = bus
          /\ bus' = Level(pio', otg, chip, floating)
    /\ todo' = Tail(todo) /\ age' = 0
    /\ UNCHANGED <<KEY0, Reset_h, call, ready, temp, otg, data_in, chip,
                   served>>

\* IO_init, IO_write or IO_read returns, SwTicks clocks after its last store.
Return ==
    /\ KEY0 = 1 /\ todo = << >> /\ age = SwTicks
    /\ ~ready \/ call # NoCall
    /\ ready' = TRUE /\ call' = NoCall /\ served' = 0
    /\ UNCHANGED <<KEY0, Reset_h, todo, temp, age, pio, otg, data_in, bus,
                   chip>>

\* A rising clock edge: hpi_io_intf samples the bus and copies the ports to
\* the pins, and the chip obeys a strobe that ends.  A reset takes the
\* chip's pins along and leaves it in any state.
Clock ==
    /\ Reset_h' = 1 - KEY0
    /\ age' = IF KEY0 = 1 /\ age < SwTicks THEN age + 1 ELSE age
    /\ otg' = IF Reset_h = 1 THEN ResetPins ELSE Registered(pio)
    /\ data_in' = IF Reset_h = 1 THEN 0 ELSE bus
    /\ IF otg'.RST_N = 0
       THEN chip' \in port!Chips /\ served' = served
       ELSE LET wrote == WriteStrobe(otg) /\ ~WriteStrobe(otg')
                read  == ReadStrobe(otg) /\ ~ReadStrobe(otg')
            IN /\ chip' = IF wrote THEN port!Written(chip, otg.ADDR, bus)
                          ELSE IF read THEN port!AfterRead(chip, otg.ADDR)
                          ELSE chip
               /\ served' = IF call # NoCall /\ (wrote \/ read)
                            THEN served + 1 ELSE served
    /\ \E floating \in port!Words : bus' = Level(pio, otg', chip', floating)
    /\ UNCHANGED <<KEY0, call, todo, ready, temp, pio>>

\* KEY[0] is pushed: the processor and its ports are reset at once, the
\* registers of hpi_io_intf, and the chip with them, after Reset_h.
Push ==
    /\ KEY0 = 1 /\ KEY0' = 0
    /\ call' = NoCall /\ todo' = IO_init /\ ready' = FALSE /\ age' = 0
    /\ pio' = ResetPio /\ bus' = Level(pio', otg, chip, bus)
    /\ served' = 0
    /\ UNCHANGED <<Reset_h, temp, otg, data_in, chip>>

Release == /\ KEY0 = 0 /\ KEY0' = 1
           /\ UNCHANGED <<Reset_h, call, todo, ready, temp, age, pio, otg,
                          data_in, bus, chip, served>>

Next == \/ \E c \in port!Calls : Enter(c)
        \/ LoadTemp \/ Store \/ Return \/ Clock \/ Push \/ Release

Spec == Init /\ [][Next]_vars

----------------------------------------------------------------------------
(* Properties.                                                             *)

\* Once IO_init has returned, hpi_io_intf and the chip never drive the data
\* pins against each other, whatever calls follow: no strobe of a call is
\* still on when the next one opens the pins (io_handler.c:27-32, 43-48).
NoContention == ready => ~(FpgaDrives(pio) /\ ChipDrives(otg))

\* Every call takes place at the chip exactly once and as a whole, between
\* its start and its return, with the data the caller gave and the value the
\* chip held, although pins, data pins and ports change at different clocks.
\* (Of a chip that gets the data of a write only if the pins hold it.)
ImplementsPort == port!Spec
=============================================================================
