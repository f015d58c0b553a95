---------------------------- MODULE HpiBus_proofs ----------------------------
(***************************************************************************)
(* Every call of io_handler.c takes place at the USB chip once and as a    *)
(* whole, and hpi_io_intf and the chip never drive the data pins against   *)
(* each other: for every number of words and every speed of the processor. *)
(***************************************************************************)
EXTENDS HpiBus, TLAPS

Ports    == {"address", "data", "r", "w", "cs", "reset"}
Stores   == {<<p, v>> : p \in Ports, v \in Nat}
Accesses == Stores \cup {Load}

\* The first k accesses of code have been made, the others are still to come.
Done(k, code) ==
    /\ k \in 0 .. Len(code) /\ Len(todo) = Len(code) - k
    /\ \A i \in 1 .. Len(todo) : todo[i] = code[k + i]

-----------------------------------------------------------------------------
(* The invariant *)

\* The levels that the first k accesses of IO_write and IO_read leave.
AtWrite(k, r, w, cs, address, data) ==
    /\ r = 1
    /\ w = IF k \in {3, 4} THEN 0 ELSE 1
    /\ cs = IF k \in 2 .. 5 THEN 0 ELSE 1
    /\ k >= 1 => address = call.reg
    /\ k >= 4 => data = call.data

AtRead(k, r, w, cs, address) ==
    /\ r = IF k \in 2 .. 4 THEN 0 ELSE 1
    /\ w = 1
    /\ cs = IF k \in 3 .. 5 THEN 0 ELSE 1
    /\ k >= 1 => address = call.reg

\* The pins are one clock behind the ports.
Behind(k) == IF age = 0 THEN k - 1 ELSE k

WriteAt(k) ==
    /\ Done(k, IO_write(call.reg, call.data)) /\ (k = 0 => age >= 1)
    /\ AtWrite(k, pio.r, pio.w, pio.cs, pio.address, pio.data)
    /\ AtWrite(Behind(k), otg.RD_N, otg.WR_N, otg.CS_N, otg.ADDR, otg.buffer)
    /\ served = IF Behind(k) >= 5 THEN 1 ELSE 0
    /\ k = 4 /\ age >= 1 => bus = call.data
    /\ Holds /\ k = 5 /\ age = 0 => bus = call.data

\* The value passes from the chip to the data pins, to the register behind
\* them and to temp, and the chip still holds it when the strobe ends.
ReadAt(k) ==
    LET value == port!ReadValue(chip, call.reg)
    IN  /\ Done(k, IO_read(call.reg)) /\ (k = 0 => age >= 1)
        /\ AtRead(k, pio.r, pio.w, pio.cs, pio.address)
        /\ AtRead(Behind(k), otg.RD_N, otg.WR_N, otg.CS_N, otg.ADDR)
        /\ served = IF Behind(k) >= 5 THEN 1 ELSE 0
        /\ k = 3 /\ age >= 1 => bus = value
        /\ k = 3 /\ age >= 2 => data_in = value
        /\ k >= 4 /\ Behind(k) < 5 => temp = value

InWrite == call \in port!Calls /\ call.op = "write" /\ \E k \in 0 .. 6 : WriteAt(k)
InRead  == call \in port!Calls /\ call.op = "read" /\ \E k \in 0 .. 6 : ReadAt(k)

InInit == \E k \in 0 .. 10 :
    /\ Done(k, IO_init)
    /\ k >= 3 => pio.r = 1
    /\ k >= 4 => pio.w = 1
    /\ k = 10 => pio.cs = 1

Between ==
    /\ todo = << >> /\ age >= 1 /\ served = 0
    /\ pio.r = 1 /\ pio.w = 1 /\ pio.cs = 1
    /\ otg.RD_N = 1 /\ otg.WR_N = 1 /\ otg.CS_N = 1

Progress ==
    IF ~ready THEN call = NoCall /\ served = 0 /\ InInit
    ELSE IF call = NoCall THEN Between
    ELSE InWrite \/ InRead

Types ==
    /\ todo \in Seq(Accesses) /\ age \in 0 .. SwTicks /\ KEY0 \in {0, 1}
    /\ pio \in [Ports -> Nat] /\ pio.data \in port!Words
    /\ otg.buffer \in port!Words /\ bus \in port!Words /\ chip \in port!Chips

\* Nothing is left of a reset when there has been a clock since.
ResetOver ==
    /\ KEY0 = 0 => age = 0 /\ ~ready
    /\ age >= 1 \/ ready => Reset_h = 0
    /\ age >= 2 => otg = Registered(pio)
    /\ ready => otg.RST_N = 1

BusInv == Types /\ ResetOver /\ Progress

-----------------------------------------------------------------------------
(* The functions of io_handler.c, access by access *)

LEMMA Codes ==
    /\ IO_init \in Seq(Accesses) /\ Len(IO_init) = 10
    /\ \A a, d \in Nat : IO_write(a, d) \in Seq(Accesses) /\ Len(IO_write(a, d)) = 6
    /\ \A a \in Nat : IO_read(a) \in Seq(Accesses) /\ Len(IO_read(a)) = 6
<1>0. Load \in Accesses /\ \A p \in Ports, v \in Nat : <<p, v>> \in Accesses
  BY DEF Accesses, Stores
<1> HIDE DEF Accesses
<1>1. IO_init \in Seq(Accesses) /\ Len(IO_init) = 10
  BY <1>0 DEF IO_init, Ports
<1>2. \A a, d \in Nat : IO_write(a, d) \in Seq(Accesses) /\ Len(IO_write(a, d)) = 6
  <2> SUFFICES ASSUME NEW a \in Nat, NEW d \in Nat
               PROVE  IO_write(a, d) \in Seq(Accesses) /\ Len(IO_write(a, d)) = 6
    OBVIOUS
  <2>1. /\ <<"address", a>> \in Accesses /\ <<"data", d>> \in Accesses
        /\ <<"cs", 0>> \in Accesses /\ <<"cs", 1>> \in Accesses
        /\ <<"w", 0>> \in Accesses /\ <<"w", 1>> \in Accesses
    BY <1>0 DEF Ports
  <2> QED  BY <2>1 DEF IO_write
<1>3. \A a \in Nat : IO_read(a) \in Seq(Accesses) /\ Len(IO_read(a)) = 6
  <2> SUFFICES ASSUME NEW a \in Nat
               PROVE  IO_read(a) \in Seq(Accesses) /\ Len(IO_read(a)) = 6
    OBVIOUS
  <2>1. /\ <<"address", a>> \in Accesses /\ Load \in Accesses
        /\ <<"cs", 0>> \in Accesses /\ <<"cs", 1>> \in Accesses
        /\ <<"r", 0>> \in Accesses /\ <<"r", 1>> \in Accesses
    BY <1>0 DEF Ports
  <2> QED  BY <2>1 DEF IO_read
<1> QED  BY <1>1, <1>2, <1>3

LEMMA CallTypes ==
    ASSUME NEW c \in port!Calls
    PROVE  /\ c.reg \in Nat
           /\ (c.op = "write" /\ c.data \in Nat /\ c.data \in port!Words) \/ c.op = "read"
  BY NWordsAssumption DEF port!Calls, port!Registers, port!Words, port!HPI_DATA,
     port!HPI_MAILBOX, port!HPI_ADDR, port!HPI_STATUS

LEMMA DoneStep ==
    ASSUME Types, todo # << >>, NEW k \in Nat, NEW code \in Seq(Accesses), Done(k, code),
           todo' = Tail(todo)
    PROVE  Done(k + 1, code)' /\ Head(todo) = code[k + 1] /\ k + 1 <= Len(code)
<1>1. Len(todo) \in Nat /\ Len(todo) >= 1 /\ Len(todo') = Len(todo) - 1
  BY DEF Types
<1>2. \A i \in 1 .. Len(todo') : todo'[i] = todo[i + 1]
  BY <1>1 DEF Types
<1> QED  BY <1>1, <1>2 DEF Done, Types

LEMMA InitStep ==
    ASSUME Types, todo # << >>, NEW k \in 0 .. 10, Done(k, IO_init), todo' = Tail(todo)
    PROVE  Done(k + 1, IO_init)' /\ Head(todo) = IO_init[k + 1] /\ k \in 0 .. 9
<1>1. IO_init \in Seq(Accesses) /\ Len(IO_init) = 10 /\ k \in Nat
  BY Codes
<1>2. Done(k + 1, IO_init)' /\ Head(todo) = IO_init[k + 1] /\ k + 1 <= Len(IO_init)
  BY <1>1, DoneStep
<1> QED  BY <1>1, <1>2

LEMMA WriteStep ==
    ASSUME Types, todo # << >>, NEW k \in 0 .. 6, NEW a \in Nat, NEW d \in Nat,
           Done(k, IO_write(a, d)), todo' = Tail(todo)
    PROVE  Done(k + 1, IO_write(a, d))' /\ Head(todo) = IO_write(a, d)[k + 1] /\ k \in 0 .. 5
<1> DEFINE code == IO_write(a, d)
<1>1. code \in Seq(Accesses) /\ Len(code) = 6 /\ k \in Nat
  BY Codes
<1> HIDE DEF code
<1>2. Done(k, code) => /\ Done(k + 1, code)' /\ Head(todo) = code[k + 1]
                       /\ k + 1 <= Len(code)
  BY <1>1, DoneStep
<1> QED  BY <1>1, <1>2 DEF code

LEMMA ReadStep ==
    ASSUME Types, todo # << >>, NEW k \in 0 .. 6, NEW a \in Nat,
           Done(k, IO_read(a)), todo' = Tail(todo)
    PROVE  Done(k + 1, IO_read(a))' /\ Head(todo) = IO_read(a)[k + 1] /\ k \in 0 .. 5
<1>1. IO_read(a) \in Seq(Accesses) /\ Len(IO_read(a)) = 6 /\ k \in Nat
  BY Codes
<1>2. Done(k + 1, IO_read(a))' /\ Head(todo) = IO_read(a)[k + 1] /\ k + 1 <= Len(IO_read(a))
  BY <1>1, DoneStep
<1> QED  BY <1>1, <1>2

\* An access of IO_write or IO_read, by its place.
LEMMA WriteAccess ==
    ASSUME NEW a \in Nat, NEW d \in Nat, NEW k \in 0 .. 5
    PROVE  /\ IO_write(a, d)[k + 1] # Load
           /\ k = 0 => IO_write(a, d)[k + 1] = <<"address", a>>
           /\ k = 1 => IO_write(a, d)[k + 1] = <<"cs", 0>>
           /\ k = 2 => IO_write(a, d)[k + 1] = <<"w", 0>>
           /\ k = 3 => IO_write(a, d)[k + 1] = <<"data", d>>
           /\ k = 4 => IO_write(a, d)[k + 1] = <<"w", 1>>
           /\ k = 5 => IO_write(a, d)[k + 1] = <<"cs", 1>>
  BY DEF IO_write, Load

LEMMA ReadAccess ==
    ASSUME NEW a \in Nat, NEW k \in 0 .. 5
    PROVE  /\ k = 0 => IO_read(a)[k + 1] = <<"address", a>>
           /\ k = 1 => IO_read(a)[k + 1] = <<"r", 0>>
           /\ k = 2 => IO_read(a)[k + 1] = <<"cs", 0>>
           /\ k = 3 <=> IO_read(a)[k + 1] = Load
           /\ k = 4 => IO_read(a)[k + 1] = <<"r", 1>>
           /\ k = 5 => IO_read(a)[k + 1] = <<"cs", 1>>
  BY DEF IO_read, Load

LEMMA InitAccess ==
    ASSUME NEW k \in 0 .. 9
    PROVE  /\ IO_init[k + 1] # Load
           /\ IO_init[k + 1][1] = "r" <=> k = 2
           /\ IO_init[k + 1][1] = "w" <=> k = 3
           /\ k \in {2, 3, 9} => IO_init[k + 1][2] = 1
           /\ k = 9 => IO_init[k + 1][1] = "cs"
           /\ IO_init[k + 1][1] = "data" => IO_init[k + 1][2] = 0
  BY DEF IO_init, Load

LEMMA HeadAccess == ASSUME Types, todo # << >>
                    PROVE  /\ Tail(todo) \in Seq(Accesses)
                           /\ Head(todo) # Load => Head(todo)[1] \in Ports /\ Head(todo)[2] \in Nat
<1>1. Tail(todo) \in Seq(Accesses) /\ Head(todo) \in Accesses
  BY DEF Types
<1>2. Head(todo) # Load => \E p \in Ports, v \in Nat : Head(todo) = <<p, v>>
  BY <1>1 DEF Accesses, Stores
<1> QED  BY <1>1, <1>2


-----------------------------------------------------------------------------
(* The chip *)

LEMMA ChipTypes ==
    ASSUME NEW c \in port!Chips, NEW reg, NEW d \in port!Words
    PROVE  /\ port!Written(c, reg, d) \in port!Chips
           /\ port!AfterRead(c, reg) \in port!Chips
           /\ port!ReadValue(c, reg) \in port!Words
<1>1. /\ c.mem \in [port!Words -> port!Words] /\ c.ptr \in port!Words
      /\ c.mailbox \in port!Words /\ c.status \in port!Words
      /\ 0 \in port!Words /\ port!Next1(c.ptr) \in port!Words
  <2>1. \A w \in port!Words : port!Next1(w) \in port!Words
    BY NWordsAssumption DEF port!Words, port!Next1
  <2>2. 0 \in port!Words
    BY NWordsAssumption DEF port!Words
  <2> QED  BY <2>1, <2>2 DEF port!Chips
<1>2. port!AfterRead(c, reg) \in port!Chips
  BY <1>1 DEF port!AfterRead, port!Chips
<1>3. port!ReadValue(c, reg) \in port!Words
  BY <1>1 DEF port!ReadValue
<1>4. port!Written(c, reg, d) \in port!Chips
  BY <1>1 DEF port!Written, port!Chips
<1> QED  BY <1>2, <1>3, <1>4

LEMMA LevelType ==
    ASSUME NEW p, NEW o, o.buffer \in port!Words, NEW c \in port!Chips, NEW old \in port!Words
    PROVE  Level(p, o, c, old) \in port!Words
  BY ChipTypes DEF Level

-----------------------------------------------------------------------------
(* Every step keeps the invariant and is a step of the port, or none       *)

PortStep == port!Next \/ UNCHANGED port!vars

LEMMA BusInit == Init => BusInv /\ port!Init
<1> SUFFICES ASSUME Init PROVE BusInv /\ port!Init
  OBVIOUS
<1>1. 0 \in port!Words
  BY NWordsAssumption DEF port!Words
<1>2. Types
  <2>1. ResetPio \in [Ports -> Nat] /\ ResetPio.data = 0 /\ ResetPins.buffer = 0
    BY DEF ResetPio, ResetPins, Ports
  <2>2. todo \in Seq(Accesses)
    BY Codes DEF Init
  <2> QED  BY <1>1, <2>1, <2>2, SwTicksAssumption DEF Init, Types
<1>3. Done(0, IO_init)
  BY Codes DEF Init, Done
<1>4. Progress /\ ResetOver
  BY <1>3, SwTicksAssumption DEF Init, Progress, InInit, ResetOver
<1>5. port!Init
  BY <1>1 DEF Init, port!Init
<1> QED  BY <1>2, <1>4, <1>5 DEF BusInv

LEMMA StoreKeeps == ASSUME BusInv, Store PROVE BusInv' /\ UNCHANGED port!vars
<1> USE DEF BusInv
<1> DEFINE p == Head(todo)[1]
           v == Head(todo)[2]
<1>1. /\ p \in Ports /\ v \in Nat /\ pio' = [pio EXCEPT ![p] = v] /\ todo' = Tail(todo)
      /\ \E floating \in port!Words : /\ Holds => floating = bus
                                      /\ bus' = Level(pio', otg, chip, floating)
      /\ todo # << >> /\ Head(todo) # Load /\ age = SwTicks
      /\ UNCHANGED <<KEY0, Reset_h, call, ready, temp, otg, data_in, chip, served>>
      /\ age' = 0
  BY HeadAccess DEF Store
<1>2. UNCHANGED port!vars
  BY <1>1 DEF port!vars
<1> HIDE DEF p, v
<1>3. /\ pio'.r = (IF p = "r" THEN v ELSE pio.r)
      /\ pio'.w = (IF p = "w" THEN v ELSE pio.w)
      /\ pio'.cs = (IF p = "cs" THEN v ELSE pio.cs)
      /\ pio'.address = (IF p = "address" THEN v ELSE pio.address)
      /\ pio'.data = (IF p = "data" THEN v ELSE pio.data)
  BY <1>1 DEF Types, Ports
<1>4. ASSUME p = "data" => v \in port!Words
      PROVE  Types'
  <2>1. bus' \in port!Words
    BY <1>1, LevelType DEF Types
  <2>2. pio' \in [Ports -> Nat] /\ pio'.data \in port!Words
    BY <1>1, <1>3, <1>4 DEF Types
  <2>3. todo' \in Seq(Accesses)
    BY <1>1, HeadAccess
  <2> QED  BY <1>1, <2>1, <2>2, <2>3, SwTicksAssumption DEF Types
<1>5. ResetOver'
  BY <1>1, SwTicksAssumption DEF ResetOver
<1>6. CASE ~ready
  <2>1. PICK k \in 0 .. 10 : /\ Done(k, IO_init) /\ (k >= 3 => pio.r = 1)
                             /\ (k >= 4 => pio.w = 1) /\ (k = 10 => pio.cs = 1)
    BY <1>6 DEF Progress, InInit
  <2>2. Done(k + 1, IO_init)' /\ Head(todo) = IO_init[k + 1] /\ k \in 0 .. 9
    BY <1>1, <2>1, InitStep
  <2>3. InInit'
    BY <1>3, <2>1, <2>2, InitAccess DEF InInit, p, v
  <2>4. p = "data" => v \in port!Words
    BY <2>2, InitAccess, NWordsAssumption DEF p, v, port!Words
  <2> QED  BY <1>1, <1>2, <1>4, <1>5, <1>6, <2>3, <2>4 DEF Progress
<1>7. CASE ready /\ InWrite
  <2>1. PICK k \in 0 .. 6 : WriteAt(k)
    BY <1>7 DEF InWrite
  <2>2. call \in port!Calls /\ call.op = "write"
    BY <1>7 DEF InWrite
  <2>3. /\ Done(k + 1, IO_write(call.reg, call.data))' /\ k \in 0 .. 5
        /\ Head(todo) = IO_write(call.reg, call.data)[k + 1]
    BY <1>1, <2>1, <2>2, CallTypes, WriteStep DEF WriteAt
  <2>4. AtWrite(k + 1, pio.r, pio.w, pio.cs, pio.address, pio.data)'
    <3>1. /\ k = 0 => p = "address" /\ v = call.reg
          /\ k = 1 => p = "cs" /\ v = 0
          /\ k = 2 => p = "w" /\ v = 0
          /\ k = 3 => p = "data" /\ v = call.data
          /\ k = 4 => p = "w" /\ v = 1
          /\ k = 5 => p = "cs" /\ v = 1
      BY <2>2, <2>3, CallTypes, WriteAccess DEF p, v
    <3>2. AtWrite(k, pio.r, pio.w, pio.cs, pio.address, pio.data)
      BY <2>1 DEF WriteAt
    <3> QED  BY <1>1, <1>3, <2>3, <3>1, <3>2 DEF AtWrite
  <2>5. Behind(k) = k /\ Behind(k + 1)' = k /\ age >= 1
    BY <1>1, SwTicksAssumption DEF Behind
  <2>6. AtWrite(k, otg.RD_N, otg.WR_N, otg.CS_N, otg.ADDR, otg.buffer)'
    BY <1>1, <2>1, <2>5 DEF WriteAt, AtWrite
  <2>7. Holds /\ k + 1 = 5 => bus' = call'.data
    BY <1>1, <2>1, <2>4, <2>5 DEF WriteAt, AtWrite, Level, FpgaDrives, ChipDrives
  <2>8. WriteAt(k + 1)'
    BY <1>1, <2>1, <2>3, <2>4, <2>5, <2>6, <2>7 DEF WriteAt
  <2>9. p = "data" => v \in port!Words
    BY <2>2, <2>3, CallTypes, WriteAccess DEF p, v
  <2>10. InWrite'
    BY <1>1, <2>2, <2>3, <2>8 DEF InWrite
  <2>11. Progress'
    BY <1>1, <1>7, <2>2, <2>10, NoCallAssumption DEF Progress
  <2> QED  BY <1>2, <1>4, <1>5, <2>9, <2>11
<1>8. CASE ready /\ InRead
  <2>1. PICK k \in 0 .. 6 : ReadAt(k)
    BY <1>8 DEF InRead
  <2>2. call \in port!Calls /\ call.op = "read"
    BY <1>8 DEF InRead
  <2>3. /\ Done(k + 1, IO_read(call.reg))' /\ k \in 0 .. 5
        /\ Head(todo) = IO_read(call.reg)[k + 1]
    BY <1>1, <2>1, <2>2, CallTypes, ReadStep DEF ReadAt
  <2>4. k # 3
    BY <1>1, <2>2, <2>3, CallTypes, ReadAccess
  <2>5. AtRead(k + 1, pio.r, pio.w, pio.cs, pio.address)' /\ p # "data"
    <3>1. /\ k = 0 => p = "address" /\ v = call.reg
          /\ k = 1 => p = "r" /\ v = 0
          /\ k = 2 => p = "cs" /\ v = 0
          /\ k = 4 => p = "r" /\ v = 1
          /\ k = 5 => p = "cs" /\ v = 1
      BY <2>2, <2>3, CallTypes, ReadAccess DEF p, v
    <3>2. AtRead(k, pio.r, pio.w, pio.cs, pio.address)
      BY <2>1 DEF ReadAt
    <3> QED  BY <1>1, <1>3, <2>3, <2>4, <3>1, <3>2 DEF AtRead
  <2>6. Behind(k) = k /\ Behind(k + 1)' = k /\ age >= 1
    BY <1>1, SwTicksAssumption DEF Behind
  <2>7. AtRead(k, otg.RD_N, otg.WR_N, otg.CS_N, otg.ADDR)'
    BY <1>1, <2>1, <2>6 DEF ReadAt, AtRead
  <2>8. ReadAt(k + 1)'
    BY <1>1, <2>1, <2>3, <2>4, <2>5, <2>6, <2>7 DEF ReadAt
  <2>9. InRead'
    BY <1>1, <2>2, <2>3, <2>8 DEF InRead
  <2>10. Progress'
    BY <1>1, <1>8, <2>2, <2>9, NoCallAssumption DEF Progress
  <2> QED  BY <1>2, <1>4, <1>5, <2>5, <2>10
<1>9. ready /\ call = NoCall => FALSE
  BY <1>1 DEF Progress, Between
<1> QED  BY <1>6, <1>7, <1>8, <1>9 DEF Progress

LEMMA LoadKeeps == ASSUME BusInv, LoadTemp PROVE BusInv' /\ PortStep
<1> USE DEF BusInv
<1>1. /\ todo' = Tail(todo) /\ todo # << >> /\ Head(todo) = Load
      /\ age = SwTicks /\ age' = 0 /\ temp' = data_in
      /\ UNCHANGED <<KEY0, Reset_h, call, ready, pio, otg, data_in, bus, chip, served>>
  BY DEF LoadTemp
<1>2. Types' /\ ResetOver'
  BY <1>1, HeadAccess, SwTicksAssumption DEF Types, ResetOver
<1>3. ~InInit
  <2> SUFFICES ASSUME NEW k \in 0 .. 10, Done(k, IO_init) PROVE FALSE
    BY DEF InInit
  <2>1. Head(todo) = IO_init[k + 1] /\ k \in 0 .. 9
    BY <1>1, InitStep
  <2> QED  BY <1>1, <2>1, InitAccess
<1>4. ~InWrite
  <2> SUFFICES ASSUME NEW k \in 0 .. 6, WriteAt(k), call \in port!Calls, call.op = "write"
               PROVE  FALSE
    BY DEF InWrite
  <2>1. Head(todo) = IO_write(call.reg, call.data)[k + 1] /\ k \in 0 .. 5
    BY <1>1, CallTypes, WriteStep DEF WriteAt
  <2> QED  BY <1>1, <2>1, CallTypes, WriteAccess
<1>5. ready /\ InRead /\ call # NoCall
  BY <1>1, <1>3, <1>4 DEF Progress, Between
<1>6. PICK k \in 0 .. 6 : ReadAt(k)
  BY <1>5 DEF InRead
<1>7. call \in port!Calls /\ call.op = "read"
  BY <1>5 DEF InRead
<1>8. /\ Done(k + 1, IO_read(call.reg))' /\ k \in 0 .. 5
      /\ Head(todo) = IO_read(call.reg)[k + 1]
  BY <1>1, <1>6, <1>7, CallTypes, ReadStep DEF ReadAt
<1>9. k = 3
  BY <1>1, <1>7, <1>8, CallTypes, ReadAccess
<1>10. Behind(3) = 3 /\ Behind(4)' = 3 /\ age >= 2
  BY <1>1, SwTicksAssumption DEF Behind
<1>11. temp' = port!ReadValue(chip, call.reg) /\ served = 0
  BY <1>1, <1>6, <1>9, <1>10 DEF ReadAt
<1>12. ReadAt(4)'
  BY <1>1, <1>6, <1>8, <1>9, <1>10, <1>11 DEF ReadAt, AtRead
<1>13. Progress'
  BY <1>1, <1>5, <1>7, <1>12 DEF Progress, InRead
<1>14. port!Load
  BY <1>1, <1>5, <1>7, <1>11 DEF port!Load
<1> QED  BY <1>2, <1>13, <1>14 DEF PortStep, port!Next

LEMMA ReturnKeeps == ASSUME BusInv, Return PROVE BusInv' /\ PortStep
<1> USE DEF BusInv
<1>1. /\ todo = << >> /\ ready' = TRUE /\ call' = NoCall /\ age = SwTicks
      /\ KEY0 = 1 /\ (~ready \/ call # NoCall) /\ served' = 0
      /\ UNCHANGED <<KEY0, Reset_h, todo, temp, age, pio, otg, data_in, bus, chip>>
  BY DEF Return
<1>2. Types'
  BY <1>1 DEF Types
<1>3. otg = Registered(pio) /\ ResetOver'
  BY <1>1, SwTicksAssumption DEF ResetOver, Registered
<1>4. CASE ~ready
  <2>1. PICK k \in 0 .. 10 : /\ Done(k, IO_init) /\ (k >= 3 => pio.r = 1)
                             /\ (k >= 4 => pio.w = 1) /\ (k = 10 => pio.cs = 1)
    BY <1>4 DEF Progress, InInit
  <2>2. k = 10
    BY <1>1, <2>1, Codes DEF Done
  <2>3. Progress'
    BY <1>1, <1>3, <2>1, <2>2, SwTicksAssumption DEF Progress, Between, Registered
  <2>4. port!Start
    BY <1>1, <1>4 DEF port!Start, Progress, Types
  <2> QED  BY <1>2, <1>3, <2>3, <2>4 DEF PortStep, port!Next
<1>5. CASE ready
  <2>1. /\ pio.r = 1 /\ pio.w = 1 /\ pio.cs = 1 /\ served = 1
    <3>1. CASE InWrite
      <4>1. PICK k \in 0 .. 6 : WriteAt(k)
        BY <3>1 DEF InWrite
      <4>2. Len(IO_write(call.reg, call.data)) = 6
        BY <3>1, CallTypes, Codes DEF InWrite
      <4>3. k = 6 /\ Behind(k) = 6
        BY <1>1, <4>1, <4>2, SwTicksAssumption DEF WriteAt, Done, Behind
      <4> QED  BY <4>1, <4>3 DEF WriteAt, AtWrite
    <3>2. CASE InRead
      <4>1. PICK k \in 0 .. 6 : ReadAt(k)
        BY <3>2 DEF InRead
      <4>2. Len(IO_read(call.reg)) = 6
        BY <3>2, CallTypes, Codes DEF InRead
      <4>3. k = 6 /\ Behind(k) = 6
        BY <1>1, <4>1, <4>2, SwTicksAssumption DEF ReadAt, Done, Behind
      <4> QED  BY <4>1, <4>3 DEF ReadAt, AtRead
    <3> QED  BY <1>1, <1>5, <3>1, <3>2 DEF Progress
  <2>2. Progress'
    BY <1>1, <1>3, <2>1, SwTicksAssumption DEF Progress, Between, Registered
  <2>3. port!Return
    BY <1>1, <1>5, <2>1 DEF port!Return
  <2> QED  BY <1>2, <1>3, <2>2, <2>3 DEF PortStep, port!Next
<1> QED  BY <1>4, <1>5

LEMMA EnterKeeps == ASSUME BusInv, NEW c \in port!Calls, Enter(c) PROVE BusInv' /\ PortStep
<1> USE DEF BusInv
<1>1. /\ ready /\ call = NoCall /\ call' = c /\ c # NoCall /\ todo' = Code(c)
      /\ UNCHANGED <<KEY0, Reset_h, ready, temp, age, pio, otg, data_in, bus, chip, served>>
  BY NoCallAssumption DEF Enter
<1>2. Between /\ Behind(0)' = 0
  BY <1>1 DEF Progress, Between, Behind
<1>3. c.op = "write" => InWrite'
  <2> SUFFICES ASSUME c.op = "write" PROVE InWrite'
    OBVIOUS
  <2>1. Code(c) = IO_write(c.reg, c.data) /\ Len(Code(c)) = 6
    BY CallTypes, Codes DEF Code
  <2>2. Done(0, IO_write(call.reg, call.data))'
    BY <1>1, <2>1 DEF Done
  <2>3. WriteAt(0)'
    BY <1>1, <1>2, <2>2 DEF WriteAt, AtWrite, Between
  <2> QED  BY <1>1, <2>3 DEF InWrite
<1>4. c.op = "read" => InRead'
  <2> SUFFICES ASSUME c.op = "read" PROVE InRead'
    OBVIOUS
  <2>1. Code(c) = IO_read(c.reg) /\ Len(Code(c)) = 6
    BY CallTypes, Codes DEF Code
  <2>2. Done(0, IO_read(call.reg))'
    BY <1>1, <2>1 DEF Done
  <2>3. ReadAt(0)'
    BY <1>1, <1>2, <2>2 DEF ReadAt, AtRead, Between
  <2> QED  BY <1>1, <2>3 DEF InRead
<1>5. Progress'
  BY <1>1, <1>3, <1>4, CallTypes DEF Progress
<1>6. Code(c) \in Seq(Accesses)
  BY CallTypes, Codes DEF Code
<1>7. Types' /\ ResetOver'
  BY <1>1, <1>6 DEF Types, ResetOver
<1>8. port!Call(c)
  BY <1>1, <1>2 DEF port!Call, Between
<1> QED  BY <1>5, <1>7, <1>8 DEF PortStep, port!Next

LEMMA PushKeeps == ASSUME BusInv, Push PROVE BusInv' /\ PortStep
<1> USE DEF BusInv
<1>1. /\ KEY0' = 0 /\ call' = NoCall /\ todo' = IO_init /\ ready' = FALSE /\ age' = 0
      /\ pio' = ResetPio /\ bus' = Level(pio', otg, chip, bus) /\ served' = 0
      /\ UNCHANGED <<Reset_h, temp, otg, data_in, chip>>
  BY DEF Push
<1>2. ResetPio \in [Ports -> Nat] /\ ResetPio.data \in port!Words
  BY NWordsAssumption DEF ResetPio, Ports, port!Words
<1>3. IO_init \in Seq(Accesses) /\ Done(0, IO_init)'
  BY <1>1, Codes DEF Done
<1>4. bus' \in port!Words
  BY <1>1, LevelType DEF Types
<1>5. Types'
  BY <1>1, <1>2, <1>3, <1>4, SwTicksAssumption DEF Types
<1>6. Progress' /\ ResetOver'
  BY <1>1, <1>3 DEF Progress, InInit, ResetOver
<1>7. port!Reset
  BY <1>1 DEF port!Reset
<1> QED  BY <1>5, <1>6, <1>7 DEF PortStep, port!Next

LEMMA ReleaseKeeps == ASSUME BusInv, Release \/ UNCHANGED vars
                      PROVE  BusInv' /\ UNCHANGED port!vars
<1>1. /\ UNCHANGED <<Reset_h, call, todo, ready, temp, age, pio, otg, data_in, bus, chip, served>>
      /\ KEY0' \in {KEY0, 1}
  BY DEF Release, vars
<1>2. Types' /\ ResetOver' /\ UNCHANGED port!vars
  BY <1>1 DEF BusInv, Types, ResetOver, port!vars
<1>3. \A k, code : Done(k, code) => Done(k, code)'
  BY <1>1 DEF Done
<1>4. InInit => InInit'
  BY <1>1, <1>3 DEF InInit
<1>5. InWrite => InWrite'
  <2>1. \A k : WriteAt(k) => WriteAt(k)'
    BY <1>1, <1>3 DEF WriteAt, AtWrite, Behind
  <2> QED  BY <1>1, <2>1 DEF InWrite
<1>6. InRead => InRead'
  <2>1. \A k : ReadAt(k) => ReadAt(k)'
    BY <1>1, <1>3 DEF ReadAt, AtRead, Behind
  <2> QED  BY <1>1, <2>1 DEF InRead
<1>7. Progress'
  BY <1>1, <1>4, <1>5, <1>6 DEF BusInv, Progress, Between
<1> QED  BY <1>2, <1>7 DEF BusInv

LEMMA ReadyType == ASSUME ready \in BOOLEAN, [Next]_vars PROVE ready' \in BOOLEAN
<1>1. UNCHANGED ready \/ ready' = TRUE \/ ready' = FALSE
  BY Zenon DEF Next, Enter, LoadTemp, Store, Return, Clock, Push, Release, vars
<1> QED  BY <1>1, Zenon

\* The edges of the strobes: the fifth access of a call has ended its strobe.
LEMMA WriteClock ==
    ASSUME BusInv, Clock, ready, NEW k \in 0 .. 6, WriteAt(k), call \in port!Calls,
           call.op = "write", Reset_h = 0, age' \in {age, age + 1}, age' >= 1
    PROVE  /\ WriteAt(k)'
           /\ \/ chip' = chip /\ served' = served
              \/ /\ Holds => chip' = port!Written(chip, call.reg, call.data)
                 /\ served = 0 /\ served' = 1
<1>1. /\ otg' = Registered(pio) /\ \E f \in port!Words : bus' = Level(pio, otg', chip', f)
      /\ otg'.RST_N = 1
      /\ UNCHANGED <<call, todo, pio>>
  BY DEF Clock, Registered
<1>2. AtWrite(k, otg.RD_N, otg.WR_N, otg.CS_N, otg.ADDR, otg.buffer)'
  BY <1>1 DEF WriteAt, AtWrite, Registered
<1>3. age \in Nat /\ Behind(k)' = k /\ Behind(k) \in {k - 1, k} /\ (Behind(k) = k - 1 => age = 0 /\ k >= 1)
  BY SwTicksAssumption DEF BusInv, Types, Behind, WriteAt
<1>4. k = 4 => bus' = call.data
  BY <1>1, <1>2 DEF Level, FpgaDrives, WriteAt, AtWrite
<1>5. /\ WriteStrobe(otg) <=> Behind(k) \in {3, 4}
      /\ WriteStrobe(otg)' <=> k \in {3, 4}
      /\ ~ReadStrobe(otg)
  BY <1>2, <1>3 DEF WriteAt, AtWrite, WriteStrobe, ReadStrobe
<1>6. CASE Behind(k) = 4 /\ k = 5
  <2>1. (Holds => bus = call.data) /\ otg.ADDR = call.reg /\ served = 0
    BY <1>3, <1>6 DEF WriteAt, AtWrite
  <2>2. (Holds => chip' = port!Written(chip, call.reg, call.data)) /\ served' = 1
    BY <1>1, <1>5, <1>6, <2>1, NoCallAssumption DEF Clock, WriteStrobe
  <2> QED  BY <1>1, <1>2, <1>3, <1>4, <1>6, <2>1, <2>2 DEF WriteAt, AtWrite, Done
<1>7. CASE ~(Behind(k) = 4 /\ k = 5)
  <2>1. chip' = chip /\ served' = served
    BY <1>1, <1>3, <1>5, <1>7 DEF Clock, WriteStrobe
  <2>2. served' = IF k >= 5 THEN 1 ELSE 0
    BY <1>3, <1>7, <2>1 DEF WriteAt
  <2> QED  BY <1>1, <1>2, <1>3, <1>4, <2>1, <2>2 DEF WriteAt, AtWrite, Done
<1> QED  BY <1>6, <1>7

LEMMA ReadClock ==
    ASSUME BusInv, Clock, ready, NEW k \in 0 .. 6, ReadAt(k), call \in port!Calls,
           call.op = "read", Reset_h = 0, age' \in {age, age + 1}, age' >= 1
    PROVE  /\ ReadAt(k)'
           /\ \/ chip' = chip /\ served' = served
              \/ /\ chip' = port!AfterRead(chip, call.reg)
                 /\ temp = port!ReadValue(chip, call.reg)
                 /\ served = 0 /\ served' = 1
<1>1. /\ otg' = Registered(pio) /\ data_in' = bus
      /\ \E f \in port!Words : bus' = Level(pio, otg', chip', f)
      /\ otg'.RST_N = 1
      /\ UNCHANGED <<call, todo, pio, temp>>
  BY DEF Clock, Registered
<1>2. AtRead(k, otg.RD_N, otg.WR_N, otg.CS_N, otg.ADDR)'
  BY <1>1 DEF ReadAt, AtRead, Registered
<1>3. age \in Nat /\ Behind(k)' = k /\ Behind(k) \in {k - 1, k} /\ (Behind(k) = k - 1 => age = 0 /\ k >= 1)
  BY SwTicksAssumption DEF BusInv, Types, Behind, ReadAt
<1>4. k = 3 => bus' = port!ReadValue(chip', call.reg)
  BY <1>1, <1>2 DEF Level, FpgaDrives, ChipDrives, ReadAt, AtRead
<1>5. /\ ReadStrobe(otg) <=> Behind(k) \in {3, 4}
      /\ ReadStrobe(otg)' <=> k \in {3, 4}
      /\ ~WriteStrobe(otg)
  BY <1>2, <1>3 DEF ReadAt, AtRead, WriteStrobe, ReadStrobe
<1>6. CASE Behind(k) = 4 /\ k = 5
  <2>1. temp = port!ReadValue(chip, call.reg) /\ otg.ADDR = call.reg /\ served = 0
    BY <1>3, <1>6 DEF ReadAt, AtRead
  <2>2. chip' = port!AfterRead(chip, call.reg) /\ served' = 1
    BY <1>1, <1>5, <1>6, <2>1, NoCallAssumption DEF Clock, ReadStrobe
  <2>3. Done(k, IO_read(call.reg))'
    BY <1>1 DEF ReadAt, Done
  <2>4. AtRead(k, pio.r, pio.w, pio.cs, pio.address)'
    BY <1>1 DEF ReadAt, AtRead
  <2>5. ReadAt(k)'
    BY <1>2, <1>3, <1>6, <2>2, <2>3, <2>4 DEF ReadAt
  <2> QED  BY <2>1, <2>2, <2>5
<1>7. CASE ~(Behind(k) = 4 /\ k = 5)
  <2>1. chip' = chip /\ served' = served
    BY <1>1, <1>3, <1>5, <1>7 DEF Clock, ReadStrobe
  <2>2. served' = IF k >= 5 THEN 1 ELSE 0
    BY <1>3, <1>7, <2>1 DEF ReadAt
  <2>3. k = 3 /\ age' >= 2 => data_in' = port!ReadValue(chip, call.reg)
    BY <1>1, <1>3 DEF ReadAt
  <2>4. Done(k, IO_read(call.reg))'
    BY <1>1 DEF ReadAt, Done
  <2>5. AtRead(k, pio.r, pio.w, pio.cs, pio.address)'
    BY <1>1 DEF ReadAt, AtRead
  <2>6. k >= 4 /\ k < 5 => temp' = port!ReadValue(chip, call.reg)
    BY <1>1, <1>3 DEF ReadAt
  <2>7. ReadAt(k)'
    BY <1>1, <1>2, <1>3, <1>4, <2>1, <2>2, <2>3, <2>4, <2>5, <2>6 DEF ReadAt
  <2> QED  BY <2>1, <2>7
<1> QED  BY <1>6, <1>7

LEMMA ClockKeeps == ASSUME BusInv, ready \in BOOLEAN, Clock
                    PROVE  BusInv' /\ (Holds => PortStep)
<1> USE DEF BusInv
<1>1. /\ Reset_h' = 1 - KEY0
      /\ age' = IF KEY0 = 1 /\ age < SwTicks THEN age + 1 ELSE age
      /\ otg' = IF Reset_h = 1 THEN ResetPins ELSE Registered(pio)
      /\ \E f \in port!Words : bus' = Level(pio, otg', chip', f)
      /\ UNCHANGED <<KEY0, call, todo, ready, temp, pio>>
  BY DEF Clock
<1>2. chip' \in port!Chips
  BY ChipTypes DEF Clock, Types
<1>3. otg'.buffer \in port!Words
  BY <1>1, NWordsAssumption DEF Types, Registered, ResetPins, port!Words
<1>4. Types'
  <2>1. bus' \in port!Words
    BY <1>1, <1>2, <1>3, LevelType DEF Types
  <2> QED  BY <1>1, <1>2, <1>3, <2>1, SwTicksAssumption DEF Types
<1>5. ResetOver'
  BY <1>1, SwTicksAssumption DEF Types, ResetOver, Registered
<1>6. CASE ~ready
  <2>1. call = NoCall /\ served = 0 /\ InInit
    BY <1>6 DEF Progress
  <2>2. served' = served
    BY <2>1 DEF Clock
  <2>3. Progress'
    BY <1>1, <1>6, <2>1, <2>2 DEF Progress, InInit, Done
  <2>4. port!Start
    BY <1>1, <1>2, <1>6, <2>2 DEF port!Start
  <2> QED  BY <1>4, <1>5, <2>3, <2>4 DEF PortStep, port!Next
<1>7. CASE ready
  <2>1. /\ Reset_h = 0 /\ KEY0 = 1 /\ age' \in {age, age + 1} /\ age' >= 1
        /\ otg' = Registered(pio) /\ otg'.RST_N = 1
    BY <1>1, <1>7, SwTicksAssumption DEF Types, ResetOver, Registered
  <2>2. CASE call = NoCall
    <3>1. Between
      BY <1>7, <2>2 DEF Progress
    <3>2. chip' = chip /\ served' = served
      BY <2>1, <3>1 DEF Clock, Between, WriteStrobe, ReadStrobe
    <3>3. Between'
      BY <1>1, <2>1, <3>1, <3>2 DEF Between, Registered
    <3>4. Progress'
      BY <1>1, <1>7, <2>2, <3>3 DEF Progress
    <3>5. UNCHANGED port!vars
      BY <1>1, <3>2 DEF port!vars
    <3> QED  BY <1>4, <1>5, <3>4, <3>5 DEF PortStep
  <2>3. CASE call # NoCall /\ InWrite
    <3>1. PICK k \in 0 .. 6 : WriteAt(k)
      BY <2>3 DEF InWrite
    <3>2. call \in port!Calls /\ call.op = "write"
      BY <2>3 DEF InWrite
    <3>3. /\ WriteAt(k)'
          /\ \/ chip' = chip /\ served' = served
             \/ /\ Holds => chip' = port!Written(chip, call.reg, call.data)
                /\ served = 0 /\ served' = 1
      BY <1>7, <2>1, <3>1, <3>2, WriteClock
    <3>4. InWrite'
      BY <1>1, <3>2, <3>3 DEF InWrite
    <3>5. Progress'
      BY <1>1, <1>7, <2>3, <3>4 DEF Progress
    <3>6. CASE chip' = chip /\ served' = served
      BY <1>1, <1>4, <1>5, <3>5, <3>6 DEF PortStep, port!vars
    <3>7. CASE /\ Holds => chip' = port!Written(chip, call.reg, call.data)
               /\ served = 0 /\ served' = 1
      <4>1. Holds => port!ApplyWrite
        BY <1>1, <2>3, <3>2, <3>7 DEF port!ApplyWrite
      <4> QED  BY <1>4, <1>5, <3>5, <4>1 DEF PortStep, port!Next
    <3> QED  BY <3>3, <3>6, <3>7
  <2>4. CASE call # NoCall /\ InRead
    <3>1. PICK k \in 0 .. 6 : ReadAt(k)
      BY <2>4 DEF InRead
    <3>2. call \in port!Calls /\ call.op = "read"
      BY <2>4 DEF InRead
    <3>3. /\ ReadAt(k)'
          /\ \/ chip' = chip /\ served' = served
             \/ /\ chip' = port!AfterRead(chip, call.reg)
                /\ temp = port!ReadValue(chip, call.reg)
                /\ served = 0 /\ served' = 1
      BY <1>7, <2>1, <3>1, <3>2, ReadClock
    <3>4. InRead'
      BY <1>1, <3>2, <3>3 DEF InRead
    <3>5. Progress'
      BY <1>1, <1>7, <2>4, <3>4 DEF Progress
    <3>6. CASE chip' = chip /\ served' = served
      BY <1>1, <1>4, <1>5, <3>5, <3>6 DEF PortStep, port!vars
    <3>7. CASE /\ chip' = port!AfterRead(chip, call.reg)
               /\ temp = port!ReadValue(chip, call.reg)
               /\ served = 0 /\ served' = 1
      <4>1. port!ApplyRead
        BY <1>1, <2>4, <3>2, <3>7 DEF port!ApplyRead
      <4> QED  BY <1>4, <1>5, <3>5, <4>1 DEF PortStep, port!Next
    <3> QED  BY <3>3, <3>6, <3>7
  <2> QED  BY <1>7, <2>2, <2>3, <2>4 DEF Progress
<1> QED  BY <1>6, <1>7

-----------------------------------------------------------------------------
(* The theorems *)

LEMMA BusNext ==
    ASSUME BusInv /\ ready \in BOOLEAN, [Next]_vars
    PROVE  (BusInv /\ ready \in BOOLEAN)' /\ (Holds => PortStep)
<1>1. BusInv' /\ (Holds => PortStep)
  BY StoreKeeps, LoadKeeps, ReturnKeeps, EnterKeeps, PushKeeps, ClockKeeps, ReleaseKeeps
     DEF Next, PortStep
<1>2. ready' \in BOOLEAN
  BY ReadyType
<1> QED  BY <1>1, <1>2

LEMMA BusInvariant == Spec => [](BusInv /\ ready \in BOOLEAN)
<1>1. Init => BusInv /\ ready \in BOOLEAN
  <2>1. Init => ready \in BOOLEAN
    BY Zenon DEF Init
  <2> QED  BY <2>1, BusInit
<1>2. BusInv /\ ready \in BOOLEAN /\ [Next]_vars => (BusInv /\ ready \in BOOLEAN)'
  BY BusNext
<1> QED  BY <1>1, <1>2, PTL DEF Spec

\* For every size of a word, and for every processor that leaves two clocks
\* between its accesses: once IO_init has returned, hpi_io_intf and the chip
\* never drive the data pins against each other.
THEOREM PinsCorrect == Spec => []NoContention
<1>1. BusInv => NoContention
  <2> SUFFICES ASSUME BusInv, ready, pio.w = 0 PROVE otg.RD_N = 1
    BY DEF NoContention, FpgaDrives, ChipDrives
  <2>1. call # NoCall /\ InWrite
    BY DEF BusInv, Progress, Between, InRead, ReadAt, AtRead
  <2> QED  BY <2>1 DEF InWrite, WriteAt, AtWrite
<1> QED  BY <1>1, BusInvariant, PTL

\* For the same constants, if the data pins hold their level for the clock
\* between the end of the port's write strobe and that of the pin: IO_init,
\* IO_write and IO_read, store by store through the registered pins, with the
\* hardware reset at any clock, implement a port at which each call takes
\* place once and as a whole.
THEOREM BusImplementsPort == ASSUME Holds PROVE Spec => ImplementsPort
<1>1. Init => port!Init
  BY BusInit
<1>2. BusInv /\ ready \in BOOLEAN /\ [Next]_vars => [port!Next]_(port!vars)
  BY BusNext, Holds DEF PortStep
<1> QED  BY <1>1, <1>2, BusInvariant, PTL DEF Spec, ImplementsPort, port!Spec
====
