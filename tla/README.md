# A maze game in hardware: TLA+ models, checks and proofs

The repository is a Pac-Man like game for a DE2-115 board: a player walks a
maze of 12 x 12 tiles and eats coins, four ghosts chase it, a USB keyboard
steers it and a VGA screen shows it.  The game is SystemVerilog (`*.sv`); the
keyboard driver is C on a NIOS II processor (`software/usb_kb/*.c`), which
talks to a USB host chip through an interface in the FPGA (`hpi_io_intf.sv`)
and runs on a small run-time system (`software/usb_kb_bsp/`: the HAL and the
JTAG UART driver).  This directory holds TLA+ models of these, the TLC runs
that check them and the TLAPS proofs about them.

## 1. The system

| part | source | state | operations | talks to |
|---|---|---|---|---|
| board | `boundaryBank.sv`, `wallVerifiers.sv` | none (tables, combinational) | which of the four turns are open on a tile, the walls being those of the level or all of them | read by player and ghosts; told by the game state machine whether the walls are closed |
| player | `playerMovement.sv` | position, inertia (and the last turn, for the sprite) | one pixel per edge of `clkDivide`; asynchronous reset | reads keycode and open turns; read by coins, ghosts, colour mapper |
| ghosts (4) | `ghostMovement.sv` | position, inertia, index into the random input | one pixel per edge of `clkGhost`; asynchronous reset; contact test (combinational) | read the player's position, random bits and open turns; report contact |
| coins (144) | `coinBank.sv` | visible or not | eaten when the player stands on the tile (50 MHz clock); asynchronous reset | read the player; report whether any is left |
| game state machine | `gameState.sv` | NEWGAME, LEVEL1, BEAT1 and the registered reset | one tick of the 50 MHz clock | reads keycode, contact, coins left; resets player, ghosts and coins; closes the walls |
| clock dividers | `lab8.sv:79-107` | two counters, two clocks | one tick of the 50 MHz clock; asynchronous reset | clock player and ghosts |
| VGA controller | `VGA_controller.sv` | two counters, three registered signals | one pixel; synchronous reset | gives the colour mapper its coordinates |
| HPI interface | `hpi_io_intf.sv`, `io_handler.c` | six parallel ports, registered pins, the level of the data bus | `IO_init`, `IO_write`, `IO_read`; a clock edge; the push button | software to USB chip |
| USB keyboard driver | `main.c`, `usb.c` | the step it is at, hot plug count, keycode register | soft reset, ten TD lists, waiting, polling, hot plug | chip memory, message register, mailbox; writes the game's keycode |
| JTAG UART driver | `drivers/src/altera_avalon_jtag_uart_*.c` | two ring buffers, interrupt enables, timeout of the host | read, write, close, ioctl; interrupt; alarm | `printf` of the driver; the host |
| file descriptors | `HAL/src/alt_open.c` ... | `alt_fd_list`, `alt_max_fd` | open, close, lock, unlock, fcntl, redirection of the standard streams | call the devices' drivers |
| alarms | `alt_tick.c`, `alt_alarm_start.c`, `alt_llist.h` | tick counter, list of alarms | tick, start, stop, callbacks | JTAG UART driver |
| interrupts | `alt_irq_handler.c`, `alt_iic_isr_register.c`, `alt_*_entry.S` | table of handlers, masks, the processor's PIE | registration, exception entry, dispatch, return | drivers |
| colour mapper, sprites, seven segments, PLL, NIOS system | | none, or generated | - | - |

What is hard about it:

- **Three clocks and no synchronisers.**  State machine and coins run on
  50 MHz, player and ghosts on two clocks divided from it with different
  periods.  Each reads registers of the others, and the push button's reset
  goes to all of them asynchronously.
- **A collision is an equality.**  A ghost has the player when their distance
  is exactly 16 pixels (`ghostMovement.sv:51`).  Both move one pixel at a
  time, so the distance cannot jump over 16 - unless both move at once.
- **The walls change under moving pieces**, and everything can happen in one
  tick: the last coin, a collision, Enter.
- **A bus whose pins change at different clocks.**  The write strobe opens the
  data pins at once, address and strobes reach the chip a clock later
  (`hpi_io_intf.sv:43`), and at the end of a write the interface lets go of
  the data before the chip takes it.
- **The driver overwrites a list the chip is walking.**  As long as there is
  no message it writes the same TD list again, word by word, and restarts the
  chip (`main.c:188-192`); lists, buffers and the key share one piece of memory.
- **Interrupts** in the middle of reads, writes and registrations; counters
  that wrap; callbacks that change the list being walked.

The hazards are listed, line by line, under "hazards" in `PROJECT.json`.

## 2. The modules

| module | models | uses |
|---|---|---|
| `Maze` | tiles, pixels, open turns; constants for board and tile size | |
| `BoundaryBank` | the real tables, word by word | |
| `PlayerMovement`, `GhostMovement`, `CoinBank` | the player; the ghosts and the contact test; the coins | `Maze` |
| `GameState` | the state machine | |
| `Lab8` | the game: the four above, any timing of the divided clocks | all of them |
| `ClockDivider` | the two dividers | |
| `Lab8Timed` | the game with the timing its dividers give it; implements `Lab8` | `Lab8`, `ClockDivider` |
| `VgaController` | the VGA controller | |
| `HpiPort` | abstract: the chip's registers, each call applied once and as a whole | |
| `HpiBus` | stores, ports, pins, bus and chip; implements `HpiPort` | `HpiPort` |
| `TdLists` | the ten TD lists, their places and buffers | |
| `UsbDriver` | driver, host chip, keyboard and user | `TdLists` |
| `JtagChannel` | abstract: two bounded queues of bytes | |
| `JtagUart` | the JTAG UART driver, its device and the host; implements `JtagChannel` | `JtagChannel` |
| `FileTable` | file descriptors | |
| `Timers` | abstract: alarms that count down | |
| `SystemClock` | tick counter and alarm list; implements `Timers` | `Timers` |
| `Interrupts` | registration, entry, dispatch, return | |
| `MC...` | boards and constants for TLC; components that share nothing side by side | |
| `..._proofs` | theorems and lemmas | the modules they are about |

### The game

`Lab8` composes by conjunction.  A step is one tick of the 50 MHz clock:
`ClkRegisters` (button, state machine, coins) and, if a divided clock rises in
that tick, a step of the player (`PlayerTick`), of the ghosts (`GhostTick`) or
of both (`BothTick`).  `Lab8` lets any tick raise any clock, so what holds of
it holds of all divider limits; `Lab8Timed` raises exactly what the counters
raise and shows what the limits change.

- *Sampling between clocks.*  Registers on the 50 MHz clock take the values of
  before the tick.  A divided clock rises a little after the tick that makes
  it, so what changes in that tick (the walls; the player, for a ghost; a
  reset that ends) is seen before or after the change: a choice of the model
  (`PlayerClocked`, `GhostsClocked`).  One piece makes one choice; single bits
  of one register seeing different values are outside of the model.
- *Reset.*  `gameReset` is asynchronous: whatever is raised in a tick has
  acted by its end.  In the tick in which it ends it may or may not be too
  late for an edge of a divided clock.  `Init` is the state the push button
  leads to; what the registers hold when the device powers up is not settled
  by the sources.
- *Inertia.*  The register pairs hold five values only; the models name them
  ("none", "left", ...).  Coordinates keep their ten bits.
- *Tile size.*  `TILE` is 32 and `lenContact` 16 in the code.  Both are
  constants, so that boards of tiles of 2 to 4 pixels can be checked in full
  and the proofs cover all sizes.
- *Random bits.*  `rand()` rewrites the ghosts' input all the time; the two
  bits a ghost looks at are arbitrary at every step, and the index
  `generationCount` is left out.
- *Left out of the player*: `posXTurnPrev`, `posYTurnPrev`, `playerDir` (the
  direction of the sprite).
- *Board check.*  `coinBank.sv:89` tests an unpacked array as a whole; the
  model takes it as "some row has a coin", which is what the game shows.
- *Coins* of tiles the level has no coin on are left out: the level's table
  masks their output whatever their state.

### The bus

`HpiBus` steps are a store or load of the software (`Store`, `LoadTemp`), a
rising clock edge (`Clock`: ports to pins, pins to `data_in`, and what the chip
does when a strobe ends), entering and returning from a call, and the button.
The software may take any time between two stores, but at least `SwTicks`
clocks, two or more (a store of the processor over its bus takes longer).  The
chip obeys a strobe at its end.  For the clock between the end of the port's
write strobe, which closes the interface's data pins at once, and that of the
pin nobody drives them: `Holds` says whether they keep their level so long, as
pins with some capacitance do for 20 ns.  No source and no setting of the
project promises it, so it is a constant.  `NoContention` is proved for either
value; `ImplementsPort` needs `Holds`, and with `Holds = FALSE` TLC finds a
write that stores another word than the caller's.  Apart from that clock a bus
that nobody drives has any level at each step.  The reset of the button reaches
the processor at once (`lab8.sv:133`, in spite of the comment there) and the
pins through `Reset_h`; it may come at any store.  Until `IO_init` has returned
the strobes are what the ports' reset value 0 makes of them, and nothing is
promised (`HpiPort!Start`).

### The driver

`UsbDriver` takes an access to the chip as one step, which is what
`ImplementsPort` gives it.  A slot of a TD list is written in the order of the
code: the words up to the one that makes the TD active (`WriteHead`), the link
(`WriteLink`), and after the first TD its setup packet (`WritePacket`).  In
between the chip may fetch the TD: it then gets any mixture of the words of
the new TD and the old (`Fetched`), and what the keyboard takes of a setup
stage is what the packet holds when the stage is executed (`Taken`).  A packet
that is half of one request and half of another is no request.

What is assumed of the chip has three grades.  Of a chip that is neither
`Prompt` nor `Ideal` nothing: it may be slow, fail, stop, join messages and
post them at any time.  A *prompt* one takes a list up within the 10 ms the
driver sleeps between two writings, that is goes to the first TD and fetches
it; its work with the rest may take any time.  An *ideal* one has also
finished the list by then, and its keyboard answers while it is plugged in.
`Prompt` is what the code relies on (ten frames of the bus pass in 10 ms);
with `Prompt = FALSE` TLC refutes `RequestsInOrder`: a chip
that begins a list only after the driver has gone on to the next step takes
the requests in another order.

Abstractions: of the chip's memory the model keeps which step's TD is in which
slot, how far the slot being written is, the request in the setup packet, the
retry word of the first TD and the word of the key; whether a TD after the first
is still active is left open, and so is whether a report is taken for a
repetition (the data toggle).  The chip's soft reset takes effect within the 0.6
s `UsbSoftReset` sleeps, and what its memory holds is then unknown.  The step is
an index into `Lists`, so one set of actions stands for the ten near-identical
blocks of `main.c`.  Left out: the random numbers for the ghosts (arbitrary bits
in `GhostMovement`), and words that are only printed.

### The JTAG UART driver

One thread runs the calls; the interrupt routine runs between any two of its
steps and in one go as far as the thread is concerned, while the host works
concurrently with both.  Each statement that reads or writes what the other
side also touches is a step of its own.  A slot whose byte was taken is marked
(`Free`), so that a byte passed on twice is noticed although all bytes are
alike.

### The HAL

`FileTable` makes each call one step: one thread opens and closes files.
`SystemClock` makes each alarm of a tick's walk one step; callbacks return any
number and may start or stop any alarm, their own included.  Two things then do
not come out as promised, and both are in `Timers`, the abstract specification,
as what the service does not keep.  The longest delay, 2^32-1, comes out as a
count that is due at once (`alt_alarm_start.c:82`): such an alarm is *astray*,
it may be called at any time, until it is started anew. And a callback that
stops the very alarm `alt_tick` has read as the next one (`alt_tick.c:102`)
leaves the walk on an element linked to itself (`alt_llist.h:115`): the clock is
*stranded* there, calling the stopped alarm again and again, unless that
callback starts its own alarm, which is then astray.  Everything else is kept
meanwhile: no alarm of the list is called in another tick than its own.  The
second is a finding (`alarm_stop`); the first only a caller that asks for the
very longest delay would meet.  This system has no system clock, so
`alt_alarm_start` refuses and the JTAG UART driver waits for its host without
limit; `SystemClock` and the `Timer` of `JtagUart` model the service for the
systems that have one.  `Interrupts` takes an interrupt before any instruction
of a registration; a device raises its line at any time, and a line falls only
by what the software does to its device: without that, the second look of
`alt_irq_entry.S:79` would take an interrupt for a broken instruction.

Operators whose name has an underscore and whose comment begins with "Mutant"
(`rowWallVerify_NoMargin`, ...) are faulty versions of a definition below
them.  No specification uses them; each shows, put in the place of the right
one, that the property it is listed with in `PROJECT.json` can fail.

## 3. The runs

| run | module, cfg | instance | states | shows |
|---|---|---|---|---|
| `movers` | `MCMovers` | the real board at its size; the player, and one ghost with seven places of the player | 22 k | places, ways back, bends, and that ghosts move |
| `game` | `MCLab8` | 3 x 3 tiles of 4 pixels, one ghost, three coins | 62 k | the rules of the game under any timing |
| `game_live` | `MCLab8`, `MCLab8Live.cfg` | the same with 2 pixels, one coin | 7 k | ghosts between closed walls |
| `timed_even` | `MCLab8Timed`, `MCLab8TimedEven.cfg` | limits 2 and 4, 3 pixels | 323 k | when a collision can be missed |
| `clocks` | `MCClocks` | limits 10 and 12; a frame of 10 x 7 pixels | 20 k | dividers and VGA controller |
| `hpi` | `HpiBus` | words 0-1, four registers, two clocks per store | 109 k | the bus implements the port |
| `uart` | `JtagUart` | rings of 3, FIFOs of 1, calls of up to 2 bytes | 1.6 M | the driver implements the channel |
| `usb` | `UsbDriver`, `UsbDriver.cfg` | one key, one look for a device | 1.3 M | safety with a chip that is prompt and a keyboard that promises nothing |
| `usb_ideal` | `UsbDriver`, `UsbDriverIdeal.cfg` | key and no key, two looks | 77 k | the lists, and progress, with a chip that keeps up |
| `hal` | `MCHal` | six descriptors, two devices and a filesystem; three alarms on a counter of two bits, any delay; three lines | 96 k | descriptors, alarms and interrupts |
| `alt_lock` | `FileTable`, `FileTableLock.cfg` | six descriptors | - | finding: `LockedMeansAlone` is violated |
| `alarm_stop` | `SystemClock`, `SystemClockStopped.cfg` | two alarms | - | finding: `StoppedStaysSilent` is violated |

Bounds, and why they are enough.  Player and ghost alone are checked on the
real tables, nothing reduced.  For the composition a board of 3 x 3 tiles has
tiles with one, two, three and four open turns and one walled in on all four
sides, as the tiles in the blocks of the real board are, an open right border
as in rows 6 and 7, and a start column of the ghosts apart from the player's; a
tile of 4 pixels has a boundary, pixels next to it and one in the middle, and a
contact distance of 2 is half of it, as 16 is of 32.  Ghosts never read each
other, so one shows what each can do; the invariants of the composition are
also proved for any number of them.  The limits of the dividers are scaled
down with their parity kept, which is what decides whether edges meet, and the
theorems cover all limits.  The frame keeps the order of its intervals.

Two words let the chip's address pointer move and wrap, and a wrong word be told
from the right one; two clocks per store are the fewest the interface stands.  A
ring of three slots holds two bytes, so that a copy can have two bytes, wrap,
and meet a full and an empty ring; with a FIFO of one byte the interrupt routine
meets all of its branches.  With one byte value TLC sees bytes lost or doubled,
not reordered; the theorem of section 5 is for any set of bytes.  `Tries` (5 and
7 looks in the code) only counts.  A counter of two bits wraps every four ticks,
so that alarms lie before and beyond the wrap in every order; three alarms give
the walk a first, a middle and a last one, and are interchangeable
(`AlarmSymmetry`: all properties of the run are safety properties that name no
alarm).  Three free slots beside the standard ones let a descriptor lie below,
at and above `alt_max_fd`.  `MCHal`, `MCMovers` and `MCClocks` run components
that share no state; where liveness is not the question, each runs while the
others rest at their start, so that states add up instead of multiplying.

Fairness.  `LiveSpec` is fair to `GhostTick \/ BothTick`: `clkGhost` is
divided from a crystal by a free running counter, and nothing but the push
button stops it (`BothClocksRun` checks this on the dividers).  The dividers
and the VGA counters are fair to their tick for the same reason, and their
liveness is stated for behaviours in which the button is let go for good.
`UsbDriver!FairSpec` is fair to the driver, which is alone on its processor,
and to the chip, which works by itself; nothing is assumed of the user.

## 4. The properties

Player: `PlayerInMaze` (never inside a wall, and along the corridor it is in),
`PlayerCanTurnBack` (no one-way doors).
Ghosts: `GhostsOnTrack` (corridors, the row above the board, and the shafts
between them), `GhostsTurnRoundOnThree` (the table of bends), `GhostsNeverRest`.

Game: `CollisionStartsOver`, `NewGameIsFresh`, `NewGameIsSafe`,
`WonMeansCleared`, `CoinsReturnOnlyWithNewGame`, `NoCoinLeftBehind` (the coins
sample the player on another clock, and still it never stands between two
tiles that both have their coins),
`GhostsPassWallsUpwards`, `GhostsLeaveClosedBoard`, and
`OverlapOnlyWhenBothMove`.

Clocks: `PhasesAgreeMod2`, `EdgesMeet`, `BothClocksRun`.
Screen: `VgaAligned`, `NoPictureInSync`, `FramesKeepComing`.

What they say together about collisions: player and ghost overlap without a
collision having been seen only in a tick that moves both
(`OverlapOnlyWhenBothMove`, `OverlapNeedsBothEdges`).  The limits of
`lab8.sv:96` and `:101`, 200000 and 262000, are both even, and there are such
ticks (`EdgesMeet`): every 2 * 200001 * 262001 ticks, some 35 minutes of play, a
ghost at an odd distance can pass the contact unseen.  No document of the
repository promises otherwise, so this is recorded here and not as a finding.

Bus: `ImplementsPort` (each call happens at the chip once, whole, between its
start and its return, with its data, if the data pins hold their level for a
clock) and `NoContention` (interface and chip
never drive the data pins against each other).  They are what the driver
stands on.

Driver: `RequestsInOrder` (the device never gets a request before those that
must come first, whatever is overwritten, half written, repeated or
unplugged, if the chip takes lists up in time),
`GameKeyWasReported` (no key reaches the game that was not reported since the
last hot plug, although the first poll reads a word that held a link),
`ChipStaysInList` and `NeverHangs` (with a chip that keeps up it follows only
the list it was given, and the driver polls or starts anew for ever).  Beyond
that the code promises little, and the model shows it: a message that comes
between the reading and the clearing of another is lost (`usb.c:542`), and the
driver may wait for it for ever; the register keeps its
key while the keyboard is out; a message joined to another is not recognised
(`usb.c:543`); a report may be dropped as a repetition (`main.c:512`); a quick
replug is not noticed.

JTAG UART: `ImplementsChannel` (no byte lost, repeated or overtaken in either
direction; results count what was moved), `NothingStuck` (no byte waits for an
interrupt that is off), `ForeverIsForever`.

HAL: `NoLeak`, `OneLockPerDevice`, `LockKeepsOthersOut` for descriptors;
`ImplementsTimers` for alarms (called in their tick, once, across wraps and
whatever callbacks start and stop);
`HandlerIsThere`, `ProgramUndisturbed` for interrupts.

Findings.  `alt_lock`: `alt_fd_lock.c:61` searches `i < alt_max_fd`, where
`alt_max_fd` is the highest descriptor ever handed out, and so overlooks that
one; a device that is open there is locked through another descriptor, which
the comment at lines 43-45 excludes.  `alt_file_locked` searches
`i <= alt_max_fd` and is right.  `OneLockPerDevice` and `LockKeepsOthersOut`
hold all the same: of two descriptors of one device only the lower can get the
lock so.  `alarm_stop`: a callback that stops the alarm that comes next in the
walk gets it called all the same, though the comment at `alt_tick.c:61-62` has
it removed from the list (`StoppedStaysSilent`).  The JTAG UART driver,
the only one here to set an alarm, stops none in its callback.

## 5. The proofs

All theorems hold for every value of the constants that the assumptions of their
modules allow: all boards with walls on three sides, all tile sizes from 2, all
start tiles (the ghosts' in another column than the player's, and that column
without a tile walled in on all sides), any number of ghosts, all divider limits
that fit the counters, all frames, all rings and FIFOs, all pools, devices and
lines, all sizes of a word, and all sets of keys.  The assumptions are named,
and TLC evaluates each of them on the instances of the runs, the real tables
among them.

- `Movers_proofs`: first pixels and tiles (what a step of one pixel does to tile
  and offset, that a step on the board does not wrap), and `CorridorStep`: a
  piece that takes open turns on crossroads and keeps to its corridor elsewhere
  stays in the corridors.  `OpenTurn` is where the tables' closed border is
  needed.  Then the pieces: `PlayerChoice` splits the key logic; `PlayerInMaze`
  with the type invariant is inductive.  `WayBackOpen` (a turn that is open from
  one tile is open from the next, the other way) and `ArrivalCanTurnBack` add
  `PlayerCanTurnBack`.  `GhostTurnOpen` shows the case split over the open turns
  complete; `TrackShape` divides the track into corridors and shafts,
  `ShaftStep` and `CorridorStep` take one step in each.  `ContactMeaning` shows
  that the comparisons in ten bits mean what they should on the board, and
  `BendTurn` that each bend takes 3, and only 3, for the way back. `GhostMoves`
  (a step adds its direction and never wraps) gives `GhostsNeverRest` for a
  player anywhere.  `StaysAtLarge` and `ThroughWalls` prepare the theorem about
  ghosts and walls in the game.
- `Lab8_proofs`: `NextCases` reduces the combinations of a tick to two kinds,
  one that starts over and one that goes on.  `BoardInv` (types and places) is
  inductive by itself and gives `GhostsTurnRoundOnThree` in the game.  The rules
  need `GameInv`: `ResetInv` (a reset that is up has done its work, so its last
  tick changes nothing) and `ColumnInv` (ghosts that find closed walls stay in
  the column they started in) make `NewGameIsFresh` and `WonMeansCleared`
  inductive and give `NewGameIsSafe` and `CoinsReturnOnlyWithNewGame`.
  `OverlapAfterContact` is the geometry of a collision, and `SameEnds` and
  `LeftEnd` that of `NoCoinLeftBehind`. `GhostsPassWallsUpwards` needs one more
  invariant, `RoamInv`: play with coins left finds each ghost in its start
  column or at a place of the corridors with a way out.  `GameInv` alone does
  not exclude a step that breaks the property: a ghost on a tile of the blocks,
  walled in on all four sides, that leaves through the wall above while the
  walls of the level are open.  Ghosts do come there, between the closed walls
  of BEAT1, and Enter then opens the walls with no reset; but all coins are
  gone, so that play lasts one tick of Clk and every edge of `clkGhost` in it
  finds or leaves the walls closed.  After NEWGAME ghosts start from their
  column, which by `ColumnAssumption` (checked on the real tables) has no such
  tile, and `CorridorWayOut` keeps them off the others.
- `Lab8Timed_proofs`: the phases of the two clocks keep their parity, since
  both periods are even; every tick of the timed game is a tick of the game,
  and so only one that raises both clocks lets a collision be missed.
- `VgaController_proofs`: alignment of signals and counters, which gives that
  no picture is sent during a pulse.
- `Hal_proofs`: `FileInv` adds to the types and `NoLeak` that standard
  descriptors are in use (`StdInUse`), that `alt_max_fd` bounds what is in use
  (`MaxCovers`), and `SharersAbove`: another descriptor of a locked device
  lies above the one that locks it (it is the one `alt_fd_lock`'s search left
  out).  This is why the finding above never gives a device two owners.
  `IrqInv` relates masks, table and the place in a registration.
  `AlarmsInTime` is the refinement of `Timers`: an alarm counts down the ticks
  `TicksLeft` that its time is ahead of the counter, across the wrap.
  `ClockInv` holds what the mapping needs: the list has no alarm twice
  (`ListOK`), and no alarm of it is overdue unless it is astray: what it has
  left is below a turn of the counter, and nothing at all only if the walk has
  yet to come to it (`Punctual`).  `StartStep`, `StopStep`, `TickStep`,
  `PassStep`, and the `Called` and `Call` lemmas for what a callback does to its
  own alarm and to others, map each action to a step of `Timers` or to none; a
  walk that stands outside of the list maps to `stranded`.
  The lemmas before them say what taking an alarm out of a list leaves
  of the order in it.
- `JtagUart_proofs`: `NothingStuck` with the types and the meaning of the
  locals at each program counter (`Locals`) is inductive.
  `UartImplementsChannel` adds `ChannelInv`: the piece a `read` or `write`
  copies lies within the ring and in slots that are filled or free, whatever
  the interrupt routine has moved since it looked (`Piece`); what it has copied
  and not yet counted agrees with the slots (`Copied`); the routine puts no
  more into the FIFO than there is room for (`FifoRoom`); and a `read` that
  waits has nothing yet (`NothingRead`).  Each step is then a step of the two
  channels, ring and FIFO read as one queue, or none.
- `HpiBus_proofs`: `BusInv` says, for each number of accesses a call has made,
  what ports, pins and data pins hold, the pins being one clock behind
  (`WriteAt`, `ReadAt`); `WriteClock` and `ReadClock` take the one clock edge at
  which the strobe ends, the one leaf that needs `Holds`.  `BusNext` shows with
  it that each step is a step of `HpiPort` or none, which is the refinement, and
  that no strobe of a call is left when the next one opens the pins.  Two clocks
  between stores are all that is asked of the processor, and of the data pins,
  for the refinement only, that they hold.
- `UsbDriver_proofs`: `OrderInv`, whose core is `Served`: a keyboard that has
  its address has seen all requests before the driver's step, and the step
  itself once its retry word tells of success.  What makes it inductive is where
  a chip can be while the first slot is written: it is away from that slot
  whenever the slot does not hold a TD of the step, whole and with its packet
  (`Apart`, `Complete`), and what it executes there is the TD that is there
  (`Flight`); `Timing` is where the promptness of the chip enters. `BufferInv`
  adds what the word of the key can hold. `ChipPlaceCorrect` is about a chip
  that keeps up (`Ideal`): `WrittenInv` says how much of the list of the step is
  in the chip's memory at each place of the driver, the half-written slot
  included, `WalkInv` that the chip walks only while the driver waits for it or
  writes the list once more, and only in that list, and `FlagInv` that a done
  message finds the chip at rest unless the list was started again.  `NextTds`
  and `BuffersFollow` give from the shape of all lists that a link leads to the
  next TD and buffers lie beyond them.

Every invariant, action property and refinement that the runs check is so
proved as well, except the two that state the findings.  Only
model-checked is liveness, which is out of the prover's reach
(`GhostsLeaveClosedBoard`, `BothClocksRun`, `EdgesMeet`, `FramesKeepComing`,
`NeverHangs`).

## 6. Not modelled, and why

- Colour mapper, sprites, `HexDriver.sv`: combinational or data.
- PLL, NIOS system, `lab8_soc.qsys`: generated vendor code.
- Metastability of single registers, and the power-up state, which the sources
  do not settle.
- `cy7c67200.h`, `lcp_*.h`, `system.h`: names for addresses and bits, some
  4500 of the 19300 lines of C in the repository.
- HAL system calls that only pass a call on to a device (`alt_read.c`,
  `alt_write.c`, ...) or keep a variable nothing else reads (`alt_settod.c`,
  `alt_sbrk.c`); logging and profiling (`alt_log_printf.c`, `alt_gmon.c`),
  flash and DMA, which are compiled out or have no device in this system;
  `alt_exception_muldiv.S`, which this processor's code does not need.

Of the 19,300 lines of source 7,800 are code, the rest comments and blank
lines.  4,170 of these are in headers, nearly all names for bits and addresses,
and 1,770 in the C files named above; the map covers 1,370 of the others (2,280
lines with their comments).  A model of the rest would say nothing about the
program.
