------------------------------- MODULE TdLists -------------------------------
(***************************************************************************)
(* The lists of transfer descriptors (TDs) with which usb.c and main.c ask *)
(* the USB host chip for the steps of an enumeration.  Lists, and most of  *)
(* the buffers for what the device answers, share the chip's memory from   *)
(* 0x0500 on; every list overwrites the one before.                        *)
(***************************************************************************)
EXTENDS Integers, Sequences

\* The memory, cut where TDs begin: the first TD is followed by the eight
\* bytes of its setup packet, the others follow without a gap.
Slots == 1 .. 10
At(s) == IF s = 1 THEN \h0500 ELSE \h0514 + 12 * (s - 2)
End(s) == At(s) + (IF s = 1 THEN 20 ELSE 12)

\* A buffer: its address and its length, and the slots it lies in.
Touched(buffer) ==
    {s \in Slots : buffer[1] < End(s) /\ At(s) < buffer[1] + buffer[2]}

None == <<0, 0>>
SetupPacket == <<\h050C, 8>>
Td(stage, address, buffer, next) ==
    [stage |-> stage, address |-> address, buffer |-> buffer, next |-> next]

\* Every control transfer is laid out like this: the setup stage, the data
\* stage in pieces of eight bytes and the status stage.  Each TD names the
\* slot of the next (the code: its address), and the last one 0.
Control(address, data) ==
    LET n == Len(data) + 2
    IN  [s \in 1 .. n |->
            Td(IF s = 1 THEN "setup" ELSE IF s = n THEN "status" ELSE "data",
               address, IF s = 1 THEN SetupPacket
                        ELSE IF s = n THEN None ELSE data[s - 1],
               IF s = n THEN 0 ELSE s + 1)]

\* Mutant: the data goes where it went for UsbGetDeviceDesc1.
UsbGetDeviceDesc2_Low == Control(2, << <<\h052C, 8>>, <<\h0534, 8>>,
                                       <<\h053C, 2>> >>)

\* The device has address 0 after a reset of the bus, and 2 from the end of
\* SET_ADDRESS on.
UsbSetAddress     == Control(0, << >>)
UsbGetDeviceDesc1 == Control(2, << <<\h052C, 8>> >>)
UsbGetDeviceDesc2 == Control(2, << <<\h0544, 8>>, <<\h054C, 8>>,
                                   <<\h0554, 2>> >>)
UsbGetConfigDesc1 == Control(2, << <<\h0544, 8>>, <<\h054C, 1>> >>)
UsbGetConfigDesc2 == Control(2, << <<\h055C, 8>>, <<\h0564, 8>>,
                                   <<\h056C, 8>>, <<\h0574, 8>>,
                                   <<\h057C, 2>> >>)
UsbSetConfig      == Control(2, << >>)
UsbClassRequest   == Control(2, << >>)
UsbGetHidDesc     == Control(2, << <<\h0544, 8>> >>)
UsbGetReportDesc  == Control(2, << <<\h0580, 8>>, <<\h0588, 8>>,
                                   <<\h0590, 8>>, <<\h0598, 8>>,
                                   <<\h05A0, 8>>, <<\h05A8, 8>>,
                                   <<\h05B0, 8>>, <<\h05B8, 3>> >>)

\* The poll for a report of the keyboard is one TD in the place of the first.
PollList == << Td("poll", 2, <<\h051C, 8>>, 0) >>

\* In the order of main: the step of the enumeration is the index.
Lists == << UsbSetAddress, UsbGetDeviceDesc1, UsbGetDeviceDesc2,
            UsbGetConfigDesc1, UsbGetConfigDesc2, UsbSetConfig,
            UsbClassRequest, UsbGetHidDesc, UsbGetReportDesc, PollList >>
Steps == 1 .. 10
SetAddress == 1
ConfigDesc2 == 5
Poll == 10

\* The word at 0x051E, which main takes for the key of a report, is also the
\* last one of the second TD: the link to the next, 0x0520 or 0.
LinkCode(next) == IF next = 0 THEN 0 ELSE At(next) % 256
=============================================================================
