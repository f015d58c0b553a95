----------------------------- MODULE VgaController ----------------------------
(***************************************************************************)
(* VGA_controller.sv: the pixel counters and the synchronisation signals   *)
(* of the screen, on the 25 MHz clock VGA_CLK.  The signals are registered *)
(* together with the counters they are computed from.                      *)
(***************************************************************************)
EXTENDS Integers

CONSTANTS
    H_TOTAL, V_TOTAL,            \* pixels of a line, lines of a frame (800, 525)
    H_VISIBLE, V_VISIBLE,        \* those that are drawn (640, 480)
    H_SYNC_START, H_SYNC_END,    \* the pixels of the pulse (656, 752)
    V_SYNC_START, V_SYNC_END     \* the lines of the pulse (490, 492)

\* The counters are ten bits wide; each pulse lies behind what is drawn.
ASSUME VgaAssumption ==
    /\ H_TOTAL \in 1..1023 /\ V_TOTAL \in 1..1023
    /\ H_VISIBLE \in 1..H_TOTAL /\ H_SYNC_START \in H_VISIBLE..H_TOTAL
    /\ H_SYNC_END \in H_SYNC_START..H_TOTAL
    /\ V_VISIBLE \in 1..V_TOTAL /\ V_SYNC_START \in V_VISIBLE..V_TOTAL
    /\ V_SYNC_END \in V_SYNC_START..V_TOTAL

VARIABLES
    h_counter, v_counter,           \* DrawX, DrawY
    VGA_HS, VGA_VS, VGA_BLANK_N     \* active low

vgaVars == <<h_counter, v_counter, VGA_HS, VGA_VS, VGA_BLANK_N>>

-----------------------------------------------------------------------------
Bit(b) == IF b THEN 1 ELSE 0

h_counter_in == IF (h_counter + 1) % 1024 = H_TOTAL THEN 0 ELSE (h_counter + 1) % 1024

\* Mutant: the frame ends with the picture.
v_counter_in_Short ==
    IF (h_counter + 1) % 1024 # H_TOTAL THEN v_counter
    ELSE IF (v_counter + 1) % 1024 = V_VISIBLE THEN 0
    ELSE (v_counter + 1) % 1024

v_counter_in ==
    IF (h_counter + 1) % 1024 # H_TOTAL THEN v_counter
    ELSE IF (v_counter + 1) % 1024 = V_TOTAL THEN 0
    ELSE (v_counter + 1) % 1024

\* Mutant: a reset leaves the blanking as it is.
VgaReset_KeepsBlank ==
    /\ h_counter' = 0 /\ v_counter' = 0
    /\ VGA_HS' = 0 /\ VGA_VS' = 0 /\ UNCHANGED VGA_BLANK_N

VgaReset ==
    /\ h_counter' = 0 /\ v_counter' = 0
    /\ VGA_HS' = 0 /\ VGA_VS' = 0 /\ VGA_BLANK_N' = 0

\* Mutant: the signals are computed from the old counters.
VgaTick_OldCounters ==
    /\ h_counter' = h_counter_in
    /\ v_counter' = v_counter_in
    /\ VGA_HS' = Bit(~(h_counter >= H_SYNC_START /\ h_counter < H_SYNC_END))
    /\ VGA_VS' = Bit(~(v_counter >= V_SYNC_START /\ v_counter < V_SYNC_END))
    /\ VGA_BLANK_N' = Bit(h_counter < H_VISIBLE /\ v_counter < V_VISIBLE)

\* One pixel.
VgaTick ==
    /\ h_counter' = h_counter_in
    /\ v_counter' = v_counter_in
    /\ VGA_HS' = Bit(~(h_counter_in >= H_SYNC_START /\ h_counter_in < H_SYNC_END))
    /\ VGA_VS' = Bit(~(v_counter_in >= V_SYNC_START /\ v_counter_in < V_SYNC_END))
    /\ VGA_BLANK_N' = Bit(h_counter_in < H_VISIBLE /\ v_counter_in < V_VISIBLE)

\* The registers after a push of the button.
VgaInit ==
    /\ h_counter = 0 /\ v_counter = 0
    /\ VGA_HS = 0 /\ VGA_VS = 0 /\ VGA_BLANK_N = 0

VgaNext == VgaTick \/ VgaReset

VgaSpec == VgaInit /\ [][VgaNext]_vgaVars /\ WF_vgaVars(VgaTick)

-----------------------------------------------------------------------------
VgaTypeOK ==
    /\ h_counter \in 0..(H_TOTAL - 1) /\ v_counter \in 0..(V_TOTAL - 1)
    /\ VGA_HS \in {0, 1} /\ VGA_VS \in {0, 1} /\ VGA_BLANK_N \in {0, 1}

\* The signals belong to the pixel the counters point at, except on the
\* first pixel after a reset, which is black: nothing is drawn outside of
\* the picture, and no pixel of it is lost.
VgaAligned ==
    \/ /\ VGA_BLANK_N = Bit(h_counter < H_VISIBLE /\ v_counter < V_VISIBLE)
       /\ VGA_HS = 0 <=> h_counter \in H_SYNC_START..(H_SYNC_END - 1)
       /\ VGA_VS = 0 <=> v_counter \in V_SYNC_START..(V_SYNC_END - 1)
    \/ /\ h_counter = 0 /\ v_counter = 0
       /\ VGA_HS = 0 /\ VGA_VS = 0 /\ VGA_BLANK_N = 0

\* The monitor never gets a picture and a synchronisation pulse at once, in
\* a reset in the middle of the picture neither.
NoPictureInSync == VGA_BLANK_N = 1 => VGA_HS = 1 /\ VGA_VS = 1

\* Once the button is let go for good, frame follows frame: the counters do
\* not run past their ends.
FramesKeepComing ==
    <>[][VgaTick]_vgaVars => []<>(h_counter = H_TOTAL - 1 /\ v_counter = V_TOTAL - 1)
=============================================================================
