------------------------- MODULE VgaController_proofs -------------------------
(***************************************************************************)
(* Proofs about the VGA controller, for all frames that fit its counters.  *)
(***************************************************************************)
EXTENDS VgaController, TLAPS

VgaInv == VgaTypeOK /\ VgaAligned

\* The counters stay in the frame: ten bits never wrap before the compare.
LEMMA CountersIn ==
    ASSUME VgaTypeOK
    PROVE  h_counter_in \in 0..(H_TOTAL - 1) /\ v_counter_in \in 0..(V_TOTAL - 1)
<1> USE VgaAssumption
<1>1. (h_counter + 1) % 1024 = h_counter + 1 /\ (v_counter + 1) % 1024 = v_counter + 1
  BY DEF VgaTypeOK
<1> QED  BY <1>1 DEF VgaTypeOK, h_counter_in, v_counter_in

LEMMA VgaInvInit == VgaInit => VgaInv
  BY VgaAssumption DEF VgaInit, VgaInv, VgaTypeOK, VgaAligned

LEMMA VgaInvStep == VgaInv /\ [VgaNext]_vgaVars => VgaInv'
<1> SUFFICES ASSUME VgaInv, [VgaNext]_vgaVars
             PROVE  VgaInv'
  OBVIOUS
<1> USE VgaAssumption
<1>1. CASE VgaTick
  <2>1. h_counter' \in 0..(H_TOTAL - 1) /\ v_counter' \in 0..(V_TOTAL - 1)
    BY <1>1, CountersIn DEF VgaInv, VgaTick
  <2>2. VgaTypeOK'
    BY <1>1, <2>1 DEF VgaTick, VgaTypeOK, Bit
  <2>3. VgaAligned'
    <3> DEFINE HS == h_counter' \in H_SYNC_START..(H_SYNC_END - 1)
               VS == v_counter' \in V_SYNC_START..(V_SYNC_END - 1)
    <3>1. VGA_HS' = Bit(~HS) /\ VGA_VS' = Bit(~VS)
      BY <1>1, <2>1 DEF VgaTick, Bit
    <3>2. VGA_BLANK_N' = Bit(h_counter' < H_VISIBLE /\ v_counter' < V_VISIBLE)
      BY <1>1 DEF VgaTick
    <3> QED  BY <3>1, <3>2 DEF VgaAligned, Bit
  <2> QED  BY <2>2, <2>3 DEF VgaInv
<1>2. CASE VgaReset
  BY <1>2 DEF VgaReset, VgaInv, VgaTypeOK, VgaAligned
<1>3. CASE UNCHANGED vgaVars
  BY <1>3 DEF vgaVars, VgaInv, VgaTypeOK, VgaAligned
<1> QED  BY <1>1, <1>2, <1>3 DEF VgaNext

\* In every frame the signals belong to the pixel the counters point at
\* (VGA_controller.sv:53-100).
THEOREM VgaCorrect == VgaSpec => []VgaAligned
<1>1. VgaInv => VgaAligned
  BY DEF VgaInv, VgaAligned
<1> QED  BY VgaInvInit, VgaInvStep, <1>1, PTL DEF VgaSpec

\* The counters of VGA_controller.sv never leave the frame.
THEOREM VgaTypeCorrect == VgaSpec => []VgaTypeOK
<1>1. VgaInv => VgaTypeOK
  BY VgaAssumption DEF VgaInv, VgaTypeOK, Bit
<1> QED  BY VgaInvInit, VgaInvStep, <1>1, PTL DEF VgaSpec

\* While a synchronisation pulse is out, the picture is blanked: for all sizes
\* of a frame (VGA_controller.sv).
THEOREM NoPictureInPulse == VgaSpec => []NoPictureInSync
<1>1. VgaInv => NoPictureInSync
  BY VgaAssumption DEF VgaInv, VgaTypeOK, VgaAligned, NoPictureInSync, Bit
<1> QED  BY VgaInvInit, VgaInvStep, <1>1, PTL DEF VgaSpec
=============================================================================
