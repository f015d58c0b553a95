------------------------------ MODULE MCLab8Timed -----------------------------
(***************************************************************************)
(* The game of MCLab8 with clock dividers.                                 *)
(***************************************************************************)
EXTENDS Lab8Timed, MCLab8
===============================================================================
