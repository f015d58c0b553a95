--------------------------------- MODULE MCHal --------------------------------
(***************************************************************************)
(* The services of the HAL that keep tables: the file descriptors, the     *)
(* alarms and the interrupts.  They share nothing: each runs while the     *)
(* others rest at their start, so that their states add up instead of      *)
(* multiplying.                                                            *)
(***************************************************************************)
EXTENDS FileTable, SystemClock, Interrupts

HalInit == FileInit /\ ClockInit /\ InterruptsInit

HalNext ==
    \/ ClockInit /\ InterruptsInit /\ FileNext /\ UNCHANGED <<clockVars, irqVars>>
    \/ FileInit /\ InterruptsInit /\ ClockNext /\ UNCHANGED <<fileVars, irqVars>>
    \/ FileInit /\ ClockInit /\ InterruptsNext /\ UNCHANGED <<fileVars, clockVars>>

\* The alarms are interchangeable.
AlarmSymmetry == Permutations(Alarms)

HalSpec == HalInit /\ [][HalNext]_<<fileVars, clockVars, irqVars>>
===============================================================================
