---------------------------- MODULE MCTrialEscalation ----------------------------
(****************************************************************************)
(* Instances of TrialEscalation for TLC.                                    *)
(****************************************************************************)
EXTENDS TrialEscalation, TLC

Bound(moves, faults, crashes) == [order |-> moves, fault |-> faults, crash |-> crashes]

RoughBudget == Bound(2, 1, 2)
================================================================================
