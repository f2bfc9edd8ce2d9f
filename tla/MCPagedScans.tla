------------------------------ MODULE MCPagedScans ------------------------------
(****************************************************************************)
(* Instances of PagedScans for TLC.                                         *)
(****************************************************************************)
EXTENDS PagedScans

TwoDays == [k \in Rows |-> IF k % 2 = 1 THEN "monday" ELSE "tuesday"]

ScanBudget == [enter |-> 2, leave |-> 2, settle |-> 1]
================================================================================
