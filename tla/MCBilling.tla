-------------------------------- MODULE MCBilling --------------------------------
(****************************************************************************)
(* Instances of Billing for TLC.                                            *)
(****************************************************************************)
EXTENDS Billing, TLC

Symmetry == Permutations(Calls)

HalfSeconds == {<<>>, <<5>>}

BillBudget == [call |-> 3, correct |-> 1]
================================================================================
