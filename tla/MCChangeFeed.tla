------------------------------ MODULE MCChangeFeed ------------------------------
(****************************************************************************)
(* Instances of ChangeFeed for TLC.                                         *)
(****************************************************************************)
EXTENDS ChangeFeed

FeedBudget == [rebuild |-> 2, race |-> 1]
================================================================================
