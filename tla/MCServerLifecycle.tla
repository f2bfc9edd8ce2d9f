--------------------------- MODULE MCServerLifecycle ---------------------------
(****************************************************************************)
(* The process as it is: two loops, and two requests at a time.             *)
(****************************************************************************)
EXTENDS ServerLifecycle
================================================================================
