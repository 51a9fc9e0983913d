---------------------------- MODULE MCPromises ----------------------------
(***************************************************************************)
(* Promises and async functions of the script alone; the order of the      *)
(* operations and of the returns is free.                                  *)
(***************************************************************************)
EXTENDS Promises
=============================================================================
