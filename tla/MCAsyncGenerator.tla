-------------------------- MODULE MCAsyncGenerator --------------------------
(***************************************************************************)
(* One async generator and a few requests, made at any time and in any     *)
(* order by the scripts and by the generator itself.                       *)
(***************************************************************************)
EXTENDS AsyncGenerator
=============================================================================
