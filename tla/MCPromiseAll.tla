--------------------------- MODULE MCPromiseAll ---------------------------
(***************************************************************************)
(* PromiseAll with up to three elements, which are promises or objects     *)
(* that call the functions they are given when and as often as they like.  *)
(***************************************************************************)
EXTENDS PromiseAll
=============================================================================
