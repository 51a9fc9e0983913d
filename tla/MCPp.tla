-------------------------------- MODULE MCPp --------------------------------
(***************************************************************************)
(* pp with a buffer of a few characters.                                   *)
(***************************************************************************)
EXTENDS Pp
=============================================================================
