---------------------------- MODULE MCJobQueue ----------------------------
(***************************************************************************)
(* JobQueue on a heap with room for a few job items.                       *)
(***************************************************************************)
EXTENDS JobQueue
=============================================================================
