---------------------------- MODULE MCCmsMain ----------------------------
(***************************************************************************)
(* The program on short command lines, with a few lines and jobs.          *)
(***************************************************************************)
EXTENDS CmsMain
=============================================================================
