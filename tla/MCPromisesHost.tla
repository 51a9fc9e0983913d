--------------------------- MODULE MCPromisesHost ---------------------------
(***************************************************************************)
(* Promises with a host that settles some of them itself.                  *)
(***************************************************************************)
EXTENDS PromisesHost, TLC

\* The promises that scripts create are interchangeable.
Symmetric == Permutations(Promise \ (Settleable \cup AsyncFn))
=============================================================================
