---------------------------- MODULE RequestQueue ----------------------------
(***************************************************************************)
(* What an async generator promises to those who call next, throw and      *)
(* return on it: every request gets one answer, those that wait get it in  *)
(* the order in which they were made, and once the generator is closed a   *)
(* new request is answered on the spot.  AsyncGenerator implements this.   *)
(***************************************************************************)
EXTENDS Naturals, Sequences

CONSTANT MaxRequests    \* bound: the requests made

VARIABLES asked,        \* the requests made so far; a request is named by its number
          waiting,      \* the requests without an answer, oldest first
          answered,     \* the requests with an answer
          closed        \* the generator has finished

vars == <<asked, waiting, answered, closed>>

Init == /\ asked = 0
        /\ waiting = <<>>
        /\ answered = {}
        /\ closed = FALSE

Ask == /\ asked < MaxRequests
       /\ asked' = asked + 1
       /\ IF closed
          THEN answered' = answered \cup {asked'} /\ UNCHANGED waiting
          ELSE waiting' = Append(waiting, asked') /\ UNCHANGED answered
       /\ UNCHANGED closed

\* The answer to the oldest request may be that the generator has finished.
Answer == /\ waiting # <<>>
          /\ answered' = answered \cup {Head(waiting)}
          /\ waiting' = Tail(waiting)
          /\ closed' \in {closed, TRUE}
          /\ UNCHANGED asked

Next == Ask \/ Answer

Spec == Init /\ [][Next]_vars
=============================================================================
