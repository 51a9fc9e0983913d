---------------------------- MODULE ModuleStates ----------------------------
(***************************************************************************)
(* What linking and evaluation promise to the owner of a graph of modules. *)
(*                                                                         *)
(* Linking takes modules that import each other in circles together, and   *)
(* only when all they import is linked.  A module is evaluated once, after *)
(* what it imports; an import that is still being evaluated is the one     *)
(* exception, since circles have to begin somewhere.  A module that failed *)
(* has failed for ever.                                                    *)
(***************************************************************************)
EXTENDS Naturals, FiniteSets

CONSTANT Module

VARIABLES imports,      \* what each module imports
          state         \* how far each module has come

Init == /\ imports \in [Module -> SUBSET Module]
        /\ state = [m \in Module |-> "unlinked"]

\* The modules that m leads to by imports, m included.
Reach(m) == {n \in Module : \A closed \in SUBSET Module :
                 (m \in closed /\ \A x \in closed : imports[x] \subseteq closed) => n \in closed}

Circle(circle) == \A m \in circle : Reach(m) \cap {x \in Module : m \in Reach(x)} = circle

\* A whole circle is linked at once.
Link(circle) == /\ circle # {}
                /\ Circle(circle)
                /\ \A m \in circle : /\ state[m] = "unlinked"
                                     /\ \A i \in imports[m] \ circle : state[i] \in {"linked", "evaluating", "evaluated"}
                /\ state' = [m \in Module |-> IF m \in circle THEN "linked" ELSE state[m]]

LinkFails(m) == /\ state[m] = "unlinked"
                /\ state' = [state EXCEPT ![m] = "error"]

Begin(m) == /\ state[m] = "linked"
            /\ state' = [state EXCEPT ![m] = "evaluating"]

Succeed(m) == /\ state[m] = "evaluating"
              /\ \A i \in imports[m] : state[i] \in {"evaluating", "evaluated"}
              /\ state' = [state EXCEPT ![m] = "evaluated"]

Fail(m) == /\ state[m] = "evaluating"
           /\ state' = [state EXCEPT ![m] = "error"]

Next == /\ UNCHANGED imports
        /\ \/ \E circle \in SUBSET Module : Link(circle)
           \/ \E m \in Module : LinkFails(m) \/ Begin(m) \/ Succeed(m) \/ Fail(m)

Spec == Init /\ [][Next]_<<imports, state>>
=============================================================================
