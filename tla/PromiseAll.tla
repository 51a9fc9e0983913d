----------------------------- MODULE PromiseAll -----------------------------
(***************************************************************************)
(* One call of Promise.all, allSettled, any or race: the loop over the     *)
(* iterable (ecma-builtin-promise.c) and the element functions that it     *)
(* hands to the `then` of each element (ecma-promise-object.c).            *)
(*                                                                         *)
(* The loop calls script code four times per element: the iterator, the    *)
(* constructor's `resolve`, `then`, and at a failure the `return` of the   *)
(* iterator.  An element whose `then` belongs to the script keeps the      *)
(* functions it was given and may call either, any number of times, during *)
(* every later call and after the loop; a native promise calls one of them *)
(* once, from a job.  The constructor's own capability is native: a        *)
(* promise that the first call of its functions resolves (Promises).       *)
(***************************************************************************)
EXTENDS Naturals, Sequences, FiniteSets

CONSTANTS Routine,      \* the routines that may be called
          Shape,        \* the elements: native promises, objects with a then of the script
          Value,        \* what elements settle with
          Hole,         \* an entry of the values array not written yet
          Float,        \* the remaining count is a floating point number
          Broken,       \* a floating point number was read as an integer
          MaxElements   \* bound: the elements the iterator yields

ASSUME PromiseAllAssumption ==
  /\ Routine \subseteq {"all", "allSettled", "any", "race"}
  /\ Shape \subseteq {"promise", "thenable"}
  /\ MaxElements \in Nat
  /\ Float \notin Nat /\ Broken \notin Nat
  /\ Hole \notin [status : {"resolve", "reject"}, value : Value]

VARIABLES routine,      \* builtin_routine_id
          pc,           \* what the loop waits for, or how it ended
          idx,          \* the elements whose `then` was called
          shape,        \* what each of them is
          reacting,     \* native promises that have not run their reaction
          index,        \* the index field of each element function, 0 when it was called
          values,       \* the values array
          remaining,    \* the remaining count
          outcome       \* what the capability was first called with

loopVars == <<routine, pc, idx, shape, reacting>>
countVars == <<index, values, remaining, outcome>>
vars == <<routine, pc, idx, shape, reacting, index, values, remaining, outcome>>

Element == 1 .. MaxElements
Way == {"resolve", "reject"}

\* An entry: the record that allSettled makes; all and any store the value alone.
Entry == [status : Way, value : Value]

\* The element functions of a routine; its other callbacks are the capability's own.
Counting(r) == CASE r = "all" -> {"resolve"}
                 [] r = "any" -> {"reject"}
                 [] r = "allSettled" -> Way
                 [] OTHER -> {}

\* Mutant of Init: the count does not count the loop itself.
InitZero == /\ routine \in Routine
            /\ pc = "begin"
            /\ idx = 0
            /\ shape = [i \in Element |-> "none"]
            /\ reacting = {}
            /\ index = [f \in Way \X Element |-> 0]
            /\ values = <<>>
            /\ remaining = 0
            /\ outcome = "pending"

Init == /\ routine \in Routine
        /\ pc = "begin"
        /\ idx = 0
        /\ shape = [i \in Element |-> "none"]
        /\ reacting = {}
        /\ index = [f \in Way \X Element |-> 0]
        /\ values = <<>>
        /\ remaining = 1
        /\ outcome = "pending"

\* ecma_promise_remaining_inc_or_dec.  0 - 1 is UINT32_MAX, which is stored as a
\* floating point number; the next call reads that as an integer (an assertion of
\* debug builds fails there, and the other builds take the pointer's bits).
Incremented(r) == IF r \in Nat THEN r + 1 ELSE Broken
Decremented(r) == IF r \in Nat \ {0} THEN r - 1 ELSE IF r = 0 THEN Float ELSE Broken

\* A call of a function of the capability: the first one counts.
First(o) == IF outcome = "pending" THEN o ELSE outcome

\* The loop or an element function gives up its part of the count: the last one
\* calls the capability.
CountDown ==
  /\ remaining' = Decremented(remaining)
  /\ outcome' = IF remaining' = 0
                THEN First(IF routine = "any" THEN "aggregate" ELSE "values")
                ELSE outcome

-----------------------------------------------------------------------------
(* The loop.                                                               *)

\* The iterable gives its iterator, or an exception that rejects the capability.
GetIterator == /\ pc = "begin"
               /\ pc' = "lookup"
               /\ UNCHANGED <<routine, idx, shape, reacting, countVars>>

GetIteratorThrows == /\ pc = "begin"
                     /\ pc' = "failed"
                     /\ outcome' = First("exception")
                     /\ UNCHANGED <<routine, idx, shape, reacting, index, values, remaining>>

\* The `resolve` of the constructor is looked up.
Lookup == /\ pc = "lookup"
          /\ pc' = "next"
          /\ UNCHANGED <<routine, idx, shape, reacting, countVars>>

\* The iterator yields an element, and its entry is made.
NextValue == /\ pc = "next"
             /\ idx < MaxElements
             /\ pc' = "resolve"
             /\ values' = IF routine = "race" THEN values ELSE Append(values, Hole)
             /\ UNCHANGED <<routine, idx, shape, reacting, index, remaining, outcome>>

\* Mutant of IteratorEnds: the loop keeps its part of the count.
IteratorEndsKeeping == /\ pc = "next"
                       /\ pc' = "finished"
                       /\ UNCHANGED <<routine, idx, shape, reacting, countVars>>

\* The iterator has no more elements.
IteratorEnds == /\ pc = "next"
                /\ pc' = "finished"
                /\ IF routine = "race" THEN UNCHANGED <<remaining, outcome>> ELSE CountDown
                /\ UNCHANGED <<routine, idx, shape, reacting, index, values>>

\* The iterator throws: it is done, and is not closed.
IteratorThrows == /\ pc = "next"
                  /\ pc' = "failed"
                  /\ outcome' = First("exception")
                  /\ UNCHANGED <<routine, idx, shape, reacting, index, values, remaining>>

\* Mutant of CallThen: the count is not raised for an element that is no promise.
CallThenUncounted(s) ==
  /\ pc = "resolve"
  /\ pc' = "then"
  /\ idx' = idx + 1
  /\ shape' = [shape EXCEPT ![idx + 1] = s]
  /\ index' = [f \in DOMAIN index |->
                 IF f[2] = idx + 1 /\ f[1] \in Counting(routine) THEN idx + 1 ELSE index[f]]
  /\ remaining' = IF routine = "race" \/ s = "thenable" THEN remaining ELSE Incremented(remaining)
  /\ UNCHANGED <<routine, reacting, values, outcome>>

\* The constructor's `resolve` returned an element: the element functions are
\* created, the element is counted, and its `then` is called with them.
CallThen(s) ==
  /\ pc = "resolve"
  /\ pc' = "then"
  /\ idx' = idx + 1
  /\ shape' = [shape EXCEPT ![idx + 1] = s]
  /\ index' = [f \in DOMAIN index |->
                 IF f[2] = idx + 1 /\ f[1] \in Counting(routine) THEN idx + 1 ELSE index[f]]
  /\ remaining' = IF routine = "race" THEN remaining ELSE Incremented(remaining)
  /\ UNCHANGED <<routine, reacting, values, outcome>>

\* The `then` returns; that of a native promise has left the reaction.
ThenReturns == /\ pc = "then"
               /\ pc' = "next"
               /\ reacting' = IF shape[idx] = "promise" THEN reacting \cup {idx} ELSE reacting
               /\ UNCHANGED <<routine, idx, shape, countVars>>

\* `resolve` or its lookup, or a `then`, throws: the iterator is closed.
LoopThrows == /\ pc \in {"lookup", "resolve", "then"}
              /\ pc' = "closing"
              /\ UNCHANGED <<routine, idx, shape, reacting, countVars>>

\* Mutant of CloseIterator: the exception is lost.
CloseSilently == /\ pc = "closing"
                 /\ pc' = "failed"
                 /\ UNCHANGED <<routine, idx, shape, reacting, countVars>>

\* The iterator is closed, and the exception rejects the capability.
CloseIterator == /\ pc = "closing"
                 /\ pc' = "failed"
                 /\ outcome' = First("exception")
                 /\ UNCHANGED <<routine, idx, shape, reacting, index, values, remaining>>

-----------------------------------------------------------------------------
(* The callbacks.                                                          *)

\* Mutant of ElementFunction: a function that was called before is called again.
ElementFunctionAgain(w, i, v) ==
  /\ values' = [values EXCEPT ![i] = [status |-> w, value |-> v]]
  /\ index' = [index EXCEPT ![<<w, i>>] = 0]
  /\ CountDown

\* ecma_promise_all_or_all_settled_handler_cb: each function has an index of its
\* own, also the two functions of one element of Promise.allSettled.
ElementFunction(w, i, v) ==
  IF index[<<w, i>>] = 0
  THEN UNCHANGED countVars
  ELSE /\ values' = [values EXCEPT ![i] = [status |-> w, value |-> v]]
       /\ index' = [index EXCEPT ![<<w, i>>] = 0]
       /\ CountDown

Callback(w, i, v) ==
  IF w \in Counting(routine)
  THEN ElementFunction(w, i, v)
  ELSE /\ outcome' = First(IF w = "resolve" THEN "value" ELSE "reason")
       /\ UNCHANGED <<index, values, remaining>>

\* The script calls a function that one of its `then` was given.
ScriptCall(w, i, v) == /\ i <= idx
                       /\ shape[i] = "thenable"
                       /\ Callback(w, i, v)
                       /\ UNCHANGED loopVars

\* A native promise has settled, and its reaction job runs.  No job runs before the
\* script that called the combinator has ended.
RunReaction(w, i, v) == /\ pc \in {"finished", "failed"}
                        /\ i \in reacting
                        /\ reacting' = reacting \ {i}
                        /\ Callback(w, i, v)
                        /\ UNCHANGED <<routine, pc, idx, shape>>

Loop == \/ GetIterator \/ GetIteratorThrows \/ Lookup
        \/ NextValue \/ IteratorEnds \/ IteratorThrows
        \/ \E s \in Shape : CallThen(s)
        \/ ThenReturns \/ LoopThrows \/ CloseIterator

Next == \/ Loop
        \/ \E w \in Way, i \in Element, v \in Value :
             ScriptCall(w, i, v) \/ RunReaction(w, i, v)

Spec == Init /\ [][Next]_vars

\* The promises among the elements settle, and their jobs run.
FairSpec == Spec /\ \A i \in Element : WF_vars(\E w \in Way, v \in Value : RunReaction(w, i, v))

-----------------------------------------------------------------------------

TypeOK ==
  /\ routine \in Routine
  /\ pc \in {"begin", "lookup", "next", "resolve", "then", "closing", "finished", "failed"}
  /\ idx \in 0 .. MaxElements
  /\ shape \in [Element -> Shape \cup {"none"}]
  /\ reacting \subseteq 1 .. idx
  /\ index \in [Way \X Element -> 0 .. MaxElements]
  /\ values \in Seq(Entry \cup {Hole})
  /\ remaining \in Nat \cup {Float, Broken}
  /\ outcome \in {"pending", "values", "aggregate", "value", "reason", "exception"}

\* Both functions of an element of Promise.allSettled were called.
Twice == routine = "allSettled" /\ \E i \in 1 .. idx : \A w \in Way : index[<<w, i>>] = 0

\* The elements none of whose counting functions was called.
Waiting == {i \in 1 .. idx : \A w \in Counting(routine) : index[<<w, i>>] # 0}

\* The count is that of the elements that are waited for, and one for the loop.
RemainingCounts ==
  ~Twice /\ routine # "race" =>
    remaining = Cardinality(Waiting) + IF pc = "finished" THEN 0 ELSE 1

\* The array of values, or of errors, is handed over only after the loop, and with
\* every entry written: no call of an element function, however early, makes the
\* derived promise settle with an incomplete array.
CompleteResult ==
  outcome \in {"values", "aggregate"} /\ ~Twice =>
    pc = "finished" /\ \A i \in DOMAIN values : values[i] # Hole

\* The derived promise does not stay pending when nobody is left to settle it: all
\* elements of a finished loop have called, or the loop failed.
NobodyWaits ==
  /\ pc = "finished" /\ routine # "race" /\ ~Twice /\ Waiting = {} => outcome # "pending"
  /\ pc = "failed" => outcome # "pending"

\* The comment at ecma-promise-object.c:544 and the assertion at :556: the count is
\* an integer whenever it is raised or lowered.
RemainingIsInteger == remaining # Broken

\* An entry of the array is written once, so the array that the derived promise
\* was settled with does not change under its readers.
EntriesFixed ==
  [][\A i \in DOMAIN values :
       values[i] # Hole /\ ~Twice' => values'[i] = values[i]]_vars

\* A combinator (but race) of promises that all settle settles.
PromisesSettle ==
  (/\ pc = "finished"
   /\ routine # "race"
   /\ \A i \in 1 .. idx : shape[i] = "promise") ~> outcome # "pending"

=============================================================================
