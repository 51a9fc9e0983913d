---------------------------- MODULE PromisesHost ----------------------------
(***************************************************************************)
(* Promises as an embedder uses them: jerry_promise, jerry_promise_resolve *)
(* and jerry_promise_reject (jerryscript.c).  The host calls them between  *)
(* scripts, or from a native function that a script has called.  They go   *)
(* through the same checks as the resolvers of the script; the byte code   *)
(* that settles the promise of an async function does not.                 *)
(***************************************************************************)
EXTENDS Promises

CONSTANT Settleable     \* the promises that the host resolves and rejects itself

\* The host leaves the promises of async functions alone.  Nothing refuses them, but the
\* end of an async function settles its promise without looking at the flag.
ASSUME SettleableAssumption == Settleable \subseteq Promise \ AsyncFn

HostCalls == /\ stack # <<>> \/ ~draining
             /\ calls < MaxCalls
             /\ calls' = calls + 1

\* jerry_promise: a promise whose resolvers nobody holds.
HostPromise(p) ==
  /\ HostCalls
  /\ p \in Unborn \cap Settleable
  /\ state' = [state EXCEPT ![p] = "pending"]
  /\ UNCHANGED <<already, result, reactions, pairs, hidden, exec, queue, stack, draining>>

\* Mutant of HostResolve: the checks are left out.
HostFulfill(p, v) ==
  /\ HostCalls
  /\ p \in Settleable \cap Known
  /\ v \in Known
  /\ FulfillPromise(p, v, stack, queue)
  /\ UNCHANGED <<already, pairs, hidden, exec, draining>>

\* jerry_promise_resolve and jerry_promise_reject
HostResolve(p, v) ==
  /\ HostCalls
  /\ p \in Settleable \cap Known
  /\ v \in Known
  /\ FulfillWithChecks(p, v, stack, queue)
  /\ UNCHANGED <<pairs, hidden, exec, draining>>

HostReject(p, e) ==
  /\ HostCalls
  /\ p \in Settleable \cap Known
  /\ e \in Plain
  /\ RejectWithChecks(p, e, stack, queue)
  /\ UNCHANGED <<pairs, hidden, exec, draining>>

HostNext == \/ Next
            \/ \E p \in Promise : HostPromise(p)
            \/ \E p \in Promise, v \in Value : HostResolve(p, v)
            \/ \E p \in Promise, e \in Plain : HostReject(p, e)

HostSpec == Init /\ [][HostNext]_vars

-----------------------------------------------------------------------------

\* No promise is orphaned: somebody is left who will settle it; for the promises of the
\* host that is the host.
NoOrphan == \A p \in Promise \ Settleable : Owned(p)

\* The assertions at ecma-promise-object.c:195 and 247: no promise is settled when
\* its resolution starts, so that a settled promise never changes again.
AssertedPending ==
  [][\A p \in Promise :
       Settled(p) => state'[p] = state[p] /\ result'[p] = result[p]]_vars

=============================================================================
