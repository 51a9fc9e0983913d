------------------------------ MODULE Promises ------------------------------
(***************************************************************************)
(* Promises and async functions of jerry-core, and the jobs they enqueue:  *)
(* ecma-promise-object.c, the job processors of ecma-jobqueue.c and the    *)
(* await and exit byte codes of async functions (vm.c, opcodes.c).         *)
(*                                                                         *)
(* The engine is single threaded, but it calls script code in the middle   *)
(* of almost everything it does: an executor, the getter of a `then`       *)
(* property, a handler, a thenable, the functions of a capability made by  *)
(* a foreign constructor.  That code may call any promise operation on     *)
(* any promise before it returns.  The stack records whose call is         *)
(* suspended on whose: its top is the script code that runs, and an action *)
(* is one native function from the script's call to its next return to     *)
(* script code.                                                            *)
(*                                                                         *)
(* An executable object of an async function is named by the promise the   *)
(* function returns, which it keeps in its iterator slot.                  *)
(***************************************************************************)
EXTENDS Naturals, Sequences

CONSTANTS Promise,      \* the promise objects
          AsyncFn,      \* of these, the promises returned by calls of async functions
          Thenable,     \* objects whose `then` is a getter of the script
          Plain,        \* values whose `then` is not callable, or that have none
          Undefined,    \* the value undefined
          TypeError,    \* the exception of a promise resolved with itself
          None,         \* no promise
          Foreign,      \* a capability whose functions are script code
          MaxCalls      \* bound: the operations the script performs

ASSUME ValueAssumption ==
  /\ AsyncFn \subseteq Promise
  /\ Undefined \in Plain /\ TypeError \in Plain
  /\ Promise \cap Thenable = {} /\ Promise \cap Plain = {} /\ Plain \cap Thenable = {}
  /\ None \notin Promise \cup Plain \cup Thenable
  /\ Foreign \notin Promise \cup {None}
  /\ MaxCalls \in Nat

VARIABLES state,        \* the flags IS_PENDING and IS_FULFILLED of each promise
          already,      \* the flag ALREADY_RESOLVED of each promise
          result,       \* the value of each promise
          reactions,    \* the reactions collected by each promise
          pairs,        \* the resolver pairs the script holds: was one of the two called?
          hidden,       \* promises made by await, which the script never sees
          exec,         \* what each async function call is doing
          queue,        \* the job queue (JobFifo)
          stack,        \* the calls in progress, innermost first
          draining,     \* the host is inside jerry_run_jobs
          calls         \* the operations performed so far

promiseVars == <<state, already, result, reactions>>
vars == <<state, already, result, reactions, pairs, hidden, exec, queue, stack, draining, calls>>

Value == Plain \cup Thenable \cup Promise
Capability == Promise \cup {Foreign}

\* A collected reaction: "then" resolves the capability `who` with what its
\* handlers return, "adopt" hands the outcome to the resolvers of `who` (what a
\* promise resolved with a promise leaves on it), "await" resumes `who`.
Reaction == [kind : {"then", "adopt", "await"}, who : Capability,
             ful : {"identity", "user"}, rej : {"thrower", "user"}]

\* A job: one of these with its argument, or "thenable": call the then of `arg`
\* with new resolvers of `who`.
Job == [kind : {"then", "adopt", "await", "thenable"}, who : Capability,
        handler : {"identity", "thrower", "user"}, arg : Value, rejected : BOOLEAN]

\* A call in progress: of a script, an executor or a thenable for the promise
\* `who`, a `then` getter of `arg` while `who` is being resolved with it (for the
\* async function `waiter`, if it is an await), a reaction handler with the
\* capability `who`, the body of the async function `who`, a foreign capability.
Frame == [kind : {"script", "executor", "getter", "handler", "thencall", "async", "foreign"},
          who : Capability \cup {None}, arg : Value, waiter : AsyncFn \cup {None}]

Call(k, p) == [kind |-> k, who |-> p, arg |-> Undefined, waiter |-> None]

\* The job a reaction becomes when its promise settles (trigger_reactions): a
\* missing handler is the boolean true or false.
JobOf(r, rejected, v) ==
  [kind |-> r.kind, who |-> r.who, handler |-> IF rejected THEN r.rej ELSE r.ful,
   arg |-> v, rejected |-> rejected]

ThenableJob(p, v) ==
  [kind |-> "thenable", who |-> p, handler |-> "identity", arg |-> v, rejected |-> FALSE]

-----------------------------------------------------------------------------

Init == /\ state = [p \in Promise |-> "unborn"]
        /\ already = [p \in Promise |-> FALSE]
        /\ result = [p \in Promise |-> Undefined]
        /\ reactions = [p \in Promise |-> <<>>]
        /\ pairs = [p \in Promise |-> <<>>]
        /\ hidden = {}
        /\ exec = [x \in AsyncFn |-> "idle"]
        /\ queue = <<>>
        /\ stack = <<>>
        /\ draining = FALSE
        /\ calls = 0

Top == Head(stack)
Running(k) == stack # <<>> /\ Top.kind = k
Settled(p) == state[p] \in {"fulfilled", "rejected"}

\* What the script can pass to an operation.
Known == Plain \cup Thenable \cup {p \in Promise \ hidden : state[p] # "unborn"}

\* Promise objects that do not exist yet, for the operations that create one.
Unborn == {p \in Promise \ AsyncFn : state[p] = "unborn"}

\* The running script code performs one more operation.
ScriptCalls == /\ stack # <<>>
               /\ calls < MaxCalls
               /\ calls' = calls + 1

-----------------------------------------------------------------------------
(* The internal operations.  Each leaves `stk` as the calls in progress, and
   appends to the jobs `que` (the queue, without the job being executed).  *)

\* A promise comes into being; the suspension of the async function w, if there is
\* one (its promise comes into being at its first await).
Born(w) == IF w = None \/ state[w] # "unborn" THEN state ELSE [state EXCEPT ![w] = "pending"]
Suspended(w) == IF w = None THEN exec ELSE [exec EXCEPT ![w] = "awaiting"]

AwaitReaction(x) == [kind |-> "await", who |-> x, ful |-> "identity", rej |-> "thrower"]

\* Mutants of Settle: the reactions are destroyed before they are triggered; they
\* stay on the promise; the absence of an awaiting function is not noticed.
SettleDropping(p, st, v, w, que) ==
  /\ state' = [Born(w) EXCEPT ![p] = st]
  /\ result' = [result EXCEPT ![p] = v]
  /\ queue' = IF w = None THEN que ELSE Append(que, JobOf(AwaitReaction(w), st = "rejected", v))
  /\ reactions' = [reactions EXCEPT ![p] = <<>>]

SettleKeeping(p, st, v, w, que) ==
  /\ state' = [Born(w) EXCEPT ![p] = st]
  /\ result' = [result EXCEPT ![p] = v]
  /\ queue' = que \o [i \in 1 .. Len(reactions[p]) |->
                          JobOf(reactions[p][i], st = "rejected", v)]
                   \o (IF w = None THEN <<>> ELSE <<JobOf(AwaitReaction(w), st = "rejected", v)>>)
  /\ UNCHANGED reactions

SettleResuming(p, st, v, w, que) ==
  /\ state' = [Born(w) EXCEPT ![p] = st]
  /\ result' = [result EXCEPT ![p] = v]
  /\ queue' = Append(que, JobOf(AwaitReaction(w), st = "rejected", v))
  /\ reactions' = [reactions EXCEPT ![p] = <<>>]

\* ecma_promise_set_state, ecma_promise_set_result, ecma_promise_trigger_reactions;
\* then w, which awaits the promise that just settled, is scheduled.
Settle(p, st, v, w, que) ==
  /\ state' = [Born(w) EXCEPT ![p] = st]
  /\ result' = [result EXCEPT ![p] = v]
  /\ queue' = que \o [i \in 1 .. Len(reactions[p]) |->
                          JobOf(reactions[p][i], st = "rejected", v)]
                   \o (IF w = None THEN <<>> ELSE <<JobOf(AwaitReaction(w), st = "rejected", v)>>)
  /\ reactions' = [reactions EXCEPT ![p] = <<>>]

\* ecma_fulfill_promise.  The `then` of a native promise is not script code; a
\* getter suspends the operation, and an action Getter... below completes it.  A
\* promise made on the spot (Promise.resolve, an async function that returns
\* without an await) exists from here on.
FulfillPromise(p, v, stk, que) ==
  \/ /\ v = p
     /\ Settle(p, "rejected", TypeError, None, que)
     /\ stack' = stk
  \/ /\ v \in Plain
     /\ Settle(p, "fulfilled", v, None, que)
     /\ stack' = stk
  \/ /\ v \in Promise \ {p}
     /\ state' = Born(p)
     /\ queue' = Append(que, ThenableJob(p, v))
     /\ stack' = stk
     /\ UNCHANGED <<result, reactions>>
  \/ /\ v \in Thenable
     /\ state' = Born(p)
     /\ stack' = <<[kind |-> "getter", who |-> p, arg |-> v, waiter |-> None]>> \o stk
     /\ queue' = que
     /\ UNCHANGED <<result, reactions>>

\* ecma_reject_promise
RejectPromise(p, e, stk, que) == Settle(p, "rejected", e, None, que) /\ stack' = stk

\* Mutants of the two operations below: the flag is not looked at; it is not set.
FulfillUnchecked(p, v, stk, que) ==
  already' = [already EXCEPT ![p] = TRUE] /\ FulfillPromise(p, v, stk, que)

RejectUnflagged(p, e, stk, que) ==
  IF already[p]
  THEN stack' = stk /\ queue' = que /\ UNCHANGED promiseVars
  ELSE RejectPromise(p, e, stk, que) /\ UNCHANGED already

\* ecma_fulfill_promise_with_checks and ecma_reject_promise_with_checks
FulfillWithChecks(p, v, stk, que) ==
  IF already[p]
  THEN stack' = stk /\ queue' = que /\ UNCHANGED promiseVars
  ELSE already' = [already EXCEPT ![p] = TRUE] /\ FulfillPromise(p, v, stk, que)

RejectWithChecks(p, e, stk, que) ==
  IF already[p]
  THEN stack' = stk /\ queue' = que /\ UNCHANGED promiseVars
  ELSE already' = [already EXCEPT ![p] = TRUE] /\ RejectPromise(p, e, stk, que)

\* ecma_promise_perform_then and ecma_promise_async_then: a pending promise
\* collects the reaction, a settled one enqueues its job at once.
React(p, r, que) ==
  IF state[p] = "pending"
  THEN /\ reactions' = [reactions EXCEPT ![p] = Append(@, r)]
       /\ queue' = que
  ELSE /\ queue' = Append(que, JobOf(r, state[p] = "rejected", result[p]))
       /\ UNCHANGED reactions

-----------------------------------------------------------------------------
(* What script code does: it is on top of the stack.                       *)

\* new Promise (executor): the executor is called with the first resolver pair.
NewPromise(p) ==
  /\ ScriptCalls
  /\ p \in Unborn
  /\ state' = [state EXCEPT ![p] = "pending"]
  /\ pairs' = [pairs EXCEPT ![p] = <<FALSE>>]
  /\ stack' = <<Call("executor", p)>> \o stack
  /\ UNCHANGED <<already, result, reactions, hidden, exec, queue, draining>>

\* A call of a resolve or a reject function the script holds.
CallResolve(p, i, v) ==
  /\ ScriptCalls
  /\ i \in DOMAIN pairs[p]
  /\ v \in Known
  /\ pairs' = [pairs EXCEPT ![p][i] = TRUE]
  /\ FulfillWithChecks(p, v, stack, queue)
  /\ UNCHANGED <<hidden, exec, draining>>

CallReject(p, i, e) ==
  /\ ScriptCalls
  /\ i \in DOMAIN pairs[p]
  /\ e \in Plain
  /\ pairs' = [pairs EXCEPT ![p][i] = TRUE]
  /\ RejectWithChecks(p, e, stack, queue)
  /\ UNCHANGED <<hidden, exec, draining>>

\* Promise.resolve (v) of a value that is not a promise: the resolver pair of the
\* new promise stays inside its capability.
PromiseResolve(p, v) ==
  /\ ScriptCalls
  /\ p \in Unborn
  /\ v \in Plain \cup Thenable
  /\ already' = [already EXCEPT ![p] = TRUE]
  /\ FulfillPromise(p, v, stack, queue)
  /\ UNCHANGED <<pairs, hidden, exec, draining>>

\* p.then (...): the derived promise, or a foreign capability, is `cap`.
Then(p, ful, rej, cap) ==
  /\ ScriptCalls
  /\ p \in Promise \cap Known
  /\ cap \in Unborn \cup {Foreign}
  /\ state' = IF cap = Foreign THEN state ELSE [state EXCEPT ![cap] = "pending"]
  /\ React(p, [kind |-> "then", who |-> cap, ful |-> ful, rej |-> rej], queue)
  /\ UNCHANGED <<already, result, pairs, hidden, exec, stack, draining>>

\* A call of an async function runs its body at once; there is no executable
\* object and no promise before the first await.
StartAsync(x) ==
  /\ ScriptCalls
  /\ x \in AsyncFn
  /\ exec[x] = "idle"
  /\ exec' = [exec EXCEPT ![x] = "running"]
  /\ stack' = <<Call("async", x)>> \o stack
  /\ UNCHANGED <<promiseVars, pairs, hidden, queue, draining>>

\* await v, for a promise v.  The body is suspended, and at its first await the
\* promise of the function comes into being.
AwaitPromise(v) ==
  /\ ScriptCalls
  /\ Running("async")
  /\ v \in Promise \cap Known
  /\ React(v, AwaitReaction(Top.who), queue)
  /\ state' = Born(Top.who)
  /\ exec' = [exec EXCEPT ![Top.who] = "awaiting"]
  /\ stack' = Tail(stack)
  /\ UNCHANGED <<already, result, pairs, hidden, draining>>

\* await v, for a value without `then`: Promise.resolve (v) is fulfilled and
\* unreachable, so that only the job remains of it.
AwaitPlain(v) ==
  /\ ScriptCalls
  /\ Running("async")
  /\ v \in Plain
  /\ queue' = Append(queue, JobOf(AwaitReaction(Top.who), FALSE, v))
  /\ state' = Born(Top.who)
  /\ exec' = [exec EXCEPT ![Top.who] = "awaiting"]
  /\ stack' = Tail(stack)
  /\ UNCHANGED <<already, result, reactions, pairs, hidden, draining>>

\* await v, for a thenable v: the getter runs first, inside Promise.resolve (v).
AwaitThenable(q, v) ==
  /\ ScriptCalls
  /\ Running("async")
  /\ v \in Thenable
  /\ q \in Unborn
  /\ state' = [state EXCEPT ![q] = "pending"]
  /\ already' = [already EXCEPT ![q] = TRUE]
  /\ hidden' = hidden \cup {q}
  /\ stack' = <<[kind |-> "getter", who |-> q, arg |-> v, waiter |-> Top.who]>> \o Tail(stack)
  /\ UNCHANGED <<result, reactions, pairs, exec, queue, draining>>

\* Promise.reject (e): a promise born rejected.
PromiseReject(p, e) ==
  /\ ScriptCalls
  /\ p \in Unborn
  /\ e \in Plain
  /\ already' = [already EXCEPT ![p] = TRUE]
  /\ RejectPromise(p, e, stack, queue)
  /\ UNCHANGED <<pairs, hidden, exec, draining>>

-----------------------------------------------------------------------------
(* Returns of script code into the engine.                                 *)

\* A script ends (when it throws, the exception goes to the host), an executor, a
\* thenable or a foreign capability returns: the engine has nothing left to do.
Return ==
  /\ Running("script") \/ Running("executor") \/ Running("thencall") \/ Running("foreign")
  /\ stack' = Tail(stack)
  /\ UNCHANGED <<promiseVars, pairs, hidden, exec, queue, draining, calls>>

\* An executor or a thenable throws: the promise it was called for is rejected,
\* unless one of its resolvers was called already.
ResolverThrow(e) ==
  /\ Running("executor") \/ Running("thencall")
  /\ e \in Plain
  /\ RejectWithChecks(Top.who, e, Tail(stack), queue)
  /\ UNCHANGED <<pairs, hidden, exec, draining, calls>>

\* The getter of `then` throws, returns something callable, or something else.
GetterThrow(e) ==
  /\ Running("getter")
  /\ e \in Plain
  /\ Settle(Top.who, "rejected", e, Top.waiter, queue)
  /\ exec' = Suspended(Top.waiter)
  /\ stack' = Tail(stack)
  /\ UNCHANGED <<already, pairs, hidden, draining, calls>>

GetterCallable ==
  /\ Running("getter")
  /\ queue' = Append(queue, ThenableJob(Top.who, Top.arg))
  /\ reactions' = IF Top.waiter = None THEN reactions
                  ELSE [reactions EXCEPT ![Top.who] = Append(@, AwaitReaction(Top.waiter))]
  /\ state' = Born(Top.waiter)
  /\ exec' = Suspended(Top.waiter)
  /\ stack' = Tail(stack)
  /\ UNCHANGED <<already, result, pairs, hidden, draining, calls>>

GetterNotCallable ==
  /\ Running("getter")
  /\ Settle(Top.who, "fulfilled", Top.arg, Top.waiter, queue)
  /\ exec' = Suspended(Top.waiter)
  /\ stack' = Tail(stack)
  /\ UNCHANGED <<already, pairs, hidden, draining, calls>>

\* A reaction handler returns or throws: its capability is resolved or rejected.
HandlerReturn(v) ==
  /\ Running("handler")
  /\ v \in Known
  /\ IF Top.who = Foreign
     THEN /\ stack' = <<Call("foreign", Foreign)>> \o Tail(stack)
          /\ UNCHANGED <<promiseVars, queue>>
     ELSE FulfillWithChecks(Top.who, v, Tail(stack), queue)
  /\ UNCHANGED <<pairs, hidden, exec, draining, calls>>

HandlerThrow(e) ==
  /\ Running("handler")
  /\ e \in Plain
  /\ IF Top.who = Foreign
     THEN /\ stack' = <<Call("foreign", Foreign)>> \o Tail(stack)
          /\ UNCHANGED <<promiseVars, queue>>
     ELSE RejectWithChecks(Top.who, e, Tail(stack), queue)
  /\ UNCHANGED <<pairs, hidden, exec, draining, calls>>

\* The body of an async function returns or throws (VM_OC_ASYNC_EXIT): its promise
\* is settled without looking at ALREADY_RESOLVED, which stays clear.
AsyncReturn(v) ==
  /\ Running("async")
  /\ v \in Known
  /\ FulfillPromise(Top.who, v, Tail(stack), queue)
  /\ exec' = [exec EXCEPT ![Top.who] = "done"]
  /\ UNCHANGED <<already, pairs, hidden, draining, calls>>

AsyncThrow(e) ==
  /\ Running("async")
  /\ e \in Plain
  /\ RejectPromise(Top.who, e, Tail(stack), queue)
  /\ exec' = [exec EXCEPT ![Top.who] = "done"]
  /\ UNCHANGED <<already, pairs, hidden, draining, calls>>

\* A foreign capability throws: the job fails, and the run of jobs ends.
ForeignThrow ==
  /\ Running("foreign")
  /\ stack' = Tail(stack)
  /\ draining' = FALSE
  /\ UNCHANGED <<promiseVars, pairs, hidden, exec, queue, calls>>

-----------------------------------------------------------------------------
(* The host and the jobs.                                                  *)

\* The host runs a script, or enters jerry_run_jobs.
StartScript ==
  /\ stack = <<>>
  /\ ~draining
  /\ calls < MaxCalls
  /\ calls' = calls + 1
  /\ stack' = <<Call("script", None)>>
  /\ UNCHANGED <<promiseVars, pairs, hidden, exec, queue, draining>>

RunJobs ==
  /\ stack = <<>>
  /\ ~draining
  /\ draining' = TRUE
  /\ UNCHANGED <<promiseVars, pairs, hidden, exec, queue, stack, calls>>

EndRun ==
  /\ stack = <<>>
  /\ draining
  /\ queue = <<>>
  /\ draining' = FALSE
  /\ UNCHANGED <<promiseVars, pairs, hidden, exec, queue, stack, calls>>

\* A turn of ecma_process_all_enqueued_jobs executes a job of kind k.  The job is
\* unlinked first: what it enqueues goes behind the jobs that remain.
Turn(k) == /\ stack = <<>>
           /\ draining
           /\ queue # <<>>
           /\ Head(queue).kind = k
           /\ UNCHANGED <<hidden, draining, calls>>

\* ecma_process_promise_reaction_job: a missing handler passes the argument on to
\* the capability, a callable one is called.
ReactionJob ==
  LET job == Head(queue) IN
  /\ Turn("then")
  /\ \/ /\ job.handler = "user"
        /\ stack' = <<Call("handler", job.who)>>
        /\ queue' = Tail(queue)
        /\ UNCHANGED promiseVars
     \/ /\ job.handler # "user"
        /\ job.who = Foreign
        /\ stack' = <<Call("foreign", Foreign)>>
        /\ queue' = Tail(queue)
        /\ UNCHANGED promiseVars
     \/ /\ job.handler = "identity"
        /\ job.who # Foreign
        /\ FulfillWithChecks(job.who, job.arg, <<>>, Tail(queue))
     \/ /\ job.handler = "thrower"
        /\ job.who # Foreign
        /\ RejectWithChecks(job.who, job.arg, <<>>, Tail(queue))
  /\ UNCHANGED <<pairs, exec>>

\* The same for the reaction that ResolveThenableJob below leaves on a promise:
\* its handlers are native resolvers, and nobody can reach its capability.
AdoptJob ==
  LET job == Head(queue) IN
  /\ Turn("adopt")
  /\ IF job.rejected
     THEN RejectWithChecks(job.who, job.arg, <<>>, Tail(queue))
     ELSE FulfillWithChecks(job.who, job.arg, <<>>, Tail(queue))
  /\ UNCHANGED <<pairs, exec>>

\* ecma_process_promise_async_reaction_job: the body goes on, with the value of
\* the await or by throwing its reason.
AsyncReactionJob ==
  LET job == Head(queue) IN
  /\ Turn("await")
  /\ exec' = [exec EXCEPT ![job.who] = "running"]
  /\ stack' = <<Call("async", job.who)>>
  /\ queue' = Tail(queue)
  /\ UNCHANGED <<promiseVars, pairs>>

\* Mutant of ResolveThenableJob: while the promise it waits for is pending, the job
\* stays at the head of the queue and is tried again.
PollThenableJob ==
  LET job == Head(queue) IN
  /\ Turn("thenable")
  /\ already' = [already EXCEPT ![job.who] = FALSE]
  /\ IF job.arg \in Promise /\ state[job.arg] = "pending"
     THEN UNCHANGED <<reactions, pairs, stack, queue>>
     ELSE IF job.arg \in Promise
     THEN /\ React(job.arg, [kind |-> "adopt", who |-> job.who,
                             ful |-> "identity", rej |-> "thrower"], Tail(queue))
          /\ UNCHANGED <<pairs, stack>>
     ELSE /\ pairs' = [pairs EXCEPT ![job.who] = Append(@, FALSE)]
          /\ stack' = <<Call("thencall", job.who)>>
          /\ queue' = Tail(queue)
          /\ UNCHANGED reactions
  /\ UNCHANGED <<state, result, exec>>

\* ecma_process_promise_resolve_thenable_job: ALREADY_RESOLVED is cleared, and
\* `then` is called with a new resolver pair.  The `then` of a promise is native.
ResolveThenableJob ==
  LET job == Head(queue) IN
  /\ Turn("thenable")
  /\ already' = [already EXCEPT ![job.who] = FALSE]
  /\ IF job.arg \in Promise
     THEN /\ React(job.arg, [kind |-> "adopt", who |-> job.who,
                             ful |-> "identity", rej |-> "thrower"], Tail(queue))
          /\ UNCHANGED <<pairs, stack>>
     ELSE /\ pairs' = [pairs EXCEPT ![job.who] = Append(@, FALSE)]
          /\ stack' = <<Call("thencall", job.who)>>
          /\ queue' = Tail(queue)
          /\ UNCHANGED reactions
  /\ UNCHANGED <<state, result, exec>>

-----------------------------------------------------------------------------

ScriptStep ==
  \/ \E p \in Promise : NewPromise(p)
  \/ \E p \in Promise : \E i \in DOMAIN pairs[p] :
       \/ \E v \in Value : CallResolve(p, i, v)
       \/ \E e \in Plain : CallReject(p, i, e)
  \/ \E p \in Promise, v \in Value : PromiseResolve(p, v)
  \/ \E p \in Promise, e \in Plain : PromiseReject(p, e)
  \/ \E p \in Promise, ful \in {"identity", "user"}, rej \in {"thrower", "user"},
        cap \in Capability : Then(p, ful, rej, cap)
  \/ \E x \in AsyncFn : StartAsync(x)
  \/ \E v \in Value : AwaitPromise(v) \/ AwaitPlain(v)
  \/ \E q \in Promise, v \in Value : AwaitThenable(q, v)

ReturnStep ==
  \/ Return
  \/ GetterCallable
  \/ GetterNotCallable
  \/ ForeignThrow
  \/ \E e \in Plain : ResolverThrow(e) \/ GetterThrow(e) \/ HandlerThrow(e) \/ AsyncThrow(e)
  \/ \E v \in Value : HandlerReturn(v) \/ AsyncReturn(v)

JobStep == ReactionJob \/ AdoptJob \/ AsyncReactionJob \/ ResolveThenableJob

Next == \/ ScriptStep
        \/ ReturnStep
        \/ JobStep
        \/ StartScript \/ RunJobs \/ EndRun

Spec == Init /\ [][Next]_vars

\* Script code returns, and a run of jobs goes on to its next job.  The host is
\* not obliged to start a run.
FairSpec == Spec /\ WF_vars(ReturnStep) /\ WF_vars(JobStep) /\ WF_vars(EndRun)

-----------------------------------------------------------------------------

TypeOK ==
  /\ state \in [Promise -> {"unborn", "pending", "fulfilled", "rejected"}]
  /\ already \in [Promise -> BOOLEAN]
  /\ result \in [Promise -> Value]
  /\ reactions \in [Promise -> Seq(Reaction)]
  /\ pairs \in [Promise -> Seq(BOOLEAN)]
  /\ hidden \subseteq Promise
  /\ exec \in [AsyncFn -> {"idle", "running", "awaiting", "done"}]
  /\ queue \in Seq(Job)
  /\ stack \in Seq(Frame)
  /\ draining \in BOOLEAN
  /\ calls \in 0 .. MaxCalls

\* Somebody will finish the resolution of p: the job that calls `then` is queued,
\* or the getter of `then` is running.
Queued(k, p) == {i \in DOMAIN queue : queue[i].kind = k /\ queue[i].who = p}
Called(k, p) == {i \in DOMAIN stack : stack[i].kind = k /\ stack[i].who = p}
Collected(k, p) ==
  UNION {{<<q, i>> : i \in {i \in DOMAIN reactions[q] : reactions[q][i].kind = k /\ reactions[q][i].who = p}} :
            q \in Promise}

Resolving(p) == Queued("thenable", p) # {} \/ Called("getter", p) # {}

\* A promise is resolved by one value at a time, and is pending meanwhile: no
\* getter and no thenable ever comes back to a promise that is settled, which is
\* what the assertions at ecma-promise-object.c:195 and 247 demand.
OneResolution ==
  \A p \in Promise :
    /\ Resolving(p) => state[p] = "pending"
    /\ \A i, j \in Queued("thenable", p) : i = j
    /\ \A i, j \in Called("getter", p) : i = j
    /\ Queued("thenable", p) = {} \/ Called("getter", p) = {}

\* ALREADY_RESOLVED tells the truth: a pending promise that turns its resolvers
\* away is being resolved, so it cannot stay pending for ever because of the flag;
\* and a promise that has resolvers somewhere and is settled turns them away.
AlreadyResolved ==
  \A p \in Promise :
    /\ state[p] = "pending" /\ already[p] => Resolving(p)
    /\ Settled(p) /\ ~already[p] =>
         /\ pairs[p] = <<>>
         /\ \A k \in {"then", "adopt"} : Queued(k, p) = {} /\ Collected(k, p) = {}
         /\ \A k \in {"executor", "thencall", "handler"} : Called(k, p) = {}

\* What will settle p: jobs, collected reactions and running handlers.
JobsFor(p) == UNION {{<<k, "queue", i>> : i \in Queued(k, p)} : k \in {"then", "adopt"}}
ReactionsFor(p) == UNION {{<<k, "promise", c>> : c \in Collected(k, p)} : k \in {"then", "adopt"}}
HandlersFor(p) == {<<"handler", "stack", i>> : i \in Called("handler", p)}
Custodians(p) == JobsFor(p) \cup ReactionsFor(p) \cup HandlersFor(p)

\* A promise that is pending, that is not being resolved and whose resolvers the script
\* does not hold is waited for by exactly one reaction, job or handler that will settle
\* it, or belongs to an unfinished async function.
Owned(p) ==
  state[p] = "pending" /\ ~Resolving(p) /\ pairs[p] = <<>> =>
    \/ p \in AsyncFn /\ exec[p] # "done" /\ Custodians(p) = {}
    \/ \E c \in Custodians(p) : Custodians(p) = {c}

\* An async function that awaits is resumed exactly once: one reaction or job
\* holds its executable object, the reaction at a promise that is not settled yet, and
\* nobody holds one that runs or has finished.
ResumedOnce ==
  \A x \in AsyncFn :
    LET holders == {<<"queue", i>> : i \in Queued("await", x)}
                   \cup {<<"promise", c>> : c \in Collected("await", x)}
    IN  IF exec[x] = "awaiting"
        THEN /\ \E h \in holders : holders = {h}
             /\ \A q \in Promise : Settled(q) => reactions[q] = <<>>
             /\ Called("async", x) = {}
        ELSE holders = {}

\* The await of an async function ends, whatever the jobs before it do, if the
\* promise is settled and the run of jobs is not ended by a failing job.
AwaitEnds ==
  \A x \in AsyncFn :
    draining /\ Queued("await", x) # {} ~> exec[x] = "running" \/ ~draining

\* A promise that is being resolved with a thenable gets out of that state.
ResolutionEnds ==
  \A p \in Promise :
    draining /\ Resolving(p) ~> ~Resolving(p) \/ ~draining

=============================================================================
