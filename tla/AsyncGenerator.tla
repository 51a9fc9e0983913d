--------------------------- MODULE AsyncGenerator ---------------------------
(***************************************************************************)
(* An async generator object of jerry-core: its queue of requests, the     *)
(* jobs that serve them, and yield* (ecma-async-generator-object.c, the    *)
(* async jobs of ecma-jobqueue.c, the byte codes in vm.c and opcodes.c).   *)
(*                                                                         *)
(* The body of the generator serves one request at a time, the head of the *)
(* queue.  Script code runs in the middle of almost every step (the body,  *)
(* the methods and getters of the inner iterator of a yield*, the getter   *)
(* of `then` on the object a request is answered with) and may make        *)
(* further requests there.  The stack holds the calls in progress, and an  *)
(* action is the native code from one return of script code to the next    *)
(* call of it.                                                             *)
(*                                                                         *)
(* While the generator is suspended, somebody must remember to resume it:  *)
(* a promise it awaits, a job, or nobody if there is no request.           *)
(***************************************************************************)
EXTENDS Naturals, Sequences, FiniteSets

CONSTANT MaxRequests    \* bound: the requests the scripts make

ASSUME RequestAssumption == MaxRequests \in Nat

VARIABLES tasks,        \* the list of requests from u3.head on
          called,       \* the flag ECMA_ASYNC_GENERATOR_CALLED
          completed,    \* the flag ECMA_EXECUTABLE_OBJECT_COMPLETED
          doAwait,      \* the flag ECMA_EXECUTABLE_OBJECT_DO_AWAIT_OR_YIELD
          state,        \* the await state, the bits above the flags
          iterator,     \* the object has an inner iterator (yield*)
          awaited,      \* the number of pending promises whose reaction resumes it
          jobs,         \* its jobs in the job queue
          stack,        \* the calls in progress, innermost first
          asked,        \* the requests made so far; a request is named by its number
          answered,     \* history: the answer of each request
          overwritten   \* history: an exception was raised while another was pending

flags == <<called, completed, doAwait, state, iterator>>
vars == <<tasks, flags, awaited, jobs, stack, asked, answered, overwritten>>

Operation == {"next", "throw", "return"}
Request == 1 .. MaxRequests

\* fresh: operation_value still holds the value of the request
Task == [id : Request, op : Operation, fresh : BOOLEAN]

\* "yieldNext" is the number zero, so that it also stands for cleared bits;
\* "invalid" is what a change from an unexpected state leaves.
YieldState == {"yieldNext", "yieldNextReturn", "yieldReturn", "yieldNextValue",
               "yieldOperation", "yieldClose"}
AwaitState == YieldState \cup {"forClose", "forNext", "invalid"}

\* Script code in progress: an ordinary script, the body, the getter of `then` when
\* a request is answered by the body ("yielding"), by a yield* ("passing") or at the
\* end ("closing"), the methods and getters of the inner iterator, the getters of an
\* iterator result.  "start", "run" and "rejecting" are native code between two actions.
Script == {"script", "body", "yielding", "passing", "closing", "next", "throw", "return",
           "close", "getThrow", "getReturn", "getClose", "result"}
Native == {"start", "run", "rejecting"}

Running(k) == stack # <<>> /\ Head(stack) = k
ScriptRuns == stack # <<>> /\ Head(stack) \in Script
Calls(frames) == {i \in DOMAIN stack : stack[i] \in frames}

Init == /\ tasks = <<>>
        /\ called = FALSE
        /\ completed = FALSE
        /\ doAwait = FALSE
        /\ state = "yieldNext"
        /\ iterator = FALSE
        /\ awaited = 0
        /\ jobs = <<>>
        /\ stack = <<>>
        /\ asked = 0
        /\ answered = [r \in Request |-> "none"]
        /\ overwritten = FALSE

-----------------------------------------------------------------------------
(* The internal operations.                                                *)

\* ECMA_AWAIT_CHANGE_STATE exchanges two states with an exclusive or, and the byte
\* codes of for-await set one with an or: both rely on the state before.
Changed(from, to) == IF state = from THEN to ELSE "invalid"

\* ecma_promise_async_await: a pending promise takes the reaction.  One that is
\* settled enqueues the job at once, as if it settled next.
Await == awaited' = awaited + 1

\* The head of the list has handed out its value.
Consumed == [tasks EXCEPT ![1].fresh = FALSE]

Answered(r, a) == [answered EXCEPT ![r] = a]

\* The body goes on, with a value, a throw or a return; the flags are cleared.
ResumeBody(ts, stk) == /\ doAwait' = FALSE
                       /\ state' = "yieldNext"
                       /\ iterator' = FALSE
                       /\ tasks' = ts
                       /\ stack' = <<"body">> \o stk
                       /\ UNCHANGED <<called, completed>>

\* The body goes on by throwing an exception of the inner iterator.
Abort(ts) == ResumeBody(ts, Tail(stack)) /\ UNCHANGED <<awaited, answered>>

\* ecma_async_generator_finalize answers the request at the head: a value or an
\* error of the body, or, further down the list, what its operation asks for.
AnswerLast(ts, outcome, stk) ==
  /\ answered' = Answered(Head(ts).id, outcome)
  /\ tasks' = ts
  /\ stack' = <<IF outcome = "error" THEN "rejecting" ELSE "closing">> \o stk

\* The executable object has completed.
Complete(ts, outcome, stk) == /\ completed' = TRUE
                              /\ AnswerLast(ts, outcome, stk)
                              /\ UNCHANGED <<called, doAwait, state, iterator, awaited, jobs>>

-----------------------------------------------------------------------------
(* Requests, and what serves them.                                         *)

\* Mutants of Ask: a request made while another one is served enqueues a job, too; a
\* request overtakes those that wait.
AskAlwaysJob(op) ==
  /\ ScriptRuns
  /\ asked < MaxRequests
  /\ asked' = asked + 1
  /\ IF completed
     THEN /\ answered' = Answered(asked', IF op = "throw" THEN "error" ELSE "done")
          /\ UNCHANGED <<tasks, called, jobs, stack>>
     ELSE /\ tasks' = Append(tasks, [id |-> asked', op |-> op, fresh |-> TRUE])
          /\ called' = TRUE
          /\ stack' = IF tasks = <<>> /\ ~called THEN <<"start">> \o stack ELSE stack
          /\ jobs' = IF called THEN Append(jobs, "generator") ELSE jobs
          /\ UNCHANGED answered
  /\ UNCHANGED <<completed, doAwait, state, iterator, awaited, overwritten>>

AskInFront(op) ==
  /\ ScriptRuns
  /\ asked < MaxRequests
  /\ asked' = asked + 1
  /\ IF completed
     THEN /\ answered' = Answered(asked', IF op = "throw" THEN "error" ELSE "done")
          /\ UNCHANGED <<tasks, called, jobs, stack>>
     ELSE LET task == [id |-> asked', op |-> op, fresh |-> TRUE] IN
          /\ tasks' = IF tasks = <<>> THEN <<task>> ELSE <<Head(tasks), task>> \o Tail(tasks)
          /\ called' = TRUE
          /\ stack' = IF tasks = <<>> /\ ~called THEN <<"start">> \o stack ELSE stack
          /\ jobs' = IF tasks = <<>> /\ called THEN Append(jobs, "generator") ELSE jobs
          /\ UNCHANGED answered
  /\ UNCHANGED <<completed, doAwait, state, iterator, awaited, overwritten>>

\* gen.next (v), gen.throw (e), gen.return (v): a completed generator answers on the
\* spot; a request joins the list; the first request of all runs the body at once,
\* a later one that finds the list empty enqueues a job.
Ask(op) ==
  /\ ScriptRuns
  /\ asked < MaxRequests
  /\ asked' = asked + 1
  /\ IF completed
     THEN /\ answered' = Answered(asked', IF op = "throw" THEN "error" ELSE "done")
          /\ UNCHANGED <<tasks, called, jobs, stack>>
     ELSE /\ tasks' = Append(tasks, [id |-> asked', op |-> op, fresh |-> TRUE])
          /\ called' = TRUE
          /\ stack' = IF tasks = <<>> /\ ~called THEN <<"start">> \o stack ELSE stack
          /\ jobs' = IF tasks = <<>> /\ called THEN Append(jobs, "generator") ELSE jobs
          /\ UNCHANGED answered
  /\ UNCHANGED <<completed, doAwait, state, iterator, awaited, overwritten>>

\* ecma_async_generator_run for the first time: a throw or a return that comes
\* before the first next ends a body that never ran.
Start ==
  /\ Running("start")
  /\ \/ /\ Head(tasks).op = "next"
        /\ ResumeBody(Consumed, Tail(stack))
        /\ UNCHANGED <<awaited, jobs, answered>>
     \/ /\ Head(tasks).op = "throw"
        /\ Complete(Consumed, "error", Tail(stack))
     \/ /\ Head(tasks).op = "return"
        /\ Complete(Consumed, "done", Tail(stack))
  /\ UNCHANGED <<asked, overwritten>>

\* Mutant of RunBody: the value of the request stays in the list.
RunBodyKeeping ==
  /\ Running("run")
  /\ ~doAwait
  /\ ResumeBody(tasks, Tail(stack))
  /\ UNCHANGED <<awaited, jobs, asked, answered, overwritten>>

\* The same for a body suspended at a yield; and inside a yield*, where the request
\* is passed on to the inner iterator.
RunBody ==
  /\ Running("run")
  /\ ~doAwait
  /\ ResumeBody(Consumed, Tail(stack))
  /\ UNCHANGED <<awaited, jobs, asked, answered, overwritten>>

RunYieldStar ==
  /\ Running("run")
  /\ doAwait
  /\ \/ /\ Head(tasks).op \in {"next", "throw"}
        /\ stack' = <<IF Head(tasks).op = "next" THEN "next" ELSE "getThrow">> \o Tail(stack)
        /\ UNCHANGED <<tasks, flags, awaited, answered>>
     \/ /\ Head(tasks).op = "return"
        /\ Await
        /\ state' = Changed("yieldOperation", "yieldReturn")
        /\ tasks' = Consumed
        /\ stack' = Tail(stack)
        /\ UNCHANGED <<called, completed, doAwait, iterator, answered>>
     \/ /\ Head(tasks).op = "return"            \* the await fails
        /\ Abort(Consumed)
  /\ UNCHANGED <<jobs, asked, overwritten>>

-----------------------------------------------------------------------------
(* The body.                                                               *)

\* opfunc_async_generator_yield fulfils the promise of the head, which may call a
\* getter of `then`; the byte code yield does so from the body.
BodyYields ==
  /\ Running("body")
  /\ answered' = Answered(Head(tasks).id, "value")
  /\ stack' = <<"yielding">> \o stack
  /\ UNCHANGED <<tasks, flags, awaited, jobs, asked, overwritten>>

\* Mutant of AnswerGiven: no job for the request behind the head.
AnswerForgetsRest ==
  /\ Running("yielding") \/ Running("passing")
  /\ tasks' = Tail(tasks)
  /\ stack' = IF Running("yielding") THEN Tail(Tail(stack)) ELSE Tail(stack)
  /\ UNCHANGED <<flags, awaited, jobs, asked, answered, overwritten>>

\* Back in opfunc_async_generator_yield, the head is removed, and a job serves the
\* request behind it; the generator is suspended.
AnswerGiven ==
  /\ Running("yielding") \/ Running("passing")
  /\ tasks' = Tail(tasks)
  /\ jobs' = IF Len(tasks) = 1 THEN jobs ELSE Append(jobs, "generator")
  /\ stack' = IF Running("yielding") THEN Tail(Tail(stack)) ELSE Tail(stack)
  /\ UNCHANGED <<flags, awaited, asked, answered, overwritten>>

\* await v
BodyAwaits ==
  /\ Running("body")
  /\ Await
  /\ stack' = Tail(stack)
  /\ UNCHANGED <<tasks, flags, jobs, asked, answered, overwritten>>

\* for await: the result of next, or of return when the loop is left, is awaited.
BodyForAwaits(s) ==
  /\ Running("body")
  /\ Await
  /\ doAwait' = TRUE
  /\ state' = Changed("yieldNext", s)
  /\ stack' = Tail(stack)
  /\ UNCHANGED <<tasks, called, completed, iterator, jobs, asked, answered, overwritten>>

\* yield* v, when the iterator of v exists and its first next has returned.
BodyYieldStar ==
  /\ Running("body")
  /\ Await
  /\ doAwait' = TRUE
  /\ iterator' = TRUE
  /\ stack' = Tail(stack)
  /\ UNCHANGED <<tasks, called, completed, state, jobs, asked, answered, overwritten>>

\* The body returns or throws.
BodyEnds(outcome) ==
  /\ Running("body")
  /\ Complete(tasks, outcome, Tail(stack))
  /\ UNCHANGED <<asked, overwritten>>

\* The loop of ecma_async_generator_finalize: the head is removed, and the request
\* behind it gets the answer of a generator that has finished.
FinalizeNext ==
  /\ Running("closing") \/ Running("rejecting")
  /\ IF Len(tasks) = 1
     THEN /\ tasks' = <<>>
          /\ stack' = Tail(stack)
          /\ UNCHANGED answered
     ELSE AnswerLast(Tail(tasks), IF tasks[2].op = "throw" THEN "error" ELSE "done", Tail(stack))
  /\ UNCHANGED <<flags, awaited, jobs, asked, overwritten>>

-----------------------------------------------------------------------------
(* Awaited promises and jobs.                                              *)

\* A promise the generator awaits settles, and its reaction becomes a job.
Settle(outcome) ==
  /\ awaited > 0
  /\ awaited' = awaited - 1
  /\ jobs' = Append(jobs, outcome)
  /\ UNCHANGED <<tasks, flags, stack, asked, answered, overwritten>>

Job(k) == /\ stack = <<>>
          /\ jobs # <<>>
          /\ Head(jobs) = k
          /\ jobs' = Tail(jobs)
          /\ UNCHANGED <<awaited, asked, overwritten>>

\* ecma_process_promise_async_generator_job
GeneratorJob == /\ Job("generator")
                /\ stack' = <<"run">>
                /\ UNCHANGED <<tasks, flags, answered>>

\* ecma_process_promise_async_reaction_job with a reason: the value of a return that
\* is rejected is thrown into the inner iterator; otherwise the body throws it.
AwaitRejected ==
  /\ Job("rejected")
  /\ IF doAwait /\ state = "yieldReturn"
     THEN /\ state' = Changed("yieldReturn", "yieldOperation")
          /\ stack' = <<"getThrow">>
          /\ UNCHANGED <<tasks, called, completed, doAwait, iterator>>
     ELSE ResumeBody(tasks, <<>>)
  /\ UNCHANGED answered

\* With a value, and ecma_await_continue.  A value that is no object ends a yield*
\* where an iterator result is expected; the results of for await go to the body.
AwaitResolved ==
  /\ Job("resolved")
  /\ \/ /\ ~doAwait \/ state \notin {"yieldReturn", "yieldNextValue", "yieldOperation"}
        /\ ResumeBody(tasks, <<>>)
        /\ UNCHANGED answered
     \/ /\ doAwait /\ state \in {"yieldNext", "yieldNextReturn", "yieldReturn", "yieldOperation"}
        /\ stack' = <<CASE state = "yieldReturn" -> "getReturn"
                        [] state = "yieldOperation" -> "getThrow"
                        [] OTHER -> "result">>
        /\ UNCHANGED <<tasks, flags, answered>>
     \/ /\ doAwait /\ state = "yieldNextValue"
        /\ state' = Changed("yieldNextValue", "yieldOperation")
        /\ answered' = Answered(Head(tasks).id, "value")
        /\ stack' = <<"passing">>
        /\ UNCHANGED <<tasks, called, completed, doAwait, iterator>>

-----------------------------------------------------------------------------
(* Returns of the inner iterator.                                          *)

\* The script calls the native code again with something that ends the yield*: an
\* exception, or a method that is not callable.
IteratorFails ==
  /\ \E k \in {"next", "throw", "return", "close", "getThrow", "getReturn", "result"} : Running(k)
  /\ Abort(Consumed)
  /\ UNCHANGED <<jobs, asked, overwritten>>

\* The getter of `return` in ecma_async_yield_throw throws: its result is not looked
\* at, and calling it raises a type error on top of the exception.
GetCloseThrows ==
  /\ Running("getClose")
  /\ Abort(Consumed)
  /\ overwritten' = TRUE
  /\ UNCHANGED <<jobs, asked>>

\* There is no `return`: a type error.
GetCloseUndefined ==
  /\ Running("getClose")
  /\ Abort(Consumed)
  /\ UNCHANGED <<jobs, asked, overwritten>>

\* A getter finds a method, which is called; or there is no `throw`, and `return` is
\* looked for instead.
IteratorMethod(k, m) ==
  /\ Running(k)
  /\ <<k, m>> \in {<<"getThrow", "throw">>, <<"getThrow", "getClose">>,
                   <<"getReturn", "return">>, <<"getClose", "close">>}
  /\ stack' = <<m>> \o Tail(stack)
  /\ UNCHANGED <<tasks, flags, awaited, jobs, asked, answered, overwritten>>

\* There is no `return`: the body returns.
GetReturnUndefined ==
  /\ Running("getReturn")
  /\ ResumeBody(tasks, Tail(stack))
  /\ UNCHANGED <<awaited, jobs, asked, answered, overwritten>>

\* Mutant of IteratorReturns: the result of `return` is awaited in the state of a next.
IteratorReturnsNext(k) ==
  /\ Running(k)
  /\ k \in {"next", "throw", "return", "close"}
  /\ Await
  /\ state' = Changed("yieldOperation", IF k = "close" THEN "yieldClose" ELSE "yieldNext")
  /\ tasks' = Consumed
  /\ stack' = Tail(stack)
  /\ UNCHANGED <<called, completed, doAwait, iterator, jobs, asked, answered, overwritten>>

\* A method returns, and its result is awaited in the state that it calls for.
IteratorReturns(k) ==
  /\ Running(k)
  /\ \/ k \in {"next", "throw"} /\ state' = Changed("yieldOperation", "yieldNext")
     \/ k = "return" /\ state' = Changed("yieldReturn", "yieldNextReturn")
     \/ k = "close" /\ state' = Changed("yieldOperation", "yieldClose")
  /\ Await
  /\ tasks' = Consumed
  /\ stack' = Tail(stack)
  /\ UNCHANGED <<called, completed, doAwait, iterator, jobs, asked, answered, overwritten>>

\* The getters of an iterator result: not done, so that its value is awaited; done.
ResultValue ==
  /\ Running("result")
  /\ Await
  /\ state' = "yieldNextValue"
  /\ stack' = Tail(stack)
  /\ UNCHANGED <<tasks, called, completed, doAwait, iterator, jobs, asked, answered, overwritten>>

ResultDone ==
  /\ Running("result")
  /\ ResumeBody(tasks, Tail(stack))
  /\ UNCHANGED <<awaited, jobs, asked, answered, overwritten>>

-----------------------------------------------------------------------------

\* The host runs a script, between two jobs or runs of jobs; the script ends.
StartScript == /\ stack = <<>>
               /\ stack' = <<"script">>
               /\ UNCHANGED <<tasks, flags, awaited, jobs, asked, answered, overwritten>>

ScriptEnds == /\ Running("script")
              /\ stack' = Tail(stack)
              /\ UNCHANGED <<tasks, flags, awaited, jobs, asked, answered, overwritten>>

\* Native code, and what the script does to return to it.
ReturnStep ==
  \/ Start \/ RunBody \/ RunYieldStar
  \/ AnswerGiven \/ FinalizeNext
  \/ IteratorFails \/ GetCloseThrows \/ GetCloseUndefined \/ GetReturnUndefined
  \/ \E k \in {"getThrow", "getReturn", "getClose"}, m \in Script : IteratorMethod(k, m)
  \/ \E k \in {"next", "throw", "return", "close"} : IteratorReturns(k)
  \/ ResultValue \/ ResultDone
  \/ ScriptEnds

BodyPauses == BodyAwaits \/ BodyYieldStar \/ \E s \in {"forClose", "forNext"} : BodyForAwaits(s)

BodyProceeds == BodyYields \/ \E outcome \in {"done", "error"} : BodyEnds(outcome)

JobStep == GeneratorJob \/ AwaitRejected \/ AwaitResolved

SettleStep == \E outcome \in {"resolved", "rejected"} : Settle(outcome)

Next == \/ \E op \in Operation : Ask(op)
        \/ ReturnStep
        \/ BodyPauses
        \/ BodyProceeds
        \/ JobStep
        \/ SettleStep
        \/ StartScript

Spec == Init /\ [][Next]_vars

\* Script code returns, jobs are run, and awaited promises settle; a body that goes
\* on again and again yields or ends at some point.
FairSpec == /\ Spec
            /\ WF_vars(ReturnStep) /\ WF_vars(BodyPauses \/ BodyProceeds)
            /\ SF_vars(BodyProceeds)
            /\ SF_vars(JobStep) /\ WF_vars(SettleStep)

-----------------------------------------------------------------------------

TypeOK ==
  /\ tasks \in Seq(Task)
  /\ \A f \in {called, completed, doAwait, iterator, overwritten} : f \in BOOLEAN
  /\ state \in AwaitState
  /\ awaited \in Nat
  /\ jobs \in Seq({"generator", "resolved", "rejected"})
  /\ stack \in Seq(Script \cup Native)
  /\ asked \in 0 .. MaxRequests
  /\ answered \in [Request -> {"none", "value", "done", "error"}]

\* The generator is being executed, by a job or by the first request.
Busy == Calls((Script \cup Native) \ {"script"}) # {}

\* Exactly one thing resumes a generator that is suspended with requests: a job or a
\* promise it awaits.  Nothing resumes one that runs, has finished or has nothing to
\* do: there is no lost, no second and no stray job, and the body runs once.
ResumedByOne ==
  /\ awaited + Len(jobs) = IF tasks = <<>> \/ Busy THEN 0 ELSE 1
  /\ Cardinality(Calls({"body"})) + (IF completed THEN 1 ELSE 0) <= 1
  /\ completed /\ ~Busy => tasks = <<>>

\* A request is handed out once, and before it is answered: the job of the generator
\* finds a request with its value at the head, everything else one whose value was
\* taken (the assertion at opcodes.c:828).
HandedOutOnce ==
  /\ \A i \in 2 .. Len(tasks) : tasks[i].fresh
  /\ (jobs # <<>> /\ Head(jobs) = "generator") => Head(tasks).fresh
  /\ awaited > 0 \/ (jobs # <<>> /\ Head(jobs) # "generator") => ~Head(tasks).fresh
  /\ Calls({"body", "yielding", "passing", "result", "getReturn", "return"}) # {}
       => tasks # <<>> /\ ~Head(tasks).fresh

\* The await state says what the generator waits for: the byte code runs with all
\* bits clear; a yield* waits for an operation exactly while nothing else is awaited;
\* and the assumptions of the exclusive or hold.
AwaitStates ==
  /\ state # "invalid"
  /\ Calls({"body"}) # {} \/ ~doAwait => state = "yieldNext" /\ ~doAwait /\ ~iterator
  /\ doAwait => (iterator <=> state \in YieldState)
  /\ doAwait /\ ~Busy =>
       (state = "yieldOperation" <=> awaited = 0 /\ \A i \in DOMAIN jobs : jobs[i] = "generator")

\* Requests are answered once and in order.  The head stays in the list until its answer
\* has been given.
Requests == [i \in DOMAIN tasks |-> tasks[i].id]
Waiting == IF tasks # <<>> /\ answered[Head(tasks).id] # "none" THEN Tail(Requests) ELSE Requests

Queue == INSTANCE RequestQueue WITH waiting <- Waiting, closed <- completed,
           answered <- {r \in Request : answered[r] # "none"}

ImplementsRequestQueue == Queue!Spec

\* Every request is answered in the end.
EveryRequestAnswered == \A r \in Request : asked >= r ~> answered[r] # "none"

\* The assertion at jcontext.c:88: an exception is raised when none is pending.
OneException == ~overwritten

=============================================================================
