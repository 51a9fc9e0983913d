------------------------------ MODULE JobFifo ------------------------------
(***************************************************************************)
(* What the job queue of jerry-core promises to the engine and to the host *)
(* (ecma-jobqueue.c): the jobs that were enqueued leave in the order they  *)
(* came, one at a time, either because jerry_run_jobs executes them or     *)
(* because jerry_cleanup releases them.  A run stops at the first job that *)
(* fails, and what is still queued then waits for the next run or for the  *)
(* cleanup.  JobQueue.tla implements this with an intrusive linked list.   *)
(***************************************************************************)
EXTENDS Naturals, Sequences

CONSTANTS Payload,      \* what a job stands for: its type and its values
          None          \* no job is being executed

VARIABLES queue,        \* the payloads still to be executed, oldest first
          current,      \* the payload whose job is being executed, or None
          mode          \* where the host is: see Modes

vars == <<queue, current, mode>>

\* "host": the embedder runs scripts or its own code; "draining": it is inside
\* jerry_run_jobs; "cleanup": inside jerry_cleanup; "down": after jerry_cleanup.
Modes == {"host", "draining", "cleanup", "down"}

Init == /\ queue = <<>>
        /\ current = None
        /\ mode = "host"

\* Only running script code enqueues: a script of the host, or the job itself.
Enqueue(j) == /\ mode = "host" \/ current # None
              /\ queue' = Append(queue, j)
              /\ UNCHANGED <<current, mode>>

RunJobs == /\ mode = "host"
           /\ mode' = "draining"
           /\ UNCHANGED <<queue, current>>

TakeJob == /\ mode = "draining"
           /\ current = None
           /\ queue # <<>>
           /\ current' = Head(queue)
           /\ queue' = Tail(queue)
           /\ UNCHANGED mode

FinishJob == /\ current # None
             /\ current' = None
             /\ mode' \in {"draining", "host"}      \* "host": the job failed
             /\ UNCHANGED queue

EndRun == /\ mode = "draining"
          /\ current = None
          /\ queue = <<>>
          /\ mode' = "host"
          /\ UNCHANGED <<queue, current>>

Cleanup == /\ mode = "host"
           /\ mode' = "cleanup"
           /\ UNCHANGED <<queue, current>>

Discard == /\ mode = "cleanup"
           /\ queue # <<>>
           /\ queue' = Tail(queue)
           /\ UNCHANGED <<current, mode>>

EndCleanup == /\ mode = "cleanup"
              /\ queue = <<>>
              /\ mode' = "down"
              /\ UNCHANGED <<queue, current>>

Next == \/ \E j \in Payload : Enqueue(j)
        \/ RunJobs \/ TakeJob \/ FinishJob \/ EndRun
        \/ Cleanup \/ Discard \/ EndCleanup

Spec == Init /\ [][Next]_vars
=============================================================================
