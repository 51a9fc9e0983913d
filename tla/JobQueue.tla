------------------------------ MODULE JobQueue ------------------------------
(***************************************************************************)
(* The job queue of jerry-core as ecma-jobqueue.c implements it: a singly  *)
(* linked list threaded through the job items, whose head and tail live in *)
(* the engine context.  The word next_and_type of an item carries both the *)
(* address of the next item and the type of the job; linking an item ORs   *)
(* its address into that word.                                             *)
(*                                                                         *)
(* The pointer discipline is what can go wrong here.  Taking a job moves   *)
(* the head only, so after the last job is taken the tail still points to  *)
(* an item that is about to be freed and whose block the heap may hand out *)
(* again; a running job enqueues new jobs before its own item is freed;    *)
(* and a run that stops at a failing job leaves a list behind that the     *)
(* next run or the cleanup picks up.                                       *)
(***************************************************************************)
EXTENDS Naturals, Sequences

CONSTANTS Block,        \* the heap blocks a job item can occupy
          Null,         \* the null pointer
          Garbage,      \* what a freed block holds, and what OR-ing two addresses gives
          Payload,      \* the type of a job and the values it carries
          None          \* the payload of no job

ASSUME PointerAssumption == /\ Null \notin Block
                            /\ Garbage \notin Block
                            /\ Garbage # Null
                            /\ None \notin Payload

VARIABLES head,         \* job_queue_head_p
          tail,         \* job_queue_tail_p: stale once the list is empty
          next,         \* the address bits of next_and_type, per block
          payload,      \* the type bits and the values of the item, per block
          live,         \* the blocks that hold a job item
          current,      \* the item ecma_process_all_enqueued_jobs is executing
          ret,          \* its local variable ret: the result of the last job
          returned,     \* what jerry_run_jobs returned to the host last
          mode,         \* where the host is, as in JobFifo
          fifo          \* history: the items enqueued and not yet taken, in order

vars == <<head, tail, next, payload, live, current, ret, returned, mode, fifo>>

Results == {"undefined", "value", "error"}      \* of a job: "error" is an exception

Init == /\ head = Null
        /\ tail = Null
        /\ next = [b \in Block |-> Garbage]
        /\ payload = [b \in Block |-> None]
        /\ live = {}
        /\ current = Null
        /\ ret = "undefined"
        /\ returned = "undefined"
        /\ mode = "host"
        /\ fifo = <<>>

\* Mutant of OrAddress: the address is not written.
LostLink(word, b) == word

\* next_and_type |= address: meaningful only while the address bits are zero.
OrAddress(word, b) == IF word = Null THEN b ELSE Garbage

\* Mutant of EnqueueJob: the item is linked in front of the others.
EnqueueAtHead(b, j) ==
  /\ mode = "host" \/ current # Null
  /\ b \in Block \ live
  /\ live' = live \cup {b}
  /\ payload' = [payload EXCEPT ![b] = j]
  /\ head' = b
  /\ next' = [next EXCEPT ![b] = head]
  /\ tail' = IF head = Null THEN b ELSE tail
  /\ fifo' = Append(fifo, b)
  /\ UNCHANGED <<current, ret, returned, mode>>

\* An item is allocated in any free block, filled in, and linked at the end.
EnqueueJob(b, j) ==
  /\ mode = "host" \/ current # Null
  /\ b \in Block \ live
  /\ live' = live \cup {b}
  /\ payload' = [payload EXCEPT ![b] = j]
  /\ IF head = Null
     THEN /\ head' = b
          /\ next' = [next EXCEPT ![b] = Null]
     ELSE /\ next' = [next EXCEPT ![b] = Null, ![tail] = OrAddress(@, b)]
          /\ UNCHANGED head
  /\ tail' = b
  /\ fifo' = Append(fifo, b)
  /\ UNCHANGED <<current, ret, returned, mode>>

\* jerry_run_jobs enters ecma_process_all_enqueued_jobs.
RunJobs ==
  /\ mode = "host"
  /\ mode' = "draining"
  /\ ret' = "undefined"
  /\ UNCHANGED <<head, tail, next, payload, live, current, returned, fifo>>

\* One turn of the loop starts: the item leaves the list, but is not freed yet.
TakeJob ==
  /\ mode = "draining"
  /\ current = Null
  /\ head # Null
  /\ current' = head
  /\ head' = next[head]
  /\ fifo' = Tail(fifo)
  /\ UNCHANGED <<tail, next, payload, live, ret, returned, mode>>

\* Mutant of FreeItem: the block is not given back.
LeakItem(b) == UNCHANGED <<live, next, payload>>

\* What jmem_heap_free_block leaves behind.
FreeItem(b) == /\ live' = live \ {b}
               /\ next' = [next EXCEPT ![b] = Garbage]
               /\ payload' = [payload EXCEPT ![b] = None]

\* Mutant of FinishJob: the run goes on after a job that failed.
FinishAnyJob(r) ==
  /\ current # Null
  /\ FreeItem(current)
  /\ current' = Null
  /\ ret' = r
  /\ UNCHANGED <<head, tail, returned, mode, fifo>>

\* The processor of the job frees the item and returns; an error ends the run.
FinishJob(r) ==
  /\ current # Null
  /\ FreeItem(current)
  /\ current' = Null
  /\ ret' = r
  /\ IF r = "error"
     THEN mode' = "host" /\ returned' = "error"
     ELSE UNCHANGED <<mode, returned>>
  /\ UNCHANGED <<head, tail, fifo>>

\* The loop ends with an empty list: ret is freed and undefined is returned.
EndRun ==
  /\ mode = "draining"
  /\ current = Null
  /\ head = Null
  /\ mode' = "host"
  /\ returned' = "undefined"
  /\ UNCHANGED <<head, tail, next, payload, live, current, ret, fifo>>

\* jerry_cleanup enters ecma_free_all_enqueued_jobs ...
Cleanup ==
  /\ mode = "host"
  /\ mode' = "cleanup"
  /\ UNCHANGED <<head, tail, next, payload, live, current, ret, returned, fifo>>

\* ... which frees the items one by one without executing them.
DiscardJob ==
  /\ mode = "cleanup"
  /\ head # Null
  /\ head' = next[head]
  /\ FreeItem(head)
  /\ fifo' = Tail(fifo)
  /\ UNCHANGED <<tail, current, ret, returned, mode>>

EndCleanup ==
  /\ mode = "cleanup"
  /\ head = Null
  /\ mode' = "down"
  /\ UNCHANGED <<head, tail, next, payload, live, current, ret, returned, fifo>>

Next == \/ \E b \in Block, j \in Payload : EnqueueJob(b, j)
        \/ RunJobs
        \/ TakeJob
        \/ \E r \in Results : FinishJob(r)
        \/ EndRun
        \/ Cleanup
        \/ DiscardJob
        \/ EndCleanup

Spec == Init /\ [][Next]_vars

\* Both loops keep turning and every job returns: nothing in the engine waits.
\* Nothing is assumed of the host: it may never run the jobs again.
Fairness == /\ WF_vars(TakeJob)
            /\ WF_vars(\E r \in Results : FinishJob(r))
            /\ WF_vars(EndRun)
            /\ WF_vars(DiscardJob)
            /\ WF_vars(EndCleanup)

FairSpec == Spec /\ Fairness

-----------------------------------------------------------------------------

TypeOK ==
  /\ head \in Block \cup {Null}
  /\ tail \in Block \cup {Null}
  /\ next \in [Block -> Block \cup {Null, Garbage}]
  /\ payload \in [Block -> Payload \cup {None}]
  /\ live \subseteq Block
  /\ current \in Block \cup {Null}
  /\ ret \in Results
  /\ returned \in Results
  /\ mode \in {"host", "draining", "cleanup", "down"}
  /\ fifo \in Seq(Block)

\* The pointers spell out the order in which the jobs came: the head is the
\* oldest item, each item points to the one enqueued after it, the last has no
\* next, and the tail is the last one (what the assertion of ecma_enqueue_job
\* at ecma-jobqueue.c:459 relies on when it links a new item).
ListShape ==
  /\ head = IF fifo = <<>> THEN Null ELSE fifo[1]
  /\ fifo # <<>> => tail = fifo[Len(fifo)]
  /\ \A i \in 1 .. Len(fifo) :
       next[fifo[i]] = IF i = Len(fifo) THEN Null ELSE fifo[i + 1]

\* No item is queued twice, freed while queued, or forgotten: the live items
\* are those of the list and the one being executed, which left the list.
Ownership ==
  /\ \A i, j \in 1 .. Len(fifo) : fifo[i] = fifo[j] => i = j
  /\ live = {fifo[i] : i \in 1 .. Len(fifo)} \cup ({current} \ {Null})
  /\ \A i \in 1 .. Len(fifo) : fifo[i] # current

\* The cleanup of the engine leaves no job item behind.
NothingLeaked == mode = "down" => live = {}

\* jerry_run_jobs reports an exception exactly when a job failed, and otherwise
\* returns with an empty queue: a failure is never swallowed, and no job is left
\* queued by a run that claims success.
RunOutcome ==
  [][mode = "draining" /\ mode' = "host" =>
       /\ returned' = "error" <=> ret' = "error"
       /\ returned' # "error" => head' = Null]_vars

\* No starvation: the jobs that running jobs keep adding go behind the ones that
\* wait, so a run executes every queued item unless an earlier job fails.  (The
\* run itself need not end: a job may enqueue its successor for ever.)
JobReached ==
  \A b \in Block :
    mode = "draining" /\ (\E i \in 1 .. Len(fifo) : fifo[i] = b)
      ~> current = b \/ mode = "host"

-----------------------------------------------------------------------------

\* The list implements the queue of JobFifo: same order, same job executed.
Fifo == INSTANCE JobFifo WITH
          queue <- [i \in 1 .. Len(fifo) |-> payload[fifo[i]]],
          current <- IF current = Null THEN None ELSE payload[current]

ImplementsFifo == Fifo!Spec
=============================================================================
