--------------------------- MODULE JobQueueProofs ---------------------------
(***************************************************************************)
(* JobQueue for heaps of any size and jobs of any kind: the pointers never *)
(* go wrong, and the list implements the queue of JobFifo.                 *)
(***************************************************************************)
EXTENDS JobQueue, SequenceTheorems, TLAPS

\* What the invariants of JobQueue need to be inductive: an item is executed
\* only inside a run, a run does not continue after a failure, and nothing is
\* queued after the cleanup.
Phases == /\ current # Null => mode = "draining"
          /\ mode = "draining" => ret # "error"
          /\ mode = "down" => fifo = <<>>

IInv == TypeOK /\ ListShape /\ Ownership /\ Phases

-----------------------------------------------------------------------------

\* Taking the first element of a sequence of blocks: the facts about Tail that
\* the steps which shorten the list use.
LEMMA TailOfFifo ==
  ASSUME NEW S, NEW s \in Seq(S), s # <<>>
  PROVE  /\ Tail(s) \in Seq(S)
         /\ Len(s) \in Nat \ {0}
         /\ Len(Tail(s)) = Len(s) - 1
         /\ \A i \in 1 .. Len(Tail(s)) : Tail(s)[i] = s[i + 1]
         /\ Tail(s) = <<>> <=> Len(s) = 1
         /\ s[1] \in S
<1>1. Len(s) \in Nat \ {0}
  BY EmptySeq
<1>2. /\ Tail(s) \in Seq(S)
      /\ Len(Tail(s)) = Len(s) - 1
      /\ \A i \in 1 .. Len(Tail(s)) : Tail(s)[i] = s[i + 1]
  BY HeadTailProperties
<1>3. Tail(s) = <<>> <=> Len(Tail(s)) = 0
  BY <1>2, EmptySeq
<1> QED BY <1>1, <1>2, <1>3

\* Adding an element at the end.
LEMMA AppendToFifo ==
  ASSUME NEW S, NEW s \in Seq(S), NEW e \in S
  PROVE  /\ Append(s, e) \in Seq(S)
         /\ Append(s, e) # <<>>
         /\ Len(Append(s, e)) = Len(s) + 1
         /\ Len(s) \in Nat
         /\ s = <<>> <=> Len(s) = 0
         /\ Append(s, e)[Len(s) + 1] = e
         /\ \A i \in 1 .. Len(s) : Append(s, e)[i] = s[i]
  BY AppendProperties, EmptySeq

\* The empty heap satisfies the invariant.
LEMMA InitIInv == Init => IInv
  BY PointerAssumption DEF Init, IInv, TypeOK, ListShape, Ownership, Phases, Results

\* Linking a new item behind the last one, also when the tail is stale.
LEMMA EnqueueStep ==
  ASSUME IInv, NEW b \in Block, NEW j \in Payload, EnqueueJob(b, j)
  PROVE  IInv'
<1> USE PointerAssumption
<1>1. /\ fifo' = Append(fifo, b)
      /\ fifo \in Seq(Block)
      /\ b \notin live
  BY DEF EnqueueJob, IInv, TypeOK
<1>2. /\ fifo' \in Seq(Block)
      /\ fifo' # <<>>
      /\ Len(fifo') = Len(fifo) + 1
      /\ Len(fifo) \in Nat
      /\ fifo = <<>> <=> Len(fifo) = 0
      /\ fifo'[Len(fifo) + 1] = b
      /\ \A i \in 1 .. Len(fifo) : fifo'[i] = fifo[i]
  BY <1>1, AppendToFifo
<1>3. \A i \in 1 .. Len(fifo) : fifo[i] \in live /\ fifo[i] # b /\ fifo[i] \in Block
  BY <1>1, <1>2 DEF IInv, Ownership
<1>4. CASE fifo = <<>>
  <2>1. head = Null /\ Len(fifo) = 0
    BY <1>2, <1>4 DEF IInv, ListShape
  <2>2. /\ head' = b /\ tail' = b
        /\ next' = [next EXCEPT ![b] = Null]
        /\ live' = live \cup {b}
        /\ payload' = [payload EXCEPT ![b] = j]
        /\ UNCHANGED <<current, ret, returned, mode>>
    BY <2>1 DEF EnqueueJob
  <2>3. TypeOK'
    BY <1>2, <2>2 DEF TypeOK, IInv
  <2>4. ListShape'
    BY <1>2, <2>1, <2>2 DEF ListShape, IInv, TypeOK
  <2>5. Ownership'
    <3>1. live = {current} \ {Null}
      BY <2>1, <1>2 DEF IInv, Ownership
    <3>2. {fifo'[i] : i \in 1 .. Len(fifo')} = {b}
      BY <1>2, <2>1
    <3>3. current # b
      BY <3>1, <1>1, PointerAssumption
    <3> QED BY <3>1, <3>2, <3>3, <1>2, <2>1, <2>2 DEF Ownership
  <2>6. Phases'
    BY <1>2, <2>2 DEF Phases, IInv, EnqueueJob
  <2> QED BY <2>3, <2>4, <2>5, <2>6 DEF IInv
<1>5. CASE fifo # <<>>
  <2>1. /\ head # Null
        /\ tail = fifo[Len(fifo)]
        /\ tail \in Block /\ tail \in live /\ tail # b
        /\ next[tail] = Null
        /\ head = fifo[1]
        /\ Len(fifo) # 0
    BY <1>2, <1>3, <1>5 DEF IInv, ListShape, TypeOK
  <2>2. /\ head' = head /\ tail' = b
        /\ next' = [next EXCEPT ![b] = Null, ![tail] = b]
        /\ live' = live \cup {b}
        /\ payload' = [payload EXCEPT ![b] = j]
        /\ UNCHANGED <<current, ret, returned, mode>>
    BY <2>1 DEF EnqueueJob, OrAddress, IInv, TypeOK
  <2>3. TypeOK'
    BY <1>2, <2>1, <2>2 DEF TypeOK, IInv
  <2>4. ListShape'
    <3>1. next'[b] = Null /\ next'[tail] = b
      BY <2>1, <2>2 DEF IInv, TypeOK
    <3>2. \A i \in 1 .. Len(fifo) - 1 : next'[fifo[i]] = fifo[i + 1]
      <4>1. \A i \in 1 .. Len(fifo) - 1 : fifo[i] # tail /\ fifo[i] # b
        BY <1>2, <1>3, <2>1 DEF IInv, Ownership
      <4>2. \A i \in 1 .. Len(fifo) - 1 : next[fifo[i]] = fifo[i + 1]
        BY <1>2, <2>1 DEF IInv, ListShape
      <4> QED BY <4>1, <4>2, <1>2, <1>3, <2>2 DEF IInv, TypeOK
    <3>3. ASSUME NEW i \in 1 .. Len(fifo')
          PROVE  next'[fifo'[i]] = IF i = Len(fifo') THEN Null ELSE fifo'[i + 1]
      <4>1. CASE i = Len(fifo')
        BY <4>1, <3>1, <1>2
      <4>2. CASE i = Len(fifo)
        BY <4>2, <3>1, <1>2, <2>1
      <4>3. CASE i \in 1 .. Len(fifo) - 1
        BY <4>3, <3>2, <1>2
      <4> QED BY <4>1, <4>2, <4>3, <1>2
    <3>4. head' = fifo'[1] /\ tail' = fifo'[Len(fifo')]
      BY <1>2, <2>1, <2>2
    <3> QED BY <3>3, <3>4, <1>2 DEF ListShape
  <2>5. Ownership'
    <3>1. b # current
      BY <1>1 DEF IInv, Ownership
    <3>2. {fifo'[i] : i \in 1 .. Len(fifo')} = {fifo[i] : i \in 1 .. Len(fifo)} \cup {b}
      BY <1>2
    <3>3. live' = {fifo'[i] : i \in 1 .. Len(fifo')} \cup ({current'} \ {Null})
      BY <3>2, <2>2 DEF IInv, Ownership
    <3>4. \A i, k \in 1 .. Len(fifo') : fifo'[i] = fifo'[k] => i = k
      BY <1>2, <1>3 DEF IInv, Ownership
    <3>5. \A i \in 1 .. Len(fifo') : fifo'[i] # current'
      BY <1>2, <2>2, <3>1 DEF IInv, Ownership
    <3> QED BY <3>3, <3>4, <3>5 DEF Ownership
  <2>6. Phases'
    BY <1>2, <2>2 DEF Phases, IInv, EnqueueJob
  <2> QED BY <2>3, <2>4, <2>5, <2>6 DEF IInv
<1> QED BY <1>4, <1>5

\* Unlinking the oldest item: what TakeJob and DiscardJob do to the list.
LEMMA UnlinkHead ==
  ASSUME IInv, head # Null
  PROVE  /\ fifo # <<>>
         /\ head = fifo[1] /\ head \in Block /\ head \in live /\ head # current
         /\ Tail(fifo) \in Seq(Block)
         /\ Len(fifo) \in Nat \ {0}
         /\ Len(Tail(fifo)) = Len(fifo) - 1
         /\ \A i \in 1 .. Len(Tail(fifo)) :
              /\ Tail(fifo)[i] = fifo[i + 1]
              /\ Tail(fifo)[i] # head
              /\ Tail(fifo)[i] # current
              /\ next[Tail(fifo)[i]] = IF i = Len(Tail(fifo)) THEN Null ELSE Tail(fifo)[i + 1]
         /\ \A i, j \in 1 .. Len(Tail(fifo)) : Tail(fifo)[i] = Tail(fifo)[j] => i = j
         /\ Tail(fifo) # <<>> => tail = Tail(fifo)[Len(Tail(fifo))]
         /\ next[head] = IF Tail(fifo) = <<>> THEN Null ELSE Tail(fifo)[1]
         /\ {Tail(fifo)[i] : i \in 1 .. Len(Tail(fifo))} = {fifo[i] : i \in 1 .. Len(fifo)} \ {head}
<1>1. fifo # <<>> /\ fifo \in Seq(Block) /\ head = fifo[1]
  BY DEF IInv, ListShape, TypeOK
<1> DEFINE t == Tail(fifo)
<1>2. /\ t \in Seq(Block)
      /\ Len(fifo) \in Nat \ {0}
      /\ Len(t) = Len(fifo) - 1
      /\ \A i \in 1 .. Len(t) : t[i] = fifo[i + 1]
      /\ t = <<>> <=> Len(fifo) = 1
      /\ fifo[1] \in Block
      /\ Len(t) \in Nat
  BY <1>1, TailOfFifo
<1> HIDE DEF t
<1>3. /\ \A i, j \in 1 .. Len(fifo) : fifo[i] = fifo[j] => i = j
      /\ live = {fifo[i] : i \in 1 .. Len(fifo)} \cup ({current} \ {Null})
      /\ \A i \in 1 .. Len(fifo) : fifo[i] # current
  BY DEF IInv, Ownership
<1>4. /\ tail = fifo[Len(fifo)]
      /\ \A i \in 1 .. Len(fifo) : next[fifo[i]] = IF i = Len(fifo) THEN Null ELSE fifo[i + 1]
  BY <1>1 DEF IInv, ListShape
<1>5. head \in Block /\ head \in live /\ head # current
  BY <1>1, <1>2, <1>3
<1>6. ASSUME NEW i \in 1 .. Len(t)
      PROVE  /\ t[i] = fifo[i + 1]
             /\ t[i] # head
             /\ t[i] # current
             /\ next[t[i]] = IF i = Len(t) THEN Null ELSE t[i + 1]
  <2>1. i + 1 \in 1 .. Len(fifo) /\ i + 1 # 1 /\ 1 \in 1 .. Len(fifo) /\ t[i] = fifo[i + 1]
    BY <1>2
  <2>2. t[i] # head /\ t[i] # current
    BY <2>1, <1>1, <1>3
  <2>3. CASE i = Len(t)
    BY <2>1, <2>3, <1>2, <1>4, <2>2
  <2>4. CASE i # Len(t)
    <3>1. i + 1 \in 1 .. Len(t) /\ i + 1 # Len(fifo)
      BY <1>2, <2>4
    <3>2. t[i + 1] = fifo[(i + 1) + 1]
      BY <3>1, <1>2
    <3> QED BY <3>1, <3>2, <2>1, <2>2, <2>4, <1>4
  <2> QED BY <2>3, <2>4
<1>7. \A i, j \in 1 .. Len(t) : t[i] = t[j] => i = j
  BY <1>2, <1>3
<1>8. t # <<>> => tail = t[Len(t)]
  BY <1>2, <1>4
<1>9. next[head] = IF t = <<>> THEN Null ELSE t[1]
  BY <1>1, <1>2, <1>4
<1>10. {t[i] : i \in 1 .. Len(t)} = {fifo[i] : i \in 1 .. Len(fifo)} \ {head}
  <2>1. ASSUME NEW i \in 1 .. Len(fifo), fifo[i] # head
        PROVE  \E k \in 1 .. Len(t) : t[k] = fifo[i]
    <3>1. i # 1
      BY <2>1, <1>1
    <3>2. i - 1 \in 1 .. Len(t) /\ (i - 1) + 1 = i
      BY <3>1, <1>2
    <3>3. t[i - 1] = fifo[(i - 1) + 1]
      BY <3>2, <1>2
    <3> QED BY <3>2, <3>3
  <2>2. ASSUME NEW k \in 1 .. Len(t)
        PROVE  /\ t[k] # head
               /\ \E i \in 1 .. Len(fifo) : fifo[i] = t[k]
    <3>1. k + 1 \in 1 .. Len(fifo)
      BY <1>2
    <3> QED BY <3>1, <1>6
  <2> QED BY <2>1, <2>2
<1>11. \A i \in 1 .. Len(t) :
        /\ t[i] = fifo[i + 1]
        /\ t[i] # head
        /\ t[i] # current
        /\ next[t[i]] = IF i = Len(t) THEN Null ELSE t[i + 1]
  BY <1>6
<1> QED BY <1>1, <1>2, <1>5, <1>7, <1>8, <1>9, <1>10, <1>11 DEF t

\* Freeing the block of an item that is in no list leaves the list alone.
LEMMA FreeStep ==
  ASSUME IInv, NEW b \in live, FreeItem(b),
         \A i \in 1 .. Len(fifo) : fifo[i] # b
  PROVE  /\ next' \in [Block -> Block \cup {Null, Garbage}]
         /\ payload' \in [Block -> Payload \cup {None}]
         /\ live' = live \ {b}
         /\ \A i \in 1 .. Len(fifo) : /\ next'[fifo[i]] = next[fifo[i]]
                                      /\ payload'[fifo[i]] = payload[fifo[i]]
<1>1. b \in Block /\ \A i \in 1 .. Len(fifo) : fifo[i] \in Block
  BY DEF IInv, TypeOK
<1> QED BY <1>1 DEF FreeItem, IInv, TypeOK

\* Unlinking the oldest item keeps the shape of the list: the second item becomes
\* the head, and the item that is executed is owned by the run alone.
LEMMA TakeStep == ASSUME IInv, TakeJob PROVE IInv'
<1> DEFINE t == Tail(fifo)
<1>1. /\ fifo' = t /\ current' = head /\ head' = next[head] /\ head # Null /\ current = Null
      /\ mode = "draining"
      /\ UNCHANGED <<tail, next, payload, live, ret, returned, mode>>
  BY DEF TakeJob
<1>2. /\ fifo # <<>>
      /\ head = fifo[1] /\ head \in Block /\ head \in live
      /\ t \in Seq(Block)
      /\ \A i \in 1 .. Len(t) :
           /\ t[i] # head
           /\ next[t[i]] = IF i = Len(t) THEN Null ELSE t[i + 1]
      /\ \A i, j \in 1 .. Len(t) : t[i] = t[j] => i = j
      /\ t # <<>> => tail = t[Len(t)]
      /\ next[head] = IF t = <<>> THEN Null ELSE t[1]
      /\ {t[i] : i \in 1 .. Len(t)} = {fifo[i] : i \in 1 .. Len(fifo)} \ {head}
      /\ Len(fifo) \in Nat \ {0}
  BY <1>1, UnlinkHead
<1> HIDE DEF t
<1>3. TypeOK'
  <2>1. next[head] \in Block \cup {Null}
    BY <1>2, EmptySeq
  <2> QED BY <1>1, <1>2, <2>1 DEF IInv, TypeOK
<1>4. ListShape'
  BY <1>1, <1>2 DEF ListShape
<1>5. Ownership'
  <2>1. live = {t[i] : i \in 1 .. Len(t)} \cup {head}
    <3>1. 1 \in 1 .. Len(fifo)
      BY <1>2
    <3> QED BY <3>1, <1>1, <1>2 DEF IInv, Ownership
  <2> QED BY <1>1, <1>2, <2>1, PointerAssumption DEF Ownership
<1>6. Phases'
  BY <1>1 DEF IInv, Phases
<1> QED BY <1>3, <1>4, <1>5, <1>6 DEF IInv

\* Freeing the executed item disturbs no item of the list, which it left before,
\* whether the run goes on or ends with the exception of the job.
LEMMA FinishStep ==
  ASSUME IInv, NEW r \in Results, FinishJob(r)
  PROVE  IInv'
<1>1. /\ current \in live
      /\ \A i \in 1 .. Len(fifo) : fifo[i] # current
      /\ FreeItem(current)
      /\ current # Null /\ mode = "draining"
  BY DEF FinishJob, IInv, Ownership, Phases
<1>2. /\ next' \in [Block -> Block \cup {Null, Garbage}]
      /\ payload' \in [Block -> Payload \cup {None}]
      /\ live' = live \ {current}
      /\ \A i \in 1 .. Len(fifo) : next'[fifo[i]] = next[fifo[i]]
  BY <1>1, FreeStep
<1>3. /\ current' = Null /\ ret' = r /\ UNCHANGED <<head, tail, fifo>>
      /\ mode' \in {"draining", "host"} /\ returned' \in Results
      /\ mode' = "draining" => r # "error"
  BY <1>1 DEF FinishJob, Results, IInv, TypeOK
<1>4. TypeOK'
  BY <1>2, <1>3 DEF IInv, TypeOK
<1>5. ListShape'
  BY <1>2, <1>3 DEF IInv, ListShape
<1>6. Ownership'
  BY <1>1, <1>2, <1>3, PointerAssumption DEF IInv, Ownership, TypeOK
<1>7. Phases'
  BY <1>3 DEF Phases
<1> QED BY <1>4, <1>5, <1>6, <1>7 DEF IInv

\* The cleanup reads the next pointer of an item before it frees it, so that the
\* rest of the list survives.
LEMMA DiscardStep == ASSUME IInv, DiscardJob PROVE IInv'
<1> DEFINE t == Tail(fifo)
<1>1. /\ fifo' = t /\ head' = next[head] /\ head # Null
      /\ mode = "cleanup"
      /\ next' = [next EXCEPT ![head] = Garbage]
      /\ payload' = [payload EXCEPT ![head] = None]
      /\ live' = live \ {head}
      /\ UNCHANGED <<tail, current, ret, returned, mode>>
  BY DEF DiscardJob, FreeItem
<1>2. /\ fifo # <<>>
      /\ head = fifo[1] /\ head \in Block /\ head \in live /\ head # current
      /\ t \in Seq(Block)
      /\ \A i \in 1 .. Len(t) :
           /\ t[i] # head
           /\ t[i] # current
           /\ next[t[i]] = IF i = Len(t) THEN Null ELSE t[i + 1]
      /\ \A i, j \in 1 .. Len(t) : t[i] = t[j] => i = j
      /\ t # <<>> => tail = t[Len(t)]
      /\ next[head] = IF t = <<>> THEN Null ELSE t[1]
      /\ {t[i] : i \in 1 .. Len(t)} = {fifo[i] : i \in 1 .. Len(fifo)} \ {head}
  BY <1>1, UnlinkHead
<1> HIDE DEF t
<1>3. TypeOK'
  <2>1. next[head] \in Block \cup {Null}
    BY <1>2, EmptySeq
  <2> QED BY <1>1, <1>2, <2>1 DEF IInv, TypeOK
<1>4. ListShape'
  <2>1. \A i \in 1 .. Len(t) : next'[t[i]] = next[t[i]]
    BY <1>1, <1>2 DEF IInv, TypeOK
  <2> QED BY <1>1, <1>2, <2>1 DEF ListShape
<1>5. Ownership'
  <2>1. live' = {t[i] : i \in 1 .. Len(t)} \cup ({current} \ {Null})
    BY <1>1, <1>2 DEF IInv, Ownership
  <2> QED BY <1>1, <1>2, <2>1 DEF Ownership
<1>6. Phases'
  BY <1>1 DEF IInv, Phases
<1> QED BY <1>3, <1>4, <1>5, <1>6 DEF IInv

\* Every step keeps the invariant.
LEMMA NextIInv == ASSUME IInv, [Next]_vars PROVE IInv'
<1>1. ASSUME NEW b \in Block, NEW j \in Payload, EnqueueJob(b, j)
      PROVE  IInv'
  BY <1>1, EnqueueStep
<1>2. CASE RunJobs
  BY <1>2 DEF RunJobs, IInv, TypeOK, ListShape, Ownership, Phases, Results
<1>3. CASE TakeJob
  BY <1>3, TakeStep
<1>4. ASSUME NEW r \in Results, FinishJob(r)
      PROVE  IInv'
  BY <1>4, FinishStep
<1>5. CASE EndRun
  BY <1>5 DEF EndRun, IInv, TypeOK, ListShape, Ownership, Phases, Results
<1>6. CASE Cleanup
  BY <1>6 DEF Cleanup, IInv, TypeOK, ListShape, Ownership, Phases
<1>7. CASE DiscardJob
  BY <1>7, DiscardStep
<1>8. CASE EndCleanup
  <2>1. fifo = <<>>
    BY <1>8, PointerAssumption, EmptySeq DEF EndCleanup, IInv, ListShape, TypeOK
  <2> QED BY <1>8, <2>1 DEF EndCleanup, IInv, TypeOK, ListShape, Ownership, Phases
<1>9. CASE UNCHANGED vars
  BY <1>9 DEF vars, IInv, TypeOK, ListShape, Ownership, Phases
<1> QED BY <1>1, <1>2, <1>3, <1>4, <1>5, <1>6, <1>7, <1>8, <1>9 DEF Next

\* For every heap and every run of the engine the pointers trace the order of
\* the jobs, each live item is owned exactly once, and a cleanup leaks none.
THEOREM QueueSafety == Spec => [](TypeOK /\ ListShape /\ Ownership /\ NothingLeaked)
<1>1. IInv => TypeOK /\ ListShape /\ Ownership /\ NothingLeaked
  <2>1. ASSUME IInv, mode = "down" PROVE live = {}
    <3>1. fifo = <<>> /\ Len(fifo) = 0 /\ current = Null
      BY <2>1, EmptySeq DEF IInv, Phases
    <3> QED BY <2>1, <3>1 DEF IInv, Ownership
  <2> QED BY <2>1 DEF IInv, NothingLeaked
<1> QED BY <1>1, InitIInv, NextIInv, PTL DEF Spec

\* jerry_run_jobs fails exactly when a job failed, and a run that succeeds
\* leaves no job behind.
THEOREM RunReportsFailure == Spec => RunOutcome
<1>1. ASSUME IInv, [Next]_vars, mode = "draining", mode' = "host"
      PROVE  /\ returned' = "error" <=> ret' = "error"
             /\ returned' # "error" => head' = Null
  <2>1. CASE \E r \in Results : FinishJob(r)
    BY <2>1, <1>1 DEF FinishJob
  <2>2. CASE EndRun
    BY <2>2, <1>1 DEF EndRun, IInv, Phases
  <2>3. \/ \E r \in Results : FinishJob(r)
        \/ EndRun
    BY <1>1 DEF Next, vars, EnqueueJob, RunJobs, TakeJob, Cleanup, DiscardJob, EndCleanup
  <2> QED BY <2>1, <2>2, <2>3
<1>2. ASSUME IInv, [Next]_vars
      PROVE  [mode = "draining" /\ mode' = "host" =>
                /\ returned' = "error" <=> ret' = "error"
                /\ returned' # "error" => head' = Null]_vars
  BY <1>1, <1>2
<1> QED BY <1>2, InitIInv, NextIInv, PTL DEF Spec, RunOutcome

-----------------------------------------------------------------------------

\* The queue of JobFifo that the list stands for, and the job it executes.
AbsQueue == [i \in 1 .. Len(fifo) |-> payload[fifo[i]]]
AbsCurrent == IF current = Null THEN None ELSE payload[current]

\* Items that are queued or executed carry the payload they were enqueued with.
PayloadInv == \A b \in live : payload[b] \in Payload

\* A sequence given by its elements.
LEMMA MappedSeq ==
  ASSUME NEW S, NEW n \in Nat, NEW f \in [1 .. n -> S]
  PROVE  f \in Seq(S) /\ Len(f) = n
  BY SMT

\* The abstract queue is as long as the list and holds the payloads in its order.
AbsQueueOK == /\ AbsQueue \in Seq(Payload)
              /\ Len(AbsQueue) = Len(fifo)
              /\ Len(fifo) \in Nat
              /\ \A i \in 1 .. Len(fifo) : AbsQueue[i] = payload[fifo[i]]

\* The abstract queue is a sequence of payloads, as long as the list.
LEMMA AbsQueueType == IInv /\ PayloadInv => AbsQueueOK
<1> SUFFICES ASSUME IInv, PayloadInv PROVE AbsQueueOK
  OBVIOUS
<1>1. Len(fifo) \in Nat
  BY LenProperties DEF IInv, TypeOK
<1>2. \A i \in 1 .. Len(fifo) : payload[fifo[i]] \in Payload
  BY DEF IInv, Ownership, PayloadInv
<1>3. AbsQueue \in [1 .. Len(fifo) -> Payload]
  BY <1>2 DEF AbsQueue
<1>4. AbsQueue \in Seq(Payload) /\ Len(AbsQueue) = Len(fifo)
  BY <1>1, <1>3, MappedSeq
<1>5. \A i \in 1 .. Len(fifo) : AbsQueue[i] = payload[fifo[i]]
  BY DEF AbsQueue
<1> QED BY <1>1, <1>4, <1>5 DEF AbsQueueOK

\* The same in the next state.
LEMMA AbsQueueTypePrime == ASSUME IInv', PayloadInv' PROVE AbsQueueOK'
  BY AbsQueueType, PTL

\* The payload of an item is set when it is linked and stays until it is freed.
LEMMA NextPayload == ASSUME IInv, PayloadInv, [Next]_vars PROVE PayloadInv'
<1>1. ASSUME NEW b \in Block, NEW j \in Payload, EnqueueJob(b, j) PROVE PayloadInv'
  BY <1>1 DEF EnqueueJob, PayloadInv, IInv, TypeOK
<1>2. ASSUME NEW b \in live, FreeItem(b) PROVE PayloadInv'
  BY <1>2 DEF FreeItem, PayloadInv, IInv, TypeOK
<1>3. ASSUME NEW r \in Results, FinishJob(r) PROVE PayloadInv'
  BY <1>3, <1>2 DEF FinishJob, IInv, Ownership
<1>4. CASE DiscardJob
  BY <1>4, <1>2, UnlinkHead DEF DiscardJob
<1>5. CASE UNCHANGED <<live, payload>>
  BY <1>5 DEF PayloadInv
<1> QED BY <1>1, <1>3, <1>4, <1>5
        DEF Next, vars, RunJobs, TakeJob, EndRun, Cleanup, EndCleanup

\* Linking an item appends its payload to the abstract queue: the item came from a
\* free block, so that no payload of a queued item is overwritten.
LEMMA AbsEnqueue ==
  ASSUME IInv, IInv', PayloadInv, PayloadInv', NEW b \in Block, NEW j \in Payload, EnqueueJob(b, j)
  PROVE  Fifo!Enqueue(j)
<1>1. /\ fifo' = Append(fifo, b) /\ fifo \in Seq(Block)
      /\ payload' = [payload EXCEPT ![b] = j]
      /\ b \notin live
      /\ UNCHANGED <<current, mode>>
  BY DEF EnqueueJob, IInv, TypeOK
<1>2. /\ Len(fifo') = Len(fifo) + 1
      /\ Len(fifo) \in Nat
      /\ fifo'[Len(fifo) + 1] = b
      /\ \A i \in 1 .. Len(fifo) : fifo'[i] = fifo[i]
  BY <1>1, AppendToFifo
<1>3. \A c \in live : payload'[c] = payload[c] /\ c \in Block
  BY <1>1 DEF IInv, TypeOK
<1>4. AbsQueue' = Append(AbsQueue, j)
  <2>1. /\ AbsQueue \in Seq(Payload) /\ Len(AbsQueue) = Len(fifo)
        /\ \A i \in 1 .. Len(fifo) : AbsQueue[i] = payload[fifo[i]]
    BY AbsQueueType DEF AbsQueueOK
  <2>2. /\ AbsQueue' \in Seq(Payload) /\ Len(AbsQueue') = Len(fifo')
        /\ \A i \in 1 .. Len(fifo') : AbsQueue'[i] = payload'[fifo'[i]]
    BY AbsQueueTypePrime DEF AbsQueueOK
  <2> DEFINE q == Append(AbsQueue, j)
  <2>3. /\ q \in Seq(Payload) /\ Len(q) = Len(fifo) + 1
        /\ q[Len(fifo) + 1] = j
        /\ \A i \in 1 .. Len(fifo) : q[i] = AbsQueue[i]
    BY <2>1, AppendProperties
  <2> HIDE DEF q
  <2>4. \A i \in 1 .. Len(fifo) : fifo[i] \in live
    BY DEF IInv, Ownership
  <2>5. payload'[b] = j
    BY <1>1 DEF IInv, TypeOK
  <2>6. ASSUME NEW i \in 1 .. Len(fifo') PROVE AbsQueue'[i] = q[i]
    <3>1. CASE i = Len(fifo) + 1
      BY <3>1, <1>2, <2>2, <2>3, <2>5
    <3>2. CASE i \in 1 .. Len(fifo)
      BY <3>2, <1>2, <1>3, <2>1, <2>2, <2>3, <2>4
    <3> QED BY <3>1, <3>2, <1>2
  <2>7. AbsQueue' = q
    BY <2>2, <2>3, <2>6, <1>2, SeqEqual
  <2> QED BY <2>7 DEF q
<1>5. AbsCurrent' = AbsCurrent
  BY <1>1, <1>3 DEF AbsCurrent, IInv, Ownership
<1>6. mode = "host" \/ AbsCurrent # None
  BY PointerAssumption DEF EnqueueJob, AbsCurrent, IInv, Ownership, PayloadInv
<1> QED BY <1>1, <1>4, <1>5, <1>6 DEF Fifo!Enqueue, AbsQueue, AbsCurrent

\* The oldest job leaves the abstract queue when its item leaves the list.
LEMMA AbsUnlink ==
  ASSUME IInv, IInv', PayloadInv, PayloadInv', head # Null,
         fifo' = Tail(fifo),
         \A i \in 1 .. Len(fifo') : payload'[fifo'[i]] = payload[fifo'[i]]
  PROVE  /\ AbsQueue # <<>>
         /\ AbsQueue' = Tail(AbsQueue)
         /\ Head(AbsQueue) = payload[head]
<1> DEFINE t == Tail(fifo)
<1>1. /\ head = fifo[1] /\ Len(fifo) \in Nat \ {0} /\ Len(t) = Len(fifo) - 1
      /\ \A i \in 1 .. Len(t) : t[i] = fifo[i + 1]
  BY UnlinkHead
<1> HIDE DEF t
<1>2. fifo' = t
  BY DEF t
<1>3. /\ AbsQueue \in Seq(Payload) /\ Len(AbsQueue) = Len(fifo)
      /\ \A i \in 1 .. Len(fifo) : AbsQueue[i] = payload[fifo[i]]
  BY AbsQueueType DEF AbsQueueOK
<1>4. /\ AbsQueue' \in Seq(Payload) /\ Len(AbsQueue') = Len(fifo')
      /\ \A i \in 1 .. Len(fifo') : AbsQueue'[i] = payload'[fifo'[i]]
  BY AbsQueueTypePrime DEF AbsQueueOK
<1>5. AbsQueue # <<>>
  BY <1>1, <1>3, EmptySeq
<1> DEFINE q == Tail(AbsQueue)
<1>6. /\ q \in Seq(Payload) /\ Len(q) = Len(fifo) - 1
      /\ \A i \in 1 .. Len(q) : q[i] = AbsQueue[i + 1]
  BY <1>3, <1>5, HeadTailProperties
<1> HIDE DEF q
<1>7. ASSUME NEW i \in 1 .. Len(q) PROVE AbsQueue'[i] = q[i]
  <2>1. i \in 1 .. Len(t) /\ i + 1 \in 1 .. Len(fifo)
    BY <1>1, <1>6
  <2>2. AbsQueue'[i] = payload[fifo[i + 1]]
    BY <2>1, <1>1, <1>2, <1>4
  <2> QED BY <2>1, <2>2, <1>3, <1>6
<1>8. AbsQueue' = q
  BY <1>1, <1>2, <1>4, <1>6, <1>7, SeqEqual
<1>9. Head(AbsQueue) = payload[head]
  <2>1. 1 \in 1 .. Len(fifo)
    BY <1>1
  <2> QED BY <2>1, <1>1, <1>3, <1>5
<1> QED BY <1>5, <1>8, <1>9 DEF q

\* Unlinking an item takes the head of the abstract queue.
LEMMA AbsTake ==
  ASSUME IInv, IInv', PayloadInv, PayloadInv', TakeJob
  PROVE  Fifo!TakeJob
<1>1. /\ mode = "draining" /\ current = Null /\ head # Null
      /\ current' = head /\ fifo' = Tail(fifo)
      /\ UNCHANGED <<payload, mode>>
  BY DEF TakeJob
<1>2. head \in Block
  BY <1>1, UnlinkHead
<1>3. /\ AbsQueue # <<>>
      /\ AbsQueue' = Tail(AbsQueue)
      /\ Head(AbsQueue) = payload[head]
  BY <1>1, AbsUnlink
<1>4. AbsCurrent = None /\ AbsCurrent' = payload[head]
  BY <1>1, <1>2, PointerAssumption DEF AbsCurrent
<1> QED BY <1>1, <1>3, <1>4 DEF Fifo!TakeJob, AbsQueue, AbsCurrent

\* Freeing the executed item leaves the abstract queue alone.
LEMMA AbsFinish ==
  ASSUME IInv, PayloadInv, NEW r \in Results, FinishJob(r)
  PROVE  Fifo!FinishJob
<1>1. /\ current # Null /\ current' = Null /\ FreeItem(current)
      /\ mode' \in {mode, "host"} /\ mode = "draining"
      /\ fifo' = fifo
  BY DEF FinishJob, IInv, Phases
<1>2. current \in live /\ \A i \in 1 .. Len(fifo) : fifo[i] # current
  BY <1>1 DEF IInv, Ownership
<1>3. \A i \in 1 .. Len(fifo) : payload'[fifo[i]] = payload[fifo[i]]
  BY <1>1, <1>2, FreeStep
<1>4. AbsQueue' = AbsQueue
  BY <1>1, <1>3 DEF AbsQueue
<1>5. AbsCurrent # None /\ AbsCurrent' = None
  BY <1>1, <1>2, PointerAssumption DEF AbsCurrent, PayloadInv
<1> QED BY <1>1, <1>4, <1>5 DEF Fifo!FinishJob, AbsQueue, AbsCurrent

\* Discarding an item drops the head of the abstract queue.
LEMMA AbsDiscard ==
  ASSUME IInv, IInv', PayloadInv, PayloadInv', DiscardJob
  PROVE  Fifo!Discard
<1>1. /\ mode = "cleanup" /\ head # Null /\ fifo' = Tail(fifo) /\ FreeItem(head)
      /\ UNCHANGED <<current, mode>>
  BY DEF DiscardJob
<1>2. /\ head \in Block /\ head \in live
      /\ \A i \in 1 .. Len(Tail(fifo)) : Tail(fifo)[i] # head
      /\ Tail(fifo) \in Seq(Block)
  BY <1>1, UnlinkHead
<1>3. \A i \in 1 .. Len(fifo') : payload'[fifo'[i]] = payload[fifo'[i]]
  <2>1. \A i \in 1 .. Len(fifo') : fifo'[i] # head /\ fifo'[i] \in Block
    BY <1>1, <1>2, ElementOfSeq
  <2> QED BY <2>1, <1>1 DEF FreeItem, IInv, TypeOK
<1>4. AbsQueue # <<>> /\ AbsQueue' = Tail(AbsQueue)
  BY <1>1, <1>3, AbsUnlink
<1>5. AbsCurrent' = AbsCurrent
  BY <1>1, PointerAssumption DEF AbsCurrent, IInv, Phases
<1> QED BY <1>1, <1>4, <1>5 DEF Fifo!Discard, AbsQueue, AbsCurrent

\* The list is empty exactly when the abstract queue is.
LEMMA AbsEmpty == ASSUME IInv, PayloadInv PROVE head = Null <=> AbsQueue = <<>>
<1>1. head = Null <=> fifo = <<>>
  BY PointerAssumption, EmptySeq DEF IInv, ListShape, TypeOK
<1>2. fifo = <<>> <=> Len(fifo) = 0
  BY EmptySeq DEF IInv, TypeOK
<1>3. AbsQueue = <<>> <=> Len(AbsQueue) = 0
  BY AbsQueueType, EmptySeq DEF AbsQueueOK
<1> QED BY <1>1, <1>2, <1>3, AbsQueueType DEF AbsQueueOK

\* The linked list of ecma-jobqueue.c is a first-in first-out queue: whatever
\* the blocks the heap hands out, each of its steps is a step of JobFifo.
THEOREM ListIsFifo == Spec => ImplementsFifo
<1>1. Init => Fifo!Init
  BY EmptySeq DEF Init, Fifo!Init
<1>2. Init => PayloadInv
  BY DEF Init, PayloadInv
<1>3. ASSUME IInv, IInv', PayloadInv, PayloadInv', [Next]_vars
      PROVE  [Fifo!Next]_Fifo!vars
  <2>1. ASSUME NEW b \in Block, NEW j \in Payload, EnqueueJob(b, j)
        PROVE  Fifo!Next
    BY <1>3, <2>1, AbsEnqueue DEF Fifo!Next
  <2>2. ASSUME NEW r \in Results, FinishJob(r)
        PROVE  Fifo!Next
    BY <1>3, <2>2, AbsFinish DEF Fifo!Next
  <2>3. CASE RunJobs
    BY <2>3 DEF RunJobs, Fifo!Next, Fifo!RunJobs
  <2>4. CASE TakeJob
    BY <1>3, <2>4, AbsTake DEF Fifo!Next
  <2>5. CASE EndRun
    BY <1>3, <2>5, AbsEmpty DEF EndRun, Fifo!Next, Fifo!EndRun, AbsQueue
  <2>6. CASE Cleanup
    BY <2>6 DEF Cleanup, Fifo!Next, Fifo!Cleanup
  <2>7. CASE DiscardJob
    BY <1>3, <2>7, AbsDiscard DEF Fifo!Next
  <2>8. CASE EndCleanup
    BY <1>3, <2>8, AbsEmpty DEF EndCleanup, Fifo!Next, Fifo!EndCleanup, AbsQueue
  <2>9. CASE UNCHANGED vars
    BY <2>9 DEF vars, Fifo!vars
  <2> QED BY <1>3, <2>1, <2>2, <2>3, <2>4, <2>5, <2>6, <2>7, <2>8, <2>9 DEF Next
<1> QED BY <1>1, <1>2, <1>3, InitIInv, NextIInv, NextPayload, PTL
        DEF Spec, ImplementsFifo, Fifo!Spec

=============================================================================
