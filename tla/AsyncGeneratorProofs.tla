------------------------ MODULE AsyncGeneratorProofs ------------------------
(***************************************************************************)
(* AsyncGenerator for any number of requests: a generator with requests is *)
(* resumed by exactly one job, hands each request out once, and its await  *)
(* state tells what it waits for.                                          *)
(***************************************************************************)
EXTENDS AsyncGenerator, FiniteSetTheorems, SequenceTheorems, TLAPS

Code == Script \cup Native

\* The calls in progress: at most one script outside of the generator, and above it
\* what the generator executes, which is one frame, or two while a yield answers.
Shape(s) ==
  \A i \in 1 .. Len(s) :
     /\ s[i] = "script" => i = Len(s)
     /\ s[i] = "yielding" => i = 1 /\ Len(s) > 1 /\ s[2] = "body"
     /\ i > 1 /\ s[i] # "script" => i = 2 /\ s[1] = "yielding"

\* What the generator executes.
Gen(s) == IF s = <<>> \/ s[1] = "script" THEN "none" ELSE s[1]

\* Who resumes the generator.
Resumed(g) ==
  /\ awaited + Len(jobs) = IF tasks = <<>> \/ g # "none" THEN 0 ELSE 1
  /\ g # "none" => tasks # <<>>
  /\ g = "none" /\ completed => tasks = <<>>
  /\ g # "none" => (completed <=> g \in {"closing", "rejecting"})

\* Whether the value of the request at the head is taken.
Taken == {"body", "yielding", "passing", "result", "getReturn", "return"}

Handed(g) ==
  /\ \A i \in 2 .. Len(tasks) : tasks[i].fresh
  /\ (jobs # <<>> /\ jobs[1] = "generator") => tasks[1].fresh
  /\ awaited > 0 \/ (jobs # <<>> /\ jobs[1] # "generator") => ~tasks[1].fresh
  /\ g \in Taken => ~tasks[1].fresh

\* The await state while script code runs on behalf of the generator, and while none does.
Waits(g) ==
  /\ state # "invalid"
  /\ ~doAwait => state = "yieldNext" /\ ~iterator
  /\ doAwait => (iterator <=> state \in YieldState)
  /\ ~called => g = "none" /\ tasks = <<>> /\ ~doAwait
  /\ g \in {"start", "body", "yielding", "closing", "rejecting"} => ~doAwait
  /\ g \in {"next", "throw", "close", "getThrow", "getClose", "passing"} =>
       doAwait /\ state = "yieldOperation"
  /\ g \in {"return", "getReturn"} => doAwait /\ state = "yieldReturn"
  /\ g = "result" => doAwait /\ state \in {"yieldNext", "yieldNextReturn"}
  /\ g = "run" /\ doAwait => state = "yieldOperation"
  /\ doAwait /\ g = "none" =>
       (state = "yieldOperation" <=> awaited = 0 /\ (jobs = <<>> \/ jobs[1] = "generator"))

IInv == /\ TypeOK
        /\ Shape(stack)
        /\ Resumed(Gen(stack))
        /\ Handed(Gen(stack))
        /\ Waits(Gen(stack))

-----------------------------------------------------------------------------
(* The stack.                                                              *)

LEMMA Push ==
  ASSUME NEW S, NEW s \in Seq(S), NEW k \in S
  PROVE  /\ <<k>> \o s \in Seq(S)
         /\ Len(<<k>> \o s) = Len(s) + 1
         /\ (<<k>> \o s)[1] = k
         /\ \A i \in 2 .. Len(s) + 1 : (<<k>> \o s)[i] = s[i - 1]
         /\ <<k>> \o s # <<>>
<1>1. <<k>> \in Seq(S) /\ Len(<<k>>) = 1 /\ <<k>>[1] = k
  OBVIOUS
<1>2. Len(s) \in Nat
  BY LenProperties
<1>3. /\ <<k>> \o s \in Seq(S)
      /\ Len(<<k>> \o s) = 1 + Len(s)
      /\ \A i \in 1 .. 1 + Len(s) :
            (<<k>> \o s)[i] = IF i <= 1 THEN <<k>>[i] ELSE s[i - 1]
  BY <1>1, ConcatProperties
<1> QED BY <1>1, <1>2, <1>3, EmptySeq

\* The generator goes from nothing to a frame; a script that asks stays below.
LEMMA PushFrame ==
  ASSUME NEW s \in Seq(Code), Shape(s), Gen(s) = "none",
         NEW k \in Code \ {"script", "yielding"}
  PROVE  <<k>> \o s \in Seq(Code) /\ Shape(<<k>> \o s) /\ Gen(<<k>> \o s) = k
<1>1. Len(s) \in Nat /\ (s # <<>> => Len(s) # 0) /\ (s = <<>> => Len(s) = 0)
  BY LenProperties, EmptySeq
<1>2. s # <<>> => Len(s) = 1 /\ s[1] = "script"
  <2>1. s # <<>> => s[1] \in Code
    BY <1>1, ElementOfSeq
  <2>2. s # <<>> => s[1] = "script"
    BY <2>1 DEF Gen, Code, Script, Native
  <2>3. s # <<>> => 1 \in 1 .. Len(s)
    BY <1>1
  <2> QED BY <2>2, <2>3 DEF Shape
<1> DEFINE t == <<k>> \o s
<1>3. /\ t \in Seq(Code) /\ Len(t) = Len(s) + 1 /\ t[1] = k /\ t # <<>>
      /\ \A i \in 2 .. Len(s) + 1 : t[i] = s[i - 1]
  BY Push
<1> HIDE DEF t
<1>4. Shape(t)
  BY <1>1, <1>2, <1>3 DEF Shape
<1>5. Gen(t) = k
  BY <1>3 DEF Gen
<1> QED BY <1>3, <1>4, <1>5 DEF t

\* A yield of the body answers.
LEMMA PushYielding ==
  ASSUME NEW s \in Seq(Code), Shape(s), Gen(s) = "body"
  PROVE  LET t == <<"yielding">> \o s
         IN t \in Seq(Code) /\ Shape(t) /\ Gen(t) = "yielding"
<1>1. Len(s) \in Nat \ {0} /\ s # <<>> /\ s[1] = "body"
  BY LenProperties, EmptySeq DEF Gen
<1> DEFINE t == <<"yielding">> \o s
<1>2. "yielding" \in Code
  BY DEF Code, Script
<1>3. /\ t \in Seq(Code) /\ Len(t) = Len(s) + 1 /\ t[1] = "yielding" /\ t # <<>>
      /\ \A i \in 2 .. Len(s) + 1 : t[i] = s[i - 1]
  BY <1>2, Push
<1> HIDE DEF t
<1>4. Shape(t)
  BY <1>1, <1>3 DEF Shape
<1>5. Gen(t) = "yielding"
  BY <1>3 DEF Gen
<1> QED BY <1>3, <1>4, <1>5 DEF t

\* The frame of the generator returns.
LEMMA PopFrame ==
  ASSUME NEW s \in Seq(Code), Shape(s), s # <<>>, s[1] # "yielding"
  PROVE  Tail(s) \in Seq(Code) /\ Shape(Tail(s)) /\ Gen(Tail(s)) = "none"
<1>1. Len(s) \in Nat \ {0}
  BY EmptySeq
<1> DEFINE t == Tail(s)
<1>2. t \in Seq(Code) /\ Len(t) = Len(s) - 1 /\ \A i \in 1 .. Len(t) : t[i] = s[i + 1]
  BY HeadTailProperties
<1>3. t # <<>> => Len(t) \in Nat \ {0}
  BY <1>2, EmptySeq
<1> HIDE DEF t
<1>4. \A i \in 1 .. Len(t) : t[i] = "script"
  BY <1>1, <1>2 DEF Shape
<1>5. \A i \in 1 .. Len(t) : i = Len(t)
  BY <1>1, <1>2, <1>4 DEF Shape
<1>6. Shape(t)
  BY <1>4, <1>5 DEF Shape
<1>7. Gen(t) = "none"
  BY <1>3, <1>4 DEF Gen
<1> QED BY <1>2, <1>6, <1>7 DEF t

\* The answer of a yield is given, and the body pauses.
LEMMA PopYielding ==
  ASSUME NEW s \in Seq(Code), Shape(s), Gen(s) = "yielding"
  PROVE  LET t == Tail(Tail(s))
         IN t \in Seq(Code) /\ Shape(t) /\ Gen(t) = "none"
<1>1. Len(s) \in Nat /\ Len(s) > 1 /\ s # <<>> /\ s[1] = "yielding" /\ s[2] = "body"
  BY LenProperties, EmptySeq DEF Gen, Shape
<1> DEFINE u == Tail(s)
<1>2. u \in Seq(Code) /\ Len(u) = Len(s) - 1 /\ \A i \in 1 .. Len(u) : u[i] = s[i + 1]
  BY <1>1, HeadTailProperties
<1> HIDE DEF u
<1>3. u # <<>> /\ u[1] = "body"
  BY <1>1, <1>2
<1>4. Shape(u)
  BY <1>1, <1>2 DEF Shape
<1> QED BY <1>2, <1>3, <1>4, PopFrame DEF u

\* The calls in progress, told by what the generator executes.
LEMMA CallsOf ==
  ASSUME stack \in Seq(Code), Shape(stack)
  PROVE  /\ Busy <=> Gen(stack) # "none"
         /\ Calls({"body"}) # {} <=> Gen(stack) \in {"body", "yielding"}
         /\ Cardinality(Calls({"body"})) \in {0, 1}
         /\ Cardinality(Calls({"body"})) = 1 <=> Gen(stack) \in {"body", "yielding"}
         /\ Calls({"body", "yielding", "passing", "result", "getReturn", "return"}) # {}
              <=> Gen(stack) \in {"body", "yielding", "passing", "result", "getReturn", "return"}
<1>1. /\ DOMAIN stack = 1 .. Len(stack) /\ Len(stack) \in Nat
      /\ stack # <<>> => Len(stack) # 0
      /\ stack = <<>> => Len(stack) = 0
      /\ \A i \in 1 .. Len(stack) : stack[i] \in Code
  BY LenProperties, EmptySeq, ElementOfSeq
<1>2. ASSUME NEW i \in 1 .. Len(stack), stack[i] # "script", i # 1
      PROVE  i = 2 /\ stack[1] = "yielding" /\ stack[2] = "body"
  <2>1. i = 2 /\ stack[1] = "yielding"
    <3>1. Len(stack) \in Nat /\ i \in 1 .. Len(stack) /\ i > 1
      BY <1>1, <1>2
    <3> QED BY <1>2, <3>1 DEF Shape
  <2>2. 1 \in 1 .. Len(stack)
    BY <1>1
  <2> QED BY <2>1, <2>2 DEF Shape
<1>3. Gen(stack) # "none" <=> stack # <<>> /\ stack[1] # "script"
  BY <1>1 DEF Gen, Code, Script, Native
<1>4. Busy <=> Gen(stack) # "none"
  <2>1. CASE Gen(stack) # "none"
    <3>1. 1 \in Calls(Code \ {"script"})
      BY <1>1, <1>3, <2>1 DEF Calls
    <3> QED BY <2>1, <3>1 DEF Busy, Code
  <2>2. CASE Gen(stack) = "none"
    <3>1. \A i \in 1 .. Len(stack) : stack[i] = "script"
      <4>1. stack # <<>> => Len(stack) = 1 /\ stack[1] = "script"
        <5>1. stack # <<>> => 1 \in 1 .. Len(stack)
          BY <1>1
        <5> QED BY <1>3, <2>2, <5>1 DEF Shape
      <4> QED BY <1>1, <4>1
    <3> QED BY <1>1, <2>2, <3>1 DEF Busy, Calls
  <2> QED BY <2>1, <2>2
<1>5. \A i \in 1 .. Len(stack) : stack[i] = "body" <=>
         (i = 1 /\ Gen(stack) = "body") \/ (i = 2 /\ Gen(stack) = "yielding")
  <2>1. stack # <<>> => 1 \in 1 .. Len(stack)
    BY <1>1
  <2>2. stack # <<>> /\ stack[1] = "yielding" => 2 \in 1 .. Len(stack) /\ stack[2] = "body"
    <3>1. stack # <<>> /\ stack[1] = "yielding" => Len(stack) > 1 /\ stack[2] = "body"
      BY <2>1 DEF Shape
    <3> QED BY <1>1, <3>1
  <2>3. \A i \in 1 .. Len(stack) : stack # <<>>
    BY <1>1
  <2> QED BY <1>1, <1>2, <2>2, <2>3 DEF Gen
<1>6. CASE Gen(stack) = "body"
  <2>1. Calls({"body"}) = {1}
    BY <1>1, <1>3, <1>5, <1>6 DEF Calls
  <2>2. Cardinality(Calls({"body"})) = 1
    BY <2>1, FS_Singleton
  <2> QED BY <1>4, <1>6, <2>1, <2>2 DEF Calls
<1>7. CASE Gen(stack) = "yielding"
  <2>1. Len(stack) > 1
    <3>1. stack # <<>> /\ stack[1] = "yielding"
      BY <1>7 DEF Gen
    <3>2. 1 \in 1 .. Len(stack)
      BY <1>1, <3>1
    <3> QED BY <3>1, <3>2 DEF Shape
  <2>2. Calls({"body"}) = {2}
    BY <1>1, <1>5, <1>7, <2>1 DEF Calls
  <2>3. Cardinality(Calls({"body"})) = 1
    BY <2>2, FS_Singleton
  <2> QED BY <1>4, <1>7, <2>2, <2>3 DEF Calls
<1>8. CASE Gen(stack) \notin {"body", "yielding"}
  <2>1. Calls({"body"}) = {}
    BY <1>1, <1>5, <1>8 DEF Calls
  <2>2. Cardinality(Calls({"body"})) = 0
    BY <2>1, FS_EmptySet
  <2>3. ASSUME NEW F, "script" \notin F
        PROVE  Calls(F) # {} <=> Gen(stack) \in F /\ Gen(stack) # "none"
    <3>1. \A i \in 1 .. Len(stack) : stack[i] \in F => i = 1
      BY <1>1, <1>2, <1>3, <1>8, <2>3 DEF Gen
    <3>2. Calls(F) # {} => stack # <<>> /\ stack[1] \in F
      BY <1>1, <3>1 DEF Calls
    <3>3. stack # <<>> /\ stack[1] \in F => 1 \in Calls(F)
      BY <1>1 DEF Calls
    <3> QED BY <1>3, <2>3, <3>2, <3>3 DEF Gen
  <2>4. Calls({"body", "yielding", "passing", "result", "getReturn", "return"}) # {}
          <=> Gen(stack) \in {"body", "yielding", "passing", "result", "getReturn", "return"}
    BY <2>3
  <2> QED BY <1>4, <1>8, <2>1, <2>2, <2>4
<1> QED BY <1>6, <1>7, <1>8

\* A job or the host starts from an empty stack.
LEMMA OneFrame ==
  ASSUME NEW k \in Code \ {"yielding"}
  PROVE  /\ <<k>> \in Seq(Code) /\ Shape(<<k>>)
         /\ Gen(<<k>>) = IF k = "script" THEN "none" ELSE k
<1>1. <<k>> \in Seq(Code) /\ Len(<<k>>) = 1 /\ <<k>>[1] = k /\ <<k>> # <<>>
  OBVIOUS
<1> DEFINE t == <<k>>
<1> HIDE DEF t
<1>2. Shape(t) /\ Gen(t) = IF k = "script" THEN "none" ELSE k
  BY <1>1 DEF t, Shape, Gen
<1> QED BY <1>1, <1>2 DEF t

LEMMA NoFrame == <<>> \in Seq(Code) /\ Shape(<<>>) /\ Gen(<<>>) = "none"
BY EmptySeq DEF Shape, Gen

-----------------------------------------------------------------------------
(* The list of requests and the jobs.                                      *)

LEMMA Tasks ==
  ASSUME TypeOK, tasks # <<>>
  PROVE  /\ Len(tasks) \in Nat \ {0}
         /\ Head(tasks) = tasks[1] /\ tasks[1] \in Task
         /\ Consumed \in Seq(Task) /\ Consumed # <<>> /\ Len(Consumed) = Len(tasks)
         /\ Consumed[1].fresh = FALSE /\ Consumed[1].id = tasks[1].id
         /\ \A i \in 2 .. Len(tasks) : Consumed[i] = tasks[i]
         /\ Tail(tasks) \in Seq(Task) /\ Len(Tail(tasks)) = Len(tasks) - 1
         /\ Tail(tasks) = <<>> <=> Len(tasks) = 1
         /\ \A i \in 1 .. Len(tasks) - 1 : Tail(tasks)[i] = tasks[i + 1]
<1>1. tasks \in Seq(Task)
  BY DEF TypeOK
<1>2. Len(tasks) \in Nat \ {0} /\ DOMAIN tasks = 1 .. Len(tasks)
  BY <1>1, EmptySeq, LenProperties
<1>3. tasks[1] \in Task /\ Head(tasks) = tasks[1]
  BY <1>1, <1>2, ElementOfSeq
<1>4. /\ Tail(tasks) \in Seq(Task) /\ Len(Tail(tasks)) = Len(tasks) - 1
      /\ \A i \in 1 .. Len(tasks) - 1 : Tail(tasks)[i] = tasks[i + 1]
  BY <1>1, HeadTailProperties
<1>5. Tail(tasks) = <<>> <=> Len(tasks) = 1
  <2> DEFINE t == Tail(tasks)
  <2>1. t \in Seq(Task) /\ Len(t) = Len(tasks) - 1
    BY <1>4
  <2> HIDE DEF t
  <2>2. t = <<>> <=> Len(t) = 0
    BY <2>1, EmptySeq
  <2>3. t = <<>> <=> Len(tasks) = 1
    BY <1>2, <2>1, <2>2
  <2> QED BY <2>3 DEF t
<1>6. [tasks[1] EXCEPT !.fresh = FALSE] \in Task
  BY <1>3 DEF Task
<1>7. 1 \in 1 .. Len(tasks)
  BY <1>2
<1>8. Consumed \in Seq(Task) /\ Len(Consumed) = Len(tasks)
  BY <1>1, <1>6, <1>7, ExceptSeq DEF Consumed
<1>9. Consumed # <<>>
  BY <1>2, <1>8, EmptySeq
<1>10. Consumed[1].fresh = FALSE /\ Consumed[1].id = tasks[1].id
  BY <1>2, <1>3, <1>7 DEF Consumed, Task
<1>11. \A i \in 2 .. Len(tasks) : Consumed[i] = tasks[i]
  BY <1>2 DEF Consumed
<1> QED BY <1>2, <1>3, <1>4, <1>5, <1>8, <1>9, <1>10, <1>11

JobKind == {"generator", "resolved", "rejected"}

LEMMA Jobs ==
  ASSUME TypeOK, Resumed(Gen(stack))
  PROVE  /\ awaited \in {0, 1} /\ (awaited = 1 => jobs = <<>>)
         /\ jobs = <<>> \/ \E k \in JobKind : jobs = <<k>>
<1>1. jobs \in Seq(JobKind) /\ awaited \in Nat
  BY DEF TypeOK, JobKind
<1>2. Len(jobs) \in Nat /\ (Len(jobs) = 0 <=> jobs = <<>>)
  BY <1>1, LenProperties, EmptySeq
<1>3. awaited + Len(jobs) \in {0, 1}
  BY DEF Resumed
<1>4. ASSUME Len(jobs) = 1
      PROVE  jobs[1] \in JobKind /\ jobs = <<jobs[1]>>
  <2>1. jobs[1] \in JobKind
    BY <1>1, <1>4, ElementOfSeq
  <2>2. jobs = <<jobs[1]>>
    BY <1>1, <1>4, <2>1, SeqEqual
  <2> QED BY <2>1, <2>2
<1>5. \/ awaited = 1 /\ jobs = <<>>
      \/ awaited = 0 /\ (jobs = <<>> \/ \E k \in JobKind : jobs = <<k>>)
  <2>1. \A a, n \in Nat : a + n \in {0, 1} => (a = 0 /\ n \in {0, 1}) \/ (a = 1 /\ n = 0)
    OBVIOUS
  <2>2. awaited \in Nat /\ Len(jobs) \in Nat
    BY <1>1, <1>2
  <2>3. (awaited = 0 /\ Len(jobs) \in {0, 1}) \/ (awaited = 1 /\ Len(jobs) = 0)
    BY <1>3, <2>1, <2>2, Zenon
  <2>4. ASSUME Len(jobs) = 1
        PROVE  \E k \in JobKind : jobs = <<k>>
    <3> DEFINE k == jobs[1]
    <3>1. k \in JobKind /\ jobs = <<k>>
      BY <1>4, <2>4, Zenon
    <3> HIDE DEF k
    <3> QED BY <3>1
  <2>5. Len(jobs) = 0 => jobs = <<>>
    BY <1>2, Zenon
  <2>6. CASE awaited = 0 /\ Len(jobs) = 0
    BY <2>5, <2>6, Zenon
  <2>7. CASE awaited = 0 /\ Len(jobs) = 1
    BY <2>4, <2>7, Zenon
  <2>8. CASE awaited = 1 /\ Len(jobs) = 0
    BY <2>5, <2>8, Zenon
  <2>9. Len(jobs) \in {0, 1} => Len(jobs) = 0 \/ Len(jobs) = 1
    OBVIOUS
  <2> QED BY <2>3, <2>6, <2>7, <2>8, <2>9, Zenon
<1> QED BY <1>5

\* While the generator is executed, nothing is awaited.
LEMMA Executing ==
  ASSUME IInv, Gen(stack) # "none"
  PROVE  /\ awaited = 0 /\ jobs = <<>> /\ tasks # <<>>
         /\ completed <=> Gen(stack) \in {"closing", "rejecting"}
         /\ stack # <<>> /\ stack \in Seq(Code)
<1>1. awaited + Len(jobs) = 0 /\ tasks # <<>>
  BY DEF IInv, Resumed
<1>2. awaited \in Nat /\ Len(jobs) \in Nat /\ (Len(jobs) # 0 \/ jobs = <<>>)
  BY EmptySeq, LenProperties DEF IInv, TypeOK
<1>3. awaited = 0 /\ Len(jobs) = 0
  BY <1>1, <1>2
<1>4. stack # <<>> /\ stack \in Seq(Code)
  BY DEF IInv, TypeOK, Gen, Code
<1> QED BY <1>1, <1>2, <1>3, <1>4 DEF IInv, Resumed

\* While one of its jobs is waiting, nothing else is awaited.
LEMMA JobTaken ==
  ASSUME IInv, NEW k, Job(k)
  PROVE  /\ Gen(stack) = "none" /\ stack = <<>> /\ awaited = 0 /\ awaited' = 0
         /\ jobs = <<k>> /\ k \in JobKind /\ jobs' = <<>>
         /\ tasks # <<>> /\ ~completed
<1>1. jobs # <<>> /\ Head(jobs) = k /\ stack = <<>> /\ jobs' = Tail(jobs) /\ awaited' = awaited
  BY DEF Job
<1>2. awaited = 0 /\ \E j \in JobKind : jobs = <<j>>
  BY <1>1, Jobs DEF IInv
<1>3. jobs = <<k>> /\ k \in JobKind /\ jobs' = <<>>
  BY <1>1, <1>2
<1>4. Gen(stack) = "none"
  BY <1>1 DEF Gen
<1>5. Len(jobs) = 1
  BY <1>3
<1>6. tasks # <<>>
  BY <1>2, <1>4, <1>5 DEF IInv, Resumed
<1> QED BY <1>1, <1>2, <1>3, <1>4, <1>6 DEF IInv, Resumed

-----------------------------------------------------------------------------
(* What the steps have in common.                                          *)

\* The body goes on.
LEMMA Resumes ==
  ASSUME IInv, NEW ts \in {tasks, Consumed}, NEW stk \in Seq(Code), Shape(stk),
         Gen(stk) = "none", tasks # <<>>, ~completed, ts = Consumed \/ ~tasks[1].fresh,
         ResumeBody(ts, stk), awaited' = 0, jobs' = <<>>, asked' = asked,
         answered' = answered, overwritten' \in BOOLEAN
  PROVE  IInv'
<1>1. stack' \in Seq(Code) /\ Shape(stack') /\ Gen(stack') = "body"
  BY PushFrame DEF ResumeBody, Code, Script
<1>2. /\ tasks' \in Seq(Task) /\ tasks' # <<>> /\ ~tasks'[1].fresh
      /\ Len(tasks') = Len(tasks) /\ Len(tasks) \in Nat
      /\ \A i \in 2 .. Len(tasks) : tasks'[i] = tasks[i]
  BY Tasks DEF IInv, TypeOK, ResumeBody
<1>3. jobs' \in Seq({"generator", "resolved", "rejected"}) /\ Len(jobs') = 0
  BY EmptySeq
<1>4. TypeOK'
  BY <1>1, <1>2, <1>3 DEF IInv, TypeOK, ResumeBody, Code, AwaitState, YieldState
<1>5. Resumed(Gen(stack))'
  BY <1>1, <1>2, <1>3 DEF Resumed, ResumeBody
<1>6. Handed(Gen(stack))'
  BY <1>1, <1>2, <1>3 DEF IInv, Handed, Taken
<1>7. Waits(Gen(stack))'
  BY <1>1 DEF IInv, Waits, ResumeBody
<1> QED BY <1>1, <1>4, <1>5, <1>6, <1>7 DEF IInv

\* The generator awaits a promise.
LEMMA Pauses ==
  ASSUME IInv, Gen(stack) # "none", Gen(stack) # "yielding", ~completed,
         tasks' = Consumed \/ (tasks' = tasks /\ ~tasks[1].fresh),
         Await, stack' = Tail(stack), jobs' = jobs, state' \in AwaitState,
         UNCHANGED <<called, completed, asked, answered, overwritten>>,
         doAwait' \in BOOLEAN, iterator' \in BOOLEAN,
         state' \notin {"invalid", "yieldOperation"},
         doAwait' => called /\ (iterator' <=> state' \in YieldState),
         ~doAwait' => state' = "yieldNext" /\ ~iterator'
  PROVE  IInv'
<1>1. awaited' = 1 /\ jobs' = <<>> /\ tasks # <<>>
  BY Executing DEF Await
<1>2. stack' \in Seq(Code) /\ Shape(stack') /\ Gen(stack') = "none"
  BY Executing, PopFrame DEF IInv, Gen
<1>3. /\ tasks' \in Seq(Task) /\ tasks' # <<>> /\ ~tasks'[1].fresh
      /\ Len(tasks') = Len(tasks) /\ Len(tasks) \in Nat
      /\ \A i \in 2 .. Len(tasks) : tasks'[i] = tasks[i]
  BY <1>1, Tasks DEF IInv, TypeOK
<1>4. jobs' \in Seq({"generator", "resolved", "rejected"}) /\ Len(jobs') = 0
  BY <1>1, EmptySeq
<1>5. TypeOK'
  BY <1>1, <1>2, <1>3, <1>4 DEF IInv, TypeOK, Code
<1>6. Resumed(Gen(stack))'
  BY <1>1, <1>2, <1>3, <1>4 DEF Resumed
<1>7. Handed(Gen(stack))'
  BY <1>1, <1>2, <1>3 DEF IInv, Handed, Taken
<1>8. Waits(Gen(stack))'
  BY <1>1, <1>2 DEF IInv, Waits
<1> QED BY <1>2, <1>5, <1>6, <1>7, <1>8 DEF IInv

\* The answer of the generator is given: an outcome of the body, or what the request
\* behind the head asks for.
LEMMA Answers ==
  ASSUME IInv, NEW ts \in Seq(Task), ts # <<>>, \A i \in 2 .. Len(ts) : ts[i].fresh,
         NEW outcome \in {"value", "done", "error"},
         NEW stk \in Seq(Code), Shape(stk), Gen(stk) = "none", called,
         AnswerLast(ts, outcome, stk), awaited = 0, jobs = <<>>, completed', ~doAwait,
         UNCHANGED <<called, doAwait, state, iterator, awaited, jobs, asked, overwritten>>
  PROVE  IInv'
<1> DEFINE k == IF outcome = "error" THEN "rejecting" ELSE "closing"
<1>1. k \in Code \ {"script", "yielding"} /\ k \in {"closing", "rejecting"}
  BY DEF Code, Script, Native
<1>2. stack' = <<k>> \o stk /\ tasks' = ts /\ answered' = Answered(Head(ts).id, outcome)
  BY DEF AnswerLast
<1> HIDE DEF k
<1>3. stack' \in Seq(Code) /\ Shape(stack') /\ Gen(stack') = k
  BY <1>1, <1>2, PushFrame
<1>4. answered' \in [Request -> {"none", "value", "done", "error"}]
  BY <1>2 DEF IInv, TypeOK, Answered
<1>5. jobs' \in Seq({"generator", "resolved", "rejected"}) /\ Len(jobs') = 0
  BY EmptySeq
<1>6. TypeOK'
  <2>1. completed' \in BOOLEAN
    OBVIOUS
  <2> QED BY <1>2, <1>3, <1>4, <1>5, <2>1 DEF IInv, TypeOK, Code
<1>7. Resumed(Gen(stack))'
  BY <1>1, <1>2, <1>3, <1>5 DEF Resumed
<1>8. Handed(Gen(stack))'
  BY <1>1, <1>2, <1>3 DEF Handed, Taken
<1>9. Waits(Gen(stack))'
  BY <1>1, <1>3 DEF IInv, Waits
<1> QED BY <1>3, <1>6, <1>7, <1>8, <1>9 DEF IInv

\* Script code is called on behalf of the generator.
LEMMA Passes ==
  ASSUME IInv, NEW k \in Code \ {"script", "yielding", "body", "closing", "rejecting", "start", "run"},
         NEW stk \in Seq(Code), Shape(stk), Gen(stk) = "none", stack' = <<k>> \o stk,
         awaited' = 0, jobs' = <<>>, tasks # <<>>, ~completed, k \in Taken => ~tasks[1].fresh,
         UNCHANGED <<tasks, called, completed, doAwait, iterator, asked, overwritten>>,
         answered' \in [Request -> {"none", "value", "done", "error"}], doAwait, called,
         iterator, state' \in YieldState,
         k \in {"next", "throw", "close", "getThrow", "getClose", "passing"}
           => state' = "yieldOperation",
         k \in {"return", "getReturn"} => state' = "yieldReturn",
         k = "result" => state' \in {"yieldNext", "yieldNextReturn"}
  PROVE  IInv'
<1>1. stack' \in Seq(Code) /\ Shape(stack') /\ Gen(stack') = k
  BY PushFrame
<1>2. jobs' \in Seq({"generator", "resolved", "rejected"}) /\ Len(jobs') = 0
  BY EmptySeq
<1>3. state' \in AwaitState /\ state' # "invalid"
  BY DEF AwaitState, YieldState
<1>4. TypeOK'
  BY <1>1, <1>2, <1>3 DEF IInv, TypeOK, Code
<1>5. Resumed(Gen(stack))'
  BY <1>1, <1>2 DEF Resumed, Code, Script, Native
<1>6. Handed(Gen(stack))'
  BY <1>1 DEF IInv, Handed
<1>7. Waits(Gen(stack))'
  BY <1>1, <1>3 DEF Waits, Code, Script, Native
<1> QED BY <1>1, <1>4, <1>5, <1>6, <1>7 DEF IInv

-----------------------------------------------------------------------------
(* The actions.                                                            *)

\* What a frame of the generator on top of the stack implies.
LEMMA OnTop ==
  ASSUME IInv, NEW k, Running(k), k \notin {"none", "script"}
  PROVE  /\ Gen(stack) = k /\ stack # <<>> /\ stack[1] = k /\ stack \in Seq(Code)
         /\ awaited = 0 /\ jobs = <<>> /\ tasks # <<>>
         /\ completed <=> k \in {"closing", "rejecting"}
         /\ tasks[1] = Head(tasks) /\ tasks[1] \in Task
<1>1. stack # <<>> /\ stack[1] = k /\ Gen(stack) = k /\ stack \in Seq(Code)
  BY DEF Running, Gen, IInv, TypeOK, Code
<1> QED BY <1>1, Executing, Tasks DEF IInv

LEMMA AskPreserves ==
  ASSUME IInv, NEW op \in Operation, Ask(op)
  PROVE  IInv'
<1>1. /\ stack \in Seq(Code) /\ tasks \in Seq(Task) /\ asked' \in 1 .. MaxRequests
      /\ stack # <<>> /\ stack[1] \in Script
  <2>1. asked' \in 1 .. MaxRequests
    BY RequestAssumption DEF IInv, TypeOK, Ask
  <2> QED BY <2>1 DEF IInv, TypeOK, Ask, ScriptRuns, Code
<1>2. CASE completed
  <2>1. answered' \in [Request -> {"none", "value", "done", "error"}]
    BY <1>1, <1>2 DEF Ask, Answered, IInv, TypeOK, Request
  <2>2. TypeOK'
    BY <1>1, <1>2, <2>1 DEF Ask, IInv, TypeOK, flags
  <2> QED BY <1>2, <2>2 DEF Ask, IInv, Shape, Gen, Resumed, Handed, Waits
<1>3. CASE ~completed
  <2> DEFINE task == [id |-> asked', op |-> op, fresh |-> TRUE]
  <2>1. task \in Task /\ task.fresh
    BY <1>1 DEF Task, Request
  <2> HIDE DEF task
  <2>2. /\ tasks' = Append(tasks, task) /\ called' = TRUE /\ answered' = answered
        /\ stack' = IF tasks = <<>> /\ ~called THEN <<"start">> \o stack ELSE stack
        /\ jobs' = IF tasks = <<>> /\ called THEN Append(jobs, "generator") ELSE jobs
        /\ UNCHANGED <<completed, doAwait, state, iterator, awaited, overwritten>>
    BY <1>3 DEF Ask, task
  <2>3. /\ tasks' \in Seq(Task) /\ Len(tasks') = Len(tasks) + 1 /\ Len(tasks) \in Nat
        /\ tasks' # <<>> /\ \A i \in 1 .. Len(tasks) : tasks'[i] = tasks[i]
        /\ tasks'[Len(tasks) + 1] = task
    BY <1>1, <2>1, <2>2, AppendProperties, LenProperties
  <2>4. tasks = <<>> <=> Len(tasks) = 0
    BY <1>1, EmptySeq
  <2>5. \A i \in 2 .. Len(tasks') : tasks'[i].fresh
    <3>1. \A i \in 2 .. Len(tasks) : tasks'[i] = tasks[i] /\ tasks[i].fresh
      BY <2>3 DEF IInv, Handed
    <3> QED BY <2>1, <2>3, <3>1
  <2>6. CASE tasks = <<>> /\ ~called
    <3>1. Gen(stack) = "none"
      BY <2>6 DEF IInv, Resumed
    <3>2. stack' \in Seq(Code) /\ Shape(stack') /\ Gen(stack') = "start"
      BY <1>1, <2>2, <2>6, <3>1, PushFrame DEF IInv, Code, Native
    <3>3. awaited = 0 /\ jobs = <<>> /\ jobs' = jobs /\ awaited' = 0 /\ Len(jobs') = 0
      <4>1. awaited + Len(jobs) = 0 /\ awaited \in Nat
        BY <2>6 DEF IInv, Resumed, TypeOK
      <4>2. jobs = <<>> \/ Len(jobs) \in Nat \ {0}
        BY EmptySeq DEF IInv, TypeOK
      <4>3. jobs = <<>>
        BY <4>1, <4>2
      <4>4. Len(<<>>) = 0
        OBVIOUS
      <4> QED BY <2>2, <2>6, <4>1, <4>3, <4>4
    <3>4. TypeOK'
      BY <1>1, <2>2, <2>3, <2>6, <3>2, <3>3 DEF IInv, TypeOK, Code
    <3>5. Resumed(Gen(stack))'
      BY <1>3, <2>2, <2>3, <3>2, <3>3 DEF Resumed
    <3>6. Handed(Gen(stack))'
      BY <2>5, <3>2, <3>3 DEF Handed, Taken
    <3>7. Waits(Gen(stack))'
      BY <2>2, <2>6, <3>2, <3>3 DEF IInv, Waits
    <3> QED BY <3>2, <3>4, <3>5, <3>6, <3>7 DEF IInv
  <2>7. CASE tasks = <<>> /\ called
    <3>1. Gen(stack) = "none"
      BY <2>7 DEF IInv, Resumed
    <3>2. awaited = 0 /\ jobs = <<>> /\ awaited' = 0 /\ jobs' = <<"generator">>
      <4>1. awaited + Len(jobs) = 0 /\ awaited \in Nat
        BY <2>7 DEF IInv, Resumed, TypeOK
      <4>2. jobs = <<>> \/ Len(jobs) \in Nat \ {0}
        BY EmptySeq DEF IInv, TypeOK
      <4>3. jobs = <<>>
        BY <4>1, <4>2
      <4> QED BY <2>2, <2>7, <4>1, <4>3
    <3>3. tasks'[1].fresh /\ stack' = stack
      BY <2>1, <2>2, <2>3, <2>4, <2>7
    <3>4. jobs' \in Seq({"generator", "resolved", "rejected"}) /\ Len(jobs') = 1 /\ jobs'[1] = "generator"
      BY <3>2
    <3>5. TypeOK'
      BY <1>1, <2>2, <2>3, <3>2, <3>3, <3>4 DEF IInv, TypeOK
    <3>6. Resumed(Gen(stack))'
      BY <1>3, <2>2, <2>3, <3>1, <3>2, <3>3, <3>4 DEF Resumed
    <3>7. Handed(Gen(stack))'
      BY <2>5, <3>1, <3>2, <3>3, <3>4 DEF Handed, Taken
    <3>8. Waits(Gen(stack))'
      BY <2>2, <3>1, <3>2, <3>3, <3>4 DEF IInv, Waits
    <3> QED BY <3>3, <3>5, <3>6, <3>7, <3>8 DEF IInv, Shape
  <2>8. CASE tasks # <<>>
    <3>1. tasks'[1] = tasks[1] /\ jobs' = jobs /\ stack' = stack
      BY <2>2, <2>3, <2>4, <2>8
    <3>2. TypeOK'
      BY <1>1, <2>2, <2>3, <3>1 DEF IInv, TypeOK
    <3>3. Resumed(Gen(stack))'
      BY <2>2, <2>3, <2>8, <3>1 DEF IInv, Resumed, Gen
    <3>4. Handed(Gen(stack))'
      BY <2>2, <2>5, <3>1 DEF IInv, Handed, Gen
    <3>5. Waits(Gen(stack))'
      <4>1. Waits(Gen(stack)) /\ (doAwait => called)
        BY DEF IInv, Waits
      <4> QED BY <2>2, <3>1, <4>1 DEF Waits, Gen
    <3> QED BY <3>1, <3>2, <3>3, <3>4, <3>5 DEF IInv, Shape
  <2> QED BY <2>6, <2>7, <2>8
<1> QED BY <1>2, <1>3

LEMMA StartPreserves == ASSUME IInv, Start PROVE IInv'
<1>1. Running("start") /\ asked' = asked /\ overwritten' = overwritten
  BY DEF Start
<1>2. /\ Gen(stack) = "start" /\ awaited = 0 /\ jobs = <<>> /\ tasks # <<>> /\ ~completed
      /\ called /\ ~doAwait /\ stack # <<>> /\ stack \in Seq(Code) /\ stack[1] # "yielding"
  BY <1>1, OnTop DEF IInv, Waits
<1>3. Tail(stack) \in Seq(Code) /\ Shape(Tail(stack)) /\ Gen(Tail(stack)) = "none"
  BY <1>2, PopFrame DEF IInv
<1>4. CASE Head(tasks).op = "next" /\ ResumeBody(Consumed, Tail(stack))
           /\ UNCHANGED <<awaited, jobs, answered>>
  BY <1>1, <1>2, <1>3, <1>4, Resumes DEF IInv, TypeOK
<1>5. ASSUME NEW outcome \in {"error", "done"}, Complete(Consumed, outcome, Tail(stack))
      PROVE  IInv'
  <2>1. Consumed \in Seq(Task) /\ Consumed # <<>> /\ \A i \in 2 .. Len(Consumed) : Consumed[i].fresh
    BY <1>2, Tasks DEF IInv, Handed
  <2> QED BY <1>1, <1>2, <1>3, <1>5, <2>1, Answers DEF Complete
<1> QED BY <1>4, <1>5 DEF Start

LEMMA RunPreserves == ASSUME IInv, RunBody \/ RunYieldStar PROVE IInv'
<1>1. Running("run") /\ asked' = asked /\ overwritten' = overwritten /\ jobs' = jobs
  BY DEF RunBody, RunYieldStar
<1>2. /\ Gen(stack) = "run" /\ awaited = 0 /\ jobs = <<>> /\ tasks # <<>> /\ ~completed
      /\ stack # <<>> /\ stack \in Seq(Code) /\ stack[1] # "yielding"
  BY <1>1, OnTop
<1>3. Tail(stack) \in Seq(Code) /\ Shape(Tail(stack)) /\ Gen(Tail(stack)) = "none"
  BY <1>2, PopFrame DEF IInv
<1>4. /\ doAwait => state = "yieldOperation" /\ called /\ iterator
      /\ overwritten \in BOOLEAN /\ answered \in [Request -> {"none", "value", "done", "error"}]
      /\ iterator \in BOOLEAN /\ doAwait \in BOOLEAN
  BY <1>2 DEF IInv, Waits, TypeOK, YieldState
<1>5. CASE ResumeBody(Consumed, Tail(stack)) /\ UNCHANGED <<awaited, answered>>
  BY <1>1, <1>2, <1>3, <1>4, <1>5, Resumes
<1>6. ASSUME doAwait, NEW k \in {"next", "getThrow"}, stack' = <<k>> \o Tail(stack),
             UNCHANGED <<tasks, flags, awaited, answered>>
      PROVE  IInv'
  <2>1. k \in Code \ {"script", "yielding", "body", "closing", "rejecting", "start", "run"}
        /\ k \notin Taken
    BY <1>6 DEF Code, Script, Taken
  <2> QED BY <1>1, <1>2, <1>3, <1>4, <1>6, <2>1, Passes DEF flags, YieldState
<1>7. CASE /\ doAwait /\ Await
           /\ state' = Changed("yieldOperation", "yieldReturn")
           /\ tasks' = Consumed
           /\ stack' = Tail(stack)
           /\ UNCHANGED <<called, completed, doAwait, iterator, answered>>
  <2>1. state' = "yieldReturn"
    BY <1>4, <1>7 DEF Changed
  <2> QED BY <1>1, <1>2, <1>4, <1>7, <2>1, Pauses DEF AwaitState, YieldState
<1>8. CASE RunBody
  BY <1>5, <1>8 DEF RunBody
<1>9. CASE RunYieldStar
  BY <1>5, <1>6, <1>7, <1>9 DEF RunYieldStar, Abort
<1> QED BY <1>8, <1>9

LEMMA BodyPreserves == ASSUME IInv, BodyPauses \/ BodyProceeds PROVE IInv'
<1>1. Running("body")
  BY DEF BodyPauses, BodyProceeds, BodyAwaits, BodyForAwaits, BodyYieldStar, BodyYields, BodyEnds
<1>2. /\ Gen(stack) = "body" /\ awaited = 0 /\ jobs = <<>> /\ tasks # <<>> /\ ~completed
      /\ stack # <<>> /\ stack \in Seq(Code) /\ stack[1] # "yielding"
      /\ tasks[1] = Head(tasks) /\ tasks[1] \in Task
  BY <1>1, OnTop
<1>3. Tail(stack) \in Seq(Code) /\ Shape(Tail(stack)) /\ Gen(Tail(stack)) = "none"
  BY <1>2, PopFrame DEF IInv
<1>4. /\ ~doAwait /\ state = "yieldNext" /\ ~iterator /\ ~tasks[1].fresh
      /\ called \in BOOLEAN /\ iterator \in BOOLEAN /\ doAwait \in BOOLEAN
  BY <1>2 DEF IInv, Waits, Handed, Taken, TypeOK
<1>5. called
  BY <1>2 DEF IInv, Waits
<1>6. CASE BodyAwaits
  BY <1>2, <1>4, <1>6, Pauses DEF BodyAwaits, flags, AwaitState, YieldState
<1>7. ASSUME NEW t \in {"forClose", "forNext"}, BodyForAwaits(t)
      PROVE  IInv'
  <2>1. state' = t
    BY <1>4, <1>7 DEF BodyForAwaits, Changed
  <2> QED BY <1>2, <1>4, <1>5, <1>7, <2>1, Pauses DEF BodyForAwaits, AwaitState, YieldState
<1>8. CASE BodyYieldStar
  BY <1>2, <1>4, <1>5, <1>8, Pauses DEF BodyYieldStar, AwaitState, YieldState
<1>9. CASE BodyYields
  <2>1. stack' \in Seq(Code) /\ Shape(stack') /\ Gen(stack') = "yielding"
    BY <1>2, <1>9, PushYielding DEF BodyYields, IInv
  <2>2. answered' \in [Request -> {"none", "value", "done", "error"}]
    BY <1>9 DEF BodyYields, IInv, TypeOK, Answered
  <2>3. UNCHANGED <<tasks, flags, awaited, jobs, asked, overwritten>>
    BY <1>9 DEF BodyYields
  <2>4. TypeOK'
    BY <2>1, <2>2, <2>3 DEF IInv, TypeOK, flags, Code
  <2>5. Resumed(Gen(stack))'
    BY <1>2, <2>1, <2>3 DEF IInv, Resumed, flags
  <2>6. Handed(Gen(stack))'
    BY <1>2, <1>4, <2>1, <2>3 DEF IInv, Handed
  <2>7. Waits(Gen(stack))'
    BY <1>2, <1>4, <2>1, <2>3 DEF IInv, Waits, flags
  <2> QED BY <2>1, <2>4, <2>5, <2>6, <2>7 DEF IInv
<1>10. ASSUME NEW outcome \in {"done", "error"}, BodyEnds(outcome)
       PROVE  IInv'
  <2>1. tasks \in Seq(Task) /\ \A i \in 2 .. Len(tasks) : tasks[i].fresh
    BY DEF IInv, Handed, TypeOK
  <2> QED BY <1>2, <1>3, <1>4, <1>5, <1>10, <2>1, Answers DEF BodyEnds, Complete
<1> QED BY <1>6, <1>7, <1>8, <1>9, <1>10 DEF BodyPauses, BodyProceeds

LEMMA AnswerPreserves == ASSUME IInv, AnswerGiven PROVE IInv'
<1> DEFINE k == Head(stack)
<1>1. Running(k) /\ k \in {"yielding", "passing"}
  BY DEF AnswerGiven, Running
<1>2. /\ Gen(stack) = k /\ awaited = 0 /\ jobs = <<>> /\ tasks # <<>> /\ ~completed
      /\ stack # <<>> /\ stack \in Seq(Code) /\ stack[1] = k
  BY <1>1, OnTop
<1>3. /\ tasks' = Tail(tasks)
      /\ jobs' = IF Len(tasks) = 1 THEN jobs ELSE Append(jobs, "generator")
      /\ stack' = IF Running("yielding") THEN Tail(Tail(stack)) ELSE Tail(stack)
      /\ UNCHANGED <<flags, awaited, asked, answered, overwritten>>
  BY DEF AnswerGiven
<1> HIDE DEF k
<1>4. stack' \in Seq(Code) /\ Shape(stack') /\ Gen(stack') = "none"
  <2>1. CASE k = "yielding"
    BY <1>1, <1>2, <1>3, <2>1, PopYielding DEF IInv
  <2>2. CASE k = "passing"
    <3>1. ~Running("yielding")
      BY <1>2, <2>2 DEF Running
    <3> QED BY <1>2, <1>3, <2>2, <3>1, PopFrame DEF IInv
  <2> QED BY <1>1, <2>1, <2>2
<1>5. /\ Len(tasks) \in Nat \ {0} /\ tasks' \in Seq(Task) /\ Len(tasks') = Len(tasks) - 1
      /\ tasks' = <<>> <=> Len(tasks) = 1
      /\ \A i \in 1 .. Len(tasks) - 1 : tasks'[i] = tasks[i + 1]
  BY <1>2, <1>3, Tasks DEF IInv
<1>6. \A i \in 1 .. Len(tasks') : tasks'[i].fresh
  BY <1>5 DEF IInv, Handed
<1>7. jobs' = IF tasks' = <<>> THEN <<>> ELSE <<"generator">>
  BY <1>2, <1>3, <1>5
<1>8. /\ jobs' \in Seq({"generator", "resolved", "rejected"})
      /\ Len(jobs') = IF tasks' = <<>> THEN 0 ELSE 1
      /\ jobs' # <<>> => jobs'[1] = "generator" /\ tasks'[1].fresh
  <2>1. tasks' # <<>> => 1 \in 1 .. Len(tasks')
    BY <1>5
  <2>2. CASE tasks' = <<>>
    <3>1. jobs' = <<>>
      BY <1>7, <2>2, Zenon
    <3> QED BY <2>2, <3>1, EmptySeq
  <2>3. CASE tasks' # <<>>
    <3>1. jobs' = <<"generator">>
      BY <1>7, <2>3, Zenon
    <3>2. jobs' \in Seq({"generator", "resolved", "rejected"}) /\ Len(jobs') = 1
          /\ jobs'[1] = "generator"
      BY <3>1
    <3> QED BY <1>6, <2>1, <2>3, <3>2
  <2> QED BY <2>2, <2>3
<1>9. doAwait => state = "yieldOperation"
  BY <1>1, <1>2 DEF IInv, Waits
<1>10. TypeOK'
  BY <1>3, <1>4, <1>5, <1>8 DEF IInv, TypeOK, flags, Code
<1>11. Resumed(Gen(stack))'
  BY <1>2, <1>3, <1>4, <1>8 DEF Resumed, flags
<1>12. Handed(Gen(stack))'
  <2>1. \A i \in 2 .. Len(tasks') : tasks'[i].fresh
    <3>1. Len(tasks') \in Nat
      BY <1>5
    <3> QED BY <1>6, <3>1
  <2>2. ~(awaited > 0)'
    BY <1>2, <1>3
  <2> QED BY <1>4, <1>8, <2>1, <2>2 DEF Handed, Taken
<1>13. Waits(Gen(stack))'
  <2>1. Waits(Gen(stack))
    BY DEF IInv
  <2> QED BY <1>2, <1>3, <1>4, <1>8, <1>9, <2>1 DEF Waits, flags
<1> QED BY <1>4, <1>10, <1>11, <1>12, <1>13 DEF IInv

LEMMA FinalizePreserves == ASSUME IInv, FinalizeNext PROVE IInv'
<1> DEFINE k == Head(stack)
<1>1. Running(k) /\ k \in {"closing", "rejecting"}
  BY DEF FinalizeNext, Running
<1>2. /\ Gen(stack) = k /\ awaited = 0 /\ jobs = <<>> /\ tasks # <<>> /\ completed
      /\ stack # <<>> /\ stack \in Seq(Code) /\ stack[1] = k /\ stack[1] # "yielding"
  BY <1>1, OnTop
<1>3. UNCHANGED <<flags, awaited, jobs, asked, overwritten>>
  BY DEF FinalizeNext
<1> HIDE DEF k
<1>4. Tail(stack) \in Seq(Code) /\ Shape(Tail(stack)) /\ Gen(Tail(stack)) = "none"
  BY <1>2, PopFrame DEF IInv
<1>5. ~doAwait /\ called
  BY <1>1, <1>2 DEF IInv, Waits
<1>6. CASE Len(tasks) = 1
  <2>1. tasks' = <<>> /\ stack' = Tail(stack) /\ answered' = answered
    BY <1>6 DEF FinalizeNext
  <2>2. tasks' \in Seq(Task) /\ Len(tasks') = 0 /\ Len(jobs') = 0
    BY <1>2, <1>3, <2>1, EmptySeq
  <2>3. TypeOK'
    BY <1>3, <1>4, <2>1, <2>2 DEF IInv, TypeOK, flags, Code
  <2>4. Resumed(Gen(stack))'
    BY <1>2, <1>3, <1>4, <2>1, <2>2 DEF Resumed
  <2>5. Handed(Gen(stack))'
    BY <1>2, <1>3, <1>4, <2>1, <2>2 DEF Handed, Taken
  <2>6. Waits(Gen(stack))'
    BY <1>3, <1>4, <1>5, <2>1 DEF IInv, Waits, flags
  <2> QED BY <1>4, <2>1, <2>3, <2>4, <2>5, <2>6 DEF IInv
<1>7. CASE Len(tasks) # 1
  <2> DEFINE outcome == IF tasks[2].op = "throw" THEN "error" ELSE "done"
  <2>1. AnswerLast(Tail(tasks), outcome, Tail(stack)) /\ outcome \in {"value", "done", "error"}
    BY <1>7 DEF FinalizeNext
  <2> HIDE DEF outcome
  <2>2. /\ Tail(tasks) \in Seq(Task) /\ Tail(tasks) # <<>>
        /\ Len(Tail(tasks)) = Len(tasks) - 1 /\ Len(tasks) \in Nat
        /\ \A i \in 1 .. Len(tasks) - 1 : Tail(tasks)[i] = tasks[i + 1]
    BY <1>2, <1>7, Tasks DEF IInv
  <2>3. \A i \in 2 .. Len(Tail(tasks)) : Tail(tasks)[i].fresh
    BY <2>2 DEF IInv, Handed
  <2> QED BY <1>2, <1>3, <1>4, <1>5, <2>1, <2>2, <2>3, Answers DEF flags
<1> QED BY <1>6, <1>7

LEMMA IteratorPreserves ==
  ASSUME IInv,
         \/ IteratorFails \/ GetCloseThrows \/ GetCloseUndefined \/ GetReturnUndefined
         \/ \E k \in {"getThrow", "getReturn", "getClose"}, m \in Script : IteratorMethod(k, m)
         \/ \E k \in {"next", "throw", "return", "close"} : IteratorReturns(k)
         \/ ResultValue \/ ResultDone
  PROVE  IInv'
<1> DEFINE k == Head(stack)
<1>1. Running(k) /\ k \in {"next", "throw", "return", "close", "getThrow", "getReturn",
                           "getClose", "result"}
  BY DEF IteratorFails, GetCloseThrows, GetCloseUndefined, GetReturnUndefined, IteratorMethod,
         IteratorReturns, ResultValue, ResultDone, Running
<1>2. /\ Gen(stack) = k /\ awaited = 0 /\ jobs = <<>> /\ tasks # <<>> /\ ~completed
      /\ stack # <<>> /\ stack \in Seq(Code) /\ stack[1] = k /\ stack[1] # "yielding"
  BY <1>1, OnTop
<1>3. \A j : Running(j) <=> j = k
  BY <1>2 DEF Running
<1>4. asked' = asked /\ jobs' = jobs
  BY DEF IteratorFails, GetCloseThrows, GetCloseUndefined, GetReturnUndefined, IteratorMethod,
         IteratorReturns, ResultValue, ResultDone
<1> HIDE DEF k
<1>5. Tail(stack) \in Seq(Code) /\ Shape(Tail(stack)) /\ Gen(Tail(stack)) = "none"
  BY <1>2, PopFrame DEF IInv
<1>6. /\ doAwait /\ called /\ (k \in Taken => ~tasks[1].fresh)
      /\ k \in {"next", "throw", "close", "getThrow", "getClose"} => state = "yieldOperation"
      /\ k \in {"return", "getReturn"} => state = "yieldReturn"
      /\ k = "result" => state \in {"yieldNext", "yieldNextReturn"}
      /\ iterator /\ iterator \in BOOLEAN
      /\ overwritten \in BOOLEAN /\ answered \in [Request -> {"none", "value", "done", "error"}]
  BY <1>1, <1>2 DEF IInv, Waits, Handed, TypeOK, YieldState
<1>7. ASSUME ResumeBody(Consumed, Tail(stack)), awaited' = awaited, answered' = answered,
             overwritten' \in BOOLEAN
      PROVE  IInv'
  BY <1>2, <1>4, <1>5, <1>7, Resumes
<1>8. ASSUME ResumeBody(tasks, Tail(stack)), k \in Taken,
             UNCHANGED <<awaited, answered, overwritten>>
      PROVE  IInv'
  BY <1>2, <1>4, <1>5, <1>6, <1>8, Resumes
<1>9. CASE IteratorFails
  BY <1>6, <1>7, <1>9 DEF IteratorFails, Abort
<1>10. CASE GetCloseThrows
  BY <1>6, <1>7, <1>10 DEF GetCloseThrows, Abort
<1>11. CASE GetCloseUndefined
  BY <1>6, <1>7, <1>11 DEF GetCloseUndefined, Abort
<1>12. CASE GetReturnUndefined
  BY <1>3, <1>8, <1>12 DEF GetReturnUndefined, Taken
<1>13. CASE ResultDone
  BY <1>3, <1>8, <1>13 DEF ResultDone, Taken
<1>14. CASE ResultValue
  <2>1. k = "result"
    BY <1>3, <1>14 DEF ResultValue
  <2> QED BY <1>2, <1>4, <1>6, <1>14, <2>1, Pauses DEF ResultValue, AwaitState, YieldState, Taken
<1>15. ASSUME NEW m \in Script, IteratorMethod(k, m)
       PROVE  IInv'
  <2>1. <<k, m>> \in {<<"getThrow", "throw">>, <<"getThrow", "getClose">>,
                      <<"getReturn", "return">>, <<"getClose", "close">>}
        /\ stack' = <<m>> \o Tail(stack)
        /\ UNCHANGED <<tasks, flags, awaited, jobs, asked, answered, overwritten>>
    BY <1>15 DEF IteratorMethod
  <2>2. m \in Code \ {"script", "yielding", "body", "closing", "rejecting", "start", "run"}
    BY <2>1 DEF Code
  <2>3. m = "return" <=> k = "getReturn"
    BY <2>1
  <2>4. m \in {"throw", "getClose", "close", "return"} /\ state \in YieldState
    BY <1>1, <1>6, <2>1 DEF YieldState
  <2>5. m \in Taken => ~tasks[1].fresh
    BY <1>6, <2>3, <2>4 DEF Taken
  <2>6. /\ m \in {"next", "throw", "close", "getThrow", "getClose", "passing"}
             => state' = "yieldOperation"
        /\ m \in {"return", "getReturn"} => state' = "yieldReturn"
    BY <1>6, <2>1 DEF flags
  <2> QED BY <1>2, <1>5, <1>6, <2>1, <2>2, <2>4, <2>5, <2>6, Passes DEF flags
<1>16. ASSUME IteratorReturns(k)
       PROVE  IInv'
  <2>1. state' \in {"yieldNext", "yieldNextReturn", "yieldClose"}
    BY <1>6, <1>16 DEF IteratorReturns, Changed
  <2> QED BY <1>1, <1>2, <1>4, <1>6, <1>16, <2>1, Pauses
          DEF IteratorReturns, AwaitState, YieldState
<1>17. \A j, m : IteratorMethod(j, m) => j = k
  BY <1>3 DEF IteratorMethod
<1>18. \A j : IteratorReturns(j) => j = k
  BY <1>3 DEF IteratorReturns
<1> QED BY <1>9, <1>10, <1>11, <1>12, <1>13, <1>14, <1>15, <1>16, <1>17, <1>18

LEMMA JobPreserves == ASSUME IInv, JobStep PROVE IInv'
<1> DEFINE k == Head(jobs)
<1>1. Job(k)
  BY DEF JobStep, GeneratorJob, AwaitRejected, AwaitResolved, Job
<1>2. /\ Gen(stack) = "none" /\ stack = <<>> /\ awaited = 0 /\ awaited' = 0
      /\ jobs = <<k>> /\ k \in JobKind /\ jobs' = <<>>
      /\ tasks # <<>> /\ ~completed
  <2> HIDE DEF k
  <2> QED BY <1>1, JobTaken
<1>3. asked' = asked /\ overwritten' = overwritten
  BY <1>1 DEF Job
<1>4. k = "generator" <=> GeneratorJob
  BY <1>2 DEF JobStep, GeneratorJob, AwaitRejected, AwaitResolved, Job
<1> HIDE DEF k
<1>5. /\ k = "generator" => tasks[1].fresh
      /\ k # "generator" => ~tasks[1].fresh
      /\ called
      /\ ~doAwait => state = "yieldNext" /\ ~iterator
      /\ doAwait => (iterator <=> state \in YieldState) /\ (state = "yieldOperation" <=> k = "generator")
      /\ doAwait \in BOOLEAN /\ iterator \in BOOLEAN
      /\ answered \in [Request -> {"none", "value", "done", "error"}]
      /\ overwritten \in BOOLEAN
  <2>1. jobs # <<>> /\ jobs[1] = k
    BY <1>2
  <2> QED BY <1>2, <2>1 DEF IInv, Handed, Waits, TypeOK
<1>6. CASE GeneratorJob
  <2>1. stack' = <<"run">> /\ UNCHANGED <<tasks, flags, answered>> /\ k = "generator"
    BY <1>4, <1>6 DEF GeneratorJob
  <2>2. stack' \in Seq(Code) /\ Shape(stack') /\ Gen(stack') = "run"
    BY <2>1, OneFrame DEF Code, Native
  <2>3. jobs' \in Seq({"generator", "resolved", "rejected"}) /\ Len(jobs') = 0
    BY <1>2, EmptySeq
  <2>4. TypeOK'
    BY <1>2, <1>3, <2>1, <2>2, <2>3 DEF IInv, TypeOK, flags, Code
  <2>5. Resumed(Gen(stack))'
    BY <1>2, <2>1, <2>2, <2>3 DEF Resumed, flags
  <2>6. Handed(Gen(stack))'
    BY <1>2, <2>1, <2>2 DEF IInv, Handed, Taken
  <2>7. Waits(Gen(stack))'
    <3>1. Waits(Gen(stack))
      BY DEF IInv
    <3> QED BY <1>2, <1>5, <2>1, <2>2, <3>1 DEF Waits, flags
  <2> QED BY <2>2, <2>4, <2>5, <2>6, <2>7 DEF IInv
<1>7. ASSUME ResumeBody(tasks, <<>>), answered' = answered, k # "generator"
      PROVE  IInv'
  BY <1>2, <1>3, <1>5, <1>7, NoFrame, Resumes
<1>8. ASSUME k # "generator", doAwait, NEW f \in {"getThrow", "getReturn", "result", "passing"},
             stack' = <<f>>, iterator, state' \in YieldState,
             UNCHANGED <<tasks, called, completed, doAwait, iterator>>,
             answered' \in [Request -> {"none", "value", "done", "error"}],
             f \in {"getThrow", "passing"} => state' = "yieldOperation",
             f = "getReturn" => state' = "yieldReturn",
             f = "result" => state' \in {"yieldNext", "yieldNextReturn"}
      PROVE  IInv'
  <2>1. f \in Code \ {"script", "yielding", "body", "closing", "rejecting", "start", "run"}
    BY DEF Code, Script
  <2>2. stack' = <<f>> \o <<>>
    BY <1>8
  <2> QED BY <1>2, <1>3, <1>5, <1>8, <2>1, <2>2, NoFrame, Passes
<1>9. CASE AwaitRejected
  <2>1. k = "rejected"
    BY <1>9, <1>2 DEF AwaitRejected, Job
  <2>2. CASE doAwait /\ state = "yieldReturn"
    BY <1>5, <1>8, <1>9, <2>1, <2>2 DEF AwaitRejected, Changed, YieldState
  <2>3. CASE ~(doAwait /\ state = "yieldReturn")
    BY <1>7, <1>9, <2>1, <2>3 DEF AwaitRejected
  <2> QED BY <2>2, <2>3
<1>10. CASE AwaitResolved
  <2>1. k = "resolved"
    BY <1>10, <1>2 DEF AwaitResolved, Job
  <2>2. CASE ResumeBody(tasks, <<>>) /\ UNCHANGED answered
    BY <1>7, <2>1, <2>2
  <2>3. CASE /\ doAwait /\ state \in {"yieldNext", "yieldNextReturn", "yieldReturn", "yieldOperation"}
             /\ stack' = <<CASE state = "yieldReturn" -> "getReturn"
                             [] state = "yieldOperation" -> "getThrow"
                             [] OTHER -> "result">>
             /\ UNCHANGED <<tasks, flags, answered>>
    <3>1. state # "yieldOperation"
      BY <1>5, <2>1, <2>3
    <3>2. CASE state = "yieldReturn"
      <4>1. stack' = <<"getReturn">>
        BY <2>3, <3>2
      <4> QED BY <1>5, <1>8, <2>1, <2>3, <3>2, <4>1 DEF flags, YieldState
    <3>3. CASE state \in {"yieldNext", "yieldNextReturn"}
      <4>1. stack' = <<"result">>
        BY <2>3, <3>3
      <4> QED BY <1>5, <1>8, <2>1, <2>3, <3>3, <4>1 DEF flags, YieldState
    <3> QED BY <2>3, <3>1, <3>2, <3>3
  <2>4. CASE /\ doAwait /\ state = "yieldNextValue"
             /\ state' = Changed("yieldNextValue", "yieldOperation")
             /\ answered' = Answered(Head(tasks).id, "value")
             /\ stack' = <<"passing">>
             /\ UNCHANGED <<tasks, called, completed, doAwait, iterator>>
    <3>1. answered' \in [Request -> {"none", "value", "done", "error"}]
      BY <1>5, <2>4 DEF Answered
    <3>2. iterator /\ state' = "yieldOperation" /\ state' \in YieldState
      BY <1>5, <2>4 DEF Changed, YieldState
    <3> QED BY <1>8, <2>1, <2>4, <3>1, <3>2
  <2> QED BY <1>10, <2>2, <2>3, <2>4 DEF AwaitResolved
<1> QED BY <1>6, <1>9, <1>10 DEF JobStep

LEMMA SettlePreserves ==
  ASSUME IInv, NEW outcome \in {"resolved", "rejected"}, Settle(outcome)
  PROVE  IInv'
<1>1. awaited = 1 /\ jobs = <<>> /\ awaited' = 0 /\ jobs' = <<outcome>>
  <2>1. awaited = 1 /\ jobs = <<>>
    BY Jobs DEF IInv, Settle
  <2> QED BY <2>1 DEF Settle
<1>2. UNCHANGED <<tasks, flags, stack, asked, answered, overwritten>>
  BY DEF Settle
<1>3. Gen(stack) = "none" /\ tasks # <<>>
  <2>1. Len(jobs) = 0
    BY <1>1
  <2> QED BY <1>1, <2>1 DEF IInv, Resumed
<1>4. /\ jobs' \in Seq({"generator", "resolved", "rejected"}) /\ Len(jobs') = 1
      /\ jobs'[1] = outcome /\ jobs' # <<>>
  BY <1>1
<1>5. TypeOK'
  BY <1>1, <1>2, <1>4 DEF IInv, TypeOK, flags
<1>6. Resumed(Gen(stack))'
  BY <1>1, <1>2, <1>3, <1>4 DEF IInv, Resumed, flags, Gen
<1>7. Handed(Gen(stack))'
  BY <1>1, <1>2, <1>3, <1>4 DEF IInv, Handed, Taken, Gen
<1>8. Waits(Gen(stack))'
  <2>1. Waits("none")
    BY <1>3 DEF IInv
  <2>2. Gen(stack') = "none"
    BY <1>2, <1>3
  <2> QED BY <1>1, <1>2, <1>4, <2>1, <2>2 DEF Waits, flags
<1> QED BY <1>2, <1>5, <1>6, <1>7, <1>8 DEF IInv, Shape

LEMMA ScriptPreserves == ASSUME IInv, StartScript \/ ScriptEnds PROVE IInv'
<1>1. UNCHANGED <<tasks, flags, awaited, jobs, asked, answered, overwritten>>
  BY DEF StartScript, ScriptEnds
<1>2. Gen(stack) = "none" /\ stack' \in Seq(Code) /\ Shape(stack') /\ Gen(stack') = "none"
  <2>1. CASE StartScript
    BY <2>1, NoFrame, OneFrame DEF StartScript, Code, Script
  <2>2. CASE ScriptEnds
    <3>1. stack # <<>> /\ stack[1] = "script" /\ stack \in Seq(Code) /\ stack' = Tail(stack)
      BY <2>2 DEF ScriptEnds, Running, IInv, TypeOK, Code
    <3> QED BY <3>1, PopFrame DEF IInv, Gen
  <2> QED BY <2>1, <2>2
<1>3. TypeOK'
  BY <1>1, <1>2 DEF IInv, TypeOK, flags, Code
<1>4. Resumed(Gen(stack))'
  BY <1>1, <1>2 DEF IInv, Resumed, flags
<1>5. Handed(Gen(stack))'
  BY <1>1, <1>2 DEF IInv, Handed
<1>6. Waits(Gen(stack))'
  BY <1>1, <1>2 DEF IInv, Waits, flags
<1> QED BY <1>2, <1>3, <1>4, <1>5, <1>6 DEF IInv

-----------------------------------------------------------------------------
(* The theorems.                                                           *)

LEMMA InitIInv == Init => IInv
<1> SUFFICES ASSUME Init PROVE IInv
  OBVIOUS
<1>1. Gen(stack) = "none" /\ Shape(stack) /\ stack \in Seq(Code)
  BY NoFrame DEF Init
<1>2. /\ tasks = <<>> /\ jobs = <<>> /\ Len(jobs) = 0
      /\ tasks \in Seq(Task) /\ jobs \in Seq({"generator", "resolved", "rejected"})
  BY EmptySeq DEF Init
<1>3. TypeOK
  <2>1. asked \in 0 .. MaxRequests /\ awaited \in Nat
    BY RequestAssumption DEF Init
  <2>2. answered \in [Request -> {"none", "value", "done", "error"}]
    BY DEF Init
  <2>3. state \in AwaitState
    BY DEF Init, AwaitState, YieldState
  <2>4. \A f \in {called, completed, doAwait, iterator, overwritten} : f \in BOOLEAN
    BY DEF Init
  <2> QED BY <1>1, <1>2, <2>1, <2>2, <2>3, <2>4 DEF TypeOK, Code
<1>4. Resumed("none") /\ Handed("none") /\ Waits("none")
  BY <1>2 DEF Init, Resumed, Handed, Waits, Taken, YieldState
<1> QED BY <1>1, <1>3, <1>4 DEF IInv

LEMMA NextIInv == IInv /\ [Next]_vars => IInv'
<1> SUFFICES ASSUME IInv, [Next]_vars PROVE IInv'
  OBVIOUS
<1>1. ASSUME NEW op \in Operation, Ask(op) PROVE IInv'
  BY <1>1, AskPreserves
<1>2. CASE ReturnStep
  BY <1>2, StartPreserves, RunPreserves, AnswerPreserves, FinalizePreserves, IteratorPreserves,
     ScriptPreserves DEF ReturnStep
<1>3. CASE BodyPauses \/ BodyProceeds
  BY <1>3, BodyPreserves
<1>4. CASE JobStep
  BY <1>4, JobPreserves
<1>5. CASE SettleStep
  BY <1>5, SettlePreserves DEF SettleStep
<1>6. CASE StartScript
  BY <1>6, ScriptPreserves
<1>7. CASE UNCHANGED vars
  BY <1>7 DEF vars, flags, IInv, TypeOK, Shape, Gen, Resumed, Handed, Waits
<1> QED BY <1>1, <1>2, <1>3, <1>4, <1>5, <1>6, <1>7 DEF Next

LEMMA IInvImplies == IInv => TypeOK /\ ResumedByOne /\ HandedOutOnce /\ AwaitStates
<1> SUFFICES ASSUME IInv PROVE TypeOK /\ ResumedByOne /\ HandedOutOnce /\ AwaitStates
  OBVIOUS
<1> DEFINE g == Gen(stack)
<1>1. /\ Busy <=> g # "none"
      /\ Calls({"body"}) # {} <=> g \in {"body", "yielding"}
      /\ Cardinality(Calls({"body"})) \in {0, 1}
      /\ Cardinality(Calls({"body"})) = 1 <=> g \in {"body", "yielding"}
      /\ Calls({"body", "yielding", "passing", "result", "getReturn", "return"}) # {}
           <=> g \in {"body", "yielding", "passing", "result", "getReturn", "return"}
  BY CallsOf DEF IInv, TypeOK, Code
<1>2. TypeOK /\ Resumed(g) /\ Handed(g) /\ Waits(g)
  BY DEF IInv
<1>3. jobs = <<>> \/ \E k \in JobKind : jobs = <<k>>
  BY Jobs DEF IInv
<1> HIDE DEF g
<1>4. ResumedByOne
  <2>1. awaited + Len(jobs) = IF tasks = <<>> \/ Busy THEN 0 ELSE 1
    BY <1>1, <1>2 DEF Resumed
  <2>2. completed => g \notin {"body", "yielding"}
    BY <1>2 DEF Resumed
  <2>3. Cardinality(Calls({"body"})) + (IF completed THEN 1 ELSE 0) <= 1
    BY <1>1, <2>2
  <2>4. completed /\ ~Busy => tasks = <<>>
    BY <1>1, <1>2 DEF Resumed
  <2> QED BY <2>1, <2>3, <2>4 DEF ResumedByOne
<1>5. HandedOutOnce
  <2>1. /\ jobs # <<>> => tasks # <<>> /\ Head(jobs) = jobs[1]
        /\ awaited > 0 => tasks # <<>>
    <3>1. jobs # <<>> => Len(jobs) = 1
      BY <1>3
    <3>2. awaited \in Nat /\ (jobs = <<>> => Len(jobs) = 0)
      BY <1>2 DEF TypeOK
    <3> QED BY <1>2, <1>3, <3>1, <3>2 DEF Resumed
  <2>2. tasks # <<>> => Head(tasks) = tasks[1]
    OBVIOUS
  <2>3. g # "none" => tasks # <<>>
    BY <1>2 DEF Resumed
  <2> QED BY <1>1, <1>2, <2>1, <2>2, <2>3 DEF HandedOutOnce, Handed, Taken
<1>6. AwaitStates
  <2>1. (jobs = <<>> \/ jobs[1] = "generator") <=> \A i \in DOMAIN jobs : jobs[i] = "generator"
    BY <1>3
  <2>2. doAwait /\ ~Busy =>
          (state = "yieldOperation" <=> awaited = 0 /\ \A i \in DOMAIN jobs : jobs[i] = "generator")
    BY <1>1, <1>2, <2>1 DEF Waits
  <2> QED BY <1>1, <1>2, <2>2 DEF AwaitStates, Waits
<1> QED BY <1>2, <1>4, <1>5, <1>6

LEMMA Inductive == Spec => []IInv
BY InitIInv, NextIInv, PTL DEF Spec

\* Every variable keeps its type, however many requests are made.
THEOREM GeneratorTypes == Spec => []TypeOK
BY Inductive, IInvImplies, PTL

\* Exactly one job or awaited promise resumes an async generator that has requests, and
\* none resumes one that runs or has none: no wake-up is lost or doubled, and the body
\* of the generator never runs inside itself.
THEOREM GeneratorResumedByOne == Spec => []ResumedByOne
BY Inductive, IInvImplies, PTL

\* The body receives the value of each request once, before the request is answered:
\* the assertion of opfunc_async_generator_yield holds.
THEOREM GeneratorHandsOutOnce == Spec => []HandedOutOnce
BY Inductive, IInvImplies, PTL

\* The await state is never the garbage that an exclusive or with the wrong state
\* leaves, and the byte code runs with a clear one.
THEOREM GeneratorAwaitStates == Spec => []AwaitStates
BY Inductive, IInvImplies, PTL

-----------------------------------------------------------------------------
(* The queue of requests: the requests are in the list in the order in which they *)
(* were made, and exactly the head may have got its answer already.              *)

\* The answer of the head is on its way.
Given == Gen(stack) \in {"yielding", "passing", "closing", "rejecting"}

Ids(ts) == [i \in 1 .. Len(ts) |-> ts[i].id]

Order(ids) ==
  /\ \A i \in 1 .. Len(ids) : ids[i] \in 1 .. asked
  /\ \A i, j \in 1 .. Len(ids) : i < j => ids[i] < ids[j]
  /\ \A r \in Request : answered[r] = "none" <=>
       \/ r > asked
       \/ \E i \in 1 .. Len(ids) : ids[i] = r /\ (i = 1 => ~Given)

InOrder == Order(Ids(tasks))

\* Naming the requests commutes with the operations on the list.
LEMMA IdsOf ==
  ASSUME NEW ts \in Seq(Task)
  PROVE  /\ Ids(ts) \in Seq(Request) /\ Len(Ids(ts)) = Len(ts) /\ Len(ts) \in Nat
         /\ Ids(ts) = <<>> <=> ts = <<>>
         /\ \A i \in 1 .. Len(ts) : Ids(ts)[i] = ts[i].id
<1>1. Len(ts) \in Nat /\ \A i \in 1 .. Len(ts) : ts[i].id \in Request
  <2>1. Len(ts) \in Nat /\ \A i \in 1 .. Len(ts) : ts[i] \in Task
    BY LenProperties, ElementOfSeq
  <2>2. \A t \in Task : t.id \in Request
    BY DEF Task
  <2> QED BY <2>1, <2>2
<1>2. Ids(ts) \in [1 .. Len(ts) -> Request]
  BY <1>1 DEF Ids
<1>3. Ids(ts) \in Seq(Request) /\ Len(Ids(ts)) = Len(ts)
  <2> DEFINE f == Ids(ts)
  <2>1. f \in [1 .. Len(ts) -> Request]
    BY <1>2
  <2> HIDE DEF f
  <2>2. f \in Seq(Request)
    BY <1>1, <2>1, SeqDef
  <2>3. Len(f) = Len(ts)
    BY <1>1, <2>1, <2>2, LenProperties
  <2> QED BY <2>2, <2>3 DEF f
<1>4. ts = <<>> <=> Len(ts) = 0
  BY EmptySeq
<1>5. Ids(ts) = <<>> <=> Len(Ids(ts)) = 0
  BY <1>3, EmptySeq
<1> QED BY <1>1, <1>3, <1>4, <1>5 DEF Ids

LEMMA IdsSame ==
  ASSUME NEW ts \in Seq(Task), NEW us \in Seq(Task), Len(ts) = Len(us),
         \A i \in 1 .. Len(ts) : ts[i].id = us[i].id
  PROVE  Ids(ts) = Ids(us)
BY DEF Ids

LEMMA IdsTail ==
  ASSUME NEW ts \in Seq(Task), ts # <<>>
  PROVE  Ids(Tail(ts)) = Tail(Ids(ts)) /\ Head(Ids(ts)) = Head(ts).id
<1>1. /\ Tail(ts) \in Seq(Task) /\ Len(Tail(ts)) = Len(ts) - 1 /\ Len(ts) \in Nat \ {0}
      /\ \A i \in 1 .. Len(Tail(ts)) : Tail(ts)[i] = ts[i + 1]
  BY HeadTailProperties, EmptySeq, LenProperties
<1>2. Ids(ts) \in Seq(Request) /\ Len(Ids(ts)) = Len(ts) /\ Ids(ts) # <<>>
  BY IdsOf
<1>3. /\ Tail(Ids(ts)) \in Seq(Request) /\ Len(Tail(Ids(ts))) = Len(ts) - 1
      /\ \A i \in 1 .. Len(ts) - 1 : Tail(Ids(ts))[i] = Ids(ts)[i + 1]
  <2> DEFINE s == Ids(ts)
  <2> HIDE DEF s
  <2>1. s \in Seq(Request) /\ s # <<>> /\ Len(s) = Len(ts)
    BY <1>2 DEF s
  <2>2. /\ Tail(s) \in Seq(Request) /\ Len(Tail(s)) = Len(s) - 1
        /\ \A i \in 1 .. Len(Tail(s)) : Tail(s)[i] = s[i + 1]
    BY <2>1, HeadTailProperties
  <2>3. /\ Tail(s) \in Seq(Request) /\ Len(Tail(s)) = Len(ts) - 1
        /\ \A i \in 1 .. Len(ts) - 1 : Tail(s)[i] = s[i + 1]
    BY <2>1, <2>2
  <2> QED BY <2>3 DEF s
<1>4. /\ Ids(Tail(ts)) \in Seq(Request) /\ Len(Ids(Tail(ts))) = Len(ts) - 1
      /\ \A i \in 1 .. Len(ts) - 1 : Ids(Tail(ts))[i] = ts[i + 1].id
  BY <1>1, IdsOf
<1>5. \A i \in 1 .. Len(ts) - 1 : Ids(ts)[i + 1] = ts[i + 1].id
  BY <1>1, IdsOf
<1>6. Ids(Tail(ts)) = Tail(Ids(ts))
  <2>1. \A i \in 1 .. Len(Ids(Tail(ts))) : Ids(Tail(ts))[i] = Tail(Ids(ts))[i]
    BY <1>3, <1>4, <1>5
  <2> QED BY <1>3, <1>4, <2>1, SeqEqual
<1>7. Head(Ids(ts)) = Ids(ts)[1] /\ Head(ts) = ts[1]
  BY <1>1, <1>2
<1> QED BY <1>1, <1>6, <1>7, IdsOf

LEMMA IdsAppend ==
  ASSUME NEW ts \in Seq(Task), NEW t \in Task
  PROVE  Ids(Append(ts, t)) = Append(Ids(ts), t.id)
<1>1. /\ Append(ts, t) \in Seq(Task) /\ Len(Append(ts, t)) = Len(ts) + 1 /\ Len(ts) \in Nat
      /\ \A i \in 1 .. Len(ts) : Append(ts, t)[i] = ts[i]
      /\ Append(ts, t)[Len(ts) + 1] = t
  BY AppendProperties, LenProperties
<1>2. t.id \in Request
  BY DEF Task
<1>3. Ids(ts) \in Seq(Request) /\ Len(Ids(ts)) = Len(ts)
  BY IdsOf
<1>4. /\ Append(Ids(ts), t.id) \in Seq(Request) /\ Len(Append(Ids(ts), t.id)) = Len(ts) + 1
      /\ \A i \in 1 .. Len(ts) : Append(Ids(ts), t.id)[i] = Ids(ts)[i]
      /\ Append(Ids(ts), t.id)[Len(ts) + 1] = t.id
  BY <1>2, <1>3, AppendProperties
<1>5. /\ Ids(Append(ts, t)) \in Seq(Request) /\ Len(Ids(Append(ts, t))) = Len(ts) + 1
      /\ \A i \in 1 .. Len(ts) + 1 : Ids(Append(ts, t))[i] = Append(ts, t)[i].id
  BY <1>1, IdsOf
<1>6. \A i \in 1 .. Len(ts) + 1 : Ids(Append(ts, t))[i] = Append(Ids(ts), t.id)[i]
  <2>1. \A i \in 1 .. Len(ts) : Ids(ts)[i] = ts[i].id
    BY IdsOf
  <2>2. \A i \in 1 .. Len(ts) + 1 : i \in 1 .. Len(ts) \/ i = Len(ts) + 1
    BY <1>1
  <2> QED BY <1>1, <1>4, <1>5, <2>1, <2>2
<1> QED BY <1>4, <1>5, <1>6, SeqEqual

\* What a step does to the queue of requests.
Keeps == /\ Ids(tasks') = Ids(tasks)
         /\ Given' <=> Given
         /\ UNCHANGED <<asked, answered, completed>>

Gives == /\ tasks # <<>> /\ ~Given /\ Given'
         /\ Ids(tasks') = Ids(tasks)
         /\ \E a \in {"value", "done", "error"} : answered' = Answered(Ids(tasks)[1], a)
         /\ completed' \in {completed, TRUE}
         /\ asked' = asked

Drops == /\ Given /\ ~Given'
         /\ tasks' = Tail(tasks)
         /\ UNCHANGED <<asked, answered, completed>>

GivesNext == /\ Given /\ Given' /\ tasks # <<>>
             /\ tasks' = Tail(tasks) /\ Tail(tasks) # <<>>
             /\ \E a \in {"value", "done", "error"} : answered' = Answered(Ids(tasks)[2], a)
             /\ UNCHANGED <<asked, completed>>

Asks == \E op \in Operation : Ask(op)

\* The frame on top tells whether the answer of the head is on its way.
LEMMA GivenTop ==
  ASSUME NEW s \in Seq(Code), NEW k \in Code \ {"script"}, stack' = <<k>> \o s
  PROVE  Given' <=> k \in {"yielding", "passing", "closing", "rejecting"}
<1>1. stack' # <<>> /\ stack'[1] = k
  BY Push
<1> QED BY <1>1 DEF Given, Gen

LEMMA KindBody == ASSUME IInv, BodyPauses \/ BodyProceeds PROVE Keeps \/ Gives
<1>1. Running("body")
  BY DEF BodyPauses, BodyProceeds, BodyAwaits, BodyForAwaits, BodyYieldStar, BodyYields, BodyEnds
<1>2. /\ Gen(stack) = "body" /\ tasks # <<>> /\ stack # <<>> /\ stack \in Seq(Code)
      /\ stack[1] # "yielding" /\ Head(tasks) = tasks[1] /\ ~Given
  BY <1>1, OnTop DEF Given
<1>3. Tail(stack) \in Seq(Code) /\ Gen(Tail(stack)) = "none"
  BY <1>2, PopFrame DEF IInv
<1>4. Ids(tasks)[1] = Head(tasks).id
  <2>1. Len(tasks) \in Nat \ {0}
    BY <1>2, Tasks DEF IInv
  <2> QED BY <1>2, <2>1 DEF Ids
<1>5. CASE BodyPauses
  <2>1. stack' = Tail(stack) /\ UNCHANGED <<tasks, completed, answered, asked>>
    BY <1>5 DEF BodyPauses, BodyAwaits, BodyForAwaits, BodyYieldStar, flags
  <2>2. ~Given'
    BY <1>3, <2>1 DEF Given
  <2> QED BY <1>2, <2>1, <2>2 DEF Keeps
<1>6. CASE BodyYields
  <2>1. Given'
    BY <1>2, <1>6, GivenTop DEF BodyYields, Code, Script
  <2> QED BY <1>2, <1>4, <1>6, <2>1 DEF BodyYields, Gives, flags
<1>7. ASSUME NEW outcome \in {"done", "error"}, BodyEnds(outcome)
      PROVE  Gives
  <2> DEFINE k == IF outcome = "error" THEN "rejecting" ELSE "closing"
  <2>1. /\ stack' = <<k>> \o Tail(stack) /\ tasks' = tasks /\ completed' = TRUE
        /\ answered' = Answered(Head(tasks).id, outcome) /\ asked' = asked
        /\ k \in Code \ {"script"} /\ k \in {"closing", "rejecting"}
    BY <1>7 DEF BodyEnds, Complete, AnswerLast, Code, Script, Native
  <2> HIDE DEF k
  <2>2. Given'
    BY <1>3, <2>1, GivenTop
  <2> QED BY <1>2, <1>4, <2>1, <2>2 DEF Gives
<1> QED BY <1>5, <1>6, <1>7 DEF BodyProceeds

\* The generator goes on without an answer.
LEMMA KindResume ==
  ASSUME IInv, tasks # <<>>, ~Given, NEW ts \in {tasks, Consumed}, tasks' = ts,
         NEW s \in Seq(Code), Gen(s) = "none",
         \/ stack' = s
         \/ \E k \in Code \ {"script", "yielding", "passing", "closing", "rejecting"} : stack' = <<k>> \o s,
         UNCHANGED <<asked, answered, completed>>
  PROVE  Keeps
<1>1. Ids(tasks') = Ids(tasks)
  <2>1. CASE ts = Consumed
    <3>1. /\ Consumed \in Seq(Task) /\ Len(Consumed) = Len(tasks) /\ tasks \in Seq(Task)
          /\ Consumed[1].id = tasks[1].id /\ \A i \in 2 .. Len(tasks) : Consumed[i] = tasks[i]
          /\ Len(tasks) \in Nat
      BY Tasks DEF IInv, TypeOK
    <3>2. \A i \in 1 .. Len(tasks) : Consumed[i].id = tasks[i].id
      BY <3>1
    <3> QED BY <2>1, <3>1, <3>2, IdsSame
  <2> QED BY <2>1
<1>2. ~Given'
  <2>1. CASE stack' = s
    BY <2>1 DEF Given
  <2>2. ASSUME NEW k \in Code \ {"script", "yielding", "passing", "closing", "rejecting"},
               stack' = <<k>> \o s
        PROVE  ~Given'
    BY <2>2, GivenTop
  <2> QED BY <2>1, <2>2
<1> QED BY <1>1, <1>2 DEF Keeps

LEMMA KindServe == ASSUME IInv, Start \/ RunBody \/ RunYieldStar PROVE Keeps \/ Gives
<1> DEFINE k == Head(stack)
<1>1. Running(k) /\ k \in {"start", "run"}
  BY DEF Start, RunBody, RunYieldStar, Running
<1> HIDE DEF k
<1>2. /\ Gen(stack) = k /\ tasks # <<>> /\ stack # <<>> /\ stack \in Seq(Code)
      /\ stack[1] # "yielding" /\ Head(tasks) = tasks[1] /\ ~Given
  BY <1>1, OnTop DEF Given
<1>3. Tail(stack) \in Seq(Code) /\ Gen(Tail(stack)) = "none"
  BY <1>2, PopFrame DEF IInv
<1>4. Ids(tasks)[1] = Head(tasks).id
  <2>1. Len(tasks) \in Nat \ {0}
    BY <1>2, Tasks DEF IInv
  <2> QED BY <1>2, <2>1 DEF Ids
<1>5. asked' = asked
  BY DEF Start, RunBody, RunYieldStar
<1>6. ASSUME ResumeBody(Consumed, Tail(stack)), answered' = answered
      PROVE  Keeps
  <2>1. "body" \in Code \ {"script", "yielding", "passing", "closing", "rejecting"}
    BY DEF Code, Script
  <2> QED BY <1>2, <1>3, <1>5, <1>6, <2>1, KindResume DEF ResumeBody
<1>7. ASSUME NEW outcome \in {"done", "error"}, Complete(Consumed, outcome, Tail(stack))
      PROVE  Gives
  <2> DEFINE f == IF outcome = "error" THEN "rejecting" ELSE "closing"
  <2>1. /\ stack' = <<f>> \o Tail(stack) /\ tasks' = Consumed /\ completed' = TRUE
        /\ answered' = Answered(Head(Consumed).id, outcome)
        /\ f \in Code \ {"script"} /\ f \in {"closing", "rejecting"}
    BY <1>7 DEF Complete, AnswerLast, Code, Script, Native
  <2> HIDE DEF f
  <2>2. Given'
    BY <1>3, <2>1, GivenTop
  <2>3. /\ Consumed \in Seq(Task) /\ Len(Consumed) = Len(tasks) /\ tasks \in Seq(Task)
        /\ Consumed[1].id = tasks[1].id /\ \A i \in 2 .. Len(tasks) : Consumed[i] = tasks[i]
        /\ Len(tasks) \in Nat /\ Consumed # <<>>
    BY <1>2, Tasks DEF IInv, TypeOK
  <2>4. Head(Consumed).id = Ids(tasks)[1]
    BY <1>2, <1>4, <2>3
  <2>5. \A i \in 1 .. Len(tasks) : Consumed[i].id = tasks[i].id
    BY <2>3
  <2>6. Ids(Consumed) = Ids(tasks)
    BY <2>3, <2>5, IdsSame
  <2> QED BY <1>2, <1>5, <2>1, <2>2, <2>4, <2>6 DEF Gives
<1>8. CASE Start
  BY <1>6, <1>7, <1>8 DEF Start
<1>9. CASE RunBody
  BY <1>6, <1>9 DEF RunBody
<1>10. CASE RunYieldStar
  <2>1. {"next", "getThrow"} \subseteq Code \ {"script", "yielding", "passing", "closing", "rejecting"}
    BY DEF Code, Script
  <2>2. ASSUME NEW f \in {"next", "getThrow"}, stack' = <<f>> \o Tail(stack),
               UNCHANGED <<tasks, flags, awaited, answered>>
        PROVE  Keeps
    BY <1>2, <1>3, <1>5, <2>1, <2>2, KindResume DEF flags
  <2>3. ASSUME tasks' = Consumed, stack' = Tail(stack), UNCHANGED <<completed, answered>>
        PROVE  Keeps
    BY <1>2, <1>3, <1>5, <2>3, KindResume
  <2> QED BY <1>6, <1>10, <2>2, <2>3 DEF RunYieldStar, Abort
<1> QED BY <1>8, <1>9, <1>10

LEMMA KindAnswer == ASSUME IInv, IInv', AnswerGiven PROVE Drops
<1> DEFINE k == Head(stack)
<1>1. Running(k) /\ k \in {"yielding", "passing"}
  BY DEF AnswerGiven, Running
<1> HIDE DEF k
<1>2. /\ Gen(stack) = k /\ stack # <<>> /\ stack \in Seq(Code) /\ stack[1] = k /\ Given
  BY <1>1, OnTop DEF Given
<1>3. /\ tasks' = Tail(tasks) /\ UNCHANGED <<asked, answered, completed>>
      /\ stack' = IF Running("yielding") THEN Tail(Tail(stack)) ELSE Tail(stack)
  BY DEF AnswerGiven, flags
<1>4. Gen(stack') = "none"
  <2>1. CASE k = "yielding"
    BY <1>1, <1>2, <1>3, <2>1, PopYielding DEF IInv
  <2>2. CASE k = "passing"
    <3>1. ~Running("yielding")
      BY <1>2, <2>2 DEF Running
    <3> QED BY <1>2, <1>3, <2>2, <3>1, PopFrame DEF IInv
  <2> QED BY <1>1, <2>1, <2>2
<1> QED BY <1>2, <1>3, <1>4 DEF Drops, Given

LEMMA KindFinalize == ASSUME IInv, FinalizeNext PROVE Drops \/ GivesNext
<1> DEFINE k == Head(stack)
<1>1. Running(k) /\ k \in {"closing", "rejecting"}
  BY DEF FinalizeNext, Running
<1> HIDE DEF k
<1>2. /\ Gen(stack) = k /\ tasks # <<>> /\ stack # <<>> /\ stack \in Seq(Code)
      /\ stack[1] # "yielding" /\ Given
  BY <1>1, OnTop DEF Given
<1>3. Tail(stack) \in Seq(Code) /\ Gen(Tail(stack)) = "none"
  BY <1>2, PopFrame DEF IInv
<1>4. UNCHANGED <<asked, completed>>
  BY DEF FinalizeNext, flags
<1>5. /\ Len(tasks) \in Nat \ {0} /\ Len(Tail(tasks)) = Len(tasks) - 1
      /\ Tail(tasks) = <<>> <=> Len(tasks) = 1
      /\ Tail(tasks) \in Seq(Task)
      /\ \A i \in 1 .. Len(tasks) - 1 : Tail(tasks)[i] = tasks[i + 1]
  BY <1>2, Tasks DEF IInv
<1>6. CASE Len(tasks) = 1
  <2>1. tasks' = Tail(tasks) /\ stack' = Tail(stack) /\ answered' = answered
    BY <1>5, <1>6 DEF FinalizeNext
  <2> QED BY <1>2, <1>3, <1>4, <2>1 DEF Drops, Given
<1>7. CASE Len(tasks) # 1
  <2> DEFINE outcome == IF tasks[2].op = "throw" THEN "error" ELSE "done"
  <2>1. AnswerLast(Tail(tasks), outcome, Tail(stack)) /\ outcome \in {"done", "error"}
    BY <1>7 DEF FinalizeNext
  <2> HIDE DEF outcome
  <2> DEFINE f == IF outcome = "error" THEN "rejecting" ELSE "closing"
  <2>2. /\ stack' = <<f>> \o Tail(stack) /\ tasks' = Tail(tasks)
        /\ answered' = Answered(Head(Tail(tasks)).id, outcome)
        /\ f \in Code \ {"script"} /\ f \in {"closing", "rejecting"}
    BY <2>1 DEF AnswerLast, Code, Script, Native
  <2> HIDE DEF f
  <2>3. Given'
    BY <1>3, <2>2, GivenTop
  <2>4. Head(Tail(tasks)).id = Ids(tasks)[2] /\ Tail(tasks) # <<>>
    <3>1. Tail(tasks) # <<>> /\ Tail(tasks)[1] = tasks[2] /\ 2 \in 1 .. Len(tasks)
      BY <1>5, <1>7
    <3>2. Head(Tail(tasks)) = tasks[2]
      BY <1>5, <3>1
    <3> QED BY <3>1, <3>2 DEF Ids
  <2> QED BY <1>2, <1>4, <2>1, <2>2, <2>3, <2>4 DEF GivesNext
<1> QED BY <1>6, <1>7

LEMMA KindIterator ==
  ASSUME IInv,
         \/ IteratorFails \/ GetCloseThrows \/ GetCloseUndefined \/ GetReturnUndefined
         \/ \E k \in {"getThrow", "getReturn", "getClose"}, m \in Script : IteratorMethod(k, m)
         \/ \E k \in {"next", "throw", "return", "close"} : IteratorReturns(k)
         \/ ResultValue \/ ResultDone
  PROVE  Keeps
<1> DEFINE k == Head(stack)
<1>1. Running(k) /\ k \in {"next", "throw", "return", "close", "getThrow", "getReturn",
                           "getClose", "result"}
  BY DEF IteratorFails, GetCloseThrows, GetCloseUndefined, GetReturnUndefined, IteratorMethod,
         IteratorReturns, ResultValue, ResultDone, Running
<1> HIDE DEF k
<1>2. /\ Gen(stack) = k /\ tasks # <<>> /\ stack # <<>> /\ stack \in Seq(Code)
      /\ stack[1] # "yielding" /\ ~Given
  BY <1>1, OnTop DEF Given
<1>3. Tail(stack) \in Seq(Code) /\ Gen(Tail(stack)) = "none"
  BY <1>2, PopFrame DEF IInv
<1>4. UNCHANGED <<asked, answered, completed>>
  BY DEF IteratorFails, GetCloseThrows, GetCloseUndefined, GetReturnUndefined, IteratorMethod,
         IteratorReturns, ResultValue, ResultDone, Abort, ResumeBody, flags
<1>5. tasks' \in {tasks, Consumed}
  BY DEF IteratorFails, GetCloseThrows, GetCloseUndefined, GetReturnUndefined, IteratorMethod,
         IteratorReturns, ResultValue, ResultDone, Abort, ResumeBody, flags
<1>6. \/ stack' = Tail(stack)
      \/ \E f \in Code \ {"script", "yielding", "passing", "closing", "rejecting"} :
            stack' = <<f>> \o Tail(stack)
  <2>1. {"body", "throw", "getClose", "return", "close"} \subseteq
           Code \ {"script", "yielding", "passing", "closing", "rejecting"}
    BY DEF Code, Script
  <2>2. \/ stack' = Tail(stack)
        \/ \E f \in {"body", "throw", "getClose", "return", "close"} : stack' = <<f>> \o Tail(stack)
    BY DEF IteratorFails, GetCloseThrows, GetCloseUndefined, GetReturnUndefined, IteratorMethod,
           IteratorReturns, ResultValue, ResultDone, Abort, ResumeBody
  <2> QED BY <2>1, <2>2
<1> QED BY <1>2, <1>3, <1>4, <1>5, <1>6, KindResume

LEMMA KindJob == ASSUME IInv, JobStep PROVE Keeps \/ Gives
<1> DEFINE k == Head(jobs)
<1>1. Job(k)
  BY DEF JobStep, GeneratorJob, AwaitRejected, AwaitResolved, Job
<1> HIDE DEF k
<1>2. Gen(stack) = "none" /\ stack = <<>> /\ tasks # <<>> /\ ~completed /\ ~Given
  BY <1>1, JobTaken DEF Given
<1>3. asked' = asked
  BY <1>1 DEF Job
<1>4. <<>> \in Seq(Code) /\ Gen(<<>>) = "none" /\ \A f : <<f>> = <<f>> \o <<>>
  BY NoFrame
<1>5. {"body", "run", "getThrow", "getReturn", "result"} \subseteq
           Code \ {"script", "yielding", "passing", "closing", "rejecting"}
  BY DEF Code, Script, Native
<1>6. ASSUME NEW f \in {"body", "run", "getThrow", "getReturn", "result"}, stack' = <<f>> \o <<>>,
             tasks' = tasks, answered' = answered, completed' = completed
      PROVE  Keeps
  BY <1>2, <1>3, <1>4, <1>5, <1>6, KindResume
<1>7. CASE GeneratorJob
  BY <1>4, <1>6, <1>7 DEF GeneratorJob, flags
<1>8. CASE AwaitRejected
  BY <1>4, <1>6, <1>8 DEF AwaitRejected, ResumeBody
<1>9. CASE AwaitResolved
  <2>1. CASE ResumeBody(tasks, <<>>) /\ UNCHANGED answered
    BY <1>6, <2>1 DEF ResumeBody
  <2>2. CASE /\ stack' = <<CASE state = "yieldReturn" -> "getReturn"
                             [] state = "yieldOperation" -> "getThrow"
                             [] OTHER -> "result">>
             /\ UNCHANGED <<tasks, flags, answered>>
    <3>1. \E f \in {"body", "run", "getThrow", "getReturn", "result"} : stack' = <<f>>
      BY <2>2
    <3> QED BY <1>4, <1>6, <2>2, <3>1 DEF flags
  <2>3. CASE /\ answered' = Answered(Head(tasks).id, "value")
             /\ stack' = <<"passing">>
             /\ UNCHANGED <<tasks, called, completed, doAwait, iterator>>
    <3>1. Given'
      <4>1. "passing" \in Code \ {"script"} /\ stack' = <<"passing">> \o <<>>
        BY <1>4, <2>3 DEF Code, Script
      <4> QED BY <1>4, <4>1, GivenTop
    <3>2. Ids(tasks)[1] = Head(tasks).id
      <4>1. Len(tasks) \in Nat \ {0} /\ Head(tasks) = tasks[1]
        BY <1>2, Tasks DEF IInv
      <4> QED BY <4>1 DEF Ids
    <3> QED BY <1>2, <1>3, <2>3, <3>1, <3>2 DEF Gives
  <2> QED BY <1>9, <2>1, <2>2, <2>3 DEF AwaitResolved
<1> QED BY <1>7, <1>8, <1>9 DEF JobStep

LEMMA KindScript == ASSUME IInv, StartScript \/ ScriptEnds PROVE Keeps
<1>1. UNCHANGED <<tasks, flags, awaited, jobs, asked, answered, overwritten>>
  BY DEF StartScript, ScriptEnds
<1>2. ~Given /\ ~Given'
  <2>1. CASE StartScript
    BY <2>1, NoFrame, OneFrame DEF StartScript, Code, Script, Given
  <2>2. CASE ScriptEnds
    <3>1. stack # <<>> /\ stack[1] = "script" /\ stack \in Seq(Code) /\ stack' = Tail(stack)
      BY <2>2 DEF ScriptEnds, Running, IInv, TypeOK, Code
    <3> QED BY <3>1, PopFrame DEF IInv, Gen, Given
  <2> QED BY <2>1, <2>2
<1> QED BY <1>1, <1>2 DEF Keeps, flags

LEMMA KindOfStep == ASSUME IInv, IInv', [Next]_vars PROVE Keeps \/ Gives \/ Drops \/ GivesNext \/ Asks
<1>1. CASE ReturnStep
  BY <1>1, KindServe, KindAnswer, KindFinalize, KindIterator, KindScript DEF ReturnStep
<1>2. CASE BodyPauses \/ BodyProceeds
  BY <1>2, KindBody
<1>3. CASE JobStep
  BY <1>3, KindJob
<1>4. CASE SettleStep
  <2>1. UNCHANGED <<tasks, flags, stack, asked, answered>>
    BY <1>4 DEF SettleStep, Settle
  <2> QED BY <2>1 DEF Keeps, Given, flags
<1>5. CASE StartScript
  BY <1>5, KindScript
<1>6. CASE UNCHANGED vars
  BY <1>6 DEF vars, flags, Keeps, Given
<1> QED BY <1>1, <1>2, <1>3, <1>4, <1>5, <1>6 DEF Next, Asks

\* The order of the requests is kept by every step.
LEMMA OrderStep ==
  ASSUME IInv, IInv', InOrder, Keeps \/ Gives \/ Drops \/ GivesNext \/ Asks
  PROVE  InOrder'
<1> PICK ids : ids = Ids(tasks)
  OBVIOUS
<1> PICK new : new = Ids(tasks')
  OBVIOUS
<1>1. /\ tasks \in Seq(Task) /\ tasks' \in Seq(Task) /\ asked \in Nat /\ asked <= MaxRequests
      /\ ids \in Seq(Request) /\ Len(ids) = Len(tasks) /\ Len(tasks) \in Nat
      /\ tasks # <<>> => Len(tasks) # 0
      /\ answered \in [Request -> {"none", "value", "done", "error"}]
  BY IdsOf, EmptySeq, RequestAssumption DEF IInv, TypeOK
<1>2. /\ \A i \in 1 .. Len(ids) : ids[i] \in 1 .. asked
      /\ \A i, j \in 1 .. Len(ids) : i < j => ids[i] < ids[j]
      /\ \A r \in Request : answered[r] = "none" <=>
            \/ r > asked
            \/ \E i \in 1 .. Len(ids) : ids[i] = r /\ (i = 1 => ~Given)
  BY DEF InOrder, Order
<1>3. ASSUME /\ \A i \in 1 .. Len(new) : new[i] \in 1 .. asked'
             /\ \A i, j \in 1 .. Len(new) : i < j => new[i] < new[j]
             /\ \A r \in Request : answered'[r] = "none" <=>
                   \/ r > asked'
                   \/ \E i \in 1 .. Len(new) : new[i] = r /\ (i = 1 => ~Given')
      PROVE  InOrder'
  BY <1>3 DEF InOrder, Order
<1>4. CASE Keeps
  BY <1>2, <1>3, <1>4 DEF Keeps
<1>5. CASE Gives
  <2>1. PICK a \in {"value", "done", "error"} : answered' = Answered(ids[1], a)
    BY <1>5 DEF Gives
  <2>2. new = ids /\ asked' = asked /\ Given' /\ ~Given /\ 1 \in 1 .. Len(ids)
    BY <1>1, <1>5 DEF Gives
  <2>3. \A r \in Request : answered'[r] = IF r = ids[1] THEN a ELSE answered[r]
    BY <1>1, <2>1 DEF Answered
  <2>4. ids[1] \in Request /\ \A i \in 1 .. Len(ids) : i = 1 <=> ids[i] = ids[1]
    <3>1. \A n \in 1 .. asked : n \in Request /\ n \in Nat
      BY <1>1, RequestAssumption DEF Request
    <3>2. \A i \in 1 .. Len(ids) : i = 1 \/ 1 < i
      OBVIOUS
    <3>3. \A i \in 1 .. Len(ids) : ids[i] \in Nat /\ (1 < i => ids[1] < ids[i])
      BY <1>2, <2>2, <3>1
    <3>4. \A m, n \in Nat : m < n => m # n
      OBVIOUS
    <3> QED BY <1>2, <2>2, <3>1, <3>2, <3>3, <3>4
  <2>5. ~(ids[1] > asked)
    BY <1>1, <1>2, <2>2
  <2>6. \A r \in Request : answered'[r] = "none" <=>
           r # ids[1] /\ (r > asked \/ \E i \in 1 .. Len(ids) : ids[i] = r)
    BY <1>2, <2>2, <2>3
  <2>7. \A r \in Request : answered'[r] = "none" <=>
           (r > asked \/ \E i \in 1 .. Len(ids) : ids[i] = r /\ i # 1)
    BY <2>4, <2>5, <2>6
  <2> QED BY <1>2, <1>3, <2>2, <2>7
<1>6. CASE Drops \/ GivesNext
  <2>1. tasks # <<>> /\ tasks' = Tail(tasks) /\ Given /\ asked' = asked
    <3>1. Given => tasks # <<>>
      BY Executing DEF Given
    <3> QED BY <1>6, <3>1 DEF Drops, GivesNext
  <2>2. new = Tail(ids) /\ ids # <<>>
    BY <1>1, <2>1, IdsTail, IdsOf
  <2>3. /\ Len(new) = Len(ids) - 1 /\ Len(ids) \in Nat \ {0}
        /\ \A i \in 1 .. Len(new) : new[i] = ids[i + 1]
    BY <1>1, <2>2, HeadTailProperties, EmptySeq
  <2>4. /\ \A i \in 1 .. Len(new) : new[i] \in 1 .. asked
        /\ \A i, j \in 1 .. Len(new) : i < j => new[i] < new[j]
    <3>1. \A i \in 1 .. Len(new) : i + 1 \in 1 .. Len(ids)
      BY <2>3
    <3>2. \A i, j \in 1 .. Len(new) : i < j => i + 1 < j + 1
      BY <2>3
    <3>3. \A i \in 1 .. Len(new) : new[i] \in 1 .. asked
      BY <1>2, <2>3, <3>1
    <3>4. ASSUME NEW i \in 1 .. Len(new), NEW j \in 1 .. Len(new), i < j
          PROVE  new[i] < new[j]
      <4>1. i + 1 \in 1 .. Len(ids) /\ j + 1 \in 1 .. Len(ids) /\ i + 1 < j + 1
        BY <3>1, <3>2, <3>4
      <4>2. ids[i + 1] < ids[j + 1]
        BY <1>2, <4>1
      <4> QED BY <2>3, <4>2
    <3> QED BY <3>3, <3>4
  <2>5. \A r \in Request : answered[r] = "none" <=>
           r > asked \/ \E i \in 1 .. Len(new) : new[i] = r
    <3>1. \A r \in Request : (\E i \in 1 .. Len(ids) : ids[i] = r /\ (i = 1 => ~Given))
             <=> \E i \in 1 .. Len(new) : new[i] = r
      <4>1. ASSUME NEW r, NEW i \in 1 .. Len(ids), ids[i] = r, i = 1 => ~Given
            PROVE  \E j \in 1 .. Len(new) : new[j] = r
        <5>1. i # 1 /\ i - 1 \in 1 .. Len(new) /\ new[i - 1] = ids[i]
          BY <2>1, <2>3, <4>1
        <5> QED BY <4>1, <5>1
      <4>2. ASSUME NEW r, NEW j \in 1 .. Len(new), new[j] = r
            PROVE  \E i \in 1 .. Len(ids) : ids[i] = r /\ (i = 1 => ~Given)
        <5>1. j + 1 \in 1 .. Len(ids) /\ j + 1 # 1 /\ ids[j + 1] = r
          BY <2>3, <4>2
        <5> QED BY <5>1
      <4> QED BY <4>1, <4>2
    <3> QED BY <1>2, <3>1
  <2>6. CASE Drops
    <3>1. answered' = answered /\ ~Given'
      BY <2>6 DEF Drops
    <3> QED BY <1>3, <2>1, <2>4, <2>5, <3>1
  <2>7. CASE GivesNext
    <3>1. PICK a \in {"value", "done", "error"} : answered' = Answered(ids[2], a)
      BY <2>7 DEF GivesNext
    <3>2. Given' /\ 1 \in 1 .. Len(new) /\ new[1] = ids[2]
      <4>1. Given' /\ Tail(tasks) # <<>> /\ Len(Tail(tasks)) = Len(tasks) - 1 /\ Len(tasks) # 1
        BY <2>1, <2>7, Tasks DEF GivesNext, IInv
      <4> QED BY <1>1, <2>3, <4>1
    <3>3. \A r \in Request : answered'[r] = IF r = new[1] THEN a ELSE answered[r]
      BY <1>1, <3>1, <3>2 DEF Answered
    <3>4. \A i \in 1 .. Len(new) : i = 1 <=> new[i] = new[1]
      <4>1. \A i \in 1 .. Len(new) : i = 1 \/ 1 < i
        OBVIOUS
      <4>2. \A n \in 1 .. asked : n \in Nat
        OBVIOUS
      <4>3. \A i \in 1 .. Len(new) : new[i] \in Nat /\ (1 < i => new[1] < new[i])
        BY <2>4, <3>2, <4>2
      <4>4. \A m, n \in Nat : m < n => m # n
        OBVIOUS
      <4> QED BY <3>2, <4>1, <4>3, <4>4
    <3>5. ~(new[1] > asked)
      BY <1>1, <2>4, <3>2
    <3>6. \A r \in Request : answered'[r] = "none" <=>
             (r > asked \/ \E i \in 1 .. Len(new) : new[i] = r /\ i # 1)
      BY <2>5, <3>2, <3>3, <3>4, <3>5
    <3> QED BY <1>3, <2>1, <2>4, <3>2, <3>6
  <2> QED BY <1>6, <2>6, <2>7
<1>7. ASSUME NEW op \in Operation, Ask(op), completed
      PROVE  InOrder'
  <2>1. /\ asked' = asked + 1 /\ tasks' = tasks /\ stack' = stack /\ asked < MaxRequests
        /\ answered' = Answered(asked + 1, IF op = "throw" THEN "error" ELSE "done")
    BY <1>7 DEF Ask
  <2>2. (Given' <=> Given) /\ new = ids
    BY <2>1 DEF Given
  <2>3. \A r \in Request : answered'[r] = "none" <=> r # asked + 1 /\ answered[r] = "none"
    BY <1>1, <2>1 DEF Answered, Request
  <2>4. \A r \in Request : r > asked + 1 <=> r > asked /\ r # asked + 1
    BY <1>1 DEF Request
  <2>5. \A i \in 1 .. Len(ids) : ids[i] # asked + 1 /\ ids[i] \in 1 .. asked + 1
    BY <1>1, <1>2
  <2> QED BY <1>2, <1>3, <2>1, <2>2, <2>3, <2>4, <2>5
<1>8. ASSUME NEW op \in Operation, Ask(op), ~completed
      PROVE  InOrder'
  <2> DEFINE task == [id |-> asked', op |-> op, fresh |-> TRUE]
  <2>1. /\ asked' = asked + 1 /\ tasks' = Append(tasks, task) /\ asked < MaxRequests
        /\ answered' = answered
        /\ stack' = IF tasks = <<>> /\ ~called THEN <<"start">> \o stack ELSE stack
    BY <1>8 DEF Ask
  <2>2. task \in Task /\ task.id = asked + 1 /\ asked + 1 \in Request
    BY <1>1, <2>1, RequestAssumption DEF Task, Request
  <2> HIDE DEF task
  <2>3. new = Append(ids, asked + 1)
    BY <1>1, <2>1, <2>2, IdsAppend
  <2>4. /\ Len(new) = Len(ids) + 1 /\ new[Len(ids) + 1] = asked + 1
        /\ \A i \in 1 .. Len(ids) : new[i] = ids[i]
    BY <1>1, <2>2, <2>3, AppendProperties
  <2>5. Given' <=> Given
    <3>1. CASE tasks = <<>> /\ ~called
      <4>1. ~Given
        BY <3>1, Executing DEF Given
      <4>2. stack' = <<"start">> \o stack /\ stack \in Seq(Code) /\ "start" \in Code \ {"script"}
        BY <2>1, <3>1 DEF IInv, TypeOK, Code, Native
      <4>3. ~Given'
        BY <4>2, GivenTop
      <4> QED BY <4>1, <4>3
    <3> QED BY <2>1, <3>1 DEF Given
  <2>6. Given => Len(ids) # 0
    BY <1>1, Executing DEF Given
  <2>7. /\ \A i \in 1 .. Len(new) : new[i] \in 1 .. asked + 1
        /\ \A i, j \in 1 .. Len(new) : i < j => new[i] < new[j]
    <3>1. \A i \in 1 .. Len(new) : i \in 1 .. Len(ids) \/ i = Len(ids) + 1
      BY <1>1, <2>4
    <3>2. \A i \in 1 .. Len(ids) : i < Len(ids) + 1 /\ ~(Len(ids) + 1 < i)
      BY <1>1
    <3>3. \A n \in 1 .. asked : n < asked + 1 /\ n \in 1 .. asked + 1
      BY <1>1
    <3>4. asked + 1 \in 1 .. asked + 1 /\ ~(Len(ids) + 1 < Len(ids) + 1)
      BY <1>1
    <3>5. \A i \in 1 .. Len(ids) : new[i] \in 1 .. asked
      BY <1>2, <2>4
    <3>6. \A i, j \in 1 .. Len(ids) : i < j => new[i] < new[j]
      BY <1>2, <2>4
    <3>7. new[Len(ids) + 1] = asked + 1
      BY <2>4
    <3>8. ASSUME NEW i \in 1 .. Len(new), NEW j \in 1 .. Len(new), i < j
          PROVE  new[i] < new[j]
      <4>1. CASE i \in 1 .. Len(ids) /\ j \in 1 .. Len(ids)
        BY <3>6, <3>8, <4>1
      <4>2. CASE i \in 1 .. Len(ids) /\ j = Len(ids) + 1
        BY <3>3, <3>5, <3>7, <4>2
      <4> QED BY <3>1, <3>2, <3>4, <3>8, <4>1, <4>2
    <3>9. \A i \in 1 .. Len(new) : new[i] \in 1 .. asked + 1
      BY <3>1, <3>3, <3>4, <3>5, <3>7
    <3> QED BY <3>8, <3>9
  <2>8. \A r \in Request : r > asked <=> r = asked + 1 \/ r > asked + 1
    BY <1>1 DEF Request
  <2>9. \A r \in Request : (\E i \in 1 .. Len(new) : new[i] = r /\ (i = 1 => ~Given)) <=>
           r = asked + 1 \/ \E i \in 1 .. Len(ids) : ids[i] = r /\ (i = 1 => ~Given)
    <3>1. \A i \in 1 .. Len(new) : i \in 1 .. Len(ids) \/ i = Len(ids) + 1
      BY <1>1, <2>4
    <3>2. \A i \in 1 .. Len(ids) : i \in 1 .. Len(new)
      BY <1>1, <2>4
    <3>3. Len(ids) + 1 \in 1 .. Len(new) /\ (Len(ids) + 1 = 1 => ~Given)
      BY <1>1, <2>4, <2>6
    <3> QED BY <2>4, <3>1, <3>2, <3>3
  <2>10. \A r \in Request : answered'[r] = "none" <=>
           r > asked + 1 \/ \E i \in 1 .. Len(new) : new[i] = r /\ (i = 1 => ~Given)
    BY <1>2, <2>1, <2>8, <2>9
  <2> QED BY <1>3, <2>1, <2>5, <2>7, <2>10
<1> QED BY <1>4, <1>5, <1>6, <1>7, <1>8 DEF Asks

-----------------------------------------------------------------------------
(* The requests that wait, and the refinement.                             *)

WaitingTold == /\ Waiting = IF Given THEN Tail(Ids(tasks)) ELSE Ids(tasks)
               /\ Given => tasks # <<>>

LEMMA WaitingIs == ASSUME IInv, InOrder PROVE WaitingTold
<1>1. Given => tasks # <<>>
  BY Executing DEF Given
<1>2. Requests = Ids(tasks)
  BY DEF Requests, Ids, IInv, TypeOK
<1>3. ASSUME tasks # <<>>
      PROVE  answered[Head(tasks).id] = "none" <=> ~Given
  <2>1. /\ Len(tasks) \in Nat \ {0} /\ Head(tasks) = tasks[1] /\ tasks[1] \in Task
    BY <1>3, Tasks DEF IInv
  <2>2. Ids(tasks)[1] = Head(tasks).id /\ Len(Ids(tasks)) = Len(tasks) /\ Head(tasks).id \in Request
    <3>1. \A t \in Task : t.id \in Request
      BY DEF Task
    <3>2. 1 \in 1 .. Len(tasks) /\ tasks \in Seq(Task)
      BY <2>1 DEF IInv, TypeOK
    <3> QED BY <2>1, <3>1, <3>2, IdsOf
  <2> DEFINE ids == Ids(tasks)
  <2>3. /\ \A i \in 1 .. Len(ids) : ids[i] \in 1 .. asked
        /\ \A i, j \in 1 .. Len(ids) : i < j => ids[i] < ids[j]
        /\ \A r \in Request : answered[r] = "none" <=>
              \/ r > asked
              \/ \E i \in 1 .. Len(ids) : ids[i] = r /\ (i = 1 => ~Given)
    BY DEF InOrder, Order
  <2> HIDE DEF ids
  <2>4. 1 \in 1 .. Len(ids) /\ ids[1] = Head(tasks).id
    BY <2>1, <2>2 DEF ids
  <2>5. ~(ids[1] > asked) /\ \A i \in 1 .. Len(ids) : ids[i] = ids[1] => i = 1
    <3>1. asked \in Nat /\ Len(ids) \in Nat
      BY <2>1, <2>2, RequestAssumption DEF IInv, TypeOK, ids
    <3> QED BY <2>3, <2>4, <3>1
  <2> QED BY <2>2, <2>3, <2>4, <2>5
<1> QED BY <1>1, <1>2, <1>3 DEF Waiting, WaitingTold

\* The same in the next state.
LEMMA WaitingIsPrime == ASSUME IInv', InOrder' PROVE WaitingTold'
BY WaitingIs, PTL

LEMMA StepIsQueued ==
  ASSUME IInv, IInv', InOrder, InOrder', [Next]_vars
  PROVE  [Queue!Next]_(Queue!vars)
<1> DEFINE done == {r \in Request : answered[r] # "none"}
<1>1. /\ Waiting = IF Given THEN Tail(Ids(tasks)) ELSE Ids(tasks)
      /\ Given => tasks # <<>>
  BY WaitingIs DEF WaitingTold
<1>2. /\ Waiting' = IF Given' THEN Tail(Ids(tasks')) ELSE Ids(tasks')
      /\ Given' => tasks' # <<>>
  BY WaitingIsPrime DEF WaitingTold
<1>3. /\ tasks \in Seq(Task) /\ answered \in [Request -> {"none", "value", "done", "error"}]
      /\ completed \in BOOLEAN /\ completed' \in BOOLEAN
      /\ Ids(tasks) \in Seq(Request) /\ (tasks = <<>> <=> Ids(tasks) = <<>>)
  BY IdsOf DEF IInv, TypeOK
<1>4. Keeps \/ Gives \/ Drops \/ GivesNext \/ Asks
  BY KindOfStep
<1>5. ASSUME NEW r \in Request, NEW a \in {"value", "done", "error"}, answered' = Answered(r, a)
      PROVE  done' = done \cup {r}
  BY <1>3, <1>5 DEF Answered
<1>6. CASE Keeps \/ Drops
  <2>1. Waiting' = Waiting /\ UNCHANGED <<asked, answered, completed>>
    <3>1. CASE Keeps
      BY <1>1, <1>2, <3>1 DEF Keeps
    <3>2. CASE Drops
      <4>1. Ids(tasks') = Tail(Ids(tasks)) /\ Given /\ ~Given'
        BY <1>1, <1>3, <3>2, IdsTail DEF Drops
      <4> QED BY <1>1, <1>2, <3>2, <4>1 DEF Drops
    <3> QED BY <1>6, <3>1, <3>2
  <2>2. done' = done
    BY <2>1
  <2> QED BY <2>1, <2>2 DEF Queue!vars
<1>7. CASE Gives
  <2>1. Waiting = Ids(tasks) /\ Waiting' = Tail(Waiting) /\ Waiting # <<>> /\ asked' = asked
    BY <1>1, <1>2, <1>3, <1>7 DEF Gives
  <2>2. PICK a \in {"value", "done", "error"} : answered' = Answered(Waiting[1], a)
    BY <1>7, <2>1 DEF Gives
  <2>3. Waiting[1] \in Request /\ Head(Waiting) = Waiting[1]
    BY <1>3, <2>1, HeadTailProperties
  <2>4. done' = done \cup {Head(Waiting)}
    BY <1>5, <2>2, <2>3
  <2>5. completed' \in {completed, TRUE}
    BY <1>7 DEF Gives
  <2> QED BY <2>1, <2>4, <2>5 DEF Queue!Next, Queue!Answer
<1>8. CASE GivesNext
  <2>1. /\ Waiting = Tail(Ids(tasks)) /\ Ids(tasks') = Tail(Ids(tasks)) /\ Ids(tasks') # <<>>
        /\ Waiting' = Tail(Waiting) /\ asked' = asked /\ completed' = completed
    <3>1. Ids(tasks') = Tail(Ids(tasks))
      BY <1>3, <1>8, IdsTail DEF GivesNext
    <3>2. tasks' \in Seq(Task) /\ tasks' # <<>>
      BY <1>8 DEF GivesNext, IInv, TypeOK
    <3>3. Ids(tasks') # <<>>
      BY <3>2, IdsOf
    <3> QED BY <1>1, <1>2, <1>8, <3>1, <3>3 DEF GivesNext
  <2>2. PICK a \in {"value", "done", "error"} : answered' = Answered(Ids(tasks)[2], a)
    BY <1>8 DEF GivesNext
  <2>3. Waiting \in Seq(Request) /\ Waiting # <<>> /\ Waiting[1] = Ids(tasks)[2]
    <3> DEFINE s == Ids(tasks)
    <3>1. s \in Seq(Request) /\ s # <<>> /\ Tail(s) # <<>>
      BY <1>3, <1>8, <2>1 DEF GivesNext
    <3> HIDE DEF s
    <3>2. Tail(s) \in Seq(Request) /\ Tail(s)[1] = s[2]
      <4>1. /\ Tail(s) \in Seq(Request) /\ Len(Tail(s)) \in Nat \ {0}
            /\ \A i \in 1 .. Len(Tail(s)) : Tail(s)[i] = s[i + 1]
        BY <3>1, HeadTailProperties, EmptySeq
      <4>2. 1 + 1 = 2 /\ \A n \in Nat \ {0} : 1 \in 1 .. n
        OBVIOUS
      <4> QED BY <4>1, <4>2
    <3> QED BY <2>1, <3>1, <3>2 DEF s
  <2>4. Waiting[1] \in Request /\ Head(Waiting) = Waiting[1]
    BY <2>3, HeadTailProperties
  <2>5. done' = done \cup {Head(Waiting)}
    BY <1>5, <2>2, <2>3, <2>4
  <2> QED BY <2>1, <2>3, <2>5 DEF Queue!Next, Queue!Answer
<1>9. ASSUME NEW op \in Operation, Ask(op)
      PROVE  Queue!Ask
  <2>1. asked < MaxRequests /\ asked' = asked + 1 /\ completed' = completed
    BY <1>9 DEF Ask
  <2>2. CASE completed
    <3>1. /\ tasks' = tasks /\ stack' = stack
          /\ answered' = Answered(asked', IF op = "throw" THEN "error" ELSE "done")
      BY <1>9, <2>2 DEF Ask
    <3>2. Waiting' = Waiting
      <4>1. Given' <=> Given
        BY <3>1 DEF Given
      <4> QED BY <1>1, <1>2, <3>1, <4>1
    <3>3. asked' \in Request
      BY <2>1, RequestAssumption DEF IInv, TypeOK, Request
    <3>4. done' = done \cup {asked'}
      BY <1>5, <3>1, <3>3
    <3> QED BY <2>1, <2>2, <3>2, <3>4 DEF Queue!Ask
  <2>3. CASE ~completed
    <3> DEFINE task == [id |-> asked', op |-> op, fresh |-> TRUE]
    <3>1. /\ tasks' = Append(tasks, task) /\ answered' = answered
          /\ stack' = IF tasks = <<>> /\ ~called THEN <<"start">> \o stack ELSE stack
      BY <1>9, <2>3 DEF Ask
    <3>2. task \in Task /\ task.id = asked' /\ asked' \in Request
      BY <2>1, RequestAssumption DEF IInv, TypeOK, Task, Request
    <3> HIDE DEF task
    <3>3. Ids(tasks') = Append(Ids(tasks), asked')
      BY <1>3, <3>1, <3>2, IdsAppend
    <3>4. Given' <=> Given
      <4>1. CASE tasks = <<>> /\ ~called
        <5>1. ~Given
          BY <1>1, <4>1
        <5>2. stack' = <<"start">> \o stack /\ stack \in Seq(Code) /\ "start" \in Code \ {"script"}
          BY <3>1, <4>1 DEF IInv, TypeOK, Code, Native
        <5>3. ~Given'
          BY <5>2, GivenTop
        <5> QED BY <5>1, <5>3
      <4> QED BY <3>1, <4>1 DEF Given
    <3>5. Waiting' = Append(Waiting, asked')
      <4>1. CASE Given
        <5> DEFINE s == Ids(tasks)
        <5>1. s \in Seq(Request) /\ s # <<>>
          BY <1>1, <1>3, <4>1
        <5> HIDE DEF s
        <5>2. Tail(Append(s, asked')) = Append(Tail(s), asked')
          BY <3>2, <5>1
        <5> QED BY <1>1, <1>2, <3>3, <3>4, <4>1, <5>2 DEF s
      <4>2. CASE ~Given
        BY <1>1, <1>2, <3>3, <3>4, <4>2
      <4> QED BY <4>1, <4>2
    <3> QED BY <2>1, <2>3, <3>1, <3>5 DEF Queue!Ask
  <2> QED BY <2>2, <2>3
<1> QED BY <1>4, <1>6, <1>7, <1>8, <1>9 DEF Asks, Queue!Next

LEMMA InitInOrder == Init => InOrder /\ Queue!Init
<1> SUFFICES ASSUME Init PROVE InOrder /\ Queue!Init
  OBVIOUS
<1>1. tasks = <<>> /\ asked = 0 /\ completed = FALSE /\ \A r \in Request : answered[r] = "none"
  BY DEF Init
<1>2. /\ <<>> \in Seq(Task) /\ Len(<<>>) = 0
  OBVIOUS
<1>3. Ids(tasks) = <<>> /\ Len(Ids(tasks)) = 0
  BY <1>1, <1>2, IdsOf
<1>4. \A r \in Request : r > asked
  BY <1>1 DEF Request
<1>5. InOrder
  BY <1>1, <1>3, <1>4 DEF InOrder, Order
<1>6. Waiting = <<>>
  BY <1>1, <1>2 DEF Waiting, Requests
<1> QED BY <1>1, <1>5, <1>6 DEF Queue!Init

\* The promise to those who make requests holds for any number of them: each gets one
\* answer, in the order in which they were made, and on the spot once the generator is
\* closed.  Every step of the queue, the jobs and yield* answers the oldest request that
\* waits, adds one, or leaves the queue as it is.
THEOREM GeneratorAnswersInOrder == Spec => ImplementsRequestQueue
<1>1. Init => InOrder /\ Queue!Init
  BY InitInOrder
<1>2. IInv /\ IInv' /\ InOrder /\ [Next]_vars => InOrder'
  BY KindOfStep, OrderStep
<1>3. IInv /\ IInv' /\ InOrder /\ InOrder' /\ [Next]_vars => [Queue!Next]_(Queue!vars)
  BY StepIsQueued
<1>4. Spec => []IInv
  BY Inductive
<1> QED BY <1>1, <1>2, <1>3, <1>4, PTL DEF Spec, ImplementsRequestQueue, Queue!Spec
=============================================================================
