--------------------------- MODULE PromisesProofs ---------------------------
(***************************************************************************)
(* Promises with a host, for any number of promises, async functions and   *)
(* operations: one resolution at a time, a flag that tells the truth, no   *)
(* orphan, one resumption per await, and a settled promise never changes.  *)
(*                                                                         *)
(* What is going to act on a promise is a token: a job, a collected        *)
(* reaction or a call in progress that names it.  A step moves tokens from *)
(* a promise to the queue, from the queue to the stack and so on.  The     *)
(* invariant says of each promise how many tokens of each sort it has, in  *)
(* which of its states; the first part of this module says what becomes of *)
(* the tokens when a sequence grows or shrinks.                            *)
(***************************************************************************)
EXTENDS PromisesHost, SequenceTheorems, TLAPS

\* Elements of a queue, of a list of reactions or of the stack that name p.
Nowhere(s, K, p) == \A i \in 1 .. Len(s) : ~(s[i].kind \in K /\ s[i].who = p)

Once(s, K, p) ==
  \E i \in 1 .. Len(s) : /\ s[i].kind \in K /\ s[i].who = p
                         /\ \A j \in 1 .. Len(s) : s[j].kind \in K /\ s[j].who = p => j = i

\* No token, or exactly one, in the queue, on the promises and on the stack.
Absent(que, rea, stk, K, p) ==
  /\ Nowhere(que, K, p)
  /\ Nowhere(stk, K, p)
  /\ \A q \in Promise : Nowhere(rea[q], K, p)

Sole(que, rea, stk, K, p) ==
  \/ Once(que, K, p) /\ Nowhere(stk, K, p) /\ \A q \in Promise : Nowhere(rea[q], K, p)
  \/ Nowhere(que, K, p) /\ Once(stk, K, p) /\ \A q \in Promise : Nowhere(rea[q], K, p)
  \/ /\ Nowhere(que, K, p)
     /\ Nowhere(stk, K, p)
     /\ \E q \in Promise : /\ Once(rea[q], K, p)
                           /\ \A r \in Promise \ {q} : Nowhere(rea[r], K, p)

\* Who resolves p with a thenable, who will resolve it, who resumes it, and the script
\* code that was given its resolvers.
RES == {"thenable", "getter"}
CUS == {"then", "adopt", "handler"}
AWAIT == {"await"}
CODE == {"executor", "thencall"}

\* The body of x is on the stack, or suspended while a getter runs for its await.
Runs(f, x) == (f.kind = "async" /\ f.who = x) \/ f.waiter = x
RunsNowhere(stk, x) == \A i \in 1 .. Len(stk) : ~Runs(stk[i], x)
RunsOnce(stk, x) ==
  \E i \in 1 .. Len(stk) : Runs(stk[i], x) /\ \A j \in 1 .. Len(stk) : Runs(stk[j], x) => j = i

-----------------------------------------------------------------------------
(* The inductive invariant.                                                *)

GoodReaction == {r \in Reaction : /\ r.kind = "await" => r.who \in AsyncFn
                                  /\ r.kind = "adopt" => r.who \in Promise}

GoodJob == {j \in Job : /\ j.kind = "await" => j.who \in AsyncFn
                        /\ j.kind \in {"adopt", "thenable"} => j.who \in Promise}

GoodFrame == {f \in Frame : /\ f.kind \in {"executor", "thencall", "getter"} => f.who \in Promise
                            /\ f.kind = "async" => f.who \in AsyncFn
                            /\ f.kind = "handler" => f.who \in Capability
                            /\ f.waiter # None => f.kind = "getter"}

Types ==
  /\ state \in [Promise -> {"unborn", "pending", "fulfilled", "rejected"}]
  /\ already \in [Promise -> BOOLEAN]
  /\ result \in [Promise -> Value]
  /\ reactions \in [Promise -> Seq(GoodReaction)]
  /\ pairs \in [Promise -> Seq(BOOLEAN)]
  /\ hidden \subseteq Promise
  /\ exec \in [AsyncFn -> {"idle", "running", "awaiting", "done"}]
  /\ draining \in BOOLEAN
  /\ calls \in 0 .. MaxCalls

\* Nobody was given the resolvers of p, or a reaction that settles it.
Untouched(que, stk, p) == pairs[p] = <<>> /\ Absent(que, reactions, stk, CUS, p)

\* The flags, the value and the resolution of p.  The end of an async function leaves
\* ALREADY_RESOLVED clear, and nobody can notice.
Flags(que, stk, p) ==
  /\ state[p] = "unborn" => ~already[p]
  /\ state[p] # "pending" => reactions[p] = <<>>
  /\ pairs[p] = <<>> => Nowhere(stk, CODE, p)
  /\ \/ Absent(que, reactions, stk, RES, p)
     \/ /\ Sole(que, reactions, stk, RES, p)
        /\ state[p] = "pending"
        /\ ~already[p] => p \in AsyncFn /\ Untouched(que, stk, p)
  /\ state[p] = "pending" /\ already[p] => Sole(que, reactions, stk, RES, p)
  /\ Settled(p) /\ ~already[p] => p \in AsyncFn /\ Untouched(que, stk, p)

\* An async function: until it has ended nobody else settles its promise; one token
\* resumes it when it awaits; it is executed once at a time.
Function(que, stk, x) ==
  /\ exec[x] # "done" => /\ state[x] \in {"unborn", "pending"}
                         /\ ~already[x]
                         /\ Untouched(que, stk, x)
                         /\ Absent(que, reactions, stk, RES, x)
  /\ IF exec[x] = "awaiting" THEN Sole(que, reactions, stk, AWAIT, x)
                             ELSE Absent(que, reactions, stk, AWAIT, x)
  /\ IF exec[x] = "running" THEN RunsOnce(stk, x) ELSE RunsNowhere(stk, x)

\* A promise whose resolvers nobody holds has one token that will settle it, while it
\* is pending and not being resolved, and none otherwise.
Custody(que, stk, p) ==
  pairs[p] = <<>> /\ p \notin Settleable =>
    \/ /\ Absent(que, reactions, stk, CUS, p)
       /\ state[p] = "pending" => \/ Sole(que, reactions, stk, RES, p)
                                  \/ p \in AsyncFn /\ exec[p] # "done"
    \/ /\ Sole(que, reactions, stk, CUS, p)
       /\ state[p] = "pending"
       /\ ~already[p]
       /\ Absent(que, reactions, stk, RES, p)
       /\ p \in AsyncFn => exec[p] = "done"

Good(que, stk, p) == /\ Flags(que, stk, p)
                     /\ p \in AsyncFn => Function(que, stk, p)
                     /\ Custody(que, stk, p)

IInv == /\ Types
        /\ queue \in Seq(GoodJob)
        /\ stack \in Seq(GoodFrame)
        /\ \A p \in Promise : Good(queue, stack, p)

-----------------------------------------------------------------------------
(* Tokens in a sequence that grows or shrinks.                             *)

\* What appending a job to the queue does to the tokens in it.
LEMMA AppendTokens ==
  ASSUME NEW S, NEW s \in Seq(S), NEW e \in S
  PROVE  /\ Append(s, e) \in Seq(S)
         /\ \A K, p : IF e.kind \in K /\ e.who = p
                      THEN Nowhere(s, K, p) => Once(Append(s, e), K, p)
                      ELSE /\ Nowhere(s, K, p) => Nowhere(Append(s, e), K, p)
                           /\ Once(s, K, p) => Once(Append(s, e), K, p)
<1> DEFINE t == Append(s, e)
<1>1. /\ t \in Seq(S) /\ Len(s) \in Nat /\ Len(t) = Len(s) + 1
      /\ \A i \in 1 .. Len(s) : t[i] = s[i]
      /\ t[Len(s) + 1] = e
  BY AppendProperties, LenProperties
<1> HIDE DEF t
<1>2. \A i \in 1 .. Len(t) : i \in 1 .. Len(s) \/ i = Len(s) + 1
  BY <1>1
<1>3. 1 .. Len(s) \subseteq 1 .. Len(t) /\ Len(s) + 1 \in 1 .. Len(t) /\ Len(s) + 1 \notin 1 .. Len(s)
  BY <1>1
<1>4. ASSUME NEW K, NEW p
      PROVE  IF e.kind \in K /\ e.who = p
             THEN Nowhere(s, K, p) => Once(t, K, p)
             ELSE /\ Nowhere(s, K, p) => Nowhere(t, K, p)
                  /\ Once(s, K, p) => Once(t, K, p)
  <2>1. ASSUME Nowhere(s, K, p), e.kind \in K, e.who = p
        PROVE  Once(t, K, p)
    BY <1>1, <1>2, <1>3, <2>1 DEF Nowhere, Once
  <2>2. ASSUME Nowhere(s, K, p), ~(e.kind \in K /\ e.who = p)
        PROVE  Nowhere(t, K, p)
    BY <1>1, <1>2, <2>2 DEF Nowhere
  <2>3. ASSUME Once(s, K, p), ~(e.kind \in K /\ e.who = p)
        PROVE  Once(t, K, p)
    <3>1. PICK i \in 1 .. Len(s) : /\ s[i].kind \in K /\ s[i].who = p
                                   /\ \A j \in 1 .. Len(s) : s[j].kind \in K /\ s[j].who = p => j = i
      BY <2>3 DEF Once
    <3>2. i \in 1 .. Len(t) /\ t[i].kind \in K /\ t[i].who = p
      BY <1>1, <1>3, <3>1
    <3>3. \A j \in 1 .. Len(t) : t[j].kind \in K /\ t[j].who = p => j = i
      BY <1>1, <1>2, <2>3, <3>1
    <3> QED
      BY <3>2, <3>3 DEF Once
  <2> QED
    BY <2>1, <2>2, <2>3
<1> QED
  BY <1>1, <1>4 DEF t

\* What pushing a call on the stack does to the tokens on it.
LEMMA PushTokens ==
  ASSUME NEW S, NEW s \in Seq(S), NEW e \in S
  PROVE  /\ <<e>> \o s \in Seq(S)
         /\ \A K, p : IF e.kind \in K /\ e.who = p
                      THEN Nowhere(s, K, p) => Once(<<e>> \o s, K, p)
                      ELSE /\ Nowhere(s, K, p) => Nowhere(<<e>> \o s, K, p)
                           /\ Once(s, K, p) => Once(<<e>> \o s, K, p)
         /\ \A x : IF Runs(e, x)
                   THEN RunsNowhere(s, x) => RunsOnce(<<e>> \o s, x)
                   ELSE /\ RunsNowhere(s, x) => RunsNowhere(<<e>> \o s, x)
                        /\ RunsOnce(s, x) => RunsOnce(<<e>> \o s, x)
<1> DEFINE t == <<e>> \o s
<1>1. /\ t \in Seq(S) /\ Len(s) \in Nat /\ Len(t) = Len(s) + 1 /\ t[1] = e
      /\ \A i \in 1 .. Len(s) : t[i + 1] = s[i]
  <2>1. <<e>> \in Seq(S) /\ Len(<<e>>) = 1 /\ <<e>>[1] = e
    OBVIOUS
  <2>2. Len(s) \in Nat
    BY LenProperties
  <2>3. /\ t \in Seq(S)
        /\ Len(t) = 1 + Len(s)
        /\ \A i \in 1 .. 1 + Len(s) : t[i] = IF i <= 1 THEN <<e>>[i] ELSE s[i - 1]
    BY <2>1, ConcatProperties
  <2>4. \A i \in 1 .. Len(s) : i + 1 \in 1 .. 1 + Len(s) /\ ~(i + 1 <= 1) /\ (i + 1) - 1 = i
    BY <2>2
  <2> QED
    BY <2>1, <2>2, <2>3, <2>4
<1> HIDE DEF t
<1>2. \A i \in 1 .. Len(t) : i = 1 \/ \E j \in 1 .. Len(s) : i = j + 1
  <2>1. \A i \in 1 .. Len(t) : i = 1 \/ (i - 1 \in 1 .. Len(s) /\ i = (i - 1) + 1)
    BY <1>1
  <2> QED
    BY <2>1
<1>3. 1 \in 1 .. Len(t) /\ \A i \in 1 .. Len(s) : i + 1 \in 1 .. Len(t) /\ i + 1 # 1
  BY <1>1
<1>4. ASSUME NEW K, NEW p
      PROVE  IF e.kind \in K /\ e.who = p
             THEN Nowhere(s, K, p) => Once(t, K, p)
             ELSE /\ Nowhere(s, K, p) => Nowhere(t, K, p)
                  /\ Once(s, K, p) => Once(t, K, p)
  <2>1. ASSUME Nowhere(s, K, p), e.kind \in K, e.who = p
        PROVE  Once(t, K, p)
    <3>1. \A j \in 1 .. Len(t) : t[j].kind \in K /\ t[j].who = p => j = 1
      BY <1>1, <1>2, <2>1 DEF Nowhere
    <3> QED
      BY <1>1, <1>3, <2>1, <3>1 DEF Once
  <2>2. ASSUME Nowhere(s, K, p), ~(e.kind \in K /\ e.who = p)
        PROVE  Nowhere(t, K, p)
    BY <1>1, <1>2, <2>2 DEF Nowhere
  <2>3. ASSUME Once(s, K, p), ~(e.kind \in K /\ e.who = p)
        PROVE  Once(t, K, p)
    <3>1. PICK i \in 1 .. Len(s) : /\ s[i].kind \in K /\ s[i].who = p
                                   /\ \A j \in 1 .. Len(s) : s[j].kind \in K /\ s[j].who = p => j = i
      BY <2>3 DEF Once
    <3>2. i + 1 \in 1 .. Len(t) /\ t[i + 1].kind \in K /\ t[i + 1].who = p
      BY <1>1, <1>3, <3>1
    <3>3. ASSUME NEW j \in 1 .. Len(t), t[j].kind \in K, t[j].who = p
          PROVE  j = i + 1
      <4>1. j # 1
        BY <1>1, <2>3, <3>3
      <4>2. PICK k \in 1 .. Len(s) : j = k + 1
        BY <1>2, <4>1
      <4> QED
        BY <1>1, <3>1, <3>3, <4>2
    <3> QED
      BY <3>2, <3>3 DEF Once
  <2> QED
    BY <2>1, <2>2, <2>3
<1>5. ASSUME NEW x
      PROVE  IF Runs(e, x)
             THEN RunsNowhere(s, x) => RunsOnce(t, x)
             ELSE /\ RunsNowhere(s, x) => RunsNowhere(t, x)
                  /\ RunsOnce(s, x) => RunsOnce(t, x)
  <2>1. ASSUME RunsNowhere(s, x), Runs(e, x)
        PROVE  RunsOnce(t, x)
    BY <1>1, <1>2, <1>3, <2>1 DEF RunsNowhere, RunsOnce
  <2>2. ASSUME RunsNowhere(s, x), ~Runs(e, x)
        PROVE  RunsNowhere(t, x)
    BY <1>1, <1>2, <2>2 DEF RunsNowhere
  <2>3. ASSUME RunsOnce(s, x), ~Runs(e, x)
        PROVE  RunsOnce(t, x)
    <3>1. PICK i \in 1 .. Len(s) : Runs(s[i], x) /\ \A j \in 1 .. Len(s) : Runs(s[j], x) => j = i
      BY <2>3 DEF RunsOnce
    <3>2. i + 1 \in 1 .. Len(t) /\ Runs(t[i + 1], x)
      BY <1>1, <1>3, <3>1
    <3>3. \A j \in 1 .. Len(t) : Runs(t[j], x) => j = i + 1
      BY <1>1, <1>2, <2>3, <3>1
    <3> QED
      BY <3>2, <3>3 DEF RunsOnce
  <2> QED
    BY <2>1, <2>2, <2>3
<1> QED
  BY <1>1, <1>4, <1>5 DEF t

\* What removing the first element of the queue or of the stack does to the tokens.
LEMMA PopTokens ==
  ASSUME NEW S, NEW s \in Seq(S), s # <<>>
  PROVE  /\ Tail(s) \in Seq(S) /\ Head(s) \in S
         /\ \A K, p : IF Head(s).kind \in K /\ Head(s).who = p
                      THEN /\ ~Nowhere(s, K, p)
                           /\ Once(s, K, p) => Nowhere(Tail(s), K, p)
                      ELSE /\ Nowhere(s, K, p) => Nowhere(Tail(s), K, p)
                           /\ Once(s, K, p) => Once(Tail(s), K, p)
         /\ \A x : IF Runs(Head(s), x)
                   THEN /\ ~RunsNowhere(s, x)
                        /\ RunsOnce(s, x) => RunsNowhere(Tail(s), x)
                   ELSE /\ RunsNowhere(s, x) => RunsNowhere(Tail(s), x)
                        /\ RunsOnce(s, x) => RunsOnce(Tail(s), x)
<1> DEFINE t == Tail(s)
           h == Head(s)
<1>1. /\ t \in Seq(S) /\ Len(s) \in Nat \ {0} /\ Len(t) = Len(s) - 1 /\ h = s[1]
      /\ \A i \in 1 .. Len(t) : t[i] = s[i + 1]
      /\ h \in S
  <2>1. Len(s) \in Nat \ {0}
    BY EmptySeq, LenProperties
  <2>2. s[1] \in S
    BY <2>1, ElementOfSeq
  <2> QED
    BY <2>1, <2>2, HeadTailProperties
<1> HIDE DEF t, h
<1>2. \A i \in 1 .. Len(s) : i = 1 \/ (i - 1 \in 1 .. Len(t) /\ (i - 1) + 1 = i)
  BY <1>1
<1>3. 1 \in 1 .. Len(s) /\ \A i \in 1 .. Len(t) : i + 1 \in 1 .. Len(s) /\ i + 1 # 1
  BY <1>1
<1>4. ASSUME NEW K, NEW p
      PROVE  IF h.kind \in K /\ h.who = p
             THEN ~Nowhere(s, K, p) /\ (Once(s, K, p) => Nowhere(t, K, p))
             ELSE /\ Nowhere(s, K, p) => Nowhere(t, K, p)
                  /\ Once(s, K, p) => Once(t, K, p)
  <2>1. h.kind \in K /\ h.who = p => ~Nowhere(s, K, p)
    BY <1>1, <1>3 DEF Nowhere
  <2>2. ASSUME Once(s, K, p), h.kind \in K, h.who = p
        PROVE  Nowhere(t, K, p)
    BY <1>1, <1>3, <2>2 DEF Nowhere, Once
  <2>3. ASSUME Nowhere(s, K, p)
        PROVE  Nowhere(t, K, p)
    BY <1>1, <1>3, <2>3 DEF Nowhere
  <2>4. ASSUME Once(s, K, p), ~(h.kind \in K /\ h.who = p)
        PROVE  Once(t, K, p)
    <3>1. PICK i \in 1 .. Len(s) : /\ s[i].kind \in K /\ s[i].who = p
                                   /\ \A j \in 1 .. Len(s) : s[j].kind \in K /\ s[j].who = p => j = i
      BY <2>4 DEF Once
    <3>2. i - 1 \in 1 .. Len(t) /\ (i - 1) + 1 = i
      BY <1>1, <1>2, <2>4, <3>1
    <3>3. t[i - 1].kind \in K /\ t[i - 1].who = p
      BY <1>1, <3>1, <3>2
    <3>4. \A j \in 1 .. Len(t) : t[j].kind \in K /\ t[j].who = p => j = i - 1
      <4>1. \A j \in 1 .. Len(t) : t[j].kind \in K /\ t[j].who = p => j + 1 = i
        BY <1>1, <1>3, <3>1
      <4> QED
        BY <4>1, <3>1
    <3> QED
      BY <3>2, <3>3, <3>4 DEF Once
  <2> QED
    BY <2>1, <2>2, <2>3, <2>4
<1>5. ASSUME NEW x
      PROVE  IF Runs(h, x)
             THEN ~RunsNowhere(s, x) /\ (RunsOnce(s, x) => RunsNowhere(t, x))
             ELSE /\ RunsNowhere(s, x) => RunsNowhere(t, x)
                  /\ RunsOnce(s, x) => RunsOnce(t, x)
  <2>1. Runs(h, x) => ~RunsNowhere(s, x)
    BY <1>1, <1>3 DEF RunsNowhere
  <2>2. ASSUME RunsOnce(s, x), Runs(h, x)
        PROVE  RunsNowhere(t, x)
    BY <1>1, <1>3, <2>2 DEF RunsNowhere, RunsOnce
  <2>3. ASSUME RunsNowhere(s, x)
        PROVE  RunsNowhere(t, x)
    BY <1>1, <1>3, <2>3 DEF RunsNowhere
  <2>4. ASSUME RunsOnce(s, x), ~Runs(h, x)
        PROVE  RunsOnce(t, x)
    <3>1. PICK i \in 1 .. Len(s) : Runs(s[i], x) /\ \A j \in 1 .. Len(s) : Runs(s[j], x) => j = i
      BY <2>4 DEF RunsOnce
    <3>2. i - 1 \in 1 .. Len(t) /\ (i - 1) + 1 = i
      BY <1>1, <1>2, <2>4, <3>1
    <3>3. Runs(t[i - 1], x)
      BY <1>1, <3>1, <3>2
    <3>4. \A j \in 1 .. Len(t) : Runs(t[j], x) => j = i - 1
      <4>1. \A j \in 1 .. Len(t) : Runs(t[j], x) => j + 1 = i
        BY <1>1, <1>3, <3>1
      <4> QED
        BY <4>1, <3>1
    <3> QED
      BY <3>2, <3>3, <3>4 DEF RunsOnce
  <2> QED
    BY <2>1, <2>2, <2>3, <2>4
<1> QED
  BY <1>1, <1>4, <1>5 DEF t, h

\* The jobs that the reactions of a promise become: one for each, with its kind and owner.
JobsOf(m, r) == /\ m \in Seq(GoodJob)
                /\ Len(m) = Len(r)
                /\ \A i \in 1 .. Len(r) : m[i].kind = r[i].kind /\ m[i].who = r[i].who

\* A function on 1 .. n is a sequence of length n.
LEMMA FunctionIsSeq ==
  ASSUME NEW S, NEW n \in Nat, NEW f \in [1 .. n -> S]
  PROVE  f \in Seq(S) /\ Len(f) = n
BY SeqDef, LenProperties

\* ecma_promise_trigger_reactions: the tokens of a promise's reactions go to the queue.
LEMMA TriggerTokens ==
  ASSUME NEW s \in Seq(GoodJob), NEW r \in Seq(GoodReaction), NEW m, JobsOf(m, r)
  PROVE  /\ s \o m \in Seq(GoodJob)
         /\ \A K, p : /\ Nowhere(s, K, p) /\ Nowhere(r, K, p) => Nowhere(s \o m, K, p)
                      /\ Once(s, K, p) /\ Nowhere(r, K, p) => Once(s \o m, K, p)
                      /\ Nowhere(s, K, p) /\ Once(r, K, p) => Once(s \o m, K, p)
<1> DEFINE t == s \o m
<1>1. Len(s) \in Nat /\ Len(r) \in Nat
  BY LenProperties
<1>3. m \in Seq(GoodJob) /\ Len(m) = Len(r) /\ \A i \in 1 .. Len(r) : m[i].kind = r[i].kind /\ m[i].who = r[i].who
  BY DEF JobsOf
<1>4. /\ t \in Seq(GoodJob)
      /\ Len(t) = Len(s) + Len(r)
      /\ \A i \in 1 .. Len(s) + Len(r) : t[i] = IF i <= Len(s) THEN s[i] ELSE m[i - Len(s)]
  <2>1. m \in Seq(GoodJob) /\ Len(m) = Len(r)
    BY <1>3
  <2>2. /\ s \o m \in Seq(GoodJob)
        /\ Len(s \o m) = Len(s) + Len(m)
        /\ \A i \in 1 .. Len(s) + Len(m) : (s \o m)[i] = IF i <= Len(s) THEN s[i] ELSE m[i - Len(s)]
    BY <2>1, ConcatProperties
  <2> QED
    BY <2>1, <2>2
<1> HIDE DEF t
<1>5. \A i \in 1 .. Len(s) : i \in 1 .. Len(t) /\ t[i] = s[i]
  BY <1>1, <1>4
<1>6. \A i \in 1 .. Len(r) : /\ i + Len(s) \in 1 .. Len(t) /\ i + Len(s) \notin 1 .. Len(s)
                             /\ t[i + Len(s)].kind = r[i].kind /\ t[i + Len(s)].who = r[i].who
  <2> TAKE i \in 1 .. Len(r)
  <2>1. i + Len(s) \in 1 .. Len(s) + Len(r) /\ ~(i + Len(s) <= Len(s)) /\ (i + Len(s)) - Len(s) = i
    BY <1>1
  <2>2. t[i + Len(s)] = m[i]
    BY <1>4, <2>1
  <2> QED
    BY <1>3, <1>4, <2>1, <2>2
<1>7. \A i \in 1 .. Len(t) : i \in 1 .. Len(s) \/ \E k \in 1 .. Len(r) : i = k + Len(s)
  <2> TAKE i \in 1 .. Len(t)
  <2>1. i \in 1 .. Len(s) \/ (i - Len(s) \in 1 .. Len(r) /\ i = (i - Len(s)) + Len(s))
    BY <1>1, <1>4
  <2> QED
    BY <2>1
<1>8. ASSUME NEW K, NEW p, Nowhere(s, K, p), Nowhere(r, K, p)
      PROVE  Nowhere(t, K, p)
  <2> SUFFICES ASSUME NEW i \in 1 .. Len(t), t[i].kind \in K, t[i].who = p PROVE FALSE
    BY DEF Nowhere
  <2>1. CASE i \in 1 .. Len(s)
    BY <1>5, <1>8, <2>1 DEF Nowhere
  <2>2. CASE \E k \in 1 .. Len(r) : i = k + Len(s)
    BY <1>6, <1>8, <2>2 DEF Nowhere
  <2> QED
    BY <1>7, <2>1, <2>2
<1>9. ASSUME NEW K, NEW p, Once(s, K, p), Nowhere(r, K, p)
      PROVE  Once(t, K, p)
  <2>1. PICK i \in 1 .. Len(s) : /\ s[i].kind \in K /\ s[i].who = p
                                 /\ \A j \in 1 .. Len(s) : s[j].kind \in K /\ s[j].who = p => j = i
    BY <1>9 DEF Once
  <2>2. ASSUME NEW j \in 1 .. Len(t), t[j].kind \in K, t[j].who = p
        PROVE  j = i
    <3>1. CASE j \in 1 .. Len(s)
      BY <1>5, <2>1, <2>2, <3>1
    <3>2. CASE \E k \in 1 .. Len(r) : j = k + Len(s)
      BY <1>6, <1>9, <2>2, <3>2 DEF Nowhere
    <3> QED
      BY <1>7, <3>1, <3>2
  <2>3. i \in 1 .. Len(t) /\ t[i].kind \in K /\ t[i].who = p
    BY <1>5, <2>1
  <2> QED
    BY <2>2, <2>3 DEF Once
<1>10. ASSUME NEW K, NEW p, Nowhere(s, K, p), Once(r, K, p)
       PROVE  Once(t, K, p)
  <2>1. PICK i \in 1 .. Len(r) : /\ r[i].kind \in K /\ r[i].who = p
                                 /\ \A j \in 1 .. Len(r) : r[j].kind \in K /\ r[j].who = p => j = i
    BY <1>10 DEF Once
  <2>2. ASSUME NEW j \in 1 .. Len(t), t[j].kind \in K, t[j].who = p
        PROVE  j = i + Len(s)
    <3>1. CASE j \in 1 .. Len(s)
      BY <1>5, <1>10, <2>2, <3>1 DEF Nowhere
    <3>2. CASE \E k \in 1 .. Len(r) : j = k + Len(s)
      BY <1>6, <2>1, <2>2, <3>2
    <3> QED
      BY <1>7, <3>1, <3>2
  <2>3. i + Len(s) \in 1 .. Len(t) /\ t[i + Len(s)].kind \in K /\ t[i + Len(s)].who = p
    BY <1>6, <2>1
  <2> QED
    BY <2>2, <2>3 DEF Once
<1> QED
  BY <1>4, <1>8, <1>9, <1>10 DEF t

-----------------------------------------------------------------------------
(* Tokens in the queue, on the promises and on the stack.                  *)

Keeps(que, rea, stk, que2, rea2, stk2, K, p) ==
  /\ Absent(que, rea, stk, K, p) => Absent(que2, rea2, stk2, K, p)
  /\ Sole(que, rea, stk, K, p) => Sole(que2, rea2, stk2, K, p)

\* A job is enqueued.
LEMMA EnqueueTokens ==
  ASSUME NEW que \in Seq(GoodJob), NEW rea, NEW stk, NEW j \in GoodJob, NEW K, NEW p
  PROVE  IF j.kind \in K /\ j.who = p
         THEN Absent(que, rea, stk, K, p) => Sole(Append(que, j), rea, stk, K, p)
         ELSE Keeps(que, rea, stk, Append(que, j), rea, stk, K, p)
<1>1. IF j.kind \in K /\ j.who = p
      THEN Nowhere(que, K, p) => Once(Append(que, j), K, p)
      ELSE /\ Nowhere(que, K, p) => Nowhere(Append(que, j), K, p)
           /\ Once(que, K, p) => Once(Append(que, j), K, p)
  BY AppendTokens
<1> QED
  BY <1>1 DEF Absent, Sole, Keeps

\* The job at the head is taken.
LEMMA DequeueTokens ==
  ASSUME NEW que \in Seq(GoodJob), que # <<>>, NEW rea, NEW stk, NEW K, NEW p
  PROVE  IF Head(que).kind \in K /\ Head(que).who = p
         THEN /\ ~Absent(que, rea, stk, K, p)
              /\ Sole(que, rea, stk, K, p) => Absent(Tail(que), rea, stk, K, p)
         ELSE Keeps(que, rea, stk, Tail(que), rea, stk, K, p)
<1>1. IF Head(que).kind \in K /\ Head(que).who = p
      THEN /\ ~Nowhere(que, K, p)
           /\ Once(que, K, p) => Nowhere(Tail(que), K, p)
      ELSE /\ Nowhere(que, K, p) => Nowhere(Tail(que), K, p)
           /\ Once(que, K, p) => Once(Tail(que), K, p)
  BY PopTokens
<1> QED
  BY <1>1 DEF Absent, Sole, Keeps

\* A call of script code begins, and returns.
LEMMA PushedTokens ==
  ASSUME NEW que, NEW rea, NEW stk \in Seq(GoodFrame), NEW f \in GoodFrame, NEW K, NEW p
  PROVE  IF f.kind \in K /\ f.who = p
         THEN Absent(que, rea, stk, K, p) => Sole(que, rea, <<f>> \o stk, K, p)
         ELSE Keeps(que, rea, stk, que, rea, <<f>> \o stk, K, p)
<1>1. IF f.kind \in K /\ f.who = p
      THEN Nowhere(stk, K, p) => Once(<<f>> \o stk, K, p)
      ELSE /\ Nowhere(stk, K, p) => Nowhere(<<f>> \o stk, K, p)
           /\ Once(stk, K, p) => Once(<<f>> \o stk, K, p)
  BY PushTokens
<1> QED
  BY <1>1 DEF Absent, Sole, Keeps

\* A return pops a call: the token it was is gone, the others stay.
LEMMA PoppedTokens ==
  ASSUME NEW que, NEW rea, NEW stk \in Seq(GoodFrame), stk # <<>>, NEW K, NEW p
  PROVE  IF Head(stk).kind \in K /\ Head(stk).who = p
         THEN /\ ~Absent(que, rea, stk, K, p)
              /\ Sole(que, rea, stk, K, p) => Absent(que, rea, Tail(stk), K, p)
         ELSE Keeps(que, rea, stk, que, rea, Tail(stk), K, p)
<1>1. IF Head(stk).kind \in K /\ Head(stk).who = p
      THEN /\ ~Nowhere(stk, K, p)
           /\ Once(stk, K, p) => Nowhere(Tail(stk), K, p)
      ELSE /\ Nowhere(stk, K, p) => Nowhere(Tail(stk), K, p)
           /\ Once(stk, K, p) => Once(Tail(stk), K, p)
  BY PopTokens
<1> QED
  BY <1>1 DEF Absent, Sole, Keeps

\* The promise q collects a reaction.
LEMMA CollectTokens ==
  ASSUME NEW que, NEW rea \in [Promise -> Seq(GoodReaction)], NEW stk,
         NEW q \in Promise, NEW r \in GoodReaction, NEW K, NEW p
  PROVE  LET rea2 == [rea EXCEPT ![q] = Append(@, r)]
         IN IF r.kind \in K /\ r.who = p
            THEN Absent(que, rea, stk, K, p) => Sole(que, rea2, stk, K, p)
            ELSE Keeps(que, rea, stk, que, rea2, stk, K, p)
<1> DEFINE rea2 == [rea EXCEPT ![q] = Append(@, r)]
<1>1. IF r.kind \in K /\ r.who = p
      THEN Nowhere(rea[q], K, p) => Once(rea2[q], K, p)
      ELSE /\ Nowhere(rea[q], K, p) => Nowhere(rea2[q], K, p)
           /\ Once(rea[q], K, p) => Once(rea2[q], K, p)
  BY AppendTokens
<1>2. \A u \in Promise \ {q} : rea2[u] = rea[u]
  OBVIOUS
<1> HIDE DEF rea2
<1>3. ASSUME r.kind \in K /\ r.who = p, Absent(que, rea, stk, K, p)
      PROVE  Sole(que, rea2, stk, K, p)
  BY <1>1, <1>2, <1>3 DEF Absent, Sole
<1>4. ASSUME ~(r.kind \in K /\ r.who = p), Absent(que, rea, stk, K, p)
      PROVE  Absent(que, rea2, stk, K, p)
  BY <1>1, <1>2, <1>4 DEF Absent
<1>5. ASSUME ~(r.kind \in K /\ r.who = p), Sole(que, rea, stk, K, p)
      PROVE  Sole(que, rea2, stk, K, p)
  <2>1. CASE \A u \in Promise : Nowhere(rea[u], K, p)
    <3>1. \A u \in Promise : Nowhere(rea2[u], K, p)
      BY <1>1, <1>2, <1>5, <2>1
    <3>2. \A u \in Promise : ~Once(rea[u], K, p)
      BY <2>1 DEF Nowhere, Once
    <3> QED
      BY <1>5, <3>1, <3>2 DEF Sole
  <2>2. ASSUME NEW u \in Promise, Nowhere(que, K, p), Nowhere(stk, K, p), Once(rea[u], K, p),
               \A w \in Promise \ {u} : Nowhere(rea[w], K, p)
        PROVE  Sole(que, rea2, stk, K, p)
    <3>1. Once(rea2[u], K, p)
      BY <1>1, <1>2, <1>5, <2>2
    <3>2. ASSUME NEW w \in Promise \ {u}
          PROVE  Nowhere(rea2[w], K, p)
      <4>1. Nowhere(rea[w], K, p)
        BY <2>2
      <4> QED
        BY <1>1, <1>2, <1>5, <4>1
    <3> QED
      BY <2>2, <3>1, <3>2 DEF Sole
  <2> QED
    BY <1>5, <2>1, <2>2 DEF Sole
<1> QED
  BY <1>3, <1>4, <1>5 DEF Keeps, rea2

\* The promise q settles, and its reactions become jobs.
LEMMA SettleTokens ==
  ASSUME NEW que \in Seq(GoodJob), NEW rea \in [Promise -> Seq(GoodReaction)], NEW stk,
         NEW q \in Promise, NEW m, JobsOf(m, rea[q])
  PROVE  LET que2 == que \o m
             rea2 == [rea EXCEPT ![q] = <<>>]
         IN /\ que2 \in Seq(GoodJob)
            /\ rea2 \in [Promise -> Seq(GoodReaction)]
            /\ \A K, p : Keeps(que, rea, stk, que2, rea2, stk, K, p)
<1> DEFINE que2 == que \o m
           rea2 == [rea EXCEPT ![q] = <<>>]
<1>1. /\ que2 \in Seq(GoodJob)
      /\ \A K, p : /\ Nowhere(que, K, p) /\ Nowhere(rea[q], K, p) => Nowhere(que2, K, p)
                   /\ Once(que, K, p) /\ Nowhere(rea[q], K, p) => Once(que2, K, p)
                   /\ Nowhere(que, K, p) /\ Once(rea[q], K, p) => Once(que2, K, p)
  BY TriggerTokens
<1>2. /\ rea2 \in [Promise -> Seq(GoodReaction)]
      /\ rea2[q] = <<>>
      /\ \A u \in Promise \ {q} : rea2[u] = rea[u]
  BY EmptySeq
<1> HIDE DEF que2, rea2
<1>3. \A K, p : Nowhere(rea2[q], K, p)
  BY <1>2, EmptySeq DEF Nowhere
<1>4. ASSUME NEW K, NEW p, Absent(que, rea, stk, K, p)
      PROVE  Absent(que2, rea2, stk, K, p)
  BY <1>1, <1>2, <1>3, <1>4 DEF Absent
<1>5. ASSUME NEW K, NEW p, Sole(que, rea, stk, K, p)
      PROVE  Sole(que2, rea2, stk, K, p)
  <2>1. CASE \A u \in Promise : Nowhere(rea[u], K, p)
    <3>1. \A u \in Promise : Nowhere(rea2[u], K, p)
      BY <1>2, <1>3, <2>1
    <3>2. \A u \in Promise : ~Once(rea[u], K, p)
      BY <2>1 DEF Nowhere, Once
    <3> QED
      BY <1>1, <1>5, <2>1, <3>1, <3>2 DEF Sole
  <2>2. ASSUME NEW u \in Promise, Nowhere(que, K, p), Nowhere(stk, K, p), Once(rea[u], K, p),
               \A w \in Promise \ {u} : Nowhere(rea[w], K, p)
        PROVE  Sole(que2, rea2, stk, K, p)
    <3>1. CASE u = q
      <4>1. \A w \in Promise : Nowhere(rea2[w], K, p)
        BY <1>2, <1>3, <2>2, <3>1
      <4>2. Once(que2, K, p)
        BY <1>1, <2>2, <3>1
      <4> QED
        BY <2>2, <4>1, <4>2 DEF Sole
    <3>2. CASE u # q
      <4>1. Once(rea2[u], K, p) /\ \A w \in Promise \ {u} : Nowhere(rea2[w], K, p)
        BY <1>2, <1>3, <2>2, <3>2
      <4>2. Nowhere(que2, K, p)
        BY <1>1, <2>2, <3>2
      <4> QED
        BY <2>2, <4>1, <4>2 DEF Sole
    <3> QED
      BY <3>1, <3>2
  <2> QED
    BY <1>5, <2>1, <2>2 DEF Sole
<1> QED
  BY <1>1, <1>2, <1>4, <1>5 DEF Keeps, que2, rea2

-----------------------------------------------------------------------------
(* What a step leaves alone.                                               *)

\* No token that concerns p is made or lost, but perhaps for those that resolve it.
KeepsOthers(que, stk, p) ==
  /\ Keeps(que, reactions, stk, queue', reactions', stack', CUS, p)
  /\ Keeps(que, reactions, stk, queue', reactions', stack', AWAIT, p)
  /\ Nowhere(stk, CODE, p) => Nowhere(stack', CODE, p)
  /\ RunsNowhere(stk, p) => RunsNowhere(stack', p)
  /\ RunsOnce(stk, p) => RunsOnce(stack', p)

KeepsRes(que, stk, p) == Keeps(que, reactions, stk, queue', reactions', stack', RES, p)

KeepsAll(que, stk, p) == KeepsOthers(que, stk, p) /\ KeepsRes(que, stk, p)

\* A promise with its tokens and its flags as before is as good as before.
LEMMA Unmoved ==
  ASSUME NEW p \in Promise, NEW que, NEW stk,
         Good(que, stk, p),
         KeepsAll(que, stk, p),
         state'[p] = state[p],
         already'[p] = already[p],
         state[p] # "pending" /\ reactions[p] = <<>> => reactions'[p] = <<>>,
         pairs'[p] = <<>> <=> pairs[p] = <<>>,
         p \in AsyncFn => exec'[p] = exec[p]
  PROVE  Good(queue, stack, p)'
<1>1. Flags(queue, stack, p)'
  BY DEF Good, Flags, KeepsAll, KeepsOthers, KeepsRes, Keeps, Untouched, Settled
<1>2. p \in AsyncFn => Function(queue, stack, p)'
  BY DEF Good, Function, KeepsAll, KeepsOthers, KeepsRes, Keeps, Untouched
<1>3. Custody(queue, stack, p)'
  BY DEF Good, Custody, KeepsAll, KeepsOthers, KeepsRes, Keeps
<1> QED
  BY <1>1, <1>2, <1>3 DEF Good

-----------------------------------------------------------------------------
(* The internal operations.                                                *)

\* The jobs, reactions and calls that the operations make are well formed.
LEMMA ElementTypes ==
  /\ \A p \in Promise, v \in Value : ThenableJob(p, v) \in GoodJob
  /\ \A x \in AsyncFn : AwaitReaction(x) \in GoodReaction
  /\ \A r \in GoodReaction, b \in BOOLEAN, v \in Value :
        /\ JobOf(r, b, v) \in GoodJob
        /\ JobOf(r, b, v).kind = r.kind
        /\ JobOf(r, b, v).who = r.who
  /\ \A p \in Promise, v \in Thenable, w \in AsyncFn \cup {None} :
        [kind |-> "getter", who |-> p, arg |-> v, waiter |-> w] \in GoodFrame
  /\ \A k \in {"executor", "thencall", "handler"}, p \in Promise : Call(k, p) \in GoodFrame
  /\ \A x \in AsyncFn : Call("async", x) \in GoodFrame
  /\ Call("script", None) \in GoodFrame
  /\ Call("foreign", Foreign) \in GoodFrame
  /\ Call("handler", Foreign) \in GoodFrame
BY ValueAssumption DEF GoodReaction, Reaction, GoodJob, Job, GoodFrame, Frame, ThenableJob, AwaitReaction,
     JobOf, Call, Value, Capability

\* The promise p settles; w, if it is a function that awaits p, gets a job.
LEMMA SettleMoves ==
  ASSUME Types, NEW que \in Seq(GoodJob), NEW stk \in Seq(GoodFrame),
         NEW p \in Promise, NEW st \in {"fulfilled", "rejected"}, NEW v \in Value,
         NEW w \in AsyncFn \cup {None}, w # p,
         Settle(p, st, v, w, que), stack' = stk
  PROVE  /\ queue' \in Seq(GoodJob)
         /\ state' \in [Promise -> {"unborn", "pending", "fulfilled", "rejected"}]
         /\ result' \in [Promise -> Value]
         /\ reactions' \in [Promise -> Seq(GoodReaction)]
         /\ state'[p] = st /\ reactions'[p] = <<>>
         /\ \A q \in Promise \ {p} :
               /\ reactions'[q] = reactions[q] /\ result'[q] = result[q]
               /\ state'[q] = IF q = w /\ state[q] = "unborn" THEN "pending" ELSE state[q]
         /\ \A q \in Promise : KeepsRes(que, stk, q)
         /\ \A q \in Promise : Keeps(que, reactions, stk, queue', reactions', stack', CUS, q)
         /\ \A q \in Promise \ {w} : KeepsOthers(que, stk, q)
         /\ w # None /\ Absent(que, reactions, stk, AWAIT, w)
              => Sole(queue', reactions', stack', AWAIT, w)
<1> DEFINE jobs == [i \in 1 .. Len(reactions[p]) |-> JobOf(reactions[p][i], st = "rejected", v)]
           mid == que \o jobs
           last == JobOf(AwaitReaction(w), st = "rejected", v)
           rest == [reactions EXCEPT ![p] = <<>>]
<1>0. JobsOf(jobs, reactions[p])
  <2>1. reactions[p] \in Seq(GoodReaction) /\ Len(reactions[p]) \in Nat
    BY LenProperties DEF Types
  <2>2. \A i \in 1 .. Len(reactions[p]) : jobs[i].kind = reactions[p][i].kind /\ jobs[i].who = reactions[p][i].who
    BY DEF JobOf
  <2>3. ASSUME NEW i \in 1 .. Len(reactions[p])
        PROVE  jobs[i] \in GoodJob
    <3>1. reactions[p][i] \in GoodReaction
      BY <2>1, ElementOfSeq
    <3> QED
      BY <3>1 DEF GoodReaction, Reaction, GoodJob, Job, JobOf
  <2>4. jobs \in [1 .. Len(reactions[p]) -> GoodJob]
    BY <2>3
  <2>5. jobs \in Seq(GoodJob) /\ Len(jobs) = Len(reactions[p])
    <3> HIDE DEF jobs
    <3> QED
      BY <2>1, <2>4, FunctionIsSeq
  <2> QED
    BY <2>2, <2>5 DEF JobsOf
<1>2. reactions' = rest
  BY DEF Settle
<1>3. queue' = IF w = None THEN mid ELSE Append(mid, last)
  <2>1. queue' = mid \o (IF w = None THEN <<>> ELSE <<last>>)
    BY DEF Settle
  <2> HIDE DEF jobs, last
  <2>0. mid \in Seq(GoodJob)
    BY <1>0, ConcatProperties DEF JobsOf
  <2>2. CASE w = None
    BY <2>0, <2>1, <2>2, ConcatEmptySeq
  <2>3. CASE w # None
    <3>2. mid \o <<last>> = Append(mid, last)
      BY <2>0, AppendIsConcat
    <3> QED
      BY <2>1, <2>3, <3>2
  <2> QED
    BY <2>2, <2>3
<1>1. /\ mid \in Seq(GoodJob)
      /\ rest \in [Promise -> Seq(GoodReaction)]
      /\ \A K, q : Keeps(que, reactions, stk, mid, rest, stk, K, q)
  <2>1. reactions \in [Promise -> Seq(GoodReaction)]
    BY DEF Types
  <2> HIDE DEF jobs
  <2> QED
    BY <1>0, <2>1, SettleTokens
<1>4. w # None => last \in GoodJob /\ last.kind = "await" /\ last.who = w
  BY ValueAssumption DEF AwaitReaction, JobOf, GoodJob, Job, Capability
<1>5. /\ state' \in [Promise -> {"unborn", "pending", "fulfilled", "rejected"}]
      /\ state'[p] = st
      /\ \A q \in Promise \ {p} :
            state'[q] = IF q = w /\ state[q] = "unborn" THEN "pending" ELSE state[q]
  BY ValueAssumption DEF Settle, Born, Types
<1>6. /\ result' \in [Promise -> Value]
      /\ \A q \in Promise \ {p} : reactions'[q] = reactions[q] /\ result'[q] = result[q]
      /\ reactions'[p] = <<>>
  BY <1>2 DEF Settle, Types
<1> HIDE DEF mid, last, rest
<1>7. queue' \in Seq(GoodJob)
  BY <1>1, <1>3, <1>4, AppendProperties
<1>8. ASSUME NEW K, NEW q, ~("await" \in K /\ q = w)
      PROVE  Keeps(que, reactions, stk, queue', reactions', stack', K, q)
  <2>1. w # None => Keeps(mid, reactions', stk, Append(mid, last), reactions', stk, K, q)
    BY <1>1, <1>4, <1>8, EnqueueTokens
  <2> QED
    BY <1>1, <1>2, <1>3, <2>1 DEF Keeps
<1>9. w # None /\ Absent(que, reactions, stk, AWAIT, w) => Sole(queue', reactions', stack', AWAIT, w)
  <2>1. w # None => (Absent(mid, reactions', stk, AWAIT, w) => Sole(Append(mid, last), reactions', stk, AWAIT, w))
    BY <1>1, <1>4, EnqueueTokens DEF AWAIT
  <2> QED
    BY <1>1, <1>2, <1>3, <2>1 DEF Keeps
<1>10. "await" \notin RES /\ "await" \notin CUS
  BY DEF RES, CUS
<1>11. \A q \in Promise : KeepsRes(que, stk, q) /\ Keeps(que, reactions, stk, queue', reactions', stack', CUS, q)
  BY <1>8, <1>10 DEF KeepsRes
<1>12. \A q \in Promise \ {w} : KeepsOthers(que, stk, q)
  BY <1>8, <1>11 DEF KeepsOthers
<1>13. reactions' \in [Promise -> Seq(GoodReaction)]
  BY <1>1, <1>2
<1>14. \A q \in Promise \ {p} :
          /\ reactions'[q] = reactions[q] /\ result'[q] = result[q]
          /\ state'[q] = IF q = w /\ state[q] = "unborn" THEN "pending" ELSE state[q]
  BY <1>5, <1>6
<1> QED
  BY <1>5, <1>6, <1>7, <1>9, <1>11, <1>12, <1>13, <1>14

\* The promise p is resolved with v: it settles, or gets the one token that resolves it.
LEMMA FulfillMoves ==
  ASSUME Types, NEW que \in Seq(GoodJob), NEW stk \in Seq(GoodFrame),
         NEW p \in Promise, NEW v \in Value,
         FulfillPromise(p, v, stk, que) \/ RejectPromise(p, v, stk, que)
  PROVE  /\ queue' \in Seq(GoodJob)
         /\ stack' \in Seq(GoodFrame)
         /\ state' \in [Promise -> {"unborn", "pending", "fulfilled", "rejected"}]
         /\ result' \in [Promise -> Value]
         /\ reactions' \in [Promise -> Seq(GoodReaction)]
         /\ \A q \in Promise \ {p} : /\ reactions'[q] = reactions[q]
                                     /\ result'[q] = result[q]
                                     /\ state'[q] = state[q]
                                     /\ KeepsAll(que, stk, q)
         /\ KeepsOthers(que, stk, p)
         /\ \/ /\ state'[p] \in {"fulfilled", "rejected"}
               /\ reactions'[p] = <<>>
               /\ KeepsRes(que, stk, p)
            \/ /\ state'[p] = IF state[p] = "unborn" THEN "pending" ELSE state[p]
               /\ reactions'[p] = reactions[p]
               /\ result'[p] = result[p]
               /\ Absent(que, reactions, stk, RES, p) => Sole(queue', reactions', stack', RES, p)
<1>1. ASSUME NEW st \in {"fulfilled", "rejected"}, NEW u \in Value, Settle(p, st, u, None, que), stack' = stk
      PROVE  /\ queue' \in Seq(GoodJob)
             /\ state' \in [Promise -> {"unborn", "pending", "fulfilled", "rejected"}]
             /\ result' \in [Promise -> Value]
             /\ reactions' \in [Promise -> Seq(GoodReaction)]
             /\ state'[p] \in {"fulfilled", "rejected"} /\ reactions'[p] = <<>>
             /\ \A q \in Promise \ {p} : /\ reactions'[q] = reactions[q]
                                         /\ result'[q] = result[q]
                                         /\ state'[q] = state[q]
             /\ \A q \in Promise : KeepsAll(que, stk, q)
  <2>1. None # p /\ None \in AsyncFn \cup {None} /\ None \notin Promise
    BY ValueAssumption
  <2> QED
    BY <1>1, <2>1, SettleMoves DEF KeepsAll
<1>2. CASE stack' = stk /\ \E st \in {"fulfilled", "rejected"}, u \in Value : Settle(p, st, u, None, que)
  BY <1>1, <1>2 DEF KeepsAll
<1>3. CASE v \in Promise \ {p} /\ state' = Born(p) /\ queue' = Append(que, ThenableJob(p, v)) /\ stack' = stk
           /\ UNCHANGED <<result, reactions>>
  <2>1. ThenableJob(p, v) \in GoodJob /\ ThenableJob(p, v).kind = "thenable" /\ ThenableJob(p, v).who = p
    BY <1>3, ElementTypes DEF ThenableJob
  <2>2. \A K, q : IF "thenable" \in K /\ p = q
                  THEN Absent(que, reactions, stk, K, q) => Sole(queue', reactions', stack', K, q)
                  ELSE Keeps(que, reactions, stk, queue', reactions', stack', K, q)
    BY <1>3, <2>1, EnqueueTokens
  <2>3. queue' \in Seq(GoodJob)
    BY <1>3, <2>1, AppendProperties
  <2>4. \A q \in Promise : KeepsOthers(que, stk, q)
    BY <1>3, <2>2 DEF KeepsOthers, CUS, AWAIT
  <2>5. \A q \in Promise \ {p} : KeepsRes(que, stk, q)
    BY <2>2 DEF KeepsRes
  <2>6. Absent(que, reactions, stk, RES, p) => Sole(queue', reactions', stack', RES, p)
    BY <2>2 DEF RES
  <2>7. /\ state' \in [Promise -> {"unborn", "pending", "fulfilled", "rejected"}]
        /\ state'[p] = IF state[p] = "unborn" THEN "pending" ELSE state[p]
        /\ \A q \in Promise \ {p} : state'[q] = state[q]
    BY <1>3, ValueAssumption DEF Born, Types
  <2> QED
    BY <1>3, <2>3, <2>4, <2>5, <2>6, <2>7 DEF KeepsAll, Types
<1>4. CASE /\ v \in Thenable /\ state' = Born(p)
           /\ stack' = <<[kind |-> "getter", who |-> p, arg |-> v, waiter |-> None]>> \o stk
           /\ queue' = que
           /\ UNCHANGED <<result, reactions>>
  <2> DEFINE f == [kind |-> "getter", who |-> p, arg |-> v, waiter |-> None]
  <2>1. f \in GoodFrame /\ f.kind = "getter" /\ f.who = p /\ \A x \in Promise : ~Runs(f, x)
    BY <1>4, ElementTypes, ValueAssumption DEF Runs
  <2> HIDE DEF f
  <2>2. stack' = <<f>> \o stk
    BY <1>4 DEF f
  <2>3. \A K, q : IF "getter" \in K /\ p = q
                  THEN Absent(que, reactions, stk, K, q) => Sole(queue', reactions', stack', K, q)
                  ELSE Keeps(que, reactions, stk, queue', reactions', stack', K, q)
    BY <1>4, <2>1, <2>2, PushedTokens
  <2>4. stack' \in Seq(GoodFrame)
    BY <2>1, <2>2, PushTokens
  <2>5. \A q \in Promise : /\ Nowhere(stk, CODE, q) => Nowhere(stack', CODE, q)
                           /\ RunsNowhere(stk, q) => RunsNowhere(stack', q)
                           /\ RunsOnce(stk, q) => RunsOnce(stack', q)
    BY <2>1, <2>2, PushTokens DEF CODE
  <2>6. \A q \in Promise : KeepsOthers(que, stk, q)
    BY <2>3, <2>5 DEF KeepsOthers, CUS, AWAIT
  <2>7. \A q \in Promise \ {p} : KeepsRes(que, stk, q)
    BY <2>3 DEF KeepsRes
  <2>8. Absent(que, reactions, stk, RES, p) => Sole(queue', reactions', stack', RES, p)
    BY <2>3 DEF RES
  <2>9. /\ state' \in [Promise -> {"unborn", "pending", "fulfilled", "rejected"}]
        /\ state'[p] = IF state[p] = "unborn" THEN "pending" ELSE state[p]
        /\ \A q \in Promise \ {p} : state'[q] = state[q]
    BY <1>4, ValueAssumption DEF Born, Types
  <2> QED
    BY <1>4, <2>4, <2>6, <2>7, <2>8, <2>9 DEF KeepsAll, Types
<1> QED
  BY <1>2, <1>3, <1>4, ValueAssumption DEF FulfillPromise, RejectPromise, Value

-----------------------------------------------------------------------------
(* Steps that add one token, and calls and jobs that end.                  *)

\* A promise has no token of a sort, or one, and never both.
LEMMA NotBoth ==
  ASSUME NEW que, NEW rea, NEW stk, NEW K, NEW p
  PROVE  ~(Absent(que, rea, stk, K, p) /\ Sole(que, rea, stk, K, p))
BY DEF Absent, Sole, Nowhere, Once

\* One token of kind k that names x is added, and no other.
Adds(que, stk, k, x) ==
  \A K : \A q \in Promise :
    IF k \in K /\ x = q
    THEN Absent(que, reactions, stk, K, q) => Sole(queue', reactions', stack', K, q)
    ELSE Keeps(que, reactions, stk, queue', reactions', stack', K, q)

\* A settled promise stays without reactions.
StaysEmpty == \A q \in Promise : state[q] # "pending" /\ reactions[q] = <<>> => reactions'[q] = <<>>

\* Enqueuing a job adds one token.
LEMMA EnqueueMoves ==
  ASSUME NEW que \in Seq(GoodJob), NEW stk, NEW j \in GoodJob,
         queue' = Append(que, j), reactions' = reactions, stack' = stk
  PROVE  queue' \in Seq(GoodJob) /\ StaysEmpty /\ Adds(que, stk, j.kind, j.who)
BY EnqueueTokens, AppendProperties DEF Adds, StaysEmpty

\* Calling script code adds one token.
LEMMA PushMoves ==
  ASSUME NEW que, NEW stk \in Seq(GoodFrame), NEW f \in GoodFrame,
         queue' = que, reactions' = reactions, stack' = <<f>> \o stk
  PROVE  /\ stack' \in Seq(GoodFrame) /\ StaysEmpty /\ Adds(que, stk, f.kind, f.who)
         /\ \A q : /\ f.kind \notin CODE \/ f.who # q => (Nowhere(stk, CODE, q) => Nowhere(stack', CODE, q))
                   /\ IF Runs(f, q) THEN RunsNowhere(stk, q) => RunsOnce(stack', q)
                      ELSE /\ RunsNowhere(stk, q) => RunsNowhere(stack', q)
                           /\ RunsOnce(stk, q) => RunsOnce(stack', q)
<1>1. stack' \in Seq(GoodFrame) /\ StaysEmpty /\ Adds(que, stk, f.kind, f.who)
  BY PushedTokens, PushTokens DEF Adds, StaysEmpty
<1>2. \A q : f.kind \notin CODE \/ f.who # q => (Nowhere(stk, CODE, q) => Nowhere(stack', CODE, q))
  BY PushTokens
<1>3. \A q : IF Runs(f, q) THEN RunsNowhere(stk, q) => RunsOnce(stack', q)
             ELSE /\ RunsNowhere(stk, q) => RunsNowhere(stack', q)
                  /\ RunsOnce(stk, q) => RunsOnce(stack', q)
  BY PushTokens
<1> QED
  BY <1>1, <1>2, <1>3

\* React adds one token, on the promise while it is pending and to the queue after that.
LEMMA ReactMoves ==
  ASSUME Types, NEW que \in Seq(GoodJob), NEW stk, NEW p \in Promise, NEW r \in GoodReaction,
         React(p, r, que), stack' = stk
  PROVE  /\ queue' \in Seq(GoodJob)
         /\ reactions' \in [Promise -> Seq(GoodReaction)]
         /\ StaysEmpty
         /\ Adds(que, stk, r.kind, r.who)
<1>1. CASE state[p] = "pending"
  <2>1. reactions \in [Promise -> Seq(GoodReaction)]
    BY DEF Types
  <2>2. reactions' = [reactions EXCEPT ![p] = Append(@, r)] /\ queue' = que
    BY <1>1 DEF React
  <2>3. reactions' \in [Promise -> Seq(GoodReaction)] /\ StaysEmpty
    BY <1>1, <2>1, <2>2, AppendProperties DEF StaysEmpty
  <2>4. Adds(que, stk, r.kind, r.who)
    BY <2>1, <2>2, CollectTokens DEF Adds
  <2> QED
    BY <2>2, <2>3, <2>4
<1>2. CASE state[p] # "pending"
  <2> DEFINE j == JobOf(r, state[p] = "rejected", result[p])
  <2>1. queue' = Append(que, j) /\ reactions' = reactions
    BY <1>2 DEF React
  <2>2. j \in GoodJob /\ j.kind = r.kind /\ j.who = r.who
    BY DEF Types, GoodReaction, Reaction, GoodJob, Job, JobOf
  <2> HIDE DEF j
  <2>3. queue' \in Seq(GoodJob) /\ StaysEmpty /\ Adds(que, stk, r.kind, r.who)
    <3>1. queue' \in Seq(GoodJob) /\ StaysEmpty /\ Adds(que, stk, j.kind, j.who)
      BY <2>1, <2>2, EnqueueMoves
    <3> QED
      BY <2>2, <3>1
  <2> QED
    BY <2>1, <2>3 DEF Types
<1> QED
  BY <1>1, <1>2

\* A token that names x leaves a promise q alone, unless x is q.
LEMMA AddsKeeps ==
  ASSUME NEW que, NEW stk, NEW k, NEW x, Adds(que, stk, k, x), NEW q \in Promise
  PROVE  /\ x # q \/ k \notin RES => KeepsRes(que, stk, q)
         /\ x # q \/ k \notin CUS => Keeps(que, reactions, stk, queue', reactions', stack', CUS, q)
         /\ x # q \/ k \notin AWAIT => Keeps(que, reactions, stk, queue', reactions', stack', AWAIT, q)
         /\ x = q /\ k \in RES /\ Absent(que, reactions, stk, RES, q)
              => Sole(queue', reactions', stack', RES, q)
         /\ x = q /\ k \in CUS /\ Absent(que, reactions, stk, CUS, q)
              => Sole(queue', reactions', stack', CUS, q)
         /\ x = q /\ k \in AWAIT /\ Absent(que, reactions, stk, AWAIT, q)
              => Sole(queue', reactions', stack', AWAIT, q)
BY DEF Adds, KeepsRes

\* A promise is as good as before when a job or a call that does not name it ends.
LEMMA Survives ==
  ASSUME NEW q \in Promise, NEW que, NEW stk, NEW que2, NEW stk2,
         Good(que, stk, q),
         Keeps(que, reactions, stk, que2, reactions, stk2, RES, q),
         Keeps(que, reactions, stk, que2, reactions, stk2, CUS, q),
         Keeps(que, reactions, stk, que2, reactions, stk2, AWAIT, q),
         Nowhere(stk, CODE, q) => Nowhere(stk2, CODE, q),
         RunsNowhere(stk, q) => RunsNowhere(stk2, q),
         RunsOnce(stk, q) => RunsOnce(stk2, q)
  PROVE  Good(que2, stk2, q)
<1>1. Flags(que2, stk2, q)
  BY DEF Good, Flags, Keeps, Untouched
<1>2. q \in AsyncFn => Function(que2, stk2, q)
  BY DEF Good, Function, Keeps, Untouched
<1>3. Custody(que2, stk2, q)
  BY DEF Good, Custody, Keeps
<1> QED
  BY <1>1, <1>2, <1>3 DEF Good

\* The tokens and the function bodies that are left when the innermost call returns.
LEMMA Popped ==
  ASSUME NEW que, NEW stk \in Seq(GoodFrame), stk # <<>>
  PROVE  /\ Head(stk) \in GoodFrame /\ Tail(stk) \in Seq(GoodFrame)
         /\ \A K, q : IF Head(stk).kind \in K /\ Head(stk).who = q
                      THEN /\ ~Absent(que, reactions, stk, K, q)
                           /\ Sole(que, reactions, stk, K, q) => Absent(que, reactions, Tail(stk), K, q)
                      ELSE Keeps(que, reactions, stk, que, reactions, Tail(stk), K, q)
         /\ \A q : Nowhere(stk, CODE, q) => Nowhere(Tail(stk), CODE, q) /\ ~(Head(stk).kind \in CODE /\ Head(stk).who = q)
         /\ \A x : IF Runs(Head(stk), x)
                   THEN ~RunsNowhere(stk, x) /\ (RunsOnce(stk, x) => RunsNowhere(Tail(stk), x))
                   ELSE /\ RunsNowhere(stk, x) => RunsNowhere(Tail(stk), x)
                        /\ RunsOnce(stk, x) => RunsOnce(Tail(stk), x)
         /\ \A q \in Promise :
               /\ Good(que, stk, q)
               /\ Head(stk).kind \notin RES \cup CUS \/ Head(stk).who # q
               /\ ~Runs(Head(stk), q)
               => Good(que, Tail(stk), q)
<1>1. Head(stk) \in GoodFrame /\ Tail(stk) \in Seq(GoodFrame)
  BY PopTokens
<1>2. \A K, q : IF Head(stk).kind \in K /\ Head(stk).who = q
                THEN /\ ~Absent(que, reactions, stk, K, q)
                     /\ Sole(que, reactions, stk, K, q) => Absent(que, reactions, Tail(stk), K, q)
                ELSE Keeps(que, reactions, stk, que, reactions, Tail(stk), K, q)
  BY PoppedTokens
<1>3. \A q : Nowhere(stk, CODE, q) => Nowhere(Tail(stk), CODE, q) /\ ~(Head(stk).kind \in CODE /\ Head(stk).who = q)
  BY PopTokens
<1>4. \A x : IF Runs(Head(stk), x)
             THEN ~RunsNowhere(stk, x) /\ (RunsOnce(stk, x) => RunsNowhere(Tail(stk), x))
             ELSE /\ RunsNowhere(stk, x) => RunsNowhere(Tail(stk), x)
                  /\ RunsOnce(stk, x) => RunsOnce(Tail(stk), x)
  BY PopTokens
<1>5. ASSUME NEW q \in Promise, Good(que, stk, q), ~Runs(Head(stk), q),
             Head(stk).kind \notin RES \cup CUS \/ Head(stk).who # q
      PROVE  Good(que, Tail(stk), q)
  <2>1. Head(stk).kind # "await"
    BY <1>1 DEF GoodFrame, Frame
  <2>2. /\ Keeps(que, reactions, stk, que, reactions, Tail(stk), RES, q)
        /\ Keeps(que, reactions, stk, que, reactions, Tail(stk), CUS, q)
        /\ Keeps(que, reactions, stk, que, reactions, Tail(stk), AWAIT, q)
    BY <1>2, <1>5, <2>1 DEF AWAIT
  <2> QED
    BY <1>3, <1>4, <1>5, <2>2, Survives
<1> QED
  BY <1>1, <1>2, <1>3, <1>4, <1>5

\* The tokens that are left when the job at the head of the queue is unlinked.
LEMMA Dequeued ==
  ASSUME NEW que \in Seq(GoodJob), que # <<>>, NEW stk
  PROVE  /\ Head(que) \in GoodJob /\ Tail(que) \in Seq(GoodJob)
         /\ \A K, q : IF Head(que).kind \in K /\ Head(que).who = q
                      THEN /\ ~Absent(que, reactions, stk, K, q)
                           /\ Sole(que, reactions, stk, K, q) => Absent(Tail(que), reactions, stk, K, q)
                      ELSE Keeps(que, reactions, stk, Tail(que), reactions, stk, K, q)
         /\ \A q \in Promise : Good(que, stk, q) /\ Head(que).who # q => Good(Tail(que), stk, q)
<1>1. Head(que) \in GoodJob /\ Tail(que) \in Seq(GoodJob)
  BY PopTokens
<1>2. \A K, q : IF Head(que).kind \in K /\ Head(que).who = q
                THEN /\ ~Absent(que, reactions, stk, K, q)
                     /\ Sole(que, reactions, stk, K, q) => Absent(Tail(que), reactions, stk, K, q)
                ELSE Keeps(que, reactions, stk, Tail(que), reactions, stk, K, q)
  BY DequeueTokens
<1>3. ASSUME NEW q \in Promise, Good(que, stk, q), Head(que).who # q
      PROVE  Good(Tail(que), stk, q)
  BY <1>2, <1>3, Survives
<1> QED
  BY <1>1, <1>2, <1>3

-----------------------------------------------------------------------------
(* What the callers of the internal operations know.                       *)

\* The promise p may be resolved or rejected, once the token is gone that did it.
Ready(que, stk, p) ==
  /\ state[p] = "unborn" => ~already[p]
  /\ state[p] # "pending" => reactions[p] = <<>>
  /\ pairs[p] = <<>> => Nowhere(stk, CODE, p)
  /\ Absent(que, reactions, stk, RES, p) \/ Sole(que, reactions, stk, RES, p)
  /\ IF already[p]
     THEN /\ Absent(que, reactions, stk, RES, p) \/ state[p] = "pending"
          /\ state[p] = "pending" => Sole(que, reactions, stk, RES, p)
     ELSE ~Settled(p) /\ Absent(que, reactions, stk, RES, p)
  /\ p \in AsyncFn => /\ exec[p] = "done"
                      /\ Absent(que, reactions, stk, AWAIT, p)
                      /\ RunsNowhere(stk, p)
  /\ pairs[p] = <<>> /\ p \notin Settleable => Absent(que, reactions, stk, CUS, p) /\ ~already[p]

\* Scripts that hold resolvers, and the host, may do it.
LEMMA ReadyByRight ==
  ASSUME NEW p \in Promise, NEW que, NEW stk, Good(que, stk, p), pairs[p] # <<>> \/ p \in Settleable
  PROVE  Ready(que, stk, p)
<1>1. pairs[p] # <<>> \/ p \notin AsyncFn
  BY SettleableAssumption
<1> QED
  BY <1>1 DEF Good, Flags, Function, Untouched, Ready, Settled

\* So may the one who makes a promise.
LEMMA ReadyByBirth ==
  ASSUME NEW p \in Unborn, NEW que, NEW stk, Good(que, stk, p)
  PROVE  p \in Promise /\ ~already[p] /\ Ready(que, stk, p)
BY DEF Unborn, Good, Flags, Custody, Ready, Settled

\* So may a job, and a handler that ends: its token is gone.
LEMMA ReadyByToken ==
  ASSUME NEW p \in Promise, NEW que, NEW stk, Good(que, stk, p), NEW que2, NEW stk2,
         ~Absent(que, reactions, stk, CUS, p),
         Sole(que, reactions, stk, CUS, p) => Absent(que2, reactions, stk2, CUS, p),
         Keeps(que, reactions, stk, que2, reactions, stk2, RES, p),
         Keeps(que, reactions, stk, que2, reactions, stk2, AWAIT, p),
         Nowhere(stk, CODE, p) => Nowhere(stk2, CODE, p),
         RunsNowhere(stk, p) => RunsNowhere(stk2, p)
  PROVE  Ready(que2, stk2, p)
<1>1. ~Untouched(que, stk, p)
  BY DEF Untouched
<1>2. /\ state[p] = "unborn" => ~already[p]
      /\ state[p] # "pending" => reactions[p] = <<>>
      /\ pairs[p] = <<>> => Nowhere(stk2, CODE, p)
  BY DEF Good, Flags
<1>3. /\ Absent(que2, reactions, stk2, RES, p) \/ Sole(que2, reactions, stk2, RES, p)
      /\ IF already[p]
         THEN /\ Absent(que2, reactions, stk2, RES, p) \/ state[p] = "pending"
              /\ state[p] = "pending" => Sole(que2, reactions, stk2, RES, p)
         ELSE ~Settled(p) /\ Absent(que2, reactions, stk2, RES, p)
  BY <1>1 DEF Good, Flags, Keeps
<1>4. p \in AsyncFn => /\ exec[p] = "done"
                       /\ Absent(que2, reactions, stk2, AWAIT, p)
                       /\ RunsNowhere(stk2, p)
  BY <1>1 DEF Good, Function, Keeps
<1>5. pairs[p] = <<>> /\ p \notin Settleable => Absent(que2, reactions, stk2, CUS, p) /\ ~already[p]
  BY DEF Good, Custody
<1> QED
  BY <1>2, <1>3, <1>4, <1>5 DEF Ready

\* No settled promise changes.
Fixed == \A q \in Promise : Settled(q) => state'[q] = state[q] /\ result'[q] = result[q]

\* The promise variables after an operation.
PromiseTypes ==
  /\ state \in [Promise -> {"unborn", "pending", "fulfilled", "rejected"}]
  /\ already \in [Promise -> BOOLEAN]
  /\ result \in [Promise -> Value]
  /\ reactions \in [Promise -> Seq(GoodReaction)]
  /\ queue \in Seq(GoodJob)
  /\ stack \in Seq(GoodFrame)

\* Resolving or rejecting through the checks.
LEMMA ChecksGood ==
  ASSUME Types, NEW que \in Seq(GoodJob), NEW stk \in Seq(GoodFrame), NEW p \in Promise, NEW v \in Value,
         FulfillWithChecks(p, v, stk, que) \/ RejectWithChecks(p, v, stk, que),
         Ready(que, stk, p), \A q \in Promise \ {p} : Good(que, stk, q),
         \A q \in Promise : pairs'[q] = <<>> <=> pairs[q] = <<>>, exec' = exec
  PROVE  PromiseTypes' /\ Fixed /\ \A q \in Promise : Good(queue, stack, q)'
<1>1. CASE already[p]
  <2>1. stack' = stk /\ queue' = que /\ UNCHANGED promiseVars
    BY <1>1 DEF FulfillWithChecks, RejectWithChecks
  <2>2. PromiseTypes' /\ Fixed
    BY <2>1 DEF Types, PromiseTypes, Fixed, promiseVars
  <2>3. \A q \in Promise : KeepsAll(que, stk, q)
    BY <2>1 DEF KeepsAll, KeepsOthers, KeepsRes, Keeps, promiseVars
  <2>4. \A q \in Promise \ {p} : Good(queue, stack, q)'
    BY <2>1, <2>3, Unmoved DEF promiseVars
  <2>5. Flags(queue, stack, p)'
    BY <1>1, <2>1 DEF Ready, Flags, Settled, promiseVars
  <2>6. p \in AsyncFn => Function(queue, stack, p)'
    BY <1>1, <2>1 DEF Ready, Function, promiseVars
  <2>7. Custody(queue, stack, p)'
    BY <1>1, <2>1 DEF Ready, Custody, promiseVars
  <2> QED
    BY <2>2, <2>4, <2>5, <2>6, <2>7 DEF Good
<1>2. CASE ~already[p]
  <2>1. /\ already' = [already EXCEPT ![p] = TRUE]
        /\ FulfillPromise(p, v, stk, que) \/ RejectPromise(p, v, stk, que)
    BY <1>2 DEF FulfillWithChecks, RejectWithChecks
  <2>2. /\ queue' \in Seq(GoodJob)
        /\ stack' \in Seq(GoodFrame)
        /\ state' \in [Promise -> {"unborn", "pending", "fulfilled", "rejected"}]
        /\ result' \in [Promise -> Value]
        /\ reactions' \in [Promise -> Seq(GoodReaction)]
        /\ \A q \in Promise \ {p} : /\ reactions'[q] = reactions[q]
                                    /\ result'[q] = result[q]
                                    /\ state'[q] = state[q]
                                    /\ KeepsAll(que, stk, q)
        /\ KeepsOthers(que, stk, p)
        /\ \/ /\ state'[p] \in {"fulfilled", "rejected"}
              /\ reactions'[p] = <<>>
              /\ KeepsRes(que, stk, p)
           \/ /\ state'[p] = IF state[p] = "unborn" THEN "pending" ELSE state[p]
              /\ reactions'[p] = reactions[p]
              /\ result'[p] = result[p]
              /\ Absent(que, reactions, stk, RES, p) => Sole(queue', reactions', stack', RES, p)
    BY <2>1, FulfillMoves
  <2>3. already' \in [Promise -> BOOLEAN] /\ already'[p] /\ \A q \in Promise \ {p} : already'[q] = already[q]
    BY <2>1 DEF Types
  <2>4. PromiseTypes'
    BY <2>2, <2>3 DEF PromiseTypes
  <2>5. Fixed
    BY <1>2, <2>2 DEF Fixed, Ready
  <2>6. \A q \in Promise \ {p} : Good(queue, stack, q)'
    BY <2>2, <2>3, Unmoved
  <2>7. /\ Absent(que, reactions, stk, RES, p)
        /\ state[p] \in {"unborn", "pending"}
    BY <1>2 DEF Ready, Settled, Types
  <2>8. \/ /\ state'[p] \in {"fulfilled", "rejected"}
           /\ reactions'[p] = <<>>
           /\ Absent(queue', reactions', stack', RES, p)
        \/ /\ state'[p] = "pending"
           /\ Sole(queue', reactions', stack', RES, p)
    BY <2>2, <2>7 DEF KeepsRes, Keeps
  <2>9. Flags(queue, stack, p)'
    BY <2>2, <2>3, <2>8 DEF Ready, Flags, KeepsOthers, Settled
  <2>10. p \in AsyncFn => Function(queue, stack, p)'
    BY <2>2 DEF Ready, Function, KeepsOthers, Keeps
  <2>11. Custody(queue, stack, p)'
    BY <2>2, <2>8 DEF Ready, Custody, KeepsOthers, Keeps
  <2> QED
    BY <2>4, <2>5, <2>6, <2>9, <2>10, <2>11 DEF Good
<1> QED
  BY <1>1, <1>2

\* The async function x, whose body has just left the stack.
Idle(que, stk, x) ==
  /\ state[x] \in {"unborn", "pending"}
  /\ ~already[x]
  /\ Untouched(que, stk, x)
  /\ Absent(que, reactions, stk, RES, x)
  /\ Absent(que, reactions, stk, AWAIT, x)
  /\ RunsNowhere(stk, x)
  /\ Nowhere(stk, CODE, x)
  /\ state[x] # "pending" => reactions[x] = <<>>

\* An async function that leaves the stack holds nothing else.
LEMMA LeavesStack ==
  ASSUME NEW que, NEW stk \in Seq(GoodFrame), stk # <<>>, NEW x \in AsyncFn, x \in Promise,
         Good(que, stk, x), Runs(Head(stk), x)
  PROVE  exec[x] = "running" /\ Idle(que, Tail(stk), x)
<1>1. ~RunsNowhere(stk, x) /\ (RunsOnce(stk, x) => RunsNowhere(Tail(stk), x))
  BY Popped
<1>2. exec[x] = "running" /\ RunsNowhere(Tail(stk), x)
  BY <1>1 DEF Good, Function
<1>3. /\ state[x] \in {"unborn", "pending"} /\ ~already[x]
      /\ Untouched(que, stk, x)
      /\ Absent(que, reactions, stk, RES, x)
      /\ Absent(que, reactions, stk, AWAIT, x)
      /\ state[x] # "pending" => reactions[x] = <<>>
      /\ Nowhere(stk, CODE, x)
  BY <1>2 DEF Good, Function, Flags, Untouched
<1>4. Nowhere(Tail(stk), CODE, x)
  BY <1>3, Popped
<1>5. \A K : Absent(que, reactions, stk, K, x) => Absent(que, reactions, Tail(stk), K, x)
  BY Popped DEF Keeps
<1> QED
  BY <1>2, <1>3, <1>4, <1>5 DEF Idle, Untouched

\* An await: one token will resume x.
LEMMA SuspendedGood ==
  ASSUME NEW x \in AsyncFn, NEW que, NEW stk, Idle(que, stk, x),
         exec'[x] = "awaiting", state'[x] = "pending", already'[x] = already[x], pairs'[x] = pairs[x],
         KeepsRes(que, stk, x), Keeps(que, reactions, stk, queue', reactions', stack', CUS, x),
         Sole(queue', reactions', stack', AWAIT, x),
         Nowhere(stk, CODE, x) => Nowhere(stack', CODE, x),
         RunsNowhere(stk, x) => RunsNowhere(stack', x)
  PROVE  Good(queue, stack, x)'
<1>1. Untouched(queue, stack, x)' /\ Absent(queue', reactions', stack', RES, x)
  BY DEF Idle, Untouched, KeepsRes, Keeps
<1>2. Flags(queue, stack, x)'
  BY <1>1 DEF Idle, Flags, Settled
<1>3. Function(queue, stack, x)'
  BY <1>1 DEF Idle, Function
<1>4. Custody(queue, stack, x)'
  BY <1>1 DEF Untouched, Custody
<1> QED
  BY <1>2, <1>3, <1>4 DEF Good

-----------------------------------------------------------------------------
(* The actions.  Each keeps the invariant and changes no settled promise.  *)

\* The variables that the internal operations leave alone.
OtherTypes ==
  /\ pairs \in [Promise -> Seq(BOOLEAN)]
  /\ hidden \subseteq Promise
  /\ exec \in [AsyncFn -> {"idle", "running", "awaiting", "done"}]
  /\ draining \in BOOLEAN
  /\ calls \in 0 .. MaxCalls

\* The invariant from its parts.
LEMMA Assemble == PromiseTypes' /\ OtherTypes' /\ (\A q \in Promise : Good(queue, stack, q)') => IInv'
BY DEF PromiseTypes, OtherTypes, IInv, Types

\* The number of operations stays within its bound.
LEMMA CallCounted ==
  ASSUME IInv, ScriptCalls \/ HostCalls
  PROVE  calls' \in 0 .. MaxCalls
BY ValueAssumption DEF IInv, Types, ScriptCalls, HostCalls

\* The script only knows values that exist.
LEMMA KnownValues == Known \subseteq Value /\ Promise \cap Known \subseteq {p \in Promise : state[p] # "unborn"}
BY ValueAssumption DEF Known, Value

\* A call of a resolver of the script keeps the invariant (ecma_promise_resolve_handler).
LEMMA CallStep ==
  ASSUME IInv, NEW p \in Promise, NEW i \in DOMAIN pairs[p], NEW v \in Value,
         CallResolve(p, i, v) \/ CallReject(p, i, v)
  PROVE  IInv' /\ Fixed
<1>1. /\ pairs' = [pairs EXCEPT ![p][i] = TRUE]
      /\ FulfillWithChecks(p, v, stack, queue) \/ (v \in Plain /\ RejectWithChecks(p, v, stack, queue))
      /\ UNCHANGED <<hidden, exec, draining>>
  BY DEF CallResolve, CallReject
<1>2. calls' \in 0 .. MaxCalls
  BY CallCounted DEF CallResolve, CallReject
<1>3. /\ pairs' \in [Promise -> Seq(BOOLEAN)]
      /\ \A q \in Promise : pairs'[q] = <<>> <=> pairs[q] = <<>>
      /\ pairs[p] # <<>>
  <2>1. pairs \in [Promise -> Seq(BOOLEAN)] /\ pairs[p] \in Seq(BOOLEAN)
    BY DEF IInv, Types
  <2>2. i \in 1 .. Len(pairs[p]) /\ Len(pairs[p]) \in Nat
    BY <2>1, LenProperties
  <2>3. /\ [pairs[p] EXCEPT ![i] = TRUE] \in Seq(BOOLEAN)
        /\ Len([pairs[p] EXCEPT ![i] = TRUE]) = Len(pairs[p])
    BY <2>1, <2>2, ExceptSeq
  <2>4. [pairs[p] EXCEPT ![i] = TRUE] # <<>> /\ pairs[p] # <<>>
    BY <2>2, <2>3
  <2>5. pairs' = [pairs EXCEPT ![p] = [pairs[p] EXCEPT ![i] = TRUE]]
    BY <1>1, <2>1
  <2> QED
    BY <2>1, <2>3, <2>4, <2>5
<1>4. Ready(queue, stack, p)
  BY <1>3, ReadyByRight DEF IInv
<1>5. PromiseTypes' /\ Fixed /\ \A q \in Promise : Good(queue, stack, q)'
  BY <1>1, <1>3, <1>4, ChecksGood DEF IInv
<1>6. OtherTypes'
  BY <1>1, <1>2, <1>3 DEF OtherTypes, IInv, Types
<1> QED
  BY <1>5, <1>6, Assemble

\* jerry_promise_resolve and jerry_promise_reject keep the invariant.
LEMMA HostCallStep ==
  ASSUME IInv, NEW p \in Promise, NEW v \in Value, HostResolve(p, v) \/ (v \in Plain /\ HostReject(p, v))
  PROVE  IInv' /\ Fixed
<1>1. /\ p \in Settleable
      /\ FulfillWithChecks(p, v, stack, queue) \/ (v \in Plain /\ RejectWithChecks(p, v, stack, queue))
      /\ UNCHANGED <<pairs, hidden, exec, draining>>
  BY DEF HostResolve, HostReject
<1>2. calls' \in 0 .. MaxCalls
  BY CallCounted DEF HostResolve, HostReject
<1>4. Ready(queue, stack, p)
  BY <1>1, ReadyByRight DEF IInv
<1>5. PromiseTypes' /\ Fixed /\ \A q \in Promise : Good(queue, stack, q)'
  BY <1>1, <1>4, ChecksGood DEF IInv
<1>6. OtherTypes'
  BY <1>1, <1>2 DEF OtherTypes, IInv, Types
<1> QED
  BY <1>5, <1>6, Assemble

\* Promise.resolve and Promise.reject keep the invariant.
LEMMA ResolveStep ==
  ASSUME IInv, NEW p \in Promise, NEW v \in Value, PromiseResolve(p, v) \/ (v \in Plain /\ PromiseReject(p, v))
  PROVE  IInv' /\ Fixed
<1>1. /\ p \in Unborn
      /\ already' = [already EXCEPT ![p] = TRUE]
      /\ FulfillPromise(p, v, stack, queue) \/ (v \in Plain /\ RejectPromise(p, v, stack, queue))
      /\ UNCHANGED <<pairs, hidden, exec, draining>>
  BY DEF PromiseResolve, PromiseReject
<1>2. calls' \in 0 .. MaxCalls
  BY CallCounted DEF PromiseResolve, PromiseReject
<1>3. ~already[p] /\ Ready(queue, stack, p)
  BY <1>1, ReadyByBirth DEF IInv
<1>4. FulfillWithChecks(p, v, stack, queue) \/ (v \in Plain /\ RejectWithChecks(p, v, stack, queue))
  BY <1>1, <1>3 DEF FulfillWithChecks, RejectWithChecks
<1>5. PromiseTypes' /\ Fixed /\ \A q \in Promise : Good(queue, stack, q)'
  BY <1>1, <1>3, <1>4, ChecksGood DEF IInv
<1>6. OtherTypes'
  BY <1>1, <1>2 DEF OtherTypes, IInv, Types
<1> QED
  BY <1>5, <1>6, Assemble

\* An executor or a thenable throws.
LEMMA ResolverThrowStep ==
  ASSUME IInv, NEW e \in Plain, ResolverThrow(e)
  PROVE  IInv' /\ Fixed
<1> DEFINE p == Head(stack).who
<1>1. /\ stack # <<>> /\ Head(stack).kind \in CODE
      /\ RejectWithChecks(p, e, Tail(stack), queue)
      /\ UNCHANGED <<pairs, hidden, exec, draining, calls>>
  BY DEF ResolverThrow, Running, Top, CODE
<1>2. stack \in Seq(GoodFrame) /\ queue \in Seq(GoodJob) /\ Types /\ \A q \in Promise : Good(queue, stack, q)
  BY DEF IInv
<1>3. Head(stack) \in GoodFrame /\ Tail(stack) \in Seq(GoodFrame)
  BY <1>1, <1>2, Popped
<1>4. p \in Promise
  BY <1>1, <1>3 DEF GoodFrame, CODE
<1>5. pairs[p] # <<>>
  <2>1. ~Nowhere(stack, CODE, p)
    BY <1>1, <1>2, Popped
  <2> QED
    BY <1>2, <1>4, <2>1 DEF Good, Flags
<1>6. \A q \in Promise : Good(queue, Tail(stack), q)
  <2>1. Head(stack).kind \notin RES \cup CUS /\ \A q \in Promise : ~Runs(Head(stack), q)
    BY <1>1, <1>3, ValueAssumption DEF RES, CUS, CODE, GoodFrame, Runs
  <2> QED
    BY <1>1, <1>2, <2>1, Popped
<1>7. Ready(queue, Tail(stack), p)
  BY <1>4, <1>5, <1>6, ReadyByRight
<1> HIDE DEF p
<1>8. PromiseTypes' /\ Fixed /\ \A q \in Promise : Good(queue, stack, q)'
  BY <1>1, <1>2, <1>3, <1>4, <1>6, <1>7, ChecksGood DEF Value
<1>9. OtherTypes'
  BY <1>1 DEF OtherTypes, IInv, Types
<1> QED
  BY <1>8, <1>9, Assemble

\* A call of script code that nothing depends on begins or ends, or both.
LEMMA QuietStep ==
  ASSUME IInv, NEW stk \in Seq(GoodFrame), stack' \in Seq(GoodFrame), queue' \in Seq(GoodJob), OtherTypes',
         UNCHANGED <<promiseVars, pairs, exec>>,
         \A q \in Promise : KeepsAll(queue, stack, q)
  PROVE  IInv' /\ Fixed
<1>1. PromiseTypes' /\ Fixed
  BY DEF PromiseTypes, Fixed, IInv, Types, promiseVars
<1>2. ASSUME NEW q \in Promise PROVE Good(queue, stack, q)'
  BY Unmoved DEF IInv, promiseVars
<1> QED
  BY <1>1, <1>2, Assemble

\* The call on top of the stack ends, and perhaps another one begins.
LEMMA ReplaceKeeps ==
  ASSUME NEW stk \in Seq(GoodFrame), stk # <<>>, NEW que, NEW f \in GoodFrame,
         queue' = que, reactions' = reactions, stack' = Tail(stk) \/ stack' = <<f>> \o Tail(stk),
         Head(stk).kind \notin RES \cup CUS \/ Head(stk).who \notin Promise,
         f.kind \notin RES \cup CUS \/ f.who \notin Promise, f.kind \notin CODE
  PROVE  /\ stack' \in Seq(GoodFrame)
         /\ \A q \in Promise : ~Runs(Head(stk), q) /\ ~Runs(f, q) => KeepsAll(que, stk, q)
<1> USE DEF KeepsAll, KeepsOthers, KeepsRes, Keeps
<1>1. /\ Head(stk) \in GoodFrame /\ Tail(stk) \in Seq(GoodFrame)
      /\ \A K, q : ~(Head(stk).kind \in K /\ Head(stk).who = q)
                     => Keeps(que, reactions, stk, que, reactions, Tail(stk), K, q)
      /\ \A q : Nowhere(stk, CODE, q) => Nowhere(Tail(stk), CODE, q)
      /\ \A x : ~Runs(Head(stk), x) => /\ RunsNowhere(stk, x) => RunsNowhere(Tail(stk), x)
                                       /\ RunsOnce(stk, x) => RunsOnce(Tail(stk), x)
  BY Popped
<1>2. Head(stk).kind \notin AWAIT /\ f.kind \notin AWAIT
  BY <1>1 DEF AWAIT, GoodFrame, Frame
<1>3. \A q \in Promise : /\ Keeps(que, reactions, stk, que, reactions, Tail(stk), RES, q)
                         /\ Keeps(que, reactions, stk, que, reactions, Tail(stk), CUS, q)
                         /\ Keeps(que, reactions, stk, que, reactions, Tail(stk), AWAIT, q)
  BY <1>1, <1>2
<1>4. CASE stack' = Tail(stk)
  BY <1>1, <1>3, <1>4
<1>5. CASE stack' = <<f>> \o Tail(stk)
  <2>1. /\ stack' \in Seq(GoodFrame) /\ Adds(que, Tail(stk), f.kind, f.who)
        /\ \A q : /\ f.kind \notin CODE \/ f.who # q => (Nowhere(Tail(stk), CODE, q) => Nowhere(stack', CODE, q))
                  /\ ~Runs(f, q) => /\ RunsNowhere(Tail(stk), q) => RunsNowhere(stack', q)
                                    /\ RunsOnce(Tail(stk), q) => RunsOnce(stack', q)
    BY <1>1, <1>5, PushMoves
  <2>2. \A q \in Promise : /\ KeepsRes(que, Tail(stk), q)
                           /\ Keeps(que, reactions, Tail(stk), queue', reactions', stack', CUS, q)
                           /\ Keeps(que, reactions, Tail(stk), queue', reactions', stack', AWAIT, q)
    BY <1>2, <2>1, AddsKeeps
  <2> QED
    BY <1>1, <1>3, <2>1, <2>2
<1> QED
  BY <1>4, <1>5

\* A script, an executor, a thenable or a foreign capability returns; a foreign
\* capability throws, or is called by a handler that ends.
LEMMA ReturnStep1 ==
  ASSUME IInv, stack # <<>>, stack' = Tail(stack) \/ stack' = <<Call("foreign", Foreign)>> \o Tail(stack),
         Head(stack).kind \in {"script", "executor", "thencall", "foreign"}
           \/ (Head(stack).kind = "handler" /\ Head(stack).who = Foreign),
         UNCHANGED <<promiseVars, pairs, hidden, exec, queue, calls>>, draining' \in BOOLEAN
  PROVE  IInv' /\ Fixed
<1> DEFINE f == Call("foreign", Foreign)
<1>1. f \in GoodFrame /\ f.kind = "foreign" /\ \A q \in Promise : ~Runs(f, q)
  BY ElementTypes, ValueAssumption DEF Call, Runs
<1> HIDE DEF f
<1>2. stack \in Seq(GoodFrame) /\ queue \in Seq(GoodJob) /\ Types
  BY DEF IInv
<1>3. Head(stack) \in GoodFrame
  BY <1>2, Popped
<1>4. \A q \in Promise : ~Runs(Head(stack), q)
  BY <1>3, ValueAssumption DEF GoodFrame, Runs
<1>5. Head(stack).kind \notin RES \cup CUS \/ Head(stack).who \notin Promise
  BY ValueAssumption DEF RES, CUS
<1>6. f.kind \notin RES \cup CUS /\ f.kind \notin CODE
  BY <1>1 DEF RES, CUS, CODE
<1>7. reactions' = reactions /\ queue' = queue
  BY DEF promiseVars
<1>8. stack' = Tail(stack) \/ stack' = <<f>> \o Tail(stack)
  BY DEF f
<1>9. stack' \in Seq(GoodFrame) /\ \A q \in Promise : KeepsAll(queue, stack, q)
  BY <1>1, <1>2, <1>4, <1>5, <1>6, <1>7, <1>8, ReplaceKeeps
<1>10. OtherTypes'
  BY DEF OtherTypes, IInv, Types
<1> QED
  BY <1>2, <1>7, <1>9, <1>10, QuietStep

\* A handler returns or throws.
LEMMA HandlerStep ==
  ASSUME IInv, NEW v \in Value, HandlerReturn(v) \/ (v \in Plain /\ HandlerThrow(v))
  PROVE  IInv' /\ Fixed
<1> DEFINE p == Head(stack).who
<1>1. /\ stack # <<>> /\ Head(stack).kind = "handler"
      /\ UNCHANGED <<pairs, hidden, exec, draining, calls>>
      /\ IF p = Foreign
         THEN stack' = <<Call("foreign", Foreign)>> \o Tail(stack) /\ UNCHANGED <<promiseVars, queue>>
         ELSE \/ FulfillWithChecks(p, v, Tail(stack), queue)
              \/ v \in Plain /\ RejectWithChecks(p, v, Tail(stack), queue)
  BY DEF HandlerReturn, HandlerThrow, Running, Top
<1>2. stack \in Seq(GoodFrame) /\ queue \in Seq(GoodJob) /\ Types /\ \A q \in Promise : Good(queue, stack, q)
  BY DEF IInv
<1>3. Head(stack) \in GoodFrame /\ Tail(stack) \in Seq(GoodFrame)
  BY <1>1, <1>2, Popped
<1>4. CASE p = Foreign
  <2>1. draining' \in BOOLEAN
    BY <1>1, <1>2 DEF Types
  <2> QED
    BY <1>1, <1>4, <2>1, ReturnStep1
<1>5. CASE p # Foreign
  <2>1. p \in Promise
    BY <1>1, <1>3, <1>5 DEF GoodFrame, Capability
  <2>2. \A q : ~Runs(Head(stack), q) \/ q = None
    BY <1>1, <1>3 DEF GoodFrame, Runs
  <2>3. /\ ~Absent(queue, reactions, stack, CUS, p)
        /\ Sole(queue, reactions, stack, CUS, p) => Absent(queue, reactions, Tail(stack), CUS, p)
        /\ Keeps(queue, reactions, stack, queue, reactions, Tail(stack), RES, p)
        /\ Keeps(queue, reactions, stack, queue, reactions, Tail(stack), AWAIT, p)
        /\ Nowhere(stack, CODE, p) => Nowhere(Tail(stack), CODE, p)
        /\ RunsNowhere(stack, p) => RunsNowhere(Tail(stack), p)
    <3>1. Head(stack).kind \in CUS /\ Head(stack).kind \notin RES /\ Head(stack).kind \notin AWAIT
      BY <1>1 DEF CUS, RES, AWAIT
    <3>2. p # None
      BY <2>1, ValueAssumption
    <3> QED
      BY <1>1, <1>2, <2>2, <3>1, <3>2, Popped
  <2>4. Ready(queue, Tail(stack), p)
    BY <1>2, <2>1, <2>3, ReadyByToken
  <2>5. \A q \in Promise \ {p} : Good(queue, Tail(stack), q)
    BY <1>1, <1>2, <2>2, Popped, ValueAssumption
  <2> HIDE DEF p
  <2>6. PromiseTypes' /\ Fixed /\ \A q \in Promise : Good(queue, stack, q)'
    BY <1>1, <1>2, <1>3, <1>5, <2>1, <2>4, <2>5, ChecksGood
  <2>7. OtherTypes'
    BY <1>1, <1>2 DEF OtherTypes, Types
  <2> QED
    BY <2>6, <2>7, Assemble
<1> QED
  BY <1>4, <1>5

\* A job hands the outcome of a promise on to the capability it names.
LEMMA CustodyJobStep ==
  ASSUME IInv, queue # <<>>, Head(queue).kind \in CUS, Head(queue).who \in Promise,
         \/ FulfillWithChecks(Head(queue).who, Head(queue).arg, stack, Tail(queue))
         \/ RejectWithChecks(Head(queue).who, Head(queue).arg, stack, Tail(queue)),
         UNCHANGED <<pairs, hidden, exec, draining, calls>>
  PROVE  IInv' /\ Fixed
<1> DEFINE p == Head(queue).who
           v == Head(queue).arg
<1>1. stack \in Seq(GoodFrame) /\ queue \in Seq(GoodJob) /\ Types /\ \A q \in Promise : Good(queue, stack, q)
  BY DEF IInv
<1>2. Head(queue) \in GoodJob /\ Tail(queue) \in Seq(GoodJob) /\ v \in Value
  BY <1>1, Dequeued DEF GoodJob, Job
<1>3. Ready(Tail(queue), stack, p)
  <2>1. Head(queue).kind \notin RES /\ Head(queue).kind \notin AWAIT
    BY DEF CUS, RES, AWAIT
  <2>2. /\ ~Absent(queue, reactions, stack, CUS, p)
        /\ Sole(queue, reactions, stack, CUS, p) => Absent(Tail(queue), reactions, stack, CUS, p)
        /\ Keeps(queue, reactions, stack, Tail(queue), reactions, stack, RES, p)
        /\ Keeps(queue, reactions, stack, Tail(queue), reactions, stack, AWAIT, p)
    BY <1>1, <2>1, Dequeued
  <2> QED
    BY <1>1, <2>2, ReadyByToken
<1>4. \A q \in Promise \ {p} : Good(Tail(queue), stack, q)
  BY <1>1, Dequeued
<1>5. OtherTypes'
  BY <1>1 DEF OtherTypes, Types
<1>6. p \in Promise /\ (FulfillWithChecks(p, v, stack, Tail(queue)) \/ RejectWithChecks(p, v, stack, Tail(queue)))
  OBVIOUS
<1> HIDE DEF p, v
<1>7. PromiseTypes' /\ Fixed /\ \A q \in Promise : Good(queue, stack, q)'
  BY <1>1, <1>2, <1>3, <1>4, <1>6, ChecksGood
<1> QED
  BY <1>5, <1>7, Assemble

\* What is known when a job begins: no call is in progress.
LEMMA JobTurn ==
  ASSUME IInv, NEW k, Turn(k)
  PROVE  /\ stack = <<>> /\ queue # <<>> /\ Head(queue).kind = k /\ UNCHANGED <<hidden, draining, calls>>
         /\ stack \in Seq(GoodFrame) /\ queue \in Seq(GoodJob) /\ Types /\ \A q \in Promise : Good(queue, stack, q)
         /\ Head(queue) \in GoodJob /\ Tail(queue) \in Seq(GoodJob)
         /\ \A f \in GoodFrame : stack' = <<f>> => stack' = <<f>> \o stack
<1>1. /\ stack = <<>> /\ queue # <<>> /\ Head(queue).kind = k /\ UNCHANGED <<hidden, draining, calls>>
      /\ stack \in Seq(GoodFrame) /\ queue \in Seq(GoodJob) /\ Types /\ \A q \in Promise : Good(queue, stack, q)
  BY DEF IInv, Turn
<1>2. Head(queue) \in GoodJob /\ Tail(queue) \in Seq(GoodJob)
  BY <1>1, Dequeued
<1>3. ASSUME NEW f \in GoodFrame, stack' = <<f>>
      PROVE  stack' = <<f>> \o stack
  BY <1>1, <1>3, ConcatEmptySeq
<1> QED
  BY <1>1, <1>2, <1>3

\* A reaction job calls a handler, or a foreign capability.
LEMMA CallHandlerStep ==
  ASSUME IInv, Turn("then"), NEW f \in GoodFrame,
         f = Call("handler", Head(queue).who)
           \/ (Head(queue).who = Foreign /\ f = Call("foreign", Foreign)),
         stack' = <<f>>, queue' = Tail(queue), UNCHANGED <<promiseVars, pairs, exec>>
  PROVE  IInv' /\ Fixed
<1> DEFINE p == Head(queue).who
<1>1. /\ stack = <<>> /\ queue # <<>> /\ Head(queue).kind = "then" /\ UNCHANGED <<hidden, draining, calls>>
      /\ stack \in Seq(GoodFrame) /\ queue \in Seq(GoodJob) /\ Types
      /\ Head(queue) \in GoodJob /\ Tail(queue) \in Seq(GoodJob)
      /\ stack' = <<f>> \o stack
  BY JobTurn
<1>2. /\ p \in Capability /\ f.who = p
      /\ f.kind = "handler" \/ (f.kind = "foreign" /\ p = Foreign)
      /\ \A q \in Promise : ~Runs(f, q)
  BY <1>1, ValueAssumption DEF GoodJob, Job, Call, Runs
<1>3. reactions' = reactions
  BY DEF promiseVars
<1>4. /\ stack' \in Seq(GoodFrame) /\ Adds(Tail(queue), stack, f.kind, f.who)
      /\ \A q : /\ f.kind \notin CODE \/ f.who # q => (Nowhere(stack, CODE, q) => Nowhere(stack', CODE, q))
                /\ IF Runs(f, q) THEN RunsNowhere(stack, q) => RunsOnce(stack', q)
                   ELSE /\ RunsNowhere(stack, q) => RunsNowhere(stack', q)
                        /\ RunsOnce(stack, q) => RunsOnce(stack', q)
  BY <1>1, <1>3, PushMoves
<1>5. \A q \in Promise : /\ Nowhere(stack, CODE, q) => Nowhere(stack', CODE, q)
                         /\ RunsNowhere(stack, q) => RunsNowhere(stack', q)
                         /\ RunsOnce(stack, q) => RunsOnce(stack', q)
  BY <1>2, <1>4 DEF CODE
<1>6. \A q \in Promise : /\ KeepsRes(Tail(queue), stack, q)
                         /\ Keeps(Tail(queue), reactions, stack, queue', reactions', stack', AWAIT, q)
                         /\ f.who # q => Keeps(Tail(queue), reactions, stack, queue', reactions', stack', CUS, q)
                         /\ f.who = q /\ Absent(Tail(queue), reactions, stack, CUS, q)
                              => Sole(queue', reactions', stack', CUS, q)
  <2>1. f.kind \notin RES /\ f.kind \notin AWAIT
    BY <1>2 DEF RES, AWAIT
  <2>2. \A q \in Promise : f.who = q => f.kind \in CUS
    BY <1>2, ValueAssumption DEF CUS
  <2> QED
    BY <1>4, <2>1, <2>2, AddsKeeps
<1>7. \A q \in Promise : /\ Keeps(queue, reactions, stack, Tail(queue), reactions, stack, RES, q)
                         /\ Keeps(queue, reactions, stack, Tail(queue), reactions, stack, AWAIT, q)
                         /\ p # q => Keeps(queue, reactions, stack, Tail(queue), reactions, stack, CUS, q)
                         /\ p = q => /\ ~Absent(queue, reactions, stack, CUS, q)
                                     /\ Sole(queue, reactions, stack, CUS, q) => Absent(Tail(queue), reactions, stack, CUS, q)
  <2>1. Head(queue).kind \notin RES /\ Head(queue).kind \notin AWAIT /\ Head(queue).kind \in CUS
    BY <1>1 DEF RES, AWAIT, CUS
  <2> QED
    BY <1>1, <2>1, Dequeued
<1>8. \A q \in Promise : KeepsAll(queue, stack, q)
  BY <1>2, <1>5, <1>6, <1>7 DEF KeepsAll, KeepsOthers, KeepsRes, Keeps
<1>9. OtherTypes'
  BY <1>1 DEF OtherTypes, Types
<1> QED
  BY <1>1, <1>4, <1>8, <1>9, QuietStep

\* ecma_process_promise_reaction_job keeps the invariant.
LEMMA ReactionJobStep ==
  ASSUME IInv, ReactionJob
  PROVE  IInv' /\ Fixed
<1> DEFINE job == Head(queue)
<1>1. Turn("then") /\ UNCHANGED <<pairs, exec>>
  BY DEF ReactionJob
<1>2. /\ stack = <<>> /\ queue # <<>> /\ job.kind = "then" /\ UNCHANGED <<hidden, draining, calls>>
      /\ job \in GoodJob
  BY <1>1, JobTurn
<1>3. job.who \in Promise \/ job.who = Foreign
  BY <1>2 DEF GoodJob, Job, Capability
<1>4. CASE job.handler = "user"
  <2>1. stack' = <<Call("handler", job.who)>> /\ queue' = Tail(queue) /\ UNCHANGED promiseVars
    BY <1>4 DEF ReactionJob
  <2>2. Call("handler", job.who) \in GoodFrame
    BY <1>3, ElementTypes
  <2> QED
    BY <1>1, <2>1, <2>2, CallHandlerStep
<1>5. CASE job.handler # "user" /\ job.who = Foreign
  <2>1. stack' = <<Call("foreign", Foreign)>> /\ queue' = Tail(queue) /\ UNCHANGED promiseVars
    BY <1>5 DEF ReactionJob
  <2>2. Call("foreign", Foreign) \in GoodFrame
    BY ElementTypes
  <2> QED
    BY <1>1, <1>5, <2>1, <2>2, CallHandlerStep
<1>6. CASE job.handler # "user" /\ job.who # Foreign
  <2>1. \/ FulfillWithChecks(job.who, job.arg, <<>>, Tail(queue))
        \/ RejectWithChecks(job.who, job.arg, <<>>, Tail(queue))
    BY <1>6 DEF ReactionJob
  <2>2. job.who \in Promise /\ job.kind \in CUS
    BY <1>2, <1>3, <1>6 DEF CUS
  <2>3. \/ FulfillWithChecks(job.who, job.arg, stack, Tail(queue))
        \/ RejectWithChecks(job.who, job.arg, stack, Tail(queue))
    BY <1>2, <2>1
  <2> QED
    BY <1>1, <1>2, <2>2, <2>3, CustodyJobStep
<1> QED
  BY <1>4, <1>5, <1>6

\* The job that hands the outcome of a promise to the resolvers of another keeps it.
LEMMA AdoptJobStep ==
  ASSUME IInv, AdoptJob
  PROVE  IInv' /\ Fixed
<1> DEFINE job == Head(queue)
<1>1. /\ Turn("adopt") /\ UNCHANGED <<pairs, exec>>
      /\ \/ FulfillWithChecks(job.who, job.arg, <<>>, Tail(queue))
         \/ RejectWithChecks(job.who, job.arg, <<>>, Tail(queue))
  BY DEF AdoptJob
<1>2. /\ stack = <<>> /\ queue # <<>> /\ job.kind = "adopt" /\ UNCHANGED <<hidden, draining, calls>>
      /\ job \in GoodJob
  BY <1>1, JobTurn
<1>3. job.who \in Promise /\ job.kind \in CUS
  BY <1>2 DEF GoodJob, CUS
<1>4. \/ FulfillWithChecks(job.who, job.arg, stack, Tail(queue))
      \/ RejectWithChecks(job.who, job.arg, stack, Tail(queue))
  BY <1>1, <1>2
<1> QED
  BY <1>1, <1>2, <1>3, <1>4, CustodyJobStep

\* An async function goes on: the token that held it is gone.
LEMMA AsyncReactionJobStep ==
  ASSUME IInv, AsyncReactionJob
  PROVE  IInv' /\ Fixed
<1>0. PICK x : x = Head(queue).who
  OBVIOUS
<1> DEFINE f == Call("async", x)
<1>1. /\ Turn("await")
      /\ exec' = [exec EXCEPT ![x] = "running"]
      /\ stack' = <<f>>
      /\ queue' = Tail(queue)
      /\ UNCHANGED <<promiseVars, pairs>>
  BY <1>0 DEF AsyncReactionJob
<1>2. /\ stack = <<>> /\ queue # <<>> /\ Head(queue).kind = "await" /\ UNCHANGED <<hidden, draining, calls>>
      /\ stack \in Seq(GoodFrame) /\ queue \in Seq(GoodJob) /\ Types
      /\ \A q \in Promise : Good(queue, stack, q)
      /\ Head(queue) \in GoodJob /\ Tail(queue) \in Seq(GoodJob)
      /\ \A g \in GoodFrame : stack' = <<g>> => stack' = <<g>> \o stack
  BY <1>1, JobTurn
<1>3. x \in AsyncFn /\ x \in Promise
  BY <1>0, <1>2, ValueAssumption DEF GoodJob
<1>4. /\ f \in GoodFrame /\ f.kind = "async" /\ f.who = x
      /\ \A q \in Promise : Runs(f, q) <=> q = x
  BY <1>3, ElementTypes, ValueAssumption DEF Call, Runs
<1>5. ~Absent(queue, reactions, stack, AWAIT, x) /\ Head(queue).kind \notin RES \cup CUS /\ Head(queue).kind \in AWAIT
  BY <1>0, <1>2, Dequeued DEF AWAIT, RES, CUS
<1>6. exec[x] = "awaiting" /\ Sole(queue, reactions, stack, AWAIT, x) /\ RunsNowhere(stack, x)
  BY <1>2, <1>3, <1>5 DEF Good, Function
<1>7. Absent(Tail(queue), reactions, stack, AWAIT, x)
  BY <1>0, <1>2, <1>5, <1>6, Dequeued
<1>8. \A q : /\ Keeps(queue, reactions, stack, Tail(queue), reactions, stack, RES, q)
             /\ Keeps(queue, reactions, stack, Tail(queue), reactions, stack, CUS, q)
  BY <1>0, <1>2, <1>5, Dequeued
<1> HIDE DEF f
<1>9. reactions' = reactions /\ queue' = Tail(queue) /\ stack' = <<f>> \o stack
  BY <1>1, <1>2, <1>4 DEF promiseVars
<1>10. /\ stack' \in Seq(GoodFrame) /\ Adds(Tail(queue), stack, f.kind, f.who)
       /\ \A q : /\ f.kind \notin CODE \/ f.who # q => (Nowhere(stack, CODE, q) => Nowhere(stack', CODE, q))
                 /\ IF Runs(f, q) THEN RunsNowhere(stack, q) => RunsOnce(stack', q)
                    ELSE /\ RunsNowhere(stack, q) => RunsNowhere(stack', q)
                         /\ RunsOnce(stack, q) => RunsOnce(stack', q)
  BY <1>2, <1>4, <1>9, PushMoves
<1>11. \A q \in Promise :
          /\ KeepsRes(Tail(queue), stack, q)
          /\ Keeps(Tail(queue), reactions, stack, queue', reactions', stack', CUS, q)
          /\ Keeps(Tail(queue), reactions, stack, queue', reactions', stack', AWAIT, q)
          /\ Nowhere(stack, CODE, q) => Nowhere(stack', CODE, q)
  <2>1. f.kind \notin RES /\ f.kind \notin CUS /\ f.kind \notin AWAIT /\ f.kind \notin CODE
    BY <1>4 DEF RES, CUS, AWAIT, CODE
  <2> QED
    BY <1>10, <2>1, AddsKeeps
<1>12. ASSUME NEW q \in Promise \ {x}
       PROVE  Good(queue, stack, q)'
  <2>1. Good(Tail(queue), stack, q)
    BY <1>0, <1>2, Dequeued
  <2>2. KeepsAll(Tail(queue), stack, q)
    BY <1>4, <1>10, <1>11 DEF KeepsAll, KeepsOthers
  <2>3. q \in AsyncFn => exec'[q] = exec[q]
    BY <1>1, <1>2 DEF Types
  <2> QED
    BY <1>1, <2>1, <2>2, <2>3, Unmoved DEF promiseVars
<1>13. Good(queue, stack, x)'
  <2>1. exec'[x] = "running"
    BY <1>1, <1>2, <1>3 DEF Types
  <2>2. RunsOnce(stack', x)
    BY <1>3, <1>4, <1>6, <1>10
  <2>3. \A K : K = RES \/ K = CUS => Keeps(queue, reactions, stack, queue', reactions', stack', K, x)
    BY <1>3, <1>8, <1>11 DEF KeepsRes, Keeps
  <2>4. Absent(queue', reactions', stack', AWAIT, x)
    BY <1>3, <1>7, <1>11 DEF Keeps
  <2>5. state'[x] = state[x] /\ already'[x] = already[x] /\ pairs'[x] = pairs[x] /\ reactions' = reactions
    BY <1>1 DEF promiseVars
  <2>6. Nowhere(stack, CODE, x) => Nowhere(stack', CODE, x)
    BY <1>3, <1>11
  <2>7. Flags(queue, stack, x) /\ Function(queue, stack, x)
    BY <1>2, <1>3 DEF Good
  <2>8. /\ state[x] \in {"unborn", "pending"} /\ ~already[x] /\ Untouched(queue, stack, x)
        /\ Absent(queue, reactions, stack, RES, x)
    BY <1>6, <2>7 DEF Function
  <2>9. Untouched(queue, stack, x)' /\ Absent(queue', reactions', stack', RES, x)
    BY <2>3, <2>5, <2>8 DEF Untouched, Keeps
  <2>10. Flags(queue, stack, x)'
    BY <2>5, <2>6, <2>7, <2>8, <2>9 DEF Flags, Settled
  <2>11. Function(queue, stack, x)'
    BY <2>1, <2>2, <2>4, <2>5, <2>8, <2>9 DEF Function
  <2>12. Custody(queue, stack, x)'
    BY <1>3, <2>1, <2>9 DEF Custody, Untouched
  <2> QED
    BY <2>10, <2>11, <2>12 DEF Good
<1>14. PromiseTypes' /\ Fixed
  BY <1>1, <1>2, <1>10 DEF PromiseTypes, Fixed, Types, promiseVars
<1>15. OtherTypes'
  BY <1>1, <1>2 DEF OtherTypes, Types
<1> QED
  BY <1>12, <1>13, <1>14, <1>15, Assemble

\* A list of pairs with one more pair is not empty.
LEMMA AppendNotEmpty ==
  ASSUME NEW S, NEW s \in Seq(S), NEW e \in S
  PROVE  Append(s, e) \in Seq(S) /\ Append(s, e) # <<>>
<1>1. Append(s, e) \in Seq(S) /\ Len(Append(s, e)) = Len(s) + 1 /\ Len(s) \in Nat
  BY AppendProperties, LenProperties
<1> QED
  BY <1>1, EmptySeq

\* A promise is resolved with a thenable: whoever gets its new resolvers settles it.
LEMMA ResolveThenableJobStep ==
  ASSUME IInv, ResolveThenableJob
  PROVE  IInv' /\ Fixed
<1>0. PICK p, v : p = Head(queue).who /\ v = Head(queue).arg
  OBVIOUS
<1> DEFINE r == [kind |-> "adopt", who |-> p, ful |-> "identity", rej |-> "thrower"]
           f == Call("thencall", p)
<1>1. /\ Turn("thenable")
      /\ already' = [already EXCEPT ![p] = FALSE]
      /\ IF v \in Promise
         THEN React(v, r, Tail(queue)) /\ UNCHANGED <<pairs, stack>>
         ELSE /\ pairs' = [pairs EXCEPT ![p] = Append(@, FALSE)]
              /\ stack' = <<f>>
              /\ queue' = Tail(queue)
              /\ UNCHANGED reactions
      /\ UNCHANGED <<state, result, exec>>
  BY <1>0 DEF ResolveThenableJob
<1>2. /\ stack = <<>> /\ queue # <<>> /\ Head(queue).kind = "thenable" /\ UNCHANGED <<hidden, draining, calls>>
      /\ stack \in Seq(GoodFrame) /\ queue \in Seq(GoodJob) /\ Types
      /\ \A q \in Promise : Good(queue, stack, q)
      /\ Head(queue) \in GoodJob /\ Tail(queue) \in Seq(GoodJob)
      /\ \A g \in GoodFrame : stack' = <<g>> => stack' = <<g>> \o stack
  BY <1>1, JobTurn
<1>3. p \in Promise
  BY <1>0, <1>2 DEF GoodJob
<1>4. /\ Head(queue).kind \in RES /\ Head(queue).kind \notin CUS /\ Head(queue).kind \notin AWAIT
      /\ ~Absent(queue, reactions, stack, RES, p)
  BY <1>0, <1>2, Dequeued DEF RES, CUS, AWAIT
<1>5. /\ Sole(queue, reactions, stack, RES, p) /\ state[p] = "pending"
      /\ p \in AsyncFn => exec[p] = "done" /\ Function(queue, stack, p)
      /\ pairs[p] = <<>> /\ p \notin Settleable => Absent(queue, reactions, stack, CUS, p)
      /\ pairs[p] = <<>> => Nowhere(stack, CODE, p)
  BY <1>2, <1>3, <1>4 DEF Good, Flags, Function, Custody
<1>6. /\ Absent(Tail(queue), reactions, stack, RES, p)
      /\ Keeps(queue, reactions, stack, Tail(queue), reactions, stack, CUS, p)
      /\ Keeps(queue, reactions, stack, Tail(queue), reactions, stack, AWAIT, p)
  BY <1>0, <1>2, <1>3, <1>4, <1>5, Dequeued
<1>7. \A q \in Promise \ {p} : Good(Tail(queue), stack, q)
  BY <1>0, <1>2, Dequeued
<1>8. /\ already' \in [Promise -> BOOLEAN] /\ ~already'[p]
      /\ \A q \in Promise \ {p} : already'[q] = already[q]
  BY <1>1, <1>2, <1>3 DEF Types
<1>9. CASE v \in Promise
  <2>1. r \in GoodReaction /\ r.kind = "adopt" /\ r.who = p
    BY <1>3 DEF GoodReaction, Reaction, Capability
  <2> HIDE DEF r
  <2>2. /\ queue' \in Seq(GoodJob)
        /\ reactions' \in [Promise -> Seq(GoodReaction)]
        /\ StaysEmpty
        /\ Adds(Tail(queue), stack, "adopt", p)
    <3>1. React(v, r, Tail(queue)) /\ stack' = stack
      BY <1>1, <1>9
    <3> QED
      BY <1>2, <1>9, <2>1, <3>1, ReactMoves
  <2>3. \A q \in Promise :
           /\ KeepsRes(Tail(queue), stack, q)
           /\ Keeps(Tail(queue), reactions, stack, queue', reactions', stack', AWAIT, q)
           /\ q # p => Keeps(Tail(queue), reactions, stack, queue', reactions', stack', CUS, q)
           /\ q = p /\ Absent(Tail(queue), reactions, stack, CUS, q)
                => Sole(queue', reactions', stack', CUS, q)
    <3>1. "adopt" \in CUS /\ "adopt" \notin RES /\ "adopt" \notin AWAIT
      BY DEF CUS, RES, AWAIT
    <3> QED
      BY <2>2, <3>1, AddsKeeps
  <2>4. ASSUME NEW q \in Promise \ {p}
        PROVE  Good(queue, stack, q)'
    <3>1. KeepsAll(Tail(queue), stack, q)
      BY <1>1, <1>9, <2>3 DEF KeepsAll, KeepsOthers
    <3>2. state[q] # "pending" /\ reactions[q] = <<>> => reactions'[q] = <<>>
      BY <2>2 DEF StaysEmpty
    <3> QED
      BY <1>1, <1>7, <1>8, <1>9, <3>1, <3>2, Unmoved
  <2>5. Good(queue, stack, p)'
    <3>1. Absent(queue', reactions', stack', RES, p)
      BY <1>3, <1>6, <2>3 DEF KeepsRes, Keeps
    <3>2. state'[p] = "pending" /\ pairs' = pairs /\ stack' = stack /\ exec' = exec
      BY <1>1, <1>5, <1>9
    <3>3. Flags(queue, stack, p)'
      BY <1>5, <1>8, <3>1, <3>2 DEF Flags, Settled
    <3>4. p \in AsyncFn => Function(queue, stack, p)'
      BY <1>3, <1>5, <1>6, <2>3, <3>2 DEF Function, Keeps
    <3>5. Custody(queue, stack, p)'
      BY <1>3, <1>5, <1>6, <1>8, <2>3, <3>1, <3>2 DEF Custody, Keeps
    <3> QED
      BY <3>3, <3>4, <3>5 DEF Good
  <2>6. PromiseTypes' /\ Fixed
    BY <1>1, <1>2, <1>8, <1>9, <2>2 DEF PromiseTypes, Fixed, Types
  <2>7. OtherTypes'
    BY <1>1, <1>2, <1>9 DEF OtherTypes, Types
  <2> QED
    BY <2>4, <2>5, <2>6, <2>7, Assemble
<1>10. CASE v \notin Promise
  <2>1. f \in GoodFrame /\ f.kind = "thencall" /\ f.who = p /\ \A q \in Promise : ~Runs(f, q)
    BY <1>3, ElementTypes, ValueAssumption DEF Call, Runs
  <2> HIDE DEF f
  <2>2. stack' = <<f>> \o stack /\ queue' = Tail(queue) /\ reactions' = reactions
    BY <1>1, <1>2, <1>10, <2>1
  <2>3. /\ pairs' \in [Promise -> Seq(BOOLEAN)] /\ pairs'[p] # <<>>
        /\ \A q \in Promise \ {p} : pairs'[q] = pairs[q]
    <3>1. pairs \in [Promise -> Seq(BOOLEAN)] /\ pairs[p] \in Seq(BOOLEAN) /\ pairs' = [pairs EXCEPT ![p] = Append(@, FALSE)]
      BY <1>1, <1>2, <1>3, <1>10 DEF Types
    <3>2. Append(pairs[p], FALSE) \in Seq(BOOLEAN) /\ Append(pairs[p], FALSE) # <<>>
      BY <3>1, AppendNotEmpty
    <3> QED
      BY <1>3, <3>1, <3>2
  <2>4. /\ stack' \in Seq(GoodFrame) /\ Adds(Tail(queue), stack, f.kind, f.who)
        /\ \A q : /\ f.kind \notin CODE \/ f.who # q => (Nowhere(stack, CODE, q) => Nowhere(stack', CODE, q))
                  /\ IF Runs(f, q) THEN RunsNowhere(stack, q) => RunsOnce(stack', q)
                     ELSE /\ RunsNowhere(stack, q) => RunsNowhere(stack', q)
                          /\ RunsOnce(stack, q) => RunsOnce(stack', q)
    BY <1>2, <2>1, <2>2, PushMoves
  <2>5. \A q \in Promise :
           /\ KeepsRes(Tail(queue), stack, q)
           /\ Keeps(Tail(queue), reactions, stack, queue', reactions', stack', CUS, q)
           /\ Keeps(Tail(queue), reactions, stack, queue', reactions', stack', AWAIT, q)
    <3>1. f.kind \notin RES /\ f.kind \notin CUS /\ f.kind \notin AWAIT
      BY <2>1 DEF RES, CUS, AWAIT
    <3> QED
      BY <2>4, <3>1, AddsKeeps
  <2>6. ASSUME NEW q \in Promise \ {p}
        PROVE  Good(queue, stack, q)'
    <3>1. KeepsAll(Tail(queue), stack, q)
      BY <2>1, <2>4, <2>5 DEF KeepsAll, KeepsOthers
    <3> QED
      BY <1>1, <1>7, <1>8, <2>2, <2>3, <3>1, Unmoved
  <2>7. Good(queue, stack, p)'
    <3>1. Absent(queue', reactions', stack', RES, p)
      BY <1>3, <1>6, <2>5 DEF KeepsRes, Keeps
    <3>2. state'[p] = "pending" /\ exec' = exec
      BY <1>1, <1>5
    <3>3. Flags(queue, stack, p)'
      BY <1>8, <2>3, <3>1, <3>2 DEF Flags, Settled
    <3>4. p \in AsyncFn => Function(queue, stack, p)'
      BY <1>3, <1>5, <1>6, <2>1, <2>4, <2>5, <3>2 DEF Function, Keeps
    <3>5. Custody(queue, stack, p)'
      BY <2>3 DEF Custody
    <3> QED
      BY <3>3, <3>4, <3>5 DEF Good
  <2>8. PromiseTypes' /\ Fixed
    BY <1>1, <1>2, <1>8, <2>2, <2>4 DEF PromiseTypes, Fixed, Types
  <2>9. OtherTypes'
    BY <1>1, <1>2, <2>3 DEF OtherTypes, Types
  <2> QED
    BY <2>6, <2>7, <2>8, <2>9, Assemble
<1> QED
  BY <1>9, <1>10

\* The top of the stack while script code runs in the body of an async function.
LEMMA AsyncTop ==
  ASSUME IInv, Running("async")
  PROVE  /\ stack # <<>> /\ Tail(stack) \in Seq(GoodFrame)
         /\ Top.who \in AsyncFn /\ Top.who \in Promise
         /\ exec[Top.who] = "running"
         /\ Idle(queue, Tail(stack), Top.who)
         /\ \A q \in Promise : Runs(Top, q) <=> q = Top.who
         /\ \A q \in Promise \ {Top.who} : Good(queue, Tail(stack), q)
         /\ queue \in Seq(GoodJob) /\ stack \in Seq(GoodFrame) /\ Types
<1>1. /\ stack # <<>> /\ Top = Head(stack) /\ Top.kind = "async"
      /\ stack \in Seq(GoodFrame) /\ queue \in Seq(GoodJob) /\ Types
      /\ \A q \in Promise : Good(queue, stack, q)
  BY DEF IInv, Running, Top
<1>2. Tail(stack) \in Seq(GoodFrame) /\ Top \in GoodFrame
  BY <1>1, Popped
<1>3. Top.who \in AsyncFn /\ Top.who \in Promise
  BY <1>1, <1>2, ValueAssumption DEF GoodFrame
<1>4. \A q \in Promise : Runs(Top, q) <=> q = Top.who
  BY <1>1, <1>2, ValueAssumption DEF GoodFrame, Runs
<1>5. exec[Top.who] = "running" /\ Idle(queue, Tail(stack), Top.who)
  BY <1>1, <1>3, <1>4, LeavesStack
<1>6. \A q \in Promise \ {Top.who} : Good(queue, Tail(stack), q)
  BY <1>1, <1>4, Popped
<1> QED
  BY <1>1, <1>2, <1>3, <1>4, <1>5, <1>6

\* The body of an async function ends: nobody else settles its promise.
LEMMA EndStep ==
  ASSUME IInv, NEW v \in Value, AsyncReturn(v) \/ AsyncThrow(v)
  PROVE  IInv' /\ Fixed
<1>0. PICK x : x = Top.who
  OBVIOUS
<1>1. /\ Running("async")
      /\ FulfillPromise(x, v, Tail(stack), queue) \/ RejectPromise(x, v, Tail(stack), queue)
      /\ exec' = [exec EXCEPT ![x] = "done"]
      /\ UNCHANGED <<already, pairs, hidden, draining, calls>>
  BY <1>0 DEF AsyncReturn, AsyncThrow
<1> DEFINE stk == Tail(stack)
<1>2. /\ stk \in Seq(GoodFrame)
      /\ x \in AsyncFn /\ x \in Promise
      /\ Idle(queue, stk, x)
      /\ \A q \in Promise \ {x} : Good(queue, stk, q)
      /\ queue \in Seq(GoodJob) /\ Types
  BY <1>0, <1>1, AsyncTop
<1>3. FulfillPromise(x, v, stk, queue) \/ RejectPromise(x, v, stk, queue)
  BY <1>1
<1>4. /\ queue' \in Seq(GoodJob)
      /\ stack' \in Seq(GoodFrame)
      /\ state' \in [Promise -> {"unborn", "pending", "fulfilled", "rejected"}]
      /\ result' \in [Promise -> Value]
      /\ reactions' \in [Promise -> Seq(GoodReaction)]
      /\ \A q \in Promise \ {x} : /\ reactions'[q] = reactions[q]
                                  /\ result'[q] = result[q]
                                  /\ state'[q] = state[q]
                                  /\ KeepsAll(queue, stk, q)
      /\ KeepsOthers(queue, stk, x)
      /\ \/ /\ state'[x] \in {"fulfilled", "rejected"}
            /\ reactions'[x] = <<>>
            /\ KeepsRes(queue, stk, x)
         \/ /\ state'[x] = IF state[x] = "unborn" THEN "pending" ELSE state[x]
            /\ reactions'[x] = reactions[x]
            /\ result'[x] = result[x]
            /\ Absent(queue, reactions, stk, RES, x) => Sole(queue', reactions', stack', RES, x)
  <2> HIDE DEF stk
  <2> QED
    BY <1>2, <1>3, FulfillMoves
<1>5. exec'[x] = "done" /\ \A q \in AsyncFn \ {x} : exec'[q] = exec[q]
  BY <1>1, <1>2 DEF Types
<1> HIDE DEF stk
<1>6. \A q \in Promise \ {x} : Good(queue, stack, q)'
  BY <1>1, <1>2, <1>4, <1>5, Unmoved
<1>7. /\ state[x] \in {"unborn", "pending"} /\ ~already[x] /\ ~already'[x]
      /\ pairs[x] = <<>> /\ pairs'[x] = <<>>
      /\ Absent(queue, reactions, stk, CUS, x)
      /\ Absent(queue, reactions, stk, RES, x)
      /\ Absent(queue, reactions, stk, AWAIT, x)
      /\ RunsNowhere(stk, x) /\ Nowhere(stk, CODE, x)
  BY <1>1, <1>2 DEF Idle, Untouched
<1>8. /\ Absent(queue', reactions', stack', CUS, x)
      /\ Absent(queue', reactions', stack', AWAIT, x)
      /\ RunsNowhere(stack', x) /\ Nowhere(stack', CODE, x)
      /\ \/ /\ state'[x] \in {"fulfilled", "rejected"}
            /\ reactions'[x] = <<>>
            /\ Absent(queue', reactions', stack', RES, x)
         \/ /\ state'[x] = "pending"
            /\ Sole(queue', reactions', stack', RES, x)
  BY <1>4, <1>7 DEF KeepsOthers, KeepsRes, Keeps
<1>9. Flags(queue, stack, x)'
  BY <1>2, <1>7, <1>8 DEF Flags, Settled, Untouched
<1>10. Function(queue, stack, x)'
  BY <1>5, <1>8 DEF Function
<1>11. Custody(queue, stack, x)'
  BY <1>8 DEF Custody
<1>12. PromiseTypes' /\ Fixed
  BY <1>1, <1>2, <1>4, <1>7 DEF PromiseTypes, Fixed, Types, Settled
<1>13. OtherTypes'
  BY <1>1, <1>2 DEF OtherTypes, Types
<1> QED
  BY <1>6, <1>9, <1>10, <1>11, <1>12, <1>13, Assemble DEF Good

\* A promise comes into being, for an executor, a derived promise or the host.
LEMMA NewbornGood ==
  ASSUME NEW p \in Unborn, NEW que, NEW stk, Good(que, stk, p),
         state'[p] = "pending", already'[p] = already[p],
         KeepsRes(que, stk, p),
         pairs'[p] # <<>> \/ p \in Settleable
           \/ (pairs'[p] = pairs[p] /\ (Absent(que, reactions, stk, CUS, p) => Sole(queue', reactions', stack', CUS, p))),
         pairs'[p] # <<>> \/ (pairs'[p] = pairs[p] /\ (Nowhere(stk, CODE, p) => Nowhere(stack', CODE, p)))
  PROVE  Good(queue, stack, p)'
<1>1. ~already[p] /\ p \notin AsyncFn /\ Absent(que, reactions, stk, RES, p)
  BY DEF Unborn, Good, Flags, Settled
<1>2. Absent(queue', reactions', stack', RES, p)
  BY <1>1 DEF KeepsRes, Keeps
<1>3. Flags(queue, stack, p)'
  BY <1>1, <1>2 DEF Good, Flags, Settled
<1>4. Custody(queue, stack, p)'
  BY <1>1, <1>2 DEF Unborn, Good, Custody
<1> QED
  BY <1>1, <1>3, <1>4 DEF Good

\* new Promise keeps the invariant.
LEMMA NewPromiseStep ==
  ASSUME IInv, NEW p \in Promise, NewPromise(p)
  PROVE  IInv' /\ Fixed
<1> DEFINE f == Call("executor", p)
<1>1. /\ p \in Unborn
      /\ state' = [state EXCEPT ![p] = "pending"]
      /\ pairs' = [pairs EXCEPT ![p] = <<FALSE>>]
      /\ stack' = <<f>> \o stack
      /\ UNCHANGED <<already, result, reactions, hidden, exec, queue, draining>>
  BY DEF NewPromise
<1>2. calls' \in 0 .. MaxCalls
  BY CallCounted DEF NewPromise
<1>3. /\ stack \in Seq(GoodFrame) /\ queue \in Seq(GoodJob) /\ Types
      /\ \A q \in Promise : Good(queue, stack, q)
  BY DEF IInv
<1>4. f \in GoodFrame /\ f.kind = "executor" /\ f.who = p /\ \A q \in Promise : ~Runs(f, q)
  BY ElementTypes, ValueAssumption DEF Call, Runs
<1> HIDE DEF f
<1>5. /\ stack' \in Seq(GoodFrame) /\ Adds(queue, stack, f.kind, f.who)
      /\ \A q : /\ f.kind \notin CODE \/ f.who # q => (Nowhere(stack, CODE, q) => Nowhere(stack', CODE, q))
                /\ IF Runs(f, q) THEN RunsNowhere(stack, q) => RunsOnce(stack', q)
                   ELSE /\ RunsNowhere(stack, q) => RunsNowhere(stack', q)
                        /\ RunsOnce(stack, q) => RunsOnce(stack', q)
  BY <1>1, <1>3, <1>4, PushMoves
<1>6. \A q \in Promise :
         /\ KeepsRes(queue, stack, q)
         /\ Keeps(queue, reactions, stack, queue', reactions', stack', CUS, q)
         /\ Keeps(queue, reactions, stack, queue', reactions', stack', AWAIT, q)
  <2>1. f.kind \notin RES /\ f.kind \notin CUS /\ f.kind \notin AWAIT
    BY <1>4 DEF RES, CUS, AWAIT
  <2> QED
    BY <1>5, <2>1, AddsKeeps
<1>7. /\ pairs' \in [Promise -> Seq(BOOLEAN)] /\ pairs'[p] # <<>>
      /\ \A q \in Promise \ {p} : pairs'[q] = pairs[q]
  <2>1. pairs \in [Promise -> Seq(BOOLEAN)] /\ <<FALSE>> \in Seq(BOOLEAN)
    BY <1>3 DEF Types
  <2> QED
    BY <1>1, <2>1
<1>8. /\ state' \in [Promise -> {"unborn", "pending", "fulfilled", "rejected"}]
      /\ state'[p] = "pending" /\ \A q \in Promise \ {p} : state'[q] = state[q]
  BY <1>1, <1>3 DEF Types
<1>9. ASSUME NEW q \in Promise \ {p}
      PROVE  Good(queue, stack, q)'
  <2>1. KeepsAll(queue, stack, q)
    BY <1>4, <1>5, <1>6 DEF KeepsAll, KeepsOthers
  <2> QED
    BY <1>1, <1>3, <1>7, <1>8, <2>1, Unmoved
<1>10. Good(queue, stack, p)'
  BY <1>1, <1>3, <1>6, <1>7, <1>8, NewbornGood
<1>11. PromiseTypes' /\ Fixed
  BY <1>1, <1>3, <1>5, <1>8 DEF PromiseTypes, Fixed, Types, Unborn, Settled
<1>12. OtherTypes'
  BY <1>1, <1>2, <1>3, <1>7 DEF OtherTypes, Types
<1> QED
  BY <1>9, <1>10, <1>11, <1>12, Assemble

\* jerry_promise keeps the invariant.
LEMMA HostPromiseStep ==
  ASSUME IInv, NEW p \in Promise, HostPromise(p)
  PROVE  IInv' /\ Fixed
<1>1. /\ p \in Unborn /\ p \in Settleable
      /\ state' = [state EXCEPT ![p] = "pending"]
      /\ UNCHANGED <<already, result, reactions, pairs, hidden, exec, queue, stack, draining>>
  BY DEF HostPromise
<1>2. calls' \in 0 .. MaxCalls
  BY CallCounted DEF HostPromise
<1>3. /\ stack \in Seq(GoodFrame) /\ queue \in Seq(GoodJob) /\ Types
      /\ \A q \in Promise : Good(queue, stack, q)
  BY DEF IInv
<1>4. \A q \in Promise : KeepsAll(queue, stack, q) /\ KeepsRes(queue, stack, q)
  BY <1>1 DEF KeepsAll, KeepsOthers, KeepsRes, Keeps
<1>5. /\ state' \in [Promise -> {"unborn", "pending", "fulfilled", "rejected"}]
      /\ state'[p] = "pending" /\ \A q \in Promise \ {p} : state'[q] = state[q]
  BY <1>1, <1>3 DEF Types
<1>6. \A q \in Promise \ {p} : Good(queue, stack, q)'
  BY <1>1, <1>3, <1>4, <1>5, Unmoved
<1>7. Good(queue, stack, p)'
  BY <1>1, <1>3, <1>4, <1>5, NewbornGood
<1>8. PromiseTypes' /\ Fixed
  BY <1>1, <1>3, <1>5 DEF PromiseTypes, Fixed, Types, Unborn, Settled
<1>9. OtherTypes'
  BY <1>1, <1>2, <1>3 DEF OtherTypes, Types
<1> QED
  BY <1>6, <1>7, <1>8, <1>9, Assemble

\* then: the derived promise has the one reaction, or the one job, that will settle it.
LEMMA ThenStep ==
  ASSUME IInv, NEW p \in Promise, NEW ful \in {"identity", "user"}, NEW rej \in {"thrower", "user"},
         NEW cap \in Capability, Then(p, ful, rej, cap)
  PROVE  IInv' /\ Fixed
<1> DEFINE r == [kind |-> "then", who |-> cap, ful |-> ful, rej |-> rej]
<1>1. /\ p \in Promise \cap Known
      /\ cap \in Unborn \cup {Foreign}
      /\ state' = IF cap = Foreign THEN state ELSE [state EXCEPT ![cap] = "pending"]
      /\ React(p, r, queue)
      /\ UNCHANGED <<already, result, pairs, hidden, exec, stack, draining>>
  BY DEF Then
<1>2. calls' \in 0 .. MaxCalls
  BY CallCounted DEF Then
<1>3. /\ stack \in Seq(GoodFrame) /\ queue \in Seq(GoodJob) /\ Types
      /\ \A q \in Promise : Good(queue, stack, q)
  BY DEF IInv
<1>4. r \in GoodReaction /\ r.kind = "then" /\ r.who = cap
  BY DEF GoodReaction, Reaction
<1> HIDE DEF r
<1>5. /\ queue' \in Seq(GoodJob)
      /\ reactions' \in [Promise -> Seq(GoodReaction)]
      /\ StaysEmpty
      /\ Adds(queue, stack, r.kind, r.who)
  BY <1>1, <1>3, <1>4, ReactMoves
<1>6. \A q \in Promise :
         /\ KeepsRes(queue, stack, q)
         /\ Keeps(queue, reactions, stack, queue', reactions', stack', AWAIT, q)
         /\ q # cap => Keeps(queue, reactions, stack, queue', reactions', stack', CUS, q)
         /\ q = cap /\ Absent(queue, reactions, stack, CUS, q)
              => Sole(queue', reactions', stack', CUS, q)
  <2>1. r.kind \notin RES /\ r.kind \in CUS /\ r.kind \notin AWAIT
    BY <1>4 DEF RES, CUS, AWAIT
  <2> QED
    BY <1>4, <1>5, <2>1, AddsKeeps
<1>7. /\ state' \in [Promise -> {"unborn", "pending", "fulfilled", "rejected"}]
      /\ cap \in Promise => state'[cap] = "pending" /\ cap \in Unborn
      /\ \A q \in Promise \ {cap} : state'[q] = state[q]
  BY <1>1, <1>3, ValueAssumption DEF Types, Capability
<1>8. ASSUME NEW q \in Promise \ {cap}
      PROVE  Good(queue, stack, q)'
  <2>1. KeepsAll(queue, stack, q)
    BY <1>1, <1>6 DEF KeepsAll, KeepsOthers
  <2>2. state[q] # "pending" /\ reactions[q] = <<>> => reactions'[q] = <<>>
    BY <1>5 DEF StaysEmpty
  <2> QED
    BY <1>1, <1>3, <1>7, <2>1, <2>2, Unmoved
<1>9. cap \in Promise => Good(queue, stack, cap)'
  BY <1>1, <1>3, <1>6, <1>7, NewbornGood
<1>10. PromiseTypes' /\ Fixed
  BY <1>1, <1>3, <1>5, <1>7 DEF PromiseTypes, Fixed, Types, Unborn, Settled
<1>11. OtherTypes'
  BY <1>1, <1>2, <1>3 DEF OtherTypes, Types
<1> QED
  BY <1>8, <1>9, <1>10, <1>11, Assemble

\* The call of an async function keeps the invariant.
LEMMA StartAsyncStep ==
  ASSUME IInv, NEW x \in AsyncFn, StartAsync(x)
  PROVE  IInv' /\ Fixed
<1> DEFINE f == Call("async", x)
<1>1. /\ exec[x] = "idle"
      /\ exec' = [exec EXCEPT ![x] = "running"]
      /\ stack' = <<f>> \o stack
      /\ UNCHANGED <<promiseVars, pairs, hidden, queue, draining>>
  BY DEF StartAsync
<1>2. calls' \in 0 .. MaxCalls
  BY CallCounted DEF StartAsync
<1>3. /\ stack \in Seq(GoodFrame) /\ queue \in Seq(GoodJob) /\ Types /\ x \in Promise
      /\ \A q \in Promise : Good(queue, stack, q)
  BY ValueAssumption DEF IInv
<1>4. /\ f \in GoodFrame /\ f.kind = "async" /\ f.who = x
      /\ \A q \in Promise : Runs(f, q) <=> q = x
  BY <1>3, ElementTypes, ValueAssumption DEF Call, Runs
<1> HIDE DEF f
<1>5. reactions' = reactions /\ queue' = queue
  BY <1>1 DEF promiseVars
<1>6. /\ stack' \in Seq(GoodFrame) /\ Adds(queue, stack, f.kind, f.who)
      /\ \A q : /\ f.kind \notin CODE \/ f.who # q => (Nowhere(stack, CODE, q) => Nowhere(stack', CODE, q))
                /\ IF Runs(f, q) THEN RunsNowhere(stack, q) => RunsOnce(stack', q)
                   ELSE /\ RunsNowhere(stack, q) => RunsNowhere(stack', q)
                        /\ RunsOnce(stack, q) => RunsOnce(stack', q)
  BY <1>1, <1>3, <1>4, <1>5, PushMoves
<1>7. \A q \in Promise :
         /\ Keeps(queue, reactions, stack, queue', reactions', stack', RES, q)
         /\ Keeps(queue, reactions, stack, queue', reactions', stack', CUS, q)
         /\ Keeps(queue, reactions, stack, queue', reactions', stack', AWAIT, q)
         /\ Nowhere(stack, CODE, q) => Nowhere(stack', CODE, q)
  <2>1. f.kind \notin RES /\ f.kind \notin CUS /\ f.kind \notin AWAIT /\ f.kind \notin CODE
    BY <1>4 DEF RES, CUS, AWAIT, CODE
  <2> QED
    BY <1>6, <2>1, AddsKeeps DEF KeepsRes
<1>8. exec'[x] = "running" /\ \A q \in AsyncFn \ {x} : exec'[q] = exec[q]
  BY <1>1, <1>3 DEF Types
<1>9. ASSUME NEW q \in Promise \ {x}
      PROVE  Good(queue, stack, q)'
  <2>1. KeepsAll(queue, stack, q)
    BY <1>4, <1>6, <1>7 DEF KeepsAll, KeepsOthers, KeepsRes
  <2> QED
    BY <1>1, <1>3, <1>8, <2>1, Unmoved DEF promiseVars
<1>10. Good(queue, stack, x)'
  <2>1. Flags(queue, stack, x) /\ Function(queue, stack, x)
    BY <1>3 DEF Good
  <2>2. /\ state[x] \in {"unborn", "pending"} /\ ~already[x] /\ Untouched(queue, stack, x)
        /\ Absent(queue, reactions, stack, RES, x)
        /\ Absent(queue, reactions, stack, AWAIT, x)
        /\ RunsNowhere(stack, x)
    BY <1>1, <2>1 DEF Function
  <2>3. state'[x] = state[x] /\ already'[x] = already[x] /\ pairs'[x] = pairs[x] /\ reactions' = reactions
    BY <1>1 DEF promiseVars
  <2>4. /\ Untouched(queue, stack, x)' /\ Absent(queue', reactions', stack', RES, x)
        /\ Absent(queue', reactions', stack', AWAIT, x)
    BY <1>3, <1>7, <2>2, <2>3 DEF Untouched, Keeps
  <2>5. RunsOnce(stack', x)
    BY <1>3, <1>4, <1>6, <2>2
  <2>6. Flags(queue, stack, x)'
    BY <1>3, <1>7, <2>1, <2>2, <2>3, <2>4 DEF Flags, Settled
  <2>7. Function(queue, stack, x)'
    BY <1>8, <2>2, <2>3, <2>4, <2>5 DEF Function
  <2>8. Custody(queue, stack, x)'
    BY <1>8, <2>4 DEF Custody, Untouched
  <2> QED
    BY <2>6, <2>7, <2>8 DEF Good
<1>11. PromiseTypes' /\ Fixed
  BY <1>1, <1>3, <1>6 DEF PromiseTypes, Fixed, Types, promiseVars
<1>12. OtherTypes'
  BY <1>1, <1>2, <1>3 DEF OtherTypes, Types
<1> QED
  BY <1>9, <1>10, <1>11, <1>12, Assemble

\* The function w is suspended, and one token will resume it.
LEMMA SuspendStep ==
  ASSUME Types, NEW w \in AsyncFn, NEW que, NEW stk \in Seq(GoodFrame),
         Idle(que, stk, w), \A q \in Promise \ {w} : Good(que, stk, q),
         queue' \in Seq(GoodJob), reactions' \in [Promise -> Seq(GoodReaction)],
         StaysEmpty, Adds(que, stk, "await", w), stack' = stk,
         state' = Born(w), exec' = [exec EXCEPT ![w] = "awaiting"],
         UNCHANGED <<already, result, pairs, hidden, draining>>, calls' \in 0 .. MaxCalls
  PROVE  IInv' /\ Fixed
<1>1. w \in Promise /\ w # None
  BY ValueAssumption
<1>2. \A q \in Promise :
         /\ KeepsRes(que, stk, q)
         /\ Keeps(que, reactions, stk, queue', reactions', stack', CUS, q)
         /\ q # w => Keeps(que, reactions, stk, queue', reactions', stack', AWAIT, q)
         /\ q = w /\ Absent(que, reactions, stk, AWAIT, q)
              => Sole(queue', reactions', stack', AWAIT, q)
  <2>1. "await" \notin RES /\ "await" \notin CUS /\ "await" \in AWAIT
    BY DEF RES, CUS, AWAIT
  <2> QED
    BY <2>1, AddsKeeps
<1>3. /\ state' \in [Promise -> {"unborn", "pending", "fulfilled", "rejected"}]
      /\ state'[w] = "pending" /\ \A q \in Promise \ {w} : state'[q] = state[q]
  BY <1>1 DEF Types, Born, Idle
<1>4. exec'[w] = "awaiting" /\ \A q \in AsyncFn \ {w} : exec'[q] = exec[q]
  BY DEF Types
<1>5. ASSUME NEW q \in Promise \ {w}
      PROVE  Good(queue, stack, q)'
  <2>1. KeepsAll(que, stk, q)
    BY <1>2 DEF KeepsAll, KeepsOthers
  <2>2. state[q] # "pending" /\ reactions[q] = <<>> => reactions'[q] = <<>>
    BY DEF StaysEmpty
  <2> QED
    BY <1>3, <1>4, <2>1, <2>2, Unmoved
<1>6. Good(queue, stack, w)'
  <2>1. Sole(queue', reactions', stack', AWAIT, w)
    BY <1>1, <1>2 DEF Idle
  <2> QED
    BY <1>1, <1>2, <1>3, <1>4, <2>1, SuspendedGood
<1>7. PromiseTypes' /\ Fixed
  BY <1>3 DEF PromiseTypes, Fixed, Types, Settled, Idle
<1>8. OtherTypes'
  BY DEF OtherTypes, Types
<1> QED
  BY <1>5, <1>6, <1>7, <1>8, Assemble

\* An await of a promise or of a plain value keeps the invariant.
LEMMA AwaitStep ==
  ASSUME IInv, NEW v \in Value, AwaitPromise(v) \/ AwaitPlain(v)
  PROVE  IInv' /\ Fixed
<1>0. PICK x, stk : x = Top.who /\ stk = Tail(stack)
  OBVIOUS
<1>1. /\ Running("async")
      /\ state' = Born(x)
      /\ exec' = [exec EXCEPT ![x] = "awaiting"]
      /\ stack' = stk
      /\ UNCHANGED <<already, result, pairs, hidden, draining>>
      /\ \/ v \in Promise /\ React(v, AwaitReaction(x), queue)
         \/ queue' = Append(queue, JobOf(AwaitReaction(x), FALSE, v)) /\ reactions' = reactions
  BY <1>0 DEF AwaitPromise, AwaitPlain
<1>2. calls' \in 0 .. MaxCalls
  BY CallCounted DEF AwaitPromise, AwaitPlain
<1>3. /\ stk \in Seq(GoodFrame)
      /\ x \in AsyncFn /\ x \in Promise
      /\ Idle(queue, stk, x)
      /\ \A q \in Promise \ {x} : Good(queue, stk, q)
      /\ queue \in Seq(GoodJob) /\ Types
  BY <1>0, <1>1, AsyncTop
<1>4. /\ queue' \in Seq(GoodJob)
      /\ reactions' \in [Promise -> Seq(GoodReaction)]
      /\ StaysEmpty
      /\ Adds(queue, stk, "await", x)
  <2>1. AwaitReaction(x) \in GoodReaction /\ AwaitReaction(x).kind = "await" /\ AwaitReaction(x).who = x
    BY <1>3, ElementTypes DEF AwaitReaction
  <2>2. CASE v \in Promise /\ React(v, AwaitReaction(x), queue)
    <3>1. /\ queue' \in Seq(GoodJob)
          /\ reactions' \in [Promise -> Seq(GoodReaction)]
          /\ StaysEmpty
          /\ Adds(queue, stk, AwaitReaction(x).kind, AwaitReaction(x).who)
      BY <1>1, <1>3, <2>1, <2>2, ReactMoves
    <3> QED
      BY <2>1, <3>1
  <2>3. CASE queue' = Append(queue, JobOf(AwaitReaction(x), FALSE, v)) /\ reactions' = reactions
    <3> DEFINE j == JobOf(AwaitReaction(x), FALSE, v)
    <3>1. j \in GoodJob /\ j.kind = "await" /\ j.who = x
      BY <2>1, ElementTypes
    <3>2. queue' = Append(queue, j)
      BY <2>3
    <3> HIDE DEF j
    <3>3. queue' \in Seq(GoodJob) /\ StaysEmpty /\ Adds(queue, stk, j.kind, j.who)
      BY <1>1, <1>3, <2>3, <3>1, <3>2, EnqueueMoves
    <3> QED
      BY <1>3, <2>3, <3>1, <3>3 DEF Types
  <2> QED
    BY <1>1, <2>2, <2>3
<1> QED
  BY <1>1, <1>2, <1>3, <1>4, SuspendStep

\* The body of x gives way to a getter, and is not suspended yet.
LEMMA AwaitThenableStep ==
  ASSUME IInv, NEW p \in Promise, NEW v \in Value, AwaitThenable(p, v)
  PROVE  IInv' /\ Fixed
<1>0. PICK x, stk, f : x = Top.who /\ stk = Tail(stack) /\ f = [kind |-> "getter", who |-> p, arg |-> v, waiter |-> x]
  OBVIOUS
<1>1. /\ Running("async") /\ v \in Thenable
      /\ p \in Unborn
      /\ state' = [state EXCEPT ![p] = "pending"]
      /\ already' = [already EXCEPT ![p] = TRUE]
      /\ hidden' = hidden \cup {p}
      /\ stack' = <<f>> \o stk
      /\ UNCHANGED <<result, reactions, pairs, exec, queue, draining>>
  BY <1>0 DEF AwaitThenable
<1>2. calls' \in 0 .. MaxCalls
  BY CallCounted DEF AwaitThenable
<1>3. /\ stk \in Seq(GoodFrame) /\ stack \in Seq(GoodFrame)
      /\ x \in AsyncFn /\ x \in Promise
      /\ exec[x] = "running"
      /\ Idle(queue, stk, x)
      /\ \A q \in Promise \ {x} : Good(queue, stk, q)
      /\ queue \in Seq(GoodJob) /\ Types
  BY <1>0, <1>1, AsyncTop
<1>4. /\ f \in GoodFrame /\ f.kind = "getter" /\ f.who = p
      /\ \A q \in Promise : Runs(f, q) <=> q = x
  BY <1>0, <1>1, <1>3, ElementTypes DEF Runs
<1>5. /\ stack' \in Seq(GoodFrame) /\ Adds(queue, stk, f.kind, f.who)
      /\ \A q : /\ f.kind \notin CODE \/ f.who # q => (Nowhere(stk, CODE, q) => Nowhere(stack', CODE, q))
                /\ IF Runs(f, q) THEN RunsNowhere(stk, q) => RunsOnce(stack', q)
                   ELSE /\ RunsNowhere(stk, q) => RunsNowhere(stack', q)
                        /\ RunsOnce(stk, q) => RunsOnce(stack', q)
  BY <1>1, <1>3, <1>4, PushMoves
<1>6. \A q \in Promise :
         /\ q # p => KeepsRes(queue, stk, q)
         /\ q = p /\ Absent(queue, reactions, stk, RES, q) => Sole(queue', reactions', stack', RES, q)
         /\ Keeps(queue, reactions, stk, queue', reactions', stack', CUS, q)
         /\ Keeps(queue, reactions, stk, queue', reactions', stack', AWAIT, q)
         /\ Nowhere(stk, CODE, q) => Nowhere(stack', CODE, q)
  <2>1. f.kind \in RES /\ f.kind \notin CUS /\ f.kind \notin AWAIT /\ f.kind \notin CODE
    BY <1>4 DEF RES, CUS, AWAIT, CODE
  <2> QED
    BY <1>4, <1>5, <2>1, AddsKeeps
<1>7. p # x /\ p \notin AsyncFn
  BY <1>1, <1>3 DEF Unborn
<1>8. /\ state' \in [Promise -> {"unborn", "pending", "fulfilled", "rejected"}]
      /\ already' \in [Promise -> BOOLEAN]
      /\ state'[p] = "pending" /\ already'[p]
      /\ \A q \in Promise \ {p} : state'[q] = state[q] /\ already'[q] = already[q]
  BY <1>1, <1>3 DEF Types
<1>9. ASSUME NEW q \in Promise \ {p, x}
      PROVE  Good(queue, stack, q)'
  <2>1. KeepsAll(queue, stk, q)
    BY <1>4, <1>5, <1>6 DEF KeepsAll, KeepsOthers
  <2> QED
    BY <1>1, <1>3, <1>8, <2>1, Unmoved
<1>10. Good(queue, stack, p)'
  <2>1. ~already[p] /\ Ready(queue, stk, p)
    BY <1>1, <1>3, <1>7, ReadyByBirth
  <2>2. /\ Sole(queue', reactions', stack', RES, p)
        /\ pairs[p] = <<>> => Nowhere(stack', CODE, p)
        /\ pairs[p] = <<>> /\ p \notin Settleable => Absent(queue', reactions', stack', CUS, p)
    BY <1>6, <2>1 DEF Ready, Keeps
  <2>3. Flags(queue, stack, p)'
    BY <1>1, <1>8, <2>2 DEF Flags, Settled
  <2>4. Custody(queue, stack, p)'
    BY <1>1, <2>2 DEF Custody
  <2> QED
    BY <1>7, <2>3, <2>4 DEF Good
<1>11. Good(queue, stack, x)'
  <2>1. /\ state'[x] = state[x] /\ already'[x] = already[x] /\ pairs'[x] = pairs[x]
        /\ reactions' = reactions /\ exec' = exec
    BY <1>1, <1>3, <1>7, <1>8
  <2>2. /\ Untouched(queue, stack, x)' /\ Absent(queue', reactions', stack', RES, x)
        /\ Absent(queue', reactions', stack', AWAIT, x)
        /\ Nowhere(stack', CODE, x)
    BY <1>3, <1>6, <1>7, <2>1 DEF Idle, Untouched, KeepsRes, Keeps
  <2>3. RunsOnce(stack', x)
    BY <1>3, <1>4, <1>5 DEF Idle
  <2>4. Flags(queue, stack, x)'
    BY <1>3, <2>1, <2>2 DEF Idle, Flags, Settled
  <2>5. Function(queue, stack, x)'
    BY <1>3, <2>1, <2>2, <2>3 DEF Idle, Function
  <2>6. Custody(queue, stack, x)'
    BY <1>3, <2>1, <2>2 DEF Custody, Untouched
  <2> QED
    BY <2>4, <2>5, <2>6 DEF Good
<1>12. PromiseTypes' /\ Fixed
  BY <1>1, <1>3, <1>5, <1>8 DEF PromiseTypes, Fixed, Types, Unborn, Settled
<1>13. OtherTypes'
  BY <1>1, <1>2, <1>3 DEF OtherTypes, Types
<1> QED
  BY <1>9, <1>10, <1>11, <1>12, <1>13, Assemble

\* A promise whose `then` getter has just returned: nothing resolves it any more.
Open(que, stk, p) ==
  /\ state[p] = "pending"
  /\ Absent(que, reactions, stk, RES, p)
  /\ ~already[p] => p \in AsyncFn /\ Untouched(que, stk, p)
  /\ p \in AsyncFn => exec[p] = "done" /\ Absent(que, reactions, stk, AWAIT, p) /\ RunsNowhere(stk, p)
  /\ pairs[p] = <<>> => Nowhere(stk, CODE, p)
  /\ pairs[p] = <<>> /\ p \notin Settleable => Absent(que, reactions, stk, CUS, p)

\* What is known when a `then` getter ends: the promise it was called for is open to any
\* outcome, and the function that awaits it, if any, holds nothing else.
LEMMA GetterTop ==
  ASSUME IInv, Running("getter"), NEW p, p = Top.who, NEW w, w = Top.waiter, NEW stk, stk = Tail(stack)
  PROVE  /\ stk \in Seq(GoodFrame) /\ queue \in Seq(GoodJob) /\ Types
         /\ p \in Promise /\ w \in AsyncFn \cup {None} /\ w # p /\ None \notin Promise
         /\ Top.arg \in Value
         /\ Open(queue, stk, p)
         /\ w # None => exec[w] = "running" /\ Idle(queue, stk, w)
         /\ \A q \in Promise \ {p, w} : Good(queue, stk, q)
<1>1. /\ stack # <<>> /\ Top = Head(stack) /\ Top.kind = "getter"
      /\ stack \in Seq(GoodFrame) /\ queue \in Seq(GoodJob) /\ Types
      /\ \A q \in Promise : Good(queue, stack, q)
  BY DEF IInv, Running, Top
<1>2. stk \in Seq(GoodFrame) /\ Top \in GoodFrame
  BY <1>1, Popped
<1>3. p \in Promise /\ w \in AsyncFn \cup {None} /\ Top.arg \in Value /\ None \notin Promise
  BY <1>1, <1>2, ValueAssumption DEF GoodFrame, Frame
<1>4. \A q \in Promise : Runs(Top, q) <=> q = w
  BY <1>1, <1>2 DEF Runs
<1>5. w # None => exec[w] = "running" /\ Idle(queue, stk, w)
  BY <1>1, <1>3, <1>4, LeavesStack, ValueAssumption
<1>6. Top.kind \in RES /\ Top.kind \notin CUS /\ Top.kind \notin AWAIT
  BY <1>1 DEF RES, CUS, AWAIT
<1>7. /\ ~Absent(queue, reactions, stack, RES, p)
      /\ Sole(queue, reactions, stack, RES, p) => Absent(queue, reactions, stk, RES, p)
      /\ Keeps(queue, reactions, stack, queue, reactions, stk, CUS, p)
      /\ Keeps(queue, reactions, stack, queue, reactions, stk, AWAIT, p)
      /\ Nowhere(stack, CODE, p) => Nowhere(stk, CODE, p)
  BY <1>1, <1>6, Popped
<1>8. /\ Sole(queue, reactions, stack, RES, p) /\ state[p] = "pending"
      /\ ~already[p] => p \in AsyncFn /\ Untouched(queue, stack, p)
      /\ pairs[p] = <<>> => Nowhere(stack, CODE, p)
  BY <1>1, <1>3, <1>7 DEF Good, Flags
<1>9. p \in AsyncFn => /\ exec[p] = "done" /\ Absent(queue, reactions, stack, AWAIT, p)
                       /\ RunsNowhere(stack, p)
  BY <1>1, <1>3, <1>7 DEF Good, Function
<1>10. pairs[p] = <<>> /\ p \notin Settleable => Absent(queue, reactions, stack, CUS, p)
  BY <1>1, <1>3, <1>7 DEF Good, Custody
<1>11. w # p
  BY <1>1, <1>3, <1>5, <1>9
<1>12. RunsNowhere(stack, p) => RunsNowhere(stk, p)
  BY <1>1, <1>3, <1>4, <1>11, Popped
<1>13. Open(queue, stk, p)
  BY <1>7, <1>8, <1>9, <1>10, <1>12 DEF Open, Untouched, Keeps
<1>14. \A q \in Promise \ {p, w} : Good(queue, stk, q)
  BY <1>1, <1>4, Popped
<1> QED
  BY <1>1, <1>2, <1>3, <1>5, <1>11, <1>13, <1>14

\* The getter throws, or returns something that is not callable: the promise settles.
LEMMA GetterSettleStep ==
  ASSUME IInv, GetterNotCallable \/ \E e \in Plain : GetterThrow(e)
  PROVE  IInv' /\ Fixed
<1>0. PICK p, w, stk : p = Top.who /\ w = Top.waiter /\ stk = Tail(stack)
  OBVIOUS
<1>1. /\ Running("getter")
      /\ exec' = Suspended(w)
      /\ stack' = stk
      /\ UNCHANGED <<already, pairs, hidden, draining, calls>>
  BY <1>0 DEF GetterNotCallable, GetterThrow
<1>2. /\ stk \in Seq(GoodFrame) /\ queue \in Seq(GoodJob) /\ Types
      /\ p \in Promise /\ w \in AsyncFn \cup {None} /\ w # p /\ None \notin Promise
      /\ Top.arg \in Value
      /\ Open(queue, stk, p)
      /\ w # None => exec[w] = "running" /\ Idle(queue, stk, w)
      /\ \A q \in Promise \ {p, w} : Good(queue, stk, q)
  BY <1>0, <1>1, GetterTop
<1>3. PICK st \in {"fulfilled", "rejected"}, v \in Value : Settle(p, st, v, w, queue)
  BY <1>0, <1>2 DEF GetterNotCallable, GetterThrow, Value
<1>4. /\ queue' \in Seq(GoodJob)
      /\ state' \in [Promise -> {"unborn", "pending", "fulfilled", "rejected"}]
      /\ result' \in [Promise -> Value]
      /\ reactions' \in [Promise -> Seq(GoodReaction)]
      /\ state'[p] = st /\ reactions'[p] = <<>>
      /\ \A q \in Promise \ {p} :
            /\ reactions'[q] = reactions[q] /\ result'[q] = result[q]
            /\ state'[q] = IF q = w /\ state[q] = "unborn" THEN "pending" ELSE state[q]
      /\ \A q \in Promise : KeepsRes(queue, stk, q)
      /\ \A q \in Promise : Keeps(queue, reactions, stk, queue', reactions', stack', CUS, q)
      /\ \A q \in Promise \ {w} : KeepsOthers(queue, stk, q)
      /\ w # None /\ Absent(queue, reactions, stk, AWAIT, w)
           => Sole(queue', reactions', stack', AWAIT, w)
  BY <1>1, <1>2, <1>3, SettleMoves
<1>5. /\ exec' \in [AsyncFn -> {"idle", "running", "awaiting", "done"}]
      /\ \A q \in AsyncFn \ {w} : exec'[q] = exec[q]
      /\ w # None => exec'[w] = "awaiting"
  BY <1>1, <1>2 DEF Suspended, Types
<1>6. ASSUME NEW q \in Promise \ {p, w}
      PROVE  Good(queue, stack, q)'
  <2>1. KeepsAll(queue, stk, q) /\ state'[q] = state[q] /\ reactions'[q] = reactions[q]
    BY <1>4 DEF KeepsAll
  <2> QED
    BY <1>1, <1>2, <1>5, <2>1, Unmoved
<1>7. Good(queue, stack, p)'
  <2>1. /\ Absent(queue', reactions', stack', RES, p)
        /\ ~already[p] => p \in AsyncFn /\ Untouched(queue, stack, p)'
        /\ p \in AsyncFn => exec'[p] = "done" /\ Absent(queue', reactions', stack', AWAIT, p) /\ RunsNowhere(stack', p)
        /\ pairs[p] = <<>> => Nowhere(stack', CODE, p)
        /\ pairs[p] = <<>> /\ p \notin Settleable => Absent(queue', reactions', stack', CUS, p)
    BY <1>1, <1>2, <1>4, <1>5 DEF Open, Untouched, KeepsRes, KeepsOthers, Keeps
  <2>2. already'[p] = already[p] /\ pairs'[p] = pairs[p] /\ state'[p] \in {"fulfilled", "rejected"} /\ reactions'[p] = <<>>
    BY <1>1, <1>4
  <2>3. Flags(queue, stack, p)'
    BY <2>1, <2>2 DEF Flags, Settled
  <2>4. p \in AsyncFn => Function(queue, stack, p)'
    BY <2>1 DEF Function
  <2>5. Custody(queue, stack, p)'
    BY <2>1, <2>2 DEF Custody
  <2> QED
    BY <2>3, <2>4, <2>5 DEF Good
<1>8. w # None => Good(queue, stack, w)'
  <2> SUFFICES ASSUME w # None PROVE Good(queue, stack, w)'
    OBVIOUS
  <2>1. w \in AsyncFn /\ w \in Promise /\ Idle(queue, stk, w)
    BY <1>2, ValueAssumption
  <2>2. state'[w] = "pending" /\ already'[w] = already[w] /\ pairs'[w] = pairs[w] /\ exec'[w] = "awaiting"
    BY <1>1, <1>2, <1>4, <1>5, <2>1 DEF Idle
  <2>3. Sole(queue', reactions', stack', AWAIT, w)
    BY <1>4, <2>1 DEF Idle
  <2> QED
    BY <1>1, <1>4, <2>1, <2>2, <2>3, SuspendedGood
<1>9. PromiseTypes' /\ Fixed
  <2>1. \A q \in Promise : Settled(q) => q # p /\ ~(q = w /\ state[q] = "unborn")
    BY <1>2 DEF Settled, Open
  <2> QED
    BY <1>1, <1>2, <1>4, <2>1 DEF PromiseTypes, Fixed, Types
<1>10. OtherTypes'
  BY <1>1, <1>2, <1>5 DEF OtherTypes, Types
<1> QED
  BY <1>2, <1>6, <1>7, <1>8, <1>9, <1>10, Assemble

\* The getter returns something callable: a job will call it.
LEMMA GetterCallableStep ==
  ASSUME IInv, GetterCallable
  PROVE  IInv' /\ Fixed
<1>0. PICK p, w, stk, j : p = Top.who /\ w = Top.waiter /\ stk = Tail(stack) /\ j = ThenableJob(p, Top.arg)
  OBVIOUS
<1>1. /\ Running("getter")
      /\ queue' = Append(queue, j)
      /\ reactions' = IF w = None THEN reactions
                      ELSE [reactions EXCEPT ![p] = Append(@, AwaitReaction(w))]
      /\ state' = Born(w)
      /\ exec' = Suspended(w)
      /\ stack' = stk
      /\ UNCHANGED <<already, result, pairs, hidden, draining, calls>>
  BY <1>0 DEF GetterCallable
<1>2. /\ stk \in Seq(GoodFrame) /\ queue \in Seq(GoodJob) /\ Types
      /\ p \in Promise /\ w \in AsyncFn \cup {None} /\ w # p /\ None \notin Promise
      /\ Top.arg \in Value
      /\ Open(queue, stk, p)
      /\ w # None => exec[w] = "running" /\ Idle(queue, stk, w)
      /\ \A q \in Promise \ {p, w} : Good(queue, stk, q)
  BY <1>0, <1>1, GetterTop
<1>3. j \in GoodJob /\ j.kind = "thenable" /\ j.who = p
  BY <1>0, <1>2, ElementTypes DEF ThenableJob
<1>4. w # None => /\ AwaitReaction(w) \in GoodReaction
                  /\ AwaitReaction(w).kind = "await" /\ AwaitReaction(w).who = w
  BY <1>2, ElementTypes DEF AwaitReaction
<1>5. queue' \in Seq(GoodJob)
  BY <1>1, <1>2, <1>3, AppendProperties
<1>6. reactions \in [Promise -> Seq(GoodReaction)] /\ reactions' \in [Promise -> Seq(GoodReaction)]
  <2>1. reactions \in [Promise -> Seq(GoodReaction)]
    BY <1>2 DEF Types
  <2>2. w # None => Append(reactions[p], AwaitReaction(w)) \in Seq(GoodReaction)
    BY <1>2, <1>4, <2>1, AppendProperties
  <2> QED
    BY <1>1, <2>1, <2>2
<1>7. \A K, q : IF "thenable" \in K /\ p = q
                THEN Absent(queue, reactions, stk, K, q) => Sole(queue', reactions, stk, K, q)
                ELSE Keeps(queue, reactions, stk, queue', reactions, stk, K, q)
  BY <1>1, <1>2, <1>3, EnqueueTokens
<1>8. \A K, q : IF w # None /\ "await" \in K /\ w = q
                THEN Absent(queue', reactions, stk, K, q) => Sole(queue', reactions', stack', K, q)
                ELSE Keeps(queue', reactions, stk, queue', reactions', stack', K, q)
  <2>1. CASE w = None
    BY <1>1, <2>1 DEF Keeps
  <2>2. CASE w # None
    <3>0. PICK r \in GoodReaction : r = AwaitReaction(w) /\ r.kind = "await" /\ r.who = w
      BY <1>4, <2>2
    <3> DEFINE rea2 == [reactions EXCEPT ![p] = Append(@, r)]
    <3>1. \A K, q : IF r.kind \in K /\ r.who = q
                    THEN Absent(queue', reactions, stk, K, q) => Sole(queue', rea2, stk, K, q)
                    ELSE Keeps(queue', reactions, stk, queue', rea2, stk, K, q)
      BY <1>2, <1>6, CollectTokens
    <3>2. reactions' = rea2
      BY <1>1, <2>2, <3>0
    <3> HIDE DEF rea2
    <3>3. \A K, q : IF "await" \in K /\ w = q
                    THEN Absent(queue', reactions, stk, K, q) => Sole(queue', rea2, stk, K, q)
                    ELSE Keeps(queue', reactions, stk, queue', rea2, stk, K, q)
      BY <3>0, <3>1
    <3>4. stack' = stk
      BY <1>1
    <3> QED
      BY <2>2, <3>2, <3>3, <3>4
  <2> QED
    BY <2>1, <2>2
<1>9. /\ "thenable" \in RES /\ "thenable" \notin CUS /\ "thenable" \notin AWAIT
      /\ "await" \notin RES /\ "await" \notin CUS /\ "await" \in AWAIT
  BY DEF RES, CUS, AWAIT
<1>10. \A q \in Promise :
         /\ q # p => KeepsRes(queue, stk, q)
         /\ q = p /\ Absent(queue, reactions, stk, RES, q) => Sole(queue', reactions', stack', RES, q)
         /\ Keeps(queue, reactions, stk, queue', reactions', stack', CUS, q)
         /\ q # w => Keeps(queue, reactions, stk, queue', reactions', stack', AWAIT, q)
         /\ q = w /\ Absent(queue, reactions, stk, AWAIT, q) => Sole(queue', reactions', stack', AWAIT, q)
  BY <1>2, <1>7, <1>8, <1>9 DEF KeepsRes, Keeps
<1>11. /\ exec' \in [AsyncFn -> {"idle", "running", "awaiting", "done"}]
       /\ \A q \in AsyncFn \ {w} : exec'[q] = exec[q]
       /\ w # None => exec'[w] = "awaiting"
  BY <1>1, <1>2 DEF Suspended, Types
<1>12. /\ state' \in [Promise -> {"unborn", "pending", "fulfilled", "rejected"}]
       /\ \A q \in Promise \ {w} : state'[q] = state[q]
       /\ w # None => state'[w] = "pending"
  BY <1>1, <1>2, ValueAssumption DEF Born, Types, Idle
<1>13. \A q \in Promise \ {p} : reactions'[q] = reactions[q]
  BY <1>1, <1>6
<1>14. ASSUME NEW q \in Promise \ {p, w}
       PROVE  Good(queue, stack, q)'
  <2>1. KeepsAll(queue, stk, q)
    BY <1>1, <1>10 DEF KeepsAll, KeepsOthers
  <2> QED
    BY <1>1, <1>2, <1>11, <1>12, <1>13, <2>1, Unmoved
<1>15. Good(queue, stack, p)'
  <2>1. /\ Sole(queue', reactions', stack', RES, p)
        /\ ~already[p] => p \in AsyncFn /\ Untouched(queue, stack, p)'
        /\ p \in AsyncFn => exec'[p] = "done" /\ Absent(queue', reactions', stack', AWAIT, p) /\ RunsNowhere(stack', p)
        /\ pairs[p] = <<>> => Nowhere(stack', CODE, p)
        /\ pairs[p] = <<>> /\ p \notin Settleable => Absent(queue', reactions', stack', CUS, p)
    BY <1>1, <1>2, <1>10, <1>11 DEF Open, Untouched, Keeps
  <2>2. already'[p] = already[p] /\ pairs'[p] = pairs[p] /\ state'[p] = "pending"
    BY <1>1, <1>2, <1>12 DEF Open
  <2>3. Flags(queue, stack, p)'
    BY <2>1, <2>2 DEF Flags, Settled
  <2>4. p \in AsyncFn => Function(queue, stack, p)'
    BY <2>1 DEF Function
  <2>5. Custody(queue, stack, p)'
    BY <2>1, <2>2 DEF Custody
  <2> QED
    BY <2>3, <2>4, <2>5 DEF Good
<1>16. w # None => Good(queue, stack, w)'
  <2> SUFFICES ASSUME w # None PROVE Good(queue, stack, w)'
    OBVIOUS
  <2>1. w \in AsyncFn /\ w \in Promise /\ Idle(queue, stk, w)
    BY <1>2, ValueAssumption
  <2>2. state'[w] = "pending" /\ already'[w] = already[w] /\ pairs'[w] = pairs[w] /\ exec'[w] = "awaiting"
    BY <1>1, <1>2, <1>11, <1>12
  <2>3. Sole(queue', reactions', stack', AWAIT, w)
    BY <1>10, <2>1 DEF Idle
  <2> QED
    BY <1>1, <1>2, <1>10, <2>1, <2>2, <2>3, SuspendedGood
<1>17. PromiseTypes' /\ Fixed
  <2>1. \A q \in Promise : Settled(q) => q # w
    BY <1>2 DEF Settled, Idle
  <2> QED
    BY <1>1, <1>2, <1>5, <1>6, <1>12, <2>1 DEF PromiseTypes, Fixed, Types
<1>18. OtherTypes'
  BY <1>1, <1>2, <1>11 DEF OtherTypes, Types
<1> QED
  BY <1>2, <1>14, <1>15, <1>16, <1>17, <1>18, Assemble

\* The host runs a script, begins and ends a run of jobs.
LEMMA HostStep ==
  ASSUME IInv, StartScript \/ RunJobs \/ EndRun
  PROVE  IInv' /\ Fixed
<1> DEFINE f == Call("script", None)
<1>1. /\ stack \in Seq(GoodFrame) /\ queue \in Seq(GoodJob) /\ Types
      /\ UNCHANGED <<promiseVars, pairs, exec, queue>>
  BY DEF IInv, StartScript, RunJobs, EndRun
<1>2. CASE StartScript
  <2>1. f \in GoodFrame /\ f.kind = "script" /\ \A q \in Promise : ~Runs(f, q)
    BY ElementTypes, ValueAssumption DEF Call, Runs
  <2>2. stack' = <<f>> \o stack
    BY <1>2, <1>1, <2>1, ConcatEmptySeq DEF StartScript
  <2> HIDE DEF f
  <2>3. /\ stack' \in Seq(GoodFrame) /\ Adds(queue, stack, f.kind, f.who)
        /\ \A q : /\ f.kind \notin CODE \/ f.who # q => (Nowhere(stack, CODE, q) => Nowhere(stack', CODE, q))
                  /\ IF Runs(f, q) THEN RunsNowhere(stack, q) => RunsOnce(stack', q)
                     ELSE /\ RunsNowhere(stack, q) => RunsNowhere(stack', q)
                          /\ RunsOnce(stack, q) => RunsOnce(stack', q)
    BY <1>1, <2>1, <2>2, PushMoves DEF promiseVars
  <2>4. f.kind \notin RES /\ f.kind \notin CUS /\ f.kind \notin AWAIT /\ f.kind \notin CODE
    BY <2>1 DEF RES, CUS, AWAIT, CODE
  <2>5. \A q \in Promise : KeepsAll(queue, stack, q)
    BY <2>1, <2>3, <2>4, AddsKeeps DEF KeepsAll, KeepsOthers
  <2>6. OtherTypes'
    BY <1>1, <1>2, ValueAssumption DEF StartScript, OtherTypes, Types
  <2>7. queue' \in Seq(GoodJob)
    BY <1>1
  <2> QED
    BY <1>1, <2>3, <2>5, <2>6, <2>7, QuietStep
<1>3. CASE RunJobs \/ EndRun
  <2>1. stack' = stack /\ queue' = queue /\ reactions' = reactions
    BY <1>3 DEF RunJobs, EndRun, promiseVars
  <2>2. \A q \in Promise : KeepsAll(queue, stack, q)
    BY <2>1 DEF KeepsAll, KeepsOthers, KeepsRes, Keeps
  <2>3. OtherTypes'
    BY <1>1, <1>3 DEF RunJobs, EndRun, OtherTypes, Types
  <2> QED
    BY <1>1, <2>1, <2>2, <2>3, QuietStep
<1> QED
  BY <1>2, <1>3

-----------------------------------------------------------------------------
(* The invariant.                                                          *)

\* The invariant holds at the start.
LEMMA InitIInv == Init => IInv
<1> SUFFICES ASSUME Init PROVE IInv
  OBVIOUS
<1>1. Types /\ queue \in Seq(GoodJob) /\ stack \in Seq(GoodFrame)
  <2>1. /\ <<>> \in Seq(GoodJob) /\ <<>> \in Seq(GoodFrame)
        /\ <<>> \in Seq(GoodReaction) /\ <<>> \in Seq(BOOLEAN)
    BY EmptySeq
  <2>2. calls \in 0 .. MaxCalls
    BY ValueAssumption DEF Init
  <2>3. result \in [Promise -> Value]
    BY ValueAssumption DEF Init, Value
  <2> QED
    BY <2>1, <2>2, <2>3 DEF Init, Types
<1>2. \A K, p : Nowhere(<<>>, K, p)
  BY EmptySeq DEF Nowhere
<1>3. \A p : RunsNowhere(<<>>, p)
  BY EmptySeq DEF RunsNowhere
<1>4. \A K, p : Absent(queue, reactions, stack, K, p) /\ Nowhere(stack, K, p)
  BY <1>2 DEF Init, Absent
<1>5. ASSUME NEW p \in Promise
      PROVE  Good(queue, stack, p)
  <2>1. state[p] = "unborn" /\ ~already[p] /\ reactions[p] = <<>> /\ pairs[p] = <<>>
    BY DEF Init
  <2>2. Flags(queue, stack, p)
    BY <1>4, <2>1 DEF Flags, Settled
  <2>3. p \in AsyncFn => Function(queue, stack, p)
    BY <1>3, <1>4, <2>1 DEF Function, Untouched, Init
  <2>4. Custody(queue, stack, p)
    BY <1>4, <2>1 DEF Custody
  <2> QED
    BY <2>2, <2>3, <2>4 DEF Good
<1> QED
  BY <1>1, <1>5 DEF IInv

\* Every step keeps the invariant and changes no settled promise.
LEMMA NextStep == IInv /\ HostNext => IInv' /\ Fixed
<1> SUFFICES ASSUME IInv, HostNext PROVE IInv' /\ Fixed
  OBVIOUS
<1>1. \A e \in Plain : e \in Value
  BY DEF Value
<1>2. CASE ScriptStep
  <2>1. ASSUME NEW p \in Promise, NEW i \in DOMAIN pairs[p],
               (\E v \in Value : CallResolve(p, i, v)) \/ (\E e \in Plain : CallReject(p, i, e))
        PROVE  IInv' /\ Fixed
    BY <1>1, <2>1, CallStep
  <2>2. ASSUME NEW p \in Promise, (\E v \in Value : PromiseResolve(p, v)) \/ (\E e \in Plain : PromiseReject(p, e))
        PROVE  IInv' /\ Fixed
    BY <1>1, <2>2, ResolveStep
  <2> QED
    BY <1>2, <2>1, <2>2, NewPromiseStep, ThenStep, StartAsyncStep, AwaitStep, AwaitThenableStep DEF ScriptStep
<1>3. CASE ReturnStep
  <2>1. CASE Return \/ ForeignThrow
    <3>1. /\ stack # <<>> /\ stack' = Tail(stack)
          /\ Head(stack).kind \in {"script", "executor", "thencall", "foreign"}
          /\ UNCHANGED <<promiseVars, pairs, hidden, exec, queue, calls>>
      BY <2>1 DEF Return, ForeignThrow, Running, Top
    <3>2. draining' \in BOOLEAN
      BY <2>1 DEF Return, ForeignThrow, IInv, Types
    <3> QED
      BY <3>1, <3>2, ReturnStep1
  <2>2. CASE GetterCallable \/ GetterNotCallable \/ \E e \in Plain : GetterThrow(e)
    BY <2>2, GetterCallableStep, GetterSettleStep
  <2>3. CASE \E e \in Plain : ResolverThrow(e) \/ HandlerThrow(e) \/ AsyncThrow(e)
    BY <1>1, <2>3, ResolverThrowStep, HandlerStep, EndStep
  <2>4. CASE \E v \in Value : HandlerReturn(v) \/ AsyncReturn(v)
    BY <2>4, HandlerStep, EndStep
  <2> QED
    BY <1>3, <2>1, <2>2, <2>3, <2>4 DEF ReturnStep
<1>4. CASE JobStep
  BY <1>4, ReactionJobStep, AdoptJobStep, AsyncReactionJobStep, ResolveThenableJobStep DEF JobStep
<1>5. CASE StartScript \/ RunJobs \/ EndRun
  BY <1>5, HostStep
<1>6. CASE \E p \in Promise : HostPromise(p)
  BY <1>6, HostPromiseStep
<1>7. ASSUME NEW p \in Promise, (\E v \in Value : HostResolve(p, v)) \/ (\E e \in Plain : HostReject(p, e))
      PROVE  IInv' /\ Fixed
  BY <1>1, <1>7, HostCallStep
<1> QED
  BY <1>2, <1>3, <1>4, <1>5, <1>6, <1>7 DEF HostNext, Next

\* Every step or stutter keeps the invariant.
LEMMA NextIInv == IInv /\ [HostNext]_vars => IInv'
<1>1. IInv /\ UNCHANGED vars => IInv'
  BY DEF vars, IInv, Types, Good, Flags, Function, Custody, Untouched, Settled
<1> QED
  BY <1>1, NextStep

\* The invariant holds in every state that the script, the jobs and the host reach.
LEMMA Inductive == HostSpec => []IInv
BY InitIInv, NextIInv, PTL DEF HostSpec

-----------------------------------------------------------------------------
(* What the tokens say of the sets that the properties are about.          *)

\* Sequences over a set are sequences over a larger one.
LEMMA SeqMonotone ==
  ASSUME NEW S, NEW T, S \subseteq T, NEW s \in Seq(S)
  PROVE  s \in Seq(T)
<1>1. Len(s) \in Nat /\ s \in [1 .. Len(s) -> S]
  BY LenProperties
<1>2. s \in [1 .. Len(s) -> T]
  BY <1>1
<1> QED
  BY <1>1, <1>2, FunctionIsSeq

\* The indexes and the elements of the queue, the stack and the lists of reactions.
LEMMA Domains ==
  ASSUME IInv
  PROVE  /\ DOMAIN queue = 1 .. Len(queue) /\ DOMAIN stack = 1 .. Len(stack)
         /\ \A i \in 1 .. Len(queue) : queue[i] \in GoodJob
         /\ \A i \in 1 .. Len(stack) : stack[i] \in GoodFrame
         /\ \A q \in Promise : /\ DOMAIN reactions[q] = 1 .. Len(reactions[q])
                               /\ \A i \in 1 .. Len(reactions[q]) : reactions[q][i] \in GoodReaction
<1>1. /\ queue \in Seq(GoodJob) /\ stack \in Seq(GoodFrame)
      /\ \A q \in Promise : reactions[q] \in Seq(GoodReaction)
  BY DEF IInv, Types
<1> QED
  BY <1>1, LenProperties, ElementOfSeq

\* A set whose members are those equal to e.
LEMMA Singleton ==
  ASSUME NEW S, NEW e, \A c : c \in S <=> c = e
  PROVE  S = {e} /\ e \in S
<1>1. S \subseteq {e} /\ {e} \subseteq S
  OBVIOUS
<1> QED
  BY <1>1

\* The promises with tokens that resolve them are those that are being resolved.
LEMMA ResolvingTokens ==
  ASSUME IInv, NEW p \in Promise
  PROVE  /\ Absent(queue, reactions, stack, RES, p) =>
              Queued("thenable", p) = {} /\ Called("getter", p) = {}
         /\ Sole(queue, reactions, stack, RES, p) =>
              \/ Called("getter", p) = {} /\ \E i : Queued("thenable", p) = {i}
              \/ Queued("thenable", p) = {} /\ \E i : Called("getter", p) = {i}
<1>1. /\ \A i : i \in Queued("thenable", p) <=> i \in 1 .. Len(queue) /\ queue[i].kind \in RES /\ queue[i].who = p
      /\ \A i : i \in Called("getter", p) <=> i \in 1 .. Len(stack) /\ stack[i].kind \in RES /\ stack[i].who = p
      /\ \A q \in Promise : ~Once(reactions[q], RES, p)
  BY Domains DEF Queued, Called, RES, GoodJob, Job, GoodFrame, Frame, GoodReaction, Reaction, Once
<1>2. Nowhere(queue, RES, p) => Queued("thenable", p) = {}
  BY <1>1 DEF Nowhere
<1>3. Nowhere(stack, RES, p) => Called("getter", p) = {}
  BY <1>1 DEF Nowhere
<1>4. ASSUME Once(queue, RES, p)
      PROVE  \E i : Queued("thenable", p) = {i}
  <2>1. PICK i \in 1 .. Len(queue) : /\ queue[i].kind \in RES /\ queue[i].who = p
                                     /\ \A j \in 1 .. Len(queue) : queue[j].kind \in RES /\ queue[j].who = p => j = i
    BY <1>4 DEF Once
  <2>2. \A k : k \in Queued("thenable", p) <=> k = i
    BY <1>1, <2>1
  <2>3. Queued("thenable", p) = {i}
    BY <2>2, Singleton
  <2> QED
    BY <2>3
<1>5. ASSUME Once(stack, RES, p)
      PROVE  \E i : Called("getter", p) = {i}
  <2>1. PICK i \in 1 .. Len(stack) : /\ stack[i].kind \in RES /\ stack[i].who = p
                                     /\ \A j \in 1 .. Len(stack) : stack[j].kind \in RES /\ stack[j].who = p => j = i
    BY <1>5 DEF Once
  <2>2. \A k : k \in Called("getter", p) <=> k = i
    BY <1>1, <2>1
  <2>3. Called("getter", p) = {i}
    BY <2>2, Singleton
  <2> QED
    BY <2>3
<1> QED
  BY <1>1, <1>2, <1>3, <1>4, <1>5 DEF Absent, Sole

\* The members of the sets that the properties count.
LEMMA CollectedMembers ==
  ASSUME IInv, NEW k, NEW p
  PROVE  \A c : c \in Collected(k, p) <=>
                  \E q \in Promise : \E i \in 1 .. Len(reactions[q]) :
                    reactions[q][i].kind = k /\ reactions[q][i].who = p /\ c = <<q, i>>
<1>1. \A q \in Promise : DOMAIN reactions[q] = 1 .. Len(reactions[q])
  BY Domains
<1> QED
  BY <1>1 DEF Collected

\* Custodians are tokens: each is a job, a reaction or a handler that names the promise.
LEMMA CustodianMembers ==
  ASSUME IInv, NEW p \in Promise
  PROVE  \A c : c \in Custodians(p) <=>
           \/ \E i \in 1 .. Len(queue) : /\ queue[i].kind \in CUS /\ queue[i].who = p
                                         /\ c = <<queue[i].kind, "queue", i>>
           \/ \E q \in Promise : \E i \in 1 .. Len(reactions[q]) :
                                         /\ reactions[q][i].kind \in CUS /\ reactions[q][i].who = p
                                         /\ c = <<reactions[q][i].kind, "promise", <<q, i>>>>
           \/ \E i \in 1 .. Len(stack) : /\ stack[i].kind \in CUS /\ stack[i].who = p
                                         /\ c = <<"handler", "stack", i>>
<1> TAKE c
<1>1. /\ DOMAIN queue = 1 .. Len(queue) /\ DOMAIN stack = 1 .. Len(stack)
      /\ \A i \in 1 .. Len(queue) : queue[i].kind \in CUS <=> queue[i].kind \in {"then", "adopt"}
      /\ \A i \in 1 .. Len(stack) : stack[i].kind \in CUS <=> stack[i].kind = "handler"
      /\ \A q \in Promise : \A i \in 1 .. Len(reactions[q]) :
            reactions[q][i].kind \in CUS <=> reactions[q][i].kind \in {"then", "adopt"}
  BY Domains DEF CUS, GoodJob, Job, GoodFrame, Frame, GoodReaction, Reaction
<1>2. c \in JobsFor(p) <=>
        \E i \in 1 .. Len(queue) : /\ queue[i].kind \in CUS /\ queue[i].who = p
                                   /\ c = <<queue[i].kind, "queue", i>>
  BY <1>1 DEF JobsFor, Queued
<1>3. c \in ReactionsFor(p) <=>
        \E q \in Promise : \E i \in 1 .. Len(reactions[q]) :
                                   /\ reactions[q][i].kind \in CUS /\ reactions[q][i].who = p
                                   /\ c = <<reactions[q][i].kind, "promise", <<q, i>>>>
  <2>1. c \in ReactionsFor(p) <=>
          \E k \in {"then", "adopt"} : \E d \in Collected(k, p) : c = <<k, "promise", d>>
    BY DEF ReactionsFor
  <2>2. \A k : \A d : d \in Collected(k, p) <=>
                  \E q \in Promise : \E i \in 1 .. Len(reactions[q]) :
                    reactions[q][i].kind = k /\ reactions[q][i].who = p /\ d = <<q, i>>
    BY CollectedMembers
  <2> QED
    BY <1>1, <2>1, <2>2
<1>4. c \in HandlersFor(p) <=>
        \E i \in 1 .. Len(stack) : /\ stack[i].kind \in CUS /\ stack[i].who = p
                                   /\ c = <<"handler", "stack", i>>
  BY <1>1 DEF HandlersFor, Called
<1>5. c \in Custodians(p) <=> c \in JobsFor(p) \/ c \in ReactionsFor(p) \/ c \in HandlersFor(p)
  BY DEF Custodians
<1> QED
  BY <1>2, <1>3, <1>4, <1>5, Zenon

\* No token without a custodian, one token is one custodian.
LEMMA CustodyTokens ==
  ASSUME IInv, NEW p \in Promise
  PROVE  /\ Absent(queue, reactions, stack, CUS, p) =>
              /\ Custodians(p) = {}
              /\ \A k \in {"then", "adopt"} : Queued(k, p) = {} /\ Collected(k, p) = {}
              /\ Called("handler", p) = {}
         /\ Sole(queue, reactions, stack, CUS, p) => \E c \in Custodians(p) : Custodians(p) = {c}
<1>1. \A c : c \in Custodians(p) <=>
           \/ \E i \in 1 .. Len(queue) : /\ queue[i].kind \in CUS /\ queue[i].who = p
                                         /\ c = <<queue[i].kind, "queue", i>>
           \/ \E q \in Promise : \E i \in 1 .. Len(reactions[q]) :
                                         /\ reactions[q][i].kind \in CUS /\ reactions[q][i].who = p
                                         /\ c = <<reactions[q][i].kind, "promise", <<q, i>>>>
           \/ \E i \in 1 .. Len(stack) : /\ stack[i].kind \in CUS /\ stack[i].who = p
                                         /\ c = <<"handler", "stack", i>>
  BY CustodianMembers
<1>2. ASSUME Absent(queue, reactions, stack, CUS, p)
      PROVE  /\ Custodians(p) = {}
             /\ \A k \in {"then", "adopt"} : Queued(k, p) = {} /\ Collected(k, p) = {}
             /\ Called("handler", p) = {}
  <2>1. Custodians(p) = {}
    BY <1>1, <1>2 DEF Absent, Nowhere
  <2>2. \A k \in {"then", "adopt"} : Queued(k, p) = {}
    BY <1>2, Domains DEF Absent, Nowhere, CUS, Queued
  <2>3. ASSUME NEW k \in {"then", "adopt"}, NEW c, c \in Collected(k, p)
        PROVE  FALSE
    <3>1. \E q \in Promise : \E i \in 1 .. Len(reactions[q]) :
             reactions[q][i].kind = k /\ reactions[q][i].who = p
      BY <2>3, CollectedMembers
    <3> QED
      BY <1>2, <3>1 DEF Absent, Nowhere, CUS
  <2>4. Called("handler", p) = {}
    BY <1>2, Domains DEF Absent, Nowhere, CUS, Called
  <2> QED
    BY <2>1, <2>2, <2>3, <2>4
<1>3. ASSUME Once(queue, CUS, p), Nowhere(stack, CUS, p), \A q \in Promise : Nowhere(reactions[q], CUS, p)
      PROVE  \E c \in Custodians(p) : Custodians(p) = {c}
  <2>1. PICK i \in 1 .. Len(queue) : /\ queue[i].kind \in CUS /\ queue[i].who = p
                                     /\ \A j \in 1 .. Len(queue) : queue[j].kind \in CUS /\ queue[j].who = p => j = i
    BY <1>3 DEF Once
  <2>2. \A c : c \in Custodians(p) <=> c = <<queue[i].kind, "queue", i>>
    BY <1>1, <1>3, <2>1 DEF Nowhere
  <2>3. Custodians(p) = {<<queue[i].kind, "queue", i>>} /\ <<queue[i].kind, "queue", i>> \in Custodians(p)
    BY <2>2, Singleton
  <2> QED
    BY <2>3
<1>4. ASSUME Nowhere(queue, CUS, p), Once(stack, CUS, p), \A q \in Promise : Nowhere(reactions[q], CUS, p)
      PROVE  \E c \in Custodians(p) : Custodians(p) = {c}
  <2>1. PICK i \in 1 .. Len(stack) : /\ stack[i].kind \in CUS /\ stack[i].who = p
                                     /\ \A j \in 1 .. Len(stack) : stack[j].kind \in CUS /\ stack[j].who = p => j = i
    BY <1>4 DEF Once
  <2>2. \A c : c \in Custodians(p) <=> c = <<"handler", "stack", i>>
    BY <1>1, <1>4, <2>1 DEF Nowhere
  <2>3. Custodians(p) = {<<"handler", "stack", i>>} /\ <<"handler", "stack", i>> \in Custodians(p)
    BY <2>2, Singleton
  <2> QED
    BY <2>3
<1>5. ASSUME Nowhere(queue, CUS, p), Nowhere(stack, CUS, p), NEW q \in Promise, Once(reactions[q], CUS, p),
             \A r \in Promise \ {q} : Nowhere(reactions[r], CUS, p)
      PROVE  \E c \in Custodians(p) : Custodians(p) = {c}
  <2>1. PICK i \in 1 .. Len(reactions[q]) :
           /\ reactions[q][i].kind \in CUS /\ reactions[q][i].who = p
           /\ \A j \in 1 .. Len(reactions[q]) : reactions[q][j].kind \in CUS /\ reactions[q][j].who = p => j = i
    BY <1>5 DEF Once
  <2>2. \A r \in Promise : \A j \in 1 .. Len(reactions[r]) :
           reactions[r][j].kind \in CUS /\ reactions[r][j].who = p => r = q /\ j = i
    BY <1>5, <2>1 DEF Nowhere
  <2>3. \A c : c \in Custodians(p) <=> c = <<reactions[q][i].kind, "promise", <<q, i>>>>
    BY <1>1, <1>5, <2>1, <2>2 DEF Nowhere
  <2>4. Custodians(p) = {<<reactions[q][i].kind, "promise", <<q, i>>>>} /\ <<reactions[q][i].kind, "promise", <<q, i>>>> \in Custodians(p)
    BY <2>3, Singleton
  <2> QED
    BY <2>4
<1> QED
  BY <1>2, <1>3, <1>4, <1>5 DEF Sole

\* No token holds an async function, or one does.
LEMMA AwaitTokens ==
  ASSUME IInv, NEW x
  PROVE  LET holders == {<<"queue", i>> : i \in Queued("await", x)}
                        \cup {<<"promise", c>> : c \in Collected("await", x)}
         IN /\ Absent(queue, reactions, stack, AWAIT, x) => holders = {}
            /\ Sole(queue, reactions, stack, AWAIT, x) => \E h \in holders : holders = {h}
<1> DEFINE holders == {<<"queue", i>> : i \in Queued("await", x)}
                      \cup {<<"promise", c>> : c \in Collected("await", x)}
<1>1. \A h : h \in holders <=>
         \/ \E i \in 1 .. Len(queue) : queue[i].kind \in AWAIT /\ queue[i].who = x /\ h = <<"queue", i>>
         \/ \E q \in Promise : \E i \in 1 .. Len(reactions[q]) :
               reactions[q][i].kind \in AWAIT /\ reactions[q][i].who = x /\ h = <<"promise", <<q, i>>>>
  <2>1. \A i : i \in Queued("await", x) <=> i \in 1 .. Len(queue) /\ queue[i].kind \in AWAIT /\ queue[i].who = x
    BY Domains DEF Queued, AWAIT
  <2>2. \A c : c \in Collected("await", x) <=>
                  \E q \in Promise : \E i \in 1 .. Len(reactions[q]) :
                    reactions[q][i].kind \in AWAIT /\ reactions[q][i].who = x /\ c = <<q, i>>
    BY CollectedMembers DEF AWAIT
  <2> QED
    BY <2>1, <2>2
<1> HIDE DEF holders
<1>2. Absent(queue, reactions, stack, AWAIT, x) => holders = {}
  BY <1>1 DEF Absent, Nowhere
<1>3. ~Once(stack, AWAIT, x)
  BY Domains DEF Once, AWAIT, GoodFrame, Frame
<1>4. ASSUME Once(queue, AWAIT, x), \A q \in Promise : Nowhere(reactions[q], AWAIT, x)
      PROVE  \E h \in holders : holders = {h}
  <2>1. PICK i \in 1 .. Len(queue) : /\ queue[i].kind \in AWAIT /\ queue[i].who = x
                                     /\ \A j \in 1 .. Len(queue) : queue[j].kind \in AWAIT /\ queue[j].who = x => j = i
    BY <1>4 DEF Once
  <2>2. \A h : h \in holders <=> h = <<"queue", i>>
    BY <1>1, <1>4, <2>1 DEF Nowhere
  <2>3. holders = {<<"queue", i>>} /\ <<"queue", i>> \in holders
    BY <2>2, Singleton
  <2> QED
    BY <2>3
<1>5. ASSUME Nowhere(queue, AWAIT, x), NEW q \in Promise, Once(reactions[q], AWAIT, x),
             \A r \in Promise \ {q} : Nowhere(reactions[r], AWAIT, x)
      PROVE  \E h \in holders : holders = {h}
  <2>1. PICK i \in 1 .. Len(reactions[q]) :
           /\ reactions[q][i].kind \in AWAIT /\ reactions[q][i].who = x
           /\ \A j \in 1 .. Len(reactions[q]) : reactions[q][j].kind \in AWAIT /\ reactions[q][j].who = x => j = i
    BY <1>5 DEF Once
  <2>2. \A r \in Promise : \A j \in 1 .. Len(reactions[r]) :
           reactions[r][j].kind \in AWAIT /\ reactions[r][j].who = x => r = q /\ j = i
    BY <1>5, <2>1 DEF Nowhere
  <2>3. \A h : h \in holders <=> h = <<"promise", <<q, i>>>>
    BY <1>1, <1>5, <2>1, <2>2 DEF Nowhere
  <2>4. holders = {<<"promise", <<q, i>>>>} /\ <<"promise", <<q, i>>>> \in holders
    BY <2>3, Singleton
  <2> QED
    BY <2>4
<1>6. Sole(queue, reactions, stack, AWAIT, x) => \E h \in holders : holders = {h}
  BY <1>3, <1>4, <1>5 DEF Sole
<1> QED
  BY <1>2, <1>6 DEF holders

-----------------------------------------------------------------------------
(* The properties follow from the invariant.                               *)

\* The types of the invariant are those of the model.
LEMMA ImpliesTypeOK ==
  ASSUME IInv
  PROVE  TypeOK
<1>1. GoodJob \subseteq Job /\ GoodFrame \subseteq Frame /\ GoodReaction \subseteq Reaction
  BY DEF GoodJob, GoodFrame, GoodReaction
<1>2. queue \in Seq(Job)
  BY <1>1, SeqMonotone DEF IInv
<1>3. stack \in Seq(Frame)
  BY <1>1, SeqMonotone DEF IInv
<1>4. reactions \in [Promise -> Seq(Reaction)]
  <2>1. Seq(GoodReaction) \subseteq Seq(Reaction)
    BY <1>1, SeqMonotone
  <2> QED
    BY <2>1 DEF IInv, Types
<1> QED
  BY <1>2, <1>3, <1>4 DEF IInv, Types, TypeOK

\* At most one token resolves a promise.
LEMMA ImpliesOneResolution ==
  ASSUME IInv
  PROVE  OneResolution
<1> SUFFICES ASSUME NEW p \in Promise
             PROVE  /\ Resolving(p) => state[p] = "pending"
                    /\ \A i, j \in Queued("thenable", p) : i = j
                    /\ \A i, j \in Called("getter", p) : i = j
                    /\ Queued("thenable", p) = {} \/ Called("getter", p) = {}
  BY DEF OneResolution
<1>1. Flags(queue, stack, p)
  BY DEF IInv, Good
<1>2. CASE Absent(queue, reactions, stack, RES, p)
  <2>1. Queued("thenable", p) = {} /\ Called("getter", p) = {}
    BY <1>2, ResolvingTokens
  <2> QED
    BY <2>1 DEF Resolving
<1>3. CASE Sole(queue, reactions, stack, RES, p) /\ state[p] = "pending"
  <2>1. \/ Called("getter", p) = {} /\ \E i : Queued("thenable", p) = {i}
        \/ Queued("thenable", p) = {} /\ \E i : Called("getter", p) = {i}
    BY <1>3, ResolvingTokens
  <2> QED
    BY <1>3, <2>1
<1> QED
  BY <1>1, <1>2, <1>3 DEF Flags

\* A promise with one token that resolves it is being resolved.
LEMMA SoleResolves ==
  ASSUME IInv, NEW p \in Promise, Sole(queue, reactions, stack, RES, p)
  PROVE  Resolving(p)
<1>1. \/ \E i : Queued("thenable", p) = {i}
      \/ \E i : Called("getter", p) = {i}
  BY ResolvingTokens
<1> QED
  BY <1>1 DEF Resolving

\* The flag agrees with the tokens.
LEMMA ImpliesAlreadyResolved ==
  ASSUME IInv
  PROVE  AlreadyResolved
<1> SUFFICES ASSUME NEW p \in Promise
             PROVE  /\ state[p] = "pending" /\ already[p] => Resolving(p)
                    /\ Settled(p) /\ ~already[p] =>
                         /\ pairs[p] = <<>>
                         /\ \A k \in {"then", "adopt"} : Queued(k, p) = {} /\ Collected(k, p) = {}
                         /\ \A k \in {"executor", "thencall", "handler"} : Called(k, p) = {}
  BY DEF AlreadyResolved
<1>1. Flags(queue, stack, p)
  BY DEF IInv, Good
<1>2. state[p] = "pending" /\ already[p] => Resolving(p)
  BY <1>1, SoleResolves DEF Flags
<1>3. ASSUME Settled(p), ~already[p]
      PROVE  /\ pairs[p] = <<>>
             /\ \A k \in {"then", "adopt"} : Queued(k, p) = {} /\ Collected(k, p) = {}
             /\ \A k \in {"executor", "thencall", "handler"} : Called(k, p) = {}
  <2>1. pairs[p] = <<>> /\ Absent(queue, reactions, stack, CUS, p) /\ Nowhere(stack, CODE, p)
    BY <1>1, <1>3 DEF Flags, Untouched
  <2>2. /\ \A k \in {"then", "adopt"} : Queued(k, p) = {} /\ Collected(k, p) = {}
        /\ Called("handler", p) = {}
    BY <2>1, CustodyTokens
  <2>3. \A k \in {"executor", "thencall"} : Called(k, p) = {}
    BY <2>1, Domains DEF Nowhere, CODE, Called
  <2> QED
    BY <2>1, <2>2, <2>3
<1> QED
  BY <1>2, <1>3

\* A promise that the host does not settle has its one token.
LEMMA ImpliesNoOrphan ==
  ASSUME IInv
  PROVE  NoOrphan
<1> SUFFICES ASSUME NEW p \in Promise \ Settleable,
                    state[p] = "pending", ~Resolving(p), pairs[p] = <<>>
             PROVE  \/ p \in AsyncFn /\ exec[p] # "done" /\ Custodians(p) = {}
                    \/ \E c \in Custodians(p) : Custodians(p) = {c}
  BY DEF NoOrphan, Owned
<1>1. Custody(queue, stack, p)
  BY DEF IInv, Good
<1>2. ~Sole(queue, reactions, stack, RES, p)
  BY SoleResolves
<1>3. \/ /\ Absent(queue, reactions, stack, CUS, p)
         /\ p \in AsyncFn /\ exec[p] # "done"
      \/ Sole(queue, reactions, stack, CUS, p)
  BY <1>1, <1>2 DEF Custody
<1> QED
  BY <1>3, CustodyTokens

\* One token resumes an async function that awaits.
LEMMA ImpliesResumedOnce ==
  ASSUME IInv
  PROVE  ResumedOnce
<1> SUFFICES ASSUME NEW x \in AsyncFn
             PROVE  LET holders == {<<"queue", i>> : i \in Queued("await", x)}
                                   \cup {<<"promise", c>> : c \in Collected("await", x)}
                    IN  IF exec[x] = "awaiting"
                        THEN /\ \E h \in holders : holders = {h}
                             /\ \A q \in Promise : Settled(q) => reactions[q] = <<>>
                             /\ Called("async", x) = {}
                        ELSE holders = {}
  BY DEF ResumedOnce
<1> DEFINE holders == {<<"queue", i>> : i \in Queued("await", x)}
                      \cup {<<"promise", c>> : c \in Collected("await", x)}
<1>1. x \in Promise
  BY ValueAssumption
<1>2. Function(queue, stack, x)
  BY <1>1 DEF IInv, Good
<1>3. /\ Absent(queue, reactions, stack, AWAIT, x) => holders = {}
      /\ Sole(queue, reactions, stack, AWAIT, x) => \E h \in holders : holders = {h}
  BY AwaitTokens
<1> HIDE DEF holders
<1>4. \A q \in Promise : Settled(q) => reactions[q] = <<>>
  BY DEF IInv, Good, Flags, Settled
<1>5. exec[x] = "awaiting" => Called("async", x) = {}
  BY <1>2, Domains DEF Function, RunsNowhere, Runs, Called
<1>6. IF exec[x] = "awaiting"
      THEN /\ \E h \in holders : holders = {h}
           /\ \A q \in Promise : Settled(q) => reactions[q] = <<>>
           /\ Called("async", x) = {}
      ELSE holders = {}
  BY <1>2, <1>3, <1>4, <1>5 DEF Function
<1> QED
  BY <1>6 DEF holders

-----------------------------------------------------------------------------

\* The types of all variables, the jobs, the collected reactions and the calls in
\* progress included (ecma-promise-object.c, ecma-jobqueue.c).
THEOREM TypesHold == HostSpec => []TypeOK
BY Inductive, ImpliesTypeOK, PTL

\* A promise is resolved by one value at a time and is pending meanwhile, whatever the
\* getters, handlers and thenables of the script and the host do in between.
THEOREM ResolvedByOneValue == HostSpec => []OneResolution
BY Inductive, ImpliesOneResolution, PTL

\* The flag ALREADY_RESOLVED is only set on a pending promise that is being resolved,
\* and is set on every settled one that somebody could still try to resolve.
THEOREM FlagTellsTheTruth == HostSpec => []AlreadyResolved
BY Inductive, ImpliesAlreadyResolved, PTL

\* A pending promise that the host does not settle always has exactly one party left
\* that will: a resolution, a reaction, a job, a handler, or its async function.
THEOREM NobodyIsOrphaned == HostSpec => []NoOrphan
BY Inductive, ImpliesNoOrphan, PTL

\* The await of an async function is resumed by exactly one reaction or job, and a
\* function that runs or has ended by none (ecma_process_promise_async_reaction_job).
THEOREM AwaitsResumeOnce == HostSpec => []ResumedOnce
BY Inductive, ImpliesResumedOnce, PTL

\* A settled promise keeps its state and its value: the assertions that a promise is
\* pending at ecma-promise-object.c:195 and 247 hold in every run.
THEOREM SettledForGood == HostSpec => AssertedPending
<1>1. IInv /\ [HostNext]_vars => [\A p \in Promise : Settled(p) => state'[p] = state[p] /\ result'[p] = result[p]]_vars
  BY NextStep DEF Fixed
<1> QED
  BY Inductive, <1>1, PTL DEF HostSpec, AssertedPending

=============================================================================
