-------------------------- MODULE PromiseAllProofs --------------------------
(***************************************************************************)
(* PromiseAll for any number of elements of any shape: the count, the      *)
(* array and the outcome of the derived promise agree.                     *)
(***************************************************************************)
EXTENDS PromiseAll, FiniteSetTheorems, SequenceTheorems, TLAPS

\* How far the loop and the array have come: one entry per element, and one more
\* while the constructor's `resolve` runs, or when it threw.
Progress ==
  /\ pc \in {"begin", "lookup"} => idx = 0
  /\ pc = "resolve" => idx < MaxElements
  /\ pc = "then" => idx > 0
  /\ routine # "race" =>
       /\ Len(values) \in {idx, idx + 1}
       /\ pc = "resolve" => Len(values) = idx + 1
       /\ pc \notin {"resolve", "closing", "failed"} => Len(values) = idx

\* The functions that are not called yet belong to elements that were reached.
Functions ==
  \A w \in Way, i \in Element : index[<<w, i>>] # 0 => i <= idx /\ w \in Counting(routine)

\* An entry is written exactly when a function of its element was called.
Entries ==
  routine # "race" =>
    \A i \in DOMAIN values : values[i] = Hole <=> i \in Waiting \/ i > idx

IInv == /\ TypeOK
        /\ Progress
        /\ Functions
        /\ Entries
        /\ RemainingCounts
        /\ CompleteResult
        /\ NobodyWaits

-----------------------------------------------------------------------------

\* Which functions the routines count with.
LEMMA CountingCases ==
  ASSUME TypeOK
  PROVE  /\ Counting(routine) \subseteq Way
         /\ routine = "race" => Counting(routine) = {}
         /\ routine # "race" => Counting(routine) # {}
         /\ routine = "allSettled" => Counting(routine) = Way
         /\ routine # "allSettled" => \A w, x \in Counting(routine) : w = x
  BY PromiseAllAssumption DEF TypeOK, Counting, Way

\* The elements that are waited for can be counted.
LEMMA WaitingIsFinite ==
  ASSUME TypeOK
  PROVE  /\ Waiting \subseteq 1 .. idx
         /\ IsFiniteSet(Waiting)
         /\ Cardinality(Waiting) \in Nat
         /\ Cardinality(Waiting) = 0 <=> Waiting = {}
<1>1. idx \in Nat
  BY PromiseAllAssumption DEF TypeOK
<1>2. IsFiniteSet(1 .. idx)
  BY <1>1, FS_Interval
<1>3. Waiting \subseteq 1 .. idx
  BY DEF Waiting
<1>4. IsFiniteSet(Waiting)
  BY <1>2, <1>3, FS_Subset
<1> QED BY <1>3, <1>4, FS_CardinalityType, FS_EmptySet

\* Nobody is waited for initially.
LEMMA InitIInv == Init => IInv
<1> SUFFICES ASSUME Init PROVE IInv
  OBVIOUS
<1> USE PromiseAllAssumption
<1>1. TypeOK
  BY DEF Init, TypeOK, Element, Way
<1>2. Waiting = {}
  BY <1>1 DEF Init, Waiting, TypeOK
<1>3. Cardinality(Waiting) = 0
  BY <1>2, FS_EmptySet
<1>4. Progress /\ Functions /\ Entries
  BY DEF Init, Progress, Functions, Entries
<1>5. RemainingCounts /\ CompleteResult /\ NobodyWaits
  BY <1>3 DEF Init, RemainingCounts, CompleteResult, NobodyWaits
<1> QED BY <1>1, <1>4, <1>5 DEF IInv

\* A step of the loop that neither counts nor writes an entry.
LEMMA QuietStep ==
  ASSUME IInv, UNCHANGED <<routine, idx, shape, index, values, remaining>>,
         \/ GetIterator \/ GetIteratorThrows \/ Lookup \/ IteratorThrows
         \/ ThenReturns \/ LoopThrows \/ CloseIterator
  PROVE  IInv'
<1> USE PromiseAllAssumption DEF IInv, First
<1> DEFINE Ends == GetIteratorThrows \/ IteratorThrows \/ CloseIterator
<1>1. /\ pc # "finished" /\ pc' # "finished"
      /\ pc' \in {"lookup", "next", "closing", "failed"}
      /\ pc' = "failed" => Ends
      /\ Ends => outcome' = First("exception")
      /\ ~Ends => outcome' = outcome
      /\ pc' = "lookup" => pc = "begin"
      /\ pc' = "next" => pc \in {"lookup", "then"}
  BY DEF GetIterator, GetIteratorThrows, Lookup, IteratorThrows, ThenReturns, LoopThrows,
         CloseIterator, countVars
<1>2. reacting' \subseteq 1 .. idx
  <2>1. CASE ThenReturns /\ shape[idx] = "promise"
    <3>1. idx # 0
      BY <2>1 DEF TypeOK, Progress, ThenReturns
    <3> QED BY <2>1, <3>1 DEF TypeOK, ThenReturns
  <2>2. CASE ~(ThenReturns /\ shape[idx] = "promise")
    BY <2>2 DEF TypeOK, GetIterator, GetIteratorThrows, Lookup, IteratorThrows, ThenReturns,
                LoopThrows, CloseIterator
  <2> QED BY <2>1, <2>2
<1>3. TypeOK'
  BY <1>1, <1>2 DEF TypeOK
<1>4. Waiting' = Waiting /\ Twice' = Twice
  BY DEF Waiting, Twice
<1>5. Progress' /\ Functions' /\ Entries'
  BY <1>1, <1>4 DEF Progress, Functions, Entries
<1>6. RemainingCounts'
  BY <1>1, <1>4 DEF RemainingCounts
<1>7. CompleteResult'
  BY <1>1, <1>4 DEF CompleteResult
<1>8. NobodyWaits'
  BY <1>1, <1>4 DEF NobodyWaits
<1> QED BY <1>3, <1>5, <1>6, <1>7, <1>8

\* The iterator yields an element: its entry is a hole behind the others.
LEMMA NextValueStep == ASSUME IInv, NextValue PROVE IInv'
<1> USE PromiseAllAssumption DEF IInv
<1>1. /\ pc = "next" /\ pc' = "resolve" /\ idx < MaxElements
      /\ values' = IF routine = "race" THEN values ELSE Append(values, Hole)
      /\ UNCHANGED <<routine, idx, shape, reacting, index, remaining, outcome>>
  BY DEF NextValue
<1>2. values \in Seq(Entry \cup {Hole}) /\ Hole \in Entry \cup {Hole}
  BY DEF TypeOK
<1>3. /\ Append(values, Hole) \in Seq(Entry \cup {Hole})
      /\ Len(Append(values, Hole)) = Len(values) + 1
      /\ Append(values, Hole)[Len(values) + 1] = Hole
      /\ \A i \in 1 .. Len(values) : Append(values, Hole)[i] = values[i]
      /\ Len(values) \in Nat
      /\ DOMAIN values = 1 .. Len(values)
      /\ DOMAIN Append(values, Hole) = 1 .. (Len(values) + 1)
  BY <1>2, AppendProperties, LenProperties
<1>4. TypeOK'
  BY <1>1, <1>2, <1>3 DEF TypeOK
<1>5. Waiting' = Waiting /\ Twice' = Twice
  BY <1>1 DEF Waiting, Twice
<1>6. Progress'
  BY <1>1, <1>3 DEF Progress, TypeOK
<1>7. Functions'
  BY <1>1 DEF Functions
<1>8. Entries'
  <2>1. CASE routine = "race"
    BY <2>1, <1>1 DEF Entries
  <2>2. CASE routine # "race"
    <3>1. Len(values) = idx
      BY <2>2, <1>1 DEF Progress
    <3>2. ASSUME NEW i \in DOMAIN values'
          PROVE  values'[i] = Hole <=> i \in Waiting' \/ i > idx'
      <4>1. CASE i \in 1 .. Len(values)
        BY <4>1, <2>2, <1>1, <1>3, <1>5 DEF Entries
      <4>2. CASE i = Len(values) + 1
        BY <4>2, <2>2, <3>1, <1>1, <1>3
      <4> QED BY <4>1, <4>2, <3>2, <2>2, <1>1, <1>3
    <3> QED BY <3>2 DEF Entries
  <2> QED BY <2>1, <2>2
<1>9. RemainingCounts' /\ CompleteResult' /\ NobodyWaits'
  BY <1>1, <1>5 DEF RemainingCounts, CompleteResult, NobodyWaits
<1> QED BY <1>4, <1>6, <1>7, <1>8, <1>9

\* The loop gives up its part of the count.
LEMMA IteratorEndsStep == ASSUME IInv, IteratorEnds PROVE IInv'
<1> USE PromiseAllAssumption DEF IInv
<1>1. /\ pc = "next" /\ pc' = "finished"
      /\ UNCHANGED <<routine, idx, shape, reacting, index, values>>
      /\ routine = "race" => UNCHANGED <<remaining, outcome>>
      /\ routine # "race" => CountDown
  BY DEF IteratorEnds
<1>2. Waiting' = Waiting /\ Twice' = Twice
  BY <1>1 DEF Waiting, Twice
<1>3. Cardinality(Waiting) \in Nat /\ (Cardinality(Waiting) = 0 <=> Waiting = {})
  BY WaitingIsFinite
<1>4. TypeOK'
  BY <1>1 DEF TypeOK, CountDown, Decremented, First
<1>5. Progress' /\ Functions' /\ Entries'
  BY <1>1, <1>2 DEF Progress, Functions, Entries
<1>6. CASE routine = "race" \/ Twice
  <2>1. RemainingCounts'
    BY <1>6, <1>1, <1>2 DEF RemainingCounts
  <2>2. CompleteResult'
    <3>1. CASE Twice
      BY <3>1, <1>2 DEF CompleteResult
    <3>2. CASE routine = "race" /\ ~Twice
      BY <3>2, <1>1 DEF CompleteResult
    <3> QED BY <3>1, <3>2, <1>6
  <2>3. NobodyWaits'
    BY <1>6, <1>1, <1>2 DEF NobodyWaits
  <2> QED BY <2>1, <2>2, <2>3, <1>4, <1>5
<1>7. CASE routine # "race" /\ ~Twice
  <2>1. /\ remaining = Cardinality(Waiting) + 1
        /\ remaining' = Cardinality(Waiting)
    BY <1>7, <1>1, <1>3 DEF RemainingCounts, CountDown, Decremented
  <2>2. Len(values) = idx /\ DOMAIN values = 1 .. Len(values)
    BY <1>7, <1>1, LenProperties DEF Progress, TypeOK
  <2>3. remaining' = 0 => \A i \in DOMAIN values : values[i] # Hole
    BY <2>1, <2>2, <1>7, <1>3 DEF Entries, TypeOK
  <2>4. outcome \notin {"values", "aggregate"}
    BY <1>7, <1>1 DEF CompleteResult
  <2>5. /\ remaining' = 0 => outcome' # "pending"
        /\ remaining' # 0 => outcome' = outcome
    BY <1>7, <1>1 DEF CountDown, First
  <2>6. RemainingCounts' /\ NobodyWaits'
    BY <2>1, <2>5, <1>1, <1>2, <1>3 DEF RemainingCounts, NobodyWaits
  <2>7. CompleteResult'
    BY <2>3, <2>4, <2>5, <1>1 DEF CompleteResult
  <2> QED BY <2>6, <2>7, <1>4, <1>5
<1> QED BY <1>4, <1>5, <1>6, <1>7

\* A new element is waited for, and counted.
LEMMA CallThenStep == ASSUME IInv, NEW s \in Shape, CallThen(s) PROVE IInv'
<1> USE PromiseAllAssumption DEF IInv
<1>1. /\ pc = "resolve" /\ pc' = "then" /\ idx' = idx + 1
      /\ shape' = [shape EXCEPT ![idx + 1] = s]
      /\ remaining' = IF routine = "race" THEN remaining ELSE Incremented(remaining)
      /\ UNCHANGED <<routine, reacting, values, outcome>>
  BY DEF CallThen
<1>2. /\ idx \in Nat /\ idx + 1 \in Element /\ idx + 1 # 0
      /\ \A i \in 1 .. idx : i \in Element
  BY <1>1 DEF Progress, TypeOK, Element
<1>3. \A w \in Way, i \in Element :
        index'[<<w, i>>] = IF i = idx + 1 /\ w \in Counting(routine) THEN idx + 1
                           ELSE index[<<w, i>>]
  BY DEF CallThen, TypeOK
<1>4. index' \in [Way \X Element -> 0 .. MaxElements]
  BY <1>2 DEF CallThen, TypeOK, Element
<1>5. TypeOK'
  <2>1. reacting' \subseteq 1 .. idx'
    BY <1>1, <1>2 DEF TypeOK
  <2>2. shape' \in [Element -> Shape \cup {"none"}]
    BY <1>1, <1>2 DEF TypeOK
  <2>3. remaining' \in Nat \cup {Float, Broken}
    BY <1>1 DEF TypeOK, Incremented
  <2>4. idx' \in 0 .. MaxElements
    BY <1>1, <1>2 DEF Element
  <2> QED BY <1>1, <1>4, <2>1, <2>2, <2>3, <2>4 DEF TypeOK
<1>6. Waiting' = Waiting \cup {idx + 1}
  <2>1. Counting(routine) \subseteq Way
    BY CountingCases
  <2>2. \A i \in 1 .. idx : \A w \in Counting(routine) : index'[<<w, i>>] = index[<<w, i>>]
    BY <2>1, <1>2, <1>3
  <2>3. \A w \in Counting(routine) : index'[<<w, idx + 1>>] # 0
    BY <2>1, <1>2, <1>3
  <2>4. 1 .. idx' = (1 .. idx) \cup {idx + 1}
    BY <1>1, <1>2
  <2> QED BY <2>2, <2>3, <2>4, <1>1 DEF Waiting
<1>7. ~Twice' => ~Twice
  <2>1. \A i \in 1 .. idx : i \in 1 .. idx' /\ \A w \in Way : index'[<<w, i>>] = index[<<w, i>>]
    BY <1>1, <1>2, <1>3
  <2> QED BY <2>1, <1>1 DEF Twice
<1>8. /\ Cardinality(Waiting') = Cardinality(Waiting) + 1
      /\ Cardinality(Waiting) \in Nat
  <2>1. IsFiniteSet(Waiting) /\ Waiting \subseteq 1 .. idx /\ Cardinality(Waiting) \in Nat
    BY WaitingIsFinite
  <2>2. idx + 1 \notin Waiting
    BY <2>1, <1>2
  <2> QED BY <2>1, <2>2, <1>6, FS_AddElement
<1>9. Progress'
  BY <1>1, <1>2 DEF Progress
<1>10. Functions'
  <2>1. SUFFICES ASSUME NEW x \in Way, NEW j \in Element, index'[<<x, j>>] # 0
                 PROVE  j <= idx' /\ x \in Counting(routine)
    BY <1>1 DEF Functions
  <2>2. CASE j = idx + 1 /\ x \in Counting(routine)
    BY <2>2, <1>1, <1>2
  <2>3. CASE ~(j = idx + 1 /\ x \in Counting(routine))
    <3>1. index[<<x, j>>] # 0
      BY <2>1, <2>3, <1>3
    <3>2. j <= idx /\ x \in Counting(routine)
      BY <3>1 DEF Functions
    <3> QED BY <3>2, <1>1, <1>2 DEF Element
  <2> QED BY <2>2, <2>3
<1>11. Entries'
  <2>1. SUFFICES ASSUME routine # "race", NEW i \in DOMAIN values
                 PROVE  values[i] = Hole <=> i \in Waiting' \/ i > idx'
    BY <1>1 DEF Entries
  <2>2. Len(values) = idx + 1 /\ i \in 1 .. Len(values)
    BY <2>1, <1>1, LenProperties DEF Progress, TypeOK
  <2>3. values[i] = Hole <=> i \in Waiting \/ i > idx
    BY <2>1 DEF Entries
  <2> QED BY <2>2, <2>3, <1>1, <1>2, <1>6
<1>12. RemainingCounts'
  BY <1>1, <1>7, <1>8 DEF RemainingCounts, Incremented
<1>13. CompleteResult' /\ NobodyWaits'
  BY <1>1, <1>7 DEF CompleteResult, NobodyWaits
<1> QED BY <1>5, <1>9, <1>10, <1>11, <1>12, <1>13

\* A first call of an element function writes the hole of its element and takes
\* the element from those that are waited for, unless its twin was called before.
LEMMA ElementFunctionWrites ==
  ASSUME IInv, NEW w \in Counting(routine), NEW i \in 1 .. idx, NEW v \in Value,
         index[<<w, i>>] # 0, ElementFunction(w, i, v), UNCHANGED <<routine, pc, idx>>
  PROVE  /\ index' \in [Way \X Element -> 0 .. MaxElements]
         /\ values' \in Seq(Entry \cup {Hole})
         /\ Len(values') = Len(values)
         /\ DOMAIN values' = DOMAIN values
         /\ i \in DOMAIN values
         /\ values'[i] # Hole
         /\ \A j \in DOMAIN values : j # i => values'[j] = values[j]
         /\ \A x \in Way, j \in Element :
              index'[<<x, j>>] = IF x = w /\ j = i THEN 0 ELSE index[<<x, j>>]
         /\ Waiting' = Waiting \ {i}
         /\ ~Twice' => ~Twice /\ i \in Waiting
<1> USE PromiseAllAssumption DEF IInv
<1>1. /\ Counting(routine) \subseteq Way
      /\ routine # "race"
      /\ routine = "allSettled" => Counting(routine) = Way
      /\ routine # "allSettled" => \A x \in Counting(routine) : x = w
  BY CountingCases
<1>2. idx \in Nat /\ i \in Element /\ \A j \in 1 .. idx : j \in Element
  BY DEF TypeOK, Element
<1>3. /\ values' = [values EXCEPT ![i] = [status |-> w, value |-> v]]
      /\ index' = [index EXCEPT ![<<w, i>>] = 0]
  BY DEF ElementFunction
<1>4. index' \in [Way \X Element -> 0 .. MaxElements]
  <2>1. index \in [Way \X Element -> 0 .. MaxElements]
    BY DEF TypeOK
  <2>2. 0 \in 0 .. MaxElements
    OBVIOUS
  <2> QED BY <1>3, <2>1, <2>2, Zenon
<1>5. \A x \in Way, j \in Element :
        index'[<<x, j>>] = IF x = w /\ j = i THEN 0 ELSE index[<<x, j>>]
  BY <1>1, <1>2, <1>3 DEF TypeOK
<1>6. /\ values \in Seq(Entry \cup {Hole})
      /\ DOMAIN values = 1 .. Len(values)
      /\ Len(values) \in Nat
      /\ Len(values) >= idx
  BY <1>1, <1>2, LenProperties DEF TypeOK, Progress
<1>7. i \in DOMAIN values
  BY <1>2, <1>6
<1>8. [status |-> w, value |-> v] \in Entry
  BY <1>1 DEF Entry
<1>9. /\ values' \in Seq(Entry \cup {Hole})
      /\ Len(values') = Len(values)
      /\ DOMAIN values' = DOMAIN values
  BY <1>3, <1>6, <1>7, <1>8, ExceptSeq
<1>10. /\ values'[i] # Hole
       /\ \A j \in DOMAIN values : j # i => values'[j] = values[j]
  <2>1. Hole \notin Entry
    BY DEF Entry, Way
  <2> QED BY <2>1, <1>3, <1>6, <1>7, <1>8
<1>11. Waiting' = Waiting \ {i}
  <2>1. \A j \in 1 .. idx : j # i => \A x \in Counting(routine) : index'[<<x, j>>] = index[<<x, j>>]
    BY <1>1, <1>2, <1>5
  <2>2. index'[<<w, i>>] = 0
    BY <1>1, <1>2, <1>5
  <2> QED BY <2>1, <2>2 DEF Waiting
<1>12. ~Twice' => ~Twice /\ i \in Waiting
  <2>1. ASSUME Twice PROVE Twice'
    <3>1. PICK j \in 1 .. idx : \A x \in Way : index[<<x, j>>] = 0
      BY <2>1 DEF Twice
    <3>2. \A x \in Way : index'[<<x, j>>] = 0
      BY <3>1, <1>2, <1>5
    <3> QED BY <2>1, <3>2 DEF Twice
  <2>2. ASSUME i \notin Waiting PROVE Twice'
    <3>1. PICK x \in Counting(routine) : index[<<x, i>>] = 0
      BY <2>2 DEF Waiting
    <3>2. routine = "allSettled" /\ x # w
      BY <3>1, <1>1
    <3>3. \A y \in Way : y = x \/ y = w
      BY <3>2, <1>1 DEF Way
    <3>4. \A y \in Way : index'[<<y, i>>] = 0
      BY <3>1, <3>3, <1>1, <1>2, <1>5
    <3> QED BY <3>2, <3>4 DEF Twice
  <2> QED BY <2>1, <2>2
<1> QED BY <1>4, <1>5, <1>7, <1>9, <1>10, <1>11, <1>12

\* A call of a function that an element was given.
LEMMA CallbackStep ==
  ASSUME IInv, NEW w \in Way, NEW i \in 1 .. idx, NEW v \in Value, Callback(w, i, v),
         UNCHANGED <<routine, pc, idx, shape>>, reacting' \subseteq reacting
  PROVE  IInv'
<1> USE PromiseAllAssumption DEF IInv
<1>1. CASE UNCHANGED <<index, values, remaining>> /\ outcome' \in {outcome, First("value"), First("reason")}
  <2>1. TypeOK'
    BY <1>1 DEF TypeOK, First
  <2>2. Waiting' = Waiting /\ Twice' = Twice
    BY <1>1 DEF Waiting, Twice
  <2>3. Progress' /\ Functions' /\ Entries'
    BY <1>1, <2>2 DEF Progress, Functions, Entries
  <2>4. RemainingCounts' /\ CompleteResult' /\ NobodyWaits'
    BY <1>1, <2>2 DEF RemainingCounts, CompleteResult, NobodyWaits, First
  <2> QED BY <2>1, <2>3, <2>4
<1>2. CASE w \in Counting(routine) /\ index[<<w, i>>] # 0 /\ ElementFunction(w, i, v)
  <2>1. /\ index' \in [Way \X Element -> 0 .. MaxElements]
        /\ values' \in Seq(Entry \cup {Hole})
        /\ Len(values') = Len(values)
        /\ DOMAIN values' = DOMAIN values
        /\ i \in DOMAIN values
        /\ values'[i] # Hole
        /\ \A j \in DOMAIN values : j # i => values'[j] = values[j]
        /\ \A x \in Way, j \in Element :
             index'[<<x, j>>] = IF x = w /\ j = i THEN 0 ELSE index[<<x, j>>]
        /\ Waiting' = Waiting \ {i}
        /\ ~Twice' => ~Twice /\ i \in Waiting
    BY <1>2, ElementFunctionWrites
  <2>2. CountDown /\ routine # "race"
    BY <1>2, CountingCases DEF ElementFunction
  <2>3. TypeOK'
    BY <2>1, <2>2 DEF TypeOK, CountDown, Decremented, First
  <2>4. Progress'
    BY <2>1 DEF Progress
  <2>5. Functions'
    BY <2>1 DEF Functions
  <2>6. Entries'
    BY <2>1, <2>2 DEF Entries, TypeOK
  <2>7. CASE Twice'
    BY <2>2, <2>3, <2>4, <2>5, <2>6, <2>7 DEF RemainingCounts, CompleteResult, NobodyWaits,
                                             CountDown, First
  <2>8. CASE ~Twice'
    <3>1. /\ IsFiniteSet(Waiting)
          /\ Cardinality(Waiting) \in Nat
          /\ Cardinality(Waiting') = Cardinality(Waiting) - 1
          /\ Cardinality(Waiting) # 0
      BY <2>1, <2>8, WaitingIsFinite, FS_RemoveElement, FS_EmptySet
    <3>2. Cardinality(Waiting') = 0 <=> Waiting' = {}
      BY <2>3, <3>1, <2>1, FS_RemoveElement, FS_EmptySet
    <3>3. RemainingCounts'
      BY <2>1, <2>2, <2>8, <3>1 DEF RemainingCounts, CountDown, Decremented
    <3>4. remaining' = Cardinality(Waiting') + IF pc = "finished" THEN 0 ELSE 1
      BY <3>3, <2>2, <2>8 DEF RemainingCounts
    <3>5. remaining' = 0 => pc = "finished" /\ Waiting' = {}
      BY <3>1, <3>2, <3>4
    <3>6. outcome \notin {"values", "aggregate"} /\ outcome' # outcome => remaining' = 0
      BY <2>2 DEF CountDown
    <3>7. \A j \in DOMAIN values' : values'[j] = Hole => values[j] = Hole
      BY <2>1
    <3>8. remaining' = 0 => \A j \in DOMAIN values' : values'[j] # Hole
      <4>1. SUFFICES ASSUME remaining' = 0, NEW j \in DOMAIN values'
                     PROVE  values'[j] # Hole
        OBVIOUS
      <4>2. Len(values) = idx /\ j \in 1 .. idx
        <5>1. pc = "finished"
          BY <4>1, <3>5
        <5>2. Len(values) = idx
          BY <5>1, <2>2 DEF Progress
        <5>3. DOMAIN values = 1 .. Len(values)
          BY LenProperties DEF TypeOK
        <5> QED BY <5>2, <5>3, <4>1, <2>1
      <4>3. j \notin Waiting'
        BY <4>1, <3>5
      <4> QED BY <4>2, <4>3, <2>6, <2>2 DEF Entries, TypeOK
    <3>9. CompleteResult'
      BY <3>5, <3>6, <3>7, <3>8, <2>1, <2>2, <2>8 DEF CompleteResult, CountDown, First
    <3>10. NobodyWaits'
      BY <3>1, <3>2, <3>4, <2>2, <2>8 DEF NobodyWaits, CountDown, First
    <3> QED BY <2>3, <2>4, <2>5, <2>6, <3>3, <3>9, <3>10
  <2> QED BY <2>7, <2>8
<1> QED BY <1>1, <1>2 DEF Callback, ElementFunction, countVars

\* Every step.  A function of an element is called with the element known.
LEMMA CallOfElement ==
  ASSUME IInv, NEW w \in Way, NEW i \in Element, NEW v \in Value,
         ScriptCall(w, i, v) \/ RunReaction(w, i, v)
  PROVE  /\ i \in 1 .. idx
         /\ Callback(w, i, v)
         /\ UNCHANGED <<routine, pc, idx, shape>>
         /\ reacting' \subseteq reacting
<1> USE PromiseAllAssumption DEF IInv, TypeOK
<1>1. CASE ScriptCall(w, i, v)
  BY <1>1 DEF ScriptCall, loopVars, Element
<1>2. CASE RunReaction(w, i, v)
  BY <1>2 DEF RunReaction
<1> QED BY <1>1, <1>2

LEMMA NextIInv == IInv /\ [Next]_vars => IInv'
<1> SUFFICES ASSUME IInv, [Next]_vars PROVE IInv'
  OBVIOUS
<1>1. CASE GetIterator \/ GetIteratorThrows \/ Lookup \/ IteratorThrows
           \/ ThenReturns \/ LoopThrows \/ CloseIterator
  <2>1. UNCHANGED <<routine, idx, shape, index, values, remaining>>
    BY <1>1 DEF GetIterator, GetIteratorThrows, Lookup, IteratorThrows, ThenReturns,
                LoopThrows, CloseIterator, countVars
  <2> QED BY <1>1, <2>1, QuietStep
<1>2. CASE NextValue
  BY <1>2, NextValueStep
<1>3. CASE IteratorEnds
  BY <1>3, IteratorEndsStep
<1>4. CASE \E s \in Shape : CallThen(s)
  BY <1>4, CallThenStep
<1>5. CASE \E w \in Way, i \in Element, v \in Value : ScriptCall(w, i, v) \/ RunReaction(w, i, v)
  <2>1. PICK w \in Way, i \in Element, v \in Value : ScriptCall(w, i, v) \/ RunReaction(w, i, v)
    BY <1>5
  <2> QED BY <2>1, CallOfElement, CallbackStep
<1>6. CASE UNCHANGED vars
  <2> USE <1>6 DEF vars
  <2>1. Waiting' = Waiting /\ Twice' = Twice
    BY DEF Waiting, Twice
  <2>2. TypeOK' /\ Progress' /\ Functions' /\ Entries'
    BY <2>1 DEF IInv, TypeOK, Progress, Functions, Entries
  <2>3. RemainingCounts' /\ CompleteResult' /\ NobodyWaits'
    BY <2>1 DEF IInv, RemainingCounts, CompleteResult, NobodyWaits
  <2> QED BY <2>2, <2>3 DEF IInv
<1> QED BY <1>1, <1>2, <1>3, <1>4, <1>5, <1>6 DEF Next, Loop

-----------------------------------------------------------------------------

\* For any number of elements, promises or objects that call their functions when and
\* as often as they like: the remaining count is right, the array is handed over
\* complete and after the loop, and the derived promise is not forgotten (as long as
\* no element of Promise.allSettled calls both functions).
THEOREM CombinatorSafety ==
  Spec => [](TypeOK /\ RemainingCounts /\ CompleteResult /\ NobodyWaits)
<1>1. IInv => TypeOK /\ RemainingCounts /\ CompleteResult /\ NobodyWaits
  BY DEF IInv
<1> QED BY InitIInv, NextIInv, <1>1, PTL DEF Spec

\* No entry of the array is written twice.
THEOREM EntriesWrittenOnce == Spec => EntriesFixed
<1> DEFINE Fixed == \A i \in DOMAIN values :
                      values[i] # Hole /\ ~Twice' => values'[i] = values[i]
<1>1. IInv /\ [Next]_vars => [Fixed]_vars
  <2> SUFFICES ASSUME IInv, Next PROVE Fixed
    BY DEF vars
  <2>1. CASE values' = values
    BY <2>1
  <2>2. CASE NextValue
    BY <2>2, AppendProperties, LenProperties DEF NextValue, IInv, TypeOK
  <2>3. CASE values' # values /\ ~NextValue
    <3>1. PICK w \in Way, i \in Element, v \in Value :
                 ScriptCall(w, i, v) \/ RunReaction(w, i, v)
      BY <2>3 DEF Next, Loop, GetIterator, GetIteratorThrows, Lookup, IteratorThrows,
                  IteratorEnds, CallThen, ThenReturns, LoopThrows, CloseIterator, countVars
    <3>2. /\ i \in 1 .. idx
          /\ Callback(w, i, v)
          /\ UNCHANGED <<routine, pc, idx>>
      BY <3>1, CallOfElement
    <3>3. /\ w \in Counting(routine)
          /\ index[<<w, i>>] # 0
          /\ ElementFunction(w, i, v)
      BY <2>3, <3>2 DEF Callback, ElementFunction, countVars
    <3>4. /\ \A j \in DOMAIN values : j # i => values'[j] = values[j]
          /\ ~Twice' => i \in Waiting
      BY <3>2, <3>3, ElementFunctionWrites
    <3>5. i \in Waiting /\ i \in DOMAIN values => values[i] = Hole
      BY <3>3, CountingCases DEF Entries, IInv
    <3> QED BY <3>4, <3>5
  <2> QED BY <2>1, <2>2, <2>3
<1>2. Spec => []IInv
  BY InitIInv, NextIInv, PTL DEF Spec
<1> QED BY <1>1, <1>2, PTL DEF Spec, EntriesFixed

=============================================================================
