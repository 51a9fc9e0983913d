--------------------------- MODULE JmemHeapProofs ---------------------------
(***************************************************************************)
(* Proofs about the heap allocator, for an area of any size, any limit and *)
(* any number of blocks.                                                   *)
(*                                                                         *)
(* First what the operators do: the limit, a sorted list (Sorted, Apart,   *)
(* Gap), what stays sorted when a region is inserted, carved or shortened  *)
(* (Inserted, Carved, Fronted), and how many units a set of them has.      *)
(* Then the inductive invariant IInv, a lemma for each action, and the     *)
(* theorems.                                                               *)
(***************************************************************************)
EXTENDS JmemHeap, FiniteSetTheorems, TLAPS

-----------------------------------------------------------------------------

\* The limit that is raised is above what is allocated and at most GCLimit above it, or unchanged.
LEMMA LimitRaised ==
    ASSUME NEW a \in Nat, NEW l \in Nat
    PROVE  /\ Raised(a, l) \in Nat
           /\ a < Raised(a, l)
           /\ Raised(a, l) = l \/ Raised(a, l) <= a + GCLimit
<1>1. GCLimit \in Nat \ {0}
  BY HeapAssumption
<1>2. CASE a >= l
  <2>1. (a - l) % GCLimit \in 0 .. GCLimit - 1
    BY <1>1, <1>2
  <2> QED
    BY <1>1, <1>2, <2>1 DEF Raised
<1>3. CASE ~(a >= l)
  BY <1>3 DEF Raised
<1> QED
  BY <1>2, <1>3

\* The limit that is lowered is not below what is allocated and at most GCLimit above it.
LEMMA LimitLowered ==
    ASSUME NEW a \in Nat, NEW l \in Nat, a <= l
    PROVE  /\ Lowered(a, l) \in Nat
           /\ a <= Lowered(a, l)
           /\ Lowered(a, l) <= a + GCLimit
<1>1. GCLimit \in Nat \ {0}
  BY HeapAssumption
<1>2. (l - a) % GCLimit \in 0 .. GCLimit - 1
  BY <1>1
<1> QED
  BY <1>1, <1>2 DEF Lowered

\* A region of n units has n units.
LEMMA Sized ==
    ASSUME NEW t \in Units, NEW n \in Nat
    PROVE  /\ IsFiniteSet(Region(t, n))
           /\ Cardinality(Region(t, n)) = n
<1> QED
  BY FS_Interval DEF Region, Units

ListTypes == /\ size \in [Nodes -> Nodes]
             /\ next \in [Nodes -> Units \cup {END}]
             /\ size[0] = 0

\* The types of the headers, as numbers.
LEMMA Numbers ==
    ASSUME ListTypes
    PROVE  /\ Area \in Nat /\ Area >= 1 /\ END = Area + 2
           /\ \A q \in Units : q \in Nodes /\ q \in Nat /\ q >= 1 /\ q <= Area
           /\ \A q \in Heads : q \in Units /\ size[q] \in Nat \ {0}
           /\ \A q \in {0} \cup Heads : q \in Nodes
           /\ \A q \in Nodes : /\ q \in Nat /\ q <= Area
                               /\ size[q] \in Nodes /\ size[q] \in Nat /\ size[q] <= Area
                               /\ next[q] \in Units \cup {END} /\ next[q] \in Nat
<1>1. Area \in Nat /\ Area >= 1 /\ END = Area + 2
  BY HeapAssumption DEF END
<1>2. \A q \in Units : q \in Nodes /\ q \in Nat /\ q >= 1 /\ q <= Area
  BY <1>1 DEF Units, Nodes
<1>3. \A q \in Nodes : /\ q \in Nat /\ q <= Area
                       /\ size[q] \in Nodes /\ size[q] \in Nat /\ size[q] <= Area
  BY <1>1 DEF ListTypes, Nodes
<1>4. \A q \in Nodes : next[q] \in Units \cup {END}
  BY DEF ListTypes
<1>5. \A q \in Units \cup {END} : q \in Nat
  BY <1>1, <1>2
<1>6. \A q \in Heads : q \in Units /\ size[q] \in Nat \ {0}
  BY <1>2, <1>3 DEF Heads
<1>7. \A q \in {0} \cup Heads : q \in Nodes
  BY <1>1, <1>2, <1>6 DEF Nodes
<1> QED
  BY <1>1, <1>2, <1>3, <1>4, <1>5, <1>6, <1>7

\* What FreeListSorted says of a node.
LEMMA Sorted ==
    ASSUME ListTypes, FreeListSorted, NEW p \in {0} \cup Heads
    PROVE  /\ next[p] \in Heads \cup {END} /\ next[p] \in Nat
           /\ p + size[p] < next[p]
           /\ \A h \in Heads : h > p => h >= next[p]
<1>1. p \in Nodes /\ p \in Nat /\ next[p] \in Nat
  BY Numbers
<1>2. \A h \in Heads : h \in Nat
  BY Numbers
<1> QED
  BY <1>1, <1>2 DEF FreeListSorted

\* Two headers are further apart than the size of the first.
LEMMA Apart ==
    ASSUME ListTypes, FreeListSorted, NEW g \in {0} \cup Heads, NEW h \in Heads, g < h
    PROVE  g + size[g] < h
<1>1. g \in Nat /\ h \in Nat /\ size[g] \in Nat /\ next[g] \in Nat
  BY Numbers
<1>2. next[g] <= h /\ g + size[g] < next[g]
  BY <1>1, Sorted
<1> QED
  BY <1>1, <1>2

\* Units that are not free lie between the end of the region before them and what follows it.
LEMMA Gap ==
    ASSUME ListTypes, FreeListSorted,
           NEW t \in Units, NEW n \in Nat \ {0}, t + n - 1 <= Area,
           \A u \in Region(t, n) : ~Free(u),
           NEW p \in {0} \cup Heads, p < t, next[p] >= t
    PROVE  p + size[p] <= t /\ t + n <= next[p]
<1>1. /\ p \in Nat /\ t \in Nat /\ size[p] \in Nat /\ next[p] \in Nat
      /\ Area \in Nat /\ END = Area + 2
  BY Numbers
<1>3. p + size[p] <= t
  <2>1. CASE p = 0
    BY <2>1, <1>1 DEF ListTypes
  <2>2. CASE p \in Heads
    <3>1. t \in Region(t, n)
      BY <1>1 DEF Region
    <3>2. ~(t \in Region(p, size[p]))
      BY <3>1, <2>2 DEF Free
    <3> QED
      BY <3>2, <1>1 DEF Region
  <2> QED
    BY <2>1, <2>2
<1>4. CASE next[p] = END
  BY <1>1, <1>3, <1>4
<1>5. CASE next[p] \in Heads
  <2>1. next[p] \in Region(next[p], size[next[p]])
    <3>1. next[p] \in Nat /\ size[next[p]] \in Nat \ {0}
      BY <1>5, Numbers
    <3> QED
      BY <3>1 DEF Region
  <2>2. Free(next[p])
    BY <2>1, <1>5 DEF Free
  <2>3. ~(next[p] \in Region(t, n))
    BY <2>2
  <2> QED
    BY <2>3, <1>1, <1>3 DEF Region
<1> QED
  BY <1>4, <1>5, Sorted

\* A region that is inserted at its place becomes free, and nothing else does.
LEMMA Inserted ==
    ASSUME ListTypes, FreeListSorted,
           NEW t \in Units, NEW n \in Nat \ {0}, t + n - 1 <= Area,
           NEW p \in {0} \cup Heads, p < t, p + size[p] <= t, t + n <= next[p],
           Insert(t, p, n)
    PROVE  /\ ListTypes'
           /\ FreeListSorted'
           /\ p \in {0} \cup Heads'
           /\ \A u \in Units : Free(u)' <=> Free(u) \/ u \in Region(t, n)
<1> DEFINE after == next[p]
           joined == p + size[p] = t
           base == IF joined THEN p ELSE t
           grown == IF joined THEN size[p] + n ELSE n
           merged == base + grown = after
           onward == IF merged THEN next[after] ELSE after
           total == IF merged THEN grown + size[after] ELSE grown
<1>1. Area \in Nat /\ END = Area + 2
  BY Numbers
<1>2. /\ p \in Nodes /\ t \in Nodes /\ n \in Nat
      /\ p \in Nat /\ size[p] \in Nat /\ t \in Nat /\ t >= 1
      /\ \A q \in Nodes : size[q] \in Nodes /\ next[q] \in Units \cup {END}
      /\ \A q \in Heads : q \in Nat
  BY Numbers
<1>3. /\ after \in Heads \cup {END}
      /\ after \in Nat
      /\ \A h \in Heads : h > p => h >= after
  BY Sorted
<1>4. joined => p \in Heads
  BY <1>2 DEF ListTypes
<1>5. /\ base \in Units /\ grown \in Nat \ {0} /\ base + grown = t + n
      /\ p <= base /\ base \in Nat /\ (base # p => base = t)
  <2>1. CASE joined
    BY <2>1, <1>2, <1>4, Numbers
  <2>2. CASE ~joined
    BY <2>2, <1>2
  <2> QED
    BY <2>1, <2>2
<1>6. merged => after \in Heads
  BY <1>1, <1>2, <1>3, <1>5
<1>7. merged => /\ next[after] \in Heads \cup {END}
                /\ after + size[after] < next[after]
                /\ size[after] \in Nat /\ next[after] \in Nat
                /\ \A h \in Heads : h > after => h >= next[after]
  <2>1. SUFFICES ASSUME merged
                 PROVE  /\ next[after] \in Heads \cup {END}
                        /\ after + size[after] < next[after]
                        /\ size[after] \in Nat /\ next[after] \in Nat
                        /\ \A h \in Heads : h > after => h >= next[after]
    OBVIOUS
  <2>2. after \in Heads
    BY <2>1, <1>6
  <2>3. size[after] \in Nat
    BY <2>2, Numbers
  <2> HIDE DEF after
  <2> QED
    BY <2>2, <2>3, Sorted
<1>8. /\ onward \in Heads \cup {END}
      /\ onward \in Nat
      /\ total \in Nat \ {0}
      /\ base + total < onward
      /\ \A h \in Heads : h > base /\ ~(merged /\ h = after) => h >= onward
  <2> HIDE DEF after, base, grown
  <2>1. CASE merged
    BY <2>1, <1>2, <1>3, <1>5, <1>7
  <2>2. CASE ~merged
    BY <2>2, <1>2, <1>3, <1>5 DEF after
  <2> QED
    BY <2>1, <2>2
<1>9. base + total <= Area + 1
  <2>1. CASE onward = END
    BY <2>1, <1>1, <1>5, <1>8
  <2>2. CASE onward \in Heads
    <3>1. onward <= Area
      BY <2>2, Numbers
    <3> QED
      BY <3>1, <1>1, <1>5, <1>8
  <2> QED
    BY <2>1, <2>2, <1>8
<1>10. /\ size' = [q \in Nodes |-> IF q = base THEN total
                                   ELSE IF merged /\ q = after THEN 0
                                   ELSE size[q]]
       /\ next' = [q \in Nodes |-> IF q = base THEN onward
                                   ELSE IF q = p THEN t
                                   ELSE IF merged /\ q = after THEN END
                                   ELSE next[q]]
  BY DEF Insert
<1> HIDE DEF onward, total
<1>11. /\ base \in Heads'
       /\ \A h : h \in Heads' <=> h = base \/ (h \in Heads /\ ~(merged /\ h = after))
  <2>1. base \in Nodes /\ size'[base] = total
    BY <1>10, <1>5 DEF Nodes, Units
  <2>2. base \in Heads'
    BY <2>1, <1>5, <1>8 DEF Heads
  <2>3. ASSUME NEW h, h # base
        PROVE  h \in Heads' <=> h \in Heads /\ ~(merged /\ h = after)
    <3>1. CASE h \notin Units
      BY <3>1 DEF Heads
    <3>2. CASE h \in Units
      <4>1. h \in Nodes /\ size'[h] = IF merged /\ h = after THEN 0 ELSE size[h]
        BY <3>2, <2>3, <1>10, <1>1 DEF Nodes, Units
      <4>2. CASE merged /\ h = after
        BY <4>1, <4>2, <3>2 DEF Heads
      <4>3. CASE ~(merged /\ h = after)
        BY <4>1, <4>3, <3>2 DEF Heads
      <4> QED
        BY <4>2, <4>3
    <3> QED
      BY <3>1, <3>2
  <2> QED
    BY <2>2, <2>3
<1>12. ListTypes'
  <2>1. size' \in [Nodes -> Nodes]
    <3>1. total \in Nodes
      BY <1>1, <1>5, <1>8, <1>9 DEF Nodes, Units
    <3>2. 0 \in Nodes
      BY <1>1 DEF Nodes
    <3> QED
      BY <1>2, <1>10, <3>1, <3>2
  <2>2. next' \in [Nodes -> Units \cup {END}]
    <3>1. onward \in Units \cup {END}
      BY <1>8 DEF Heads
    <3> QED
      BY <1>2, <1>10, <3>1
  <2>3. size'[0] = 0
    <3>1. 0 \in Nodes /\ 0 # base
      BY <1>1, <1>5 DEF Nodes, Units
    <3> QED
      BY <1>10, <3>1 DEF ListTypes
  <2> QED
    BY <2>1, <2>2, <2>3 DEF ListTypes
<1>13. p \in {0} \cup Heads'
  <2>1. CASE p = 0
    BY <2>1
  <2>2. CASE p \in Heads /\ p # base
    <3>1. ~(merged /\ p = after)
      BY <1>2, <1>5, <1>1
    <3> QED
      BY <2>2, <3>1, <1>11
  <2>3. CASE p = base
    BY <2>3, <1>11
  <2> QED
    BY <2>1, <2>2, <2>3
<1>14. \A q \in {0} \cup Heads' : q # base => q \in {0} \cup Heads /\ ~(merged /\ q = after)
  BY <1>2, <1>5, <1>6, <1>11, Numbers
<1>15. /\ size'[base] = total /\ next'[base] = onward
       /\ p # base => size'[p] = size[p] /\ next'[p] = t
       /\ \A q \in {0} \cup Heads' : q # base => size'[q] = size[q]
       /\ \A q \in {0} \cup Heads' : q # base /\ q # p => next'[q] = next[q]
  <2>1. base \in Nodes
    BY <1>5, Numbers
  <2>2. \A q \in {0} \cup Heads' : q # base => q \in Nodes
    BY <1>14, Numbers
  <2>3. ~(merged /\ p = after)
    BY <1>1, <1>2, <1>5
  <2> HIDE DEF merged, base, after
  <2> QED
    BY <1>2, <1>10, <1>14, <2>1, <2>2, <2>3
<1>16. onward # base /\ ~(merged /\ onward = after)
  <2>1. onward # base
    BY <1>5, <1>8
  <2>2. merged => onward # after
    BY <1>3, <1>7, <1>8 DEF onward
  <2> QED
    BY <2>1, <2>2
<1>17. FreeListSorted'
  <2>1. SUFFICES ASSUME NEW q \in {0} \cup Heads'
                 PROVE  /\ next'[q] \in Heads' \cup {END}
                        /\ q + size'[q] < next'[q]
                        /\ \A h \in Heads' : ~(q < h /\ h < next'[q])
    BY DEF FreeListSorted
  <2>2. \A h \in Heads' : h \in Nat
    BY <1>2, <1>5, <1>11
  <2>3. CASE q = base
    <3>1. onward \in Heads' \cup {END}
      BY <1>8, <1>11, <1>16
    <3>2. \A h \in Heads' : h > base => h >= onward
      BY <1>5, <1>8, <1>11, <2>2
    <3> QED
      BY <2>3, <2>2, <3>1, <3>2, <1>5, <1>8, <1>15
  <2>4. CASE q = p /\ q # base
    <3>1. base = t /\ ~joined
      BY <2>4, <1>5
    <3>2. \A h \in Heads' : h > p => h >= t
      <4>1. \A h \in Heads : h > p => h >= t
        BY <1>2, <1>3
      <4> QED
        BY <4>1, <3>1, <1>2, <1>11
    <3>3. q + size[q] < t
      BY <2>4, <3>1, <1>2
    <3> QED
      BY <2>2, <2>4, <3>1, <3>2, <3>3, <1>2, <1>11, <1>15
  <2>5. CASE q # p /\ q # base
    <3>1. q \in {0} \cup Heads /\ ~(merged /\ q = after) /\ next'[q] = next[q] /\ size'[q] = size[q]
      BY <2>5, <1>14, <1>15
    <3>2. q \in Nat /\ size[q] \in Nat
      BY <3>1, Numbers
    <3>3. /\ next[q] \in Heads \cup {END} /\ next[q] \in Nat
          /\ q + size[q] < next[q]
          /\ \A h \in Heads : h > q => h >= next[q]
      BY <3>1, Sorted
    <3>4. CASE q < p
      <4>1. next[q] <= p
        BY <3>2, <3>3, <3>4, <1>2
      <4>2. next[q] # after
        BY <4>1, <1>2, <1>3
      <4>3. next[q] \in Heads' \cup {END}
        BY <3>3, <4>2, <1>11
      <4>4. \A h \in Heads' : h > q => h >= next[q]
        BY <4>1, <3>3, <1>2, <1>5, <1>11
      <4> QED
        BY <2>2, <3>1, <3>2, <3>3, <4>3, <4>4
    <3>5. CASE q > p
      <4>1. q >= after
        BY <3>1, <3>2, <3>5, <1>2, <1>3
      <4>2. next[q] # after /\ q > base
        BY <4>1, <3>2, <3>3, <1>2, <1>3, <1>5
      <4>3. next[q] \in Heads' \cup {END}
        BY <3>3, <4>2, <1>11
      <4>4. \A h \in Heads' : h > q => h >= next[q]
        BY <4>2, <3>2, <3>3, <1>5, <1>11
      <4> QED
        BY <2>2, <3>1, <3>2, <3>3, <4>3, <4>4
    <3> QED
      BY <2>5, <3>2, <3>4, <3>5, <1>2
  <2> QED
    BY <2>3, <2>4, <2>5
<1>18. ASSUME NEW u \in Units
       PROVE  Free(u)' <=> Free(u) \/ u \in Region(t, n)
  <2>1. u \in Nat
    BY Numbers
  <2>2. Free(u)' <=> u \in Region(base, total) \/ \E h \in Heads' \ {base} : u \in Region(h, size[h])
    BY <1>11, <1>15 DEF Free
  <2>3. \A h : h \in Heads' \ {base} <=> h \in Heads \ {base} /\ ~(merged /\ h = after)
    BY <1>11
  <2>4. base \in Heads <=> joined
    <3>1. \A h \in Heads : h # t
      BY <1>2, <1>3
    <3> QED
      BY <3>1, <1>4
  <2>5. u \in Region(base, total) <=> \/ joined /\ u \in Region(p, size[p])
                                      \/ u \in Region(t, n)
                                      \/ merged /\ u \in Region(after, size[after])
    <3>1. u \in Region(base, grown) <=> (joined /\ u \in Region(p, size[p])) \/ u \in Region(t, n)
      BY <2>1, <1>2 DEF Region
    <3>2. CASE merged
      <4>1. total = grown + size[after] /\ base + grown = after /\ size[after] \in Nat
        BY <3>2, <1>7 DEF total
      <4> HIDE DEF base, grown, after, merged, joined
      <4> QED
        BY <3>1, <3>2, <4>1, <2>1, <1>3, <1>5 DEF Region
    <3>3. CASE ~merged
      BY <3>1, <3>3 DEF total
    <3> QED
      BY <3>2, <3>3
  <2>6. Free(u) <=> \/ joined /\ u \in Region(p, size[p])
                    \/ merged /\ u \in Region(after, size[after])
                    \/ \E h \in Heads' \ {base} : u \in Region(h, size[h])
    <3>1. joined => base = p
      OBVIOUS
    <3> HIDE DEF base, grown, after, merged, joined
    <3> QED
      BY <2>3, <2>4, <3>1, <1>4, <1>6 DEF Free
  <2> QED
    BY <2>2, <2>5, <2>6
<1> QED
  BY <1>12, <1>13, <1>17, <1>18

\* A region that loses its first n units, or all of them, leaves the rest free.
LEMMA Carved ==
    ASSUME ListTypes, FreeListSorted,
           NEW p \in {0} \cup Heads, next[p] \in Heads,
           NEW n \in Nat \ {0}, n <= size[next[p]],
           Carve(p, next[p], n)
    PROVE  /\ ListTypes'
           /\ FreeListSorted'
           /\ next'[p] \in Heads' \cup {END}
           /\ \A h \in Heads : h # next[p] => h \in Heads'
           /\ \A u \in Units : Free(u)' <=> Free(u) /\ u \notin Region(next[p], n)
           /\ \A u \in Region(next[p], n) : u \in Units /\ Free(u)
<1> DEFINE cur == next[p]
           rest == size[cur] - n
           left == rest > 0
           onward == IF left THEN cur + n ELSE next[cur]
<1>1. Area \in Nat /\ END = Area + 2
  BY Numbers
<1>2. /\ p \in Nodes /\ p \in Nat /\ size[p] \in Nat /\ p + size[p] < cur
      /\ \A h \in Heads : h \in Nat
      /\ \A h \in Heads : h > p => h >= cur
      /\ n \in Nat /\ n >= 1
  BY Numbers, Sorted
<1>3. cur \in Heads /\ cur \in Nodes /\ cur \in Nat /\ cur >= 1 /\ size[cur] \in Nat \ {0} /\ n <= size[cur]
  BY Numbers
<1>4. /\ next[cur] \in Heads \cup {END} /\ next[cur] \in Nat /\ next[cur] <= END
      /\ cur + size[cur] < next[cur]
      /\ \A h \in Heads : h > cur => h >= next[cur]
  <2>1. cur \in Heads
    BY <1>3
  <2>2. \A h \in Heads : h \in Nat /\ h <= Area
    BY Numbers
  <2> HIDE DEF cur
  <2>3. /\ next[cur] \in Heads \cup {END} /\ next[cur] \in Nat
        /\ cur + size[cur] < next[cur]
        /\ \A h \in Heads : h > cur => h >= next[cur]
    BY <2>1, Sorted
  <2>4. next[cur] <= END
    BY <1>1, <2>2, <2>3
  <2> QED
    BY <2>3, <2>4
<1>5. /\ rest \in Nat
      /\ cur + n \in Nat /\ cur + n > cur
      /\ left => cur + n < cur + size[cur]
      /\ left => cur + n \in Units /\ cur + n \in Nodes /\ cur + n \notin Heads
  <2>1. rest \in Nat /\ cur + n \in Nat /\ cur + n > cur /\ (left => cur + n < cur + size[cur])
    BY <1>2, <1>3
  <2>2. ASSUME left
        PROVE  cur + n \in Units /\ cur + n \in Nodes /\ cur + n \notin Heads
    <3>1. cur + n < cur + size[cur] /\ cur + n > cur
      BY <2>2, <1>2, <1>3
    <3>2. cur + n <= Area
      BY <3>1, <1>1, <1>2, <1>3, <1>4
    <3>3. cur + n \notin Heads
      BY <3>1, <1>2, <1>3, <1>4
    <3> QED
      BY <3>2, <3>3, <2>1, <1>1, <1>3 DEF Units, Nodes
  <2> QED
    BY <2>1, <2>2
<1>6. /\ size' = [q \in Nodes |-> IF q = cur THEN 0 ELSE IF q = cur + n /\ left THEN rest ELSE size[q]]
      /\ next' = [q \in Nodes |-> IF q = p THEN onward
                                  ELSE IF q = cur THEN END
                                  ELSE IF q = cur + n /\ left THEN next[cur]
                                  ELSE next[q]]
  BY DEF Carve
<1> HIDE DEF cur, rest, left
<1>7. p # cur /\ p # cur + n /\ cur # cur + n
  BY <1>2, <1>3
<1>8. \A h : h \in Heads' <=> (h \in Heads /\ h # cur) \/ (left /\ h = cur + n)
  <2>1. SUFFICES ASSUME NEW h
                 PROVE  h \in Heads' <=> (h \in Heads /\ h # cur) \/ (left /\ h = cur + n)
    OBVIOUS
  <2>2. CASE h \notin Units
    BY <2>2, <1>5 DEF Heads
  <2>3. CASE h \in Units
    <3>1. h \in Nodes /\ size'[h] = IF h = cur THEN 0 ELSE IF h = cur + n /\ left THEN rest ELSE size[h]
      BY <2>3, <1>6, Numbers
    <3>2. CASE h = cur
      BY <3>1, <3>2, <2>3, <1>7 DEF Heads
    <3>3. CASE h # cur /\ h = cur + n /\ left
      BY <3>1, <3>3, <2>3 DEF Heads, left
    <3>4. CASE h # cur /\ ~(h = cur + n /\ left)
      BY <3>1, <3>4, <2>3 DEF Heads
    <3> QED
      BY <3>2, <3>3, <3>4
  <2> QED
    BY <2>2, <2>3
<1>9. /\ \A q \in {0} \cup Heads : q # cur => q \in Nodes /\ size'[q] = size[q]
      /\ \A q \in {0} \cup Heads : q # cur /\ q # p => next'[q] = next[q]
      /\ next'[p] = onward
      /\ left => size'[cur + n] = rest /\ next'[cur + n] = next[cur]
  <2>1. \A q \in {0} \cup Heads : q \in Nodes
    BY Numbers
  <2>2. 0 # cur + n
    BY <1>2, <1>3
  <2>3. \A q \in {0} \cup Heads : ~(q = cur + n /\ left)
    BY <1>5, <2>2
  <2> HIDE DEF onward
  <2> QED
    BY <1>2, <1>5, <1>6, <1>7, <2>1, <2>3
<1>10. ListTypes'
  <2>1. size' \in [Nodes -> Nodes]
    <3>1. left => rest \in Nodes
      BY <1>1, <1>2, <1>3, <1>5, Numbers DEF Nodes, rest
    <3>2. 0 \in Nodes
      BY <1>1 DEF Nodes
    <3>3. \A q \in Nodes : size[q] \in Nodes
      BY Numbers
    <3> QED
      BY <1>6, <3>1, <3>2, <3>3
  <2>2. next' \in [Nodes -> Units \cup {END}]
    <3>1. onward \in Units \cup {END} /\ next[cur] \in Units \cup {END}
      BY <1>3, <1>5, Numbers
    <3> HIDE DEF onward
    <3> QED
      BY <1>6, <3>1, Numbers
  <2>3. size'[0] = 0
    BY <1>3, <1>9 DEF ListTypes
  <2> QED
    BY <2>1, <2>2, <2>3 DEF ListTypes
<1>11. onward \in Heads' \cup {END}
  BY <1>3, <1>4, <1>8 DEF left
<1>12. \A h \in Heads : h # cur => h \in Heads'
  BY <1>8
<1>13. FreeListSorted'
  <2>1. SUFFICES ASSUME NEW q \in {0} \cup Heads'
                 PROVE  /\ next'[q] \in Heads' \cup {END}
                        /\ q + size'[q] < next'[q]
                        /\ \A h \in Heads' : ~(q < h /\ h < next'[q])
    BY DEF FreeListSorted
  <2>2. \A h \in Heads' : h \in Nat
    BY <1>2, <1>5, <1>8
  <2>3. CASE left /\ q = cur + n
    <3>1. next[cur] \in Heads' \cup {END}
      BY <1>3, <1>4, <1>8
    <3>2. ASSUME NEW h \in Heads', h > cur + n
          PROVE  h >= next[cur]
      <4>1. h \in Heads /\ h # cur
        BY <3>2, <1>5, <1>8
      <4> QED
        BY <3>2, <4>1, <1>2, <1>3, <1>4, <1>5
    <3>3. cur + n + rest < next[cur]
      BY <1>2, <1>3, <1>4 DEF rest
    <3> QED
      BY <2>2, <2>3, <3>1, <3>2, <3>3, <1>4, <1>5, <1>9
  <2>4. CASE q = p
    <3>1. ASSUME NEW h \in Heads', h > p
          PROVE  h >= onward
      <4>1. CASE left /\ h = cur + n
        BY <4>1, <1>5
      <4>2. CASE h \in Heads /\ h # cur
        <5>1. h > cur /\ h >= next[cur]
          BY <3>1, <4>2, <1>2, <1>3, <1>4
        <5> QED
          BY <4>2, <5>1, <1>2, <1>3, <1>4, <1>5
      <4> QED
        BY <4>1, <4>2, <1>8
    <3>2. p + size[p] < onward /\ onward \in Nat
      BY <1>2, <1>3, <1>4
    <3>3. size'[p] = size[p]
      BY <1>7, <1>9
    <3> HIDE DEF onward
    <3> QED
      BY <2>2, <2>4, <3>1, <3>2, <3>3, <1>2, <1>9, <1>11
  <2>5. CASE q # p /\ ~(left /\ q = cur + n)
    <3>1. q \in {0} \cup Heads /\ q # cur /\ next'[q] = next[q] /\ size'[q] = size[q]
      BY <2>5, <1>3, <1>8, <1>9
    <3>2. q \in Nat /\ size[q] \in Nat
      BY <3>1, Numbers
    <3>3. /\ next[q] \in Heads \cup {END} /\ next[q] \in Nat
          /\ q + size[q] < next[q]
          /\ \A h \in Heads : h > q => h >= next[q]
      BY <3>1, Sorted
    <3>4. CASE q < p
      <4>1. next[q] <= p
        BY <3>2, <3>3, <3>4, <1>2
      <4>2. next[q] \in Heads' \cup {END}
        BY <4>1, <3>3, <1>2, <1>3, <1>8
      <4>3. ASSUME NEW h \in Heads', h > q
            PROVE  h >= next[q]
        <5>1. CASE left /\ h = cur + n
          BY <5>1, <4>1, <3>3, <1>2, <1>3, <1>5
        <5>2. CASE h \in Heads /\ h # cur
          BY <5>2, <4>3, <3>3
        <5> QED
          BY <5>1, <5>2, <1>8
      <4> QED
        BY <2>2, <3>1, <3>2, <3>3, <4>2, <4>3
    <3>5. CASE q > p
      <4>1. q >= cur
        BY <3>1, <3>2, <3>5, <1>2
      <4>2. q > cur
        BY <4>1, <3>1, <3>2, <1>3
      <4>3. q >= next[cur]
        BY <3>1, <3>2, <3>5, <4>2, <1>2, <1>4
      <4>4. next[q] \in Heads' \cup {END}
        BY <4>2, <3>2, <3>3, <1>3, <1>8
      <4>5. ASSUME NEW h \in Heads', h > q
            PROVE  h >= next[q]
        <5>1. CASE left /\ h = cur + n
          BY <5>1, <4>3, <4>5, <3>2, <1>3, <1>4, <1>5
        <5>2. CASE h \in Heads /\ h # cur
          BY <5>2, <4>5, <3>3
        <5> QED
          BY <5>1, <5>2, <1>8
      <4> QED
        BY <2>2, <3>1, <3>2, <3>3, <4>4, <4>5
    <3> QED
      BY <2>5, <3>2, <3>4, <3>5, <1>2
  <2> QED
    BY <2>3, <2>4, <2>5
<1>14. ASSUME NEW u \in Units
       PROVE  Free(u)' <=> Free(u) /\ u \notin Region(cur, n)
  <2>1. u \in Nat
    BY Numbers
  <2>2. Free(u)' <=> \/ left /\ u \in Region(cur + n, rest)
                     \/ \E h \in Heads \ {cur} : u \in Region(h, size[h])
    <3>1. \A h \in Heads \ {cur} : size'[h] = size[h]
      BY <1>9
    <3>2. left => size'[cur + n] = rest
      BY <1>9
    <3> QED
      BY <1>8, <3>1, <3>2 DEF Free
  <2>3. Free(u) <=> u \in Region(cur, size[cur]) \/ \E h \in Heads \ {cur} : u \in Region(h, size[h])
    BY <1>3 DEF Free
  <2>4. u \in Region(cur, size[cur]) <=> u \in Region(cur, n) \/ (left /\ u \in Region(cur + n, rest))
    BY <2>1, <1>2, <1>3 DEF Region, left, rest
  <2>5. left /\ u \in Region(cur + n, rest) => u \notin Region(cur, n)
    BY <2>1, <1>2, <1>3, <1>5 DEF Region
  <2>6. ASSUME NEW h \in Heads \ {cur}, u \in Region(h, size[h])
        PROVE  u \notin Region(cur, n)
    <3>1. h \in Nat /\ size[h] \in Nat
      BY Numbers
    <3>2. CASE h < cur
      <4>1. h + size[h] < cur
        BY <3>2, <1>3, Apart
      <4> QED
        BY <4>1, <2>1, <2>6, <3>1, <1>2, <1>3 DEF Region
    <3>3. CASE h > cur
      <4>1. cur + size[cur] < h
        BY <3>3, <1>3, Apart
      <4> QED
        BY <4>1, <2>1, <2>6, <3>1, <1>2, <1>3 DEF Region
    <3> QED
      BY <3>1, <3>2, <3>3, <1>3
  <2> QED
    BY <2>2, <2>3, <2>4, <2>5, <2>6
<1>15. ASSUME NEW u \in Region(cur, n)
       PROVE  u \in Units /\ Free(u)
  <2>1. u \in Region(cur, size[cur])
    BY <1>2, <1>3 DEF Region
  <2>2. u \in Nat /\ u >= 1 /\ u <= Area
    BY <1>1, <1>2, <1>3, <1>4 DEF Region
  <2> QED
    BY <2>1, <2>2, <1>3 DEF Free, Units
<1> QED
  BY <1>9, <1>10, <1>11, <1>12, <1>13, <1>14, <1>15 DEF cur

\* A block takes the last n units of the region before it.
LEMMA Fronted ==
    ASSUME ListTypes, FreeListSorted,
           NEW p \in Heads, NEW n \in Nat \ {0}, n < size[p],
           size' = [size EXCEPT ![p] = @ - n], next' = next
    PROVE  /\ ListTypes'
           /\ FreeListSorted'
           /\ Heads' = Heads
           /\ \A u \in Units : Free(u)' <=> Free(u) /\ u \notin Region(p + size[p] - n, n)
           /\ \A u \in Region(p + size[p] - n, n) : u \in Units /\ Free(u)
<1>1. /\ p \in Nodes /\ p \in Units /\ p \in Nat /\ p >= 1 /\ size[p] \in Nat /\ size[p] \in Nodes
      /\ Area \in Nat /\ END = Area + 2
  BY Numbers
<1>2. /\ size \in [Nodes -> Nodes] /\ size' \in [Nodes -> Nodes]
      /\ size'[p] = size[p] - n
      /\ \A q \in Nodes : q # p => size'[q] = size[q]
  BY <1>1 DEF ListTypes, Nodes
<1>3. \A q \in Units : q \in Nodes
  BY Numbers
<1>4. Heads' = Heads
  BY <1>1, <1>2, <1>3 DEF Heads
<1>5. ListTypes'
  BY <1>1, <1>2 DEF ListTypes, Nodes
<1>6. FreeListSorted'
  <2>1. SUFFICES ASSUME NEW q \in {0} \cup Heads
                 PROVE  q + size'[q] < next[q]
    BY <1>4 DEF FreeListSorted
  <2>2. q \in Nodes /\ q \in Nat /\ size[q] \in Nat /\ next[q] \in Nat /\ q + size[q] < next[q]
    BY Numbers, Sorted
  <2> QED
    BY <1>1, <1>2, <2>2
<1>7. ASSUME NEW u \in Units
      PROVE  Free(u)' <=> Free(u) /\ u \notin Region(p + size[p] - n, n)
  <2>1. u \in Nat
    BY Numbers
  <2>2. Free(u)' <=> \/ u \in Region(p, size[p] - n)
                     \/ \E h \in Heads \ {p} : u \in Region(h, size[h])
    BY <1>2, <1>4, Numbers DEF Free
  <2>3. Free(u) <=> \/ u \in Region(p, size[p])
                    \/ \E h \in Heads \ {p} : u \in Region(h, size[h])
    BY DEF Free
  <2>4. u \in Region(p, size[p]) <=> u \in Region(p, size[p] - n) \/ u \in Region(p + size[p] - n, n)
    BY <2>1, <1>1 DEF Region
  <2>5. u \in Region(p, size[p] - n) => u \notin Region(p + size[p] - n, n)
    BY <2>1, <1>1 DEF Region
  <2>6. ASSUME NEW h \in Heads \ {p}, u \in Region(h, size[h])
        PROVE  u \notin Region(p + size[p] - n, n)
    <3>1. h \in Nat /\ size[h] \in Nat
      BY Numbers
    <3>2. CASE h < p
      <4>1. h + size[h] < p
        BY <3>2, Apart
      <4> QED
        BY <4>1, <2>1, <2>6, <3>1, <1>1 DEF Region
    <3>3. CASE h > p
      <4>1. p + size[p] < h
        BY <3>3, Apart
      <4> QED
        BY <4>1, <2>1, <2>6, <3>1, <1>1 DEF Region
    <3> QED
      BY <3>1, <3>2, <3>3, <1>1
  <2> QED
    BY <2>2, <2>3, <2>4, <2>5, <2>6
<1>8. ASSUME NEW u \in Region(p + size[p] - n, n)
      PROVE  u \in Units /\ Free(u)
  <2>1. p + size[p] < next[p] /\ next[p] \in Nat /\ next[p] <= END
    <3>1. next[p] \in Heads \cup {END} /\ \A h \in Heads : h <= Area
      BY Sorted, Numbers
    <3> QED
      BY <3>1, <1>1, Sorted, Numbers
  <2>2. u \in Region(p, size[p])
    BY <1>1 DEF Region
  <2>3. u \in Nat /\ u >= 1 /\ u <= Area
    BY <1>1, <2>1 DEF Region
  <2> QED
    BY <2>2, <2>3 DEF Free, Units
<1> QED
  BY <1>4, <1>5, <1>6, <1>7, <1>8

\* A region in two parts.
LEMMA RegionSplit ==
    ASSUME NEW p \in Nat, NEW m \in Nat, NEW k \in Nat
    PROVE  /\ Region(p, m + k) = Region(p, m) \cup Region(p + m, k)
           /\ Region(p, m) \cap Region(p + m, k) = {}
<1> QED
  BY DEF Region

\* The count when a region is allocated.
LEMMA CountUp ==
    ASSUME NEW A \in SUBSET Units, NEW t \in Units, NEW n \in Nat,
           A \cap Region(t, n) = {}
    PROVE  Cardinality(A \cup Region(t, n)) = Cardinality(A) + n
<1>1. IsFiniteSet(A)
  <2>1. IsFiniteSet(Units)
    BY HeapAssumption, FS_Interval DEF Units
  <2> QED
    BY <2>1, FS_Subset
<1>2. IsFiniteSet(Region(t, n)) /\ Cardinality(Region(t, n)) = n
  BY Sized
<1>3. Cardinality(A \cap Region(t, n)) = 0
  BY FS_EmptySet
<1>4. Cardinality(A) \in Nat
  BY <1>1, FS_CardinalityType
<1> QED
  BY <1>1, <1>2, <1>3, <1>4, FS_Union

\* The count when a region is released.
LEMMA CountDown ==
    ASSUME NEW A \in SUBSET Units, NEW t \in Units, NEW n \in Nat,
           Region(t, n) \subseteq A
    PROVE  Cardinality(A \ Region(t, n)) = Cardinality(A) - n /\ Cardinality(A) \in Nat /\ n <= Cardinality(A)
<1> DEFINE B == A \ Region(t, n)
<1>1. B \in SUBSET Units /\ B \cap Region(t, n) = {} /\ A = B \cup Region(t, n)
  OBVIOUS
<1>2. Cardinality(A) = Cardinality(B) + n
  <2> HIDE DEF B
  <2> QED
    BY <1>1, CountUp
<1>3. Cardinality(B) \in Nat
  <2>1. IsFiniteSet(Units)
    BY HeapAssumption, FS_Interval DEF Units
  <2> QED
    BY <2>1, <1>1, FS_Subset, FS_CardinalityType
<1> QED
  BY <1>2, <1>3

-----------------------------------------------------------------------------
(* The inductive invariant: besides the properties, what the program's     *)
(* blocks look like, what each step of a call knows of its arguments, what *)
(* a running search has seen, and what a moving block has.                 *)

\* A block that the program has lies in the area.
Lives == \A b \in Blocks : \/ live[b].at = 0 /\ live[b].size = 0
                           \/ /\ live[b].at \in Units
                              /\ live[b].size \in Nat \ {0}
                              /\ live[b].at + live[b].size - 1 <= Area

\* Where the allocator can be for what goal.
Control ==
    /\ goal = "none" <=> call.block = NoBlock
    /\ goal = "none" => pressure = NONE
    /\ pc = "idle" => goal = "none" /\ freed = NoBlock
    /\ pc \in {"reclaim", "scan", "fatal"} => freed = NoBlock
    /\ pc = "reclaim" => goal \in {"alloc", "extend", "copy"}
    /\ pc \in {"scan", "fatal"} => goal \in {"alloc", "copy"}
    /\ pc \in {"reclaim", "scan"} => pressure # FULL
    /\ pc = "find" =>
        \/ /\ freed \in Blocks /\ freed # call.block
           /\ live[freed].at # 0 /\ target = live[freed].at
           /\ goal \in {"none", "alloc", "extend", "copy"}
           /\ goal # "none" => pressure # FULL
        \/ /\ freed = NoBlock
           /\ goal \in {"shrink", "extend", "unlink", "move"}
           /\ goal # "unlink" => target = live[call.block].at

\* The arguments of the call.
Arguments ==
    /\ goal # "none" => call.size \in Units
    /\ goal = "alloc" => live[call.block].at = 0 /\ call.max \in {HIGH, FULL}
    /\ goal = "shrink" => live[call.block].at # 0 /\ call.size < live[call.block].size
    /\ goal \in {"extend", "unlink", "copy", "move"} =>
            live[call.block].at # 0 /\ call.size > live[call.block].size
    /\ goal \in {"extend", "copy"} => call.max = FULL

\* The region before the block that is to be unlinked is what the block needs.
Unlinking == goal = "unlink" => /\ target \in Heads
                                /\ size[target] = Required
                                /\ target + Required = live[call.block].at

\* A new region is there exactly while a block moves to it.
NewRegion ==
    /\ \A u \in Units : data[u] = Fresh <=> goal = "move" /\ u \in Region(call.result, call.size)
    /\ goal = "move" => call.result \in Units /\ call.result + call.size - 1 <= Area

\* The regions that the search of an allocation has passed are too small.
Searched == pc = "scan" => \A h \in Heads : h <= at => size[h] < call.size

\* The limit while the units of a moving block are not counted.
MovingLimit == goal = "copy" => limit <= allocated + live[call.block].size + GCLimit

IInv == /\ TypeOK
        /\ size[0] = 0
        /\ BlocksIntact
        /\ FreeListSorted
        /\ NothingStale
        /\ Lives
        /\ Control
        /\ Arguments
        /\ Unlinking
        /\ NewRegion
        /\ Searched
        /\ Accounting
        /\ MovingLimit

\* The addresses as numbers, and the levels of pressure.
LEMMA Places ==
    /\ END = Area + 2 /\ Area \in Nat /\ Area >= 1
    /\ 0 \in Nodes
    /\ \A p \in Nodes : p \in Nat /\ p <= Area
    /\ \A p \in Units : p \in Nodes /\ p \in Nat /\ p >= 1 /\ p <= Area
    /\ \A p \in Nat : p >= 1 /\ p <= Area => p \in Units
    /\ {NONE, LOW, HIGH, FULL} \subseteq Pressure
    /\ \A p \in Pressure : p # FULL => p + 1 \in Pressure
<1>1. Area \in Nat /\ Area >= 1 /\ END = Area + 2
  BY HeapAssumption DEF END
<1>2. /\ {NONE, LOW, HIGH, FULL} \subseteq Pressure
      /\ \A p \in Pressure : p # FULL => p + 1 \in Pressure
  BY DEF Pressure, NONE, LOW, HIGH, FULL
<1> QED
  BY <1>1, <1>2 DEF Nodes, Units

\* What the steps need most of the invariant.
LEMMA Known ==
    ASSUME IInv
    PROVE  /\ ListTypes
           /\ at \in Nat /\ target \in Nat
           /\ skip \in Nat /\ (skip \in Nodes \/ skip = END)
           /\ Heads \subseteq Units
<1>1. ListTypes
  BY DEF IInv, TypeOK, ListTypes
<1>2. at \in Nodes /\ target \in Nodes /\ (skip \in Nodes \/ skip = END)
  BY DEF IInv, TypeOK
<1>3. Heads \subseteq Units
  BY DEF Heads
<1> QED
  BY <1>1, <1>2, <1>3, Places

\* The steps that only read the memory.
LEMMA OnlyReads ==
    ASSUME IInv, UNCHANGED <<list, client>>
    PROVE  /\ size'[0] = 0
           /\ BlocksIntact'
           /\ FreeListSorted'
           /\ Lives'
           /\ Heads' = Heads
           /\ Held' = Held
           /\ size' = size /\ next' = next /\ skip' = skip /\ data' = data /\ live' = live
<1>1. /\ size' = size /\ next' = next /\ skip' = skip /\ data' = data /\ live' = live
  BY DEF list, client
<1> QED
  BY <1>1 DEF IInv, BlocksIntact, FreeListSorted, Lives, Heads, Held, Free, UnitsOf, Region

\* A search for the predecessor of a block starts at the skip pointer or at the first header.
LEMMA FindStarts ==
    ASSUME IInv, NEW t \in Units, FindPrev(t)
    PROVE  at' \in {0} \cup Heads /\ at' \in Nodes /\ at' < t /\ target' = t /\ pc' = "find"
<1>1. t \in Nat /\ t >= 1 /\ t <= Area
  BY Places
<1>2. /\ skip \in {0, END} \cup Heads
      /\ pc' = "find" /\ target' = t /\ at' = IF t > skip THEN skip ELSE 0
  BY DEF FindPrev, IInv, NothingStale
<1>3. at' \in {0} \cup Heads /\ at' < t
  <2>1. CASE t > skip
    BY <2>1, <1>1, <1>2, Places
  <2>2. CASE ~(t > skip)
    BY <2>2, <1>1, <1>2
  <2> QED
    BY <2>1, <2>2
<1>4. at' \in Nodes
  BY <1>3, Places, Known
<1> QED
  BY <1>2, <1>3, <1>4

\* AllocBlock preserves the invariant.
LEMMA AllocBlockStep ==
    ASSUME IInv, NEW b \in Blocks, NEW n \in Units, NEW max \in {HIGH, FULL}, NEW slack \in {0, 1},
           AllocBlock(b, n, max, slack)
    PROVE  IInv'
<1>1. /\ size'[0] = 0 /\ BlocksIntact' /\ FreeListSorted' /\ Lives' /\ Heads' = Heads /\ Held' = Held
      /\ size' = size /\ next' = next /\ skip' = skip /\ data' = data /\ live' = live
      /\ allocated' = allocated /\ limit' = limit /\ freed' = freed
  BY OnlyReads DEF AllocBlock, list, client, count
<1>2. /\ pc = "idle" /\ goal = "none" /\ freed = NoBlock /\ live[b].at = 0
      /\ goal' = "alloc"
      /\ call' = [block |-> b, size |-> n, max |-> max, result |-> 0]
      /\ target' = target
      /\ \/ pc' = "reclaim" /\ pressure' = LOW /\ at' = at
         \/ pc' = "scan" /\ pressure' = NONE /\ at' = 0
  BY DEF AllocBlock, GcAndAlloc, Scan, search, IInv, Control
<1>3. TypeOK'
  <2>1. call' \in [block: Blocks \cup {NoBlock}, size: Nodes, max: {NONE, HIGH, FULL}, result: Nodes]
    BY <1>2, Places
  <2>2. goal' \in Goals /\ pc' \in {"idle", "reclaim", "scan", "find", "fatal"} /\ pressure' \in Pressure
    BY <1>2, Places DEF Goals
  <2>3. at' \in Nodes /\ target' \in Nodes
    BY <1>2, Places DEF IInv, TypeOK
  <2> QED
    BY <1>1, <2>1, <2>2, <2>3 DEF IInv, TypeOK
<1>4. NothingStale'
  BY <1>1, <1>2 DEF IInv, NothingStale
<1>5. Control'
  BY <1>1, <1>2, HeapAssumption DEF Control, NONE, LOW, FULL
<1>6. Arguments'
  BY <1>1, <1>2 DEF Arguments
<1>7. Unlinking' /\ MovingLimit'
  BY <1>2 DEF Unlinking, MovingLimit
<1>8. NewRegion'
  BY <1>1, <1>2 DEF IInv, NewRegion
<1>9. Searched'
  BY <1>1, <1>2, Numbers, Known DEF Searched
<1>10. Accounting'
  BY <1>1, <1>2 DEF IInv, Accounting, Moving
<1> QED
  BY <1>1, <1>3, <1>4, <1>5, <1>6, <1>7, <1>8, <1>9, <1>10 DEF IInv

\* SkipRegion preserves the invariant.
LEMMA SkipRegionStep ==
    ASSUME IInv, SkipRegion
    PROVE  IInv'
<1>1. /\ size'[0] = 0 /\ BlocksIntact' /\ FreeListSorted' /\ Lives' /\ Heads' = Heads /\ Held' = Held
      /\ size' = size /\ next' = next /\ skip' = skip /\ data' = data /\ live' = live
  BY OnlyReads DEF SkipRegion
<1>2. /\ pc = "scan" /\ next[at] # END /\ size[next[at]] < call.size /\ at' = next[at]
      /\ pc' = pc /\ goal' = goal /\ call' = call /\ pressure' = pressure /\ freed' = freed /\ target' = target
      /\ allocated' = allocated /\ limit' = limit
  BY DEF SkipRegion, count
<1>3. /\ at \in {0} \cup Heads /\ at \in Nat
      /\ next[at] \in Heads /\ next[at] \in Nat
      /\ \A h \in Heads : h > at => h >= next[at]
  BY <1>2, Known, Sorted DEF IInv, NothingStale
<1>4. TypeOK'
  <2>1. at' \in Nodes
    BY <1>2, <1>3, Known, Places
  <2> QED
    BY <1>1, <1>2, <2>1 DEF IInv, TypeOK
<1>5. NothingStale'
  BY <1>1, <1>2, <1>3 DEF IInv, NothingStale, Control
<1>6. Searched'
  <2>1. SUFFICES ASSUME NEW h \in Heads, h <= next[at]
                 PROVE  size[h] < call.size
    BY <1>1, <1>2 DEF Searched
  <2>2. h \in Nat
    BY Known, Places
  <2>3. h <= at \/ h = next[at]
    BY <1>3, <2>1, <2>2
  <2> QED
    BY <1>2, <2>3 DEF IInv, Searched
<1>7. Control' /\ Arguments' /\ Unlinking' /\ NewRegion' /\ MovingLimit'
  BY <1>1, <1>2 DEF IInv, Control, Arguments, Unlinking, Required, NewRegion, MovingLimit
<1>8. Accounting'
  BY <1>1, <1>2 DEF IInv, Accounting, Moving, UnitsOf
<1> QED
  BY <1>1, <1>4, <1>5, <1>6, <1>7, <1>8 DEF IInv

\* Retry preserves the invariant.
LEMMA RetryStep ==
    ASSUME IInv, Retry
    PROVE  IInv'
<1>1. /\ size'[0] = 0 /\ BlocksIntact' /\ FreeListSorted' /\ Lives' /\ Heads' = Heads /\ Held' = Held
      /\ size' = size /\ next' = next /\ skip' = skip /\ data' = data /\ live' = live
  BY OnlyReads DEF Retry
<1>2. /\ pc = "scan" /\ pressure' = pressure + 1
      /\ pc' = IF pressure' = FULL THEN "fatal" ELSE "reclaim"
      /\ goal' = goal /\ call' = call /\ freed' = freed /\ at' = at /\ target' = target
      /\ allocated' = allocated /\ limit' = limit
  BY DEF Retry, NotFound, count, search
<1>3. pressure' \in Pressure
  BY <1>2, Places DEF IInv, Control, TypeOK
<1>4. TypeOK'
  BY <1>1, <1>2, <1>3 DEF IInv, TypeOK
<1>5. NothingStale' /\ Searched'
  BY <1>1, <1>2 DEF IInv, NothingStale, Searched
<1>6. Control' /\ Arguments' /\ Unlinking' /\ NewRegion' /\ MovingLimit'
  BY <1>1, <1>2 DEF IInv, Control, Arguments, Unlinking, Required, NewRegion, MovingLimit
<1>7. Accounting'
  BY <1>1, <1>2 DEF IInv, Accounting, Moving, UnitsOf
<1> QED
  BY <1>1, <1>4, <1>5, <1>6, <1>7 DEF IInv

\* GiveNull preserves the invariant.
LEMMA GiveNullStep ==
    ASSUME IInv, GiveNull
    PROVE  IInv'
<1>1. /\ size'[0] = 0 /\ BlocksIntact' /\ FreeListSorted' /\ Lives' /\ Heads' = Heads /\ Held' = Held
      /\ size' = size /\ next' = next /\ skip' = skip /\ data' = data /\ live' = live
  BY OnlyReads DEF GiveNull
<1>2. /\ pc = "scan" /\ pressure = call.max
      /\ pc' = "idle" /\ goal' = "none" /\ call' = NoCall /\ pressure' = NONE
      /\ freed' = freed /\ at' = at /\ target' = target
      /\ allocated' = allocated /\ limit' = limit
  BY DEF GiveNull, NotFound, Return, count, search
<1>3. goal = "alloc" /\ freed = NoBlock
  BY <1>2 DEF IInv, Control, Arguments
<1>4. TypeOK'
  <2>1. call' \in [block: Blocks \cup {NoBlock}, size: Nodes, max: {NONE, HIGH, FULL}, result: Nodes]
    BY <1>2, Places DEF NoCall
  <2>2. pressure' \in Pressure
    BY <1>2, Places
  <2> QED
    BY <1>1, <1>2, <2>1, <2>2 DEF IInv, TypeOK, Goals
<1>5. NothingStale' /\ Searched'
  BY <1>1, <1>2 DEF IInv, NothingStale, Searched
<1>6. Control' /\ Arguments' /\ Unlinking' /\ MovingLimit'
  BY <1>1, <1>2, <1>3 DEF Control, Arguments, Unlinking, MovingLimit, NoCall
<1>7. NewRegion'
  BY <1>1, <1>2, <1>3 DEF IInv, NewRegion
<1>8. Accounting'
  BY <1>1, <1>2, <1>3 DEF IInv, Accounting, Moving
<1> QED
  BY <1>1, <1>4, <1>5, <1>6, <1>7, <1>8 DEF IInv

\* EndReclaim preserves the invariant.
LEMMA EndReclaimStep ==
    ASSUME IInv, EndReclaim
    PROVE  IInv'
<1>1. /\ size'[0] = 0 /\ BlocksIntact' /\ FreeListSorted' /\ Lives' /\ Heads' = Heads /\ Held' = Held
      /\ size' = size /\ next' = next /\ skip' = skip /\ data' = data /\ live' = live
  BY OnlyReads DEF EndReclaim
<1>2. /\ pc = "reclaim"
      /\ goal' = goal /\ call' = call /\ pressure' = pressure /\ freed' = freed
      /\ allocated' = allocated /\ limit' = limit
  BY DEF EndReclaim, count
<1>3. freed = NoBlock /\ goal \in {"alloc", "extend", "copy"} /\ pressure # FULL
  BY <1>2 DEF IInv, Control
<1>4. \/ /\ goal = "extend" /\ pc' = "find" /\ target' = live[call.block].at
         /\ at' \in {0} \cup Heads /\ at' \in Nodes /\ at' < target' /\ target' \in Nodes
      \/ /\ goal # "extend" /\ pc' = "scan" /\ at' = 0 /\ target' = target
  <2>1. CASE goal = "extend"
    <3>1. live[call.block].at \in Units
      BY <2>1, HeapAssumption DEF IInv, Arguments, Lives, Control, TypeOK
    <3>2. FindPrev(live[call.block].at)
      BY <2>1 DEF EndReclaim
    <3> QED
      BY <2>1, <3>1, <3>2, FindStarts, Places
  <2>2. CASE goal # "extend"
    BY <2>2 DEF EndReclaim, Scan
  <2> QED
    BY <2>1, <2>2
<1>5. TypeOK'
  BY <1>1, <1>2, <1>4, Places DEF IInv, TypeOK
<1>6. NothingStale'
  BY <1>1, <1>2, <1>3, <1>4 DEF IInv, NothingStale
<1>7. Searched'
  BY <1>1, <1>2, <1>4, Known, Places DEF Searched
<1>8. Control'
  BY <1>1, <1>2, <1>3, <1>4 DEF IInv, Control
<1>9. Arguments' /\ NewRegion' /\ MovingLimit'
  BY <1>1, <1>2 DEF IInv, Arguments, NewRegion, MovingLimit
<1>10. Unlinking'
  BY <1>2, <1>3 DEF Unlinking
<1>11. Accounting'
  BY <1>1, <1>2 DEF IInv, Accounting, Moving, UnitsOf
<1> QED
  BY <1>1, <1>5, <1>6, <1>7, <1>8, <1>9, <1>10, <1>11 DEF IInv

\* FreeBlock preserves the invariant.
LEMMA FreeBlockStep ==
    ASSUME IInv, NEW b \in Blocks, FreeBlock(b)
    PROVE  IInv'
<1>1. /\ size'[0] = 0 /\ BlocksIntact' /\ FreeListSorted' /\ Lives' /\ Heads' = Heads /\ Held' = Held
      /\ size' = size /\ next' = next /\ skip' = skip /\ data' = data /\ live' = live
  BY OnlyReads DEF FreeBlock
<1>2. /\ pc \in {"idle", "reclaim"} /\ live[b].at # 0 /\ b # call.block /\ freed' = b
      /\ FindPrev(live[b].at)
      /\ goal' = goal /\ call' = call /\ pressure' = pressure
      /\ allocated' = allocated /\ limit' = limit
  BY DEF FreeBlock, count
<1>3. /\ pc = "idle" => goal = "none"
      /\ pc = "reclaim" => goal \in {"alloc", "extend", "copy"} /\ pressure # FULL
      /\ b # NoBlock
  BY HeapAssumption DEF IInv, Control
<1>4. /\ pc' = "find" /\ target' = live[b].at
      /\ at' \in {0} \cup Heads /\ at' \in Nodes /\ at' < target' /\ target' \in Nodes
  <2>1. live[b].at \in Units
    BY <1>2 DEF IInv, Lives
  <2> QED
    BY <1>2, <2>1, FindStarts, Places
<1>5. TypeOK'
  BY <1>1, <1>2, <1>4 DEF IInv, TypeOK
<1>6. NothingStale' /\ Searched' /\ Unlinking'
  BY <1>1, <1>2, <1>3, <1>4 DEF IInv, NothingStale, Searched, Unlinking
<1>7. Control'
  BY <1>1, <1>2, <1>3, <1>4 DEF IInv, Control
<1>8. Arguments' /\ NewRegion' /\ MovingLimit'
  BY <1>1, <1>2 DEF IInv, Arguments, NewRegion, MovingLimit
<1>9. Accounting'
  BY <1>1, <1>2 DEF IInv, Accounting, Moving, UnitsOf
<1> QED
  BY <1>1, <1>5, <1>6, <1>7, <1>8, <1>9 DEF IInv

\* FindNext preserves the invariant.
LEMMA FindNextStep ==
    ASSUME IInv, FindNext
    PROVE  IInv'
<1>1. /\ size'[0] = 0 /\ BlocksIntact' /\ FreeListSorted' /\ Lives' /\ Heads' = Heads /\ Held' = Held
      /\ size' = size /\ next' = next /\ skip' = skip /\ data' = data /\ live' = live
  BY OnlyReads DEF FindNext
<1>2. /\ pc = "find" /\ next[at] < target /\ at' = next[at]
      /\ pc' = pc /\ goal' = goal /\ call' = call /\ pressure' = pressure /\ freed' = freed /\ target' = target
      /\ allocated' = allocated /\ limit' = limit
  BY DEF FindNext, count
<1>3. next[at] \in Heads
  <2>1. at \in {0} \cup Heads
    BY <1>2 DEF IInv, NothingStale
  <2>2. target \in Nodes
    BY DEF IInv, TypeOK
  <2>3. next[at] # END
    BY <1>2, <2>2, Places
  <2> QED
    BY <2>1, <2>3, Known, Sorted DEF IInv
<1>4. TypeOK'
  <2>1. at' \in Nodes
    BY <1>2, <1>3, Known, Places
  <2> QED
    BY <1>1, <1>2, <2>1 DEF IInv, TypeOK
<1>5. NothingStale' /\ Searched'
  BY <1>1, <1>2, <1>3 DEF IInv, NothingStale, Searched
<1>6. Control' /\ Arguments' /\ Unlinking' /\ NewRegion' /\ MovingLimit'
  BY <1>1, <1>2 DEF IInv, Control, Arguments, Unlinking, Required, NewRegion, MovingLimit
<1>7. Accounting'
  BY <1>1, <1>2 DEF IInv, Accounting, Moving, UnitsOf
<1> QED
  BY <1>1, <1>4, <1>5, <1>6, <1>7 DEF IInv

\* ShrinkBlock preserves the invariant.
LEMMA ShrinkBlockStep ==
    ASSUME IInv, NEW b \in Blocks, NEW n \in Units, ShrinkBlock(b, n)
    PROVE  IInv'
<1>1. /\ size'[0] = 0 /\ BlocksIntact' /\ FreeListSorted' /\ Lives' /\ Heads' = Heads /\ Held' = Held
      /\ size' = size /\ next' = next /\ skip' = skip /\ data' = data /\ live' = live
  BY OnlyReads DEF ShrinkBlock
<1>2. /\ pc = "idle" /\ live[b].at # 0 /\ n < live[b].size
      /\ goal' = "shrink"
      /\ call' = [block |-> b, size |-> n, max |-> NONE, result |-> 0]
      /\ FindPrev(live[b].at)
      /\ pressure' = pressure /\ freed' = freed
      /\ allocated' = allocated /\ limit' = limit
  BY DEF ShrinkBlock, count
<1>3. goal = "none" /\ freed = NoBlock /\ b # NoBlock
  BY <1>2, HeapAssumption DEF IInv, Control
<1>4. /\ pc' = "find" /\ target' = live[b].at
      /\ at' \in {0} \cup Heads /\ at' \in Nodes /\ at' < target' /\ target' \in Nodes
  <2>1. live[b].at \in Units
    BY <1>2 DEF IInv, Lives
  <2> QED
    BY <1>2, <2>1, FindStarts, Places
<1>5. TypeOK'
  <2>1. call' \in [block: Blocks \cup {NoBlock}, size: Nodes, max: {NONE, HIGH, FULL}, result: Nodes]
    BY <1>2, Places
  <2> QED
    BY <1>1, <1>2, <1>4, <2>1 DEF IInv, TypeOK, Goals
<1>6. NothingStale' /\ Searched' /\ Unlinking' /\ MovingLimit'
  BY <1>1, <1>2, <1>4 DEF IInv, NothingStale, Searched, Unlinking, MovingLimit
<1>7. Control' /\ Arguments'
  BY <1>1, <1>2, <1>3, <1>4 DEF Control, Arguments
<1>8. NewRegion'
  BY <1>1, <1>2, <1>3 DEF IInv, NewRegion
<1>9. Accounting'
  BY <1>1, <1>2, <1>3 DEF IInv, Accounting, Moving
<1> QED
  BY <1>1, <1>5, <1>6, <1>7, <1>8, <1>9 DEF IInv

\* GrowBlock preserves the invariant.
LEMMA GrowBlockStep ==
    ASSUME IInv, NEW b \in Blocks, NEW n \in Units, GrowBlock(b, n)
    PROVE  IInv'
<1>1. /\ size'[0] = 0 /\ BlocksIntact' /\ FreeListSorted' /\ Lives' /\ Heads' = Heads /\ Held' = Held
      /\ size' = size /\ next' = next /\ skip' = skip /\ data' = data /\ live' = live
  BY OnlyReads DEF GrowBlock
<1>2. /\ pc = "idle" /\ live[b].at # 0 /\ n > live[b].size
      /\ goal' = "extend"
      /\ call' = [block |-> b, size |-> n, max |-> FULL, result |-> 0]
      /\ \/ pc' = "reclaim" /\ at' = at /\ target' = target
         \/ FindPrev(live[b].at)
      /\ pressure' = pressure /\ freed' = freed
      /\ allocated' = allocated /\ limit' = limit
  BY DEF GrowBlock, count, search
<1>3. goal = "none" /\ freed = NoBlock /\ b # NoBlock
  BY <1>2, HeapAssumption DEF IInv, Control
<1>4. \/ pc' = "reclaim" /\ at' = at /\ target' = target
      \/ /\ pc' = "find" /\ target' = live[b].at
         /\ at' \in {0} \cup Heads /\ at' \in Nodes /\ at' < target' /\ target' \in Nodes
  <2>1. live[b].at \in Units
    BY <1>2 DEF IInv, Lives
  <2> QED
    BY <1>2, <2>1, FindStarts, Places
<1>5. TypeOK'
  <2>1. call' \in [block: Blocks \cup {NoBlock}, size: Nodes, max: {NONE, HIGH, FULL}, result: Nodes]
    BY <1>2, Places
  <2> QED
    BY <1>1, <1>2, <1>4, <2>1 DEF IInv, TypeOK, Goals
<1>6. NothingStale' /\ Searched' /\ Unlinking' /\ MovingLimit'
  BY <1>1, <1>2, <1>4 DEF IInv, NothingStale, Searched, Unlinking, MovingLimit
<1>7. Control' /\ Arguments'
  BY <1>1, <1>2, <1>3, <1>4 DEF IInv, Control, Arguments, NONE, FULL
<1>8. NewRegion'
  BY <1>1, <1>2, <1>3 DEF IInv, NewRegion
<1>9. Accounting'
  BY <1>1, <1>2, <1>3 DEF IInv, Accounting, Moving
<1> QED
  BY <1>1, <1>5, <1>6, <1>7, <1>8, <1>9 DEF IInv

\* What a search for a predecessor has found: the free region before some units of blocks, and
\* the next one after them.
LEMMA PrevGap ==
    ASSUME IInv, PrevFound,
           NEW n \in Nat \ {0}, target \in Units, target + n - 1 <= Area,
           \A u \in Region(target, n) : data[u] # NoBlock
    PROVE  /\ at \in {0} \cup Heads /\ at \in Nodes /\ at < target
           /\ at + size[at] <= target
           /\ target + n <= next[at]
<1>1. at \in {0} \cup Heads /\ at < target /\ next[at] >= target
  BY DEF IInv, NothingStale, PrevFound
<1>2. \A u \in Region(target, n) : u \in Units
  BY Places DEF Region
<1>3. \A u \in Region(target, n) : ~Free(u)
  BY <1>2 DEF IInv, BlocksIntact
<1>4. at \in Nodes
  BY DEF IInv, TypeOK
<1> QED
  BY <1>1, <1>3, <1>4, Gap, Known DEF IInv

\* The units of a block.
LEMMA BlockUnits ==
    ASSUME IInv, NEW b \in Blocks, live[b].at # 0
    PROVE  /\ live[b].at \in Units /\ live[b].size \in Nat \ {0}
           /\ live[b].at + live[b].size - 1 <= Area
           /\ UnitsOf(b) \subseteq Units
           /\ \A u \in UnitsOf(b) : data[u] = b /\ data[u] # NoBlock /\ u \in Held
<1>1. /\ live[b].at \in Units /\ live[b].size \in Nat \ {0}
      /\ live[b].at + live[b].size - 1 <= Area
  BY DEF IInv, Lives
<1>2. UnitsOf(b) \subseteq Units
  BY <1>1, Places DEF UnitsOf, Region
<1>3. b # NoBlock
  BY HeapAssumption
<1> QED
  BY <1>1, <1>2, <1>3 DEF IInv, BlocksIntact, Held

\* A block that is to grow and the search for its predecessor.
LEMMA Growing ==
    ASSUME IInv, Extending
    PROVE  /\ call.block \in Blocks
           /\ target = live[call.block].at /\ target \in Units /\ target \in Nat /\ target >= 1
           /\ live[call.block].size \in Nat \ {0} /\ call.size \in Units /\ call.size \in Nat
           /\ Required \in Nat \ {0} /\ call.size = live[call.block].size + Required
           /\ target + live[call.block].size - 1 <= Area
           /\ at \in {0} \cup Heads /\ at \in Nodes /\ at < target
           /\ at + size[at] <= target
           /\ target + live[call.block].size <= next[at]
<1>1. /\ call.block \in Blocks /\ call.block # NoBlock
      /\ live[call.block].at # 0 /\ call.size > live[call.block].size /\ call.size \in Units
      /\ target = live[call.block].at
  BY HeapAssumption DEF IInv, Extending, PrevFound, Control, Arguments, TypeOK
<1>2. /\ live[call.block].at \in Units /\ live[call.block].size \in Nat \ {0}
      /\ live[call.block].at + live[call.block].size - 1 <= Area
      /\ \A u \in UnitsOf(call.block) : data[u] # NoBlock
  BY <1>1, BlockUnits
<1>3. /\ at \in {0} \cup Heads /\ at \in Nodes /\ at < target
      /\ at + size[at] <= target
      /\ target + live[call.block].size <= next[at]
  BY <1>1, <1>2, PrevGap DEF Extending, UnitsOf
<1>4. Required \in Nat \ {0} /\ call.size = live[call.block].size + Required
  BY <1>1, <1>2, Places DEF Required
<1> QED
  BY <1>1, <1>2, <1>3, <1>4, Places

\* ExtendFrontAll preserves the invariant.
LEMMA ExtendFrontAllStep ==
    ASSUME IInv, ExtendFrontAll
    PROVE  IInv'
<1>1. /\ size'[0] = 0 /\ BlocksIntact' /\ FreeListSorted' /\ Lives' /\ Heads' = Heads /\ Held' = Held
      /\ size' = size /\ next' = next /\ skip' = skip /\ data' = data /\ live' = live
  BY OnlyReads DEF ExtendFrontAll
<1>2. /\ Extending /\ CanExtendFront /\ Required = size[at]
      /\ pc = "find" /\ goal = "extend" /\ freed = NoBlock
      /\ goal' = "unlink" /\ FindPrev(at)
      /\ call' = call /\ pressure' = pressure /\ freed' = freed
      /\ allocated' = allocated /\ limit' = limit
  BY DEF ExtendFrontAll, Extending, PrevFound, count
<1>3. /\ Required \in Nat \ {0} /\ at \in {0} \cup Heads
      /\ target = live[call.block].at /\ at + size[at] = target
  BY <1>2, Growing DEF CanExtendFront, FreeBefore
<1>4. at \in Heads /\ at \in Units
  BY <1>2, <1>3, Known DEF IInv
<1>5. /\ pc' = "find" /\ target' = at
      /\ at' \in {0} \cup Heads /\ at' \in Nodes /\ at' < target' /\ target' \in Nodes
  BY <1>2, <1>4, FindStarts, Places
<1>6. TypeOK'
  BY <1>1, <1>2, <1>5 DEF IInv, TypeOK, Goals
<1>7. NothingStale' /\ Searched' /\ MovingLimit'
  BY <1>1, <1>2, <1>4, <1>5 DEF IInv, NothingStale, Searched, MovingLimit
<1>8. Unlinking'
  BY <1>1, <1>2, <1>3, <1>4, <1>5 DEF Unlinking, Required
<1>9. Control' /\ Arguments'
  BY <1>1, <1>2, <1>5 DEF IInv, Control, Arguments
<1>10. NewRegion'
  BY <1>1, <1>2 DEF IInv, NewRegion
<1>11. Accounting'
  BY <1>1, <1>2 DEF IInv, Accounting, Moving
<1> QED
  BY <1>1, <1>6, <1>7, <1>8, <1>9, <1>10, <1>11 DEF IInv

\* AllocateNew preserves the invariant.
LEMMA AllocateNewStep ==
    ASSUME IInv, NEW slack \in {0, 1}, AllocateNew(slack)
    PROVE  IInv'
<1> DEFINE b == call.block
           old == live[b].size
<1>1. /\ UNCHANGED <<list, client>>
      /\ Extending /\ pc = "find" /\ goal = "extend" /\ freed = NoBlock
      /\ goal' = "copy" /\ allocated' = allocated - old
      /\ call' = call /\ freed' = freed /\ limit' = limit /\ target' = target
      /\ \/ pc' = "reclaim" /\ pressure' = LOW /\ at' = at
         \/ pc' = "scan" /\ pressure' = NONE /\ at' = 0
  BY DEF AllocateNew, Extending, PrevFound, GcAndAlloc, Scan, search
<1>2. /\ size'[0] = 0 /\ BlocksIntact' /\ FreeListSorted' /\ Lives' /\ Heads' = Heads /\ Held' = Held
      /\ size' = size /\ next' = next /\ skip' = skip /\ data' = data /\ live' = live
  BY <1>1, OnlyReads
<1>3. b \in Blocks /\ live[b].at # 0 /\ old \in Nat \ {0} /\ target \in Nodes
  BY <1>1, Growing DEF IInv, Arguments, TypeOK
<1>4. /\ UnitsOf(b) \subseteq Held /\ Held \subseteq Units
      /\ live[b].at \in Units
  BY <1>3, BlockUnits DEF Held
<1>5. /\ Cardinality(Held \ UnitsOf(b)) = Cardinality(Held) - old
      /\ Cardinality(Held) \in Nat /\ old <= Cardinality(Held)
  BY <1>3, <1>4, CountDown DEF UnitsOf
<1>6. allocated = Cardinality(Held) /\ allocated <= limit /\ limit <= allocated + GCLimit
      /\ limit \in Nat /\ GCLimit \in Nat
  BY <1>1, HeapAssumption DEF IInv, Accounting, Moving, TypeOK
<1>7. Accounting'
  <2>1. Held' \ Moving' = Held \ UnitsOf(b)
    BY <1>1, <1>2 DEF Moving, UnitsOf
  <2>2. allocated' = Cardinality(Held' \ Moving')
    BY <1>1, <1>5, <1>6, <2>1
  <2>3. allocated' <= limit'
    <3> HIDE DEF old
    <3> QED
      BY <1>1, <1>3, <1>5, <1>6
  <2> QED
    BY <1>1, <2>2, <2>3 DEF Accounting
<1>8. MovingLimit'
  BY <1>1, <1>2, <1>3, <1>5, <1>6 DEF MovingLimit
<1>9. TypeOK'
  <2>1. allocated' \in Nat
    BY <1>1, <1>3, <1>5, <1>6
  <2>2. pressure' \in Pressure /\ at' \in Nodes
    BY <1>1, Places DEF IInv, TypeOK
  <2> QED
    BY <1>1, <1>2, <2>1, <2>2 DEF IInv, TypeOK, Goals
<1>10. NothingStale' /\ Unlinking'
  BY <1>1, <1>2 DEF IInv, NothingStale, Unlinking
<1>11. Searched'
  BY <1>1, <1>2, Known, Places DEF Searched
<1>12. Control'
  BY <1>1, <1>2, <1>3, HeapAssumption DEF Control, NONE, LOW, FULL
<1>13. Arguments'
  BY <1>1, <1>2 DEF IInv, Arguments
<1>14. NewRegion'
  BY <1>1, <1>2 DEF IInv, NewRegion
<1> QED
  BY <1>2, <1>7, <1>8, <1>9, <1>10, <1>11, <1>12, <1>13, <1>14 DEF IInv

\* Release preserves the invariant.
LEMMA ReleaseStep ==
    ASSUME IInv, Release
    PROVE  IInv'
<1> DEFINE b == freed
           n == live[b].size
           R == Region(target, n)
<1>1. /\ PrevFound /\ pc = "find" /\ b # NoBlock
      /\ Insert(target, at, n) /\ skip' = at
      /\ allocated' = allocated - n /\ limit' = Lowered(allocated - n, limit)
      /\ data' = Released(data, UnitsOf(b))
      /\ live' = [live EXCEPT ![b] = [at |-> 0, size |-> 0]]
      /\ freed' = NoBlock
      /\ pc' = IF goal = "none" THEN "idle" ELSE "reclaim"
      /\ goal' = goal /\ call' = call /\ pressure' = pressure /\ at' = at /\ target' = target
  BY DEF Release, InsertBlock, Uncount, PrevFound, search
<1>2. /\ b \in Blocks /\ b # call.block
      /\ live[b].at # 0 /\ target = live[b].at
      /\ goal \in {"none", "alloc", "extend", "copy"}
      /\ goal # "none" => pressure # FULL
  BY <1>1 DEF IInv, Control
<1>3. /\ target \in Units /\ n \in Nat \ {0} /\ target + n - 1 <= Area
      /\ R = UnitsOf(b) /\ R \subseteq Units
      /\ \A u \in R : data[u] = b /\ data[u] # NoBlock /\ u \in Held
  <2>1. R = UnitsOf(b)
    BY <1>2 DEF UnitsOf
  <2> QED
    BY <1>2, <2>1, BlockUnits
<1>4. /\ at \in {0} \cup Heads /\ at \in Nodes /\ at < target
      /\ at + size[at] <= target
      /\ target + n <= next[at]
  BY <1>1, <1>3, PrevGap
<1>5. /\ ListTypes'
      /\ FreeListSorted'
      /\ at \in {0} \cup Heads'
      /\ \A u \in Units : Free(u)' <=> Free(u) \/ u \in R
  BY <1>1, <1>3, <1>4, Known, Inserted DEF IInv
<1> HIDE DEF b, n, R
<1>6. /\ \A u \in Units : data'[u] = IF u \in R THEN NoBlock ELSE data[u]
      /\ \A c \in Blocks : c # b => live'[c] = live[c]
      /\ live'[b].at = 0 /\ live'[b].size = 0
      /\ live' \in [Blocks -> [at: Nodes, size: Nodes]]
      /\ data' \in [Units -> Blocks \cup {NoBlock, Fresh}]
  <2>1. live \in [Blocks -> [at: Nodes, size: Nodes]] /\ data \in [Units -> Blocks \cup {NoBlock, Fresh}]
    BY DEF IInv, TypeOK
  <2> QED
    BY <1>1, <1>2, <1>3, <2>1, Places DEF Released
<1>7. BlocksIntact'
  <2>1. ASSUME NEW c \in Blocks, NEW u \in Units
        PROVE  data'[u] = c <=> live'[c].at # 0 /\ u \in UnitsOf(c)'
    <3>1. c # NoBlock
      BY HeapAssumption
    <3>2. data[u] = c <=> live[c].at # 0 /\ u \in UnitsOf(c)
      BY DEF IInv, BlocksIntact
    <3>3. CASE c = b
      BY <3>1, <3>2, <3>3, <1>3, <1>6
    <3>4. CASE c # b
      <4>1. UnitsOf(c)' = UnitsOf(c)
        BY <3>4, <1>6 DEF UnitsOf
      <4>2. u \in R => data[u] # c
        BY <3>4, <1>3
      <4> QED
        BY <3>1, <3>2, <3>4, <4>1, <4>2, <1>6
    <3> QED
      BY <3>3, <3>4
  <2>2. \A u \in Units : data'[u] = NoBlock <=> Free(u)'
    BY <1>5, <1>6 DEF IInv, BlocksIntact
  <2> QED
    BY <2>1, <2>2 DEF BlocksIntact
<1>8. Lives'
  BY <1>6 DEF IInv, Lives
<1>9. NothingStale'
  BY <1>1, <1>2, <1>5 DEF NothingStale
<1>10. Control'
  BY <1>1, <1>2 DEF IInv, Control
<1>11. goal # "none" => /\ call'.block \in Blocks /\ call'.block # b
                        /\ live'[call'.block] = live[call.block]
  BY <1>1, <1>2, <1>6 DEF IInv, Control, TypeOK
<1>12. Arguments' /\ Unlinking' /\ Searched'
  BY <1>1, <1>2, <1>11 DEF IInv, Arguments, Unlinking, Searched
<1>13. NewRegion'
  <2>1. \A u \in Units : data'[u] # Fresh
    BY <1>2, <1>6, HeapAssumption DEF IInv, NewRegion
  <2> QED
    BY <1>1, <1>2, <2>1 DEF NewRegion
<1>14. /\ allocated' = Cardinality(Held' \ Moving')
       /\ allocated' \in Nat /\ allocated - n <= limit
  <2>1. Held' = Held \ R
    BY <1>6 DEF Held
  <2>2. Moving' = Moving /\ Moving \cap R = {}
    <3>1. CASE goal = "copy"
      <4>1. Moving = UnitsOf(call.block) /\ Moving' = Moving
        BY <3>1, <1>1, <1>11 DEF Moving, UnitsOf
      <4>2. live[call.block].at # 0 /\ call.block \in Blocks /\ call.block # b
        BY <3>1, <1>1, <1>11 DEF IInv, Arguments
      <4>3. \A u \in UnitsOf(call.block) : data[u] = call.block
        BY <4>2, BlockUnits
      <4> QED
        BY <4>1, <4>2, <4>3, <1>3
    <3>2. CASE goal # "copy"
      BY <3>2, <1>1, <1>2 DEF Moving
    <3> QED
      BY <3>1, <3>2
  <2> DEFINE A == Held \ Moving
  <2>3. A \in SUBSET Units /\ R \subseteq A /\ Held' \ Moving' = A \ R
    BY <2>1, <2>2, <1>3 DEF Held
  <2>4. allocated = Cardinality(A) /\ allocated <= limit /\ limit \in Nat
    BY DEF IInv, Accounting, TypeOK
  <2> HIDE DEF A
  <2>5. Cardinality(A \ R) = Cardinality(A) - n /\ Cardinality(A) \in Nat /\ n <= Cardinality(A)
    BY <2>3, <1>3, CountDown DEF R
  <2>6. allocated' = Cardinality(A \ R) /\ allocated' \in Nat /\ allocated - n <= limit
    BY <2>4, <2>5, <1>1, <1>3
  <2> QED
    BY <2>3, <2>6
<1>15. limit' \in Nat /\ allocated' <= limit' /\ limit' <= allocated' + GCLimit
  BY <1>1, <1>14, LimitLowered DEF IInv, TypeOK
<1>16. Accounting' /\ MovingLimit'
  <2>1. Accounting'
    BY <1>14, <1>15 DEF Accounting
  <2>2. goal = "copy" => live'[call'.block].size \in Nat
    BY <1>11, <1>6, Places
  <2>3. GCLimit \in Nat
    BY HeapAssumption
  <2> QED
    BY <2>1, <2>2, <2>3, <1>1, <1>14, <1>15 DEF MovingLimit
<1>17. TypeOK'
  <2>1. skip' \in Nodes \cup {END}
    BY <1>1, <1>4
  <2> QED
    BY <1>1, <1>5, <1>6, <1>14, <1>15, <2>1 DEF IInv, TypeOK, ListTypes
<1> QED
  BY <1>5, <1>7, <1>8, <1>9, <1>10, <1>12, <1>13, <1>16, <1>17 DEF IInv, ListTypes

\* The steps that end a call.
LEMMA Returned ==
    ASSUME IInv, Return, freed = NoBlock
    PROVE  /\ Control' /\ Arguments' /\ Unlinking' /\ Searched' /\ MovingLimit'
           /\ goal' = "none" /\ pc' = "idle"
           /\ pc' \in {"idle", "reclaim", "scan", "find", "fatal"}
           /\ goal' \in Goals
           /\ call' \in [block: Blocks \cup {NoBlock}, size: Nodes, max: {NONE, HIGH, FULL}, result: Nodes]
           /\ pressure' \in Pressure
           /\ freed' \in Blocks \cup {NoBlock}
           /\ at' \in Nodes
           /\ target' \in Nodes
<1>1. /\ pc' = "idle" /\ goal' = "none" /\ call' = NoCall /\ pressure' = NONE
      /\ freed' = NoBlock /\ at' = at /\ target' = target
  BY DEF Return, search
<1>2. Control' /\ Arguments' /\ Unlinking' /\ Searched' /\ MovingLimit'
  BY <1>1 DEF Control, Arguments, Unlinking, Searched, MovingLimit, NoCall
<1>3. call' \in [block: Blocks \cup {NoBlock}, size: Nodes, max: {NONE, HIGH, FULL}, result: Nodes]
  BY <1>1, Places DEF NoCall
<1> QED
  BY <1>1, <1>2, <1>3, Places DEF Goals, IInv, TypeOK

\* Shrink preserves the invariant.
LEMMA ShrinkStep ==
    ASSUME IInv, Shrink
    PROVE  IInv'
<1> DEFINE b == call.block
           old == live[b].size
           cut == old - call.size
           t == target + call.size
           R == Region(t, cut)
<1>1. /\ PrevFound /\ pc = "find" /\ goal = "shrink"
      /\ Insert(t, at, cut) /\ skip' = at
      /\ allocated' = allocated - cut /\ limit' = Lowered(allocated - cut, limit)
      /\ data' = Released(data, R)
      /\ live' = [live EXCEPT ![b].size = call.size]
      /\ Return
  BY DEF Shrink, InsertBlock, Uncount, PrevFound
<1>2. /\ b \in Blocks /\ b # NoBlock /\ freed = NoBlock
      /\ live[b].at # 0 /\ target = live[b].at
      /\ call.size \in Units /\ call.size < old
  BY <1>1, HeapAssumption DEF IInv, Control, Arguments, TypeOK
<1>3. /\ target \in Units /\ old \in Nat \ {0} /\ target + old - 1 <= Area
      /\ \A u \in Region(target, old) : data[u] = b /\ data[u] # NoBlock /\ u \in Held
      /\ UnitsOf(b) = Region(target, old)
  <2>1. UnitsOf(b) = Region(target, old)
    BY <1>2 DEF UnitsOf
  <2> QED
    BY <1>2, <2>1, BlockUnits
<1>4. /\ at \in {0} \cup Heads /\ at \in Nodes /\ at < target
      /\ at + size[at] <= target
      /\ target + old <= next[at]
  BY <1>1, <1>3, PrevGap
<1>5. /\ target \in Nat /\ target >= 1 /\ call.size \in Nat /\ call.size >= 1
      /\ at \in Nat /\ size[at] \in Nat /\ Area \in Nat
  BY <1>2, <1>3, <1>4, Known, Numbers
<1>6. /\ cut \in Nat \ {0} /\ t \in Units /\ t + cut - 1 <= Area
      /\ at < t /\ at + size[at] <= t /\ t + cut <= next[at]
      /\ t + cut = target + old
  <2>1. t \in Nat /\ t >= 1 /\ t <= Area
    BY <1>2, <1>3, <1>5
  <2> QED
    BY <2>1, <1>2, <1>3, <1>4, <1>5, Places
<1>7. /\ \A u \in R : u \in Region(target, old)
      /\ \A u \in Units : u \in Region(target, call.size) <=> u \in Region(target, old) /\ u \notin R
  <2>1. old = call.size + cut /\ cut \in Nat
    BY <1>3, <1>5, <1>6
  <2>2. /\ Region(target, old) = Region(target, call.size) \cup R
        /\ Region(target, call.size) \cap R = {}
    <3> HIDE DEF old, cut
    <3> QED
      BY <2>1, <1>5, RegionSplit
  <2> QED
    BY <2>2
<1>8. /\ ListTypes'
      /\ FreeListSorted'
      /\ at \in {0} \cup Heads'
      /\ \A u \in Units : Free(u)' <=> Free(u) \/ u \in R
  <2> HIDE DEF t, cut
  <2> QED
    BY <1>1, <1>4, <1>6, Known, Inserted DEF IInv
<1> HIDE DEF b, old, cut, t, R
<1>9. /\ \A u \in Units : data'[u] = IF u \in R THEN NoBlock ELSE data[u]
      /\ \A c \in Blocks : c # b => live'[c] = live[c]
      /\ live'[b].at = target /\ live'[b].size = call.size
      /\ live' \in [Blocks -> [at: Nodes, size: Nodes]]
      /\ data' \in [Units -> Blocks \cup {NoBlock, Fresh}]
  <2>1. live \in [Blocks -> [at: Nodes, size: Nodes]] /\ data \in [Units -> Blocks \cup {NoBlock, Fresh}]
        /\ call.size \in Nodes
    BY <1>2, Places DEF IInv, TypeOK
  <2> QED
    BY <1>1, <1>2, <2>1 DEF Released
<1>10. BlocksIntact'
  <2>1. ASSUME NEW c \in Blocks, NEW u \in Units
        PROVE  data'[u] = c <=> live'[c].at # 0 /\ u \in UnitsOf(c)'
    <3>1. c # NoBlock
      BY HeapAssumption
    <3>2. data[u] = c <=> live[c].at # 0 /\ u \in UnitsOf(c)
      BY DEF IInv, BlocksIntact
    <3>3. CASE c = b
      <4>1. UnitsOf(c)' = Region(target, call.size) /\ live'[c].at # 0
        BY <3>3, <1>5, <1>9 DEF UnitsOf
      <4> QED
        BY <3>1, <3>2, <3>3, <4>1, <1>2, <1>3, <1>7, <1>9
    <3>4. CASE c # b
      <4>1. UnitsOf(c)' = UnitsOf(c)
        BY <3>4, <1>9 DEF UnitsOf
      <4>2. u \in R => data[u] # c
        BY <3>4, <1>3, <1>7
      <4> QED
        BY <3>1, <3>2, <3>4, <4>1, <4>2, <1>9
    <3> QED
      BY <3>3, <3>4
  <2>2. \A u \in Units : data'[u] = NoBlock <=> Free(u)'
    BY <1>8, <1>9 DEF IInv, BlocksIntact
  <2> QED
    BY <2>1, <2>2 DEF BlocksIntact
<1>11. Lives'
  <2>1. target + call.size - 1 <= Area
    BY <1>2, <1>3, <1>5
  <2> QED
    BY <2>1, <1>3, <1>5, <1>9 DEF IInv, Lives
<1>12. NewRegion'
  <2>1. \A u \in Units : data'[u] # Fresh
    BY <1>1, <1>9, HeapAssumption DEF IInv, NewRegion
  <2> QED
    BY <1>1, <2>1 DEF NewRegion, Return
<1>13. /\ allocated' = Cardinality(Held' \ Moving')
       /\ allocated' \in Nat /\ allocated - cut <= limit
  <2>1. Held' = Held \ R
    BY <1>9 DEF Held
  <2>2. Moving' = {} /\ Moving = {}
    BY <1>1 DEF Moving, Return
  <2>3. Held \in SUBSET Units /\ R \subseteq Held
    BY <1>3, <1>7 DEF Held
  <2>4. allocated = Cardinality(Held) /\ allocated <= limit /\ limit \in Nat
    BY <2>2 DEF IInv, Accounting, TypeOK
  <2>5. Cardinality(Held \ R) = Cardinality(Held) - cut /\ Cardinality(Held) \in Nat /\ cut <= Cardinality(Held)
    BY <2>3, <1>6, CountDown DEF R
  <2>6. allocated' = Cardinality(Held \ R) /\ allocated' \in Nat /\ allocated - cut <= limit
    BY <2>4, <2>5, <1>1, <1>6
  <2> QED
    BY <2>1, <2>2, <2>6
<1>14. limit' \in Nat /\ allocated' <= limit' /\ limit' <= allocated' + GCLimit
  BY <1>1, <1>13, LimitLowered DEF IInv, TypeOK
<1>15. Accounting'
  BY <1>13, <1>14 DEF Accounting
<1>16. /\ Control' /\ Arguments' /\ Unlinking' /\ Searched' /\ MovingLimit'
       /\ goal' = "none" /\ pc' = "idle"
  BY <1>1, <1>2, Returned
<1>17. NothingStale'
  BY <1>1, <1>8, <1>16 DEF NothingStale
<1>18. TypeOK'
  <2>1. skip' \in Nodes \cup {END}
    BY <1>1, <1>4
  <2> QED
    BY <1>1, <1>2, <1>8, <1>9, <1>13, <1>14, <2>1, Returned DEF TypeOK, ListTypes
<1> QED
  BY <1>8, <1>10, <1>11, <1>12, <1>15, <1>16, <1>17, <1>18 DEF IInv, ListTypes

\* A block takes free units next to it.
LEMMA Extended ==
    ASSUME IInv, goal \in {"extend", "unlink"}, freed = NoBlock,
           call.block \in Blocks, live[call.block].at # 0,
           Required \in Nat \ {0}, call.size \in Units,
           NEW a \in Units, NEW r \in Units,
           a + call.size - 1 <= Area,
           UnitsOf(call.block) \cup Region(r, Required) = Region(a, call.size),
           \A u \in Region(r, Required) : u \in Units /\ Free(u),
           ListTypes', FreeListSorted',
           \A u \in Units : Free(u)' <=> Free(u) /\ u \notin Region(r, Required),
           data' = [u \in Units |-> IF u \in Region(r, Required) THEN call.block ELSE data[u]],
           live' = [live EXCEPT ![call.block] = [at |-> a, size |-> call.size]],
           skip' \in {0, END} \cup Heads',
           Count(Required), Return
    PROVE  IInv'
<1> DEFINE b == call.block
           n == Required
           m == call.size
<1>0. /\ b \in Blocks /\ live[b].at # 0 /\ n \in Nat \ {0} /\ m \in Units
      /\ a + m - 1 <= Area
      /\ UnitsOf(b) \cup Region(r, n) = Region(a, m)
      /\ \A u \in Region(r, n) : u \in Units /\ Free(u)
      /\ \A u \in Units : Free(u)' <=> Free(u) /\ u \notin Region(r, n)
      /\ data' = [u \in Units |-> IF u \in Region(r, n) THEN b ELSE data[u]]
      /\ live' = [live EXCEPT ![b] = [at |-> a, size |-> m]]
      /\ Count(n)
  OBVIOUS
<1> HIDE DEF b, n, m
<1> DEFINE R == Region(r, n)
<1>1. /\ allocated' = allocated + n /\ limit' = Raised(allocated + n, limit)
      /\ b # NoBlock /\ b # Fresh
  BY <1>0, HeapAssumption DEF Count
<1>2. /\ \A u \in R : data[u] = NoBlock /\ u \notin Held
      /\ R \subseteq Units
  BY <1>0 DEF IInv, BlocksIntact, Held
<1> HIDE DEF R
<1>3. /\ \A u \in Units : data'[u] = IF u \in R THEN b ELSE data[u]
      /\ \A c \in Blocks : c # b => live'[c] = live[c]
      /\ live'[b].at = a /\ live'[b].size = m
      /\ live' \in [Blocks -> [at: Nodes, size: Nodes]]
      /\ data' \in [Units -> Blocks \cup {NoBlock, Fresh}]
  <2>1. live \in [Blocks -> [at: Nodes, size: Nodes]] /\ data \in [Units -> Blocks \cup {NoBlock, Fresh}]
        /\ a \in Nodes /\ m \in Nodes
    BY <1>0, Places DEF IInv, TypeOK
  <2> QED
    BY <1>0, <2>1 DEF R
<1>4. BlocksIntact'
  <2>1. ASSUME NEW c \in Blocks, NEW u \in Units
        PROVE  data'[u] = c <=> live'[c].at # 0 /\ u \in UnitsOf(c)'
    <3>1. c # NoBlock
      BY <1>0, HeapAssumption
    <3>2. data[u] = c <=> live[c].at # 0 /\ u \in UnitsOf(c)
      BY <1>0 DEF IInv, BlocksIntact
    <3>3. CASE c = b
      <4>1. UnitsOf(c)' = Region(a, m) /\ live'[c].at # 0
        BY <1>0, <3>3, <1>3, Places DEF UnitsOf
      <4>2. u \in Region(a, m) <=> u \in UnitsOf(b) \/ u \in R
        BY <1>0 DEF R
      <4> QED
        BY <1>0, <3>2, <3>3, <4>1, <4>2, <1>3
    <3>4. CASE c # b
      <4>1. UnitsOf(c)' = UnitsOf(c)
        BY <1>0, <3>4, <1>3 DEF UnitsOf
      <4>2. u \in R => data[u] # c
        BY <1>0, <3>1, <1>2
      <4> QED
        BY <1>0, <3>1, <3>2, <3>4, <4>1, <4>2, <1>3
    <3> QED
      BY <1>0, <3>3, <3>4
  <2>2. \A u \in Units : data'[u] = NoBlock <=> Free(u)'
    BY <1>0, <1>1, <1>3 DEF IInv, BlocksIntact, R
  <2> QED
    BY <1>0, <2>1, <2>2 DEF BlocksIntact
<1>5. Lives'
  <2>1. m \in Nat \ {0}
    BY <1>0, Places
  <2> QED
    BY <1>0, <2>1, <1>3 DEF IInv, Lives
<1>6. NewRegion'
  <2>1. \A u \in Units : data'[u] # Fresh
    BY <1>0, <1>1, <1>3 DEF IInv, NewRegion
  <2> QED
    BY <1>0, <2>1 DEF NewRegion, Return
<1>7. /\ allocated' = Cardinality(Held' \ Moving')
      /\ allocated' \in Nat /\ allocated + n \in Nat
      /\ allocated <= limit /\ limit <= allocated + GCLimit /\ limit \in Nat /\ allocated \in Nat
  <2>1. Held' = Held \cup R
    BY <1>0, <1>1, <1>2, <1>3 DEF Held
  <2>2. Moving' = {} /\ Moving = {}
    BY <1>0 DEF Moving, Return
  <2>3. Held \in SUBSET Units /\ Held \cap R = {}
    BY <1>0, <1>2 DEF Held
  <2>4. /\ allocated = Cardinality(Held) /\ allocated <= limit /\ limit <= allocated + GCLimit
        /\ limit \in Nat /\ allocated \in Nat
    BY <1>0, <2>2 DEF IInv, Accounting, TypeOK
  <2>5. Cardinality(Held \cup R) = Cardinality(Held) + n
    BY <1>0, <2>3, CountUp DEF R
  <2>6. allocated' = Cardinality(Held \cup R) /\ allocated' \in Nat
    BY <1>0, <2>4, <2>5, <1>1
  <2>7. Held' \ Moving' = Held \cup R
    BY <1>0, <2>1, <2>2
  <2>8. allocated' = Cardinality(Held' \ Moving')
    BY <1>0, <2>6, <2>7
  <2>9. allocated + n \in Nat
    BY <1>0, <2>4
  <2> QED
    BY <1>0, <2>4, <2>6, <2>8, <2>9
<1>8. limit' \in Nat /\ allocated' <= limit' /\ limit' <= allocated' + GCLimit
  <2>1. GCLimit \in Nat
    BY <1>0, HeapAssumption
  <2>2. limit' \in Nat /\ allocated' < limit' /\ (limit' = limit \/ limit' <= allocated' + GCLimit)
    BY <1>0, <1>1, <1>7, LimitRaised
  <2> QED
    BY <1>0, <2>1, <2>2, <1>1, <1>7
<1>9. Accounting'
  BY <1>0, <1>7, <1>8 DEF Accounting
<1>10. /\ Control' /\ Arguments' /\ Unlinking' /\ Searched' /\ MovingLimit'
       /\ goal' = "none" /\ pc' = "idle"
  BY <1>0, Returned
<1>11. NothingStale'
  BY <1>0, <1>10 DEF NothingStale
<1>12. TypeOK'
  <2>1. skip' \in Nodes \cup {END}
    BY <1>0, Places DEF Heads
  <2> QED
    BY <1>0, <1>3, <1>7, <1>8, <2>1, Returned DEF TypeOK, ListTypes
<1> QED
  BY <1>0, <1>4, <1>5, <1>6, <1>9, <1>10, <1>11, <1>12 DEF IInv, ListTypes

\* ExtendEnd preserves the invariant.
LEMMA ExtendEndStep ==
    ASSUME IInv, ExtendEnd
    PROVE  IInv'
<1> DEFINE b == call.block
           n == Required
           m == call.size
<1>1. /\ Extending /\ goal = "extend" /\ freed = NoBlock
      /\ target + live[b].size = next[at] /\ n <= size[next[at]]
      /\ Carve(at, next[at], n) /\ skip' = at /\ Count(n)
      /\ data' = Written(data, next[at], n, b)
      /\ live' = [live EXCEPT ![b].size = m]
      /\ Return
  BY DEF ExtendEnd, Extending, CanExtendEnd, FreeAfter
<1>2. /\ b \in Blocks /\ target = live[b].at /\ target \in Units /\ target \in Nat /\ target >= 1
      /\ live[b].size \in Nat \ {0} /\ m \in Units /\ m \in Nat
      /\ n \in Nat \ {0} /\ m = live[b].size + n
      /\ target + live[b].size - 1 <= Area
      /\ at \in {0} \cup Heads /\ at \in Nodes
  BY <1>1, Growing
<1>3. next[at] \in Heads /\ next[at] \in Nat
  <2>1. next[at] # END
    BY <1>1, <1>2, Places
  <2> QED
    BY <2>1, <1>2, Sorted, Known DEF IInv
<1> DEFINE r == next[at]
<1>4. /\ ListTypes'
      /\ FreeListSorted'
      /\ \A h \in Heads : h # r => h \in Heads'
      /\ \A u \in Units : Free(u)' <=> Free(u) /\ u \notin Region(r, n)
      /\ \A u \in Region(r, n) : u \in Units /\ Free(u)
  <2> HIDE DEF n
  <2> QED
    BY <1>1, <1>2, <1>3, Carved, Known DEF IInv
<1>5. at \in {0} \cup Heads'
  <2>1. at # r
    <3>1. at \in Nat /\ size[at] \in Nat /\ next[at] \in Nat /\ at + size[at] < next[at]
      BY <1>2, Known, Numbers, Sorted DEF IInv
    <3> QED
      BY <3>1
  <2> QED
    BY <2>1, <1>2, <1>4
<1> HIDE DEF b, n, m, r
<1>6. r \in Units /\ r \in Nat /\ r = target + live[b].size
  BY <1>1, <1>3, Known DEF r
<1>7. UnitsOf(b) \cup Region(r, n) = Region(target, m)
  <2>1. UnitsOf(b) = Region(target, live[b].size)
    BY <1>2 DEF UnitsOf
  <2>2. target \in Nat /\ live[b].size \in Nat /\ n \in Nat
    BY <1>2
  <2>3. Region(target, live[b].size + n) = Region(target, live[b].size) \cup Region(target + live[b].size, n)
    BY <2>2, RegionSplit
  <2> QED
    BY <2>1, <2>3, <1>2, <1>6
<1>8. target + m - 1 <= Area
  <2>1. r + n - 1 \in Region(r, n)
    BY <1>2, <1>6 DEF Region
  <2>2. r + n - 1 <= Area
    BY <2>1, <1>4, Places
  <2> QED
    BY <2>2, <1>2, <1>6
<1>9. data' = [u \in Units |-> IF u \in Region(r, n) THEN b ELSE data[u]]
  BY <1>1 DEF Written, r
<1>10. live' = [live EXCEPT ![b] = [at |-> target, size |-> m]]
  <2>1. live[b] \in [at: Nodes, size: Nodes]
    BY <1>2 DEF IInv, TypeOK
  <2>2. [live[b] EXCEPT !.size = m] = [at |-> target, size |-> m]
    BY <2>1, <1>2
  <2>3. live' = [live EXCEPT ![b] = [live[b] EXCEPT !.size = m]]
    BY <1>1
  <2> QED
    BY <2>2, <2>3
<1>11. live[b].at # 0
  BY <1>2
<1>12. goal \in {"extend", "unlink"} /\ freed = NoBlock
  BY <1>1
<1>13. skip' \in {0, END} \cup Heads' /\ Count(n) /\ Return
  BY <1>1, <1>5
<1>14. \A u \in Region(r, n) : u \in Units /\ Free(u)
  BY <1>4
<1> USE DEF b, n, m
<1> HIDE DEF r
<1> QED
  BY <1>2, <1>4, <1>6, <1>7, <1>8, <1>9, <1>10, <1>11, <1>12, <1>13, <1>14, Extended

\* The data that is moved to the front, and what the program writes after it.
LEMMA MovedFront ==
    ASSUME IInv, MovedToFront, call.block \in Blocks, live[call.block].at # 0,
           Required \in Nat \ {0}, call.size = live[call.block].size + Required,
           NEW r \in Units, r = live[call.block].at - Required
    PROVE  /\ data' = [u \in Units |-> IF u \in Region(r, Required) THEN call.block ELSE data[u]]
           /\ live' = [live EXCEPT ![call.block] = [at |-> r, size |-> call.size]]
           /\ UnitsOf(call.block) \cup Region(r, Required) = Region(r, call.size)
           /\ r + call.size - 1 <= Area
<1> DEFINE b == call.block
           from == live[b].at
           old == live[b].size
           n == Required
           m == call.size
<1>1. /\ data' = Copied(data, b, from, old, r, m)
      /\ live' = [live EXCEPT ![b] = [at |-> r, size |-> m]]
  BY DEF MovedToFront
<1>2. /\ from \in Units /\ old \in Nat \ {0} /\ from + old - 1 <= Area
      /\ \A u \in UnitsOf(b) : data[u] = b /\ u \in Units
      /\ UnitsOf(b) = Region(from, old)
  BY BlockUnits DEF UnitsOf
<1>10. n \in Nat /\ m = old + n /\ r = from - n /\ r \in Nat
  BY Places
<1> HIDE DEF b, from, old, n, m
<1>11. from \in Nat /\ old \in Nat
  BY <1>2, Places
<1>3. from \in Nat /\ n \in Nat /\ m = old + n /\ m - old = n /\ from = r + n /\ r \in Nat /\ old \in Nat
  BY <1>10, <1>11
<1>12. r \in Nat /\ n \in Nat /\ old \in Nat
  BY <1>3
<1>13. \A p, k, l \in Nat : Region(p, k + l) = Region(p, k) \cup Region(p + k, l)
  BY RegionSplit
<1>4. Region(r, n + old) = Region(r, n) \cup Region(r + n, old)
  BY ONLY <1>12, <1>13
<1>5. Region(r, old + n) = Region(r, old) \cup Region(r + old, n)
  BY ONLY <1>12, <1>13
<1>6. Region(r, m) = Region(r, n) \cup UnitsOf(b) /\ Region(r, m) = Region(r, old) \cup Region(r + old, n)
  <2>1. m = n + old
    BY <1>3
  <2> QED
    BY <2>1, <1>2, <1>3, <1>4, <1>5
<1>7. \A u \in Region(r, old) : data[from + (u - r)] = b
  <2>1. \A u \in Region(r, old) : from + (u - r) \in Region(from, old)
    BY <1>3 DEF Region
  <2> QED
    BY <2>1, <1>2
<1>8. data' = [u \in Units |-> IF u \in Region(r, n) THEN b ELSE data[u]]
  <2>1. data' = [u \in Units |-> IF u \in Region(r, old) THEN data[from + (u - r)]
                                 ELSE IF u \in Region(r + old, n) THEN b
                                 ELSE data[u]]
    BY <1>1, <1>3 DEF Copied
  <2>2. ASSUME NEW u \in Units
        PROVE  (IF u \in Region(r, old) THEN data[from + (u - r)]
                ELSE IF u \in Region(r + old, n) THEN b
                ELSE data[u]) = (IF u \in Region(r, n) THEN b ELSE data[u])
    <3>1. CASE u \in Region(r, old)
      BY <3>1, <1>2, <1>6, <1>7
    <3>2. CASE u \notin Region(r, old)
      BY <3>2, <1>2, <1>6
    <3> QED
      BY <3>1, <3>2
  <2> QED
    BY <2>1, <2>2
<1>9. r + m - 1 <= Area
  BY <1>2, <1>3, Places
<1> USE DEF b, n, m
<1> QED
  BY <1>1, <1>6, <1>8, <1>9

\* ExtendFront preserves the invariant.
LEMMA ExtendFrontStep ==
    ASSUME IInv, ExtendFront
    PROVE  IInv'
<1> DEFINE r == live[call.block].at - Required
<1>1. /\ Extending /\ goal = "extend" /\ freed = NoBlock
      /\ at + size[at] = target /\ Required < size[at]
      /\ size' = [size EXCEPT ![at] = @ - Required] /\ next' = next
      /\ skip' = at /\ Count(Required) /\ MovedToFront /\ Return
  BY DEF ExtendFront, Extending, CanExtendFront, FreeBefore
<1>2. /\ call.block \in Blocks /\ target = live[call.block].at /\ target \in Units /\ target \in Nat
      /\ live[call.block].size \in Nat \ {0} /\ call.size \in Units
      /\ Required \in Nat \ {0} /\ call.size = live[call.block].size + Required
      /\ at \in {0} \cup Heads /\ at \in Nodes
  BY <1>1, Growing
<1>3. at \in Heads
  BY <1>1, <1>2 DEF IInv
<1>4. /\ ListTypes'
      /\ FreeListSorted'
      /\ Heads' = Heads
      /\ \A u \in Units : Free(u)' <=> Free(u) /\ u \notin Region(at + size[at] - Required, Required)
      /\ \A u \in Region(at + size[at] - Required, Required) : u \in Units /\ Free(u)
  BY <1>1, <1>2, <1>3, Known, Fronted DEF IInv
<1>5. at + size[at] - Required = r
  <2>1. at \in Nat /\ size[at] \in Nat
    BY <1>2, Known, Numbers
  <2> QED
    BY <2>1, <1>1, <1>2
<1>6. r \in Units
  <2>1. r \in Region(r, Required)
    BY <1>2 DEF Region
  <2> QED
    BY <2>1, <1>4, <1>5
<1>7. live[call.block].at # 0
  BY <1>2, Places
<1> HIDE DEF r
<1>8. /\ data' = [u \in Units |-> IF u \in Region(r, Required) THEN call.block ELSE data[u]]
      /\ live' = [live EXCEPT ![call.block] = [at |-> r, size |-> call.size]]
      /\ UnitsOf(call.block) \cup Region(r, Required) = Region(r, call.size)
      /\ r + call.size - 1 <= Area
  BY <1>1, <1>2, <1>6, <1>7, MovedFront DEF r
<1>9. /\ \A u \in Units : Free(u)' <=> Free(u) /\ u \notin Region(r, Required)
      /\ \A u \in Region(r, Required) : u \in Units /\ Free(u)
  BY <1>4, <1>5
<1>10. skip' \in {0, END} \cup Heads' /\ goal \in {"extend", "unlink"}
  BY <1>1, <1>3, <1>4
<1> QED
  BY <1>1, <1>2, <1>4, <1>6, <1>7, <1>8, <1>9, <1>10, Extended

\* Unlink preserves the invariant.
LEMMA UnlinkStep ==
    ASSUME IInv, Unlink
    PROVE  IInv'
<1> DEFINE r == target
<1>1. /\ PrevFound /\ pc = "find" /\ goal = "unlink"
      /\ Carve(at, target, Required) /\ skip' = at /\ Count(Required)
      /\ MovedToFront /\ Return
  BY DEF Unlink, PrevFound
<1>2. /\ call.block \in Blocks /\ freed = NoBlock
      /\ live[call.block].at # 0 /\ call.size > live[call.block].size
      /\ call.size \in Units
      /\ target \in Heads /\ size[target] = Required
      /\ target + Required = live[call.block].at
      /\ at \in {0} \cup Heads /\ at < target
  BY <1>1, HeapAssumption DEF IInv, Control, Arguments, TypeOK, Unlinking, NothingStale
<1>3. /\ target \in Units /\ target \in Nat /\ at \in Nat
      /\ Required \in Nat \ {0}
      /\ live[call.block].size \in Nat \ {0} /\ call.size \in Nat
  BY <1>2, Known, Places, Numbers, BlockUnits
<1>4. call.size = live[call.block].size + Required
  BY <1>3 DEF Required
<1>5. next[at] = target
  <2>1. next[at] <= target /\ next[at] \in Nat
    BY <1>2, Known, Sorted DEF IInv
  <2> QED
    BY <2>1, <1>1, <1>3 DEF PrevFound
<1>6. /\ ListTypes'
      /\ FreeListSorted'
      /\ \A h \in Heads : h # target => h \in Heads'
      /\ \A u \in Units : Free(u)' <=> Free(u) /\ u \notin Region(target, Required)
      /\ \A u \in Region(target, Required) : u \in Units /\ Free(u)
  BY <1>1, <1>2, <1>3, <1>5, Carved, Known DEF IInv
<1>7. target = live[call.block].at - Required
  BY <1>2, <1>3, Places, BlockUnits
<1>8. /\ data' = [u \in Units |-> IF u \in Region(target, Required) THEN call.block ELSE data[u]]
      /\ live' = [live EXCEPT ![call.block] = [at |-> target, size |-> call.size]]
      /\ UnitsOf(call.block) \cup Region(target, Required) = Region(target, call.size)
      /\ target + call.size - 1 <= Area
  BY <1>1, <1>2, <1>3, <1>4, <1>7, MovedFront
<1>9. skip' \in {0, END} \cup Heads' /\ goal \in {"extend", "unlink"}
  BY <1>1, <1>2, <1>3, <1>6
<1> QED
  BY <1>1, <1>2, <1>3, <1>6, <1>8, <1>9, Extended

\* A region is taken off the list for a new block.
LEMMA AllocatedBlock ==
    ASSUME IInv, pc = "scan", goal = "alloc",
           NEW r \in Units,
           ListTypes', FreeListSorted',
           \A u \in Units : Free(u)' <=> Free(u) /\ u \notin Region(r, call.size),
           \A u \in Region(r, call.size) : u \in Units /\ Free(u),
           Found(r),
           skip' \in {0, END} \cup Heads',
           allocated' = allocated + call.size,
           limit' \in Nat, allocated' <= limit',
           limit' = limit \/ limit' <= allocated' + GCLimit
    PROVE  IInv'
<1> DEFINE b == call.block
           m == call.size
           R == Region(r, m)
<1>1. /\ data' = Written(data, r, m, b)
      /\ live' = [live EXCEPT ![b] = [at |-> r, size |-> m]]
      /\ Return
  BY DEF Found
<1>2. /\ b \in Blocks /\ b # NoBlock /\ b # Fresh /\ freed = NoBlock
      /\ live[b].at = 0 /\ m \in Units /\ m \in Nat \ {0} /\ r \in Nat /\ r >= 1 /\ r \in Nodes /\ m \in Nodes
  BY HeapAssumption, Places DEF IInv, Control, Arguments, TypeOK
<1>3. R \subseteq Units /\ \A u \in R : data[u] = NoBlock /\ u \notin Held
  BY DEF IInv, BlocksIntact, Held
<1>4. r + m - 1 <= Area
  <2>1. r + m - 1 \in R
    BY <1>2 DEF Region
  <2> QED
    BY <2>1, <1>3, Places
<1> HIDE DEF b, m, R
<1>5. /\ \A u \in Units : data'[u] = IF u \in R THEN b ELSE data[u]
      /\ \A c \in Blocks : c # b => live'[c] = live[c]
      /\ live'[b].at = r /\ live'[b].size = m
      /\ live' \in [Blocks -> [at: Nodes, size: Nodes]]
      /\ data' \in [Units -> Blocks \cup {NoBlock, Fresh}]
  <2>1. live \in [Blocks -> [at: Nodes, size: Nodes]] /\ data \in [Units -> Blocks \cup {NoBlock, Fresh}]
    BY DEF IInv, TypeOK
  <2> QED
    BY <1>1, <1>2, <2>1 DEF Written, R
<1>6. BlocksIntact'
  <2>1. ASSUME NEW c \in Blocks, NEW u \in Units
        PROVE  data'[u] = c <=> live'[c].at # 0 /\ u \in UnitsOf(c)'
    <3>1. c # NoBlock
      BY HeapAssumption
    <3>2. data[u] = c <=> live[c].at # 0 /\ u \in UnitsOf(c)
      BY DEF IInv, BlocksIntact
    <3>3. CASE c = b
      <4>1. UnitsOf(c)' = R /\ live'[c].at # 0
        BY <3>3, <1>2, <1>5 DEF UnitsOf, R
      <4> QED
        BY <3>2, <3>3, <4>1, <1>2, <1>5
    <3>4. CASE c # b
      <4>1. UnitsOf(c)' = UnitsOf(c)
        BY <3>4, <1>5 DEF UnitsOf
      <4>2. u \in R => data[u] # c
        BY <3>1, <1>3
      <4> QED
        BY <3>2, <3>4, <4>1, <4>2, <1>5
    <3> QED
      BY <3>3, <3>4
  <2>2. \A u \in Units : data'[u] = NoBlock <=> Free(u)'
    BY <1>2, <1>5 DEF IInv, BlocksIntact, R, m
  <2> QED
    BY <2>1, <2>2 DEF BlocksIntact
<1>7. Lives'
  BY <1>2, <1>4, <1>5 DEF IInv, Lives
<1>8. /\ Control' /\ Arguments' /\ Unlinking' /\ Searched' /\ MovingLimit'
      /\ goal' = "none" /\ pc' = "idle"
  BY <1>1, <1>2, Returned
<1>9. NewRegion'
  <2>1. \A u \in Units : data'[u] # Fresh
    BY <1>2, <1>5 DEF IInv, NewRegion
  <2> QED
    BY <1>8, <2>1 DEF NewRegion
<1>10. NothingStale'
  BY <1>8 DEF NothingStale
<1>11. Accounting' /\ allocated' \in Nat
  <2>1. Held' = Held \cup R
    BY <1>2, <1>3, <1>5 DEF Held
  <2>2. Moving' = {} /\ Moving = {}
    BY <1>8 DEF Moving
  <2>3. Held \in SUBSET Units /\ Held \cap R = {}
    BY <1>3 DEF Held
  <2>4. /\ allocated = Cardinality(Held) /\ allocated \in Nat
        /\ limit <= allocated + GCLimit /\ limit \in Nat /\ GCLimit \in Nat
    BY <2>2, HeapAssumption DEF IInv, Accounting, TypeOK
  <2>5. Cardinality(Held \cup R) = Cardinality(Held) + m
    BY <1>2, <2>3, CountUp DEF R
  <2>6. allocated' = Cardinality(Held' \ Moving')
    BY <2>1, <2>2, <2>4, <2>5 DEF m
  <2>7. allocated' = allocated + m /\ m \in Nat
    BY <1>2 DEF m
  <2>8. limit' <= allocated' + GCLimit
    BY <2>4, <2>7
  <2>9. allocated' \in Nat
    BY <2>4, <2>7
  <2> QED
    BY <2>6, <2>8, <2>9 DEF Accounting
<1>12. TypeOK'
  <2>1. skip' \in Nodes \cup {END}
    BY Places DEF Heads
  <2>2. size' \in [Nodes -> Nodes] /\ next' \in [Nodes -> Units \cup {END}]
    BY DEF ListTypes
  <2> QED
    BY <1>1, <1>2, <1>5, <1>11, <2>1, <2>2, Returned DEF TypeOK
<1> QED
  BY <1>6, <1>7, <1>8, <1>9, <1>10, <1>11, <1>12 DEF IInv, ListTypes

\* A region is taken off the list for a block that will move there.
LEMMA AllocatedPlace ==
    ASSUME IInv, pc = "scan", goal = "copy",
           NEW r \in Units,
           ListTypes', FreeListSorted',
           \A u \in Units : Free(u)' <=> Free(u) /\ u \notin Region(r, call.size),
           \A u \in Region(r, call.size) : u \in Units /\ Free(u),
           Found(r),
           skip' \in {0, END} \cup Heads',
           allocated' = allocated + call.size,
           limit' \in Nat, allocated' <= limit',
           limit' = limit \/ limit' <= allocated' + GCLimit
    PROVE  IInv'
<1> DEFINE b == call.block
           m == call.size
           R == Region(r, m)
<1>1. /\ data' = Written(data, r, m, Fresh)
      /\ goal' = "move" /\ pc' = "find"
      /\ call' = [call EXCEPT !.result = r]
      /\ target' = live[b].at
      /\ at' = IF target' > skip' THEN skip' ELSE 0
      /\ live' = live /\ pressure' = pressure /\ freed' = freed
  BY DEF Found
<1>2. /\ b \in Blocks /\ b # NoBlock /\ freed = NoBlock /\ Fresh # NoBlock
      /\ live[b].at # 0 /\ m > live[b].size
      /\ m \in Units /\ m \in Nat \ {0} /\ r \in Nat /\ r >= 1 /\ r \in Nodes
  BY HeapAssumption, Places DEF IInv, Control, Arguments, TypeOK
<1>3. R \subseteq Units /\ \A u \in R : data[u] = NoBlock /\ u \notin Held
  BY DEF IInv, BlocksIntact, Held
<1>4. r + m - 1 <= Area
  <2>1. r + m - 1 \in R
    BY <1>2 DEF Region
  <2> QED
    BY <2>1, <1>3, Places
<1>5. call'.block = b /\ call'.size = m /\ call'.max = call.max /\ call'.result = r
      /\ call' \in [block: Blocks \cup {NoBlock}, size: Nodes, max: {NONE, HIGH, FULL}, result: Nodes]
  BY <1>1, <1>2 DEF IInv, TypeOK
<1>6. /\ live[b].at \in Units /\ live[b].at \in Nat /\ live[b].at >= 1 /\ live[b].at <= Area
      /\ live[b].size \in Nat \ {0} /\ UnitsOf(b) \subseteq Held
  BY <1>2, BlockUnits, Places
<1> HIDE DEF b, m, R
<1>7. /\ \A u \in Units : data'[u] = IF u \in R THEN Fresh ELSE data[u]
      /\ data' \in [Units -> Blocks \cup {NoBlock, Fresh}]
  <2>1. data \in [Units -> Blocks \cup {NoBlock, Fresh}]
    BY DEF IInv, TypeOK
  <2> QED
    BY <1>1, <2>1 DEF Written, R
<1>8. BlocksIntact'
  <2>1. ASSUME NEW c \in Blocks, NEW u \in Units
        PROVE  data'[u] = c <=> live'[c].at # 0 /\ u \in UnitsOf(c)'
    <3>1. c # NoBlock /\ c # Fresh
      BY HeapAssumption
    <3>2. data[u] = c <=> live[c].at # 0 /\ u \in UnitsOf(c)
      BY DEF IInv, BlocksIntact
    <3>3. UnitsOf(c)' = UnitsOf(c) /\ live'[c] = live[c]
      BY <1>1 DEF UnitsOf
    <3>4. u \in R => data[u] # c
      BY <3>1, <1>3
    <3> QED
      BY <3>1, <3>2, <3>3, <3>4, <1>7
  <2>2. \A u \in Units : data'[u] = NoBlock <=> Free(u)'
    BY <1>2, <1>7 DEF IInv, BlocksIntact, R, m
  <2> QED
    BY <2>1, <2>2 DEF BlocksIntact
<1>9. Lives'
  BY <1>1 DEF IInv, Lives
<1>10. /\ at' \in {0} \cup Heads' /\ at' < target' /\ at' \in Nodes /\ target' \in Nodes
  <2>1. CASE target' > skip'
    <3>1. skip' # END
      BY <2>1, <1>1, <1>6, Places
    <3>2. at' = skip' /\ at' \in {0} \cup Heads'
      BY <2>1, <3>1, <1>1
    <3>3. at' \in Nodes /\ at' \in Nat
      BY <3>2, Places DEF Heads
    <3> QED
      BY <2>1, <3>2, <3>3, <1>1, <1>6, Places
  <2>2. CASE ~(target' > skip')
    BY <2>2, <1>1, <1>6, Places
  <2> QED
    BY <2>1, <2>2
<1>11. NothingStale'
  BY <1>1, <1>10 DEF NothingStale
<1>12. Control'
  BY <1>1, <1>2, <1>5 DEF Control
<1>13. Arguments'
  BY <1>1, <1>2, <1>5 DEF IInv, Arguments, b, m
<1>14. Unlinking' /\ Searched' /\ MovingLimit'
  BY <1>1 DEF Unlinking, Searched, MovingLimit
<1>15. NewRegion'
  <2>1. \A u \in Units : data'[u] = Fresh <=> u \in R
    BY <1>7 DEF IInv, NewRegion
  <2> QED
    BY <2>1, <1>1, <1>4, <1>5 DEF NewRegion, R
<1>16. Accounting' /\ allocated' \in Nat
  <2>1. Held' = Held \cup R
    BY <1>2, <1>3, <1>7 DEF Held
  <2>2. Moving = UnitsOf(b) /\ Moving' = UnitsOf(b)
    BY <1>1, <1>5 DEF Moving, UnitsOf, b
  <2> DEFINE A == Held \ Moving
  <2>3. A \in SUBSET Units /\ A \cap R = {} /\ Held' \ Moving' = A \cup R
    BY <2>1, <2>2, <1>3, <1>6 DEF Held
  <2>4. /\ allocated = Cardinality(A) /\ allocated \in Nat
        /\ limit <= allocated + live[b].size + GCLimit /\ limit \in Nat /\ GCLimit \in Nat
    BY HeapAssumption DEF IInv, Accounting, MovingLimit, TypeOK, b
  <2> HIDE DEF A
  <2>5. Cardinality(A \cup R) = Cardinality(A) + m
    BY <1>2, <2>3, CountUp DEF R
  <2>6. allocated' = Cardinality(Held' \ Moving')
    BY <2>3, <2>4, <2>5 DEF m
  <2>7. allocated' = allocated + m /\ m \in Nat
    BY <1>2 DEF m
  <2>8. limit' <= allocated' + GCLimit
    BY <2>4, <2>7, <1>2, <1>6
  <2>9. allocated' \in Nat
    BY <2>4, <2>7
  <2> QED
    BY <2>6, <2>8, <2>9 DEF Accounting
<1>17. TypeOK'
  <2>1. skip' \in Nodes \cup {END}
    BY Places DEF Heads
  <2>2. size' \in [Nodes -> Nodes] /\ next' \in [Nodes -> Units \cup {END}]
    BY DEF ListTypes
  <2> QED
    BY <1>1, <1>5, <1>7, <1>10, <1>16, <2>1, <2>2 DEF IInv, TypeOK, Goals
<1> QED
  BY <1>8, <1>9, <1>11, <1>12, <1>13, <1>14, <1>15, <1>16, <1>17 DEF IInv, ListTypes

\* AllocRegion preserves the invariant.
LEMMA AllocRegionStep ==
    ASSUME IInv, AllocRegion
    PROVE  IInv'
<1> DEFINE r == next[at]
<1>1. /\ pc = "scan" /\ r # END /\ size[r] >= call.size
      /\ Carve(at, r, call.size) /\ skip' = at /\ Count(call.size) /\ Found(r)
      /\ goal \in {"alloc", "copy"} /\ call.size \in Units
  BY DEF AllocRegion, IInv, Control, Arguments
<1>2. /\ call.size \in Nat \ {0} /\ at \in {0} \cup Heads /\ r \in Heads
      /\ at # r /\ r \in Units /\ size[r] \in Nat
  <2>1. /\ at \in {0} \cup Heads /\ call.size \in Nat \ {0}
    BY <1>1, Places DEF IInv, NothingStale
  <2>2. r \in Heads /\ at + size[at] < r /\ r \in Nat
    BY <1>1, <2>1, Known, Sorted DEF IInv
  <2>3. at \in Nat /\ size[at] \in Nat
    BY <2>1, Known, Numbers
  <2> QED
    BY <2>1, <2>2, <2>3, Known, Numbers
<1>3. /\ ListTypes'
      /\ FreeListSorted'
      /\ \A h \in Heads : h # r => h \in Heads'
      /\ \A u \in Units : Free(u)' <=> Free(u) /\ u \notin Region(r, call.size)
      /\ \A u \in Region(r, call.size) : u \in Units /\ Free(u)
  BY <1>1, <1>2, Carved, Known DEF IInv
<1> HIDE DEF r
<1>4. skip' \in {0, END} \cup Heads'
  BY <1>1, <1>2, <1>3
<1>5. allocated \in Nat /\ limit \in Nat /\ GCLimit \in Nat
  BY HeapAssumption DEF IInv, TypeOK
<1>6. /\ allocated' = allocated + call.size
      /\ limit' \in Nat /\ allocated' <= limit'
      /\ limit' = limit \/ limit' <= allocated' + GCLimit
  <2>1. allocated' = allocated + call.size /\ limit' = Raised(allocated', limit)
    BY <1>1 DEF Count
  <2>2. allocated' \in Nat
    BY <2>1, <1>2, <1>5
  <2>3. /\ Raised(allocated', limit) \in Nat
        /\ allocated' < Raised(allocated', limit)
        /\ Raised(allocated', limit) = limit \/ Raised(allocated', limit) <= allocated' + GCLimit
    BY <2>2, <1>5, LimitRaised
  <2> QED
    BY <2>1, <2>2, <2>3
<1>7. CASE goal = "alloc"
  BY <1>1, <1>2, <1>3, <1>4, <1>6, <1>7, AllocatedBlock
<1>8. CASE goal = "copy"
  BY <1>1, <1>2, <1>3, <1>4, <1>6, <1>8, AllocatedPlace
<1> QED
  BY <1>1, <1>7, <1>8

\* AllocFirst preserves the invariant.
LEMMA AllocFirstStep ==
    ASSUME IInv, AllocFirst
    PROVE  IInv'
<1> DEFINE r == next[0]
<1>1. /\ pc = "scan" /\ r # END /\ call.size = 1
      /\ Carve(0, r, 1) /\ Found(r)
      /\ skip' = IF skip = r THEN next'[0] ELSE skip
      /\ allocated' = allocated + 1
      /\ limit' = IF allocated' >= limit THEN limit + GCLimit ELSE limit
      /\ goal \in {"alloc", "copy"}
  BY DEF AllocFirst, IInv, Control
<1>2. r \in Heads /\ r \in Units /\ size[r] \in Nat \ {0}
  <2>1. r \in Heads
    BY <1>1, Known, Sorted DEF IInv
  <2> QED
    BY <2>1, Known, Numbers
<1>3. /\ ListTypes'
      /\ FreeListSorted'
      /\ next'[0] \in Heads' \cup {END}
      /\ \A h \in Heads : h # r => h \in Heads'
      /\ \A u \in Units : Free(u)' <=> Free(u) /\ u \notin Region(r, 1)
      /\ \A u \in Region(r, 1) : u \in Units /\ Free(u)
  <2>1. 1 \in Nat \ {0} /\ 1 <= size[r]
    BY <1>2
  <2> QED
    BY <1>1, <1>2, <2>1, Carved, Known DEF IInv
<1> HIDE DEF r
<1>4. skip' \in {0, END} \cup Heads'
  BY <1>1, <1>3 DEF IInv, NothingStale
<1>5. /\ allocated' = allocated + call.size
      /\ limit' \in Nat /\ allocated' <= limit'
      /\ limit' = limit \/ limit' <= allocated' + GCLimit
  <2>1. allocated \in Nat /\ limit \in Nat /\ GCLimit \in Nat \ {0} /\ allocated <= limit
    BY HeapAssumption DEF IInv, TypeOK, Accounting
  <2> QED
    BY <2>1, <1>1
<1>6. /\ \A u \in Units : Free(u)' <=> Free(u) /\ u \notin Region(r, call.size)
      /\ \A u \in Region(r, call.size) : u \in Units /\ Free(u)
  BY <1>1, <1>3
<1>7. CASE goal = "alloc"
  BY <1>1, <1>2, <1>3, <1>4, <1>5, <1>6, <1>7, AllocatedBlock
<1>8. CASE goal = "copy"
  BY <1>1, <1>2, <1>3, <1>4, <1>5, <1>6, <1>8, AllocatedPlace
<1> QED
  BY <1>1, <1>7, <1>8

\* Move preserves the invariant.
LEMMA MoveStep ==
    ASSUME IInv, Move
    PROVE  IInv'
<1> DEFINE b == call.block
           old == live[b].size
           q == call.result
           m == call.size
           U == Region(target, old)
           Q == Region(q, m)
<1>1. /\ PrevFound /\ pc = "find" /\ goal = "move"
      /\ data' = Released(Copied(data, b, target, old, q, m), UnitsOf(b))
      /\ Insert(target, at, old) /\ skip' = at
      /\ live' = [live EXCEPT ![b] = [at |-> q, size |-> m]]
      /\ allocated' = allocated /\ limit' = limit
      /\ Return
  BY DEF Move, InsertBlock, PrevFound, count
<1>2. /\ b \in Blocks /\ b # NoBlock /\ b # Fresh /\ Fresh # NoBlock /\ freed = NoBlock
      /\ live[b].at # 0 /\ target = live[b].at
      /\ m \in Units /\ old < m
      /\ q \in Units /\ q + m - 1 <= Area
  BY <1>1, HeapAssumption DEF IInv, Control, Arguments, NewRegion, TypeOK
<1>3. UnitsOf(b) = U
  BY <1>2 DEF UnitsOf
<1>4. /\ target \in Units /\ old \in Nat \ {0} /\ target + old - 1 <= Area
      /\ U \subseteq Units
      /\ \A u \in U : data[u] = b /\ data[u] # NoBlock /\ u \in Held
  <2> HIDE DEF U
  <2> QED
    BY <1>2, <1>3, BlockUnits
<1>5. /\ at \in {0} \cup Heads /\ at \in Nodes /\ at < target
      /\ at + size[at] <= target
      /\ target + old <= next[at]
  BY <1>1, <1>4, PrevGap
<1>6. /\ ListTypes'
      /\ FreeListSorted'
      /\ at \in {0} \cup Heads'
      /\ \A u \in Units : Free(u)' <=> Free(u) \/ u \in U
  BY <1>1, <1>4, <1>5, Known, Inserted DEF IInv
<1>7. \A u \in Units : data[u] = Fresh <=> u \in Q
  BY <1>1 DEF IInv, NewRegion
<1>8. /\ q \in Nat /\ q >= 1 /\ m \in Nat \ {0} /\ q \in Nodes /\ m \in Nodes
      /\ target \in Nat /\ old \in Nat
  BY <1>2, <1>4, Places
<1> HIDE DEF b, old, q, m
<1>9. \A u \in Region(q, old) : data[target + (u - q)] = b
  <2>1. \A u \in Region(q, old) : target + (u - q) \in Region(target, old)
    BY <1>8 DEF Region
  <2> QED
    BY <2>1, <1>4
<1>10. \A u : u \in Q <=> u \in Region(q, old) \/ u \in Region(q + old, m - old)
  <2>1. m - old \in Nat /\ m = old + (m - old)
    BY <1>2, <1>8
  <2>2. \A p, k, l \in Nat : Region(p, k + l) = Region(p, k) \cup Region(p + k, l)
    BY RegionSplit
  <2>3. Region(q, old + (m - old)) = Region(q, old) \cup Region(q + old, m - old)
    BY ONLY <2>1, <2>2, <1>8
  <2> QED
    BY <2>1, <2>3
<1> HIDE DEF U, Q
<1>11. \A u \in Units : data'[u] = IF u \in U THEN NoBlock ELSE IF u \in Q THEN b ELSE data[u]
  <2>1. data' = [u \in Units |-> IF u \in U THEN NoBlock ELSE Copied(data, b, target, old, q, m)[u]]
    BY <1>1, <1>3 DEF Released
  <2>2. ASSUME NEW u \in Units
        PROVE  Copied(data, b, target, old, q, m)[u] = IF u \in Q THEN b ELSE data[u]
    <3>1. Copied(data, b, target, old, q, m)[u] =
              IF u \in Region(q, old) THEN data[target + (u - q)]
              ELSE IF u \in Region(q + old, m - old) THEN b
              ELSE data[u]
      BY DEF Copied
    <3> QED
      BY <3>1, <1>9, <1>10
  <2> QED
    BY <2>1, <2>2
<1>12. /\ \A c \in Blocks : c # b => live'[c] = live[c]
       /\ live'[b].at = q /\ live'[b].size = m
       /\ live' \in [Blocks -> [at: Nodes, size: Nodes]]
       /\ data' \in [Units -> Blocks \cup {NoBlock, Fresh}]
  <2>1. live \in [Blocks -> [at: Nodes, size: Nodes]] /\ data \in [Units -> Blocks \cup {NoBlock, Fresh}]
    BY DEF IInv, TypeOK
  <2>2. /\ \A c \in Blocks : c # b => live'[c] = live[c]
        /\ live'[b].at = q /\ live'[b].size = m
        /\ live' \in [Blocks -> [at: Nodes, size: Nodes]]
    BY <1>1, <1>2, <1>8, <2>1
  <2>3. data' = [u \in Units |-> data'[u]]
    BY <1>1 DEF Released
  <2>4. \A u \in Units : data'[u] \in Blocks \cup {NoBlock, Fresh}
    BY <1>2, <1>11, <2>1
  <2>5. data' \in [Units -> Blocks \cup {NoBlock, Fresh}]
    BY <2>3, <2>4
  <2> QED
    BY <2>2, <2>5
<1>13. BlocksIntact'
  <2>1. ASSUME NEW c \in Blocks, NEW u \in Units
        PROVE  data'[u] = c <=> live'[c].at # 0 /\ u \in UnitsOf(c)'
    <3>1. c # NoBlock /\ c # Fresh
      BY HeapAssumption
    <3>2. data[u] = c <=> live[c].at # 0 /\ u \in UnitsOf(c)
      BY DEF IInv, BlocksIntact
    <3>3. CASE c = b
      <4>1. UnitsOf(c)' = Q /\ live'[c].at # 0
        BY <3>3, <1>8, <1>12 DEF UnitsOf, Q
      <4>2. u \in U => u \notin Q
        BY <1>2, <1>4, <1>7
      <4>3. u \notin U => data[u] # b
        BY <3>2, <3>3, <1>3
      <4> QED
        BY <3>1, <3>3, <4>1, <4>2, <4>3, <1>11
    <3>4. CASE c # b
      <4>1. UnitsOf(c)' = UnitsOf(c)
        BY <3>4, <1>12 DEF UnitsOf
      <4>2. (u \in U => data[u] # c) /\ (u \in Q => data[u] # c)
        BY <3>1, <3>4, <1>4, <1>7
      <4> QED
        BY <3>1, <3>2, <3>4, <4>1, <4>2, <1>11, <1>12
    <3> QED
      BY <3>3, <3>4
  <2>2. \A u \in Units : data'[u] = NoBlock <=> Free(u)'
    BY <1>2, <1>6, <1>7, <1>11 DEF IInv, BlocksIntact
  <2> QED
    BY <2>1, <2>2 DEF BlocksIntact
<1>14. Lives'
  BY <1>2, <1>8, <1>12 DEF IInv, Lives
<1>15. /\ Control' /\ Arguments' /\ Unlinking' /\ Searched' /\ MovingLimit'
       /\ goal' = "none" /\ pc' = "idle"
  BY <1>1, <1>2, Returned
<1>16. NewRegion'
  <2>1. \A u \in Units : data'[u] # Fresh
    BY <1>2, <1>7, <1>11
  <2> QED
    BY <1>15, <2>1 DEF NewRegion
<1>17. NothingStale'
  BY <1>1, <1>6, <1>15 DEF NothingStale
<1>18. Accounting'
  <2>1. Held' = Held \ U
    BY <1>2, <1>7, <1>11 DEF Held
  <2>2. Moving' = {} /\ Moving = U
    BY <1>1, <1>3, <1>15 DEF Moving, b
  <2>3. Held' \ Moving' = Held \ Moving
    BY <2>1, <2>2
  <2>4. allocated = Cardinality(Held \ Moving) /\ allocated <= limit /\ limit <= allocated + GCLimit
    BY <1>1 DEF IInv, Accounting
  <2> QED
    BY <2>3, <2>4, <1>1 DEF Accounting
<1>19. TypeOK'
  <2>1. skip' \in Nodes \cup {END}
    BY <1>1, <1>5
  <2>2. size' \in [Nodes -> Nodes] /\ next' \in [Nodes -> Units \cup {END}]
    BY <1>6 DEF ListTypes
  <2>3. allocated' \in Nat /\ limit' \in Nat
    BY <1>1 DEF IInv, TypeOK
  <2> QED
    BY <1>1, <1>2, <1>12, <2>1, <2>2, <2>3, Returned DEF TypeOK
<1> QED
  BY <1>6, <1>13, <1>14, <1>15, <1>16, <1>17, <1>18, <1>19 DEF IInv, ListTypes

-----------------------------------------------------------------------------

\* The invariant holds initially.
LEMMA Initially ==
    ASSUME Init
    PROVE  IInv
<1>1. /\ size = [p \in Nodes |-> IF p = 1 THEN Area ELSE 0]
      /\ next = [p \in Nodes |-> IF p = 0 THEN 1 ELSE END]
      /\ skip = 0 /\ allocated = 0 /\ limit = GCLimit
      /\ data = [u \in Units |-> NoBlock]
      /\ live = [b \in Blocks |-> [at |-> 0, size |-> 0]]
      /\ pc = "idle" /\ goal = "none" /\ call = NoCall /\ pressure = NONE
      /\ freed = NoBlock /\ at = 0 /\ target = 0
  BY DEF Init
<1>2. Area \in Nodes /\ 1 \in Units /\ 1 \in Nodes /\ 0 \in Nodes
  BY Places DEF Nodes
<1>3. /\ size[0] = 0 /\ size[1] = Area /\ next[0] = 1 /\ next[1] = END
      /\ \A u \in Units : u # 1 => size[u] = 0
      /\ Heads = {1}
  <2>1. /\ size[0] = 0 /\ size[1] = Area /\ next[0] = 1 /\ next[1] = END
        /\ \A u \in Units : u # 1 => size[u] = 0
    BY <1>1, <1>2, Places
  <2> QED
    BY <2>1, <1>2, Places DEF Heads
<1>4. TypeOK
  <2>1. size \in [Nodes -> Nodes] /\ next \in [Nodes -> Units \cup {END}]
    BY <1>1, <1>2
  <2>2. live \in [Blocks -> [at: Nodes, size: Nodes]] /\ data \in [Units -> Blocks \cup {NoBlock, Fresh}]
    BY <1>1, <1>2
  <2>3. call \in [block: Blocks \cup {NoBlock}, size: Nodes, max: {NONE, HIGH, FULL}, result: Nodes]
    BY <1>1, <1>2 DEF NoCall
  <2>4. allocated \in Nat /\ limit \in Nat
    BY <1>1, HeapAssumption
  <2> QED
    BY <1>1, <1>2, <2>1, <2>2, <2>3, <2>4, Places DEF TypeOK, Goals
<1>5. BlocksIntact
  <2>1. \A u \in Units : Free(u)
    <3>1. \A u \in Units : u \in Region(1, Area)
      BY Places DEF Region
    <3> QED
      BY <3>1, <1>3 DEF Free
  <2>2. NoBlock \notin Blocks
    BY HeapAssumption
  <2> QED
    BY <1>1, <2>1, <2>2 DEF BlocksIntact
<1>6. FreeListSorted
  BY <1>3, Places DEF FreeListSorted
<1>7. NothingStale /\ Lives
  BY <1>1 DEF NothingStale, Lives
<1>8. Control /\ Arguments /\ Unlinking /\ Searched /\ MovingLimit
  BY <1>1 DEF Control, Arguments, Unlinking, Searched, MovingLimit, NoCall
<1>9. NewRegion
  BY <1>1, HeapAssumption DEF NewRegion
<1>10. Accounting
  <2>1. Held \ Moving = {}
    BY <1>1 DEF Held
  <2>2. Cardinality(Held \ Moving) = 0
    BY <2>1, FS_EmptySet
  <2>3. GCLimit \in Nat
    BY HeapAssumption
  <2> QED
    BY <1>1, <2>2, <2>3 DEF Accounting
<1> QED
  BY <1>3, <1>4, <1>5, <1>6, <1>7, <1>8, <1>9, <1>10 DEF IInv

\* A step that changes nothing preserves the invariant.
LEMMA Stutters ==
    ASSUME IInv, UNCHANGED vars
    PROVE  IInv'
<1>1. UNCHANGED <<list, client>>
  BY DEF vars
<1>2. /\ size'[0] = 0 /\ BlocksIntact' /\ FreeListSorted' /\ Lives' /\ Heads' = Heads /\ Held' = Held
      /\ size' = size /\ next' = next /\ skip' = skip /\ data' = data /\ live' = live
  BY <1>1, OnlyReads
<1>3. /\ pc' = pc /\ goal' = goal /\ call' = call /\ pressure' = pressure /\ freed' = freed
      /\ at' = at /\ target' = target /\ allocated' = allocated /\ limit' = limit
  BY DEF vars, count, search
<1>4. TypeOK'
  BY <1>2, <1>3 DEF IInv, TypeOK
<1>5. NothingStale' /\ Searched'
  BY <1>2, <1>3 DEF IInv, NothingStale, Searched
<1>6. Control' /\ Arguments' /\ Unlinking' /\ NewRegion' /\ MovingLimit'
  BY <1>2, <1>3 DEF IInv, Control, Arguments, Unlinking, Required, NewRegion, MovingLimit
<1>7. Accounting'
  BY <1>2, <1>3 DEF IInv, Accounting, Moving, UnitsOf
<1> QED
  BY <1>2, <1>4, <1>5, <1>6, <1>7 DEF IInv

\* Every step preserves the invariant.
LEMMA Inductive ==
    ASSUME IInv, [Next]_vars
    PROVE  IInv'
<1>1. ASSUME NEW b \in Blocks, NEW n \in Units, NEW max \in {HIGH, FULL}, NEW slack \in {0, 1},
             AllocBlock(b, n, max, slack)
      PROVE  IInv'
  BY <1>1, AllocBlockStep
<1>2. CASE AllocFirst
  BY <1>2, AllocFirstStep
<1>3. CASE SkipRegion
  BY <1>3, SkipRegionStep
<1>4. CASE AllocRegion
  BY <1>4, AllocRegionStep
<1>5. CASE Retry
  BY <1>5, RetryStep
<1>6. CASE GiveNull
  BY <1>6, GiveNullStep
<1>7. CASE EndReclaim
  BY <1>7, EndReclaimStep
<1>8. ASSUME NEW b \in Blocks, FreeBlock(b)
      PROVE  IInv'
  BY <1>8, FreeBlockStep
<1>9. CASE FindNext
  BY <1>9, FindNextStep
<1>10. CASE Release
  BY <1>10, ReleaseStep
<1>11. ASSUME NEW b \in Blocks, NEW n \in Units, ShrinkBlock(b, n)
       PROVE  IInv'
  BY <1>11, ShrinkBlockStep
<1>12. CASE Shrink
  BY <1>12, ShrinkStep
<1>13. ASSUME NEW b \in Blocks, NEW n \in Units, GrowBlock(b, n)
       PROVE  IInv'
  BY <1>13, GrowBlockStep
<1>14. CASE ExtendEnd
  BY <1>14, ExtendEndStep
<1>15. CASE ExtendFront
  BY <1>15, ExtendFrontStep
<1>16. CASE ExtendFrontAll
  BY <1>16, ExtendFrontAllStep
<1>17. CASE Unlink
  BY <1>17, UnlinkStep
<1>18. ASSUME NEW slack \in {0, 1}, AllocateNew(slack)
       PROVE  IInv'
  BY <1>18, AllocateNewStep
<1>19. CASE Move
  BY <1>19, MoveStep
<1>20. CASE UNCHANGED vars
  BY <1>20, Stutters
<1>21. CASE Ended
  BY <1>20, <1>21 DEF Ended
<1> QED
  BY <1>1, <1>2, <1>3, <1>4, <1>5, <1>6, <1>7, <1>8, <1>9, <1>10, <1>11, <1>12, <1>13, <1>14,
     <1>15, <1>16, <1>17, <1>18, <1>19, <1>20, <1>21 DEF Next

\* The invariant holds in every behaviour.
LEMMA Always == Spec => []IInv
<1>1. Init => IInv
  BY Initially
<1>2. IInv /\ [Next]_vars => IInv'
  BY Inductive
<1> QED
  BY <1>1, <1>2, PTL DEF Spec

-----------------------------------------------------------------------------

\* The variables of the allocator have their types; what follows a header is an address of the
\* area or the end of the list.
THEOREM HeapTypes == Spec => []TypeOK
<1>1. IInv => TypeOK
  BY DEF IInv
<1> QED
  BY <1>1, Always, PTL

\* Whatever the size of the area, the collector's limit and the number of blocks: two blocks never
\* share a unit, no unit is lost, and no header is written over the data of a block.
THEOREM HeapBlocksIntact == Spec => []BlocksIntact
<1>1. IInv => BlocksIntact
  BY DEF IInv
<1> QED
  BY <1>1, Always, PTL

\* The free list is in the order of addresses and its regions are merged with their neighbours.
THEOREM HeapListSorted == Spec => []FreeListSorted
<1>1. IInv => FreeListSorted
  BY DEF IInv
<1> QED
  BY <1>1, Always, PTL

\* The cached position of jmem_heap_list_skip_p and that of a running search are headers.
THEOREM HeapNothingStale == Spec => []NothingStale
<1>1. IInv => NothingStale
  BY DEF IInv
<1> QED
  BY <1>1, Always, PTL

\* jmem_heap_allocated_size counts the units of the program, and the limit is at most
\* CONFIG_GC_LIMIT above it.
THEOREM HeapAccounting == Spec => []Accounting
<1>1. IInv => Accounting
  BY DEF IInv
<1> QED
  BY <1>1, Always, PTL

\* The program gets the block: this is no failure.
LEMMA FoundIsNoFailure ==
    ASSUME IInv, pc = "scan", NEW r \in Units, Found(r)
    PROVE  pc' # "fatal" /\ ~(goal = "alloc" /\ pc' = "idle" /\ live' = live)
<1>1. CASE goal = "alloc"
  <2>1. /\ live' = [live EXCEPT ![call.block] = [at |-> r, size |-> call.size]]
        /\ pc' = "idle"
    BY <1>1 DEF Found, Return
  <2>2. call.block \in Blocks /\ live[call.block].at = 0 /\ live \in [Blocks -> [at: Nodes, size: Nodes]]
    BY <1>1 DEF IInv, TypeOK, Control, Arguments
  <2>3. live'[call.block].at = r /\ r # 0
    BY <2>1, <2>2, Places
  <2> QED
    BY <2>1, <2>2, <2>3
<1>2. CASE goal = "copy"
  BY <1>2 DEF Found
<1> QED
  BY <1>1, <1>2 DEF IInv, Control

\* The search is over: it has passed every region.
LEMMA SearchOver ==
    ASSUME IInv, NotFound
    PROVE  \A h \in Heads : size[h] < call.size
<1>1. /\ pc = "scan" /\ next[at] = END /\ at \in {0} \cup Heads
  BY DEF NotFound, IInv, NothingStale
<1>2. at \in Nat /\ \A h \in Heads : h \in Nat /\ h < END
  BY Known, Places
<1>3. \A h \in Heads : h > at => h >= END
  BY <1>1, Known, Sorted DEF IInv
<1>4. \A h \in Heads : h <= at
  BY <1>2, <1>3, Places
<1> QED
  BY <1>1, <1>4 DEF IInv, Searched

\* The two parts of FailsOnlyWhenFull: the steps it speaks of and what it asks of them.
Fails == pc' = "fatal" \/ (goal = "alloc" /\ pc' = "idle" /\ live' = live)
Justified == pc = "fatal" \/ (pressure = HIGH /\ \A h \in Heads : size[h] < call.size)

LEMMA FailureJustified ==
    ASSUME IInv, Next, Fails
    PROVE  Justified
<1>1. ASSUME NEW b \in Blocks, NEW n \in Units, NEW max \in {HIGH, FULL}, NEW slack \in {0, 1},
             AllocBlock(b, n, max, slack)
      PROVE  FALSE
  BY <1>1 DEF AllocBlock, GcAndAlloc, Scan, Fails
<1>2. CASE AllocFirst
  <2>1. pc = "scan" /\ Found(next[0]) /\ next[0] # END
    BY <1>2 DEF AllocFirst
  <2>2. next[0] \in Units
    BY <2>1, Known, Sorted DEF IInv
  <2> QED
    BY <2>1, <2>2, FoundIsNoFailure DEF Fails
<1>3. CASE SkipRegion
  BY <1>3 DEF SkipRegion, Fails
<1>4. CASE AllocRegion
  <2>1. pc = "scan" /\ Found(next[at]) /\ next[at] # END
    BY <1>4 DEF AllocRegion
  <2>2. next[at] \in Units
    BY <2>1, Known, Sorted DEF IInv, NothingStale
  <2> QED
    BY <2>1, <2>2, FoundIsNoFailure DEF Fails
<1>5. CASE Retry
  <2>1. /\ pressure' = pressure + 1
        /\ pc' = IF pressure' = FULL THEN "fatal" ELSE "reclaim"
    BY <1>5 DEF Retry
  <2>2. pressure' = FULL
    BY <2>1 DEF Fails
  <2>3. pressure = HIGH
    BY <2>1, <2>2 DEF IInv, TypeOK, Pressure, NONE, LOW, HIGH, FULL
  <2> QED
    BY <1>5, <2>3, SearchOver DEF Retry, Justified
<1>6. CASE GiveNull
  <2>1. pc = "scan" /\ pressure = call.max /\ pc' = "idle"
    BY <1>6 DEF GiveNull, NotFound, Return
  <2>2. goal = "alloc"
    BY <2>1 DEF Fails
  <2>3. pressure = HIGH
    BY <2>1, <2>2 DEF IInv, Control, Arguments
  <2> QED
    BY <1>6, <2>3, SearchOver DEF GiveNull, Justified
<1>7. CASE EndReclaim
  BY <1>7 DEF EndReclaim, FindPrev, Scan, Fails
<1>8. ASSUME NEW b \in Blocks, FreeBlock(b)
      PROVE  FALSE
  BY <1>8 DEF FreeBlock, FindPrev, Fails
<1>9. CASE FindNext
  BY <1>9 DEF FindNext, Fails
<1>10. CASE Release
  BY <1>10 DEF Release, Fails
<1>11. ASSUME NEW b \in Blocks, NEW n \in Units, ShrinkBlock(b, n)
       PROVE  FALSE
  BY <1>11 DEF ShrinkBlock, FindPrev, Fails
<1>12. CASE Shrink
  BY <1>12 DEF Shrink, Return, Fails
<1>13. ASSUME NEW b \in Blocks, NEW n \in Units, GrowBlock(b, n)
       PROVE  FALSE
  BY <1>13 DEF GrowBlock, FindPrev, Fails
<1>14. CASE ExtendEnd
  BY <1>14 DEF ExtendEnd, Extending, Return, Fails
<1>15. CASE ExtendFront
  BY <1>15 DEF ExtendFront, Extending, Return, Fails
<1>16. CASE ExtendFrontAll
  BY <1>16 DEF ExtendFrontAll, FindPrev, Fails
<1>17. CASE Unlink
  BY <1>17 DEF Unlink, Return, Fails
<1>18. ASSUME NEW slack \in {0, 1}, AllocateNew(slack)
       PROVE  FALSE
  BY <1>18 DEF AllocateNew, GcAndAlloc, Scan, Fails
<1>19. CASE Move
  BY <1>19 DEF Move, Return, Fails
<1>20. CASE Ended
  BY <1>20 DEF Ended, Justified
<1> QED
  BY <1>1, <1>2, <1>3, <1>4, <1>5, <1>6, <1>7, <1>8, <1>9, <1>10, <1>11, <1>12, <1>13, <1>14,
     <1>15, <1>16, <1>17, <1>18, <1>19, <1>20 DEF Next

\* An allocation fails, or is fatal, only when no region is large enough and the collector ran
\* with high pressure.
THEOREM HeapFailsOnlyWhenFull == Spec => FailsOnlyWhenFull
<1>1. IInv /\ [Next]_vars => [Fails => Justified]_vars
  BY FailureJustified
<1>2. Spec => [][Fails => Justified]_vars
  BY <1>1, Always, PTL DEF Spec
<1> QED
  BY <1>2 DEF FailsOnlyWhenFull, Fails, Justified

=============================================================================
