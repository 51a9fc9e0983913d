------------------------------ MODULE GcProofs ------------------------------
(***************************************************************************)
(* The collector for any number of objects, any heap and any limit of the  *)
(* recursion.                                                              *)
(*                                                                         *)
(* The heart of the invariant IInv is Marked: an edge of an object leads   *)
(* to a visited object, unless its marking is still to come.  The edges of *)
(* weak maps come in pairs, one at the map and one at the key, and it is   *)
(* enough that one of the two is still to come: whichever of the two       *)
(* objects is marked later finds the other visited.                        *)
(***************************************************************************)
EXTENDS Gc, SequenceTheorems, TLAPS

Pair == Object \X Object
CallType == [object : Object, left : SUBSET Pair]

Types ==
  /\ kind \in [Object -> Kind \cup {"free"}]
  /\ refs \in [Object -> BOOLEAN]
  /\ strong \in [Object -> SUBSET Object]
  /\ entries \in [Object -> SUBSET (Object \X (Object \cup {None}))]
  /\ target \in [Object -> Object \cup {None}]
  /\ weak \in [Object -> SUBSET Object]
  /\ list \in Seq(Object) /\ black \in Seq(Object) /\ white \in Seq(Object)
  /\ mark \in [Object -> Colour]
  /\ calls \in Seq(CallType)
  /\ Len(calls) <= MarkLimit + 1
  /\ phase \in {"idle", "roots", "mark", "scan", "sweep"}
  /\ position \in Nat
  /\ again \in BOOLEAN

\* Each object that is not freed is on exactly one of the lists.
Apart == /\ IsInjective(list) /\ IsInjective(black) /\ IsInjective(white)
         /\ ToSet(list) \cap ToSet(black) = {}
         /\ ToSet(list) \cap ToSet(white) = {}
         /\ ToSet(black) \cap ToSet(white) = {}
         /\ ToSet(list) \cup ToSet(black) \cup ToSet(white) = Allocated

\* What the lists and the calls are for.
Phases ==
  /\ phase \in {"mark", "scan"} => list = <<>>
  /\ phase \in {"idle", "sweep"} => black = <<>>
  /\ phase = "idle" => white = <<>>
  /\ phase \notin {"mark", "scan"} => calls = <<>>
  /\ phase = "mark" => position \in 1 .. Len(black) + 1
  /\ phase = "scan" => position \in 1 .. Len(white) + 1

\* The colours on the lists; those with references are not white.
Colours ==
  /\ \A o \in ToSet(list) \cup ToSet(black) : mark[o] = "black"
  /\ \A o \in ToSet(white) : /\ ~refs[o]
                             /\ phase \in {"roots", "sweep"} => mark[o] = "white"
  /\ phase = "roots" => \A o \in ToSet(black) : refs[o]

\* Only weak maps have pairs, only weak references a target, and a freed object has nothing.
Sorts ==
  \A o \in Object : /\ entries[o] # {} => kind[o] = "weakmap"
                    /\ target[o] # None => kind[o] = "weakref"
                    /\ kind[o] = "free" => ~refs[o] /\ strong[o] = {} /\ mark[o] = "white"

\* Outside of a sweep nothing refers to a freed object.
NoDangling ==
  phase # "sweep" => \A o \in Object : /\ strong[o] \subseteq Allocated
                                       /\ \A e \in entries[o] : e[2] \in Allocated \cup {None}

\* Marking has reached live objects only.
Reached == phase \in {"mark", "scan"} => \A o \in Object : Visited(o) => o \in Live

\* An object in a call of ecma_gc_mark is black, and what is left are edges of it.
Calling == \A k \in 1 .. Len(calls) : /\ mark[calls[k].object] = "black"
                                      /\ calls[k].left \subseteq Edges(calls[k].object)

\* The marking of edge e of object o is still to come.
Left(frames, o, e) == \E k \in 1 .. Len(frames) : frames[k].object = o /\ e \in frames[k].left
ToCome(o) == phase = "mark" /\ \E i \in position .. Len(black) : black[i] = o
Pending(o, e) == mark[o] # "black" \/ ToCome(o) \/ Left(calls, o, e)

Marked ==
  phase \in {"mark", "scan"} =>
    \A o, c, t \in Object :
       <<c, t>> \in Edges(o) => Visited(t) \/ Pending(o, <<c, t>>) \/ Pending(c, <<o, t>>)

\* A pass that has not marked anything yet has passed white objects only.
Passed ==
  phase = "scan" /\ ~again => /\ calls = <<>>
                              /\ \A i \in 1 .. position - 1 : mark[white[i]] = "white"

IInv == /\ Types
        /\ Apart
        /\ Phases
        /\ Colours
        /\ Sorts
        /\ WeakMirror
        /\ NoDangling
        /\ Reached
        /\ Calling
        /\ Marked
        /\ Passed
        /\ ExactlyGarbage

-----------------------------------------------------------------------------
(* Lists.                                                                  *)

\* An empty list has no objects.
LEMMA EmptyList == ToSet(<<>>) = {} /\ IsInjective(<<>>)
  BY DEF ToSet, IsInjective

\* Appending an object that was not there.
LEMMA AppendList ==
  ASSUME NEW S, NEW s \in Seq(S), NEW x \in S
  PROVE  /\ Append(s, x) \in Seq(S)
         /\ ToSet(Append(s, x)) = ToSet(s) \cup {x}
         /\ IsInjective(s) /\ x \notin ToSet(s) => IsInjective(Append(s, x))
<1>1. Append(s, x) \in Seq(S)
  OBVIOUS
<1>2. Len(Append(s, x)) = Len(s) + 1 /\ Append(s, x)[Len(s) + 1] = x
  OBVIOUS
<1>3. \A i \in 1 .. Len(s) : Append(s, x)[i] = s[i]
  OBVIOUS
<1>4. DOMAIN s = 1 .. Len(s) /\ DOMAIN Append(s, x) = 1 .. Len(s) + 1 /\ Len(s) \in Nat
  OBVIOUS
<1>5. \A i : i \in 1 .. Len(s) + 1 <=> i \in 1 .. Len(s) \/ i = Len(s) + 1
  BY <1>4
<1>6. ToSet(Append(s, x)) = ToSet(s) \cup {x}
  BY <1>2, <1>3, <1>4, <1>5, ZenonT(30) DEF ToSet
<1>7. IsInjective(s) /\ x \notin ToSet(s) => IsInjective(Append(s, x))
  BY <1>2, <1>3, <1>4, <1>5, ZenonT(30) DEF ToSet, IsInjective
<1>. QED
  BY <1>1, <1>6, <1>7

\* Taking the first object.
LEMMA TailList ==
  ASSUME NEW S, NEW s \in Seq(S), s # <<>>
  PROVE  /\ Head(s) \in S /\ Head(s) \in ToSet(s)
         /\ Tail(s) \in Seq(S)
         /\ ToSet(s) = ToSet(Tail(s)) \cup {Head(s)}
         /\ IsInjective(s) => IsInjective(Tail(s)) /\ Head(s) \notin ToSet(Tail(s))
<1>1. Len(s) \in Nat /\ Len(s) >= 1 /\ DOMAIN s = 1 .. Len(s)
  OBVIOUS
<1>2. /\ Head(s) = s[1] /\ Head(s) \in S
      /\ Tail(s) \in Seq(S) /\ Len(Tail(s)) = Len(s) - 1 /\ DOMAIN Tail(s) = 1 .. Len(s) - 1
      /\ \A i \in 1 .. Len(s) - 1 : Tail(s)[i] = s[i + 1]
  BY HeadTailProperties
<1>3. \A i \in 1 .. Len(s) : i = 1 \/ (i - 1 \in 1 .. Len(s) - 1 /\ (i - 1) + 1 = i)
  BY <1>1
<1>4. \A i \in 1 .. Len(s) - 1 : i + 1 \in 1 .. Len(s) /\ i + 1 # 1
  BY <1>1
<1>5. 1 \in 1 .. Len(s)
  BY <1>1
<1>6. ToSet(s) = ToSet(Tail(s)) \cup {Head(s)}
  <2>1. ASSUME NEW y \in ToSet(s) PROVE y \in ToSet(Tail(s)) \cup {Head(s)}
    <3>1. PICK i \in 1 .. Len(s) : y = s[i]
      BY <1>1 DEF ToSet
    <3>2. CASE i = 1
      BY <3>1, <3>2, <1>2
    <3>3. CASE i # 1
      <4>1. i - 1 \in 1 .. Len(s) - 1 /\ Tail(s)[i - 1] = s[i]
        BY <1>2, <1>3, <3>3
      <4>. QED
        BY <4>1, <3>1, <1>2 DEF ToSet
    <3>. QED
      BY <3>2, <3>3
  <2>2. ASSUME NEW y \in ToSet(Tail(s)) PROVE y \in ToSet(s)
    <3>1. PICK i \in 1 .. Len(s) - 1 : y = Tail(s)[i]
      BY <1>2 DEF ToSet
    <3>. QED
      BY <3>1, <1>1, <1>2, <1>4 DEF ToSet
  <2>3. Head(s) \in ToSet(s)
    BY <1>1, <1>2, <1>5 DEF ToSet
  <2>. QED
    BY <2>1, <2>2, <2>3
<1>7. ASSUME IsInjective(s)
      PROVE  IsInjective(Tail(s)) /\ Head(s) \notin ToSet(Tail(s))
  <2>1. ASSUME NEW i \in 1 .. Len(s) - 1, NEW j \in 1 .. Len(s) - 1, Tail(s)[i] = Tail(s)[j]
        PROVE  i = j
    <3>1. s[i + 1] = s[j + 1] /\ i + 1 \in 1 .. Len(s) /\ j + 1 \in 1 .. Len(s)
      BY <2>1, <1>2, <1>4
    <3>2. i + 1 = j + 1
      BY <3>1, <1>1, <1>7 DEF IsInjective
    <3>. QED
      BY <3>2
  <2>2. IsInjective(Tail(s))
    BY <2>1, <1>2 DEF IsInjective
  <2>3. ASSUME Head(s) \in ToSet(Tail(s)) PROVE FALSE
    <3>1. PICK i \in 1 .. Len(s) - 1 : s[1] = s[i + 1]
      BY <2>3, <1>2 DEF ToSet
    <3>. QED
      BY <3>1, <1>1, <1>4, <1>5, <1>7 DEF IsInjective
  <2>. QED
    BY <2>2, <2>3
<1>. QED
  BY <1>2, <1>6, <1>7

\* Taking an object out of a list.
LEMMA RemoveList ==
  ASSUME NEW S, NEW s \in Seq(S), NEW p \in 1 .. Len(s)
  PROVE  /\ RemoveAt(s, p) \in Seq(S) /\ Len(RemoveAt(s, p)) = Len(s) - 1
         /\ \A i \in 1 .. p - 1 : RemoveAt(s, p)[i] = s[i]
         /\ ToSet(s) = ToSet(RemoveAt(s, p)) \cup {s[p]}
         /\ IsInjective(s) => IsInjective(RemoveAt(s, p)) /\ s[p] \notin ToSet(RemoveAt(s, p))
<1>1. PICK r : r = RemoveAt(s, p)
  OBVIOUS
<1>2. Len(s) \in Nat /\ p \in Nat /\ p >= 1 /\ p <= Len(s) /\ DOMAIN s = 1 .. Len(s)
  OBVIOUS
<1>3. /\ SubSeq(s, 1, p - 1) \in Seq(S) /\ Len(SubSeq(s, 1, p - 1)) = p - 1
      /\ \A i \in 1 .. p - 1 : SubSeq(s, 1, p - 1)[i] = s[i]
  BY <1>2
<1>4. /\ SubSeq(s, p + 1, Len(s)) \in Seq(S) /\ Len(SubSeq(s, p + 1, Len(s))) = Len(s) - p
      /\ \A i \in 1 .. Len(s) - p : SubSeq(s, p + 1, Len(s))[i] = s[p + i]
  <2>1. /\ SubSeq(s, p + 1, Len(s)) \in Seq(S)
        /\ Len(SubSeq(s, p + 1, Len(s))) = IF p + 1 <= Len(s) THEN Len(s) - (p + 1) + 1 ELSE 0
    BY <1>2, SubSeqProperties
  <2>2. \A i \in 1 .. Len(s) - (p + 1) + 1 : SubSeq(s, p + 1, Len(s))[i] = s[(p + 1) + i - 1]
    BY <1>2, SubSeqProperties
  <2>3. \A i \in 1 .. Len(s) - p : i \in 1 .. Len(s) - (p + 1) + 1 /\ (p + 1) + i - 1 = p + i
    BY <1>2
  <2>4. (IF p + 1 <= Len(s) THEN Len(s) - (p + 1) + 1 ELSE 0) = Len(s) - p
    <3>1. \A n \in Nat : p <= n => (IF p + 1 <= n THEN n - (p + 1) + 1 ELSE 0) = n - p
      BY <1>2
    <3>. QED
      BY <3>1, <1>2
  <2>. QED
    BY <2>1, <2>2, <2>3, <2>4
<1>5. /\ r \in Seq(S) /\ Len(r) = Len(s) - 1 /\ DOMAIN r = 1 .. Len(s) - 1
      /\ \A i \in 1 .. Len(s) - 1 : r[i] = IF i < p THEN s[i] ELSE s[i + 1]
  <2>0. PICK a, b : a = SubSeq(s, 1, p - 1) /\ b = SubSeq(s, p + 1, Len(s))
    OBVIOUS
  <2>1. r = a \o b /\ a \in Seq(S) /\ b \in Seq(S) /\ Len(a) = p - 1 /\ Len(b) = Len(s) - p
    BY <2>0, <1>1, <1>3, <1>4 DEF RemoveAt
  <2>4. /\ r \in Seq(S) /\ Len(r) = (p - 1) + (Len(s) - p)
        /\ \A i \in 1 .. (p - 1) + (Len(s) - p) : r[i] = IF i <= p - 1 THEN a[i] ELSE b[i - (p - 1)]
    <3>1. /\ a \o b \in Seq(S) /\ Len(a \o b) = Len(a) + Len(b)
          /\ \A i \in 1 .. Len(a) + Len(b) : (a \o b)[i] = IF i <= Len(a) THEN a[i] ELSE b[i - Len(a)]
      BY <2>1, ConcatProperties
    <3>. QED
      BY <2>1, <3>1
  <2>2. (p - 1) + (Len(s) - p) = Len(s) - 1
    BY <1>2
  <2>3. ASSUME NEW i \in 1 .. Len(s) - 1 PROVE r[i] = IF i < p THEN s[i] ELSE s[i + 1]
    <3>1. i \in 1 .. (p - 1) + (Len(s) - p)
      BY <1>2
    <3>2. r[i] = IF i <= p - 1 THEN SubSeq(s, 1, p - 1)[i] ELSE SubSeq(s, p + 1, Len(s))[i - (p - 1)]
      BY <3>1, <2>0, <2>4
    <3>3. CASE i < p
      BY <3>2, <3>3, <1>2, <1>3
    <3>4. CASE ~(i < p)
      <4>1. ~(i <= p - 1) /\ i - (p - 1) \in 1 .. Len(s) - p /\ p + (i - (p - 1)) = i + 1
        BY <3>4, <1>2
      <4>. QED
        BY <4>1, <3>2, <3>4, <1>4
    <3>. QED
      BY <3>3, <3>4
  <2>. QED
    BY <2>4, <2>2, <2>3
<1>6. \A i \in 1 .. p - 1 : r[i] = s[i]
  BY <1>2, <1>5
<1>7. \A i \in 1 .. Len(s) - 1 : \E j \in 1 .. Len(s) : j # p /\ r[i] = s[j]
  BY <1>2, <1>5
<1>8. \A j \in 1 .. Len(s) : j # p => \E i \in 1 .. Len(s) - 1 : r[i] = s[j]
  <2>1. ASSUME NEW j \in 1 .. Len(s), j # p PROVE \E i \in 1 .. Len(s) - 1 : r[i] = s[j]
    <3>1. CASE j < p
      BY <3>1, <1>2, <1>5
    <3>2. CASE j > p
      <4>1. j - 1 \in 1 .. Len(s) - 1 /\ ~(j - 1 < p) /\ (j - 1) + 1 = j
        BY <3>2, <1>2
      <4>. QED
        BY <4>1, <1>5
    <3>. QED
      BY <3>1, <3>2, <2>1, <1>2
  <2>. QED
    BY <2>1
<1>9. ToSet(s) = ToSet(r) \cup {s[p]}
  <2>1. ASSUME NEW y \in ToSet(r) PROVE y \in ToSet(s)
    BY <1>2, <1>5, <1>7 DEF ToSet
  <2>2. s[p] \in ToSet(s)
    BY <1>2 DEF ToSet
  <2>3. ASSUME NEW y \in ToSet(s), y # s[p] PROVE y \in ToSet(r)
    <3>1. PICK j \in 1 .. Len(s) : y = s[j]
      BY <1>2 DEF ToSet
    <3>2. PICK i \in 1 .. Len(s) - 1 : r[i] = s[j]
      BY <3>1, <2>3, <1>8
    <3>. QED
      BY <3>1, <3>2, <1>5 DEF ToSet
  <2>. QED
    BY <2>1, <2>2, <2>3
<1>10. ASSUME IsInjective(s) PROVE IsInjective(r) /\ s[p] \notin ToSet(r)
  <2>1. ASSUME NEW i \in 1 .. Len(s) - 1, NEW j \in 1 .. Len(s) - 1, r[i] = r[j]
        PROVE  i = j
    <3>1. PICK a \in 1 .. Len(s) : r[i] = s[a] /\ a = IF i < p THEN i ELSE i + 1
      BY <1>2, <1>5
    <3>2. PICK b \in 1 .. Len(s) : r[j] = s[b] /\ b = IF j < p THEN j ELSE j + 1
      BY <1>2, <1>5
    <3>3. a = b
      BY <3>1, <3>2, <2>1, <1>2, <1>10 DEF IsInjective
    <3>. QED
      BY <3>1, <3>2, <3>3, <1>2
  <2>2. IsInjective(r)
    BY <2>1, <1>5 DEF IsInjective
  <2>3. ASSUME s[p] \in ToSet(r) PROVE FALSE
    <3>1. PICK i \in 1 .. Len(s) - 1 : s[p] = r[i]
      BY <2>3, <1>5 DEF ToSet
    <3>2. PICK j \in 1 .. Len(s) : j # p /\ r[i] = s[j]
      BY <1>7
    <3>. QED
      BY <3>1, <3>2, <1>2, <1>10 DEF IsInjective
  <2>. QED
    BY <2>2, <2>3
<1>. QED
  BY <1>1, <1>5, <1>6, <1>9, <1>10

\* Two lists in one.
LEMMA ConcatList ==
  ASSUME NEW S, NEW s \in Seq(S), NEW t \in Seq(S)
  PROVE  /\ s \o t \in Seq(S)
         /\ ToSet(s \o t) = ToSet(s) \cup ToSet(t)
         /\ IsInjective(s) /\ IsInjective(t) /\ ToSet(s) \cap ToSet(t) = {} => IsInjective(s \o t)
<1>1. PICK c : c = s \o t
  OBVIOUS
<1>2. PICK m \in Nat : m = Len(s) /\ DOMAIN s = 1 .. m
  OBVIOUS
<1>3. PICK n \in Nat : n = Len(t) /\ DOMAIN t = 1 .. n
  OBVIOUS
<1>4. /\ c \in Seq(S) /\ DOMAIN c = 1 .. m + n
      /\ \A i \in 1 .. m : c[i] = s[i]
      /\ \A i \in 1 .. m + n : i > m => c[i] = t[i - m]
  BY <1>1, <1>2, <1>3
<1>5. \A i \in 1 .. m : i \in 1 .. m + n
  BY <1>2, <1>3
<1>6. \A i \in 1 .. n : i + m \in 1 .. m + n /\ c[i + m] = t[i]
  <2>1. \A i \in 1 .. n : i + m \in 1 .. m + n /\ i + m > m /\ (i + m) - m = i
    OBVIOUS
  <2>. QED
    BY <2>1, <1>4
<1>7. \A i \in 1 .. m + n : i \in 1 .. m \/ (i > m /\ i - m \in 1 .. n)
  OBVIOUS
<1>8. ASSUME NEW x \in ToSet(c) PROVE x \in ToSet(s) \cup ToSet(t)
  <2>1. PICK i \in 1 .. m + n : x = c[i]
    BY <1>4 DEF ToSet
  <2>2. CASE i \in 1 .. m
    BY <2>1, <2>2, <1>2, <1>4 DEF ToSet
  <2>3. CASE i > m /\ i - m \in 1 .. n
    BY <2>1, <2>3, <1>3, <1>4 DEF ToSet
  <2>. QED
    BY <2>2, <2>3, <1>7
<1>9. ASSUME NEW x \in ToSet(s) \cup ToSet(t) PROVE x \in ToSet(c)
  <2>1. CASE x \in ToSet(s)
    <3>1. PICK i \in 1 .. m : x = s[i]
      BY <2>1, <1>2 DEF ToSet
    <3>. QED
      BY <3>1, <1>4, <1>5 DEF ToSet
  <2>2. CASE x \in ToSet(t)
    <3>1. PICK i \in 1 .. n : x = t[i]
      BY <2>2, <1>3 DEF ToSet
    <3>. QED
      BY <3>1, <1>4, <1>6 DEF ToSet
  <2>. QED
    BY <2>1, <2>2
<1>10. ASSUME IsInjective(s), IsInjective(t), ToSet(s) \cap ToSet(t) = {},
              NEW i \in 1 .. m + n, NEW j \in 1 .. m + n, c[i] = c[j]
       PROVE  i = j
  <2>1. CASE i \in 1 .. m /\ j \in 1 .. m
    BY <2>1, <1>10, <1>2, <1>4 DEF IsInjective
  <2>2. CASE i > m /\ j > m
    <3>1. i - m \in 1 .. n /\ j - m \in 1 .. n /\ t[i - m] = t[j - m]
      BY <2>2, <1>10, <1>4
    <3>2. i - m = j - m
      BY <3>1, <1>10, <1>3 DEF IsInjective
    <3>. QED
      BY <3>2
  <2>3. CASE i \in 1 .. m /\ j > m
    <3>1. s[i] = t[j - m] /\ j - m \in 1 .. n
      BY <2>3, <1>10, <1>4, <1>7
    <3>. QED
      BY <3>1, <2>3, <1>10, <1>2, <1>3 DEF ToSet
  <2>4. CASE i > m /\ j \in 1 .. m
    <3>1. s[j] = t[i - m] /\ i - m \in 1 .. n
      BY <2>4, <1>10, <1>4, <1>7
    <3>. QED
      BY <3>1, <2>4, <1>10, <1>2, <1>3 DEF ToSet
  <2>. QED
    BY <2>1, <2>2, <2>3, <2>4, <1>7
<1>11. IsInjective(s) /\ IsInjective(t) /\ ToSet(s) \cap ToSet(t) = {} => IsInjective(c)
  BY <1>10, <1>4 DEF IsInjective
<1>. QED
  BY <1>1, <1>4, <1>8, <1>9, <1>11

-----------------------------------------------------------------------------
(* What an object leads to.                                                *)

\* An edge is a reference, a pair of a weak map, or that of the key of such a pair.
LEMMA EdgesOf ==
  ASSUME Types, NEW o \in Object, NEW c, NEW t
  PROVE  <<c, t>> \in Edges(o) <=>
           /\ c \in Object /\ t \in Object
           /\ \/ c = o /\ t \in strong[o]
              \/ <<c, t>> \in entries[o]
              \/ c \in weak[o] /\ <<o, t>> \in entries[c]
<1>1. strong[o] \subseteq Object /\ entries[o] \subseteq Object \X (Object \cup {None}) /\ weak[o] \subseteq Object
  BY DEF Types
<1>2. <<c, t>> \in {<<o, p>> : p \in strong[o]} <=> c = o /\ t \in strong[o]
  OBVIOUS
<1>3. <<c, t>> \in {e \in entries[o] : e[2] # None} <=> <<c, t>> \in entries[o] /\ t # None
  OBVIOUS
<1>4. <<c, t>> \in {e \in weak[o] \X Object : <<o, e[2]>> \in entries[e[1]]}
        <=> c \in weak[o] /\ t \in Object /\ <<o, t>> \in entries[c]
  OBVIOUS
<1>5. <<c, t>> \in entries[o] => c \in Object /\ t \in Object \cup {None}
  BY <1>1
<1>. QED
  BY <1>1, <1>2, <1>3, <1>4, <1>5, NoneAssumption DEF Edges

\* The edges of a pair of a weak map are at the map and at the key.
LEMMA EdgesMirrored ==
  ASSUME Types, WeakMirror, NEW o \in Object, NEW c \in Object, NEW t \in Object,
         <<c, t>> \in Edges(o)
  PROVE  <<o, t>> \in Edges(c)
<1>1. CASE c = o /\ t \in strong[o]
  BY <1>1
<1>2. CASE <<c, t>> \in entries[o]
  <2>1. c \in Keys(o)
    <3>1. <<c, t>>[1] = c
      OBVIOUS
    <3>. QED
      BY <3>1, <1>2 DEF Keys
  <2>2. o \in weak[c]
    BY <2>1 DEF WeakMirror
  <2>. QED
    BY <2>2, <1>2, EdgesOf
<1>3. CASE c \in weak[o] /\ <<o, t>> \in entries[c]
  BY <1>3, EdgesOf
<1>. QED
  BY <1>1, <1>2, <1>3, EdgesOf

\* The edges of an object are pairs.
LEMMA EdgesArePairs ==
  ASSUME Types, NEW o \in Object
  PROVE  Edges(o) \subseteq Pair
<1>1. ASSUME NEW e \in Edges(o) PROVE e \in Pair
  <2>1. CASE \E p \in strong[o] : e = <<o, p>>
    BY <2>1 DEF Types, Pair
  <2>2. CASE e \in entries[o] /\ e[2] # None
    <3>1. e \in Object \X (Object \cup {None})
      BY <2>2 DEF Types
    <3>. QED
      BY <3>1, <2>2 DEF Pair
  <2>3. CASE e \in weak[o] \X Object
    <3>1. weak[o] \subseteq Object
      BY DEF Types
    <3>. QED
      BY <3>1, <2>3 DEF Pair
  <2>. QED
    BY <2>1, <2>2, <2>3, <1>1 DEF Edges
<1>. QED
  BY <1>1

\* The least set of objects that has the roots and what its members lead to.
LedBy(s, e, objects) ==
  {p \in Object : \E o \in objects : p \in s[o] \/ \E k \in objects : <<k, p>> \in e[o]}
LeastSet(r, s, e) ==
  {o \in Object : \A closed \in SUBSET Object :
                    {p \in Object : r[p]} \subseteq closed /\ LedBy(s, e, closed) \subseteq closed => o \in closed}

\* It is such a set, and a subset of each such set.
LEMMA LeastIsLeast ==
  ASSUME NEW r, NEW s, NEW e, NEW least, least = LeastSet(r, s, e)
  PROVE  /\ least \subseteq Object
         /\ \A p \in Object : r[p] => p \in least
         /\ LedBy(s, e, least) \subseteq least
         /\ \A closed \in SUBSET Object :
              (\A p \in Object : r[p] => p \in closed) /\ LedBy(s, e, closed) \subseteq closed => least \subseteq closed
<1>1. least \subseteq Object /\ \A p \in Object : r[p] => p \in least
  BY DEF LeastSet
<1>2. \A closed \in SUBSET Object :
        (\A p \in Object : r[p] => p \in closed) /\ LedBy(s, e, closed) \subseteq closed => least \subseteq closed
  BY DEF LeastSet
<1>3. ASSUME NEW p \in LedBy(s, e, least) PROVE p \in least
  <2>1. p \in Object /\ \E o \in least : p \in s[o] \/ \E k \in least : <<k, p>> \in e[o]
    BY <1>3 DEF LedBy
  <2>2. ASSUME NEW closed \in SUBSET Object, {q \in Object : r[q]} \subseteq closed, LedBy(s, e, closed) \subseteq closed
        PROVE  p \in closed
    <3>1. least \subseteq closed
      BY <2>2, <1>2
    <3>2. p \in LedBy(s, e, closed)
      BY <2>1, <3>1 DEF LedBy
    <3>. QED
      BY <3>2, <2>2
  <2>. QED
    BY <2>1, <2>2 DEF LeastSet
<1>. QED
  BY <1>1, <1>2, <1>3

\* Live objects are the least set that has the roots and what it leads to.
LEMMA LiveIsLeast ==
         /\ Live \subseteq Object
         /\ \A p \in Object : refs[p] => p \in Live
         /\ LedTo(Live) \subseteq Live
         /\ \A closed \in SUBSET Object :
              (\A p \in Object : refs[p] => p \in closed) /\ LedTo(closed) \subseteq closed => Live \subseteq closed
<1>1. \A objects : LedTo(objects) = LedBy(strong, entries, objects)
  BY DEF LedTo, LedBy
<1>2. Live = LeastSet(refs, strong, entries)
  BY <1>1 DEF Live, LeastSet
<1>. QED
  BY <1>1, <1>2, LeastIsLeast

\* An edge of a live object leads to a live one if its condition is live.
LEMMA EdgeToLive ==
  ASSUME Types, NEW o \in Live, NEW c \in Live, NEW t, <<c, t>> \in Edges(o)
  PROVE  t \in Live
<1>1. Live \subseteq Object /\ LedTo(Live) \subseteq Live
  BY LiveIsLeast
<1>2. t \in Object /\ (t \in strong[o] \/ <<c, t>> \in entries[o] \/ <<o, t>> \in entries[c])
  BY <1>1, EdgesOf
<1>3. t \in LedTo(Live)
  BY <1>1, <1>2 DEF LedTo
<1>. QED
  BY <1>1, <1>3

\* Live objects are not freed.
LEMMA LiveIsAllocated ==
  ASSUME Types, Sorts, NoDangling, phase # "sweep"
  PROVE  Live \subseteq Allocated
<1>1. Allocated \in SUBSET Object
  BY DEF Allocated
<1>2. \A p \in Object : refs[p] => p \in Allocated
  BY DEF Sorts, Allocated
<1>3. ASSUME NEW p \in LedTo(Allocated) PROVE p \in Allocated
  <2>1. /\ p \in Object
        /\ \E o \in Allocated : p \in strong[o] \/ \E k \in Allocated : <<k, p>> \in entries[o]
    BY <1>1, <1>3 DEF LedTo
  <2>2. PICK o \in Allocated : p \in strong[o] \/ \E k \in Allocated : <<k, p>> \in entries[o]
    BY <2>1
  <2>3. /\ strong[o] \subseteq Allocated
        /\ \A e \in entries[o] : e[2] \in Allocated \cup {None}
    BY <1>1, <2>2 DEF NoDangling
  <2>4. ASSUME NEW k, <<k, p>> \in entries[o] PROVE p \in Allocated
    <3>1. <<k, p>>[2] = p
      OBVIOUS
    <3>. QED
      BY <3>1, <2>1, <2>3, <2>4, NoneAssumption
  <2>. QED
    BY <2>2, <2>3, <2>4
<1>. QED
  BY <1>1, <1>2, <1>3, LiveIsLeast

\* What marking goes to is not freed.
LEMMA EdgeToAllocated ==
  ASSUME Types, NoDangling, phase # "sweep", NEW o \in Object, NEW c, NEW t, <<c, t>> \in Edges(o)
  PROVE  c \in Object /\ t \in Object /\ t \in Allocated
<1>1. /\ c \in Object /\ t \in Object
      /\ t \in strong[o] \/ <<c, t>> \in entries[o] \/ <<o, t>> \in entries[c]
  BY EdgesOf
<1>2. \A q \in Object : strong[q] \subseteq Allocated /\ \A e \in entries[q] : e[2] \in Allocated \cup {None}
  BY DEF NoDangling
<1>3. <<c, t>>[2] = t /\ <<o, t>>[2] = t
  OBVIOUS
<1>4. t # None
  BY <1>1, NoneAssumption
<1>. QED
  BY <1>1, <1>2, <1>3, <1>4

-----------------------------------------------------------------------------
(* The calls in progress.                                                  *)

Rest(cs, e) == <<[Head(cs) EXCEPT !.left = @ \ {e}]>> \o Tail(cs)

\* An edge of the last call is done with.
LEMMA RestOfCalls ==
  ASSUME NEW cs \in Seq(CallType), cs # <<>>, NEW e, NEW rest, rest = Rest(cs, e)
  PROVE  /\ rest \in Seq(CallType) /\ Len(rest) = Len(cs)
         /\ \A k \in 1 .. Len(cs) : rest[k].object = cs[k].object /\ rest[k].left \subseteq cs[k].left
         /\ \A o, d : Left(cs, o, d) => Left(rest, o, d) \/ (o = Head(cs).object /\ d = e)
<1>1. /\ Head(cs) \in CallType /\ Head(cs) = cs[1] /\ Len(cs) \in Nat /\ Len(cs) >= 1
      /\ Tail(cs) \in Seq(CallType) /\ Len(Tail(cs)) = Len(cs) - 1
      /\ \A i \in 1 .. Len(cs) - 1 : Tail(cs)[i] = cs[i + 1]
  BY HeadTailProperties
<1>2. PICK f : f = [Head(cs) EXCEPT !.left = @ \ {e}]
  OBVIOUS
<1>3. f \in CallType /\ f.object = cs[1].object /\ f.left = cs[1].left \ {e}
  BY <1>1, <1>2 DEF CallType
<1>4. <<f>> \in Seq(CallType) /\ Len(<<f>>) = 1 /\ <<f>>[1] = f
  BY <1>3
<1>5. /\ rest \in Seq(CallType) /\ Len(rest) = Len(cs) /\ rest[1] = f
      /\ \A k \in 2 .. Len(cs) : rest[k] = cs[k]
  <2>1. /\ rest \in Seq(CallType) /\ Len(rest) = 1 + (Len(cs) - 1)
        /\ \A i \in 1 .. 1 + (Len(cs) - 1) : rest[i] = IF i <= 1 THEN <<f>>[i] ELSE Tail(cs)[i - 1]
    BY <1>1, <1>2, <1>4, ConcatProperties DEF Rest
  <2>2. \A k \in 2 .. Len(cs) : k \in 1 .. 1 + (Len(cs) - 1) /\ ~(k <= 1) /\ k - 1 \in 1 .. Len(cs) - 1 /\ (k - 1) + 1 = k
    BY <1>1
  <2>. QED
    BY <2>1, <2>2, <1>1, <1>4
<1>6. \A k \in 1 .. Len(cs) : k = 1 \/ k \in 2 .. Len(cs)
  BY <1>1
<1>7. \A k \in 1 .. Len(cs) : rest[k].object = cs[k].object /\ rest[k].left \subseteq cs[k].left
  BY <1>3, <1>5, <1>6
<1>8. ASSUME NEW o, NEW d, Left(cs, o, d), ~(o = Head(cs).object /\ d = e) PROVE Left(rest, o, d)
  <2>1. PICK k \in 1 .. Len(cs) : cs[k].object = o /\ d \in cs[k].left
    BY <1>8 DEF Left
  <2>2. rest[k].object = o /\ d \in rest[k].left
    BY <2>1, <1>1, <1>3, <1>5, <1>6, <1>8
  <2>. QED
    BY <2>1, <2>2, <1>5 DEF Left
<1>. QED
  BY <1>5, <1>7, <1>8

\* A call begins.
LEMMA CallBegins ==
  ASSUME NEW cs \in Seq(CallType), NEW c \in CallType
  PROVE  /\ <<c>> \o cs \in Seq(CallType) /\ Len(<<c>> \o cs) = Len(cs) + 1
         /\ \A k \in 1 .. Len(cs) + 1 : \/ k = 1 /\ (<<c>> \o cs)[k] = c
                                        \/ k - 1 \in 1 .. Len(cs) /\ (<<c>> \o cs)[k] = cs[k - 1]
         /\ \A o, d : Left(cs, o, d) => Left(<<c>> \o cs, o, d)
         /\ \A d \in c.left : Left(<<c>> \o cs, c.object, d)
<1>1. PICK s : s = <<c>> \o cs
  OBVIOUS
<1>2. PICK n \in Nat : n = Len(cs)
  OBVIOUS
<1>3. s \in Seq(CallType) /\ Len(s) = n + 1 /\ s[1] = c
  BY <1>1, <1>2
<1>4. \A k \in 1 .. n : s[k + 1] = cs[k]
  BY <1>1, <1>2
<1>5. \A k \in 1 .. n + 1 : k = 1 \/ (k - 1 \in 1 .. n /\ (k - 1) + 1 = k)
  BY <1>2
<1>6. ASSUME NEW o, NEW d, Left(cs, o, d) PROVE Left(s, o, d)
  <2>1. PICK k \in 1 .. n : cs[k].object = o /\ d \in cs[k].left
    BY <1>2, <1>6 DEF Left
  <2>2. k + 1 \in 1 .. n + 1
    OBVIOUS
  <2>. QED
    BY <2>1, <2>2, <1>3, <1>4 DEF Left
<1>7. ASSUME NEW d \in c.left PROVE Left(s, c.object, d)
  <2>1. 1 \in 1 .. n + 1
    OBVIOUS
  <2>. QED
    BY <2>1, <1>3 DEF Left
<1>8. \A k \in 1 .. n + 1 : (k = 1 /\ s[k] = c) \/ (k - 1 \in 1 .. n /\ s[k] = cs[k - 1])
  <2>1. ASSUME NEW k \in 1 .. n + 1, k # 1 PROVE k - 1 \in 1 .. n /\ s[k] = cs[k - 1]
    <3>1. k - 1 \in 1 .. n /\ (k - 1) + 1 = k
      BY <2>1, <1>5
    <3>2. s[(k - 1) + 1] = cs[k - 1]
      BY <3>1, <1>4
    <3>. QED
      BY <3>1, <3>2
  <2>. QED
    BY <2>1, <1>3
<1>. QED
  BY <1>1, <1>2, <1>3, <1>6, <1>7, <1>8

\* A call returns.
LEMMA CallReturns ==
  ASSUME NEW cs \in Seq(CallType), cs # <<>>, Head(cs).left = {}
  PROVE  /\ Tail(cs) \in Seq(CallType) /\ Len(Tail(cs)) = Len(cs) - 1
         /\ \A k \in 1 .. Len(cs) - 1 : k + 1 \in 1 .. Len(cs) /\ Tail(cs)[k] = cs[k + 1]
         /\ \A o, d : Left(cs, o, d) => Left(Tail(cs), o, d)
<1>1. /\ Head(cs) = cs[1] /\ Len(cs) \in Nat /\ Len(cs) >= 1
      /\ Tail(cs) \in Seq(CallType) /\ Len(Tail(cs)) = Len(cs) - 1
      /\ \A i \in 1 .. Len(cs) - 1 : Tail(cs)[i] = cs[i + 1]
  BY HeadTailProperties
<1>2. \A k \in 1 .. Len(cs) - 1 : k + 1 \in 1 .. Len(cs)
  BY <1>1
<1>3. ASSUME NEW o, NEW d, Left(cs, o, d) PROVE Left(Tail(cs), o, d)
  <2>1. PICK k \in 1 .. Len(cs) : cs[k].object = o /\ d \in cs[k].left
    BY <1>3 DEF Left
  <2>2. k # 1
    BY <2>1, <1>1
  <2>3. k - 1 \in 1 .. Len(cs) - 1 /\ (k - 1) + 1 = k
    BY <2>2, <1>1
  <2>4. Tail(cs)[k - 1] = cs[k]
    BY <2>3, <1>1
  <2>. QED
    BY <2>1, <2>3, <2>4, <1>1 DEF Left
<1>. QED
  BY <1>1, <1>2, <1>3

-----------------------------------------------------------------------------
(* Steps that leave the heap alone.                                        *)

\* The edges and the live objects are those of the heap.
LEMMA SameHeap ==
  ASSUME UNCHANGED heap
  PROVE  /\ \A o : Edges(o)' = Edges(o)
         /\ Live' = Live
         /\ Allocated' = Allocated
         /\ WeakMirror => WeakMirror'
<1>1. kind' = kind /\ refs' = refs /\ strong' = strong /\ entries' = entries /\ target' = target /\ weak' = weak
  BY DEF heap
<1>2. \A o : Edges(o)' = Edges(o)
  BY <1>1 DEF Edges
<1>3. \A objects : LedTo(objects)' = LedTo(objects)
  BY <1>1 DEF LedTo
<1>4. Live' = Live
  BY <1>1, <1>3 DEF Live
<1>5. Allocated' = Allocated
  BY <1>1 DEF Allocated
<1>6. \A m : Keys(m)' = Keys(m)
  BY <1>1 DEF Keys
<1>7. WeakMirror => WeakMirror'
  BY <1>1, <1>5, <1>6 DEF WeakMirror
<1>. QED
  BY <1>2, <1>4, <1>5, <1>7

-----------------------------------------------------------------------------
(* Marking.                                                                *)

\* What marking must not disturb: it goes on with the calls, and visits live objects.
LEMMA MarkingKeeps ==
  ASSUME IInv, calls # <<>>,
         UNCHANGED <<heap, list, black, white, phase, position, again>>,
         calls' \in Seq(CallType), Len(calls') <= MarkLimit + 1,
         mark' \in [Object -> Colour],
         \A o \in Object : mark'[o] # mark[o] => mark[o] = "white" /\ o \in Live,
         Calling', Marked'
  PROVE  IInv'
<1>1. phase \in {"mark", "scan"} /\ phase' = phase
  BY DEF IInv, Phases
<1>2. UNCHANGED heap /\ list' = list /\ black' = black /\ white' = white /\ position' = position /\ again' = again
  OBVIOUS
<1>3. kind' = kind /\ refs' = refs /\ strong' = strong /\ entries' = entries /\ target' = target /\ weak' = weak
  BY DEF heap
<1>4. Live' = Live /\ Allocated' = Allocated
  BY <1>2, SameHeap
<1>5. Types'
  BY <1>1, <1>2, <1>3 DEF IInv, Types
<1>6. Apart'
  BY <1>2, <1>4 DEF IInv, Apart
<1>7. Phases'
  BY <1>1, <1>2 DEF IInv, Phases
<1>8. Colours'
  <2>1. \A o \in ToSet(list) \cup ToSet(black) : o \in Object
    BY DEF IInv, Apart, Allocated
  <2>. QED
    BY <2>1, <1>1, <1>2, <1>3 DEF IInv, Colours
<1>9. Sorts'
  <2>1. Live \subseteq Allocated
    BY <1>1, LiveIsAllocated DEF IInv
  <2>. QED
    BY <2>1, <1>3 DEF IInv, Sorts, Allocated
<1>10. WeakMirror'
  BY <1>2, SameHeap DEF IInv
<1>11. NoDangling'
  BY <1>1, <1>3, <1>4 DEF IInv, NoDangling
<1>12. Reached'
  BY <1>1, <1>4 DEF IInv, Reached, Visited
<1>13. Passed'
  BY <1>1, <1>2 DEF IInv, Passed
<1>14. ExactlyGarbage'
  BY <1>1 DEF ExactlyGarbage
<1>. QED
  BY <1>5, <1>6, <1>7, <1>8, <1>9, <1>10, <1>11, <1>12, <1>13, <1>14 DEF IInv

\* The last call.
LEMMA LastCall ==
  ASSUME IInv, calls # <<>>
  PROVE  /\ Head(calls) \in CallType
         /\ phase \in {"mark", "scan"}
         /\ mark[Head(calls).object] = "black"
         /\ Head(calls).left \subseteq Edges(Head(calls).object)
<1>1. calls \in Seq(CallType)
  BY DEF IInv, Types
<1>2. Head(calls) \in CallType /\ Head(calls) = calls[1] /\ 1 \in 1 .. Len(calls)
  BY <1>1
<1>3. phase \in {"mark", "scan"}
  BY DEF IInv, Phases
<1>. QED
  BY <1>2, <1>3 DEF IInv, Calling

\* The edge of the last call is done with, for its condition is white or what it leads to
\* has been visited before.
LEMMA EdgePassed ==
  ASSUME IInv, calls # <<>>,
         UNCHANGED <<heap, list, black, white, mark, phase, position, again>>,
         NEW c, NEW t, <<c, t>> \in Head(calls).left,
         ~Visited(c) \/ Visited(t),
         calls' = Rest(calls, <<c, t>>)
  PROVE  IInv'
<1>1. /\ Head(calls) \in CallType /\ phase \in {"mark", "scan"}
      /\ calls \in Seq(CallType) /\ Len(calls) <= MarkLimit + 1
  BY LastCall DEF IInv, Types
<1>2. /\ calls' \in Seq(CallType) /\ Len(calls') = Len(calls)
      /\ \A k \in 1 .. Len(calls) : calls'[k].object = calls[k].object /\ calls'[k].left \subseteq calls[k].left
      /\ \A o, d : Left(calls, o, d) => Left(calls', o, d) \/ (o = Head(calls).object /\ d = <<c, t>>)
  BY <1>1, RestOfCalls
<1>3. UNCHANGED heap /\ black' = black /\ mark' = mark /\ phase' = phase /\ position' = position
  OBVIOUS
<1>4. \A o : Edges(o)' = Edges(o)
  BY <1>3, SameHeap
<1>5. Calling'
  BY <1>2, <1>3, <1>4 DEF IInv, Calling
<1>6. \A o, d : Pending(o, d) => Pending(o, d)' \/ (o = Head(calls).object /\ d = <<c, t>>)
  BY <1>2, <1>3 DEF Pending, ToCome
<1>7. \A o : mark[o] = "white" => \A d : Pending(o, d)'
  BY <1>3 DEF Pending
<1>8. ASSUME NEW o \in Object, NEW k \in Object, NEW v \in Object, <<k, v>> \in Edges(o)
      PROVE  Visited(v) \/ Pending(o, <<k, v>>)' \/ Pending(k, <<o, v>>)'
  <2>1. Visited(v) \/ Pending(o, <<k, v>>) \/ Pending(k, <<o, v>>)
    BY <1>1, <1>8 DEF IInv, Marked
  <2>2. CASE o = Head(calls).object /\ <<k, v>> = <<c, t>>
    <3>1. k = c /\ v = t
      BY <2>2
    <3>. QED
      BY <3>1, <1>7 DEF Visited
  <2>3. CASE k = Head(calls).object /\ <<o, v>> = <<c, t>>
    <3>1. o = c /\ v = t
      BY <2>3
    <3>. QED
      BY <3>1, <1>7 DEF Visited
  <2>. QED
    BY <2>1, <2>2, <2>3, <1>6
<1>9. Marked'
  BY <1>3, <1>4, <1>8 DEF Marked, Visited
<1>10. Types
  BY DEF IInv
<1>. QED
  BY <1>1, <1>2, <1>3, <1>5, <1>9, <1>10, MarkingKeeps DEF Types

\* The edge leads to a white object, which is marked, in a call if the limit allows it.
LEMMA EdgeVisits ==
  ASSUME IInv, calls # <<>>,
         UNCHANGED <<heap, list, black, white, phase, position, again>>,
         NEW c, NEW t, <<c, t>> \in Head(calls).left,
         Visited(c), ~Visited(t),
         NEW rest, rest = Rest(calls, <<c, t>>),
         \/ mark' = [mark EXCEPT ![t] = "gray"] /\ calls' = rest
         \/ /\ mark' = [mark EXCEPT ![t] = "black"] /\ calls' = <<Call(t)>> \o rest
            /\ ~(Len(calls) > MarkLimit)
  PROVE  IInv'
<1>1. /\ Head(calls) \in CallType /\ phase \in {"mark", "scan"}
      /\ mark[Head(calls).object] = "black"
      /\ <<c, t>> \in Edges(Head(calls).object)
  BY LastCall
<1>2. /\ calls \in Seq(CallType) /\ Len(calls) <= MarkLimit + 1
      /\ mark \in [Object -> Colour] /\ Types
  BY DEF IInv, Types
<1>3. PICK x \in Object : x = Head(calls).object
  BY <1>1 DEF CallType
<1>4. /\ rest \in Seq(CallType) /\ Len(rest) = Len(calls)
      /\ \A k \in 1 .. Len(calls) : rest[k].object = calls[k].object /\ rest[k].left \subseteq calls[k].left
      /\ \A o, d : Left(calls, o, d) => Left(rest, o, d) \/ (o = x /\ d = <<c, t>>)
  <2>1. /\ rest \in Seq(CallType) /\ Len(rest) = Len(calls)
        /\ \A k \in 1 .. Len(calls) : rest[k].object = calls[k].object /\ rest[k].left \subseteq calls[k].left
        /\ \A o, d : Left(calls, o, d) => Left(rest, o, d) \/ (o = Head(calls).object /\ d = <<c, t>>)
    BY <1>2, RestOfCalls
  <2>. QED
    BY <2>1, <1>3
<1>5. UNCHANGED heap /\ black' = black /\ phase' = phase /\ position' = position
  OBVIOUS
<1>6. \A o : Edges(o)' = Edges(o)
  BY <1>5, SameHeap
<1>7. c \in Object /\ t \in Object
  BY <1>1, <1>2, <1>3, EdgesOf
<1>8. t \in Live
  <2>1. x \in Live /\ c \in Live
    BY <1>1, <1>3, <1>7 DEF IInv, Reached, Visited
  <2>. QED
    BY <2>1, <1>1, <1>2, <1>3, EdgeToLive
<1>9. Call(t) \in CallType /\ Call(t).object = t /\ Call(t).left = Edges(t)
  BY <1>2, <1>7, EdgesArePairs DEF Call, CallType
<1>10. /\ mark' \in [Object -> Colour] /\ mark'[t] # "white"
       /\ \A o \in Object : o # t => mark'[o] = mark[o]
       /\ mark[t] = "white"
  BY <1>2, <1>7 DEF Colour, Visited
<1>11. /\ calls' \in Seq(CallType) /\ Len(calls') <= MarkLimit + 1
       /\ Calling'
       /\ \A o, d : Left(rest, o, d) => Left(calls', o, d)
       /\ mark'[t] = "gray" \/ \A d \in Edges(t) : Left(calls', t, d)
  <2>1. \A k \in 1 .. Len(rest) : rest[k].object \in Object /\ mark[rest[k].object] = "black"
                                  /\ rest[k].left \subseteq Edges(rest[k].object)
    <3>1. \A k \in 1 .. Len(calls) : calls[k] \in CallType
      BY <1>2
    <3>. QED
      BY <3>1, <1>4 DEF IInv, Calling, CallType
  <2>2. \A k \in 1 .. Len(rest) : mark'[rest[k].object] = "black" /\ rest[k].left \subseteq Edges(rest[k].object)'
    BY <2>1, <1>6, <1>10
  <2>3. CASE mark' = [mark EXCEPT ![t] = "gray"] /\ calls' = rest
    <3>1. mark'[t] = "gray"
      BY <2>3, <1>2, <1>7
    <3>2. Calling'
      BY <2>2, <2>3 DEF Calling
    <3>. QED
      BY <3>1, <3>2, <2>3, <1>2, <1>4
  <2>4. CASE mark' = [mark EXCEPT ![t] = "black"] /\ calls' = <<Call(t)>> \o rest /\ ~(Len(calls) > MarkLimit)
    <3>1. /\ calls' \in Seq(CallType) /\ Len(calls') = Len(rest) + 1
          /\ \A k \in 1 .. Len(rest) + 1 : \/ k = 1 /\ calls'[k] = Call(t)
                                           \/ k - 1 \in 1 .. Len(rest) /\ calls'[k] = rest[k - 1]
          /\ \A o, d : Left(rest, o, d) => Left(calls', o, d)
          /\ \A d \in Edges(t) : Left(calls', t, d)
      BY <2>4, <1>4, <1>9, CallBegins
    <3>2. mark'[t] = "black"
      BY <2>4, <1>2, <1>7
    <3>3. Calling'
      <4>1. ASSUME NEW k \in 1 .. Len(calls')
            PROVE  mark'[calls'[k].object] = "black" /\ calls'[k].left \subseteq Edges(calls'[k].object)
        <5>1. k \in 1 .. Len(rest) + 1
          BY <3>1
        <5>2. CASE k = 1 /\ calls'[k] = Call(t)
          BY <5>2, <3>2, <1>9
        <5>3. CASE k - 1 \in 1 .. Len(rest) /\ calls'[k] = rest[k - 1]
          BY <5>3, <2>1, <2>2
        <5>. QED
          BY <5>1, <5>2, <5>3, <3>1
      <4>. QED
        BY <4>1, <1>6 DEF Calling
    <3>4. Len(calls') <= MarkLimit + 1
      <4>1. Len(calls) \in Nat /\ MarkLimit \in Nat
        BY <1>2, LimitAssumption
      <4>2. Len(calls) <= MarkLimit
        BY <4>1, <2>4
      <4>3. Len(calls') = Len(calls) + 1
        BY <3>1, <1>4
      <4>. QED
        BY <4>1, <4>2, <4>3
    <3>. QED
      BY <3>1, <3>3, <3>4
  <2>. QED
    BY <2>3, <2>4
<1>12. \A o \in Object : \A d : Pending(o, d) /\ o # t => Pending(o, d)' \/ (o = x /\ d = <<c, t>>)
  BY <1>4, <1>5, <1>10, <1>11 DEF Pending, ToCome
<1>13. \A d \in Edges(t) : Pending(t, d)'
  BY <1>11 DEF Pending
<1>14. ASSUME NEW o \in Object, NEW k \in Object, NEW v \in Object, <<k, v>> \in Edges(o)
       PROVE  Visited(v)' \/ Pending(o, <<k, v>>)' \/ Pending(k, <<o, v>>)'
  <2>1. Visited(v) \/ Pending(o, <<k, v>>) \/ Pending(k, <<o, v>>)
    BY <1>1, <1>14 DEF IInv, Marked
  <2>2. <<o, v>> \in Edges(k)
    BY <1>2, <1>14, EdgesMirrored DEF IInv
  <2>3. CASE v = t
    BY <2>3, <1>10 DEF Visited
  <2>4. CASE v # t
    <3>1. <<k, v>> # <<c, t>> /\ <<o, v>> # <<c, t>>
      BY <2>4
    <3>2. Visited(v) => Visited(v)'
      BY <2>4, <1>10 DEF Visited
    <3>3. Pending(o, <<k, v>>) => Pending(o, <<k, v>>)'
      BY <3>1, <1>12, <1>13, <1>14
    <3>4. Pending(k, <<o, v>>) => Pending(k, <<o, v>>)'
      BY <3>1, <2>2, <1>12, <1>13, <1>14
    <3>. QED
      BY <2>1, <3>2, <3>3, <3>4
  <2>. QED
    BY <2>3, <2>4
<1>15. Marked'
  BY <1>5, <1>6, <1>14 DEF Marked
<1>16. \A o \in Object : mark'[o] # mark[o] => mark[o] = "white" /\ o \in Live
  BY <1>8, <1>10
<1>. QED
  BY <1>10, <1>11, <1>15, <1>16, MarkingKeeps

\* One step of ecma_gc_mark.
LEMMA MarkNextStep ==
  ASSUME IInv, MarkNext
  PROVE  IInv'
<1>1. PICK e \in Head(calls).left :
         LET rest == <<[Head(calls) EXCEPT !.left = @ \ {e}]>> \o Tail(calls)
         IN IF Visited(e[1]) THEN SetVisited(e[2], rest)
            ELSE calls' = rest /\ UNCHANGED mark
  BY DEF MarkNext
<1>2. calls # <<>> /\ UNCHANGED <<heap, list, black, white, phase, position, again>>
  BY DEF MarkNext
<1>3. e \in Pair
  <2>1. Head(calls) \in CallType
    BY <1>2, LastCall
  <2>. QED
    BY <2>1 DEF CallType
<1>4. PICK c, t : e = <<c, t>> /\ c = e[1] /\ t = e[2]
  BY <1>3 DEF Pair
<1>5. PICK rest : rest = Rest(calls, <<c, t>>)
  OBVIOUS
<1>6. IF Visited(c) THEN SetVisited(t, rest) ELSE calls' = rest /\ UNCHANGED mark
  BY <1>1, <1>4, <1>5 DEF Rest
<1>7. CASE ~Visited(c) \/ Visited(t)
  <2>1. calls' = rest /\ mark' = mark
    BY <1>6, <1>7 DEF SetVisited
  <2>. QED
    BY <2>1, <1>2, <1>4, <1>5, <1>7, EdgePassed
<1>8. CASE Visited(c) /\ ~Visited(t)
  <2>1. \/ mark' = [mark EXCEPT ![t] = "gray"] /\ calls' = rest
        \/ /\ mark' = [mark EXCEPT ![t] = "black"] /\ calls' = <<Call(t)>> \o rest
           /\ ~(Len(calls) > MarkLimit)
    BY <1>6, <1>8 DEF SetVisited
  <2>. QED
    BY <2>1, <1>2, <1>4, <1>5, <1>8, EdgeVisits
<1>. QED
  BY <1>7, <1>8

\* ecma_gc_mark returns.
LEMMA MarkReturnsStep ==
  ASSUME IInv, MarkReturns
  PROVE  IInv'
<1>1. /\ calls # <<>> /\ Head(calls).left = {} /\ calls' = Tail(calls)
      /\ UNCHANGED <<heap, list, black, white, phase, position, again>> /\ mark' = mark
  BY DEF MarkReturns
<1>2. calls \in Seq(CallType) /\ Len(calls) <= MarkLimit + 1 /\ mark \in [Object -> Colour]
  BY DEF IInv, Types
<1>3. /\ calls' \in Seq(CallType) /\ Len(calls') = Len(calls) - 1
      /\ \A k \in 1 .. Len(calls) - 1 : k + 1 \in 1 .. Len(calls) /\ calls'[k] = calls[k + 1]
      /\ \A o, d : Left(calls, o, d) => Left(calls', o, d)
  BY <1>1, <1>2, CallReturns
<1>4. UNCHANGED heap /\ black' = black /\ phase' = phase /\ position' = position
  BY <1>1
<1>5. \A o : Edges(o)' = Edges(o)
  BY <1>4, SameHeap
<1>6. Calling'
  BY <1>1, <1>3, <1>5 DEF IInv, Calling
<1>7. \A o, d : Pending(o, d) => Pending(o, d)'
  BY <1>1, <1>3, <1>4 DEF Pending, ToCome
<1>8. Marked'
  BY <1>1, <1>4, <1>5, <1>7 DEF IInv, Marked, Visited
<1>9. Len(calls') <= MarkLimit + 1
  BY <1>2, <1>3, LimitAssumption
<1>. QED
  BY <1>1, <1>2, <1>3, <1>6, <1>8, <1>9, MarkingKeeps

-----------------------------------------------------------------------------
(* The loops of a collection.                                              *)

\* What such a step must not disturb, and what it keeps because the heap is the same.
LEMMA LoopKeeps ==
  ASSUME IInv, UNCHANGED heap, phase # "sweep",
         Types', Apart', Phases', Colours', Reached', Calling', Marked', Passed', ExactlyGarbage',
         \A o \in Object : kind[o] = "free" => mark'[o] = mark[o]
  PROVE  IInv'
<1>1. kind' = kind /\ refs' = refs /\ strong' = strong /\ entries' = entries /\ target' = target /\ weak' = weak
  BY DEF heap
<1>2. Allocated' = Allocated /\ WeakMirror'
  BY SameHeap DEF IInv
<1>3. Sorts'
  BY <1>1 DEF IInv, Sorts
<1>4. NoDangling'
  BY <1>1, <1>2 DEF IInv, NoDangling
<1>. QED
  BY <1>2, <1>3, <1>4 DEF IInv

\* A collection begins.
LEMMA StartGcStep ==
  ASSUME IInv, StartGc
  PROVE  IInv'
<1>1. /\ UNCHANGED heap /\ list' = list /\ black' = black /\ white' = white /\ mark' = mark
      /\ calls' = calls /\ position' = position /\ again' = again /\ phase = "idle" /\ phase' = "roots"
  BY DEF StartGc
<1>2. kind' = kind /\ refs' = refs /\ strong' = strong /\ entries' = entries /\ target' = target /\ weak' = weak
  BY <1>1 DEF heap
<1>3. black = <<>> /\ white = <<>> /\ calls = <<>>
  BY <1>1 DEF IInv, Phases
<1>4. Types'
  BY <1>1, <1>2 DEF IInv, Types
<1>5. Apart'
  BY <1>1, SameHeap DEF IInv, Apart
<1>6. Phases'
  BY <1>1, <1>3 DEF Phases
<1>7. Colours'
  BY <1>1, <1>2, <1>3, EmptyList DEF IInv, Colours
<1>8. Reached' /\ Calling' /\ Marked' /\ Passed'
  <2>1. phase' \notin {"mark", "scan"} /\ calls' = <<>>
    BY <1>1, <1>3
  <2>. QED
    BY <2>1 DEF Reached, Calling, Marked, Passed
<1>9. ExactlyGarbage'
  BY <1>1 DEF ExactlyGarbage
<1>. QED
  BY <1>1, <1>4, <1>5, <1>6, <1>7, <1>8, <1>9, LoopKeeps

\* The first loop takes an object.
LEMMA TakeObjectStep ==
  ASSUME IInv, TakeObject
  PROVE  IInv'
<1>1. /\ UNCHANGED heap /\ calls' = calls /\ position' = position /\ again' = again
      /\ phase = "roots" /\ phase' = "roots" /\ list # <<>> /\ list' = Tail(list)
  BY DEF TakeObject
<1>2. PICK o : o = Head(list)
  OBVIOUS
<1>3. \/ refs[o] /\ black' = Append(black, o) /\ white' = white /\ mark' = mark
      \/ ~refs[o] /\ white' = Append(white, o) /\ mark' = [mark EXCEPT ![o] = "white"] /\ black' = black
  BY <1>2 DEF TakeObject
<1>4. kind' = kind /\ refs' = refs /\ strong' = strong /\ entries' = entries /\ target' = target /\ weak' = weak
  BY <1>1 DEF heap
<1>5. /\ list \in Seq(Object) /\ black \in Seq(Object) /\ white \in Seq(Object)
      /\ mark \in [Object -> Colour] /\ calls = <<>>
  BY <1>1 DEF IInv, Types, Phases
<1>6. /\ o \in Object /\ o \in ToSet(list) /\ list' \in Seq(Object)
      /\ ToSet(list) = ToSet(list') \cup {o}
      /\ IsInjective(list') /\ o \notin ToSet(list')
  BY <1>1, <1>2, <1>5, TailList DEF IInv, Apart
<1>7. o \notin ToSet(black) /\ o \notin ToSet(white)
  BY <1>6 DEF IInv, Apart
<1>8. mark[o] = "black"
  BY <1>6 DEF IInv, Colours
<1>9. Allocated' = Allocated
  BY <1>1, SameHeap
<1>10. Phases'
  BY <1>1, <1>5 DEF Phases
<1>11. Reached' /\ Calling' /\ Marked' /\ Passed'
  <2>1. phase' \notin {"mark", "scan"} /\ calls' = <<>>
    BY <1>1, <1>5
  <2>. QED
    BY <2>1 DEF Reached, Calling, Marked, Passed
<1>12. ExactlyGarbage'
  BY <1>1 DEF ExactlyGarbage
<1>13. kind[o] # "free"
  BY <1>6 DEF IInv, Apart, Allocated
<1>14. CASE refs[o] /\ black' = Append(black, o) /\ white' = white /\ mark' = mark
  <2>1. /\ black' \in Seq(Object) /\ ToSet(black') = ToSet(black) \cup {o}
        /\ IsInjective(black')
    BY <1>14, <1>5, <1>6, <1>7, AppendList DEF IInv, Apart
  <2>2. Types'
    BY <2>1, <1>1, <1>4, <1>6, <1>14 DEF IInv, Types
  <2>3. Apart'
    BY <2>1, <1>6, <1>7, <1>9, <1>14 DEF IInv, Apart
  <2>4. Colours'
    BY <2>1, <1>1, <1>4, <1>6, <1>8, <1>14 DEF IInv, Colours
  <2>. QED
    BY <2>2, <2>3, <2>4, <1>1, <1>10, <1>11, <1>12, <1>14, LoopKeeps
<1>15. CASE ~refs[o] /\ white' = Append(white, o) /\ mark' = [mark EXCEPT ![o] = "white"] /\ black' = black
  <2>1. /\ white' \in Seq(Object) /\ ToSet(white') = ToSet(white) \cup {o}
        /\ IsInjective(white')
    BY <1>15, <1>5, <1>6, <1>7, AppendList DEF IInv, Apart
  <2>2. mark' \in [Object -> Colour] /\ mark'[o] = "white" /\ \A p \in Object : p # o => mark'[p] = mark[p]
    BY <1>15, <1>5, <1>6 DEF Colour
  <2>3. Types'
    BY <2>1, <2>2, <1>1, <1>4, <1>6, <1>15 DEF IInv, Types
  <2>4. Apart'
    BY <2>1, <1>6, <1>7, <1>9, <1>15 DEF IInv, Apart
  <2>5. \A p \in ToSet(list) \cup ToSet(black) \cup ToSet(white) : p \in Object
    BY DEF IInv, Apart, Allocated
  <2>6. Colours'
    BY <2>1, <2>2, <2>5, <1>1, <1>4, <1>6, <1>7, <1>15 DEF IInv, Colours
  <2>7. \A p \in Object : kind[p] = "free" => mark'[p] = mark[p]
    BY <2>2, <1>13
  <2>. QED
    BY <2>3, <2>4, <2>6, <2>7, <1>1, <1>10, <1>11, <1>12, LoopKeeps
<1>. QED
  BY <1>3, <1>14, <1>15

\* An object of a list.
LEMMA ListPlace ==
  ASSUME NEW S, NEW s \in Seq(S)
  PROVE  /\ DOMAIN s = 1 .. Len(s) /\ Len(s) \in Nat
         /\ \A o : o \in ToSet(s) <=> \E i \in 1 .. Len(s) : s[i] = o
  BY DEF ToSet

\* Marking begins: the roots are on the black list, and all edges are still to come.
LEMMA RootsTakenStep ==
  ASSUME IInv, RootsTaken
  PROVE  IInv'
<1>1. /\ UNCHANGED heap /\ list' = list /\ black' = black /\ white' = white /\ mark' = mark
      /\ calls' = calls /\ again' = again
      /\ phase = "roots" /\ phase' = "mark" /\ position' = 1 /\ list = <<>>
  BY DEF RootsTaken
<1>2. kind' = kind /\ refs' = refs /\ strong' = strong /\ entries' = entries /\ target' = target /\ weak' = weak
  BY <1>1 DEF heap
<1>3. black \in Seq(Object) /\ calls = <<>> /\ Types
  BY <1>1 DEF IInv, Types, Phases
<1>4. Len(black) \in Nat /\ \A o : o \in ToSet(black) <=> \E i \in 1 .. Len(black) : black[i] = o
  BY <1>3, ListPlace
<1>5. Types'
  BY <1>1, <1>2 DEF IInv, Types
<1>6. Apart'
  BY <1>1, SameHeap DEF IInv, Apart
<1>7. Phases'
  BY <1>1, <1>3, <1>4 DEF Phases
<1>8. Colours'
  BY <1>1, <1>2 DEF IInv, Colours
<1>9. \A o \in Object : mark[o] # "white" => o \in ToSet(black)
  <2>1. \A o \in Object : kind[o] = "free" => mark[o] = "white"
    BY DEF IInv, Sorts
  <2>2. \A o \in Object : kind[o] # "free" => o \in ToSet(black) \cup ToSet(white)
    BY <1>1, EmptyList DEF IInv, Apart, Allocated
  <2>3. \A o \in ToSet(white) : mark[o] = "white"
    BY <1>1 DEF IInv, Colours
  <2>. QED
    BY <2>1, <2>2, <2>3
<1>10. Reached'
  <2>1. \A o \in Object : mark[o] # "white" => o \in Live
    BY <1>1, <1>3, <1>9, LiveIsLeast DEF IInv, Colours
  <2>2. Live' = Live
    BY <1>1, SameHeap
  <2>. QED
    BY <2>1, <2>2, <1>1 DEF Reached, Visited
<1>11. Calling'
  BY <1>1, <1>3 DEF Calling
<1>12. Marked'
  <2>1. \A o \in Object : \A d : Pending(o, d)'
    BY <1>1, <1>4, <1>9 DEF Pending, ToCome
  <2>. QED
    BY <2>1 DEF Marked
<1>13. Passed' /\ ExactlyGarbage'
  BY <1>1 DEF Passed, ExactlyGarbage
<1>. QED
  BY <1>1, <1>5, <1>6, <1>7, <1>8, <1>10, <1>11, <1>12, <1>13, LoopKeeps

\* A root is marked.
LEMMA MarkRootStep ==
  ASSUME IInv, MarkRoot
  PROVE  IInv'
<1>1. /\ UNCHANGED heap /\ list' = list /\ black' = black /\ white' = white /\ mark' = mark /\ again' = again
      /\ phase = "mark" /\ phase' = "mark" /\ calls = <<>> /\ position \in DOMAIN black
      /\ calls' = <<Call(black[position])>> /\ position' = position + 1
  BY DEF MarkRoot
<1>2. kind' = kind /\ refs' = refs /\ strong' = strong /\ entries' = entries /\ target' = target /\ weak' = weak
  BY <1>1 DEF heap
<1>3. black \in Seq(Object) /\ Types
  BY DEF IInv, Types
<1>4. position \in 1 .. Len(black) /\ Len(black) \in Nat
  BY <1>1, <1>3, ListPlace
<1>5. PICK o \in Object : o = black[position]
  BY <1>3, <1>4
<1>6. Call(o) \in CallType /\ Call(o).object = o /\ Call(o).left = Edges(o)
  BY <1>3, EdgesArePairs DEF Call, CallType
<1>7. /\ calls' \in Seq(CallType) /\ Len(calls') = 1 /\ calls'[1] = Call(o)
  BY <1>1, <1>5, <1>6
<1>8. \A p : Edges(p)' = Edges(p)
  BY <1>1, SameHeap
<1>9. Types'
  <2>1. Len(calls') <= MarkLimit + 1
    BY <1>7, LimitAssumption
  <2>2. position' \in Nat
    BY <1>1, <1>4
  <2>. QED
    BY <2>1, <2>2, <1>1, <1>2, <1>7 DEF IInv, Types
<1>10. Apart'
  BY <1>1, SameHeap DEF IInv, Apart
<1>11. Phases'
  <2>1. position + 1 \in 1 .. Len(black) + 1
    BY <1>4
  <2>. QED
    BY <2>1, <1>1 DEF IInv, Phases
<1>12. Colours'
  BY <1>1, <1>2 DEF IInv, Colours
<1>13. Reached'
  BY <1>1, SameHeap DEF IInv, Reached, Visited
<1>14. Calling'
  <2>1. mark[o] = "black"
    <3>1. o \in ToSet(black)
      BY <1>3, <1>4, <1>5, ListPlace
    <3>. QED
      BY <3>1 DEF IInv, Colours
  <2>2. \A k \in 1 .. Len(calls') : k = 1
    BY <1>7
  <2>. QED
    BY <2>1, <2>2, <1>1, <1>6, <1>7, <1>8 DEF Calling
<1>15. Marked'
  <2>1. ASSUME NEW p \in Object, NEW d \in Edges(p), Pending(p, d)
        PROVE  Pending(p, d)'
    <3>1. CASE mark[p] # "black"
      BY <3>1, <1>1 DEF Pending
    <3>2. CASE p = o
      <4>1. 1 \in 1 .. Len(calls') /\ calls'[1].object = p /\ d \in calls'[1].left
        BY <3>2, <2>1, <1>6, <1>7
      <4>2. Left(calls', p, d)
        BY <4>1 DEF Left
      <4>. QED
        BY <4>2 DEF Pending
    <3>3. CASE mark[p] = "black" /\ p # o
      <4>1. \E i \in position .. Len(black) : black[i] = p
        <5>1. ~Left(calls, p, d)
          BY <1>1 DEF Left
        <5>. QED
          BY <5>1, <3>3, <2>1 DEF Pending, ToCome
      <4>2. PICK i \in position .. Len(black) : black[i] = p
        BY <4>1
      <4>3. i # position
        BY <4>2, <3>3, <1>5
      <4>4. i \in position + 1 .. Len(black)
        BY <4>3, <1>4
      <4>5. ToCome(p)'
        BY <4>2, <4>4, <1>1 DEF ToCome
      <4>. QED
        BY <4>5 DEF Pending
    <3>. QED
      BY <3>1, <3>2, <3>3
  <2>2. ASSUME NEW p \in Object, NEW c \in Object, NEW t \in Object, <<c, t>> \in Edges(p)
        PROVE  Visited(t) \/ Pending(p, <<c, t>>)' \/ Pending(c, <<p, t>>)'
    <3>1. <<p, t>> \in Edges(c)
      BY <2>2, <1>3, EdgesMirrored DEF IInv
    <3>2. Visited(t) \/ Pending(p, <<c, t>>) \/ Pending(c, <<p, t>>)
      BY <2>2, <1>1 DEF IInv, Marked
    <3>. QED
      BY <2>1, <2>2, <3>1, <3>2
  <2>. QED
    BY <2>2, <1>1, <1>8 DEF Marked, Visited
<1>16. Passed' /\ ExactlyGarbage'
  BY <1>1 DEF Passed, ExactlyGarbage
<1>. QED
  BY <1>1, <1>9, <1>10, <1>11, <1>12, <1>13, <1>14, <1>15, <1>16, LoopKeeps

\* Edges stay marked or still to be marked.
LEMMA MarkedKeeps ==
  ASSUME IInv, UNCHANGED heap, phase \in {"mark", "scan"},
         \A o \in Object : mark[o] # "white" => mark'[o] # "white",
         \A o \in Object : \A d \in Edges(o) : Pending(o, d) => Pending(o, d)'
  PROVE  Marked'
<1>1. \A o : Edges(o)' = Edges(o)
  BY SameHeap
<1>2. Types /\ WeakMirror
  BY DEF IInv
<1>3. ASSUME NEW o \in Object, NEW c \in Object, NEW t \in Object, <<c, t>> \in Edges(o)
      PROVE  mark'[t] # "white" \/ Pending(o, <<c, t>>)' \/ Pending(c, <<o, t>>)'
  <2>1. <<o, t>> \in Edges(c)
    BY <1>2, <1>3, EdgesMirrored
  <2>2. Visited(t) \/ Pending(o, <<c, t>>) \/ Pending(c, <<o, t>>)
    BY <1>3 DEF IInv, Marked
  <2>. QED
    BY <1>3, <2>1, <2>2 DEF Visited
<1>. QED
  BY <1>1, <1>3 DEF Marked, Visited

\* The roots are marked: what is left gray is on the white list.
LEMMA RootsMarkedStep ==
  ASSUME IInv, RootsMarked
  PROVE  IInv'
<1>1. /\ UNCHANGED heap /\ list' = list /\ black' = black /\ white' = white /\ mark' = mark /\ calls' = calls
      /\ phase = "mark" /\ phase' = "scan" /\ calls = <<>> /\ position \notin DOMAIN black
      /\ position' = 1 /\ again' = FALSE
  BY DEF RootsMarked
<1>2. kind' = kind /\ refs' = refs /\ strong' = strong /\ entries' = entries /\ target' = target /\ weak' = weak
  BY <1>1 DEF heap
<1>3. black \in Seq(Object) /\ white \in Seq(Object)
  BY DEF IInv, Types
<1>4. DOMAIN black = 1 .. Len(black) /\ Len(black) \in Nat /\ Len(white) \in Nat
  BY <1>3
<1>5. position \in 1 .. Len(black) + 1
  BY <1>1 DEF IInv, Phases
<1>6. ~\E j \in position .. Len(black) : TRUE
  BY <1>1, <1>4, <1>5
<1>7. Types'
  BY <1>1, <1>2 DEF IInv, Types
<1>8. Apart'
  BY <1>1, SameHeap DEF IInv, Apart
<1>9. Phases'
  <2>1. 1 \in 1 .. Len(white) + 1
    BY <1>4
  <2>. QED
    BY <2>1, <1>1 DEF IInv, Phases
<1>10. Colours'
  BY <1>1, <1>2 DEF IInv, Colours
<1>11. Reached'
  BY <1>1, SameHeap DEF IInv, Reached, Visited
<1>12. Calling'
  BY <1>1 DEF Calling
<1>13. Marked'
  <2>1. \A o : \A d : Pending(o, d) => Pending(o, d)'
    BY <1>1, <1>6 DEF Pending, ToCome
  <2>. QED
    BY <2>1, <1>1, MarkedKeeps
<1>14. Passed' /\ ExactlyGarbage'
  BY <1>1 DEF Passed, ExactlyGarbage
<1>. QED
  BY <1>1, <1>7, <1>8, <1>9, <1>10, <1>11, <1>12, <1>13, <1>14, LoopKeeps

\* The iteration passes a white object.
LEMMA ScanWhiteStep ==
  ASSUME IInv, ScanWhite
  PROVE  IInv'
<1>1. /\ UNCHANGED heap /\ list' = list /\ black' = black /\ white' = white /\ mark' = mark /\ calls' = calls
      /\ phase = "scan" /\ phase' = "scan" /\ calls = <<>> /\ again' = again
      /\ position \in DOMAIN white /\ ~Visited(white[position]) /\ position' = position + 1
  BY DEF ScanWhite, Scanning
<1>2. kind' = kind /\ refs' = refs /\ strong' = strong /\ entries' = entries /\ target' = target /\ weak' = weak
  BY <1>1 DEF heap
<1>3. white \in Seq(Object)
  BY DEF IInv, Types
<1>4. position \in 1 .. Len(white) /\ Len(white) \in Nat /\ position \in Nat
  BY <1>1, <1>3
<1>5. position + 1 \in 1 .. Len(white) + 1 /\ position + 1 \in Nat
  BY <1>4
<1>6. Types'
  BY <1>1, <1>2, <1>5 DEF IInv, Types
<1>7. Apart'
  BY <1>1, SameHeap DEF IInv, Apart
<1>8. Phases'
  BY <1>1, <1>5 DEF IInv, Phases
<1>9. Colours'
  BY <1>1, <1>2 DEF IInv, Colours
<1>10. Reached'
  BY <1>1, SameHeap DEF IInv, Reached, Visited
<1>11. Calling'
  BY <1>1 DEF Calling
<1>12. Marked'
  <2>1. \A o : \A d : Pending(o, d) => Pending(o, d)'
    BY <1>1 DEF Pending, ToCome
  <2>. QED
    BY <2>1, <1>1, MarkedKeeps
<1>13. Passed'
  <2>1. ASSUME ~again, NEW n \in 1 .. (position + 1) - 1 PROVE mark[white[n]] = "white"
    <3>1. n \in 1 .. position - 1 \/ n = position
      BY <2>1, <1>4
    <3>2. n \in 1 .. position - 1 => mark[white[n]] = "white"
      BY <2>1, <1>1 DEF IInv, Passed
    <3>. QED
      BY <3>1, <3>2, <1>1 DEF Visited
  <2>. QED
    BY <2>1, <1>1 DEF Passed
<1>14. ExactlyGarbage'
  BY <1>1 DEF ExactlyGarbage
<1>. QED
  BY <1>1, <1>6, <1>7, <1>8, <1>9, <1>10, <1>11, <1>12, <1>13, <1>14, LoopKeeps

\* The iteration takes a visited object out of the white list; if it is gray it is marked.
LEMMA ScanVisitedStep ==
  ASSUME IInv, ScanVisited
  PROVE  IInv'
<1>1. /\ UNCHANGED heap /\ list' = list /\ phase = "scan" /\ phase' = "scan" /\ calls = <<>>
      /\ position' = position /\ position \in DOMAIN white
  BY DEF ScanVisited, Scanning
<1>2. kind' = kind /\ refs' = refs /\ strong' = strong /\ entries' = entries /\ target' = target /\ weak' = weak
  BY <1>1 DEF heap
<1>3. /\ Types /\ black \in Seq(Object) /\ white \in Seq(Object) /\ mark \in [Object -> Colour]
      /\ position \in Nat
  BY DEF IInv, Types
<1>4. position \in 1 .. Len(white) /\ Len(white) \in Nat
  BY <1>1, <1>3
<1>5. PICK o \in Object : o = white[position]
  BY <1>3, <1>4
<1>6. black' = Append(black, o) /\ white' = RemoveAt(white, position) /\ Visited(o) /\ MarkGray(o)
  BY <1>5 DEF ScanVisited
<1>7. o \in ToSet(white)
  BY <1>3, <1>4, <1>5, ListPlace
<1>8. o \notin ToSet(list) /\ o \notin ToSet(black) /\ o \in Allocated
  BY <1>7 DEF IInv, Apart
<1>9. /\ black' \in Seq(Object) /\ ToSet(black') = ToSet(black) \cup {o} /\ IsInjective(black')
  BY <1>3, <1>6, <1>8, AppendList DEF IInv, Apart
<1>10. /\ white' \in Seq(Object) /\ Len(white') = Len(white) - 1
       /\ \A n \in 1 .. position - 1 : white'[n] = white[n]
       /\ ToSet(white) = ToSet(white') \cup {o}
       /\ IsInjective(white') /\ o \notin ToSet(white')
  <2>1. IsInjective(white)
    BY DEF IInv, Apart
  <2>2. PICK p \in 1 .. Len(white) : p = position
    BY <1>4
  <2>3. /\ RemoveAt(white, p) \in Seq(Object) /\ Len(RemoveAt(white, p)) = Len(white) - 1
        /\ \A n \in 1 .. p - 1 : RemoveAt(white, p)[n] = white[n]
        /\ ToSet(white) = ToSet(RemoveAt(white, p)) \cup {white[p]}
        /\ IsInjective(RemoveAt(white, p)) /\ white[p] \notin ToSet(RemoveAt(white, p))
    BY <2>1, <1>3, RemoveList
  <2>4. white' = RemoveAt(white, p) /\ o = white[p] /\ p = position
    BY <2>2, <1>5, <1>6
  <2>. QED
    BY <2>3, <2>4
<1>11. Call(o) \in CallType /\ Call(o).object = o /\ Call(o).left = Edges(o)
  BY <1>3, EdgesArePairs DEF Call, CallType
<1>12. \/ mark' = mark /\ calls' = <<>> /\ again' = again /\ mark[o] = "black"
       \/ mark' = [mark EXCEPT ![o] = "black"] /\ calls' = <<Call(o)>> /\ again' = TRUE
  BY <1>1, <1>3, <1>6 DEF MarkGray, Visited, Colour
<1>13. /\ mark' \in [Object -> Colour] /\ mark'[o] = "black"
       /\ \A p \in Object : p # o => mark'[p] = mark[p]
  BY <1>3, <1>12 DEF Colour
<1>14. calls' \in Seq(CallType) /\ Len(calls') <= MarkLimit + 1 /\ again' \in BOOLEAN
  <2>1. again \in BOOLEAN /\ MarkLimit \in Nat
    BY LimitAssumption DEF IInv, Types
  <2>2. <<>> \in Seq(CallType) /\ Len(<<>>) = 0 /\ <<Call(o)>> \in Seq(CallType) /\ Len(<<Call(o)>>) = 1
    BY <1>11
  <2>3. 0 <= MarkLimit + 1 /\ 1 <= MarkLimit + 1
    BY <2>1
  <2>. QED
    BY <2>1, <2>2, <2>3, <1>12
<1>15. \A p : Edges(p)' = Edges(p)
  BY <1>1, SameHeap
<1>16. Types'
  BY <1>1, <1>2, <1>9, <1>10, <1>13, <1>14 DEF IInv, Types
<1>17. Apart'
  <2>1. Allocated' = Allocated
    BY <1>1, SameHeap
  <2>. QED
    BY <2>1, <1>1, <1>8, <1>9, <1>10 DEF IInv, Apart
<1>18. Phases'
  <2>1. position \in 1 .. Len(white') + 1
    BY <1>4, <1>10
  <2>. QED
    BY <2>1, <1>1 DEF IInv, Phases
<1>19. Colours'
  <2>1. \A p \in ToSet(list) \cup ToSet(black) : p \in Object
    BY DEF IInv, Apart, Allocated
  <2>. QED
    BY <2>1, <1>1, <1>2, <1>9, <1>10, <1>13 DEF IInv, Colours
<1>20. Reached'
  <2>1. Live' = Live
    BY <1>1, SameHeap
  <2>. QED
    BY <2>1, <1>1, <1>6, <1>13 DEF IInv, Reached, Visited
<1>21. Calling'
  <2>1. CASE calls' = <<>>
    BY <2>1 DEF Calling
  <2>2. CASE calls' = <<Call(o)>>
    <3>1. Len(calls') = 1 /\ calls'[1] = Call(o)
      BY <2>2
    <3>2. \A k \in 1 .. Len(calls') : k = 1
      BY <3>1
    <3>. QED
      BY <3>1, <3>2, <1>11, <1>13, <1>15 DEF Calling
  <2>. QED
    BY <2>1, <2>2, <1>12
<1>22. Marked'
  <2>1. ASSUME NEW p \in Object, NEW d \in Edges(p), Pending(p, d) PROVE Pending(p, d)'
    <3>1. mark[p] # "black"
      <4>1. ~ToCome(p) /\ ~Left(calls, p, d)
        BY <1>1 DEF ToCome, Left
      <4>. QED
        BY <4>1, <2>1 DEF Pending
    <3>2. CASE p # o
      BY <3>1, <3>2, <1>13 DEF Pending
    <3>3. CASE p = o
      <4>1. Len(calls') = 1 /\ calls'[1] = Call(o)
        BY <3>1, <3>3, <1>12
      <4>2. 1 \in 1 .. Len(calls') /\ calls'[1].object = p /\ d \in calls'[1].left
        BY <4>1, <3>3, <2>1, <1>11
      <4>3. Left(calls', p, d)
        BY <4>2 DEF Left
      <4>. QED
        BY <4>3 DEF Pending
    <3>. QED
      BY <3>2, <3>3
  <2>2. \A p \in Object : mark[p] # "white" => mark'[p] # "white"
    BY <1>13
  <2>. QED
    BY <2>1, <2>2, <1>1, MarkedKeeps
<1>23. Passed'
  <2>1. ASSUME ~again' PROVE calls' = <<>> /\ mark' = mark /\ ~again
    BY <2>1, <1>12
  <2>2. ASSUME ~again', NEW n \in 1 .. position - 1 PROVE mark'[white'[n]] = "white"
    BY <2>1, <2>2, <1>1, <1>10 DEF IInv, Passed
  <2>. QED
    BY <2>1, <2>2, <1>1 DEF Passed
<1>24. ExactlyGarbage'
  BY <1>1 DEF ExactlyGarbage
<1>25. \A p \in Object : kind[p] = "free" => mark'[p] = mark[p]
  BY <1>8, <1>13 DEF Allocated
<1>. QED
  BY <1>1, <1>16, <1>17, <1>18, <1>19, <1>20, <1>21, <1>22, <1>23, <1>24, <1>25, LoopKeeps

\* Another pass begins.
LEMMA ScanAgainStep ==
  ASSUME IInv, ScanAgain
  PROVE  IInv'
<1>1. /\ UNCHANGED heap /\ list' = list /\ black' = black /\ white' = white /\ mark' = mark /\ calls' = calls
      /\ phase = "scan" /\ phase' = "scan" /\ calls = <<>> /\ again' = FALSE /\ position' = 1
  BY DEF ScanAgain, Scanning
<1>2. kind' = kind /\ refs' = refs /\ strong' = strong /\ entries' = entries /\ target' = target /\ weak' = weak
  BY <1>1 DEF heap
<1>3. Len(white) \in Nat
  BY DEF IInv, Types
<1>4. Types'
  BY <1>1, <1>2 DEF IInv, Types
<1>5. Apart'
  BY <1>1, SameHeap DEF IInv, Apart
<1>6. Phases'
  <2>1. 1 \in 1 .. Len(white) + 1
    BY <1>3
  <2>. QED
    BY <2>1, <1>1 DEF IInv, Phases
<1>7. Colours'
  BY <1>1, <1>2 DEF IInv, Colours
<1>8. Reached'
  BY <1>1, SameHeap DEF IInv, Reached, Visited
<1>9. Calling'
  BY <1>1 DEF Calling
<1>10. Marked'
  <2>1. \A o : \A d : Pending(o, d) => Pending(o, d)'
    BY <1>1 DEF Pending, ToCome
  <2>. QED
    BY <2>1, <1>1, MarkedKeeps
<1>11. Passed' /\ ExactlyGarbage'
  BY <1>1 DEF Passed, ExactlyGarbage
<1>. QED
  BY <1>1, <1>4, <1>5, <1>6, <1>7, <1>8, <1>9, <1>10, <1>11, LoopKeeps

\* The sweep begins: the black list has exactly the live objects.
LEMMA StartSweepStep ==
  ASSUME IInv, StartSweep
  PROVE  IInv'
<1>1. /\ UNCHANGED heap /\ list' = black /\ black' = <<>> /\ white' = white /\ mark' = mark /\ calls' = calls
      /\ phase = "scan" /\ phase' = "sweep" /\ calls = <<>> /\ ~again /\ again' = again
      /\ position \notin DOMAIN white /\ position' = position
  BY DEF StartSweep, Scanning
<1>2. kind' = kind /\ refs' = refs /\ strong' = strong /\ entries' = entries /\ target' = target /\ weak' = weak
  BY <1>1 DEF heap
<1>3. Types /\ white \in Seq(Object) /\ list = <<>>
  BY <1>1 DEF IInv, Types, Phases
<1>4. \A o \in ToSet(white) : mark[o] = "white"
  <2>1. Len(white) \in Nat /\ DOMAIN white = 1 .. Len(white)
    BY <1>3
  <2>2. position \in 1 .. Len(white) + 1
    BY <1>1 DEF IInv, Phases
  <2>3. \A n \in 1 .. Len(white) : n \in 1 .. position - 1
    BY <1>1, <2>1, <2>2
  <2>4. \A n \in 1 .. Len(white) : mark[white[n]] = "white"
    BY <2>3, <1>1 DEF IInv, Passed
  <2>. QED
    BY <2>4, <1>3, ListPlace
<1>5. ToSet(black) \cup ToSet(white) = Allocated
  BY <1>3, EmptyList DEF IInv, Apart
<1>6. ToSet(black) \subseteq Object
  BY <1>5 DEF Allocated
<1>7. \A o \in Object : mark[o] # "white" => o \in ToSet(black)
  <2>1. \A o \in Object : mark[o] # "white" => o \in Allocated
    BY DEF IInv, Sorts, Allocated
  <2>. QED
    BY <2>1, <1>4, <1>5
<1>8. ASSUME NEW o \in ToSet(black) PROVE \A d : ~Pending(o, d)
  <2>1. mark[o] = "black"
    BY DEF IInv, Colours
  <2>2. ~ToCome(o) /\ \A d : ~Left(calls, o, d)
    BY <1>1 DEF ToCome, Left
  <2>. QED
    BY <2>1, <2>2 DEF Pending
<1>9. ToSet(black) \subseteq Live
  <2>1. \A o \in ToSet(black) : Visited(o)
    BY DEF IInv, Colours, Visited
  <2>. QED
    BY <2>1, <1>1, <1>6 DEF IInv, Reached
<1>10. \A o \in Object : refs[o] => o \in ToSet(black)
  <2>1. \A o \in Object : refs[o] => o \in Allocated
    BY DEF IInv, Sorts, Allocated
  <2>2. \A o \in ToSet(white) : ~refs[o]
    BY DEF IInv, Colours
  <2>. QED
    BY <2>1, <2>2, <1>5
<1>11. ASSUME NEW p \in LedTo(ToSet(black)) PROVE p \in ToSet(black)
  <2>1. /\ p \in Object
        /\ \E o \in ToSet(black) : p \in strong[o] \/ \E k \in ToSet(black) : <<k, p>> \in entries[o]
    BY <1>11 DEF LedTo
  <2>2. PICK o \in ToSet(black), k \in ToSet(black) : (k = o /\ p \in strong[o]) \/ <<k, p>> \in entries[o]
    BY <2>1
  <2>3. <<k, p>> \in Edges(o) /\ o \in Object /\ k \in Object
    BY <2>1, <2>2, <1>3, <1>6, EdgesOf
  <2>4. Visited(p) \/ Pending(o, <<k, p>>) \/ Pending(k, <<o, p>>)
    BY <2>1, <2>3, <1>1 DEF IInv, Marked
  <2>5. Visited(p)
    BY <2>4, <1>8
  <2>. QED
    BY <2>1, <2>5, <1>7 DEF Visited
<1>12. ToSet(black) = Live
  <2>1. Live \subseteq ToSet(black)
    BY <1>6, <1>10, <1>11, LiveIsLeast
  <2>. QED
    BY <2>1, <1>9
<1>13. Types'
  BY <1>1, <1>2 DEF IInv, Types
<1>14. Apart'
  <2>1. Allocated' = Allocated
    BY <1>1, SameHeap
  <2>. QED
    BY <2>1, <1>1, <1>3, EmptyList DEF IInv, Apart
<1>15. Phases'
  BY <1>1 DEF IInv, Phases
<1>16. Colours'
  BY <1>1, <1>2, <1>4, EmptyList DEF IInv, Colours
<1>17. Reached' /\ Calling' /\ Marked' /\ Passed'
  BY <1>1 DEF Reached, Calling, Marked, Passed
<1>18. ExactlyGarbage'
  <2>1. Live' = Live
    BY <1>1, SameHeap
  <2>. QED
    BY <2>1, <1>1, <1>12 DEF ExactlyGarbage
<1>. QED
  BY <1>1, <1>13, <1>14, <1>15, <1>16, <1>17, <1>18, LoopKeeps

\* The collection ends: what is left are the live objects, which lead to live ones only.
LEMMA GcEndsStep ==
  ASSUME IInv, GcEnds
  PROVE  IInv'
<1>1. /\ UNCHANGED heap /\ list' = list /\ black' = black /\ white' = white /\ mark' = mark /\ calls' = calls
      /\ phase = "sweep" /\ phase' = "idle" /\ white = <<>> /\ position' = position /\ again' = again
  BY DEF GcEnds
<1>2. kind' = kind /\ refs' = refs /\ strong' = strong /\ entries' = entries /\ target' = target /\ weak' = weak
  BY <1>1 DEF heap
<1>3. black = <<>> /\ calls = <<>> /\ Types
  BY <1>1 DEF IInv, Phases
<1>4. Allocated' = Allocated
  BY <1>1, SameHeap
<1>5. Allocated = Live
  BY <1>1, <1>3, EmptyList DEF IInv, Apart, ExactlyGarbage
<1>6. LedTo(Live) \subseteq Live
  BY LiveIsLeast
<1>7. NoDangling'
  <2>1. ASSUME NEW o \in Object, o \notin Allocated PROVE strong[o] = {} /\ entries[o] = {}
    BY <2>1 DEF IInv, Sorts, Allocated
  <2>2. ASSUME NEW o \in Allocated PROVE strong[o] \subseteq Allocated
    <3>1. strong[o] \subseteq Object
      BY <1>3 DEF Types, Allocated
    <3>. QED
      BY <3>1, <1>5, <1>6 DEF LedTo
  <2>3. ASSUME NEW o \in Allocated, NEW e \in entries[o] PROVE e[2] \in Allocated \cup {None}
    <3>1. o \in Object
      BY DEF Allocated
    <3>2. e \in Object \X (Object \cup {None})
      BY <3>1, <2>3, <1>3 DEF Types
    <3>3. e[1] \in Object /\ e[2] \in Object \cup {None} /\ <<e[1], e[2]>> \in entries[o]
      BY <3>2, <2>3
    <3>4. e[1] \in Keys(o)
      BY <2>3 DEF Keys
    <3>5. e[1] \in Allocated
      BY <3>1, <3>3, <3>4 DEF IInv, WeakMirror
    <3>. QED
      BY <3>3, <3>5, <1>5, <1>6 DEF LedTo
  <2>. QED
    BY <2>1, <2>2, <2>3, <1>2, <1>4 DEF NoDangling
<1>8. Types'
  BY <1>1, <1>2 DEF IInv, Types
<1>9. Apart'
  BY <1>1, <1>4 DEF IInv, Apart
<1>10. Phases'
  BY <1>1, <1>3 DEF Phases
<1>11. Colours'
  BY <1>1, <1>2 DEF IInv, Colours
<1>12. Sorts' /\ WeakMirror'
  BY <1>1, <1>2, SameHeap DEF IInv, Sorts
<1>13. Reached' /\ Calling' /\ Marked' /\ Passed' /\ ExactlyGarbage'
  BY <1>1, <1>3 DEF Reached, Calling, Marked, Passed, ExactlyGarbage
<1>. QED
  BY <1>7, <1>8, <1>9, <1>10, <1>11, <1>12, <1>13 DEF IInv

-----------------------------------------------------------------------------
(* The sweep.                                                              *)

\* What a free changes: the object has nothing left, and nothing is left of it where it was
\* held weakly.  This is where the mirror is needed, for each of the two sides is cleared
\* through the other one.
LEMMA Freed ==
  ASSUME Types, Sorts, WeakMirror, NEW o \in Object, FreeObject(o)
  PROVE  /\ kind' = [kind EXCEPT ![o] = "free"]
         /\ refs' = refs
         /\ strong' = [strong EXCEPT ![o] = {}]
         /\ weak' \in [Object -> SUBSET Object]
         /\ entries' \in [Object -> SUBSET (Object \X (Object \cup {None}))]
         /\ target' \in [Object -> Object \cup {None}]
         /\ \A k \in Object : weak'[k] = IF k = o THEN {} ELSE weak[k] \ {o}
         /\ \A h \in Object : entries'[h] = IF h = o THEN {} ELSE {e \in entries[h] : e[1] # o}
         /\ \A h \in Object : target'[h] = IF h = o \/ target[h] = o THEN None ELSE target[h]
<1>1. /\ kind' = [kind EXCEPT ![o] = "free"]
      /\ refs' = refs
      /\ strong' = [strong EXCEPT ![o] = {}]
  BY DEF FreeObject
<1>2. Leave(o) = [k \in Object |-> weak[k] \ {o}]
  <2>1. ASSUME NEW k \in Object
        PROVE  (IF k \in Keys(o) \/ target[o] = k THEN weak[k] \ {o} ELSE weak[k]) = weak[k] \ {o}
    BY DEF WeakMirror
  <2>. QED
    BY <2>1, Zenon DEF Leave
<1>3. PICK holders : holders = weak[o] \ {o}
  OBVIOUS
<1>4. Leave(o)[o] = holders
  BY <1>2, <1>3
<1>5. /\ weak' = [Leave(o) EXCEPT ![o] = {}]
      /\ target' = [h \in Object |-> IF h = o \/ (h \in holders /\ kind[h] = "weakref")
                                     THEN None ELSE target[h]]
      /\ entries' = [h \in Object |-> IF h = o THEN {}
                                      ELSE IF h \in holders /\ kind[h] = "weakmap"
                                      THEN {e \in entries[h] : e[1] # o}
                                      ELSE entries[h]]
  BY <1>4 DEF FreeObject
<1>6. weak' = [[k \in Object |-> weak[k] \ {o}] EXCEPT ![o] = {}]
  BY <1>2, <1>5
<1>7. \A k \in Object : weak'[k] = IF k = o THEN {} ELSE weak[k] \ {o}
  BY <1>6
<1>8. weak' \in [Object -> SUBSET Object]
  BY <1>6 DEF Types
<1>9. ASSUME NEW h \in Object
      PROVE  entries'[h] = IF h = o THEN {} ELSE {e \in entries[h] : e[1] # o}
  <2>1. CASE h = o
    BY <2>1, <1>5
  <2>2. CASE h # o /\ h \in holders /\ kind[h] = "weakmap"
    BY <2>2, <1>5
  <2>3. CASE h # o /\ ~(h \in holders /\ kind[h] = "weakmap")
    <3>1. entries'[h] = entries[h]
      BY <2>3, <1>5
    <3>2. \A e \in entries[h] : e[1] # o
      <4>1. ASSUME NEW e \in entries[h], e[1] = o PROVE FALSE
        <5>1. o \in Keys(h)
          BY <4>1 DEF Keys
        <5>2. h \in holders
          BY <5>1, <2>3, <1>3 DEF WeakMirror
        <5>3. kind[h] = "weakmap"
          BY <4>1 DEF Sorts
        <5>. QED
          BY <5>2, <5>3, <2>3
      <4>. QED
        BY <4>1
    <3>3. {e \in entries[h] : e[1] # o} = entries[h]
      BY <3>2
    <3>. QED
      BY <3>1, <3>3, <2>3
  <2>. QED
    BY <2>1, <2>2, <2>3
<1>10. ASSUME NEW h \in Object
       PROVE  target'[h] = IF h = o \/ target[h] = o THEN None ELSE target[h]
  <2>1. target'[h] = IF h = o \/ (h \in holders /\ kind[h] = "weakref") THEN None ELSE target[h]
    BY <1>5
  <2>2. CASE h = o
    BY <2>1, <2>2
  <2>3. CASE h # o /\ target[h] = o
    <3>1. h \in holders
      BY <2>3, <1>3 DEF WeakMirror
    <3>2. kind[h] = "weakref"
      BY <2>3, NoneAssumption DEF Sorts
    <3>. QED
      BY <3>1, <3>2, <2>1, <2>3
  <2>4. CASE h # o /\ target[h] # o
    <3>1. ASSUME h \in holders, kind[h] = "weakref" PROVE target[h] = None
      <4>1. entries[h] = {}
        BY <3>1 DEF Sorts
      <4>2. o \notin Keys(h)
        BY <4>1 DEF Keys
      <4>3. FALSE
        BY <4>2, <3>1, <2>4, <1>3 DEF WeakMirror
      <4>. QED
        BY <4>3
    <3>. QED
      BY <3>1, <2>1, <2>4
  <2>. QED
    BY <2>2, <2>3, <2>4
<1>11. entries' \in [Object -> SUBSET (Object \X (Object \cup {None}))]
  <2>1. entries' = [h \in Object |-> entries'[h]]
    BY <1>5
  <2>2. \A h \in Object : entries'[h] \subseteq entries[h]
    BY <1>9
  <2>3. \A h \in Object : entries'[h] \in SUBSET (Object \X (Object \cup {None}))
    BY <2>2 DEF Types
  <2>. QED
    BY <2>1, <2>3
<1>12. target' \in [Object -> Object \cup {None}]
  BY <1>5 DEF Types
<1>. QED
  BY <1>1, <1>7, <1>8, <1>9, <1>10, <1>11, <1>12

\* A free of an object that is not live leaves the same objects live.
LEMMA LiveStays ==
  ASSUME Types, NEW o \in Object, o \notin Live,
         refs' = refs,
         strong' = [strong EXCEPT ![o] = {}],
         \A h \in Object : entries'[h] = IF h = o THEN {} ELSE {e \in entries[h] : e[1] # o}
  PROVE  Live' = Live
<1>1. PICK r, s, e : r = refs' /\ s = strong' /\ e = entries'
  OBVIOUS
<1>2. PICK least : least = LeastSet(r, s, e)
  OBVIOUS
<1>3. least = Live'
  BY <1>1, <1>2 DEF LeastSet, LedBy, Live, LedTo
<1>4. /\ least \subseteq Object
      /\ \A p \in Object : r[p] => p \in least
      /\ LedBy(s, e, least) \subseteq least
      /\ \A closed \in SUBSET Object :
           (\A p \in Object : r[p] => p \in closed) /\ LedBy(s, e, closed) \subseteq closed => least \subseteq closed
  BY <1>2, LeastIsLeast
<1>5. /\ Live \subseteq Object
      /\ \A p \in Object : refs[p] => p \in Live
      /\ LedTo(Live) \subseteq Live
      /\ \A closed \in SUBSET Object :
           (\A p \in Object : refs[p] => p \in closed) /\ LedTo(closed) \subseteq closed => Live \subseteq closed
  BY LiveIsLeast
<1>6. /\ \A a \in Object : s[a] \subseteq strong[a] /\ (a # o => s[a] = strong[a])
      /\ \A a \in Object : e[a] \subseteq entries[a]
      /\ \A a, k \in Object : \A p : a # o /\ k # o /\ <<k, p>> \in entries[a] => <<k, p>> \in e[a]
  <2>1. \A a \in Object : s[a] = IF a = o THEN {} ELSE strong[a]
    BY <1>1 DEF Types
  <2>2. \A k, p : <<k, p>>[1] = k
    OBVIOUS
  <2>. QED
    BY <2>1, <2>2, <1>1
<1>7. least \subseteq Live
  <2>1. LedBy(s, e, Live) \subseteq LedTo(Live)
    BY <1>5, <1>6 DEF LedBy, LedTo
  <2>. QED
    BY <2>1, <1>1, <1>4, <1>5
<1>8. Live \subseteq least
  <2>1. \A a \in least : a \in Object /\ a # o
    BY <1>4, <1>7
  <2>2. LedTo(least) \subseteq LedBy(s, e, least)
    BY <2>1, <1>6 DEF LedBy, LedTo
  <2>. QED
    BY <2>2, <1>1, <1>4, <1>5
<1>. QED
  BY <1>3, <1>7, <1>8

\* An object is freed.
LEMMA SweepStep ==
  ASSUME IInv, Sweep
  PROVE  IInv'
<1>1. /\ list' = list /\ black' = black /\ mark' = mark /\ calls' = calls
      /\ phase = "sweep" /\ phase' = "sweep" /\ position' = position /\ again' = again
      /\ white # <<>> /\ white' = Tail(white)
  BY DEF Sweep
<1>2. PICK o : o = Head(white)
  OBVIOUS
<1>3. FreeObject(o)
  BY <1>2 DEF Sweep
<1>4. Types /\ Sorts /\ WeakMirror /\ white \in Seq(Object) /\ black = <<>> /\ calls = <<>>
  BY <1>1 DEF IInv, Types, Phases
<1>5. /\ o \in Object /\ o \in ToSet(white) /\ white' \in Seq(Object)
      /\ ToSet(white) = ToSet(white') \cup {o}
      /\ IsInjective(white') /\ o \notin ToSet(white')
  BY <1>1, <1>2, <1>4, TailList DEF IInv, Apart
<1>6. /\ kind' = [kind EXCEPT ![o] = "free"]
      /\ refs' = refs
      /\ strong' = [strong EXCEPT ![o] = {}]
      /\ weak' \in [Object -> SUBSET Object]
      /\ entries' \in [Object -> SUBSET (Object \X (Object \cup {None}))]
      /\ target' \in [Object -> Object \cup {None}]
      /\ \A k \in Object : weak'[k] = IF k = o THEN {} ELSE weak[k] \ {o}
      /\ \A h \in Object : entries'[h] = IF h = o THEN {} ELSE {e \in entries[h] : e[1] # o}
      /\ \A h \in Object : target'[h] = IF h = o \/ target[h] = o THEN None ELSE target[h]
  BY <1>3, <1>4, <1>5, Freed
<1>7. o \notin ToSet(list) /\ ~refs[o] /\ mark[o] = "white"
  BY <1>1, <1>5 DEF IInv, Apart, Colours
<1>8. /\ \A h \in Object : kind'[h] = IF h = o THEN "free" ELSE kind[h]
      /\ \A h \in Object : strong'[h] = IF h = o THEN {} ELSE strong[h]
      /\ kind' \in [Object -> Kind \cup {"free"}] /\ strong' \in [Object -> SUBSET Object]
  BY <1>4, <1>6 DEF Types
<1>9. Allocated' = Allocated \ {o}
  BY <1>8 DEF Allocated
<1>10. Types'
  BY <1>1, <1>4, <1>5, <1>6, <1>8 DEF Types
<1>11. Apart'
  BY <1>1, <1>5, <1>7, <1>9 DEF IInv, Apart
<1>12. Phases'
  BY <1>1 DEF IInv, Phases
<1>13. Colours'
  BY <1>1, <1>5, <1>6 DEF IInv, Colours
<1>14. Sorts'
  <2>1. ASSUME NEW h \in Object
        PROVE  /\ entries'[h] # {} => kind'[h] = "weakmap"
               /\ target'[h] # None => kind'[h] = "weakref"
               /\ kind'[h] = "free" => ~refs[h] /\ strong'[h] = {} /\ mark[h] = "white"
    <3>1. CASE h = o
      BY <3>1, <1>6, <1>7, <1>8
    <3>2. CASE h # o
      <4>1. entries'[h] \subseteq entries[h] /\ kind'[h] = kind[h] /\ strong'[h] = strong[h]
        BY <3>2, <1>6, <1>8
      <4>2. target'[h] = None \/ target'[h] = target[h]
        BY <3>2, <1>6
      <4>. QED
        BY <4>1, <4>2, <1>4 DEF Sorts
    <3>. QED
      BY <3>1, <3>2
  <2>. QED
    BY <2>1, <1>1, <1>6 DEF Sorts
<1>15. WeakMirror'
  <2>1. ASSUME NEW h \in Object, NEW k \in Object
        PROVE  k \in Keys(h)' <=> k \in Keys(h) /\ h # o /\ k # o
    <3>1. Keys(h)' = {e[1] : e \in entries'[h]}
      BY DEF Keys
    <3>2. CASE h = o
      BY <3>1, <3>2, <1>6
    <3>3. CASE h # o
      <4>1. entries'[h] = {e \in entries[h] : e[1] # o}
        BY <3>3, <1>6
      <4>. QED
        BY <3>1, <3>3, <4>1 DEF Keys
    <3>. QED
      BY <3>2, <3>3
  <2>2. ASSUME NEW h \in Object, NEW k \in Object
        PROVE  target'[h] = k <=> target[h] = k /\ h # o /\ k # o
    BY <1>6, NoneAssumption
  <2>3. ASSUME NEW h \in Object, NEW k \in Object
        PROVE  h \in weak'[k] <=> h \in weak[k] /\ h # o /\ k # o
    BY <1>6
  <2>. QED
    BY <2>1, <2>2, <2>3, <1>4, <1>9 DEF WeakMirror
<1>16. NoDangling' /\ Reached' /\ Calling' /\ Marked' /\ Passed'
  BY <1>1, <1>4 DEF NoDangling, Reached, Calling, Marked, Passed
<1>17. ExactlyGarbage'
  <2>1. ToSet(list) = Live
    BY <1>1 DEF IInv, ExactlyGarbage
  <2>2. Live' = Live
    BY <2>1, <1>4, <1>5, <1>6, <1>7, LiveStays
  <2>. QED
    BY <2>1, <2>2, <1>1 DEF ExactlyGarbage
<1>. QED
  BY <1>10, <1>11, <1>12, <1>13, <1>14, <1>15, <1>16, <1>17 DEF IInv

-----------------------------------------------------------------------------
(* Between collections.                                                    *)

\* What such a step must not disturb.
LEMMA IdleKeeps ==
  ASSUME IInv, phase = "idle", kind' = kind,
         UNCHANGED <<list, black, white, mark, calls, phase, position, again>>,
         Types', Sorts', WeakMirror', NoDangling'
  PROVE  IInv'
<1>1. black = <<>> /\ white = <<>> /\ calls = <<>>
  BY DEF IInv, Phases
<1>2. Allocated' = Allocated
  BY DEF Allocated
<1>3. Apart'
  BY <1>2 DEF IInv, Apart
<1>4. Phases'
  BY DEF IInv, Phases
<1>5. Colours'
  BY <1>1, EmptyList DEF IInv, Colours
<1>6. Reached' /\ Calling' /\ Marked' /\ Passed' /\ ExactlyGarbage'
  BY <1>1 DEF Reached, Calling, Marked, Passed, ExactlyGarbage
<1>. QED
  BY <1>3, <1>4, <1>5, <1>6 DEF IInv

\* References from outside change, to an object that is not freed.
LEMMA RefsChange ==
  ASSUME IInv, phase = "idle", NEW o \in Object, NEW b \in BOOLEAN, b => o \in Allocated,
         refs' = [refs EXCEPT ![o] = b],
         UNCHANGED <<kind, strong, entries, target, weak>>,
         UNCHANGED <<list, black, white, mark, calls, phase, position, again>>
  PROVE  IInv'
<1>1. Types'
  BY DEF IInv, Types
<1>2. Sorts'
  <2>1. \A p \in Object : refs'[p] => refs[p] \/ p \in Allocated
    BY DEF IInv, Types
  <2>2. \A p \in Object : p \in Allocated => kind[p] # "free"
    BY DEF Allocated
  <2>. QED
    BY <2>1, <2>2 DEF IInv, Sorts
<1>3. Allocated' = Allocated /\ \A h : Keys(h)' = Keys(h)
  BY DEF Allocated, Keys
<1>4. WeakMirror' /\ NoDangling'
  BY <1>3 DEF IInv, WeakMirror, NoDangling
<1>. QED
  BY <1>1, <1>2, <1>4, IdleKeeps

\* ecma_deref_object and WeakRef.prototype.deref
LEMMA RefsStep ==
  ASSUME IInv, NEW o \in Object, DerefObject(o) \/ Deref(o)
  PROVE  IInv'
<1>1. CASE DerefObject(o)
  <2>1. FALSE => o \in Allocated
    OBVIOUS
  <2>. QED
    BY <2>1, <1>1, RefsChange DEF DerefObject
<1>2. CASE Deref(o)
  <2>1. PICK t : t = target[o]
    OBVIOUS
  <2>2. t \in Object
    BY <2>1, <1>2 DEF Deref, IInv, Types
  <2>3. t \in Allocated
    BY <2>1, <2>2 DEF IInv, WeakMirror
  <2>. QED
    BY <2>1, <2>2, <2>3, <1>2, RefsChange DEF Deref
<1>. QED
  BY <1>1, <1>2

\* The pairs of a weak map change, and with them what the key knows.
LEMMA PairsChange ==
  ASSUME IInv, phase = "idle", NEW m \in Object, NEW k \in Object, NEW pairs, NEW holders,
         kind[m] = "weakmap", k \in Allocated,
         \/ holders = weak[k] \ {m} /\ pairs = {e \in entries[m] : e[1] # k}
         \/ /\ holders = weak[k] \cup {m}
            /\ \E v \in Allocated \cup {None} : pairs = {e \in entries[m] : e[1] # k} \cup {<<k, v>>},
         entries' = [entries EXCEPT ![m] = pairs],
         weak' = [weak EXCEPT ![k] = holders],
         UNCHANGED <<kind, refs, strong, target>>,
         UNCHANGED <<list, black, white, mark, calls, phase, position, again>>
  PROVE  IInv'
<1>1. /\ entries \in [Object -> SUBSET (Object \X (Object \cup {None}))]
      /\ weak \in [Object -> SUBSET Object]
  BY DEF IInv, Types
<1>2. Allocated \subseteq Object /\ Allocated' = Allocated /\ m \in Allocated
  BY DEF Allocated
<1>3. pairs \in SUBSET (Object \X (Object \cup {None})) /\ holders \in SUBSET Object
  BY <1>1, <1>2
<1>4. /\ entries' \in [Object -> SUBSET (Object \X (Object \cup {None}))]
      /\ weak' \in [Object -> SUBSET Object]
      /\ \A h \in Object : entries'[h] = IF h = m THEN pairs ELSE entries[h]
      /\ \A h \in Object : weak'[h] = IF h = k THEN holders ELSE weak[h]
  BY <1>1, <1>3
<1>5. Types'
  BY <1>4 DEF IInv, Types
<1>6. Sorts'
  BY <1>4 DEF IInv, Sorts
<1>7. target[m] = None
  BY DEF IInv, Sorts
<1>8. \A h \in Object : h # m => Keys(h)' = Keys(h)
  BY <1>4 DEF Keys
<1>9. Keys(m)' = {e[1] : e \in pairs}
  BY <1>4 DEF Keys
<1>10. \/ holders = weak[k] \ {m} /\ \A q : q \in Keys(m)' <=> q \in Keys(m) /\ q # k
       \/ holders = weak[k] \cup {m} /\ \A q : q \in Keys(m)' <=> q \in Keys(m) \/ q = k
  <2>1. CASE holders = weak[k] \ {m} /\ pairs = {e \in entries[m] : e[1] # k}
    BY <2>1, <1>9 DEF Keys
  <2>2. CASE holders = weak[k] \cup {m} /\ \E v \in Allocated \cup {None} : pairs = {e \in entries[m] : e[1] # k} \cup {<<k, v>>}
    <3>1. PICK v : pairs = {e \in entries[m] : e[1] # k} \cup {<<k, v>>}
      BY <2>2
    <3>2. <<k, v>>[1] = k /\ <<k, v>> \in pairs
      BY <3>1
    <3>3. \A e \in pairs : (e \in entries[m] /\ e[1] # k) \/ e[1] = k
      BY <3>1, <3>2
    <3>4. \A e \in entries[m] : e[1] # k => e \in pairs
      BY <3>1
    <3>5. \A q : q \in Keys(m)' <=> q \in Keys(m) \/ q = k
      BY <3>2, <3>3, <3>4, <1>9 DEF Keys
    <3>. QED
      BY <3>5, <2>2
  <2>. QED
    BY <2>1, <2>2
<1>11. WeakMirror'
  <2>1. ASSUME NEW h \in Object, NEW q \in Object
        PROVE  /\ h \in weak'[q] <=> q \in Keys(h)' \/ target[h] = q
               /\ h \in weak'[q] => {h, q} \subseteq Allocated
    <3>1. /\ h \in weak[q] <=> q \in Keys(h) \/ target[h] = q
          /\ h \in weak[q] => {h, q} \subseteq Allocated
      BY DEF IInv, WeakMirror
    <3>2. CASE h # m
      <4>1. h \in weak'[q] <=> h \in weak[q]
        BY <3>2, <1>4, <1>10
      <4>. QED
        BY <4>1, <3>1, <3>2, <1>8
    <3>3. CASE h = m
      <4>1. target[h] # q
        BY <3>3, <1>7, NoneAssumption
      <4>2. CASE q # k
        <5>1. weak'[q] = weak[q]
          BY <4>2, <1>4
        <5>2. q \in Keys(h)' <=> q \in Keys(h)
          BY <4>2, <3>3, <1>10
        <5>. QED
          BY <5>1, <5>2, <3>1
      <4>3. CASE q = k
        <5>1. weak'[q] = holders
          BY <4>3, <1>4
        <5>2. m \in holders <=> k \in Keys(m)'
          BY <1>10
        <5>3. {h, q} \subseteq Allocated
          BY <4>3, <3>3, <1>2
        <5>. QED
          BY <5>1, <5>2, <5>3, <4>1, <4>3, <3>3
      <4>. QED
        BY <4>2, <4>3
    <3>. QED
      BY <3>2, <3>3
  <2>. QED
    BY <2>1, <1>2 DEF WeakMirror
<1>12. NoDangling'
  <2>1. \A h \in Object : /\ strong[h] \subseteq Allocated
                          /\ \A e \in entries[h] : e[2] \in Allocated \cup {None}
    BY DEF IInv, NoDangling
  <2>2. \A e \in pairs : e[2] \in Allocated \cup {None}
    <3>1. ASSUME NEW e \in pairs PROVE e[2] \in Allocated \cup {None}
      <4>1. e \in entries[m] \/ \E v \in Allocated \cup {None} : e = <<k, v>>
        BY <3>1
      <4>2. \A v : <<k, v>>[2] = v
        OBVIOUS
      <4>. QED
        BY <4>1, <4>2, <2>1
    <3>. QED
      BY <3>1
  <2>. QED
    BY <2>1, <2>2, <1>2, <1>4 DEF NoDangling
<1>. QED
  BY <1>5, <1>6, <1>11, <1>12, IdleKeeps

\* WeakMap.prototype.set
LEMMA SetWeakStep ==
  ASSUME IInv, NEW m \in Object, NEW k \in Object, NEW v \in Object \cup {None}, SetWeak(m, k, v)
  PROVE  IInv'
<1>1. /\ phase = "idle" /\ kind[m] = "weakmap" /\ refs[k] /\ (v # None => refs[v])
      /\ entries' = [entries EXCEPT ![m] = {e \in @ : e[1] # k} \cup {<<k, v>>}]
      /\ weak' = [weak EXCEPT ![k] = @ \cup {m}]
      /\ UNCHANGED <<kind, refs, strong, target>>
      /\ UNCHANGED <<list, black, white, mark, calls, phase, position, again>>
  BY DEF SetWeak
<1>2. entries \in [Object -> SUBSET (Object \X (Object \cup {None}))] /\ weak \in [Object -> SUBSET Object]
  BY DEF IInv, Types
<1>3. PICK pairs, holders : /\ pairs = {e \in entries[m] : e[1] # k} \cup {<<k, v>>}
                            /\ holders = weak[k] \cup {m}
  OBVIOUS
<1>4. entries' = [entries EXCEPT ![m] = pairs] /\ weak' = [weak EXCEPT ![k] = holders]
  BY <1>1, <1>2, <1>3
<1>5. \A o \in Object : refs[o] => o \in Allocated
  BY DEF IInv, Sorts, Allocated
<1>6. k \in Allocated /\ v \in Allocated \cup {None}
  BY <1>1, <1>5
<1>7. \/ holders = weak[k] \ {m} /\ pairs = {e \in entries[m] : e[1] # k}
      \/ /\ holders = weak[k] \cup {m}
         /\ \E x \in Allocated \cup {None} : pairs = {e \in entries[m] : e[1] # k} \cup {<<k, x>>}
  BY <1>3, <1>6
<1>8. /\ phase = "idle" /\ kind[m] = "weakmap" /\ k \in Allocated
      /\ UNCHANGED <<kind, refs, strong, target>>
      /\ UNCHANGED <<list, black, white, mark, calls, phase, position, again>>
  BY <1>1, <1>6
<1>. QED
  BY <1>4, <1>7, <1>8, PairsChange, ZenonT(60)

\* WeakMap.prototype.delete
LEMMA DeleteWeakStep ==
  ASSUME IInv, NEW m \in Object, NEW k \in Object, DeleteWeak(m, k)
  PROVE  IInv'
<1>1. /\ phase = "idle" /\ refs[k] /\ k \in Keys(m)
      /\ entries' = [entries EXCEPT ![m] = {e \in @ : e[1] # k}]
      /\ weak' = [weak EXCEPT ![k] = @ \ {m}]
      /\ UNCHANGED <<kind, refs, strong, target>>
      /\ UNCHANGED <<list, black, white, mark, calls, phase, position, again>>
  BY DEF DeleteWeak
<1>2. entries \in [Object -> SUBSET (Object \X (Object \cup {None}))] /\ weak \in [Object -> SUBSET Object]
  BY DEF IInv, Types
<1>3. PICK pairs, holders : pairs = {e \in entries[m] : e[1] # k} /\ holders = weak[k] \ {m}
  OBVIOUS
<1>4. entries' = [entries EXCEPT ![m] = pairs] /\ weak' = [weak EXCEPT ![k] = holders]
  BY <1>1, <1>2, <1>3
<1>5. kind[m] = "weakmap"
  BY <1>1 DEF IInv, Sorts, Keys
<1>6. k \in Allocated
  BY <1>1 DEF IInv, Sorts, Allocated
<1>7. \/ holders = weak[k] \ {m} /\ pairs = {e \in entries[m] : e[1] # k}
      \/ /\ holders = weak[k] \cup {m}
         /\ \E v \in Allocated \cup {None} : pairs = {e \in entries[m] : e[1] # k} \cup {<<k, v>>}
  BY <1>3
<1>8. /\ phase = "idle" /\ kind[m] = "weakmap" /\ k \in Allocated
      /\ UNCHANGED <<kind, refs, strong, target>>
      /\ UNCHANGED <<list, black, white, mark, calls, phase, position, again>>
  BY <1>1, <1>5, <1>6
<1>. QED
  BY <1>4, <1>7, <1>8, PairsChange, ZenonT(60)

-----------------------------------------------------------------------------
(* The theorems.                                                           *)

\* The heaps to begin with.
LEMMA Initially == Init => IInv
<1>. SUFFICES ASSUME Init PROVE IInv
  OBVIOUS
<1>1. PICK h \in Heaps : /\ kind = h.kind /\ refs = h.refs /\ strong = h.strong
                         /\ entries = h.entries /\ target = h.target
                         /\ weak = [k \in Object |-> HoldersIn(h, k)]
                         /\ list = h.list
  BY DEF Init
<1>2. /\ black = <<>> /\ white = <<>> /\ mark = [o \in Object |-> "black"] /\ calls = <<>>
      /\ phase = "idle" /\ position = 1 /\ again = FALSE
  BY DEF Init
<1>3. /\ h \in Heap /\ IsInjective(h.list) /\ ToSet(h.list) = Object
      /\ \A o \in Object : /\ h.entries[o] # {} => h.kind[o] = "weakmap"
                           /\ h.target[o] # None <=> h.kind[o] = "weakref"
  BY HeapsAssumption
<1>4. /\ kind \in [Object -> Kind]
      /\ refs \in [Object -> BOOLEAN]
      /\ strong \in [Object -> SUBSET Object]
      /\ entries \in [Object -> SUBSET (Object \X (Object \cup {None}))]
      /\ target \in [Object -> Object \cup {None}]
      /\ list \in Seq(Object)
  BY <1>1, <1>3 DEF Heap
<1>5. \A o \in Object : kind[o] # "free"
  BY <1>4 DEF Kind
<1>6. Allocated = Object
  BY <1>5 DEF Allocated
<1>7. weak \in [Object -> SUBSET Object] /\ \A k \in Object : weak[k] = HoldersIn(h, k)
  BY <1>1 DEF HoldersIn
<1>8. Types
  <2>1. <<>> \in Seq(Object) /\ <<>> \in Seq(CallType) /\ Len(<<>>) = 0 /\ 0 <= MarkLimit + 1
    BY LimitAssumption
  <2>. QED
    BY <2>1, <1>2, <1>4, <1>7 DEF Types, Colour
<1>9. Apart
  BY <1>1, <1>2, <1>3, <1>6, EmptyList DEF Apart
<1>10. Phases
  BY <1>2 DEF Phases
<1>11. Colours
  BY <1>1, <1>2, <1>3, EmptyList DEF Colours
<1>12. Sorts
  BY <1>1, <1>3, <1>5 DEF Sorts
<1>13. WeakMirror
  <2>1. ASSUME NEW m \in Object, NEW k \in Object
        PROVE  m \in weak[k] <=> k \in Keys(m) \/ target[m] = k
    BY <1>1, <1>7 DEF HoldersIn, Keys
  <2>. QED
    BY <2>1, <1>6 DEF WeakMirror
<1>14. NoDangling
  <2>1. ASSUME NEW o \in Object, NEW e \in entries[o] PROVE e[2] \in Object \cup {None}
    BY <2>1, <1>4
  <2>. QED
    BY <2>1, <1>4, <1>6 DEF NoDangling
<1>15. Reached /\ Calling /\ Marked /\ Passed /\ ExactlyGarbage
  BY <1>2 DEF Reached, Calling, Marked, Passed, ExactlyGarbage
<1>. QED
  BY <1>8, <1>9, <1>10, <1>11, <1>12, <1>13, <1>14, <1>15 DEF IInv

\* A step that changes nothing.
LEMMA Stuttering ==
  ASSUME IInv, UNCHANGED vars
  PROVE  IInv'
<1>1. UNCHANGED heap
  BY DEF vars
<1>2. /\ list' = list /\ black' = black /\ white' = white /\ mark' = mark /\ calls' = calls
      /\ phase' = phase /\ position' = position /\ again' = again
  BY DEF vars
<1>3. kind' = kind /\ refs' = refs /\ strong' = strong /\ entries' = entries /\ target' = target /\ weak' = weak
  BY <1>1 DEF heap
<1>4. /\ \A o : Edges(o)' = Edges(o)
      /\ Live' = Live /\ Allocated' = Allocated /\ WeakMirror'
  BY <1>1, SameHeap DEF IInv
<1>5. Types'
  BY <1>2, <1>3 DEF IInv, Types
<1>6. Apart' /\ Phases' /\ Colours' /\ Sorts' /\ NoDangling'
  BY <1>2, <1>3, <1>4 DEF IInv, Apart, Phases, Colours, Sorts, NoDangling
<1>7. Reached' /\ Calling'
  BY <1>2, <1>4 DEF IInv, Reached, Calling, Visited
<1>8. Marked'
  BY <1>2, <1>4 DEF IInv, Marked, Pending, ToCome, Visited
<1>9. Passed' /\ ExactlyGarbage'
  BY <1>2, <1>4 DEF IInv, Passed, ExactlyGarbage
<1>. QED
  BY <1>4, <1>5, <1>6, <1>7, <1>8, <1>9 DEF IInv

\* The invariant is inductive: it holds at the beginning and every step of the collector and
\* of the program between collections keeps it.
THEOREM Inductive == Spec => []IInv
<1>1. ASSUME IInv, [Next]_vars PROVE IInv'
  <2>1. CASE MarkNext
    BY <1>1, <2>1, MarkNextStep
  <2>2. CASE MarkReturns
    BY <1>1, <2>2, MarkReturnsStep
  <2>3. CASE StartGc
    BY <1>1, <2>3, StartGcStep
  <2>4. CASE TakeObject
    BY <1>1, <2>4, TakeObjectStep
  <2>5. CASE RootsTaken
    BY <1>1, <2>5, RootsTakenStep
  <2>6. CASE MarkRoot
    BY <1>1, <2>6, MarkRootStep
  <2>7. CASE RootsMarked
    BY <1>1, <2>7, RootsMarkedStep
  <2>8. CASE ScanWhite
    BY <1>1, <2>8, ScanWhiteStep
  <2>9. CASE ScanVisited
    BY <1>1, <2>9, ScanVisitedStep
  <2>10. CASE ScanAgain
    BY <1>1, <2>10, ScanAgainStep
  <2>11. CASE StartSweep
    BY <1>1, <2>11, StartSweepStep
  <2>12. CASE Sweep
    BY <1>1, <2>12, SweepStep
  <2>13. CASE GcEnds
    BY <1>1, <2>13, GcEndsStep
  <2>14. ASSUME NEW o \in Object, DerefObject(o) \/ Deref(o) PROVE IInv'
    BY <1>1, <2>14, RefsStep
  <2>15. ASSUME NEW m \in Object, NEW k \in Object, DeleteWeak(m, k) PROVE IInv'
    BY <1>1, <2>15, DeleteWeakStep
  <2>16. ASSUME NEW m \in Object, NEW k \in Object, NEW v \in Object \cup {None}, SetWeak(m, k, v) PROVE IInv'
    BY <1>1, <2>16, SetWeakStep
  <2>17. CASE UNCHANGED vars
    BY <1>1, <2>17, Stuttering
  <2>. QED
    BY <1>1, <2>1, <2>2, <2>3, <2>4, <2>5, <2>6, <2>7, <2>8, <2>9, <2>10, <2>11, <2>12, <2>13,
       <2>14, <2>15, <2>16, <2>17, ZenonT(60) DEF Next
<1>. QED
  BY <1>1, Initially, PTL DEF Spec

\* Each object that is not freed is on exactly one of the lists, once, at every point of a
\* collection, and ecma_gc_mark is never deeper in calls than its limit allows.
THEOREM ListsPartitionTheHeap == Spec => []TypeOK
<1>1. ASSUME IInv PROVE TypeOK
  <2>1. /\ list \in Seq(Object) /\ black \in Seq(Object) /\ white \in Seq(Object)
        /\ kind \in [Object -> Kind \cup {"free"}] /\ refs \in [Object -> BOOLEAN]
        /\ mark \in [Object -> Colour] /\ phase \in {"idle", "roots", "mark", "scan", "sweep"}
        /\ position \in Nat /\ again \in BOOLEAN /\ Len(calls) <= MarkLimit + 1
    BY <1>1 DEF IInv, Types
  <2>2. /\ list \o black \in Seq(Object) /\ ToSet(list \o black) = ToSet(list) \cup ToSet(black)
        /\ IsInjective(list \o black)
    BY <2>1, <1>1, ConcatList DEF IInv, Apart
  <2>3. PICK both : both = list \o black
    OBVIOUS
  <2>4. /\ ToSet(both \o white) = ToSet(both) \cup ToSet(white)
        /\ IsInjective(both) /\ IsInjective(white) /\ ToSet(both) \cap ToSet(white) = {}
             => IsInjective(both \o white)
    <3>1. both \in Seq(Object) /\ white \in Seq(Object)
      BY <2>1, <2>2, <2>3
    <3>. QED
      BY <3>1, ConcatList
  <2>5. IsInjective(white) /\ ToSet(both) \cap ToSet(white) = {} /\ ToSet(both) \cup ToSet(white) = Allocated
    BY <2>2, <2>3, <1>1 DEF IInv, Apart
  <2>6. LET lists == list \o black \o white
        IN IsInjective(lists) /\ ToSet(lists) = Allocated
    BY <2>2, <2>3, <2>4, <2>5
  <2>. QED
    BY <2>1, <2>6 DEF TypeOK
<1>. QED
  BY <1>1, Inductive, PTL

\* The sweep of ecma_gc_run frees exactly what cannot be reached: whatever the limit of the
\* recursion, the order of the lists and the cycles between weak maps, their keys and their values.
THEOREM CollectsExactlyGarbage == Spec => []ExactlyGarbage
<1>1. ASSUME IInv PROVE ExactlyGarbage
  BY <1>1 DEF IInv
<1>. QED
  BY <1>1, Inductive, PTL

\* A weak map and its key, a weak reference and its target know each other, between any two
\* frees of a sweep too, and neither of them is freed.
THEOREM WeakHoldersAreMutual == Spec => []WeakMirror
<1>1. ASSUME IInv PROVE WeakMirror
  BY <1>1 DEF IInv
<1>. QED
  BY <1>1, Inductive, PTL
=============================================================================
