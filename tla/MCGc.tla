-------------------------------- MODULE MCGc --------------------------------
EXTENDS Gc, FiniteSetsExt

MCObject == 1 .. 4
MCNone == 0

Pairs == {p \in MCObject \X MCObject : p[1] # p[2]}

NoTarget == [o \in MCObject |-> MCNone]
NoEntries == [o \in MCObject |-> {}]
InOrder == <<1, 2, 3, 4>>
Roots(n) == {[o \in MCObject |-> o \in r] : r \in kSubset(n, MCObject)}

\* n objects that refer to one other object each.
Strong(n) == {f \in [MCObject -> {{}} \cup {{o} : o \in MCObject}] :
                 /\ \A o \in MCObject : f[o] # {o}
                 /\ Cardinality({o \in MCObject : f[o] # {}}) = n}

Kinds(maps, weakrefs) ==
    [o \in MCObject |-> IF o \in maps THEN "weakmap" ELSE IF o \in weakrefs THEN "weakref" ELSE "plain"]

\* Three plain objects and a weak map, at either end of the list.  There is one root with two
\* references and two pairs, or there are two roots with one reference and one pair.
TwoPairs == {{p, q} : p, q \in Pairs} \cap {s \in SUBSET Pairs : Cardinality({p[1] : p \in s}) = 2}
MapHeaps(m, roots, pairs) ==
    [kind: {Kinds({m}, {})}, refs: Roots(roots), strong: Strong(3 - roots),
     entries: {[NoEntries EXCEPT ![m] = p] : p \in pairs}, target: {NoTarget}, list: {InOrder}]

\* Two plain objects, a weak map with one pair, and a weak reference on the list between the
\* plain objects, one of which is its target.
WeakRefHeaps(m, w) ==
    [kind: {Kinds({m}, {w})}, refs: Roots(2), strong: Strong(0),
     entries: {[NoEntries EXCEPT ![m] = {p}] : p \in Pairs},
     target: {[NoTarget EXCEPT ![w] = t] : t \in {1, 3}}, list: {InOrder}]

\* Two weak maps that hold each other, as key or as value.
TwoMapHeaps ==
    [kind: {Kinds({1, 4}, {})}, refs: Roots(2), strong: Strong(0),
     entries: {[NoEntries EXCEPT ![1] = {p}, ![4] = {q}] :
                  p \in {d \in Pairs : 4 \in {d[1], d[2]}}, q \in {d \in Pairs : 1 \in {d[1], d[2]}}},
     target: {NoTarget}, list: {InOrder}]

MCHeaps == MapHeaps(1, 1, TwoPairs) \cup MapHeaps(4, 1, TwoPairs) \cup MapHeaps(4, 2, {{p} : p \in Pairs})
           \cup WeakRefHeaps(4, 2) \cup TwoMapHeaps
=============================================================================
