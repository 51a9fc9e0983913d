--------------------------------- MODULE Gc ---------------------------------
(***************************************************************************)
(* The garbage collector (ecma-gc.c) with the weak containers and weak     *)
(* references (ecma-container-object.c, ecma-objects.c).                   *)
(*                                                                         *)
(* Objects are on one list.  A collection moves the roots to the black     *)
(* list, marks from them by recursion of a limited depth, leaves objects   *)
(* gray where the limit is reached, and goes through the white list until  *)
(* it finds none of them.  What is left there is freed, one object after   *)
(* the other, while weak containers and their keys still refer to each     *)
(* other in both directions.                                               *)
(***************************************************************************)
EXTENDS Naturals, SequencesExt

CONSTANTS Object,       \* the objects
          None,         \* a value that is not an object
          MarkLimit,    \* JERRY_GC_MARK_LIMIT
          Heaps         \* the heaps to begin with

ASSUME LimitAssumption == MarkLimit \in Nat \ {0}

ASSUME NoneAssumption == None \notin Object

Kind == {"plain", "weakmap", "weakref"}
Colour == {"white", "gray", "black"}

Heap == [kind: [Object -> Kind],
         refs: [Object -> BOOLEAN],
         strong: [Object -> SUBSET Object],
         entries: [Object -> SUBSET (Object \X (Object \cup {None}))],
         target: [Object -> Object \cup {None}],
         list: Seq(Object)]

\* The list has each object once, a weak map each key, and a weak reference is made with a
\* target.
ASSUME HeapsAssumption ==
    \A h \in Heaps : /\ h \in Heap
                     /\ IsInjective(h.list)
                     /\ ToSet(h.list) = Object
                     /\ \A o \in Object : /\ h.entries[o] # {} => h.kind[o] = "weakmap"
                                          /\ h.target[o] # None <=> h.kind[o] = "weakref"
                                          /\ \A d, e \in h.entries[o] : d[1] = e[1] => d = e

VARIABLES kind,         \* the kind of an object, "free" when its memory is released
          refs,         \* there are references from outside the heap (the counter is not zero)
          strong,       \* the objects an object refers to
          entries,      \* the pairs of key and value of a weak map; a WeakSet has no values
          target,       \* the target of a weak reference
          weak,         \* the holders in the internal property WEAK_REFS of an object
          list,         \* the list at ecma_gc_objects_cp
          black,        \* the list of marked objects
          white,        \* the list of white and gray objects
          mark,         \* the colour in type_flags_refs
          calls,        \* the calls of ecma_gc_mark in progress, the last one first
          phase,        \* where the collection is, "idle" outside of it
          position,     \* the place of the iteration on its list
          again         \* marked_anything_during_current_iteration

heap == <<kind, refs, strong, entries, target, weak>>
vars == <<heap, list, black, white, mark, calls, phase, position, again>>

Allocated == {o \in Object : kind[o] # "free"}
Keys(m) == {e[1] : e \in entries[m]}

\* The property WEAK_REFS as ecma_op_object_set_weak has built it.
HoldersIn(h, k) == {o \in Object : h.target[o] = k \/ \E e \in h.entries[o] : e[1] = k}

Init == /\ \E h \in Heaps : /\ kind = h.kind
                            /\ refs = h.refs
                            /\ strong = h.strong
                            /\ entries = h.entries
                            /\ target = h.target
                            /\ weak = [k \in Object |-> HoldersIn(h, k)]
                            /\ list = h.list
        /\ black = <<>>
        /\ white = <<>>
        /\ mark = [o \in Object |-> "black"]
        /\ calls = <<>>
        /\ phase = "idle"
        /\ position = 1
        /\ again = FALSE

-----------------------------------------------------------------------------
(* Marking                                                                 *)

Visited(o) == mark[o] # "white"

\* What ecma_gc_mark goes through for an object, in any order: pairs of a condition and of an
\* object that is visited if the condition has been.  A weak map leads to the values of its
\* keys, a key to its values in the weak maps that hold it.
Edges(o) == {<<o, p>> : p \in strong[o]}
            \cup {e \in entries[o] : e[2] # None}
            \cup {e \in weak[o] \X Object : <<o, e[2]>> \in entries[e[1]]}

\* ecma_gc_mark has been called for o.
Call(o) == [object |-> o, left |-> Edges(o)]

\* ecma_gc_set_object_visited: a white object is marked, or left gray when
\* ecma_gc_mark_recursion_limit is zero.
SetVisited(o, rest) ==
    IF Visited(o) THEN /\ calls' = rest
                       /\ UNCHANGED mark
    ELSE IF Len(calls) > MarkLimit THEN /\ calls' = rest
                                        /\ mark' = [mark EXCEPT ![o] = "gray"]
    ELSE /\ calls' = <<Call(o)>> \o rest
         /\ mark' = [mark EXCEPT ![o] = "black"]

\* ecma_gc_mark goes on.
MarkNext ==
    /\ calls # <<>>
    /\ \E e \in Head(calls).left :
         LET rest == <<[Head(calls) EXCEPT !.left = @ \ {e}]>> \o Tail(calls)
         IN IF Visited(e[1]) THEN SetVisited(e[2], rest)
            ELSE calls' = rest /\ UNCHANGED mark
    /\ UNCHANGED <<heap, list, black, white, phase, position, again>>

MarkReturns ==
    /\ calls # <<>>
    /\ Head(calls).left = {}
    /\ calls' = Tail(calls)
    /\ UNCHANGED <<heap, list, black, white, mark, phase, position, again>>

-----------------------------------------------------------------------------
(* Collection                                                              *)

\* ecma_gc_run
StartGc ==
    /\ phase = "idle"
    /\ phase' = "roots"
    /\ UNCHANGED <<heap, list, black, white, mark, calls, position, again>>

\* The first loop: objects with references are roots.
TakeObject ==
    /\ phase = "roots"
    /\ list # <<>>
    /\ list' = Tail(list)
    /\ LET o == Head(list)
       IN IF refs[o]
          THEN /\ black' = Append(black, o)
               /\ UNCHANGED <<white, mark>>
          ELSE /\ white' = Append(white, o)
               /\ mark' = [mark EXCEPT ![o] = "white"]
               /\ UNCHANGED black
    /\ UNCHANGED <<heap, calls, phase, position, again>>

RootsTaken ==
    /\ phase = "roots"
    /\ list = <<>>
    /\ phase' = "mark"
    /\ position' = 1
    /\ UNCHANGED <<heap, list, black, white, mark, calls, again>>

MarkRoot ==
    /\ phase = "mark"
    /\ calls = <<>>
    /\ position \in DOMAIN black
    /\ calls' = <<Call(black[position])>>
    /\ position' = position + 1
    /\ UNCHANGED <<heap, list, black, white, mark, phase, again>>

RootsMarked ==
    /\ phase = "mark"
    /\ calls = <<>>
    /\ position \notin DOMAIN black
    /\ phase' = "scan"
    /\ position' = 1
    /\ again' = FALSE
    /\ UNCHANGED <<heap, list, black, white, mark, calls>>

Scanning == phase = "scan" /\ calls = <<>>

\* The object at the position was not reached so far.
ScanWhite ==
    /\ Scanning
    /\ position \in DOMAIN white
    /\ ~Visited(white[position])
    /\ position' = position + 1
    /\ UNCHANGED <<heap, list, black, white, mark, calls, phase, again>>

\* Mutant of MarkGray: the pass does not count what it marks.
MarkGrayOnce(o) ==
    IF mark[o] = "gray" THEN /\ mark' = [mark EXCEPT ![o] = "black"]
                             /\ calls' = <<Call(o)>>
                             /\ UNCHANGED again
    ELSE UNCHANGED <<mark, calls, again>>

\* The limit had left o gray: it is marked now.
MarkGray(o) ==
    IF mark[o] = "gray" THEN /\ mark' = [mark EXCEPT ![o] = "black"]
                             /\ calls' = <<Call(o)>>
                             /\ again' = TRUE
    ELSE UNCHANGED <<mark, calls, again>>

\* Mutant of ScanVisited: the object stays on the list.
ScanVisitedKeeping ==
    /\ Scanning
    /\ position \in DOMAIN white
    /\ Visited(white[position])
    /\ black' = Append(black, white[position])
    /\ MarkGray(white[position])
    /\ position' = position + 1
    /\ UNCHANGED <<heap, list, white, phase>>

\* It was reached: it leaves the list.
ScanVisited ==
    /\ Scanning
    /\ position \in DOMAIN white
    /\ Visited(white[position])
    /\ black' = Append(black, white[position])
    /\ white' = RemoveAt(white, position)
    /\ MarkGray(white[position])
    /\ UNCHANGED <<heap, list, phase, position>>

ScanAgain ==
    /\ Scanning
    /\ position \notin DOMAIN white
    /\ again
    /\ position' = 1
    /\ again' = FALSE
    /\ UNCHANGED <<heap, list, black, white, mark, calls, phase>>

StartSweep ==
    /\ Scanning
    /\ position \notin DOMAIN white
    /\ ~again
    /\ phase' = "sweep"
    /\ list' = black
    /\ black' = <<>>
    /\ UNCHANGED <<heap, white, mark, calls, position, again>>

\* Mutant of Leave: a weak reference does not take leave of its target.
LeaveKeys(o) == [k \in Object |-> IF k \in Keys(o) THEN weak[k] \ {o} ELSE weak[k]]

\* A weak map takes leave of its keys, a weak reference of its target.
Leave(o) == [k \in Object |-> IF k \in Keys(o) \/ target[o] = k THEN weak[k] \ {o} ELSE weak[k]]

\* ecma_gc_free_object, and ecma_gc_free_properties for the property WEAK_REFS of the
\* object: those that hold it weakly forget it.
FreeObject(o) ==
    LET holders == Leave(o)[o]
    IN /\ weak' = [Leave(o) EXCEPT ![o] = {}]
       /\ target' = [h \in Object |-> IF h = o \/ (h \in holders /\ kind[h] = "weakref")
                                      THEN None ELSE target[h]]
       /\ entries' = [h \in Object |-> IF h = o THEN {}
                                       ELSE IF h \in holders /\ kind[h] = "weakmap"
                                       THEN {e \in entries[h] : e[1] # o}
                                       ELSE entries[h]]
       /\ strong' = [strong EXCEPT ![o] = {}]
       /\ kind' = [kind EXCEPT ![o] = "free"]
       /\ UNCHANGED refs

Sweep ==
    /\ phase = "sweep"
    /\ white # <<>>
    /\ FreeObject(Head(white))
    /\ white' = Tail(white)
    /\ UNCHANGED <<list, black, mark, calls, phase, position, again>>

GcEnds ==
    /\ phase = "sweep"
    /\ white = <<>>
    /\ phase' = "idle"
    /\ UNCHANGED <<heap, list, black, white, mark, calls, position, again>>

-----------------------------------------------------------------------------
(* What the engine does between collections                                *)

\* ecma_deref_object: the last reference from outside goes.
DerefObject(o) ==
    /\ phase = "idle"
    /\ refs[o]
    /\ refs' = [refs EXCEPT ![o] = FALSE]
    /\ UNCHANGED <<kind, strong, entries, target, weak>>
    /\ UNCHANGED <<list, black, white, mark, calls, phase, position, again>>

\* WeakRef.prototype.deref: the caller has a reference to the target again.
Deref(w) ==
    /\ phase = "idle"
    /\ target[w] # None
    /\ refs[w]
    /\ refs' = [refs EXCEPT ![target[w]] = TRUE]
    /\ UNCHANGED <<kind, strong, entries, target, weak>>
    /\ UNCHANGED <<list, black, white, mark, calls, phase, position, again>>

\* WeakMap.prototype.set, ecma_op_container_set.  The caller has the map, the key and the
\* value; a new key remembers the map (ecma_op_object_set_weak).
SetWeak(m, k, v) ==
    /\ phase = "idle"
    /\ kind[m] = "weakmap"
    /\ refs[m]
    /\ refs[k]
    /\ v # None => refs[v]
    /\ entries' = [entries EXCEPT ![m] = {e \in @ : e[1] # k} \cup {<<k, v>>}]
    /\ weak' = [weak EXCEPT ![k] = @ \cup {m}]
    /\ UNCHANGED <<kind, refs, strong, target>>
    /\ UNCHANGED <<list, black, white, mark, calls, phase, position, again>>

\* WeakMap.prototype.delete, ecma_op_container_delete_weak.  The caller has the map and the key.
DeleteWeak(m, k) ==
    /\ phase = "idle"
    /\ refs[m]
    /\ refs[k]
    /\ k \in Keys(m)
    /\ entries' = [entries EXCEPT ![m] = {e \in @ : e[1] # k}]
    /\ weak' = [weak EXCEPT ![k] = @ \ {m}]
    /\ UNCHANGED <<kind, refs, strong, target>>
    /\ UNCHANGED <<list, black, white, mark, calls, phase, position, again>>

Next == \/ MarkNext \/ MarkReturns
        \/ StartGc \/ TakeObject \/ RootsTaken \/ MarkRoot \/ RootsMarked
        \/ ScanWhite \/ ScanVisited \/ ScanAgain
        \/ StartSweep \/ Sweep \/ GcEnds
        \/ \E o \in Object : DerefObject(o) \/ Deref(o)
        \/ \E m, k \in Object : DeleteWeak(m, k) \/ \E v \in Object \cup {None} : SetWeak(m, k, v)

Spec == Init /\ [][Next]_vars

-----------------------------------------------------------------------------

\* Each object that is not freed is on exactly one of the lists, and at its place there
\* once: a list that loses one leaks it, a list that has one twice frees it twice.
TypeOK ==
    /\ kind \in [Object -> Kind \cup {"free"}]
    /\ refs \in [Object -> BOOLEAN]
    /\ mark \in [Object -> Colour]
    /\ phase \in {"idle", "roots", "mark", "scan", "sweep"}
    /\ position \in Nat
    /\ again \in BOOLEAN
    /\ Len(calls) <= MarkLimit + 1
    /\ LET lists == list \o black \o white
       IN IsInjective(lists) /\ ToSet(lists) = Allocated

\* The objects a program can still come to: those with references, what they refer to,
\* and the value of a pair of a weak map when both the map and the key are among them.
LedTo(objects) ==
    {p \in Object : \E o \in objects : p \in strong[o] \/ \E k \in objects : <<k, p>> \in entries[o]}

Live == {o \in Object :
           \A closed \in SUBSET Object :
              {p \in Object : refs[p]} \subseteq closed /\ LedTo(closed) \subseteq closed => o \in closed}

\* A collection frees what cannot be reached and nothing else: the sweep begins with the
\* live objects on the list of the survivors, and they stay live whatever is freed.  Marking
\* depends on the order of the lists and of properties, on the limit of the recursion and,
\* for the values of weak maps, on which of map and key is found first.
ExactlyGarbage ==
    phase = "sweep" => ToSet(list) = Live

\* An object knows the weak maps it is a key of and the weak references it is the target
\* of, and each of them knows it, before, between and after the frees of a sweep: the one that is
\* freed first is forgotten by the other.
WeakMirror ==
    \A h, k \in Object :
        /\ h \in weak[k] <=> k \in Keys(h) \/ target[h] = k
        /\ h \in weak[k] => {h, k} \subseteq Allocated
=============================================================================
