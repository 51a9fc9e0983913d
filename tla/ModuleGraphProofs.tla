-------------------------- MODULE ModuleGraphProofs -------------------------
(***************************************************************************)
(* Linking and evaluation for any finite set of modules and any graph of   *)
(* imports, wherever linking or evaluation fails.                          *)
(*                                                                         *)
(* The theorems assume QuietHost: bodies of modules and the callback after *)
(* an evaluation may link and evaluate further modules, the callbacks of a *)
(* search do not.  With a call from any of these TransitionsHaveOwner and  *)
(* ReadyWhenLinked fail, since a module has one ancestor index for all     *)
(* searches.                                                               *)
(*                                                                         *)
(* The heart of the invariant IInv is Searching, what Tarjan's algorithm   *)
(* rests on: the current item and those by which the search has come form  *)
(* a path; each item leads to all that lie above an item of the path       *)
(* (OnPath); an ancestor index is the index of an item that the module     *)
(* leads to (Lows); an import that has been visited is linked, or lies on  *)
(* the stack not below the ancestor index (Visits); an item off the path   *)
(* leads back to the path (Done).  When a module has its own index as      *)
(* ancestor index, the items from its own on lead to each other and to     *)
(* nothing else that is not linked yet: this is Circling.                  *)
(***************************************************************************)
EXTENDS ModuleGraph, FiniteSetTheorems, SequenceTheorems, TLAPS

\* The host makes no calls while a search is in progress.
QuietHost == HostCalls \subseteq {"body", "ended"}

-----------------------------------------------------------------------------
(* What a module leads to in a graph of imports.                           *)

Closed(g, modules) == \A x \in modules : ToSet(g[x]) \subseteq modules

Leads(g, m) == {n \in Module : \A closed \in SUBSET Module :
                                  m \in closed /\ Closed(g, closed) => n \in closed}

-----------------------------------------------------------------------------
(* The calls in progress.                                                  *)

LinkStep == {"resolve", "visit", "names", "connect", "close", "end", "error"}
EvaluateStep == {"imports", "body", "evaluated", "error"}

ItemType == [module : Module, node : Nat, parent : Nat, index : Nat]
LinkFrame == [call : {"link"}, step : LinkStep, items : Seq(ItemType), current : Nat,
              index : Nat, request : Nat, circle : Nat]
EvaluateFrame == [call : {"evaluate"}, step : EvaluateStep, module : Module, node : Nat]
HostFrame == [call : {"host"}, place : {"resolve", "ended"}]
Frame == LinkFrame \cup EvaluateFrame \cup HostFrame

Types ==
  /\ imports \in Graphs
  /\ resolved \in [Module -> Nat]
  /\ \A m \in Module : resolved[m] <= Len(imports[m])
  /\ state \in [Module -> ModuleState]
  /\ ancestor \in [Module -> 0 .. Cardinality(Module)]
  /\ scope \in [Module -> BOOLEAN] /\ names \in [Module -> BOOLEAN]
  /\ bound \in [Module -> BOOLEAN] /\ code \in [Module -> BOOLEAN]
  /\ stack \in Seq(Frame)

Resolving(f) == f.call = "host" /\ f.place = "resolve"
Active(f) == f.call = "evaluate" /\ f.step \in {"imports", "body"}

\* There is one search, on top or below the callback that resolves an import; on an
\* evaluation that waits for an import stands the evaluation of this import.
Calling(g, frames) ==
  \A k \in 1 .. Len(frames) :
     /\ frames[k].call = "link" => k = 1 \/ (k = 2 /\ Resolving(frames[1]))
     /\ Resolving(frames[k]) => /\ k = 1 /\ Len(frames) > 1
                                /\ frames[2].call = "link" /\ frames[2].step = "resolve"
                                /\ frames[2].request <= Len(g[frames[2].items[frames[2].current].module])
     /\ frames[k].call = "evaluate" /\ frames[k].step = "imports" /\ k > 1 =>
          /\ frames[k].node <= Len(g[frames[k].module])
          /\ frames[k - 1].call = "evaluate"
          /\ frames[k - 1].module = g[frames[k].module][frames[k].node]

\* The evaluations in progress; what they have imported is evaluated, or its evaluation
\* began earlier.
Evaluating(g, st, frames) ==
  /\ \A k \in 1 .. Len(frames) : frames[k].call = "evaluate" =>
       /\ frames[k].node \in 1 .. Len(g[frames[k].module]) + 1
       /\ Active(frames[k]) => st[frames[k].module] = "evaluating"
       /\ ~Active(frames[k]) => st[frames[k].module] = frames[k].step
       /\ frames[k].step = "body" => frames[k].node > Len(g[frames[k].module])
  /\ \A k, l \in 1 .. Len(frames) : Active(frames[k]) /\ Active(frames[l])
                                    /\ frames[k].module = frames[l].module => k = l
  /\ \A m \in Module : st[m] = "evaluating" =>
       \E k \in 1 .. Len(frames) : Active(frames[k]) /\ frames[k].module = m
  /\ \A k \in 1 .. Len(frames) : Active(frames[k]) =>
       \A j \in 1 .. frames[k].node - 1 :
          \/ st[g[frames[k].module][j]] = "evaluated"
          \/ \E l \in k .. Len(frames) : Active(frames[l]) /\ frames[l].module = g[frames[k].module][j]

-----------------------------------------------------------------------------
(* The search.                                                             *)

Mod(s, i) == s.items[i].module
Node(s, i) == s.items[i].node
Parent(s, i) == s.items[i].parent
Index(s, i) == s.items[i].index

\* The modules that are linked, or about to be announced as linked.
Finished == {m \in Module : state[m] \in {"linked", "evaluating", "evaluated"} \/ m \in Closing}

\* The items of a search.
Items(s, g, st) ==
  /\ s.items # <<>> /\ Parent(s, 1) = 0
  /\ \A i \in 1 .. Len(s.items) : /\ st[Mod(s, i)] = "linking"
                                  /\ Index(s, i) <= s.index
                                  /\ Node(s, i) \in 1 .. Len(g[Mod(s, i)]) + 1
  /\ \A i, j \in 1 .. Len(s.items) : i < j => Mod(s, i) # Mod(s, j) /\ Index(s, i) < Index(s, j)

\* The index counts the modules that the search has met.
Counted(s, st) == \E met \in SUBSET Module : /\ Cardinality(met) = s.index + 1
                                             /\ \A m \in met : st[m] # "unlinked"

\* No import that has been resolved is in error.
Requested(s, g, st) ==
  /\ \A i \in 1 .. Len(s.items) : \A j \in 1 .. Len(g[Mod(s, i)]) :
       (s.step = "resolve" /\ i = s.current => j < s.request) => st[g[Mod(s, i)][j]] # "error"
  /\ s.step = "resolve" => s.request \in 1 .. Len(g[Mod(s, s.current)]) + 1

\* The items below the circle that is being closed.
Height(s) == IF s.step \in {"names", "connect", "close"} THEN s.circle - 1 ELSE Len(s.items)

\* path: the items from the first to the current one by which the search has come.
OnPath(s, g, path) ==
  /\ path \subseteq 1 .. Height(s)
  /\ IF Height(s) = 0 THEN s.current = 0 ELSE 1 \in path /\ s.current \in path
  /\ \A p \in path : p <= s.current
  /\ \A p \in path : p # 1 => /\ Parent(s, p) \in path /\ Parent(s, p) < p
                              /\ \A r \in path : r <= Parent(s, p) \/ p <= r
  /\ \A p \in path : \A k \in p .. Height(s) : Mod(s, k) \in Leads(g, Mod(s, p))

\* The ancestor index of a module is the index of one it leads to.
Lows(s, g, low) ==
  \A i \in 1 .. Height(s) : /\ low[Mod(s, i)] <= Index(s, i)
                            /\ \E w \in 1 .. i : /\ low[Mod(s, i)] = Index(s, w)
                                                 /\ Mod(s, w) \in Leads(g, Mod(s, i))

\* An import that has been visited is linked, or lies on the stack not below the ancestor
\* index and was visited from there, or the search is still there.
Visits(s, g, low, finished, path) ==
  \A i \in 1 .. Height(s) : \A j \in 1 .. Node(s, i) - 1 :
     \/ g[Mod(s, i)][j] \in finished
     \/ \E k \in 1 .. Height(s) : /\ g[Mod(s, i)][j] = Mod(s, k) /\ low[Mod(s, i)] <= Index(s, k)
                                  /\ \A p \in path : p <= i \/ k < p
     \/ \E k \in path : Parent(s, k) = i /\ g[Mod(s, i)][j] = Mod(s, k)
     \/ i = s.current /\ s.step \in {"names", "connect"} /\ g[Mod(s, i)][j] = Mod(s, s.circle)

\* A module from which the search has returned leads back to the path.
Done(s, g, low, sc, path) ==
  \A k \in (1 .. Height(s)) \ path :
     /\ Node(s, k) > Len(g[Mod(s, k)])
     /\ low[Mod(s, k)] < Index(s, k)
     /\ sc[Mod(s, k)]
     /\ \E q \in path : /\ q < k
                        /\ \A r \in path : r <= q \/ k < r
                        /\ Mod(s, q) \in Leads(g, Mod(s, k))
                        /\ low[Mod(s, q)] <= low[Mod(s, k)]

\* A circle that is being closed: its modules lead to each other, and what they import is
\* in the circle or linked.
Circling(s, g, finished, sc, nm, bd) ==
  /\ s.circle \in 1 .. Len(s.items)
  /\ s.step \in {"names", "connect"} =>
       \A i \in s.circle .. Len(s.items) :
          /\ \A j \in s.circle .. Len(s.items) : Mod(s, j) \in Leads(g, Mod(s, i))
          /\ \A x \in ToSet(g[Mod(s, i)]) :
                x \in finished \/ \E j \in s.circle .. Len(s.items) : x = Mod(s, j)
          /\ sc[Mod(s, i)]
          /\ nm[Mod(s, i)] <=> s.step = "connect"
          /\ ~bd[Mod(s, i)]

Tree(s, g, low, sc, finished) ==
  \E path \in SUBSET (1 .. Height(s)) :
     /\ OnPath(s, g, path)
     /\ Visits(s, g, low, finished, path)
     /\ Done(s, g, low, sc, path)

Searching(s, g, st, low, sc, nm, bd, finished) ==
  /\ s.step = "error" => \A i \in 1 .. Len(s.items) : st[Mod(s, i)] \in {"linking", "error"}
  /\ s.step = "end" => s.items = <<>>
  /\ s.step \notin {"error", "end"} => /\ Items(s, g, st) /\ Counted(s, st) /\ Requested(s, g, st)
                                       /\ Lows(s, g, low)
                                       /\ Tree(s, g, low, sc, finished)
  /\ s.step \in {"names", "connect", "close"} => Circling(s, g, finished, sc, nm, bd)

\* A module is being linked while it is on the stack of the search.
Linking ==
  /\ \A k \in 1 .. Len(stack) : stack[k].call = "link" =>
       Searching(stack[k], imports, state, ancestor, scope, names, bound, Finished)
  /\ \A m \in Module : state[m] = "linking" =>
       \E k \in 1 .. Len(stack) : /\ stack[k].call = "link"
                                  /\ \E i \in 1 .. Len(stack[k].items) : m = Mod(stack[k], i)

-----------------------------------------------------------------------------
(* The modules.                                                            *)

\* What is linked leads to complete modules only.
Ready == \A m \in Finished : \A n \in Leads(imports, m) :
            scope[n] /\ names[n] /\ bound[n] /\ (n \in Finished \/ state[n] = "error")

\* A module that leads to one whose linking failed can never be linked.
Doomed(m) == \E k \in Leads(imports, m) : state[k] = "error" /\ ~(scope[k] /\ names[k] /\ bound[k])

Spoiled ==
  \A m \in Module : state[m] \in {"unlinked", "linking"} /\ (names[m] \/ bound[m]) =>
     \/ m \in Closing
     \/ At("link", "connect") /\ \E i \in Top.circle .. Len(Top.items) : m = Mod(Top, i)
     \/ Doomed(m)

IInv == /\ Types
        /\ Calling(imports, stack)
        /\ Evaluating(imports, state, stack)
        /\ Linking
        /\ Ready
        /\ Spoiled

-----------------------------------------------------------------------------
(* Lemmas about graphs.                                                    *)

WellFormed(g) == /\ g \in [Module -> Seq(Module)]
                 /\ \A m \in Module : Len(g[m]) \in Nat
                 /\ \A m \in Module : \A j \in 1 .. Len(g[m]) : g[m][j] \in Module

LEMMA GraphOf == Types => WellFormed(imports)
<1> SUFFICES ASSUME Types PROVE WellFormed(imports)
  OBVIOUS
<1>1. imports \in [Module -> Seq(Module)]
  BY GraphsAssumption DEF Types
<1> QED BY <1>1, LenProperties, ElementOfSeq DEF WellFormed

\* The imports of a module as a set and as a list.
LEMMA Listed ==
  ASSUME NEW s \in Seq(Module)
  PROVE  \A x : x \in ToSet(s) <=> \E j \in 1 .. Len(s) : x = s[j]
<1>1. DOMAIN s = 1 .. Len(s)
  OBVIOUS
<1> QED BY <1>1 DEF ToSet

LEMMA LeadsSelf == ASSUME NEW g, NEW m \in Module PROVE m \in Leads(g, m)
BY DEF Leads

LEMMA LeadsIn == ASSUME NEW g, NEW m PROVE Leads(g, m) \subseteq Module
BY DEF Leads

LEMMA LeadsImport ==
  ASSUME NEW g, NEW m \in Module, NEW x \in ToSet(g[m]), x \in Module
  PROVE  x \in Leads(g, m)
BY DEF Leads, Closed

LEMMA LeadsOn ==
  ASSUME NEW g, NEW a, NEW b \in Leads(g, a), NEW c \in Leads(g, b)
  PROVE  c \in Leads(g, a)
BY DEF Leads

LEMMA LeadsWithin ==
  ASSUME NEW g, NEW closed \in SUBSET Module, Closed(g, closed), NEW m \in closed
  PROVE  Leads(g, m) \subseteq closed
BY DEF Leads

\* What a set of modules imports from elsewhere decides where it leads.
LEMMA LeadsThrough ==
  ASSUME NEW g, NEW circle \in SUBSET Module, NEW beyond \in SUBSET Module,
         \A x \in circle : ToSet(g[x]) \subseteq circle \cup beyond,
         \A x \in Module : ToSet(g[x]) \subseteq Module,
         NEW m \in circle, NEW n \in Leads(g, m), n \notin circle
  PROVE  \E b \in beyond : n \in Leads(g, b)
<1> DEFINE closed == circle \cup {y \in Module : \E b \in beyond : y \in Leads(g, b)}
<1>1. closed \in SUBSET Module
  OBVIOUS
<1>2. Closed(g, closed)
  <2> SUFFICES ASSUME NEW x \in closed, NEW y \in ToSet(g[x])
               PROVE  y \in closed
    BY DEF Closed
  <2>1. y \in Module
    OBVIOUS
  <2>2. CASE x \in circle
    <3>1. y \in circle \/ y \in beyond
      BY <2>2
    <3>2. y \in beyond => y \in Leads(g, y)
      BY <2>1, LeadsSelf
    <3> QED BY <2>1, <3>1, <3>2
  <2>3. ASSUME NEW b \in beyond, x \in Leads(g, b)
        PROVE  y \in closed
    <3>1. x \in Module
      BY <2>3, LeadsIn
    <3>2. y \in Leads(g, x)
      BY <2>1, <3>1, LeadsImport
    <3>3. y \in Leads(g, b)
      BY <2>3, <3>2, LeadsOn
    <3> QED BY <2>1, <3>3
  <2> QED BY <2>2, <2>3
<1>3. n \in closed
  <2> HIDE DEF closed
  <2>1. m \in closed
    BY DEF closed
  <2> QED BY <1>1, <1>2, <2>1, LeadsWithin
<1> QED BY <1>3

-----------------------------------------------------------------------------
(* Lemmas about the stack.                                                 *)

LEMMA PushFrame ==
  ASSUME NEW S, NEW s \in Seq(S), NEW f \in S
  PROVE  LET t == <<f>> \o s
         IN /\ t \in Seq(S) /\ Len(t) = Len(s) + 1 /\ t[1] = f /\ t # <<>>
            /\ \A k \in 1 .. Len(s) : t[k + 1] = s[k]
            /\ \A k \in 2 .. Len(s) + 1 : t[k] = s[k - 1]
<1>1. <<f>> \in Seq(S) /\ Len(<<f>>) = 1 /\ <<f>>[1] = f
  OBVIOUS
<1>2. Len(s) \in Nat
  BY LenProperties
<1> DEFINE t == <<f>> \o s
<1>3. /\ t \in Seq(S)
      /\ Len(t) = 1 + Len(s)
      /\ \A i \in 1 .. 1 + Len(s) : t[i] = IF i <= 1 THEN <<f>>[i] ELSE s[i - 1]
  BY <1>1, ConcatProperties
<1> HIDE DEF t
<1>4. Len(t) = Len(s) + 1 /\ t[1] = f /\ t # <<>>
  BY <1>1, <1>2, <1>3, EmptySeq
<1>5. \A k \in 2 .. Len(s) + 1 : t[k] = s[k - 1]
  BY <1>1, <1>2, <1>3
<1>6. \A k \in 1 .. Len(s) : k + 1 \in 2 .. Len(s) + 1 /\ (k + 1) - 1 = k
  BY <1>2
<1>7. \A k \in 1 .. Len(s) : t[k + 1] = s[k]
  BY <1>5, <1>6
<1> QED BY <1>3, <1>4, <1>5, <1>7 DEF t

LEMMA PopFrame ==
  ASSUME NEW S, NEW s \in Seq(S), s # <<>>
  PROVE  /\ Tail(s) \in Seq(S) /\ Len(s) \in Nat \ {0} /\ Len(Tail(s)) = Len(s) - 1
         /\ \A k \in 1 .. Len(s) - 1 : Tail(s)[k] = s[k + 1]
         /\ \A k \in 2 .. Len(s) : Tail(s)[k - 1] = s[k]
         /\ s[1] \in S /\ Head(s) = s[1]
<1>1. Len(s) \in Nat \ {0}
  BY EmptySeq, LenProperties
<1>2. /\ Tail(s) \in Seq(S) /\ Len(Tail(s)) = Len(s) - 1
      /\ \A k \in 1 .. Len(Tail(s)) : Tail(s)[k] = s[k + 1]
  BY HeadTailProperties
<1>3. s[1] \in S /\ Head(s) = s[1]
  BY <1>1, ElementOfSeq
<1> QED BY <1>1, <1>2, <1>3

LEMMA ReplaceFrame ==
  ASSUME NEW S, NEW s \in Seq(S), s # <<>>, NEW f \in S
  PROVE  LET t == <<f>> \o Tail(s)
         IN /\ t \in Seq(S) /\ Len(t) = Len(s) /\ Len(s) \in Nat \ {0} /\ t[1] = f /\ t # <<>>
            /\ \A k \in 2 .. Len(s) : t[k] = s[k]
<1> DEFINE u == Tail(s)
<1>1. /\ u \in Seq(S) /\ Len(s) \in Nat \ {0} /\ Len(u) = Len(s) - 1
      /\ \A k \in 2 .. Len(s) : u[k - 1] = s[k]
  BY PopFrame
<1> HIDE DEF u
<1> DEFINE t == <<f>> \o u
<1>2. /\ t \in Seq(S) /\ Len(t) = Len(u) + 1 /\ t[1] = f /\ t # <<>>
      /\ \A k \in 2 .. Len(u) + 1 : t[k] = u[k - 1]
  BY <1>1, PushFrame
<1> HIDE DEF t
<1>3. Len(t) = Len(s) /\ \A k \in 2 .. Len(s) : t[k] = s[k]
  BY <1>1, <1>2
<1> QED BY <1>1, <1>2, <1>3 DEF t, u

\* The frame on top ends and the one below goes on.
LEMMA ReplaceTwo ==
  ASSUME NEW S, NEW s \in Seq(S), Len(s) > 1, NEW f \in S
  PROVE  LET t == <<f>> \o Tail(Tail(s))
         IN /\ t \in Seq(S) /\ Len(t) = Len(s) - 1 /\ Len(s) \in Nat /\ t[1] = f /\ t # <<>>
            /\ \A k \in 2 .. Len(s) - 1 : t[k] = s[k + 1]
<1> DEFINE u == Tail(s)
<1>1. Len(s) \in Nat /\ s # <<>>
  BY LenProperties, EmptySeq
<1>2. /\ u \in Seq(S) /\ Len(u) = Len(s) - 1
      /\ \A k \in 1 .. Len(s) - 1 : u[k] = s[k + 1]
  BY <1>1, PopFrame
<1> HIDE DEF u
<1>3. u # <<>>
  BY <1>1, <1>2, EmptySeq
<1> DEFINE t == <<f>> \o Tail(u)
<1>4. /\ t \in Seq(S) /\ Len(t) = Len(u) /\ t[1] = f /\ t # <<>>
      /\ \A k \in 2 .. Len(u) : t[k] = u[k]
  BY <1>2, <1>3, ReplaceFrame
<1> HIDE DEF t
<1>5. \A k \in 2 .. Len(s) - 1 : t[k] = s[k + 1]
  BY <1>1, <1>2, <1>4
<1> QED BY <1>1, <1>2, <1>4, <1>5 DEF t, u

\* The kinds of frames.
LEMMA FrameKinds ==
  ASSUME NEW f \in Frame
  PROVE  /\ f.call \in {"link", "evaluate", "host"}
         /\ f.call = "link" => f \in LinkFrame
         /\ f.call = "evaluate" => f \in EvaluateFrame
         /\ f.call = "host" => f \in HostFrame
BY DEF Frame, LinkFrame, EvaluateFrame, HostFrame

LEMMA TopFrame ==
  ASSUME Types, stack # <<>>
  PROVE  Top = stack[1] /\ Top \in Frame /\ Len(stack) \in Nat \ {0} /\ 1 \in 1 .. Len(stack)
<1>1. stack \in Seq(Frame)
  BY DEF Types
<1> QED BY <1>1, PopFrame DEF Top

\* What a search frame consists of.
LEMMA SearchFields ==
  ASSUME NEW s \in LinkFrame
  PROVE  /\ s.call = "link" /\ s.step \in LinkStep /\ s.items \in Seq(ItemType) /\ s.current \in Nat
         /\ s.index \in Nat /\ s.request \in Nat /\ s.circle \in Nat
         /\ Len(s.items) \in Nat
         /\ s.items = <<>> <=> Len(s.items) = 0
         /\ \A i \in 1 .. Len(s.items) : /\ Mod(s, i) \in Module /\ Node(s, i) \in Nat
                                         /\ Parent(s, i) \in Nat /\ Index(s, i) \in Nat
                                         /\ s.items[i] \in ItemType
<1>1. /\ s.call = "link" /\ s.step \in LinkStep /\ s.items \in Seq(ItemType) /\ s.current \in Nat
      /\ s.index \in Nat /\ s.request \in Nat /\ s.circle \in Nat
  BY DEF LinkFrame
<1>2. Len(s.items) \in Nat /\ (s.items = <<>> <=> Len(s.items) = 0)
  BY <1>1, LenProperties, EmptySeq
<1>3. \A i \in 1 .. Len(s.items) : s.items[i] \in ItemType
  BY <1>1, ElementOfSeq
<1>4. \A t \in ItemType : t.module \in Module /\ t.node \in Nat /\ t.parent \in Nat /\ t.index \in Nat
  BY DEF ItemType
<1> QED BY <1>1, <1>2, <1>3, <1>4 DEF Mod, Node, Parent, Index

LEMMA LinkOnTop ==
  ASSUME Types, Calling(imports, stack), Calls("link")
  PROVE  /\ Top = stack[1] /\ Top \in LinkFrame /\ stack # <<>> /\ Len(stack) \in Nat \ {0}
         /\ 1 \in 1 .. Len(stack)
         /\ \A k \in 1 .. Len(stack) : stack[k].call = "link" => k = 1
         /\ \A k \in 1 .. Len(stack) : ~Resolving(stack[k])
<1>1. stack # <<>> /\ Top.call = "link"
  BY DEF Calls
<1>2. Top = stack[1] /\ Top \in Frame /\ Len(stack) \in Nat \ {0} /\ 1 \in 1 .. Len(stack)
  BY <1>1, TopFrame
<1>3. Top \in LinkFrame
  BY <1>1, <1>2, FrameKinds
<1>4. ~Resolving(stack[1])
  BY <1>1, <1>2 DEF Resolving
<1> QED BY <1>1, <1>2, <1>3, <1>4 DEF Calling

\* The modules about to be announced as linked are those of the circle on the stack.
ClosingOf(s) == IF s.step = "close" THEN {m \in Module : \E i \in s.circle .. Len(s.items) : m = Mod(s, i)}
                ELSE {}

ClosingTold == Closing = IF Calls("link") THEN ClosingOf(Top) ELSE {}

LEMMA ClosingIs ==
  ASSUME Types, Calling(imports, stack),
         \A k \in 1 .. Len(stack) : stack[k].call = "link" /\ stack[k].step = "close" =>
            stack[k].circle \in 1 .. Len(stack[k].items)
  PROVE  ClosingTold
<1>1. \A x : x \in Closing <=> \E k \in Searches : /\ stack[k].step = "close"
                                                   /\ \E i \in stack[k].circle .. Len(stack[k].items) :
                                                         x = stack[k].items[i].module
  BY DEF Closing
<1>2. DOMAIN stack = 1 .. Len(stack) /\ Len(stack) \in Nat
  BY LenProperties DEF Types
<1>3. CASE Calls("link")
  <2>1. /\ Top = stack[1] /\ Top \in LinkFrame /\ 1 \in 1 .. Len(stack)
        /\ \A k \in 1 .. Len(stack) : stack[k].call = "link" => k = 1
    BY <1>3, LinkOnTop
  <2>2. Searches = {1}
    BY <1>2, <1>3, <2>1 DEF Searches, Calls
  <2>3. \A x : x \in Closing <=> /\ Top.step = "close"
                                 /\ \E i \in Top.circle .. Len(Top.items) : x = Mod(Top, i)
    BY <1>1, <2>1, <2>2 DEF Mod
  <2>4. Top.step = "close" => \A i \in Top.circle .. Len(Top.items) : Mod(Top, i) \in Module
    <3>1. Top.step = "close" => Top.circle \in 1 .. Len(Top.items)
      BY <1>3, <2>1 DEF Calls
    <3>2. \A i \in 1 .. Len(Top.items) : Mod(Top, i) \in Module
      BY <2>1, SearchFields
    <3>3. Len(Top.items) \in Nat
      BY <2>1, SearchFields
    <3> QED BY <3>1, <3>2, <3>3
  <2> QED BY <1>3, <2>3, <2>4 DEF ClosingTold, ClosingOf
<1>4. CASE ~Calls("link")
  <2>1. ASSUME NEW k \in Searches
        PROVE  stack[k].step = "resolve"
    <3>1. k \in 1 .. Len(stack) /\ stack[k].call = "link" /\ stack # <<>>
      BY <1>2, EmptySeq DEF Searches, Types
    <3>2. k # 1
      BY <1>4, <3>1, TopFrame DEF Calls
    <3>3. k = 2 /\ Resolving(stack[1]) /\ 1 \in 1 .. Len(stack)
      BY <1>2, <3>1, <3>2 DEF Calling
    <3> QED BY <3>3 DEF Calling
  <2> QED BY <1>1, <1>4, <2>1 DEF ClosingTold
<1> QED BY <1>3, <1>4

\* The stack is in order as far as Closing depends on it.
Framed == /\ Types /\ Calling(imports, stack)
          /\ \A k \in 1 .. Len(stack) : stack[k].call = "link" /\ stack[k].step = "close" =>
                stack[k].circle \in 1 .. Len(stack[k].items)

LEMMA ClosingFramed == ASSUME Framed PROVE ClosingTold
BY ClosingIs DEF Framed

LEMMA ClosingFramedPrime == ASSUME Framed' PROVE ClosingTold'
BY ClosingFramed, PTL

LinkedStates == {"linked", "evaluating", "evaluated"}

\* What is known while a search runs.
LEMMA InSearch ==
  ASSUME IInv, Calls("link")
  PROVE  /\ Top = stack[1] /\ Top \in LinkFrame /\ stack # <<>> /\ Len(stack) \in Nat \ {0}
         /\ Searching(Top, imports, state, ancestor, scope, names, bound, Finished)
         /\ Finished = {m \in Module : state[m] \in LinkedStates \/ m \in ClosingOf(Top)}
         /\ Closing = ClosingOf(Top)
         /\ \A m \in Module : state[m] = "linking" => \E i \in 1 .. Len(Top.items) : m = Mod(Top, i)
         /\ \A k \in 1 .. Len(stack) : stack[k].call = "link" => k = 1
<1>1. /\ Top = stack[1] /\ Top \in LinkFrame /\ stack # <<>> /\ Len(stack) \in Nat \ {0}
      /\ 1 \in 1 .. Len(stack) /\ stack[1].call = "link"
      /\ \A k \in 1 .. Len(stack) : stack[k].call = "link" => k = 1
  BY LinkOnTop DEF IInv, Calls
<1>2. Searching(Top, imports, state, ancestor, scope, names, bound, Finished)
  BY <1>1 DEF IInv, Linking
<1>3. Framed
  BY <1>1, <1>2 DEF IInv, Framed, Searching, Circling
<1>4. Closing = ClosingOf(Top)
  BY <1>3, ClosingFramed DEF ClosingTold
<1>5. Finished = {m \in Module : state[m] \in LinkedStates \/ m \in ClosingOf(Top)}
  BY <1>4 DEF Finished, LinkedStates
<1>6. \A m \in Module : state[m] = "linking" => \E i \in 1 .. Len(Top.items) : m = Mod(Top, i)
  BY <1>1 DEF IInv, Linking
<1> QED BY <1>1, <1>2, <1>4, <1>5, <1>6

\* The evaluations below a search are not touched by it.
SameEvaluations(s, t, d) ==
  /\ \A k \in 1 .. Len(t) : t[k].call = "evaluate" => k + d \in 1 .. Len(s) /\ t[k] = s[k + d]
  /\ \A k \in 1 .. Len(s) : Active(s[k]) => k - d \in 1 .. Len(t) /\ t[k - d] = s[k]

OthersKept(st, st2) ==
  \A m \in Module : /\ st[m] \in {"evaluating", "evaluated", "error"} => st2[m] = st[m]
                    /\ st2[m] = "evaluating" => st[m] = "evaluating"

LEMMA EvaluationsKept ==
  ASSUME NEW g, NEW st, NEW st2, NEW s \in Seq(Frame), NEW t \in Seq(Frame), NEW d \in {-1, 0, 1},
         SameEvaluations(s, t, d), OthersKept(st, st2), WellFormed(g), Evaluating(g, st, s)
  PROVE  Evaluating(g, st2, t)
<1> USE DEF SameEvaluations, OthersKept, WellFormed
<1>1. Len(s) \in Nat /\ Len(t) \in Nat
  BY LenProperties
<1>2. \A k \in 1 .. Len(s) : s[k].call = "evaluate" =>
         /\ s[k].module \in Module /\ s[k].node \in Nat /\ s[k].step \in EvaluateStep
  BY ElementOfSeq, FrameKinds DEF EvaluateFrame
<1>3. \A k \in 1 .. Len(s) : s[k].call = "evaluate" =>
         /\ s[k].node \in 1 .. Len(g[s[k].module]) + 1
         /\ Active(s[k]) => st[s[k].module] = "evaluating"
         /\ ~Active(s[k]) => st[s[k].module] = s[k].step
         /\ s[k].step = "body" => s[k].node > Len(g[s[k].module])
  BY DEF Evaluating
<1>4. \A k \in 1 .. Len(s) : s[k].call = "evaluate" => st2[s[k].module] = st[s[k].module]
  BY <1>2, <1>3 DEF EvaluateStep, Active
<1>5. \A k \in 1 .. Len(t) : t[k].call = "evaluate" =>
       /\ t[k].node \in 1 .. Len(g[t[k].module]) + 1
       /\ Active(t[k]) => st2[t[k].module] = "evaluating"
       /\ ~Active(t[k]) => st2[t[k].module] = t[k].step
       /\ t[k].step = "body" => t[k].node > Len(g[t[k].module])
  <2> SUFFICES ASSUME NEW k \in 1 .. Len(t), t[k].call = "evaluate"
               PROVE  /\ t[k].node \in 1 .. Len(g[t[k].module]) + 1
                      /\ Active(t[k]) => st2[t[k].module] = "evaluating"
                      /\ ~Active(t[k]) => st2[t[k].module] = t[k].step
                      /\ t[k].step = "body" => t[k].node > Len(g[t[k].module])
    OBVIOUS
  <2>1. PICK l \in 1 .. Len(s) : t[k] = s[l]
    OBVIOUS
  <2>2. s[l].call = "evaluate"
    BY <2>1
  <2>3. /\ s[l].node \in 1 .. Len(g[s[l].module]) + 1
        /\ Active(s[l]) => st[s[l].module] = "evaluating"
        /\ ~Active(s[l]) => st[s[l].module] = s[l].step
        /\ s[l].step = "body" => s[l].node > Len(g[s[l].module])
        /\ st2[s[l].module] = st[s[l].module]
    BY <1>3, <1>4, <2>2, Zenon
  <2> HIDE DEF SameEvaluations, OthersKept, WellFormed
  <2> QED BY <2>1, <2>3
<1>6. ASSUME NEW k \in 1 .. Len(t), NEW l \in 1 .. Len(t), Active(t[k]), Active(t[l]),
             t[k].module = t[l].module
      PROVE  k = l
  <2>1. /\ k + d \in 1 .. Len(s) /\ t[k] = s[k + d] /\ l + d \in 1 .. Len(s) /\ t[l] = s[l + d]
    BY <1>6 DEF Active
  <2>2. k + d = l + d
    BY <1>6, <2>1 DEF Evaluating
  <2> QED BY <2>2
<1>7. ASSUME NEW m \in Module, st2[m] = "evaluating"
      PROVE  \E k \in 1 .. Len(t) : Active(t[k]) /\ t[k].module = m
  <2>1. PICK k \in 1 .. Len(s) : Active(s[k]) /\ s[k].module = m
    BY <1>7 DEF Evaluating
  <2>2. k - d \in 1 .. Len(t) /\ t[k - d] = s[k]
    BY <2>1 DEF Active
  <2> QED BY <2>1, <2>2
<1>8. ASSUME NEW k \in 1 .. Len(t), Active(t[k]), NEW j \in 1 .. t[k].node - 1
      PROVE  \/ st2[g[t[k].module][j]] = "evaluated"
             \/ \E l \in k .. Len(t) : Active(t[l]) /\ t[l].module = g[t[k].module][j]
  <2>1. k + d \in 1 .. Len(s) /\ t[k] = s[k + d] /\ Active(s[k + d])
    BY <1>8 DEF Active
  <2>2. g[t[k].module][j] \in Module
    <3>1. t[k].module \in Module /\ t[k].node \in 1 .. Len(g[t[k].module]) + 1 /\ Len(g[t[k].module]) \in Nat
      BY <1>2, <1>5, <1>8, <2>1 DEF Active
    <3>2. j \in 1 .. Len(g[t[k].module])
      BY <1>8, <3>1
    <3> QED BY <3>1, <3>2
  <2>3. \/ st[g[t[k].module][j]] = "evaluated"
        \/ \E l \in k + d .. Len(s) : Active(s[l]) /\ s[l].module = g[t[k].module][j]
    <3> HIDE DEF SameEvaluations, OthersKept, WellFormed
    <3>1. j \in 1 .. s[k + d].node - 1
      BY <1>8, <2>1
    <3>2. \/ st[g[s[k + d].module][j]] = "evaluated"
          \/ \E l \in k + d .. Len(s) : Active(s[l]) /\ s[l].module = g[s[k + d].module][j]
      BY <2>1, <3>1 DEF Evaluating
    <3> QED BY <2>1, <3>2
  <2>4. ASSUME NEW l \in k + d .. Len(s), Active(s[l]), s[l].module = g[t[k].module][j]
        PROVE  \E n \in k .. Len(t) : Active(t[n]) /\ t[n].module = g[t[k].module][j]
    <3>1. l \in 1 .. Len(s)
      BY <1>1, <2>1
    <3>2. l - d \in 1 .. Len(t) /\ t[l - d] = s[l]
      BY <2>4, <3>1 DEF Active
    <3>3. l - d \in k .. Len(t)
      BY <1>1, <3>2
    <3> QED BY <2>4, <3>2, <3>3
  <2> QED BY <2>2, <2>3, <2>4
<1> QED BY <1>5, <1>6, <1>7, <1>8 DEF Evaluating

\* The search goes on with another frame.
SearchState == OthersKept(state, state')

LEMMA SearchFrames ==
  ASSUME IInv, Calls("link"), NEW f \in LinkFrame, stack' = <<f>> \o Tail(stack),
         Types', imports' = imports, SearchState,
         f.step = "close" => f.circle \in 1 .. Len(f.items)
  PROVE  /\ Calling(imports, stack)'
         /\ Evaluating(imports, state, stack)'
         /\ Calls("link")' /\ Top' = f /\ stack'[1] = f
         /\ Finished' = {m \in Module : state'[m] \in LinkedStates \/ m \in ClosingOf(f)}
         /\ Closing' = ClosingOf(f)
         /\ \A k \in 1 .. Len(stack') : stack'[k].call = "link" => k = 1
         /\ 1 \in 1 .. Len(stack')
<1>1. /\ Top = stack[1] /\ stack \in Seq(Frame) /\ stack # <<>> /\ Len(stack) \in Nat \ {0}
      /\ \A k \in 1 .. Len(stack) : stack[k].call = "link" => k = 1
      /\ \A k \in 1 .. Len(stack) : ~Resolving(stack[k])
      /\ stack[1].call = "link"
  BY LinkOnTop DEF IInv, Types, Calls
<1>2. f \in Frame /\ f.call = "link"
  BY DEF Frame, LinkFrame
<1>3. /\ stack' \in Seq(Frame) /\ Len(stack') = Len(stack) /\ stack'[1] = f /\ stack' # <<>>
      /\ \A k \in 2 .. Len(stack) : stack'[k] = stack[k]
  BY <1>1, <1>2, ReplaceFrame
<1>4. Calls("link")' /\ Top' = f
  BY <1>2, <1>3 DEF Calls, Top
<1>5. \A k \in 1 .. Len(stack') : k = 1 \/ (k \in 2 .. Len(stack) /\ stack'[k] = stack[k])
  BY <1>1, <1>3
<1>6. \A k \in 1 .. Len(stack') : stack'[k].call = "link" => k = 1
  BY <1>1, <1>5
<1>7. \A k \in 1 .. Len(stack') : ~Resolving(stack'[k])
  BY <1>1, <1>2, <1>3, <1>5 DEF Resolving
<1>8. Calling(imports, stack)'
  <2>1. Calling(imports, stack)
    BY DEF IInv
  <2>2. ASSUME NEW k \in 1 .. Len(stack'), stack'[k].call = "evaluate", stack'[k].step = "imports", k > 1
        PROVE  /\ stack'[k].node <= Len(imports[stack'[k].module])
               /\ stack'[k - 1].call = "evaluate"
               /\ stack'[k - 1].module = imports[stack'[k].module][stack'[k].node]
    <3>1. k \in 2 .. Len(stack) /\ stack'[k] = stack[k]
      BY <1>5, <2>2
    <3>2. /\ stack[k].node <= Len(imports[stack[k].module])
          /\ stack[k - 1].call = "evaluate"
          /\ stack[k - 1].module = imports[stack[k].module][stack[k].node]
      BY <2>1, <2>2, <3>1 DEF Calling
    <3>3. k - 1 # 1
      BY <1>1, <3>2
    <3>4. k - 1 \in 2 .. Len(stack)
      BY <1>1, <3>1, <3>3
    <3> QED BY <1>3, <3>1, <3>2, <3>4
  <2> QED BY <1>6, <1>7, <2>2 DEF Calling
<1>9. Evaluating(imports, state, stack)'
  <2>1. WellFormed(imports)
    BY GraphOf DEF IInv
  <2> PICK d \in {-1, 0, 1} : d = 0
    OBVIOUS
  <2>2. \A k \in 1 .. Len(stack') : stack'[k].call = "evaluate" =>
           k + d \in 1 .. Len(stack) /\ stack'[k] = stack[k + d]
    BY <1>1, <1>2, <1>3, <1>5
  <2>3. \A k \in 1 .. Len(stack) : stack[k].call = "evaluate" =>
           k - d \in 1 .. Len(stack') /\ stack'[k - d] = stack[k]
    BY <1>1, <1>3
  <2>4. Evaluating(imports, state, stack)
    BY DEF IInv
  <2>5. SameEvaluations(stack, stack', d)
    BY <2>2, <2>3 DEF SameEvaluations, Active
  <2>6. Evaluating(imports, state', stack')
    BY <1>1, <1>3, <2>1, <2>4, <2>5, EvaluationsKept DEF SearchState
  <2> QED BY <2>6
<1>10. Framed'
  <2>1. \A k \in 1 .. Len(stack') : stack'[k].call = "link" /\ stack'[k].step = "close" =>
                stack'[k].circle \in 1 .. Len(stack'[k].items)
    BY <1>3, <1>6
  <2> QED BY <1>8, <2>1 DEF Framed
<1>11. Closing' = ClosingOf(f)
  BY <1>4, <1>10, ClosingFramedPrime DEF ClosingTold
<1>12. Finished' = {m \in Module : state'[m] \in LinkedStates \/ m \in ClosingOf(f)}
  BY <1>11 DEF Finished, LinkedStates
<1>13. 1 \in 1 .. Len(stack')
  BY <1>1, <1>3
<1> QED BY <1>3, <1>4, <1>6, <1>8, <1>9, <1>11, <1>12, <1>13

LEMMA SearchLinks ==
  ASSUME NEW f, 1 \in 1 .. Len(stack'), stack'[1] = f, f.call = "link",
         \A k \in 1 .. Len(stack') : stack'[k].call = "link" => k = 1,
         Searching(f, imports', state', ancestor', scope', names', bound', Finished'),
         \A m \in Module : state'[m] = "linking" => \E i \in 1 .. Len(f.items) : m = Mod(f, i)
  PROVE  Linking'
<1>1. \A k \in 1 .. Len(stack') : stack'[k].call = "link" =>
        Searching(stack'[k], imports', state', ancestor', scope', names', bound', Finished')
  OBVIOUS
<1>2. \A m \in Module : state'[m] = "linking" =>
       \E k \in 1 .. Len(stack') : /\ stack'[k].call = "link"
                                   /\ \E i \in 1 .. Len(stack'[k].items) : m = Mod(stack'[k], i)
  OBVIOUS
<1> QED BY <1>1, <1>2 DEF Linking

\* What is finished stays ready while nothing else becomes so.
LEMMA ReadyKept ==
  ASSUME IInv, imports' = imports, Finished' = Finished,
         \A m \in Module : /\ state[m] = "error" => state'[m] = "error"
                           /\ scope[m] => scope'[m]
                           /\ names[m] => names'[m]
                           /\ bound[m] => bound'[m]
  PROVE  Ready'
<1>1. \A m \in Finished : \A n \in Leads(imports, m) : n \in Module
  BY LeadsIn
<1> QED BY <1>1 DEF IInv, Ready

\* Names and bindings that a failure leaves behind stay those of a doomed module.
LEMMA SpoiledKept ==
  ASSUME IInv, imports' = imports, names' = names, bound' = bound,
         \A m \in Module : /\ state[m] = "error" => state'[m] = "error" /\ scope'[m] = scope[m]
                           /\ state'[m] \in {"unlinked", "linking"} => state[m] \in {"unlinked", "linking"}
                           /\ m \in Closing /\ state'[m] \in {"unlinked", "linking"} => m \in Closing',
         ~At("link", "connect")
  PROVE  Spoiled'
<1>1. ASSUME NEW m \in Module, Doomed(m)
      PROVE  \E k \in Leads(imports, m) : state'[k] = "error" /\ ~(scope'[k] /\ names[k] /\ bound[k])
  <2>1. PICK k \in Leads(imports, m) : state[k] = "error" /\ ~(scope[k] /\ names[k] /\ bound[k])
    BY <1>1 DEF Doomed
  <2>2. k \in Module
    BY LeadsIn
  <2> QED BY <2>1, <2>2
<1> SUFFICES ASSUME NEW m \in Module, state'[m] \in {"unlinked", "linking"}, names'[m] \/ bound'[m],
                    m \notin Closing'
             PROVE  \E k \in Leads(imports', m) : state'[k] = "error" /\ ~(scope'[k] /\ names'[k] /\ bound'[k])
  BY DEF Spoiled, Doomed
<1>2. state[m] \in {"unlinked", "linking"} /\ (names[m] \/ bound[m]) /\ m \notin Closing
  OBVIOUS
<1>3. Doomed(m)
  BY <1>2 DEF IInv, Spoiled
<1> QED BY <1>1, <1>3

-----------------------------------------------------------------------------
(* The steps of a search.                                                  *)

\* Where the search stands: the current item is one of the items on the stack.
LEMMA CurrentItem ==
  ASSUME NEW s \in LinkFrame, s.step \in {"resolve", "visit"}, NEW g, NEW st, NEW low, NEW sc, NEW nm,
         NEW bd, NEW finished, Searching(s, g, st, low, sc, nm, bd, finished)
  PROVE  /\ s.current \in 1 .. Len(s.items) /\ Height(s) = Len(s.items)
         /\ Items(s, g, st) /\ Counted(s, st) /\ Requested(s, g, st) /\ Lows(s, g, low)
         /\ Tree(s, g, low, sc, finished)
         /\ Mod(s, s.current) \in Module /\ Node(s, s.current) \in Nat
         /\ Parent(s, s.current) \in Nat /\ Index(s, s.current) \in Nat
         /\ s.items[s.current] = [module |-> Mod(s, s.current), node |-> Node(s, s.current),
                                  parent |-> Parent(s, s.current), index |-> Index(s, s.current)]
<1>1. /\ Items(s, g, st) /\ Counted(s, st) /\ Requested(s, g, st) /\ Lows(s, g, low)
      /\ Tree(s, g, low, sc, finished)
  BY DEF Searching
<1>2. Height(s) = Len(s.items) /\ Len(s.items) # 0
  BY <1>1, SearchFields DEF Height, Items
<1>3. s.current \in 1 .. Len(s.items)
  BY <1>1, <1>2 DEF Tree, OnPath
<1>4. s.items[s.current] \in ItemType
  BY <1>3, SearchFields
<1>5. \A t \in ItemType : t = [module |-> t.module, node |-> t.node, parent |-> t.parent, index |-> t.index]
  BY DEF ItemType
<1>6. s.items[s.current] = [module |-> Mod(s, s.current), node |-> Node(s, s.current),
                            parent |-> Parent(s, s.current), index |-> Index(s, s.current)]
  BY <1>4, <1>5 DEF Mod, Node, Parent, Index
<1> QED BY <1>1, <1>2, <1>3, <1>6, SearchFields

\* The search stays at its item.
LEMMA SearchStays ==
  ASSUME NEW s \in LinkFrame, NEW f \in LinkFrame, s.step \in {"resolve", "visit"},
         f.step \in {"resolve", "visit"}, f.items = s.items, f.current = s.current, f.index = s.index,
         NEW g, NEW st, NEW low, NEW sc, NEW finished
  PROVE  /\ Items(s, g, st) => Items(f, g, st)
         /\ Counted(s, st) => Counted(f, st)
         /\ Lows(s, g, low) => Lows(f, g, low)
         /\ Tree(s, g, low, sc, finished) => Tree(f, g, low, sc, finished)
<1>1. Height(s) = Len(s.items) /\ Height(f) = Len(s.items)
  BY DEF Height
<1>2. /\ \A i : Mod(f, i) = Mod(s, i)
      /\ \A i : Node(f, i) = Node(s, i)
      /\ \A i : Parent(f, i) = Parent(s, i)
      /\ \A i : Index(f, i) = Index(s, i)
  BY DEF Mod, Node, Parent, Index
<1>3. Items(s, g, st) => Items(f, g, st)
  BY <1>2 DEF Items
<1>4. Counted(s, st) => Counted(f, st)
  BY DEF Counted
<1>5. Lows(s, g, low) => Lows(f, g, low)
  BY <1>1, <1>2 DEF Lows
<1>6. ASSUME Tree(s, g, low, sc, finished)
      PROVE  Tree(f, g, low, sc, finished)
  <2>1. PICK path \in SUBSET (1 .. Height(s)) :
             OnPath(s, g, path) /\ Visits(s, g, low, finished, path) /\ Done(s, g, low, sc, path)
    BY <1>6 DEF Tree
  <2>2. OnPath(f, g, path)
    BY <1>1, <1>2, <2>1 DEF OnPath
  <2>3. Visits(f, g, low, finished, path)
    BY <1>1, <1>2, <2>1 DEF Visits
  <2>4. Done(f, g, low, sc, path)
    BY <1>1, <1>2, <2>1 DEF Done
  <2> QED BY <1>1, <2>2, <2>3, <2>4 DEF Tree
<1> QED BY <1>3, <1>4, <1>5, <1>6

\* The search takes the module that a request has led to.
LEMMA Takes ==
  ASSUME NEW s \in LinkFrame, s.step = "resolve", NEW low, NEW sc, NEW nm, NEW bd, NEW finished,
         Searching(s, imports, state, low, sc, nm, bd, finished), WellFormed(imports),
         s.request <= Len(imports[Mod(s, s.current)]),
         NEW f, f = TakeModule(s)
  PROVE  /\ f \in LinkFrame /\ f.items = s.items /\ f.step \in {"resolve", "error"}
         /\ Searching(f, imports, state, low, sc, nm, bd, finished)
<1>1. /\ s.current \in 1 .. Len(s.items) /\ Mod(s, s.current) \in Module
      /\ Items(s, imports, state) /\ Counted(s, state) /\ Requested(s, imports, state)
      /\ Lows(s, imports, low) /\ Tree(s, imports, low, sc, finished)
  BY CurrentItem
<1>2. s.request \in 1 .. Len(imports[Mod(s, s.current)]) /\ Len(imports[Mod(s, s.current)]) \in Nat
  BY <1>1 DEF Requested, WellFormed
<1> DEFINE x == imports[Mod(s, s.current)][s.request]
<1>3. f = IF state[x] = "error" THEN [s EXCEPT !.step = "error"] ELSE [s EXCEPT !.request = @ + 1]
  BY DEF TakeModule, Mod
<1> HIDE DEF x
<1>4. CASE state[x] = "error"
  <2>1. f \in LinkFrame /\ f.items = s.items /\ f.step = "error"
    BY <1>3, <1>4 DEF LinkFrame, LinkStep
  <2>2. \A i \in 1 .. Len(s.items) : Mod(f, i) = Mod(s, i) /\ state[Mod(s, i)] = "linking"
    BY <1>1, <2>1 DEF Items, Mod
  <2> QED BY <2>1, <2>2 DEF Searching
<1>5. CASE state[x] # "error"
  <2>1. /\ f \in LinkFrame /\ f.items = s.items /\ f.step = "resolve" /\ f.request = s.request + 1
        /\ f.current = s.current /\ f.index = s.index
    BY <1>3, <1>5 DEF LinkFrame
  <2>2. \A i : Mod(f, i) = Mod(s, i)
    BY <2>1 DEF Mod
  <2>3. Requested(f, imports, state)
    <3>1. ASSUME NEW i \in 1 .. Len(s.items), NEW j \in 1 .. Len(imports[Mod(s, i)]),
                 i = s.current => j < s.request + 1
          PROVE  state[imports[Mod(s, i)][j]] # "error"
      <4>1. CASE i = s.current /\ j = s.request
        BY <1>5, <4>1 DEF x
      <4>2. CASE ~(i = s.current /\ j = s.request)
        <5>1. i = s.current => j < s.request
          BY <1>2, <3>1, <4>2
        <5> QED BY <1>1, <5>1 DEF Requested
      <4> QED BY <4>1, <4>2
    <3>2. s.request + 1 \in 1 .. Len(imports[Mod(s, s.current)]) + 1
      BY <1>2
    <3> QED BY <2>1, <2>2, <3>1, <3>2 DEF Requested
  <2>4. Items(f, imports, state) /\ Counted(f, state) /\ Lows(f, imports, low)
        /\ Tree(f, imports, low, sc, finished)
    BY <1>1, <2>1, SearchStays
  <2> QED BY <2>1, <2>3, <2>4 DEF Searching
<1> QED BY <1>4, <1>5

\* A step of the search that changes its frame only.
LEMMA FrameStep ==
  ASSUME IInv, Calls("link"), NEW f \in LinkFrame, stack' = <<f>> \o Tail(stack),
         UNCHANGED <<linkage, state, code>>, f.items = Top.items,
         Top.step \notin {"close", "connect"}, f.step # "close",
         Searching(f, imports, state, ancestor, scope, names, bound, Finished)
  PROVE  IInv'
<1>1. UNCHANGED <<imports, resolved, state, ancestor, scope, names, bound, code>>
  BY DEF linkage
<1>2. /\ Top \in LinkFrame /\ stack \in Seq(Frame) /\ stack # <<>>
      /\ Closing = ClosingOf(Top)
      /\ Finished = {m \in Module : state[m] \in LinkedStates \/ m \in ClosingOf(Top)}
      /\ \A m \in Module : state[m] = "linking" => \E i \in 1 .. Len(Top.items) : m = Mod(Top, i)
  BY InSearch DEF IInv, Types
<1>3. stack' \in Seq(Frame)
  BY <1>2, ReplaceFrame DEF Frame
<1>4. Types'
  BY <1>1, <1>3 DEF IInv, Types
<1>5. SearchState
  BY <1>1 DEF SearchState, OthersKept
<1>6. /\ Calling(imports, stack)' /\ Evaluating(imports, state, stack)'
      /\ Calls("link")' /\ Top' = f /\ stack'[1] = f
      /\ Finished' = {m \in Module : state'[m] \in LinkedStates \/ m \in ClosingOf(f)}
      /\ Closing' = ClosingOf(f)
      /\ \A k \in 1 .. Len(stack') : stack'[k].call = "link" => k = 1
      /\ 1 \in 1 .. Len(stack')
  BY <1>1, <1>4, <1>5, SearchFrames
<1>7. Closing' = {} /\ Closing = {} /\ Finished' = Finished
  BY <1>1, <1>2, <1>6 DEF ClosingOf
<1>8. \A i : Mod(f, i) = Mod(Top, i)
  BY DEF Mod
<1>9. Linking'
  BY <1>1, <1>2, <1>6, <1>7, <1>8, SearchLinks DEF LinkFrame
<1>10. Ready'
  BY <1>1, <1>7, ReadyKept
<1>11. Spoiled'
  <2>1. ~At("link", "connect")
    BY DEF At
  <2> QED BY <1>1, <1>7, <2>1, SpoiledKept
<1> QED BY <1>4, <1>6, <1>9, <1>10, <1>11 DEF IInv

LEMMA ResolveKnownPreserves == ASSUME IInv, ResolveKnown PROVE IInv'
<1> PICK s : s = Top
  OBVIOUS
<1>1. Calls("link") /\ s.step = "resolve" /\ s.request <= resolved[Current.module]
      /\ stack' = <<TakeModule(s)>> \o Tail(stack) /\ UNCHANGED <<linkage, state, code>>
  BY DEF ResolveKnown, At, Become
<1>2. /\ s \in LinkFrame
      /\ Searching(s, imports, state, ancestor, scope, names, bound, Finished)
  BY <1>1, InSearch
<1>3. Current.module = Mod(s, s.current) /\ Mod(s, s.current) \in Module /\ WellFormed(imports)
  BY <1>1, <1>2, CurrentItem, GraphOf DEF Current, Mod, IInv
<1>4. s.request <= Len(imports[Mod(s, s.current)])
  <2>1. resolved[Mod(s, s.current)] \in Nat /\ resolved[Mod(s, s.current)] <= Len(imports[Mod(s, s.current)])
    BY <1>3 DEF IInv, Types
  <2>2. s.request \in Nat /\ Len(imports[Mod(s, s.current)]) \in Nat
    BY <1>2, <1>3, SearchFields DEF WellFormed
  <2> QED BY <1>1, <1>3, <2>1, <2>2
<1> PICK f : f = TakeModule(s)
  OBVIOUS
<1>5. /\ f \in LinkFrame /\ f.items = s.items /\ f.step \in {"resolve", "error"}
      /\ Searching(f, imports, state, ancestor, scope, names, bound, Finished)
  BY <1>1, <1>2, <1>3, <1>4, Takes
<1> QED BY <1>1, <1>5, FrameStep

LEMMA AllResolvedPreserves == ASSUME IInv, AllResolved PROVE IInv'
<1> PICK s : s = Top
  OBVIOUS
<1>1. Calls("link") /\ s.step = "resolve" /\ s.request > Len(imports[Current.module])
      /\ stack' = <<[s EXCEPT !.step = "visit"]>> \o Tail(stack) /\ UNCHANGED <<linkage, state, code>>
  BY DEF AllResolved, At, Become
<1>2. /\ s \in LinkFrame
      /\ Searching(s, imports, state, ancestor, scope, names, bound, Finished)
  BY <1>1, InSearch
<1>3. /\ Current.module = Mod(s, s.current) /\ Mod(s, s.current) \in Module /\ WellFormed(imports)
      /\ Items(s, imports, state) /\ Counted(s, state) /\ Requested(s, imports, state)
      /\ Lows(s, imports, ancestor) /\ Tree(s, imports, ancestor, scope, Finished)
  BY <1>1, <1>2, CurrentItem, GraphOf DEF Current, Mod, IInv
<1> PICK f : f = [s EXCEPT !.step = "visit"]
  OBVIOUS
<1>4. f \in LinkFrame /\ f.items = s.items /\ f.step = "visit" /\ f.current = s.current /\ f.index = s.index
  BY <1>2 DEF LinkFrame, LinkStep
<1>5. Requested(f, imports, state)
  <2>1. ASSUME NEW i \in 1 .. Len(s.items), NEW j \in 1 .. Len(imports[Mod(s, i)])
        PROVE  state[imports[Mod(s, i)][j]] # "error"
    <3>1. i = s.current => j < s.request
      <4>1. s.request \in Nat /\ Len(imports[Mod(s, s.current)]) \in Nat
        BY <1>2, <1>3, SearchFields DEF WellFormed
      <4> QED BY <1>1, <1>3, <4>1
    <3> QED BY <1>3, <3>1 DEF Requested
  <2> QED BY <1>4, <2>1 DEF Requested, Mod
<1>6. Items(f, imports, state) /\ Counted(f, state) /\ Lows(f, imports, ancestor)
      /\ Tree(f, imports, ancestor, scope, Finished)
  BY <1>1, <1>2, <1>3, <1>4, SearchStays
<1>7. Searching(f, imports, state, ancestor, scope, names, bound, Finished)
  BY <1>4, <1>5, <1>6 DEF Searching
<1> QED BY <1>1, <1>4, <1>7, FrameStep

\* The items of two frames differ in how far their imports have been visited only.
Alike(s, f, n) == \A i \in 1 .. n : Mod(f, i) = Mod(s, i) /\ Parent(f, i) = Parent(s, i) /\ Index(f, i) = Index(s, i)

\* An import of item c has been visited.
Onward(s, f, c) ==
  /\ f \in LinkFrame /\ f.step = s.step /\ f.current = s.current /\ f.index = s.index
  /\ f.request = s.request /\ f.circle = s.circle /\ f.items \in Seq(ItemType)
  /\ Len(f.items) = Len(s.items) /\ Alike(s, f, Len(s.items))
  /\ \A i \in 1 .. Len(s.items) : Node(f, i) = IF i = c THEN Node(s, c) + 1 ELSE Node(s, i)

LEMMA ItemVisited ==
  ASSUME NEW t \in ItemType, NEW u, u = [t EXCEPT !.node = @ + 1]
  PROVE  u \in ItemType /\ u.module = t.module /\ u.parent = t.parent /\ u.index = t.index /\ u.node = t.node + 1
BY DEF ItemType

LEMMA ItemsVisited ==
  ASSUME NEW s \in LinkFrame, NEW c \in 1 .. Len(s.items), NEW u \in ItemType,
         u.module = s.items[c].module, u.parent = s.items[c].parent, u.index = s.items[c].index,
         u.node = s.items[c].node + 1, NEW f, f = [s EXCEPT !.items = [s.items EXCEPT ![c] = u]]
  PROVE  Onward(s, f, c)
<1>1. s.items \in Seq(ItemType) /\ s.items[c] \in ItemType
  BY SearchFields
<1> PICK items : items = [s.items EXCEPT ![c] = u]
  OBVIOUS
<1>2. /\ items \in Seq(ItemType) /\ Len(items) = Len(s.items)
      /\ \A i \in 1 .. Len(s.items) : items[i] = IF i = c THEN u ELSE s.items[i]
  BY <1>1, ExceptSeq
<1>3. f = [s EXCEPT !.items = items]
  OBVIOUS
<1>4. /\ f.step = s.step /\ f.current = s.current /\ f.index = s.index /\ f.request = s.request
      /\ f.circle = s.circle /\ f.items = items /\ f \in LinkFrame
  BY <1>2, <1>3 DEF LinkFrame
<1>5. Alike(s, f, Len(s.items))
  BY <1>2, <1>4 DEF Alike, Mod, Parent, Index
<1>6. \A i \in 1 .. Len(s.items) : Node(f, i) = IF i = c THEN Node(s, c) + 1 ELSE Node(s, i)
  BY <1>2, <1>4 DEF Node
<1> QED BY <1>2, <1>4, <1>5, <1>6 DEF Onward

LEMMA NodeVisited ==
  ASSUME NEW s \in LinkFrame, NEW c \in 1 .. Len(s.items),
         NEW f, f = [s EXCEPT !.items[c].node = @ + 1]
  PROVE  Onward(s, f, c)
<1>1. s.items[c] \in ItemType
  BY SearchFields
<1> PICK u : u = [s.items[c] EXCEPT !.node = @ + 1]
  OBVIOUS
<1>2. u \in ItemType /\ u.module = s.items[c].module /\ u.parent = s.items[c].parent
      /\ u.index = s.items[c].index /\ u.node = s.items[c].node + 1
  BY <1>1, ItemVisited
<1>3. f = [s EXCEPT !.items = [s.items EXCEPT ![c] = u]]
  OBVIOUS
<1> QED BY <1>2, <1>3, ItemsVisited, Zenon

\* The items lie on the stack in the order of their indices.
LEMMA ItemOrder ==
  ASSUME NEW s \in LinkFrame, NEW g, NEW st, Items(s, g, st)
  PROVE  /\ s.items # <<>> /\ Len(s.items) \in Nat \ {0} /\ Parent(s, 1) = 0
         /\ \A i \in 1 .. Len(s.items) : /\ st[Mod(s, i)] = "linking" /\ Index(s, i) <= s.index
                                         /\ Node(s, i) \in 1 .. Len(g[Mod(s, i)]) + 1
         /\ \A i, j \in 1 .. Len(s.items) : i # j => Mod(s, i) # Mod(s, j)
         /\ \A i, j \in 1 .. Len(s.items) : i < j <=> Index(s, i) < Index(s, j)
         /\ \A i, j \in 1 .. Len(s.items) : i <= j <=> Index(s, i) <= Index(s, j)
<1>1. /\ Len(s.items) \in Nat \ {0} /\ s.items # <<>> /\ Parent(s, 1) = 0
      /\ \A i \in 1 .. Len(s.items) : Index(s, i) \in Nat
  BY SearchFields DEF Items
<1>2. \A i \in 1 .. Len(s.items) : /\ st[Mod(s, i)] = "linking" /\ Index(s, i) <= s.index
                                   /\ Node(s, i) \in 1 .. Len(g[Mod(s, i)]) + 1
  BY DEF Items
<1>3. \A i, j \in 1 .. Len(s.items) : i < j => Mod(s, i) # Mod(s, j) /\ Index(s, i) < Index(s, j)
  BY DEF Items
<1>4. \A i, j \in 1 .. Len(s.items) : i # j => Mod(s, i) # Mod(s, j)
  BY <1>1, <1>3
<1>5. ASSUME NEW i \in 1 .. Len(s.items), NEW j \in 1 .. Len(s.items)
      PROVE  (i < j <=> Index(s, i) < Index(s, j)) /\ (i <= j <=> Index(s, i) <= Index(s, j))
  <2>1. CASE i < j
    BY <1>1, <1>3, <2>1
  <2>2. CASE j < i
    BY <1>1, <1>3, <2>2
  <2>3. CASE i = j
    BY <1>1, <2>3
  <2> QED BY <1>1, <2>1, <2>2, <2>3
<1> QED BY <1>1, <1>2, <1>4, <1>5

\* The ancestor index of a module is lowered to another one.
LowerTo(low, low2, m, to) ==
  /\ low2 \in [Module -> Nat]
  /\ \A n \in Module : low2[n] = IF n = m /\ to < low[m] THEN to ELSE low[n]

Lower(low, low2, m, to) == low2 = [low EXCEPT ![m] = IF to < @ THEN to ELSE @]

LEMMA Lowers ==
  ASSUME NEW K \in SUBSET Nat, NEW low \in [Module -> K], NEW m \in Module, NEW to \in K,
         NEW low2, Lower(low, low2, m, to)
  PROVE  low2 \in [Module -> K] /\ LowerTo(low, low2, m, to)
<1>1. low2 \in [Module -> K]
  BY DEF Lower
<1>2. low2 \in [Module -> Nat]
  BY <1>1
<1>3. \A n \in Module : low2[n] = IF n = m /\ to < low[m] THEN to ELSE low[n]
  BY DEF Lower
<1> QED BY <1>1, <1>2, <1>3 DEF LowerTo

OnItems(s, x) == \E k \in 1 .. Len(s.items) : x = Mod(s, k)

\* An import that is linked, or on the stack, has been visited.
LEMMA OtherVisited ==
  ASSUME NEW s \in LinkFrame, s.step = "visit", NEW g, WellFormed(g), NEW st, NEW low \in [Module -> Nat],
         NEW sc, NEW nm, NEW bd, NEW finished, Searching(s, g, st, low, sc, nm, bd, finished),
         Node(s, s.current) <= Len(g[Mod(s, s.current)]),
         NEW x, x = g[Mod(s, s.current)][Node(s, s.current)], NEW low2,
         \/ x \in finished /\ low2 = low
         \/ OnItems(s, x) /\ LowerTo(low, low2, Mod(s, s.current), low[x]),
         NEW f, Onward(s, f, s.current)
  PROVE  Searching(f, g, st, low2, sc, nm, bd, finished)
<1> PICK c : c = s.current
  OBVIOUS
<1> PICK n : n = Len(s.items)
  OBVIOUS
<1>1. /\ c \in 1 .. n /\ Height(s) = n /\ n \in Nat
      /\ Items(s, g, st) /\ Counted(s, st) /\ Requested(s, g, st) /\ Lows(s, g, low)
      /\ Tree(s, g, low, sc, finished)
      /\ \A i \in 1 .. n : Mod(s, i) \in Module /\ Node(s, i) \in Nat /\ Parent(s, i) \in Nat /\ Index(s, i) \in Nat
  BY CurrentItem, SearchFields
<1>2. /\ f \in LinkFrame /\ f.step = "visit" /\ f.current = c /\ f.index = s.index /\ f.items \in Seq(ItemType)
      /\ Len(f.items) = n /\ Alike(s, f, n)
      /\ \A i \in 1 .. n : Node(f, i) = IF i = c THEN Node(s, c) + 1 ELSE Node(s, i)
  BY <1>1 DEF Onward
<1>3. Height(f) = n
  BY <1>2 DEF Height
<1> PICK m : m = Mod(s, c)
  OBVIOUS
<1>4. m \in Module /\ Node(s, c) \in 1 .. Len(g[m]) /\ Len(g[m]) \in Nat /\ x = g[m][Node(s, c)] /\ x \in Module
      /\ x \in ToSet(g[m])
  <2>1. m \in Module /\ x = g[m][Node(s, c)] /\ Node(s, c) <= Len(g[m])
    BY <1>1
  <2>2. Node(s, c) \in 1 .. Len(g[m]) + 1
    BY <1>1, ItemOrder
  <2>3. g[m] \in Seq(Module) /\ Len(g[m]) \in Nat
    BY <2>1 DEF WellFormed
  <2>4. Node(s, c) \in 1 .. Len(g[m])
    BY <2>1, <2>2, <2>3
  <2>5. x \in ToSet(g[m])
    BY <2>1, <2>3, <2>4, Listed
  <2>6. x \in Module
    BY <2>1, <2>3, <2>4
  <2> QED BY <2>1, <2>3, <2>4, <2>5, <2>6
<1>5. /\ \A i \in 1 .. n : i # c => Mod(s, i) # m
      /\ \A i, j \in 1 .. n : i < j <=> Index(s, i) < Index(s, j)
      /\ \A i, j \in 1 .. n : i <= j <=> Index(s, i) <= Index(s, j)
  BY <1>1, ItemOrder
<1>5a. /\ low2 \in [Module -> Nat]
       /\ \A y \in Module : y # m => low2[y] = low[y]
       /\ \/ x \in finished /\ low2 = low
          \/ /\ \E k \in 1 .. n : x = Mod(s, k)
             /\ low2[m] = IF low[x] < low[m] THEN low[x] ELSE low[m]
  BY <1>4 DEF OnItems, LowerTo
<1>6. \A i \in 1 .. n : i # c => low2[Mod(s, i)] = low[Mod(s, i)]
  BY <1>1, <1>5, <1>5a
<1>7. \A i \in 1 .. n : low2[Mod(s, i)] <= low[Mod(s, i)]
  <2>1. low[m] \in Nat /\ low2[m] \in Nat /\ low[x] \in Nat /\ low2[m] <= low[m]
    BY <1>4, <1>5a
  <2>2. \A i \in 1 .. n : low[Mod(s, i)] \in Nat
    BY <1>1
  <2> QED BY <1>6, <2>1, <2>2
<1>8. Items(f, g, st)
  <2>1. f.items # <<>>
    BY <1>1, <1>2, SearchFields
  <2>2. Parent(f, 1) = 0
    BY <1>1, <1>2 DEF Items, Alike
  <2>3. \A i \in 1 .. n : st[Mod(f, i)] = "linking" /\ Index(f, i) <= f.index
    BY <1>1, <1>2 DEF Items, Alike
  <2>4. \A i, j \in 1 .. n : i < j => Mod(f, i) # Mod(f, j) /\ Index(f, i) < Index(f, j)
    BY <1>1, <1>2 DEF Items, Alike
  <2>5. \A i \in 1 .. n : Node(f, i) \in 1 .. Len(g[Mod(f, i)]) + 1
    <3>1. \A i \in 1 .. n : Node(s, i) \in 1 .. Len(g[Mod(s, i)]) + 1
      BY <1>1 DEF Items
    <3>2. Node(s, c) + 1 \in 1 .. Len(g[m]) + 1
      BY <1>4
    <3> QED BY <1>2, <3>1, <3>2 DEF Alike
  <2> QED BY <1>2, <2>1, <2>2, <2>3, <2>4, <2>5 DEF Items
<1>9. Counted(f, st) /\ Requested(f, g, st)
  <2>1. Counted(f, st)
    BY <1>1, <1>2 DEF Counted
  <2>2. \A i \in 1 .. n : \A j \in 1 .. Len(g[Mod(s, i)]) : st[g[Mod(s, i)][j]] # "error"
    BY <1>1 DEF Requested
  <2>3. \A i \in 1 .. n : Mod(f, i) = Mod(s, i)
    BY <1>2 DEF Alike
  <2> QED BY <1>2, <2>1, <2>2, <2>3 DEF Requested
<1>10. Lows(f, g, low2)
  <2>1. ASSUME NEW i \in 1 .. n
        PROVE  /\ low2[Mod(s, i)] <= Index(s, i)
               /\ \E w \in 1 .. i : /\ low2[Mod(s, i)] = Index(s, w)
                                    /\ Mod(s, w) \in Leads(g, Mod(s, i))
    <3>1. /\ low[Mod(s, i)] <= Index(s, i)
          /\ \E w \in 1 .. i : low[Mod(s, i)] = Index(s, w) /\ Mod(s, w) \in Leads(g, Mod(s, i))
      BY <1>1 DEF Lows
    <3>2. CASE low2[Mod(s, i)] = low[Mod(s, i)]
      BY <3>1, <3>2
    <3>3. CASE low2[Mod(s, i)] # low[Mod(s, i)]
      <4>1. i = c /\ low2[m] = low[x] /\ low[x] < low[m]
        BY <1>6, <1>5a, <3>3
      <4>2. PICK k \in 1 .. n : x = Mod(s, k)
        BY <1>5a, <3>3
      <4>3. PICK w \in 1 .. k : low[x] = Index(s, w) /\ Mod(s, w) \in Leads(g, x)
        BY <1>1, <4>2 DEF Lows
      <4>4. w \in 1 .. n /\ Index(s, w) < Index(s, c)
        <5>1. w \in 1 .. n
          BY <1>1, <4>2, <4>3
        <5>2. low[m] <= Index(s, c)
          BY <3>1, <4>1
        <5>3. low[m] \in Nat /\ Index(s, w) \in Nat /\ Index(s, c) \in Nat
          BY <1>1, <1>4, <5>1
        <5> QED BY <4>1, <4>3, <5>1, <5>2, <5>3
      <4>5. w \in 1 .. c
        <5>1. w < c
          BY <1>1, <1>5, <4>4
        <5> QED BY <1>1, <4>4, <5>1
      <4>6. x \in Leads(g, m)
        BY <1>4, LeadsImport
      <4>7. Mod(s, w) \in Leads(g, m)
        BY <4>3, <4>6, LeadsOn
      <4>8. low2[m] <= Index(s, c)
        <5>1. Index(s, w) \in Nat /\ Index(s, c) \in Nat
          BY <1>1, <4>4
        <5> QED BY <4>1, <4>3, <4>4, <5>1
      <4> QED BY <4>1, <4>3, <4>5, <4>7, <4>8
    <3> QED BY <3>2, <3>3
  <2>2. ASSUME NEW i \in 1 .. n
        PROVE  /\ low2[Mod(f, i)] <= Index(f, i)
               /\ \E w \in 1 .. i : /\ low2[Mod(f, i)] = Index(f, w)
                                    /\ Mod(f, w) \in Leads(g, Mod(f, i))
    <3>1. PICK w \in 1 .. i : low2[Mod(s, i)] = Index(s, w) /\ Mod(s, w) \in Leads(g, Mod(s, i))
      BY <2>1
    <3>2. w \in 1 .. n
      BY <1>1
    <3>3. low2[Mod(s, i)] <= Index(s, i)
      BY <2>1
    <3> QED BY <1>2, <3>1, <3>2, <3>3 DEF Alike
  <2> QED BY <1>3, <2>2 DEF Lows
<1>11. Tree(f, g, low2, sc, finished)
  <2>1. PICK path \in SUBSET (1 .. n) :
             OnPath(s, g, path) /\ Visits(s, g, low, finished, path) /\ Done(s, g, low, sc, path)
    BY <1>1 DEF Tree
  <2>2. \A p \in path : p <= c /\ p \in 1 .. n
    BY <2>1 DEF OnPath
  <2>3. c \in path
    BY <1>1, <2>1 DEF OnPath
  <2>4. OnPath(f, g, path)
    <3>1. \A i \in 1 .. n : Mod(f, i) = Mod(s, i) /\ Parent(f, i) = Parent(s, i)
      BY <1>2 DEF Alike
    <3>2. \A p \in path : p # 1 => /\ Parent(f, p) \in path /\ Parent(f, p) < p
                                    /\ \A r \in path : r <= Parent(f, p) \/ p <= r
      BY <2>1, <2>2, <3>1 DEF OnPath
    <3>3. ASSUME NEW p \in path, NEW k \in p .. n
          PROVE  Mod(f, k) \in Leads(g, Mod(f, p))
      <4>1. p \in 1 .. n /\ k \in 1 .. n
        BY <1>1, <2>2
      <4>2. Mod(s, k) \in Leads(g, Mod(s, p))
        BY <1>1, <2>1 DEF OnPath
      <4> QED BY <3>1, <4>1, <4>2
    <3>4. n # 0 /\ 1 \in path
      BY <1>1, <2>1 DEF OnPath
    <3> QED BY <1>2, <1>3, <2>2, <2>3, <3>2, <3>3, <3>4 DEF OnPath
  <2>5. Visits(f, g, low2, finished, path)
    <3> SUFFICES ASSUME NEW i \in 1 .. n, NEW j \in 1 .. Node(f, i) - 1
                 PROVE  \/ g[Mod(f, i)][j] \in finished
                        \/ \E k \in 1 .. n : /\ g[Mod(f, i)][j] = Mod(f, k) /\ low2[Mod(f, i)] <= Index(f, k)
                                             /\ \A p \in path : p <= i \/ k < p
                        \/ \E k \in path : Parent(f, k) = i /\ g[Mod(f, i)][j] = Mod(f, k)
      BY <1>3 DEF Visits
    <3>1. CASE i = c /\ j = Node(s, c)
      <4>1. g[Mod(f, i)][j] = x /\ Mod(f, i) = m
        BY <1>2, <3>1 DEF Alike
      <4>2. CASE x \in finished
        BY <4>1, <4>2
      <4>3. CASE x \notin finished
        <5>1. PICK k \in 1 .. n : x = Mod(s, k)
          BY <1>5a, <4>3
        <5>2. low[x] <= Index(s, k) /\ low2[m] <= low[x] /\ low[x] \in Nat /\ low2[m] \in Nat
          BY <1>1, <1>4, <1>5a, <4>3, <5>1 DEF Lows
        <5>3. low2[m] <= Index(s, k)
          <6>1. Index(s, k) \in Nat
            BY <1>1
          <6> QED BY <5>2, <6>1
        <5>4. \A p \in path : p <= i
          BY <2>2, <3>1
        <5> QED BY <1>2, <4>1, <5>1, <5>3, <5>4 DEF Alike
      <4> QED BY <4>2, <4>3
    <3>2. CASE ~(i = c /\ j = Node(s, c))
      <4>1. j \in 1 .. Node(s, i) - 1
        BY <1>1, <1>2, <3>2
      <4>2. \/ g[Mod(s, i)][j] \in finished
            \/ \E k \in 1 .. n : /\ g[Mod(s, i)][j] = Mod(s, k) /\ low[Mod(s, i)] <= Index(s, k)
                                 /\ \A p \in path : p <= i \/ k < p
            \/ \E k \in path : Parent(s, k) = i /\ g[Mod(s, i)][j] = Mod(s, k)
        BY <1>1, <2>1, <4>1 DEF Visits
      <4>3. Mod(f, i) = Mod(s, i) /\ low2[Mod(s, i)] <= low[Mod(s, i)]
            /\ low2[Mod(s, i)] \in Nat /\ low[Mod(s, i)] \in Nat
        BY <1>1, <1>2, <1>7, <1>5a DEF Alike
      <4>4. ASSUME NEW k \in 1 .. n, g[Mod(s, i)][j] = Mod(s, k), low[Mod(s, i)] <= Index(s, k)
            PROVE  g[Mod(f, i)][j] = Mod(f, k) /\ low2[Mod(f, i)] <= Index(f, k)
        <5>1. low2[Mod(s, i)] <= Index(s, k)
          <6>1. Index(s, k) \in Nat
            BY <1>1
          <6> QED BY <4>3, <4>4, <6>1
        <5> QED BY <1>2, <4>3, <4>4, <5>1 DEF Alike
      <4>5. \A k \in path : Parent(f, k) = Parent(s, k) /\ Mod(f, k) = Mod(s, k)
        BY <1>2, <2>2 DEF Alike
      <4> QED BY <4>2, <4>3, <4>4, <4>5
    <3> QED BY <3>1, <3>2
  <2>6. Done(f, g, low2, sc, path)
    <3> SUFFICES ASSUME NEW k \in (1 .. n) \ path
                 PROVE  /\ Node(f, k) > Len(g[Mod(f, k)])
                        /\ low2[Mod(f, k)] < Index(f, k)
                        /\ sc[Mod(f, k)]
                        /\ \E q \in path : /\ q < k
                                           /\ \A r \in path : r <= q \/ k < r
                                           /\ Mod(f, q) \in Leads(g, Mod(f, k))
                                           /\ low2[Mod(f, q)] <= low2[Mod(f, k)]
      BY <1>3 DEF Done
    <3>1. /\ Node(s, k) > Len(g[Mod(s, k)])
          /\ low[Mod(s, k)] < Index(s, k)
          /\ sc[Mod(s, k)]
      BY <1>1, <2>1 DEF Done
    <3>2. PICK q \in path : /\ q < k
                            /\ \A r \in path : r <= q \/ k < r
                            /\ Mod(s, q) \in Leads(g, Mod(s, k))
                            /\ low[Mod(s, q)] <= low[Mod(s, k)]
      BY <1>1, <2>1 DEF Done
    <3>3. k # c /\ k \in 1 .. n /\ q \in 1 .. n
      BY <2>2, <2>3
    <3>4. low2[Mod(s, k)] = low[Mod(s, k)] /\ low2[Mod(s, q)] <= low[Mod(s, q)] /\ low2[Mod(s, q)] \in Nat
          /\ low[Mod(s, q)] \in Nat /\ low[Mod(s, k)] \in Nat
      BY <1>1, <1>6, <1>7, <1>5a, <3>3
    <3>5. low2[Mod(s, q)] <= low2[Mod(s, k)]
      BY <3>2, <3>4
    <3> QED BY <1>2, <3>1, <3>2, <3>3, <3>4, <3>5 DEF Alike
  <2> QED BY <1>3, <2>4, <2>5, <2>6 DEF Tree
<1> QED BY <1>2, <1>8, <1>9, <1>10, <1>11 DEF Searching

\* The search goes on; what else a step does to the modules is seen from what it finishes.
LEMMA SearchMoves ==
  ASSUME IInv, Calls("link"), NEW f \in LinkFrame, stack' = <<f>> \o Tail(stack),
         Types', imports' = imports, SearchState,
         f.step = "close" => f.circle \in 1 .. Len(f.items),
         NEW finished, finished = {m \in Module : state'[m] \in LinkedStates \/ m \in ClosingOf(f)},
         Searching(f, imports, state', ancestor', scope', names', bound', finished),
         \A m \in Module : state'[m] = "linking" => \E i \in 1 .. Len(f.items) : m = Mod(f, i)
  PROVE  /\ Calling(imports, stack)' /\ Evaluating(imports, state, stack)' /\ Linking'
         /\ Finished' = finished /\ Closing' = ClosingOf(f) /\ Calls("link")' /\ Top' = f
<1>1. /\ Calling(imports, stack)' /\ Evaluating(imports, state, stack)'
      /\ Calls("link")' /\ Top' = f /\ stack'[1] = f
      /\ Finished' = {m \in Module : state'[m] \in LinkedStates \/ m \in ClosingOf(f)}
      /\ Closing' = ClosingOf(f)
      /\ \A k \in 1 .. Len(stack') : stack'[k].call = "link" => k = 1
      /\ 1 \in 1 .. Len(stack')
  BY SearchFrames
<1>2. Finished' = finished
  BY <1>1
<1>3. f.call = "link"
  BY DEF LinkFrame
<1>4. Searching(f, imports', state', ancestor', scope', names', bound', Finished')
  BY <1>2
<1>5. Linking'
  BY <1>1, <1>3, <1>4, SearchLinks
<1> QED BY <1>1, <1>2, <1>5

\* A step of the search that links no module and leaves names and bindings alone.
LEMMA SearchKeeps ==
  ASSUME IInv, Calls("link"), Top.step \in {"resolve", "visit"}, NEW f \in LinkFrame,
         stack' = <<f>> \o Tail(stack), f.step # "close",
         UNCHANGED <<imports, resolved, names, bound, code>>,
         state' \in [Module -> ModuleState], ancestor' \in [Module -> 0 .. Cardinality(Module)],
         scope' \in [Module -> BOOLEAN],
         \A m \in Module : /\ state[m] = "error" => scope'[m] = scope[m]
                           /\ scope[m] => scope'[m]
                           /\ state'[m] # state[m] => state[m] = "unlinked" /\ state'[m] = "linking",
         Searching(f, imports, state', ancestor', scope', names, bound, Finished),
         \A m \in Module : state'[m] = "linking" => \E i \in 1 .. Len(f.items) : m = Mod(f, i)
  PROVE  IInv'
<1>1. /\ Top \in LinkFrame /\ stack \in Seq(Frame) /\ stack # <<>>
      /\ Closing = {} /\ ClosingOf(f) = {}
      /\ Finished = {m \in Module : state[m] \in LinkedStates}
  BY InSearch DEF IInv, Types, ClosingOf
<1>2. stack' \in Seq(Frame)
  BY <1>1, ReplaceFrame DEF Frame
<1>3. Types'
  BY <1>2 DEF IInv, Types
<1>4. SearchState
  BY DEF SearchState, OthersKept
<1>5. \A m \in Module : state'[m] \in LinkedStates <=> state[m] \in LinkedStates
  BY DEF LinkedStates
<1>6. Finished = {m \in Module : state'[m] \in LinkedStates \/ m \in ClosingOf(f)}
  BY <1>1, <1>5
<1>7. Searching(f, imports, state', ancestor', scope', names', bound', Finished)
  OBVIOUS
<1>8. /\ Calling(imports, stack)' /\ Evaluating(imports, state, stack)' /\ Linking'
      /\ Finished' = Finished /\ Closing' = {}
  BY <1>1, <1>3, <1>4, <1>6, <1>7, SearchMoves
<1>9. Ready'
  <2>1. \A m \in Module : /\ state[m] = "error" => state'[m] = "error"
                          /\ scope[m] => scope'[m]
                          /\ names[m] => names'[m]
                          /\ bound[m] => bound'[m]
    OBVIOUS
  <2> QED BY <1>8, <2>1, ReadyKept
<1>10. Spoiled'
  <2>1. ~At("link", "connect")
    BY DEF At
  <2>2. \A m \in Module : /\ state[m] = "error" => state'[m] = "error" /\ scope'[m] = scope[m]
                          /\ state'[m] \in {"unlinked", "linking"} => state[m] \in {"unlinked", "linking"}
                          /\ m \in Closing /\ state'[m] \in {"unlinked", "linking"} => m \in Closing'
    BY <1>1
  <2> QED BY <2>1, <2>2, SpoiledKept
<1> QED BY <1>3, <1>8, <1>9, <1>10 DEF IInv

\* Where the search stands in the current item.
LEMMA CurrentIs ==
  ASSUME IInv, Calls("link"), Top.step \in {"resolve", "visit"}
  PROVE  /\ Top \in LinkFrame /\ Searching(Top, imports, state, ancestor, scope, names, bound, Finished)
         /\ Top.current \in 1 .. Len(Top.items) /\ WellFormed(imports)
         /\ Current.module = Mod(Top, Top.current) /\ Current.node = Node(Top, Top.current)
         /\ Current.parent = Parent(Top, Top.current) /\ Current.index = Index(Top, Top.current)
         /\ Mod(Top, Top.current) \in Module
         /\ Finished = {m \in Module : state[m] \in LinkedStates} /\ Closing = {}
         /\ ancestor \in [Module -> Nat]
<1>1. /\ Top \in LinkFrame /\ Searching(Top, imports, state, ancestor, scope, names, bound, Finished)
      /\ Finished = {m \in Module : state[m] \in LinkedStates} /\ Closing = {}
  BY InSearch DEF ClosingOf
<1>2. Top.current \in 1 .. Len(Top.items) /\ Mod(Top, Top.current) \in Module
  BY <1>1, CurrentItem
<1>3. WellFormed(imports)
  BY GraphOf DEF IInv
<1>4. ancestor \in [Module -> Nat]
  <2>1. Cardinality(Module) \in Nat
    BY ModuleAssumption, FS_CardinalityType
  <2> QED BY <2>1 DEF IInv, Types
<1> QED BY <1>1, <1>2, <1>3, <1>4 DEF Current, Mod, Node, Parent, Index

LEMMA VisitOtherPreserves == ASSUME IInv, VisitOther PROVE IInv'
<1> PICK s : s = Top
  OBVIOUS
<1> PICK c : c = s.current
  OBVIOUS
<1>1. /\ Calls("link") /\ s.step = "visit" /\ Current.node <= Len(imports[Current.module])
      /\ state[NextImport] # "unlinked"
      /\ ancestor' = IF state[NextImport] = "linking"
                     THEN Lowered(Current.module, ancestor[NextImport]) ELSE ancestor
      /\ UNCHANGED <<imports, resolved, state, scope, names, bound, code>>
  BY DEF VisitOther, Visiting, At
<1>3. /\ s \in LinkFrame /\ Searching(s, imports, state, ancestor, scope, names, bound, Finished)
      /\ c \in 1 .. Len(s.items) /\ WellFormed(imports)
      /\ Current.module = Mod(s, c) /\ Current.node = Node(s, c)
      /\ Mod(s, c) \in Module
      /\ Finished = {m \in Module : state[m] \in LinkedStates}
      /\ ancestor \in [Module -> Nat]
      /\ \A m \in Module : state[m] = "linking" => \E i \in 1 .. Len(s.items) : m = Mod(s, i)
  BY <1>1, CurrentIs, InSearch
<1>4. PICK f : Onward(s, f, c) /\ stack' = <<f>> \o Tail(stack)
  <2>1. stack' = <<[s EXCEPT !.items[c].node = @ + 1]>> \o Tail(stack)
    BY DEF VisitOther, Become
  <2> QED BY <1>3, <2>1, NodeVisited
<1> PICK x : x = imports[Mod(s, c)][Node(s, c)]
  OBVIOUS
<1>5. x = NextImport /\ x \in Module /\ state[x] # "error"
  <2>1. x = NextImport
    BY <1>3 DEF NextImport
  <2>2. Items(s, imports, state) /\ Requested(s, imports, state)
    BY <1>1, <1>3, CurrentItem
  <2>3. Node(s, c) \in 1 .. Len(imports[Mod(s, c)]) + 1 /\ Len(imports[Mod(s, c)]) \in Nat
    BY <1>3, <2>2, ItemOrder DEF WellFormed
  <2>4. Node(s, c) \in 1 .. Len(imports[Mod(s, c)])
    BY <1>1, <1>3, <2>3
  <2>5. x \in Module
    BY <1>3, <2>4 DEF WellFormed
  <2>6. state[x] # "error"
    BY <1>1, <1>3, <2>2, <2>4 DEF Requested
  <2> QED BY <2>1, <2>5, <2>6
<1>6. state[x] \in ModuleState
  BY <1>5 DEF IInv, Types
<1>7. /\ ancestor' \in [Module -> 0 .. Cardinality(Module)]
      /\ state[x] = "linking" => LowerTo(ancestor, ancestor', Mod(s, c), ancestor[x])
      /\ state[x] # "linking" => ancestor' = ancestor
  <2>1. ancestor \in [Module -> 0 .. Cardinality(Module)]
    BY DEF IInv, Types
  <2>2. CASE state[x] = "linking"
    <3>1. ancestor' = [ancestor EXCEPT ![Mod(s, c)] = IF ancestor[x] < @ THEN ancestor[x] ELSE @]
      BY <1>1, <1>3, <1>5, <2>2 DEF Lowered
    <3> PICK K : K = 0 .. Cardinality(Module)
      OBVIOUS
    <3>2. K \in SUBSET Nat /\ ancestor \in [Module -> K] /\ ancestor[x] \in K
      BY <1>5, <2>1
    <3>3. Lower(ancestor, ancestor', Mod(s, c), ancestor[x])
      BY <3>1 DEF Lower
    <3>4. ancestor' \in [Module -> K] /\ LowerTo(ancestor, ancestor', Mod(s, c), ancestor[x])
      BY <1>3, <3>2, <3>3, Lowers
    <3> QED BY <2>2, <3>4
  <2>3. CASE state[x] # "linking"
    BY <1>1, <1>5, <2>1, <2>3
  <2> QED BY <2>2, <2>3
<1>8. \/ x \in Finished /\ ancestor' = ancestor
      \/ OnItems(s, x) /\ LowerTo(ancestor, ancestor', Mod(s, c), ancestor[x])
  BY <1>1, <1>3, <1>5, <1>6, <1>7 DEF LinkedStates, ModuleState, OnItems
<1>9. Searching(f, imports, state, ancestor', scope, names, bound, Finished)
  <2>1. Node(s, s.current) <= Len(imports[Mod(s, s.current)])
    BY <1>1, <1>3
  <2> QED BY <1>1, <1>3, <1>4, <1>8, <2>1, OtherVisited
<1>10. /\ f \in LinkFrame /\ f.step = "visit" /\ Len(f.items) = Len(s.items)
       /\ \A i \in 1 .. Len(s.items) : Mod(f, i) = Mod(s, i)
  BY <1>1, <1>4 DEF Onward, Alike
<1>11. state \in [Module -> ModuleState] /\ scope \in [Module -> BOOLEAN]
  BY DEF IInv, Types
<1>12. \A m \in Module : state'[m] = "linking" => \E i \in 1 .. Len(f.items) : m = Mod(f, i)
  BY <1>1, <1>3, <1>10
<1>13. Searching(f, imports, state', ancestor', scope', names, bound, Finished)
  BY <1>1, <1>9
<1> QED BY <1>1, <1>4, <1>7, <1>10, <1>11, <1>12, <1>13, SearchKeeps

\* The module at which a search is done has its scope.
Scoped(sc, sc2, m) == sc2[m] /\ \A n \in Module : sc[n] => sc2[n]

\* The path to item c of a search.
PathTo(s, g, path, c) ==
  /\ c \in path /\ \A p \in path : p \in 1 .. Len(s.items) /\ p <= c
  /\ \A p \in path : \A k \in 1 .. Len(s.items) : p <= k => Mod(s, k) \in Leads(g, Mod(s, p))
  /\ \A p \in path : p # 1 => Parent(s, p) \in path /\ Parent(s, p) < p
  /\ c # 1 => /\ Parent(s, c) \in path \ {c} /\ Parent(s, c) < c /\ 1 \in path \ {c}
              /\ \A p \in path \ {c} : /\ p <= Parent(s, c)
                                       /\ p # 1 => Parent(s, p) \in path \ {c}

\* What the search knows of the path when it leaves the current item.
LEMMA Leaving ==
  ASSUME NEW s \in LinkFrame, s.step = "visit", NEW g, s.current \in 1 .. Len(s.items),
         NEW path, path \subseteq 1 .. Len(s.items), OnPath(s, g, path)
  PROVE  PathTo(s, g, path, s.current)
<1> PICK c : c = s.current
  OBVIOUS
<1>1. Height(s) = Len(s.items) /\ Len(s.items) \in Nat /\ Len(s.items) # 0
  BY SearchFields DEF Height
<1>2. c \in path /\ 1 \in path /\ \A p \in path : p \in 1 .. Len(s.items) /\ p <= c
  BY <1>1 DEF OnPath
<1>3. \A p \in path : \A k \in 1 .. Len(s.items) : p <= k => Mod(s, k) \in Leads(g, Mod(s, p))
  <2> SUFFICES ASSUME NEW p \in path, NEW k \in 1 .. Len(s.items), p <= k
               PROVE  Mod(s, k) \in Leads(g, Mod(s, p))
    OBVIOUS
  <2>1. k \in p .. Height(s)
    BY <1>1, <1>2
  <2> QED BY <2>1 DEF OnPath
<1>4. \A p \in path : p # 1 => /\ Parent(s, p) \in path /\ Parent(s, p) < p
                              /\ \A r \in path : r <= Parent(s, p) \/ p <= r
  BY DEF OnPath
<1>5. \A p \in path : p \in Nat /\ c \in Nat
  BY <1>1, <1>2
<1>6. ASSUME c # 1
      PROVE  /\ Parent(s, c) \in path \ {c} /\ Parent(s, c) < c /\ 1 \in path \ {c}
             /\ \A p \in path \ {c} : /\ p <= Parent(s, c)
                                      /\ p # 1 => Parent(s, p) \in path \ {c}
  <2>1. Parent(s, c) \in path \ {c} /\ Parent(s, c) < c /\ 1 \in path \ {c}
    BY <1>2, <1>4, <1>5, <1>6
  <2>2. ASSUME NEW p \in path \ {c}
        PROVE  p <= Parent(s, c) /\ (p # 1 => Parent(s, p) \in path \ {c})
    <3>1. p <= c /\ p # c /\ (p <= Parent(s, c) \/ c <= p)
      BY <1>2, <1>4, <1>6
    <3>2. p <= Parent(s, c)
      BY <1>2, <1>5, <3>1
    <3>3. p # 1 => Parent(s, p) # c /\ Parent(s, p) \in path
      BY <1>2, <1>4, <1>5
    <3> QED BY <3>2, <3>3
  <2> QED BY <2>1, <2>2
<1> QED BY <1>2, <1>3, <1>4, <1>6 DEF PathTo

\* The search returns to the parent of an item that leads back below it.
LEMMA Returned ==
  ASSUME NEW s \in LinkFrame, s.step = "visit", NEW g, WellFormed(g), NEW st, NEW low \in [Module -> Nat],
         NEW sc, NEW nm, NEW bd, NEW finished, Searching(s, g, st, low, sc, nm, bd, finished),
         NEW c, c = s.current, Node(s, c) > Len(g[Mod(s, c)]), low[Mod(s, c)] # Index(s, c),
         NEW p, p = Parent(s, c), p # 0,
         NEW low2, LowerTo(low, low2, Mod(s, p), low[Mod(s, c)]),
         NEW sc2, Scoped(sc, sc2, Mod(s, c)),
         NEW f \in LinkFrame, f.items = s.items, f.step = "visit", f.current = p, f.index = s.index
  PROVE  Searching(f, g, st, low2, sc2, nm, bd, finished)
<1> PICK n : n = Len(s.items)
  OBVIOUS
<1>1. /\ c \in 1 .. n /\ Height(s) = n /\ n \in Nat /\ Height(f) = n
      /\ Items(s, g, st) /\ Counted(s, st) /\ Requested(s, g, st) /\ Lows(s, g, low)
      /\ Tree(s, g, low, sc, finished)
      /\ \A i \in 1 .. n : Mod(s, i) \in Module /\ Node(s, i) \in Nat /\ Parent(s, i) \in Nat /\ Index(s, i) \in Nat
  BY CurrentItem, SearchFields DEF Height
<1>2. /\ \A i : Mod(f, i) = Mod(s, i)
      /\ \A i : Node(f, i) = Node(s, i)
      /\ \A i : Parent(f, i) = Parent(s, i)
      /\ \A i : Index(f, i) = Index(s, i)
  BY DEF Mod, Node, Parent, Index
<1>3. /\ \A i, j \in 1 .. n : i # j => Mod(s, i) # Mod(s, j)
      /\ \A i, j \in 1 .. n : i < j <=> Index(s, i) < Index(s, j)
      /\ \A i, j \in 1 .. n : i <= j <=> Index(s, i) <= Index(s, j)
      /\ Parent(s, 1) = 0
  BY <1>1, ItemOrder
<1>4. c # 1
  BY <1>3
<1>5. PICK path \in SUBSET (1 .. n) :
             OnPath(s, g, path) /\ Visits(s, g, low, finished, path) /\ Done(s, g, low, sc, path)
  BY <1>1 DEF Tree
<1>6. /\ c \in path /\ \A q \in path : q \in 1 .. n /\ q <= c
      /\ \A q \in path : \A k \in 1 .. n : q <= k => Mod(s, k) \in Leads(g, Mod(s, q))
      /\ \A q \in path : q # 1 => Parent(s, q) \in path /\ Parent(s, q) < q
      /\ p \in path \ {c} /\ p < c /\ 1 \in path \ {c} /\ p \in 1 .. n
      /\ \A q \in path \ {c} : q <= p /\ (q # 1 => Parent(s, q) \in path \ {c})
  <2>1. path \subseteq 1 .. Len(s.items) /\ s.current \in 1 .. Len(s.items)
    BY <1>1
  <2>2. PathTo(s, g, path, s.current)
    BY <1>5, <2>1, Leaving
  <2> QED BY <1>4, <2>2 DEF PathTo
<1>7. /\ low2 \in [Module -> Nat]
      /\ \A i \in 1 .. n : /\ i # p => low2[Mod(s, i)] = low[Mod(s, i)]
                           /\ low2[Mod(s, i)] <= low[Mod(s, i)]
                           /\ low[Mod(s, i)] \in Nat /\ low2[Mod(s, i)] \in Nat
      /\ low2[Mod(s, p)] = IF low[Mod(s, c)] < low[Mod(s, p)] THEN low[Mod(s, c)] ELSE low[Mod(s, p)]
      /\ low2[Mod(s, p)] <= low[Mod(s, c)]
  <2>1. /\ low2 \in [Module -> Nat]
        /\ \A i \in 1 .. n : /\ i # p => low2[Mod(s, i)] = low[Mod(s, i)]
                             /\ low[Mod(s, i)] \in Nat /\ low2[Mod(s, i)] \in Nat
        /\ low2[Mod(s, p)] = IF low[Mod(s, c)] < low[Mod(s, p)] THEN low[Mod(s, c)] ELSE low[Mod(s, p)]
    BY <1>1, <1>3, <1>6 DEF LowerTo
  <2>2. low[Mod(s, c)] \in Nat /\ low[Mod(s, p)] \in Nat
    BY <1>1, <1>6
  <2> QED BY <2>1, <2>2
<1>8. /\ low[Mod(s, c)] < Index(s, c) /\ low[Mod(s, c)] <= Index(s, c)
      /\ \E w \in 1 .. c : low[Mod(s, c)] = Index(s, w) /\ Mod(s, w) \in Leads(g, Mod(s, c))
  <2>1. /\ low[Mod(s, c)] <= Index(s, c)
        /\ \E w \in 1 .. c : low[Mod(s, c)] = Index(s, w) /\ Mod(s, w) \in Leads(g, Mod(s, c))
    BY <1>1 DEF Lows
  <2>2. low[Mod(s, c)] \in Nat /\ Index(s, c) \in Nat
    BY <1>1
  <2> QED BY <2>1, <2>2
<1>9. PICK w \in 1 .. n : w < c /\ low[Mod(s, c)] = Index(s, w) /\ Mod(s, w) \in Leads(g, Mod(s, c))
  <2>1. PICK w \in 1 .. c : low[Mod(s, c)] = Index(s, w) /\ Mod(s, w) \in Leads(g, Mod(s, c))
    BY <1>8
  <2>2. w \in 1 .. n /\ w # c
    BY <1>1, <1>8, <2>1
  <2> QED BY <1>1, <2>1, <2>2
<1>10. Mod(s, c) \in Leads(g, Mod(s, p))
  BY <1>1, <1>6
<1>11. Mod(s, p) \in Leads(g, Mod(s, c))
  <2>1. PICK q \in path : q <= p /\ Mod(s, q) \in Leads(g, Mod(s, w))
    <3>1. CASE w \in path
      BY <1>1, <1>6, <1>9, <3>1, LeadsSelf
    <3>2. CASE w \notin path
      <4>1. PICK q \in path : q < w /\ Mod(s, q) \in Leads(g, Mod(s, w))
        BY <1>1, <1>5, <1>9, <3>2 DEF Done
      <4>2. q \in path \ {c}
        BY <1>6, <1>9, <4>1
      <4> QED BY <1>6, <4>1, <4>2
    <3> QED BY <3>1, <3>2
  <2>2. Mod(s, p) \in Leads(g, Mod(s, q))
    BY <1>6, <2>1
  <2>3. Mod(s, q) \in Leads(g, Mod(s, c))
    BY <1>9, <2>1, LeadsOn
  <2> QED BY <2>2, <2>3, LeadsOn
<1>12. Items(f, g, st) /\ Counted(f, st) /\ Requested(f, g, st)
  <2>1. Items(f, g, st)
    BY <1>1, <1>2 DEF Items
  <2>2. Counted(f, st)
    BY <1>1 DEF Counted
  <2>3. Requested(f, g, st)
    BY <1>1, <1>2 DEF Requested
  <2> QED BY <2>1, <2>2, <2>3
<1>13. Lows(f, g, low2)
  <2>1. ASSUME NEW i \in 1 .. n
        PROVE  /\ low2[Mod(s, i)] <= Index(s, i)
               /\ \E v \in 1 .. i : low2[Mod(s, i)] = Index(s, v) /\ Mod(s, v) \in Leads(g, Mod(s, i))
    <3>1. /\ low[Mod(s, i)] <= Index(s, i)
          /\ \E v \in 1 .. i : low[Mod(s, i)] = Index(s, v) /\ Mod(s, v) \in Leads(g, Mod(s, i))
      BY <1>1 DEF Lows
    <3>2. CASE low2[Mod(s, i)] = low[Mod(s, i)]
      BY <3>1, <3>2
    <3>3. CASE low2[Mod(s, i)] # low[Mod(s, i)]
      <4>1. i = p /\ low2[Mod(s, p)] = Index(s, w) /\ Index(s, w) < low[Mod(s, p)]
        BY <1>7, <1>9, <3>3
      <4>2. Index(s, w) < Index(s, p)
        <5>1. Index(s, w) \in Nat /\ Index(s, p) \in Nat /\ low[Mod(s, p)] \in Nat
          BY <1>1, <1>6
        <5> QED BY <3>1, <4>1, <5>1
      <4>3. w \in 1 .. p
        BY <1>1, <1>3, <1>6, <4>2
      <4>4. Mod(s, w) \in Leads(g, Mod(s, p))
        BY <1>9, <1>10, LeadsOn
      <4>5. low2[Mod(s, p)] <= Index(s, p)
        <5>1. Index(s, w) \in Nat /\ Index(s, p) \in Nat
          BY <1>1, <1>6
        <5> QED BY <4>1, <4>2, <5>1
      <4> QED BY <4>1, <4>3, <4>4, <4>5
    <3> QED BY <3>2, <3>3
  <2> QED BY <1>1, <1>2, <2>1 DEF Lows
<1> DEFINE rest == path \ {c}
<1>14. OnPath(f, g, rest)
  <2>1. rest \subseteq 1 .. n /\ 1 \in rest /\ p \in rest /\ \A q \in rest : q <= p
    BY <1>6
  <2>2. \A q \in rest : q # 1 => /\ Parent(s, q) \in rest /\ Parent(s, q) < q
                                /\ \A r \in rest : r <= Parent(s, q) \/ q <= r
    BY <1>5, <1>6 DEF OnPath
  <2>3. \A q \in rest : \A k \in q .. n : Mod(s, k) \in Leads(g, Mod(s, q))
    BY <1>1, <1>5 DEF OnPath
  <2> HIDE DEF rest
  <2>4. n # 0
    BY <1>1
  <2> QED BY <1>1, <1>2, <2>1, <2>2, <2>3, <2>4 DEF OnPath
<1>15. Visits(f, g, low2, finished, rest)
  <2> HIDE DEF rest
  <2> SUFFICES ASSUME NEW i \in 1 .. n, NEW j \in 1 .. Node(f, i) - 1
               PROVE  \/ g[Mod(f, i)][j] \in finished
                      \/ \E k \in 1 .. n : /\ g[Mod(f, i)][j] = Mod(f, k) /\ low2[Mod(f, i)] <= Index(f, k)
                                           /\ \A q \in rest : q <= i \/ k < q
                      \/ \E k \in rest : Parent(f, k) = i /\ g[Mod(f, i)][j] = Mod(f, k)
    <3>1. Height(f) = n
      BY <1>1
    <3> QED BY <3>1 DEF Visits
  <2> USE DEF rest
  <2> PICK x : x = g[Mod(s, i)][j]
    OBVIOUS
  <2>0. j \in 1 .. Node(s, i) - 1
    BY <1>2
  <2>1. \/ x \in finished
        \/ \E k \in 1 .. n : /\ x = Mod(s, k) /\ low[Mod(s, i)] <= Index(s, k)
                             /\ \A q \in path : q <= i \/ k < q
        \/ \E k \in path : Parent(s, k) = i /\ x = Mod(s, k)
    <3>1. \/ g[Mod(s, i)][j] \in finished
          \/ \E k \in 1 .. n : /\ g[Mod(s, i)][j] = Mod(s, k) /\ low[Mod(s, i)] <= Index(s, k)
                               /\ \A q \in path : q <= i \/ k < q
          \/ \E k \in path : Parent(s, k) = i /\ g[Mod(s, i)][j] = Mod(s, k)
      <4>1. Visits(s, g, low, finished, path) /\ Height(s) = n /\ s.step = "visit"
        BY <1>1, <1>5
      <4> QED BY <2>0, <4>1 DEF Visits
    <3> QED BY <3>1
  <2>2. ASSUME NEW k \in 1 .. n, x = Mod(s, k), low[Mod(s, i)] <= Index(s, k),
               \A q \in path : q <= i \/ k < q
        PROVE  /\ x = Mod(s, k) /\ low2[Mod(s, i)] <= Index(s, k)
               /\ \A q \in rest : q <= i \/ k < q
    <3>1. low2[Mod(s, i)] <= low[Mod(s, i)] /\ low2[Mod(s, i)] \in Nat /\ low[Mod(s, i)] \in Nat
          /\ Index(s, k) \in Nat
      BY <1>1, <1>7
    <3>2. low2[Mod(s, i)] <= Index(s, k)
      BY <2>2, <3>1
    <3> QED BY <2>2, <3>2
  <2>3. CASE Parent(s, c) = i /\ x = Mod(s, c)
    <3>1. low2[Mod(s, p)] <= Index(s, c)
      <4>1. low2[Mod(s, p)] \in Nat /\ low[Mod(s, c)] \in Nat /\ Index(s, c) \in Nat
        BY <1>1, <1>6, <1>7
      <4> QED BY <1>7, <1>8, <4>1
    <3>2. i = p /\ \A q \in rest : q <= i
      BY <1>6, <2>3
    <3>3. c \in 1 .. n /\ x = Mod(s, c)
      BY <1>1, <2>3
    <3> HIDE DEF rest
    <3> QED BY <1>2, <3>1, <3>2, <3>3
  <2>4. CASE \E k \in path : k # c /\ Parent(s, k) = i /\ x = Mod(s, k)
    <3>1. PICK k \in path : k # c /\ Parent(s, k) = i /\ x = Mod(s, k)
      BY <2>4
    <3>2. k \in rest
      BY <3>1
    <3> HIDE DEF rest
    <3> QED BY <1>2, <3>1, <3>2
  <2>5. CASE \E k \in 1 .. n : /\ x = Mod(s, k) /\ low[Mod(s, i)] <= Index(s, k)
                               /\ \A q \in path : q <= i \/ k < q
    <3>1. PICK k \in 1 .. n : /\ x = Mod(s, k) /\ low[Mod(s, i)] <= Index(s, k)
                             /\ \A q \in path : q <= i \/ k < q
      BY <2>5
    <3>2. /\ x = Mod(s, k) /\ low2[Mod(s, i)] <= Index(s, k)
          /\ \A q \in rest : q <= i \/ k < q
      BY <2>2, <3>1
    <3> HIDE DEF rest
    <3> QED BY <1>2, <3>1, <3>2
  <2>6. CASE x \in finished
    BY <1>2, <2>6
  <2> QED BY <2>1, <2>3, <2>4, <2>5, <2>6
<1>16. Done(f, g, low2, sc2, rest)
  <2> SUFFICES ASSUME NEW k \in (1 .. n) \ rest
               PROVE  /\ Node(s, k) > Len(g[Mod(s, k)])
                      /\ low2[Mod(s, k)] < Index(s, k)
                      /\ sc2[Mod(s, k)]
                      /\ \E q \in rest : /\ q < k
                                         /\ \A r \in rest : r <= q \/ k < r
                                         /\ Mod(s, q) \in Leads(g, Mod(s, k))
                                         /\ low2[Mod(s, q)] <= low2[Mod(s, k)]
    BY <1>1, <1>2 DEF Done
  <2>1. k # p /\ k \in 1 .. n /\ low2[Mod(s, k)] = low[Mod(s, k)]
    BY <1>6, <1>7
  <2>2. CASE k = c
    <3>1. sc2[Mod(s, c)]
      BY DEF Scoped
    <3>2. \A r \in rest : r <= p
      BY <1>6
    <3> QED BY <1>6, <1>7, <1>8, <1>11, <2>1, <2>2, <3>1, <3>2
  <2>3. CASE k # c
    <3>1. k \in (1 .. n) \ path
      BY <2>3
    <3>2. Node(s, k) > Len(g[Mod(s, k)]) /\ low[Mod(s, k)] < Index(s, k) /\ sc[Mod(s, k)]
      BY <1>1, <1>5, <3>1 DEF Done
    <3>3. sc2[Mod(s, k)]
      BY <1>1, <3>1, <3>2 DEF Scoped
    <3>4. PICK q \in path : /\ q < k
                            /\ \A r \in path : r <= q \/ k < r
                            /\ Mod(s, q) \in Leads(g, Mod(s, k))
                            /\ low[Mod(s, q)] <= low[Mod(s, k)]
      BY <1>1, <1>5, <3>1 DEF Done
    <3>5. CASE q # c
      <4>1. low2[Mod(s, q)] <= low2[Mod(s, k)]
        <5>1. q \in 1 .. n
          BY <1>6
        <5>2. low2[Mod(s, q)] <= low[Mod(s, q)] /\ low2[Mod(s, q)] \in Nat /\ low[Mod(s, q)] \in Nat
              /\ low[Mod(s, k)] \in Nat
          BY <1>7, <3>1, <5>1
        <5> QED BY <2>1, <3>4, <5>2
      <4> QED BY <2>1, <3>2, <3>3, <3>4, <3>5, <4>1
    <3>6. CASE q = c
      <4>1. low2[Mod(s, p)] <= low2[Mod(s, k)]
        <5>1. low2[Mod(s, p)] \in Nat /\ low[Mod(s, c)] \in Nat /\ low[Mod(s, k)] \in Nat
          BY <1>1, <1>6, <1>7, <3>1
        <5> QED BY <1>7, <2>1, <3>4, <3>6, <5>1
      <4>2. Mod(s, p) \in Leads(g, Mod(s, k))
        BY <1>11, <3>4, <3>6, LeadsOn
      <4>3. p \in rest /\ p < k /\ \A r \in rest : r <= p
        <5>1. p \in Nat /\ c \in Nat /\ k \in Nat
          BY <1>1, <1>6
        <5> QED BY <1>6, <3>4, <3>6, <5>1
      <4> QED BY <2>1, <3>2, <3>3, <4>1, <4>2, <4>3
    <3> QED BY <3>5, <3>6
  <2> QED BY <2>2, <2>3
<1>17. Tree(f, g, low2, sc2, finished)
  <2>1. rest \in SUBSET (1 .. Height(f))
    BY <1>1
  <2> QED BY <1>14, <1>15, <1>16, <2>1 DEF Tree
<1> QED BY <1>12, <1>13, <1>17 DEF Searching

LEMMA ReturnToParentPreserves == ASSUME IInv, ReturnToParent PROVE IInv'
<1> PICK s : s = Top
  OBVIOUS
<1> PICK c : c = s.current
  OBVIOUS
<1> PICK p : p = Parent(s, c)
  OBVIOUS
<1>1. /\ Calls("link") /\ s.step = "visit" /\ Current.node > Len(imports[Current.module])
      /\ ancestor[Current.module] # Current.index /\ Current.parent # 0
      /\ ancestor' = Lowered(Top.items[Current.parent].module, ancestor[Current.module])
      /\ scope' = [scope EXCEPT ![Current.module] = TRUE]
      /\ stack' = <<[s EXCEPT !.current = Current.parent]>> \o Tail(stack)
      /\ UNCHANGED <<imports, resolved, state, names, bound, code>>
  BY DEF ReturnToParent, Visited, At, Become
<1>2. /\ s \in LinkFrame /\ Searching(s, imports, state, ancestor, scope, names, bound, Finished)
      /\ c \in 1 .. Len(s.items) /\ WellFormed(imports)
      /\ Current.module = Mod(s, c) /\ Current.node = Node(s, c)
      /\ Current.parent = p /\ Current.index = Index(s, c)
      /\ Mod(s, c) \in Module
      /\ Finished = {m \in Module : state[m] \in LinkedStates}
      /\ ancestor \in [Module -> Nat]
      /\ \A m \in Module : state[m] = "linking" => \E i \in 1 .. Len(s.items) : m = Mod(s, i)
  BY <1>1, CurrentIs, InSearch
<1>3. p \in 1 .. Len(s.items)
  <2>1. Tree(s, imports, ancestor, scope, Finished) /\ Items(s, imports, state) /\ Height(s) = Len(s.items)
    BY <1>1, <1>2, CurrentItem
  <2>2. PICK path : path \subseteq 1 .. Len(s.items) /\ OnPath(s, imports, path)
    BY <2>1 DEF Tree
  <2>3. PathTo(s, imports, path, s.current)
    BY <1>1, <1>2, <2>2, Leaving
  <2>4. c # 1
    BY <1>1, <1>2, <2>1, ItemOrder
  <2> QED BY <2>2, <2>3, <2>4 DEF PathTo
<1>4. Mod(s, p) \in Module
  BY <1>2, <1>3, SearchFields
<1>5. /\ ancestor' \in [Module -> 0 .. Cardinality(Module)]
      /\ LowerTo(ancestor, ancestor', Mod(s, p), ancestor[Mod(s, c)])
  <2>1. ancestor \in [Module -> 0 .. Cardinality(Module)]
    BY DEF IInv, Types
  <2> PICK K : K = 0 .. Cardinality(Module)
    OBVIOUS
  <2>2. K \in SUBSET Nat /\ ancestor \in [Module -> K] /\ ancestor[Mod(s, c)] \in K
    BY <1>2, <2>1
  <2>3. ancestor' = Lowered(Mod(s, p), ancestor[Mod(s, c)])
    BY <1>1, <1>2 DEF Mod
  <2>4. Lower(ancestor, ancestor', Mod(s, p), ancestor[Mod(s, c)])
    BY <2>3 DEF Lower, Lowered
  <2>5. ancestor' \in [Module -> K] /\ LowerTo(ancestor, ancestor', Mod(s, p), ancestor[Mod(s, c)])
    BY <1>4, <2>2, <2>4, Lowers
  <2> QED BY <2>5
<1>6. scope \in [Module -> BOOLEAN] /\ state \in [Module -> ModuleState]
  BY DEF IInv, Types
<1>7. /\ scope' \in [Module -> BOOLEAN] /\ Scoped(scope, scope', Mod(s, c))
      /\ \A m \in Module : m # Mod(s, c) => scope'[m] = scope[m]
  BY <1>1, <1>2, <1>6 DEF Scoped
<1>8. PICK f \in LinkFrame : /\ stack' = <<f>> \o Tail(stack) /\ f.items = s.items /\ f.step = "visit"
                             /\ f.current = p /\ f.index = s.index
  <2> PICK f : f = [s EXCEPT !.current = p]
    OBVIOUS
  <2>1. f \in LinkFrame
    BY <1>2, <1>3, SearchFields DEF LinkFrame
  <2>2. f.items = s.items /\ f.step = "visit" /\ f.current = p /\ f.index = s.index
    BY <1>1, <1>2 DEF LinkFrame
  <2> QED BY <1>1, <1>2, <2>1, <2>2
<1>9. Searching(f, imports, state, ancestor', scope', names, bound, Finished)
  <2>1. /\ Node(s, c) > Len(imports[Mod(s, c)]) /\ ancestor[Mod(s, c)] # Index(s, c) /\ p # 0
    BY <1>1, <1>2
  <2> QED BY <1>1, <1>2, <1>5, <1>7, <1>8, <2>1, Returned
<1>10. \A m \in Module : state[m] = "error" => m # Mod(s, c)
  <2>1. Items(s, imports, state)
    BY <1>1, <1>2, CurrentItem
  <2> QED BY <1>2, <2>1, ItemOrder
<1>11. \A m \in Module : /\ state[m] = "error" => scope'[m] = scope[m]
                         /\ scope[m] => scope'[m]
                         /\ state'[m] # state[m] => state[m] = "unlinked" /\ state'[m] = "linking"
  BY <1>1, <1>7, <1>10 DEF Scoped
<1>12. \A m \in Module : state'[m] = "linking" => \E i \in 1 .. Len(f.items) : m = Mod(f, i)
  BY <1>1, <1>2, <1>8 DEF Mod
<1>13. Searching(f, imports, state', ancestor', scope', names, bound, Finished)
  BY <1>1, <1>9
<1> QED BY <1>1, <1>5, <1>6, <1>7, <1>8, <1>11, <1>12, <1>13, SearchKeeps

\* The items from c on are a circle.
Circular(s, g, sc, finished, c) ==
  \A i \in c .. Len(s.items) :
     /\ \A j \in c .. Len(s.items) : Mod(s, j) \in Leads(g, Mod(s, i))
     /\ \A x \in ToSet(g[Mod(s, i)]) :
           x \in finished \/ \E j \in c .. Len(s.items) : x = Mod(s, j)
     /\ sc[Mod(s, i)]

\* The search closes the circle that begins at item c.
Closes(s, f, c) == /\ f \in LinkFrame /\ f.items = s.items /\ f.step = "names" /\ f.current = Parent(s, c)
                   /\ f.index = s.index /\ f.circle = c

ClosedAt(f, g, st, low, sc, finished, c) ==
  /\ Items(f, g, st) /\ Counted(f, st) /\ Requested(f, g, st) /\ Lows(f, g, low)
  /\ Tree(f, g, low, sc, finished) /\ Circular(f, g, sc, finished, c)

\* A circle is found: its modules lead to each other, what they import is linked, and
\* none of them was ever given names.
LEMMA CircleFound ==
  ASSUME NEW s \in LinkFrame, s.step = "visit", NEW g, WellFormed(g), NEW st, NEW low \in [Module -> Nat],
         NEW sc, NEW nm, NEW bd, NEW finished, Searching(s, g, st, low, sc, nm, bd, finished),
         NEW c, c = s.current, Node(s, c) > Len(g[Mod(s, c)]), low[Mod(s, c)] = Index(s, c),
         NEW sc2, Scoped(sc, sc2, Mod(s, c)),
         NEW f, Closes(s, f, c)
  PROVE  ClosedAt(f, g, st, low, sc2, finished, c)
<1>0. /\ f \in LinkFrame /\ f.items = s.items /\ f.step = "names" /\ f.current = Parent(s, c)
      /\ f.index = s.index /\ f.circle = c
  BY DEF Closes
<1> PICK n : n = Len(s.items)
  OBVIOUS
<1>1. /\ c \in 1 .. n /\ Height(s) = n /\ n \in Nat
      /\ Items(s, g, st) /\ Counted(s, st) /\ Requested(s, g, st) /\ Lows(s, g, low)
      /\ Tree(s, g, low, sc, finished)
      /\ \A i \in 1 .. n : Mod(s, i) \in Module /\ Node(s, i) \in Nat /\ Parent(s, i) \in Nat /\ Index(s, i) \in Nat
  BY CurrentItem, SearchFields
<1>1a. Height(f) = c - 1
  BY <1>0 DEF Height
<1>2. /\ \A i : Mod(f, i) = Mod(s, i)
      /\ \A i : Node(f, i) = Node(s, i)
      /\ \A i : Parent(f, i) = Parent(s, i)
      /\ \A i : Index(f, i) = Index(s, i)
  BY <1>0 DEF Mod, Node, Parent, Index
<1>3. /\ \A i, j \in 1 .. n : i # j => Mod(s, i) # Mod(s, j)
      /\ \A i, j \in 1 .. n : i < j <=> Index(s, i) < Index(s, j)
      /\ \A i, j \in 1 .. n : i <= j <=> Index(s, i) <= Index(s, j)
      /\ Parent(s, 1) = 0
      /\ \A i \in 1 .. n : Node(s, i) \in 1 .. Len(g[Mod(s, i)]) + 1
  BY <1>1, ItemOrder
<1>4. PICK path \in SUBSET (1 .. n) :
             OnPath(s, g, path) /\ Visits(s, g, low, finished, path) /\ Done(s, g, low, sc, path)
  BY <1>1 DEF Tree
<1>5. /\ c \in path /\ \A q \in path : q \in 1 .. n /\ q <= c
      /\ \A q \in path : \A k \in 1 .. n : q <= k => Mod(s, k) \in Leads(g, Mod(s, q))
      /\ \A q \in path : q # 1 => Parent(s, q) \in path /\ Parent(s, q) < q
      /\ c # 1 => /\ Parent(s, c) \in path \ {c} /\ Parent(s, c) < c /\ 1 \in path \ {c}
                  /\ \A q \in path \ {c} : /\ q <= Parent(s, c)
                                           /\ q # 1 => Parent(s, q) \in path \ {c}
  <2>1. path \subseteq 1 .. Len(s.items) /\ s.current \in 1 .. Len(s.items)
    BY <1>1
  <2>2. PathTo(s, g, path, s.current)
    BY <1>4, <2>1, Leaving
  <2> QED BY <2>2 DEF PathTo
<1>6. Items(f, g, st) /\ Counted(f, st) /\ Requested(f, g, st)
  <2>1. Items(f, g, st)
    BY <1>0, <1>1, <1>2 DEF Items
  <2>2. Counted(f, st)
    BY <1>0, <1>1 DEF Counted
  <2>3. Requested(f, g, st)
    BY <1>0, <1>1, <1>2 DEF Requested
  <2> QED BY <2>1, <2>2, <2>3
<1>7. Lows(f, g, low)
  <2>1. \A i \in 1 .. c - 1 : i \in 1 .. n
    BY <1>1
  <2>2. \A i \in 1 .. n :
          /\ low[Mod(s, i)] <= Index(s, i)
          /\ \E w \in 1 .. i : low[Mod(s, i)] = Index(s, w) /\ Mod(s, w) \in Leads(g, Mod(s, i))
    BY <1>1 DEF Lows
  <2> QED BY <1>1a, <1>2, <2>1, <2>2 DEF Lows
<1> DEFINE rest == path \ {c}
<1>8. \A q \in rest : q \in 1 .. c - 1 /\ q \in 1 .. n /\ q < c
  <2> SUFFICES ASSUME NEW q \in path, q # c
               PROVE  q \in 1 .. c - 1 /\ q \in 1 .. n /\ q < c
    OBVIOUS
  <2>1. q \in 1 .. n /\ q <= c
    BY <1>5
  <2> QED BY <1>1, <2>1
<1>9. OnPath(f, g, rest)
  <2>1. CASE c = 1
    <3>1. Height(f) = 0 /\ f.current = 0
      BY <1>0, <1>1a, <1>3, <2>1
    <3>2. rest = {}
      BY <1>8, <2>1
    <3> HIDE DEF rest
    <3> QED BY <3>1, <3>2 DEF OnPath
  <2>2. CASE c # 1
    <3>1. rest \subseteq 1 .. c - 1 /\ 1 \in rest /\ Parent(s, c) \in rest /\ \A q \in rest : q <= Parent(s, c)
      BY <1>5, <1>8, <2>2
    <3>2. \A q \in rest : q # 1 => /\ Parent(s, q) \in rest /\ Parent(s, q) < q
                                  /\ \A r \in rest : r <= Parent(s, q) \/ q <= r
      BY <1>4, <1>5, <2>2 DEF OnPath
    <3>3. \A q \in rest : \A k \in q .. c - 1 : Mod(s, k) \in Leads(g, Mod(s, q))
      <4> SUFFICES ASSUME NEW q \in rest, NEW k \in q .. c - 1
                   PROVE  Mod(s, k) \in Leads(g, Mod(s, q))
        OBVIOUS
      <4>1. k \in 1 .. n /\ q <= k
        BY <1>1, <1>8
      <4> QED BY <1>5, <4>1
    <3>4. c - 1 # 0
      BY <1>1, <2>2
    <3> HIDE DEF rest
    <3> QED BY <1>0, <1>1a, <1>2, <3>1, <3>2, <3>3, <3>4 DEF OnPath
  <2> QED BY <2>1, <2>2
\* The imports that have been visited.
<1>10. \A i \in 1 .. n : \A j \in 1 .. Node(s, i) - 1 :
          \/ g[Mod(s, i)][j] \in finished
          \/ \E k \in 1 .. n : /\ g[Mod(s, i)][j] = Mod(s, k) /\ low[Mod(s, i)] <= Index(s, k)
                               /\ \A q \in path : q <= i \/ k < q
          \/ \E k \in path : Parent(s, k) = i /\ g[Mod(s, i)][j] = Mod(s, k)
  <2> SUFFICES ASSUME NEW i \in 1 .. n, NEW j \in 1 .. Node(s, i) - 1
               PROVE  \/ g[Mod(s, i)][j] \in finished
                      \/ \E k \in 1 .. n : /\ g[Mod(s, i)][j] = Mod(s, k) /\ low[Mod(s, i)] <= Index(s, k)
                                           /\ \A q \in path : q <= i \/ k < q
                      \/ \E k \in path : Parent(s, k) = i /\ g[Mod(s, i)][j] = Mod(s, k)
    OBVIOUS
  <2>1. Height(s) = n
    BY <1>1
  <2> QED BY <1>4, <2>1 DEF Visits
<1>11. Visits(f, g, low, finished, rest)
  <2> HIDE DEF rest
  <2> SUFFICES ASSUME NEW i \in 1 .. c - 1, NEW j \in 1 .. Node(f, i) - 1
               PROVE  \/ g[Mod(f, i)][j] \in finished
                      \/ \E k \in 1 .. c - 1 : /\ g[Mod(f, i)][j] = Mod(f, k) /\ low[Mod(f, i)] <= Index(f, k)
                                               /\ \A q \in rest : q <= i \/ k < q
                      \/ \E k \in rest : Parent(f, k) = i /\ g[Mod(f, i)][j] = Mod(f, k)
                      \/ i = f.current /\ g[Mod(f, i)][j] = Mod(f, f.circle)
    BY <1>0, <1>1a DEF Visits
  <2> USE DEF rest
  <2> PICK x : x = g[Mod(s, i)][j]
    OBVIOUS
  <2>1. j \in 1 .. Node(s, i) - 1 /\ i \in 1 .. n
    BY <1>1, <1>2
  <2>2. \/ x \in finished
        \/ \E k \in 1 .. n : /\ x = Mod(s, k) /\ low[Mod(s, i)] <= Index(s, k)
                             /\ \A q \in path : q <= i \/ k < q
        \/ \E k \in path : Parent(s, k) = i /\ x = Mod(s, k)
    BY <1>10, <2>1
  <2>3. CASE x \in finished
    BY <1>2, <2>3
  <2>4. CASE \E k \in 1 .. n : /\ x = Mod(s, k) /\ low[Mod(s, i)] <= Index(s, k)
                               /\ \A q \in path : q <= i \/ k < q
    <3>1. PICK k \in 1 .. n : /\ x = Mod(s, k) /\ low[Mod(s, i)] <= Index(s, k)
                             /\ \A q \in path : q <= i \/ k < q
      BY <2>4
    <3>2. c <= i \/ k < c
      BY <1>5, <3>1
    <3>3. k \in 1 .. c - 1
      BY <1>1, <3>2
    <3>4. \A q \in rest : q <= i \/ k < q
      BY <3>1
    <3> HIDE DEF rest
    <3> QED BY <1>2, <3>1, <3>3, <3>4
  <2>5. CASE \E k \in path : Parent(s, k) = i /\ x = Mod(s, k)
    <3>1. PICK k \in path : Parent(s, k) = i /\ x = Mod(s, k)
      BY <2>5
    <3>2. k # c => k \in rest
      OBVIOUS
    <3> HIDE DEF rest
    <3> QED BY <1>0, <1>2, <3>1, <3>2
  <2> QED BY <2>2, <2>3, <2>4, <2>5
\* The modules from which the search has returned.
<1>12. \A k \in (1 .. n) \ path :
          /\ Node(s, k) > Len(g[Mod(s, k)]) /\ low[Mod(s, k)] < Index(s, k) /\ sc[Mod(s, k)]
          /\ \E q \in path : /\ q < k
                             /\ \A r \in path : r <= q \/ k < r
                             /\ Mod(s, q) \in Leads(g, Mod(s, k))
                             /\ low[Mod(s, q)] <= low[Mod(s, k)]
  BY <1>1, <1>4 DEF Done
<1>13. Done(f, g, low, sc2, rest)
  <2> HIDE DEF rest
  <2> SUFFICES ASSUME NEW k \in (1 .. c - 1) \ rest
               PROVE  /\ Node(s, k) > Len(g[Mod(s, k)])
                      /\ low[Mod(s, k)] < Index(s, k)
                      /\ sc2[Mod(s, k)]
                      /\ \E q \in rest : /\ q < k
                                         /\ \A r \in rest : r <= q \/ k < r
                                         /\ Mod(s, q) \in Leads(g, Mod(s, k))
                                         /\ low[Mod(s, q)] <= low[Mod(s, k)]
    BY <1>1a, <1>2 DEF Done
  <2> USE DEF rest
  <2>1. k \in (1 .. n) \ path /\ k < c
    BY <1>1
  <2>2. Node(s, k) > Len(g[Mod(s, k)]) /\ low[Mod(s, k)] < Index(s, k) /\ sc[Mod(s, k)]
    BY <1>12, <2>1
  <2>3. PICK q \in path : /\ q < k
                          /\ \A r \in path : r <= q \/ k < r
                          /\ Mod(s, q) \in Leads(g, Mod(s, k))
                          /\ low[Mod(s, q)] <= low[Mod(s, k)]
    BY <1>12, <2>1
  <2>4. q \in rest
    BY <1>1, <1>5, <2>1, <2>3
  <2>5. sc2[Mod(s, k)]
    BY <1>1, <2>1, <2>2 DEF Scoped
  <2> QED BY <2>2, <2>3, <2>4, <2>5
<1>14. Tree(f, g, low, sc2, finished)
  <2>1. rest \in SUBSET (1 .. Height(f))
    BY <1>1a, <1>8
  <2> QED BY <1>9, <1>11, <1>13, <2>1 DEF Tree
<1>15. ASSUME NEW i \in c .. n
       PROVE  /\ Node(s, i) > Len(g[Mod(s, i)]) /\ sc2[Mod(s, i)]
              /\ Mod(s, c) \in Leads(g, Mod(s, i))
              /\ Index(s, c) <= low[Mod(s, i)]
  <2>1. i \in 1 .. n
    BY <1>1
  <2>2. CASE i = c
    <3>1. Mod(s, c) \in Module /\ Index(s, c) \in Nat
      BY <1>1
    <3> QED BY <2>2, <3>1, LeadsSelf DEF Scoped
  <2>3. CASE i # c
    <3>1. i \in (1 .. n) \ path
      BY <1>1, <1>5, <2>1, <2>3
    <3>2. PICK q \in path : /\ q < i
                            /\ \A r \in path : r <= q \/ i < r
                            /\ Mod(s, q) \in Leads(g, Mod(s, i))
                            /\ low[Mod(s, q)] <= low[Mod(s, i)]
      BY <1>12, <3>1
    <3>3. q = c
      BY <1>1, <1>5, <3>2
    <3>4. sc2[Mod(s, i)]
      BY <1>1, <1>12, <3>1 DEF Scoped
    <3> QED BY <1>12, <3>1, <3>2, <3>3, <3>4
  <2> QED BY <2>2, <2>3
<1>16. ASSUME NEW i \in c .. n, NEW j \in c .. n
       PROVE  Mod(s, j) \in Leads(g, Mod(s, i))
  <2>1. j \in 1 .. n /\ c <= j
    BY <1>1
  <2>2. Mod(s, j) \in Leads(g, Mod(s, c))
    BY <1>5, <2>1
  <2> QED BY <1>15, <2>2, LeadsOn
<1>17. ASSUME NEW i \in c .. n, NEW x \in ToSet(g[Mod(s, i)])
       PROVE  x \in finished \/ \E j \in c .. n : x = Mod(s, j)
  <2>1. i \in 1 .. n
    BY <1>1
  <2>2. g[Mod(s, i)] \in Seq(Module) /\ Len(g[Mod(s, i)]) \in Nat
    BY <1>1, <2>1 DEF WellFormed
  <2>3. PICK j \in 1 .. Len(g[Mod(s, i)]) : x = g[Mod(s, i)][j]
    BY <2>2, Listed
  <2>4. j \in 1 .. Node(s, i) - 1
    BY <1>1, <1>15, <2>1, <2>2
  <2>5. \/ x \in finished
        \/ \E k \in 1 .. n : x = Mod(s, k) /\ low[Mod(s, i)] <= Index(s, k)
        \/ \E k \in path : Parent(s, k) = i
    BY <1>10, <2>1, <2>3, <2>4
  <2>6. ASSUME NEW k \in 1 .. n, x = Mod(s, k), low[Mod(s, i)] <= Index(s, k)
        PROVE  k \in c .. n
    <3>1. Index(s, c) <= low[Mod(s, i)] /\ low[Mod(s, i)] \in Nat /\ Index(s, c) \in Nat /\ Index(s, k) \in Nat
      BY <1>1, <1>15, <2>1
    <3>2. Index(s, c) <= Index(s, k)
      BY <2>6, <3>1
    <3>3. c <= k
      BY <1>1, <1>3, <3>2
    <3> QED BY <1>1, <3>3
  <2>7. ASSUME NEW k \in path, Parent(s, k) = i
        PROVE  FALSE
    <3>1. k # 1
      BY <1>1, <1>3, <2>1, <2>7
    <3>2. i < k /\ k <= c /\ k \in 1 .. n
      BY <1>5, <2>7, <3>1
    <3> QED BY <1>1, <3>2
  <2> QED BY <2>5, <2>6, <2>7
<1>18. Circular(f, g, sc2, finished, c)
  BY <1>0, <1>2, <1>15, <1>16, <1>17 DEF Circular
<1> QED BY <1>6, <1>7, <1>14, <1>18 DEF ClosedAt

LEMMA ImportsIn ==
  ASSUME NEW g, WellFormed(g)
  PROVE  \A x \in Module : ToSet(g[x]) \subseteq Module
<1> SUFFICES ASSUME NEW x \in Module, NEW y \in ToSet(g[x]) PROVE y \in Module
  OBVIOUS
<1>1. g[x] \in Seq(Module)
  BY DEF WellFormed
<1>2. PICK j \in 1 .. Len(g[x]) : y = g[x][j]
  BY <1>1, Listed
<1> QED BY <1>2 DEF WellFormed

\* What a module of a circle leads to outside the circle is complete.
LEMMA Untouched ==
  ASSUME IInv, NEW circle \in SUBSET Module, \A x \in circle : state[x] = "linking",
         \A x \in circle : ToSet(imports[x]) \subseteq circle \cup Finished,
         NEW m \in circle
  PROVE  ~Doomed(m)
<1> SUFFICES ASSUME NEW n \in Leads(imports, m), state[n] = "error", ~(scope[n] /\ names[n] /\ bound[n])
             PROVE  FALSE
  BY DEF Doomed
<1>1. n \notin circle
  OBVIOUS
<1>2. WellFormed(imports)
  BY GraphOf DEF IInv
<1>3. \A x \in Module : ToSet(imports[x]) \subseteq Module
  BY <1>2, ImportsIn
<1>4. Finished \in SUBSET Module
  BY DEF Finished
<1>5. PICK b \in Finished : n \in Leads(imports, b)
  BY <1>1, <1>3, <1>4, LeadsThrough
<1> QED BY <1>5 DEF IInv, Ready

LEMMA CloseCirclePreserves == ASSUME IInv, CloseCircle PROVE IInv'
<1> PICK s : s = Top
  OBVIOUS
<1> PICK c : c = s.current
  OBVIOUS
<1>1. /\ Calls("link") /\ s.step = "visit" /\ Current.node > Len(imports[Current.module])
      /\ ancestor[Current.module] = Current.index
      /\ scope' = [scope EXCEPT ![Current.module] = TRUE]
      /\ stack' = <<[s EXCEPT !.step = "names", !.circle = c, !.current = Current.parent]>> \o Tail(stack)
      /\ UNCHANGED <<imports, resolved, state, ancestor, names, bound, code>>
  BY DEF CloseCircle, Visited, At, Become
<1>2. /\ s \in LinkFrame /\ Searching(s, imports, state, ancestor, scope, names, bound, Finished)
      /\ c \in 1 .. Len(s.items) /\ WellFormed(imports)
      /\ Current.module = Mod(s, c) /\ Current.node = Node(s, c)
      /\ Current.parent = Parent(s, c) /\ Current.index = Index(s, c)
      /\ Mod(s, c) \in Module
      /\ Finished = {m \in Module : state[m] \in LinkedStates} /\ Closing = {}
      /\ ancestor \in [Module -> Nat]
      /\ \A m \in Module : state[m] = "linking" => \E i \in 1 .. Len(s.items) : m = Mod(s, i)
  BY <1>1, CurrentIs, InSearch
<1>3. Len(s.items) \in Nat /\ Parent(s, c) \in Nat /\ \A i \in 1 .. Len(s.items) : Mod(s, i) \in Module
  BY <1>2, SearchFields
<1>4. /\ scope \in [Module -> BOOLEAN] /\ state \in [Module -> ModuleState]
      /\ ancestor \in [Module -> 0 .. Cardinality(Module)]
  BY DEF IInv, Types
<1>5. /\ scope' \in [Module -> BOOLEAN] /\ Scoped(scope, scope', Mod(s, c))
      /\ \A m \in Module : m # Mod(s, c) => scope'[m] = scope[m]
  BY <1>1, <1>2, <1>4 DEF Scoped
<1>6. PICK f \in LinkFrame : /\ stack' = <<f>> \o Tail(stack) /\ f.items = s.items /\ f.step = "names"
                             /\ f.current = Parent(s, c) /\ f.index = s.index /\ f.circle = c
  <2> PICK f : f = [s EXCEPT !.step = "names", !.circle = c, !.current = Parent(s, c)]
    OBVIOUS
  <2>1. f \in LinkFrame
    BY <1>2, <1>3 DEF LinkFrame, LinkStep
  <2>2. f.items = s.items /\ f.step = "names" /\ f.current = Parent(s, c) /\ f.index = s.index /\ f.circle = c
    BY <1>1, <1>2 DEF LinkFrame
  <2> QED BY <1>1, <1>2, <2>1, <2>2
<1>7. /\ Items(f, imports, state) /\ Counted(f, state) /\ Requested(f, imports, state)
      /\ Lows(f, imports, ancestor) /\ Tree(f, imports, ancestor, scope', Finished)
      /\ \A i \in c .. Len(s.items) :
            /\ \A j \in c .. Len(s.items) : Mod(s, j) \in Leads(imports, Mod(s, i))
            /\ \A x \in ToSet(imports[Mod(s, i)]) :
                  x \in Finished \/ \E j \in c .. Len(s.items) : x = Mod(s, j)
            /\ scope'[Mod(s, i)]
  <2>1. /\ s \in LinkFrame /\ s.step = "visit" /\ WellFormed(imports) /\ ancestor \in [Module -> Nat]
        /\ Searching(s, imports, state, ancestor, scope, names, bound, Finished)
        /\ Node(s, c) > Len(imports[Mod(s, c)]) /\ ancestor[Mod(s, c)] = Index(s, c)
        /\ Scoped(scope, scope', Mod(s, c))
    BY <1>1, <1>2, <1>5
  <2>2. Closes(s, f, c)
    BY <1>6 DEF Closes
  <2>3. ClosedAt(f, imports, state, ancestor, scope', Finished, c)
    BY <2>1, <2>2, CircleFound
  <2>4. \A i : Mod(f, i) = Mod(s, i)
    BY <1>6 DEF Mod
  <2> QED BY <1>6, <2>3, <2>4 DEF ClosedAt, Circular
<1>8. /\ \A i \in 1 .. Len(s.items) : state[Mod(s, i)] = "linking"
      /\ \A i \in c .. Len(s.items) : i \in 1 .. Len(s.items)
  <2>1. Items(s, imports, state)
    BY <1>1, <1>2, CurrentItem
  <2> QED BY <1>2, <1>3, <2>1, ItemOrder
<1> DEFINE circle == {m \in Module : \E i \in c .. Len(s.items) : m = Mod(s, i)}
<1>9. ASSUME NEW i \in c .. Len(s.items)
      PROVE  ~names[Mod(s, i)] /\ ~bound[Mod(s, i)]
  <2>1. circle \in SUBSET Module /\ \A x \in circle : state[x] = "linking"
    BY <1>8
  <2>2. \A x \in circle : ToSet(imports[x]) \subseteq circle \cup Finished
    BY <1>3, <1>7, <1>8
  <2>3. Mod(s, i) \in circle
    BY <1>3, <1>8
  <2>4. ~Doomed(Mod(s, i))
    <3> HIDE DEF circle
    <3> QED BY <2>1, <2>2, <2>3, Untouched
  <2>5. ~At("link", "connect")
    BY <1>1 DEF At
  <2>6. Mod(s, i) \in Module /\ state[Mod(s, i)] = "linking"
    BY <1>3, <1>8
  <2> QED BY <1>2, <2>4, <2>5, <2>6 DEF IInv, Spoiled
<1>10. Circling(f, imports, Finished, scope', names, bound)
  <2>1. f.circle \in 1 .. Len(f.items) /\ f.items = s.items /\ f.circle = c /\ f.step = "names"
    BY <1>2, <1>6
  <2>2. \A i : Mod(f, i) = Mod(s, i)
    BY <1>6 DEF Mod
  <2> QED BY <1>7, <1>9, <2>1, <2>2 DEF Circling
<1>11. Searching(f, imports, state', ancestor', scope', names', bound', Finished)
  BY <1>1, <1>6, <1>7, <1>10 DEF Searching
<1>12. \A m \in Module : state[m] = "error" => m # Mod(s, c)
  BY <1>2, <1>8
<1>13. Types'
  <2>1. stack \in Seq(Frame) /\ stack # <<>>
    BY <1>1 DEF IInv, Types, Calls
  <2>2. stack' \in Seq(Frame)
    BY <1>6, <2>1, ReplaceFrame DEF Frame
  <2> QED BY <1>1, <1>5, <2>2 DEF IInv, Types
<1>14. SearchState
  BY <1>1 DEF SearchState, OthersKept
<1>15. Finished = {m \in Module : state'[m] \in LinkedStates \/ m \in ClosingOf(f)}
  BY <1>1, <1>2, <1>6 DEF ClosingOf
<1>16. \A m \in Module : state'[m] = "linking" => \E i \in 1 .. Len(f.items) : m = Mod(f, i)
  BY <1>1, <1>2, <1>6 DEF Mod
<1>17. /\ Calling(imports, stack)' /\ Evaluating(imports, state, stack)' /\ Linking'
       /\ Finished' = Finished /\ Closing' = ClosingOf(f)
  BY <1>1, <1>6, <1>11, <1>13, <1>14, <1>15, <1>16, SearchMoves
<1>18. Closing' = Closing
  BY <1>2, <1>6, <1>17 DEF ClosingOf
<1>19. Ready'
  <2>1. \A m \in Module : /\ state[m] = "error" => state'[m] = "error"
                          /\ scope[m] => scope'[m]
                          /\ names[m] => names'[m]
                          /\ bound[m] => bound'[m]
    BY <1>1, <1>5 DEF Scoped
  <2> QED BY <1>1, <1>17, <2>1, ReadyKept
<1>20. Spoiled'
  <2>1. ~At("link", "connect")
    BY <1>1 DEF At
  <2>2. \A m \in Module : /\ state[m] = "error" => state'[m] = "error" /\ scope'[m] = scope[m]
                          /\ state'[m] \in {"unlinked", "linking"} => state[m] \in {"unlinked", "linking"}
                          /\ m \in Closing /\ state'[m] \in {"unlinked", "linking"} => m \in Closing'
    BY <1>1, <1>5, <1>12, <1>18
  <2> QED BY <1>1, <2>1, <2>2, SpoiledKept
<1> QED BY <1>13, <1>17, <1>19, <1>20 DEF IInv

\* The search visits a module for the first time, which goes on top of the items.
Descends(s, f, c, x) ==
  /\ f \in LinkFrame /\ f.step = "resolve" /\ f.current = Len(s.items) + 1 /\ f.index = s.index + 1
  /\ f.request = 1 /\ Len(f.items) = Len(s.items) + 1 /\ Alike(s, f, Len(s.items))
  /\ \A i \in 1 .. Len(s.items) : Node(f, i) = IF i = c THEN Node(s, c) + 1 ELSE Node(s, i)
  /\ Mod(f, Len(s.items) + 1) = x /\ Node(f, Len(s.items) + 1) = 1
  /\ Parent(f, Len(s.items) + 1) = c /\ Index(f, Len(s.items) + 1) = s.index + 1

LEMMA ItemAdded ==
  ASSUME NEW s \in LinkFrame, NEW c \in 1 .. Len(s.items), NEW x \in Module, NEW h, Onward(s, h, c),
         NEW f, f = [s EXCEPT !.step = "resolve", !.items = Append(h.items, Item(x, c, s.index + 1)),
                              !.current = Len(s.items) + 1, !.index = s.index + 1, !.request = 1]
  PROVE  Descends(s, f, c, x)
<1> PICK n : n = Len(s.items)
  OBVIOUS
<1> PICK t : t = Item(x, c, s.index + 1)
  OBVIOUS
<1>1. /\ h.items \in Seq(ItemType) /\ Len(h.items) = n /\ Alike(s, h, n)
      /\ \A i \in 1 .. n : Node(h, i) = IF i = c THEN Node(s, c) + 1 ELSE Node(s, i)
  BY DEF Onward
<1>2. n \in Nat /\ c \in Nat /\ s.index + 1 \in Nat /\ n + 1 \in Nat
  BY SearchFields
<1>3. t \in ItemType /\ t.module = x /\ t.node = 1 /\ t.parent = c /\ t.index = s.index + 1
  BY <1>2 DEF Item, ItemType
<1> PICK items : items = Append(h.items, t)
  OBVIOUS
<1>4. /\ items \in Seq(ItemType) /\ Len(items) = n + 1 /\ items[n + 1] = t
      /\ \A i \in 1 .. n : items[i] = h.items[i]
  BY <1>1, <1>3, AppendProperties
<1> PICK k : k = n + 1
  OBVIOUS
<1> PICK d : d = s.index + 1
  OBVIOUS
<1>5. f = [s EXCEPT !.step = "resolve", !.items = items, !.current = k, !.index = d, !.request = 1]
  OBVIOUS
<1>6. /\ f \in LinkFrame /\ f.step = "resolve" /\ f.current = n + 1 /\ f.index = s.index + 1
      /\ f.request = 1 /\ f.items = items
  <2>1. k \in Nat /\ d \in Nat /\ 1 \in Nat /\ items \in Seq(ItemType) /\ "resolve" \in LinkStep
    BY <1>2, <1>4 DEF LinkStep
  <2>2. f \in LinkFrame
    BY <1>5, <2>1 DEF LinkFrame
  <2>3. f.step = "resolve" /\ f.current = k /\ f.index = d /\ f.request = 1 /\ f.items = items
    BY <1>5 DEF LinkFrame
  <2> QED BY <2>2, <2>3
<1>7. /\ \A i \in 1 .. n : Mod(f, i) = Mod(h, i) /\ Parent(f, i) = Parent(h, i) /\ Index(f, i) = Index(h, i)
                           /\ Node(f, i) = Node(h, i)
      /\ Mod(f, n + 1) = x /\ Node(f, n + 1) = 1 /\ Parent(f, n + 1) = c /\ Index(f, n + 1) = s.index + 1
  BY <1>3, <1>4, <1>6 DEF Mod, Parent, Index, Node
<1>8. Alike(s, f, n)
  BY <1>1, <1>7 DEF Alike
<1>9. \A i \in 1 .. n : Node(f, i) = IF i = c THEN Node(s, c) + 1 ELSE Node(s, i)
  BY <1>1, <1>7
<1> QED BY <1>4, <1>6, <1>7, <1>8, <1>9 DEF Descends

\* The search has met one module more.
Meets(st, st2, x) == st2[x] # "unlinked" /\ \A m \in Module : m # x => st2[m] = st[m]

LEMMA OneMore ==
  ASSUME NEW s \in LinkFrame, NEW st, Counted(s, st), NEW x \in Module, st[x] = "unlinked",
         NEW f, f.index = s.index + 1, NEW st2, Meets(st, st2, x)
  PROVE  Counted(f, st2) /\ f.index \in 0 .. Cardinality(Module)
<1>1. PICK met \in SUBSET Module : Cardinality(met) = s.index + 1 /\ \A m \in met : st[m] # "unlinked"
  BY DEF Counted
<1> DEFINE more == met \cup {x}
<1>2. IsFiniteSet(met) /\ Cardinality(met) <= Cardinality(Module) /\ Cardinality(Module) \in Nat
  BY <1>1, ModuleAssumption, FS_Subset, FS_CardinalityType
<1>3. x \notin met
  BY <1>1
<1>4. Cardinality(more) = Cardinality(met) + 1
  BY <1>2, <1>3, FS_AddElement
<1>5. s.index \in Nat
  BY SearchFields
<1>6. Cardinality(more) = f.index + 1
  BY <1>1, <1>4, <1>5
<1>7. more \in SUBSET Module /\ \A m \in more : st2[m] # "unlinked"
  BY <1>1, <1>3 DEF Meets
<1>8. Counted(f, st2)
  <2> HIDE DEF more
  <2> QED BY <1>6, <1>7 DEF Counted
<1> QED BY <1>1, <1>2, <1>5, <1>8

Assigned(f, f2, x, v) == \A m \in Module : f2[m] = IF m = x THEN v ELSE f[m]

LEMMA Descended ==
  ASSUME NEW s \in LinkFrame, s.step = "visit", NEW g, WellFormed(g), NEW st, NEW low \in [Module -> Nat],
         NEW sc, NEW nm, NEW bd, NEW finished, Searching(s, g, st, low, sc, nm, bd, finished),
         NEW c, c = s.current, Node(s, c) <= Len(g[Mod(s, c)]),
         NEW x, x = g[Mod(s, c)][Node(s, c)], st[x] = "unlinked",
         NEW st2, Assigned(st, st2, x, "linking"), NEW low2, Assigned(low, low2, x, s.index + 1),
         NEW f, Descends(s, f, c, x)
  PROVE  Searching(f, g, st2, low2, sc, nm, bd, finished) /\ s.index + 1 \in 0 .. Cardinality(Module)
<1> PICK n : n = Len(s.items)
  OBVIOUS
<1>1. /\ c \in 1 .. n /\ Height(s) = n /\ n \in Nat /\ s.index \in Nat
      /\ Items(s, g, st) /\ Counted(s, st) /\ Requested(s, g, st) /\ Lows(s, g, low)
      /\ Tree(s, g, low, sc, finished)
      /\ \A i \in 1 .. n : Mod(s, i) \in Module /\ Node(s, i) \in Nat /\ Parent(s, i) \in Nat /\ Index(s, i) \in Nat
  BY CurrentItem, SearchFields
<1>2. /\ f \in LinkFrame /\ f.step = "resolve" /\ f.current = n + 1 /\ f.index = s.index + 1
      /\ f.request = 1 /\ Len(f.items) = n + 1
      /\ \A i \in 1 .. n : Mod(f, i) = Mod(s, i) /\ Parent(f, i) = Parent(s, i) /\ Index(f, i) = Index(s, i)
      /\ \A i \in 1 .. n : Node(f, i) = IF i = c THEN Node(s, c) + 1 ELSE Node(s, i)
      /\ Mod(f, n + 1) = x /\ Node(f, n + 1) = 1 /\ Parent(f, n + 1) = c /\ Index(f, n + 1) = s.index + 1
  BY DEF Descends, Alike
<1>3. Height(f) = n + 1
  BY <1>2 DEF Height
<1>4. /\ \A i \in 1 .. n : /\ st[Mod(s, i)] = "linking" /\ Index(s, i) <= s.index
                           /\ Node(s, i) \in 1 .. Len(g[Mod(s, i)]) + 1
      /\ \A i, j \in 1 .. n : i # j => Mod(s, i) # Mod(s, j)
      /\ \A i, j \in 1 .. n : i < j <=> Index(s, i) < Index(s, j)
      /\ Parent(s, 1) = 0
  BY <1>1, ItemOrder
<1> PICK m : m = Mod(s, c)
  OBVIOUS
<1>5. m \in Module /\ Node(s, c) \in 1 .. Len(g[m]) /\ Len(g[m]) \in Nat /\ x = g[m][Node(s, c)] /\ x \in Module
      /\ x \in ToSet(g[m])
  <2>1. m \in Module /\ x = g[m][Node(s, c)] /\ Node(s, c) <= Len(g[m])
    BY <1>1
  <2>2. Node(s, c) \in 1 .. Len(g[m]) + 1
    BY <1>1, <1>4
  <2>3. g[m] \in Seq(Module) /\ Len(g[m]) \in Nat
    BY <2>1 DEF WellFormed
  <2>4. Node(s, c) \in 1 .. Len(g[m])
    BY <2>1, <2>2, <2>3
  <2>5. x \in ToSet(g[m])
    BY <2>1, <2>3, <2>4, Listed
  <2>6. x \in Module
    BY <2>1, <2>3, <2>4
  <2> QED BY <2>1, <2>3, <2>4, <2>5, <2>6
<1>5a. /\ \A y \in Module : st2[y] = IF y = x THEN "linking" ELSE st[y]
       /\ \A y \in Module : low2[y] = IF y = x THEN s.index + 1 ELSE low[y]
  BY DEF Assigned
<1>6. \A i \in 1 .. n : Mod(s, i) # x /\ st2[Mod(s, i)] = "linking" /\ low2[Mod(s, i)] = low[Mod(s, i)]
  BY <1>1, <1>4, <1>5a
<1>7. st2[x] = "linking" /\ low2[x] = s.index + 1
  BY <1>5, <1>5a
<1>8. \A i \in 1 .. n + 1 : i \in 1 .. n \/ i = n + 1
  BY <1>1
<1>9. Items(f, g, st2)
  <2>1. f.items # <<>>
    BY <1>1, <1>2, SearchFields
  <2>2. Parent(f, 1) = 0
    BY <1>1, <1>2, <1>4
  <2>3. ASSUME NEW i \in 1 .. n + 1
        PROVE  /\ st2[Mod(f, i)] = "linking" /\ Index(f, i) <= f.index
               /\ Node(f, i) \in 1 .. Len(g[Mod(f, i)]) + 1
    <3>1. CASE i = n + 1
      <4>1. 1 \in 1 .. Len(g[x]) + 1
        BY <1>5 DEF WellFormed
      <4>2. s.index + 1 <= s.index + 1
        BY <1>1
      <4> QED BY <1>2, <1>7, <3>1, <4>1, <4>2
    <3>2. CASE i \in 1 .. n
      <4>1. Index(s, i) <= s.index + 1
        BY <1>1, <1>4, <3>2
      <4>2. Node(f, i) \in 1 .. Len(g[Mod(s, i)]) + 1
        <5>1. CASE i = c
          BY <1>2, <1>5, <3>2, <5>1
        <5>2. CASE i # c
          BY <1>2, <1>4, <3>2, <5>2
        <5> QED BY <5>1, <5>2
      <4> QED BY <1>2, <1>6, <3>2, <4>1, <4>2
    <3> QED BY <1>8, <3>1, <3>2
  <2>4. ASSUME NEW i \in 1 .. n + 1, NEW j \in 1 .. n + 1, i < j
        PROVE  Mod(f, i) # Mod(f, j) /\ Index(f, i) < Index(f, j)
    <3>1. i \in 1 .. n
      BY <1>1, <2>4
    <3>2. CASE j = n + 1
      <4>1. Index(s, i) < s.index + 1
        BY <1>1, <1>4, <3>1
      <4> QED BY <1>2, <1>6, <3>1, <3>2, <4>1
    <3>3. CASE j \in 1 .. n
      BY <1>2, <1>4, <2>4, <3>1, <3>3
    <3> QED BY <1>8, <3>2, <3>3
  <2> QED BY <1>2, <2>1, <2>2, <2>3, <2>4 DEF Items
<1>10. Counted(f, st2) /\ f.index \in 0 .. Cardinality(Module)
  <2>1. Meets(st, st2, x)
    BY <1>5a, <1>7 DEF Meets
  <2> QED BY <1>1, <1>2, <1>5, <2>1, OneMore
<1>11. Requested(f, g, st2)
  <2>1. ASSUME NEW i \in 1 .. n + 1, NEW j \in 1 .. Len(g[Mod(f, i)]), i = n + 1 => j < 1
        PROVE  st2[g[Mod(f, i)][j]] # "error"
    <3>1. i \in 1 .. n
      BY <1>8, <2>1
    <3>2. Mod(f, i) = Mod(s, i) /\ Mod(s, i) \in Module
      BY <1>1, <1>2, <3>1
    <3>3. g[Mod(s, i)][j] \in Module
      BY <2>1, <3>2 DEF WellFormed
    <3>4. st[g[Mod(s, i)][j]] # "error"
      BY <1>1, <2>1, <3>1, <3>2 DEF Requested
    <3> QED BY <1>5a, <3>2, <3>3, <3>4
  <2>2. 1 \in 1 .. Len(g[x]) + 1
    BY <1>5 DEF WellFormed
  <2> QED BY <1>2, <2>1, <2>2 DEF Requested
<1>12. Lows(f, g, low2)
  <2> SUFFICES ASSUME NEW i \in 1 .. n + 1
               PROVE  /\ low2[Mod(f, i)] <= Index(f, i)
                      /\ \E w \in 1 .. i : low2[Mod(f, i)] = Index(f, w) /\ Mod(f, w) \in Leads(g, Mod(f, i))
    BY <1>3 DEF Lows
  <2>1. CASE i = n + 1
    <3>1. i \in 1 .. i /\ s.index + 1 <= s.index + 1
      BY <1>1, <2>1
    <3>2. x \in Leads(g, x)
      BY <1>5, LeadsSelf
    <3> QED BY <1>2, <1>7, <2>1, <3>1, <3>2
  <2>2. CASE i \in 1 .. n
    <3>1. low[Mod(s, i)] <= Index(s, i)
      BY <1>1, <2>2 DEF Lows
    <3>2. PICK w \in 1 .. i : low[Mod(s, i)] = Index(s, w) /\ Mod(s, w) \in Leads(g, Mod(s, i))
      BY <1>1, <2>2 DEF Lows
    <3>3. w \in 1 .. n
      BY <1>1, <2>2
    <3> QED BY <1>2, <1>6, <2>2, <3>1, <3>2, <3>3
  <2> QED BY <1>8, <2>1, <2>2
<1>13. PICK path \in SUBSET (1 .. n) :
             OnPath(s, g, path) /\ Visits(s, g, low, finished, path) /\ Done(s, g, low, sc, path)
  BY <1>1 DEF Tree
<1>14. /\ c \in path /\ \A q \in path : q \in 1 .. n /\ q <= c
       /\ \A q \in path : \A k \in 1 .. n : q <= k => Mod(s, k) \in Leads(g, Mod(s, q))
  <2>1. path \subseteq 1 .. Len(s.items) /\ s.current \in 1 .. Len(s.items)
    BY <1>1
  <2>2. PathTo(s, g, path, s.current)
    BY <1>13, <2>1, Leaving
  <2> QED BY <2>2 DEF PathTo
<1> DEFINE longer == path \cup {n + 1}
<1>15. \A q \in longer : q = n + 1 \/ (q \in path /\ q \in 1 .. n /\ q <= c)
  BY <1>14
<1>16. OnPath(f, g, longer)
  <2>1. longer \subseteq 1 .. n + 1
    BY <1>1, <1>15
  <2>2. 1 \in longer /\ n + 1 \in longer /\ n + 1 # 0
    BY <1>1, <1>13 DEF OnPath
  <2>3. \A q \in longer : q <= n + 1
    BY <1>1, <1>15
  <2>4. ASSUME NEW q \in longer, q # 1
        PROVE  /\ Parent(f, q) \in longer /\ Parent(f, q) < q
               /\ \A r \in longer : r <= Parent(f, q) \/ q <= r
    <3>1. CASE q = n + 1
      BY <1>1, <1>2, <1>14, <1>15, <3>1
    <3>2. CASE q # n + 1
      <4>1. q \in path /\ q \in 1 .. n /\ Parent(f, q) = Parent(s, q)
        BY <1>2, <1>15, <3>2
      <4>2. /\ Parent(s, q) \in path /\ Parent(s, q) < q
            /\ \A r \in path : r <= Parent(s, q) \/ q <= r
        BY <1>13, <2>4, <4>1 DEF OnPath
      <4>3. q <= n + 1
        BY <1>1, <4>1
      <4> QED BY <4>1, <4>2, <4>3
    <3> QED BY <3>1, <3>2
  <2>5. ASSUME NEW q \in longer, NEW k \in q .. n + 1
        PROVE  Mod(f, k) \in Leads(g, Mod(f, q))
    <3>1. CASE q = n + 1
      <4>1. k = n + 1
        BY <1>1, <3>1
      <4> QED BY <1>2, <1>5, <3>1, <4>1, LeadsSelf
    <3>2. CASE q # n + 1
      <4>1. q \in path /\ q \in 1 .. n /\ q <= c /\ Mod(f, q) = Mod(s, q)
        BY <1>2, <1>15, <3>2
      <4>2. CASE k = n + 1
        <5>1. m \in Leads(g, Mod(s, q))
          BY <1>1, <1>14, <4>1
        <5>2. x \in Leads(g, m)
          BY <1>5, LeadsImport
        <5> QED BY <1>2, <4>1, <4>2, <5>1, <5>2, LeadsOn
      <4>3. CASE k # n + 1
        <5>0. n \in Nat
          BY <1>1
        <5>1. k \in 1 .. n /\ q <= k
          BY <4>1, <4>3, <5>0
        <5> QED BY <1>2, <1>14, <4>1, <5>1
      <4> QED BY <4>2, <4>3
    <3> QED BY <3>1, <3>2
  <2> HIDE DEF longer
  <2> QED BY <1>2, <1>3, <2>1, <2>2, <2>3, <2>4, <2>5 DEF OnPath
<1>16a. \A i \in 1 .. n : \A j \in 1 .. Node(s, i) - 1 :
          \/ g[Mod(s, i)][j] \in finished
          \/ \E k \in 1 .. n : /\ g[Mod(s, i)][j] = Mod(s, k) /\ low[Mod(s, i)] <= Index(s, k)
                               /\ \A q \in path : q <= i \/ k < q
          \/ \E k \in path : Parent(s, k) = i /\ g[Mod(s, i)][j] = Mod(s, k)
  <2> SUFFICES ASSUME NEW i \in 1 .. n, NEW j \in 1 .. Node(s, i) - 1
               PROVE  \/ g[Mod(s, i)][j] \in finished
                      \/ \E k \in 1 .. n : /\ g[Mod(s, i)][j] = Mod(s, k) /\ low[Mod(s, i)] <= Index(s, k)
                                           /\ \A q \in path : q <= i \/ k < q
                      \/ \E k \in path : Parent(s, k) = i /\ g[Mod(s, i)][j] = Mod(s, k)
    OBVIOUS
  <2>1. Height(s) = n
    BY <1>1
  <2> QED BY <1>13, <2>1 DEF Visits
<1>17. Visits(f, g, low2, finished, longer)
  <2> HIDE DEF longer
  <2> SUFFICES ASSUME NEW i \in 1 .. n + 1, NEW j \in 1 .. Node(f, i) - 1
               PROVE  \/ g[Mod(f, i)][j] \in finished
                      \/ \E k \in 1 .. n + 1 : /\ g[Mod(f, i)][j] = Mod(f, k) /\ low2[Mod(f, i)] <= Index(f, k)
                                               /\ \A q \in longer : q <= i \/ k < q
                      \/ \E k \in longer : Parent(f, k) = i /\ g[Mod(f, i)][j] = Mod(f, k)
    BY <1>3 DEF Visits
  <2> USE DEF longer
  <2>1. i \in 1 .. n
    BY <1>2, <1>8
  <2>2. Mod(f, i) = Mod(s, i) /\ low2[Mod(s, i)] = low[Mod(s, i)] /\ Node(s, i) \in Nat
    BY <1>1, <1>2, <1>6, <2>1
  <2> PICK y : y = g[Mod(s, i)][j]
    OBVIOUS
  <2>3. CASE i = c /\ j = Node(s, c)
    <3>1. Parent(f, n + 1) = i /\ y = Mod(f, n + 1) /\ n + 1 \in longer
      BY <1>2, <1>5, <2>3
    <3> HIDE DEF longer
    <3> QED BY <2>2, <3>1
  <2>4. CASE ~(i = c /\ j = Node(s, c))
    <3>1. j \in 1 .. Node(s, i) - 1
      BY <1>1, <1>2, <2>1, <2>2, <2>4
    <3>2. \/ g[Mod(s, i)][j] \in finished
          \/ \E k \in 1 .. n : /\ g[Mod(s, i)][j] = Mod(s, k) /\ low[Mod(s, i)] <= Index(s, k)
                               /\ \A q \in path : q <= i \/ k < q
          \/ \E k \in path : Parent(s, k) = i /\ g[Mod(s, i)][j] = Mod(s, k)
      BY <1>16a, <2>1, <3>1
    <3>3. CASE \E k \in 1 .. n : /\ g[Mod(s, i)][j] = Mod(s, k) /\ low[Mod(s, i)] <= Index(s, k)
                                 /\ \A q \in path : q <= i \/ k < q
      <4>1. PICK k \in 1 .. n : /\ y = Mod(s, k) /\ low[Mod(s, i)] <= Index(s, k)
                                /\ \A q \in path : q <= i \/ k < q
        BY <3>3
      <4>2. k < n + 1 /\ k \in 1 .. n + 1
        BY <1>1
      <4>3. \A q \in longer : q <= i \/ k < q
        <5>1. \A q \in longer : q \in path \/ q = n + 1
          OBVIOUS
        <5> HIDE DEF longer
        <5> QED BY <4>1, <4>2, <5>1
      <4>4. Mod(f, k) = Mod(s, k) /\ Index(f, k) = Index(s, k)
        BY <1>2
      <4> HIDE DEF longer
      <4> QED BY <2>2, <4>1, <4>2, <4>3, <4>4
    <3>4. CASE \E k \in path : Parent(s, k) = i /\ g[Mod(s, i)][j] = Mod(s, k)
      <4>1. PICK k \in path : Parent(s, k) = i /\ y = Mod(s, k)
        BY <3>4
      <4>2. Mod(f, k) = Mod(s, k) /\ Parent(f, k) = Parent(s, k) /\ k \in longer
        BY <1>2, <1>14
      <4> HIDE DEF longer
      <4> QED BY <2>2, <4>1, <4>2
    <3>5. CASE g[Mod(s, i)][j] \in finished
      BY <2>2, <3>5
    <3> QED BY <3>2, <3>3, <3>4, <3>5
  <2> QED BY <2>3, <2>4
<1>18. Done(f, g, low2, sc, longer)
  <2> HIDE DEF longer
  <2> SUFFICES ASSUME NEW k \in (1 .. n + 1) \ longer
               PROVE  /\ Node(f, k) > Len(g[Mod(f, k)])
                      /\ low2[Mod(f, k)] < Index(f, k)
                      /\ sc[Mod(f, k)]
                      /\ \E q \in longer : /\ q < k
                                           /\ \A r \in longer : r <= q \/ k < r
                                           /\ Mod(f, q) \in Leads(g, Mod(f, k))
                                           /\ low2[Mod(f, q)] <= low2[Mod(f, k)]
    BY <1>3 DEF Done
  <2> USE DEF longer
  <2>0. k \in 1 .. n + 1 /\ k # n + 1 /\ k \notin path /\ n \in Nat
    BY <1>1
  <2>1. k \in (1 .. n) \ path /\ k # c /\ k < n + 1
    BY <1>14, <2>0
  <2>2. Node(s, k) > Len(g[Mod(s, k)]) /\ low[Mod(s, k)] < Index(s, k) /\ sc[Mod(s, k)]
    BY <1>1, <1>13, <2>1 DEF Done
  <2>3. PICK q \in path : /\ q < k
                          /\ \A r \in path : r <= q \/ k < r
                          /\ Mod(s, q) \in Leads(g, Mod(s, k))
                          /\ low[Mod(s, q)] <= low[Mod(s, k)]
    BY <1>1, <1>13, <2>1 DEF Done
  <2>4. /\ Mod(f, k) = Mod(s, k) /\ Index(f, k) = Index(s, k) /\ Node(f, k) = Node(s, k)
        /\ low2[Mod(s, k)] = low[Mod(s, k)]
        /\ Mod(f, q) = Mod(s, q) /\ low2[Mod(s, q)] = low[Mod(s, q)]
    BY <1>2, <1>6, <1>14, <2>1
  <2>5. q \in longer /\ \A r \in longer : r <= q \/ k < r
    BY <2>1, <2>3
  <2> HIDE DEF longer
  <2> QED BY <2>2, <2>3, <2>4, <2>5
<1>19. Tree(f, g, low2, sc, finished)
  <2>0. \A q \in longer : q \in 1 .. n + 1
    BY <1>1, <1>15
  <2>1. longer \in SUBSET (1 .. Height(f))
    BY <1>3, <2>0
  <2> HIDE DEF longer
  <2> QED BY <1>16, <1>17, <1>18, <2>1 DEF Tree
<1> QED BY <1>2, <1>9, <1>10, <1>11, <1>12, <1>19 DEF Searching

LEMMA VisitUnlinkedPreserves == ASSUME IInv, VisitUnlinked PROVE IInv'
<1> PICK s : s = Top
  OBVIOUS
<1> PICK c : c = s.current
  OBVIOUS
<1>1. /\ Calls("link") /\ s.step = "visit" /\ Current.node <= Len(imports[Current.module])
      /\ state[NextImport] = "unlinked"
      /\ state' = [state EXCEPT ![NextImport] = "linking"]
      /\ ancestor' = [ancestor EXCEPT ![NextImport] = s.index + 1]
      /\ UNCHANGED <<imports, resolved, scope, names, bound, code>>
  BY DEF VisitUnlinked, Visiting, At
<1>2. /\ s \in LinkFrame /\ Searching(s, imports, state, ancestor, scope, names, bound, Finished)
      /\ c \in 1 .. Len(s.items) /\ WellFormed(imports)
      /\ Current.module = Mod(s, c) /\ Current.node = Node(s, c)
      /\ Mod(s, c) \in Module
      /\ ancestor \in [Module -> Nat]
      /\ \A m \in Module : state[m] = "linking" => \E i \in 1 .. Len(s.items) : m = Mod(s, i)
  BY <1>1, CurrentIs, InSearch
<1> PICK x : x = imports[Mod(s, c)][Node(s, c)]
  OBVIOUS
<1>3. x = NextImport /\ x \in Module
  <2>1. x = NextImport
    BY <1>2 DEF NextImport
  <2>2. Items(s, imports, state)
    BY <1>1, <1>2, CurrentItem
  <2>3. Node(s, c) \in 1 .. Len(imports[Mod(s, c)]) + 1 /\ Len(imports[Mod(s, c)]) \in Nat
    BY <1>2, <2>2, ItemOrder DEF WellFormed
  <2>4. Node(s, c) \in 1 .. Len(imports[Mod(s, c)])
    BY <1>1, <1>2, <2>3
  <2> QED BY <1>2, <2>1, <2>4 DEF WellFormed
<1>4. PICK f : Descends(s, f, c, x) /\ stack' = <<f>> \o Tail(stack)
  <2> PICK h : h = [s EXCEPT !.items[c].node = @ + 1]
    OBVIOUS
  <2>1. Onward(s, h, c)
    BY <1>2, NodeVisited
  <2>2. h.items = [s.items EXCEPT ![c].node = @ + 1]
    BY <1>2 DEF LinkFrame
  <2>3. stack' = <<[Top EXCEPT !.step = "resolve",
                               !.items = Append([Top.items EXCEPT ![Top.current].node = @ + 1],
                                                Item(NextImport, Top.current, Top.index + 1)),
                               !.current = Len(Top.items) + 1, !.index = Top.index + 1, !.request = 1]>> \o Tail(stack)
    BY DEF VisitUnlinked, Become
  <2>6. h.items = [Top.items EXCEPT ![Top.current].node = @ + 1]
    BY <2>2, Zenon
  <2>7. stack' = <<[Top EXCEPT !.step = "resolve", !.items = Append(h.items, Item(NextImport, Top.current, Top.index + 1)),
                               !.current = Len(Top.items) + 1, !.index = Top.index + 1, !.request = 1]>> \o Tail(stack)
    BY <2>3, <2>6, Zenon
  <2> PICK f : f = [s EXCEPT !.step = "resolve", !.items = Append(h.items, Item(x, c, s.index + 1)),
                             !.current = Len(s.items) + 1, !.index = s.index + 1, !.request = 1]
    OBVIOUS
  <2>4. stack' = <<f>> \o Tail(stack)
    BY <1>3, <2>7
  <2>5. Descends(s, f, c, x)
    BY <1>2, <1>3, <2>1, ItemAdded
  <2> QED BY <2>4, <2>5
<1>5. state \in [Module -> ModuleState] /\ ancestor \in [Module -> 0 .. Cardinality(Module)]
      /\ scope \in [Module -> BOOLEAN]
  BY DEF IInv, Types
<1>6. /\ \A m \in Module : state'[m] = IF m = x THEN "linking" ELSE state[m]
      /\ \A m \in Module : ancestor'[m] = IF m = x THEN s.index + 1 ELSE ancestor[m]
      /\ state' \in [Module -> ModuleState]
  BY <1>1, <1>3, <1>5 DEF ModuleState
<1>7. Searching(f, imports, state', ancestor', scope, names, bound, Finished) /\ s.index + 1 \in 0 .. Cardinality(Module)
  <2> PICK st : st = state'
    OBVIOUS
  <2> PICK low : low = ancestor'
    OBVIOUS
  <2>1. Assigned(state, st, x, "linking") /\ Assigned(ancestor, low, x, s.index + 1)
    BY <1>6 DEF Assigned
  <2>2. Node(s, c) <= Len(imports[Mod(s, c)]) /\ state[x] = "unlinked"
    BY <1>1, <1>2, <1>3
  <2>4. /\ s \in LinkFrame /\ s.step = "visit" /\ WellFormed(imports) /\ ancestor \in [Module -> Nat]
        /\ Searching(s, imports, state, ancestor, scope, names, bound, Finished) /\ Descends(s, f, c, x)
    BY <1>1, <1>2, <1>4
  <2>3. Searching(f, imports, st, low, scope, names, bound, Finished) /\ s.index + 1 \in 0 .. Cardinality(Module)
    BY <2>1, <2>2, <2>4, Descended
  <2> QED BY <2>3
<1>8. ancestor' \in [Module -> 0 .. Cardinality(Module)]
  BY <1>1, <1>3, <1>5, <1>7
<1>9. f \in LinkFrame /\ f.step = "resolve"
  BY <1>4 DEF Descends
<1>10. \A m \in Module : /\ state[m] = "error" => scope'[m] = scope[m]
                         /\ scope[m] => scope'[m]
                         /\ state'[m] # state[m] => state[m] = "unlinked" /\ state'[m] = "linking"
  BY <1>1, <1>3, <1>6
<1>11. ASSUME NEW m \in Module, state'[m] = "linking"
       PROVE  \E i \in 1 .. Len(f.items) : m = Mod(f, i)
  <2>1. /\ Len(f.items) = Len(s.items) + 1 /\ Mod(f, Len(s.items) + 1) = x /\ Len(s.items) \in Nat
        /\ \A i \in 1 .. Len(s.items) : Mod(f, i) = Mod(s, i)
    BY <1>2, <1>4, SearchFields DEF Descends, Alike
  <2>2. CASE m = x
    <3>1. Len(s.items) + 1 \in 1 .. Len(f.items)
      BY <2>1
    <3> QED BY <2>1, <2>2, <3>1
  <2>3. CASE m # x
    <3>1. PICK i \in 1 .. Len(s.items) : m = Mod(s, i)
      BY <1>2, <1>6, <1>11, <2>3
    <3>2. i \in 1 .. Len(f.items)
      BY <2>1
    <3> QED BY <2>1, <3>1, <3>2
  <2> QED BY <2>2, <2>3
<1>12. Searching(f, imports, state', ancestor', scope', names, bound, Finished)
  BY <1>1, <1>7
<1>13. scope' \in [Module -> BOOLEAN]
  BY <1>1, <1>5
<1> QED BY <1>1, <1>4, <1>6, <1>8, <1>9, <1>10, <1>11, <1>12, <1>13, SearchKeeps

-----------------------------------------------------------------------------
(* A circle is closed.                                                     *)

\* The circle that is being closed.
LEMMA CircleIs ==
  ASSUME IInv, Calls("link"), Top.step \in {"names", "connect", "close"}
  PROVE  /\ Top \in LinkFrame /\ Items(Top, imports, state) /\ Counted(Top, state) /\ Requested(Top, imports, state)
         /\ Lows(Top, imports, ancestor) /\ Tree(Top, imports, ancestor, scope, Finished)
         /\ Circling(Top, imports, Finished, scope, names, bound)
         /\ Top.circle \in 1 .. Len(Top.items) /\ Len(Top.items) \in Nat /\ Height(Top) = Top.circle - 1
         /\ \A i \in Top.circle .. Len(Top.items) : i \in 1 .. Len(Top.items)
         /\ \A i \in 1 .. Len(Top.items) : Mod(Top, i) \in Module /\ state[Mod(Top, i)] = "linking"
         /\ \A i, j \in 1 .. Len(Top.items) : i # j => Mod(Top, i) # Mod(Top, j)
<1> PICK s : s = Top
  OBVIOUS
<1>1. s \in LinkFrame /\ Searching(s, imports, state, ancestor, scope, names, bound, Finished)
  BY InSearch
<1>2. /\ Items(s, imports, state) /\ Counted(s, state) /\ Requested(s, imports, state)
      /\ Lows(s, imports, ancestor) /\ Tree(s, imports, ancestor, scope, Finished)
      /\ Circling(s, imports, Finished, scope, names, bound)
  BY <1>1 DEF Searching
<1>3. s.circle \in 1 .. Len(s.items) /\ Len(s.items) \in Nat
  BY <1>1, <1>2, SearchFields DEF Circling
<1>4. Height(s) = s.circle - 1
  BY DEF Height
<1>5. \A i \in s.circle .. Len(s.items) : i \in 1 .. Len(s.items)
  BY <1>3
<1>6. /\ \A i \in 1 .. Len(s.items) : Mod(s, i) \in Module /\ state[Mod(s, i)] = "linking"
      /\ \A i, j \in 1 .. Len(s.items) : i # j => Mod(s, i) # Mod(s, j)
  BY <1>1, <1>2, ItemOrder, SearchFields
<1> QED BY <1>1, <1>2, <1>3, <1>4, <1>5, <1>6

\* The step from one phase of the closing of a circle to the next.
LEMMA PhaseStays ==
  ASSUME NEW s \in LinkFrame, NEW f \in LinkFrame, s.step \in {"names", "connect"},
         f.step \in {"connect", "close"}, f.items = s.items, f.current = s.current, f.index = s.index,
         f.circle = s.circle,
         NEW g, NEW st, NEW low, NEW sc, NEW finished, NEW finished2, finished \subseteq finished2,
         f.step = "close" => Mod(s, s.circle) \in finished2
  PROVE  /\ Items(s, g, st) => Items(f, g, st)
         /\ Counted(s, st) => Counted(f, st)
         /\ Requested(s, g, st) => Requested(f, g, st)
         /\ Lows(s, g, low) => Lows(f, g, low)
         /\ Tree(s, g, low, sc, finished) => Tree(f, g, low, sc, finished2)
<1>1. Height(s) = s.circle - 1 /\ Height(f) = s.circle - 1
  BY DEF Height
<1>2. /\ \A i : Mod(f, i) = Mod(s, i)
      /\ \A i : Node(f, i) = Node(s, i)
      /\ \A i : Parent(f, i) = Parent(s, i)
      /\ \A i : Index(f, i) = Index(s, i)
  BY DEF Mod, Node, Parent, Index
<1>3. Items(s, g, st) => Items(f, g, st)
  BY <1>2 DEF Items
<1>4. Counted(s, st) => Counted(f, st)
  BY DEF Counted
<1>5. Requested(s, g, st) => Requested(f, g, st)
  BY <1>2 DEF Requested
<1>6. Lows(s, g, low) => Lows(f, g, low)
  BY <1>1, <1>2 DEF Lows
<1>7. ASSUME Tree(s, g, low, sc, finished)
      PROVE  Tree(f, g, low, sc, finished2)
  <2>1. PICK path \in SUBSET (1 .. Height(s)) :
             OnPath(s, g, path) /\ Visits(s, g, low, finished, path) /\ Done(s, g, low, sc, path)
    BY <1>7 DEF Tree
  <2>2. OnPath(f, g, path)
    BY <1>1, <1>2, <2>1 DEF OnPath
  <2>3. Visits(f, g, low, finished2, path)
    <3>1. \A i \in 1 .. s.circle - 1 : \A j \in 1 .. Node(s, i) - 1 :
            \/ g[Mod(s, i)][j] \in finished
            \/ \E k \in 1 .. s.circle - 1 : /\ g[Mod(s, i)][j] = Mod(s, k) /\ low[Mod(s, i)] <= Index(s, k)
                                            /\ \A p \in path : p <= i \/ k < p
            \/ \E k \in path : Parent(s, k) = i /\ g[Mod(s, i)][j] = Mod(s, k)
            \/ i = s.current /\ g[Mod(s, i)][j] = Mod(s, s.circle)
      BY <1>1, <2>1 DEF Visits
    <3>2. CASE f.step = "connect"
      <4>1. \A i \in 1 .. s.circle - 1 : \A j \in 1 .. Node(f, i) - 1 :
              \/ g[Mod(f, i)][j] \in finished2
              \/ \E k \in 1 .. s.circle - 1 : /\ g[Mod(f, i)][j] = Mod(f, k) /\ low[Mod(f, i)] <= Index(f, k)
                                              /\ \A p \in path : p <= i \/ k < p
              \/ \E k \in path : Parent(f, k) = i /\ g[Mod(f, i)][j] = Mod(f, k)
              \/ i = f.current /\ g[Mod(f, i)][j] = Mod(f, f.circle)
        BY <1>2, <3>1
      <4> QED BY <1>1, <3>2, <4>1 DEF Visits
    <3>3. CASE f.step = "close"
      <4>1. \A i \in 1 .. s.circle - 1 : \A j \in 1 .. Node(f, i) - 1 :
              \/ g[Mod(f, i)][j] \in finished2
              \/ \E k \in 1 .. s.circle - 1 : /\ g[Mod(f, i)][j] = Mod(f, k) /\ low[Mod(f, i)] <= Index(f, k)
                                              /\ \A p \in path : p <= i \/ k < p
              \/ \E k \in path : Parent(f, k) = i /\ g[Mod(f, i)][j] = Mod(f, k)
        BY <1>2, <3>1, <3>3
      <4> QED BY <1>1, <4>1 DEF Visits
    <3> QED BY <3>2, <3>3
  <2>4. Done(f, g, low, sc, path)
    BY <1>1, <1>2, <2>1 DEF Done
  <2> QED BY <1>1, <2>2, <2>3, <2>4 DEF Tree
<1> QED BY <1>3, <1>4, <1>5, <1>6, <1>7

LEMMA StepFrame ==
  ASSUME NEW s \in LinkFrame, NEW step \in LinkStep, NEW f, f = [s EXCEPT !.step = step]
  PROVE  /\ f \in LinkFrame /\ f.step = step /\ f.items = s.items /\ f.current = s.current
         /\ f.index = s.index /\ f.circle = s.circle
BY DEF LinkFrame

\* The modules of the circle.
CircleOf(s) == {m \in Module : \E i \in s.circle .. Len(s.items) : m = Mod(s, i)}

\* A doomed module stays so.
ErrorsStay ==
  \A k \in Module : state[k] = "error" => /\ state'[k] = "error" /\ scope'[k] = scope[k]
                                          /\ names'[k] = names[k] /\ bound'[k] = bound[k]

LEMMA DoomedStays ==
  ASSUME imports' = imports, ErrorsStay, NEW m, Doomed(m)
  PROVE  Doomed(m)'
<1>1. PICK k \in Leads(imports, m) : state[k] = "error" /\ ~(scope[k] /\ names[k] /\ bound[k])
  BY DEF Doomed
<1>2. k \in Module
  BY LeadsIn
<1> QED BY <1>1, <1>2 DEF Doomed, ErrorsStay

LEMMA CreateNamesPreserves == ASSUME IInv, CreateNames PROVE IInv'
<1> PICK s : s = Top
  OBVIOUS
<1>1. /\ Calls("link") /\ s.step = "names" /\ names' = Marked(names, From(s.circle))
      /\ UNCHANGED <<imports, resolved, state, ancestor, scope, bound, code>>
      /\ stack' = <<[s EXCEPT !.step = "connect"]>> \o Tail(stack)
  BY DEF CreateNames, At, Become
<1>2. /\ s \in LinkFrame /\ Items(s, imports, state) /\ Counted(s, state) /\ Requested(s, imports, state)
      /\ Lows(s, imports, ancestor) /\ Tree(s, imports, ancestor, scope, Finished)
      /\ Circling(s, imports, Finished, scope, names, bound)
      /\ s.circle \in 1 .. Len(s.items)
      /\ \A i \in s.circle .. Len(s.items) : i \in 1 .. Len(s.items)
      /\ \A i \in 1 .. Len(s.items) : Mod(s, i) \in Module /\ state[Mod(s, i)] = "linking"
  BY <1>1, CircleIs
<1>3. /\ Finished = {m \in Module : state[m] \in LinkedStates} /\ Closing = {}
      /\ \A m \in Module : state[m] = "linking" => \E i \in 1 .. Len(s.items) : m = Mod(s, i)
  BY <1>1, InSearch DEF ClosingOf
<1>4. PICK f : /\ f \in LinkFrame /\ f.step = "connect" /\ f.items = s.items /\ f.current = s.current
               /\ f.index = s.index /\ f.circle = s.circle /\ stack' = <<f>> \o Tail(stack)
  <2>1. "connect" \in LinkStep
    BY DEF LinkStep
  <2> QED BY <1>1, <1>2, <2>1, StepFrame
<1>5. \A i : Mod(f, i) = Mod(s, i)
  BY <1>4 DEF Mod
<1>6. From(s.circle) = CircleOf(s)
  BY <1>2 DEF From, CircleOf, Mod
<1>7. names \in [Module -> BOOLEAN] /\ names' = [m \in Module |-> names[m] \/ m \in CircleOf(s)]
  BY <1>1, <1>6 DEF IInv, Types, Marked
<1>8. \A i \in s.circle .. Len(s.items) : Mod(s, i) \in CircleOf(s) /\ Mod(s, i) \in Module
  BY <1>2 DEF CircleOf
<1>9. Circling(f, imports, Finished, scope, names', bound)
  <2>1. \A i \in s.circle .. Len(s.items) : names'[Mod(s, i)]
    BY <1>7, <1>8
  <2>2. \A i \in s.circle .. Len(s.items) :
          /\ \A j \in s.circle .. Len(s.items) : Mod(s, j) \in Leads(imports, Mod(s, i))
          /\ \A x \in ToSet(imports[Mod(s, i)]) :
                x \in Finished \/ \E j \in s.circle .. Len(s.items) : x = Mod(s, j)
          /\ scope[Mod(s, i)] /\ ~bound[Mod(s, i)]
    BY <1>1, <1>2 DEF Circling
  <2> QED BY <1>2, <1>4, <1>5, <2>1, <2>2 DEF Circling
<1>10. /\ Items(f, imports, state) /\ Counted(f, state) /\ Requested(f, imports, state)
       /\ Lows(f, imports, ancestor) /\ Tree(f, imports, ancestor, scope, Finished)
  BY <1>1, <1>2, <1>4, PhaseStays
<1>11. Searching(f, imports', state', ancestor', scope', names', bound', Finished)
  BY <1>1, <1>4, <1>9, <1>10 DEF Searching
<1>12. Types'
  <2>1. stack \in Seq(Frame) /\ stack # <<>>
    BY <1>1 DEF IInv, Types, Calls
  <2>2. stack' \in Seq(Frame)
    BY <1>4, <2>1, ReplaceFrame DEF Frame
  <2>3. names' \in [Module -> BOOLEAN]
    BY <1>7
  <2> QED BY <1>1, <2>2, <2>3 DEF IInv, Types
<1>13. SearchState
  BY <1>1 DEF SearchState, OthersKept
<1>14. Finished = {m \in Module : state'[m] \in LinkedStates \/ m \in ClosingOf(f)} /\ ClosingOf(f) = {}
  BY <1>1, <1>3, <1>4 DEF ClosingOf
<1>15. \A m \in Module : state'[m] = "linking" => \E i \in 1 .. Len(f.items) : m = Mod(f, i)
  BY <1>1, <1>3, <1>4, <1>5
<1>16. /\ Calling(imports, stack)' /\ Evaluating(imports, state, stack)' /\ Linking'
       /\ Finished' = Finished /\ Closing' = {} /\ Calls("link")' /\ Top' = f
  <2>1. Searching(f, imports, state', ancestor', scope', names', bound', Finished)
    BY <1>1, <1>11
  <2> QED BY <1>1, <1>4, <1>12, <1>13, <1>14, <1>15, <2>1, SearchMoves
<1>17. Ready'
  <2>1. \A m \in Module : /\ state[m] = "error" => state'[m] = "error"
                          /\ scope[m] => scope'[m]
                          /\ names[m] => names'[m]
                          /\ bound[m] => bound'[m]
    BY <1>1, <1>7
  <2> QED BY <1>1, <1>16, <2>1, ReadyKept
<1>18. Spoiled'
  <2>1. ErrorsStay
    BY <1>1, <1>2, <1>7 DEF ErrorsStay, CircleOf
  <2> SUFFICES ASSUME NEW m \in Module, state'[m] \in {"unlinked", "linking"}, names'[m] \/ bound'[m]
               PROVE  \/ Doomed(m)'
                      \/ At("link", "connect")' /\ \E i \in Top'.circle .. Len(Top'.items) : m = Mod(Top', i)
    BY DEF Spoiled
  <2>2. CASE m \in CircleOf(s)
    <3>1. At("link", "connect")'
      BY <1>4, <1>16 DEF At
    <3> QED BY <1>4, <1>5, <1>16, <2>2, <3>1 DEF CircleOf
  <2>3. CASE m \notin CircleOf(s)
    <3>1. state[m] \in {"unlinked", "linking"} /\ (names[m] \/ bound[m])
      BY <1>1, <1>7, <2>3
    <3>2. ~At("link", "connect")
      BY <1>1 DEF At
    <3>3. Doomed(m)
      BY <1>3, <3>1, <3>2 DEF IInv, Spoiled
    <3> QED BY <1>1, <2>1, <3>3, DoomedStays
  <2> QED BY <2>2, <2>3
<1> QED BY <1>12, <1>16, <1>17, <1>18 DEF IInv

LEMMA ConnectImportsPreserves == ASSUME IInv, ConnectImports PROVE IInv'
<1> PICK s : s = Top
  OBVIOUS
<1>1. /\ Calls("link") /\ s.step = "connect" /\ bound' = Marked(bound, From(s.circle))
      /\ UNCHANGED <<imports, resolved, state, ancestor, scope, names, code>>
      /\ stack' = <<[s EXCEPT !.step = "close"]>> \o Tail(stack)
  BY DEF ConnectImports, At, Become
<1>2. /\ s \in LinkFrame /\ Items(s, imports, state) /\ Counted(s, state) /\ Requested(s, imports, state)
      /\ Lows(s, imports, ancestor) /\ Tree(s, imports, ancestor, scope, Finished)
      /\ Circling(s, imports, Finished, scope, names, bound)
      /\ s.circle \in 1 .. Len(s.items) /\ Len(s.items) \in Nat
      /\ \A i \in s.circle .. Len(s.items) : i \in 1 .. Len(s.items)
      /\ \A i \in 1 .. Len(s.items) : Mod(s, i) \in Module /\ state[Mod(s, i)] = "linking"
  BY <1>1, CircleIs
<1>3. /\ Finished = {m \in Module : state[m] \in LinkedStates} /\ Closing = {}
      /\ \A m \in Module : state[m] = "linking" => \E i \in 1 .. Len(s.items) : m = Mod(s, i)
  BY <1>1, InSearch DEF ClosingOf
<1>4. PICK f : /\ f \in LinkFrame /\ f.step = "close" /\ f.items = s.items /\ f.current = s.current
               /\ f.index = s.index /\ f.circle = s.circle /\ stack' = <<f>> \o Tail(stack)
  <2>1. "close" \in LinkStep
    BY DEF LinkStep
  <2> QED BY <1>1, <1>2, <2>1, StepFrame
<1>5. \A i : Mod(f, i) = Mod(s, i)
  BY <1>4 DEF Mod
<1>6. From(s.circle) = CircleOf(s)
  BY <1>2 DEF From, CircleOf, Mod
<1>7. bound \in [Module -> BOOLEAN] /\ bound' = [m \in Module |-> bound[m] \/ m \in CircleOf(s)]
  BY <1>1, <1>6 DEF IInv, Types, Marked
<1>8. \A i \in s.circle .. Len(s.items) : Mod(s, i) \in CircleOf(s) /\ Mod(s, i) \in Module
  BY <1>2 DEF CircleOf
<1> PICK finished : finished = Finished \cup CircleOf(s)
  OBVIOUS
<1>9. Circling(f, imports, finished, scope, names, bound')
  BY <1>2, <1>4 DEF Circling
<1>10. /\ Items(f, imports, state) /\ Counted(f, state) /\ Requested(f, imports, state)
       /\ Lows(f, imports, ancestor) /\ Tree(f, imports, ancestor, scope, finished)
  <2>1. s.circle \in s.circle .. Len(s.items)
    BY <1>2
  <2>2. Finished \subseteq finished /\ Mod(s, s.circle) \in finished
    BY <1>8, <2>1
  <2> QED BY <1>1, <1>2, <1>4, <2>2, PhaseStays
<1>11. Searching(f, imports, state', ancestor', scope', names', bound', finished)
  BY <1>1, <1>4, <1>9, <1>10 DEF Searching
<1>12. Types'
  <2>1. stack \in Seq(Frame) /\ stack # <<>>
    BY <1>1 DEF IInv, Types, Calls
  <2>2. stack' \in Seq(Frame)
    BY <1>4, <2>1, ReplaceFrame DEF Frame
  <2>3. bound' \in [Module -> BOOLEAN]
    BY <1>7
  <2> QED BY <1>1, <2>2, <2>3 DEF IInv, Types
<1>13. SearchState
  BY <1>1 DEF SearchState, OthersKept
<1>14. ClosingOf(f) = CircleOf(s)
  BY <1>4, <1>5 DEF ClosingOf, CircleOf
<1>14a. finished = {m \in Module : state'[m] \in LinkedStates \/ m \in ClosingOf(f)}
  BY <1>1, <1>3, <1>14 DEF CircleOf
<1>15. \A m \in Module : state'[m] = "linking" => \E i \in 1 .. Len(f.items) : m = Mod(f, i)
  BY <1>1, <1>3, <1>4, <1>5
<1>16. /\ Calling(imports, stack)' /\ Evaluating(imports, state, stack)' /\ Linking'
       /\ Finished' = finished /\ Closing' = CircleOf(s) /\ Calls("link")' /\ Top' = f
  <2>1. f.circle \in 1 .. Len(f.items)
    BY <1>2, <1>4
  <2> QED BY <1>1, <1>4, <1>11, <1>12, <1>13, <1>14, <1>14a, <1>15, <2>1, SearchMoves
<1>17. Ready'
  <2> SUFFICES ASSUME NEW m \in finished, NEW n \in Leads(imports, m)
               PROVE  scope[n] /\ names[n] /\ bound'[n] /\ (n \in finished \/ state[n] = "error")
    BY <1>1, <1>16 DEF Ready
  <2>1. n \in Module
    BY LeadsIn
  <2>2. ASSUME NEW b \in Finished, n \in Leads(imports, b)
        PROVE  scope[n] /\ names[n] /\ bound'[n] /\ (n \in finished \/ state[n] = "error")
    <3>1. scope[n] /\ names[n] /\ bound[n] /\ (n \in Finished \/ state[n] = "error")
      BY <2>2 DEF IInv, Ready
    <3> QED BY <1>7, <2>1, <3>1
  <2>3. CASE n \in CircleOf(s)
    <3>1. PICK i \in s.circle .. Len(s.items) : n = Mod(s, i)
      BY <2>3 DEF CircleOf
    <3>2. scope[n] /\ names[n]
      BY <1>1, <1>2, <3>1 DEF Circling
    <3> QED BY <1>7, <2>1, <2>3, <3>2
  <2>4. CASE m \in CircleOf(s) /\ n \notin CircleOf(s)
    <3>1. \A x \in CircleOf(s) : ToSet(imports[x]) \subseteq CircleOf(s) \cup Finished
      <4> SUFFICES ASSUME NEW i \in s.circle .. Len(s.items), NEW y \in ToSet(imports[Mod(s, i)])
                   PROVE  y \in CircleOf(s) \cup Finished
        BY DEF CircleOf
      <4> QED BY <1>1, <1>2, <1>8 DEF Circling
    <3>2. \A x \in Module : ToSet(imports[x]) \subseteq Module
      BY GraphOf, ImportsIn DEF IInv
    <3>3. CircleOf(s) \in SUBSET Module /\ Finished \in SUBSET Module
      BY DEF CircleOf, Finished
    <3>4. PICK b \in Finished : n \in Leads(imports, b)
      BY <2>4, <3>1, <3>2, <3>3, LeadsThrough
    <3> QED BY <2>2, <3>4
  <2>5. CASE m \in Finished
    BY <2>2, <2>5
  <2> QED BY <2>3, <2>4, <2>5
<1>18. Spoiled'
  <2>1. ErrorsStay
    BY <1>1, <1>2, <1>7 DEF ErrorsStay, CircleOf
  <2> SUFFICES ASSUME NEW m \in Module, state'[m] \in {"unlinked", "linking"}, names'[m] \/ bound'[m]
               PROVE  m \in Closing' \/ Doomed(m)'
    BY DEF Spoiled
  <2>2. CASE m \in CircleOf(s)
    BY <1>16, <2>2
  <2>3. CASE m \notin CircleOf(s)
    <3>1. state[m] \in {"unlinked", "linking"} /\ (names[m] \/ bound[m])
      BY <1>1, <1>7, <2>3
    <3>2. ~\E i \in s.circle .. Len(s.items) : m = Mod(s, i)
      BY <2>3 DEF CircleOf
    <3>3. Doomed(m)
      BY <1>3, <3>1, <3>2 DEF IInv, Spoiled
    <3> QED BY <1>1, <2>1, <3>3, DoomedStays
  <2> QED BY <2>2, <2>3
<1> QED BY <1>12, <1>16, <1>17, <1>18 DEF IInv

-----------------------------------------------------------------------------
(* The end of a search.                                                    *)

\* A callback in which the host makes no calls leaves no trace.
LEMMA QuietTell ==
  ASSUME QuietHost, NEW place \in {"linked", "failed"}, NEW frames, Tell(place, frames)
  PROVE  stack' = frames
BY DEF QuietHost, Tell

LEMMA CircleFails ==
  ASSUME IInv, Calls("link"), NEW s, s = Top, s.step \in {"names", "connect"},
         NEW k \in s.circle .. Len(s.items), state' = [state EXCEPT ![Mod(s, k)] = "error"],
         stack' = <<[s EXCEPT !.step = "error"]>> \o Tail(stack),
         UNCHANGED <<imports, resolved, ancestor, scope, code>>,
         names' \in [Module -> BOOLEAN], bound' \in [Module -> BOOLEAN], ~bound'[Mod(s, k)],
         \A m \in Module : /\ names[m] => names'[m]
                           /\ bound[m] => bound'[m]
                           /\ m \notin CircleOf(s) => names'[m] = names[m] /\ bound'[m] = bound[m]
  PROVE  IInv'
<1>2. /\ s \in LinkFrame /\ Circling(s, imports, Finished, scope, names, bound)
      /\ \A i \in s.circle .. Len(s.items) : i \in 1 .. Len(s.items)
      /\ \A i \in 1 .. Len(s.items) : Mod(s, i) \in Module /\ state[Mod(s, i)] = "linking"
  BY CircleIs
<1>3. /\ Finished = {m \in Module : state[m] \in LinkedStates} /\ Closing = {}
      /\ \A m \in Module : state[m] = "linking" => \E i \in 1 .. Len(s.items) : m = Mod(s, i)
  BY InSearch DEF ClosingOf
<1> PICK f : f = [s EXCEPT !.step = "error"]
  OBVIOUS
<1>4. /\ f \in LinkFrame /\ f.step = "error" /\ f.items = s.items
      /\ stack' = <<f>> \o Tail(stack) /\ f \in Frame
  <2>1. f \in LinkFrame /\ f.step = "error" /\ f.items = s.items
    BY <1>2 DEF LinkFrame, LinkStep
  <2>2. stack' = <<f>> \o Tail(stack)
    BY Zenon
  <2> QED BY <2>1, <2>2 DEF Frame
<1>5. \A i : Mod(f, i) = Mod(s, i)
  BY <1>4 DEF Mod
<1>6. Mod(s, k) \in Module /\ state[Mod(s, k)] = "linking" /\ Mod(s, k) \in CircleOf(s)
  BY <1>2 DEF CircleOf
<1>7. /\ state' \in [Module -> ModuleState] /\ state'[Mod(s, k)] = "error"
      /\ \A m \in Module : m # Mod(s, k) => state'[m] = state[m]
  <2>1. state \in [Module -> ModuleState] /\ "error" \in ModuleState
    BY DEF IInv, Types, ModuleState
  <2> QED BY <1>6, <2>1
<1>8. Searching(f, imports, state', ancestor', scope', names', bound', Finished)
  <2>1. \A i \in 1 .. Len(f.items) : state'[Mod(f, i)] \in {"linking", "error"}
    BY <1>2, <1>4, <1>5, <1>7
  <2> QED BY <1>4, <2>1 DEF Searching
<1>9. Types'
  <2>1. stack \in Seq(Frame) /\ stack # <<>>
    BY DEF IInv, Types, Calls
  <2>2. <<f>> \o Tail(stack) \in Seq(Frame)
    BY <1>4, <2>1, ReplaceFrame
  <2>3. stack' \in Seq(Frame)
    BY <1>4, <2>2, Zenon
  <2> QED BY <1>7, <2>3 DEF IInv, Types
<1>10. SearchState
  BY <1>6, <1>7 DEF SearchState, OthersKept
<1>11. Finished = {m \in Module : state'[m] \in LinkedStates \/ m \in ClosingOf(f)}
  BY <1>3, <1>4, <1>6, <1>7 DEF ClosingOf, LinkedStates
<1>12. \A m \in Module : state'[m] = "linking" => \E i \in 1 .. Len(f.items) : m = Mod(f, i)
  BY <1>3, <1>4, <1>5, <1>7
<1>13. /\ Calling(imports, stack)' /\ Evaluating(imports, state, stack)' /\ Linking'
       /\ Finished' = Finished
  <2>1. f.step = "close" => f.circle \in 1 .. Len(f.items)
    BY <1>4
  <2> QED BY <1>4, <1>8, <1>9, <1>10, <1>11, <1>12, <2>1, SearchMoves
<1>14. Ready'
  <2>1. \A m \in Module : state[m] = "error" => state'[m] = "error"
    BY <1>7
  <2> QED BY <1>13, <2>1, ReadyKept
<1>15. Spoiled'
  <2>1. ErrorsStay
    BY <1>2, <1>6, <1>7 DEF ErrorsStay, CircleOf
  <2> SUFFICES ASSUME NEW m \in Module, state'[m] \in {"unlinked", "linking"}, names'[m] \/ bound'[m]
               PROVE  Doomed(m)'
    BY DEF Spoiled
  <2>2. CASE m \in CircleOf(s)
    <3>1. PICK i \in s.circle .. Len(s.items) : m = Mod(s, i)
      BY <2>2 DEF CircleOf
    <3>2. Mod(s, k) \in Leads(imports, m)
      BY <1>2, <3>1 DEF Circling
    <3> QED BY <1>7, <3>2 DEF Doomed
  <2>3. CASE m \notin CircleOf(s)
    <3>1. state[m] \in {"unlinked", "linking"} /\ (names[m] \/ bound[m])
      BY <1>6, <1>7, <2>3
    <3>2. ~\E i \in s.circle .. Len(s.items) : m = Mod(s, i)
      BY <2>3 DEF CircleOf
    <3>3. Doomed(m)
      BY <1>3, <3>1, <3>2 DEF IInv, Spoiled
    <3> QED BY <2>1, <3>3, DoomedStays
  <2> QED BY <2>2, <2>3
<1> QED BY <1>9, <1>13, <1>14, <1>15 DEF IInv

\* The modules that were handled before module k.
LEMMA HandledBefore ==
  ASSUME IInv, Calls("link"), NEW s, s = Top, s.step \in {"names", "connect"},
         NEW k \in s.circle .. Len(s.items), NEW flag \in [Module -> BOOLEAN], NEW flag2,
         flag2 = Marked(flag, From(k + 1))
  PROVE  /\ flag2 \in [Module -> BOOLEAN] /\ flag2[Mod(s, k)] = flag[Mod(s, k)]
         /\ \A m \in Module : flag[m] => flag2[m]
         /\ \A m \in Module : m \notin CircleOf(s) => flag2[m] = flag[m]
<1>1. /\ s.circle \in 1 .. Len(s.items) /\ Len(s.items) \in Nat
      /\ \A i \in s.circle .. Len(s.items) : i \in 1 .. Len(s.items)
      /\ \A i \in 1 .. Len(s.items) : Mod(s, i) \in Module
      /\ \A i, j \in 1 .. Len(s.items) : i # j => Mod(s, i) # Mod(s, j)
  BY CircleIs
<1>2. From(k + 1) = {Mod(s, i) : i \in k + 1 .. Len(s.items)}
  BY DEF From, Mod
<1>3. Mod(s, k) \in Module /\ Mod(s, k) \notin From(k + 1)
  <2>1. \A i \in k + 1 .. Len(s.items) : i \in 1 .. Len(s.items) /\ i # k
    BY <1>1
  <2> QED BY <1>1, <1>2, <2>1
<1>4. From(k + 1) \subseteq CircleOf(s)
  <2>1. \A i \in k + 1 .. Len(s.items) : i \in s.circle .. Len(s.items)
    BY <1>1
  <2> QED BY <1>1, <1>2, <2>1 DEF CircleOf
<1> QED BY <1>3, <1>4 DEF Marked

LEMMA NamesFailPreserves == ASSUME IInv, QuietHost, NamesFail PROVE IInv'
<1> PICK s : s = Top
  OBVIOUS
<1>1. PICK k \in s.circle .. Len(s.items) : FailsAt(k) /\ names' = Marked(names, From(k + 1))
  BY DEF NamesFail
<1>2. /\ Calls("link") /\ s.step = "names" /\ UNCHANGED <<imports, resolved, ancestor, scope, bound, code>>
  BY DEF NamesFail, At
<1>3. state' = [state EXCEPT ![Mod(s, k)] = "error"]
  BY <1>1 DEF FailsAt, Mod
<1>4. stack' = <<[s EXCEPT !.step = "error"]>> \o Tail(stack)
  <2>1. Tell("failed", <<[s EXCEPT !.step = "error"]>> \o Tail(stack))
    BY <1>1 DEF FailsAt
  <2> QED BY <2>1, QuietTell
<1>5. names \in [Module -> BOOLEAN] /\ bound \in [Module -> BOOLEAN]
  BY DEF IInv, Types
<1>6. /\ names' \in [Module -> BOOLEAN]
      /\ \A m \in Module : names[m] => names'[m]
      /\ \A m \in Module : m \notin CircleOf(s) => names'[m] = names[m]
  BY <1>1, <1>2, <1>5, HandledBefore
<1>7. ~bound[Mod(s, k)]
  <2>1. Circling(s, imports, Finished, scope, names, bound)
    BY <1>2, CircleIs
  <2> QED BY <1>2, <2>1 DEF Circling
<1> QED BY <1>2, <1>3, <1>4, <1>5, <1>6, <1>7, CircleFails

LEMMA ConnectFailsPreserves == ASSUME IInv, QuietHost, ConnectFails PROVE IInv'
<1> PICK s : s = Top
  OBVIOUS
<1>1. PICK k \in s.circle .. Len(s.items) : FailsAt(k) /\ bound' = Marked(bound, From(k + 1))
  BY DEF ConnectFails
<1>2. /\ Calls("link") /\ s.step = "connect" /\ UNCHANGED <<imports, resolved, ancestor, scope, names, code>>
  BY DEF ConnectFails, At
<1>3. state' = [state EXCEPT ![Mod(s, k)] = "error"]
  BY <1>1 DEF FailsAt, Mod
<1>4. stack' = <<[s EXCEPT !.step = "error"]>> \o Tail(stack)
  <2>1. Tell("failed", <<[s EXCEPT !.step = "error"]>> \o Tail(stack))
    BY <1>1 DEF FailsAt
  <2> QED BY <2>1, QuietTell
<1>5. names \in [Module -> BOOLEAN] /\ bound \in [Module -> BOOLEAN]
  BY DEF IInv, Types
<1>6. ~bound[Mod(s, k)]
  <2>1. Circling(s, imports, Finished, scope, names, bound)
    BY <1>2, CircleIs
  <2> QED BY <1>2, <2>1 DEF Circling
<1>7. /\ bound' \in [Module -> BOOLEAN] /\ ~bound'[Mod(s, k)]
      /\ \A m \in Module : bound[m] => bound'[m]
      /\ \A m \in Module : m \notin CircleOf(s) => bound'[m] = bound[m]
  BY <1>1, <1>2, <1>5, <1>6, HandledBefore
<1> QED BY <1>2, <1>3, <1>4, <1>5, <1>7, CircleFails


\* The last item leaves the stack of the search.
Shortened(s, f) ==
  /\ f \in LinkFrame /\ f.current = s.current /\ f.index = s.index /\ f.circle = s.circle
  /\ Len(f.items) = Len(s.items) - 1
  /\ \A i \in 1 .. Len(s.items) - 1 : /\ Mod(f, i) = Mod(s, i) /\ Node(f, i) = Node(s, i)
                                      /\ Parent(f, i) = Parent(s, i) /\ Index(f, i) = Index(s, i)

LEMMA ItemPopped ==
  ASSUME NEW s \in LinkFrame, s.items # <<>>, NEW step \in LinkStep,
         NEW f, f = [s EXCEPT !.items = Front(@), !.step = step]
  PROVE  Shortened(s, f) /\ f.step = step
<1>1. s.items \in Seq(ItemType) /\ Len(s.items) \in Nat \ {0}
  BY SearchFields
<1> PICK items : items = Front(s.items)
  OBVIOUS
<1>2. /\ items \in Seq(ItemType) /\ Len(items) = Len(s.items) - 1
      /\ \A i \in 1 .. Len(s.items) - 1 : items[i] = s.items[i]
  BY <1>1 DEF Front
<1>3. f = [s EXCEPT !.items = items, !.step = step]
  OBVIOUS
<1>4. /\ f.step = step /\ f.items = items /\ f \in LinkFrame /\ f.current = s.current
      /\ f.index = s.index /\ f.circle = s.circle
  BY <1>2, <1>3 DEF LinkFrame
<1>5. \A i \in 1 .. Len(s.items) - 1 : /\ Mod(f, i) = Mod(s, i) /\ Node(f, i) = Node(s, i)
                                       /\ Parent(f, i) = Parent(s, i) /\ Index(f, i) = Index(s, i)
  BY <1>2, <1>4 DEF Mod, Node, Parent, Index
<1> QED BY <1>2, <1>4, <1>5 DEF Shortened

\* What holds while a search neither fails nor has ended.
Standing(s, g, st, low, sc, finished) ==
  Items(s, g, st) /\ Counted(s, st) /\ Requested(s, g, st) /\ Lows(s, g, low) /\ Tree(s, g, low, sc, finished)

Announced(st, st2, x) == st2[x] = "linked" /\ \A m \in Module : m # x => st2[m] = st[m]

\* What is below the circle stays as it is.
LEMMA BelowCircle ==
  ASSUME NEW s \in LinkFrame, NEW f, Shortened(s, f), s.step = "close", f.step \in {"close", "visit"},
         s.circle \in 1 .. Len(s.items), Len(s.items) > 1,
         f.step = "close" => s.circle < Len(s.items),
         f.step = "visit" => s.circle = Len(s.items),
         NEW g, NEW st, NEW low, NEW sc, NEW finished, NEW st2,
         Announced(st, st2, Mod(s, Len(s.items))), WellFormed(g), Standing(s, g, st, low, sc, finished)
  PROVE  Standing(f, g, st2, low, sc, finished)
<1>0. /\ \A m \in Module : m # Mod(s, Len(s.items)) => st2[m] = st[m]
      /\ st2[Mod(s, Len(s.items))] = "linked"
      /\ Items(s, g, st) /\ Counted(s, st) /\ Requested(s, g, st) /\ Lows(s, g, low)
      /\ Tree(s, g, low, sc, finished)
  BY DEF Announced, Standing
<1> PICK n : n = Len(s.items)
  OBVIOUS
<1>1. /\ n \in Nat /\ f \in LinkFrame /\ f.current = s.current /\ f.index = s.index /\ f.circle = s.circle
      /\ Len(f.items) = n - 1
      /\ \A i \in 1 .. n - 1 : /\ Mod(f, i) = Mod(s, i) /\ Node(f, i) = Node(s, i)
                               /\ Parent(f, i) = Parent(s, i) /\ Index(f, i) = Index(s, i)
  BY SearchFields DEF Shortened
<1>2. \A i \in 1 .. n - 1 : i \in 1 .. n /\ i # n
  BY <1>1
<1>3. /\ \A i \in 1 .. n : /\ st[Mod(s, i)] = "linking" /\ Index(s, i) <= s.index
                           /\ Node(s, i) \in 1 .. Len(g[Mod(s, i)]) + 1
                           /\ Mod(s, i) \in Module
      /\ \A i, j \in 1 .. n : i # j => Mod(s, i) # Mod(s, j)
      /\ \A i, j \in 1 .. n : i < j => Index(s, i) < Index(s, j)
      /\ Parent(s, 1) = 0
  BY <1>0, ItemOrder, SearchFields
<1>4. \A i \in 1 .. n - 1 : st2[Mod(s, i)] = "linking"
  <2> SUFFICES ASSUME NEW i \in 1 .. n - 1 PROVE st2[Mod(s, i)] = "linking"
    OBVIOUS
  <2>1. i \in 1 .. n /\ n \in 1 .. n /\ i # n
    BY <1>1, <1>2
  <2> QED BY <1>0, <1>3, <2>1
<1>5. Items(f, g, st2)
  <2>1. f.items # <<>> /\ 1 \in 1 .. n - 1
    BY <1>1, SearchFields
  <2>2. \A i \in 1 .. n - 1 : /\ st2[Mod(f, i)] = "linking" /\ Index(f, i) <= f.index
                              /\ Node(f, i) \in 1 .. Len(g[Mod(f, i)]) + 1
    BY <1>1, <1>2, <1>3, <1>4
  <2>3. \A i, j \in 1 .. n - 1 : i < j => Mod(f, i) # Mod(f, j) /\ Index(f, i) < Index(f, j)
    <3> SUFFICES ASSUME NEW i \in 1 .. n - 1, NEW j \in 1 .. n - 1, i < j
                 PROVE  Mod(s, i) # Mod(s, j) /\ Index(s, i) < Index(s, j)
      BY <1>1
    <3>1. i \in 1 .. n /\ j \in 1 .. n
      BY <1>2
    <3> QED BY <1>3, <3>1
  <2> QED BY <1>1, <1>3, <2>1, <2>2, <2>3 DEF Items
<1>6. Counted(f, st2)
  <2>1. PICK met \in SUBSET Module : Cardinality(met) = s.index + 1 /\ \A m \in met : st[m] # "unlinked"
    BY <1>0 DEF Counted
  <2>2. \A m \in met : st2[m] # "unlinked"
    BY <1>0, <2>1
  <2> QED BY <1>1, <2>1, <2>2 DEF Counted
<1>7. Requested(f, g, st2)
  <2> SUFFICES ASSUME NEW i \in 1 .. n - 1, NEW j \in 1 .. Len(g[Mod(s, i)])
               PROVE  st2[g[Mod(s, i)][j]] # "error"
    BY <1>1 DEF Requested
  <2>1. st[g[Mod(s, i)][j]] # "error"
    BY <1>0, <1>2 DEF Requested
  <2>2. g[Mod(s, i)][j] \in Module
    BY <1>2, <1>3 DEF WellFormed
  <2> QED BY <1>0, <2>1, <2>2
<1>8. Height(s) = s.circle - 1 /\ Height(f) = s.circle - 1
  BY <1>1 DEF Height
<1>9. \A i \in 1 .. s.circle - 1 : i \in 1 .. n - 1
  BY <1>1
<1>10. /\ \A i \in 1 .. s.circle - 1 : /\ Mod(f, i) = Mod(s, i) /\ Node(f, i) = Node(s, i)
                                       /\ Parent(f, i) = Parent(s, i) /\ Index(f, i) = Index(s, i)
  BY <1>1, <1>9
<1>11. Lows(f, g, low)
  <2> SUFFICES ASSUME NEW i \in 1 .. s.circle - 1
               PROVE  /\ low[Mod(s, i)] <= Index(s, i)
                      /\ \E w \in 1 .. i : /\ low[Mod(s, i)] = Index(f, w)
                                           /\ Mod(f, w) \in Leads(g, Mod(s, i))
    BY <1>8, <1>10 DEF Lows
  <2>1. \A w \in 1 .. i : w \in 1 .. s.circle - 1
    BY <1>1
  <2> QED BY <1>0, <1>8, <1>10, <2>1 DEF Lows
<1>12. Tree(f, g, low, sc, finished)
  <2>1. PICK path \in SUBSET (1 .. Height(s)) :
             OnPath(s, g, path) /\ Visits(s, g, low, finished, path) /\ Done(s, g, low, sc, path)
    BY <1>0 DEF Tree
  <2>2. path \subseteq 1 .. s.circle - 1
    BY <1>8, <2>1
  <2>3. OnPath(f, g, path)
    <3>1. \A p \in path : \A k \in p .. s.circle - 1 : k \in 1 .. s.circle - 1
      BY <1>1, <2>2
    <3>2. \A p \in path : \A k \in p .. s.circle - 1 : Mod(f, k) \in Leads(g, Mod(f, p))
      BY <1>8, <1>10, <2>1, <2>2, <3>1 DEF OnPath
    <3>3. \A p \in path : p # 1 => /\ Parent(f, p) \in path /\ Parent(f, p) < p
                                   /\ \A r \in path : r <= Parent(f, p) \/ p <= r
      BY <1>10, <2>1, <2>2 DEF OnPath
    <3> QED BY <1>1, <1>8, <2>1, <3>2, <3>3 DEF OnPath
  <2>4. Visits(f, g, low, finished, path)
    <3> SUFFICES ASSUME NEW i \in 1 .. s.circle - 1, NEW j \in 1 .. Node(s, i) - 1
                 PROVE  \/ g[Mod(s, i)][j] \in finished
                        \/ \E k \in 1 .. s.circle - 1 : /\ g[Mod(s, i)][j] = Mod(f, k) /\ low[Mod(s, i)] <= Index(f, k)
                                                        /\ \A p \in path : p <= i \/ k < p
                        \/ \E k \in path : Parent(f, k) = i /\ g[Mod(s, i)][j] = Mod(f, k)
      BY <1>8, <1>10 DEF Visits
    <3>1. \/ g[Mod(s, i)][j] \in finished
          \/ \E k \in 1 .. s.circle - 1 : /\ g[Mod(s, i)][j] = Mod(s, k) /\ low[Mod(s, i)] <= Index(s, k)
                                          /\ \A p \in path : p <= i \/ k < p
          \/ \E k \in path : Parent(s, k) = i /\ g[Mod(s, i)][j] = Mod(s, k)
      BY <1>8, <2>1 DEF Visits
    <3> QED BY <1>10, <2>2, <3>1
  <2>5. Done(f, g, low, sc, path)
    <3> SUFFICES ASSUME NEW k \in (1 .. s.circle - 1) \ path
                 PROVE  /\ Node(s, k) > Len(g[Mod(s, k)])
                        /\ low[Mod(s, k)] < Index(s, k)
                        /\ sc[Mod(s, k)]
                        /\ \E q \in path : /\ q < k
                                           /\ \A r \in path : r <= q \/ k < r
                                           /\ Mod(f, q) \in Leads(g, Mod(s, k))
                                           /\ low[Mod(f, q)] <= low[Mod(s, k)]
      BY <1>8, <1>10 DEF Done
    <3>1. /\ Node(s, k) > Len(g[Mod(s, k)])
          /\ low[Mod(s, k)] < Index(s, k)
          /\ sc[Mod(s, k)]
          /\ \E q \in path : /\ q < k
                             /\ \A r \in path : r <= q \/ k < r
                             /\ Mod(s, q) \in Leads(g, Mod(s, k))
                             /\ low[Mod(s, q)] <= low[Mod(s, k)]
      BY <1>8, <2>1 DEF Done
    <3> QED BY <1>10, <2>2, <3>1
  <2> QED BY <1>8, <2>2, <2>3, <2>4, <2>5 DEF Tree
<1> QED BY <1>5, <1>6, <1>7, <1>11, <1>12 DEF Standing

LEMMA CloseItemPreserves == ASSUME IInv, QuietHost, CloseItem PROVE IInv'
<1> PICK s : s = Top
  OBVIOUS
<1> PICK n : n = Len(s.items)
  OBVIOUS
<1> PICK step : step = IF n > s.circle THEN "close" ELSE IF s.current = 0 THEN "end" ELSE "visit"
  OBVIOUS
<1> PICK f : f = [s EXCEPT !.items = Front(@), !.step = step]
  OBVIOUS
<1>1. /\ Calls("link") /\ s.step = "close" /\ state' = [state EXCEPT ![Last(s.items).module] = "linked"]
      /\ UNCHANGED <<imports, resolved, ancestor, scope, names, bound, code>>
      /\ Tell("linked", <<f>> \o Tail(stack))
  BY DEF CloseItem, At, linkage
<1>2. stack' = <<f>> \o Tail(stack)
  BY <1>1, QuietTell
<1>3. /\ s \in LinkFrame /\ Items(s, imports, state) /\ Counted(s, state) /\ Requested(s, imports, state)
      /\ Lows(s, imports, ancestor) /\ Tree(s, imports, ancestor, scope, Finished)
      /\ s.circle \in 1 .. n /\ n \in Nat /\ Height(s) = s.circle - 1
      /\ \A i \in s.circle .. n : i \in 1 .. n
      /\ \A i \in 1 .. n : Mod(s, i) \in Module /\ state[Mod(s, i)] = "linking"
      /\ \A i, j \in 1 .. n : i # j => Mod(s, i) # Mod(s, j)
  BY <1>1, CircleIs
<1>4. /\ Finished = {m \in Module : state[m] \in LinkedStates \/ m \in CircleOf(s)} /\ Closing = CircleOf(s)
      /\ \A m \in Module : state[m] = "linking" => \E i \in 1 .. n : m = Mod(s, i)
  BY <1>1, InSearch DEF ClosingOf, CircleOf
<1>5. Shortened(s, f) /\ f.step = step
  <2>1. step \in LinkStep /\ s.items # <<>>
    BY <1>3, SearchFields DEF LinkStep
  <2>2. s \in LinkFrame
    BY <1>3
  <2>3. f = [s EXCEPT !.items = Front(@), !.step = step]
    OBVIOUS
  <2> HIDE DEF Front
  <2> QED BY <2>1, <2>2, <2>3, ItemPopped, Zenon
<1>6. /\ f \in LinkFrame /\ f.current = s.current /\ f.index = s.index /\ f.circle = s.circle
      /\ Len(f.items) = n - 1
      /\ \A i \in 1 .. n - 1 : Mod(f, i) = Mod(s, i)
  BY <1>5 DEF Shortened
<1>7. Last(s.items).module = Mod(s, n) /\ n \in 1 .. n /\ n \in s.circle .. n
  BY <1>3 DEF Last, Mod
<1>8. /\ state' \in [Module -> ModuleState] /\ state'[Mod(s, n)] = "linked"
      /\ \A m \in Module : m # Mod(s, n) => state'[m] = state[m]
  <2>1. state \in [Module -> ModuleState] /\ "linked" \in ModuleState
    BY DEF IInv, Types, ModuleState
  <2> QED BY <1>1, <1>3, <1>7, <2>1
<1>9. Mod(s, n) \in Module /\ Mod(s, n) \in CircleOf(s) /\ state[Mod(s, n)] = "linking"
  BY <1>3, <1>7 DEF CircleOf
<1>10. \A m \in Module : m # Mod(s, n) => (m \in CircleOf(s) <=> m \in ClosingOf(f))
  <2> SUFFICES ASSUME NEW m \in Module, m # Mod(s, n)
               PROVE  (\E i \in s.circle .. n : m = Mod(s, i)) <=> m \in ClosingOf(f)
    BY DEF CircleOf
  <2>1. CASE n > s.circle
    <3>1. ClosingOf(f) = {x \in Module : \E i \in s.circle .. n - 1 : x = Mod(f, i)}
      BY <1>5, <1>6, <2>1 DEF ClosingOf
    <3>2. \A i \in s.circle .. n - 1 : Mod(f, i) = Mod(s, i) /\ i \in s.circle .. n
      <4>1. \A i \in s.circle .. n - 1 : i \in 1 .. n - 1 /\ i \in s.circle .. n
        BY <1>3
      <4> QED BY <1>6, <4>1
    <3>3. \A i \in s.circle .. n : i = n \/ i \in s.circle .. n - 1
      BY <1>3
    <3> QED BY <3>1, <3>2, <3>3
  <2>2. CASE ~(n > s.circle)
    <3>1. ClosingOf(f) = {}
      BY <1>5, <2>2 DEF ClosingOf
    <3>2. \A i \in s.circle .. n : i = n
      BY <1>3, <2>2
    <3> QED BY <3>1, <3>2
  <2> QED BY <2>1, <2>2
<1>11. Finished = {m \in Module : state'[m] \in LinkedStates \/ m \in ClosingOf(f)}
  <2> SUFFICES ASSUME NEW m \in Module
               PROVE  (state[m] \in LinkedStates \/ m \in CircleOf(s))
                        <=> (state'[m] \in LinkedStates \/ m \in ClosingOf(f))
    BY <1>4
  <2>1. CASE m = Mod(s, n)
    BY <1>8, <1>9, <2>1 DEF LinkedStates
  <2>2. CASE m # Mod(s, n)
    BY <1>8, <1>10, <2>2
  <2> QED BY <2>1, <2>2
<1>12. Searching(f, imports, state', ancestor, scope, names, bound, Finished)
  <2>1. CASE f.step = "end"
    <3>1. s.current = 0 /\ n = s.circle
      BY <1>3, <1>5, <2>1
    <3>2. Height(s) = 0
      BY <1>3, <3>1 DEF Tree, OnPath
    <3>3. Len(f.items) = 0
      BY <1>3, <1>6, <3>1, <3>2
    <3>4. f.items = <<>>
      BY <1>6, <3>3, SearchFields
    <3> QED BY <2>1, <3>4 DEF Searching
  <2>2. CASE f.step # "end"
    <3>1. /\ f.step \in {"close", "visit"} /\ (f.step = "close" => s.circle < n)
          /\ (f.step = "visit" => s.circle = n /\ s.current # 0)
      BY <1>3, <1>5, <2>2
    <3>2. n > 1
      <4>1. s.circle = n => Height(s) # 0
        BY <1>3, <2>2, <1>5 DEF Tree, OnPath
      <4> QED BY <1>3, <3>1, <4>1
    <3>3. WellFormed(imports)
      BY GraphOf DEF IInv
    <3>4. /\ Items(f, imports, state') /\ Counted(f, state') /\ Requested(f, imports, state')
          /\ Lows(f, imports, ancestor) /\ Tree(f, imports, ancestor, scope, Finished)
      <4>1. /\ s \in LinkFrame /\ Shortened(s, f) /\ s.step = "close"
            /\ s.circle \in 1 .. Len(s.items) /\ Len(s.items) > 1
        BY <1>1, <1>3, <1>5, <3>2
      <4>2. /\ f.step = "close" => s.circle < Len(s.items)
            /\ f.step = "visit" => s.circle = Len(s.items)
        BY <3>1
      <4>3. Announced(state, state', Mod(s, Len(s.items)))
        BY <1>8 DEF Announced
      <4>4. Standing(s, imports, state, ancestor, scope, Finished)
        BY <1>3 DEF Standing
      <4>5. f.step \in {"close", "visit"}
        BY <3>1
      <4>6. Standing(f, imports, state', ancestor, scope, Finished)
        BY <3>3, <4>1, <4>2, <4>3, <4>4, <4>5, BelowCircle
      <4> QED BY <4>6 DEF Standing
    <3>5. f.step = "close" => Circling(f, imports, Finished, scope, names, bound)
      BY <1>3, <1>6, <3>1 DEF Circling
    <3> QED BY <3>1, <3>4, <3>5 DEF Searching
  <2> QED BY <2>1, <2>2
<1>13. Types'
  <2>1. stack \in Seq(Frame) /\ stack # <<>> /\ f \in Frame
    BY <1>1, <1>6 DEF IInv, Types, Calls, Frame
  <2>2. stack' \in Seq(Frame)
    BY <1>2, <2>1, ReplaceFrame
  <2> QED BY <1>1, <1>8, <2>2 DEF IInv, Types
<1>14. SearchState
  BY <1>8, <1>9 DEF SearchState, OthersKept
<1>15. \A m \in Module : state'[m] = "linking" => \E i \in 1 .. Len(f.items) : m = Mod(f, i)
  <2> SUFFICES ASSUME NEW m \in Module, state'[m] = "linking"
               PROVE  \E i \in 1 .. n - 1 : m = Mod(f, i)
    BY <1>6
  <2>1. m # Mod(s, n) /\ state[m] = "linking"
    BY <1>8
  <2>2. PICK i \in 1 .. n : m = Mod(s, i)
    BY <1>4, <2>1
  <2>3. i \in 1 .. n - 1
    BY <1>3, <2>1, <2>2
  <2> QED BY <1>6, <2>2, <2>3
<1>16. /\ Calling(imports, stack)' /\ Evaluating(imports, state, stack)' /\ Linking'
       /\ Finished' = Finished /\ Closing' = ClosingOf(f)
  <2>1. f.step = "close" => f.circle \in 1 .. Len(f.items)
    BY <1>3, <1>5, <1>6
  <2>2. Searching(f, imports, state', ancestor', scope', names', bound', Finished)
    BY <1>1, <1>12
  <2> QED BY <1>1, <1>2, <1>6, <1>11, <1>13, <1>14, <1>15, <2>1, <2>2, SearchMoves
<1>17. Ready'
  <2>1. \A m \in Module : /\ state[m] = "error" => state'[m] = "error"
                          /\ scope[m] => scope'[m]
                          /\ names[m] => names'[m]
                          /\ bound[m] => bound'[m]
    BY <1>1, <1>8, <1>9
  <2> QED BY <1>1, <1>16, <2>1, ReadyKept
<1>18. Spoiled'
  <2>1. ~At("link", "connect")
    BY <1>1 DEF At
  <2>2. \A m \in Module : /\ state[m] = "error" => state'[m] = "error" /\ scope'[m] = scope[m]
                          /\ state'[m] \in {"unlinked", "linking"} => state[m] \in {"unlinked", "linking"}
                          /\ m \in Closing /\ state'[m] \in {"unlinked", "linking"} => m \in Closing'
    BY <1>1, <1>4, <1>8, <1>9, <1>10, <1>16
  <2> QED BY <1>1, <2>1, <2>2, SpoiledKept
<1> QED BY <1>13, <1>16, <1>17, <1>18 DEF IInv

\* The call on top returns; the one below is not about an import of the call on top.
LEMMA CallReturns ==
  ASSUME IInv, Top.call \in {"link", "host"}, ~Resolving(Top), stack # <<>>, stack' = Tail(stack), Types',
         imports' = imports, SearchState
  PROVE  /\ Calling(imports, stack)' /\ Evaluating(imports, state, stack)'
         /\ Closing' = {} /\ ~Calls("link")'
         /\ \A k \in 1 .. Len(stack') : stack'[k].call # "link"
<1>1. /\ stack \in Seq(Frame) /\ Top = stack[1] /\ Len(stack) \in Nat \ {0} /\ 1 \in 1 .. Len(stack)
  BY TopFrame DEF IInv, Types
<1>2. /\ stack' \in Seq(Frame) /\ Len(stack') = Len(stack) - 1
      /\ \A k \in 1 .. Len(stack) - 1 : stack'[k] = stack[k + 1]
  BY <1>1, PopFrame
<1>3. /\ \A k \in 1 .. Len(stack) : stack[k].call = "link" => k = 1 \/ (k = 2 /\ Resolving(stack[1]))
      /\ \A k \in 1 .. Len(stack) : Resolving(stack[k]) => k = 1
      /\ \A k \in 1 .. Len(stack) : stack[k].call = "evaluate" /\ stack[k].step = "imports" /\ k > 1 =>
            /\ stack[k].node <= Len(imports[stack[k].module])
            /\ stack[k - 1].call = "evaluate"
            /\ stack[k - 1].module = imports[stack[k].module][stack[k].node]
  BY DEF IInv, Calling
<1>4. \A k \in 1 .. Len(stack') : k + 1 \in 1 .. Len(stack) /\ k + 1 # 1 /\ stack'[k] = stack[k + 1]
  BY <1>1, <1>2
<1>5. \A k \in 1 .. Len(stack') : stack'[k].call # "link" /\ ~Resolving(stack'[k])
  BY <1>1, <1>3, <1>4
<1>6. Calling(imports, stack)'
  <2>1. ASSUME NEW k \in 1 .. Len(stack'), stack'[k].call = "evaluate", stack'[k].step = "imports", k > 1
        PROVE  /\ stack'[k].node <= Len(imports[stack'[k].module])
               /\ stack'[k - 1].call = "evaluate"
               /\ stack'[k - 1].module = imports[stack'[k].module][stack'[k].node]
    <3>1. k + 1 \in 1 .. Len(stack) /\ k + 1 > 1 /\ stack'[k] = stack[k + 1] /\ (k + 1) - 1 = k
      BY <1>4, <2>1
    <3>2. /\ stack[k + 1].node <= Len(imports[stack[k + 1].module])
          /\ stack[k].call = "evaluate"
          /\ stack[k].module = imports[stack[k + 1].module][stack[k + 1].node]
      BY <1>3, <2>1, <3>1
    <3>3. stack'[k - 1] = stack[k]
      BY <1>1, <1>2, <2>1
    <3> QED BY <3>1, <3>2, <3>3
  <2> QED BY <1>5, <2>1 DEF Calling
<1>7. Evaluating(imports, state, stack)'
  <2>1. WellFormed(imports)
    BY GraphOf DEF IInv
  <2> PICK d \in {-1, 0, 1} : d = 1
    OBVIOUS
  <2>2. \A k \in 1 .. Len(stack') : stack'[k].call = "evaluate" =>
           k + d \in 1 .. Len(stack) /\ stack'[k] = stack[k + d]
    BY <1>4
  <2>3. \A k \in 1 .. Len(stack) : stack[k].call = "evaluate" =>
           k - d \in 1 .. Len(stack') /\ stack'[k - d] = stack[k]
    <3> SUFFICES ASSUME NEW k \in 1 .. Len(stack), stack[k].call = "evaluate"
                 PROVE  k - 1 \in 1 .. Len(stack') /\ stack'[k - 1] = stack[k]
      OBVIOUS
    <3>1. k # 1
      BY <1>1
    <3>2. k - 1 \in 1 .. Len(stack) - 1 /\ (k - 1) + 1 = k
      BY <1>1, <3>1
    <3> QED BY <1>2, <3>2
  <2>4. Evaluating(imports, state, stack)
    BY DEF IInv
  <2>5. SameEvaluations(stack, stack', d)
    BY <2>2, <2>3 DEF SameEvaluations, Active
  <2>6. Evaluating(imports, state', stack')
    BY <1>1, <1>2, <2>1, <2>4, <2>5, EvaluationsKept DEF SearchState
  <2> QED BY <2>6
<1>8. ~Calls("link")'
  <2>1. stack' # <<>> => Top' = stack'[1] /\ 1 \in 1 .. Len(stack')
    <3>1. ASSUME stack' # <<>> PROVE 1 \in 1 .. Len(stack') /\ Head(stack') = stack'[1]
      BY <1>2, <3>1, PopFrame
    <3> QED BY <3>1 DEF Top
  <2> QED BY <1>5, <2>1 DEF Calls
<1>9. Closing' = {}
  <2>1. Framed'
    BY <1>5, <1>6 DEF Framed
  <2> QED BY <1>8, <2>1, ClosingFramedPrime DEF ClosingTold
<1> QED BY <1>5, <1>6, <1>7, <1>8, <1>9

\* The modules on the stack of a search that failed are unlinked again.
LEMMA SearchEnds ==
  ASSUME IInv, Calls("link"), Top.step \in {"error", "end"}, stack' = Tail(stack),
         UNCHANGED <<imports, resolved, ancestor, scope, names, bound, code>>,
         state' \in [Module -> ModuleState],
         \A m \in Module : \/ /\ state'[m] = "unlinked" /\ state[m] = "linking"
                           \/ /\ state'[m] = state[m] /\ state[m] # "linking"
  PROVE  IInv'
<1>1. /\ stack \in Seq(Frame) /\ stack # <<>> /\ Top.call = "link" /\ ~Resolving(Top)
  BY DEF IInv, Types, Calls, Resolving
<1>2. /\ Closing = {} /\ Finished = {m \in Module : state[m] \in LinkedStates}
  BY InSearch DEF ClosingOf
<1>3. Types'
  <2>1. stack' \in Seq(Frame)
    BY <1>1, PopFrame
  <2> QED BY <2>1 DEF IInv, Types
<1>4. SearchState
  BY DEF SearchState, OthersKept
<1>5. /\ Calling(imports, stack)' /\ Evaluating(imports, state, stack)' /\ Closing' = {}
      /\ \A k \in 1 .. Len(stack') : stack'[k].call # "link"
  BY <1>1, <1>3, <1>4, CallReturns
<1>6. Finished' = Finished
  <2>1. Finished' = {m \in Module : state'[m] \in LinkedStates}
    BY <1>5 DEF Finished, LinkedStates
  <2>2. \A m \in Module : state'[m] \in LinkedStates <=> state[m] \in LinkedStates
    BY DEF LinkedStates
  <2> QED BY <1>2, <2>1, <2>2
<1>7. Linking'
  BY <1>5 DEF Linking
<1>8. Ready'
  <2>1. \A m \in Module : state[m] = "error" => state'[m] = "error"
    OBVIOUS
  <2> QED BY <1>6, <2>1, ReadyKept
<1>9. Spoiled'
  <2>1. ~At("link", "connect")
    BY DEF At
  <2>2. \A m \in Module : /\ state[m] = "error" => state'[m] = "error" /\ scope'[m] = scope[m]
                          /\ state'[m] \in {"unlinked", "linking"} => state[m] \in {"unlinked", "linking"}
                          /\ m \in Closing /\ state'[m] \in {"unlinked", "linking"} => m \in Closing'
    BY <1>2
  <2> QED BY <2>1, <2>2, SpoiledKept
<1> QED BY <1>3, <1>5, <1>7, <1>8, <1>9 DEF IInv

LEMMA LinkErrorPreserves == ASSUME IInv, LinkError PROVE IInv'
<1> PICK s : s = Top
  OBVIOUS
<1>1. /\ Calls("link") /\ s.step = "error" /\ stack' = Tail(stack)
      /\ UNCHANGED <<imports, resolved, ancestor, scope, names, bound, code>>
      /\ state' = [m \in Module |-> IF m \in OnStack(s) /\ state[m] # "error" THEN "unlinked" ELSE state[m]]
  BY DEF LinkError, At, linkage
<1>2. /\ s \in LinkFrame /\ \A i \in 1 .. Len(s.items) : state[Mod(s, i)] \in {"linking", "error"}
      /\ \A m \in Module : state[m] = "linking" => \E i \in 1 .. Len(s.items) : m = Mod(s, i)
  BY <1>1, InSearch DEF Searching
<1>3. \A m : m \in OnStack(s) <=> \E i \in 1 .. Len(s.items) : m = Mod(s, i)
  <2>1. DOMAIN s.items = 1 .. Len(s.items)
    BY <1>2, SearchFields
  <2> QED BY <2>1 DEF OnStack, Mod
<1>4. \A m \in Module : \/ /\ state'[m] = "unlinked" /\ state[m] = "linking"
                        \/ /\ state'[m] = state[m] /\ state[m] # "linking"
  BY <1>1, <1>2, <1>3
<1>5. state' \in [Module -> ModuleState]
  <2>1. state \in [Module -> ModuleState] /\ "unlinked" \in ModuleState
    BY DEF IInv, Types, ModuleState
  <2> QED BY <1>1, <2>1
<1> QED BY <1>1, <1>4, <1>5, SearchEnds

LEMMA LinkReturnsPreserves == ASSUME IInv, LinkReturns PROVE IInv'
<1>1. /\ Calls("link") /\ Top.step = "end" /\ stack' = Tail(stack)
      /\ UNCHANGED <<imports, resolved, state, ancestor, scope, names, bound, code>>
  BY DEF LinkReturns, At, linkage
<1>2. /\ Top \in LinkFrame /\ Top.items = <<>>
      /\ \A m \in Module : state[m] = "linking" => \E i \in 1 .. Len(Top.items) : m = Mod(Top, i)
  BY <1>1, InSearch DEF Searching
<1>3. \A m \in Module : state[m] # "linking"
  <2>1. Len(Top.items) = 0
    BY <1>2, SearchFields
  <2> QED BY <1>2, <2>1
<1>4. state \in [Module -> ModuleState]
  BY DEF IInv, Types
<1> QED BY <1>1, <1>3, <1>4, SearchEnds

-----------------------------------------------------------------------------
(* The callbacks.                                                          *)

LEMMA AskHostPreserves == ASSUME IInv, AskHost PROVE IInv'
<1> PICK s : s = Top
  OBVIOUS
<1> PICK h : h = Callback("resolve")
  OBVIOUS
<1>1. /\ Calls("link") /\ s.step = "resolve" /\ s.request <= Len(imports[Current.module])
      /\ stack' = <<h>> \o stack
      /\ UNCHANGED <<imports, resolved, state, ancestor, scope, names, bound, code>>
  BY DEF AskHost, At, linkage
<1>2. /\ s \in LinkFrame /\ Searching(s, imports, state, ancestor, scope, names, bound, Finished)
      /\ s = stack[1] /\ stack \in Seq(Frame) /\ stack # <<>> /\ Len(stack) \in Nat \ {0}
      /\ Finished = {m \in Module : state[m] \in LinkedStates} /\ Closing = {}
      /\ \A m \in Module : state[m] = "linking" => \E i \in 1 .. Len(s.items) : m = Mod(s, i)
      /\ \A k \in 1 .. Len(stack) : stack[k].call = "link" => k = 1
      /\ \A k \in 1 .. Len(stack) : ~Resolving(stack[k])
      /\ s.call = "link" /\ 1 \in 1 .. Len(stack)
  BY <1>1, InSearch, LinkOnTop DEF ClosingOf, IInv, Types, Calls
<1>3. s.request <= Len(imports[Mod(s, s.current)])
  BY <1>1, <1>2, CurrentIs
<1>4. h \in Frame /\ Resolving(h) /\ h.call = "host"
  BY DEF Frame, HostFrame, Callback, Resolving
<1>5. /\ stack' \in Seq(Frame) /\ Len(stack') = Len(stack) + 1 /\ stack'[1] = h /\ stack' # <<>>
      /\ \A k \in 1 .. Len(stack) : stack'[k + 1] = stack[k]
      /\ \A k \in 2 .. Len(stack) + 1 : stack'[k] = stack[k - 1]
  BY <1>1, <1>2, <1>4, PushFrame
<1>6. stack'[2] = s /\ 2 \in 1 .. Len(stack')
  BY <1>2, <1>5
<1>7. \A k \in 1 .. Len(stack') : \/ k = 1 /\ stack'[k] = h
                                  \/ k = 2 /\ stack'[k] = s
                                  \/ k > 2 /\ k - 1 \in 2 .. Len(stack) /\ stack'[k] = stack[k - 1]
  BY <1>2, <1>5, <1>6
<1>8. Types'
  BY <1>1, <1>5 DEF IInv, Types
<1>9. /\ \A k \in 1 .. Len(stack') : stack'[k].call = "link" => k = 2
      /\ \A k \in 1 .. Len(stack') : Resolving(stack'[k]) => k = 1
  BY <1>2, <1>4, <1>7 DEF Resolving
<1>10. Calling(imports, stack)'
  <2>1. ASSUME NEW k \in 1 .. Len(stack'), stack'[k].call = "evaluate", stack'[k].step = "imports", k > 1
        PROVE  /\ stack'[k].node <= Len(imports[stack'[k].module])
               /\ stack'[k - 1].call = "evaluate"
               /\ stack'[k - 1].module = imports[stack'[k].module][stack'[k].node]
    <3>1. k > 2 /\ k - 1 \in 2 .. Len(stack) /\ stack'[k] = stack[k - 1]
      BY <1>2, <1>7, <2>1
    <3>2. /\ stack[k - 1].node <= Len(imports[stack[k - 1].module])
          /\ stack[k - 1 - 1].call = "evaluate"
          /\ stack[k - 1 - 1].module = imports[stack[k - 1].module][stack[k - 1].node]
      BY <2>1, <3>1 DEF IInv, Calling
    <3>3. stack'[k - 1] = stack[k - 1 - 1]
      BY <1>2, <1>5, <3>1
    <3> QED BY <3>1, <3>2, <3>3
  <2>2. Len(stack') > 1
    BY <1>2, <1>5
  <2> QED BY <1>1, <1>2, <1>3, <1>4, <1>5, <1>6, <1>9, <2>1, <2>2 DEF Calling, Mod
<1>11. Evaluating(imports, state, stack)'
  <2>1. WellFormed(imports)
    BY GraphOf DEF IInv
  <2> PICK d \in {-1, 0, 1} : d = -1
    OBVIOUS
  <2>2. \A k \in 1 .. Len(stack') : stack'[k].call = "evaluate" =>
           k + d \in 1 .. Len(stack) /\ stack'[k] = stack[k + d]
    BY <1>2, <1>4, <1>7
  <2>3. \A k \in 1 .. Len(stack) : stack[k].call = "evaluate" =>
           k - d \in 1 .. Len(stack') /\ stack'[k - d] = stack[k]
    BY <1>2, <1>5
  <2>4. Evaluating(imports, state, stack)
    BY DEF IInv
  <2>5. SameEvaluations(stack, stack', d)
    BY <2>2, <2>3 DEF SameEvaluations, Active
  <2>6. OthersKept(state, state')
    BY <1>1 DEF OthersKept
  <2>7. Evaluating(imports, state', stack')
    BY <1>2, <1>5, <2>1, <2>4, <2>5, <2>6, EvaluationsKept
  <2> QED BY <1>1, <2>7
<1>12. Closing' = {}
  <2>1. ~Calls("link")'
    BY <1>4, <1>5 DEF Calls, Top
  <2>2. Framed'
    BY <1>1, <1>2, <1>6, <1>8, <1>9, <1>10 DEF Framed
  <2> QED BY <2>1, <2>2, ClosingFramedPrime DEF ClosingTold
<1>13. Finished' = Finished
  BY <1>1, <1>2, <1>12 DEF Finished, LinkedStates
<1>14. Linking'
  <2>1. Searching(s, imports', state', ancestor', scope', names', bound', Finished')
    BY <1>1, <1>2, <1>13
  <2>2. \A k \in 1 .. Len(stack') : stack'[k].call = "link" =>
          Searching(stack'[k], imports', state', ancestor', scope', names', bound', Finished')
    BY <1>6, <1>9, <2>1
  <2>3. \A m \in Module : state'[m] = "linking" =>
          \E k \in 1 .. Len(stack') : /\ stack'[k].call = "link"
                                      /\ \E i \in 1 .. Len(stack'[k].items) : m = Mod(stack'[k], i)
    BY <1>1, <1>2, <1>6
  <2> QED BY <2>2, <2>3 DEF Linking
<1>15. Ready'
  BY <1>1, <1>13, ReadyKept
<1>16. Spoiled'
  <2>1. ~At("link", "connect")
    BY <1>1 DEF At
  <2>2. \A m \in Module : /\ state[m] = "error" => state'[m] = "error" /\ scope'[m] = scope[m]
                          /\ state'[m] \in {"unlinked", "linking"} => state[m] \in {"unlinked", "linking"}
                          /\ m \in Closing /\ state'[m] \in {"unlinked", "linking"} => m \in Closing'
    BY <1>1, <1>2
  <2> QED BY <1>1, <2>1, <2>2, SpoiledKept
<1> QED BY <1>8, <1>10, <1>11, <1>14, <1>15, <1>16 DEF IInv

\* What is known while the host resolves an import.
LEMMA InCallback ==
  ASSUME IInv, Calls("host"), Top.place = "resolve", NEW s, s = stack[2]
  PROVE  /\ stack \in Seq(Frame) /\ Len(stack) \in Nat /\ Len(stack) > 1 /\ Resolving(stack[1])
         /\ s \in LinkFrame /\ s.step = "resolve" /\ s.request <= Len(imports[Mod(s, s.current)])
         /\ Searching(s, imports, state, ancestor, scope, names, bound, Finished)
         /\ Finished = {m \in Module : state[m] \in LinkedStates} /\ Closing = {}
         /\ \A m \in Module : state[m] = "linking" => \E i \in 1 .. Len(s.items) : m = Mod(s, i)
         /\ \A k \in 1 .. Len(stack) : stack[k].call = "link" => k = 2
         /\ \A k \in 1 .. Len(stack) : Resolving(stack[k]) => k = 1
<1>1. /\ stack \in Seq(Frame) /\ stack # <<>> /\ Top = stack[1] /\ Len(stack) \in Nat \ {0}
      /\ 1 \in 1 .. Len(stack) /\ Top.call = "host"
  BY TopFrame DEF IInv, Types, Calls
<1>2. Resolving(stack[1])
  BY <1>1 DEF Resolving
<1>3. /\ Len(stack) > 1 /\ s.call = "link" /\ s.step = "resolve"
      /\ s.request <= Len(imports[Mod(s, s.current)])
      /\ \A k \in 1 .. Len(stack) : stack[k].call = "link" => k = 1 \/ k = 2
      /\ \A k \in 1 .. Len(stack) : Resolving(stack[k]) => k = 1
  BY <1>1, <1>2 DEF IInv, Calling, Mod
<1>4. \A k \in 1 .. Len(stack) : stack[k].call = "link" => k = 2
  BY <1>1, <1>3
<1>5. 2 \in 1 .. Len(stack)
  BY <1>1, <1>3
<1>6. s \in LinkFrame
  BY <1>1, <1>3, <1>5, ElementOfSeq, FrameKinds
<1>7. Searching(s, imports, state, ancestor, scope, names, bound, Finished)
  BY <1>3, <1>5 DEF IInv, Linking
<1>8. \A m \in Module : state[m] = "linking" => \E i \in 1 .. Len(s.items) : m = Mod(s, i)
  BY <1>4 DEF IInv, Linking
<1>9. Closing = {}
  <2>1. Framed
    BY <1>3, <1>4 DEF Framed, IInv
  <2> QED BY <1>1, <2>1, ClosingFramed DEF ClosingTold, Calls
<1>10. Finished = {m \in Module : state[m] \in LinkedStates}
  BY <1>9 DEF Finished, LinkedStates
<1> QED BY <1>1, <1>2, <1>3, <1>4, <1>6, <1>7, <1>8, <1>9, <1>10

\* The frame on top is gone, and the one below has become f.
Resumed(frames, frames2, f) == frames2 = <<f>> \o Tail(Tail(frames))

\* The search goes on when the callback has returned.
LEMMA SearchGoesOn ==
  ASSUME IInv, Calls("host"), Top.place = "resolve", NEW s, s = stack[2],
         NEW f \in LinkFrame, f.items = s.items, f.step \in {"resolve", "error"},
         Resumed(stack, stack', f),
         UNCHANGED <<imports, state, ancestor, scope, names, bound, code>>,
         resolved' \in [Module -> Nat], \A m \in Module : resolved'[m] <= Len(imports[m]),
         Searching(f, imports, state, ancestor, scope, names, bound, Finished)
  PROVE  IInv'
<1>1. /\ stack \in Seq(Frame) /\ Len(stack) \in Nat /\ Len(stack) > 1 /\ Resolving(stack[1])
      /\ s \in LinkFrame
      /\ Finished = {m \in Module : state[m] \in LinkedStates} /\ Closing = {}
      /\ \A m \in Module : state[m] = "linking" => \E i \in 1 .. Len(s.items) : m = Mod(s, i)
      /\ \A k \in 1 .. Len(stack) : stack[k].call = "link" => k = 2
      /\ \A k \in 1 .. Len(stack) : Resolving(stack[k]) => k = 1
  BY InCallback
<1>2. f \in Frame /\ f.call = "link" /\ s.call = "link"
  BY <1>1 DEF Frame, LinkFrame
<1>3. /\ stack' \in Seq(Frame) /\ Len(stack') = Len(stack) - 1 /\ stack'[1] = f /\ stack' # <<>>
      /\ \A k \in 2 .. Len(stack) - 1 : stack'[k] = stack[k + 1]
  BY <1>1, <1>2, ReplaceTwo DEF Resumed
<1>4. \A k \in 1 .. Len(stack') : \/ k = 1 /\ stack'[k] = f
                                  \/ k > 1 /\ k + 1 \in 3 .. Len(stack) /\ stack'[k] = stack[k + 1]
  BY <1>1, <1>3
<1>5. /\ \A k \in 1 .. Len(stack') : stack'[k].call = "link" => k = 1
      /\ \A k \in 1 .. Len(stack') : ~Resolving(stack'[k])
  BY <1>1, <1>2, <1>4 DEF Resolving
<1>6. Types'
  BY <1>3 DEF IInv, Types
<1>7. Calling(imports, stack)'
  <2>1. ASSUME NEW k \in 1 .. Len(stack'), stack'[k].call = "evaluate", stack'[k].step = "imports", k > 1
        PROVE  /\ stack'[k].node <= Len(imports[stack'[k].module])
               /\ stack'[k - 1].call = "evaluate"
               /\ stack'[k - 1].module = imports[stack'[k].module][stack'[k].node]
    <3>1. /\ k + 1 \in 3 .. Len(stack) /\ stack'[k] = stack[k + 1] /\ (k + 1) - 1 = k
          /\ k + 1 \in 1 .. Len(stack) /\ k + 1 > 1
      BY <1>1, <1>4, <2>1
    <3>2. /\ stack[k + 1].node <= Len(imports[stack[k + 1].module])
          /\ stack[k].call = "evaluate"
          /\ stack[k].module = imports[stack[k + 1].module][stack[k + 1].node]
      BY <1>1, <2>1, <3>1 DEF IInv, Calling
    <3>3. k # 2
      BY <1>2, <3>2
    <3>4. stack'[k - 1] = stack[k]
      BY <1>1, <1>3, <2>1, <3>3
    <3> QED BY <3>1, <3>2, <3>4
  <2> QED BY <1>5, <2>1 DEF Calling
<1>8. Evaluating(imports, state, stack)'
  <2>1. WellFormed(imports)
    BY GraphOf DEF IInv
  <2> PICK d \in {-1, 0, 1} : d = 1
    OBVIOUS
  <2>2. \A k \in 1 .. Len(stack') : stack'[k].call = "evaluate" =>
           k + d \in 1 .. Len(stack) /\ stack'[k] = stack[k + d]
    BY <1>1, <1>2, <1>4
  <2>3. \A k \in 1 .. Len(stack) : stack[k].call = "evaluate" =>
           k - d \in 1 .. Len(stack') /\ stack'[k - d] = stack[k]
    <3> SUFFICES ASSUME NEW k \in 1 .. Len(stack), stack[k].call = "evaluate"
                 PROVE  k - 1 \in 1 .. Len(stack') /\ stack'[k - 1] = stack[k]
      OBVIOUS
    <3>1. k # 1 /\ k # 2
      BY <1>1, <1>2 DEF Resolving
    <3>2. k - 1 \in 2 .. Len(stack) - 1 /\ (k - 1) + 1 = k
      BY <1>1, <3>1
    <3> QED BY <1>3, <3>2
  <2>4. Evaluating(imports, state, stack)
    BY DEF IInv
  <2>5. SameEvaluations(stack, stack', d)
    BY <2>2, <2>3 DEF SameEvaluations, Active
  <2>6. OthersKept(state, state')
    BY DEF OthersKept
  <2>7. Evaluating(imports, state', stack')
    BY <1>1, <1>3, <2>1, <2>4, <2>5, <2>6, EvaluationsKept
  <2> QED BY <2>7
<1>9. Calls("link")' /\ Top' = f /\ 1 \in 1 .. Len(stack')
  BY <1>1, <1>2, <1>3 DEF Calls, Top
<1>10. Closing' = {}
  <2>1. Framed'
    BY <1>3, <1>5, <1>6, <1>7 DEF Framed
  <2> QED BY <1>9, <2>1, ClosingFramedPrime DEF ClosingTold, ClosingOf
<1>11. Finished' = Finished
  BY <1>1, <1>10 DEF Finished, LinkedStates
<1>12. Linking'
  <2>1. \A i : Mod(f, i) = Mod(s, i)
    BY DEF Mod
  <2> QED BY <1>1, <1>2, <1>3, <1>5, <1>9, <1>11, <2>1, SearchLinks
<1>13. Ready'
  BY <1>11, ReadyKept
<1>14. Spoiled'
  <2>1. ~At("link", "connect")
    BY DEF At, Calls
  <2>2. \A m \in Module : /\ state[m] = "error" => state'[m] = "error" /\ scope'[m] = scope[m]
                          /\ state'[m] \in {"unlinked", "linking"} => state[m] \in {"unlinked", "linking"}
                          /\ m \in Closing /\ state'[m] \in {"unlinked", "linking"} => m \in Closing'
    BY <1>1
  <2> QED BY <2>1, <2>2, SpoiledKept
<1> QED BY <1>6, <1>7, <1>8, <1>12, <1>13, <1>14 DEF IInv

LEMMA HostResolvesPreserves == ASSUME IInv, HostResolves PROVE IInv'
<1> PICK s : s = stack[2]
  OBVIOUS
<1> PICK f : f = TakeModule(s)
  OBVIOUS
<1>1. /\ Calls("host") /\ Top.place = "resolve"
      /\ resolved' = [resolved EXCEPT ![s.items[s.current].module] = s.request]
      /\ stack' = <<f>> \o Tail(Tail(stack))
      /\ UNCHANGED <<imports, state, ancestor, scope, names, bound, code>>
  BY DEF HostResolves
<1>2. /\ s \in LinkFrame /\ s.step = "resolve" /\ s.request <= Len(imports[Mod(s, s.current)])
      /\ Searching(s, imports, state, ancestor, scope, names, bound, Finished)
  BY <1>1, InCallback
<1>3. WellFormed(imports)
  BY GraphOf DEF IInv
<1>4. /\ f \in LinkFrame /\ f.items = s.items /\ f.step \in {"resolve", "error"}
      /\ Searching(f, imports, state, ancestor, scope, names, bound, Finished)
  BY <1>2, <1>3, Takes
<1>5. resolved' \in [Module -> Nat] /\ \A m \in Module : resolved'[m] <= Len(imports[m])
  <2>1. resolved' = [resolved EXCEPT ![Mod(s, s.current)] = s.request]
    BY <1>1 DEF Mod
  <2>2. resolved \in [Module -> Nat] /\ \A m \in Module : resolved[m] <= Len(imports[m])
    BY DEF IInv, Types
  <2>3. s.request \in Nat
    BY <1>2, SearchFields
  <2> QED BY <1>2, <2>1, <2>2, <2>3
<1> QED BY <1>1, <1>4, <1>5, SearchGoesOn DEF Resumed

LEMMA HostRefusesPreserves == ASSUME IInv, HostRefuses PROVE IInv'
<1> PICK s : s = stack[2]
  OBVIOUS
<1> PICK f : f = [s EXCEPT !.step = "error"]
  OBVIOUS
<1>1. /\ Calls("host") /\ Top.place = "resolve"
      /\ stack' = <<f>> \o Tail(Tail(stack))
      /\ UNCHANGED <<imports, resolved, state, ancestor, scope, names, bound, code>>
  BY DEF HostRefuses, linkage
<1>2. /\ s \in LinkFrame /\ s.step = "resolve"
      /\ Searching(s, imports, state, ancestor, scope, names, bound, Finished)
  BY <1>1, InCallback
<1>3. f \in LinkFrame /\ f.items = s.items /\ f.step = "error"
  BY <1>2 DEF LinkFrame, LinkStep
<1>4. Searching(f, imports, state, ancestor, scope, names, bound, Finished)
  <2>1. Items(s, imports, state)
    BY <1>2, CurrentItem
  <2>2. \A i \in 1 .. Len(s.items) : state[Mod(s, i)] = "linking"
    BY <2>1 DEF Items
  <2>3. \A i : Mod(f, i) = Mod(s, i)
    BY <1>3 DEF Mod
  <2> QED BY <1>3, <2>2, <2>3 DEF Searching
<1>5. resolved \in [Module -> Nat] /\ \A m \in Module : resolved[m] <= Len(imports[m])
  BY DEF IInv, Types
<1> QED BY <1>1, <1>3, <1>4, <1>5, SearchGoesOn DEF Resumed

-----------------------------------------------------------------------------
(* Outside of a search.                                                    *)

\* Where no search is in progress.
LEMMA NoSearch ==
  ASSUME IInv, ~Calls("link"), stack # <<>> => ~Resolving(Top)
  PROVE  /\ \A k \in 1 .. Len(stack) : stack[k].call # "link"
         /\ Finished = {m \in Module : state[m] \in LinkedStates} /\ Closing = {}
         /\ \A m \in Module : state[m] # "linking"
<1>1. stack \in Seq(Frame) /\ Len(stack) \in Nat /\ (stack # <<>> => Top = stack[1])
  BY TopFrame, LenProperties DEF IInv, Types
<1>2. ASSUME NEW k \in 1 .. Len(stack) PROVE stack # <<>>
  BY <1>1, <1>2, EmptySeq
<1>3. \A k \in 1 .. Len(stack) : stack[k].call # "link"
  <2>1. \A k \in 1 .. Len(stack) : stack[k].call = "link" => k = 1 \/ (k = 2 /\ Resolving(stack[1]))
    BY DEF IInv, Calling
  <2> QED BY <1>1, <1>2, <2>1 DEF Calls
<1>4. Closing = {}
  <2>1. Framed
    BY <1>3 DEF Framed, IInv
  <2> QED BY <2>1, ClosingFramed DEF ClosingTold
<1>5. Finished = {m \in Module : state[m] \in LinkedStates}
  BY <1>4 DEF Finished, LinkedStates
<1>6. \A m \in Module : state[m] # "linking"
  BY <1>3 DEF IInv, Linking
<1> QED BY <1>3, <1>4, <1>5, <1>6

LEMMA HostReturnsPreserves == ASSUME IInv, HostReturns PROVE IInv'
<1>1. /\ Calls("host") /\ Top.place # "resolve" /\ stack' = Tail(stack)
      /\ UNCHANGED <<imports, resolved, state, ancestor, scope, names, bound, code>>
  BY DEF HostReturns, linkage
<1>2. stack \in Seq(Frame) /\ stack # <<>> /\ Top.call = "host" /\ ~Resolving(Top) /\ ~Calls("link")
  BY <1>1 DEF IInv, Types, Calls, Resolving
<1>3. /\ Finished = {m \in Module : state[m] \in LinkedStates} /\ Closing = {}
      /\ \A m \in Module : state[m] # "linking"
  BY <1>2, NoSearch
<1>4. Types'
  <2>1. stack' \in Seq(Frame)
    BY <1>1, <1>2, PopFrame
  <2> QED BY <1>1, <2>1 DEF IInv, Types
<1>5. SearchState
  BY <1>1 DEF SearchState, OthersKept
<1>6. /\ Calling(imports, stack)' /\ Evaluating(imports, state, stack)' /\ Closing' = {}
      /\ \A k \in 1 .. Len(stack') : stack'[k].call # "link"
  BY <1>1, <1>2, <1>4, <1>5, CallReturns
<1>7. Finished' = Finished
  BY <1>1, <1>3, <1>6 DEF Finished, LinkedStates
<1>8. Linking'
  BY <1>1, <1>3, <1>6 DEF Linking
<1>9. Ready'
  BY <1>1, <1>7, ReadyKept
<1>10. Spoiled'
  <2>1. ~At("link", "connect")
    BY <1>2 DEF At
  <2>2. \A m \in Module : /\ state[m] = "error" => state'[m] = "error" /\ scope'[m] = scope[m]
                          /\ state'[m] \in {"unlinked", "linking"} => state[m] \in {"unlinked", "linking"}
                          /\ m \in Closing /\ state'[m] \in {"unlinked", "linking"} => m \in Closing'
    BY <1>1, <1>3
  <2> QED BY <1>1, <2>1, <2>2, SpoiledKept
<1> QED BY <1>4, <1>6, <1>8, <1>9, <1>10 DEF IInv

\* No search is in progress, and no callback that belongs to one.
Outside(s) == \A k \in 1 .. Len(s) : s[k].call # "link" /\ ~Resolving(s[k])

\* The calls in progress fit together.
Stacked(g, st, s) == s \in Seq(Frame) /\ Calling(g, s) /\ Evaluating(g, st, s)

\* The evaluation on top waits for an import.
Waits(s) == s # <<>> /\ s[1].call = "evaluate" /\ s[1].step = "imports"

\* Frame k waits for the evaluation of an import, which is the frame on it.
Importer(g, s, k) == /\ s[k].node <= Len(g[s[k].module]) /\ s[k - 1].call = "evaluate"
                     /\ s[k - 1].module = g[s[k].module][s[k].node]

LEMMA OutsideCalling ==
  ASSUME NEW g, NEW s, Outside(s)
  PROVE  Calling(g, s) <=> \A k \in 1 .. Len(s) :
            s[k].call = "evaluate" /\ s[k].step = "imports" /\ k > 1 => Importer(g, s, k)
BY DEF Calling, Outside, Importer

\* The frame h is put on the stack.
Pushed(s, t, h) == t = <<h>> \o s

\* A call that is no evaluation begins.
LEMMA CallPushed ==
  ASSUME NEW g, WellFormed(g), NEW st, NEW st2, OthersKept(st, st2), NEW s, Stacked(g, st, s), Outside(s),
         ~Waits(s), NEW h \in Frame, h.call # "evaluate", ~Resolving(h), NEW t, Pushed(s, t, h)
  PROVE  /\ Stacked(g, st2, t) /\ Len(t) \in Nat \ {0} /\ t[1] = h
         /\ \A k \in 2 .. Len(t) : t[k].call # "link" /\ ~Resolving(t[k])
         /\ h.call # "link" => Outside(t)
<1>1. s \in Seq(Frame) /\ Len(s) \in Nat /\ Calling(g, s) /\ Evaluating(g, st, s)
  BY LenProperties DEF Stacked
<1>2. /\ t \in Seq(Frame) /\ Len(t) = Len(s) + 1 /\ t[1] = h
      /\ \A k \in 1 .. Len(s) : t[k + 1] = s[k]
      /\ \A k \in 2 .. Len(s) + 1 : t[k] = s[k - 1]
  BY <1>1, PushFrame DEF Pushed
<1>3. \A k \in 2 .. Len(t) : k - 1 \in 1 .. Len(s) /\ t[k] = s[k - 1]
  BY <1>1, <1>2
<1>4. \A k \in 2 .. Len(t) : t[k].call # "link" /\ ~Resolving(t[k])
  BY <1>3 DEF Outside
<1>5. \A k \in 1 .. Len(t) : k = 1 \/ k \in 2 .. Len(t)
  BY <1>1, <1>2
<1>6. ASSUME NEW k \in 1 .. Len(t), t[k].call = "evaluate", t[k].step = "imports", k > 1
      PROVE  Importer(g, t, k)
  <2>1. k - 1 \in 1 .. Len(s) /\ t[k] = s[k - 1]
    BY <1>3, <1>5, <1>6
  <2>2. k - 1 # 1
    <3>1. s # <<>>
      BY <1>1, <2>1, EmptySeq
    <3> QED BY <1>6, <2>1, <3>1 DEF Waits
  <2>3. k - 1 > 1 /\ k - 2 \in 1 .. Len(s) /\ (k - 1) - 1 = k - 2 /\ k - 1 \in 2 .. Len(t) /\ (k - 2) + 1 = k - 1
    BY <1>1, <1>2, <2>1, <2>2
  <2>4. Importer(g, s, k - 1)
    BY <1>1, <1>6, <2>1, <2>3, OutsideCalling
  <2>5. t[k - 1] = s[k - 2]
    BY <1>2, <2>3
  <2> QED BY <2>1, <2>3, <2>4, <2>5 DEF Importer
<1>7. Calling(g, t)
  <2>1. /\ t[1].call # "evaluate" /\ ~Resolving(t[1])
        /\ \A k \in 1 .. Len(t) : t[k].call = "link" => k = 1
    BY <1>2, <1>4, <1>5
  <2>2. \A k \in 1 .. Len(t) : ~Resolving(t[k])
    BY <1>4, <1>5, <2>1
  <2> QED BY <1>6, <2>1, <2>2 DEF Calling, Importer
<1>8. Evaluating(g, st2, t)
  <2> PICK d \in {-1, 0, 1} : d = -1
    OBVIOUS
  <2>1. \A k \in 1 .. Len(t) : t[k].call = "evaluate" => k + d \in 1 .. Len(s) /\ t[k] = s[k + d]
    <3>1. \A k \in 1 .. Len(t) : t[k].call = "evaluate" => k - 1 \in 1 .. Len(s) /\ t[k] = s[k - 1]
      BY <1>2, <1>3, <1>5
    <3> QED BY <3>1
  <2>2. \A k \in 1 .. Len(s) : Active(s[k]) => k - d \in 1 .. Len(t) /\ t[k - d] = s[k]
    BY <1>1, <1>2
  <2>3. SameEvaluations(s, t, d)
    BY <2>1, <2>2 DEF SameEvaluations
  <2> QED BY <1>1, <1>2, <2>3, EvaluationsKept
<1>9. h.call # "link" => Outside(t)
  BY <1>2, <1>4, <1>5 DEF Outside
<1> QED BY <1>1, <1>2, <1>4, <1>7, <1>8, <1>9 DEF Stacked

\* A call that is over leaves the stack.
LEMMA CallPopped ==
  ASSUME NEW g, WellFormed(g), NEW st, NEW s, Stacked(g, st, s), Outside(s), s # <<>>, ~Active(s[1]),
         NEW t, t = Tail(s)
  PROVE  Stacked(g, st, t) /\ Outside(t)
<1>1. s \in Seq(Frame) /\ Len(s) \in Nat /\ Calling(g, s) /\ Evaluating(g, st, s)
  BY LenProperties DEF Stacked
<1>2. /\ t \in Seq(Frame) /\ Len(s) \in Nat \ {0} /\ Len(t) = Len(s) - 1
      /\ \A k \in 1 .. Len(s) - 1 : t[k] = s[k + 1]
      /\ \A k \in 2 .. Len(s) : t[k - 1] = s[k]
  BY <1>1, PopFrame
<1>3. \A k \in 1 .. Len(t) : k + 1 \in 1 .. Len(s) /\ k + 1 > 1 /\ t[k] = s[k + 1]
  BY <1>2
<1>4. Outside(t)
  BY <1>3 DEF Outside
<1>5. ASSUME NEW k \in 1 .. Len(t), t[k].call = "evaluate", t[k].step = "imports", k > 1
      PROVE  Importer(g, t, k)
  <2>1. k + 1 \in 1 .. Len(s) /\ k + 1 > 1 /\ t[k] = s[k + 1] /\ (k + 1) - 1 = k
    BY <1>3, <1>5
  <2>2. Importer(g, s, k + 1)
    BY <1>1, <1>5, <2>1, OutsideCalling
  <2>3. t[k - 1] = s[k]
    BY <1>2, <1>5
  <2> QED BY <2>1, <2>2, <2>3 DEF Importer
<1>6. Calling(g, t)
  BY <1>4, <1>5, OutsideCalling
<1>7. Evaluating(g, st, t)
  <2> PICK d \in {-1, 0, 1} : d = 1
    OBVIOUS
  <2>1. \A k \in 1 .. Len(t) : t[k].call = "evaluate" => k + d \in 1 .. Len(s) /\ t[k] = s[k + d]
    BY <1>3
  <2>2. \A k \in 1 .. Len(s) : Active(s[k]) => k - d \in 1 .. Len(t) /\ t[k - d] = s[k]
    <3> SUFFICES ASSUME NEW k \in 1 .. Len(s), Active(s[k])
                 PROVE  k - 1 \in 1 .. Len(t) /\ t[k - 1] = s[k]
      OBVIOUS
    <3>1. k # 1
      OBVIOUS
    <3>2. k \in 2 .. Len(s) /\ k - 1 \in 1 .. Len(s) - 1
      BY <1>2, <3>1
    <3> QED BY <1>2, <3>2
  <2>3. SameEvaluations(s, t, d)
    BY <2>1, <2>2 DEF SameEvaluations
  <2>4. OthersKept(st, st)
    BY DEF OthersKept
  <2> QED BY <1>1, <1>2, <2>3, <2>4, EvaluationsKept
<1> QED BY <1>2, <1>4, <1>6, <1>7 DEF Stacked

\* What is known of the evaluations in progress.
LEMMA InEvaluation ==
  ASSUME NEW g, NEW st, NEW s, Stacked(g, st, s), NEW k \in 1 .. Len(s), s[k].call = "evaluate"
  PROVE  /\ s[k] \in EvaluateFrame /\ s[k].module \in Module /\ s[k].node \in 1 .. Len(g[s[k].module]) + 1
         /\ Active(s[k]) => st[s[k].module] = "evaluating"
         /\ ~Active(s[k]) => st[s[k].module] = s[k].step /\ s[k].step \in {"evaluated", "error"}
         /\ s[k].step = "body" => s[k].node > Len(g[s[k].module])
<1>1. s[k] \in EvaluateFrame
  BY ElementOfSeq, FrameKinds DEF Stacked
<1>2. s[k].module \in Module /\ s[k].step \in EvaluateStep
  BY <1>1 DEF EvaluateFrame
<1>3. /\ s[k].node \in 1 .. Len(g[s[k].module]) + 1
      /\ Active(s[k]) => st[s[k].module] = "evaluating"
      /\ ~Active(s[k]) => st[s[k].module] = s[k].step
      /\ s[k].step = "body" => s[k].node > Len(g[s[k].module])
  BY DEF Stacked, Evaluating
<1>4. ~Active(s[k]) => s[k].step \in {"evaluated", "error"}
  BY <1>2 DEF Active, EvaluateStep
<1> QED BY <1>1, <1>2, <1>3, <1>4

\* The frame on top becomes h.
Topped(s, t, h) == t = <<h>> \o Tail(s)

\* The frame on top stays one of the same module.
LEMMA TopReplaced ==
  ASSUME NEW g, NEW st, NEW s, Stacked(g, st, s), Outside(s), s # <<>>, s[1].call = "evaluate",
         NEW h \in EvaluateFrame, h.module = s[1].module, NEW t, Topped(s, t, h)
  PROVE  /\ t \in Seq(Frame) /\ Len(t) = Len(s) /\ Len(s) \in Nat \ {0} /\ t[1] = h
         /\ \A k \in 2 .. Len(s) : t[k] = s[k]
         /\ Outside(t) /\ Calling(g, t) /\ h.call = "evaluate"
<1>1. s \in Seq(Frame) /\ Calling(g, s) /\ h \in Frame /\ h.call = "evaluate"
  BY DEF Stacked, Frame, EvaluateFrame
<1>2. /\ t \in Seq(Frame) /\ Len(t) = Len(s) /\ Len(s) \in Nat \ {0} /\ t[1] = h
      /\ \A k \in 2 .. Len(s) : t[k] = s[k]
  BY <1>1, ReplaceFrame DEF Topped
<1>3. Outside(t)
  <2>1. ~Resolving(h)
    BY <1>1 DEF Resolving
  <2>2. \A k \in 1 .. Len(t) : k = 1 \/ k \in 2 .. Len(s)
    BY <1>2
  <2> QED BY <1>1, <1>2, <2>1, <2>2 DEF Outside
<1>4. ASSUME NEW k \in 1 .. Len(t), t[k].call = "evaluate", t[k].step = "imports", k > 1
      PROVE  Importer(g, t, k)
  <2>1. k \in 2 .. Len(s) /\ t[k] = s[k] /\ k \in 1 .. Len(s)
    BY <1>2, <1>4
  <2>2. Importer(g, s, k)
    BY <1>1, <1>4, <2>1, OutsideCalling
  <2>3. t[k - 1].call = "evaluate" /\ t[k - 1].module = s[k - 1].module
    <3>1. CASE k = 2
      BY <1>1, <1>2, <3>1
    <3>2. CASE k # 2
      <4>1. k - 1 \in 2 .. Len(s)
        BY <1>2, <2>1, <3>2
      <4> QED BY <1>2, <2>2, <4>1 DEF Importer
    <3> QED BY <3>1, <3>2
  <2> QED BY <2>1, <2>2, <2>3 DEF Importer
<1>5. Calling(g, t)
  BY <1>3, <1>4, OutsideCalling
<1> QED BY <1>1, <1>2, <1>3, <1>5

\* The evaluation on top goes on to the next import, or to the body.
LEMMA EvaluationGoesOn ==
  ASSUME NEW g, WellFormed(g), NEW st, NEW s, Stacked(g, st, s), Outside(s), s # <<>>, Active(s[1]),
         NEW h \in EvaluateFrame, h.module = s[1].module, Active(h),
         h.node <= Len(g[h.module]) + 1, h.step = "body" => h.node > Len(g[h.module]),
         \/ h.node = s[1].node
         \/ /\ h.node = s[1].node + 1
            /\ st[g[h.module][s[1].node]] \in {"evaluating", "evaluated"},
         NEW t, Topped(s, t, h)
  PROVE  Stacked(g, st, t) /\ Outside(t)
<1>1. s \in Seq(Frame) /\ s[1].call = "evaluate" /\ Evaluating(g, st, s)
  BY DEF Stacked, Active
<1>2. /\ t \in Seq(Frame) /\ Len(t) = Len(s) /\ Len(s) \in Nat \ {0} /\ t[1] = h
      /\ \A k \in 2 .. Len(s) : t[k] = s[k]
      /\ Outside(t) /\ Calling(g, t) /\ h.call = "evaluate"
  BY <1>1, TopReplaced
<1>3. 1 \in 1 .. Len(s) /\ \A k \in 1 .. Len(s) : k # 1 => k \in 2 .. Len(s)
  BY <1>2
<1>4. h.module \in Module /\ st[h.module] = "evaluating" /\ s[1].node \in Nat \ {0} /\ h.node \in Nat \ {0}
  <2>1. s[1].module \in Module /\ st[s[1].module] = "evaluating" /\ s[1].node \in 1 .. Len(g[s[1].module]) + 1
    BY <1>1, <1>3, InEvaluation
  <2>2. Len(g[s[1].module]) \in Nat
    BY <2>1 DEF WellFormed
  <2> QED BY <2>1, <2>2
<1>5. \A k \in 1 .. Len(t) : /\ t[k].module = s[k].module /\ Active(t[k]) <=> Active(s[k])
                             /\ k # 1 => t[k] = s[k]
  BY <1>2, <1>3
<1>6. ASSUME NEW k \in 1 .. Len(t), t[k].call = "evaluate"
      PROVE  /\ t[k].node \in 1 .. Len(g[t[k].module]) + 1
             /\ Active(t[k]) => st[t[k].module] = "evaluating"
             /\ ~Active(t[k]) => st[t[k].module] = t[k].step
             /\ t[k].step = "body" => t[k].node > Len(g[t[k].module])
  <2>1. CASE k = 1
    <3>1. Len(g[h.module]) \in Nat
      BY <1>4 DEF WellFormed
    <3> QED BY <1>2, <1>4, <2>1, <3>1
  <2>2. CASE k # 1
    BY <1>2, <1>5, <1>6, <2>2, InEvaluation
  <2> QED BY <2>1, <2>2
<1>7. ASSUME NEW k \in 1 .. Len(t), Active(t[k]), NEW j \in 1 .. t[k].node - 1
      PROVE  \/ st[g[t[k].module][j]] = "evaluated"
             \/ \E l \in k .. Len(t) : Active(t[l]) /\ t[l].module = g[t[k].module][j]
  <2>1. k \in 1 .. Len(s) /\ Active(s[k]) /\ s[k].module = t[k].module
    BY <1>2, <1>5, <1>7
  <2>2. CASE j \in 1 .. s[k].node - 1
    <3>1. \/ st[g[s[k].module][j]] = "evaluated"
          \/ \E l \in k .. Len(s) : Active(s[l]) /\ s[l].module = g[s[k].module][j]
      BY <1>1, <2>1, <2>2 DEF Evaluating
    <3>2. \A l \in k .. Len(s) : l \in 1 .. Len(t)
      BY <1>2, <2>1
    <3> QED BY <1>2, <1>5, <2>1, <3>1, <3>2
  <2>3. CASE j \notin 1 .. s[k].node - 1
    <3>1. k = 1
      BY <1>5, <1>7, <2>3
    <3>2. t[k] = h /\ j \in 1 .. h.node - 1
      BY <1>2, <1>7, <3>1
    <3>3. j = s[1].node /\ h.node = s[1].node + 1
      BY <1>4, <2>3, <3>1, <3>2
    <3>4. st[g[h.module][j]] \in {"evaluating", "evaluated"}
      BY <1>4, <3>3
    <3>5. g[h.module][j] \in Module
      <4>1. j \in 1 .. Len(g[h.module])
        <5>1. Len(g[h.module]) \in Nat
          BY <1>4 DEF WellFormed
        <5> QED BY <1>4, <3>3, <5>1
      <4> QED BY <1>4, <4>1 DEF WellFormed
    <3>6. CASE st[g[h.module][j]] = "evaluating"
      <4>1. PICK l \in 1 .. Len(s) : Active(s[l]) /\ s[l].module = g[h.module][j]
        BY <1>1, <3>5, <3>6 DEF Evaluating
      <4>2. l \in k .. Len(t)
        BY <1>2, <3>1
      <4> QED BY <1>2, <1>5, <3>2, <4>1, <4>2
    <3> QED BY <3>2, <3>4, <3>6
  <2> QED BY <2>2, <2>3
<1>8. \A k, l \in 1 .. Len(t) : Active(t[k]) /\ Active(t[l]) /\ t[k].module = t[l].module => k = l
  BY <1>1, <1>2, <1>5 DEF Evaluating
<1>9. \A m \in Module : st[m] = "evaluating" => \E k \in 1 .. Len(t) : Active(t[k]) /\ t[k].module = m
  <2> SUFFICES ASSUME NEW m \in Module, st[m] = "evaluating"
               PROVE  \E k \in 1 .. Len(t) : Active(t[k]) /\ t[k].module = m
    OBVIOUS
  <2>1. PICK k \in 1 .. Len(s) : Active(s[k]) /\ s[k].module = m
    BY <1>1 DEF Evaluating
  <2> QED BY <1>2, <1>5, <2>1
<1>10. Evaluating(g, st, t)
  BY <1>6, <1>7, <1>8, <1>9 DEF Evaluating
<1> QED BY <1>2, <1>10 DEF Stacked

\* The evaluation on top has succeeded or failed.
LEMMA EvaluationEnds ==
  ASSUME NEW g, WellFormed(g), NEW st \in [Module -> ModuleState], NEW s, Stacked(g, st, s), Outside(s),
         s # <<>>, Active(s[1]),
         NEW h \in EvaluateFrame, h.module = s[1].module, h.node = s[1].node, h.step \in {"evaluated", "error"},
         NEW st2, st2 = [st EXCEPT ![h.module] = h.step],
         NEW t, Topped(s, t, h)
  PROVE  Stacked(g, st2, t) /\ Outside(t)
<1>1. s \in Seq(Frame) /\ s[1].call = "evaluate" /\ Evaluating(g, st, s)
  BY DEF Stacked, Active
<1>2. /\ t \in Seq(Frame) /\ Len(t) = Len(s) /\ Len(s) \in Nat \ {0} /\ t[1] = h
      /\ \A k \in 2 .. Len(s) : t[k] = s[k]
      /\ Outside(t) /\ Calling(g, t) /\ h.call = "evaluate"
  BY <1>1, TopReplaced
<1>3. 1 \in 1 .. Len(s) /\ \A k \in 1 .. Len(s) : k # 1 => k \in 2 .. Len(s)
  BY <1>2
<1>4. h.module \in Module /\ st[h.module] = "evaluating" /\ s[1].node \in 1 .. Len(g[h.module]) + 1
  BY <1>1, <1>3, InEvaluation
<1>5. /\ ~Active(h)
      /\ \A k \in 1 .. Len(t) : k # 1 => t[k] = s[k]
      /\ \A k \in 1 .. Len(t) : Active(t[k]) => k # 1 /\ Active(s[k])
  BY <1>2, <1>3 DEF Active
<1>6. /\ \A m \in Module : m # h.module => st2[m] = st[m]
      /\ st2[h.module] = h.step /\ h.step # "evaluating"
  BY <1>4
<1>7. \A k \in 1 .. Len(s) : Active(s[k]) /\ k # 1 => s[k].module # h.module
  BY <1>1, <1>3 DEF Evaluating
<1>8. ASSUME NEW k \in 1 .. Len(t), t[k].call = "evaluate"
      PROVE  /\ t[k].node \in 1 .. Len(g[t[k].module]) + 1
             /\ Active(t[k]) => st2[t[k].module] = "evaluating"
             /\ ~Active(t[k]) => st2[t[k].module] = t[k].step
             /\ t[k].step = "body" => t[k].node > Len(g[t[k].module])
  <2>1. CASE k = 1
    <3>1. h.step # "body"
      OBVIOUS
    <3> QED BY <1>2, <1>4, <1>5, <1>6, <2>1, <3>1
  <2>2. CASE k # 1
    <3>1. k \in 1 .. Len(s) /\ t[k] = s[k] /\ s[k].call = "evaluate"
      BY <1>2, <1>5, <1>8, <2>2
    <3>2. /\ s[k].module \in Module /\ s[k].node \in 1 .. Len(g[s[k].module]) + 1
          /\ Active(s[k]) => st[s[k].module] = "evaluating"
          /\ ~Active(s[k]) => st[s[k].module] = s[k].step /\ s[k].step \in {"evaluated", "error"}
          /\ s[k].step = "body" => s[k].node > Len(g[s[k].module])
      BY <3>1, InEvaluation
    <3>3. s[k].module # h.module
      BY <1>4, <1>7, <2>2, <3>1, <3>2
    <3> QED BY <1>6, <3>1, <3>2, <3>3
  <2> QED BY <2>1, <2>2
<1>9. \A k, l \in 1 .. Len(t) : Active(t[k]) /\ Active(t[l]) /\ t[k].module = t[l].module => k = l
  <2> SUFFICES ASSUME NEW k \in 1 .. Len(t), NEW l \in 1 .. Len(t), Active(t[k]), Active(t[l]),
                      t[k].module = t[l].module
               PROVE  k = l
    OBVIOUS
  <2>1. /\ k \in 1 .. Len(s) /\ l \in 1 .. Len(s) /\ Active(s[k]) /\ Active(s[l])
        /\ s[k].module = s[l].module
    BY <1>2, <1>5
  <2> QED BY <1>1, <2>1 DEF Evaluating
<1>10. \A m \in Module : st2[m] = "evaluating" => \E k \in 1 .. Len(t) : Active(t[k]) /\ t[k].module = m
  <2> SUFFICES ASSUME NEW m \in Module, st2[m] = "evaluating"
               PROVE  \E k \in 1 .. Len(t) : Active(t[k]) /\ t[k].module = m
    OBVIOUS
  <2>1. m # h.module /\ st[m] = "evaluating"
    BY <1>6
  <2>2. PICK k \in 1 .. Len(s) : Active(s[k]) /\ s[k].module = m
    BY <1>1, <2>1 DEF Evaluating
  <2>3. k # 1
    BY <2>1, <2>2
  <2> QED BY <1>2, <1>5, <2>2, <2>3
<1>11. ASSUME NEW k \in 1 .. Len(t), Active(t[k]), NEW j \in 1 .. t[k].node - 1
       PROVE  \/ st2[g[t[k].module][j]] = "evaluated"
              \/ \E l \in k .. Len(t) : Active(t[l]) /\ t[l].module = g[t[k].module][j]
  <2>1. k \in 1 .. Len(s) /\ k # 1 /\ Active(s[k]) /\ t[k] = s[k] /\ j \in 1 .. s[k].node - 1
    BY <1>2, <1>5, <1>11
  <2>2. \/ st[g[s[k].module][j]] = "evaluated"
        \/ \E l \in k .. Len(s) : Active(s[l]) /\ s[l].module = g[s[k].module][j]
    BY <1>1, <2>1 DEF Evaluating
  <2>3. g[s[k].module][j] \in Module
    <3>1. s[k].module \in Module /\ s[k].node \in 1 .. Len(g[s[k].module]) + 1
      BY <2>1, InEvaluation DEF Active
    <3>2. Len(g[s[k].module]) \in Nat
      BY <3>1 DEF WellFormed
    <3>3. j \in 1 .. Len(g[s[k].module])
      BY <2>1, <3>1, <3>2
    <3> QED BY <3>1, <3>3 DEF WellFormed
  <2>4. ASSUME NEW l \in k .. Len(s), Active(s[l]), s[l].module = g[s[k].module][j]
        PROVE  \E n \in k .. Len(t) : Active(t[n]) /\ t[n].module = g[t[k].module][j]
    <3>1. l \in 2 .. Len(s) /\ l \in k .. Len(t)
      BY <1>2, <2>1
    <3>2. t[l] = s[l]
      BY <1>2, <3>1
    <3> QED BY <2>1, <2>4, <3>1, <3>2
  <2> QED BY <1>4, <1>6, <2>1, <2>2, <2>3, <2>4
<1>12. Evaluating(g, st2, t)
  BY <1>8, <1>9, <1>10, <1>11 DEF Evaluating
<1> QED BY <1>2, <1>12 DEF Stacked

\* The evaluation of module m is put on the stack.
Begun(s, t, m) == t = <<Evaluation(m)>> \o s

LEMMA EvaluationBegins ==
  ASSUME NEW g, WellFormed(g), NEW st \in [Module -> ModuleState], NEW s, Stacked(g, st, s), Outside(s),
         NEW m \in Module, st[m] = "linked",
         Waits(s) => s[1].node <= Len(g[s[1].module]) /\ m = g[s[1].module][s[1].node],
         NEW st2, st2 = [st EXCEPT ![m] = "evaluating"],
         NEW t, Begun(s, t, m)
  PROVE  Stacked(g, st2, t) /\ Outside(t)
<1> PICK h : h = Evaluation(m)
  OBVIOUS
<1>1. /\ h \in Frame /\ h.call = "evaluate" /\ h.step = "imports" /\ h.module = m /\ h.node = 1
      /\ Active(h) /\ ~Resolving(h)
  BY DEF Evaluation, Frame, EvaluateFrame, EvaluateStep, Active, Resolving
<1>2. s \in Seq(Frame) /\ Len(s) \in Nat /\ Calling(g, s) /\ Evaluating(g, st, s)
  BY LenProperties DEF Stacked
<1>3. /\ t \in Seq(Frame) /\ Len(t) = Len(s) + 1 /\ t[1] = h
      /\ \A k \in 1 .. Len(s) : t[k + 1] = s[k]
      /\ \A k \in 2 .. Len(s) + 1 : t[k] = s[k - 1]
  BY <1>1, <1>2, PushFrame DEF Begun
<1>4. \A k \in 1 .. Len(t) : k = 1 \/ (k # 1 /\ k - 1 \in 1 .. Len(s) /\ t[k] = s[k - 1])
  BY <1>2, <1>3
<1>5. Outside(t)
  BY <1>1, <1>3, <1>4 DEF Outside
<1>6. Calling(g, t)
  <2> SUFFICES ASSUME NEW k \in 1 .. Len(t), t[k].call = "evaluate", t[k].step = "imports", k > 1
               PROVE  Importer(g, t, k)
    BY <1>5, OutsideCalling
  <2>1. k - 1 \in 1 .. Len(s) /\ t[k] = s[k - 1]
    BY <1>4
  <2>2. CASE k = 2
    <3>1. s # <<>>
      BY <1>2, <2>1, EmptySeq
    <3>2. t[2] = s[1]
      BY <2>1, <2>2
    <3>3. Waits(s)
      BY <2>2, <3>1, <3>2 DEF Waits
    <3> QED BY <1>1, <1>3, <2>2, <3>2, <3>3 DEF Importer
  <2>3. CASE k # 2
    <3>1. k - 1 > 1 /\ k - 2 \in 1 .. Len(s) /\ (k - 1) - 1 = k - 2 /\ (k - 2) + 1 = k - 1
      BY <1>2, <2>1, <2>3
    <3>2. Importer(g, s, k - 1)
      BY <1>2, <2>1, <3>1, OutsideCalling
    <3>3. t[k - 1] = s[k - 2]
      BY <1>3, <3>1
    <3> QED BY <2>1, <3>1, <3>2, <3>3 DEF Importer
  <2> QED BY <2>2, <2>3
<1>7. /\ \A x \in Module : x # m => st2[x] = st[x]
      /\ st2[m] = "evaluating"
  OBVIOUS
<1>8. \A k \in 1 .. Len(s) : s[k].call = "evaluate" => s[k].module \in Module /\ s[k].module # m
  <2> SUFFICES ASSUME NEW k \in 1 .. Len(s), s[k].call = "evaluate"
               PROVE  s[k].module \in Module /\ s[k].module # m
    OBVIOUS
  <2> QED BY InEvaluation
<1>9. ASSUME NEW k \in 1 .. Len(t), t[k].call = "evaluate"
      PROVE  /\ t[k].node \in 1 .. Len(g[t[k].module]) + 1
             /\ Active(t[k]) => st2[t[k].module] = "evaluating"
             /\ ~Active(t[k]) => st2[t[k].module] = t[k].step
             /\ t[k].step = "body" => t[k].node > Len(g[t[k].module])
  <2>1. CASE k = 1
    <3>1. Len(g[m]) \in Nat /\ h.step # "body"
      BY <1>1 DEF WellFormed
    <3> QED BY <1>1, <1>3, <1>7, <2>1, <3>1
  <2>2. CASE k # 1
    <3>1. k - 1 \in 1 .. Len(s) /\ t[k] = s[k - 1] /\ s[k - 1].call = "evaluate"
      BY <1>4, <1>9, <2>2
    <3> QED BY <1>7, <1>8, <3>1, InEvaluation
  <2> QED BY <2>1, <2>2
<1>10. \A k, l \in 1 .. Len(t) : Active(t[k]) /\ Active(t[l]) /\ t[k].module = t[l].module => k = l
  <2> SUFFICES ASSUME NEW k \in 1 .. Len(t), NEW l \in 1 .. Len(t), Active(t[k]), Active(t[l]),
                      t[k].module = t[l].module
               PROVE  k = l
    OBVIOUS
  <2>1. \A n \in 1 .. Len(t) : Active(t[n]) /\ n # 1 => t[n].module # m
    BY <1>4, <1>8 DEF Active
  <2>2. CASE k # 1 /\ l # 1
    <3>1. /\ k - 1 \in 1 .. Len(s) /\ l - 1 \in 1 .. Len(s) /\ Active(s[k - 1]) /\ Active(s[l - 1])
          /\ s[k - 1].module = s[l - 1].module
      BY <1>4, <2>2
    <3>2. k - 1 = l - 1
      BY <1>2, <3>1 DEF Evaluating
    <3> QED BY <3>2
  <2> QED BY <1>1, <1>3, <2>1, <2>2
<1>11. \A x \in Module : st2[x] = "evaluating" => \E k \in 1 .. Len(t) : Active(t[k]) /\ t[k].module = x
  <2> SUFFICES ASSUME NEW x \in Module, st2[x] = "evaluating"
               PROVE  \E k \in 1 .. Len(t) : Active(t[k]) /\ t[k].module = x
    OBVIOUS
  <2>1. CASE x = m
    <3>1. 1 \in 1 .. Len(t)
      BY <1>2, <1>3
    <3> QED BY <1>1, <1>3, <2>1, <3>1
  <2>2. CASE x # m
    <3>1. PICK k \in 1 .. Len(s) : Active(s[k]) /\ s[k].module = x
      BY <1>2, <1>7, <2>2 DEF Evaluating
    <3>2. k + 1 \in 1 .. Len(t) /\ t[k + 1] = s[k]
      BY <1>2, <1>3
    <3> QED BY <3>1, <3>2
  <2> QED BY <2>1, <2>2
<1>12. ASSUME NEW k \in 1 .. Len(t), Active(t[k]), NEW j \in 1 .. t[k].node - 1
       PROVE  \/ st2[g[t[k].module][j]] = "evaluated"
              \/ \E l \in k .. Len(t) : Active(t[l]) /\ t[l].module = g[t[k].module][j]
  <2>1. k # 1
    BY <1>1, <1>3, <1>12
  <2>2. k - 1 \in 1 .. Len(s) /\ t[k] = s[k - 1] /\ Active(s[k - 1])
    BY <1>4, <1>12, <2>1
  <2>3. \/ st[g[s[k - 1].module][j]] = "evaluated"
        \/ \E l \in k - 1 .. Len(s) : Active(s[l]) /\ s[l].module = g[s[k - 1].module][j]
    BY <1>2, <1>12, <2>2 DEF Evaluating
  <2>4. g[s[k - 1].module][j] \in Module
    <3>1. s[k - 1].module \in Module /\ s[k - 1].node \in 1 .. Len(g[s[k - 1].module]) + 1
      BY <2>2, InEvaluation DEF Active
    <3>2. Len(g[s[k - 1].module]) \in Nat
      BY <3>1 DEF WellFormed
    <3>3. j \in 1 .. Len(g[s[k - 1].module])
      BY <1>12, <2>2, <3>1, <3>2
    <3> QED BY <3>1, <3>3 DEF WellFormed
  <2>5. ASSUME NEW l \in k - 1 .. Len(s), Active(s[l]), s[l].module = g[s[k - 1].module][j]
        PROVE  \E n \in k .. Len(t) : Active(t[n]) /\ t[n].module = g[t[k].module][j]
    <3>1. l \in 1 .. Len(s) /\ l + 1 \in k .. Len(t)
      BY <1>2, <1>3, <2>2
    <3>2. t[l + 1] = s[l]
      BY <1>3, <3>1
    <3> QED BY <2>2, <2>5, <3>1, <3>2
  <2>6. st[g[s[k - 1].module][j]] = "evaluated" => st2[g[t[k].module][j]] = "evaluated"
    BY <1>7, <2>2, <2>4
  <2> QED BY <2>3, <2>5, <2>6
<1>13. Evaluating(g, st2, t)
  BY <1>9, <1>10, <1>11, <1>12 DEF Evaluating
<1> QED BY <1>3, <1>5, <1>6, <1>13 DEF Stacked

\* A step outside of a search: modules go on from linked, or fail.
LEMMA OutsideKeeps ==
  ASSUME IInv, ~Calls("link"), stack # <<>> => ~Resolving(Top),
         Stacked(imports, state', stack'), Outside(stack'),
         UNCHANGED <<imports, resolved, ancestor, scope, names, bound>>,
         code' \in [Module -> BOOLEAN], state' \in [Module -> ModuleState],
         \A m \in Module : \/ state'[m] = state[m]
                           \/ state[m] \in LinkedStates /\ state'[m] \in LinkedStates \cup {"error"}
  PROVE  IInv'
<1>1. /\ Finished = {m \in Module : state[m] \in LinkedStates} /\ Closing = {}
      /\ \A m \in Module : state[m] # "linking"
  BY NoSearch
<1>2. Calling(imports, stack)' /\ Evaluating(imports, state, stack)'
  BY DEF Stacked
<1>3. Types'
  BY DEF Stacked, IInv, Types
<1>4. \A k \in 1 .. Len(stack') : stack'[k].call # "link"
  BY DEF Outside
<1>5. Closing' = {}
  <2>1. Framed'
    BY <1>2, <1>3, <1>4 DEF Framed
  <2>2. ~Calls("link")'
    <3>1. stack' # <<>> => Head(stack') = stack'[1] /\ 1 \in 1 .. Len(stack')
      BY <1>3, PopFrame DEF Types
    <3> QED BY <1>4, <3>1 DEF Calls, Top
  <2> QED BY <2>1, <2>2, ClosingFramedPrime DEF ClosingTold
<1>6. \A m \in Module : state'[m] # "linking"
  BY <1>1 DEF LinkedStates
<1>7. Linking'
  BY <1>4, <1>6 DEF Linking
<1>8. Finished' = {m \in Module : state'[m] \in LinkedStates}
  BY <1>5 DEF Finished, LinkedStates
<1>9. Ready'
  <2> SUFFICES ASSUME NEW m \in Finished', NEW n \in Leads(imports, m)
               PROVE  scope[n] /\ names[n] /\ bound[n] /\ (n \in Finished' \/ state'[n] = "error")
    BY DEF Ready
  <2>1. m \in Finished
    BY <1>1, <1>8 DEF LinkedStates
  <2>2. scope[n] /\ names[n] /\ bound[n] /\ (n \in Finished \/ state[n] = "error")
    BY <2>1 DEF IInv, Ready
  <2>3. n \in Module
    BY LeadsIn
  <2>4. CASE n \in Finished
    BY <1>1, <1>8, <2>2, <2>3, <2>4
  <2>5. CASE state[n] = "error"
    BY <2>2, <2>3, <2>5 DEF LinkedStates
  <2> QED BY <2>2, <2>4, <2>5
<1>10. Spoiled'
  <2>1. ~At("link", "connect")
    BY DEF At
  <2>2. \A m \in Module : /\ state[m] = "error" => state'[m] = "error" /\ scope'[m] = scope[m]
                          /\ state'[m] \in {"unlinked", "linking"} => state[m] \in {"unlinked", "linking"}
                          /\ m \in Closing /\ state'[m] \in {"unlinked", "linking"} => m \in Closing'
    BY <1>1 DEF LinkedStates
  <2> QED BY <2>1, <2>2, SpoiledKept
<1> QED BY <1>2, <1>3, <1>7, <1>9, <1>10 DEF IInv

\* Where the host or an evaluation runs, no search is in progress.
LEMMA OutsideIs ==
  ASSUME IInv, ~Calls("link"), stack # <<>> => ~Resolving(Top)
  PROVE  Stacked(imports, state, stack) /\ Outside(stack)
<1>1. \A k \in 1 .. Len(stack) : stack[k].call # "link"
  BY NoSearch
<1>2. stack \in Seq(Frame) /\ Len(stack) \in Nat /\ (stack # <<>> => Top = stack[1])
  BY TopFrame, LenProperties DEF IInv, Types
<1>3. \A k \in 1 .. Len(stack) : ~Resolving(stack[k])
  <2>1. \A k \in 1 .. Len(stack) : Resolving(stack[k]) => k = 1
    BY DEF IInv, Calling
  <2>2. ASSUME NEW k \in 1 .. Len(stack) PROVE stack # <<>>
    BY <1>2, <2>2, EmptySeq
  <2> QED BY <1>2, <2>1, <2>2
<1> QED BY <1>1, <1>2, <1>3 DEF Outside, Stacked, IInv

LEMMA HostSide ==
  ASSUME IInv, QuietHost, HostRuns
  PROVE  /\ ~Calls("link") /\ (stack # <<>> => ~Resolving(Top)) /\ ~Waits(stack)
         /\ Stacked(imports, state, stack) /\ Outside(stack)
<1>1. stack # <<>> => Top = stack[1]
  BY TopFrame DEF IInv
<1>2. ~Calls("link") /\ (stack # <<>> => ~Resolving(Top)) /\ ~Waits(stack)
  BY <1>1 DEF HostRuns, QuietHost, Calls, At, Resolving, Waits
<1> QED BY <1>2, OutsideIs

LEMMA EvaluationSide ==
  ASSUME IInv, Calls("evaluate")
  PROVE  /\ ~Calls("link") /\ ~Resolving(Top) /\ stack # <<>> /\ Top = stack[1] /\ stack[1].call = "evaluate"
         /\ Top \in EvaluateFrame /\ 1 \in 1 .. Len(stack)
         /\ Stacked(imports, state, stack) /\ Outside(stack) /\ WellFormed(imports)
         /\ state \in [Module -> ModuleState] /\ code \in [Module -> BOOLEAN]
<1>1. stack # <<>> /\ Top.call = "evaluate"
  BY DEF Calls
<1>2. Top = stack[1] /\ Top \in Frame /\ 1 \in 1 .. Len(stack)
  BY <1>1, TopFrame DEF IInv
<1>3. Top \in EvaluateFrame
  BY <1>1, <1>2, FrameKinds
<1>4. ~Calls("link") /\ ~Resolving(Top)
  BY <1>1 DEF Calls, Resolving
<1>5. state \in [Module -> ModuleState] /\ code \in [Module -> BOOLEAN]
  BY DEF IInv, Types
<1>6. WellFormed(imports)
  BY GraphOf DEF IInv
<1> QED BY <1>1, <1>2, <1>3, <1>4, <1>5, <1>6, OutsideIs

LEMMA LinkPreserves == ASSUME IInv, QuietHost, NEW m \in Module, Link(m) PROVE IInv'
<1> PICK f : f = Search(m)
  OBVIOUS
<1>1. /\ HostRuns /\ state[m] = "unlinked" /\ state' = [state EXCEPT ![m] = "linking"]
      /\ ancestor' = [ancestor EXCEPT ![m] = 0] /\ stack' = <<f>> \o stack
      /\ UNCHANGED <<imports, resolved, scope, names, bound, code>>
  BY DEF Link
<1>2. /\ ~Calls("link") /\ (stack # <<>> => ~Resolving(Top)) /\ ~Waits(stack)
      /\ Stacked(imports, state, stack) /\ Outside(stack) /\ WellFormed(imports)
  BY <1>1, HostSide, GraphOf DEF IInv
<1>3. /\ Finished = {x \in Module : state[x] \in LinkedStates} /\ Closing = {}
      /\ \A x \in Module : state[x] # "linking"
  BY <1>2, NoSearch
<1>4. /\ state' \in [Module -> ModuleState] /\ state'[m] = "linking"
      /\ \A x \in Module : x # m => state'[x] = state[x]
      /\ ancestor' \in [Module -> 0 .. Cardinality(Module)] /\ ancestor'[m] = 0
  <2>1. state \in [Module -> ModuleState] /\ "linking" \in ModuleState
    BY DEF IInv, Types, ModuleState
  <2>2. Cardinality(Module) \in Nat
    BY ModuleAssumption, FS_CardinalityType
  <2>3. 0 \in 0 .. Cardinality(Module)
    BY <2>2
  <2>4. ancestor \in [Module -> 0 .. Cardinality(Module)]
    BY DEF IInv, Types
  <2> QED BY <1>1, <2>1, <2>3, <2>4
<1> PICK t : t = Item(m, 0, 0)
  OBVIOUS
<1>5. t \in ItemType /\ t.module = m /\ t.node = 1 /\ t.parent = 0 /\ t.index = 0
  BY DEF Item, ItemType
<1>6. /\ f \in LinkFrame /\ f.step = "resolve" /\ f.items = <<t>> /\ f.current = 1 /\ f.index = 0
      /\ f.request = 1 /\ f.call = "link" /\ f \in Frame
  <2>1. <<t>> \in Seq(ItemType)
    BY <1>5
  <2>2. f = [call |-> "link", step |-> "resolve", items |-> <<t>>, current |-> 1,
             index |-> 0, request |-> 1, circle |-> 1]
    BY DEF Search
  <2> QED BY <2>1, <2>2 DEF LinkFrame, LinkStep, Frame
<1>7. /\ Len(f.items) = 1 /\ Mod(f, 1) = m /\ Node(f, 1) = 1 /\ Parent(f, 1) = 0 /\ Index(f, 1) = 0
      /\ f.items # <<>>
  BY <1>5, <1>6 DEF Mod, Node, Parent, Index
<1>8. \A i \in 1 .. 1 : i = 1
  OBVIOUS
<1>9. Len(imports[m]) \in Nat
  BY <1>2 DEF WellFormed
<1>10. Items(f, imports, state')
  BY <1>4, <1>6, <1>7, <1>8, <1>9 DEF Items
<1>11. Counted(f, state')
  <2>1. {m} \in SUBSET Module /\ Cardinality({m}) = 0 + 1
    BY FS_Singleton
  <2> QED BY <1>4, <1>6, <2>1 DEF Counted
<1>12. Requested(f, imports, state')
  BY <1>6, <1>7, <1>8, <1>9 DEF Requested
<1>13. Height(f) = 1
  BY <1>6, <1>7 DEF Height
<1>14. m \in Leads(imports, m)
  BY LeadsSelf
<1>15. Lows(f, imports, ancestor')
  <2>1. 1 \in 1 .. 1
    OBVIOUS
  <2> QED BY <1>4, <1>7, <1>8, <1>13, <1>14, <2>1 DEF Lows
<1>16. Tree(f, imports, ancestor', scope, Finished)
  <2>1. {1} \in SUBSET (1 .. Height(f))
    BY <1>13
  <2>2. OnPath(f, imports, {1})
    BY <1>6, <1>7, <1>8, <1>13, <1>14 DEF OnPath
  <2>3. Visits(f, imports, ancestor', Finished, {1})
    BY <1>7, <1>8, <1>13 DEF Visits
  <2>4. Done(f, imports, ancestor', scope, {1})
    BY <1>8, <1>13 DEF Done
  <2> QED BY <2>1, <2>2, <2>3, <2>4 DEF Tree
<1>17. Searching(f, imports, state', ancestor', scope, names, bound, Finished)
  BY <1>6, <1>10, <1>11, <1>12, <1>15, <1>16 DEF Searching
<1>18. /\ Stacked(imports, state', stack') /\ Len(stack') \in Nat \ {0} /\ stack'[1] = f
       /\ \A k \in 2 .. Len(stack') : stack'[k].call # "link" /\ ~Resolving(stack'[k])
  <2>1. OthersKept(state, state')
    BY <1>1, <1>4 DEF OthersKept
  <2>2. f.call # "evaluate" /\ ~Resolving(f)
    BY <1>6 DEF Resolving
  <2>3. Pushed(stack, stack', f)
    BY <1>1 DEF Pushed
  <2> QED BY <1>2, <1>6, <2>1, <2>2, <2>3, CallPushed
<1>19. Types'
  BY <1>1, <1>4, <1>18 DEF Stacked, IInv, Types
<1>20. Calling(imports, stack)' /\ Evaluating(imports, state, stack)'
  BY <1>1, <1>18 DEF Stacked
<1>21. /\ 1 \in 1 .. Len(stack') /\ \A k \in 1 .. Len(stack') : stack'[k].call = "link" => k = 1
  <2>1. \A k \in 1 .. Len(stack') : k = 1 \/ k \in 2 .. Len(stack')
    BY <1>18
  <2> QED BY <1>18, <2>1
<1>22. Closing' = {}
  <2>1. Framed'
    BY <1>6, <1>18, <1>19, <1>20, <1>21 DEF Framed
  <2>2. Calls("link")' => Top' = f
    <3>1. stack' # <<>> => Head(stack') = stack'[1]
      BY <1>19, PopFrame DEF Types
    <3> QED BY <1>18, <3>1 DEF Calls, Top
  <2> QED BY <1>6, <2>1, <2>2, ClosingFramedPrime DEF ClosingTold, ClosingOf
<1>23. Finished' = Finished
  <2>1. Finished' = {x \in Module : state'[x] \in LinkedStates}
    BY <1>22 DEF Finished, LinkedStates
  <2> QED BY <1>1, <1>3, <1>4, <2>1 DEF LinkedStates
<1>24. Linking'
  <2>1. Searching(f, imports', state', ancestor', scope', names', bound', Finished')
    BY <1>1, <1>17, <1>23
  <2>2. \A x \in Module : state'[x] = "linking" => \E i \in 1 .. Len(f.items) : x = Mod(f, i)
    BY <1>3, <1>4, <1>7
  <2>3. /\ 1 \in 1 .. Len(stack') /\ stack'[1] = f /\ f.call = "link"
        /\ \A k \in 1 .. Len(stack') : stack'[k].call = "link" => k = 1
    BY <1>6, <1>18, <1>21
  <2> QED BY <2>1, <2>2, <2>3, SearchLinks
<1>25. Ready'
  <2>1. \A x \in Module : /\ state[x] = "error" => state'[x] = "error"
                          /\ scope[x] => scope'[x]
                          /\ names[x] => names'[x]
                          /\ bound[x] => bound'[x]
    BY <1>1, <1>4
  <2> QED BY <1>1, <1>23, <2>1, ReadyKept
<1>26. Spoiled'
  <2>1. ~At("link", "connect")
    BY <1>2 DEF At
  <2>2. \A x \in Module : /\ state[x] = "error" => state'[x] = "error" /\ scope'[x] = scope[x]
                          /\ state'[x] \in {"unlinked", "linking"} => state[x] \in {"unlinked", "linking"}
                          /\ x \in Closing /\ state'[x] \in {"unlinked", "linking"} => x \in Closing'
    BY <1>1, <1>3, <1>4
  <2> QED BY <1>1, <2>1, <2>2, SpoiledKept
<1> QED BY <1>19, <1>20, <1>24, <1>25, <1>26 DEF IInv

\* The module of an evaluation that begins was linked.
LEMMA BeginPreserves ==
  ASSUME IInv, ~Calls("link"), stack # <<>> => ~Resolving(Top), NEW m \in Module, state[m] = "linked",
         Waits(stack) => /\ stack[1].node <= Len(imports[stack[1].module])
                         /\ m = imports[stack[1].module][stack[1].node],
         StartEvaluation(m, stack), UNCHANGED <<linkage, code>>
  PROVE  IInv'
<1>1. /\ state' = [state EXCEPT ![m] = "evaluating"] /\ Begun(stack, stack', m)
      /\ UNCHANGED <<imports, resolved, ancestor, scope, names, bound, code>>
  BY DEF StartEvaluation, Begun, linkage
<1>2. /\ Stacked(imports, state, stack) /\ Outside(stack) /\ WellFormed(imports)
      /\ state \in [Module -> ModuleState] /\ code \in [Module -> BOOLEAN]
  BY OutsideIs, GraphOf DEF IInv, Types
<1>3. Stacked(imports, state', stack') /\ Outside(stack')
  BY <1>1, <1>2, EvaluationBegins
<1>4. state' \in [Module -> ModuleState] /\ \A x \in Module : x # m => state'[x] = state[x]
  BY <1>1, <1>2 DEF ModuleState
<1>5. state'[m] = "evaluating"
  BY <1>1, <1>2
<1>6. \A x \in Module : \/ state'[x] = state[x]
                        \/ state[x] \in LinkedStates /\ state'[x] \in LinkedStates \cup {"error"}
  BY <1>4, <1>5 DEF LinkedStates
<1>7. code' \in [Module -> BOOLEAN]
  BY <1>1, <1>2
<1> QED BY <1>1, <1>3, <1>4, <1>6, <1>7, OutsideKeeps

LEMMA EvaluatePreserves == ASSUME IInv, QuietHost, NEW m \in Module, Evaluate(m) PROVE IInv'
<1>1. HostRuns /\ state[m] = "linked" /\ StartEvaluation(m, stack) /\ UNCHANGED <<linkage, code>>
  BY DEF Evaluate
<1>2. ~Calls("link") /\ (stack # <<>> => ~Resolving(Top)) /\ ~Waits(stack)
  BY <1>1, HostSide
<1> QED BY <1>1, <1>2, BeginPreserves

\* The import that an evaluation has come to.
LEMMA ImportedIs ==
  ASSUME IInv, Importing
  PROVE  /\ Calls("evaluate") /\ Top.step = "imports" /\ Active(Top) /\ Waits(stack)
         /\ Top.node \in 1 .. Len(imports[Top.module]) /\ Top.module \in Module
         /\ Imported \in Module /\ Imported = imports[Top.module][Top.node]
         /\ state[Imported] \in {"linked", "evaluating", "evaluated", "error"}
<1>1. Calls("evaluate") /\ Top.step = "imports" /\ Top.node <= Len(imports[Top.module])
  BY DEF Importing, At
<1>2. /\ ~Calls("link") /\ ~Resolving(Top) /\ stack # <<>> /\ Top = stack[1] /\ stack[1].call = "evaluate"
      /\ 1 \in 1 .. Len(stack) /\ Stacked(imports, state, stack) /\ WellFormed(imports)
  BY <1>1, EvaluationSide
<1>3. Active(Top) /\ Waits(stack)
  BY <1>1, <1>2 DEF Active, Waits
<1>4. /\ Top.module \in Module /\ Top.node \in 1 .. Len(imports[Top.module]) + 1
      /\ state[Top.module] = "evaluating"
  BY <1>2, <1>3, InEvaluation
<1>5. Top.node \in 1 .. Len(imports[Top.module])
  <2>1. Len(imports[Top.module]) \in Nat
    BY <1>2, <1>4 DEF WellFormed
  <2> QED BY <1>1, <1>4, <2>1
<1>6. Imported \in Module /\ Imported = imports[Top.module][Top.node]
  BY <1>2, <1>4, <1>5 DEF Imported, WellFormed
<1>7. Imported \in Leads(imports, Top.module)
  <2>1. Imported \in ToSet(imports[Top.module])
    <3>1. imports[Top.module] \in Seq(Module)
      BY <1>2, <1>4 DEF WellFormed
    <3> QED BY <1>5, <1>6, <3>1, Listed
  <2> QED BY <1>4, <1>6, <2>1, LeadsImport
<1>8. Finished = {m \in Module : state[m] \in LinkedStates}
  BY <1>2, NoSearch
<1>9. Imported \in Finished \/ state[Imported] = "error"
  <2>1. Top.module \in Finished
    BY <1>4, <1>8 DEF LinkedStates
  <2> QED BY <1>7, <2>1 DEF IInv, Ready
<1>10. state[Imported] \in {"linked", "evaluating", "evaluated", "error"}
  BY <1>8, <1>9 DEF LinkedStates
<1> QED BY <1>1, <1>3, <1>4, <1>5, <1>6, <1>10

LEMMA EvaluateImportPreserves == ASSUME IInv, EvaluateImport PROVE IInv'
<1>1. /\ Importing /\ state[Imported] \in {"unlinked", "linking", "linked"}
      /\ StartEvaluation(Imported, stack) /\ UNCHANGED <<linkage, code>>
  BY DEF EvaluateImport
<1>2. /\ Calls("evaluate") /\ Top.node \in 1 .. Len(imports[Top.module]) /\ Top.module \in Module
      /\ Imported \in Module /\ Imported = imports[Top.module][Top.node] /\ state[Imported] = "linked"
  BY <1>1, ImportedIs
<1>3. ~Calls("link") /\ ~Resolving(Top) /\ Top = stack[1] /\ WellFormed(imports)
  BY <1>2, EvaluationSide
<1>4. stack[1].node <= Len(imports[stack[1].module]) /\ Imported = imports[stack[1].module][stack[1].node]
  <2>1. Len(imports[Top.module]) \in Nat
    BY <1>2, <1>3 DEF WellFormed
  <2> QED BY <1>2, <1>3, <2>1
<1> PICK m : m = Imported
  OBVIOUS
<1>5. m \in Module /\ state[m] = "linked" /\ StartEvaluation(m, stack)
  BY <1>1, <1>2
<1>6. stack[1].node <= Len(imports[stack[1].module]) /\ m = imports[stack[1].module][stack[1].node]
  BY <1>4
<1> QED BY <1>1, <1>3, <1>5, <1>6, BeginPreserves

\* An evaluation goes on.
LEMMA MovePreserves ==
  ASSUME IInv, Calls("evaluate"), Active(Top), NEW h \in EvaluateFrame, h.module = Top.module, Active(h),
         h.node <= Len(imports[h.module]) + 1, h.step = "body" => h.node > Len(imports[h.module]),
         \/ h.node = Top.node
         \/ /\ h.node = Top.node + 1
            /\ state[imports[h.module][Top.node]] \in {"evaluating", "evaluated"},
         Topped(stack, stack', h), UNCHANGED <<linkage, state, code>>
  PROVE  IInv'
<1>1. UNCHANGED <<imports, resolved, state, ancestor, scope, names, bound, code>>
  BY DEF linkage
<1>2. /\ ~Calls("link") /\ ~Resolving(Top) /\ stack # <<>> /\ Top = stack[1]
      /\ Stacked(imports, state, stack) /\ Outside(stack) /\ WellFormed(imports)
      /\ state \in [Module -> ModuleState] /\ code \in [Module -> BOOLEAN]
  BY EvaluationSide
<1>3. Stacked(imports, state, stack') /\ Outside(stack')
  BY <1>2, EvaluationGoesOn
<1>4. Stacked(imports, state', stack') /\ state' \in [Module -> ModuleState] /\ code' \in [Module -> BOOLEAN]
  BY <1>1, <1>2, <1>3
<1> QED BY <1>1, <1>2, <1>3, <1>4, OutsideKeeps

LEMMA SkipImportPreserves == ASSUME IInv, SkipImport PROVE IInv'
<1> PICK h : h = [Top EXCEPT !.node = @ + 1]
  OBVIOUS
<1>1. /\ Importing /\ state[Imported] \in {"evaluating", "evaluated"}
      /\ Topped(stack, stack', h) /\ UNCHANGED <<linkage, state, code>>
  BY DEF SkipImport, Become, Topped
<1>2. /\ Calls("evaluate") /\ Top.step = "imports" /\ Active(Top) /\ Top.module \in Module
      /\ Top.node \in 1 .. Len(imports[Top.module]) /\ Imported = imports[Top.module][Top.node]
  BY <1>1, ImportedIs
<1>3. Top \in EvaluateFrame /\ WellFormed(imports)
  BY <1>2, EvaluationSide
<1>4. /\ h \in EvaluateFrame /\ h.module = Top.module /\ h.step = "imports" /\ h.node = Top.node + 1
      /\ Active(h)
  BY <1>2, <1>3 DEF EvaluateFrame, Active
<1>5. Len(imports[Top.module]) \in Nat
  BY <1>2, <1>3 DEF WellFormed
<1>6. h.node <= Len(imports[h.module]) + 1 /\ h.step # "body"
  BY <1>2, <1>4, <1>5
<1>7. state[imports[h.module][Top.node]] \in {"evaluating", "evaluated"}
  BY <1>1, <1>2, <1>4
<1> QED BY <1>1, <1>2, <1>4, <1>6, <1>7, MovePreserves

LEMMA RunBodyPreserves == ASSUME IInv, RunBody PROVE IInv'
<1> PICK h : h = [Top EXCEPT !.step = "body"]
  OBVIOUS
<1>1. /\ Calls("evaluate") /\ Top.step = "imports" /\ Top.node > Len(imports[Top.module])
      /\ Topped(stack, stack', h) /\ UNCHANGED <<linkage, state, code>>
  BY DEF RunBody, At, Become, Topped
<1>2. /\ Top \in EvaluateFrame /\ Top = stack[1] /\ 1 \in 1 .. Len(stack) /\ stack[1].call = "evaluate"
      /\ Stacked(imports, state, stack) /\ WellFormed(imports)
  BY <1>1, EvaluationSide
<1>3. Active(Top) /\ Top.module \in Module /\ Top.node \in 1 .. Len(imports[Top.module]) + 1
  BY <1>1, <1>2, InEvaluation DEF Active
<1>4. /\ h \in EvaluateFrame /\ h.module = Top.module /\ h.step = "body" /\ h.node = Top.node
      /\ Active(h)
  BY <1>2 DEF EvaluateFrame, EvaluateStep, Active
<1>5. Len(imports[Top.module]) \in Nat
  BY <1>2, <1>3 DEF WellFormed
<1>6. h.node <= Len(imports[h.module]) + 1 /\ h.node > Len(imports[h.module])
  BY <1>1, <1>3, <1>4, <1>5
<1> QED BY <1>1, <1>3, <1>4, <1>6, MovePreserves

\* The host is told of the end of an evaluation.
LEMMA EndTold ==
  ASSUME NEW g, WellFormed(g), NEW st, NEW s, Stacked(g, st, s), Outside(s), ~Waits(s), Tell("ended", s)
  PROVE  Stacked(g, st, stack') /\ Outside(stack')
<1> PICK h : h = Callback("ended")
  OBVIOUS
<1>1. h \in Frame /\ h.call = "host" /\ ~Resolving(h)
  BY DEF Callback, Frame, HostFrame, Resolving
<1>2. Pushed(s, stack', h) \/ stack' = s
  BY DEF Tell, Pushed
<1>3. OthersKept(st, st)
  BY DEF OthersKept
<1>4. CASE Pushed(s, stack', h)
  <2>1. h.call # "evaluate" /\ h.call # "link"
    BY <1>1
  <2> QED BY <1>1, <1>3, <1>4, <2>1, CallPushed
<1>5. CASE stack' = s
  BY <1>5
<1> QED BY <1>2, <1>4, <1>5

\* An evaluation has succeeded or failed.
LEMMA EndsPreserves ==
  ASSUME IInv, Calls("evaluate"), Active(Top), NEW result \in {"evaluated", "error"}, Ends(result)
  PROVE  IInv'
<1> PICK h : h = [Top EXCEPT !.step = result]
  OBVIOUS
<1> PICK t : t = <<h>> \o Tail(stack)
  OBVIOUS
<1>1. /\ state' = [state EXCEPT ![Top.module] = result] /\ Tell("ended", t) /\ Topped(stack, t, h)
      /\ UNCHANGED <<imports, resolved, ancestor, scope, names, bound, code>>
  BY DEF Ends, linkage, Topped
<1>2. /\ ~Calls("link") /\ ~Resolving(Top) /\ stack # <<>> /\ Top = stack[1] /\ 1 \in 1 .. Len(stack)
      /\ Top \in EvaluateFrame /\ stack[1].call = "evaluate"
      /\ Stacked(imports, state, stack) /\ Outside(stack) /\ WellFormed(imports)
      /\ state \in [Module -> ModuleState] /\ code \in [Module -> BOOLEAN]
  BY EvaluationSide
<1>3. /\ h \in EvaluateFrame /\ h.module = Top.module /\ h.node = Top.node /\ h.step = result
  BY <1>2 DEF EvaluateFrame, EvaluateStep
<1>4. h.step \in {"evaluated", "error"} /\ h.step # "imports"
  BY <1>3
<1>5. Top.module \in Module /\ state[Top.module] = "evaluating"
  BY <1>2, InEvaluation
<1>6. Stacked(imports, state', t) /\ Outside(t)
  <2>1. state' = [state EXCEPT ![h.module] = h.step]
    BY <1>1, <1>3
  <2> QED BY <1>1, <1>2, <1>3, <1>4, <2>1, EvaluationEnds
<1>7. ~Waits(t)
  <2>1. t # <<>> => t[1] = h
    BY <1>1, <1>2, <1>3, TopReplaced
  <2> QED BY <1>4, <2>1 DEF Waits
<1>8. Stacked(imports, state', stack') /\ Outside(stack')
  BY <1>1, <1>2, <1>6, <1>7, EndTold
<1>9. /\ state' \in [Module -> ModuleState] /\ state'[Top.module] = result
      /\ \A x \in Module : x # Top.module => state'[x] = state[x]
  BY <1>1, <1>2, <1>5 DEF ModuleState
<1>10. \A x \in Module : \/ state'[x] = state[x]
                         \/ state[x] \in LinkedStates /\ state'[x] \in LinkedStates \cup {"error"}
  BY <1>5, <1>9 DEF LinkedStates
<1>11. code' \in [Module -> BOOLEAN]
  BY <1>1, <1>2
<1> QED BY <1>1, <1>2, <1>8, <1>9, <1>10, <1>11, OutsideKeeps

LEMMA ImportInErrorPreserves == ASSUME IInv, ImportInError PROVE IInv'
<1>1. Importing /\ Ends("error")
  BY DEF ImportInError
<1> QED BY <1>1, ImportedIs, EndsPreserves

LEMMA BodyEndsPreserves == ASSUME IInv, BodyEnds PROVE IInv'
<1>1. /\ Calls("evaluate") /\ Top.step = "body" /\ (Ends("evaluated") \/ Ends("error"))
  BY DEF BodyEnds, BodyReturns, BodyThrows, At
<1>2. Top = stack[1] /\ stack[1].call = "evaluate"
  BY <1>1, EvaluationSide
<1>3. Active(Top)
  BY <1>1, <1>2 DEF Active
<1> QED BY <1>1, <1>3, EndsPreserves

\* What is below an evaluation that is over.
LEMMA BelowEvaluation ==
  ASSUME IInv, Calls("evaluate"), Top.step \in {"evaluated", "error"}, NEW s, s = Tail(stack)
  PROVE  /\ Stacked(imports, state, s) /\ Outside(s) /\ Top.module \in Module
         /\ Len(stack) > 1 => s # <<>> /\ s[1] = stack[2]
         /\ (Len(stack) > 1 /\ stack[2].call = "evaluate" /\ stack[2].step = "imports") =>
              /\ stack[2] \in EvaluateFrame /\ Active(stack[2]) /\ stack[2].module \in Module
              /\ state[stack[2].module] = "evaluating"
              /\ stack[2].node \in 1 .. Len(imports[stack[2].module])
              /\ state[imports[stack[2].module][stack[2].node]] = Top.step
<1>1. /\ stack # <<>> /\ Top = stack[1] /\ 1 \in 1 .. Len(stack) /\ stack[1].call = "evaluate"
      /\ Stacked(imports, state, stack) /\ Outside(stack) /\ WellFormed(imports)
  BY EvaluationSide
<1>2. ~Active(stack[1])
  BY <1>1 DEF Active
<1>3. Stacked(imports, state, s) /\ Outside(s)
  BY <1>1, <1>2, CallPopped
<1>4. Top.module \in Module /\ state[Top.module] = Top.step
  BY <1>1, <1>2, InEvaluation
<1>5. stack \in Seq(Frame) /\ Calling(imports, stack)
  BY <1>1 DEF Stacked
<1>6. /\ Len(stack) \in Nat \ {0} /\ Len(s) = Len(stack) - 1 /\ s \in Seq(Frame)
      /\ \A k \in 1 .. Len(stack) - 1 : s[k] = stack[k + 1]
  BY <1>1, <1>5, PopFrame
<1>7. ASSUME Len(stack) > 1 PROVE s # <<>> /\ s[1] = stack[2]
  <2>1. Len(s) # 0 /\ 1 \in 1 .. Len(stack) - 1 /\ 1 + 1 = 2
    BY <1>6, <1>7
  <2>2. s # <<>>
    BY <2>1, EmptySeq
  <2>3. s[1] = stack[1 + 1]
    BY <1>6, <2>1
  <2> QED BY <2>1, <2>2, <2>3
<1>8. ASSUME Len(stack) > 1, stack[2].call = "evaluate", stack[2].step = "imports"
      PROVE  /\ stack[2] \in EvaluateFrame /\ Active(stack[2]) /\ stack[2].module \in Module
             /\ state[stack[2].module] = "evaluating"
             /\ stack[2].node \in 1 .. Len(imports[stack[2].module])
             /\ state[imports[stack[2].module][stack[2].node]] = Top.step
  <2>1. 2 \in 1 .. Len(stack)
    BY <1>6, <1>8
  <2>2. Active(stack[2])
    BY <1>8 DEF Active
  <2>3. /\ stack[2] \in EvaluateFrame /\ stack[2].module \in Module /\ state[stack[2].module] = "evaluating"
        /\ stack[2].node \in 1 .. Len(imports[stack[2].module]) + 1
    BY <1>1, <1>8, <2>1, <2>2, InEvaluation
  <2>4. Importer(imports, stack, 2)
    <3>1. 2 > 1
      OBVIOUS
    <3> QED BY <1>1, <1>5, <1>8, <2>1, <3>1, OutsideCalling
  <2>5. stack[2].node <= Len(imports[stack[2].module]) /\ stack[1].module = imports[stack[2].module][stack[2].node]
    BY <2>4 DEF Importer
  <2>6. stack[2].node \in 1 .. Len(imports[stack[2].module])
    <3>1. Len(imports[stack[2].module]) \in Nat
      BY <1>1, <2>3 DEF WellFormed
    <3> QED BY <2>3, <2>5, <3>1
  <2> QED BY <1>1, <1>4, <2>2, <2>3, <2>5, <2>6
<1> QED BY <1>3, <1>4, <1>7, <1>8

LEMMA EvaluateReturnsPreserves ==
  ASSUME IInv, NEW result \in {"evaluated", "error"}, EvaluateReturns(result)
  PROVE  IInv'
<1> PICK i : i = stack[2]
  OBVIOUS
<1> PICK s : s = Tail(stack)
  OBVIOUS
<1>1. /\ Calls("evaluate") /\ Top.step = result
      /\ code' = [code EXCEPT ![Top.module] = FALSE]
      /\ UNCHANGED <<imports, resolved, ancestor, scope, names, bound>>
  BY DEF EvaluateReturns, At, linkage
<1>2. /\ Stacked(imports, state, s) /\ Outside(s) /\ Top.module \in Module
      /\ Len(stack) > 1 => s # <<>> /\ s[1] = i
      /\ (Len(stack) > 1 /\ i.call = "evaluate" /\ i.step = "imports") =>
              /\ i \in EvaluateFrame /\ Active(i) /\ i.module \in Module
              /\ state[i.module] = "evaluating"
              /\ i.node \in 1 .. Len(imports[i.module])
              /\ state[imports[i.module][i.node]] = result
  BY <1>1, BelowEvaluation
<1>3. /\ ~Calls("link") /\ ~Resolving(Top) /\ WellFormed(imports)
      /\ state \in [Module -> ModuleState] /\ code \in [Module -> BOOLEAN]
  BY <1>1, EvaluationSide
<1>4. code' \in [Module -> BOOLEAN]
  BY <1>1, <1>3
<1>5. CASE ~(Len(stack) > 1 /\ i.call = "evaluate" /\ i.step = "imports")
  <2>1. stack' = s /\ state' = state
    BY <1>5 DEF EvaluateReturns
  <2>2. Stacked(imports, state', stack') /\ Outside(stack') /\ state' \in [Module -> ModuleState]
    BY <1>2, <1>3, <2>1
  <2> QED BY <1>1, <1>3, <1>4, <2>1, <2>2, OutsideKeeps
<1>6. CASE Len(stack) > 1 /\ i.call = "evaluate" /\ i.step = "imports" /\ result = "error"
  <2> PICK h : h = [i EXCEPT !.step = "error"]
    OBVIOUS
  <2> PICK t : t = <<h>> \o Tail(s)
    OBVIOUS
  <2>1. state' = [state EXCEPT ![i.module] = "error"] /\ Tell("ended", t) /\ Topped(s, t, h)
    BY <1>6 DEF EvaluateReturns, Topped
  <2>2. /\ i \in EvaluateFrame /\ Active(i) /\ i.module \in Module /\ state[i.module] = "evaluating"
        /\ s # <<>> /\ s[1] = i
    BY <1>2, <1>6
  <2>3. h \in EvaluateFrame /\ h.module = i.module /\ h.node = i.node /\ h.step = "error"
    BY <2>2 DEF EvaluateFrame, EvaluateStep
  <2>4. Stacked(imports, state', t) /\ Outside(t)
    <3>1. state' = [state EXCEPT ![h.module] = h.step]
      BY <2>1, <2>3
    <3>2. Active(s[1]) /\ h.module = s[1].module /\ h.node = s[1].node /\ h.step \in {"evaluated", "error"}
      BY <2>2, <2>3
    <3>3. Stacked(imports, state, s) /\ Outside(s) /\ s # <<>> /\ h \in EvaluateFrame /\ Topped(s, t, h)
      BY <1>2, <2>1, <2>2, <2>3
    <3>4. WellFormed(imports) /\ state \in [Module -> ModuleState]
      BY <1>3
    <3> QED BY <3>1, <3>2, <3>3, <3>4, EvaluationEnds, ZenonT(60)
  <2>5. ~Waits(t)
    <3>1. s[1].call = "evaluate" /\ h.module = s[1].module
      BY <1>6, <2>2, <2>3
    <3>2. t[1] = h
      BY <1>2, <2>1, <2>2, <2>3, <3>1, TopReplaced
    <3> QED BY <2>3, <3>2 DEF Waits
  <2>6. Stacked(imports, state', stack') /\ Outside(stack')
    BY <1>3, <2>1, <2>4, <2>5, EndTold
  <2>7. /\ state' \in [Module -> ModuleState] /\ state'[i.module] = "error"
        /\ \A x \in Module : x # i.module => state'[x] = state[x]
    BY <1>3, <2>1, <2>2 DEF ModuleState
  <2>8. \A x \in Module : \/ state'[x] = state[x]
                          \/ state[x] \in LinkedStates /\ state'[x] \in LinkedStates \cup {"error"}
    BY <2>2, <2>7 DEF LinkedStates
  <2> QED BY <1>1, <1>3, <1>4, <2>6, <2>7, <2>8, OutsideKeeps
<1>7. CASE Len(stack) > 1 /\ i.call = "evaluate" /\ i.step = "imports" /\ result = "evaluated"
  <2> PICK h : h = [i EXCEPT !.node = @ + 1]
    OBVIOUS
  <2>1. state' = state /\ Topped(s, stack', h)
    BY <1>7 DEF EvaluateReturns, Topped
  <2>2. /\ i \in EvaluateFrame /\ Active(i) /\ i.module \in Module /\ i.node \in 1 .. Len(imports[i.module])
        /\ s # <<>> /\ s[1] = i /\ state[imports[i.module][i.node]] = "evaluated"
    BY <1>2, <1>7
  <2>3. /\ h \in EvaluateFrame /\ h.module = i.module /\ h.node = i.node + 1 /\ h.step = "imports" /\ Active(h)
    BY <1>7, <2>2 DEF EvaluateFrame, Active
  <2>4. h.node <= Len(imports[h.module]) + 1
    <3>1. Len(imports[i.module]) \in Nat
      BY <1>3, <2>2 DEF WellFormed
    <3> QED BY <2>2, <2>3, <3>1
  <2>5. Stacked(imports, state, stack') /\ Outside(stack')
    <3>1. Active(s[1]) /\ h.module = s[1].module /\ h.step # "body" /\ h.node = s[1].node + 1
      BY <2>2, <2>3
    <3>2. state[imports[h.module][s[1].node]] \in {"evaluating", "evaluated"}
      BY <2>2, <2>3
    <3> QED BY <1>2, <1>3, <2>1, <2>2, <2>3, <2>4, <3>1, <3>2, EvaluationGoesOn
  <2>6. Stacked(imports, state', stack') /\ state' \in [Module -> ModuleState]
    BY <1>3, <2>1, <2>5
  <2> QED BY <1>1, <1>3, <1>4, <2>1, <2>5, <2>6, OutsideKeeps
<1> QED BY <1>5, <1>6, <1>7

-----------------------------------------------------------------------------
(* The invariant.                                                          *)

LEMMA InitIInv == Init => IInv
<1> SUFFICES ASSUME Init PROVE IInv
  OBVIOUS
<1>1. /\ imports \in Graphs /\ stack = <<>> /\ state \in [Module -> ModuleState]
      /\ \A m \in Module : state[m] = "unlinked"
  BY DEF Init, ModuleState
<1>2. Len(stack) = 0 /\ stack \in Seq(Frame)
  BY <1>1
<1>3. imports \in [Module -> Seq(Module)]
  BY <1>1, GraphsAssumption
<1>4. Types
  <2>1. \A m \in Module : resolved[m] <= Len(imports[m])
    <3>1. \A m \in Module : Len(imports[m]) \in Nat
      BY <1>3, LenProperties
    <3> QED BY <3>1 DEF Init
  <2>2. ancestor \in [Module -> 0 .. Cardinality(Module)]
    <3>1. Cardinality(Module) \in Nat
      BY ModuleAssumption, FS_CardinalityType
    <3>2. 0 \in 0 .. Cardinality(Module)
      BY <3>1
    <3> QED BY <3>2 DEF Init
  <2>3. /\ resolved \in [Module -> Nat]
        /\ scope \in [Module -> BOOLEAN] /\ names \in [Module -> BOOLEAN]
        /\ bound \in [Module -> BOOLEAN] /\ code \in [Module -> BOOLEAN]
    BY DEF Init
  <2> QED BY <1>1, <1>2, <2>1, <2>2, <2>3 DEF Types
<1>5. Calling(imports, stack) /\ Evaluating(imports, state, stack)
  BY <1>1, <1>2 DEF Calling, Evaluating
<1>6. Linking
  BY <1>1, <1>2 DEF Linking
<1>7. Closing = {}
  <2>1. Framed
    BY <1>2, <1>4, <1>5 DEF Framed
  <2> QED BY <1>1, <2>1, ClosingFramed DEF ClosingTold, Calls
<1>8. Finished = {}
  BY <1>1, <1>7 DEF Finished
<1>9. Ready
  BY <1>8 DEF Ready
<1>10. Spoiled
  BY DEF Init, Spoiled
<1> QED BY <1>4, <1>5, <1>6, <1>9, <1>10 DEF IInv

LEMMA NextIInv == ASSUME IInv, QuietHost, [Next]_vars PROVE IInv'
<1>1. CASE UNCHANGED vars
  <2>1. /\ UNCHANGED <<imports, resolved, state, ancestor, scope, names, bound, code, stack>>
    BY <1>1 DEF vars
  <2>2. Closing' = Closing
    BY <2>1 DEF Closing, Searches
  <2>3. Finished' = Finished
    BY <2>1, <2>2 DEF Finished
  <2>4. Types'
    BY <2>1 DEF IInv, Types
  <2>5. Linking'
    BY <2>1, <2>3 DEF IInv, Linking
  <2>6. Ready'
    BY <2>1, <2>3 DEF IInv, Ready
  <2>7. Spoiled'
    BY <2>1, <2>2 DEF IInv, Spoiled, Doomed, At, Calls, Top
  <2>8. Calling(imports, stack)' /\ Evaluating(imports, state, stack)'
    BY <2>1 DEF IInv
  <2> QED BY <2>4, <2>5, <2>6, <2>7, <2>8 DEF IInv
<1>2. CASE HostCalling
  <2>1. PICK m \in Module : Link(m) \/ Evaluate(m) \/ Refused(m)
    BY <1>2 DEF HostCalling
  <2>2. CASE Refused(m)
    BY <1>1, <2>2 DEF Refused
  <2> QED BY <2>1, <2>2, LinkPreserves, EvaluatePreserves
<1>3. CASE ResolveEnds
  BY <1>3, HostResolvesPreserves, HostRefusesPreserves DEF ResolveEnds
<1>4. CASE HostReturns
  BY <1>4, HostReturnsPreserves
<1>5. CASE BodyEnds
  BY <1>5, BodyEndsPreserves
<1>6. CASE Engine
  <2>1. CASE ResolveKnown
    BY <2>1, ResolveKnownPreserves
  <2>2. CASE AskHost
    BY <2>2, AskHostPreserves
  <2>3. CASE AllResolved
    BY <2>3, AllResolvedPreserves
  <2>4. CASE VisitUnlinked
    BY <2>4, VisitUnlinkedPreserves
  <2>5. CASE VisitOther
    BY <2>5, VisitOtherPreserves
  <2>6. CASE ReturnToParent
    BY <2>6, ReturnToParentPreserves
  <2>7. CASE CloseCircle
    BY <2>7, CloseCirclePreserves
  <2>8. CASE CreateNames
    BY <2>8, CreateNamesPreserves
  <2>9. CASE NamesFail
    BY <2>9, NamesFailPreserves
  <2>10. CASE ConnectImports
    BY <2>10, ConnectImportsPreserves
  <2>11. CASE ConnectFails
    BY <2>11, ConnectFailsPreserves
  <2>12. CASE CloseItem
    BY <2>12, CloseItemPreserves
  <2>13. CASE LinkError
    BY <2>13, LinkErrorPreserves
  <2>14. CASE LinkReturns
    BY <2>14, LinkReturnsPreserves
  <2>15. CASE SkipImport
    BY <2>15, SkipImportPreserves
  <2>16. CASE ImportInError
    BY <2>16, ImportInErrorPreserves
  <2>17. CASE EvaluateImport
    BY <2>17, EvaluateImportPreserves
  <2>18. CASE RunBody
    BY <2>18, RunBodyPreserves
  <2>19. CASE EvaluateReturns("evaluated") \/ EvaluateReturns("error")
    BY <2>19, EvaluateReturnsPreserves
  <2> QED BY <1>6, <2>1, <2>2, <2>3, <2>4, <2>5, <2>6, <2>7, <2>8, <2>9, <2>10, <2>11, <2>12, <2>13,
             <2>14, <2>15, <2>16, <2>17, <2>18, <2>19 DEF Engine
<1> QED BY <1>1, <1>2, <1>3, <1>4, <1>5, <1>6 DEF Next

\* The invariant holds throughout, whatever the graph and wherever linking or evaluation
\* fails.
THEOREM Inductive == ASSUME QuietHost PROVE Spec => []IInv
<1>1. Init => IInv
  BY InitIInv
<1>2. IInv /\ [Next]_vars => IInv'
  BY NextIInv
<1> QED BY <1>1, <1>2, PTL DEF Spec

-----------------------------------------------------------------------------
(* What follows from the invariant.                                        *)

LEMMA IInvTypeOK == IInv => TypeOK
<1> SUFFICES ASSUME IInv PROVE TypeOK
  OBVIOUS
<1>1. /\ imports \in Graphs /\ state \in [Module -> ModuleState]
      /\ ancestor \in [Module -> 0 .. Cardinality(Module)]
      /\ {scope, names, bound, code} \subseteq [Module -> BOOLEAN]
  BY DEF IInv, Types
<1>2. \A m \in Module : resolved[m] \in 0 .. Len(imports[m])
  <2> SUFFICES ASSUME NEW m \in Module PROVE resolved[m] \in 0 .. Len(imports[m])
    OBVIOUS
  <2>1. resolved[m] \in Nat /\ resolved[m] <= Len(imports[m])
    BY DEF IInv, Types
  <2>2. Len(imports[m]) \in Nat
    BY GraphOf DEF IInv, WellFormed
  <2> QED BY <2>1, <2>2
<1>3. stack \in Seq(Frame) /\ DOMAIN stack = 1 .. Len(stack)
  BY LenProperties DEF IInv, Types
<1>4. ASSUME NEW k \in Searches PROVE OnStack(stack[k]) \subseteq Module
  <2>1. stack[k] \in LinkFrame
    BY <1>3, <1>4, ElementOfSeq, FrameKinds DEF Searches
  <2>2. DOMAIN stack[k].items = 1 .. Len(stack[k].items)
    BY <2>1, SearchFields
  <2> QED BY <2>1, <2>2, SearchFields DEF OnStack, Mod
<1>5. ASSUME NEW k \in Evaluations PROVE stack[k].module \in Module
  <2>1. stack[k] \in EvaluateFrame
    BY <1>3, <1>5, ElementOfSeq, FrameKinds DEF Evaluations
  <2> QED BY <2>1 DEF EvaluateFrame
<1> QED BY <1>1, <1>2, <1>4, <1>5 DEF TypeOK

LEMMA IInvOwners == IInv => TransitionsHaveOwner
<1> SUFFICES ASSUME IInv PROVE TransitionsHaveOwner
  OBVIOUS
<1>1. stack \in Seq(Frame) /\ DOMAIN stack = 1 .. Len(stack)
  BY LenProperties DEF IInv, Types
<1>2. ASSUME NEW k \in Searches
      PROVE  /\ k \in 1 .. Len(stack) /\ stack[k].call = "link"
             /\ \A m : m \in OnStack(stack[k]) <=> \E i \in 1 .. Len(stack[k].items) : m = Mod(stack[k], i)
             /\ \A m \in OnStack(stack[k]) : m \in Module /\ state[m] \in {"linking", "error"}
  <2>1. k \in 1 .. Len(stack) /\ stack[k].call = "link"
    BY <1>1, <1>2 DEF Searches
  <2>2. stack[k] \in LinkFrame
    BY <1>1, <2>1, ElementOfSeq, FrameKinds
  <2>3. DOMAIN stack[k].items = 1 .. Len(stack[k].items)
    BY <2>2, SearchFields
  <2>4. \A m : m \in OnStack(stack[k]) <=> \E i \in 1 .. Len(stack[k].items) : m = Mod(stack[k], i)
    BY <2>3 DEF OnStack, Mod
  <2>5. Searching(stack[k], imports, state, ancestor, scope, names, bound, Finished)
    BY <2>1 DEF IInv, Linking
  <2>6. \A i \in 1 .. Len(stack[k].items) : state[Mod(stack[k], i)] \in {"linking", "error"}
    <3>1. CASE stack[k].step = "end"
      <4>1. Len(stack[k].items) = 0
        BY <2>2, <2>5, <3>1, SearchFields DEF Searching
      <4> QED BY <4>1
    <3>2. CASE stack[k].step = "error"
      BY <2>5, <3>2 DEF Searching
    <3>3. CASE stack[k].step \notin {"error", "end"}
      BY <2>5, <3>3 DEF Searching, Items
    <3> QED BY <3>1, <3>2, <3>3
  <2> QED BY <2>1, <2>2, <2>4, <2>6, SearchFields
<1>3. \A m \in Module : state[m] = "linking" <=> \E k \in Searches : m \in OnStack(stack[k]) /\ state[m] # "error"
  <2>1. ASSUME NEW m \in Module, state[m] = "linking"
        PROVE  \E k \in Searches : m \in OnStack(stack[k]) /\ state[m] # "error"
    <3>1. PICK k \in 1 .. Len(stack) : /\ stack[k].call = "link"
                                       /\ \E i \in 1 .. Len(stack[k].items) : m = Mod(stack[k], i)
      BY <2>1 DEF IInv, Linking
    <3>2. k \in Searches
      BY <1>1, <3>1 DEF Searches
    <3> QED BY <1>2, <2>1, <3>1, <3>2
  <2> QED BY <1>2, <2>1
<1>4. {m \in Module : state[m] = "linking"} =
           UNION {{m \in OnStack(stack[k]) : state[m] # "error"} : k \in Searches}
  <2>1. \A k \in Searches : OnStack(stack[k]) \subseteq Module
    BY <1>2
  <2> QED BY <1>3, <2>1
<1>5. ASSUME NEW m \in Module
      PROVE  Cardinality({k \in Evaluations : /\ stack[k].module = m
                                              /\ stack[k].step \in {"imports", "body"}})
               = IF state[m] = "evaluating" THEN 1 ELSE 0
  <2> PICK active : active = {k \in Evaluations : /\ stack[k].module = m
                                                  /\ stack[k].step \in {"imports", "body"}}
    OBVIOUS
  <2>1. \A k : k \in active <=> k \in 1 .. Len(stack) /\ Active(stack[k]) /\ stack[k].module = m
    BY <1>1 DEF Evaluations, Active
  <2>2. CASE state[m] = "evaluating"
    <3>1. PICK k \in 1 .. Len(stack) : Active(stack[k]) /\ stack[k].module = m
      BY <2>2 DEF IInv, Evaluating
    <3>2. \A l \in active : l = k
      BY <2>1, <3>1 DEF IInv, Evaluating
    <3>3. active = {k}
      BY <2>1, <3>1, <3>2
    <3> QED BY <2>2, <3>3, FS_Singleton
  <2>3. CASE state[m] # "evaluating"
    <3>1. \A k \in 1 .. Len(stack) : Active(stack[k]) => state[stack[k].module] = "evaluating"
      BY DEF IInv, Evaluating, Active
    <3>2. active = {}
      BY <2>1, <2>3, <3>1
    <3> QED BY <2>3, <3>2, FS_EmptySet
  <2> QED BY <2>2, <2>3
<1> QED BY <1>4, <1>5 DEF TransitionsHaveOwner

\* Leads is what the abstract specification calls Reach.
LEMMA ReachIs == ASSUME NEW m PROVE Graph!Reach(m) = Leads(imports, m)
<1>1. \A closed \in SUBSET Module :
         (\A x \in closed : [y \in Module |-> ImportsOf(y)][x] \subseteq closed) <=> Closed(imports, closed)
  BY DEF Closed, ImportsOf
<1> QED BY <1>1 DEF Graph!Reach, Leads

LEMMA IInvReady == IInv => ReadyWhenLinked
<1> SUFFICES ASSUME IInv, NEW m \in Module, state[m] \in {"linked", "evaluating", "evaluated"},
                    NEW n \in Graph!Reach(m)
             PROVE  scope[n] /\ names[n] /\ bound[n]
  BY DEF ReadyWhenLinked
<1>1. m \in Finished
  BY DEF Finished
<1>2. n \in Leads(imports, m)
  BY ReachIs
<1> QED BY <1>1, <1>2 DEF IInv, Ready

LEMMA IInvNamesOnce == IInv => NamesOnce
<1> SUFFICES ASSUME IInv PROVE NamesOnce
  OBVIOUS
<1>1. ASSUME Calls("link"), Top.step \in {"names", "connect"}, NEW m \in From(Top.circle)
      PROVE  (Top.step = "names" => ~names[m]) /\ (Top.step = "connect" => ~bound[m])
  <2>1. Circling(Top, imports, Finished, scope, names, bound)
    BY <1>1, CircleIs
  <2>2. PICK i \in Top.circle .. Len(Top.items) : m = Mod(Top, i)
    BY <1>1 DEF From, Mod
  <2> QED BY <1>1, <2>1, <2>2 DEF Circling
<1> QED BY <1>1 DEF NamesOnce, At

\* Every variable of linking and evaluation has its type.
THEOREM TypesCorrect == ASSUME QuietHost PROVE Spec => []TypeOK
BY Inductive, IInvTypeOK, PTL

\* A module is in a state of transition exactly while a call that will end this state is in
\* progress: an error unwinds the search completely, and no two calls work at a module.
THEOREM OwnersKnown == ASSUME QuietHost PROVE Spec => []TransitionsHaveOwner
BY Inductive, IInvOwners, PTL

\* A module that the host can evaluate leads only to modules whose scopes, names and
\* bindings are complete.
THEOREM LinkedIsReady == ASSUME QuietHost PROVE Spec => []ReadyWhenLinked
BY Inductive, IInvReady, PTL

\* The namespace object of a module is filled, and its imports are bound, only once.
THEOREM NamesFilledOnce == ASSUME QuietHost PROVE Spec => []NamesOnce
BY Inductive, IInvNamesOnce, PTL

-----------------------------------------------------------------------------
(* Linking and evaluation implement ModuleStates.                          *)

\* The state that the abstract specification sees.
Seen(st, closing) == [m \in Module |-> IF st[m] # "linking" THEN st[m]
                                       ELSE IF m \in closing THEN "linked" ELSE "unlinked"]

LEMMA AbstractIs == AbstractState = Seen(state, Closing)
BY DEF AbstractState, Seen

LEMMA AbstractIsPrime == AbstractState' = Seen(state', Closing')
BY DEF AbstractState, Seen

\* Nothing is about to be announced while no circle is being closed.
Unannounced == IInv /\ (Calls("link") => Top.step # "close")
NoneClosing == Closing = {}

LEMMA NotClosing == ASSUME Unannounced PROVE NoneClosing
<1>0. IInv /\ (Calls("link") => Top.step # "close")
  BY DEF Unannounced
<1>1. CASE Calls("link")
  BY <1>0, <1>1, InSearch DEF ClosingOf, NoneClosing
<1>2. CASE ~Calls("link")
  <2>1. stack # <<>> => Top = stack[1] /\ 1 \in 1 .. Len(stack)
    BY <1>0, TopFrame DEF IInv
  <2>2. CASE stack # <<>> /\ Resolving(Top)
    <3>1. Calls("host") /\ Top.place = "resolve"
      BY <2>2 DEF Calls, Resolving
    <3> PICK s : s = stack[2]
      OBVIOUS
    <3> QED BY <1>0, <3>1, InCallback DEF NoneClosing
  <2>3. CASE ~(stack # <<>> /\ Resolving(Top))
    BY <1>0, <1>2, <2>3, NoSearch DEF NoneClosing
  <2> QED BY <2>2, <2>3
<1> QED BY <1>1, <1>2

LEMMA NotClosingPrime == ASSUME Unannounced' PROVE NoneClosing'
BY NotClosing, PTL

\* The frame f lies on top after a step.
LEMMA TopIs ==
  ASSUME NEW f, NEW s \in Seq(Frame), Pushed(s, stack', f), IInv'
  PROVE  Top' = f
<1>1. <<f>> \in Seq(Frame \cup {f}) /\ Len(<<f>>) = 1 /\ <<f>>[1] = f
  OBVIOUS
<1>2. s \in Seq(Frame \cup {f}) /\ Len(s) \in Nat
  BY LenProperties
<1>3. /\ Len(<<f>> \o s) = 1 + Len(s)
      /\ \A i \in 1 .. 1 + Len(s) : (<<f>> \o s)[i] = IF i <= 1 THEN <<f>>[i] ELSE s[i - 1]
  BY <1>1, <1>2, ConcatProperties
<1>4. Len(stack') = 1 + Len(s) /\ stack'[1] = f
  BY <1>1, <1>2, <1>3 DEF Pushed
<1>5. stack' # <<>> => Head(stack') = stack'[1]
  <2>1. stack' \in Seq(Frame)
    BY DEF IInv, Types
  <2> QED BY <2>1, PopFrame
<1>6. stack' # <<>>
  BY <1>2, <1>4
<1> QED BY <1>4, <1>5, <1>6 DEF Top

\* A step that the abstract specification does not see.
Unseen == imports' = imports /\ AbstractState' = AbstractState

\* A search and its callbacks move modules between unlinked and linking only.
Inward(st, st2) ==
  \A m \in Module : \/ st2[m] = st[m]
                    \/ st[m] \in {"unlinked", "linking"} /\ st2[m] \in {"unlinked", "linking"}

LEMMA PushUnseen ==
  ASSUME IInv', NoneClosing, NEW s \in Seq(Frame), NEW f, Pushed(s, stack', f),
         f.call = "link" => f.step # "close", imports' = imports, Inward(state, state')
  PROVE  Unseen
<1>1. Top' = f
  BY TopIs
<1>2. Unannounced'
  BY <1>1 DEF Unannounced, Calls
<1>3. Closing = {} /\ Closing' = {}
  BY <1>2, NotClosingPrime DEF NoneClosing
<1>4. \A m \in Module : Seen(state', {})[m] = Seen(state, {})[m]
  BY DEF Seen, Inward
<1>5. Seen(state', {}) = Seen(state, {})
  BY <1>4 DEF Seen
<1> QED BY <1>3, <1>5, AbstractIs, AbstractIsPrime DEF Unseen

\* The steps of a search that change the frame on top and leave the modules as they are.
LEMMA FrameUnseen ==
  ASSUME IInv, IInv', Calls("link"), Top.step # "close", NEW f, Become(f), f.step # "close",
         imports' = imports, Inward(state, state')
  PROVE  Unseen
<1>1. Tail(stack) \in Seq(Frame)
  <2>1. stack \in Seq(Frame) /\ stack # <<>>
    BY DEF IInv, Types, Calls
  <2> QED BY <2>1, PopFrame
<1>2. Pushed(Tail(stack), stack', f)
  BY DEF Become, Pushed
<1>3. NoneClosing
  BY NotClosing DEF Unannounced
<1> QED BY <1>1, <1>2, <1>3, PushUnseen

LEMMA ResolvingUnseen ==
  ASSUME IInv, IInv', ResolveKnown \/ AllResolved
  PROVE  Unseen
<1> PICK s : s = Top
  OBVIOUS
<1>1. Calls("link") /\ s.step = "resolve" /\ UNCHANGED <<imports, state>>
  BY DEF ResolveKnown, AllResolved, At, linkage
<1>2. s \in LinkFrame
  BY <1>1, InSearch
<1>3. PICK f : Become(f) /\ (f = TakeModule(s) \/ f = [s EXCEPT !.step = "visit"])
  BY DEF ResolveKnown, AllResolved
<1>4. f.step # "close"
  <2>1. \/ f = [s EXCEPT !.step = "error"] \/ f = [s EXCEPT !.request = @ + 1]
        \/ f = [s EXCEPT !.step = "visit"]
    BY <1>3 DEF TakeModule
  <2> QED BY <1>1, <1>2, <2>1 DEF LinkFrame
<1>9. Inward(state, state')
  BY <1>1 DEF Inward
<1> QED BY <1>1, <1>3, <1>4, <1>9, FrameUnseen

LEMMA VisitOtherUnseen ==
  ASSUME IInv, IInv', VisitOther
  PROVE  Unseen
<1> PICK s : s = Top
  OBVIOUS
<1>1. Calls("link") /\ s.step = "visit" /\ UNCHANGED <<imports, state>>
  BY DEF VisitOther, Visiting, At
<1>2. s \in LinkFrame /\ s.current \in 1 .. Len(s.items)
  BY <1>1, CurrentIs
<1> PICK f : f = [s EXCEPT !.items[s.current].node = @ + 1]
  OBVIOUS
<1>3. Become(f)
  BY DEF VisitOther
<1>4. f.step # "close"
  BY <1>1, <1>2, NodeVisited DEF Onward
<1>9. Inward(state, state')
  BY <1>1 DEF Inward
<1> QED BY <1>1, <1>3, <1>4, <1>9, FrameUnseen

LEMMA ReturnUnseen ==
  ASSUME IInv, IInv', ReturnToParent \/ CloseCircle
  PROVE  Unseen
<1> PICK s : s = Top
  OBVIOUS
<1>1. Calls("link") /\ s.step = "visit" /\ UNCHANGED <<imports, state>>
  BY DEF ReturnToParent, CloseCircle, Visited, At
<1>2. s \in LinkFrame
  BY <1>1, InSearch
<1>3. PICK f : /\ Become(f)
               /\ \/ f = [s EXCEPT !.current = Current.parent]
                  \/ f = [s EXCEPT !.step = "names", !.circle = s.current, !.current = Current.parent]
  BY DEF ReturnToParent, CloseCircle
<1>4. f.step # "close"
  BY <1>1, <1>2, <1>3 DEF LinkFrame
<1>9. Inward(state, state')
  BY <1>1 DEF Inward
<1> QED BY <1>1, <1>3, <1>4, <1>9, FrameUnseen

LEMMA NamesUnseen ==
  ASSUME IInv, IInv', CreateNames
  PROVE  Unseen
<1> PICK s : s = Top
  OBVIOUS
<1>1. Calls("link") /\ s.step = "names" /\ UNCHANGED <<imports, state>>
  BY DEF CreateNames, At
<1>2. s \in LinkFrame
  BY <1>1, InSearch
<1> PICK f : f = [s EXCEPT !.step = "connect"]
  OBVIOUS
<1>3. Become(f)
  BY DEF CreateNames
<1>4. f.step # "close"
  BY <1>1, <1>2 DEF LinkFrame
<1>9. Inward(state, state')
  BY <1>1 DEF Inward
<1> QED BY <1>1, <1>3, <1>4, <1>9, FrameUnseen

LEMMA VisitUnlinkedUnseen ==
  ASSUME IInv, IInv', VisitUnlinked
  PROVE  Unseen
<1> PICK s : s = Top
  OBVIOUS
<1>1. /\ Calls("link") /\ s.step = "visit" /\ imports' = imports /\ state[NextImport] = "unlinked"
      /\ state' = [state EXCEPT ![NextImport] = "linking"]
  BY DEF VisitUnlinked, Visiting, At
<1>2. s \in LinkFrame
  BY <1>1, InSearch
<1> PICK items : items = Append([s.items EXCEPT ![s.current].node = @ + 1],
                                Item(NextImport, s.current, s.index + 1))
  OBVIOUS
<1> PICK f : f = [s EXCEPT !.step = "resolve", !.items = items, !.current = Len(s.items) + 1,
                           !.index = @ + 1, !.request = 1]
  OBVIOUS
<1>3. Become(f)
  BY DEF VisitUnlinked
<1>4. f.step = "resolve"
  BY <1>2 DEF LinkFrame
<1>5. Inward(state, state')
  <2>1. state \in [Module -> ModuleState]
    BY DEF IInv, Types
  <2> QED BY <1>1, <2>1 DEF Inward
<1>6. f.step # "close" /\ Top.step # "close"
  BY <1>1, <1>4
<1> QED BY <1>1, <1>3, <1>5, <1>6, FrameUnseen

LEMMA AskHostUnseen ==
  ASSUME IInv, IInv', AskHost
  PROVE  Unseen
<1> PICK f : f = Callback("resolve")
  OBVIOUS
<1>1. /\ Calls("link") /\ Top.step = "resolve" /\ UNCHANGED <<imports, state>>
      /\ Pushed(stack, stack', f)
  BY DEF AskHost, At, linkage, Pushed
<1>2. f.call # "link" /\ stack \in Seq(Frame)
  BY DEF Callback, IInv, Types
<1>3. NoneClosing
  BY <1>1, NotClosing DEF Unannounced
<1>4. Inward(state, state')
  BY <1>1 DEF Inward
<1> QED BY <1>1, <1>2, <1>3, <1>4, PushUnseen

LEMMA ResolveEndsUnseen ==
  ASSUME IInv, IInv', ResolveEnds
  PROVE  Unseen
<1> PICK s : s = stack[2]
  OBVIOUS
<1>1. /\ Calls("host") /\ Top.place = "resolve" /\ UNCHANGED <<imports, state>>
      /\ \E f : /\ Pushed(Tail(Tail(stack)), stack', f)
                /\ f = TakeModule(s) \/ f = [s EXCEPT !.step = "error"]
  BY DEF ResolveEnds, HostResolves, HostRefuses, linkage, Pushed
<1>2. s \in LinkFrame /\ s.step = "resolve" /\ stack \in Seq(Frame) /\ Len(stack) \in Nat /\ Len(stack) > 1
      /\ Closing = {}
  BY <1>1, InCallback
<1>3. PICK f : /\ Pushed(Tail(Tail(stack)), stack', f)
               /\ f = TakeModule(s) \/ f = [s EXCEPT !.step = "error"]
  BY <1>1
<1>4. f.step # "close"
  <2>1. f = [s EXCEPT !.step = "error"] \/ f = [s EXCEPT !.request = @ + 1]
    BY <1>3 DEF TakeModule
  <2> QED BY <1>2, <2>1 DEF LinkFrame
<1>5. Tail(Tail(stack)) \in Seq(Frame)
  <2>1. stack # <<>> /\ Len(Tail(stack)) = Len(stack) - 1 /\ Tail(stack) \in Seq(Frame)
    BY <1>2, PopFrame, EmptySeq
  <2>2. Tail(stack) # <<>>
    <3>1. Len(Tail(stack)) # 0
      BY <1>2, <2>1
    <3> QED BY <3>1, EmptySeq
  <2> QED BY <2>1, <2>2, PopFrame
<1>6. NoneClosing /\ Inward(state, state')
  BY <1>1, <1>2 DEF NoneClosing, Inward
<1> QED BY <1>1, <1>3, <1>4, <1>5, <1>6, PushUnseen

LEMMA LinkUnseen ==
  ASSUME IInv, IInv', QuietHost, NEW m \in Module, Link(m)
  PROVE  Unseen
<1> PICK f : f = Search(m)
  OBVIOUS
<1>1. /\ HostRuns /\ state[m] = "unlinked" /\ state' = [state EXCEPT ![m] = "linking"]
      /\ Pushed(stack, stack', f) /\ imports' = imports
  BY DEF Link, Pushed
<1>2. ~Calls("link") /\ stack \in Seq(Frame) /\ state \in [Module -> ModuleState]
  BY <1>1, HostSide DEF IInv, Types
<1>3. NoneClosing
  BY <1>2, NotClosing DEF Unannounced
<1>4. Inward(state, state')
  BY <1>1, <1>2 DEF Inward
<1>5. f.step # "close"
  BY DEF Search
<1> QED BY <1>1, <1>2, <1>3, <1>4, <1>5, PushUnseen

-----------------------------------------------------------------------------
(* Without a search.                                                       *)

\* Where no module is being linked, the abstract specification sees what there is.
LEMMA AllSeen ==
  ASSUME NEW st \in [Module -> ModuleState], NEW closing, \A m \in Module : st[m] # "linking"
  PROVE  Seen(st, closing) = st
<1>1. \A m \in Module : Seen(st, closing)[m] = st[m]
  BY DEF Seen
<1> QED BY <1>1 DEF Seen

\* A search that failed leaves nothing behind.
LEMMA LinkErrorUnseen ==
  ASSUME IInv, IInv', LinkError
  PROVE  Unseen
<1> PICK s : s = Top
  OBVIOUS
<1>1. /\ Calls("link") /\ s.step = "error" /\ imports' = imports
      /\ state' = [m \in Module |-> IF m \in OnStack(s) /\ state[m] # "error"
                                    THEN "unlinked" ELSE state[m]]
  BY DEF LinkError, At, linkage
<1>2. Closing = {}
  BY <1>1, NotClosing DEF Unannounced, NoneClosing
<1>3. /\ s \in LinkFrame /\ Searching(s, imports, state, ancestor, scope, names, bound, Finished)
      /\ \A m \in Module : state[m] = "linking" => \E i \in 1 .. Len(s.items) : m = Mod(s, i)
  BY <1>1, InSearch
<1>4. DOMAIN s.items = 1 .. Len(s.items)
  BY <1>3, SearchFields
<1>5. \A m \in Module : /\ m \in OnStack(s) => state[m] \in {"linking", "error"}
                        /\ state[m] = "linking" => m \in OnStack(s)
  BY <1>1, <1>3, <1>4 DEF OnStack, Mod, Searching
<1>6. state' \in [Module -> ModuleState] /\ \A m \in Module : state'[m] # "linking"
  <2>1. state' \in [Module -> ModuleState]
    BY DEF IInv, Types
  <2> QED BY <1>1, <1>5, <2>1
<1>7. Seen(state', Closing') = state'
  BY <1>6, AllSeen
<1>8. \A m \in Module : Seen(state, {})[m] = state'[m]
  BY <1>1, <1>5 DEF Seen
<1>9. Seen(state, {}) = state'
  BY <1>6, <1>8 DEF Seen
<1> QED BY <1>1, <1>2, <1>7, <1>9, AbstractIs, AbstractIsPrime DEF Unseen

\* What a step does to the modules where no search is in progress.
LEMMA OutsideSeen ==
  ASSUME IInv, ~Calls("link"), stack # <<>> => ~Resolving(Top), state' \in [Module -> ModuleState],
         \A m \in Module : state'[m] = "linking" => state[m] = "linking"
  PROVE  AbstractState = state /\ AbstractState' = state'
<1>1. state \in [Module -> ModuleState] /\ \A m \in Module : state[m] # "linking"
  BY NoSearch DEF IInv, Types
<1>2. Seen(state, Closing) = state /\ Seen(state', Closing') = state'
  BY <1>1, AllSeen
<1> QED BY <1>2, AbstractIs, AbstractIsPrime

LEMMA LinkReturnsUnseen ==
  ASSUME IInv, IInv', LinkReturns
  PROVE  Unseen
<1> PICK s : s = Top
  OBVIOUS
<1>1. Calls("link") /\ s.step = "end" /\ UNCHANGED <<imports, state>>
  BY DEF LinkReturns, At, linkage
<1>2. /\ s \in LinkFrame /\ Searching(s, imports, state, ancestor, scope, names, bound, Finished)
      /\ \A m \in Module : state[m] = "linking" => \E i \in 1 .. Len(s.items) : m = Mod(s, i)
  BY <1>1, InSearch
<1>3. Len(s.items) = 0
  BY <1>1, <1>2, SearchFields DEF Searching
<1>4. state \in [Module -> ModuleState] /\ \A m \in Module : state[m] # "linking"
  BY <1>2, <1>3 DEF IInv, Types
<1>5. Seen(state, Closing) = state /\ Seen(state', Closing') = state'
  BY <1>1, <1>4, AllSeen
<1> QED BY <1>1, <1>5, AbstractIs, AbstractIsPrime DEF Unseen

\* The steps of an evaluation that leave the modules as they are.
LEMMA EvaluationUnseen ==
  ASSUME IInv, IInv', HostReturns \/ SkipImport \/ RunBody
  PROVE  Unseen
<1>1. ~Calls("link") /\ ~Resolving(Top) /\ UNCHANGED <<imports, state>>
  BY DEF HostReturns, SkipImport, RunBody, Importing, At, Calls, Resolving, linkage
<1>2. state' \in [Module -> ModuleState]
  BY DEF IInv, Types
<1>3. AbstractState = state /\ AbstractState' = state'
  BY <1>1, <1>2, OutsideSeen
<1> QED BY <1>1, <1>3 DEF Unseen

-----------------------------------------------------------------------------
(* The steps that the abstract specification sees.                         *)

\* The imports as the abstract specification knows them.
LEMMA ImportedModules ==
  ASSUME WellFormed(imports)
  PROVE  /\ [m \in Module |-> ImportsOf(m)] \in [Module -> SUBSET Module]
         /\ \A m \in Module : [y \in Module |-> ImportsOf(y)][m] = ImportsOf(m)
         /\ \A m \in Module : \A x : x \in ImportsOf(m) <=> \E j \in 1 .. Len(imports[m]) : x = imports[m][j]
<1>1. \A m \in Module : \A x : x \in ImportsOf(m) <=> \E j \in 1 .. Len(imports[m]) : x = imports[m][j]
  <2> SUFFICES ASSUME NEW m \in Module
               PROVE  \A x : x \in ImportsOf(m) <=> \E j \in 1 .. Len(imports[m]) : x = imports[m][j]
    OBVIOUS
  <2>1. imports[m] \in Seq(Module)
    BY DEF WellFormed
  <2> QED BY <2>1, Listed DEF ImportsOf
<1>2. ASSUME NEW m \in Module, NEW x \in ImportsOf(m) PROVE x \in Module
  <2>1. PICK j \in 1 .. Len(imports[m]) : x = imports[m][j]
    BY <1>1
  <2> QED BY <2>1 DEF WellFormed
<1> QED BY <1>1, <1>2

\* Reach of the abstract specification, as it is instantiated for the refinement.
LEMMA PromiseReach == ASSUME NEW m PROVE Promise!Reach(m) = Leads(imports, m)
<1>1. \A closed \in SUBSET Module :
         (\A x \in closed : [y \in Module |-> ImportsOf(y)][x] \subseteq closed) <=> Closed(imports, closed)
  BY DEF Closed, ImportsOf
<1> QED BY <1>1 DEF Promise!Reach, Leads

\* The modules of the circle lead to each other, and to no other module that leads back.
LEMMA WholeCircle ==
  ASSUME IInv, Calls("link"), Top.step = "connect", NEW circle, circle = CircleOf(Top)
  PROVE  /\ circle \in SUBSET Module /\ circle # {}
         /\ \A m \in circle : state[m] = "linking"
         /\ \A m \in circle : ImportsOf(m) \subseteq circle \cup Finished
         /\ \A m \in circle : {x \in Leads(imports, m) : m \in Leads(imports, x)} = circle
<1> PICK s : s = Top
  OBVIOUS
<1>1. /\ s \in LinkFrame /\ Circling(s, imports, Finished, scope, names, bound)
      /\ s.circle \in 1 .. Len(s.items) /\ Len(s.items) \in Nat
      /\ \A i \in s.circle .. Len(s.items) : i \in 1 .. Len(s.items)
      /\ \A i \in 1 .. Len(s.items) : Mod(s, i) \in Module /\ state[Mod(s, i)] = "linking"
  BY CircleIs
<1>2. Finished = {m \in Module : state[m] \in LinkedStates} /\ Finished \in SUBSET Module
  BY InSearch DEF ClosingOf
<1>3. circle \in SUBSET Module /\ (\A m \in circle : state[m] = "linking")
  BY <1>1 DEF CircleOf
<1>4. s.circle \in s.circle .. Len(s.items)
  BY <1>1
<1>5. circle # {}
  BY <1>1, <1>4 DEF CircleOf
<1>6. WellFormed(imports)
  BY GraphOf DEF IInv
<1>7. \A m \in circle : ToSet(imports[m]) \subseteq circle \cup Finished
  <2> SUFFICES ASSUME NEW m \in circle, NEW x \in ToSet(imports[m]) PROVE x \in circle \cup Finished
    OBVIOUS
  <2>1. PICK i \in s.circle .. Len(s.items) : m = Mod(s, i)
    BY DEF CircleOf
  <2>2. x \in Finished \/ \E j \in s.circle .. Len(s.items) : x = Mod(s, j)
    BY <1>1, <2>1 DEF Circling
  <2> QED BY <1>1, <2>2 DEF CircleOf
<1>8. ASSUME NEW m \in circle, NEW x \in circle PROVE x \in Leads(imports, m)
  <2>1. PICK i \in s.circle .. Len(s.items) : m = Mod(s, i)
    BY DEF CircleOf
  <2>2. PICK j \in s.circle .. Len(s.items) : x = Mod(s, j)
    BY DEF CircleOf
  <2> QED BY <1>1, <2>1, <2>2 DEF Circling
<1>9. ASSUME NEW m \in circle, NEW x \in Leads(imports, m), m \in Leads(imports, x)
      PROVE  x \in circle
  <2> SUFFICES ASSUME x \notin circle PROVE FALSE
    OBVIOUS
  <2>1. \A y \in Module : ToSet(imports[y]) \subseteq Module
    BY <1>6, ImportedModules DEF ImportsOf
  <2>2. \E b \in Finished : x \in Leads(imports, b)
    <3>1. m \in circle /\ x \in Leads(imports, m) /\ x \notin circle
      BY <1>9
    <3>2. circle \in SUBSET Module /\ Finished \in SUBSET Module
      BY <1>2, <1>3
    <3> HIDE DEF Finished
    <3> QED BY <1>7, <2>1, <3>1, <3>2, LeadsThrough, ZenonT(60)
  <2>2a. PICK b \in Finished : x \in Leads(imports, b)
    BY <2>2
  <2>3. m \in Leads(imports, b)
    BY <1>9, <2>2a, LeadsOn
  <2>4. m \in Finished \/ state[m] = "error"
    BY <2>3 DEF IInv, Ready
  <2> QED BY <1>2, <1>3, <2>4 DEF LinkedStates
<1>10. \A m \in circle : {x \in Leads(imports, m) : m \in Leads(imports, x)} = circle
  BY <1>8, <1>9
<1> QED BY <1>3, <1>5, <1>7, <1>10 DEF ImportsOf

\* What is to be announced follows from the search on top.
OnSearch == IInv /\ Calls("link")
ClosingShown == Closing = ClosingOf(Top)

LEMMA ShowsClosing == ASSUME OnSearch PROVE ClosingShown
BY InSearch DEF OnSearch, ClosingShown

LEMMA ShowsClosingPrime == ASSUME OnSearch' PROVE ClosingShown'
BY ShowsClosing, PTL

LEMMA SearchClosing ==
  ASSUME IInv, IInv', Calls("link"), NEW f, Become(f), f.call = "link"
  PROVE  Closing' = ClosingOf(f)
<1>1. Tail(stack) \in Seq(Frame)
  <2>1. stack \in Seq(Frame) /\ stack # <<>>
    BY DEF IInv, Types, Calls
  <2> QED BY <2>1, PopFrame
<1>2. Pushed(Tail(stack), stack', f)
  BY DEF Become, Pushed
<1>3. Top' = f
  BY <1>1, <1>2, TopIs
<1>4. stack' # <<>>
  <2>1. <<f>> \in Seq({f}) /\ Len(<<f>>) = 1
    OBVIOUS
  <2>2. Tail(stack) \in Seq(Frame \cup {f}) /\ <<f>> \in Seq(Frame \cup {f})
    BY <1>1
  <2>3. Len(stack') = 1 + Len(Tail(stack)) /\ Len(Tail(stack)) \in Nat
    BY <1>2, <2>1, <2>2, ConcatProperties, LenProperties DEF Pushed
  <2> QED BY <2>3
<1>5. OnSearch'
  BY <1>3, <1>4 DEF OnSearch, Calls
<1>6. ClosingShown'
  BY <1>5, ShowsClosingPrime
<1> QED BY <1>3, <1>6 DEF ClosingShown, ClosingOf

\* Connecting the imports of a circle links the circle as a whole.
LEMMA ConnectLinks ==
  ASSUME IInv, IInv', ConnectImports
  PROVE  imports' = imports /\ \E circle \in SUBSET Module : Promise!Link(circle)
<1> PICK s : s = Top
  OBVIOUS
<1> PICK circle : circle = CircleOf(s)
  OBVIOUS
<1> PICK f : f = [s EXCEPT !.step = "close"]
  OBVIOUS
<1>1. Calls("link") /\ s.step = "connect" /\ UNCHANGED <<imports, state>> /\ Become(f)
  BY DEF ConnectImports, At
<1>2. /\ circle \in SUBSET Module /\ circle # {}
      /\ \A m \in circle : state[m] = "linking"
      /\ \A m \in circle : ImportsOf(m) \subseteq circle \cup Finished
      /\ \A m \in circle : {x \in Leads(imports, m) : m \in Leads(imports, x)} = circle
  BY <1>1, WholeCircle
<1>3. s \in LinkFrame /\ Finished = {m \in Module : state[m] \in LinkedStates} /\ Closing = {}
  BY <1>1, InSearch DEF ClosingOf
<1>4. /\ f.call = "link" /\ f.step = "close" /\ f.items = s.items /\ f.circle = s.circle
  BY <1>3 DEF LinkFrame
<1>5. Closing' = circle
  <2>1. Closing' = ClosingOf(f)
    BY <1>1, <1>4, SearchClosing
  <2>2. \A i : Mod(f, i) = Mod(s, i)
    BY <1>4 DEF Mod
  <2> QED BY <1>4, <2>1, <2>2 DEF ClosingOf, CircleOf
<1>6. AbstractState = Seen(state, {}) /\ AbstractState' = Seen(state, circle)
  BY <1>1, <1>3, <1>5, AbstractIs, AbstractIsPrime
<1>7. Promise!Circle(circle)
  <2> SUFFICES ASSUME NEW m \in circle
               PROVE  Promise!Reach(m) \cap {x \in Module : m \in Promise!Reach(x)} = circle
    BY DEF Promise!Circle
  <2>1. Promise!Reach(m) = Leads(imports, m) /\ \A x : Promise!Reach(x) = Leads(imports, x)
    BY PromiseReach
  <2>2. Leads(imports, m) \subseteq Module
    BY LeadsIn
  <2>3. {x \in Leads(imports, m) : m \in Leads(imports, x)} = circle
    BY <1>2
  <2> QED BY <2>1, <2>2, <2>3
<1>8. ASSUME NEW m \in circle
      PROVE  /\ AbstractState[m] = "unlinked"
             /\ \A i \in ImportsOf(m) \ circle : AbstractState[i] \in {"linked", "evaluating", "evaluated"}
  <2>1. AbstractState[m] = "unlinked"
    BY <1>2, <1>6 DEF Seen
  <2>2. ASSUME NEW i \in ImportsOf(m) \ circle
        PROVE  AbstractState[i] \in {"linked", "evaluating", "evaluated"}
    <3>1. i \in Module /\ state[i] \in LinkedStates
      BY <1>2, <1>3
    <3> QED BY <1>6, <3>1 DEF Seen, LinkedStates
  <2> QED BY <2>1, <2>2
<1>9. AbstractState' = [m \in Module |-> IF m \in circle THEN "linked" ELSE AbstractState[m]]
  BY <1>2, <1>6 DEF Seen
<1>10. \A m \in circle : [y \in Module |-> ImportsOf(y)][m] = ImportsOf(m)
  BY <1>2
<1>11. Promise!Link(circle)
  BY <1>2, <1>7, <1>8, <1>9, <1>10 DEF Promise!Link
<1> QED BY <1>1, <1>2, <1>11

\* The announcements of a circle change nothing any more.
LEMMA CloseItemUnseen ==
  ASSUME IInv, IInv', QuietHost, CloseItem
  PROVE  Unseen
<1> PICK s : s = Top
  OBVIOUS
<1> PICK n : n = Len(s.items)
  OBVIOUS
<1> PICK step : step = IF n > s.circle THEN "close" ELSE IF s.current = 0 THEN "end" ELSE "visit"
  OBVIOUS
<1> PICK f : f = [s EXCEPT !.items = Front(@), !.step = step]
  OBVIOUS
<1>1. /\ Calls("link") /\ s.step = "close" /\ state' = [state EXCEPT ![Last(s.items).module] = "linked"]
      /\ imports' = imports /\ Tell("linked", <<f>> \o Tail(stack))
  BY DEF CloseItem, At, linkage
<1>2. Become(f)
  BY <1>1, QuietTell DEF Become
<1>3. /\ s \in LinkFrame /\ s.circle \in 1 .. n /\ n \in Nat /\ s.items # <<>>
      /\ \A i \in s.circle .. n : i \in 1 .. n
      /\ \A i \in 1 .. n : Mod(s, i) \in Module /\ state[Mod(s, i)] = "linking"
      /\ \A i, j \in 1 .. n : i # j => Mod(s, i) # Mod(s, j)
  BY <1>1, CircleIs DEF Items
<1>4. Shortened(s, f) /\ f.step = step
  <2>1. step \in LinkStep
    BY DEF LinkStep
  <2>2. s \in LinkFrame /\ s.items # <<>>
    BY <1>3
  <2>3. f = [s EXCEPT !.items = Front(@), !.step = step]
    OBVIOUS
  <2> HIDE DEF Front
  <2> QED BY <2>1, <2>2, <2>3, ItemPopped, Zenon
<1>5. /\ f \in LinkFrame /\ f.circle = s.circle /\ Len(f.items) = n - 1
      /\ \A i \in 1 .. n - 1 : Mod(f, i) = Mod(s, i)
  BY <1>4 DEF Shortened
<1>6. Last(s.items).module = Mod(s, n) /\ n \in 1 .. n /\ n \in s.circle .. n
  BY <1>3 DEF Last, Mod
<1>7. \A m \in Module : m \in ClosingOf(f) <=> \E i \in s.circle .. n - 1 : m = Mod(s, i)
  <2>1. CASE n > s.circle
    <3>1. ClosingOf(f) = {x \in Module : \E i \in s.circle .. n - 1 : x = Mod(f, i)}
      BY <1>4, <1>5, <2>1 DEF ClosingOf
    <3>2. \A i \in s.circle .. n - 1 : Mod(f, i) = Mod(s, i)
      BY <1>3, <1>5
    <3> QED BY <3>1, <3>2
  <2>2. CASE ~(n > s.circle)
    <3>1. ClosingOf(f) = {}
      BY <1>4, <2>2 DEF ClosingOf
    <3>2. \A i \in s.circle .. n - 1 : FALSE
      BY <1>3, <2>2
    <3> QED BY <3>1, <3>2
  <2> QED BY <2>1, <2>2
<1>8. Closing = CircleOf(s) /\ Closing' = ClosingOf(f)
  <2>1. f.call = "link"
    BY <1>5, SearchFields
  <2>2. Closing' = ClosingOf(f)
    BY <1>1, <1>2, <2>1, SearchClosing
  <2>3. Closing = ClosingOf(s)
    BY <1>1, InSearch
  <2>4. ClosingOf(s) = CircleOf(s)
    BY <1>1 DEF ClosingOf, CircleOf
  <2> QED BY <2>2, <2>3, <2>4
<1>9. /\ Mod(s, n) \in Module /\ state[Mod(s, n)] = "linking" /\ Mod(s, n) \in CircleOf(s)
      /\ state'[Mod(s, n)] = "linked"
      /\ \A m \in Module : m # Mod(s, n) => state'[m] = state[m]
  <2>1. state \in [Module -> ModuleState]
    BY DEF IInv, Types
  <2> QED BY <1>1, <1>3, <1>6, <2>1 DEF CircleOf
<1>10. \A m \in Module : m # Mod(s, n) => (m \in CircleOf(s) <=> m \in ClosingOf(f))
  <2>1. \A i \in s.circle .. n : i = n \/ i \in s.circle .. n - 1
    BY <1>3
  <2>2. \A i \in s.circle .. n - 1 : i \in s.circle .. n
    BY <1>3
  <2> QED BY <1>7, <2>1, <2>2 DEF CircleOf
<1>11. \A m \in Module : Seen(state', ClosingOf(f))[m] = Seen(state, CircleOf(s))[m]
  <2> SUFFICES ASSUME NEW m \in Module PROVE Seen(state', ClosingOf(f))[m] = Seen(state, CircleOf(s))[m]
    OBVIOUS
  <2>1. CASE m = Mod(s, n)
    BY <1>9, <2>1 DEF Seen
  <2>2. CASE m # Mod(s, n)
    BY <1>9, <1>10, <2>2 DEF Seen
  <2> QED BY <2>1, <2>2
<1>12. Seen(state', ClosingOf(f)) = Seen(state, CircleOf(s))
  <2> HIDE DEF ClosingOf, CircleOf
  <2> QED BY <1>11 DEF Seen
<1> QED BY <1>1, <1>8, <1>12, AbstractIs, AbstractIsPrime DEF Unseen

\* A circle with a module that fails is not linked, and this module has failed for ever.
LEMMA CircleFailsSeen ==
  ASSUME IInv, IInv', Calls("link"), NEW s, s = Top, s.step \in {"names", "connect"}, imports' = imports,
         NEW k \in s.circle .. Len(s.items), state' = [state EXCEPT ![Mod(s, k)] = "error"],
         Become([s EXCEPT !.step = "error"])
  PROVE  Mod(s, k) \in Module /\ Promise!LinkFails(Mod(s, k))
<1> PICK f : f = [s EXCEPT !.step = "error"]
  OBVIOUS
<1> PICK m : m = Mod(s, k)
  OBVIOUS
<1>1. s \in LinkFrame /\ m \in Module /\ state[m] = "linking"
  BY CircleIs
<1>2. f.call = "link" /\ f.step = "error"
  BY <1>1 DEF LinkFrame
<1>3. Closing = {} /\ Closing' = {}
  <2>1. Closing' = ClosingOf(f)
    BY <1>2, SearchClosing
  <2>2. Closing = ClosingOf(s)
    BY InSearch
  <2> QED BY <1>2, <2>1, <2>2 DEF ClosingOf
<1>4. AbstractState = Seen(state, {}) /\ AbstractState' = Seen(state', {})
  BY <1>3, AbstractIs, AbstractIsPrime
<1>5. state \in [Module -> ModuleState] /\ state' = [state EXCEPT ![m] = "error"]
  BY DEF IInv, Types
<1>6. AbstractState[m] = "unlinked"
  BY <1>1, <1>4 DEF Seen
<1>7. AbstractState' = [AbstractState EXCEPT ![m] = "error"]
  <2>1. \A x \in Module : Seen(state', {})[x] = [Seen(state, {}) EXCEPT ![m] = "error"][x]
    BY <1>1, <1>5 DEF Seen
  <2> QED BY <1>4, <2>1 DEF Seen
<1> QED BY <1>1, <1>6, <1>7 DEF Promise!LinkFails

LEMMA LinkFailsSeen ==
  ASSUME IInv, IInv', QuietHost, NamesFail \/ ConnectFails
  PROVE  imports' = imports /\ \E m \in Module : Promise!LinkFails(m)
<1> PICK s : s = Top
  OBVIOUS
<1>1. /\ Calls("link") /\ s.step \in {"names", "connect"} /\ imports' = imports
      /\ \E k \in s.circle .. Len(s.items) : FailsAt(k)
  BY DEF NamesFail, ConnectFails, At
<1>2. PICK k \in s.circle .. Len(s.items) : FailsAt(k)
  BY <1>1
<1>3. state' = [state EXCEPT ![Mod(s, k)] = "error"]
  BY <1>2 DEF FailsAt, Mod
<1>4. Become([s EXCEPT !.step = "error"])
  <2>1. Tell("failed", <<[s EXCEPT !.step = "error"]>> \o Tail(stack))
    BY <1>2 DEF FailsAt
  <2> QED BY <2>1, QuietTell DEF Become
<1> QED BY <1>1, <1>3, <1>4, CircleFailsSeen

-----------------------------------------------------------------------------
(* Evaluation.                                                             *)

\* A linked module is begun, by the host or by the evaluation that imports it.
LEMMA BeginSeen ==
  ASSUME IInv, IInv', QuietHost, (\E m \in Module : Evaluate(m)) \/ EvaluateImport
  PROVE  imports' = imports /\ \E m \in Module : Promise!Begin(m)
<1>1. PICK m \in Module : /\ state[m] = "linked" /\ state' = [state EXCEPT ![m] = "evaluating"]
                          /\ imports' = imports /\ ~Calls("link") /\ (stack # <<>> => ~Resolving(Top))
  <2>1. CASE \E m \in Module : Evaluate(m)
    BY <2>1, HostSide DEF Evaluate, StartEvaluation, linkage
  <2>2. CASE EvaluateImport
    <3>1. Importing
      BY <2>2 DEF EvaluateImport
    <3>2. Imported \in Module /\ state[Imported] \in {"linked", "evaluating", "evaluated", "error"} /\ Calls("evaluate")
      BY <3>1, ImportedIs
    <3>3. ~Calls("link") /\ ~Resolving(Top)
      BY <3>2, EvaluationSide
    <3> QED BY <2>2, <3>2, <3>3 DEF EvaluateImport, StartEvaluation, linkage
  <2> QED BY <2>1, <2>2
<1>2. state \in [Module -> ModuleState] /\ state' \in [Module -> ModuleState]
  BY DEF IInv, Types
<1>3. \A x \in Module : state'[x] = "linking" => state[x] = "linking"
  BY <1>1, <1>2
<1>4. AbstractState = state /\ AbstractState' = state'
  BY <1>1, <1>2, <1>3, OutsideSeen
<1> QED BY <1>1, <1>4 DEF Promise!Begin

\* An evaluation that ends with a result ends the module of the abstract specification.
LEMMA EndSeen ==
  ASSUME IInv, IInv', Calls("evaluate"), NEW m \in Module, state[m] = "evaluating",
         NEW result \in {"evaluated", "error"}, state' = [state EXCEPT ![m] = result]
  PROVE  AbstractState = state /\ AbstractState' = [AbstractState EXCEPT ![m] = result]
<1>1. state \in [Module -> ModuleState] /\ state' \in [Module -> ModuleState]
  BY DEF IInv, Types
<1>2. \A x \in Module : state'[x] = "linking" => state[x] = "linking"
  BY <1>1
<1>3. ~Calls("link") /\ ~Resolving(Top)
  BY EvaluationSide
<1>4. AbstractState = state /\ AbstractState' = state'
  BY <1>1, <1>2, <1>3, OutsideSeen
<1> QED BY <1>4

LEMMA FailSeen ==
  ASSUME IInv, IInv', Calls("evaluate"), NEW m \in Module, state[m] = "evaluating",
         state' = [state EXCEPT ![m] = "error"]
  PROVE  Promise!Fail(m)
BY EndSeen DEF Promise!Fail

\* The body of a module has run: all its imports are evaluated, or are being evaluated.
LEMMA SucceedSeen ==
  ASSUME IInv, IInv', BodyReturns
  PROVE  imports' = imports /\ \E m \in Module : Promise!Succeed(m)
<1> PICK m : m = Top.module
  OBVIOUS
<1>1. /\ Calls("evaluate") /\ Top.step = "body" /\ imports' = imports
      /\ state' = [state EXCEPT ![m] = "evaluated"]
  BY DEF BodyReturns, At, Ends, linkage
<1>2. /\ Top = stack[1] /\ 1 \in 1 .. Len(stack) /\ stack[1].call = "evaluate"
      /\ Stacked(imports, state, stack) /\ WellFormed(imports)
  BY <1>1, EvaluationSide
<1>3. Active(stack[1])
  BY <1>1, <1>2 DEF Active
<1>4. m \in Module /\ state[m] = "evaluating" /\ Top.node \in Nat /\ Top.node > Len(imports[m])
  BY <1>1, <1>2, <1>3, InEvaluation
<1>5. AbstractState = state /\ AbstractState' = [AbstractState EXCEPT ![m] = "evaluated"]
  BY <1>1, <1>4, EndSeen
<1>6. \A j \in 1 .. Len(imports[m]) : state[imports[m][j]] \in {"evaluating", "evaluated"}
  <2> SUFFICES ASSUME NEW j \in 1 .. Len(imports[m])
               PROVE  state[imports[m][j]] \in {"evaluating", "evaluated"}
    OBVIOUS
  <2>1. Len(imports[m]) \in Nat
    BY <1>2, <1>4 DEF WellFormed
  <2>2. j \in 1 .. stack[1].node - 1
    BY <1>2, <1>4, <2>1
  <2>3. \/ state[imports[m][j]] = "evaluated"
        \/ \E l \in 1 .. Len(stack) : Active(stack[l]) /\ stack[l].module = imports[m][j]
    BY <1>2, <1>3, <2>2 DEF Stacked, Evaluating
  <2>4. \A l \in 1 .. Len(stack) : Active(stack[l]) => state[stack[l].module] = "evaluating"
    BY <1>2 DEF Stacked, Evaluating, Active
  <2> QED BY <2>3, <2>4
<1>7. \A i \in ImportsOf(m) : state[i] \in {"evaluating", "evaluated"}
  BY <1>2, <1>4, <1>6, ImportedModules
<1>8. [y \in Module |-> ImportsOf(y)][m] = ImportsOf(m)
  BY <1>4
<1>9. Promise!Succeed(m)
  BY <1>4, <1>5, <1>7, <1>8 DEF Promise!Succeed
<1> QED BY <1>1, <1>4, <1>9

LEMMA EvaluationFailsSeen ==
  ASSUME IInv, IInv', BodyThrows \/ ImportInError
  PROVE  imports' = imports /\ \E m \in Module : Promise!Fail(m)
<1> PICK m : m = Top.module
  OBVIOUS
<1>1. /\ Calls("evaluate") /\ Top.step \in {"imports", "body"} /\ imports' = imports
      /\ state' = [state EXCEPT ![m] = "error"]
  BY DEF BodyThrows, ImportInError, Importing, At, Ends, linkage
<1>2. /\ Top = stack[1] /\ 1 \in 1 .. Len(stack) /\ stack[1].call = "evaluate"
      /\ Stacked(imports, state, stack)
  BY <1>1, EvaluationSide
<1>3. Active(stack[1])
  BY <1>1, <1>2 DEF Active
<1>4. m \in Module /\ state[m] = "evaluating"
  BY <1>2, <1>3, InEvaluation
<1> QED BY <1>1, <1>4, FailSeen

\* An error is passed on to the importer; otherwise the return changes no module.
LEMMA EvaluateReturnsSeen ==
  ASSUME IInv, IInv', NEW result \in {"evaluated", "error"}, EvaluateReturns(result)
  PROVE  Unseen \/ (imports' = imports /\ \E m \in Module : Promise!Fail(m))
<1> PICK i : i = stack[2]
  OBVIOUS
<1> PICK s : s = Tail(stack)
  OBVIOUS
<1>1. Calls("evaluate") /\ Top.step = result /\ imports' = imports
  BY DEF EvaluateReturns, At, linkage
<1>2. (Len(stack) > 1 /\ i.call = "evaluate" /\ i.step = "imports") =>
         i.module \in Module /\ state[i.module] = "evaluating"
  BY <1>1, BelowEvaluation
<1>3. CASE state' = state
  <2>1. ~Calls("link") /\ ~Resolving(Top) /\ state' \in [Module -> ModuleState]
    BY <1>1, EvaluationSide DEF IInv, Types
  <2>2. AbstractState = state /\ AbstractState' = state'
    BY <1>3, <2>1, OutsideSeen
  <2> QED BY <1>1, <1>3, <2>2 DEF Unseen
<1>4. CASE state' # state
  <2>1. /\ Len(stack) > 1 /\ i.call = "evaluate" /\ i.step = "imports"
        /\ state' = [state EXCEPT ![i.module] = "error"]
    BY <1>4 DEF EvaluateReturns
  <2> QED BY <1>1, <1>2, <2>1, FailSeen
<1> QED BY <1>3, <1>4

-----------------------------------------------------------------------------
(* The refinement.                                                         *)

Shown == <<[m \in Module |-> ImportsOf(m)], AbstractState>>

LEMMA InitPromised == Init => Promise!Init
<1> SUFFICES ASSUME Init PROVE Promise!Init
  OBVIOUS
<1>1. IInv
  BY InitIInv
<1>2. [m \in Module |-> ImportsOf(m)] \in [Module -> SUBSET Module]
  BY <1>1, GraphOf, ImportedModules DEF IInv
<1>3. AbstractState = [m \in Module |-> "unlinked"]
  BY DEF Init, AbstractState
<1> QED BY <1>2, <1>3 DEF Promise!Init

\* A step that changes no import and is a step of the abstract specification.
LEMMA Promised ==
  ASSUME imports' = imports,
         \/ \E circle \in SUBSET Module : Promise!Link(circle)
         \/ \E m \in Module : Promise!LinkFails(m) \/ Promise!Begin(m) \/ Promise!Succeed(m) \/ Promise!Fail(m)
  PROVE  Promise!Next
<1>1. [m \in Module |-> ImportsOf(m)]' = [m \in Module |-> ImportsOf(m)]
  BY DEF ImportsOf
<1> QED BY <1>1 DEF Promise!Next

LEMMA UnseenPromised == ASSUME Unseen PROVE UNCHANGED Shown
BY DEF Unseen, Shown, ImportsOf

LEMMA StepPromised ==
  ASSUME IInv, IInv', QuietHost, [Next]_vars
  PROVE  [Promise!Next]_Shown
<1>1. CASE UNCHANGED vars
  <2>1. AbstractState' = AbstractState
    BY <1>1 DEF vars, AbstractState, Closing, Searches
  <2> QED BY <1>1, <2>1, UnseenPromised DEF Unseen, vars
<1>2. CASE HostCalling
  <2>1. PICK m \in Module : Link(m) \/ Evaluate(m) \/ Refused(m)
    BY <1>2 DEF HostCalling
  <2>2. CASE Link(m)
    BY <2>2, LinkUnseen, UnseenPromised
  <2>3. CASE Evaluate(m)
    BY <2>3, BeginSeen, Promised
  <2>4. CASE Refused(m)
    BY <1>1, <2>4 DEF Refused
  <2> QED BY <2>1, <2>2, <2>3, <2>4
<1>3. CASE ResolveEnds
  BY <1>3, ResolveEndsUnseen, UnseenPromised
<1>4. CASE HostReturns
  BY <1>4, EvaluationUnseen, UnseenPromised
<1>5. CASE BodyEnds
  BY <1>5, SucceedSeen, EvaluationFailsSeen, Promised DEF BodyEnds
<1>6. CASE Engine
  <2>1. CASE ResolveKnown \/ AllResolved
    BY <2>1, ResolvingUnseen, UnseenPromised
  <2>2. CASE AskHost
    BY <2>2, AskHostUnseen, UnseenPromised
  <2>3. CASE VisitUnlinked
    BY <2>3, VisitUnlinkedUnseen, UnseenPromised
  <2>4. CASE VisitOther
    BY <2>4, VisitOtherUnseen, UnseenPromised
  <2>5. CASE ReturnToParent \/ CloseCircle
    BY <2>5, ReturnUnseen, UnseenPromised
  <2>6. CASE CreateNames
    BY <2>6, NamesUnseen, UnseenPromised
  <2>7. CASE NamesFail \/ ConnectFails
    BY <2>7, LinkFailsSeen, Promised
  <2>8. CASE ConnectImports
    BY <2>8, ConnectLinks, Promised
  <2>9. CASE CloseItem
    BY <2>9, CloseItemUnseen, UnseenPromised
  <2>10. CASE LinkError
    BY <2>10, LinkErrorUnseen, UnseenPromised
  <2>11. CASE LinkReturns
    BY <2>11, LinkReturnsUnseen, UnseenPromised
  <2>12. CASE SkipImport \/ RunBody
    BY <2>12, EvaluationUnseen, UnseenPromised
  <2>13. CASE ImportInError
    BY <2>13, EvaluationFailsSeen, Promised
  <2>14. CASE EvaluateImport
    BY <2>14, BeginSeen, Promised
  <2>15. CASE EvaluateReturns("evaluated") \/ EvaluateReturns("error")
    BY <2>15, EvaluateReturnsSeen, UnseenPromised, Promised
  <2> QED BY <1>6, <2>1, <2>2, <2>3, <2>4, <2>5, <2>6, <2>7, <2>8, <2>9, <2>10, <2>11, <2>12, <2>13,
             <2>14, <2>15 DEF Engine
<1> QED BY <1>1, <1>2, <1>3, <1>4, <1>5, <1>6 DEF Next

\* Linking and evaluation do what ModuleStates promises, whatever the graph: the search by
\* indices links exactly the circles of the graph, each after what it imports; a module is
\* evaluated once, after its imports; failures are final.
THEOREM LinksAndEvaluatesInOrder == ASSUME QuietHost PROVE Spec => ImplementsModuleStates
<1>1. Init => Promise!Init
  BY InitPromised
<1>2. IInv /\ IInv' /\ [Next]_vars => [Promise!Next]_Shown
  BY StepPromised
<1>3. Spec => []IInv
  BY Inductive
<1> QED BY <1>1, <1>2, <1>3, PTL DEF Spec, ImplementsModuleStates, Promise!Spec, Shown

=============================================================================
