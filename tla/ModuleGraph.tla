---------------------------- MODULE ModuleGraph -----------------------------
(***************************************************************************)
(* Linking and evaluation of modules (ecma-module.c, vm_run_module).       *)
(*                                                                         *)
(* ecma_module_link searches the imports depth first and closes one circle *)
(* of imports after the other, as Tarjan's algorithm does; the index it    *)
(* compares lies in the module, so that a module knows of one search only. *)
(* ecma_module_evaluate calls itself for the imports.  Both call the       *)
(* host, which may call them again: the stack holds the calls in progress. *)
(* A native module is one without imports.                                 *)
(***************************************************************************)
EXTENDS Naturals, Sequences, FiniteSets, SequencesExt

CONSTANTS Module,
          Graphs,       \* the graphs of modules to consider
          HostCalls     \* where the host links and evaluates further modules

ASSUME ModuleAssumption == IsFiniteSet(Module)
ASSUME GraphsAssumption == Graphs \subseteq [Module -> Seq(Module)]
ASSUME HostAssumption == HostCalls \subseteq {"resolve", "linked", "failed", "body", "ended"}

VARIABLES imports,      \* the modules the import requests stand for, in their order
          resolved,     \* how many requests hold a module rather than a path
          state,        \* module_state
          ancestor,     \* dfs_ancestor_index
          scope,        \* scope_p and namespace_object_p are there
          names,        \* the flag ECMA_MODULE_HAS_NAMESPACE
          bound,        \* the imported names are bound, their list is released
          code,         \* compiled_code_p
          stack         \* the calls in progress, innermost first

vars == <<imports, resolved, state, ancestor, scope, names, bound, code, stack>>
linkage == <<imports, resolved, ancestor, scope, names, bound>>

ModuleState == {"unlinked", "linking", "linked", "evaluating", "evaluated", "error"}
ImportsOf(m) == ToSet(imports[m])

\* The items of a search are those of ecma_module_stack_item_t.  node is the next import
\* of an item to visit, request the next of the current module to resolve; circle is the
\* first item of the circle that is being closed.
Item(m, parent, index) == [module |-> m, node |-> 1, parent |-> parent, index |-> index]
Search(m) == [call |-> "link", step |-> "resolve", items |-> <<Item(m, 0, 0)>>, current |-> 1,
              index |-> 0, request |-> 1, circle |-> 1]
Evaluation(m) == [call |-> "evaluate", step |-> "imports", module |-> m, node |-> 1]
Callback(place) == [call |-> "host", place |-> place]

Top == Head(stack)
Calls(call) == stack # <<>> /\ Top.call = call
At(call, step) == Calls(call) /\ Top.step = step
Current == Top.items[Top.current]
Become(frame) == stack' = <<frame>> \o Tail(stack)

\* A callback in which the host calls nothing returns at once.
Tell(place, frames) == stack' = IF place \in HostCalls THEN <<Callback(place)>> \o frames
                                ELSE frames

\* The host runs at the top level, in its callbacks and in the body of a module.
HostRuns == \/ stack = <<>>
            \/ Calls("host") /\ Top.place \in HostCalls
            \/ At("evaluate", "body") /\ "body" \in HostCalls

Init == /\ imports \in Graphs
        /\ resolved = [m \in Module |-> 0]
        /\ state = [m \in Module |-> "unlinked"]
        /\ ancestor = [m \in Module |-> 0]
        /\ scope = [m \in Module |-> FALSE]
        /\ names = [m \in Module |-> FALSE]
        /\ bound = [m \in Module |-> FALSE]
        /\ code = [m \in Module |-> TRUE]
        /\ stack = <<>>

-----------------------------------------------------------------------------
(* ecma_module_link                                                        *)

\* jerry_module_link, which returns an error for a module in any other state.
Link(m) == /\ HostRuns
           /\ state[m] = "unlinked"
           /\ state' = [state EXCEPT ![m] = "linking"]
           /\ ancestor' = [ancestor EXCEPT ![m] = 0]
           /\ stack' = <<Search(m)>> \o stack
           /\ UNCHANGED <<imports, resolved, scope, names, bound, code>>

\* The search goes on with the next request, unless this one led to a module that failed.
TakeModule(frame) ==
    LET i == imports[frame.items[frame.current].module][frame.request]
    IN IF state[i] = "error" THEN [frame EXCEPT !.step = "error"] ELSE [frame EXCEPT !.request = @ + 1]

ResolveKnown == /\ At("link", "resolve")
                /\ Top.request <= resolved[Current.module]
                /\ Become(TakeModule(Top))
                /\ UNCHANGED <<linkage, state, code>>

AskHost == /\ At("link", "resolve")
           /\ Top.request > resolved[Current.module]
           /\ Top.request <= Len(imports[Current.module])
           /\ stack' = <<Callback("resolve")>> \o stack
           /\ UNCHANGED <<linkage, state, code>>

\* Mutant: the request after the resolved one counts as resolved, too.
HostResolvesTwo == /\ Calls("host") /\ Top.place = "resolve"
                   /\ LET search == stack[2]
                          m == search.items[search.current].module
                      IN /\ resolved' = [resolved EXCEPT ![m] = search.request + 1]
                         /\ stack' = <<TakeModule(search)>> \o Tail(Tail(stack))
                   /\ UNCHANGED <<imports, state, ancestor, scope, names, bound, code>>

HostResolves == /\ Calls("host") /\ Top.place = "resolve"
                /\ LET search == stack[2]
                       m == search.items[search.current].module
                   IN /\ resolved' = [resolved EXCEPT ![m] = search.request]
                      /\ stack' = <<TakeModule(search)>> \o Tail(Tail(stack))
                /\ UNCHANGED <<imports, state, ancestor, scope, names, bound, code>>

\* The callback returns an exception, or a value that is no module.
HostRefuses == /\ Calls("host") /\ Top.place = "resolve"
               /\ stack' = <<[stack[2] EXCEPT !.step = "error"]>> \o Tail(Tail(stack))
               /\ UNCHANGED <<linkage, state, code>>

AllResolved == /\ At("link", "resolve")
               /\ Top.request > Len(imports[Current.module])
               /\ Become([Top EXCEPT !.step = "visit"])
               /\ UNCHANGED <<linkage, state, code>>

NextImport == imports[Current.module][Current.node]
Visiting == At("link", "visit") /\ Current.node <= Len(imports[Current.module])

VisitUnlinked ==
    /\ Visiting
    /\ state[NextImport] = "unlinked"
    /\ state' = [state EXCEPT ![NextImport] = "linking"]
    /\ ancestor' = [ancestor EXCEPT ![NextImport] = Top.index + 1]
    /\ Become([Top EXCEPT !.step = "resolve",
                          !.items = Append([Top.items EXCEPT ![Top.current].node = @ + 1],
                                           Item(NextImport, Top.current, Top.index + 1)),
                          !.current = Len(Top.items) + 1,
                          !.index = @ + 1,
                          !.request = 1])
    /\ UNCHANGED <<imports, resolved, scope, names, bound, code>>

Lowered(m, index) == [ancestor EXCEPT ![m] = IF index < @ THEN index ELSE @]

\* Mutant: the search stays at an import that leads back.
VisitAgain ==
    /\ Visiting
    /\ state[NextImport] # "unlinked"
    /\ ancestor' = IF state[NextImport] = "linking"
                   THEN Lowered(Current.module, ancestor[NextImport]) ELSE ancestor
    /\ UNCHANGED <<imports, resolved, state, scope, names, bound, code, stack>>

VisitOther ==
    /\ Visiting
    /\ state[NextImport] # "unlinked"
    /\ ancestor' = IF state[NextImport] = "linking"
                   THEN Lowered(Current.module, ancestor[NextImport]) ELSE ancestor
    /\ Become([Top EXCEPT !.items[Top.current].node = @ + 1])
    /\ UNCHANGED <<imports, resolved, state, scope, names, bound, code>>

\* All imports are visited: the module gets its scope and its empty namespace object.
Visited == At("link", "visit") /\ Current.node > Len(imports[Current.module])

ReturnToParent ==
    /\ Visited
    /\ ancestor[Current.module] # Current.index
    /\ Current.parent # 0
    /\ ancestor' = Lowered(Top.items[Current.parent].module, ancestor[Current.module])
    /\ scope' = [scope EXCEPT ![Current.module] = TRUE]
    /\ Become([Top EXCEPT !.current = Current.parent])
    /\ UNCHANGED <<imports, resolved, state, names, bound, code>>

\* Mutant: a module is closed without those that were visited after it.
CloseAlone ==
    /\ Visited
    /\ ancestor[Current.module] = Current.index
    /\ scope' = [scope EXCEPT ![Current.module] = TRUE]
    /\ Become([Top EXCEPT !.step = "names", !.circle = Len(Top.items), !.current = Current.parent])
    /\ UNCHANGED <<imports, resolved, state, ancestor, names, bound, code>>

CloseCircle ==
    /\ Visited
    /\ ancestor[Current.module] = Current.index
    /\ scope' = [scope EXCEPT ![Current.module] = TRUE]
    /\ Become([Top EXCEPT !.step = "names", !.circle = Top.current, !.current = Current.parent])
    /\ UNCHANGED <<imports, resolved, state, ancestor, names, bound, code>>

\* The modules of the circle from item k to the last, which is handled first.
From(k) == {Top.items[i].module : i \in k .. Len(Top.items)}

Marked(flag, modules) == [m \in Module |-> flag[m] \/ m \in modules]

\* ecma_module_create_namespace_object for each module of the circle.
CreateNames == /\ At("link", "names")
               /\ names' = Marked(names, From(Top.circle))
               /\ Become([Top EXCEPT !.step = "connect"])
               /\ UNCHANGED <<imports, resolved, state, ancestor, scope, bound, code>>

\* ecma_module_connect_imports for each module of the circle.
ConnectImports == /\ At("link", "connect")
                  /\ bound' = Marked(bound, From(Top.circle))
                  /\ Become([Top EXCEPT !.step = "close"])
                  /\ UNCHANGED <<imports, resolved, state, ancestor, scope, names, code>>

\* Mutant: the module whose names failed may be tried again.
FailsForNow(k) == LET m == Top.items[k].module
                  IN /\ imports[m] # <<>>
                     /\ UNCHANGED state
                     /\ Tell("failed", <<[Top EXCEPT !.step = "error"]>> \o Tail(stack))

\* Module k meets a name that cannot be resolved, or one that is taken: then it has
\* imports.  ecma_module_set_error_state calls the host.
FailsAt(k) == LET m == Top.items[k].module
              IN /\ imports[m] # <<>>
                 /\ state' = [state EXCEPT ![m] = "error"]
                 /\ Tell("failed", <<[Top EXCEPT !.step = "error"]>> \o Tail(stack))

NamesFail == /\ At("link", "names")
             /\ \E k \in Top.circle .. Len(Top.items) :
                    /\ FailsAt(k)
                    /\ names' = Marked(names, From(k + 1))
             /\ UNCHANGED <<imports, resolved, ancestor, scope, bound, code>>

ConnectFails == /\ At("link", "connect")
                /\ \E k \in Top.circle .. Len(Top.items) :
                       /\ FailsAt(k)
                       /\ bound' = Marked(bound, From(k + 1))
                /\ UNCHANGED <<imports, resolved, ancestor, scope, names, code>>

\* The items of the circle leave the stack one by one, and the host is told of each.
CloseItem == /\ At("link", "close")
             /\ state' = [state EXCEPT ![Last(Top.items).module] = "linked"]
             /\ Tell("linked",
                     <<[Top EXCEPT !.items = Front(@),
                                   !.step = IF Len(Top.items) > Top.circle THEN "close"
                                            ELSE IF Top.current = 0 THEN "end" ELSE "visit"]>>
                     \o Tail(stack))
             /\ UNCHANGED <<linkage, code>>

OnStack(search) == {search.items[k].module : k \in DOMAIN search.items}

\* Mutant: only the modules of the circle that failed are unwound.
LinkErrorCircle == /\ At("link", "error")
                   /\ state' = [m \in Module |-> IF m \in From(Top.circle) /\ state[m] # "error"
                                                 THEN "unlinked" ELSE state[m]]
                   /\ stack' = Tail(stack)
                   /\ UNCHANGED <<linkage, code>>

LinkError == /\ At("link", "error")
             /\ state' = [m \in Module |-> IF m \in OnStack(Top) /\ state[m] # "error"
                                           THEN "unlinked" ELSE state[m]]
             /\ stack' = Tail(stack)
             /\ UNCHANGED <<linkage, code>>

LinkReturns == /\ At("link", "end")
               /\ stack' = Tail(stack)
               /\ UNCHANGED <<linkage, state, code>>

\* Linking or evaluating a module in any other state is an error.
Refused(m) == /\ HostRuns
              /\ state[m] \notin {"unlinked", "linked"}
              /\ UNCHANGED vars

\* A callback that has no influence on what goes on returns.
HostReturns == /\ Calls("host") /\ Top.place # "resolve"
               /\ stack' = Tail(stack)
               /\ UNCHANGED <<linkage, state, code>>

-----------------------------------------------------------------------------
(* ecma_module_evaluate                                                    *)

StartEvaluation(m, frames) == /\ state' = [state EXCEPT ![m] = "evaluating"]
                              /\ stack' = <<Evaluation(m)>> \o frames

\* jerry_module_evaluate, which returns an error for a module in any other state.
Evaluate(m) == /\ HostRuns
               /\ state[m] = "linked"
               /\ StartEvaluation(m, stack)
               /\ UNCHANGED <<linkage, code>>

\* The module has succeeded or failed, and the host is told.
Ends(result) == /\ state' = [state EXCEPT ![Top.module] = result]
                /\ Tell("ended", <<[Top EXCEPT !.step = result]>> \o Tail(stack))
                /\ UNCHANGED <<linkage, code>>

Imported == imports[Top.module][Top.node]
Importing == At("evaluate", "imports") /\ Top.node <= Len(imports[Top.module])

\* Mutant: an import that is linked counts as evaluated.
SkipLinked == /\ Importing
              /\ state[Imported] \in {"linked", "evaluating", "evaluated"}
              /\ Become([Top EXCEPT !.node = @ + 1])
              /\ UNCHANGED <<linkage, state, code>>

\* A module that is being evaluated counts as evaluated.
SkipImport == /\ Importing
              /\ state[Imported] \in {"evaluating", "evaluated"}
              /\ Become([Top EXCEPT !.node = @ + 1])
              /\ UNCHANGED <<linkage, state, code>>

ImportInError == /\ Importing
                 /\ state[Imported] = "error"
                 /\ Ends("error")

EvaluateImport == /\ Importing
                  /\ state[Imported] \in {"unlinked", "linking", "linked"}
                  /\ StartEvaluation(Imported, stack)
                  /\ UNCHANGED <<linkage, code>>

RunBody == /\ At("evaluate", "imports")
           /\ Top.node > Len(imports[Top.module])
           /\ Become([Top EXCEPT !.step = "body"])
           /\ UNCHANGED <<linkage, state, code>>

BodyReturns == /\ At("evaluate", "body")
               /\ Ends("evaluated")

BodyThrows == /\ At("evaluate", "body")
              /\ Ends("error")

\* The code is released.  The caller is the host, or the evaluation of an importer,
\* which passes the error on.
EvaluateReturns(result) ==
    /\ At("evaluate", result)
    /\ code' = [code EXCEPT ![Top.module] = FALSE]
    /\ IF Len(stack) > 1 /\ stack[2].call = "evaluate" /\ stack[2].step = "imports"
       THEN LET importer == stack[2]
            IN IF result = "error"
               THEN /\ state' = [state EXCEPT ![importer.module] = "error"]
                    /\ Tell("ended", <<[importer EXCEPT !.step = "error"]>> \o Tail(Tail(stack)))
               ELSE /\ stack' = <<[importer EXCEPT !.node = @ + 1]>> \o Tail(Tail(stack))
                    /\ UNCHANGED state
       ELSE stack' = Tail(stack) /\ UNCHANGED state
    /\ UNCHANGED linkage

HostCalling == \E m \in Module : Link(m) \/ Evaluate(m) \/ Refused(m)
ResolveEnds == HostResolves \/ HostRefuses
BodyEnds == BodyReturns \/ BodyThrows
Engine == \/ ResolveKnown \/ AskHost \/ AllResolved \/ VisitUnlinked \/ VisitOther
          \/ ReturnToParent \/ CloseCircle \/ CreateNames \/ NamesFail \/ ConnectImports
          \/ ConnectFails \/ CloseItem \/ LinkError \/ LinkReturns
          \/ SkipImport \/ ImportInError \/ EvaluateImport \/ RunBody
          \/ EvaluateReturns("evaluated") \/ EvaluateReturns("error")

Next == HostCalling \/ ResolveEnds \/ HostReturns \/ BodyEnds \/ Engine
Spec == Init /\ [][Next]_vars

\* Native code runs on by itself.  The host and the bodies of modules may make further
\* calls, but each of them returns in the end.
FairSpec == /\ Spec
            /\ WF_vars(Engine)
            /\ SF_vars(ResolveEnds) /\ SF_vars(HostReturns) /\ SF_vars(BodyEnds)

-----------------------------------------------------------------------------
(* Properties                                                              *)

Searches == {k \in DOMAIN stack : stack[k].call = "link"}
Evaluations == {k \in DOMAIN stack : stack[k].call = "evaluate"}

\* Every variable has its type.
TypeOK == /\ imports \in Graphs
          /\ \A m \in Module : resolved[m] \in 0 .. Len(imports[m])
          /\ state \in [Module -> ModuleState]
          /\ ancestor \in [Module -> 0 .. Cardinality(Module)]
          /\ {scope, names, bound, code} \subseteq [Module -> BOOLEAN]
          /\ \A k \in Searches : OnStack(stack[k]) \subseteq Module
          /\ \A k \in Evaluations : stack[k].module \in Module

\* A module is in a state of transition exactly while a call that will end this state is
\* in progress: an error unwinds the search completely, and no two calls work at a module.
TransitionsHaveOwner ==
    /\ {m \in Module : state[m] = "linking"} =
           UNION {{m \in OnStack(stack[k]) : state[m] # "error"} : k \in Searches}
    /\ \A m \in Module :
           Cardinality({k \in Evaluations : /\ stack[k].module = m
                                            /\ stack[k].step \in {"imports", "body"}})
               = IF state[m] = "evaluating" THEN 1 ELSE 0

\* The modules that a module leads to, through the imports of the source text.
Graph == INSTANCE ModuleStates WITH imports <- [m \in Module |-> ImportsOf(m)]

\* A module that the host can evaluate leads only to modules whose names are complete and
\* bound; those of its own circle may be about to be announced as linked.  A failure, and
\* a second attempt after it, leaves no module linked to one that is not.
ReadyWhenLinked ==
    \A m \in Module : state[m] \in {"linked", "evaluating", "evaluated"} =>
        \A n \in Graph!Reach(m) : scope[n] /\ names[n] /\ bound[n]

\* The namespace object of a module is filled, and its imports are bound, only once: the
\* lists they come from are gone afterwards, and ecma_module_create_namespace_object
\* asserts it.  A circle in which one module failed must never be tried to its end again.
NamesOnce == /\ At("link", "names") => \A m \in From(Top.circle) : ~names[m]
             /\ At("link", "connect") => \A m \in From(Top.circle) : ~bound[m]

\* A circle counts as linked as soon as the first of its modules does.
Closing == UNION {{stack[k].items[i].module : i \in stack[k].circle .. Len(stack[k].items)} :
                      k \in {k \in Searches : stack[k].step = "close"}}
AbstractState == [m \in Module |-> IF state[m] # "linking" THEN state[m]
                                   ELSE IF m \in Closing THEN "linked" ELSE "unlinked"]

\* Linking and evaluation do what ModuleStates promises: the search by indices links
\* exactly the circles of the graph, each after what it imports; a module is evaluated
\* once, after its imports; failures are final.
Promise == INSTANCE ModuleStates WITH imports <- [m \in Module |-> ImportsOf(m)],
                                      state <- AbstractState
ImplementsModuleStates == Promise!Spec

\* Every call returns to the host, whatever the graph and wherever it fails.
EveryCallEnds == (stack # <<>>) ~> (stack = <<>>)
=============================================================================
