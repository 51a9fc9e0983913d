---------------------------- MODULE MCModuleGraph ---------------------------
(***************************************************************************)
(* Every graph of three modules with at most four imports, two of a        *)
(* module, in every order; a module imports itself only in graphs of at    *)
(* most two imports.  Of graphs that differ in the names of the modules    *)
(* only, one is enough.                                                    *)
(***************************************************************************)
EXTENDS ModuleGraph

MCModule == 1 .. 3
Requests == {<<>>} \cup {<<i>> : i \in MCModule} \cup {<<i, j>> : i \in MCModule, j \in MCModule}
AllGraphs == {g \in [MCModule -> {s \in Requests : IsInjective(s)}] :
                  LET size == Len(g[1]) + Len(g[2]) + Len(g[3])
                  IN \/ size <= 2
                     \/ size <= 4 /\ \A m \in MCModule : m \notin ToSet(g[m])}

Renamings == {p \in [MCModule -> MCModule] : IsInjective(p)}
Renamed(g, p) == [m \in MCModule |-> LET k == CHOOSE k \in MCModule : p[k] = m
                                     IN [i \in DOMAIN g[k] |-> p[g[k][i]]]]
Digits(s) == IF s = <<>> THEN 0 ELSE IF Len(s) = 1 THEN s[1] ELSE 4 * s[1] + s[2]
Number(g) == 256 * Digits(g[1]) + 16 * Digits(g[2]) + Digits(g[3])
MCGraphs == {g \in AllGraphs : \A p \in Renamings : Number(g) <= Number(Renamed(g, p))}
=============================================================================
