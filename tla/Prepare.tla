------------------------------- MODULE Prepare -------------------------------
(***************************************************************************)
(* The checks between name resolution and type checking (prepare_project): *)
(* every supertrait is a trait, no trait inherits from itself and no       *)
(* effect alias is made of itself, in this order.  The first check that    *)
(* fails rejects the project with one diagnostic.                          *)
(***************************************************************************)
EXTENDS DeclGraph, FiniteSets

CONSTANTS OtherKind,    \* a supertrait that is not a trait, an effect that is not an alias
          Projects      \* what each trait names as supertraits and each alias as effects,
                        \* nested ones included, in source order

ASSUME ProjectsAssumption ==
  /\ OtherKind \notin Nodes
  /\ \A p \in Projects :
       /\ p.supertraits \in [Nodes -> Seq(Nodes \cup {OtherKind})]
       /\ p.effects \in [Nodes -> Seq(Nodes \cup {OtherKind})]
       /\ \A n \in Nodes :
            /\ \A i \in DOMAIN p.supertraits[n] : <<n, i>> \in References
            /\ \A i \in DOMAIN p.effects[n] : <<n, i>> \in References

VARIABLES supertraits, effects,   \* of the project
          phase,
          outcome       \* "pending", "accepted", or the diagnostic

search == <<edges, state, position, stack, result, cycle>>
allVars == <<supertraits, effects, phase, search, outcome>>

(* The edges of a declaration graph, sorted by their places: the kth is    *)
(* the one with k places up to its own.  Only the effects that are aliases *)
(* are edges.                                                              *)
Places(named) == {i \in DOMAIN named : named[i] # OtherKind}
UpTo(places, i) == Cardinality({j \in places : j <= i})
FirstEdge(named, n) ==     \* a bug: only the first name counts
  [k \in 1 .. Cardinality(Places(named) \cap {1}) |-> [target |-> named[1], reference |-> <<n, 1>>]]
EdgeList(named, n) ==
  [k \in 1 .. Cardinality(Places(named)) |->
     LET i == CHOOSE i \in Places(named) : UpTo(Places(named), i) = k
     IN  [target |-> named[i], reference |-> <<n, i>>]]
TraitEdges == [n \in Nodes |-> EdgeList(supertraits[n], n)]
AliasEdges == [n \in Nodes |-> EdgeList(effects[n], n)]

(* Supertraits that are not traits, as places in the source.               *)
BadTargets == UNION {{<<n, i>> : i \in {j \in DOMAIN supertraits[n] : supertraits[n][j] = OtherKind}}
                       : n \in Nodes}
Before(r, s) == r[1] < s[1] \/ (r[1] = s[1] /\ r[2] < s[2])
FirstOf(refs) == CHOOSE r \in refs : \A s \in refs \ {r} : Before(r, s)

PrepareInit ==
  /\ \E p \in Projects : supertraits = p.supertraits /\ effects = p.effects
  /\ phase = "targets"
  /\ edges = [n \in Nodes |-> <<>>] /\ Fresh
  /\ outcome = <<"pending">>

(* validate_supertrait_targets: of all invalid supertraits the first in    *)
(* the source is reported.                                                 *)
InvalidTarget ==
  /\ phase = "targets" /\ BadTargets # {}
  /\ phase' = "done"
  /\ outcome' = <<"invalid supertrait", FirstOf(BadTargets)>>
  /\ UNCHANGED <<supertraits, effects, search>>

(* A search starts from scratch.                                           *)
SearchIn(graph) ==
  /\ edges' = graph
  /\ state' = [n \in Nodes |-> 0] /\ position' = [n \in Nodes |-> 0]
  /\ stack' = <<>> /\ result' = "searching" /\ cycle' = NoCycle

TargetsValid ==
  /\ phase = "targets" /\ BadTargets = {}
  /\ phase' = "traits"
  /\ SearchIn(TraitEdges)
  /\ UNCHANGED <<supertraits, effects, outcome>>

Search ==
  /\ phase \in {"traits", "aliases"}
  /\ UNCHANGED <<supertraits, effects, phase, outcome>>
  /\ Next

(* The diagnostic of a cycle: its first edge, and around it the            *)
(* declarations and the other edges in order.                              *)
Related(c) == <<c.nodes[1]>> \o
  [i \in 1 .. 2 * (Len(c.nodes) - 1) |->
     IF i % 2 = 1 THEN c.nodes[(i + 3) \div 2] ELSE c.edges[i \div 2 + 1]]
CycleOutcome(kind) == <<kind, cycle.edges[1], Related(cycle)>>

TraitsAcyclic ==
  /\ phase = "traits" /\ result = "acyclic"
  /\ phase' = "aliases"
  /\ SearchIn(AliasEdges)
  /\ UNCHANGED <<supertraits, effects, outcome>>

AliasesAcyclic ==
  /\ phase = "aliases" /\ result = "acyclic"
  /\ phase' = "done"
  /\ outcome' = <<"accepted">>
  /\ UNCHANGED <<supertraits, effects, search>>

ReportCycle ==
  /\ phase \in {"traits", "aliases"} /\ result = "cycle"
  /\ phase' = "done"
  /\ outcome' = CycleOutcome(IF phase = "traits" THEN "trait cycle" ELSE "alias cycle")
  /\ UNCHANGED <<supertraits, effects, search>>

PrepareNext == \/ InvalidTarget \/ TargetsValid \/ Search \/ TraitsAcyclic
               \/ AliasesAcyclic \/ ReportCycle

PrepareSpec == PrepareInit /\ [][PrepareNext]_allVars /\ WF_allVars(PrepareNext)
-----------------------------------------------------------------------------
(* Declarations that all name one among themselves.                        *)
Cyclic(named) ==
  \E S \in (SUBSET Nodes) \ {{}} :
    \A n \in S : \E i \in DOMAIN named[n] : named[n][i] \in S

(* A project is accepted exactly when all three checks hold of it, and the *)
(* diagnostic is that of the first check that fails.                       *)
VerdictRight ==
  phase = "done" =>
    outcome[1] = CASE BadTargets # {} -> "invalid supertrait"
                   [] BadTargets = {} /\ Cyclic(supertraits) -> "trait cycle"
                   [] BadTargets = {} /\ ~ Cyclic(supertraits) ->
                        IF Cyclic(effects) THEN "alias cycle" ELSE "accepted"

(* Following the diagnostic of a cycle from its primary place: declaration *)
(* and reference alternate, each reference stands in the declaration named *)
(* before it and names the next one, and the last leads back to the first. *)
DiagnosticFollowsCycle ==
  phase = "done" /\ outcome[1] \in {"trait cycle", "alias cycle"} =>
    LET r == outcome[3]
        named == IF outcome[1] = "trait cycle" THEN supertraits ELSE effects
        n == (Len(r) + 1) \div 2
        node(i) == IF i = 1 THEN r[1] ELSE r[2 * i - 2]
        edge(i) == IF i = 1 THEN outcome[2] ELSE r[2 * i - 1]
    IN  \A i \in 1 .. n : /\ edge(i)[1] = node(i)
                          /\ named[node(i)][edge(i)[2]] = node(IF i = n THEN 1 ELSE i + 1)

(* Every project is accepted or rejected, whatever the cycles in it.       *)
Decides == <>(phase = "done")
===============================================================================
