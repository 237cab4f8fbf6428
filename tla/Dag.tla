-------------------------------- MODULE Dag --------------------------------
(***************************************************************************)
(* The workflow definition as the executor sees it: a finite set of node    *)
(* ids and a set of directed edges (internal/runtime/engine/dag.go).        *)
(* Node configuration is abstracted away; a node is its id.                 *)
(***************************************************************************)
EXTENDS Integers, Sequences, FiniteSets

CONSTANTS
    Nodes,      \* the ids in WorkflowDefinition.Nodes
    Edges       \* the pairs <<From, To>> in WorkflowDefinition.Edges

ASSUME DagAssumption ==
    /\ IsFiniteSet(Nodes)
    /\ Edges \subseteq Nodes \X Nodes

Parents(n) == {m \in Nodes : <<m, n>> \in Edges}

\* The keys of the map ParentOutputs returns: the parents that have an output.
ParentOutputs(n, outputs) == {m \in outputs : <<m, n>> \in Edges}

(***************************************************************************)
(* What TopologicalSort returns: a topological order of all the nodes, or   *)
(* an error for a graph with a cycle, which has none.  Kahn's queue is      *)
(* seeded from a Go map, in any order; the orders it can return are some of *)
(* these.  KahnSort follows its loop step by step and shows it.             *)
(***************************************************************************)
Respects(order) ==
    \A i, j \in DOMAIN order : <<order[i], order[j]>> \in Edges => i < j

Covers(order) ==
    /\ \A n \in Nodes : \E i \in DOMAIN order : order[i] = n
    /\ \A i, j \in DOMAIN order : order[i] = order[j] => i = j

\* Mutant: the in-degrees are ignored.
UnorderedTopoOrders ==
    {order \in [1 .. Cardinality(Nodes) -> Nodes] : Covers(order)}

TopoOrders ==
    {order \in [1 .. Cardinality(Nodes) -> Nodes] :
        Covers(order) /\ Respects(order)}

\* Some nodes all have a parent among themselves.
HasCycle ==
    \E S \in SUBSET Nodes :
        S # {} /\ \A n \in S : Parents(n) \intersect S # {}
=============================================================================
