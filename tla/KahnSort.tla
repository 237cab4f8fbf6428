------------------------------ MODULE KahnSort ------------------------------
(***************************************************************************)
(* TopologicalSort (internal/runtime/engine/dag.go), loop by loop.  A       *)
(* definition arrives as two lists: ids may repeat, edges may repeat, be    *)
(* self-loops or name ids that do not exist.  Publish relies on its error,  *)
(* the executor on its result.                                              *)
(***************************************************************************)
EXTENDS Integers, Sequences, FiniteSets

CONSTANTS
    Names,         \* what an edge may name, an id of a node or not
    NodeLists,     \* lists of node ids a definition may have
    EdgeLists      \* lists of pairs <<From, To>> it may have

ASSUME KahnAssumption ==
    /\ NodeLists \subseteq Seq(Names)
    /\ EdgeLists \subseteq Seq(Names \X Names)

VARIABLES
    nodes, edges,  \* the definition
    pc,            \* the loop the sort is in
    k,             \* its position in edges
    cur,           \* the id taken from the queue last
    inDegree,
    queue,
    sorted

input == <<nodes, edges>>
vars == <<nodes, edges, pc, k, cur, inDegree, queue, sorted>>

Places == {"edges", "loop", "relax", "ok", "error"}

Elements(s) == {s[i] : i \in DOMAIN s}

Ids == Elements(nodes)             \* the keys of nodeMap and inDegree

\* Before anything was taken from the queue.
NoId == "none"

Init ==
    /\ nodes \in NodeLists
    /\ edges \in EdgeLists
    /\ pc = "edges" /\ k = 1 /\ cur = NoId
    /\ inDegree = [n \in Ids |-> 0]
    /\ queue = <<>> /\ sorted = <<>>

Known(e) == e[1] \in Ids /\ e[2] \in Ids

AddEdge ==
    /\ pc = "edges" /\ k <= Len(edges)
    /\ Known(edges[k])
    /\ inDegree' = [inDegree EXCEPT ![edges[k][2]] = @ + 1]
    /\ k' = k + 1
    /\ UNCHANGED <<input, pc, cur, queue, sorted>>

UnknownNode ==
    /\ pc = "edges" /\ k <= Len(edges)
    /\ ~Known(edges[k])
    /\ pc' = "error"
    /\ UNCHANGED <<input, k, cur, inDegree, queue, sorted>>

\* The lists that hold every member of a set once.
Listings(S) ==
    {s \in [1 .. Cardinality(S) -> S] :
        \A i, j \in DOMAIN s : s[i] = s[j] => i = j}

\* Mutant: the sort starts from a single root.
SeedOne ==
    /\ pc = "edges" /\ k > Len(edges)
    /\ queue' \in {<<n>> : n \in {m \in Ids : inDegree[m] = 0}} \union {<<>>}
    /\ pc' = "loop"
    /\ UNCHANGED <<input, k, cur, inDegree, sorted>>

\* The queue starts in the order the inDegree map is iterated, which is any.
Seed ==
    /\ pc = "edges" /\ k > Len(edges)
    /\ queue' \in Listings({n \in Ids : inDegree[n] = 0})
    /\ pc' = "loop"
    /\ UNCHANGED <<input, k, cur, inDegree, sorted>>

Pop ==
    /\ pc = "loop" /\ queue # <<>>
    /\ cur' = Head(queue)
    /\ queue' = Tail(queue)
    /\ sorted' = Append(sorted, Head(queue))
    /\ pc' = "relax" /\ k' = 1
    /\ UNCHANGED <<input, inDegree>>

\* Mutant: every child is queued, whatever other parents it waits for.
RelaxAlwaysQueued ==
    /\ pc = "relax" /\ k <= Len(edges)
    /\ edges[k][1] = cur
    /\ LET next == edges[k][2]
       IN  /\ inDegree' = [inDegree EXCEPT ![next] = @ - 1]
           /\ queue' = Append(queue, next)
    /\ k' = k + 1
    /\ UNCHANGED <<input, pc, cur, sorted>>

\* adj[cur] lists the targets of cur's edges in the order of edges, repeated
\* when the edge is.
Relax ==
    /\ pc = "relax" /\ k <= Len(edges)
    /\ edges[k][1] = cur
    /\ LET next == edges[k][2]
       IN  /\ inDegree' = [inDegree EXCEPT ![next] = @ - 1]
           /\ queue' = IF inDegree[next] = 1 THEN Append(queue, next) ELSE queue
    /\ k' = k + 1
    /\ UNCHANGED <<input, pc, cur, sorted>>

Skip ==
    /\ pc = "relax" /\ k <= Len(edges)
    /\ edges[k][1] # cur
    /\ k' = k + 1
    /\ UNCHANGED <<input, pc, cur, inDegree, queue, sorted>>

EndOfAdj ==
    /\ pc = "relax" /\ k > Len(edges)
    /\ pc' = "loop"
    /\ UNCHANGED <<input, k, cur, inDegree, queue, sorted>>

\* Mutant: the result is compared with the number of distinct ids.
CompleteIds == Len(sorted) = Cardinality(Ids)

Complete == Len(sorted) = Len(nodes)

Return ==
    /\ pc = "loop" /\ queue = <<>>
    /\ pc' = IF Complete THEN "ok" ELSE "error"
    /\ UNCHANGED <<input, k, cur, inDegree, queue, sorted>>

Next ==
    AddEdge \/ UnknownNode \/ Seed \/ Pop \/ Relax \/ Skip \/ EndOfAdj \/ Return

Spec == Init /\ [][Next]_vars

-----------------------------------------------------------------------------
(* Properties                                                              *)

WellFormed ==
    /\ \A i, j \in DOMAIN nodes : nodes[i] = nodes[j] => i = j
    /\ \A i \in DOMAIN edges : Known(edges[i])

D == INSTANCE Dag WITH Nodes <- Ids, Edges <- Elements(edges)

\* Every variable has its type, and no counter leaves 0 .. Len(edges).
TypeOK ==
    /\ pc \in Places
    /\ k \in 1 .. Len(edges) + 1
    /\ cur \in Ids \union {NoId}
    /\ inDegree \in [Ids -> 0 .. Len(edges)]
    /\ queue \in Seq(Ids) /\ sorted \in Seq(Ids)

\* A result the executor may rely on: the ids are unique, every edge joins two
\* of them, and the result is one of Dag's topological orders.
ResultIsTopological ==
    pc = "ok" => WellFormed /\ sorted \in D!TopoOrders

\* A definition is refused for a reason only: an id or an edge is malformed, or
\* the edges have a cycle and no order exists.  With the property above, the
\* error Publish relies on is exact.
ErrorIsJustified ==
    pc = "error" => ~WellFormed \/ D!TopoOrders = {}

\* While cur's edges are being followed, the counter of a node is the number of
\* its edges, repeated ones included, whose origin was not followed yet: it
\* cannot go below zero nor reach zero twice.
InDegreeIsWhatIsLeft ==
    pc \in {"loop", "relax"} =>
        \A n \in Ids :
            inDegree[n] = Cardinality(
                {i \in DOMAIN edges :
                    /\ edges[i][2] = n
                    /\ \/ edges[i][1] \notin Elements(sorted)
                       \/ pc = "relax" /\ edges[i][1] = cur /\ i >= k})

\* No node is queued twice, so none is run twice by one delivery.
QueuedOnce ==
    LET all == sorted \o queue
    IN  \A i, j \in DOMAIN all : all[i] = all[j] => i = j
=============================================================================
