------------------------- MODULE Executions_proofs -------------------------
(***************************************************************************)
(* Theorems about Executions, for every set of executions, callers and      *)
(* nodes, every definition and every MaxAttempts.                           *)
(***************************************************************************)
EXTENDS Executions, TLAPS, FiniteSetTheorems, NaturalsInduction

-----------------------------------------------------------------------------
(* Facts about the operators the actions are built from.                    *)

\* The topological orders are sequences of nodes (TopologicalSort).
LEMMA TopoOrdersAreSequences == TopoOrders \subseteq Seq(Nodes)
<1>1. Cardinality(Nodes) \in Nat
  BY FS_CardinalityType, DagAssumption
<1> QED
  BY <1>1 DEF TopoOrders

\* A definition with a cycle has no topological order: the first member of the
\* cycle in such an order would come after a parent of its own.
LEMMA CyclesHaveNoOrder == HasCycle => TopoOrders = {}
<1> SUFFICES ASSUME NEW S \in SUBSET Nodes, S # {},
                    \A n \in S : Parents(n) \intersect S # {},
                    NEW order \in TopoOrders
             PROVE  FALSE
  BY DEF HasCycle
<1> DEFINE N == Cardinality(Nodes)
           T == {i \in 1 .. N : order[i] \in S}
           R == {ss \in Nat \X Nat : ss[1] < ss[2]}
<1>0. IsWellFoundedOn(R, Nat)
  BY NatLessThanWellFounded DEF OpToRel
<1>1. N \in Nat /\ DOMAIN order = 1 .. N /\ Covers(order) /\ Respects(order)
  BY FS_CardinalityType, DagAssumption DEF TopoOrders
<1>2. T \subseteq Nat /\ T # {}
  BY <1>1 DEF Covers
<1>3. PICK i \in T : \A j \in T : ~(<<j, i>> \in R)
  <2> HIDE DEF R, T
  <2> QED
    BY <1>0, <1>2, WFMin
<1>4. \A j \in T : ~(j < i)
  BY <1>2, <1>3
<1>5. PICK m \in S : <<m, order[i]>> \in Edges
  BY DEF Parents
<1>6. PICK j \in T : order[j] = m
  BY <1>1 DEF Covers
<1>7. j < i
  BY <1>1, <1>5, <1>6 DEF Respects
<1> QED
  BY <1>4, <1>7

\* A retry configuration allows at least one attempt (runNodeWithRetry).
LEMMA NodeAttemptsPositive ==
  \A n \in Nodes : NodeAttempts(n) \in Nat /\ NodeAttempts(n) >= 1
BY ExecutionsAssumption DEF NodeAttempts

\* NULL columns, an unsent job and an idle run have their types.
LEMMA InitialValues ==
  /\ NoRow \in Rows /\ NoJob \in Jobs /\ NoRun \in Runs /\ NoReq \in Reqs
<1>1. NoRow \in Rows
  BY DEF NoRow, Rows, Statuses, NoOutput
<1>2. NoJob \in Jobs
  BY ExecutionsAssumption DEF NoJob, Jobs
<1>3. NoRun \in Runs
  BY DEF NoRun, Runs, Places
<1>4. NoReq \in Reqs
  BY DEF NoReq, Reqs
<1> QED
  BY <1>1, <1>2, <1>3, <1>4

\* The statements that write a row keep its type (executions.sql).
LEMMA RowUpdates ==
  ASSUME NEW x \in Rows
  PROVE  /\ \A s \in Statuses : [x EXCEPT !.status = s] \in Rows
         /\ [x EXCEPT !.status = "running", !.started = TRUE] \in Rows
         /\ \A s \in Statuses, o \in SUBSET SUBSET Nodes : Finished(x, s, o) \in Rows
<1>1. \A s \in Statuses : [x EXCEPT !.status = s] \in Rows
  BY DEF Rows
<1>2. [x EXCEPT !.status = "running", !.started = TRUE] \in Rows
  BY DEF Rows, Statuses
<1>3. ASSUME NEW s \in Statuses, NEW o \in SUBSET SUBSET Nodes
      PROVE  Finished(x, s, o) \in Rows
  BY DEF Rows, Finished
<1> QED
  BY <1>1, <1>2, <1>3

-----------------------------------------------------------------------------
(* Type correctness                                                        *)

LEMMA InitTypeOK == Init => TypeOK
<1> SUFFICES ASSUME Init PROVE TypeOK
  OBVIOUS
<1> USE DEF Init
<1>1. row \in [Execs -> Rows] /\ job \in [Execs -> Jobs] /\ run \in [Execs -> Runs]
  BY InitialValues
<1>2. req \in [Requests -> Reqs]
  BY InitialValues
<1>3. calls \in [Execs -> [Nodes -> Nat]]
  OBVIOUS
<1> QED
  BY <1>1, <1>2, <1>3 DEF TypeOK

LEMMA RequestTypeOK ==
  ASSUME TypeOK, NEW r \in Requests, RequestStep(r)
  PROVE  TypeOK'
<1> USE DEF TypeOK, vars
<1>1. CASE Execute(r) \/ \E original \in Execs : RetryExecution(r, original)
  <2>1. Checked(r)
    BY <1>1 DEF Execute, RetryExecution
  <2>2. req[r].exec = NoExec
    BY <2>1 DEF Checked, Reqs
  <2>3. req' \in [Requests -> Reqs]
    BY <2>1, <2>2 DEF Checked, Reqs
  <2> QED
    BY <2>1, <2>3 DEF Checked
<1>2. CASE \E e \in Execs : CreateExecution(r, e)
  <2> PICK e \in Execs : CreateExecution(r, e)
    BY <1>2
  <2>1. req' \in [Requests -> Reqs]
    BY DEF CreateExecution, Reqs
  <2>2. [row[e] EXCEPT !.status = "queued"] \in Rows
    BY RowUpdates DEF Statuses
  <2>3. row' \in [Execs -> Rows]
    BY <2>2 DEF CreateExecution
  <2> QED
    BY <2>1, <2>3 DEF CreateExecution
<1>3. CASE Enqueue(r)
  <2>1. req[r].exec \in Execs
    BY <1>3 DEF Enqueue, Reqs
  <2>2. job' \in [Execs -> Jobs]
    BY <1>3, <2>1 DEF Enqueue, Jobs
  <2> QED
    BY <1>3, <2>1, <2>2, InitialValues DEF Enqueue
<1>4. CASE RequestFails(r)
  BY <1>4, InitialValues DEF RequestFails
<1> QED
  BY <1>1, <1>2, <1>3, <1>4 DEF RequestStep

\* Every step of a delivery keeps the types, but for the number of attempts,
\* which Fetch can only count up while the job has attempts left.
LEMMA DeliveryTypeOK ==
  ASSUME TypeOK, NEW e \in Execs,
         job[e].state = "waiting" => job[e].attempt < MaxAttempts,
         Cancel(e) \/ Fetch(e) \/ Rescue(e) \/ RunStep(e) \/ WorkerCrash(e)
           \/ ContextDone(e)
  PROVE  TypeOK'
<1>0. /\ row[e] \in Rows /\ job[e] \in Jobs /\ run[e] \in Runs
      /\ calls[e] \in [Nodes -> Nat]
      /\ MaxAttempts \in Nat \ {0}
  BY ExecutionsAssumption DEF TypeOK
<1>1. CASE Cancel(e)
  <2>1. [row[e] EXCEPT !.status = "cancelled"] \in Rows
    BY <1>0, RowUpdates DEF Statuses
  <2> QED
    BY <1>1, <2>1 DEF Cancel, reqVars, TypeOK
<1>2. CASE Fetch(e)
  <2>0. job[e].attempt + 1 \in 0 .. MaxAttempts
    BY <1>0, <1>2 DEF Fetch, Jobs
  <2>1. [job[e] EXCEPT !.state = "running", !.attempt = job[e].attempt + 1] \in Jobs
    BY <1>0, <2>0 DEF Jobs
  <2>2. [NoRun EXCEPT !.at = "load"] \in Runs
    BY InitialValues DEF Runs, Places
  <2> QED
    BY <1>2, <2>1, <2>2 DEF Fetch, rowVars, reqVars, TypeOK
<1>3. CASE Rescue(e)
  <2>1. [job[e] EXCEPT !.state = AfterFailure(e), !.lost = TRUE] \in Jobs
    BY <1>0 DEF AfterFailure, Jobs
  <2> QED
    BY <1>3, <2>1 DEF Rescue, rowVars, reqVars, TypeOK
<1>4. CASE WorkerCrash(e)
  BY <1>4, InitialValues DEF WorkerCrash, rowVars, reqVars, TypeOK
<1>5. CASE ContextDone(e)
  <2>1. [run[e] EXCEPT !.ctx = FALSE] \in Runs
    BY <1>0 DEF Runs
  <2> QED
    BY <1>5, <2>1 DEF ContextDone, rowVars, reqVars, TypeOK
<1>6. ASSUME NEW place \in Places
      PROVE  [run[e] EXCEPT !.at = place] \in Runs
  BY <1>0 DEF Runs
<1>7. CASE Load(e)
  <2>1. CASE TopoOrders = {}
    BY <1>7, <2>1, <1>6 DEF Load, Go, rowVars, reqVars, TypeOK, Places
  <2>2. CASE TopoOrders # {}
    <3>1. PICK order \in TopoOrders :
            run' = [run EXCEPT ![e].at = "start", ![e].todo = order]
      BY <1>7, <2>2 DEF Load
    <3>2. [run[e] EXCEPT !.at = "start", !.todo = order] \in Runs
      BY <1>0, TopoOrdersAreSequences DEF Runs, Places
    <3> QED
      BY <1>7, <3>1, <3>2 DEF Load, rowVars, reqVars, TypeOK
  <2> QED
    BY <2>1, <2>2
<1>8. CASE Start(e)
  <2>1. [run[e] EXCEPT !.at = "node", !.try = 1] \in Runs
    BY <1>0 DEF Runs, Places
  <2>2. [row[e] EXCEPT !.status = "running", !.started = TRUE] \in Rows
    BY <1>0, RowUpdates
  <2> QED
    BY <1>8, <2>1, <2>2 DEF Start, reqVars, TypeOK
<1>9. CASE LoadOrStartFails(e)
  BY <1>9, <1>6 DEF LoadOrStartFails, Go, rowVars, reqVars, TypeOK, Places
<1>10. ASSUME CallNode(e)
       PROVE  /\ Head(run[e].todo) \in Nodes
              /\ calls' \in [Execs -> [Nodes -> Nat]]
  <2>1. Head(run[e].todo) \in Nodes
    BY <1>0, <1>10 DEF CallNode, Runs
  <2>2. [calls[e] EXCEPT ![Head(run[e].todo)] = @ + 1] \in [Nodes -> Nat]
    BY <1>0, <2>1
  <2> QED
    BY <1>10, <2>1, <2>2 DEF CallNode, TypeOK
<1>11. CASE NodeSucceeds(e)
  <2>0. /\ Tail(run[e].todo) \in Seq(Nodes)
        /\ run[e].outputs \union {Head(run[e].todo)} \in SUBSET Nodes
    BY <1>0, <1>10, <1>11 DEF NodeSucceeds, CallNode, Runs
  <2>1. [run[e] EXCEPT !.outputs = run[e].outputs \union {Head(run[e].todo)},
                       !.todo = Tail(run[e].todo), !.try = 1] \in Runs
    BY <1>0, <2>0 DEF Runs
  <2> QED
    BY <1>10, <1>11, <2>1 DEF NodeSucceeds, CallNode, reqVars, TypeOK
<1>12. CASE NodeRetries(e)
  <2>1. [run[e] EXCEPT !.try = run[e].try + 1] \in Runs
    BY <1>0 DEF Runs
  <2> QED
    BY <1>10, <1>12, <2>1 DEF NodeRetries, CallNode, reqVars, TypeOK
<1>13. CASE NodeFails(e)
  BY <1>6, <1>10, <1>13 DEF NodeFails, CallNode, Go, reqVars, TypeOK, Places
<1>14. CASE FinishFailed(e)
  <2>1. Finished(row[e], "failed", NoOutput) \in Rows
    BY <1>0, RowUpdates DEF Statuses, NoOutput
  <2> QED
    BY <1>6, <1>14, <2>1 DEF FinishFailed, Go, reqVars, TypeOK, Places
<1>15. CASE FinishSuccess(e)
  <2>1. Finished(row[e], "success", {run[e].outputs}) \in Rows
    BY <1>0, RowUpdates DEF Statuses, Runs
  <2> QED
    BY <1>6, <1>15, <2>1 DEF FinishSuccess, Go, reqVars, TypeOK, Places
<1>16. CASE Complete(e)
  <2>1. [job[e] EXCEPT !.state = "completed"] \in Jobs
    BY <1>0 DEF Jobs
  <2> QED
    BY <1>16, <2>1, InitialValues DEF Complete, rowVars, reqVars, TypeOK
<1>17. CASE Errored(e)
  <2>1. [job[e] EXCEPT !.state = AfterFailure(e), !.lost = FALSE] \in Jobs
    BY <1>0 DEF AfterFailure, Jobs
  <2> QED
    BY <1>17, <2>1, InitialValues DEF Errored, rowVars, reqVars, TypeOK
<1> QED
  BY <1>1, <1>2, <1>3, <1>4, <1>5, <1>7, <1>8, <1>9, <1>11, <1>12, <1>13,
     <1>14, <1>15, <1>16, <1>17 DEF RunStep

-----------------------------------------------------------------------------
(* The inductive invariant.  No property is inductive alone: that a redelivery *)
(* cannot mix two outcomes rests on where RunExecution is, that on what River *)
(* knows of the job, and that on which request owns which row.              *)

\* What River knows of a job agrees with the run and with the row.
DeliveryInv(e) ==
    /\ row[e].status = "absent" => job[e] = NoJob
    /\ job[e].state = "none" => job[e] = NoJob
    /\ job[e].state \in {"none", "waiting"} => job[e].attempt < MaxAttempts
    /\ job[e].state \notin {"none", "waiting"} => job[e].attempt > 0
    /\ run[e].at # "idle" => job[e].state = "running"
    /\ ~run[e].ctx => "timeout" \in Faults

\* A request that created a row owns it until it has enqueued its job.
CallersInv ==
    /\ \A r \in Requests : req[r].at = "created" =>
          row[req[r].exec].status # "absent" /\ job[req[r].exec] = NoJob
    /\ \A q, r \in Requests :
          req[q].at = "created" /\ req[r].at = "created" /\ req[q].exec = req[r].exec
            => q = r
    /\ \A e \in accepted : job[e].state # "none"

Unstarted(e) == row[e].status \in {"absent", "queued", "cancelled"}

Recorded(e) ==
    \/ row[e].status = "success"
    \/ row[e].status = "running" /\ Faults \intersect {"db", "timeout"} # {}

\* The row agrees with where the delivery is.
OutcomeInv(e) ==
    /\ Unstarted(e) =>
          /\ row[e] = [NoRow EXCEPT !.status = row[e].status]
          /\ \A n \in Nodes : calls[e][n] = 0
    /\ job[e].attempt = 0 => Unstarted(e)
    /\ job[e].attempt = 1 /\ run[e].at \in {"load", "start", "reject"} => Unstarted(e)
    /\ run[e].at \in {"node", "fail"} => row[e].status = "running"
    /\ run[e].at = "ok" \/ job[e].state = "completed" => Recorded(e)
    /\ row[e].status = "running" /\ job[e].attempt = 1 =>
          ~row[e].finished /\ row[e].output = NoOutput /\ ~row[e].error
    /\ row[e].status = "failed" =>
          row[e].output = NoOutput /\ row[e].error /\ row[e].finished
    /\ row[e].status = "success" =>
          /\ row[e].output = {Nodes} /\ ~row[e].error /\ row[e].finished
          /\ \A n \in Nodes : calls[e][n] > 0

\* What is left of the order covers the nodes without an output, each once, and
\* comes after its parents.
OrderInv(e) ==
    /\ run[e].at \in {"load", "start"} => run[e].outputs = {}
    /\ run[e].at \in {"start", "node"} =>
          /\ \A n \in Nodes \ run[e].outputs :
                \E i \in DOMAIN run[e].todo : run[e].todo[i] = n
          /\ \A i \in DOMAIN run[e].todo : \A m \in Parents(run[e].todo[i]) :
                m \in run[e].outputs \/ \E j \in 1 .. i - 1 : run[e].todo[j] = m
          /\ \A i, j \in DOMAIN run[e].todo : run[e].todo[i] = run[e].todo[j] => i = j
    /\ run[e].at = "node" => \A n \in run[e].outputs : calls[e][n] > 0

\* How often the nodes were called by earlier deliveries and by this one.
CallsInv(e) ==
    /\ \A n \in Nodes : calls[e][n] <= job[e].attempt * NodeAttempts(n)
    /\ run[e].at \in {"load", "start"} =>
          \A n \in Nodes : calls[e][n] <= (job[e].attempt - 1) * NodeAttempts(n)
    /\ run[e].at = "node" =>
          /\ run[e].try >= 1
          /\ \A i \in DOMAIN run[e].todo :
                calls[e][run[e].todo[i]] <=
                    (job[e].attempt - 1) * NodeAttempts(run[e].todo[i])
                        + (IF i = 1 THEN run[e].try - 1 ELSE 0)
          /\ run[e].todo # <<>> => run[e].try <= NodeAttempts(Head(run[e].todo))

EInv(e) == DeliveryInv(e) /\ OutcomeInv(e) /\ OrderInv(e) /\ CallsInv(e)

IInv == TypeOK /\ CallersInv /\ \A e \in Execs : EInv(e)

\* The steps of one execution: its cancellation, its job and its run.
OwnStep(e) ==
    Cancel(e) \/ Fetch(e) \/ Rescue(e) \/ RunStep(e) \/ WorkerCrash(e) \/ ContextDone(e)

\* Such a step changes the row, job, run and calls of no other execution, and
\* no request.
LEMMA OthersUntouched ==
  ASSUME TypeOK, NEW e \in Execs, OwnStep(e)
  PROVE  /\ UNCHANGED reqVars
         /\ \A f \in Execs \ {e} :
              UNCHANGED <<row[f], job[f], run[f], calls[f]>>
<1> USE DEF TypeOK, rowVars, reqVars
<1>1. CASE Cancel(e) \/ Fetch(e) \/ Rescue(e) \/ WorkerCrash(e) \/ ContextDone(e)
  BY <1>1 DEF Cancel, Fetch, Rescue, WorkerCrash, ContextDone
<1>2. CASE Load(e) \/ Start(e) \/ LoadOrStartFails(e)
  BY <1>2 DEF Load, Start, LoadOrStartFails, Go
<1>3. CASE NodeSucceeds(e) \/ NodeRetries(e) \/ NodeFails(e)
  BY <1>3 DEF NodeSucceeds, NodeRetries, NodeFails, CallNode, Go
<1>4. CASE FinishFailed(e) \/ FinishSuccess(e) \/ Complete(e) \/ Errored(e)
  BY <1>4 DEF FinishFailed, FinishSuccess, Complete, Errored, Go
<1> QED
  BY <1>1, <1>2, <1>3, <1>4 DEF OwnStep, RunStep

\* An execution nothing happens to keeps its invariant.
LEMMA EInvFrame ==
  ASSUME NEW f \in Execs, EInv(f), UNCHANGED <<row[f], job[f], run[f], calls[f]>>
  PROVE  EInv(f)'
BY DEF EInv, DeliveryInv, OutcomeInv, OrderInv, CallsInv, Unstarted, Recorded

\* The steps of RunExecution, field by field.  At(e, p) says that the run is at
\* p and its context unchanged; Still(e) that its order, outputs and attempt are.
At(e, place) == run'[e].at = place /\ run'[e].ctx = run[e].ctx

Still(e) == /\ run'[e].todo = run[e].todo
            /\ run'[e].outputs = run[e].outputs
            /\ run'[e].try = run[e].try

LEMMA GoEffect ==
  ASSUME TypeOK, NEW e \in Execs, NEW place, Go(e, place)
  PROVE  At(e, place) /\ Still(e)
<1>1. run[e] \in Runs
  BY DEF TypeOK
<1>2. run'[e] = [run[e] EXCEPT !.at = place]
  BY DEF TypeOK, Go
<1> QED
  BY <1>1, <1>2 DEF Runs, At, Still

LEMMA LoadEffect ==
  ASSUME TypeOK, NEW e \in Execs, Load(e)
  PROVE  /\ run[e].at = "load" /\ UNCHANGED <<row, job, calls>>
         /\ \/ TopoOrders = {} /\ At(e, "reject") /\ Still(e)
            \/ /\ At(e, "start") /\ run'[e].outputs = run[e].outputs
               /\ run'[e].todo \in TopoOrders
<1>1. run[e] \in Runs
  BY DEF TypeOK
<1>2. CASE TopoOrders = {}
  BY <1>2, GoEffect DEF Load, rowVars
<1>3. CASE TopoOrders # {}
  <2>1. PICK order \in TopoOrders :
          run' = [run EXCEPT ![e].at = "start", ![e].todo = order]
    BY <1>3 DEF Load
  <2>2. run'[e] = [run[e] EXCEPT !.at = "start", !.todo = order]
    BY <2>1 DEF TypeOK
  <2> QED
    BY <1>1, <2>2 DEF Load, rowVars, At, Runs
<1> QED
  BY <1>2, <1>3

LEMMA StartEffect ==
  ASSUME TypeOK, NEW e \in Execs, Start(e)
  PROVE  /\ run[e].at = "start" /\ UNCHANGED <<job, calls>>
         /\ At(e, "node") /\ run'[e].try = 1
         /\ run'[e].outputs = run[e].outputs /\ run'[e].todo = run[e].todo
         /\ row'[e] = [row[e] EXCEPT !.status = "running", !.started = TRUE]
<1>1. run[e] \in Runs
  BY DEF TypeOK
<1>2. run'[e] = [run[e] EXCEPT !.at = "node", !.try = 1]
  BY DEF TypeOK, Start
<1> QED
  BY <1>1, <1>2 DEF Start, TypeOK, Runs, At

LEMMA CallEffect ==
  ASSUME TypeOK, NEW e \in Execs, CallNode(e)
  PROVE  /\ run[e].at = "node" /\ UNCHANGED <<row, job>>
         /\ run[e].todo \in Seq(Nodes) /\ run[e].todo # <<>>
         /\ Head(run[e].todo) \in Nodes
         /\ calls'[e] = [calls[e] EXCEPT ![Head(run[e].todo)] = @ + 1]
BY DEF TypeOK, CallNode, Runs

LEMMA NodeEffect ==
  ASSUME TypeOK, NEW e \in Execs
  PROVE  /\ NodeSucceeds(e) =>
              /\ CallNode(e) /\ At(e, "node") /\ run'[e].try = 1
              /\ run'[e].outputs = run[e].outputs \union {Head(run[e].todo)}
              /\ run'[e].todo = Tail(run[e].todo)
         /\ NodeRetries(e) =>
              /\ CallNode(e) /\ At(e, "node") /\ run'[e].try = run[e].try + 1
              /\ run'[e].outputs = run[e].outputs /\ run'[e].todo = run[e].todo
              /\ run[e].try < NodeAttempts(Head(run[e].todo))
         /\ NodeFails(e) => CallNode(e) /\ At(e, "fail") /\ Still(e)
<1>1. run[e] \in Runs
  BY DEF TypeOK
<1>2. ASSUME NodeSucceeds(e)
      PROVE  /\ CallNode(e) /\ At(e, "node") /\ run'[e].try = 1
             /\ run'[e].outputs = run[e].outputs \union {Head(run[e].todo)}
             /\ run'[e].todo = Tail(run[e].todo)
  <2>1. run'[e] = [run[e] EXCEPT !.outputs = run[e].outputs \union {Head(run[e].todo)},
                                 !.todo = Tail(run[e].todo), !.try = 1]
    BY <1>2 DEF TypeOK, NodeSucceeds
  <2>2. CallNode(e) /\ run[e].at = "node"
    BY <1>2 DEF NodeSucceeds, CallNode
  <2> QED
    BY <1>1, <2>1, <2>2 DEF At, Runs
<1>3. ASSUME NodeRetries(e)
      PROVE  /\ CallNode(e) /\ At(e, "node") /\ run'[e].try = run[e].try + 1
             /\ run'[e].outputs = run[e].outputs /\ run'[e].todo = run[e].todo
             /\ run[e].try < NodeAttempts(Head(run[e].todo))
  <2>1. run'[e] = [run[e] EXCEPT !.try = run[e].try + 1]
    BY <1>3 DEF TypeOK, NodeRetries
  <2>2. CallNode(e) /\ run[e].at = "node" /\ run[e].try < NodeAttempts(Head(run[e].todo))
    BY <1>3 DEF NodeRetries, CallNode
  <2> QED
    BY <1>1, <2>1, <2>2 DEF At, Runs
<1>4. NodeFails(e) => CallNode(e) /\ At(e, "fail") /\ Still(e)
  BY GoEffect DEF NodeFails
<1> QED
  BY <1>2, <1>3, <1>4

LEMMA FinishEffect ==
  ASSUME TypeOK, NEW e \in Execs
  PROVE  /\ FinishFailed(e) =>
              /\ run[e].at \in {"reject", "fail"} /\ UNCHANGED <<job, calls>>
              /\ At(e, "err") /\ Still(e)
              /\ row'[e] = row[e] \/ row'[e] = Finished(row[e], "failed", NoOutput)
         /\ FinishSuccess(e) =>
              /\ run[e].at = "node" /\ run[e].todo = <<>> /\ UNCHANGED <<job, calls>>
              /\ At(e, "ok") /\ Still(e)
              /\ \/ row'[e] = row[e] /\ MayFail(e)
                 \/ row'[e] = Finished(row[e], "success", {run[e].outputs})
<1>1. FinishFailed(e) => At(e, "err") /\ Still(e)
  BY GoEffect DEF FinishFailed
<1>2. FinishSuccess(e) => At(e, "ok") /\ Still(e)
  BY GoEffect DEF FinishSuccess
<1> QED
  BY <1>1, <1>2 DEF FinishFailed, FinishSuccess, TypeOK

\* The steps around a run, field by field.
Idle(e) == run'[e].at = "idle" /\ run'[e].ctx /\ run'[e].outputs = {}

Attempted(e, state) == job'[e].state = state /\ job'[e].attempt = job[e].attempt

LEMMA RiverEffect ==
  ASSUME TypeOK, NEW e \in Execs
  PROVE  /\ Cancel(e) =>
              /\ row[e].status = "queued" /\ UNCHANGED <<job, run, calls>>
              /\ row'[e] = [row[e] EXCEPT !.status = "cancelled"]
         /\ Fetch(e) =>
              /\ job[e].state = "waiting" /\ UNCHANGED <<row, calls>>
              /\ job'[e].state = "running" /\ job'[e].attempt = job[e].attempt + 1
              /\ run'[e].at = "load" /\ run'[e].ctx /\ run'[e].outputs = {}
         /\ Rescue(e) =>
              /\ job[e].state = "running" /\ run[e].at = "idle"
              /\ UNCHANGED <<row, run, calls>> /\ Attempted(e, AfterFailure(e))
         /\ WorkerCrash(e) => UNCHANGED <<row, job, calls>> /\ Idle(e)
         /\ ContextDone(e) =>
              /\ "timeout" \in Faults /\ UNCHANGED <<row, job, calls>>
              /\ run'[e].at = run[e].at /\ run[e].at # "idle" /\ Still(e)
         /\ Complete(e) =>
              /\ run[e].at = "ok" /\ UNCHANGED <<row, calls>>
              /\ Attempted(e, "completed") /\ Idle(e)
         /\ Errored(e) =>
              /\ run[e].at = "err" /\ UNCHANGED <<row, calls>>
              /\ Attempted(e, AfterFailure(e)) /\ Idle(e)
<1> USE DEF rowVars, reqVars
<1>0. job[e] \in Jobs /\ run[e] \in Runs
  BY DEF TypeOK
<1>1. ASSUME Cancel(e)
      PROVE  /\ row[e].status = "queued" /\ UNCHANGED <<job, run, calls>>
             /\ row'[e] = [row[e] EXCEPT !.status = "cancelled"]
  BY <1>1 DEF TypeOK, Cancel, Cancellable
<1>2. ASSUME Fetch(e)
      PROVE  /\ job[e].state = "waiting" /\ UNCHANGED <<row, calls>>
             /\ job'[e].state = "running" /\ job'[e].attempt = job[e].attempt + 1
             /\ run'[e].at = "load" /\ run'[e].ctx /\ run'[e].outputs = {}
  <2>1. job'[e] = [job[e] EXCEPT !.state = "running", !.attempt = job[e].attempt + 1]
    BY <1>2 DEF TypeOK, Fetch
  <2>2. run'[e] = [NoRun EXCEPT !.at = "load"]
    BY <1>2 DEF TypeOK, Fetch
  <2> QED
    BY <1>0, <1>2, <2>1, <2>2 DEF Fetch, Jobs, NoRun
<1>3. ASSUME Rescue(e)
      PROVE  /\ job[e].state = "running" /\ run[e].at = "idle"
             /\ UNCHANGED <<row, run, calls>> /\ Attempted(e, AfterFailure(e))
  <2>1. job'[e] = [job[e] EXCEPT !.state = AfterFailure(e), !.lost = TRUE]
    BY <1>3 DEF TypeOK, Rescue
  <2> QED
    BY <1>0, <1>3, <2>1 DEF Rescue, Jobs, Attempted
<1>4. ASSUME WorkerCrash(e)
      PROVE  UNCHANGED <<row, job, calls>> /\ Idle(e)
  BY <1>4 DEF WorkerCrash, TypeOK, NoRun, Idle
<1>5. ASSUME ContextDone(e)
      PROVE  /\ "timeout" \in Faults /\ UNCHANGED <<row, job, calls>>
             /\ run'[e].at = run[e].at /\ run[e].at # "idle" /\ Still(e)
  <2>1. run'[e] = [run[e] EXCEPT !.ctx = FALSE]
    BY <1>5 DEF ContextDone, TypeOK
  <2> QED
    BY <1>0, <1>5, <2>1 DEF ContextDone, Still, Runs
<1>6. ASSUME Complete(e)
      PROVE  /\ run[e].at = "ok" /\ UNCHANGED <<row, calls>>
             /\ Attempted(e, "completed") /\ Idle(e)
  <2>1. job'[e] = [job[e] EXCEPT !.state = "completed"]
    BY <1>6 DEF TypeOK, Complete
  <2> QED
    BY <1>0, <1>6, <2>1 DEF TypeOK, Complete, Jobs, Attempted, NoRun, Idle
<1>7. ASSUME Errored(e)
      PROVE  /\ run[e].at = "err" /\ UNCHANGED <<row, calls>>
             /\ Attempted(e, AfterFailure(e)) /\ Idle(e)
  <2>1. job'[e] = [job[e] EXCEPT !.state = AfterFailure(e), !.lost = FALSE]
    BY <1>7 DEF TypeOK, Errored
  <2> QED
    BY <1>0, <1>7, <2>1 DEF TypeOK, Errored, Jobs, Attempted, NoRun, Idle
<1> QED
  BY <1>1, <1>2, <1>3, <1>4, <1>5, <1>6, <1>7

\* A row that exists goes on existing: the only insert finds no row.
LEMMA RowStays ==
  ASSUME TypeOK, NEW e \in Execs, OwnStep(e), row'[e].status = "absent"
  PROVE  row[e].status = "absent"
<1>1. row[e] \in Rows
  BY DEF TypeOK
<1>2. CASE Cancel(e) \/ Fetch(e) \/ Rescue(e) \/ WorkerCrash(e) \/ ContextDone(e)
             \/ Complete(e) \/ Errored(e)
  BY <1>1, <1>2, RiverEffect DEF Rows
<1>3. CASE Load(e)
  BY <1>3, LoadEffect
<1>4. CASE Start(e)
  BY <1>1, <1>4, StartEffect DEF Rows
<1>5. CASE LoadOrStartFails(e)
  BY <1>5 DEF LoadOrStartFails, rowVars
<1>6. CASE NodeSucceeds(e) \/ NodeRetries(e) \/ NodeFails(e)
  BY <1>6, NodeEffect, CallEffect
<1>7. CASE FinishFailed(e) \/ FinishSuccess(e)
  BY <1>1, <1>7, FinishEffect DEF Finished, Rows
<1> QED
  BY <1>2, <1>3, <1>4, <1>5, <1>6, <1>7 DEF OwnStep, RunStep

\* Job and run stay in agreement.
LEMMA DeliveryInvStep ==
  ASSUME TypeOK, NEW e \in Execs, DeliveryInv(e), OwnStep(e)
  PROVE  DeliveryInv(e)'
<1> USE DEF DeliveryInv, At
<1>0. job[e] \in Jobs /\ MaxAttempts \in Nat \ {0}
  BY ExecutionsAssumption DEF TypeOK
<1>1. CASE Cancel(e)
  BY <1>1, RowStays, RiverEffect
<1>2. CASE Fetch(e)
  <2>1. /\ job[e].state = "waiting" /\ job'[e].state = "running"
        /\ job'[e].attempt = job[e].attempt + 1 /\ run'[e].ctx
    BY <1>2, RiverEffect
  <2>2. row'[e].status # "absent"
    BY <2>1, RowStays DEF NoJob
  <2> QED
    BY <1>0, <2>1, <2>2 DEF Jobs
<1>3. CASE Rescue(e) \/ Errored(e)
  <2>1. /\ job[e].state = "running" /\ Attempted(e, AfterFailure(e))
        /\ run'[e].at = "idle" /\ (run'[e].ctx \/ run'[e].ctx = run[e].ctx)
    BY <1>3, RiverEffect DEF Idle
  <2>2. row'[e].status # "absent"
    BY <2>1, RowStays DEF NoJob
  <2> QED
    BY <1>0, <2>1, <2>2 DEF Jobs, AfterFailure, Attempted
<1>4. CASE WorkerCrash(e) \/ ContextDone(e)
  BY <1>4, RowStays, RiverEffect DEF Idle
<1>5. CASE Complete(e)
  <2>1. job[e].state = "running" /\ Attempted(e, "completed") /\ Idle(e)
    BY <1>5, RiverEffect
  <2>2. row'[e].status # "absent"
    BY <2>1, RowStays DEF NoJob
  <2> QED
    BY <1>0, <2>1, <2>2 DEF Idle, Attempted
<1>6. ASSUME UNCHANGED job, run[e].at # "idle", run'[e].ctx = run[e].ctx
      PROVE  DeliveryInv(e)'
  BY <1>6, RowStays
<1>7. CASE Load(e)
  <2>1. UNCHANGED job /\ run[e].at # "idle" /\ run'[e].ctx = run[e].ctx
    BY <1>7, LoadEffect
  <2> QED
    BY <1>6, <2>1
<1>8. CASE Start(e)
  <2>1. UNCHANGED job /\ run[e].at # "idle" /\ run'[e].ctx = run[e].ctx
    BY <1>8, StartEffect
  <2> QED
    BY <1>6, <2>1
<1>9. CASE LoadOrStartFails(e)
  <2>1. UNCHANGED job /\ run[e].at # "idle" /\ run'[e].ctx = run[e].ctx
    BY <1>9, GoEffect DEF LoadOrStartFails
  <2> QED
    BY <1>6, <2>1
<1>10. CASE NodeSucceeds(e) \/ NodeRetries(e) \/ NodeFails(e)
  <2>1. UNCHANGED job /\ run[e].at # "idle" /\ run'[e].ctx = run[e].ctx
    BY <1>10, NodeEffect, CallEffect
  <2> QED
    BY <1>6, <2>1
<1>11. CASE FinishFailed(e) \/ FinishSuccess(e)
  <2>1. UNCHANGED job /\ run[e].at # "idle" /\ run'[e].ctx = run[e].ctx
    BY <1>11, FinishEffect
  <2> QED
    BY <1>6, <2>1
<1> QED
  BY <1>1, <1>2, <1>3, <1>4, <1>5, <1>7, <1>8, <1>9, <1>10, <1>11
     DEF OwnStep, RunStep

\* A step that leaves the row and the calls alone keeps the outcome as long as
\* the delivery is where the row says it is.
LEMMA OutcomeKept ==
  ASSUME NEW e \in Execs, OutcomeInv(e), UNCHANGED <<row[e], calls[e]>>,
         job'[e].attempt \in {0, 1} => job'[e].attempt = job[e].attempt \/ Unstarted(e),
         run'[e].at \in {"load", "start", "reject"} /\ job'[e].attempt = 1 => Unstarted(e),
         run'[e].at \in {"node", "fail"} => row[e].status = "running",
         run'[e].at = "ok" \/ job'[e].state = "completed" => Recorded(e)
  PROVE  OutcomeInv(e)'
BY DEF OutcomeInv, Unstarted, Recorded

\* The row keeps agreeing with where the delivery is.
LEMMA OutcomeInvStep ==
  ASSUME TypeOK, NEW e \in Execs, EInv(e), OwnStep(e)
  PROVE  OutcomeInv(e)'
<1>0. /\ DeliveryInv(e) /\ OutcomeInv(e) /\ OrderInv(e)
      /\ row[e] \in Rows /\ job[e] \in Jobs /\ run[e] \in Runs
      /\ calls[e] \in [Nodes -> Nat]
  BY DEF EInv, TypeOK
<1>1. CASE Cancel(e)
  <2>1. /\ row[e].status = "queued" /\ UNCHANGED <<job, run, calls>>
        /\ row'[e] = [row[e] EXCEPT !.status = "cancelled"]
    BY <1>1, RiverEffect
  <2>2. /\ row'[e] = [NoRow EXCEPT !.status = "cancelled"]
        /\ row'[e].status = "cancelled"
        /\ \A n \in Nodes : calls[e][n] = 0
    BY <1>0, <2>1 DEF OutcomeInv, Unstarted, NoRow
  <2> QED
    BY <1>0, <2>1, <2>2 DEF OutcomeInv, Unstarted, Recorded
<1>2. CASE Fetch(e)
  <2>1. /\ job[e].state = "waiting" /\ UNCHANGED <<row, calls>>
        /\ job'[e].state = "running" /\ job'[e].attempt = job[e].attempt + 1
        /\ run'[e].at = "load"
    BY <1>2, RiverEffect
  <2>2. job[e].attempt = 0 \/ job'[e].attempt \notin {0, 1}
    BY <1>0, <2>1 DEF Jobs
  <2>3. job[e].attempt = 0 => Unstarted(e)
    BY <1>0 DEF OutcomeInv
  <2> QED
    BY <1>0, <2>1, <2>2, <2>3, OutcomeKept
<1>3. CASE Rescue(e) \/ WorkerCrash(e) \/ Errored(e)
  <2>1. /\ UNCHANGED <<row, calls>> /\ job'[e].attempt = job[e].attempt
        /\ run'[e].at = "idle"
        /\ job'[e].state = "completed" => job[e].state = "completed"
    BY <1>3, RiverEffect DEF Attempted, Idle, AfterFailure
  <2>2. job[e].state = "completed" => Recorded(e)
    BY <1>0 DEF OutcomeInv
  <2> QED
    BY <1>0, <2>1, <2>2, OutcomeKept
<1>4. CASE ContextDone(e)
  <2>1. /\ UNCHANGED <<row, job, calls>> /\ run'[e].at = run[e].at
    BY <1>4, RiverEffect
  <2> QED
    BY <1>0, <2>1 DEF OutcomeInv, Unstarted, Recorded
<1>5. CASE Complete(e)
  <2>1. /\ UNCHANGED <<row, calls>> /\ job'[e].attempt = job[e].attempt
        /\ run'[e].at = "idle" /\ run[e].at = "ok"
    BY <1>5, RiverEffect DEF Attempted, Idle
  <2>2. Recorded(e)
    BY <1>0, <2>1 DEF OutcomeInv
  <2> QED
    BY <1>0, <2>1, <2>2, OutcomeKept
<1>6. CASE Load(e)
  <2>1. /\ UNCHANGED <<row, job, calls>> /\ run[e].at = "load"
        /\ run'[e].at \in {"start", "reject"}
    BY <1>6, LoadEffect DEF At
  <2>2. /\ job[e].attempt = 1 => Unstarted(e)
        /\ job[e].state = "completed" => Recorded(e)
    BY <1>0, <2>1 DEF OutcomeInv
  <2> QED
    BY <1>0, <2>1, <2>2, OutcomeKept
<1>7. CASE Start(e)
  <2>1. /\ run[e].at = "start" /\ UNCHANGED <<job, calls>> /\ run'[e].at = "node"
        /\ row'[e] = [row[e] EXCEPT !.status = "running", !.started = TRUE]
    BY <1>7, StartEffect DEF At
  <2>2. job[e].state = "running" /\ job[e].attempt > 0
    BY <1>0, <2>1 DEF DeliveryInv
  <2>3. /\ row'[e].status = "running" /\ row'[e].finished = row[e].finished
        /\ row'[e].output = row[e].output /\ row'[e].error = row[e].error
    BY <1>0, <2>1 DEF Rows
  <2>4. job[e].attempt = 1 =>
          ~row[e].finished /\ row[e].output = NoOutput /\ ~row[e].error
    BY <1>0, <2>1 DEF OutcomeInv, Unstarted, NoRow
  <2> QED
    BY <1>0, <2>1, <2>2, <2>3, <2>4 DEF OutcomeInv, Unstarted, Recorded, Jobs
<1>8. CASE LoadOrStartFails(e)
  <2>1. UNCHANGED <<row, job, calls>> /\ run'[e].at = "err"
    BY <1>8, GoEffect DEF LoadOrStartFails, At, rowVars
  <2>2. job[e].state = "completed" => Recorded(e)
    BY <1>0 DEF OutcomeInv
  <2> QED
    BY <1>0, <2>1, <2>2, OutcomeKept
<1>9. CASE NodeSucceeds(e) \/ NodeRetries(e) \/ NodeFails(e)
  <2>1. /\ UNCHANGED <<row, job>> /\ run[e].at = "node"
        /\ run'[e].at \in {"node", "fail"}
    BY <1>9, NodeEffect, CallEffect DEF At
  <2>2. job[e].state = "running" /\ job[e].attempt > 0 /\ row[e].status = "running"
    BY <1>0, <2>1 DEF DeliveryInv, OutcomeInv
  <2> QED
    BY <1>0, <2>1, <2>2 DEF OutcomeInv, Unstarted, Recorded, Jobs
<1>10. CASE FinishFailed(e)
  <2>1. /\ UNCHANGED <<job, calls>> /\ run'[e].at = "err" /\ run[e].at # "idle"
        /\ row'[e] = row[e] \/ row'[e] = Finished(row[e], "failed", NoOutput)
    BY <1>10, FinishEffect DEF At
  <2>2. job[e].state = "running" /\ job[e].attempt > 0
    BY <1>0, <2>1 DEF DeliveryInv
  <2>3. CASE row'[e] = row[e]
    BY <1>0, <2>1, <2>2, <2>3, OutcomeKept
  <2>4. CASE row'[e] = Finished(row[e], "failed", NoOutput)
    <3>1. /\ row'[e].status = "failed" /\ row'[e].finished
          /\ row'[e].output = NoOutput /\ row'[e].error
      BY <1>0, <2>4 DEF Finished, Rows
    <3> QED
      BY <2>1, <2>2, <3>1, <1>0 DEF OutcomeInv, Unstarted, Recorded, Jobs
  <2> QED
    BY <2>1, <2>3, <2>4
<1>11. CASE FinishSuccess(e)
  <2>1. /\ UNCHANGED <<job, calls>> /\ run'[e].at = "ok"
        /\ run[e].at = "node" /\ run[e].todo = <<>>
        /\ \/ row'[e] = row[e] /\ MayFail(e)
           \/ row'[e] = Finished(row[e], "success", {run[e].outputs})
    BY <1>11, FinishEffect DEF At
  <2>2. job[e].state = "running" /\ job[e].attempt > 0
    BY <1>0, <2>1 DEF DeliveryInv
  <2>3. CASE row'[e] = row[e] /\ MayFail(e)
    <3>1. Recorded(e)
      BY <1>0, <2>1, <2>3 DEF OutcomeInv, DeliveryInv, MayFail, Recorded
    <3> QED
      BY <1>0, <2>1, <2>2, <2>3, <3>1, OutcomeKept
  <2>4. CASE row'[e] = Finished(row[e], "success", {run[e].outputs})
    <3>0. /\ \A n \in Nodes \ run[e].outputs :
                \E i \in DOMAIN run[e].todo : run[e].todo[i] = n
          /\ \A n \in run[e].outputs : calls[e][n] > 0
      BY <1>0, <2>1 DEF OrderInv
    <3>1. run[e].outputs = Nodes /\ \A n \in Nodes : calls[e][n] > 0
      <4>1. DOMAIN run[e].todo = {}
        BY <2>1
      <4> QED
        BY <1>0, <3>0, <4>1 DEF Runs
    <3>2. /\ row'[e].status = "success" /\ row'[e].finished
          /\ row'[e].output = {Nodes} /\ ~row'[e].error
      BY <1>0, <2>4, <3>1 DEF Finished, Rows
    <3> QED
      BY <1>0, <2>1, <2>2, <3>1, <3>2 DEF OutcomeInv, Unstarted, Recorded, Jobs
  <2> QED
    BY <2>1, <2>3, <2>4
<1> QED
  BY <1>1, <1>2, <1>3, <1>4, <1>5, <1>6, <1>7, <1>8, <1>9, <1>10, <1>11
     DEF OwnStep, RunStep

\* A topological order lists every node once, after its parents.
LEMMA TopoOrderFacts ==
  ASSUME NEW order \in TopoOrders
  PROVE  /\ \A n \in Nodes : \E i \in DOMAIN order : order[i] = n
         /\ \A i \in DOMAIN order : \A m \in Parents(order[i]) :
               \E j \in 1 .. i - 1 : order[j] = m
         /\ \A i, j \in DOMAIN order : order[i] = order[j] => i = j
<1>1. Cardinality(Nodes) \in Nat /\ DOMAIN order = 1 .. Cardinality(Nodes)
  BY FS_CardinalityType, DagAssumption DEF TopoOrders
<1>2. Covers(order) /\ Respects(order)
  BY DEF TopoOrders
<1>3. ASSUME NEW i \in DOMAIN order, NEW m \in Parents(order[i])
      PROVE  \E j \in 1 .. i - 1 : order[j] = m
  <2>1. PICK j \in DOMAIN order : order[j] = m
    BY <1>2 DEF Covers, Parents
  <2>2. j < i
    BY <1>2, <2>1 DEF Respects, Parents
  <2> QED
    BY <1>1, <2>1, <2>2
<1> QED
  BY <1>2, <1>3 DEF Covers

\* The order is followed: a node that got its output leaves the rest of the order
\* with the same three facts.
LEMMA TailFacts ==
  ASSUME NEW s \in Seq(Nodes), s # <<>>
  PROVE  /\ Tail(s) \in Seq(Nodes) /\ Len(s) \in Nat /\ Len(s) > 0
         /\ DOMAIN s = 1 .. Len(s) /\ DOMAIN Tail(s) = 1 .. Len(s) - 1
         /\ \A i \in DOMAIN Tail(s) : i + 1 \in DOMAIN s /\ Tail(s)[i] = s[i + 1]
         /\ \A i \in DOMAIN s : i # 1 => i - 1 \in DOMAIN Tail(s) /\ Tail(s)[i - 1] = s[i]
         /\ Head(s) = s[1] /\ 1 \in DOMAIN s
OBVIOUS

LEMMA OrderInvStep ==
  ASSUME TypeOK, NEW e \in Execs, EInv(e), OwnStep(e)
  PROVE  OrderInv(e)'
<1>0. /\ OrderInv(e) /\ run[e] \in Runs /\ calls[e] \in [Nodes -> Nat]
  BY DEF EInv, TypeOK
<1>1. CASE Cancel(e) \/ Rescue(e)
  <2>1. UNCHANGED <<run, calls>>
    BY <1>1, RiverEffect
  <2> QED
    BY <1>0, <2>1 DEF OrderInv
<1>2. CASE Fetch(e)
  <2>1. run'[e].at = "load" /\ run'[e].outputs = {}
    BY <1>2, RiverEffect
  <2> QED
    BY <2>1 DEF OrderInv
<1>3. ASSUME run'[e].at \notin {"load", "start", "node"}
      PROVE  OrderInv(e)'
  BY <1>3 DEF OrderInv
<1>4. CASE WorkerCrash(e) \/ Complete(e) \/ Errored(e)
  <2>1. run'[e].at = "idle"
    BY <1>4, RiverEffect DEF Idle
  <2> QED
    BY <1>3, <2>1
<1>5. CASE ContextDone(e)
  <2>1. run'[e].at = run[e].at /\ Still(e) /\ UNCHANGED calls
    BY <1>5, RiverEffect
  <2> QED
    BY <1>0, <2>1 DEF OrderInv, Still
<1>6. CASE Load(e)
  <2>1. /\ run[e].at = "load"
        /\ \/ run'[e].at = "reject"
           \/ /\ run'[e].at = "start" /\ run'[e].outputs = run[e].outputs
              /\ run'[e].todo \in TopoOrders
    BY <1>6, LoadEffect DEF At
  <2>2. CASE run'[e].at = "reject"
    BY <1>3, <2>2
  <2>3. CASE /\ run'[e].at = "start" /\ run'[e].outputs = run[e].outputs
             /\ run'[e].todo \in TopoOrders
    <3>1. run'[e].outputs = {}
      BY <1>0, <2>1, <2>3 DEF OrderInv
    <3>2. /\ \A n \in Nodes : \E i \in DOMAIN run'[e].todo : run'[e].todo[i] = n
          /\ \A i \in DOMAIN run'[e].todo : \A m \in Parents(run'[e].todo[i]) :
                \E j \in 1 .. i - 1 : run'[e].todo[j] = m
          /\ \A i, j \in DOMAIN run'[e].todo : run'[e].todo[i] = run'[e].todo[j] => i = j
      BY <2>3, TopoOrderFacts
    <3> QED
      BY <2>3, <3>1, <3>2 DEF OrderInv
  <2> QED
    BY <2>1, <2>2, <2>3
<1>7. CASE Start(e)
  <2>1. /\ run[e].at = "start" /\ run'[e].at = "node"
        /\ run'[e].outputs = run[e].outputs /\ run'[e].todo = run[e].todo
    BY <1>7, StartEffect DEF At
  <2>2. run[e].outputs = {}
    BY <1>0, <2>1 DEF OrderInv
  <2> QED
    BY <1>0, <2>1, <2>2 DEF OrderInv
<1>8. CASE LoadOrStartFails(e)
  <2>1. run'[e].at = "err"
    BY <1>8, GoEffect DEF LoadOrStartFails, At
  <2> QED
    BY <1>3, <2>1
<1>9. CASE NodeSucceeds(e)
  <2> DEFINE s == run[e].todo
             h == Head(s)
  <2>1. /\ run[e].at = "node" /\ run'[e].at = "node"
        /\ run'[e].outputs = run[e].outputs \union {h}
        /\ run'[e].todo = Tail(s)
        /\ s \in Seq(Nodes) /\ s # <<>> /\ h \in Nodes
        /\ calls'[e] = [calls[e] EXCEPT ![h] = @ + 1]
    BY <1>9, NodeEffect, CallEffect DEF At
  <2>2. /\ \A n \in Nodes \ run[e].outputs : \E i \in DOMAIN s : s[i] = n
        /\ \A i \in DOMAIN s : \A m \in Parents(s[i]) :
              m \in run[e].outputs \/ \E j \in 1 .. i - 1 : s[j] = m
        /\ \A i, j \in DOMAIN s : s[i] = s[j] => i = j
        /\ \A n \in run[e].outputs : calls[e][n] > 0
    BY <1>0, <2>1 DEF OrderInv
  <2> HIDE DEF s, h
  <2>3. ASSUME NEW n \in Nodes \ (run[e].outputs \union {h})
        PROVE  \E i \in DOMAIN Tail(s) : Tail(s)[i] = n
    <3>1. PICK i \in DOMAIN s : s[i] = n
      BY <2>2
    <3>2. i # 1
      BY <2>1, <3>1, TailFacts DEF h
    <3>3. i - 1 \in DOMAIN Tail(s) /\ Tail(s)[i - 1] = s[i]
      BY <2>1, <3>1, <3>2, TailFacts
    <3> QED
      BY <3>1, <3>3
  <2>4. ASSUME NEW i \in DOMAIN Tail(s), NEW m \in Parents(Tail(s)[i]),
               m \notin run[e].outputs \union {h}
        PROVE  \E j \in 1 .. i - 1 : Tail(s)[j] = m
    <3>1. i + 1 \in DOMAIN s /\ Tail(s)[i] = s[i + 1] /\ i \in Nat
      BY <2>1, TailFacts
    <3>2. PICK j \in 1 .. (i + 1) - 1 : s[j] = m
      BY <2>2, <2>4, <3>1
    <3>3. j # 1 /\ j \in DOMAIN s
      BY <2>1, <2>4, <3>1, <3>2, TailFacts DEF h
    <3>4. Tail(s)[j - 1] = m
      BY <2>1, <3>2, <3>3, TailFacts
    <3>5. j - 1 \in 1 .. i - 1
      BY <3>1, <3>2, <3>3
    <3> QED
      BY <3>4, <3>5
  <2>5. ASSUME NEW i \in DOMAIN Tail(s), NEW j \in DOMAIN Tail(s), Tail(s)[i] = Tail(s)[j]
        PROVE  i = j
    <3>1. i + 1 \in DOMAIN s /\ j + 1 \in DOMAIN s /\ s[i + 1] = s[j + 1]
      BY <2>1, <2>5, TailFacts
    <3>2. i \in Nat /\ j \in Nat
      BY <2>1, TailFacts
    <3> QED
      BY <2>2, <3>1, <3>2
  <2>6. \A n \in run[e].outputs \union {h} : calls'[e][n] > 0
    BY <1>0, <2>1, <2>2 DEF Runs
  <2> QED
    BY <2>1, <2>3, <2>4, <2>5, <2>6 DEF OrderInv
<1>10. CASE NodeRetries(e)
  <2>1. /\ run[e].at = "node" /\ run'[e].at = "node"
        /\ run'[e].outputs = run[e].outputs /\ run'[e].todo = run[e].todo
        /\ Head(run[e].todo) \in Nodes
        /\ calls'[e] = [calls[e] EXCEPT ![Head(run[e].todo)] = @ + 1]
    BY <1>10, NodeEffect, CallEffect DEF At
  <2>2. \A n \in run[e].outputs : calls[e][n] > 0 /\ n \in Nodes
    BY <1>0, <2>1 DEF OrderInv, Runs
  <2>3. \A n \in run[e].outputs : calls'[e][n] > 0
    BY <1>0, <2>1, <2>2
  <2> QED
    BY <1>0, <2>1, <2>3 DEF OrderInv
<1>11. CASE NodeFails(e) \/ FinishFailed(e) \/ FinishSuccess(e)
  <2>1. run'[e].at \in {"fail", "err", "ok"}
    BY <1>11, NodeEffect, FinishEffect DEF At
  <2> QED
    BY <1>3, <2>1
<1> QED
  BY <1>1, <1>2, <1>4, <1>5, <1>6, <1>7, <1>8, <1>9, <1>10, <1>11
     DEF OwnStep, RunStep

\* The calls a node is allowed grow by its attempts with every delivery.
LEMMA Budget ==
  ASSUME NEW k \in Nat, NEW a \in Nat
  PROVE  /\ k * a \in Nat /\ (k + 1) * a = k * a + a
         /\ k > 0 => (k - 1) * a \in Nat /\ (k - 1) * a + a = k * a
OBVIOUS

\* Calls that do not grow keep their bounds while the delivery is not a new one.
LEMMA CallsKept ==
  ASSUME NEW e \in Execs, CallsInv(e), UNCHANGED calls[e],
         job'[e].attempt = job[e].attempt,
         run'[e].at # "node",
         run'[e].at \in {"load", "start"} => run[e].at \in {"load", "start"}
  PROVE  CallsInv(e)'
BY DEF CallsInv

LEMMA CallsInvStep ==
  ASSUME TypeOK, NEW e \in Execs, EInv(e), OwnStep(e)
  PROVE  CallsInv(e)'
<1> DEFINE k == job[e].attempt
           c == calls[e]
<1>0. /\ CallsInv(e) /\ DeliveryInv(e) /\ OrderInv(e)
      /\ run[e] \in Runs /\ job[e] \in Jobs
      /\ c \in [Nodes -> Nat] /\ k \in Nat
  BY ExecutionsAssumption DEF EInv, TypeOK, Jobs
<1>1. CASE Cancel(e)
  BY <1>0, <1>1, RiverEffect DEF CallsInv
<1>2. CASE Fetch(e)
  <2>1. /\ UNCHANGED calls /\ job'[e].attempt = k + 1 /\ run'[e].at = "load"
    BY <1>2, RiverEffect
  <2>2. \A n \in Nodes : c[n] <= k * NodeAttempts(n)
    BY <1>0 DEF CallsInv
  <2>3. ASSUME NEW n \in Nodes
        PROVE  c[n] <= k * NodeAttempts(n) /\ c[n] <= (k + 1) * NodeAttempts(n)
    <3> DEFINE a == NodeAttempts(n)
    <3>1. a \in Nat /\ c[n] \in Nat /\ c[n] <= k * a
      BY <1>0, <2>2, NodeAttemptsPositive
    <3>2. k * a \in Nat /\ (k + 1) * a = k * a + a
      BY <1>0, <3>1, Budget
    <3> HIDE DEF k, a, c
    <3> QED
      BY <3>1, <3>2 DEF a
  <2>4. \A n \in Nodes : /\ calls'[e][n] <= job'[e].attempt * NodeAttempts(n)
                        /\ calls'[e][n] <= (job'[e].attempt - 1) * NodeAttempts(n)
    <3>1. /\ calls'[e] = c /\ job'[e].attempt = k + 1 /\ job'[e].attempt - 1 = k
      BY <1>0, <2>1
    <3> HIDE DEF k, c
    <3> QED
      BY <2>3, <3>1
  <2>5. run'[e].at # "node"
    BY <2>1
  <2> HIDE DEF k, c
  <2> QED
    BY <2>4, <2>5 DEF CallsInv
<1>3. CASE Rescue(e) \/ WorkerCrash(e) \/ Complete(e) \/ Errored(e)
  <2>1. /\ UNCHANGED calls /\ job'[e].attempt = job[e].attempt /\ run'[e].at = "idle"
    BY <1>3, RiverEffect DEF Attempted, Idle
  <2> QED
    BY <1>0, <2>1, CallsKept
<1>4. CASE ContextDone(e)
  <2>1. UNCHANGED <<job, calls>> /\ run'[e].at = run[e].at /\ Still(e)
    BY <1>4, RiverEffect
  <2> QED
    BY <1>0, <2>1 DEF CallsInv, Still
<1>5. CASE Load(e)
  <2>1. /\ UNCHANGED <<job, calls>> /\ run[e].at = "load"
        /\ run'[e].at \in {"start", "reject"}
    BY <1>5, LoadEffect DEF At
  <2> QED
    BY <1>0, <2>1, CallsKept
<1>6. CASE Start(e)
  <2>1. /\ UNCHANGED <<job, calls>> /\ run[e].at = "start" /\ run'[e].at = "node"
        /\ run'[e].todo = run[e].todo /\ run'[e].try = 1
    BY <1>6, StartEffect DEF At
  <2>2. /\ \A n \in Nodes : c[n] <= k * NodeAttempts(n)
        /\ \A n \in Nodes : c[n] <= (k - 1) * NodeAttempts(n)
    BY <1>0, <2>1 DEF CallsInv
  <2>3. k > 0 /\ run[e].todo \in Seq(Nodes)
    BY <1>0, <2>1 DEF DeliveryInv, Runs
  <2>4. ASSUME NEW i \in DOMAIN run[e].todo
        PROVE  c[run[e].todo[i]] <= (k - 1) * NodeAttempts(run[e].todo[i])
                                       + (IF i = 1 THEN 1 - 1 ELSE 0)
    <3> DEFINE n == run[e].todo[i]
               b == (k - 1) * NodeAttempts(n)
    <3>1. n \in Nodes
      BY <2>3
    <3>2. c[n] <= b /\ b \in Nat
      BY <1>0, <2>2, <2>3, <3>1, NodeAttemptsPositive, Budget
    <3> HIDE DEF b
    <3>3. b + (IF i = 1 THEN 1 - 1 ELSE 0) = b
      BY <3>2
    <3> QED
      BY <3>2, <3>3 DEF b
  <2>5. run[e].todo # <<>> => 1 <= NodeAttempts(Head(run[e].todo))
    BY <2>3, NodeAttemptsPositive
  <2> QED
    BY <2>1, <2>2, <2>4, <2>5 DEF CallsInv
<1>7. CASE LoadOrStartFails(e)
  <2>1. UNCHANGED <<job, calls>> /\ run'[e].at = "err"
    BY <1>7, GoEffect DEF LoadOrStartFails, At, rowVars
  <2> QED
    BY <1>0, <2>1, CallsKept
<1>8. CASE FinishFailed(e) \/ FinishSuccess(e)
  <2>1. UNCHANGED <<job, calls>> /\ run'[e].at \in {"err", "ok"}
    BY <1>8, FinishEffect DEF At
  <2> QED
    BY <1>0, <2>1, CallsKept
<1>9. CASE NodeSucceeds(e) \/ NodeRetries(e) \/ NodeFails(e)
  <2> DEFINE s == run[e].todo
             h == Head(s)
             t == run[e].try
  <2>1. /\ run[e].at = "node" /\ UNCHANGED job
        /\ s \in Seq(Nodes) /\ s # <<>> /\ h \in Nodes
        /\ calls'[e] = [c EXCEPT ![h] = @ + 1]
    BY <1>9, NodeEffect, CallEffect
  <2>2. k > 0 /\ t \in Nat
    BY <1>0, <2>1 DEF DeliveryInv, Runs
  <2>3. /\ \A n \in Nodes : c[n] <= k * NodeAttempts(n)
        /\ \A i \in DOMAIN s : c[s[i]] <= (k - 1) * NodeAttempts(s[i])
                                             + (IF i = 1 THEN t - 1 ELSE 0)
        /\ t >= 1 /\ t <= NodeAttempts(h)
    BY <1>0, <2>1 DEF CallsInv
  <2>4. \A i, j \in DOMAIN s : s[i] = s[j] => i = j
    BY <1>0, <2>1 DEF OrderInv
  <2> HIDE DEF s, h, t, c, k
  <2>5. c[h] + 1 <= (k - 1) * NodeAttempts(h) + t
    <3>1. h = s[1] /\ 1 \in DOMAIN s
      BY <2>1, TailFacts DEF h
    <3>2. c[h] <= (k - 1) * NodeAttempts(h) + (t - 1)
      BY <2>3, <3>1
    <3>3. (k - 1) * NodeAttempts(h) \in Nat /\ c[h] \in Nat
      BY <1>0, <2>1, <2>2, NodeAttemptsPositive, Budget
    <3> QED
      BY <2>2, <3>2, <3>3
  <2>6. \A n \in Nodes : calls'[e][n] <= k * NodeAttempts(n)
    <3>1. c[h] + 1 <= k * NodeAttempts(h)
      <4>1. /\ (k - 1) * NodeAttempts(h) \in Nat /\ NodeAttempts(h) \in Nat
            /\ (k - 1) * NodeAttempts(h) + NodeAttempts(h) = k * NodeAttempts(h)
        BY <1>0, <2>1, <2>2, NodeAttemptsPositive, Budget
      <4> QED
        BY <1>0, <2>1, <2>2, <2>3, <2>5, <4>1
    <3> QED
      BY <1>0, <2>1, <2>3, <3>1
  <2>7. CASE NodeSucceeds(e)
    <3>1. run'[e].at = "node" /\ run'[e].try = 1 /\ run'[e].todo = Tail(s)
      BY <2>7, NodeEffect DEF At, s
    <3>2. ASSUME NEW i \in DOMAIN Tail(s)
          PROVE  calls'[e][Tail(s)[i]] <= (k - 1) * NodeAttempts(Tail(s)[i])
                                             + (IF i = 1 THEN 1 - 1 ELSE 0)
      <4> DEFINE n == Tail(s)[i]
                 b == (k - 1) * NodeAttempts(n)
      <4>1. i \in Nat /\ i > 0 /\ i + 1 \in DOMAIN s /\ n = s[i + 1]
        BY <2>1, TailFacts
      <4>2. n \in Nodes /\ n # h
        <5>1. h = s[1] /\ 1 \in DOMAIN s /\ i + 1 # 1
          BY <2>1, <4>1, TailFacts DEF h
        <5> QED
          BY <2>1, <2>4, <4>1, <5>1
      <4>3. b \in Nat /\ c[n] \in Nat /\ calls'[e][n] = c[n]
        BY <1>0, <2>1, <2>2, <4>2, NodeAttemptsPositive, Budget
      <4>4. c[n] <= b + (IF i + 1 = 1 THEN t - 1 ELSE 0)
        BY <2>3, <4>1
      <4> HIDE DEF b, n
      <4>5. c[n] <= b + (IF i = 1 THEN 1 - 1 ELSE 0)
        BY <4>1, <4>3, <4>4
      <4> QED
        BY <4>3, <4>5 DEF b, n
    <3>3. Tail(s) # <<>> => 1 <= NodeAttempts(Head(Tail(s)))
      BY <2>1, TailFacts, NodeAttemptsPositive
    <3> QED
      BY <2>1, <2>6, <3>1, <3>2, <3>3 DEF CallsInv, k
  <2>8. CASE NodeRetries(e)
    <3>1. /\ run'[e].at = "node" /\ run'[e].try = t + 1 /\ run'[e].todo = s
          /\ t < NodeAttempts(h)
      BY <2>8, NodeEffect DEF At, s, t, h
    <3>2. ASSUME NEW i \in DOMAIN s
          PROVE  calls'[e][s[i]] <= (k - 1) * NodeAttempts(s[i])
                                       + (IF i = 1 THEN t ELSE 0)
      <4>1. CASE i = 1
        <5>1. s[i] = h /\ calls'[e][h] = c[h] + 1
          BY <1>0, <2>1, <4>1, TailFacts DEF h
        <5> QED
          BY <2>5, <4>1, <5>1
      <4>2. CASE i # 1
        <5>1. s[i] \in Nodes /\ s[i] # h
          <6>1. h = s[1] /\ 1 \in DOMAIN s
            BY <2>1, TailFacts DEF h
          <6> QED
            BY <2>1, <2>4, <4>2, <6>1
        <5> QED
          BY <1>0, <2>1, <2>3, <4>2, <5>1
      <4> QED
        BY <4>1, <4>2
    <3>3. t + 1 <= NodeAttempts(h) /\ t + 1 >= 1
      BY <2>1, <2>2, <3>1, NodeAttemptsPositive
    <3>4. \A i \in DOMAIN run'[e].todo :
            calls'[e][run'[e].todo[i]] <=
                (job'[e].attempt - 1) * NodeAttempts(run'[e].todo[i])
                    + (IF i = 1 THEN run'[e].try - 1 ELSE 0)
      <4>1. job'[e].attempt = k /\ run'[e].try - 1 = t
        BY <2>1, <2>2, <3>1 DEF k
      <4> QED
        BY <3>1, <3>2, <4>1
    <3>5. /\ run'[e].try >= 1
          /\ run'[e].try <= NodeAttempts(Head(run'[e].todo))
      BY <3>1, <3>3 DEF h
    <3>6. \A n \in Nodes : calls'[e][n] <= job'[e].attempt * NodeAttempts(n)
      BY <2>1, <2>6 DEF k
    <3> QED
      BY <3>1, <3>4, <3>5, <3>6 DEF CallsInv
  <2>9. CASE NodeFails(e)
    <3>1. run'[e].at = "fail"
      BY <2>9, NodeEffect DEF At
    <3> QED
      BY <2>1, <2>6, <3>1 DEF CallsInv, k
  <2> QED
    BY <1>9, <2>7, <2>8, <2>9
<1> QED
  BY <1>1, <1>2, <1>3, <1>4, <1>5, <1>6, <1>7, <1>8, <1>9 DEF OwnStep, RunStep

-----------------------------------------------------------------------------
(* The requests.                                                           *)

\* A delivery never touches the row of a request that has not enqueued yet: such
\* a row has no job.
LEMMA CallersInvOwnStep ==
  ASSUME TypeOK, CallersInv, NEW e \in Execs, EInv(e), OwnStep(e)
  PROVE  CallersInv'
<1>1. UNCHANGED reqVars /\ \A f \in Execs \ {e} : UNCHANGED <<row[f], job[f]>>
  BY OthersUntouched
<1>2. job[e].state = "none" => job'[e] = job[e]
  <2>1. SUFFICES ASSUME job[e].state = "none" PROVE job'[e] = job[e]
    OBVIOUS
  <2>2. run[e].at = "idle"
    BY <2>1 DEF EInv, DeliveryInv
  <2>3. CASE Cancel(e) \/ Fetch(e) \/ Rescue(e) \/ WorkerCrash(e) \/ ContextDone(e)
               \/ Complete(e) \/ Errored(e)
    BY <2>1, <2>2, <2>3, RiverEffect
  <2>4. CASE Load(e) \/ Start(e) \/ LoadOrStartFails(e)
    BY <2>2, <2>4 DEF Load, Start, LoadOrStartFails
  <2>5. CASE NodeSucceeds(e) \/ NodeRetries(e) \/ NodeFails(e)
    BY <2>2, <2>5, NodeEffect, CallEffect
  <2>6. CASE FinishFailed(e) \/ FinishSuccess(e)
    BY <2>2, <2>6, FinishEffect
  <2> QED
    BY <2>3, <2>4, <2>5, <2>6 DEF OwnStep, RunStep
<1>3. job'[e].state = "none" => job[e].state = "none"
  <2>1. SUFFICES ASSUME job'[e].state = "none", job[e].state # "none" PROVE FALSE
    OBVIOUS
  <2>2. CASE Cancel(e) \/ Fetch(e) \/ Rescue(e) \/ WorkerCrash(e) \/ ContextDone(e)
               \/ Complete(e) \/ Errored(e)
    BY <2>1, <2>2, RiverEffect DEF Attempted, AfterFailure
  <2>3. CASE Load(e) \/ Start(e) \/ LoadOrStartFails(e)
    BY <2>1, <2>3 DEF Load, Start, LoadOrStartFails
  <2>4. CASE NodeSucceeds(e) \/ NodeRetries(e) \/ NodeFails(e)
    BY <2>1, <2>4, NodeEffect, CallEffect
  <2>5. CASE FinishFailed(e) \/ FinishSuccess(e)
    BY <2>1, <2>5, FinishEffect
  <2> QED
    BY <2>2, <2>3, <2>4, <2>5 DEF OwnStep, RunStep
<1>4. ASSUME NEW r \in Requests, req[r].at = "created"
      PROVE  req[r].exec \in Execs
  BY <1>4 DEF TypeOK, Reqs
<1>5. ASSUME NEW r \in Requests, req[r].at = "created"
      PROVE  row'[req[r].exec].status # "absent" /\ job'[req[r].exec] = NoJob
  <2>1. /\ req[r].exec \in Execs
        /\ row[req[r].exec].status # "absent" /\ job[req[r].exec] = NoJob
    BY <1>4, <1>5 DEF CallersInv
  <2>2. CASE req[r].exec = e
    BY <1>2, <2>1, <2>2, RowStays DEF NoJob
  <2>3. CASE req[r].exec # e
    BY <1>1, <2>1, <2>3
  <2> QED
    BY <2>2, <2>3
<1>6. \A f \in accepted : job'[f].state # "none"
  BY <1>1, <1>3 DEF CallersInv, TypeOK
<1> QED
  BY <1>1, <1>5, <1>6 DEF CallersInv, reqVars

\* A request creates a row under an id no row has, and enqueues only its own.
LEMMA RequestStepInv ==
  ASSUME IInv, NEW r \in Requests, RequestStep(r)
  PROVE  CallersInv' /\ \A e \in Execs : EInv(e)'
<1>0. TypeOK /\ CallersInv /\ \A e \in Execs : EInv(e)
  BY DEF IInv
<1>1. CASE Execute(r) \/ \E original \in Execs : RetryExecution(r, original)
  <2>1. Checked(r)
    BY <1>1 DEF Execute, RetryExecution
  <2>2. UNCHANGED <<row, job, run, calls, accepted>>
    BY <2>1 DEF Checked
  <2>3. \A q \in Requests : req'[q].at = "created" =>
            req[q].at = "created" /\ req'[q].exec = req[q].exec
    BY <1>0, <2>1 DEF Checked, TypeOK, Reqs
  <2>4. CallersInv'
    BY <1>0, <2>2, <2>3 DEF CallersInv
  <2> QED
    BY <1>0, <2>2, <2>4, EInvFrame
<1>2. CASE \E e \in Execs : CreateExecution(r, e)
  <2>0. PICK e \in Execs : CreateExecution(r, e)
    BY <1>2
  <2>1. /\ row[e].status = "absent" /\ req[r].at = "checked"
        /\ row'[e] = [row[e] EXCEPT !.status = "queued"]
        /\ UNCHANGED <<job, run, calls, accepted>>
        /\ \A f \in Execs \ {e} : row'[f] = row[f]
        /\ req'[r] = [at |-> "created", exec |-> e]
        /\ \A q \in Requests \ {r} : req'[q] = req[q]
    BY <1>0, <2>0 DEF CreateExecution, TypeOK
  <2>2. /\ row[e] \in Rows /\ job[e] = NoJob
        /\ DeliveryInv(e) /\ OutcomeInv(e) /\ OrderInv(e) /\ CallsInv(e)
    BY <1>0, <2>1 DEF TypeOK, EInv, DeliveryInv
  <2>3. row'[e].status = "queued"
    BY <2>1, <2>2 DEF Rows
  <2>4. CallersInv'
    <3>1. \A q \in Requests \ {r} : req[q].at = "created" =>
             /\ req[q].exec \in Execs /\ req[q].exec # e
             /\ row[req[q].exec].status # "absent" /\ job[req[q].exec] = NoJob
      BY <1>0, <2>1 DEF CallersInv, TypeOK, Reqs
    <3>2. \A q \in Requests : req'[q].at = "created" =>
             row'[req'[q].exec].status # "absent" /\ job'[req'[q].exec] = NoJob
      <4>1. req'[r].exec = e
        BY <2>1
      <4>2. ASSUME NEW q \in Requests \ {r}, req'[q].at = "created"
            PROVE  row'[req'[q].exec].status # "absent" /\ job'[req'[q].exec] = NoJob
        BY <2>1, <3>1, <4>2
      <4> QED
        BY <2>1, <2>2, <2>3, <4>1, <4>2
    <3>3. ASSUME NEW p \in Requests, NEW q \in Requests,
                 req'[p].at = "created", req'[q].at = "created",
                 req'[p].exec = req'[q].exec
          PROVE  p = q
      <4>1. CASE p = r \/ q = r
        BY <2>1, <3>1, <3>3, <4>1
      <4>2. CASE p # r /\ q # r
        BY <1>0, <2>1, <3>3, <4>2 DEF CallersInv
      <4> QED
        BY <4>1, <4>2
    <3> QED
      BY <1>0, <2>1, <3>2, <3>3 DEF CallersInv
  <2>5. EInv(e)'
    <3>1. DeliveryInv(e)' /\ OrderInv(e)' /\ CallsInv(e)'
      BY <2>1, <2>2, <2>3 DEF DeliveryInv, OrderInv, CallsInv
    <3>2. run[e].at = "idle"
      BY <2>2 DEF DeliveryInv, NoJob
    <3>3. /\ row'[e] = [NoRow EXCEPT !.status = row'[e].status]
          /\ \A n \in Nodes : calls[e][n] = 0
      BY <2>1, <2>2, <2>3 DEF OutcomeInv, Unstarted, NoRow
    <3>4. OutcomeInv(e)'
      BY <2>1, <2>2, <2>3, <3>2, <3>3 DEF OutcomeInv, Unstarted, NoJob
    <3> QED
      BY <3>1, <3>4 DEF EInv
  <2> QED
    BY <1>0, <2>1, <2>4, <2>5, EInvFrame
<1>3. CASE Enqueue(r)
  <2>0. PICK e \in Execs : e = req[r].exec
    BY <1>0, <1>3 DEF Enqueue, TypeOK, Reqs
  <2>1. /\ req[r].at = "created" /\ req[r].exec = e
        /\ row[e].status # "absent" /\ job[e] = NoJob
    BY <1>0, <1>3, <2>0 DEF Enqueue, CallersInv
  <2>2. /\ UNCHANGED <<row, run, calls>> /\ accepted' = accepted \union {e}
        /\ job'[e] = [job[e] EXCEPT !.state = "waiting"]
        /\ \A f \in Execs \ {e} : job'[f] = job[f]
        /\ req'[r] = NoReq
        /\ \A q \in Requests \ {r} : req'[q] = req[q]
    BY <1>0, <1>3, <2>1 DEF Enqueue, TypeOK
  <2>3. job'[e].state = "waiting" /\ job'[e].attempt = 0 /\ job[e].attempt = 0
    BY <2>1, <2>2 DEF NoJob
  <2>4. CallersInv'
    <3>1. \A q \in Requests : req'[q].at = "created" =>
             /\ q # r /\ req[q].at = "created" /\ req'[q] = req[q]
      BY <2>2 DEF NoReq
    <3>2. \A q \in Requests : req'[q].at = "created" =>
             req[q].exec \in Execs \ {e}
      BY <1>0, <2>1, <3>1 DEF CallersInv, TypeOK, Reqs
    <3>3. \A q \in Requests : req'[q].at = "created" =>
             row'[req'[q].exec].status # "absent" /\ job'[req'[q].exec] = NoJob
      BY <1>0, <2>2, <3>1, <3>2 DEF CallersInv
    <3>4. \A f \in accepted' : job'[f].state # "none"
      BY <1>0, <2>2, <2>3 DEF CallersInv, TypeOK
    <3> QED
      BY <1>0, <3>1, <3>3, <3>4 DEF CallersInv
  <2>5. EInv(e)'
    <3>1. /\ DeliveryInv(e) /\ OutcomeInv(e) /\ OrderInv(e) /\ CallsInv(e)
          /\ MaxAttempts \in Nat \ {0}
      BY <1>0, <2>1, ExecutionsAssumption DEF EInv
    <3>2. DeliveryInv(e)'
      BY <2>1, <2>2, <2>3, <3>1 DEF DeliveryInv, NoJob
    <3>3. run[e].at = "idle" /\ OutcomeInv(e)'
      BY <2>1, <2>2, <2>3, <3>1 DEF DeliveryInv, OutcomeInv, Unstarted, Recorded, NoJob
    <3>4. OrderInv(e)' /\ CallsInv(e)'
      BY <2>2, <2>3, <3>1, <3>3 DEF OrderInv, CallsInv
    <3> QED
      BY <3>2, <3>3, <3>4 DEF EInv
  <2> QED
    BY <1>0, <2>1, <2>2, <2>4, <2>5, EInvFrame
<1>4. CASE RequestFails(r)
  <2>1. UNCHANGED <<row, job, run, calls, accepted>>
    BY <1>4 DEF RequestFails
  <2>2. \A q \in Requests : req'[q].at = "created" => req'[q] = req[q]
    BY <1>0, <1>4 DEF RequestFails, TypeOK, NoReq
  <2>3. CallersInv'
    BY <1>0, <2>1, <2>2 DEF CallersInv
  <2> QED
    BY <1>0, <2>1, <2>3, EInvFrame
<1> QED
  BY <1>1, <1>2, <1>3, <1>4 DEF RequestStep

-----------------------------------------------------------------------------
(* The invariant.                                                          *)

LEMMA InitIInv == Init => IInv
<1> SUFFICES ASSUME Init PROVE IInv
  OBVIOUS
<1>1. TypeOK
  BY InitTypeOK
<1>2. CallersInv
  BY DEF Init, CallersInv, NoReq
<1>3. ASSUME NEW e \in Execs
      PROVE  EInv(e)
  <2>1. /\ row[e] = NoRow /\ job[e] = NoJob /\ run[e] = NoRun
        /\ \A n \in Nodes : calls[e][n] = 0
    BY DEF Init
  <2>2. NoRow.status = "absent" /\ NoRow = [NoRow EXCEPT !.status = NoRow.status]
    BY DEF NoRow
  <2>3. DeliveryInv(e)
    BY <2>1, ExecutionsAssumption DEF DeliveryInv, NoJob, NoRun
  <2>4. OutcomeInv(e)
    BY <2>1, <2>2 DEF OutcomeInv, Unstarted, NoJob, NoRun
  <2>5. OrderInv(e) /\ CallsInv(e)
    <3>1. \A n \in Nodes : 0 <= 0 * NodeAttempts(n)
      BY NodeAttemptsPositive
    <3> QED
      BY <2>1, <3>1 DEF OrderInv, CallsInv, NoRun, NoJob
  <2> QED
    BY <2>3, <2>4, <2>5 DEF EInv
<1> QED
  BY <1>1, <1>2, <1>3 DEF IInv

\* Whatever one execution does, the others keep their invariant.
LEMMA OwnStepInv ==
  ASSUME IInv, NEW e \in Execs, OwnStep(e)
  PROVE  IInv'
<1>0. TypeOK /\ CallersInv /\ \A f \in Execs : EInv(f)
  BY DEF IInv
<1>1. TypeOK'
  <2>1. job[e].state = "waiting" => job[e].attempt < MaxAttempts
    BY <1>0 DEF EInv, DeliveryInv
  <2> QED
    BY <1>0, <2>1, DeliveryTypeOK DEF OwnStep
<1>2. CallersInv'
  BY <1>0, CallersInvOwnStep
<1>3. EInv(e)'
  <2>1. DeliveryInv(e)' /\ OutcomeInv(e)' /\ OrderInv(e)' /\ CallsInv(e)'
    BY <1>0, DeliveryInvStep, OutcomeInvStep, OrderInvStep, CallsInvStep DEF EInv
  <2> QED
    BY <2>1 DEF EInv
<1>4. \A f \in Execs \ {e} : EInv(f)'
  BY <1>0, OthersUntouched, EInvFrame
<1> QED
  BY <1>1, <1>2, <1>3, <1>4 DEF IInv

LEMMA NextIInv == IInv /\ [Next]_vars => IInv'
<1> SUFFICES ASSUME IInv, [Next]_vars PROVE IInv'
  OBVIOUS
<1>0. TypeOK /\ CallersInv /\ \A e \in Execs : EInv(e)
  BY DEF IInv
<1>1. CASE Publish \/ Deactivate
  <2>1. UNCHANGED <<row, job, run, req, accepted, calls>> /\ active' \in BOOLEAN
    BY <1>1 DEF Publish, Deactivate
  <2> QED
    BY <1>0, <2>1, EInvFrame DEF IInv, TypeOK, CallersInv
<1>2. CASE ServerCrash
  <2>1. /\ UNCHANGED <<active, row, job, run, accepted, calls>>
        /\ req' = [r \in Requests |-> NoReq]
    BY <1>2 DEF ServerCrash
  <2>2. TypeOK'
    BY <1>0, <2>1, InitialValues DEF TypeOK
  <2>3. CallersInv'
    BY <1>0, <2>1 DEF CallersInv, NoReq
  <2> QED
    BY <1>0, <2>1, <2>2, <2>3, EInvFrame DEF IInv
<1>3. CASE \E r \in Requests : RequestStep(r)
  BY <1>0, <1>3, RequestTypeOK, RequestStepInv DEF IInv
<1>4. CASE \E e \in Execs : OwnStep(e)
  BY <1>4, OwnStepInv
<1>5. CASE UNCHANGED vars
  BY <1>0, <1>5, EInvFrame DEF vars, IInv, TypeOK, CallersInv
<1> QED
  BY <1>1, <1>2, <1>3, <1>4, <1>5 DEF Next, OwnStep

\* In every reachable state the row, the job, the run and the callers of every
\* execution agree.
THEOREM Invariance == Spec => []IInv
<1>1. Init => IInv
  BY InitIInv
<1>2. IInv /\ [Next]_vars => IInv'
  BY NextIInv
<1> QED
  BY <1>1, <1>2, PTL DEF Spec

-----------------------------------------------------------------------------
(* What follows from it.                                                   *)

\* Every variable keeps its type: in particular River never counts more than
\* MaxAttempts attempts of a job.
THEOREM TypeCorrect == Spec => []TypeOK
<1>1. IInv => TypeOK
  BY DEF IInv
<1> QED
  BY <1>1, Invariance, PTL

\* For every acyclic definition, and every order its sort may return, a node is
\* run only when the outputs of all its parents are at hand (RunExecution).
THEOREM ParentsComeFirst == Spec => []NodeSeesAllParents
<1>1. IInv => NodeSeesAllParents
  <2> SUFFICES ASSUME IInv, NEW e \in Execs,
                      run[e].at = "node", run[e].todo # <<>>
               PROVE  ParentOutputs(Head(run[e].todo), run[e].outputs)
                        = Parents(Head(run[e].todo))
    BY DEF NodeSeesAllParents
  <2>1. run[e].todo \in Seq(Nodes)
    BY DEF IInv, TypeOK, Runs
  <2>2. \A m \in Parents(run[e].todo[1]) :
           m \in run[e].outputs \/ \E j \in 1 .. 1 - 1 : run[e].todo[j] = m
    BY <2>1, TailFacts DEF IInv, EInv, OrderInv
  <2>3. Parents(Head(run[e].todo)) \subseteq run[e].outputs
    BY <2>1, <2>2, TailFacts
  <2>4. run[e].outputs \subseteq Nodes
    BY DEF IInv, TypeOK, Runs
  <2> QED
    BY <2>3, <2>4 DEF ParentOutputs, Parents
<1> QED
  BY <1>1, Invariance, PTL

\* A row that says success or failed is complete and unmixed, however many
\* deliveries, failed statements and crashes it went through (FinishExecution).
THEOREM FinishedRowsAreCoherent == Spec => []FinishedRowIsCoherent
<1>1. IInv => FinishedRowIsCoherent
  BY DEF IInv, EInv, OutcomeInv, FinishedRowIsCoherent
<1> QED
  BY <1>1, Invariance, PTL

\* No node of an execution that reads queued or cancelled has run (CancelExecution
\* against StartExecution).
THEOREM UnstartedRowsAreUntouched == Spec => []UnstartedRowIsUntouched
<1>1. IInv => UnstartedRowIsUntouched
  BY DEF IInv, EInv, OutcomeInv, Unstarted, UnstartedRowIsUntouched
<1> QED
  BY <1>1, Invariance, PTL

\* A job is acknowledged only for an execution that succeeded or, when statements
\* can fail, was left running (Work's return value).
THEOREM CompletedJobsSucceeded == Spec => []CompletedJobSucceeded
<1>1. IInv => CompletedJobSucceeded
  BY DEF IInv, EInv, OutcomeInv, Recorded, CompletedJobSucceeded
<1> QED
  BY <1>1, Invariance, PTL

\* The queue is the only way to run a workflow, and every caller that got an id
\* has a job (Execute, ExecuteWithTrigger, Retry).
THEOREM TheQueueRunsThem == Spec => []OnlyTheQueueRuns
<1>1. IInv => OnlyTheQueueRuns
  <2> SUFFICES ASSUME IInv, NEW e \in Execs, job[e].state = "none"
               PROVE  e \notin accepted /\ Unstarted(e)
    BY DEF OnlyTheQueueRuns, Unstarted
  <2>1. job[e] = NoJob
    BY DEF IInv, EInv, DeliveryInv
  <2>2. Unstarted(e)
    <3>1. OutcomeInv(e) /\ job[e].attempt = 0
      BY <2>1 DEF IInv, EInv, NoJob
    <3> QED
      BY <3>1 DEF OutcomeInv
  <2>3. e \notin accepted
    BY DEF IInv, CallersInv
  <2> QED
    BY <2>2, <2>3
<1> QED
  BY <1>1, Invariance, PTL

\* A row running for the first time shows nothing of an outcome (StartExecution).
THEOREM StaleOutcomesAreOld == Spec => []StaleOutcomeOnlyOnRedelivery
<1>1. IInv => StaleOutcomeOnlyOnRedelivery
  BY DEF IInv, EInv, OutcomeInv, StaleOutcomeOnlyOnRedelivery
<1> QED
  BY <1>1, Invariance, PTL

\* However often River delivers and wherever workers die, a node runs at most
\* attempts-per-delivery times the deliveries (runNodeWithRetry).
THEOREM CallsBounded == Spec => []CallsAreBounded
<1>1. IInv => CallsAreBounded
  <2> SUFFICES ASSUME IInv, NEW e \in Execs, NEW n \in Nodes
               PROVE  \/ calls[e][n] <= job[e].attempt
                      \/ calls[e][n] <= job[e].attempt * Retry[n]
    BY DEF CallsAreBounded
  <2>1. calls[e][n] <= job[e].attempt * NodeAttempts(n)
    BY DEF IInv, EInv, CallsInv
  <2>2. job[e].attempt * 1 = job[e].attempt
    BY ExecutionsAssumption DEF IInv, TypeOK, Jobs
  <2> QED
    BY <2>1, <2>2 DEF NodeAttempts
<1> QED
  BY <1>1, Invariance, PTL

\* Once a job is completed or discarded, its row is frozen but for the cancellation
\* of a row no delivery started.
THEOREM SettledRowsAreFrozen == Spec => SettledRowIsFrozen
<1> DEFINE Frozen == \A e \in Execs :
             job[e].state \in {"completed", "discarded"} =>
               \/ row'[e] = row[e]
               \/ row[e].status = "queued" /\ row'[e].status = "cancelled"
<1>1. IInv /\ [Next]_vars => [Frozen]_vars
  <2> SUFFICES ASSUME IInv, [Next]_vars, NEW f \in Execs,
                      job[f].state \in {"completed", "discarded"}
               PROVE  \/ row'[f] = row[f]
                      \/ row[f].status = "queued" /\ row'[f].status = "cancelled"
    OBVIOUS
  <2>0. /\ TypeOK /\ row[f] \in Rows /\ run[f].at = "idle" /\ row[f].status # "absent"
    BY DEF IInv, EInv, DeliveryInv, NoJob, TypeOK
  <2>1. CASE Publish \/ Deactivate \/ ServerCrash \/ UNCHANGED vars
    BY <2>1 DEF Publish, Deactivate, ServerCrash, vars
  <2>2. ASSUME NEW r \in Requests, RequestStep(r)
        PROVE  row'[f] = row[f]
    BY <2>0, <2>2 DEF RequestStep, Execute, RetryExecution, Checked,
                      CreateExecution, Enqueue, RequestFails, TypeOK
  <2>3. ASSUME NEW e \in Execs \ {f}, OwnStep(e)
        PROVE  row'[f] = row[f]
    BY <2>0, <2>3, OthersUntouched
  <2>4. ASSUME OwnStep(f)
        PROVE  \/ row'[f] = row[f]
               \/ row[f].status = "queued" /\ row'[f].status = "cancelled"
    <3>1. CASE Cancel(f)
      <4>1. row[f].status = "queued" /\ row'[f] = [row[f] EXCEPT !.status = "cancelled"]
        BY <2>0, <3>1, RiverEffect
      <4> QED
        BY <2>0, <4>1 DEF Rows
    <3>2. CASE Fetch(f) \/ Rescue(f) \/ WorkerCrash(f) \/ ContextDone(f)
                 \/ Complete(f) \/ Errored(f)
      BY <2>0, <3>2, RiverEffect
    <3>3. CASE Load(f) \/ Start(f) \/ LoadOrStartFails(f)
      BY <2>0, <3>3 DEF Load, Start, LoadOrStartFails
    <3>4. CASE NodeSucceeds(f) \/ NodeRetries(f) \/ NodeFails(f)
      BY <2>0, <3>4, NodeEffect, CallEffect
    <3>5. CASE FinishFailed(f) \/ FinishSuccess(f)
      BY <2>0, <3>5, FinishEffect
    <3> QED
      BY <2>4, <3>1, <3>2, <3>3, <3>4, <3>5 DEF OwnStep, RunStep
  <2> QED
    BY <2>1, <2>2, <2>3, <2>4 DEF Next, OwnStep
<1>2. Spec => [][Frozen]_vars
  BY <1>1, Invariance, PTL DEF Spec
<1> QED
  BY <1>2 DEF SettledRowIsFrozen

-----------------------------------------------------------------------------
(* What a job leaves when River is done with it.                           *)

\* A run that ends in an error has recorded a failure, and so has a job that was
\* given up after an error.
OutcomeLeft(e) ==
    /\ run[e].at = "err" => row[e].status = "failed"
    /\ job[e].state = "discarded" => job[e].lost \/ row[e].status = "failed"

\* Without failing statements and contexts, no way to an error avoids FinishExecution.
LEMMA OutcomeStep ==
  ASSUME Faults \subseteq {"crash"}, TypeOK, NEW e \in Execs, EInv(e), OutcomeLeft(e),
         OwnStep(e)
  PROVE  OutcomeLeft(e)'
<1> USE DEF OutcomeLeft
<1>0. /\ row[e] \in Rows /\ job[e] \in Jobs /\ run[e] \in Runs
      /\ ~MayFail(e) /\ (run[e].at # "idle" => job[e].state = "running")
  BY DEF TypeOK, EInv, DeliveryInv, MayFail
<1>1. CASE Cancel(e)
  BY <1>0, <1>1, RiverEffect
<1>2. CASE Fetch(e) \/ WorkerCrash(e) \/ Complete(e)
  BY <1>0, <1>2, RiverEffect DEF Idle, Attempted
<1>3. CASE Rescue(e)
  <2>1. job'[e].lost
    <3>1. job'[e] = [job[e] EXCEPT !.state = AfterFailure(e), !.lost = TRUE]
      BY <1>3 DEF Rescue, TypeOK
    <3> QED
      BY <1>0, <3>1 DEF Jobs
  <2> QED
    BY <1>3, <2>1, RiverEffect
<1>4. CASE Errored(e)
  BY <1>4, RiverEffect DEF Idle
<1>5. CASE ContextDone(e) \/ LoadOrStartFails(e)
  BY <1>0, <1>5 DEF ContextDone, LoadOrStartFails
<1>6. CASE Load(e)
  BY <1>0, <1>6, LoadEffect DEF At
<1>7. CASE \/ NodeSucceeds(e) \/ NodeRetries(e) \/ NodeFails(e) \/ Start(e)
           \/ FinishSuccess(e)
  <2>1. run'[e].at # "err" /\ job' = job /\ run[e].at # "idle"
    <3>1. CASE Start(e)
      <4>1. job' = job
        BY <3>1 DEF Start
      <4>2. run[e].at = "start" /\ run'[e].at = "node"
        BY <3>1, StartEffect DEF At
      <4> QED
        BY <4>1, <4>2
    <3>2. CASE NodeSucceeds(e) \/ NodeRetries(e) \/ NodeFails(e)
      BY <3>2, NodeEffect, CallEffect DEF At
    <3>3. CASE FinishSuccess(e)
      BY <3>3, FinishEffect DEF At
    <3> QED
      BY <1>7, <3>1, <3>2, <3>3
  <2> QED
    BY <1>0, <2>1
<1>8. CASE FinishFailed(e)
  <2>1. row'[e] = Finished(row[e], "failed", NoOutput)
    BY <1>0, <1>8 DEF FinishFailed, TypeOK
  <2>2. row'[e].status = "failed"
    BY <1>0, <2>1 DEF Finished, Rows
  <2> QED
    BY <2>2
<1> QED
  BY <1>1, <1>2, <1>3, <1>4, <1>5, <1>6, <1>7, <1>8 DEF OwnStep, RunStep

\* Where only processes die, River is done with no job that left no outcome, but one
\* whose last delivery was lost (FinishExecution before Work's return).
THEOREM SettledJobsLeftOutcomes == Spec => []SettledJobLeftOutcome
<1> DEFINE Inv == Faults \subseteq {"crash"} => \A e \in Execs : OutcomeLeft(e)
<1>1. Init => Inv
  BY DEF Init, OutcomeLeft, NoRun, NoJob
<1>2. IInv /\ Inv /\ [Next]_vars => Inv'
  <2> SUFFICES ASSUME IInv, Inv, [Next]_vars, Faults \subseteq {"crash"}, NEW f \in Execs
               PROVE  OutcomeLeft(f)'
    OBVIOUS
  <2>0. TypeOK /\ EInv(f) /\ OutcomeLeft(f) /\ row[f] \in Rows /\ job[f] \in Jobs
    BY DEF IInv, TypeOK
  <2>1. CASE Publish \/ Deactivate \/ ServerCrash \/ UNCHANGED vars
    BY <2>0, <2>1 DEF Publish, Deactivate, ServerCrash, vars, OutcomeLeft
  <2>2. ASSUME NEW r \in Requests, RequestStep(r)
        PROVE  OutcomeLeft(f)'
    <3>1. CASE \E e \in Execs : CreateExecution(r, e)
      <4>1. UNCHANGED <<run, job>>
        BY <3>1 DEF CreateExecution
      <4>2. row'[f] = row[f] \/ row[f].status = "absent"
        BY <2>0, <3>1 DEF CreateExecution, TypeOK
      <4> QED
        BY <2>0, <4>1, <4>2 DEF OutcomeLeft, EInv, DeliveryInv, NoJob
    <3>2. CASE Enqueue(r)
      <4>1. UNCHANGED <<run, row>>
        BY <3>2 DEF Enqueue
      <4>2. job'[f] = job[f] \/ job'[f] = [job[f] EXCEPT !.state = "waiting"]
        BY <2>0, <3>2 DEF Enqueue, TypeOK
      <4> QED
        BY <2>0, <4>1, <4>2 DEF OutcomeLeft, Jobs
    <3>3. CASE UNCHANGED <<run, row, job>>
      BY <2>0, <3>3 DEF OutcomeLeft
    <3> QED
      BY <2>2, <3>1, <3>2, <3>3
         DEF RequestStep, Execute, RetryExecution, Checked, RequestFails
  <2>3. ASSUME NEW e \in Execs \ {f}, OwnStep(e)
        PROVE  OutcomeLeft(f)'
    BY <2>0, <2>3, OthersUntouched DEF OutcomeLeft
  <2>4. ASSUME OwnStep(f)
        PROVE  OutcomeLeft(f)'
    BY <2>0, <2>4, OutcomeStep
  <2> QED
    BY <2>1, <2>2, <2>3, <2>4 DEF Next, OwnStep
<1>3. IInv /\ Inv => SettledJobLeftOutcome
  BY DEF IInv, EInv, OutcomeInv, Recorded, OutcomeLeft, SettledJobLeftOutcome
<1> QED
  BY <1>1, <1>2, <1>3, Invariance, PTL DEF Spec

-----------------------------------------------------------------------------
(* Deliveries end.                                                         *)

Forward(e) ==
    \/ job'[e].attempt > job[e].attempt
    \/ job'[e].attempt = job[e].attempt /\ Stage(e)' > Stage(e)
    \/ /\ job'[e] = job[e] /\ Stage(e)' = Stage(e)
       /\ \/ Len(run'[e].todo) < Len(run[e].todo)
          \/ run'[e].todo = run[e].todo /\ run'[e].try > run[e].try
          \/ run'[e] = [run[e] EXCEPT !.ctx = FALSE] /\ run[e].ctx

LEMMA StageFacts ==
  /\ StageOf["none"] = 0 /\ StageOf["load"] = 1 /\ StageOf["start"] = 2
  /\ StageOf["node"] = 3 /\ StageOf["reject"] = 4 /\ StageOf["fail"] = 4
  /\ StageOf["ok"] = 5 /\ StageOf["err"] = 5 /\ StageOf["running"] = 6
  /\ StageOf["waiting"] = 7 /\ StageOf["completed"] = 8 /\ StageOf["discarded"] = 8
BY DEF StageOf

\* Every step of River or of a run is one forward.
LEMMA ForwardStep ==
  ASSUME TypeOK, NEW e \in Execs, EInv(e), OwnStep(e), ~Cancel(e)
  PROVE  Forward(e)
<1>0. /\ job[e] \in Jobs /\ run[e] \in Runs /\ job[e].attempt \in Nat
      /\ run[e].at # "idle" => job[e].state = "running"
      /\ AfterFailure(e) \in {"waiting", "discarded"}
  BY DEF TypeOK, EInv, DeliveryInv, Jobs, AfterFailure
<1>1. CASE Fetch(e)
  <2>1. job'[e].attempt = job[e].attempt + 1
    BY <1>1, RiverEffect
  <2>2. job'[e].attempt > job[e].attempt
    BY <1>0, <2>1
  <2> QED
    BY <2>2 DEF Forward
<1>2. CASE Rescue(e)
  <2>1. /\ job[e].state = "running" /\ run[e].at = "idle" /\ run'[e].at = "idle"
        /\ job'[e].attempt = job[e].attempt /\ job'[e].state \in {"waiting", "discarded"}
    BY <1>0, <1>2, RiverEffect DEF Attempted
  <2> QED
    BY <2>1, StageFacts DEF Stage, Forward
<1>3. CASE WorkerCrash(e)
  <2>1. run[e].at # "idle" /\ Stage(e) \in 1 .. 5
    BY <1>0, <1>3, StageFacts DEF Stage, WorkerCrash, Runs, Places
  <2>2. job' = job /\ job[e].state = "running" /\ run'[e].at = "idle"
    BY <1>0, <1>3, <2>1, RiverEffect DEF Idle
  <2> QED
    BY <2>1, <2>2, StageFacts DEF Stage, Forward
<1>4. CASE ContextDone(e)
  <2>1. run[e].ctx /\ job' = job /\ run'[e] = [run[e] EXCEPT !.ctx = FALSE]
    BY <1>4 DEF ContextDone, TypeOK
  <2>2. Stage(e)' = Stage(e)
    <3>1. job'[e].state = job[e].state /\ run'[e].at = run[e].at
      BY <1>0, <2>1 DEF Runs
    <3> QED
      BY <3>1 DEF Stage
  <2> QED
    BY <2>1, <2>2 DEF Forward
<1>5. CASE Complete(e) \/ Errored(e)
  <2>1. /\ run[e].at \in {"ok", "err"} /\ run'[e].at = "idle"
        /\ job'[e].attempt = job[e].attempt
        /\ job'[e].state \in {"waiting", "completed", "discarded"}
    BY <1>0, <1>5, RiverEffect DEF Idle, Attempted
  <2> QED
    BY <2>1, StageFacts DEF Stage, Forward
<1>6. CASE Load(e)
  BY <1>0, <1>6, LoadEffect, StageFacts DEF Stage, At, Forward
<1>7. CASE Start(e)
  <2>1. run[e].at = "start" /\ run'[e].at = "node" /\ job' = job
    <3>1. job' = job
      BY <1>7 DEF Start
    <3>2. run[e].at = "start" /\ run'[e].at = "node"
      BY <1>7, StartEffect DEF At
    <3> QED
      BY <3>1, <3>2
  <2> QED
    BY <1>0, <2>1, StageFacts DEF Stage, Forward
<1>8. CASE LoadOrStartFails(e)
  <2>1. run[e].at \in {"load", "start"} /\ run'[e].at = "err" /\ job' = job
    BY <1>8, GoEffect DEF LoadOrStartFails, At
  <2> QED
    BY <1>0, <2>1, StageFacts DEF Stage, Forward
<1>9. CASE NodeSucceeds(e)
  <2>1. /\ run[e].at = "node" /\ run'[e].at = "node" /\ job' = job
        /\ run'[e].todo = Tail(run[e].todo)
        /\ run[e].todo \in Seq(Nodes) /\ run[e].todo # <<>>
    BY <1>9, NodeEffect, CallEffect DEF At
  <2>2. Len(run'[e].todo) < Len(run[e].todo)
    BY <2>1
  <2> QED
    BY <2>1, <2>2, StageFacts DEF Stage, Forward
<1>10. CASE NodeRetries(e)
  <2>1. /\ run[e].at = "node" /\ run'[e].at = "node" /\ job' = job
        /\ run'[e].todo = run[e].todo /\ run'[e].try = run[e].try + 1
    BY <1>10, NodeEffect, CallEffect DEF At
  <2>2. run'[e].try > run[e].try
    BY <1>0, <2>1 DEF Runs
  <2> QED
    BY <2>1, <2>2, StageFacts DEF Stage, Forward
<1>11. CASE NodeFails(e)
  <2>1. run[e].at = "node" /\ run'[e].at = "fail" /\ job' = job
    BY <1>11, NodeEffect, CallEffect DEF At
  <2> QED
    BY <1>0, <2>1, StageFacts DEF Stage, Forward
<1>12. CASE FinishFailed(e) \/ FinishSuccess(e)
  <2>1. /\ run[e].at \in {"node", "reject", "fail"} /\ run'[e].at \in {"ok", "err"}
        /\ job' = job
    BY <1>12, FinishEffect DEF At
  <2> QED
    BY <1>0, <2>1, StageFacts DEF Stage, Forward
<1> QED
  BY <1>1, <1>2, <1>3, <1>4, <1>5, <1>6, <1>7, <1>8, <1>9, <1>10, <1>11, <1>12
     DEF OwnStep, RunStep

\* No step of any process takes a job or its run back: every one that touches them
\* goes on to a later delivery, place, node or attempt (Work, RunExecution,
\* runNodeWithRetry).
THEOREM DeliveriesAdvance == Spec => DeliveriesGoForward
<1>1. IInv /\ [Next]_vars =>
        [\A e \in Execs : job'[e] # job[e] \/ run'[e] # run[e] => Forward(e)]_vars
  <2> SUFFICES ASSUME IInv, [Next]_vars, NEW f \in Execs,
                      job'[f] # job[f] \/ run'[f] # run[f]
               PROVE  Forward(f)
    OBVIOUS
  <2>0. TypeOK /\ EInv(f) /\ CallersInv
    BY DEF IInv
  <2>1. CASE Publish \/ Deactivate \/ ServerCrash \/ UNCHANGED vars
    BY <2>1 DEF Publish, Deactivate, ServerCrash, vars
  <2>2. ASSUME NEW r \in Requests, RequestStep(r)
        PROVE  Forward(f)
    <3>1. CASE Enqueue(r)
      <4>1. run' = run /\ job' = [job EXCEPT ![req[r].exec].state = "waiting"]
            /\ req[r].at = "created"
        BY <3>1 DEF Enqueue
      <4>2. req[r].exec = f
        BY <2>0, <4>1 DEF TypeOK
      <4>3. job[f] = NoJob /\ job'[f] = [job[f] EXCEPT !.state = "waiting"]
        BY <2>0, <4>1, <4>2 DEF CallersInv, TypeOK
      <4>4. /\ job[f].state = "none" /\ job'[f].state = "waiting"
            /\ job[f].attempt = 0 /\ job'[f].attempt = 0 /\ run[f].at = "idle"
        BY <2>0, <4>3 DEF NoJob, EInv, DeliveryInv
      <4> QED
        BY <4>1, <4>4, StageFacts DEF Stage, Forward
    <3>2. CASE UNCHANGED <<run, job>>
      BY <3>2
    <3> QED
      BY <2>2, <3>1, <3>2
         DEF RequestStep, Execute, RetryExecution, Checked, CreateExecution, RequestFails
  <2>3. ASSUME NEW e \in Execs \ {f}, OwnStep(e)
        PROVE  Forward(f)
    BY <2>0, <2>3, OthersUntouched
  <2>4. ASSUME OwnStep(f)
        PROVE  Forward(f)
    <3>1. ~Cancel(f)
      BY <2>0, RiverEffect
    <3> QED
      BY <2>0, <2>4, <3>1, ForwardStep
  <2> QED
    BY <2>1, <2>2, <2>3, <2>4 DEF Next, OwnStep
<1>2. Spec => [][\A e \in Execs : job'[e] # job[e] \/ run'[e] # run[e] => Forward(e)]_vars
  BY <1>1, Invariance, PTL DEF Spec
<1> QED
  BY <1>2 DEF DeliveriesGoForward, Forward

-----------------------------------------------------------------------------
(* A definition that does not sort.                                        *)

UnsortableInv(e) ==
    /\ run[e].at \in {"idle", "load", "reject", "err"}
    /\ row[e].status \notin {"running", "success"} /\ ~row[e].started
    /\ \A n \in Nodes : calls[e][n] = 0

\* Without an order, a delivery goes from load to reject and no further.
LEMMA UnsortableStep ==
  ASSUME TopoOrders = {}, TypeOK, NEW e \in Execs, UnsortableInv(e), OwnStep(e)
  PROVE  UnsortableInv(e)'
<1> USE DEF UnsortableInv
<1>0. row[e] \in Rows
  BY DEF TypeOK
<1>1. CASE Cancel(e)
  BY <1>0, <1>1, RiverEffect DEF Rows
<1>2. CASE Fetch(e) \/ Rescue(e) \/ WorkerCrash(e) \/ ContextDone(e)
             \/ Complete(e) \/ Errored(e)
  BY <1>2, RiverEffect DEF Idle
<1>3. CASE Load(e)
  BY <1>3, LoadEffect DEF At
<1>4. CASE LoadOrStartFails(e)
  BY <1>4, GoEffect DEF LoadOrStartFails, At, rowVars
<1>5. CASE FinishFailed(e)
  BY <1>0, <1>5, FinishEffect DEF At, Finished, Rows
<1>6. CASE Start(e) \/ FinishSuccess(e)
  BY <1>6 DEF Start, FinishSuccess
<1>7. CASE NodeSucceeds(e) \/ NodeRetries(e) \/ NodeFails(e)
  BY <1>7 DEF NodeSucceeds, NodeRetries, NodeFails, CallNode
<1> QED
  BY <1>1, <1>2, <1>3, <1>4, <1>5, <1>6, <1>7 DEF OwnStep, RunStep

\* No node of a definition with a cycle is ever run, on any delivery (the early
\* return after TopologicalSort).
THEOREM UnsortablesNeverRun == Spec => []UnsortableNeverRuns
<1> DEFINE Inv == TopoOrders = {} => \A e \in Execs : UnsortableInv(e)
<1>1. Init => Inv
  BY DEF Init, UnsortableInv, NoRow, NoRun
<1>2. IInv /\ Inv /\ [Next]_vars => Inv'
  <2> SUFFICES ASSUME IInv, Inv, [Next]_vars, TopoOrders = {}, NEW f \in Execs
               PROVE  UnsortableInv(f)'
    OBVIOUS
  <2>0. TypeOK /\ UnsortableInv(f) /\ row[f] \in Rows
    BY DEF IInv, TypeOK
  <2>1. CASE Publish \/ Deactivate \/ ServerCrash \/ UNCHANGED vars
    BY <2>0, <2>1 DEF Publish, Deactivate, ServerCrash, vars, UnsortableInv
  <2>2. ASSUME NEW r \in Requests, RequestStep(r)
        PROVE  UnsortableInv(f)'
    <3>1. CASE \E e \in Execs : CreateExecution(r, e)
      <4>1. UNCHANGED <<run, calls>>
        BY <3>1 DEF CreateExecution
      <4>2. row'[f] = row[f] \/ row'[f] = [row[f] EXCEPT !.status = "queued"]
        BY <2>0, <3>1 DEF CreateExecution, TypeOK
      <4> QED
        BY <2>0, <4>1, <4>2 DEF UnsortableInv, Rows
    <3>2. UNCHANGED <<run, row, calls>> \/ \E e \in Execs : CreateExecution(r, e)
      BY <2>2 DEF RequestStep, Execute, RetryExecution, Checked, Enqueue, RequestFails
    <3> QED
      BY <2>0, <3>1, <3>2 DEF UnsortableInv
  <2>3. ASSUME NEW e \in Execs \ {f}, OwnStep(e)
        PROVE  UnsortableInv(f)'
    BY <2>0, <2>3, OthersUntouched DEF UnsortableInv
  <2>4. ASSUME OwnStep(f)
        PROVE  UnsortableInv(f)'
    BY <2>0, <2>4, UnsortableStep
  <2> QED
    BY <2>1, <2>2, <2>3, <2>4 DEF Next, OwnStep
<1>3. Inv => UnsortableNeverRuns
  BY CyclesHaveNoOrder DEF UnsortableNeverRuns, UnsortableInv
<1> QED
  BY <1>1, <1>2, <1>3, Invariance, PTL DEF Spec

-----------------------------------------------------------------------------
(* Executions implements ExecutionLifecycle.                               *)

\* A job that no run works on, and a run of a running job.
LEMMA PhaseFacts ==
  /\ PhaseOf("none", "idle") = "unsent" /\ PhaseOf("waiting", "idle") = "waiting"
  /\ PhaseOf("completed", "idle") = "closed" /\ PhaseOf("discarded", "idle") = "closed"
  /\ \A at \in {"load", "start", "reject"} : PhaseOf("running", at) = "delivered"
  /\ \A at \in {"node", "fail"} : PhaseOf("running", at) = "started"
  /\ \A at \in {"idle", "ok", "err"} : PhaseOf("running", at) = "over"
BY DEF PhaseOf

lifeStatus     == [e \in Execs |-> row[e].status]
lifePhase      == [e \in Execs |-> Phase(e)]
lifeDeliveries == [e \in Execs |-> job[e].attempt]

\* One execution's part of a step: from its phase p and status to phase q, status s
\* and d deliveries.
Moves(e, p, q, s, d) ==
    /\ Phase(e) = p /\ Phase(e)' = q /\ row'[e].status = s /\ job'[e].attempt = d
    /\ \A f \in Execs \ {e} : UNCHANGED <<row[f], job[f], run[f]>>

LEMMA MovesMap ==
  ASSUME NEW e \in Execs, NEW p, NEW q, NEW s, NEW d, Moves(e, p, q, s, d)
  PROVE  /\ lifePhase[e] = p
         /\ lifePhase' = [lifePhase EXCEPT ![e] = q]
         /\ lifeStatus' = [lifeStatus EXCEPT ![e] = s]
         /\ lifeDeliveries' = [lifeDeliveries EXCEPT ![e] = d]
<1>1. \A f \in Execs \ {e} : Phase(f)' = Phase(f)
  BY DEF Moves, Phase
<1>2. lifePhase' = [f \in Execs |-> Phase(f)']
  BY DEF lifePhase
<1> QED
  BY <1>1, <1>2 DEF Moves, lifePhase, lifeStatus, lifeDeliveries

\* A step that changes neither phase, status nor deliveries is a stutter.
LEMMA Stutter ==
  ASSUME NEW e \in Execs, Moves(e, Phase(e), Phase(e), row[e].status, job[e].attempt)
  PROVE  UNCHANGED <<lifeStatus, lifePhase, lifeDeliveries>>
<1>1. /\ lifePhase' = [lifePhase EXCEPT ![e] = Phase(e)]
      /\ lifeStatus' = [lifeStatus EXCEPT ![e] = row[e].status]
      /\ lifeDeliveries' = [lifeDeliveries EXCEPT ![e] = job[e].attempt]
  BY MovesMap
<1> QED
  BY <1>1 DEF lifePhase, lifeStatus, lifeDeliveries

\* Which step of ExecutionLifecycle a move is.
LEMMA MoveIsStep ==
  ASSUME NEW e \in Execs, NEW p, NEW q, NEW s, NEW d, Moves(e, p, q, s, d),
         \/ /\ d = job[e].attempt /\ q = p
            /\ \/ row[e].status = "absent" /\ s = "queued"
               \/ row[e].status = "queued" /\ s = "cancelled"
         \/ /\ d = job[e].attempt + 1 /\ s = row[e].status
            /\ p = "waiting" /\ q = "delivered" /\ job[e].attempt < MaxAttempts
         \/ /\ d = job[e].attempt /\ s = row[e].status
            /\ \/ p = "unsent" /\ q = "waiting" /\ row[e].status # "absent"
               \/ p = "over" /\ q = "waiting" /\ job[e].attempt < MaxAttempts
               \/ p = "over" /\ q = "closed"
         \/ /\ d = job[e].attempt
            /\ \/ p = "delivered" /\ q = "started" /\ s = "running"
               \/ p = "delivered" /\ q = "over" /\ s \in {"failed", row[e].status}
               \/ /\ p = "started" /\ q = "over" /\ row[e].status = "running"
                  /\ s \in {"success", "failed", "running"}
  PROVE  Life!LifeNext
<1>1. /\ lifePhase[e] = p /\ lifeStatus[e] = row[e].status
      /\ lifeDeliveries[e] = job[e].attempt
      /\ lifePhase' = [lifePhase EXCEPT ![e] = q]
      /\ lifeStatus' = [lifeStatus EXCEPT ![e] = s]
      /\ lifeDeliveries' = [lifeDeliveries EXCEPT ![e] = d]
  BY MovesMap DEF lifeStatus, lifeDeliveries
<1>2. /\ q = lifePhase[e] => lifePhase' = lifePhase
      /\ s = lifeStatus[e] => lifeStatus' = lifeStatus
      /\ d = lifeDeliveries[e] => lifeDeliveries' = lifeDeliveries
  BY <1>1 DEF lifePhase, lifeStatus, lifeDeliveries
<1>3. /\ [f \in Execs |-> row[f].status] = lifeStatus
      /\ [f \in Execs |-> Phase(f)] = lifePhase
      /\ [f \in Execs |-> job[f].attempt] = lifeDeliveries
      /\ [f \in Execs |-> row[f].status]' = lifeStatus'
      /\ [f \in Execs |-> Phase(f)]' = lifePhase'
      /\ [f \in Execs |-> job[f].attempt]' = lifeDeliveries'
  BY DEF lifePhase, lifeStatus, lifeDeliveries
<1>4. CASE q = p /\ d = job[e].attempt /\ row[e].status = "absent" /\ s = "queued"
  <2>1. Life!LifeCreate(e)
    BY <1>1, <1>2, <1>3, <1>4 DEF Life!LifeCreate, Life!Become
  <2> QED
    BY <2>1 DEF Life!LifeNext
<1>5. CASE q = p /\ d = job[e].attempt /\ row[e].status = "queued" /\ s = "cancelled"
  <2>1. Life!LifeCancel(e)
    BY <1>1, <1>2, <1>3, <1>5 DEF Life!LifeCancel, Life!Become
  <2> QED
    BY <2>1 DEF Life!LifeNext
<1>6. CASE /\ d = job[e].attempt + 1 /\ s = row[e].status
           /\ p = "waiting" /\ q = "delivered" /\ job[e].attempt < MaxAttempts
  <2>1. Life!LifeDeliver(e)
    BY <1>1, <1>2, <1>3, <1>6 DEF Life!LifeDeliver, Life!Move
  <2> QED
    BY <2>1 DEF Life!LifeNext
<1>7. CASE /\ d = job[e].attempt /\ s = row[e].status
           /\ p = "unsent" /\ q = "waiting" /\ row[e].status # "absent"
  <2>1. Life!LifeSend(e)
    BY <1>1, <1>2, <1>3, <1>7 DEF Life!LifeSend, Life!Move
  <2> QED
    BY <2>1 DEF Life!LifeNext
<1>8. CASE /\ d = job[e].attempt /\ s = row[e].status
           /\ p = "over" /\ q = "waiting" /\ job[e].attempt < MaxAttempts
  <2>1. Life!LifeRedeliver(e)
    BY <1>1, <1>2, <1>3, <1>8 DEF Life!LifeRedeliver, Life!Move
  <2> QED
    BY <2>1 DEF Life!LifeNext
<1>9. CASE d = job[e].attempt /\ s = row[e].status /\ p = "over" /\ q = "closed"
  <2>1. Life!LifeClose(e)
    BY <1>1, <1>2, <1>3, <1>9 DEF Life!LifeClose, Life!Move
  <2> QED
    BY <2>1 DEF Life!LifeNext
<1>10. CASE d = job[e].attempt /\ p = "delivered" /\ q = "started" /\ s = "running"
  <2>1. Life!LifeStart(e)
    BY <1>1, <1>2, <1>3, <1>10 DEF Life!LifeStart, Life!Move, Life!Become
  <2> QED
    BY <2>1 DEF Life!LifeNext
<1>11. CASE /\ d = job[e].attempt /\ p = "delivered" /\ q = "over"
            /\ s \in {"failed", row[e].status}
  <2>1. Life!LifeGiveUp(e)
    BY <1>1, <1>2, <1>3, <1>11 DEF Life!LifeGiveUp, Life!Move, Life!Become
  <2> QED
    BY <2>1 DEF Life!LifeNext
<1>12. CASE /\ d = job[e].attempt /\ p = "started" /\ q = "over"
            /\ row[e].status = "running" /\ s \in {"success", "failed", "running"}
  <2>1. Life!LifeSettle(e)
    BY <1>1, <1>2, <1>3, <1>12 DEF Life!LifeSettle, Life!Move, Life!Become
  <2> QED
    BY <2>1 DEF Life!LifeNext
<1> QED
  BY <1>4, <1>5, <1>6, <1>7, <1>8, <1>9, <1>10, <1>11, <1>12

Implemented == Life!LifeNext \/ UNCHANGED <<lifeStatus, lifePhase, lifeDeliveries>>

\* Each step of a delivery is a step of ExecutionLifecycle or invisible to it.
LEMMA OwnStepImplements ==
  ASSUME TypeOK, NEW e \in Execs, EInv(e), OwnStep(e)
  PROVE  Implemented
<1>0. /\ row[e] \in Rows /\ job[e] \in Jobs /\ run[e] \in Runs
      /\ DeliveryInv(e) /\ OutcomeInv(e)
      /\ \A f \in Execs \ {e} : UNCHANGED <<row[f], job[f], run[f]>>
  BY OthersUntouched DEF TypeOK, EInv
<1>1. CASE Cancel(e)
  <2>1. /\ row[e].status = "queued" /\ UNCHANGED <<job, run>>
        /\ row'[e] = [row[e] EXCEPT !.status = "cancelled"]
    BY <1>1, RiverEffect
  <2>2. Moves(e, Phase(e), Phase(e), "cancelled", job[e].attempt)
    BY <1>0, <2>1 DEF Moves, Phase, Rows
  <2> QED
    BY <2>1, <2>2, MoveIsStep DEF Implemented
<1>2. CASE Fetch(e)
  <2>1. /\ job[e].state = "waiting" /\ UNCHANGED row
        /\ job'[e].state = "running" /\ job'[e].attempt = job[e].attempt + 1
        /\ run'[e].at = "load"
    BY <1>2, RiverEffect
  <2>2. run[e].at = "idle" /\ job[e].attempt < MaxAttempts
    BY <1>0, <2>1 DEF DeliveryInv
  <2>3. Moves(e, "waiting", "delivered", row[e].status, job[e].attempt + 1)
    BY <1>0, <2>1, <2>2, PhaseFacts DEF Moves, Phase
  <2> QED
    BY <2>2, <2>3, MoveIsStep DEF Implemented
<1>3. ASSUME UNCHANGED row, Phase(e) = "over", run'[e].at = "idle",
             Attempted(e, AfterFailure(e)) \/ Attempted(e, "completed")
      PROVE  Implemented
  <2>1. CASE job'[e].state = "waiting"
    <3>1. job[e].attempt < MaxAttempts
      BY <1>3, <2>1 DEF Attempted, AfterFailure
    <3>2. Moves(e, "over", "waiting", row[e].status, job[e].attempt)
      BY <1>0, <1>3, <2>1, PhaseFacts DEF Moves, Phase, Attempted
    <3> QED
      BY <3>1, <3>2, MoveIsStep DEF Implemented
  <2>2. CASE job'[e].state \in {"completed", "discarded"}
    <3>1. Moves(e, "over", "closed", row[e].status, job[e].attempt)
      BY <1>0, <1>3, <2>2, PhaseFacts DEF Moves, Phase, Attempted
    <3> QED
      BY <3>1, MoveIsStep DEF Implemented
  <2> QED
    BY <1>3, <2>1, <2>2 DEF Attempted, AfterFailure
<1>4. CASE Rescue(e) \/ Complete(e) \/ Errored(e)
  <2>1. /\ UNCHANGED row /\ run'[e].at = "idle" /\ run[e].at \in {"idle", "ok", "err"}
        /\ Attempted(e, AfterFailure(e)) \/ Attempted(e, "completed")
        /\ job[e].state = "running" \/ run[e].at # "idle"
    BY <1>4, RiverEffect DEF Idle
  <2>2. Phase(e) = "over"
    BY <1>0, <2>1, PhaseFacts DEF DeliveryInv, Phase
  <2> QED
    BY <1>3, <2>1, <2>2
<1>5. ASSUME UNCHANGED <<row, job>>, run[e].at # "idle",
             run'[e].at \in {"idle", "ok", "err"}
      PROVE  Implemented
  <2>1. job[e].state = "running" /\ Phase(e)' = "over"
    BY <1>0, <1>5, PhaseFacts DEF DeliveryInv, Phase
  <2>2. Moves(e, Phase(e), "over", row[e].status, job[e].attempt)
    BY <1>0, <1>5, <2>1 DEF Moves
  <2>3. CASE run[e].at \in {"load", "start", "reject"}
    <3>1. Phase(e) = "delivered"
      BY <2>1, <2>3, PhaseFacts DEF Phase
    <3> QED
      BY <2>2, <3>1, MoveIsStep DEF Implemented
  <2>4. CASE run[e].at \in {"node", "fail"}
    <3>1. Phase(e) = "started" /\ row[e].status = "running"
      BY <1>0, <2>1, <2>4, PhaseFacts DEF Phase, OutcomeInv
    <3> QED
      BY <2>2, <3>1, MoveIsStep DEF Implemented
  <2>5. CASE run[e].at \in {"ok", "err"}
    <3>1. Phase(e) = "over"
      BY <2>1, <2>5, PhaseFacts DEF Phase
    <3> QED
      BY <2>2, <3>1, Stutter DEF Implemented
  <2> QED
    BY <1>0, <1>5, <2>3, <2>4, <2>5 DEF Runs, Places
<1>6. CASE WorkerCrash(e)
  <2>1. UNCHANGED <<row, job>> /\ run[e].at # "idle" /\ run'[e].at = "idle"
    BY <1>6, RiverEffect DEF WorkerCrash, Idle
  <2> QED
    BY <1>5, <2>1
<1>7. CASE LoadOrStartFails(e)
  <2>1. UNCHANGED <<row, job>> /\ run[e].at # "idle" /\ run'[e].at = "err"
    BY <1>7, GoEffect DEF LoadOrStartFails, At, rowVars
  <2> QED
    BY <1>5, <2>1
<1>8. ASSUME UNCHANGED <<row, job>>, Phase(e)' = Phase(e)
      PROVE  Implemented
  <2>1. Moves(e, Phase(e), Phase(e), row[e].status, job[e].attempt)
    BY <1>0, <1>8 DEF Moves
  <2> QED
    BY <2>1, Stutter DEF Implemented
<1>9. CASE ContextDone(e)
  BY <1>8, <1>9, RiverEffect DEF Phase
<1>10. CASE Load(e)
  <2>1. /\ UNCHANGED <<row, job>> /\ run[e].at = "load"
        /\ run'[e].at \in {"start", "reject"}
    BY <1>10, LoadEffect DEF At
  <2>2. job[e].state = "running"
    BY <1>0, <2>1 DEF DeliveryInv
  <2> QED
    BY <1>8, <2>1, <2>2, PhaseFacts DEF Phase
<1>11. CASE NodeSucceeds(e) \/ NodeRetries(e) \/ NodeFails(e)
  <2>1. /\ UNCHANGED <<row, job>> /\ run[e].at = "node"
        /\ run'[e].at \in {"node", "fail"}
    BY <1>11, NodeEffect, CallEffect DEF At
  <2>2. job[e].state = "running"
    BY <1>0, <2>1 DEF DeliveryInv
  <2> QED
    BY <1>8, <2>1, <2>2, PhaseFacts DEF Phase
<1>12. CASE Start(e)
  <2>1. /\ run[e].at = "start" /\ UNCHANGED job /\ run'[e].at = "node"
        /\ row'[e] = [row[e] EXCEPT !.status = "running", !.started = TRUE]
    BY <1>12, StartEffect DEF At
  <2>2. job[e].state = "running" /\ row'[e].status = "running"
    BY <1>0, <2>1 DEF DeliveryInv, Rows
  <2>3. Moves(e, "delivered", "started", "running", job[e].attempt)
    BY <1>0, <2>1, <2>2, PhaseFacts DEF Moves, Phase
  <2> QED
    BY <2>3, MoveIsStep DEF Implemented
<1>13. CASE FinishFailed(e) \/ FinishSuccess(e)
  <2>1. /\ run[e].at \in {"reject", "fail", "node"} /\ UNCHANGED job
        /\ run'[e].at \in {"err", "ok"}
        /\ \/ row'[e] = row[e]
           \/ row'[e] = Finished(row[e], "failed", NoOutput)
           \/ /\ row'[e] = Finished(row[e], "success", {run[e].outputs})
              /\ run[e].at = "node"
    BY <1>13, FinishEffect DEF At
  <2>2. /\ job[e].state = "running"
        /\ row'[e].status \in {row[e].status, "failed", "success"}
        /\ row'[e].status = "success" =>
              row[e].status = "success" \/ run[e].at = "node"
    BY <1>0, <2>1 DEF DeliveryInv, Finished, Rows
  <2>3. Moves(e, Phase(e), "over", row'[e].status, job[e].attempt)
    BY <1>0, <2>1, <2>2, PhaseFacts DEF Moves, Phase
  <2>4. CASE run[e].at = "reject"
    <3>1. Phase(e) = "delivered"
      BY <2>2, <2>4, PhaseFacts DEF Phase
    <3> QED
      BY <2>2, <2>3, <2>4, <3>1, MoveIsStep DEF Implemented
  <2>5. CASE run[e].at \in {"fail", "node"}
    <3>1. Phase(e) = "started" /\ row[e].status = "running"
      BY <1>0, <2>2, <2>5, PhaseFacts DEF Phase, OutcomeInv
    <3> QED
      BY <2>2, <2>3, <3>1, MoveIsStep DEF Implemented
  <2> QED
    BY <2>1, <2>4, <2>5
<1> QED
  BY <1>1, <1>2, <1>4, <1>6, <1>7, <1>9, <1>10, <1>11, <1>12, <1>13
     DEF OwnStep, RunStep

\* Of the steps of a request, the lifecycle sees the insert and the enqueueing.
LEMMA RequestStepImplements ==
  ASSUME IInv, NEW r \in Requests, RequestStep(r)
  PROVE  Implemented
<1>0. TypeOK /\ CallersInv
  BY DEF IInv
<1>1. CASE UNCHANGED <<row, job, run>>
  BY <1>1 DEF Implemented, lifeStatus, lifePhase, lifeDeliveries, Phase
<1>2. ASSUME NEW e \in Execs, CreateExecution(r, e)
      PROVE  Implemented
  <2>1. /\ row[e].status = "absent" /\ row[e] \in Rows /\ UNCHANGED <<job, run>>
        /\ row'[e] = [row[e] EXCEPT !.status = "queued"]
        /\ \A f \in Execs \ {e} : row'[f] = row[f]
    BY <1>0, <1>2 DEF CreateExecution, TypeOK
  <2>2. Moves(e, Phase(e), Phase(e), "queued", job[e].attempt)
    BY <2>1 DEF Moves, Phase, Rows
  <2> QED
    BY <2>1, <2>2, MoveIsStep DEF Implemented
<1>3. CASE Enqueue(r)
  <2>0. PICK e \in Execs : e = req[r].exec
    BY <1>0, <1>3 DEF Enqueue, TypeOK, Reqs
  <2>1. row[e].status # "absent" /\ job[e] = NoJob
    BY <1>0, <1>3, <2>0 DEF Enqueue, CallersInv
  <2>2. /\ UNCHANGED <<row, run>> /\ job'[e] = [job[e] EXCEPT !.state = "waiting"]
        /\ \A f \in Execs \ {e} : job'[f] = job[f]
    BY <1>0, <1>3, <2>0 DEF Enqueue, TypeOK
  <2>3. /\ job[e].state = "none" /\ job'[e].state = "waiting"
        /\ job'[e].attempt = job[e].attempt /\ run[e].at = "idle"
    BY <2>1, <2>2 DEF NoJob, IInv, EInv, DeliveryInv
  <2>4. Moves(e, "unsent", "waiting", row[e].status, job[e].attempt)
    BY <2>2, <2>3, PhaseFacts DEF Moves, Phase
  <2> QED
    BY <2>1, <2>4, MoveIsStep DEF Implemented
<1> QED
  BY <1>1, <1>2, <1>3
     DEF RequestStep, Execute, RetryExecution, Checked, RequestFails

\* Whatever requests, faults and redeliveries do in between, the row and the job of
\* every execution follow the abstract lifecycle.
THEOREM Refinement == Spec => ImplementsLifecycle
<1>1. Init => Life!LifeInit
  BY PhaseFacts DEF Init, Life!LifeInit, NoRow, NoJob, NoRun, Phase
<1>2. IInv /\ [Next]_vars => [Life!LifeNext]_(Life!lifeVars)
  <2> SUFFICES ASSUME IInv, [Next]_vars
               PROVE  Life!LifeNext \/ UNCHANGED Life!lifeVars
    OBVIOUS
  <2>0. TypeOK /\ \A e \in Execs : EInv(e)
    BY DEF IInv
  <2>1. Implemented
    <3>1. CASE Publish \/ Deactivate \/ ServerCrash \/ UNCHANGED vars
      <4>1. UNCHANGED <<row, job, run>>
        BY <3>1 DEF Publish, Deactivate, ServerCrash, vars
      <4> QED
        BY <4>1 DEF Implemented, lifeStatus, lifePhase, lifeDeliveries, Phase
    <3>2. CASE \E r \in Requests : RequestStep(r)
      BY <3>2, RequestStepImplements
    <3>3. CASE \E e \in Execs : OwnStep(e)
      BY <2>0, <3>3, OwnStepImplements
    <3> QED
      BY <3>1, <3>2, <3>3 DEF Next, OwnStep
  <2> QED
    BY <2>1 DEF Implemented, Life!lifeVars, lifeStatus, lifePhase, lifeDeliveries
<1> QED
  BY <1>1, <1>2, Invariance, PTL DEF Spec, ImplementsLifecycle, Life!LifeSpec
=============================================================================
