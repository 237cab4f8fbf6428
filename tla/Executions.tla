----------------------------- MODULE Executions -----------------------------
(***************************************************************************)
(* The life of an execution: the API requests that create it and enqueue    *)
(* its job (internal/executions), the delivery of that job by River         *)
(* (external), the run of the workflow's DAG by the worker process          *)
(* (internal/queue/workers, internal/runtime/executor), and the rows they   *)
(* leave in PostgreSQL, for one workflow.                                   *)
(*                                                                          *)
(* Server and worker are separate processes that share only the database,   *)
(* so every database statement or transaction is a step of its own.         *)
(***************************************************************************)
EXTENDS Dag

CONSTANTS
    Execs,          \* ids an execution may get
    Requests,       \* concurrent callers of Execute, ExecuteWithTrigger, Retry
    MaxAttempts,    \* River's max_attempts of a job
    Retry,          \* Retry[n] is NodeConfig.Retry.MaxAttempts, 0 when absent
    Faults,         \* which of FaultKinds may happen
    NoExec          \* a request that has created no execution

FaultKinds == {"crash", "db", "timeout"}

ASSUME ExecutionsAssumption ==
    /\ MaxAttempts \in Nat \ {0}
    /\ Retry \in [Nodes -> Nat]
    /\ Faults \subseteq FaultKinds
    /\ NoExec \notin Execs

VARIABLES
    active,     \* workflows.active
    row,        \* the executions table
    job,        \* river_job: the workflow.execute job of each execution
    run,        \* the RunExecution call in progress for each execution
    req,        \* the API requests in progress
    accepted,   \* executions whose id was returned to a caller
    calls       \* how often each node of each execution was run, ever

rowVars == <<row, calls>>
reqVars == <<active, req, accepted>>
vars == <<active, row, job, run, req, accepted, calls>>

-----------------------------------------------------------------------------
(* The state                                                               *)

Statuses == {"absent", "queued", "running", "success", "failed", "cancelled"}

Rows == [status   : Statuses,
         started  : BOOLEAN,                          \* started_at IS NOT NULL
         finished : BOOLEAN,                          \* finished_at IS NOT NULL
         output   : SUBSET SUBSET Nodes,              \* {} or {its keys}
         error    : BOOLEAN]                          \* error IS NOT NULL

NoOutput == {}     \* output IS NULL

NoRow == [status |-> "absent", started |-> FALSE, finished |-> FALSE,
          output |-> NoOutput, error |-> FALSE]

\* "waiting" stands for River's available and retryable: a worker may fetch
\* the job, now or once its back-off is over.
Jobs == [state   : {"none", "waiting", "running", "completed", "discarded"},
         attempt : 0 .. MaxAttempts,
         lost    : BOOLEAN]      \* the last attempt was rescued, not reported

NoJob == [state |-> "none", attempt |-> 0, lost |-> FALSE]

\* Where RunExecution is.  "reject" and "fail" are the two ways to reach
\* FinishExecution(failed): before and after StartExecution.
Places == {"idle", "load", "start", "node", "reject", "fail", "ok", "err"}

Runs == [at      : Places,
         ctx     : BOOLEAN,          \* the job's context is still alive
         todo    : Seq(Nodes),       \* the rest of the topological order
         outputs : SUBSET Nodes,     \* the keys of the outputs map
         try     : Nat]              \* attempt of the node at the head of todo

NoRun == [at |-> "idle", ctx |-> TRUE, todo |-> <<>>, outputs |-> {}, try |-> 0]

Reqs == [at : {"idle", "checked"}, exec : {NoExec}]
            \union [at : {"created"}, exec : Execs]

NoReq == [at |-> "idle", exec |-> NoExec]

Init ==
    /\ active = FALSE
    /\ row = [e \in Execs |-> NoRow]
    /\ job = [e \in Execs |-> NoJob]
    /\ run = [e \in Execs |-> NoRun]
    /\ req = [r \in Requests |-> NoReq]
    /\ accepted = {}
    /\ calls = [e \in Execs |-> [n \in Nodes |-> 0]]

-----------------------------------------------------------------------------
(* The workflow: publishing activates it, Deactivate clears the flag.       *)

Publish    == active' = TRUE  /\ UNCHANGED <<row, job, run, req, accepted, calls>>
Deactivate == active' = FALSE /\ UNCHANGED <<row, job, run, req, accepted, calls>>

-----------------------------------------------------------------------------
(* Requests.  PrepareExecution is one transaction at READ COMMITTED: the    *)
(* flag it reads may be stale when it inserts the row.                      *)

Checked(r) ==
    /\ req[r].at = "idle"
    /\ active
    /\ req' = [req EXCEPT ![r].at = "checked"]
    /\ UNCHANGED <<active, row, job, run, accepted, calls>>

Execute(r) == Checked(r)

GetExecution(e) == row[e].status # "absent"

\* Retry first reads the original execution, whatever its status.
RetryExecution(r, original) ==
    /\ GetExecution(original)
    /\ Checked(r)

CreateExecution(r, e) ==
    /\ req[r].at = "checked"
    /\ row[e].status = "absent"
    /\ row' = [row EXCEPT ![e].status = "queued"]
    /\ req' = [req EXCEPT ![r] = [at |-> "created", exec |-> e]]
    /\ UNCHANGED <<active, job, run, accepted, calls>>

\* Mutant: the error of Insert is not looked at.
EnqueueUnchecked(r) ==
    /\ req[r].at = "created"
    /\ \/ job' = [job EXCEPT ![req[r].exec].state = "waiting"]
       \/ UNCHANGED job
    /\ accepted' = accepted \union {req[r].exec}
    /\ req' = [req EXCEPT ![r] = NoReq]
    /\ UNCHANGED <<active, row, run, calls>>

\* riverClient.Insert and the return of the execution to the caller.
Enqueue(r) ==
    /\ req[r].at = "created"
    /\ job' = [job EXCEPT ![req[r].exec].state = "waiting"]
    /\ accepted' = accepted \union {req[r].exec}
    /\ req' = [req EXCEPT ![r] = NoReq]
    /\ UNCHANGED <<active, row, run, calls>>

\* A statement of the request fails, Insert included: the error is returned
\* and nothing is undone.
RequestFails(r) ==
    /\ "db" \in Faults
    /\ req[r].at # "idle"
    /\ req' = [req EXCEPT ![r] = NoReq]
    /\ UNCHANGED <<active, row, job, run, accepted, calls>>

ServerCrash ==
    /\ "crash" \in Faults
    /\ \E r \in Requests : req[r].at # "idle"
    /\ req' = [r \in Requests |-> NoReq]
    /\ UNCHANGED <<active, row, job, run, accepted, calls>>

\* Mutant: a running execution can be cancelled too.
CancellableRunning(e) == row[e].status \in {"queued", "running"}

\* The WHERE clause of CancelExecution; no code writes the status pending.
Cancellable(e) == row[e].status = "queued"

Cancel(e) ==
    /\ Cancellable(e)
    /\ row' = [row EXCEPT ![e].status = "cancelled"]
    /\ UNCHANGED <<job, run, calls, reqVars>>

-----------------------------------------------------------------------------
(* River delivers the job and records what Work returned.                  *)

Fetch(e) ==
    /\ job[e].state = "waiting"
    /\ job' = [job EXCEPT ![e].state = "running", ![e].attempt = @ + 1]
    /\ run' = [run EXCEPT ![e] = [NoRun EXCEPT !.at = "load"]]
    /\ UNCHANGED <<rowVars, reqVars>>

\* Mutant: one attempt too many.
AfterFailureOffByOne(e) ==
    IF job[e].attempt <= MaxAttempts THEN "waiting" ELSE "discarded"

\* The state of a job whose attempt did not succeed.
AfterFailure(e) ==
    IF job[e].attempt < MaxAttempts THEN "waiting" ELSE "discarded"

Complete(e) ==
    /\ run[e].at = "ok"
    /\ job' = [job EXCEPT ![e].state = "completed"]
    /\ run' = [run EXCEPT ![e] = NoRun]
    /\ UNCHANGED <<rowVars, reqVars>>

Errored(e) ==
    /\ run[e].at = "err"
    /\ job' = [job EXCEPT ![e].state = AfterFailure(e), ![e].lost = FALSE]
    /\ run' = [run EXCEPT ![e] = NoRun]
    /\ UNCHANGED <<rowVars, reqVars>>

\* The worker process dies; one that runs several jobs dies in several steps.
WorkerCrash(e) ==
    /\ "crash" \in Faults
    /\ run[e].at # "idle"
    /\ run' = [run EXCEPT ![e] = NoRun]
    /\ UNCHANGED <<job, rowVars, reqVars>>

\* Mutant: the job is rescued while its run goes on.
RescueAlive(e) ==
    /\ job[e].state = "running"
    /\ job' = [job EXCEPT ![e].state = AfterFailure(e), ![e].lost = TRUE]
    /\ UNCHANGED <<run, rowVars, reqVars>>

\* Mutant: only jobs with attempts left are looked for.
RescueForRetry(e) ==
    /\ job[e].state = "running" /\ run[e].at = "idle"
    /\ job[e].attempt < MaxAttempts
    /\ job' = [job EXCEPT ![e].state = "waiting", ![e].lost = TRUE]
    /\ UNCHANGED <<run, rowVars, reqVars>>

\* River's rescuer finds a job that is running in no process.
Rescue(e) ==
    /\ job[e].state = "running"
    /\ run[e].at = "idle"
    /\ job' = [job EXCEPT ![e].state = AfterFailure(e), ![e].lost = TRUE]
    /\ UNCHANGED <<run, rowVars, reqVars>>

\* The job's context ends: River's job timeout, or the worker shutting down.
ContextDone(e) ==
    /\ "timeout" \in Faults
    /\ run[e].at # "idle"
    /\ run[e].ctx
    /\ run' = [run EXCEPT ![e].ctx = FALSE]
    /\ UNCHANGED <<job, rowVars, reqVars>>

-----------------------------------------------------------------------------
(* RunExecution.  A statement can only succeed while the context is alive,  *)
(* and can fail when the database may fail or the context has ended.        *)

Go(e, place) == run' = [run EXCEPT ![e].at = place]

MayFail(e) == "db" \in Faults \/ ~run[e].ctx

\* GetExecutionInternal, GetVersionDefinition, ParseDefinition and
\* TopologicalSort.  Nothing looks at the status that was loaded.
Load(e) ==
    /\ run[e].at = "load"
    /\ run[e].ctx
    /\ IF TopoOrders = {}
       THEN Go(e, "reject")
       ELSE \E order \in TopoOrders :
                run' = [run EXCEPT ![e].at = "start", ![e].todo = order]
    /\ UNCHANGED <<job, rowVars, reqVars>>

\* StartExecution: the statement has no condition on the status and leaves
\* finished_at, output and error as they are.
Start(e) ==
    /\ run[e].at = "start"
    /\ run[e].ctx
    /\ row' = [row EXCEPT ![e].status = "running", ![e].started = TRUE]
    /\ run' = [run EXCEPT ![e].at = "node", ![e].try = 1]
    /\ UNCHANGED <<job, calls, reqVars>>

\* Mutant: the error is logged and nil returned.
LoadOrStartFailsSilently(e) ==
    /\ run[e].at \in {"load", "start"}
    /\ MayFail(e)
    /\ Go(e, "ok")
    /\ UNCHANGED <<job, rowVars, reqVars>>

LoadOrStartFails(e) ==
    /\ run[e].at \in {"load", "start"}
    /\ MayFail(e)
    /\ Go(e, "err")
    /\ UNCHANGED <<job, rowVars, reqVars>>

\* Mutant: max_attempts counts the retries.
NodeAttemptsOffByOne(n) == IF Retry[n] > 1 THEN Retry[n] + 1 ELSE 1

\* maxAttempts in runNodeWithRetry
NodeAttempts(n) == IF Retry[n] > 1 THEN Retry[n] ELSE 1

CallNode(e) ==
    /\ run[e].at = "node"
    /\ run[e].todo # <<>>
    /\ calls' = [calls EXCEPT ![e][Head(run[e].todo)] = @ + 1]
    /\ UNCHANGED <<row, job, reqVars>>

NodeSucceeds(e) ==
    /\ CallNode(e)
    /\ run' = [run EXCEPT ![e].outputs = @ \union {Head(run[e].todo)},
                          ![e].todo = Tail(@),
                          ![e].try = 1]

\* The node fails and is tried again.
NodeRetries(e) ==
    /\ CallNode(e)
    /\ run[e].try < NodeAttempts(Head(run[e].todo))
    /\ run' = [run EXCEPT ![e].try = @ + 1]

\* The node fails for good: its attempts are used up, or the context ended
\* while it waited for the next one.
NodeFails(e) ==
    /\ CallNode(e)
    /\ run[e].try >= NodeAttempts(Head(run[e].todo)) \/ ~run[e].ctx
    /\ Go(e, "fail")

\* Mutant: the error column is only ever set.
FinishedKeepingError(r, status, output) ==
    [r EXCEPT !.status = status, !.finished = TRUE, !.output = output,
              !.error = @ \/ (status = "failed")]

\* FinishExecution sets every column the outcome is read from.
Finished(r, status, output) ==
    [r EXCEPT !.status = status, !.finished = TRUE, !.output = output,
              !.error = (status = "failed")]

\* Mutant: a failed node is reported to River only.
FinishFailedUnrecorded(e) ==
    /\ run[e].at \in {"reject", "fail"}
    /\ Go(e, "err")
    /\ UNCHANGED <<job, row, calls, reqVars>>

\* A failure is recorded when the statement succeeds; its error is dropped.
FinishFailed(e) ==
    /\ run[e].at \in {"reject", "fail"}
    /\ \/ /\ run[e].ctx
          /\ row' = [row EXCEPT ![e] = Finished(@, "failed", NoOutput)]
       \/ MayFail(e) /\ UNCHANGED row
    /\ Go(e, "err")
    /\ UNCHANGED <<job, calls, reqVars>>

\* So is a success, and the job is acknowledged either way.
FinishSuccess(e) ==
    /\ run[e].at = "node"
    /\ run[e].todo = <<>>
    /\ \/ /\ run[e].ctx
          /\ row' = [row EXCEPT ![e] = Finished(@, "success", {run[e].outputs})]
       \/ MayFail(e) /\ UNCHANGED row
    /\ Go(e, "ok")
    /\ UNCHANGED <<job, calls, reqVars>>

-----------------------------------------------------------------------------

RunStep(e) ==
    \/ Load(e) \/ Start(e) \/ LoadOrStartFails(e)
    \/ NodeSucceeds(e) \/ NodeRetries(e) \/ NodeFails(e)
    \/ FinishFailed(e) \/ FinishSuccess(e)
    \/ Complete(e) \/ Errored(e)

RequestStep(r) ==
    \/ Execute(r)
    \/ \E original \in Execs : RetryExecution(r, original)
    \/ \E e \in Execs : CreateExecution(r, e)
    \/ Enqueue(r)
    \/ RequestFails(r)

Next ==
    \/ Publish \/ Deactivate \/ ServerCrash
    \/ \E r \in Requests : RequestStep(r)
    \/ \E e \in Execs :
        \/ Cancel(e) \/ Fetch(e) \/ Rescue(e)
        \/ RunStep(e) \/ WorkerCrash(e) \/ ContextDone(e)

Spec == Init /\ [][Next]_vars

\* River keeps fetching and rescuing, and a live worker keeps executing.
Fairness ==
    \A e \in Execs : WF_vars(Fetch(e)) /\ WF_vars(Rescue(e)) /\ WF_vars(RunStep(e))

FairSpec == Spec /\ Fairness
-----------------------------------------------------------------------------
(* Properties                                                              *)

\* Every variable has its type.
TypeOK ==
    /\ active \in BOOLEAN
    /\ row \in [Execs -> Rows]
    /\ job \in [Execs -> Jobs]
    /\ run \in [Execs -> Runs]
    /\ req \in [Requests -> Reqs]
    /\ accepted \subseteq Execs
    /\ calls \in [Execs -> [Nodes -> Nat]]

\* When the executor is about to run a node, the input it builds for it holds
\* the output of every parent of the node: no edge of the definition is ever
\* dropped, in any order the sort may return and on any redelivery
\* (RunExecution's loop over order, ParentOutputs).
NodeSeesAllParents ==
    \A e \in Execs :
        run[e].at = "node" /\ run[e].todo # <<>> =>
            LET n == Head(run[e].todo)
            IN  ParentOutputs(n, run[e].outputs) = Parents(n)

\* What a finished row tells its reader is complete: a success carries an
\* output for every node, each of which really ran, and no error left over
\* from an attempt that failed before; a failure carries an error and no output
\* left over from an attempt that succeeded before (FinishExecution).
FinishedRowIsCoherent ==
    \A e \in Execs :
        /\ row[e].status = "success" =>
            /\ row[e].output = {Nodes} /\ ~row[e].error /\ row[e].finished
            /\ \A n \in Nodes : calls[e][n] > 0
        /\ row[e].status = "failed" =>
            row[e].output = NoOutput /\ row[e].error /\ row[e].finished

\* An execution that reads queued or cancelled has run none of its nodes and
\* has no timestamps, whatever its deliveries went through: a cancellation that
\* was answered and still stands undid nothing because nothing had been done
\* (CancelExecution's condition against StartExecution's order in RunExecution).
UnstartedRowIsUntouched ==
    \A e \in Execs :
        row[e].status \in {"queued", "cancelled"} =>
            /\ row[e] = [NoRow EXCEPT !.status = row[e].status]
            /\ \A n \in Nodes : calls[e][n] = 0

\* River is told that a job succeeded only when its row says success, or was
\* left running because the statement that "persists the final state" failed, an
\* error that RunExecution only logs; it is never told so of a queued, cancelled or
\* failed execution (Work, RunExecution).
CompletedJobSucceeded ==
    \A e \in Execs :
        job[e].state = "completed" =>
            \/ row[e].status = "success"
            \/ row[e].status = "running" /\ Faults \intersect {"db", "timeout"} # {}

\* A definition with a cycle runs no node and starts no row, on any delivery: not
\* even the nodes that come before the cycle, which the sort has listed when it
\* finds out (the length check and the early return after TopologicalSort).
UnsortableNeverRuns ==
    HasCycle =>
        \A e \in Execs :
            /\ row[e].status \notin {"running", "success"} /\ ~row[e].started
            /\ \A n \in Nodes : calls[e][n] = 0

\* A node runs at most once per attempt that its retry configuration allows and
\* per delivery of the job, whatever fails and whenever the worker dies
\* (runNodeWithRetry under River's redelivery).
CallsAreBounded ==
    \A e \in Execs, n \in Nodes :
        \/ calls[e][n] <= job[e].attempt
        \/ calls[e][n] <= job[e].attempt * Retry[n]

\* An execution whose id was returned to its caller has a job in River, and an
\* execution without a job has never left queued but for a cancellation: the
\* queue is the only way to run a workflow (Execute, ExecuteWithTrigger, Retry).
OnlyTheQueueRuns ==
    \A e \in Execs :
        job[e].state = "none" =>
            e \notin accepted /\ row[e].status \in {"absent", "queued", "cancelled"}

\* A row that is running on its first delivery shows nothing of an outcome; the
\* finished_at, output and error that StartExecution leaves behind can only be
\* those of an earlier delivery.
StaleOutcomeOnlyOnRedelivery ==
    \A e \in Execs :
        row[e].status = "running" /\ job[e].attempt = 1 =>
            ~row[e].finished /\ row[e].output = NoOutput /\ ~row[e].error

\* Once River is done with a job, its row never changes again, but for the
\* cancellation of a row that no delivery managed to start.
SettledRowIsFrozen ==
    [][\A e \in Execs :
        job[e].state \in {"completed", "discarded"} =>
            \/ row'[e] = row[e]
            \/ row[e].status = "queued" /\ row'[e].status = "cancelled"]_vars

\* When neither statements nor contexts fail, a job that River is done with left its
\* outcome in the row, whoever cancelled or died on the way; only one that was rescued
\* from a worker that died during the last of its deliveries may have left none
\* (FinishExecution, which comes before Work returns).
SettledJobLeftOutcome ==
    Faults \subseteq {"crash"} =>
        \A e \in Execs :
            job[e].state \in {"completed", "discarded"} =>
                \/ row[e].status \in {"success", "failed"}
                \/ job[e].state = "discarded" /\ job[e].lost

\* How far a delivery is: its place in RunExecution or, outside of it, its job's state.
StageOf == [none |-> 0, load |-> 1, start |-> 2, node |-> 3, reject |-> 4, fail |-> 4,
            ok |-> 5, err |-> 5, running |-> 6, waiting |-> 7,
            completed |-> 8, discarded |-> 8]

Stage(e) == StageOf[IF run[e].at = "idle" THEN job[e].state ELSE run[e].at]

\* Whatever changes of a job or its run takes it forward: to another delivery, on in
\* this one, to the next node, to the next attempt of the node, or to the end of its
\* context.  River counts the first, the order the third and runNodeWithRetry the
\* fourth, so that no execution is delivered, run or retried for ever.
DeliveriesGoForward ==
    [][\A e \in Execs :
        job'[e] # job[e] \/ run'[e] # run[e] =>
            \/ job'[e].attempt > job[e].attempt
            \/ job'[e].attempt = job[e].attempt /\ Stage(e)' > Stage(e)
            \/ /\ job'[e] = job[e] /\ Stage(e)' = Stage(e)
               /\ \/ Len(run'[e].todo) < Len(run[e].todo)
                  \/ run'[e].todo = run[e].todo /\ run'[e].try > run[e].try
                  \/ run'[e] = [run[e] EXCEPT !.ctx = FALSE] /\ run[e].ctx]_vars

\* Where a delivery is, from what River and RunExecution know of it.
PhaseOf(state, at) ==
    CASE state = "none" -> "unsent"
      [] state = "waiting" -> "waiting"
      [] state \in {"completed", "discarded"} -> "closed"
      [] at \in {"load", "start", "reject"} -> "delivered"
      [] at \in {"node", "fail"} -> "started"
      [] OTHER -> "over"

Phase(e) == PhaseOf(job[e].state, run[e].at)

Life == INSTANCE ExecutionLifecycle WITH
            status     <- [e \in Execs |-> row[e].status],
            phase      <- [e \in Execs |-> Phase(e)],
            deliveries <- [e \in Execs |-> job[e].attempt]

\* Every row and its job follow ExecutionLifecycle: what a caller can observe is
\* a legal life of an execution, whatever happens in between.
ImplementsLifecycle == Life!LifeSpec

\* Every job that waits is completed or discarded in the end: deliveries are
\* bounded, a run always returns, and a job whose worker died is rescued.
JobsSettle ==
    \A e \in Execs :
        job[e].state = "waiting" ~> job[e].state \in {"completed", "discarded"}

\* When neither statements nor contexts fail, an execution whose id was returned
\* to its caller ends for good in success or failed, unless the worker died
\* during the last of its deliveries.
AcceptedExecutionsFinish ==
    Faults \subseteq {"crash"} =>
        \A e \in Execs :
            e \in accepted ~>
                \/ [](row[e].status \in {"success", "failed"})
                \/ [](job[e].state = "discarded" /\ job[e].lost)

-----------------------------------------------------------------------------
(* What the documentation says and the code does not do.                   *)

\* README.md's diagram of the execution states ends in success, failed and
\* cancelled.  The job of a cancelled execution stays in the queue, Work returns the
\* error of a failed run, so that River delivers the job again, and StartExecution
\* has no condition on the status.
FinalStatesAreFinal ==
    [][\A e \in Execs :
        row[e].status \in {"success", "failed", "cancelled"} =>
            row'[e].status = row[e].status]_vars

\* The execute endpoint "creates an execution and enqueues it".  The row is
\* committed before the job is inserted, and stays queued when that fails.
EveryExecutionIsEnqueued ==
    \A e \in Execs :
        row[e].status # "absent" /\ (\A r \in Requests : req[r].exec # e) =>
            job[e].state # "none"
=============================================================================
