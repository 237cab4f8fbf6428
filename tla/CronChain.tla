----------------------------- MODULE CronChain -----------------------------
(***************************************************************************)
(* The cron trigger of one workflow: Publish schedules a cron.trigger job   *)
(* (internal/workflows/service, internal/runtime/scheduler), River delivers *)
(* it when it is due, and the cron worker (internal/queue/workers) starts   *)
(* an execution and schedules the next fire.                                *)
(*                                                                          *)
(* A workflow never gets a second version, so its schedule is fixed and all *)
(* its jobs have equal arguments, which is what River's uniqueness compares. *)
(* Time is abstracted: a scheduled job may become due at any moment.        *)
(*                                                                          *)
(* River is not in the repository.  The version go.mod names refuses every   *)
(* insert whose ByState list lacks the pending state, as ScheduleCron's does, *)
(* and then no job is ever inserted; a River without that rule, which         *)
(* ScheduleCron is written for, inserts it or finds a duplicate.              *)
(* AcceptsStates tells the two apart.                                         *)
(***************************************************************************)
EXTENDS Integers, FiniteSets

CONSTANTS
    Jobs,           \* slots for rows of river_job; a finished one is reused
    Publishers,     \* concurrent callers of Publish
    MaxAttempts,    \* River's max_attempts of a job
    Schedule,       \* the trigger node's schedule: members of Schedules
    AcceptsStates,  \* River accepts ScheduleCron's ByState list
    Faults          \* which of "crash", "db" may happen

\* "missing" is also one that is empty or not a string, and a nil scheduler;
\* "unparsable" one that nextRunTime refuses.
Schedules == {"missing", "unparsable", "valid"}

ASSUME CronAssumption ==
    /\ Schedule \in Schedules
    /\ AcceptsStates \in BOOLEAN
    /\ MaxAttempts \in Nat \ {0}
    /\ Faults \subseteq {"crash", "db"}

VARIABLES
    active,     \* workflows.active
    pub,        \* the Publish calls in progress
    job         \* the cron.trigger jobs of the workflow

vars == <<active, pub, job>>

\* "waiting" stands for River's scheduled and available.
States == {"none", "waiting", "running", "retryable", "completed", "discarded"}

\* Where CronTriggerWorker.Work is.
Places == {"idle", "check", "prepare", "enqueue", "reschedule", "ok", "err"}

CronJobs == [state   : States,
             attempt : 0 .. MaxAttempts,
             lost    : 0 .. MaxAttempts,   \* attempts that ended with the process
             at      : Places,
             fired   : Nat,                \* executions it has enqueued
             steady  : BOOLEAN,            \* active ever since it was scheduled
             misread : BOOLEAN]            \* an error was taken for an inactive flag

NoJob == [state |-> "none", attempt |-> 0, lost |-> 0, at |-> "idle",
          fired |-> 0, steady |-> FALSE, misread |-> FALSE]

Init ==
    /\ active = FALSE
    /\ pub = [p \in Publishers |-> "idle"]
    /\ job = [j \in Jobs |-> NoJob]

-----------------------------------------------------------------------------
(* ScheduleCron                                                            *)

\* UniqueOpts.ByState: scheduled, available, running.  Retryable is not listed.
Counted(j) == job[j].state \in {"waiting", "running"}

Free == {j \in Jobs : job[j].state \in {"none", "completed", "discarded"}}

\* The jobs after an Insert that River accepts: unchanged when a counted job exists,
\* which is not an error, and with one more otherwise.
Inserted ==
    IF \E j \in Jobs : Counted(j)
    THEN {job}
    ELSE {[job EXCEPT ![j] = [NoJob EXCEPT !.state = "waiting", !.steady = active]]
             : j \in Free}

\* The caller has a schedule, it parses, and River takes the options.
Insertable == Schedule = "valid" /\ AcceptsStates

\* What the callers of ScheduleCron may leave, who log its error if anything: the
\* insert can be refused, and it can fail.
Scheduled ==
    IF Insertable THEN Inserted \union IF "db" \in Faults THEN {job} ELSE {}
    ELSE {job}

-----------------------------------------------------------------------------
(* Requests                                                                *)

\* The transaction of Repository.Publish.
PublishTx(p) ==
    /\ pub[p] = "idle"
    /\ active' = TRUE
    /\ pub' = [pub EXCEPT ![p] = "published"]
    /\ UNCHANGED job

\* The rest of Service.Publish, which answers with success in any case.
PublishCron(p) ==
    /\ pub[p] = "published"
    /\ job' \in Scheduled
    /\ pub' = [pub EXCEPT ![p] = "idle"]
    /\ UNCHANGED active

ServerCrash ==
    /\ "crash" \in Faults
    /\ \E p \in Publishers : pub[p] # "idle"
    /\ pub' = [p \in Publishers |-> "idle"]
    /\ UNCHANGED <<active, job>>

Deactivate ==
    /\ active' = FALSE
    /\ job' = [j \in Jobs |-> [job[j] EXCEPT !.steady = FALSE]]
    /\ UNCHANGED pub

-----------------------------------------------------------------------------
(* River                                                                   *)

Fetch(j) ==
    /\ job[j].state = "waiting"
    /\ job' = [job EXCEPT ![j].state = "running", ![j].attempt = @ + 1,
                          ![j].at = "check"]
    /\ UNCHANGED <<active, pub>>

\* Mutant: one attempt too many.
AfterFailureOffByOne(j) ==
    IF job[j].attempt <= MaxAttempts THEN "retryable" ELSE "discarded"

AfterFailure(j) ==
    IF job[j].attempt < MaxAttempts THEN "retryable" ELSE "discarded"

Complete(j) ==
    /\ job[j].at = "ok"
    /\ job' = [job EXCEPT ![j].state = "completed", ![j].at = "idle"]
    /\ UNCHANGED <<active, pub>>

Errored(j) ==
    /\ job[j].at = "err"
    /\ job' = [job EXCEPT ![j].state = AfterFailure(j), ![j].at = "idle"]
    /\ UNCHANGED <<active, pub>>

WorkerCrash(j) ==
    /\ "crash" \in Faults
    /\ job[j].at # "idle"
    /\ job' = [job EXCEPT ![j].at = "idle", ![j].lost = @ + 1]
    /\ UNCHANGED <<active, pub>>

Rescue(j) ==
    /\ job[j].state = "running" /\ job[j].at = "idle"
    /\ job' = [job EXCEPT ![j].state = AfterFailure(j)]
    /\ UNCHANGED <<active, pub>>

\* Mutant: the uniqueness is only checked by inserts.
PromoteUnchecked(j) ==
    /\ job[j].state = "retryable"
    /\ job' = [job EXCEPT ![j].state = "waiting"]
    /\ UNCHANGED <<active, pub>>

\* The back-off is over.  The job counts again, and is discarded when another one
\* took its place in the meantime.
Promote(j) ==
    /\ job[j].state = "retryable"
    /\ job' = [job EXCEPT ![j].state =
                  IF \E i \in Jobs : Counted(i) THEN "discarded" ELSE "waiting"]
    /\ UNCHANGED <<active, pub>>

-----------------------------------------------------------------------------
(* CronTriggerWorker.Work                                                  *)

Go(j, place) ==
    /\ job' = [job EXCEPT ![j].at = place]
    /\ UNCHANGED <<active, pub>>

\* Mutant: the test of the flag is the wrong way round.
CheckInverted(j) ==
    /\ job[j].at = "check"
    /\ Go(j, IF active THEN "ok" ELSE "prepare")

\* An error of IsActive is taken for an inactive workflow.
Check(j) ==
    /\ job[j].at = "check"
    /\ \/ Go(j, IF active THEN "prepare" ELSE "ok")
       \/ /\ "db" \in Faults
          /\ job' = [job EXCEPT ![j].at = "ok", ![j].misread = TRUE]
          /\ UNCHANGED <<active, pub>>

\* PrepareExecution reads the flag again.
Prepare(j) ==
    /\ job[j].at = "prepare"
    /\ \/ Go(j, IF active THEN "enqueue" ELSE "err")
       \/ "db" \in Faults /\ Go(j, "err")

Enqueue(j) ==
    /\ job[j].at = "enqueue"
    /\ \/ /\ job' = [job EXCEPT ![j].at = "reschedule", ![j].fired = @ + 1]
          /\ UNCHANGED <<active, pub>>
       \/ "db" \in Faults /\ Go(j, "err")

\* Mutant: a fire that could not be followed by the next one is an error.
RescheduleFatal(j) ==
    /\ job[j].at = "reschedule"
    /\ \/ Insertable /\ \E next \in Inserted : job' = [next EXCEPT ![j].at = "ok"]
       \/ /\ ~Insertable \/ "db" \in Faults
          /\ job' = [job EXCEPT ![j].at = "err"]
    /\ UNCHANGED <<active, pub>>

\* The error of ScheduleCron is logged.
Reschedule(j) ==
    /\ job[j].at = "reschedule"
    /\ \E next \in Scheduled : job' = [next EXCEPT ![j].at = "ok"]
    /\ UNCHANGED <<active, pub>>

Work(j) == Check(j) \/ Prepare(j) \/ Enqueue(j) \/ Reschedule(j)

Next ==
    \/ Deactivate \/ ServerCrash
    \/ \E p \in Publishers : PublishTx(p) \/ PublishCron(p)
    \/ \E j \in Jobs :
        \/ Fetch(j) \/ Complete(j) \/ Errored(j) \/ Rescue(j) \/ Promote(j)
        \/ Work(j) \/ WorkerCrash(j)

Spec == Init /\ [][Next]_vars

\* A due job is fetched, and a live worker keeps executing.
Fairness ==
    \A j \in Jobs :
        /\ WF_vars(Fetch(j)) /\ WF_vars(Work(j)) /\ WF_vars(Complete(j))
        /\ WF_vars(Errored(j)) /\ WF_vars(Rescue(j)) /\ WF_vars(Promote(j))

FairSpec == Spec /\ Fairness

-----------------------------------------------------------------------------
(* Properties                                                              *)

\* Every variable has its type.
TypeOK ==
    /\ active \in BOOLEAN
    /\ pub \in [Publishers -> {"idle", "published"}]
    /\ job \in [Jobs -> CronJobs]

Live(j) == job[j].state \in {"waiting", "running"}

\* At most one job of the workflow is waiting or running, however often it is
\* published, deactivated and retried: a workflow never fires on two chains
\* (ScheduleCron's unique options).
OneLiveJob ==
    \A i, j \in Jobs : Live(i) /\ Live(j) => i = j

\* A fire starts one execution, and another one only for each time its worker
\* died under it: no error after the execution was enqueued makes River run the
\* tick again (the error of ScheduleCron that Work only logs).
OneExecutionPerFire ==
    \A j \in Jobs : job[j].fired <= 1 + job[j].lost

\* A fire that completes without starting an execution belongs to a workflow that
\* was inactive at some time since the job was scheduled (Work's first comment), or
\* to one that Work takes for inactive because its statement failed: no retry, no
\* crash and no other publish ever swallows a tick.
SkippedOnlyIfDeactivated ==
    \A j \in Jobs :
        job[j].state = "completed" /\ job[j].fired = 0 => ~job[j].steady \/ job[j].misread

\* A scheduled job of a workflow that stays active starts an execution, unless its
\* worker dies under it, its flag is misread, or River discards it: its attempts
\* are used up, or another publish took its place while it waited to be retried.
ScheduledJobsFire ==
    \A j \in Jobs :
        job[j].state = "waiting" ~>
            \/ job[j].fired > 0
            \/ ~job[j].steady \/ job[j].misread \/ job[j].lost > 0
            \/ job[j].state = "discarded"

\* The delivery a job is in or waits for, and where it is in it.
Round(x) == IF x.state = "running" THEN x.attempt ELSE x.attempt + 1

StageOf == [none |-> 0, retryable |-> 0, waiting |-> 1, check |-> 2, prepare |-> 3,
            enqueue |-> 4, reschedule |-> 5, ok |-> 6, err |-> 6, running |-> 7,
            completed |-> 8, discarded |-> 8]

Stage(x) == StageOf[IF x.at = "idle" THEN x.state ELSE x.at]

Later(x, y) == Round(x) < Round(y) \/ (Round(x) = Round(y) /\ Stage(x) < Stage(y))

\* Only a publish makes a job of the workflow: none comes from a fire, from River or
\* from a crash.  Whatever else happens to a job but a deactivation takes it forward,
\* in this delivery or to another one of those River allows, so that no job is
\* delivered or retried for ever (the safety half of ScheduledJobsFire).
OnlyPublishesSchedule ==
    [][\A j \in Jobs :
         job'[j] \notin {job[j], [job[j] EXCEPT !.steady = FALSE]} =>
            \/ Later(job[j], job'[j])
            \/ /\ j \in Free /\ job'[j].state = "waiting"
               /\ \E p \in Publishers : pub[p] = "published" /\ pub'[p] = "idle"]_vars

-----------------------------------------------------------------------------
(* What the documentation says and the code does not do.                   *)

\* trigger_cron.go: "A River Queue job is registered on publish. The chain is
\* self-sustaining until the workflow is deactivated."  An active workflow whose
\* publishes are over has a job that fires or will.  The insert is refused, with an
\* error that Publish and Work log; by a River that accepted it, the insert of the
\* next job would find the job that is making it, which is running and counts.
ActiveIsScheduled ==
    active /\ (\A p \in Publishers : pub[p] = "idle") =>
        \E j \in Jobs : Live(j) \/ job[j].state = "retryable"
=============================================================================
