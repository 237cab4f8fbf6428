-------------------------- MODULE CronChain_proofs --------------------------
(***************************************************************************)
(* Theorems about CronChain, for every number of jobs, publishers and       *)
(* attempts.                                                                *)
(***************************************************************************)
EXTENDS CronChain, TLAPS

\* A fire that is yet to happen: the job waits, or its delivery has not enqueued
\* the execution, or has failed or died.
Unfired(x) ==
    \/ x.state \in {"none", "waiting", "retryable"}
    \/ x.state = "running" /\ x.at \in {"idle", "check", "prepare", "enqueue", "err"}

\* One job: its delivery runs only while River counts it as running, it has
\* attempts left while it waits, and an execution beyond the first was paid for
\* with a lost attempt.  A delivery is only through without an execution when the
\* flag it read, or took for read, was clear.
JobInv(x) ==
    /\ x \in CronJobs
    /\ x.at # "idle" => x.state = "running" /\ x.lost < x.attempt
    /\ x.state \in {"none", "waiting", "retryable"} => x.attempt < MaxAttempts
    /\ x.lost <= x.attempt
    /\ x.fired <= 1 + x.lost
    /\ Unfired(x) => x.fired <= x.lost
    /\ x.at = "reschedule" => x.fired > 0
    /\ (x.at = "ok" \/ x.state = "completed") /\ x.fired = 0 => ~x.steady \/ x.misread

\* A job is steady only while the workflow is active.
SteadyIsActive == \A j \in Jobs : job[j].steady => active

IInv ==
    /\ active \in BOOLEAN
    /\ pub \in [Publishers -> {"idle", "published"}]
    /\ job \in [Jobs -> CronJobs]
    /\ \A j \in Jobs : JobInv(job[j])
    /\ SteadyIsActive
    /\ OneLiveJob

\* A step that changes one job, makes it live only if none is, and keeps the rest.
LEMMA OneJobStep ==
  ASSUME IInv, NEW j \in Jobs, NEW x,
         JobInv(x), job' = [job EXCEPT ![j] = x], UNCHANGED <<active, pub>>,
         x.state \in {"waiting", "running"} => Live(j) \/ \A i \in Jobs : ~Live(i),
         x.steady = job[j].steady
  PROVE  IInv'
<1>1. x \in CronJobs /\ job \in [Jobs -> CronJobs]
  BY DEF JobInv, IInv
<1>2. job' \in [Jobs -> CronJobs] /\ job'[j] = x
      /\ \A i \in Jobs \ {j} : job'[i] = job[i]
  BY <1>1
<1>3. \A i \in Jobs : JobInv(job'[i])
  BY <1>2 DEF IInv
<1>4. OneLiveJob'
  BY <1>2 DEF IInv, OneLiveJob, Live
<1>5. SteadyIsActive'
  BY <1>2 DEF IInv, SteadyIsActive
<1> QED
  BY <1>2, <1>3, <1>4, <1>5 DEF IInv

\* A job just inserted.
LEMMA FreshJob ==
  ASSUME NEW b \in BOOLEAN
  PROVE  LET x == [NoJob EXCEPT !.state = "waiting", !.steady = b]
         IN  JobInv(x) /\ x.state = "waiting" /\ x.steady = b
<1> DEFINE x == [NoJob EXCEPT !.state = "waiting", !.steady = b]
<1>1. /\ x.state = "waiting" /\ x.attempt = 0 /\ x.lost = 0 /\ x.at = "idle"
      /\ x.fired = 0 /\ x.steady = b
  BY DEF NoJob
<1>2. NoJob \in CronJobs
  BY CronAssumption DEF CronJobs, States, Places, NoJob
<1>3. x \in CronJobs
  BY <1>2 DEF CronJobs, States
<1> HIDE DEF x
<1>4. JobInv(x)
  BY <1>1, <1>3, CronAssumption DEF JobInv, Unfired
<1> QED
  BY <1>1, <1>4 DEF x

\* ScheduleCron inserts a job only when no live one exists.
LEMMA ScheduledStep ==
  ASSUME IInv, job' \in Scheduled, UNCHANGED active,
         pub' \in [Publishers -> {"idle", "published"}]
  PROVE  IInv'
<1>1. CASE job' = job
  BY <1>1 DEF IInv, OneLiveJob, SteadyIsActive, Live
<1>2. CASE job' # job
  <2>1. \A i \in Jobs : ~Live(i)
    BY <1>2 DEF Scheduled, Inserted, Counted, Live
  <2> DEFINE fresh == [NoJob EXCEPT !.state = "waiting", !.steady = active]
  <2>2. PICK j \in Jobs : job' = [job EXCEPT ![j] = fresh]
    BY <1>2 DEF Scheduled, Inserted, Free
  <2>3. JobInv(fresh) /\ fresh.state = "waiting" /\ fresh.steady = active
    BY FreshJob DEF IInv
  <2>4. /\ job' \in [Jobs -> CronJobs] /\ job'[j] = fresh
        /\ \A i \in Jobs \ {j} : job'[i] = job[i]
    BY <2>2, <2>3 DEF JobInv, IInv
  <2>5. \A i \in Jobs : JobInv(job'[i])
    BY <2>3, <2>4 DEF IInv
  <2>6. OneLiveJob'
    BY <2>1, <2>4 DEF OneLiveJob, Live
  <2>7. SteadyIsActive'
    <3> HIDE DEF fresh
    <3> QED
      BY <2>3, <2>4 DEF IInv, SteadyIsActive
  <2> QED
    BY <2>4, <2>5, <2>6, <2>7 DEF IInv
<1> QED
  BY <1>1, <1>2

LEMMA InitIInv == Init => IInv
<1>1. JobInv(NoJob) /\ NoJob \in CronJobs /\ NoJob.state = "none" /\ ~NoJob.steady
  BY CronAssumption DEF JobInv, Unfired, CronJobs, States, Places, NoJob
<1>2. SUFFICES ASSUME Init PROVE IInv
  OBVIOUS
<1>3. \A j \in Jobs : job[j] = NoJob
  BY <1>2 DEF Init
<1>4. OneLiveJob
  BY <1>1, <1>3 DEF OneLiveJob, Live
<1>5. SteadyIsActive
  BY <1>1, <1>3 DEF SteadyIsActive
<1> QED
  BY <1>1, <1>2, <1>3, <1>4, <1>5 DEF Init, IInv

\* What River does to a job.
LEMMA RiverStep ==
  ASSUME IInv, NEW j \in Jobs,
         Fetch(j) \/ Complete(j) \/ Errored(j) \/ WorkerCrash(j) \/ Rescue(j)
           \/ Promote(j)
  PROVE  IInv'
<1> USE DEF JobInv, Unfired, CronJobs, States, Places
<1>0. JobInv(job[j]) /\ job \in [Jobs -> CronJobs] /\ MaxAttempts \in Nat \ {0}
  BY CronAssumption DEF IInv
<1>1. CASE Fetch(j)
  <2> DEFINE x == [job[j] EXCEPT !.state = "running", !.attempt = @ + 1, !.at = "check"]
  <2>1. job' = [job EXCEPT ![j] = x] /\ JobInv(x) /\ Live(j)
    BY <1>0, <1>1 DEF Fetch, Live
  <2> QED
    BY <1>1, <2>1, OneJobStep DEF Fetch
<1>2. CASE Complete(j)
  <2> DEFINE x == [job[j] EXCEPT !.state = "completed", !.at = "idle"]
  <2>1. job' = [job EXCEPT ![j] = x] /\ JobInv(x) /\ x.state = "completed"
    BY <1>0, <1>2 DEF Complete
  <2> QED
    BY <1>2, <2>1, OneJobStep DEF Complete
<1>3. CASE Errored(j)
  <2> DEFINE x == [job[j] EXCEPT !.state = AfterFailure(j), !.at = "idle"]
  <2>1. job' = [job EXCEPT ![j] = x] /\ JobInv(x)
        /\ x.state \notin {"waiting", "running"}
    BY <1>0, <1>3 DEF Errored, AfterFailure
  <2> QED
    BY <1>3, <2>1, OneJobStep DEF Errored
<1>4. CASE WorkerCrash(j)
  <2> DEFINE x == [job[j] EXCEPT !.at = "idle", !.lost = @ + 1]
  <2>1. job' = [job EXCEPT ![j] = x] /\ JobInv(x) /\ Live(j)
    BY <1>0, <1>4 DEF WorkerCrash, Live
  <2> QED
    BY <1>4, <2>1, OneJobStep DEF WorkerCrash
<1>5. CASE Rescue(j)
  <2> DEFINE x == [job[j] EXCEPT !.state = AfterFailure(j)]
  <2>1. job' = [job EXCEPT ![j] = x] /\ JobInv(x)
        /\ x.state \notin {"waiting", "running"}
    BY <1>0, <1>5 DEF Rescue, AfterFailure
  <2> QED
    BY <1>5, <2>1, OneJobStep DEF Rescue
<1>6. CASE Promote(j)
  <2> DEFINE s == IF \E i \in Jobs : Counted(i) THEN "discarded" ELSE "waiting"
             x == [job[j] EXCEPT !.state = s]
  <2>1. /\ job' = [job EXCEPT ![j] = x]
        /\ s \in {"discarded", "waiting"}
        /\ s = "waiting" => \A i \in Jobs : ~Live(i)
    BY <1>6 DEF Promote, Counted, Live
  <2> HIDE DEF s
  <2>2. JobInv(x) /\ x.state = s
    BY <1>0, <1>6, <2>1 DEF Promote
  <2> QED
    BY <1>6, <2>1, <2>2, OneJobStep DEF Promote
<1> QED
  BY <1>1, <1>2, <1>3, <1>4, <1>5, <1>6

\* What the cron worker does.  Its own job is live, so the insert of the next one
\* is always skipped.
LEMMA WorkStep ==
  ASSUME IInv, NEW j \in Jobs, Work(j)
  PROVE  IInv'
<1>0. /\ JobInv(job[j]) /\ job \in [Jobs -> CronJobs] /\ job[j].at # "idle"
      /\ Live(j) /\ Counted(j)
  BY DEF IInv, JobInv, Work, Check, Prepare, Enqueue, Reschedule, Live, Counted
<1>1. ASSUME NEW place \in Places \ {"idle"}, Go(j, place),
             place \in {"reschedule", "ok"} \/ job[j].at # "reschedule",
             job[j].at \in {"reschedule", "ok"} => place \in {"reschedule", "ok"},
             place = "ok" => job[j].fired > 0, place # "reschedule"
      PROVE  IInv'
  <2> DEFINE x == [job[j] EXCEPT !.at = place]
  <2>1. job' = [job EXCEPT ![j] = x]
    BY <1>1 DEF Go
  <2>2. /\ x \in CronJobs /\ x.at = place /\ x.state = job[j].state
        /\ x.attempt = job[j].attempt /\ x.lost = job[j].lost
        /\ x.fired = job[j].fired /\ x.steady = job[j].steady
        /\ x.misread = job[j].misread
    BY <1>0, <1>1 DEF JobInv, CronJobs
  <2>3. JobInv(x)
    BY <1>0, <1>1, <2>2 DEF JobInv, Unfired, CronJobs, Places
  <2> QED
    BY <1>0, <1>1, <2>1, <2>2, <2>3, OneJobStep DEF Go
<1>2. CASE Check(j)
  <2>1. CASE active /\ Go(j, "prepare")
    BY <1>1, <1>2, <2>1 DEF Check, Places
  <2>2. CASE ~active /\ Go(j, "ok")
    <3> DEFINE x == [job[j] EXCEPT !.at = "ok"]
    <3>1. ~job[j].steady
      BY <2>2 DEF IInv, SteadyIsActive
    <3>2. job' = [job EXCEPT ![j] = x] /\ JobInv(x) /\ x.steady = job[j].steady
      BY <1>0, <1>2, <2>2, <3>1 DEF Check, Go, JobInv, Unfired, CronJobs, Places
    <3> QED
      BY <1>0, <2>2, <3>2, OneJobStep DEF Go
  <2>3. CASE job' = [job EXCEPT ![j].at = "ok", ![j].misread = TRUE]
    <3> DEFINE x == [job[j] EXCEPT !.at = "ok", !.misread = TRUE]
    <3>1. job' = [job EXCEPT ![j] = x] /\ JobInv(x) /\ x.steady = job[j].steady
      BY <1>0, <1>2, <2>3 DEF Check, JobInv, Unfired, CronJobs, Places
    <3>2. UNCHANGED <<active, pub>>
      BY <1>2 DEF Check, Go
    <3> QED
      BY <1>0, <3>1, <3>2, OneJobStep
  <2> QED
    BY <1>2, <2>1, <2>2, <2>3 DEF Check
<1>5. CASE Prepare(j)
  BY <1>1, <1>5 DEF Prepare, Places
<1>3. CASE Enqueue(j)
  <2>1. CASE Go(j, "err")
    BY <1>1, <1>3, <2>1 DEF Enqueue, Places
  <2>2. CASE /\ job' = [job EXCEPT ![j].at = "reschedule", ![j].fired = @ + 1]
             /\ UNCHANGED <<active, pub>>
    <3> DEFINE x == [job[j] EXCEPT !.at = "reschedule", !.fired = @ + 1]
    <3>1. job' = [job EXCEPT ![j] = x] /\ JobInv(x) /\ x.steady = job[j].steady
      BY <1>0, <1>3, <2>2 DEF Enqueue, JobInv, Unfired, CronJobs, Places
    <3> QED
      BY <1>0, <2>2, <3>1, OneJobStep
  <2> QED
    BY <1>3, <2>1, <2>2 DEF Enqueue
<1>4. CASE Reschedule(j)
  <2>1. Scheduled = {job}
    BY <1>0 DEF Scheduled, Inserted
  <2>2. Go(j, "ok")
    BY <1>4, <2>1 DEF Reschedule, Go
  <2>3. job[j].fired > 0
    BY <1>0, <1>4 DEF Reschedule, JobInv
  <2> QED
    BY <1>1, <1>4, <2>2, <2>3 DEF Reschedule, Places
<1> QED
  BY <1>2, <1>3, <1>4, <1>5 DEF Work

LEMMA NextIInv == IInv /\ [Next]_vars => IInv'
<1> SUFFICES ASSUME IInv, [Next]_vars PROVE IInv'
  OBVIOUS
<1>1. CASE Deactivate
  <2>1. \A j \in Jobs : job'[j] = [job[j] EXCEPT !.steady = FALSE]
    BY <1>1 DEF Deactivate
  <2>2. ASSUME NEW j \in Jobs
        PROVE  JobInv(job'[j]) /\ job'[j].state = job[j].state /\ ~job'[j].steady
    <3>1. JobInv(job[j]) /\ job'[j] = [job[j] EXCEPT !.steady = FALSE]
      BY <2>1 DEF IInv
    <3>2. /\ job'[j] \in CronJobs /\ job'[j].at = job[j].at
          /\ job'[j].state = job[j].state /\ job'[j].attempt = job[j].attempt
          /\ job'[j].lost = job[j].lost /\ job'[j].fired = job[j].fired
          /\ job'[j].steady = FALSE
      BY <3>1 DEF JobInv, CronJobs
    <3> QED
      BY <3>1, <3>2 DEF JobInv, Unfired
  <2>3. job' \in [Jobs -> CronJobs]
    BY <1>1, <2>2 DEF Deactivate, JobInv
  <2>4. OneLiveJob'
    BY <2>2 DEF IInv, OneLiveJob, Live
  <2> QED
    BY <1>1, <2>2, <2>3, <2>4 DEF Deactivate, IInv, SteadyIsActive
<1>2. CASE ServerCrash
  BY <1>2 DEF ServerCrash, IInv, OneLiveJob, SteadyIsActive, Live
<1>3. ASSUME NEW p \in Publishers, PublishTx(p)
      PROVE  IInv'
  BY <1>3 DEF PublishTx, IInv, OneLiveJob, SteadyIsActive, Live
<1>4. ASSUME NEW p \in Publishers, PublishCron(p)
      PROVE  IInv'
  <2>1. pub' \in [Publishers -> {"idle", "published"}]
    BY <1>4 DEF PublishCron, IInv
  <2> QED
    BY <1>4, <2>1, ScheduledStep DEF PublishCron
<1>5. ASSUME NEW j \in Jobs,
             Fetch(j) \/ Complete(j) \/ Errored(j) \/ Rescue(j) \/ Promote(j)
               \/ WorkerCrash(j)
      PROVE  IInv'
  BY <1>5, RiverStep
<1>6. ASSUME NEW j \in Jobs, Work(j)
      PROVE  IInv'
  BY <1>6, WorkStep
<1>7. CASE UNCHANGED vars
  BY <1>7 DEF vars, IInv, OneLiveJob, SteadyIsActive, Live
<1> QED
  BY <1>1, <1>2, <1>3, <1>4, <1>5, <1>6, <1>7 DEF Next

\* Deliveries, uniqueness and fires agree in every reachable state.
THEOREM CronInvariance == Spec => []IInv
<1> QED
  BY InitIInv, NextIInv, PTL DEF Spec

\* A workflow never has two chains (ScheduleCron's unique options).
THEOREM NoTwoChains == Spec => []OneLiveJob
<1>1. IInv => OneLiveJob
  BY DEF IInv
<1> QED
  BY <1>1, CronInvariance, PTL

\* Each fire starts one execution, and one more for each lost attempt at most
\* (CronTriggerWorker.Work).
THEOREM FiresAreNotRepeated == Spec => []OneExecutionPerFire
<1>1. IInv => OneExecutionPerFire
  BY DEF IInv, JobInv, OneExecutionPerFire
<1> QED
  BY <1>1, CronInvariance, PTL

\* Every variable has its type, always.
THEOREM CronTypes == Spec => []TypeOK
<1>1. IInv => TypeOK
  BY DEF IInv, TypeOK
<1> QED
  BY <1>1, CronInvariance, PTL

\* A tick is only ever skipped for a workflow that was inactive since the job was
\* scheduled, or for a flag that could not be read (CronTriggerWorker.Work).
THEOREM NoTickIsSwallowed == Spec => []SkippedOnlyIfDeactivated
<1>1. IInv => SkippedOnlyIfDeactivated
  BY DEF IInv, JobInv, SkippedOnlyIfDeactivated
<1> QED
  BY <1>1, CronInvariance, PTL

\* A cron worker never schedules the job that should follow its own, whether River
\* refuses the insert or accepts it and meets the worker's own job, which is running
\* and counts.  No schedule, no fault and no number of jobs makes the chain of
\* trigger_cron.go go on (CronTriggerWorker.Work).
THEOREM RescheduleInsertsNothing ==
  Spec => [][\A j \in Jobs : Reschedule(j) => job' = [job EXCEPT ![j].at = "ok"]]_vars
<1>1. IInv /\ [Next]_vars =>
        [\A j \in Jobs : Reschedule(j) => job' = [job EXCEPT ![j].at = "ok"]]_vars
  <2> SUFFICES ASSUME IInv, NEW j \in Jobs, Reschedule(j)
               PROVE  job' = [job EXCEPT ![j].at = "ok"]
    OBVIOUS
  <2>1. Counted(j)
    BY DEF IInv, JobInv, Reschedule, Counted
  <2>2. Scheduled = {job}
    BY <2>1 DEF Scheduled, Inserted
  <2> QED
    BY <2>2 DEF Reschedule
<1> QED
  BY <1>1, CronInvariance, PTL DEF Spec

\* When River refuses ScheduleCron's options, or the trigger node has no schedule
\* that parses, no job of the workflow ever exists, however often it is published:
\* it is active and never fires (Publish, whose schedule is optional and whose
\* error of ScheduleCron is logged).
THEOREM NothingIsScheduled ==
  Spec => [](~Insertable => \A j \in Jobs : job[j] = NoJob)
<1> DEFINE Unscheduled == ~Insertable => job = [j \in Jobs |-> NoJob]
<1>1. Init => Unscheduled
  BY DEF Init
<1>2. Unscheduled /\ [Next]_vars => Unscheduled'
  <2> SUFFICES ASSUME Unscheduled, [Next]_vars, ~Insertable PROVE job' = job
    OBVIOUS
  <2>1. CASE Deactivate
    <3>1. NoJob \in CronJobs
      BY CronAssumption DEF CronJobs, States, Places, NoJob
    <3>2. NoJob.steady = FALSE
      BY DEF NoJob
    <3>3. [NoJob EXCEPT !.steady = FALSE] = NoJob
      BY <3>1, <3>2 DEF CronJobs
    <3> QED
      BY <2>1, <3>3 DEF Deactivate
  <2>2. ASSUME NEW p \in Publishers, PublishCron(p) PROVE job' = job
    BY <2>2 DEF PublishCron, Scheduled
  <2>3. ASSUME NEW j \in Jobs,
               \/ Fetch(j) \/ Complete(j) \/ Errored(j) \/ Rescue(j) \/ Promote(j)
               \/ Work(j) \/ WorkerCrash(j)
        PROVE  FALSE
    <3>1. job[j].state = "none" /\ job[j].at = "idle"
      BY DEF NoJob
    <3> QED
      BY <2>3, <3>1
         DEF Fetch, Complete, Errored, Rescue, Promote, Work, WorkerCrash, Check, Prepare,
             Enqueue, Reschedule
  <2> QED
    BY <2>1, <2>2, <2>3 DEF Next, ServerCrash, PublishTx, vars
<1>3. Unscheduled => (~Insertable => \A j \in Jobs : job[j] = NoJob)
  OBVIOUS
<1> HIDE DEF Unscheduled
<1> QED
  BY <1>1, <1>2, <1>3, PTL DEF Spec

-----------------------------------------------------------------------------
(* How a job goes on                                                       *)

LEMMA StageValues ==
  /\ StageOf["none"] = 0 /\ StageOf["retryable"] = 0 /\ StageOf["waiting"] = 1
  /\ StageOf["check"] = 2 /\ StageOf["prepare"] = 3 /\ StageOf["enqueue"] = 4
  /\ StageOf["reschedule"] = 5 /\ StageOf["ok"] = 6 /\ StageOf["err"] = 6
  /\ StageOf["running"] = 7 /\ StageOf["completed"] = 8 /\ StageOf["discarded"] = 8
BY DEF StageOf

LEMMA OneJobGoes ==
  ASSUME IInv, NEW j \in Jobs, NEW x, job' = [job EXCEPT ![j] = x], Later(job[j], x)
  PROVE  \A i \in Jobs : job'[i] # job[i] => Later(job[i], job'[i])
<1>1. job'[j] = x /\ \A i \in Jobs \ {j} : job'[i] = job[i]
  BY DEF IInv
<1> QED
  BY <1>1

\* A delivery that goes on to a later place.
LEMMA GoIsLater ==
  ASSUME NEW x \in CronJobs, x.state = "running", x.at # "idle",
         NEW place \in Places \ {"idle"}, StageOf[x.at] < StageOf[place],
         NEW y \in CronJobs, y.state = x.state, y.attempt = x.attempt, y.at = place
  PROVE  Later(x, y)
BY DEF Later, Round, Stage

\* The places of a delivery come after its fetch and before its end.
LEMMA PlaceStages ==
  \A place \in Places \ {"idle"} : StageOf[place] \in 2 .. 6
BY StageValues DEF Places

LEMMA RiverGoes ==
  ASSUME IInv, NEW j \in Jobs,
         Fetch(j) \/ Complete(j) \/ Errored(j) \/ WorkerCrash(j) \/ Rescue(j)
           \/ Promote(j)
  PROVE  \A i \in Jobs : job'[i] # job[i] => Later(job[i], job'[i])
<1>0. /\ JobInv(job[j]) /\ job[j] \in CronJobs
      /\ job[j].attempt \in Nat /\ MaxAttempts \in Nat
  BY CronAssumption DEF IInv, JobInv, CronJobs
<1> USE StageValues DEF Later, Round, Stage
<1>1. CASE Fetch(j)
  <2> DEFINE x == [job[j] EXCEPT !.state = "running", !.attempt = @ + 1, !.at = "check"]
  <2>1. job[j].at = "idle" /\ job[j].state = "waiting"
    BY <1>0, <1>1 DEF Fetch, JobInv
  <2>2. /\ job' = [job EXCEPT ![j] = x] /\ x.state = "running" /\ x.at = "check"
        /\ x.attempt = job[j].attempt + 1
    BY <1>0, <1>1 DEF Fetch, CronJobs
  <2>3. Later(job[j], x)
    BY <1>0, <2>1, <2>2
  <2> QED
    BY <2>2, <2>3, OneJobGoes
<1>2. CASE Complete(j)
  <2> DEFINE x == [job[j] EXCEPT !.state = "completed", !.at = "idle"]
  <2>1. job[j].at = "ok" /\ job[j].state = "running"
    BY <1>0, <1>2 DEF Complete, JobInv
  <2>2. /\ job' = [job EXCEPT ![j] = x] /\ x.state = "completed" /\ x.at = "idle"
        /\ x.attempt = job[j].attempt
    BY <1>0, <1>2 DEF Complete, CronJobs
  <2>3. Later(job[j], x)
    BY <1>0, <2>1, <2>2
  <2> QED
    BY <2>2, <2>3, OneJobGoes
<1>3. CASE Errored(j) \/ Rescue(j)
  <2>1. job[j].state = "running" /\ AfterFailure(j) \in {"retryable", "discarded"}
    BY <1>0, <1>3 DEF Errored, Rescue, JobInv, AfterFailure
  <2>2. ASSUME NEW x, job' = [job EXCEPT ![j] = x], x.state = AfterFailure(j),
               x.at = "idle", x.attempt = job[j].attempt
        PROVE  \A i \in Jobs : job'[i] # job[i] => Later(job[i], job'[i])
    <3>1. Later(job[j], x)
      BY <1>0, <2>1, <2>2
    <3> QED
      BY <2>2, <3>1, OneJobGoes
  <2>3. CASE Errored(j)
    <3> DEFINE x == [job[j] EXCEPT !.state = AfterFailure(j), !.at = "idle"]
    <3>1. /\ job' = [job EXCEPT ![j] = x] /\ x.state = AfterFailure(j) /\ x.at = "idle"
          /\ x.attempt = job[j].attempt
      BY <1>0, <2>3 DEF Errored, CronJobs
    <3> QED
      BY <2>2, <3>1
  <2>4. CASE Rescue(j)
    <3> DEFINE x == [job[j] EXCEPT !.state = AfterFailure(j)]
    <3>1. /\ job' = [job EXCEPT ![j] = x] /\ x.state = AfterFailure(j) /\ x.at = "idle"
          /\ x.attempt = job[j].attempt
      BY <1>0, <2>4 DEF Rescue, CronJobs
    <3> QED
      BY <2>2, <3>1
  <2> QED
    BY <1>3, <2>3, <2>4
<1>4. CASE WorkerCrash(j)
  <2> DEFINE x == [job[j] EXCEPT !.at = "idle", !.lost = @ + 1]
  <2>1. job[j].at # "idle" /\ job[j].state = "running"
    BY <1>0, <1>4 DEF WorkerCrash, JobInv
  <2>2. /\ job' = [job EXCEPT ![j] = x] /\ x.state = job[j].state /\ x.at = "idle"
        /\ x.attempt = job[j].attempt
    BY <1>0, <1>4 DEF WorkerCrash, CronJobs
  <2>3. Later(job[j], x)
    BY <1>0, <2>1, <2>2, PlaceStages DEF CronJobs
  <2> QED
    BY <2>2, <2>3, OneJobGoes
<1>5. CASE Promote(j)
  <2> DEFINE s == IF \E i \in Jobs : Counted(i) THEN "discarded" ELSE "waiting"
             x == [job[j] EXCEPT !.state = s]
  <2>1. /\ job[j].at = "idle" /\ job[j].state = "retryable"
        /\ s \in {"discarded", "waiting"} /\ job' = [job EXCEPT ![j] = x]
    BY <1>0, <1>5 DEF Promote, JobInv
  <2> HIDE DEF s
  <2>2. x.state = s /\ x.at = "idle" /\ x.attempt = job[j].attempt
    BY <1>0, <2>1 DEF CronJobs
  <2>3. Later(job[j], x)
    BY <1>0, <2>1, <2>2
  <2> QED
    BY <2>1, <2>3, OneJobGoes
<1> QED
  BY <1>1, <1>2, <1>3, <1>4, <1>5

LEMMA WorkGoes ==
  ASSUME IInv, NEW j \in Jobs, Work(j)
  PROVE  \A i \in Jobs : job'[i] # job[i] => Later(job[i], job'[i])
<1>0. /\ JobInv(job[j]) /\ job[j] \in CronJobs
      /\ job[j].at # "idle" /\ job[j].state = "running" /\ Counted(j)
  BY DEF IInv, JobInv, Work, Check, Prepare, Enqueue, Reschedule, Counted
<1>1. ASSUME NEW place \in Places \ {"idle"}, Go(j, place),
             StageOf[job[j].at] < StageOf[place]
      PROVE  \A i \in Jobs : job'[i] # job[i] => Later(job[i], job'[i])
  <2> DEFINE x == [job[j] EXCEPT !.at = place]
  <2>1. x \in CronJobs /\ x.state = "running" /\ x.attempt = job[j].attempt /\ x.at = place
    BY <1>0, <1>1 DEF CronJobs
  <2>2. Later(job[j], x)
    BY <1>0, <1>1, <2>1, GoIsLater
  <2> QED
    BY <1>1, <2>2, OneJobGoes DEF Go
<1>2. CASE Check(j)
  <2>1. /\ StageOf[job[j].at] = 2
        /\ \/ Go(j, "prepare") \/ Go(j, "ok")
           \/ job' = [job EXCEPT ![j].at = "ok", ![j].misread = TRUE]
    BY <1>2, StageValues DEF Check
  <2>2. CASE Go(j, "prepare") \/ Go(j, "ok")
    BY <1>1, <2>1, <2>2, StageValues DEF Places
  <2>3. CASE job' = [job EXCEPT ![j].at = "ok", ![j].misread = TRUE]
    <3> DEFINE x == [job[j] EXCEPT !.at = "ok", !.misread = TRUE]
    <3>1. /\ x \in CronJobs /\ x.state = "running" /\ x.attempt = job[j].attempt
          /\ x.at = "ok" /\ "ok" \in Places \ {"idle"}
      BY <1>0 DEF CronJobs, Places
    <3>2. job' = [job EXCEPT ![j] = x]
      BY <2>3
    <3> HIDE DEF x
    <3>3. Later(job[j], x)
      BY <1>0, <2>1, <3>1, StageValues, GoIsLater
    <3> QED
      BY <3>2, <3>3, OneJobGoes
  <2> QED
    BY <2>1, <2>2, <2>3
<1>3. CASE Prepare(j)
  <2>1. StageOf[job[j].at] = 3 /\ (Go(j, "enqueue") \/ Go(j, "err"))
    BY <1>3, StageValues DEF Prepare
  <2> QED
    BY <1>1, <2>1, StageValues DEF Places
<1>4. CASE Enqueue(j)
  <2>1. /\ StageOf[job[j].at] = 4
        /\ \/ Go(j, "err")
           \/ job' = [job EXCEPT ![j].at = "reschedule", ![j].fired = @ + 1]
    BY <1>4, StageValues DEF Enqueue
  <2>2. CASE Go(j, "err")
    <3>1. "err" \in Places \ {"idle"} /\ StageOf["err"] = 6
      BY StageValues DEF Places
    <3> QED
      BY <1>1, <2>1, <2>2, <3>1
  <2>3. CASE job' = [job EXCEPT ![j].at = "reschedule", ![j].fired = @ + 1]
    <3> DEFINE x == [job[j] EXCEPT !.at = "reschedule", !.fired = @ + 1]
    <3>1. x.state = "running" /\ x.attempt = job[j].attempt /\ x.at = "reschedule"
      BY <1>0 DEF CronJobs
    <3>2. x \in CronJobs /\ "reschedule" \in Places \ {"idle"}
      <4>1. job[j].fired + 1 \in Nat
        BY <1>0 DEF CronJobs
      <4> QED
        BY <1>0, <4>1 DEF CronJobs, Places
    <3>3. job' = [job EXCEPT ![j] = x]
      BY <2>3
    <3> HIDE DEF x
    <3>4. Later(job[j], x)
      BY <1>0, <2>1, <3>1, <3>2, StageValues, GoIsLater
    <3> QED
      BY <3>3, <3>4, OneJobGoes
  <2> QED
    BY <2>1, <2>2, <2>3
<1>5. CASE Reschedule(j)
  <2>1. Scheduled = {job}
    BY <1>0 DEF Scheduled, Inserted
  <2>2. Go(j, "ok") /\ StageOf[job[j].at] = 5
    BY <1>5, <2>1, StageValues DEF Reschedule, Go
  <2>3. "ok" \in Places \ {"idle"} /\ StageOf["ok"] = 6
    BY StageValues DEF Places
  <2> QED
    BY <1>1, <2>2, <2>3
<1> QED
  BY <1>2, <1>3, <1>4, <1>5 DEF Work

\* Every job comes from a publish, and goes through at most MaxAttempts deliveries,
\* each of them once: fires prolong no chain, for every number of jobs, publishers
\* and faults.
THEOREM JobsComeFromPublishes == Spec => OnlyPublishesSchedule
<1> DEFINE Made(j) ==
             /\ j \in Free /\ job'[j].state = "waiting"
             /\ \E p \in Publishers : pub[p] = "published" /\ pub'[p] = "idle"
           Goes(j) ==
             job'[j] \notin {job[j], [job[j] EXCEPT !.steady = FALSE]} =>
                Later(job[j], job'[j]) \/ Made(j)
<1>1. ASSUME IInv, NEW p \in Publishers, PublishCron(p), NEW j \in Jobs PROVE Goes(j)
  <2>1. CASE job' = job
    BY <2>1
  <2>2. CASE job' # job
    <3> DEFINE fresh == [NoJob EXCEPT !.state = "waiting", !.steady = active]
    <3>1. PICK i \in Free : job' = [job EXCEPT ![i] = fresh]
      BY <1>1, <2>2 DEF PublishCron, Scheduled, Inserted
    <3>2. i \in Jobs /\ fresh.state = "waiting" /\ pub[p] = "published" /\ pub'[p] = "idle"
      BY <1>1, <3>1 DEF Free, NoJob, PublishCron, IInv
    <3> HIDE DEF fresh
    <3>3. job'[i] = fresh /\ (j # i => job'[j] = job[j])
      BY <1>1, <3>1, <3>2 DEF IInv
    <3> QED
      BY <3>1, <3>2, <3>3
  <2> QED
    BY <2>1, <2>2
<1>2. ASSUME IInv, Deactivate, NEW j \in Jobs PROVE Goes(j)
  BY <1>2 DEF Deactivate
<1>3. ASSUME IInv, NEW i \in Jobs, NEW j \in Jobs,
             Fetch(i) \/ Complete(i) \/ Errored(i) \/ Rescue(i) \/ Promote(i)
               \/ WorkerCrash(i) \/ Work(i)
      PROVE  Goes(j)
  BY <1>3, RiverGoes, WorkGoes
<1>4. ASSUME job' = job, NEW j \in Jobs PROVE Goes(j)
  BY <1>4
<1>5. ASSUME IInv, [Next]_vars, NEW j \in Jobs PROVE Goes(j)
  <2> HIDE DEF Goes
  <2> QED
    BY <1>1, <1>2, <1>3, <1>4, <1>5 DEF Next, ServerCrash, PublishTx, vars
<1>6. IInv /\ [Next]_vars =>
        [\A j \in Jobs :
           job'[j] \notin {job[j], [job[j] EXCEPT !.steady = FALSE]} =>
              \/ Later(job[j], job'[j])
              \/ /\ j \in Free /\ job'[j].state = "waiting"
                 /\ \E p \in Publishers : pub[p] = "published" /\ pub'[p] = "idle"]_vars
  BY <1>5
<1> QED
  BY <1>6, CronInvariance, PTL DEF Spec, OnlyPublishesSchedule
=============================================================================
