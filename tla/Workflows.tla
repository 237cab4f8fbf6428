----------------------------- MODULE Workflows -----------------------------
(***************************************************************************)
(* The requests on one workflow: create, publish, deactivate, delete, and   *)
(* those that start an execution, by API, by tool call and by webhook       *)
(* (internal/api/handlers, internal/mcp, internal/workflows, and            *)
(* PrepareExecution of internal/executions).                                *)
(*                                                                          *)
(* A request is several statements, and PostgreSQL's row locks decide how   *)
(* two of them meet: the publish transaction locks the version and then the *)
(* workflow, a delete locks the workflow and then, by cascade, its version. *)
(* Left out: requests of other workspaces, which find no row; reads, and    *)
(* Update, which writes the name and the description only; the status each  *)
(* request is answered with.  What happens to an execution after its row    *)
(* was inserted is in Executions, and what a cron trigger becomes after a    *)
(* publish in CronChain.                                                    *)
(***************************************************************************)
EXTENDS Integers, FiniteSets

CONSTANTS
    Callers,     \* concurrent requests
    Secrets,     \* webhook secrets that may be drawn
    NoSecret,    \* webhook_secret is NULL
    Definitions, \* what Create may be given: members of Kinds
    MaxExecs,    \* bound on the executions of the workflow
    Faults       \* which of "crash", "db" may happen

\* A definition is told apart by its trigger node, or by not being a DAG.
Kinds == {"webhook", "cron", "plain", "invalid"}

ASSUME WorkflowsAssumption ==
    /\ IsFiniteSet(Callers)
    /\ NoSecret \notin Secrets
    /\ Definitions \subseteq Kinds
    /\ MaxExecs \in Nat
    /\ Faults \subseteq {"crash", "db"}

VARIABLES
    wf,        \* the row of workflows and its only version
    execs,     \* the number of its executions
    call,      \* the requests in progress
    stored,    \* history: secrets ever stored
    good       \* history: secrets answered by a publish that no other overlapped

vars == <<wf, execs, call, stored, good>>

-----------------------------------------------------------------------------
(* The state                                                               *)

Rows == [state     : {"absent", "live", "deleted"},
         def       : Kinds,
         active    : BOOLEAN,
         published : BOOLEAN,                   \* workflow_versions.published
         secret    : Secrets \union {NoSecret},
         unarmed   : BOOLEAN]    \* history: a publish failed since the last Activate

NoRow == [state |-> "absent", def |-> "plain", active |-> FALSE, published |-> FALSE,
          secret |-> NoSecret, unarmed |-> FALSE]

\* Service.Publish and Repository.Publish
PublishPlaces == {"get", "versions", "tx", "activate", "trigger", "answer"}

\* Trigger and PrepareExecution
RunPlaces == {"auth", "flag", "version", "insert"}

\* DELETE, before and after it has the row lock
DeletePlaces == {"lock", "cascade"}

Calls == [at    : {"idle"} \union PublishPlaces \union RunPlaces \union DeletePlaces,
          seen  : Secrets \union {NoSecret},    \* webhook_secret, as last read
          alone : BOOLEAN,      \* history: no other publish overlapped this one
          open  : BOOLEAN]      \* history: the workflow was active meanwhile

NoCall == [at |-> "idle", seen |-> NoSecret,
           alone |-> FALSE, open |-> FALSE]

Init ==
    /\ wf = NoRow
    /\ execs = 0
    /\ call = [c \in Callers |-> NoCall]
    /\ stored = {} /\ good = {}

\* GetWorkflow finds the row.
Exists == wf.state = "live"

\* SetWorkflowActive
ActiveSet(row, active) == [row EXCEPT !.active = active]

Idle(c) == call[c].at = "idle" /\ wf.state # "absent"

At(c, place) == call[c].at = place

Publishing(c) == call[c].at \in PublishPlaces

\* Who holds the lock on the version, and who the one on the workflow.
VersionLocked == \E c \in Callers : At(c, "activate")
RowLocked     == \E c \in Callers : At(c, "cascade")

MayFail == "db" \in Faults

\* The request ends and its caller is answered; which status it gets is left out.
Answer(c) == call' = [call EXCEPT ![c] = NoCall]

Go(c, place) == call' = [call EXCEPT ![c].at = place]

\* Any statement of a request may fail: its transaction is rolled back and the
\* request answered with an error.
Fails(c) ==
    /\ MayFail
    /\ call[c].at \notin {"idle", "trigger", "answer"}
    /\ Answer(c)
    /\ UNCHANGED <<wf, execs, stored, good>>

\* Every request in progress ends unanswered and its transaction is rolled back.
ServerCrash ==
    /\ "crash" \in Faults
    /\ \E c \in Callers : call[c].at # "idle"
    /\ call' = [c \in Callers |-> NoCall]
    /\ wf' = [wf EXCEPT !.unarmed = @ \/ \E c \in Callers : At(c, "trigger")]
    /\ UNCHANGED <<execs, stored, good>>

-----------------------------------------------------------------------------
(* Create                                                                  *)

\* CreateWithVersion, one transaction: inactive, with one unpublished version.
CreatedRow(def) == [NoRow EXCEPT !.state = "live", !.def = def]

Create(def) ==
    /\ wf.state = "absent"
    /\ wf' = CreatedRow(def)
    /\ UNCHANGED <<execs, call, stored, good>>

-----------------------------------------------------------------------------
(* Publish                                                                 *)

BeginPublish(c) ==
    /\ Idle(c)
    /\ call' = [x \in Callers |->
                  IF x = c THEN [NoCall EXCEPT !.at = "get",
                                    !.alone = \A y \in Callers : ~Publishing(y)]
                  ELSE IF Publishing(x) THEN [call[x] EXCEPT !.alone = FALSE]
                  ELSE call[x]]
    /\ UNCHANGED <<wf, execs, stored, good>>

\* GetByID
PublishGet(c) ==
    /\ At(c, "get")
    /\ IF Exists THEN Go(c, "versions") ELSE Answer(c)
    /\ UNCHANGED <<wf, execs, stored, good>>

\* ParseDefinition and TopologicalSort
Sortable == wf.def # "invalid"

\* ListVersions, which reads the workflow again before the versions.
PublishVersions(c) ==
    /\ At(c, "versions")
    /\ IF Exists /\ Sortable THEN Go(c, "tx") ELSE Answer(c)
    /\ UNCHANGED <<wf, execs, stored, good>>

\* The transaction up to PublishWorkflowVersion, which waits for the version.
PublishTx(c) ==
    /\ At(c, "tx")
    /\ ~VersionLocked
    /\ IF Exists THEN Go(c, "activate") ELSE Answer(c)
    /\ UNCHANGED <<wf, execs, stored, good>>

\* PublishWorkflowVersion
VersionPublished(row) == [row EXCEPT !.published = TRUE]

\* SetWorkflowActive, which waits for the workflow, and the commit.  Its RETURNING
\* clause is the snapshot the rest of Publish works on.
Activate(c) ==
    /\ At(c, "activate")
    /\ ~RowLocked
    /\ wf' = [ActiveSet(VersionPublished(wf), TRUE) EXCEPT !.unarmed = FALSE]
    /\ call' = [x \in Callers |->
                  IF x = c
                  THEN [call[c] EXCEPT !.at = "trigger", !.seen = wf.secret]
                  ELSE [call[x] EXCEPT !.open = TRUE]]
    /\ UNCHANGED <<execs, stored, good>>

\* Mutant: every publish draws a secret.
NeedsSecretAlways(c) == wf.def = "webhook"

\* Mutant: the name of the other trigger is tested.
NeedsSecretOfCron(c) == wf.def = "cron" /\ call[c].seen = NoSecret

\* "Generate a fresh webhook secret if not already set": on the snapshot.
NeedsSecret(c) == wf.def = "webhook" /\ call[c].seen = NoSecret

\* generateSecret: one that was never drawn before.
FreshSecrets == Secrets \ stored

\* SetWebhookSecret: its condition names the workflow, not the secret it replaces.
SetSecret(c) ==
    /\ At(c, "trigger")
    /\ NeedsSecret(c)
    /\ Exists /\ ~RowLocked
    /\ \E s \in FreshSecrets :
        /\ wf' = [wf EXCEPT !.secret = s]
        /\ stored' = stored \union {s}
        /\ call' = [call EXCEPT ![c].at = "answer", ![c].seen = s]
    /\ UNCHANGED <<execs, good>>

\* The cron case, which ends the same way for the request whatever comes of it: the
\* schedule may be missing, empty or not a string, or there is no scheduler, and
\* nothing is scheduled without an error; or ScheduleCron, which looks at no row of
\* the workflow, answers an error, which is logged, or a job.
Schedule(c) ==
    /\ At(c, "trigger")
    /\ wf.def = "cron"
    /\ Go(c, "answer")
    /\ UNCHANGED <<wf, execs, stored, good>>

\* Mutant: the row is taken to exist still.
ArmInsists(c) ==
    /\ At(c, "trigger")
    /\ NeedsSecret(c) /\ Exists /\ MayFail
    /\ wf' = [wf EXCEPT !.unarmed = TRUE]
    /\ Go(c, "answer")
    /\ UNCHANGED <<execs, stored, good>>

\* No secret is drawn or stored: the error is logged, and Publish goes on with what
\* it has.
ArmFails(c) ==
    /\ At(c, "trigger")
    /\ NeedsSecret(c) /\ (~Exists \/ MayFail)
    /\ wf' = [wf EXCEPT !.unarmed = TRUE]
    /\ Go(c, "answer")
    /\ UNCHANGED <<execs, stored, good>>

NothingToArm(c) ==
    /\ At(c, "trigger")
    /\ ~NeedsSecret(c) /\ wf.def # "cron"
    /\ Go(c, "answer")
    /\ UNCHANGED <<wf, execs, stored, good>>

\* The response, with the secret in its webhook URL.
PublishAnswer(c) ==
    /\ At(c, "answer")
    /\ Answer(c)
    /\ good' = IF call[c].alone /\ call[c].seen # NoSecret
               THEN good \union {call[c].seen} ELSE good
    /\ UNCHANGED <<wf, execs, stored>>

-----------------------------------------------------------------------------
(* Deactivate and Delete                                                   *)

Deactivate(c) ==
    /\ Idle(c)
    /\ ~RowLocked
    /\ wf' = IF Exists THEN ActiveSet(wf, FALSE) ELSE wf
    /\ UNCHANGED <<execs, call, stored, good>>

BeginDelete(c) ==
    /\ Idle(c)
    /\ call' = [call EXCEPT ![c] = [NoCall EXCEPT !.at = "lock"]]
    /\ UNCHANGED <<wf, execs, stored, good>>

\* The statement finds the row and locks it, or deletes nothing, which is no error.
DeleteLock(c) ==
    /\ At(c, "lock")
    /\ ~RowLocked
    /\ IF Exists THEN Go(c, "cascade") ELSE Answer(c)
    /\ UNCHANGED <<wf, execs, stored, good>>

\* The version goes with the workflow; an execution, whose foreign keys do not
\* cascade, keeps both.
DeleteCascade(c) ==
    /\ At(c, "cascade")
    /\ ~VersionLocked
    /\ Answer(c)
    /\ wf' = IF execs = 0 THEN [wf EXCEPT !.state = "deleted"] ELSE wf
    /\ UNCHANGED <<execs, stored, good>>

\* A publish holds the version and waits for the workflow, a delete the other way
\* round: PostgreSQL aborts one of the two.
DeadlockVictim(c) ==
    /\ \/ At(c, "activate") /\ RowLocked
       \/ At(c, "cascade") /\ VersionLocked
    /\ Answer(c)
    /\ UNCHANGED <<wf, execs, stored, good>>

-----------------------------------------------------------------------------
(* Executions: by API, by tool call, or by webhook with a secret.          *)

CallsOfRun == {c \in Callers : call[c].at \in RunPlaces}

BeginRun(c, place, secret) ==
    /\ Idle(c)
    /\ execs + Cardinality(CallsOfRun) < MaxExecs
    /\ call' = [call EXCEPT ![c] =
                  [NoCall EXCEPT !.at = place, !.seen = secret, !.open = wf.active]]
    /\ UNCHANGED <<wf, execs, stored, good>>

Execute(c) == BeginRun(c, "flag", NoSecret)

\* execute_workflow of the MCP server
ExecuteTool(c) == BeginRun(c, "flag", NoSecret)

\* A webhook without a secret is refused before anything is read.
Trigger(c, secret) == BeginRun(c, "auth", secret)

\* GetWorkflowByWebhookSecret
SecretMatches(s) == Exists /\ wf.active /\ wf.secret = s

Authenticate(c) ==
    /\ At(c, "auth")
    /\ IF SecretMatches(call[c].seen)
       THEN Go(c, "flag") ELSE Answer(c)
    /\ UNCHANGED <<wf, execs, stored, good>>

\* Mutant: the flag is not looked at.
ReadFlagNot(c) ==
    /\ At(c, "flag")
    /\ IF Exists THEN Go(c, "version") ELSE Answer(c)
    /\ UNCHANGED <<wf, execs, stored, good>>

ReadFlag(c) ==
    /\ At(c, "flag")
    /\ IF Exists /\ wf.active THEN Go(c, "version") ELSE Answer(c)
    /\ UNCHANGED <<wf, execs, stored, good>>

\* GetLatestPublishedVersion finds one.
HasPublishedVersion == Exists /\ wf.published

ReadVersion(c) ==
    /\ At(c, "version")
    /\ IF HasPublishedVersion THEN Go(c, "insert") ELSE Answer(c)
    /\ UNCHANGED <<wf, execs, stored, good>>

\* Mutant: no foreign key.
InsertAnyway(c) ==
    /\ At(c, "insert")
    /\ execs' = execs + 1 /\ Answer(c)
    /\ UNCHANGED <<wf, stored, good>>

\* Mutant: the request is tried again after a success.
InsertAgain(c) ==
    /\ At(c, "insert")
    /\ ~RowLocked
    /\ IF Exists THEN execs' = execs + 1 /\ (Go(c, "insert") \/ Answer(c))
       ELSE Answer(c) /\ UNCHANGED execs
    /\ UNCHANGED <<wf, stored, good>>

\* The insert and the commit.  The foreign key waits for a delete, and refuses the
\* row when the workflow is gone.
InsertExecution(c) ==
    /\ At(c, "insert")
    /\ ~RowLocked
    /\ IF Exists THEN execs' = execs + 1 /\ Answer(c)
       ELSE Answer(c) /\ UNCHANGED execs
    /\ UNCHANGED <<wf, stored, good>>

-----------------------------------------------------------------------------

PublishStep(c) ==
    \/ PublishGet(c) \/ PublishVersions(c) \/ PublishTx(c) \/ Activate(c)
    \/ SetSecret(c) \/ Schedule(c) \/ ArmFails(c) \/ NothingToArm(c)
    \/ PublishAnswer(c)

DeleteStep(c) == DeleteLock(c) \/ DeleteCascade(c)

RunStep(c) ==
    Authenticate(c) \/ ReadFlag(c) \/ ReadVersion(c) \/ InsertExecution(c)

CallStep(c) ==
    PublishStep(c) \/ DeleteStep(c) \/ RunStep(c) \/ DeadlockVictim(c)

Begin(c) ==
    \/ Deactivate(c) \/ BeginPublish(c) \/ BeginDelete(c)
    \/ Execute(c) \/ ExecuteTool(c)
    \/ \E s \in Secrets : Trigger(c, s)

Next ==
    \/ \E def \in Definitions : Create(def)
    \/ \E c \in Callers : Begin(c) \/ CallStep(c) \/ Fails(c)
    \/ ServerCrash

Spec == Init /\ [][Next]_vars

\* A handler that was called runs on, PostgreSQL grants a row lock to its waiters in
\* turn (hence strong fairness) and resolves deadlocks.
FairSpec == Spec /\ \A c \in Callers : SF_vars(CallStep(c))

-----------------------------------------------------------------------------
(* Properties                                                              *)

\* Every variable has its type.
TypeOK ==
    /\ wf \in Rows
    /\ execs \in 0 .. MaxExecs
    /\ call \in [Callers -> Calls]
    /\ stored \subseteq Secrets /\ good \subseteq Secrets

\* A secret that a publish answered while no other publish of the workflow ran
\* authenticates for as long as the workflow exists, whatever publishes, failures
\* and crashes come later ("if not already set" in Service.Publish, which is
\* decided on a snapshot that may be stale by the time of the UPDATE).
AnsweredSecretHolds ==
    Exists => good \subseteq {wf.secret}

\* Once a webhook has a secret and every publish that saw none is over, the secret
\* never changes again: only overlapping first publishes can replace one another's.
SecretSettles ==
    [][(/\ wf.secret # NoSecret
        /\ \A c \in Callers : At(c, "trigger") => call[c].seen # NoSecret)
       => wf'.secret = wf.secret]_vars

\* A deleted workflow leaves no execution behind and gets none afterwards, although
\* a request may have found it active and published before the delete (Delete
\* against PrepareExecution, whose reads take no lock).
DeletedLeavesNothing ==
    wf.state # "live" => execs = 0

\* An execution is only created by a request during which the workflow was active:
\* one that arrives after a deactivation was answered creates none, by API or by
\* webhook (the flag PrepareExecution reads may be stale when it inserts, but
\* never older than the request).
RunsSawActive ==
    [][execs' # execs => \E c \in Callers : At(c, "insert") /\ call[c].open]_vars

\* An active workflow exists and its version is published, in every state another
\* request can see: ErrNoPublishedVersion is never answered but to a request that
\* a delete overtook (Publish's transaction).
ActiveIsRunnable ==
    wf.active => wf.published

\* An active webhook has a secret, or a publish is about to give it one, unless a
\* publish failed or died after its transaction (the part of Service.Publish whose
\* errors are logged) and the workflow was not published again since: publishing
\* again repairs it, in whatever order two publishes meet.
ActiveWebhookHasSecret ==
    Exists /\ wf.active /\ wf.def = "webhook" /\ ~wf.unarmed =>
        \/ wf.secret # NoSecret
        \/ \E c \in Callers : At(c, "trigger")

\* Every request is answered, whatever locks it meets.
EveryCallEnds ==
    \A c \in Callers : call[c].at # "idle" ~> call[c].at = "idle"

\* How many statements a request has before it at most, its answer included.
Left(c) ==
    [idle |-> 0,
     get |-> 6, versions |-> 5, tx |-> 4, activate |-> 3, trigger |-> 2, answer |-> 1,
     auth |-> 4, flag |-> 3, version |-> 2, insert |-> 1,
     lock |-> 2, cascade |-> 1][call[c].at]

\* What a request does, a conflict of locks or a failure included, brings it nearer
\* to its end, and what another request does never takes it back: one that is never
\* answered is one that is never served, not one that runs in circles (the safety
\* half of EveryCallEnds).
RequestsGoForward ==
    [][\A c \in Callers :
         /\ call[c].at # "idle" => Left(c)' <= Left(c)
         /\ CallStep(c) \/ Fails(c) => Left(c)' < Left(c)]_vars

\* No two requests hold one lock: what PublishTx waits for is the one publish past it,
\* and what DeleteLock waits for is the one delete past it.
LocksAreExclusive ==
    \A c, d \in Callers :
        call[c].at = call[d].at /\ call[c].at \in {"activate", "cascade"} => c = d
=============================================================================
