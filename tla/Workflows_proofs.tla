-------------------------- MODULE Workflows_proofs --------------------------
(***************************************************************************)
(* Proofs about Workflows, for any number of concurrent requests, of        *)
(* secrets and of executions, with or without failures and crashes.         *)
(*                                                                          *)
(* The inductive invariant says what a request in progress has left open:   *)
(* a publish that no other overlapped is the only one in progress, and the  *)
(* secret it holds is the one that is stored.                               *)
(***************************************************************************)
EXTENDS Workflows, FiniteSetTheorems, TLAPS

Typed ==
    /\ wf \in Rows
    /\ execs \in Nat
    /\ call \in [Callers -> Calls]
    /\ stored \subseteq Secrets /\ good \subseteq Secrets

\* Nothing happens before the workflow is created.
Fresh ==
    wf.state = "absent" =>
        /\ wf = NoRow /\ execs = 0 /\ good = {}
        /\ \A c \in Callers : call[c].at = "idle"

AloneIsAlone ==
    \A c \in Callers : call[c].alone =>
        Publishing(c) /\ \A d \in Callers \ {c} : ~Publishing(d)

\* A publish that holds the lock on the version holds off a delete.
LockHolds == \A c \in Callers : At(c, "activate") => Exists

\* A secret that a publish has read or set was not cleared since, and is the one
\* that is stored if no other publish overlapped.
SeenIsStored ==
    \A c \in Callers :
        /\ At(c, "trigger") /\ call[c].seen # NoSecret => wf.secret # NoSecret
        /\ /\ call[c].at \in {"trigger", "answer"} /\ call[c].alone
           /\ Exists /\ call[c].seen # NoSecret
           => wf.secret = call[c].seen

\* Once a secret was answered by a publish that was alone, no publish in progress
\* is about to replace it.
GoodIsSettled ==
    /\ AnsweredSecretHolds
    /\ good # {} => \A c \in Callers : At(c, "trigger") => call[c].seen # NoSecret

RunsAreOpen ==
    \A c \in CallsOfRun :
        /\ wf.active => call[c].open
        /\ call[c].at \in {"version", "insert"} => call[c].open

IInv ==
    /\ Typed /\ Fresh /\ AloneIsAlone /\ LockHolds /\ SeenIsStored /\ GoodIsSettled
    /\ RunsAreOpen /\ ActiveIsRunnable /\ ActiveWebhookHasSecret /\ DeletedLeavesNothing

Parts == <<wf, execs, stored, good>>

-----------------------------------------------------------------------------
(* The initial state and the steps that concern one request only           *)

LEMMA NoCallType == NoCall \in Calls /\ NoRow \in Rows
BY DEF NoCall, Calls, NoRow, Rows, Kinds

LEMMA InitInv == Init => IInv
<1> SUFFICES ASSUME Init PROVE IInv
  OBVIOUS
<1>1. Typed
  BY NoCallType DEF Init, Typed
<1>2. \A c \in Callers : call[c] = NoCall
  BY DEF Init
<1>3. wf = NoRow /\ execs = 0 /\ good = {}
  BY DEF Init
<1> QED
  BY <1>1, <1>2, <1>3
     DEF IInv, Fresh, AloneIsAlone, LockHolds, SeenIsStored, GoodIsSettled, RunsAreOpen,
         ActiveIsRunnable, ActiveWebhookHasSecret, DeletedLeavesNothing, AnsweredSecretHolds,
         NoCall, NoRow, At, Exists, CallsOfRun, RunPlaces

\* A request that ends, other than by arming a trigger, leaves nothing open.
LEMMA AnswerKeeps ==
    ASSUME IInv, NEW c \in Callers, ~At(c, "trigger"), Answer(c), UNCHANGED Parts
    PROVE  IInv'
<1>1. call' = [call EXCEPT ![c] = NoCall] /\ call'[c] = NoCall
  BY DEF Answer, IInv, Typed
<1>2. UNCHANGED <<wf, execs, stored, good>>
  BY DEF Parts
<1>3. \A d \in Callers \ {c} : call'[d] = call[d]
  BY <1>1 DEF IInv, Typed
<1>4. Typed'
  BY <1>1, <1>2, NoCallType DEF IInv, Typed
<1>5. Fresh' /\ AloneIsAlone' /\ LockHolds' /\ SeenIsStored'
  BY <1>1, <1>2, <1>3
     DEF IInv, Fresh, AloneIsAlone, LockHolds, SeenIsStored, Publishing, PublishPlaces, At,
         Exists, NoCall
<1>6. GoodIsSettled' /\ RunsAreOpen'
  BY <1>1, <1>2, <1>3
     DEF IInv, GoodIsSettled, AnsweredSecretHolds, RunsAreOpen, CallsOfRun, RunPlaces, At,
         Exists, NoCall
<1>7. ActiveWebhookHasSecret'
  BY <1>1, <1>2, <1>3 DEF IInv, ActiveWebhookHasSecret, At, Exists
<1> QED
  BY <1>2, <1>4, <1>5, <1>6, <1>7 DEF IInv, ActiveIsRunnable, DeletedLeavesNothing

\* A request that goes on to its next statement.
LEMMA GoKeeps ==
    ASSUME IInv, NEW c \in Callers, NEW place \in PublishPlaces \union RunPlaces \union DeletePlaces,
           Go(c, place), UNCHANGED Parts, wf.state # "absent",
           ~At(c, "trigger"), place \notin {"trigger", "answer"},
           place = "activate" => Exists,
           Publishing(c) => place \in PublishPlaces,
           place \in RunPlaces => c \in CallsOfRun,
           place \in {"version", "insert"} => call[c].open,
           place \in PublishPlaces => Publishing(c)
    PROVE  IInv'
<1>1. /\ call' = [call EXCEPT ![c] = [call[c] EXCEPT !.at = place]]
      /\ call'[c] = [call[c] EXCEPT !.at = place] /\ call[c] \in Calls
  BY DEF Go, IInv, Typed
<1>2. UNCHANGED <<wf, execs, stored, good>>
  BY DEF Parts
<1>3. \A d \in Callers \ {c} : call'[d] = call[d]
  BY <1>1 DEF IInv, Typed
<1>4. /\ call'[c] \in Calls /\ call'[c].at = place /\ call'[c].seen = call[c].seen
      /\ call'[c].alone = call[c].alone /\ call'[c].open = call[c].open
  BY <1>1 DEF Calls
<1>5. Typed'
  BY <1>1, <1>2, <1>4 DEF IInv, Typed
<1>6. Fresh' /\ AloneIsAlone'
  BY <1>2, <1>3, <1>4 DEF IInv, Fresh, AloneIsAlone, Publishing
<1>7. LockHolds' /\ SeenIsStored'
  BY <1>2, <1>3, <1>4 DEF IInv, LockHolds, SeenIsStored, At, Exists
<1>8. GoodIsSettled'
  BY <1>2, <1>3, <1>4 DEF IInv, GoodIsSettled, AnsweredSecretHolds, At, Exists
<1>9. RunsAreOpen'
  BY <1>2, <1>3, <1>4 DEF IInv, RunsAreOpen, CallsOfRun
<1>10. ActiveWebhookHasSecret'
  BY <1>2, <1>3, <1>4 DEF IInv, ActiveWebhookHasSecret, At, Exists
<1> QED
  BY <1>2, <1>5, <1>6, <1>7, <1>8, <1>9, <1>10 DEF IInv, ActiveIsRunnable, DeletedLeavesNothing

\* The requests that begin, other than a publish.
LEMMA BeginKeeps ==
    ASSUME IInv, NEW c \in Callers, Idle(c), UNCHANGED Parts,
           NEW x \in Calls, call' = [call EXCEPT ![c] = x],
           x.at \in {"lock", "flag", "auth"}, ~x.alone, x.at # "lock" => (wf.active => x.open)
    PROVE  IInv'
<1>1. call'[c] = x /\ \A d \in Callers \ {c} : call'[d] = call[d]
  BY DEF IInv, Typed
<1>2. UNCHANGED <<wf, execs, stored, good>> /\ wf.state # "absent" /\ call[c].at = "idle"
  BY DEF Parts, Idle
<1>3. Typed'
  BY <1>2 DEF IInv, Typed
<1>4. Fresh' /\ AloneIsAlone' /\ LockHolds' /\ SeenIsStored'
  BY <1>1, <1>2
     DEF IInv, Fresh, AloneIsAlone, Publishing, PublishPlaces, LockHolds, SeenIsStored, At,
         Exists
<1>5. GoodIsSettled' /\ ActiveWebhookHasSecret'
  BY <1>1, <1>2
     DEF IInv, GoodIsSettled, AnsweredSecretHolds, ActiveWebhookHasSecret, At, Exists
<1>6. RunsAreOpen'
  BY <1>1, <1>2 DEF IInv, RunsAreOpen, CallsOfRun, RunPlaces
<1> QED
  BY <1>2, <1>3, <1>4, <1>5, <1>6 DEF IInv, ActiveIsRunnable, DeletedLeavesNothing

-----------------------------------------------------------------------------
(* Publish                                                                 *)

LEMMA BeginPublishKeeps ==
    ASSUME IInv, NEW c \in Callers, BeginPublish(c)
    PROVE  IInv'
<1>1. /\ UNCHANGED <<wf, execs, stored, good>> /\ wf.state # "absent" /\ call[c].at = "idle"
      /\ call \in [Callers -> Calls]
  BY DEF BeginPublish, Idle, IInv, Typed
<1>2. /\ call'[c] = [NoCall EXCEPT !.at = "get", !.alone = \A y \in Callers : ~Publishing(y)]
      /\ \A d \in Callers \ {c} :
           call'[d] = IF Publishing(d) THEN [call[d] EXCEPT !.alone = FALSE] ELSE call[d]
      /\ DOMAIN call' = Callers
      /\ call' = [d \in Callers |-> call'[d]]
  BY DEF BeginPublish
<1>3. /\ call'[c] \in Calls /\ call'[c].at = "get"
      /\ call'[c].alone => \A y \in Callers : ~Publishing(y)
  BY <1>2 DEF NoCall, Calls, PublishPlaces
<1>4. ASSUME NEW d \in Callers \ {c}
      PROVE  /\ call'[d] \in Calls /\ call'[d].at = call[d].at
             /\ call'[d].seen = call[d].seen /\ call'[d].open = call[d].open
             /\ call'[d].alone => call[d].alone /\ ~Publishing(d)
  <2>1. call[d] \in Calls
    BY <1>1
  <2>2. CASE ~Publishing(d)
    BY <1>2, <2>1, <2>2
  <2>3. CASE Publishing(d)
    <3>1. call'[d] = [call[d] EXCEPT !.alone = FALSE]
      BY <1>2, <2>3
    <3> QED
      BY <2>1, <3>1 DEF Calls
  <2> QED
    BY <2>2, <2>3
<1>5. Typed'
  BY <1>1, <1>2, <1>3, <1>4 DEF IInv, Typed
<1>6. Fresh' /\ AloneIsAlone'
  BY <1>1, <1>3, <1>4 DEF IInv, Fresh, AloneIsAlone, Publishing, PublishPlaces
<1>7. LockHolds' /\ SeenIsStored'
  BY <1>1, <1>3, <1>4 DEF IInv, LockHolds, SeenIsStored, At, Exists
<1>8. GoodIsSettled' /\ ActiveWebhookHasSecret'
  BY <1>1, <1>3, <1>4
     DEF IInv, GoodIsSettled, AnsweredSecretHolds, ActiveWebhookHasSecret, At, Exists
<1>9. RunsAreOpen'
  BY <1>1, <1>3, <1>4 DEF IInv, RunsAreOpen, CallsOfRun, RunPlaces
<1> QED
  BY <1>1, <1>5, <1>6, <1>7, <1>8, <1>9 DEF IInv, ActiveIsRunnable, DeletedLeavesNothing

LEMMA ActivateKeeps ==
    ASSUME IInv, NEW c \in Callers, Activate(c)
    PROVE  IInv'
<1>1. /\ At(c, "activate") /\ UNCHANGED <<execs, stored, good>>
      /\ call \in [Callers -> Calls] /\ wf \in Rows /\ Exists
  BY DEF Activate, IInv, Typed, LockHolds
<1>2. /\ call'[c] = [call[c] EXCEPT !.at = "trigger", !.seen = wf.secret]
      /\ \A d \in Callers \ {c} : call'[d] = [call[d] EXCEPT !.open = TRUE]
      /\ call' = [d \in Callers |-> call'[d]]
  BY DEF Activate
<1>3. /\ call'[c] \in Calls /\ call'[c].at = "trigger" /\ call'[c].seen = wf.secret
      /\ call'[c].alone = call[c].alone
  <2>1. /\ call[c] \in Calls /\ wf.secret \in Secrets \union {NoSecret}
        /\ call'[c] = [call[c] EXCEPT !.at = "trigger", !.seen = wf.secret]
    BY <1>1, <1>2 DEF Rows
  <2> QED
    BY <2>1 DEF Calls, PublishPlaces
<1>4. ASSUME NEW d \in Callers \ {c}
      PROVE  /\ call'[d] \in Calls /\ call'[d].at = call[d].at /\ call'[d].open
             /\ call'[d].seen = call[d].seen /\ call'[d].alone = call[d].alone
  <2>1. call[d] \in Calls /\ call'[d] = [call[d] EXCEPT !.open = TRUE]
    BY <1>1, <1>2
  <2> QED
    BY <2>1 DEF Calls
<1>5. /\ wf' \in Rows /\ wf'.active /\ wf'.published /\ wf'.state = wf.state
      /\ wf'.secret = wf.secret
  BY <1>1 DEF Activate, ActiveSet, VersionPublished, Rows
<1>6. Typed'
  BY <1>1, <1>2, <1>3, <1>4, <1>5 DEF IInv, Typed
<1>7. Fresh' /\ AloneIsAlone'
  BY <1>1, <1>3, <1>4, <1>5
     DEF IInv, Fresh, AloneIsAlone, Publishing, PublishPlaces, At, Exists
<1>8. LockHolds' /\ SeenIsStored'
  BY <1>1, <1>3, <1>4, <1>5 DEF IInv, LockHolds, SeenIsStored, At, Exists
<1>9. GoodIsSettled'
  <2>1. good # {} => wf.secret # NoSecret
    BY <1>1, WorkflowsAssumption DEF IInv, Typed, GoodIsSettled, AnsweredSecretHolds
  <2> QED
    BY <1>1, <1>3, <1>4, <1>5, <2>1 DEF IInv, GoodIsSettled, AnsweredSecretHolds, At, Exists
<1>10. RunsAreOpen'
  BY <1>1, <1>3, <1>4 DEF IInv, RunsAreOpen, CallsOfRun, RunPlaces
<1>11. ActiveWebhookHasSecret'
  BY <1>3 DEF ActiveWebhookHasSecret, At
<1> QED
  BY <1>1, <1>5, <1>6, <1>7, <1>8, <1>9, <1>10, <1>11
     DEF IInv, ActiveIsRunnable, DeletedLeavesNothing

\* A publish that leaves "trigger" for "answer" with the row and the secret it has.
LEMMA ArmedKeeps ==
    ASSUME IInv, NEW c \in Callers, At(c, "trigger"), Go(c, "answer"),
           UNCHANGED <<execs, stored, good>>,
           wf' \in Rows, wf'.state = wf.state, wf'.def = wf.def, wf'.secret = wf.secret,
           wf'.active = wf.active, wf'.published = wf.published,
           \/ wf'.unarmed
           \/ /\ wf'.unarmed = wf.unarmed
              /\ wf.def = "webhook" => wf.secret # NoSecret
    PROVE  IInv'
<1>1. call[c] \in Calls /\ call'[c] = [call[c] EXCEPT !.at = "answer"]
      /\ call' = [call EXCEPT ![c] = call'[c]]
  BY DEF Go, IInv, Typed
<1>2. \A d \in Callers \ {c} : call'[d] = call[d]
  BY <1>1 DEF IInv, Typed
<1>3. /\ call'[c] \in Calls /\ call'[c].at = "answer" /\ call'[c].seen = call[c].seen
      /\ call'[c].alone = call[c].alone
  BY <1>1 DEF Calls, PublishPlaces
<1>4. wf.state # "absent"
  BY DEF IInv, Fresh, At
<1>5. Typed'
  BY <1>1, <1>3 DEF IInv, Typed
<1>6. Fresh' /\ AloneIsAlone'
  BY <1>2, <1>3, <1>4 DEF IInv, Fresh, AloneIsAlone, Publishing, PublishPlaces, At
<1>7. LockHolds' /\ SeenIsStored'
  BY <1>2, <1>3 DEF IInv, LockHolds, SeenIsStored, At, Exists
<1>8. GoodIsSettled' /\ ActiveWebhookHasSecret'
  BY <1>2, <1>3
     DEF IInv, GoodIsSettled, AnsweredSecretHolds, ActiveWebhookHasSecret, At, Exists
<1>9. RunsAreOpen'
  BY <1>2, <1>3 DEF IInv, RunsAreOpen, CallsOfRun, RunPlaces
<1> QED
  BY <1>5, <1>6, <1>7, <1>8, <1>9 DEF IInv, ActiveIsRunnable, DeletedLeavesNothing

\* What the secret is set over was never answered by a publish that was alone, and
\* no such publish is in progress.
LEMMA SetSecretKeeps ==
    ASSUME IInv, NEW c \in Callers, SetSecret(c)
    PROVE  IInv'
<1>1. PICK s \in Secrets :
        /\ wf' = [wf EXCEPT !.secret = s] /\ stored' = stored \union {s}
        /\ call' = [call EXCEPT ![c].at = "answer", ![c].seen = s]
  BY DEF SetSecret, FreshSecrets
<1>2. /\ At(c, "trigger") /\ call[c].seen = NoSecret /\ wf.def = "webhook" /\ Exists
      /\ UNCHANGED <<execs, good>>
  BY DEF SetSecret, NeedsSecret
<1>3. call[c] \in Calls /\ call'[c] = [call[c] EXCEPT !.at = "answer", !.seen = s]
      /\ \A d \in Callers \ {c} : call'[d] = call[d]
  BY <1>1 DEF IInv, Typed
<1>4. /\ call'[c] \in Calls /\ call'[c].at = "answer" /\ call'[c].seen = s
      /\ call'[c].alone = call[c].alone
  BY <1>3 DEF Calls, PublishPlaces
<1>5. /\ wf' \in Rows /\ wf'.secret = s /\ wf'.state = wf.state /\ wf'.def = wf.def
      /\ wf'.active = wf.active /\ wf'.published = wf.published
  BY <1>1 DEF IInv, Typed, Rows
<1>6. call' \in [Callers -> Calls]
  <2>1. call' = [call EXCEPT ![c] = call'[c]]
    BY <1>1, <1>3 DEF IInv, Typed
  <2> QED
    BY <2>1, <1>4 DEF IInv, Typed
<1>7. s # NoSecret /\ good = {}
  BY <1>2, WorkflowsAssumption DEF IInv, GoodIsSettled
<1>8. \A d \in Callers \ {c} : Publishing(d) => ~call[d].alone
  BY <1>2 DEF IInv, AloneIsAlone, Publishing, PublishPlaces, At
<1>9. Typed' /\ Fresh' /\ AloneIsAlone'
  BY <1>1, <1>2, <1>3, <1>4, <1>5, <1>6
     DEF IInv, Typed, Fresh, AloneIsAlone, Publishing, PublishPlaces, At, Exists
<1>10. LockHolds' /\ SeenIsStored'
  BY <1>3, <1>4, <1>5, <1>7, <1>8
     DEF IInv, LockHolds, SeenIsStored, At, Exists, Publishing, PublishPlaces
<1>11. GoodIsSettled' /\ ActiveWebhookHasSecret'
  BY <1>2, <1>5, <1>7 DEF GoodIsSettled, AnsweredSecretHolds, ActiveWebhookHasSecret
<1>12. RunsAreOpen'
  BY <1>3, <1>4, <1>5 DEF IInv, RunsAreOpen, CallsOfRun, RunPlaces
<1> QED
  BY <1>2, <1>5, <1>9, <1>10, <1>11, <1>12 DEF IInv, ActiveIsRunnable, DeletedLeavesNothing

LEMMA PublishAnswerKeeps ==
    ASSUME IInv, NEW c \in Callers, PublishAnswer(c)
    PROVE  IInv'
<1>1. /\ At(c, "answer") /\ call'[c] = NoCall /\ UNCHANGED <<wf, execs, stored>>
      /\ \A d \in Callers \ {c} : call'[d] = call[d]
      /\ call' = [call EXCEPT ![c] = NoCall] /\ call[c] \in Calls
  BY DEF PublishAnswer, Answer, IInv, Typed
<1>2. Typed'
  BY <1>1, NoCallType DEF PublishAnswer, IInv, Typed, Calls
<1>3. Fresh' /\ AloneIsAlone' /\ LockHolds' /\ SeenIsStored'
  BY <1>1
     DEF IInv, Fresh, AloneIsAlone, LockHolds, SeenIsStored, Publishing, PublishPlaces, At,
         Exists, NoCall
<1>4. GoodIsSettled'
  <2>1. CASE good' = good
    BY <1>1, <2>1 DEF IInv, GoodIsSettled, AnsweredSecretHolds, At, Exists, NoCall
  <2>2. CASE /\ call[c].alone /\ call[c].seen # NoSecret
             /\ good' = good \union {call[c].seen}
    <3>1. Exists => wf.secret = call[c].seen
      BY <1>1, <2>2 DEF IInv, SeenIsStored, At
    <3>2. \A d \in Callers : ~(At(d, "trigger"))'
      BY <1>1, <2>2 DEF IInv, AloneIsAlone, Publishing, PublishPlaces, At, NoCall
    <3> QED
      BY <1>1, <2>2, <3>1, <3>2 DEF IInv, GoodIsSettled, AnsweredSecretHolds, Exists
  <2> QED
    BY <2>1, <2>2 DEF PublishAnswer
<1>5. RunsAreOpen' /\ ActiveWebhookHasSecret'
  BY <1>1 DEF IInv, RunsAreOpen, CallsOfRun, RunPlaces, ActiveWebhookHasSecret, At, Exists, NoCall
<1> QED
  BY <1>1, <1>2, <1>3, <1>4, <1>5 DEF IInv, ActiveIsRunnable, DeletedLeavesNothing

LEMMA PublishKeeps ==
    ASSUME IInv, NEW c \in Callers, PublishStep(c)
    PROVE  IInv'
<1>0. wf \in Rows /\ \A p : At(c, p) /\ p # "idle" => wf.state # "absent"
  BY DEF IInv, Typed, Fresh, At
<1>1. CASE PublishGet(c)
  BY <1>0, <1>1, AnswerKeeps, GoKeeps
     DEF PublishGet, At, Parts, Publishing, PublishPlaces, RunPlaces, DeletePlaces
<1>2. CASE PublishVersions(c)
  BY <1>0, <1>2, AnswerKeeps, GoKeeps
     DEF PublishVersions, At, Parts, Publishing, PublishPlaces, RunPlaces, DeletePlaces
<1>3. CASE PublishTx(c)
  BY <1>0, <1>3, AnswerKeeps, GoKeeps
     DEF PublishTx, At, Parts, Publishing, PublishPlaces, RunPlaces, DeletePlaces
<1>4. CASE Activate(c)
  BY <1>4, ActivateKeeps
<1>5. CASE SetSecret(c)
  BY <1>5, SetSecretKeeps
<1>6. CASE Schedule(c)
  BY <1>0, <1>6, ArmedKeeps DEF Schedule
<1>7. CASE ArmFails(c)
  <2>1. /\ wf' \in Rows /\ wf'.state = wf.state /\ wf'.def = wf.def
        /\ wf'.secret = wf.secret /\ wf'.active = wf.active
        /\ wf'.published = wf.published /\ wf'.unarmed
    BY <1>0, <1>7 DEF ArmFails, Rows
  <2> QED
    BY <1>7, <2>1, ArmedKeeps DEF ArmFails
<1>8. CASE NothingToArm(c)
  <2>1. wf.def = "webhook" => wf.secret # NoSecret
    BY <1>8 DEF NothingToArm, NeedsSecret, IInv, SeenIsStored
  <2> QED
    BY <1>0, <1>8, <2>1, ArmedKeeps DEF NothingToArm
<1>9. CASE PublishAnswer(c)
  BY <1>9, PublishAnswerKeeps
<1> QED
  BY <1>1, <1>2, <1>3, <1>4, <1>5, <1>6, <1>7, <1>8, <1>9 DEF PublishStep

-----------------------------------------------------------------------------
(* The other requests, and a crash                                         *)

LEMMA DeleteKeeps ==
    ASSUME IInv, NEW c \in Callers, DeleteStep(c)
    PROVE  IInv'
<1>0. wf \in Rows /\ \A p : At(c, p) /\ p # "idle" => wf.state # "absent"
  BY DEF IInv, Typed, Fresh, At
<1>1. CASE DeleteLock(c)
  BY <1>0, <1>1, AnswerKeeps, GoKeeps
     DEF DeleteLock, At, Parts, Publishing, PublishPlaces, RunPlaces, DeletePlaces
<1>2. CASE DeleteCascade(c) /\ execs # 0
  BY <1>2, AnswerKeeps DEF DeleteCascade, At, Parts
<1>3. CASE DeleteCascade(c) /\ execs = 0
  <2>1. /\ call' = [call EXCEPT ![c] = NoCall] /\ call'[c] = NoCall
        /\ \A d \in Callers \ {c} : call'[d] = call[d]
        /\ \A d \in Callers : ~At(d, "activate")
        /\ UNCHANGED <<execs, stored, good>> /\ execs = 0
    BY <1>3 DEF DeleteCascade, VersionLocked, Answer, IInv, Typed
  <2>2. /\ wf' \in Rows /\ wf'.state = "deleted" /\ wf'.active = wf.active
        /\ wf'.secret = wf.secret /\ wf'.published = wf.published
    BY <1>0, <1>3 DEF DeleteCascade, Rows
  <2>3. Typed' /\ Fresh' /\ AloneIsAlone' /\ LockHolds' /\ SeenIsStored'
    BY <2>1, <2>2, NoCallType
       DEF IInv, Typed, Fresh, AloneIsAlone, LockHolds, SeenIsStored, Publishing,
           PublishPlaces, At, Exists, NoCall
  <2>4. GoodIsSettled' /\ RunsAreOpen' /\ ActiveWebhookHasSecret'
    BY <2>1, <2>2
       DEF IInv, GoodIsSettled, AnsweredSecretHolds, RunsAreOpen, CallsOfRun, RunPlaces,
           ActiveWebhookHasSecret, At, Exists, NoCall
  <2> QED
    BY <2>1, <2>2, <2>3, <2>4 DEF IInv, ActiveIsRunnable, DeletedLeavesNothing
<1> QED
  BY <1>1, <1>2, <1>3 DEF DeleteStep

LEMMA RunKeeps ==
    ASSUME IInv, NEW c \in Callers, RunStep(c)
    PROVE  IInv'
<1>0. wf \in Rows /\ \A p : At(c, p) /\ p # "idle" => wf.state # "absent"
  BY DEF IInv, Typed, Fresh, At
<1>1. CASE Authenticate(c)
  BY <1>0, <1>1, AnswerKeeps, GoKeeps
     DEF Authenticate, At, Parts, Publishing, PublishPlaces, RunPlaces, DeletePlaces, CallsOfRun
<1>2. CASE ReadFlag(c)
  <2>1. c \in CallsOfRun /\ (wf.active => call[c].open)
    BY <1>2 DEF ReadFlag, At, CallsOfRun, RunPlaces, IInv, RunsAreOpen
  <2> QED
    BY <1>0, <1>2, <2>1, AnswerKeeps, GoKeeps
       DEF ReadFlag, At, Parts, Publishing, PublishPlaces, RunPlaces, DeletePlaces
<1>3. CASE ReadVersion(c)
  <2>1. c \in CallsOfRun /\ call[c].open
    BY <1>3 DEF ReadVersion, At, CallsOfRun, RunPlaces, IInv, RunsAreOpen
  <2> QED
    BY <1>0, <1>3, <2>1, AnswerKeeps, GoKeeps
       DEF ReadVersion, At, Parts, Publishing, PublishPlaces, RunPlaces, DeletePlaces
<1>4. CASE InsertExecution(c)
  <2>1. CASE ~Exists
    BY <1>4, <2>1, AnswerKeeps DEF InsertExecution, At, Parts
  <2>2. CASE Exists
    <3>1. /\ call' = [call EXCEPT ![c] = NoCall] /\ call'[c] = NoCall
          /\ \A d \in Callers \ {c} : call'[d] = call[d]
          /\ UNCHANGED <<wf, stored, good>> /\ execs' = execs + 1
          /\ At(c, "insert")
      BY <1>4, <2>2 DEF InsertExecution, Answer, IInv, Typed
    <3>2. Typed' /\ Fresh' /\ AloneIsAlone' /\ LockHolds' /\ SeenIsStored'
      BY <2>2, <3>1, NoCallType
         DEF IInv, Typed, Fresh, AloneIsAlone, LockHolds, SeenIsStored, Publishing,
             PublishPlaces, At, Exists, NoCall
    <3>3. GoodIsSettled' /\ RunsAreOpen' /\ ActiveWebhookHasSecret'
      BY <3>1
         DEF IInv, GoodIsSettled, AnsweredSecretHolds, RunsAreOpen, CallsOfRun, RunPlaces,
             ActiveWebhookHasSecret, At, Exists, NoCall
    <3> QED
      BY <2>2, <3>1, <3>2, <3>3 DEF IInv, ActiveIsRunnable, DeletedLeavesNothing, Exists
  <2> QED
    BY <2>1, <2>2
<1> QED
  BY <1>1, <1>2, <1>3, <1>4 DEF RunStep

\* A request that begins, or a deactivation, which is one statement.
LEMMA RequestKeeps ==
    ASSUME IInv, NEW c \in Callers, Begin(c)
    PROVE  IInv'
<1>0. wf \in Rows /\ call \in [Callers -> Calls]
  BY DEF IInv, Typed
<1>1. CASE BeginPublish(c)
  BY <1>1, BeginPublishKeeps
<1>2. CASE BeginDelete(c)
  <2>1. [NoCall EXCEPT !.at = "lock"] \in Calls
    BY DEF NoCall, Calls, DeletePlaces
  <2>2. [NoCall EXCEPT !.at = "lock"].at = "lock" /\ ~[NoCall EXCEPT !.at = "lock"].alone
    BY DEF NoCall
  <2> QED
    BY <1>2, <2>1, <2>2, BeginKeeps DEF BeginDelete, Parts
<1>3. ASSUME NEW place \in {"flag", "auth"}, NEW s \in Secrets \union {NoSecret},
             BeginRun(c, place, s)
      PROVE  IInv'
  <2> DEFINE x == [NoCall EXCEPT !.at = place, !.seen = s, !.open = wf.active]
  <2>1. x \in Calls /\ x.at = place /\ ~x.alone /\ x.open = wf.active
    BY <1>0 DEF NoCall, Calls, RunPlaces, Rows
  <2>2. /\ Idle(c) /\ call' = [call EXCEPT ![c] = x] /\ UNCHANGED Parts
    BY <1>3 DEF BeginRun, Parts
  <2> HIDE DEF x
  <2> QED
    BY <2>1, <2>2, BeginKeeps
<1>4. CASE Deactivate(c) /\ Exists
  <2>1. /\ wf' \in Rows /\ wf'.state = wf.state /\ ~wf'.active /\ wf'.secret = wf.secret
    BY <1>0, <1>4 DEF Deactivate, ActiveSet, Rows
  <2>2. UNCHANGED <<execs, call, stored, good>>
    BY <1>4 DEF Deactivate
  <2>3. Typed' /\ Fresh' /\ AloneIsAlone' /\ LockHolds' /\ SeenIsStored'
    BY <1>4, <2>1, <2>2
       DEF IInv, Typed, Fresh, AloneIsAlone, LockHolds, SeenIsStored, Publishing, At, Exists
  <2>4. GoodIsSettled' /\ RunsAreOpen' /\ ActiveWebhookHasSecret'
    BY <2>1, <2>2
       DEF IInv, GoodIsSettled, AnsweredSecretHolds, RunsAreOpen, CallsOfRun,
           ActiveWebhookHasSecret, At, Exists
  <2> QED
    BY <2>1, <2>2, <2>3, <2>4 DEF IInv, ActiveIsRunnable, DeletedLeavesNothing
<1>5. CASE Deactivate(c) /\ ~Exists
  BY <1>5 DEF Deactivate, IInv, Typed, Fresh, AloneIsAlone, LockHolds, SeenIsStored,
              Publishing, GoodIsSettled, AnsweredSecretHolds, RunsAreOpen, CallsOfRun,
              ActiveWebhookHasSecret, ActiveIsRunnable, DeletedLeavesNothing, At, Exists
<1> QED
  BY <1>1, <1>2, <1>3, <1>4, <1>5 DEF Begin, Execute, ExecuteTool, Trigger

LEMMA CreateKeeps ==
    ASSUME IInv, NEW def \in Definitions, Create(def)
    PROVE  IInv'
<1>1. /\ wf' \in Rows /\ wf'.state = "live" /\ ~wf'.active
  BY WorkflowsAssumption DEF Create, CreatedRow, NoRow, Rows, Kinds
<1>2. /\ UNCHANGED <<execs, call, stored, good>> /\ good = {} /\ execs = 0
      /\ \A c \in Callers : call[c].at = "idle"
  BY DEF Create, IInv, Fresh
<1>3. Typed' /\ Fresh' /\ AloneIsAlone' /\ LockHolds' /\ SeenIsStored'
  BY <1>1, <1>2
     DEF IInv, Typed, Fresh, AloneIsAlone, LockHolds, SeenIsStored, Publishing, At
<1>4. GoodIsSettled' /\ RunsAreOpen' /\ ActiveWebhookHasSecret'
  BY <1>1, <1>2
     DEF GoodIsSettled, AnsweredSecretHolds, RunsAreOpen, CallsOfRun, RunPlaces,
         ActiveWebhookHasSecret
<1> QED
  BY <1>1, <1>2, <1>3, <1>4 DEF IInv, ActiveIsRunnable, DeletedLeavesNothing

LEMMA CrashKeeps ==
    ASSUME IInv, ServerCrash
    PROVE  IInv'
<1>1. /\ wf' \in Rows /\ wf'.state = wf.state /\ wf'.def = wf.def /\ wf'.secret = wf.secret
      /\ wf'.active = wf.active /\ wf'.published = wf.published
      /\ wf.unarmed => wf'.unarmed
      /\ (\E c \in Callers : At(c, "trigger")) => wf'.unarmed
  BY DEF ServerCrash, IInv, Typed, Rows
<1>2. /\ \A c \in Callers : call'[c] = NoCall
      /\ UNCHANGED <<execs, stored, good>> /\ wf.state # "absent"
  BY DEF ServerCrash, IInv, Fresh
<1>3. Typed'
  BY <1>1, <1>2, NoCallType DEF ServerCrash, IInv, Typed
<1>4. Fresh' /\ AloneIsAlone' /\ LockHolds' /\ SeenIsStored'
  BY <1>1, <1>2 DEF Fresh, AloneIsAlone, LockHolds, SeenIsStored, At, NoCall
<1>5. GoodIsSettled' /\ RunsAreOpen'
  BY <1>1, <1>2
     DEF IInv, GoodIsSettled, AnsweredSecretHolds, RunsAreOpen, CallsOfRun, RunPlaces, At,
         Exists, NoCall
<1>6. ActiveWebhookHasSecret'
  BY <1>1 DEF IInv, ActiveWebhookHasSecret, Exists
<1> QED
  BY <1>1, <1>2, <1>3, <1>4, <1>5, <1>6 DEF IInv, ActiveIsRunnable, DeletedLeavesNothing

LEMMA NextInv == IInv /\ [Next]_vars => IInv'
<1> SUFFICES ASSUME IInv, [Next]_vars PROVE IInv'
  OBVIOUS
<1>1. CASE UNCHANGED vars
  BY <1>1 DEF vars, IInv, Typed, Fresh, AloneIsAlone, LockHolds, SeenIsStored, Publishing,
              GoodIsSettled, AnsweredSecretHolds, RunsAreOpen, CallsOfRun,
              ActiveWebhookHasSecret, ActiveIsRunnable, DeletedLeavesNothing, At, Exists
<1>2. ASSUME NEW c \in Callers, CallStep(c) PROVE IInv'
  BY <1>2, PublishKeeps, DeleteKeeps, RunKeeps, AnswerKeeps
     DEF CallStep, DeadlockVictim, At, Parts
<1>3. ASSUME NEW c \in Callers, Fails(c) PROVE IInv'
  BY <1>3, AnswerKeeps DEF Fails, At, Parts
<1> QED
  BY <1>1, <1>2, <1>3, RequestKeeps, CreateKeeps, CrashKeeps DEF Next

-----------------------------------------------------------------------------
(* Theorems                                                                *)

\* For any number of publishes, failures and crashes: a secret answered by a
\* publish that no other overlapped authenticates for as long as the workflow
\* exists.
THEOREM SecretHolds == Spec => []AnsweredSecretHolds
<1>1. IInv => AnsweredSecretHolds
  BY DEF IInv, GoodIsSettled
<1> QED
  BY InitInv, NextInv, <1>1, PTL DEF Spec

\* A deleted workflow has no execution and gets none, for any number of requests
\* that found it active before.
THEOREM NothingIsLeft == Spec => []DeletedLeavesNothing
<1>1. IInv => DeletedLeavesNothing
  BY DEF IInv
<1> QED
  BY InitInv, NextInv, <1>1, PTL DEF Spec

\* An active workflow has a published version, for any number of requests.
THEOREM ActiveHasVersion == Spec => []ActiveIsRunnable
<1>1. IInv => ActiveIsRunnable
  BY DEF IInv
<1> QED
  BY InitInv, NextInv, <1>1, PTL DEF Spec

\* An active webhook has a secret, or is being given one, or giving it one failed
\* and nobody published it since, for any number of requests, failures and crashes.
THEOREM WebhookHasSecret == Spec => []ActiveWebhookHasSecret
<1>1. IInv => ActiveWebhookHasSecret
  BY DEF IInv
<1> QED
  BY InitInv, NextInv, <1>1, PTL DEF Spec

\* An execution is created only by a request during which the workflow was active,
\* for any number of requests.
THEOREM RunsWereOpen == Spec => RunsSawActive
<1>1. ASSUME IInv, NEW c \in Callers, CallStep(c), execs' # execs
      PROVE  \E d \in Callers : At(d, "insert") /\ call[d].open
  <2>1. InsertExecution(c)
    BY <1>1
       DEF CallStep, PublishStep, PublishGet, PublishVersions, PublishTx, Activate, SetSecret,
           Schedule, ArmFails, NothingToArm, PublishAnswer, DeleteStep, DeleteLock,
           DeleteCascade, RunStep, Authenticate, ReadFlag, ReadVersion, DeadlockVictim
  <2>2. At(c, "insert") /\ c \in CallsOfRun
    BY <2>1 DEF InsertExecution, CallsOfRun, RunPlaces, At
  <2> QED
    BY <1>1, <2>2 DEF IInv, RunsAreOpen, At
<1>2. ASSUME NEW c \in Callers, Begin(c) \/ Fails(c) PROVE execs' = execs
  BY <1>2 DEF Begin, Fails, Deactivate, BeginPublish, BeginDelete, Execute, ExecuteTool,
              Trigger, BeginRun
<1>3. IInv /\ [Next]_vars =>
        [execs' # execs => \E c \in Callers : At(c, "insert") /\ call[c].open]_vars
  BY <1>1, <1>2 DEF Next, Create, ServerCrash
<1> QED
  BY InitInv, NextInv, <1>3, PTL DEF Spec, RunsSawActive

\* Once no publish in progress has found the secret missing, it never changes again,
\* for any number of requests.
THEOREM SecretStays == Spec => SecretSettles
<1>1. ASSUME IInv, NEW c \in Callers, CallStep(c),
             \A d \in Callers : At(d, "trigger") => call[d].seen # NoSecret
      PROVE  wf'.secret = wf.secret
  <2>1. wf \in Rows
    BY <1>1 DEF IInv, Typed
  <2>2. ~SetSecret(c)
    BY <1>1 DEF SetSecret, NeedsSecret
  <2>3. CASE Activate(c) \/ Schedule(c) \/ ArmFails(c) \/ DeleteCascade(c)
    BY <2>1, <2>3 DEF Activate, ActiveSet, VersionPublished, Schedule, ArmFails,
                      DeleteCascade, Rows
  <2> QED
    BY <1>1, <2>2, <2>3
       DEF CallStep, PublishStep, PublishGet, PublishVersions, PublishTx, NothingToArm,
           PublishAnswer, DeleteStep, DeleteLock, RunStep, Authenticate, ReadFlag,
           ReadVersion, InsertExecution, DeadlockVictim
<1>2. ASSUME IInv, NEW c \in Callers, Begin(c) \/ Fails(c) PROVE wf'.secret = wf.secret
  <2>1. wf \in Rows
    BY <1>2 DEF IInv, Typed
  <2>2. CASE Deactivate(c)
    BY <2>1, <2>2 DEF Deactivate, ActiveSet, Rows
  <2> QED
    BY <1>2, <2>2 DEF Begin, Fails, BeginPublish, BeginDelete, Execute, ExecuteTool,
                      Trigger, BeginRun
<1>3. ASSUME IInv, ServerCrash PROVE wf'.secret = wf.secret
  BY <1>3 DEF IInv, Typed, Rows, ServerCrash
<1>4. ASSUME IInv, NEW def \in Definitions, Create(def), wf.secret # NoSecret PROVE FALSE
  BY <1>4 DEF IInv, Fresh, Create, NoRow
<1>5. IInv /\ [Next]_vars =>
        [(/\ wf.secret # NoSecret
          /\ \A c \in Callers : At(c, "trigger") => call[c].seen # NoSecret)
         => wf'.secret = wf.secret]_vars
  BY <1>1, <1>2, <1>3, <1>4 DEF Next
<1> QED
  BY InitInv, NextInv, <1>5, PTL DEF Spec, SecretSettles

-----------------------------------------------------------------------------
(* The bound on the executions, which is one for every request let in       *)

Bounded == execs + Cardinality(CallsOfRun) <= MaxExecs

\* The requests in progress are finitely many, and fewer when one is over.
LEMMA RunsAreFinite ==
    /\ IsFiniteSet(CallsOfRun) /\ Cardinality(CallsOfRun) \in Nat
    /\ CallsOfRun' \subseteq CallsOfRun =>
         Cardinality(CallsOfRun') \in Nat /\ Cardinality(CallsOfRun') <= Cardinality(CallsOfRun)
<1>1. CallsOfRun \in SUBSET Callers
  BY DEF CallsOfRun
<1>2. IsFiniteSet(CallsOfRun)
  BY <1>1, WorkflowsAssumption, FS_Subset
<1>3. ASSUME CallsOfRun' \subseteq CallsOfRun
      PROVE  Cardinality(CallsOfRun') \in Nat
             /\ Cardinality(CallsOfRun') <= Cardinality(CallsOfRun)
  <2>1. CallsOfRun' \in SUBSET CallsOfRun
    BY <1>3
  <2> QED
    BY <1>2, <2>1, FS_Subset, FS_CardinalityType
<1> QED
  BY <1>2, <1>3, FS_CardinalityType

\* A request is counted from when it begins; its execution takes its place.
LEMMA NextBounded == IInv /\ Bounded /\ [Next]_vars => Bounded'
<1> SUFFICES ASSUME IInv, Bounded, [Next]_vars PROVE Bounded'
  OBVIOUS
<1>0. execs \in Nat /\ call \in [Callers -> Calls] /\ MaxExecs \in Nat
  BY WorkflowsAssumption DEF IInv, Typed
<1>1. ASSUME CallsOfRun' \subseteq CallsOfRun, execs' = execs
      PROVE  Bounded'
  BY <1>0, <1>1, RunsAreFinite DEF Bounded
<1>2. ASSUME NEW c \in Callers, Answer(c) PROVE CallsOfRun' \subseteq CallsOfRun
  BY <1>0, <1>2 DEF Answer, CallsOfRun, RunPlaces, NoCall
<1>3. ASSUME NEW c \in Callers,
             NEW place \in PublishPlaces \union RunPlaces \union DeletePlaces,
             Go(c, place), place \in RunPlaces => c \in CallsOfRun
      PROVE  CallsOfRun' \subseteq CallsOfRun
  <2>1. call'[c] = [call[c] EXCEPT !.at = place] /\ \A d \in Callers \ {c} : call'[d] = call[d]
    BY <1>0, <1>3 DEF Go
  <2>2. call'[c].at = place
    BY <1>0, <2>1 DEF Calls
  <2> QED
    BY <1>3, <2>1, <2>2 DEF CallsOfRun
<1>4. ASSUME NEW c \in Callers, PublishStep(c) PROVE Bounded'
  <2>1. CASE PublishGet(c) \/ PublishVersions(c) \/ PublishTx(c) \/ Schedule(c)
             \/ ArmFails(c) \/ NothingToArm(c) \/ PublishAnswer(c)
    <3>1. Answer(c) \/ \E p \in PublishPlaces : Go(c, p) /\ p \notin RunPlaces
      BY <2>1 DEF PublishGet, PublishVersions, PublishTx, Schedule, ArmFails, NothingToArm,
                  PublishAnswer, PublishPlaces, RunPlaces
    <3>2. execs' = execs
      BY <2>1 DEF PublishGet, PublishVersions, PublishTx, Schedule, ArmFails, NothingToArm,
                  PublishAnswer
    <3> QED
      BY <1>1, <1>2, <1>3, <3>1, <3>2
  <2>2. CASE Activate(c)
    <3>1. \A d \in Callers : call'[d].at \in {call[d].at, "trigger"}
      BY <1>0, <2>2 DEF Activate, Calls
    <3> QED
      BY <1>1, <2>2, <3>1 DEF Activate, CallsOfRun, RunPlaces
  <2>3. CASE SetSecret(c)
    <3>1. \A d \in Callers : call'[d].at \in {call[d].at, "answer"}
      BY <1>0, <2>3 DEF SetSecret, Calls
    <3> QED
      BY <1>1, <2>3, <3>1 DEF SetSecret, CallsOfRun, RunPlaces
  <2> QED
    BY <1>4, <2>1, <2>2, <2>3 DEF PublishStep
<1>5. ASSUME NEW c \in Callers, DeleteStep(c) PROVE Bounded'
  <2>1. Answer(c) \/ Go(c, "cascade")
    BY <1>5 DEF DeleteStep, DeleteLock, DeleteCascade
  <2>2. "cascade" \in DeletePlaces /\ "cascade" \notin RunPlaces
    BY DEF DeletePlaces, RunPlaces
  <2>3. execs' = execs
    BY <1>5 DEF DeleteStep, DeleteLock, DeleteCascade
  <2> QED
    BY <1>1, <1>2, <1>3, <2>1, <2>2, <2>3
<1>6. ASSUME NEW c \in Callers, RunStep(c) PROVE Bounded'
  <2>1. c \in CallsOfRun
    BY <1>6 DEF RunStep, Authenticate, ReadFlag, ReadVersion, InsertExecution, At,
                CallsOfRun, RunPlaces
  <2>2. CASE execs' = execs
    <3>1. Answer(c) \/ \E p \in RunPlaces : Go(c, p)
      BY <1>6 DEF RunStep, Authenticate, ReadFlag, ReadVersion, InsertExecution, RunPlaces
    <3> QED
      BY <1>1, <1>2, <1>3, <2>1, <2>2, <3>1
  <2>3. CASE execs' = execs + 1 /\ Answer(c)
    <3>1. CallsOfRun' = CallsOfRun \ {c}
      BY <1>0, <2>3 DEF Answer, CallsOfRun, RunPlaces, NoCall
    <3>2. Cardinality(CallsOfRun \ {c}) = Cardinality(CallsOfRun) - 1
      BY <2>1, RunsAreFinite, FS_RemoveElement
    <3> QED
      BY <1>0, <2>3, <3>1, <3>2, RunsAreFinite DEF Bounded
  <2> QED
    BY <1>6, <2>2, <2>3 DEF RunStep, Authenticate, ReadFlag, ReadVersion, InsertExecution
<1>7. ASSUME NEW c \in Callers, Begin(c) PROVE Bounded'
  <2>1. CASE \E place \in RunPlaces, s \in Secrets \union {NoSecret} : BeginRun(c, place, s)
    <3>1. /\ CallsOfRun' = CallsOfRun \union {c} /\ execs' = execs
          /\ execs + Cardinality(CallsOfRun) < MaxExecs
      BY <1>0, <2>1 DEF BeginRun, CallsOfRun, NoCall
    <3>2. Cardinality(CallsOfRun \union {c}) \in {Cardinality(CallsOfRun),
                                                 Cardinality(CallsOfRun) + 1}
      BY RunsAreFinite, FS_AddElement
    <3> QED
      BY <1>0, <3>1, <3>2, RunsAreFinite DEF Bounded
  <2>2. CASE BeginDelete(c)
    <3>1. \A d \in Callers : call'[d].at \in {call[d].at, "lock"}
      BY <1>0, <2>2 DEF BeginDelete, NoCall
    <3> QED
      BY <1>1, <2>2, <3>1 DEF BeginDelete, CallsOfRun, RunPlaces
  <2>3. CASE BeginPublish(c)
    <3>1. ASSUME NEW d \in Callers PROVE call'[d].at \in {call[d].at, "get"}
      <4>1. CASE d = c
        BY <2>3, <4>1 DEF BeginPublish, NoCall
      <4>2. CASE d # c
        <5>1. call'[d] = call[d] \/ call'[d] = [call[d] EXCEPT !.alone = FALSE]
          BY <2>3, <4>2 DEF BeginPublish
        <5> QED
          BY <1>0, <5>1 DEF Calls
      <4> QED
        BY <4>1, <4>2
    <3> QED
      BY <1>1, <2>3, <3>1 DEF BeginPublish, CallsOfRun, RunPlaces
  <2>4. CASE Deactivate(c)
    BY <1>1, <2>4 DEF Deactivate, CallsOfRun
  <2> QED
    BY <1>7, <2>1, <2>2, <2>3, <2>4 DEF Begin, Execute, ExecuteTool, Trigger, RunPlaces
<1>8. ASSUME NEW c \in Callers, Fails(c) \/ DeadlockVictim(c) PROVE Bounded'
  BY <1>1, <1>2, <1>8 DEF Fails, DeadlockVictim
<1>9. CASE ServerCrash
  BY <1>1, <1>9 DEF ServerCrash, CallsOfRun, RunPlaces, NoCall
<1>10. CASE UNCHANGED vars \/ \E def \in Definitions : Create(def)
  BY <1>1, <1>10 DEF vars, Create, CallsOfRun
<1> QED
  BY <1>4, <1>5, <1>6, <1>7, <1>8, <1>9, <1>10 DEF Next, CallStep

\* Every variable has its type, whatever the number of requests: no request creates
\* two executions.
THEOREM WorkflowTypes == Spec => []TypeOK
<1>1. Init => Bounded
  <2> SUFFICES ASSUME Init PROVE Bounded
    OBVIOUS
  <2>1. CallsOfRun = {} /\ execs = 0
    BY DEF Init, CallsOfRun, RunPlaces, NoCall
  <2> QED
    BY <2>1, FS_EmptySet, WorkflowsAssumption DEF Bounded
<1>2. IInv /\ Bounded => TypeOK
  BY RunsAreFinite, WorkflowsAssumption DEF IInv, Typed, Bounded, TypeOK
<1> QED
  BY InitInv, NextInv, NextBounded, <1>1, <1>2, PTL DEF Spec

-----------------------------------------------------------------------------
(* How a request goes on                                                   *)

\* The places a request takes one after the other.
Following ==
    {<<"get", "versions">>, <<"versions", "tx">>, <<"tx", "activate">>,
     <<"activate", "trigger">>, <<"trigger", "answer">>,
     <<"auth", "flag">>, <<"flag", "version">>, <<"version", "insert">>,
     <<"lock", "cascade">>}

\* A request is answered or takes its next place, and leaves the places of the other
\* requests alone.
Advances(c) ==
    /\ call[c].at # "idle"
    /\ call'[c].at = "idle" \/ <<call[c].at, call'[c].at>> \in Following
    /\ \A d \in Callers \ {c} : call'[d].at = call[d].at

LEMMA AnswerAdvances ==
    ASSUME Typed, NEW c \in Callers, call[c].at # "idle", Answer(c)
    PROVE  Advances(c)
BY DEF Typed, Answer, NoCall, Advances

LEMMA GoAdvances ==
    ASSUME Typed, NEW c \in Callers, NEW place, Go(c, place), call[c].at # "idle",
           <<call[c].at, place>> \in Following
    PROVE  Advances(c)
<1>1. call \in [Callers -> Calls] /\ call[c] \in Calls
  BY DEF Typed
<1>2. call'[c] = [call[c] EXCEPT !.at = place] /\ \A d \in Callers \ {c} : call'[d] = call[d]
  BY <1>1 DEF Go
<1>3. call'[c].at = place
  BY <1>1, <1>2 DEF Calls
<1> QED
  BY <1>2, <1>3 DEF Advances

LEMMA StepAdvances ==
    ASSUME Typed, NEW c \in Callers, CallStep(c) \/ Fails(c)
    PROVE  Advances(c)
<1>1. call \in [Callers -> Calls] /\ call[c] \in Calls
  BY DEF Typed
<1>2. CASE PublishGet(c)
  BY <1>2, AnswerAdvances, GoAdvances DEF PublishGet, At, Following
<1>3. CASE PublishVersions(c)
  BY <1>3, AnswerAdvances, GoAdvances DEF PublishVersions, At, Following
<1>4. CASE PublishTx(c)
  BY <1>4, AnswerAdvances, GoAdvances DEF PublishTx, At, Following
<1>5. CASE Activate(c)
  <2>1. /\ call'[c] = [call[c] EXCEPT !.at = "trigger", !.seen = wf.secret]
        /\ \A d \in Callers \ {c} : call'[d] = [call[d] EXCEPT !.open = TRUE]
    BY <1>5 DEF Activate
  <2>2. call'[c].at = "trigger"
    BY <1>1, <2>1 DEF Calls
  <2>3. \A d \in Callers \ {c} : call'[d].at = call[d].at
    BY <1>1, <2>1 DEF Calls
  <2> QED
    BY <1>5, <2>2, <2>3 DEF Activate, At, Advances, Following
<1>6. CASE SetSecret(c)
  <2>1. PICK s \in FreshSecrets :
          call' = [call EXCEPT ![c] = [call[c] EXCEPT !.at = "answer", !.seen = s]]
    BY <1>1, <1>6 DEF SetSecret
  <2>2. call'[c].at = "answer" /\ \A d \in Callers \ {c} : call'[d] = call[d]
    BY <1>1, <2>1 DEF Calls
  <2> QED
    BY <1>6, <2>2 DEF SetSecret, At, Advances, Following
<1>7. CASE Schedule(c) \/ ArmFails(c) \/ NothingToArm(c)
  BY <1>7, GoAdvances DEF Schedule, ArmFails, NothingToArm, At, Following
<1>8. CASE PublishAnswer(c)
  BY <1>8, AnswerAdvances DEF PublishAnswer, At
<1>9. CASE DeleteStep(c)
  BY <1>9, AnswerAdvances, GoAdvances DEF DeleteStep, DeleteLock, DeleteCascade, At, Following
<1>10. CASE RunStep(c)
  <2>1. CASE InsertExecution(c)
    BY <2>1, AnswerAdvances DEF InsertExecution, At
  <2> QED
    BY <1>10, <2>1, AnswerAdvances, GoAdvances
       DEF RunStep, Authenticate, ReadFlag, ReadVersion, At, Following
<1>11. CASE DeadlockVictim(c) \/ Fails(c)
  BY <1>11, AnswerAdvances DEF DeadlockVictim, Fails, At
<1> QED
  BY <1>2, <1>3, <1>4, <1>5, <1>6, <1>7, <1>8, <1>9, <1>10, <1>11 DEF CallStep, PublishStep

\* The places of a request that begins, and that the others keep theirs.
LEMMA BeginPlaces ==
    ASSUME Typed, NEW c \in Callers, Begin(c)
    PROVE  /\ call[c].at = "idle"
           /\ call'[c].at \in {"idle", "get", "lock", "flag", "auth"}
           /\ \A d \in Callers \ {c} : call'[d].at = call[d].at
<1>1. call \in [Callers -> Calls] /\ \A d \in Callers : call[d] \in Calls
  BY DEF Typed
<1>2. CASE Deactivate(c)
  BY <1>2 DEF Deactivate, Idle
<1>3. CASE BeginPublish(c)
  <2>1. /\ call'[c] = [NoCall EXCEPT !.at = "get", !.alone = \A y \in Callers : ~Publishing(y)]
        /\ \A d \in Callers \ {c} :
             call'[d] = IF Publishing(d) THEN [call[d] EXCEPT !.alone = FALSE] ELSE call[d]
    BY <1>3 DEF BeginPublish
  <2>2. call'[c].at = "get"
    BY <2>1 DEF NoCall
  <2>3. ASSUME NEW d \in Callers \ {c} PROVE call'[d].at = call[d].at
    <3>1. call[d] \in Calls
      BY <1>1
    <3>2. CASE Publishing(d)
      <4>1. call'[d] = [call[d] EXCEPT !.alone = FALSE]
        BY <2>1, <3>2
      <4> QED
        BY <3>1, <4>1 DEF Calls
    <3>3. CASE ~Publishing(d)
      BY <2>1, <3>3
    <3> QED
      BY <3>2, <3>3
  <2> QED
    BY <1>3, <2>2, <2>3 DEF BeginPublish, Idle
<1>4. CASE BeginDelete(c)
  BY <1>1, <1>4 DEF BeginDelete, Idle, NoCall
<1>5. ASSUME NEW place \in {"flag", "auth"}, NEW secret, BeginRun(c, place, secret)
      PROVE  /\ call[c].at = "idle" /\ call'[c].at = place
             /\ \A d \in Callers \ {c} : call'[d].at = call[d].at
  BY <1>1, <1>5 DEF BeginRun, Idle, NoCall
<1> QED
  BY <1>2, <1>3, <1>4, <1>5 DEF Begin, Execute, ExecuteTool, Trigger

\* Each place is nearer to the end than the one before it.
LEMMA NextIsNearer ==
    ASSUME Typed, NEW c \in Callers, Advances(c)
    PROVE  Left(c)' < Left(c) /\ Left(c)' \in Nat
<1>1. CASE call'[c].at = "idle"
  <2>1. call[c].at \in PublishPlaces \union RunPlaces \union DeletePlaces
    BY DEF Advances, Typed, Calls
  <2> QED
    BY <1>1, <2>1 DEF Left, PublishPlaces, RunPlaces, DeletePlaces
<1>2. CASE <<call[c].at, call'[c].at>> \in Following
  BY <1>2 DEF Following, Left
<1> QED
  BY <1>1, <1>2 DEF Advances

\* The steps of the other requests, and a crash, take no request back.
THEOREM RequestsAdvance == Spec => RequestsGoForward
<1> DEFINE Forward ==
      \A c \in Callers :
        /\ call[c].at # "idle" => Left(c)' <= Left(c)
        /\ CallStep(c) \/ Fails(c) => Left(c)' < Left(c)
<1>1. ASSUME Typed, NEW c \in Callers
      PROVE  Left(c) \in Nat /\ (call'[c].at = call[c].at => Left(c)' = Left(c))
  <2>1. call[c].at \in {"idle"} \union PublishPlaces \union RunPlaces \union DeletePlaces
    BY <1>1 DEF Typed, Calls
  <2> QED
    BY <2>1 DEF Left, PublishPlaces, RunPlaces, DeletePlaces
<1>2. ASSUME Typed, [Next]_vars, NEW c \in Callers, call[c].at # "idle"
      PROVE  Left(c)' <= Left(c)
  <2>1. ASSUME NEW d \in Callers, CallStep(d) \/ Fails(d) PROVE Left(c)' <= Left(c)
    <3>1. Advances(d)
      BY <1>2, <2>1, StepAdvances
    <3>2. CASE c = d
      <4>1. Advances(c)
        BY <3>1, <3>2
      <4>2. Left(c)' < Left(c) /\ Left(c)' \in Nat
        BY <1>2, <4>1, NextIsNearer
      <4> QED
        BY <1>1, <1>2, <4>2
    <3>3. CASE c # d
      <4>1. call'[c].at = call[c].at
        BY <3>1, <3>3 DEF Advances
      <4>2. Left(c) \in Nat /\ Left(c)' = Left(c)
        BY <1>1, <1>2, <4>1
      <4> QED
        BY <4>2
    <3> QED
      BY <3>2, <3>3
  <2>2. ASSUME NEW d \in Callers, Begin(d) PROVE Left(c)' <= Left(c)
    BY <1>1, <1>2, <2>2, BeginPlaces
  <2>3. CASE ServerCrash
    <3>1. call'[c].at = "idle"
      BY <2>3 DEF ServerCrash, NoCall
    <3>2. Left(c)' = 0
      BY <3>1 DEF Left
    <3> QED
      BY <1>1, <1>2, <3>2
  <2>4. CASE UNCHANGED vars \/ \E def \in Definitions : Create(def)
    BY <1>1, <1>2, <2>4 DEF vars, Create
  <2> QED
    BY <1>2, <2>1, <2>2, <2>3, <2>4 DEF Next
<1>3. ASSUME Typed, NEW c \in Callers, CallStep(c) \/ Fails(c) PROVE Left(c)' < Left(c)
  <2>1. Advances(c)
    BY <1>3, StepAdvances
  <2> QED
    BY <1>3, <2>1, NextIsNearer
<1>4. IInv /\ [Next]_vars => [Forward]_vars
  BY <1>2, <1>3 DEF IInv
<1> QED
  BY InitInv, NextInv, <1>4, PTL DEF Spec, RequestsGoForward

\* No two of any number of requests hold the lock on the version, or the one on the
\* workflow, at a time.
THEOREM LocksExclude == Spec => []LocksAreExclusive
<1>1. Init => LocksAreExclusive
  BY DEF Init, NoCall, LocksAreExclusive
<1>2. ASSUME Typed, LocksAreExclusive, [Next]_vars PROVE LocksAreExclusive'
  <2>1. ASSUME NEW c \in Callers, CallStep(c) \/ Fails(c) PROVE LocksAreExclusive'
    <3>1. Advances(c)
      BY <1>2, <2>1, StepAdvances
    <3>2. CASE call'[c].at \notin {"activate", "cascade"}
      BY <1>2, <3>1, <3>2 DEF Advances, LocksAreExclusive
    <3>3. CASE call'[c].at = "activate"
      <4>1. call[c].at = "tx"
        BY <3>1, <3>3 DEF Advances, Following
      <4>2. ~Fails(c)
        BY <1>2, <3>3 DEF Fails, Answer, NoCall, Typed
      <4>3. PublishTx(c)
        BY <2>1, <4>1, <4>2
           DEF CallStep, PublishStep, DeleteStep, RunStep, At, PublishGet, PublishVersions,
               Activate, SetSecret, Schedule, ArmFails, NothingToArm, PublishAnswer,
               DeleteLock, DeleteCascade, Authenticate, ReadFlag, ReadVersion,
               InsertExecution, DeadlockVictim
      <4>4. \A d \in Callers : call[d].at # "activate"
        BY <4>3 DEF PublishTx, VersionLocked, At
      <4> QED
        BY <1>2, <3>1, <3>3, <4>4 DEF Advances, LocksAreExclusive
    <3>4. CASE call'[c].at = "cascade"
      <4>1. call[c].at = "lock"
        BY <3>1, <3>4 DEF Advances, Following
      <4>2. ~Fails(c)
        BY <1>2, <3>4 DEF Fails, Answer, NoCall, Typed
      <4>3. DeleteLock(c)
        BY <2>1, <4>1, <4>2
           DEF CallStep, PublishStep, DeleteStep, RunStep, At, PublishGet, PublishVersions,
               PublishTx, Activate, SetSecret, Schedule, ArmFails, NothingToArm,
               PublishAnswer, DeleteCascade, Authenticate, ReadFlag, ReadVersion,
               InsertExecution, DeadlockVictim
      <4>4. \A d \in Callers : call[d].at # "cascade"
        BY <4>3 DEF DeleteLock, RowLocked, At
      <4> QED
        BY <1>2, <3>1, <3>4, <4>4 DEF Advances, LocksAreExclusive
    <3> QED
      BY <3>2, <3>3, <3>4
  <2>2. ASSUME NEW c \in Callers, Begin(c) PROVE LocksAreExclusive'
    BY <1>2, <2>2, BeginPlaces DEF LocksAreExclusive
  <2>3. CASE ServerCrash
    BY <2>3 DEF ServerCrash, NoCall, LocksAreExclusive
  <2>4. CASE UNCHANGED vars \/ \E def \in Definitions : Create(def)
    BY <1>2, <2>4 DEF vars, Create, LocksAreExclusive
  <2> QED
    BY <1>2, <2>1, <2>2, <2>3, <2>4 DEF Next
<1>3. IInv => Typed
  BY DEF IInv
<1> QED
  BY InitInv, NextInv, <1>1, <1>2, <1>3, PTL DEF Spec
=============================================================================
