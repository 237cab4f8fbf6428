------------------------- MODULE ExecutionLifecycle -------------------------
(***************************************************************************)
(* What the executions subsystem promises about one row of the executions  *)
(* table and the deliveries of its job, with no mention of requests, nodes, *)
(* worker processes or faults.  Executions.tla is shown to implement it.    *)
(*                                                                          *)
(* A delivery is one call of WorkflowExecuteWorker.Work.  It starts the row *)
(* at most once, settles it at most once and only after starting it (a      *)
(* definition that does not sort is the exception: it fails unstarted), and *)
(* there are at most MaxAttempts deliveries.  A row is cancelled only while *)
(* queued and is never queued again.                                        *)
(***************************************************************************)
EXTENDS Integers

CONSTANTS Execs, MaxAttempts

VARIABLES
    status,       \* executions.status, "absent" before the row is inserted
    phase,        \* where the delivery of the row's job is
    deliveries    \* how many deliveries there have been

lifeVars == <<status, phase, deliveries>>

Statuses == {"absent", "queued", "running", "success", "failed", "cancelled"}
Phases   == {"unsent", "waiting", "delivered", "started", "over", "closed"}

LifeInit ==
    /\ status = [e \in Execs |-> "absent"]
    /\ phase = [e \in Execs |-> "unsent"]
    /\ deliveries = [e \in Execs |-> 0]

Move(e, from, to) == phase[e] = from /\ phase' = [phase EXCEPT ![e] = to]

Become(e, s) == status' = [status EXCEPT ![e] = s]

LifeCreate(e) ==
    /\ status[e] = "absent"
    /\ Become(e, "queued")
    /\ UNCHANGED <<phase, deliveries>>

LifeCancel(e) ==
    /\ status[e] = "queued"
    /\ Become(e, "cancelled")
    /\ UNCHANGED <<phase, deliveries>>

LifeSend(e) ==
    /\ status[e] # "absent"
    /\ Move(e, "unsent", "waiting")
    /\ UNCHANGED <<status, deliveries>>

LifeDeliver(e) ==
    /\ deliveries[e] < MaxAttempts
    /\ Move(e, "waiting", "delivered")
    /\ deliveries' = [deliveries EXCEPT ![e] = @ + 1]
    /\ UNCHANGED status

\* Whatever the row says, a delivery may set it running, once.
LifeStart(e) ==
    /\ Move(e, "delivered", "started")
    /\ Become(e, "running")
    /\ UNCHANGED deliveries

\* A delivery that started the row decides its outcome, or leaves it running.
LifeSettle(e) ==
    /\ Move(e, "started", "over")
    /\ status[e] = "running"
    /\ \E s \in {"success", "failed", "running"} : Become(e, s)
    /\ UNCHANGED deliveries

\* A delivery that did not start the row leaves it, or fails it.
LifeGiveUp(e) ==
    /\ Move(e, "delivered", "over")
    /\ Become(e, "failed") \/ UNCHANGED status
    /\ UNCHANGED deliveries

LifeRedeliver(e) ==
    /\ deliveries[e] < MaxAttempts
    /\ Move(e, "over", "waiting")
    /\ UNCHANGED <<status, deliveries>>

LifeClose(e) ==
    /\ Move(e, "over", "closed")
    /\ UNCHANGED <<status, deliveries>>

LifeNext ==
    \E e \in Execs :
        \/ LifeCreate(e) \/ LifeCancel(e) \/ LifeSend(e) \/ LifeDeliver(e)
        \/ LifeStart(e) \/ LifeSettle(e) \/ LifeGiveUp(e)
        \/ LifeRedeliver(e) \/ LifeClose(e)

LifeSpec == LifeInit /\ [][LifeNext]_lifeVars
=============================================================================
