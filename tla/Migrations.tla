----------------------------- MODULE Migrations -----------------------------
(***************************************************************************)
(* The migration runner (cmd/migrate) on the files of database/migrations:  *)
(* several runs, up and down, that share one database, each of which may    *)
(* die between any two statements.                                          *)
(*                                                                          *)
(* The schema is abstracted to what the files depend on: the tables of      *)
(* 000001, the rows table, the API keys, the column that 000003 adds to     *)
(* workflows, and the node types.  River's own migrations, which run first, *)
(* are left out.                                                            *)
(***************************************************************************)
EXTENDS Integers

CONSTANTS
    Runners,     \* concurrent runs of the command
    Faults       \* which of "crash", "db" may happen

ASSUME MigrationsAssumption == Faults \subseteq {"crash", "db"}

VARIABLES
    objects,     \* what exists in the database
    applied,     \* the files recorded in _aflow_migrations
    run,         \* the runs in progress
    clashed      \* history: an up and a down have overlapped

vars == <<objects, applied, run, clashed>>

-----------------------------------------------------------------------------
(* The files                                                               *)

Files == 1 .. 4

Objects == {"base", "rows", "keys", "secret", "nodes"}

\* CREATE and ADD COLUMN, all IF NOT EXISTS.
Creates(f) ==
    CASE f = 1 -> {"base"}
      [] f = 2 -> {"rows"}
      [] f = 3 -> {"keys", "secret"}
      [] f = 4 -> {"nodes"}

\* Every file after the first refers to a table of the first.
UpPossible(f) == f = 1 \/ "base" \in objects

\* DROP, all IF EXISTS; the column goes with its table.
Drops(f) == Creates(f) \union IF f = 1 THEN {"secret"} ELSE {}

\* DROP TABLE without CASCADE is refused while a foreign key refers to the table,
\* and the ALTER TABLE of 000003 needs the table.
DownPossible(f) ==
    /\ f = 1 => objects \intersect {"rows", "nodes"} = {}
    /\ f = 3 => "base" \in objects

-----------------------------------------------------------------------------
(* The runs                                                                *)

Directions == {"up", "down"}

Runs == [at     : {"idle", "load", "file", "tx"},
         dir    : Directions,
         pos    : 0 .. 5,              \* the file it is at
         loaded : SUBSET Files]        \* what it read of the applied set
NoRun == [at |-> "idle", dir |-> "up", pos |-> 0, loaded |-> {}]

Init ==
    /\ objects = {} /\ applied = {}
    /\ run = [r \in Runners |-> NoRun]
    /\ clashed = FALSE

At(r, place) == run[r].at = place

Up(r) == run[r].dir = "up"

\* Files in the order of their names, reversed for down.
First(dir) == IF dir = "up" THEN 1 ELSE 4
After(r)   == IF Up(r) THEN run[r].pos + 1 ELSE run[r].pos - 1

Over(r) == run[r].pos \notin Files

Goto(r, place) == run' = [run EXCEPT ![r].at = place]

Advance(r) == run' = [run EXCEPT ![r].at = "file", ![r].pos = After(r)]

Start(r, dir) ==
    /\ At(r, "idle")
    /\ run' = [run EXCEPT ![r] = [NoRun EXCEPT !.at = "load", !.dir = dir]]
    /\ clashed' = (clashed \/ \E q \in Runners : run[q].at # "idle" /\ run[q].dir # dir)
    /\ UNCHANGED <<objects, applied>>

\* The names come in their order, and nothing asks whether they came to an end.
Readings ==
    IF "db" \in Faults THEN {applied \intersect 1 .. n : n \in 0 .. 4} ELSE {applied}

\* The applied set is read once, and the files are listed.
Load(r) ==
    /\ At(r, "load")
    /\ \E names \in Readings :
        run' = [run EXCEPT ![r].at = "file", ![r].pos = First(run[r].dir),
                           ![r].loaded = names]
    /\ UNCHANGED <<objects, applied, clashed>>

\* Mutant: down skips as well what it takes to be applied.
SkippedEither(r) == run[r].pos \in run[r].loaded

\* Only up looks at the applied set.
Skipped(r) == Up(r) /\ run[r].pos \in run[r].loaded

Skip(r) ==
    /\ At(r, "file") /\ ~Over(r)
    /\ Skipped(r)
    /\ Advance(r)
    /\ UNCHANGED <<objects, applied, clashed>>

\* Two transactions wait for each other's locks when one works on a table that the
\* other creates, drops or refers to.
Locked(r) ==
    \E q \in Runners \ {r} :
        At(q, "tx") /\ (run[q].pos = run[r].pos \/ 1 \in {run[q].pos, run[r].pos})

Possible(r) == IF Up(r) THEN UpPossible(run[r].pos) ELSE DownPossible(run[r].pos)

\* Mutant: the statements of the file are not part of the transaction.
ExecOutside(r) ==
    /\ At(r, "file") /\ ~Over(r) /\ ~Skipped(r)
    /\ ~Locked(r) /\ Possible(r)
    /\ Goto(r, "tx")
    /\ objects' = IF Up(r) THEN objects \union Creates(run[r].pos)
                  ELSE objects \ Drops(run[r].pos)
    /\ UNCHANGED <<applied, clashed>>

\* The file's statements, in a transaction of their own.
Exec(r) ==
    /\ At(r, "file") /\ ~Over(r) /\ ~Skipped(r)
    /\ ~Locked(r) /\ Possible(r)
    /\ Goto(r, "tx")
    /\ UNCHANGED <<objects, applied, clashed>>

\* The record is written or deleted in the same transaction, which commits.
Commit(r) ==
    /\ At(r, "tx")
    /\ IF Up(r)
       THEN /\ objects' = objects \union Creates(run[r].pos)
            /\ applied' = applied \union {run[r].pos}
       ELSE /\ objects' = objects \ Drops(run[r].pos)
            /\ applied' = applied \ {run[r].pos}
    /\ Advance(r)
    /\ UNCHANGED clashed

\* Mutant: the run goes on with the next file.
FailsAndGoesOn(r) ==
    /\ \/ run[r].at # "idle" /\ "db" \in Faults
       \/ At(r, "file") /\ ~Over(r) /\ ~Skipped(r) /\ ~Locked(r) /\ ~Possible(r)
    /\ IF At(r, "load") THEN Goto(r, "idle") ELSE Advance(r)
    /\ UNCHANGED <<objects, applied, clashed>>

\* A statement fails: rollback, and the run is over.
Fails(r) ==
    /\ \/ run[r].at # "idle" /\ "db" \in Faults
       \/ At(r, "file") /\ ~Over(r) /\ ~Skipped(r) /\ ~Locked(r) /\ ~Possible(r)
    /\ run' = [run EXCEPT ![r] = NoRun]
    /\ UNCHANGED <<objects, applied, clashed>>

Crash(r) ==
    /\ "crash" \in Faults
    /\ run[r].at # "idle"
    /\ run' = [run EXCEPT ![r] = NoRun]
    /\ UNCHANGED <<objects, applied, clashed>>

\* "migrations complete"
Succeed(r) ==
    /\ At(r, "file") /\ Over(r)
    /\ run' = [run EXCEPT ![r] = NoRun]
    /\ UNCHANGED <<objects, applied, clashed>>

Next ==
    \E r \in Runners :
        \/ \E dir \in Directions : Start(r, dir)
        \/ Load(r) \/ Skip(r) \/ Exec(r) \/ Commit(r)
        \/ Fails(r) \/ Crash(r) \/ Succeed(r)

Spec == Init /\ [][Next]_vars

-----------------------------------------------------------------------------
(* Properties                                                              *)

\* Every variable has its type.
TypeOK ==
    /\ objects \subseteq Objects
    /\ applied \subseteq Files
    /\ run \in [Runners -> Runs]
    /\ clashed \in BOOLEAN

\* The record is true: what exists is exactly what the recorded files create, so
\* an up that skips a recorded file skips nothing it needs, wherever earlier runs
\* died or failed and however many runs of one direction share the database
\* (runAflowMigrations, one transaction per file).  A down that overlaps an up can
\* drop the table that a column recorded by the up belongs to.
RecordIsTrue ==
    ~clashed => objects = UNION {Creates(f) : f \in applied}

\* The recorded files are the first ones in their order: no run leaves a hole that
\* a later up would fill in the wrong order.
AppliedIsPrefix ==
    ~clashed => \A g \in applied : \A f \in Files : f < g => f \in applied

\* A run that reports success did all of its work, although the set it skips by was
\* read before the work of others, and perhaps not to its end: after an up everything
\* is applied, after a down nothing is (the exit status a deployment relies on).
SuccessIsComplete ==
    [][\A r \in Runners :
        At(r, "file") /\ Over(r) /\ ~clashed /\ run'[r].at = "idle" =>
            applied = IF Up(r) THEN Files ELSE {}]_vars
=============================================================================
