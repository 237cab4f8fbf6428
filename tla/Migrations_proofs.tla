------------------------- MODULE Migrations_proofs -------------------------
(***************************************************************************)
(* For any number of runs: what TLC checks of Migrations on two.            *)
(*                                                                          *)
(* The inductive invariant: while no up and no down have overlapped, all    *)
(* runs in progress go the same way, so the applied set only grows, or only *)
(* shrinks, behind the back of each of them, and every file that a run has  *)
(* passed is as it left it.                                                 *)
(***************************************************************************)
EXTENDS Migrations, TLAPS

Busy(r) == run[r].at # "idle"

Placed == \A r \in Runners : At(r, "tx") => run[r].pos \in Files

OneWay == \A q, r \in Runners : Busy(q) /\ Busy(r) => run[q].dir = run[r].dir

\* What a run has done: what is behind it, and what it skips by.
Passed(r) ==
    IF Up(r)
    THEN /\ run[r].pos >= 1
         /\ \A f \in Files : f < run[r].pos => f \in applied
         /\ run[r].loaded \subseteq applied
    ELSE /\ run[r].pos <= 4
         /\ \A f \in Files : f > run[r].pos => f \notin applied

AllPassed == \A r \in Runners : run[r].at \in {"file", "tx"} => Passed(r)

Record == objects = UNION {Creates(f) : f \in applied}

Prefix == \A g \in applied : \A f \in Files : f < g => f \in applied

TInv == TypeOK /\ Placed

IInv == TInv /\ (~clashed => OneWay /\ AllPassed /\ Record /\ Prefix)

-----------------------------------------------------------------------------
(* Types                                                                   *)

LEMMA NoRunType == NoRun \in Runs
<1>1. {} \in SUBSET Files
  OBVIOUS
<1> QED
  BY <1>1 DEF NoRun, Runs, Directions

LEMMA InitTypes == Init => TInv
<1> SUFFICES ASSUME Init PROVE TInv
  OBVIOUS
<1>1. run \in [Runners -> Runs]
  BY NoRunType DEF Init
<1>2. Placed
  BY DEF Init, Placed, NoRun, At
<1> QED
  BY <1>1, <1>2 DEF Init, TInv, TypeOK

\* A step of a run keeps the types: the place of a run is a file while its
\* transaction is open.
LEMMA NextTypes == TInv /\ [Next]_vars => TInv'
<1> SUFFICES ASSUME TInv, [Next]_vars PROVE TInv'
  OBVIOUS
<1> USE DEF TInv, TypeOK, Placed, At
<1>1. CASE UNCHANGED vars
  BY <1>1 DEF vars
<1>2. CASE Next
  <2> SUFFICES ASSUME NEW r \in Runners,
                      \/ \E dir \in Directions : Start(r, dir)
                      \/ Load(r) \/ Skip(r) \/ Exec(r) \/ Commit(r)
                      \/ Fails(r) \/ Crash(r) \/ Succeed(r)
               PROVE  TInv'
    BY <1>2 DEF Next
  <2>0. run[r] \in Runs
    OBVIOUS
  <2>1. ASSUME NEW dir \in Directions, Start(r, dir) PROVE TInv'
    <3>1. [NoRun EXCEPT !.at = "load", !.dir = dir] \in Runs
      BY <2>1, NoRunType DEF Runs, Directions
    <3>2. run' \in [Runners -> Runs]
      BY <2>1, <3>1 DEF Start
    <3>3. Placed'
      BY <2>1, <2>0, NoRunType DEF Start, Runs
    <3>4. clashed' \in BOOLEAN
      BY <2>1 DEF Start
    <3> QED
      BY <2>1, <3>2, <3>3, <3>4 DEF Start
  <2>2. CASE Load(r)
    <3>1. PICK names \in Readings :
            run' = [run EXCEPT ![r].at = "file", ![r].pos = First(run[r].dir),
                               ![r].loaded = names]
      BY <2>2 DEF Load
    <3>0. names \in SUBSET Files
      BY DEF Readings
    <3>2. First(run[r].dir) \in 0 .. 5
      BY DEF First
    <3>3. [run[r] EXCEPT !.at = "file", !.pos = First(run[r].dir), !.loaded = names] \in Runs
      BY <2>0, <3>0, <3>2 DEF Runs
    <3>4. run' \in [Runners -> Runs]
      BY <3>1, <3>3
    <3>5. Placed'
      BY <3>1, <2>0 DEF Runs
    <3> QED
      BY <2>2, <3>4, <3>5 DEF Load
  <2>3. CASE Skip(r)
    BY <2>3, <2>0 DEF Skip, Advance, After, Up, Over, Files, Runs, Directions
  <2>4. CASE Exec(r)
    BY <2>4, <2>0 DEF Exec, Goto, Over, Files, Runs
  <2>5. CASE Commit(r)
    <3>1. run[r].pos \in Files
      BY <2>5 DEF Commit
    <3>2. objects' \subseteq Objects
      BY <2>5, <3>1 DEF Commit, Creates, Files, Objects
    <3>3. applied' \subseteq Files
      BY <2>5, <3>1 DEF Commit
    <3>4. run' \in [Runners -> Runs] /\ Placed'
      BY <2>5, <2>0, <3>1 DEF Commit, Advance, After, Up, Files, Runs, Directions
    <3> QED
      BY <2>5, <3>2, <3>3, <3>4 DEF Commit
  <2>6. CASE Fails(r) \/ Crash(r) \/ Succeed(r)
    <3>1. run' = [run EXCEPT ![r] = NoRun] /\ UNCHANGED <<objects, applied, clashed>>
      BY <2>6 DEF Fails, Crash, Succeed
    <3>2. run' \in [Runners -> Runs]
      BY <3>1, NoRunType
    <3>3. Placed'
      BY <3>1 DEF NoRun
    <3> QED
      BY <3>1, <3>2, <3>3
  <2> QED
    BY <2>1, <2>2, <2>3, <2>4, <2>5, <2>6
<1> QED
  BY <1>1, <1>2

\* Every variable has its type, for any number of runs.
THEOREM MigrationTypes == Spec => []TypeOK
<1>1. TInv => TypeOK
  BY DEF TInv
<1> QED
  BY InitTypes, NextTypes, <1>1, PTL DEF Spec

-----------------------------------------------------------------------------
(* The record                                                              *)

LEMMA InitRecord == Init => IInv
<1> SUFFICES ASSUME Init PROVE IInv
  OBVIOUS
<1>1. TInv
  BY InitTypes
<1>2. \A r \in Runners : run[r].at = "idle"
  BY DEF Init, NoRun
<1>3. OneWay /\ AllPassed
  BY <1>2 DEF OneWay, AllPassed, Busy
<1>4. Record /\ Prefix
  BY DEF Init, Record, Prefix
<1> QED
  BY <1>1, <1>3, <1>4 DEF IInv

\* Committing an up adds to the record what it adds to the schema.
LEMMA UpKeepsRecord ==
  ASSUME Record, NEW f \in Files,
         objects' = objects \union Creates(f), applied' = applied \union {f}
  PROVE  Record'
BY DEF Record

\* Committing the down of the last recorded file takes out of the schema what the
\* record loses: no two files create the same, and the first drops what goes with
\* its table when nothing else is left.
LEMMA DownKeepsRecord ==
  ASSUME Record, applied \subseteq Files, NEW f \in Files,
         \A g \in Files : g > f => g \notin applied,
         objects' = objects \ Drops(f), applied' = applied \ {f}
  PROVE  Record'
<1>1. CASE f = 1
  <2>1. applied \subseteq {1}
    BY <1>1 DEF Files
  <2>2. objects \subseteq Creates(1)
    BY <2>1 DEF Record
  <2>3. applied' = {} /\ objects' = {}
    BY <1>1, <2>1, <2>2 DEF Drops
  <2> QED
    BY <2>3 DEF Record
<1>2. CASE f # 1
  <2>1. Drops(f) = Creates(f)
    BY <1>2 DEF Drops
  <2>2. \A g \in Files : g # f => Creates(g) \intersect Creates(f) = {}
    BY DEF Creates, Files
  <2>3. \A o : o \in objects' <=> \E g \in applied' : o \in Creates(g)
    <3> TAKE o
    <3>1. o \in objects <=> \E g \in applied : o \in Creates(g)
      BY DEF Record
    <3> QED
      BY <2>1, <2>2, <3>1
  <2> QED
    BY <2>3 DEF Record
<1> QED
  BY <1>1, <1>2

\* A step of one run leaves what the others have passed as it is, when they go the
\* same way; a step that changes nothing that is applied trivially so.
LEMMA OthersPassed ==
  ASSUME TInv, TInv', NEW r \in Runners, AllPassed,
         \A q \in Runners \ {r} : run'[q] = run[q],
         \/ applied' = applied
         \/ \A q \in Runners : Busy(q) => Up(q) /\ applied \subseteq applied'
         \/ \A q \in Runners : Busy(q) => ~Up(q) /\ applied' \subseteq applied,
         run'[r].at \in {"file", "tx"} => Passed(r)'
  PROVE  AllPassed'
<1> SUFFICES ASSUME NEW q \in Runners, q # r, run[q].at \in {"file", "tx"}
             PROVE  Passed(q)'
  BY DEF AllPassed
<1>1. Passed(q) /\ Busy(q) /\ run'[q] = run[q] /\ Up(q)' = Up(q)
  BY DEF AllPassed, Busy, Up
<1>2. CASE applied' = applied
  BY <1>1, <1>2 DEF Passed
<1>3. CASE Up(q) /\ applied \subseteq applied'
  BY <1>1, <1>3 DEF Passed
<1>4. CASE ~Up(q) /\ applied' \subseteq applied
  BY <1>1, <1>4 DEF Passed
<1> QED
  BY <1>1, <1>2, <1>3, <1>4

LEMMA NextRecord == IInv /\ [Next]_vars => IInv'
<1> SUFFICES ASSUME IInv, [Next]_vars PROVE IInv'
  OBVIOUS
<1>1. TInv /\ TInv'
  BY NextTypes DEF IInv
<1>2. CASE UNCHANGED vars
  <2>1. UNCHANGED <<OneWay, AllPassed, Record, Prefix, clashed>>
    BY <1>2 DEF vars, OneWay, AllPassed, Record, Prefix, Busy, Passed, Up
  <2> QED
    BY <1>1, <2>1 DEF IInv
<1>3. CASE Next
  <2> SUFFICES ASSUME ~clashed' PROVE OneWay' /\ AllPassed' /\ Record' /\ Prefix'
    BY <1>1 DEF IInv
  <2>0. PICK r \in Runners :
            \/ \E dir \in Directions : Start(r, dir)
            \/ Load(r) \/ Skip(r) \/ Exec(r) \/ Commit(r)
            \/ Fails(r) \/ Crash(r) \/ Succeed(r)
    BY <1>3 DEF Next
  <2>1. ~clashed
    BY <2>0, <1>1 DEF Start, Load, Skip, Exec, Commit, Fails, Crash, Succeed, TInv, TypeOK
  <2>2. OneWay /\ AllPassed /\ Record /\ Prefix
    BY <2>1 DEF IInv
  <2>3. run \in [Runners -> Runs] /\ applied \subseteq Files /\ run[r] \in Runs
    BY <1>1 DEF TInv, TypeOK
  <2>4. CASE \E dir \in Directions : Start(r, dir)
    <3>1. PICK dir \in Directions : Start(r, dir)
      BY <2>4
    <3>2. run'[r].at = "load" /\ run'[r].dir = dir /\ \A q \in Runners \ {r} : run'[q] = run[q]
      BY <3>1, <2>3 DEF Start, NoRun
    <3>3. \A q \in Runners \ {r} : Busy(q) => run[q].dir = dir
      BY <3>1, <1>1 DEF Start, TInv, TypeOK, Busy
    <3>4. OneWay'
      BY <3>2, <3>3, <2>2 DEF OneWay, Busy
    <3>5. UNCHANGED <<objects, applied>>
      BY <3>1 DEF Start
    <3>6. AllPassed'
      BY <3>2, <3>5, <1>1, <2>2, OthersPassed
    <3> QED
      BY <3>4, <3>5, <3>6, <2>2 DEF Record, Prefix
  <2>5. CASE Fails(r) \/ Crash(r) \/ Succeed(r)
    <3>1. run' = [run EXCEPT ![r] = NoRun] /\ UNCHANGED <<objects, applied>>
      BY <2>5 DEF Fails, Crash, Succeed
    <3>2. run'[r].at = "idle" /\ \A q \in Runners \ {r} : run'[q] = run[q]
      BY <3>1, <2>3 DEF NoRun
    <3>3. OneWay'
      BY <3>2, <2>2 DEF OneWay, Busy
    <3>4. AllPassed'
      BY <3>1, <3>2, <1>1, <2>2, OthersPassed
    <3> QED
      BY <3>1, <3>3, <3>4, <2>2 DEF Record, Prefix
  \* The other steps leave the direction of every run alone.
  <2>6. ASSUME Load(r) \/ Skip(r) \/ Exec(r) \/ Commit(r)
        PROVE  /\ OneWay' /\ \A q \in Runners \ {r} : run'[q] = run[q]
               /\ run'[r].dir = run[r].dir /\ Busy(r) /\ Busy(r)'
    <3>1. run'[r].dir = run[r].dir /\ \A q \in Runners \ {r} : run'[q] = run[q]
      BY <2>6, <2>3 DEF Load, Skip, Exec, Commit, Advance, Goto, Runs
    <3>2. Busy(r) /\ Busy(r)'
      BY <2>6, <2>3 DEF Load, Skip, Exec, Commit, Advance, Goto, Runs, At, Busy
    <3> QED
      BY <3>1, <3>2, <2>2 DEF OneWay, Busy
  <2>7. CASE Load(r)
    <3>0. PICK names \in Readings :
            run' = [run EXCEPT ![r].at = "file", ![r].pos = First(run[r].dir),
                               ![r].loaded = names]
      BY <2>7 DEF Load
    <3>1. /\ run'[r].pos = First(run[r].dir) /\ run'[r].loaded = names
          /\ names \subseteq applied /\ UNCHANGED <<objects, applied>>
      BY <3>0, <2>7, <2>3 DEF Load, Runs, Readings
    <3>2. Passed(r)'
      BY <3>1, <2>6, <2>7, <2>3 DEF Passed, First, Up, Files
    <3>3. AllPassed'
      BY <3>1, <3>2, <2>6, <2>7, <1>1, <2>2, OthersPassed
    <3> QED
      BY <3>1, <3>3, <2>6, <2>7, <2>2 DEF Record, Prefix
  <2>8. CASE Skip(r)
    <3>1. /\ Up(r) /\ run[r].pos \in applied /\ Passed(r) /\ run[r].pos \in Files
          /\ run'[r].pos = run[r].pos + 1 /\ run'[r].loaded = run[r].loaded
          /\ UNCHANGED <<objects, applied>>
      BY <2>8, <2>2, <2>3 DEF Skip, Skipped, AllPassed, Passed, At, Advance, After, Over, Up, Runs
    <3>2. Passed(r)'
      BY <3>1, <2>6, <2>8 DEF Passed, Up, Files
    <3>3. AllPassed'
      BY <3>1, <3>2, <2>6, <2>8, <1>1, <2>2, OthersPassed
    <3> QED
      BY <3>1, <3>3, <2>6, <2>8, <2>2 DEF Record, Prefix
  <2>9. CASE Exec(r)
    <3>1. /\ run[r].at = "file" /\ run'[r].pos = run[r].pos
          /\ run'[r].loaded = run[r].loaded /\ UNCHANGED <<objects, applied>>
      BY <2>9, <2>3 DEF Exec, Goto, At, Runs
    <3>2. Passed(r)'
      BY <3>1, <2>6, <2>9, <2>2 DEF Passed, AllPassed, Up
    <3>3. AllPassed'
      BY <3>1, <3>2, <2>6, <2>9, <1>1, <2>2, OthersPassed
    <3> QED
      BY <3>1, <3>3, <2>6, <2>9, <2>2 DEF Record, Prefix
  <2>10. CASE Commit(r)
    <3> DEFINE f == run[r].pos
    <3>1. f \in Files /\ Passed(r) /\ run'[r].loaded = run[r].loaded
      BY <2>10, <1>1, <2>2, <2>3 DEF Commit, At, TInv, Placed, AllPassed, Advance, Runs
    <3>2. \A q \in Runners : Busy(q) => (Up(q) <=> Up(r))
      BY <2>2, <2>6, <2>10 DEF OneWay, Up
    <3>3. CASE Up(r)
      <4>1. /\ objects' = objects \union Creates(f) /\ applied' = applied \union {f}
            /\ run'[r].pos = f + 1
        BY <2>10, <3>3, <2>3 DEF Commit, Advance, After, Runs
      <4>2. Passed(r)'
        BY <4>1, <3>1, <3>3, <2>6, <2>10 DEF Passed, Up, Files
      <4>3. AllPassed'
        BY <4>1, <4>2, <3>2, <3>3, <2>6, <2>10, <1>1, <2>2, OthersPassed
      <4>4. Record'
        BY <4>1, <3>1, <2>2, UpKeepsRecord
      <4>5. Prefix'
        BY <4>1, <3>1, <3>3, <2>2 DEF Prefix, Passed
      <4> QED
        BY <4>3, <4>4, <4>5, <2>6, <2>10
    <3>4. CASE ~Up(r)
      <4>1. /\ objects' = objects \ Drops(f) /\ applied' = applied \ {f}
            /\ run'[r].pos = f - 1
        BY <2>10, <3>4, <2>3 DEF Commit, Advance, After, Runs
      <4>2. Passed(r)'
        BY <4>1, <3>1, <3>4, <2>6, <2>10 DEF Passed, Up, Files
      <4>3. AllPassed'
        BY <4>1, <4>2, <3>2, <3>4, <2>6, <2>10, <1>1, <2>2, OthersPassed
      <4>4. \A g \in Files : g > f => g \notin applied
        BY <3>1, <3>4 DEF Passed
      <4>5. Record'
        BY <4>1, <4>4, <3>1, <2>2, <2>3, DownKeepsRecord
      <4>6. Prefix'
        BY <4>1, <4>4, <2>2, <2>3 DEF Prefix, Files
      <4> QED
        BY <4>3, <4>5, <4>6, <2>6, <2>10
    <3> QED
      BY <3>3, <3>4
  <2> QED
    BY <2>0, <2>4, <2>5, <2>7, <2>8, <2>9, <2>10
<1> QED
  BY <1>2, <1>3

\* What exists is what the recorded files create, for any number of runs of the
\* command that die or fail anywhere, unless an up and a down have overlapped.
THEOREM TheRecordIsTrue == Spec => []RecordIsTrue
<1>1. IInv => RecordIsTrue
  BY DEF IInv, RecordIsTrue, Record
<1> QED
  BY InitRecord, NextRecord, <1>1, PTL DEF Spec

\* The recorded files have no hole, for any number of runs.
THEOREM NoHoles == Spec => []AppliedIsPrefix
<1>1. IInv => AppliedIsPrefix
  BY DEF IInv, AppliedIsPrefix, Prefix
<1> QED
  BY InitRecord, NextRecord, <1>1, PTL DEF Spec

\* A run that reports success leaves everything applied, or nothing, for any number
\* of runs.
THEOREM SuccessMeansDone == Spec => SuccessIsComplete
<1>1. IInv /\ [Next]_vars =>
        [\A r \in Runners :
            At(r, "file") /\ Over(r) /\ ~clashed /\ run'[r].at = "idle" =>
                applied = IF Up(r) THEN Files ELSE {}]_vars
  <2> SUFFICES ASSUME IInv, NEW r \in Runners, At(r, "file"), Over(r), ~clashed
               PROVE  applied = IF Up(r) THEN Files ELSE {}
    OBVIOUS
  <2>1. Passed(r) /\ run[r] \in Runs /\ applied \subseteq Files
    BY DEF IInv, TInv, TypeOK, AllPassed, At
  <2>2. CASE Up(r)
    <3>1. run[r].pos = 5
      BY <2>1, <2>2 DEF Passed, Over, Files, Runs
    <3>2. \A f \in Files : f \in applied
      BY <2>1, <2>2, <3>1 DEF Passed, Files
    <3> QED
      BY <2>1, <2>2, <3>2
  <2>3. CASE ~Up(r)
    <3>1. run[r].pos = 0
      BY <2>1, <2>3 DEF Passed, Over, Files, Runs
    <3>2. \A f \in Files : f \notin applied
      BY <2>1, <2>3, <3>1 DEF Passed, Files
    <3> QED
      BY <2>1, <2>3, <3>2
  <2> QED
    BY <2>2, <2>3
<1> QED
  BY InitRecord, NextRecord, <1>1, PTL DEF Spec, SuccessIsComplete
=============================================================================
