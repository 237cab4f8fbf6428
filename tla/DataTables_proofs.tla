------------------------- MODULE DataTables_proofs -------------------------
(***************************************************************************)
(* Proofs about DataTables, for any number of concurrent requests, of       *)
(* workspaces, of tables and of rows, with or without failing statements.   *)
(***************************************************************************)
EXTENDS DataTables, FiniteSetTheorems, WellFoundedInduction, TLAPS

\* A request that writes data has passed the check for it.
DataGiven ==
    \A c \in Callers : call[c].at = "act" => ~WithoutData(call[c].req)

Types == TypeOK /\ DataGiven

\* An id names one table and is never drawn again.
IdsAreUnique ==
    /\ \A t, u \in tables : t.id = u.id => t = u
    /\ \A t \in tables : t.id \in usedTables

\* What the check of an insert saw still holds of any table that bears the id: the
\* table may be gone, but the id cannot have gone to another workspace.
CheckHolds ==
    \A c \in Callers : Acts(c, "insertRow") =>
        /\ call[c].req.table \in usedTables
        /\ \A t \in tables : t.id = call[c].req.table => t.ws = call[c].req.ws

IInv == Types /\ IdsAreUnique /\ CheckHolds /\ RowsBelongToTheirTable

Changed(c) == \A d \in Callers \ {c} : call'[d] = call[d]

-----------------------------------------------------------------------------
(* Types                                                                   *)

\* The fields a request has.
LEMMA RequestTypes ==
    ASSUME NEW req \in Requests
    PROVE  /\ req.op \in {"createTable", "listTables", "deleteTable", "getTable",
                          "listRows", "insertRow", "updateRow", "deleteRow"}
           /\ req.ws \in Workspaces
           /\ req.op \notin {"createTable", "listTables"} => req.table \in Tables
           /\ req.op \in {"insertRow", "updateRow"} => req.data \in Bodies
           /\ req.op \in {"updateRow", "deleteRow"} => req.row \in RowIds
BY DEF Requests

\* An error is answered with a status of the type.
LEMMA StatusTypes ==
    ASSUME NEW error \in {"ErrNotFound", "ErrRowNotFound", "other"}
    PROVE  StatusOf(error) \in {404, 500}
BY DEF StatusOf

\* A call that begins, with the request it was given.
LEMMA BeginTypes ==
    ASSUME NEW c \in Callers, NEW req \in Requests, Types, Begin(c, req)
    PROVE  Types'
<1>1. call' = [call EXCEPT ![c] = call'[c]] /\ call'[c] \in Busy
  BY DEF Begin, Types, TypeOK, Busy
<1>2. call'[c].at = "act" => ~WithoutData(call'[c].req)
  BY DEF Begin, Types, TypeOK, WithoutData, Checked
<1>3. TypeOK'
  BY <1>1 DEF Types, TypeOK, Begin, Unchanged
<1>4. DataGiven'
  BY <1>1, <1>2 DEF Types, TypeOK, DataGiven, WithoutData
<1> QED
  BY <1>3, <1>4 DEF Types

\* A call that is answered.
LEMMA AnswerTypes ==
    ASSUME NEW c \in Callers, Types,
           NEW answer \in Idle, AnswerWith(c, answer)
    PROVE  /\ call' \in [Callers -> Idle \union Busy]
           /\ DataGiven'
           /\ call'[c] = answer
           /\ Changed(c)
<1>1. call' = [call EXCEPT ![c] = answer] /\ call \in [Callers -> Idle \union Busy]
  BY DEF AnswerWith, Types, TypeOK
<1>2. answer.at # "act"
  BY DEF Idle
<1> QED
  BY <1>1, <1>2 DEF Types, DataGiven, WithoutData, Changed

\* The requests, one by one.
LEMMA RequestBegins ==
    ASSUME NEW c \in Callers, NEW ws \in Workspaces, Request(c, ws)
    PROVE  \E req \in Requests : Begin(c, req)
<1>1. CASE PostTable(c, ws) \/ GetTables(c, ws)
  BY <1>1 DEF PostTable, GetTables, Requests
<1>2. CASE \E table \in Tables : GetTableRequest(c, ws, table)
  BY <1>2 DEF GetTableRequest, Requests
<1>3. CASE \E table \in Tables : DeleteTableRequest(c, ws, table)
  BY <1>3 DEF DeleteTableRequest, Requests
<1>4. CASE \E table \in Tables : PostRow(c, ws, table)
  BY <1>4 DEF PostRow, Requests
<1>5. CASE \E table \in Tables : GetRows(c, ws, table)
  BY <1>5 DEF GetRows, Requests
<1>6. CASE \E table \in Tables : PatchRow(c, ws, table)
  BY <1>6 DEF PatchRow, Requests
<1>7. CASE \E table \in Tables : DeleteRowRequest(c, ws, table)
  BY <1>7 DEF DeleteRowRequest, Requests
<1> QED
  BY <1>1, <1>2, <1>3, <1>4, <1>5, <1>6, <1>7 DEF Request

\* The rows and tables a statement leaves.
LEMMA StatementTypes ==
    ASSUME Types, NEW ws \in Workspaces, NEW id \in Tables
    PROVE  /\ DeleteDataTable(ws, id) \subseteq TableRows
           /\ CreateDataTable(ws, id) \subseteq TableRows
           /\ \A left : Cascade(left) \subseteq DataRows
           /\ ListDataTableRows(ws, id) \subseteq DataRows
           /\ \A row \in RowIds : DeleteDataTableRow(ws, id, row) \subseteq DataRows
           /\ \A row \in RowIds, data \in Values :
                UpdateDataTableRow(ws, id, row, data) \subseteq DataRows
<1>1. /\ \A left : Cascade(left) \subseteq DataRows
      /\ ListDataTableRows(ws, id) \subseteq DataRows
      /\ \A row \in RowIds : DeleteDataTableRow(ws, id, row) \subseteq DataRows
      /\ DeleteDataTable(ws, id) \subseteq TableRows
      /\ CreateDataTable(ws, id) \subseteq TableRows
  BY DEF Types, TypeOK, Cascade, ListDataTableRows, DeleteDataTableRow, DeleteDataTable,
         CreateDataTable, TableRows
<1>2. ASSUME NEW row \in RowIds, NEW data \in Values
      PROVE  UpdateDataTableRow(ws, id, row, data) \subseteq DataRows
  <2>1. ASSUME NEW r \in rows PROVE [r EXCEPT !.data = data] \in DataRows
    BY DEF Types, TypeOK, DataRows
  <2> QED
    BY <2>1 DEF UpdateDataTableRow, RowOf, Types, TypeOK
<1> QED
  BY <1>1, <1>2

Statuses == {200, 201, 204, 404, 500}

Listed == (SUBSET DataRows) \union (SUBSET TableRows)

LEMMA NoCallType == NoCall \in Idle
<1>1. {} \in (SUBSET DataRows) \union (SUBSET TableRows)
  OBVIOUS
<1> QED
  BY <1>1 DEF NoCall, Idle

LEMMA StatusType ==
    ASSUME NEW status \in Statuses
    PROVE  [NoCall EXCEPT !.status = status] \in Idle
<1>1. status \in {0, 200, 201, 204, 404, 500}
  BY DEF Statuses
<1> QED
  BY <1>1, NoCallType DEF Idle

LEMMA ListedType ==
    ASSUME NEW listed \in Listed
    PROVE  [NoCall EXCEPT !.status = 200, !.listed = listed] \in Idle
<1> DEFINE answer == [NoCall EXCEPT !.status = 200]
<1>1. answer \in Idle
  BY StatusType DEF Statuses
<1>2. [answer EXCEPT !.listed = listed] \in Idle
  <2> HIDE DEF answer
  <2> QED
    BY <1>1, SMTT(40) DEF Idle, Listed
<1>3. [answer EXCEPT !.listed = listed] = [NoCall EXCEPT !.status = 200, !.listed = listed]
  BY DEF NoCall
<1> QED
  BY <1>2, <1>3

LEMMA FaultType ==
    ASSUME NEW status \in Statuses
    PROVE  [NoCall EXCEPT !.status = status, !.fault = TRUE] \in Idle
<1> DEFINE answer == [NoCall EXCEPT !.status = status]
<1>1. answer \in Idle
  BY StatusType
<1>2. [answer EXCEPT !.fault = TRUE] \in Idle
  <2> HIDE DEF answer
  <2> QED
    BY <1>1, ZenonT(60) DEF Idle
<1>3. [answer EXCEPT !.fault = TRUE] = [NoCall EXCEPT !.status = status, !.fault = TRUE]
  BY DEF NoCall
<1> QED
  BY <1>2, <1>3

\* An answer of one of the statuses.
LEMMA Answered ==
    ASSUME NEW c \in Callers, NEW status \in Statuses, Types, Answer(c, status)
    PROVE  /\ call' \in [Callers -> Idle \union Busy] /\ DataGiven'
           /\ call'[c] \in Idle /\ call'[c].status = status /\ ~call'[c].fault
           /\ Changed(c)
<1>1. [NoCall EXCEPT !.status = status] \in Idle
  BY StatusType
<1>2. /\ [NoCall EXCEPT !.status = status].status = status
      /\ ~[NoCall EXCEPT !.status = status].fault
  BY DEF NoCall
<1>3. AnswerWith(c, [NoCall EXCEPT !.status = status])
  BY DEF Answer
<1> QED
  BY <1>1, <1>2, <1>3, AnswerTypes

\* The request of a call in progress.
LEMMA BusyTypes ==
    ASSUME Types, NEW c \in Callers, call[c].at \in {"check", "act"}
    PROVE  call[c] \in Busy /\ call[c].req \in Requests
BY DEF Types, TypeOK, Idle, Busy

\* An answer that is not of the check leaves the other calls alone and ends its own.
Ends(c) == Changed(c) /\ call'[c].at = "idle"

\* What each step of a call does to the calls and the types.
LEMMA StepTypes ==
    ASSUME Types, NEW c \in Callers, CallStep(c)
    PROVE  /\ Types'
           /\ \/ Ends(c)
              \/ /\ CheckTable(c) /\ Unchanged /\ Changed(c)
                 /\ GetDataTable(call[c].req.ws, call[c].req.table) # {}
                 /\ call'[c].req = call[c].req
<1> DEFINE req == call[c].req
<1>0. call[c].at # "idle"
  BY DEF CallStep, CheckTable, CreateTable, ListTables, GetTable, DeleteTable, InsertRow,
         ListRows, UpdateRow, DeleteRow, StatementFails, Acts
<1>1. req \in Requests /\ call[c] \in Busy
  BY <1>0, BusyTypes DEF Types, TypeOK, Idle, Busy
<1>2. /\ tables \subseteq TableRows /\ rows \subseteq DataRows /\ usedTables \subseteq Tables
      /\ inserted \in 0 .. MaxRows /\ MaxRows \in Nat
      /\ call \in [Callers -> Idle \union Busy]
  BY DataTablesAssumption DEF Types, TypeOK
<1>3. \A status \in Statuses : Answer(c, status) =>
          call' \in [Callers -> Idle \union Busy] /\ DataGiven' /\ Ends(c)
  BY Answered DEF Ends, Idle
<1>4. StatusOf("other") \in Statuses /\ StatusOf("ErrNotFound") \in Statuses
      /\ StatusOf("ErrRowNotFound") \in Statuses
  BY DEF StatusOf, Statuses
<1>5. 200 \in Statuses /\ 201 \in Statuses /\ 204 \in Statuses
  BY DEF Statuses
<1>6. \A listed \in Listed : AnswerWith(c, [NoCall EXCEPT !.status = 200, !.listed = listed])
        => call' \in [Callers -> Idle \union Busy] /\ DataGiven' /\ Ends(c)
  <2> SUFFICES ASSUME NEW listed \in Listed,
                      AnswerWith(c, [NoCall EXCEPT !.status = 200, !.listed = listed])
               PROVE  call' \in [Callers -> Idle \union Busy] /\ DataGiven' /\ Ends(c)
    OBVIOUS
  <2> DEFINE answer == [NoCall EXCEPT !.status = 200, !.listed = listed]
  <2>1. answer \in Idle
    BY ListedType
  <2>2. AnswerWith(c, answer)
    OBVIOUS
  <2> HIDE DEF answer
  <2>3. answer.at = "idle"
    BY <2>1 DEF Idle
  <2> QED
    BY <2>1, <2>2, <2>3, AnswerTypes DEF Ends
<1>10. CASE CheckTable(c)
  <2>1. CASE call' = [call EXCEPT ![c].at = "act"]
             /\ GetDataTable(req.ws, req.table) # {} /\ ~WithoutData(req)
    <3>1. call'[c] = [call[c] EXCEPT !.at = "act"] /\ Changed(c)
      BY <2>1, <1>2 DEF Changed
    <3>2. call'[c] \in Busy /\ call'[c].req = req
      BY <3>1, <1>1 DEF Busy
    <3>3. TypeOK'
      BY <1>10, <2>1, <3>2, <1>2 DEF CheckTable, Unchanged, TypeOK
    <3>4. DataGiven'
      BY <2>1, <3>1, <3>2 DEF Types, DataGiven, Changed, WithoutData
    <3> QED
      BY <1>10, <2>1, <3>1, <3>2, <3>3, <3>4 DEF Types, CheckTable
  <2>2. CASE Answer(c, StatusOf("ErrNotFound")) \/ Answer(c, StatusOf("other"))
    BY <1>10, <2>2, <1>2, <1>3, <1>4 DEF CheckTable, Unchanged, Types, TypeOK
  <2> QED
    BY <1>10, <2>1, <2>2 DEF CheckTable
<1>11. CASE CreateTable(c)
  <2>1. req.op = "createTable" /\ req.ws \in Workspaces
    BY <1>11, <1>1, RequestTypes DEF CreateTable, Acts
  <2>2. tables' \subseteq TableRows /\ usedTables' \subseteq Tables
    BY <1>11, <2>1, <1>2 DEF CreateTable, CreateDataTable, TableRows
  <2> QED
    BY <1>11, <2>2, <1>2, <1>3, <1>5 DEF CreateTable, Types, TypeOK
<1>12. CASE ListTables(c)
  <2>1. ListDataTables(req.ws) \in Listed
    BY <1>2 DEF ListDataTables, Listed
  <2> QED
    BY <1>12, <2>1, <1>2, <1>6 DEF ListTables, Unchanged, Types, TypeOK
<1>13. CASE GetTable(c)
  BY <1>13, <1>2, <1>3, <1>4, <1>5 DEF GetTable, Unchanged, Types, TypeOK
<1>14. CASE DeleteTable(c)
  <2>1. tables' \subseteq TableRows /\ rows' \subseteq DataRows
    BY <1>14, <1>2 DEF DeleteTable, DeleteDataTable, Cascade
  <2> QED
    BY <1>14, <2>1, <1>2, <1>3, <1>5 DEF DeleteTable, Types, TypeOK
<1>15. CASE InsertRow(c)
  <2>1. CASE UNCHANGED <<rows, inserted>> /\ Answer(c, StatusOf("other"))
    BY <1>15, <2>1, <1>2, <1>3, <1>4 DEF InsertRow, Types, TypeOK
  <2>2. CASE /\ inserted < MaxRows
             /\ rows' = InsertDataTableRow(req.ws, req.table, req.data)
             /\ inserted' = inserted + 1
             /\ Answer(c, 201)
    <3>1. req.ws \in Workspaces /\ req.table \in Tables /\ req.data \in Values
      BY <1>15, <1>1, RequestTypes DEF InsertRow, Acts, Types, DataGiven, WithoutData, Bodies
    <3>2. inserted' \in 0 .. MaxRows /\ inserted + 1 \in RowIds
      BY <2>2, <1>2 DEF RowIds
    <3>3. rows' \subseteq DataRows
      BY <2>2, <3>1, <3>2, <1>2 DEF InsertDataTableRow, DataRows
    <3> QED
      BY <1>15, <2>2, <3>2, <3>3, <1>2, <1>3, <1>5 DEF InsertRow, Types, TypeOK
  <2> QED
    BY <1>15, <2>1, <2>2 DEF InsertRow
<1>16. CASE ListRows(c)
  <2>1. ListDataTableRows(req.ws, req.table) \in Listed
    BY <1>2 DEF ListDataTableRows, Listed
  <2> QED
    BY <1>16, <2>1, <1>2, <1>6 DEF ListRows, Unchanged, Types, TypeOK
<1>17. CASE UpdateRow(c)
  <2>1. /\ req.ws \in Workspaces /\ req.table \in Tables /\ req.row \in RowIds
        /\ req.data \in Values
    BY <1>17, <1>1, RequestTypes DEF UpdateRow, Acts, Types, DataGiven, WithoutData, Bodies
  <2>2. rows' \subseteq DataRows
    BY <1>17, <2>1, StatementTypes DEF UpdateRow
  <2> QED
    BY <1>17, <2>2, <1>2, <1>3, <1>4, <1>5 DEF UpdateRow, Types, TypeOK
<1>18. CASE DeleteRow(c)
  <2>1. rows' \subseteq DataRows
    BY <1>18, <1>2 DEF DeleteRow, DeleteDataTableRow
  <2> QED
    BY <1>18, <2>1, <1>2, <1>3, <1>5 DEF DeleteRow, Types, TypeOK
<1>19. CASE StatementFails(c)
  <2> DEFINE answer == [NoCall EXCEPT !.status = StatusOf("other"), !.fault = TRUE]
  <2>1. answer \in Idle
    BY FaultType, <1>4
  <2>3. AnswerWith(c, answer)
    BY <1>19 DEF StatementFails
  <2> HIDE DEF answer
  <2>4. answer.at = "idle"
    BY <2>1 DEF Idle
  <2>2. call' \in [Callers -> Idle \union Busy] /\ DataGiven' /\ Ends(c)
    BY <2>1, <2>3, <2>4, AnswerTypes DEF Ends
  <2> QED
    BY <1>19, <2>2, <1>2 DEF StatementFails, Unchanged, Types, TypeOK
<1> QED
  BY <1>10, <1>11, <1>12, <1>13, <1>14, <1>15, <1>16, <1>17, <1>18, <1>19 DEF CallStep

LEMMA InitInv == Init => IInv
<1> SUFFICES ASSUME Init PROVE IInv
  OBVIOUS
<1>1. call \in [Callers -> Idle \union Busy]
  BY NoCallType DEF Init
<1>2. DataGiven /\ CheckHolds
  BY DEF Init, DataGiven, CheckHolds, Acts, NoCall
<1>3. IdsAreUnique /\ RowsBelongToTheirTable
  BY DEF Init, IdsAreUnique, RowsBelongToTheirTable
<1>4. TypeOK
  BY <1>1, DataTablesAssumption DEF Init, TypeOK
<1> QED
  BY <1>2, <1>3, <1>4 DEF IInv, Types

\* A request that begins is not beyond the check of an insert.
LEMMA RequestKeepsInv ==
    ASSUME IInv, NEW c \in Callers, NEW ws \in Workspaces, Request(c, ws)
    PROVE  IInv'
<1>1. PICK req \in Requests : Begin(c, req)
  BY RequestBegins
<1>2. Types'
  BY <1>1, BeginTypes DEF IInv
<1>3. /\ UNCHANGED <<tables, rows, usedTables>> /\ Changed(c)
      /\ ~(call'[c].at = "act" /\ call'[c].req.op = "insertRow")
  BY <1>1 DEF Begin, Unchanged, Changed, Checked, IInv, Types, TypeOK
<1>4. CheckHolds'
  BY <1>3 DEF IInv, CheckHolds, Acts, Changed
<1>5. IdsAreUnique' /\ RowsBelongToTheirTable'
  BY <1>3 DEF IInv, IdsAreUnique, RowsBelongToTheirTable
<1> QED
  BY <1>2, <1>4, <1>5 DEF IInv

\* What was checked stays true of the calls in progress while tables only go, or one
\* comes under an id that was never used.
LEMMA ChecksStay ==
    ASSUME IInv, NEW c \in Callers, Ends(c), usedTables \subseteq usedTables',
           \A t \in tables' : t \in tables \/ t.id \notin usedTables
    PROVE  CheckHolds'
BY DEF IInv, CheckHolds, Acts, Ends, Changed

\* Each statement leaves the rows of every table with that table's workspace.
LEMMA StepKeepsInv ==
    ASSUME IInv, NEW c \in Callers, CallStep(c)
    PROVE  IInv'
<1>1. Types'
  BY StepTypes DEF IInv
<1>2. CASE /\ CheckTable(c) /\ Unchanged /\ Changed(c)
           /\ GetDataTable(call[c].req.ws, call[c].req.table) # {}
           /\ call'[c].req = call[c].req
  <2>1. \E t \in tables : t.id = call[c].req.table /\ t.ws = call[c].req.ws
    BY <1>2 DEF GetDataTable
  <2>2. CheckHolds'
    BY <1>2, <2>1 DEF IInv, CheckHolds, IdsAreUnique, Acts, Changed, Unchanged
  <2> QED
    BY <1>1, <1>2, <2>2 DEF IInv, Unchanged, IdsAreUnique, RowsBelongToTheirTable
<1>3. CASE Ends(c)
  <2>1. CASE CheckTable(c) \/ ListTables(c) \/ GetTable(c) \/ ListRows(c) \/ StatementFails(c)
    <3>1. UNCHANGED <<tables, rows, usedTables>>
      BY <2>1 DEF CheckTable, ListTables, GetTable, ListRows, StatementFails, Unchanged
    <3>2. CheckHolds'
      BY <1>3, <3>1, ChecksStay
    <3> QED
      BY <1>1, <3>1, <3>2 DEF IInv, IdsAreUnique, RowsBelongToTheirTable
  <2>2. CASE CreateTable(c)
    <3>1. PICK id \in Tables \ usedTables :
            /\ tables' = tables \union {[id |-> id, ws |-> call[c].req.ws]}
            /\ usedTables' = usedTables \union {id} /\ rows' = rows
      BY <2>2 DEF CreateTable, CreateDataTable
    <3>2. CheckHolds'
      BY <1>3, <3>1, ChecksStay
    <3>3. IdsAreUnique'
      BY <3>1 DEF IInv, IdsAreUnique
    <3>4. RowsBelongToTheirTable'
      BY <3>1 DEF IInv, RowsBelongToTheirTable
    <3> QED
      BY <1>1, <3>2, <3>3, <3>4 DEF IInv
  <2>3. CASE DeleteTable(c)
    <3>1. /\ tables' \subseteq tables /\ usedTables' = usedTables
          /\ rows' = {r \in rows : \E t \in tables' : t.id = r.table}
      BY <2>3 DEF DeleteTable, DeleteDataTable, Cascade
    <3>2. CheckHolds'
      BY <1>3, <3>1, ChecksStay
    <3>3. IdsAreUnique'
      BY <3>1 DEF IInv, IdsAreUnique
    <3>4. RowsBelongToTheirTable'
      BY <3>1 DEF IInv, RowsBelongToTheirTable, IdsAreUnique
    <3> QED
      BY <1>1, <3>2, <3>3, <3>4 DEF IInv
  <2>4. CASE InsertRow(c) \/ UpdateRow(c) \/ DeleteRow(c)
    <3>1. UNCHANGED <<tables, usedTables>>
      BY <2>4 DEF InsertRow, UpdateRow, DeleteRow
    <3>2. CheckHolds'
      BY <1>3, <3>1, ChecksStay
    <3>3. RowsBelongToTheirTable'
      <4>1. CASE InsertRow(c)
        <5>1. CheckHolds /\ Acts(c, "insertRow")
          BY <4>1 DEF IInv, InsertRow
        <5> QED
          BY <4>1, <3>1, <5>1
             DEF IInv, InsertRow, InsertDataTableRow, RowsBelongToTheirTable, CheckHolds
      <4>2. CASE UpdateRow(c)
        <5>1. \A r \in rows' : \E q \in rows : r.table = q.table /\ r.ws = q.ws
          BY <4>2 DEF UpdateRow, UpdateDataTableRow, RowOf, IInv, Types, TypeOK, DataRows
        <5> QED
          BY <5>1, <3>1 DEF IInv, RowsBelongToTheirTable
      <4>3. CASE DeleteRow(c)
        BY <4>3, <3>1 DEF IInv, DeleteRow, DeleteDataTableRow, RowsBelongToTheirTable
      <4> QED
        BY <2>4, <4>1, <4>2, <4>3
    <3> QED
      BY <1>1, <3>1, <3>2, <3>3 DEF IInv, IdsAreUnique
  <2> QED
    BY <2>1, <2>2, <2>3, <2>4 DEF CallStep
<1> QED
  BY <1>2, <1>3, StepTypes DEF IInv

LEMMA NextInv == IInv /\ [Next]_vars => IInv'
<1> SUFFICES ASSUME IInv, [Next]_vars PROVE IInv'
  OBVIOUS
<1>1. CASE UNCHANGED vars
  BY <1>1 DEF vars, IInv, Types, TypeOK, DataGiven, WithoutData, IdsAreUnique, CheckHolds,
              Acts, RowsBelongToTheirTable
<1>2. CASE Next
  BY <1>2, StepKeepsInv, RequestKeepsInv DEF Next
<1> QED
  BY <1>1, <1>2

-----------------------------------------------------------------------------
(* The rows of a list                                                      *)

\* A row keeps the number that it was inserted under, which no other row has.
RowsAreNumbered ==
    /\ IsFiniteSet(rows)
    /\ \A r \in rows : r.id <= inserted
    /\ \A q, r \in rows : q.id = r.id => q = r

LEMMA RowIdTypes == ASSUME Types PROVE \A r \in rows : r.id \in Nat
BY DataTablesAssumption DEF Types, TypeOK, DataRows, RowIds

\* The statements of one row: an insert draws the next number, an update keeps it.
LEMMA StepKeepsNumbers ==
    ASSUME Types, RowsAreNumbered, NEW c \in Callers, CallStep(c)
    PROVE  RowsAreNumbered'
<1> DEFINE req == call[c].req
<1>0. inserted \in Nat /\ rows \subseteq DataRows
  BY DataTablesAssumption DEF Types, TypeOK
<1>1. ASSUME rows' \subseteq rows, inserted' = inserted PROVE RowsAreNumbered'
  <2>1. IsFiniteSet(rows')
    BY <1>1, FS_Subset DEF RowsAreNumbered
  <2> QED
    BY <1>1, <2>1 DEF RowsAreNumbered
<1>2. CASE \/ CheckTable(c) \/ ListTables(c) \/ GetTable(c) \/ ListRows(c)
           \/ StatementFails(c)
  BY <1>1, <1>2 DEF CheckTable, ListTables, GetTable, ListRows, StatementFails, Unchanged
<1>3. CASE CreateTable(c)
  BY <1>1, <1>3 DEF CreateTable
<1>4. CASE DeleteTable(c)
  BY <1>1, <1>4 DEF DeleteTable, Cascade
<1>5. CASE DeleteRow(c)
  BY <1>1, <1>5 DEF DeleteRow, DeleteDataTableRow
<1>6. CASE InsertRow(c)
  <2>1. CASE UNCHANGED <<rows, inserted>>
    BY <1>1, <2>1
  <2>2. CASE /\ rows' = InsertDataTableRow(req.ws, req.table, req.data)
             /\ inserted' = inserted + 1
    <3>1. PICK new : rows' = rows \union {new} /\ new.id = inserted + 1
      <4> DEFINE new == [id |-> inserted + 1, table |-> req.table, ws |-> req.ws,
                         data |-> req.data]
      <4>1. new.id = inserted + 1 /\ rows' = rows \union {new}
        BY <2>2 DEF InsertDataTableRow
      <4> HIDE DEF new
      <4> QED
        BY <4>1
    <3>2. IsFiniteSet(rows')
      BY <3>1, FS_AddElement DEF RowsAreNumbered
    <3>3. \A r \in rows : r.id \in Nat /\ r.id < inserted + 1
      BY <1>0, RowIdTypes DEF RowsAreNumbered
    <3>4. \A r \in rows' : r.id <= inserted'
      BY <1>0, <2>2, <3>1, <3>3
    <3>5. \A q, r \in rows' : q.id = r.id => q = r
      BY <1>0, <3>1, <3>3 DEF RowsAreNumbered
    <3> QED
      BY <3>2, <3>4, <3>5 DEF RowsAreNumbered
  <2> QED
    BY <1>6, <2>1, <2>2 DEF InsertRow
<1>7. CASE UpdateRow(c)
  <2> DEFINE old == RowOf(req.ws, req.table, req.row)
  <2>1. rows' = (rows \ old) \union {[r EXCEPT !.data = req.data] : r \in old}
        /\ inserted' = inserted
    BY <1>7 DEF UpdateRow, UpdateDataTableRow
  <2>2. CASE old = {}
    BY <1>1, <2>1, <2>2
  <2>3. CASE old # {}
    <3>1. PICK r \in old : TRUE
      BY <2>3
    <3>2. old = {r} /\ r \in rows
      BY <3>1 DEF RowOf, RowsAreNumbered
    <3> DEFINE new == [r EXCEPT !.data = req.data]
    <3>3. rows' = (rows \ {r}) \union {new} /\ new.id = r.id
      <4>1. new.id = r.id
        BY <1>0, <3>2 DEF DataRows
      <4>2. {[q EXCEPT !.data = req.data] : q \in {r}} = {new}
        OBVIOUS
      <4> QED
        BY <2>1, <3>2, <4>1, <4>2
    <3> HIDE DEF new, old
    <3>4. IsFiniteSet(rows')
      BY <3>3, FS_AddElement, FS_RemoveElement DEF RowsAreNumbered
    <3>5. \A q \in rows' : q.id <= inserted'
      BY <2>1, <3>2, <3>3 DEF RowsAreNumbered
    <3>6. \A p, q \in rows' : p.id = q.id => p = q
      BY <3>2, <3>3 DEF RowsAreNumbered
    <3> QED
      BY <3>4, <3>5, <3>6 DEF RowsAreNumbered
  <2> QED
    BY <2>2, <2>3
<1> QED
  BY <1>2, <1>3, <1>4, <1>5, <1>6, <1>7 DEF CallStep

LEMMA NumbersHold == Spec => []RowsAreNumbered
<1>1. Init => RowsAreNumbered
  BY FS_EmptySet DEF Init, RowsAreNumbered
<1>2. IInv /\ RowsAreNumbered /\ [Next]_vars => RowsAreNumbered'
  <2> SUFFICES ASSUME IInv, RowsAreNumbered, [Next]_vars PROVE RowsAreNumbered'
    OBVIOUS
  <2>1. ASSUME UNCHANGED <<rows, inserted>> PROVE RowsAreNumbered'
    BY <2>1 DEF RowsAreNumbered
  <2>2. ASSUME NEW c \in Callers, NEW ws \in Workspaces, Request(c, ws)
        PROVE  UNCHANGED <<rows, inserted>>
    BY <2>2, RequestBegins DEF Begin, Unchanged
  <2> QED
    BY <2>1, <2>2, StepKeepsNumbers DEF IInv, Next, vars
<1> QED
  BY InitInv, NextInv, <1>1, <1>2, PTL DEF Spec

LEMMA Least ==
    ASSUME NEW T \in SUBSET Nat, T # {}
    PROVE  \E m \in T : \A n \in T : m <= n
<1> DEFINE R == {ss \in Nat \X Nat : ss[1] < ss[2]}
<1>1. IsWellFoundedOn(R, Nat)
  BY NatLessThanWellFounded DEF OpToRel
<1>2. PICK m \in T : \A n \in T : <<n, m>> \notin R
  <2> HIDE DEF R
  <2> QED
    BY <1>1, WFMin
<1>3. \A n \in T : ~(n < m)
  BY <1>2
<1> QED
  BY <1>3

LEMMA Greatest ==
    ASSUME NEW T \in SUBSET Nat, T # {}, NEW b \in Nat, \A n \in T : n <= b
    PROVE  \E m \in T : \A n \in T : n <= m
<1> DEFINE D == {b - n : n \in T}
<1>1. PICK d \in D : \A e \in D : d <= e
  <2>1. \A d \in D : d \in Nat
    OBVIOUS
  <2>2. D # {}
    OBVIOUS
  <2> HIDE DEF D
  <2> QED
    BY <2>1, <2>2, Least
<1>2. PICK m \in T : d = b - m
  OBVIOUS
<1>3. \A n \in T : b - m <= b - n
  BY <1>1, <1>2
<1> QED
  BY <1>2, <1>3

Newer(S, r) == {q \in S : q.id > r.id}

\* The rows with fewer than the limit above them: as many as the limit, or all, and
\* none of them older than one that is left out.
LEMMA NewestRows ==
    ASSUME NEW S, IsFiniteSet(S), NEW b \in Nat, NEW limit \in Nat,
           \A r \in S : r.id \in Nat /\ r.id <= b,
           \A q, r \in S : q.id = r.id => q = r,
           NEW L \in SUBSET S, \A r \in S : r \in L <=> Cardinality(Newer(S, r)) < limit
    PROVE  /\ Cardinality(L) <= limit
           /\ \A r \in S \ L : Cardinality(L) = limit /\ \A q \in L : r.id < q.id
<1> DEFINE Above(r) == Newer(S, r)
<1>1. \A r : IsFiniteSet(Above(r)) /\ Cardinality(Above(r)) \in Nat
  BY FS_Subset, FS_CardinalityType DEF Newer
<1>2. L \subseteq S /\ IsFiniteSet(L) /\ Cardinality(L) \in Nat
  BY FS_Subset, FS_CardinalityType
<1>3. \A r \in S : r \in L <=> Cardinality(Above(r)) < limit
  OBVIOUS
<1>4. \A q, r \in S : q.id <= r.id => Above(r) \subseteq Above(q)
  BY DEF Newer
<1> HIDE DEF Above
<1>5. Cardinality(L) <= limit
  <2>1. CASE L = {}
    <3>1. Cardinality(L) = 0
      BY <2>1, FS_EmptySet
    <3> QED
      BY <3>1
  <2>2. CASE L # {}
    <3> DEFINE I == {r.id : r \in L}
    <3>1. PICK i \in I : \A j \in I : i <= j
      <4>1. \A j \in I : \E r \in S : j = r.id
        BY <1>2
      <4>2. I # {}
        BY <2>2
      <4> HIDE DEF I
      <4>3. I \in SUBSET Nat
        BY <4>1
      <4> QED
        BY <4>2, <4>3, Least
    <3>2. PICK m \in L : i = m.id
      OBVIOUS
    <3>3. \A r \in L : m.id <= r.id
      BY <3>1, <3>2
    <3>4. L \ {m} \subseteq Above(m)
      <4>1. \A r \in L : r # m => r.id > m.id
        BY <1>2, <3>2, <3>3
      <4> QED
        BY <1>2, <4>1 DEF Above, Newer
    <3>5. Cardinality(L \ {m}) = Cardinality(L) - 1
      BY <1>2, <3>2, FS_RemoveElement
    <3>6. Cardinality(L \ {m}) <= Cardinality(Above(m))
      BY <1>1, <3>4, FS_Subset
    <3> QED
      BY <1>1, <1>2, <1>3, <3>2, <3>5, <3>6
  <2> QED
    BY <2>1, <2>2
<1>6. ASSUME NEW r \in S \ L, NEW q \in L PROVE r.id < q.id
  <2>1. CASE q.id <= r.id
    <3>1. Cardinality(Above(r)) <= Cardinality(Above(q))
      BY <1>1, <1>2, <1>4, <2>1, FS_Subset
    <3> QED
      BY <1>1, <1>2, <1>3, <3>1
  <2> QED
    BY <1>2, <2>1
<1>7. ASSUME S \ L # {} PROVE Cardinality(L) >= limit
  <2> DEFINE I == {r.id : r \in S \ L}
  <2>1. PICK i \in I : \A j \in I : j <= i
    <3>1. I \in SUBSET Nat /\ I # {} /\ \A j \in I : j <= b
      <4>1. \A j \in I : \E r \in S : j = r.id
        OBVIOUS
      <4>2. I # {}
        BY <1>7
      <4> HIDE DEF I
      <4>3. \A j \in I : j \in Nat /\ j <= b
        BY <4>1
      <4> QED
        BY <4>2, <4>3
    <3> HIDE DEF I
    <3> QED
      BY <3>1, Greatest
  <2>2. PICK m \in S \ L : i = m.id
    OBVIOUS
  <2>3. \A r \in S \ L : r.id <= m.id
    BY <2>1, <2>2
  <2>4. Above(m) \subseteq L
    BY <2>2, <2>3 DEF Above, Newer
  <2>5. Cardinality(Above(m)) <= Cardinality(L)
    BY <1>2, <2>4, FS_Subset
  <2>6. ~(Cardinality(Above(m)) < limit)
    BY <1>3, <2>2
  <2> QED
    BY <1>1, <1>2, <2>5, <2>6
<1> QED
  BY <1>2, <1>5, <1>6, <1>7

-----------------------------------------------------------------------------
(* Theorems                                                                *)

\* Every variable has its type, whatever the number of requests and tables.
THEOREM TableTypes == Spec => []TypeOK
<1>1. IInv => TypeOK
  BY DEF IInv, Types
<1> QED
  BY InitInv, NextInv, <1>1, PTL DEF Spec

\* No request, whatever it overlaps with, leaves a row without its table or in
\* another workspace than its table's: a check that precedes an insert by any
\* number of steps still holds of the table that the foreign key finds.
THEOREM RowsHaveTheirTable == Spec => []RowsBelongToTheirTable
<1>1. IInv => RowsBelongToTheirTable
  BY DEF IInv
<1> QED
  BY InitInv, NextInv, <1>1, PTL DEF Spec

\* Only a request of its own workspace that names a table or row changes it or
\* takes it away: a row goes with a table only if the delete named that table.
THEOREM OnlyRequestsChange == Spec => ChangesAreRequested
<1> DEFINE Requested ==
      /\ \A t \in tables \ tables' :
            \E c \in Callers : /\ Acts(c, "deleteTable")
                               /\ call[c].req.table = t.id /\ call[c].req.ws = t.ws
      /\ \A r \in rows \ rows' :
            \E c \in Callers :
                /\ call[c].at = "act"
                /\ call[c].req.op \in {"deleteTable", "updateRow", "deleteRow"}
                /\ call[c].req.ws = r.ws /\ call[c].req.table = r.table
                /\ call[c].req.op # "deleteTable" => call[c].req.row = r.id
<1>1. ASSUME IInv, NEW c \in Callers, CallStep(c) PROVE Requested
  <2>1. CASE DeleteTable(c)
    <3>1. /\ Acts(c, "deleteTable") /\ call[c].at = "act" /\ call[c].req.op = "deleteTable"
          /\ tables' = tables \ {t \in tables : t.id = call[c].req.table
                                                /\ t.ws = call[c].req.ws}
          /\ rows' = {r \in rows : \E t \in tables' : t.id = r.table}
      BY <2>1 DEF DeleteTable, DeleteDataTable, GetDataTable, Cascade, Acts
    <3>2. ASSUME NEW r \in rows \ rows'
          PROVE  call[c].req.ws = r.ws /\ call[c].req.table = r.table
      <4>1. PICK t \in tables : t.id = r.table /\ t.ws = r.ws
        BY <1>1 DEF IInv, RowsBelongToTheirTable
      <4>2. t \notin tables'
        BY <3>1, <3>2, <4>1
      <4> QED
        BY <3>1, <4>1, <4>2
    <3>3. \A t \in tables \ tables' : call[c].req.table = t.id /\ call[c].req.ws = t.ws
      BY <3>1
    <3> QED
      BY <3>1, <3>2, <3>3
  <2>2. CASE UpdateRow(c)
    BY <2>2 DEF UpdateRow, UpdateDataTableRow, RowOf, Acts
  <2>3. CASE DeleteRow(c)
    BY <2>3 DEF DeleteRow, DeleteDataTableRow, RowOf, Acts
  <2>4. CASE InsertRow(c) \/ CreateTable(c)
    BY <2>4 DEF InsertRow, InsertDataTableRow, CreateTable, CreateDataTable
  <2>5. CASE CheckTable(c) \/ ListTables(c) \/ GetTable(c) \/ ListRows(c) \/ StatementFails(c)
    BY <2>5 DEF CheckTable, ListTables, GetTable, ListRows, StatementFails, Unchanged
  <2> QED
    BY <1>1, <2>1, <2>2, <2>3, <2>4, <2>5 DEF CallStep
<1>2. ASSUME NEW c \in Callers, NEW ws \in Workspaces, Request(c, ws) PROVE Requested
  <2>1. PICK req \in Requests : Begin(c, req)
    BY <1>2, RequestBegins
  <2> QED
    BY <2>1 DEF Begin, Unchanged
<1>3. IInv /\ [Next]_vars => [Requested]_vars
  BY <1>1, <1>2 DEF Next
<1> QED
  BY InitInv, NextInv, <1>3, PTL DEF Spec, ChangesAreRequested

\* For any number of requests, an internal error without a failing statement or an
\* empty body is the insert that lost its table.
THEOREM OnlyRacesFail == Spec => ErrorsAreRaces
<1> DEFINE Race(c) ==
      (/\ call[c].at # "idle" /\ call'[c].at = "idle"
       /\ call'[c].status = 500 /\ ~call'[c].fault /\ ~WithoutData(call[c].req)) =>
            /\ call[c].req.op = "insertRow"
            /\ \A t \in tables : t.id # call[c].req.table
<1>1. ASSUME IInv, NEW c \in Callers, CallStep(c) PROVE \A d \in Callers : Race(d)
  <2>1. \A d \in Callers \ {c} : call'[d] = call[d]
    BY <1>1, StepTypes DEF IInv, Ends, Changed
  <2>2. \A status \in Statuses : Answer(c, status) => call'[c].status = status
    BY <1>1, Answered DEF IInv
  <2>3. /\ StatusOf("ErrNotFound") = 404 /\ StatusOf("ErrRowNotFound") = 404
        /\ StatusOf("other") = 500
        /\ {200, 201, 204, 404, 500} \subseteq Statuses
    BY DEF StatusOf, Statuses
  <2>4. ASSUME ListTables(c) \/ ListRows(c) PROVE Race(c)
    <3>1. PICK listed :
            call' = [call EXCEPT ![c] = [NoCall EXCEPT !.status = 200, !.listed = listed]]
      BY <2>4 DEF ListTables, ListRows, AnswerWith
    <3>2. call'[c].status = 200
      BY <1>1, <3>1 DEF NoCall, IInv, Types, TypeOK
    <3> QED
      BY <3>2
  <2>5. AnswerWith(c, [NoCall EXCEPT !.status = StatusOf("other"), !.fault = TRUE])
          => call'[c].fault
    BY <1>1 DEF AnswerWith, NoCall, IInv, Types, TypeOK
  <2>6. Race(c)
    <3>1. CASE CheckTable(c)
      <4>1. CASE Answer(c, StatusOf("ErrNotFound"))
        BY <4>1, <2>2, <2>3
      <4>2. CASE WithoutData(call[c].req)
        BY <4>2
      <4>3. CASE call' = [call EXCEPT ![c].at = "act"]
        BY <1>1, <4>3 DEF IInv, Types, TypeOK
      <4> QED
        BY <3>1, <4>1, <4>2, <4>3 DEF CheckTable
    <3>2. CASE CreateTable(c)
      BY <3>2, <2>2, <2>3 DEF CreateTable
    <3>4. CASE GetTable(c)
      <4>1. Answer(c, 200) \/ Answer(c, StatusOf("ErrNotFound"))
        BY <3>4 DEF GetTable
      <4> QED
        BY <4>1, <2>2, <2>3
    <3>5. CASE DeleteTable(c)
      BY <3>5, <2>2, <2>3 DEF DeleteTable
    <3>6. CASE InsertRow(c)
      BY <3>6, <2>2, <2>3 DEF InsertRow, Acts
    <3>8. CASE UpdateRow(c)
      <4>1. Answer(c, 200) \/ Answer(c, StatusOf("ErrRowNotFound"))
        BY <3>8 DEF UpdateRow
      <4> QED
        BY <4>1, <2>2, <2>3
    <3>9. CASE DeleteRow(c)
      BY <3>9, <2>2, <2>3 DEF DeleteRow
    <3>10. CASE StatementFails(c)
      BY <3>10, <2>5 DEF StatementFails
    <3> QED
      BY <1>1, <2>4, <3>1, <3>2, <3>4, <3>5, <3>6, <3>8, <3>9, <3>10 DEF CallStep
  <2> QED
    BY <2>1, <2>6
<1>2. ASSUME IInv, NEW c \in Callers, NEW ws \in Workspaces, Request(c, ws)
      PROVE  \A d \in Callers : Race(d)
  <2>1. PICK req \in Requests : Begin(c, req)
    BY <1>2, RequestBegins
  <2> QED
    BY <1>2, <2>1 DEF Begin, IInv, Types, TypeOK
<1>3. IInv /\ [Next]_vars =>
        [\A c \in Callers :
            (/\ call[c].at # "idle" /\ call'[c].at = "idle"
             /\ call'[c].status = 500 /\ ~call'[c].fault /\ ~WithoutData(call[c].req)) =>
                /\ call[c].req.op = "insertRow"
                /\ \A t \in tables : t.id # call[c].req.table]_vars
  BY <1>1, <1>2 DEF Next
<1> QED
  BY InitInv, NextInv, <1>3, PTL DEF Spec, ErrorsAreRaces

\* A list of rows holds the newest ones, up to the limit, and is full when it leaves
\* any out.
LEMMA ListIsNewest ==
    ASSUME Types, RowsAreNumbered, NEW ws, NEW table,
           NEW listed, listed = ListDataTableRows(ws, table)
    PROVE  /\ listed \subseteq rows /\ Cardinality(listed) <= ListLimit
           /\ \A r \in rows \ listed : r.table = table /\ r.ws = ws =>
                /\ Cardinality(listed) = ListLimit
                /\ \A q \in listed : r.id < q.id
<1> DEFINE S == {r \in rows : r.table = table /\ r.ws = ws}
<1>1. listed \in SUBSET S /\ \A r \in S : r \in listed <=> Cardinality(Newer(S, r)) < ListLimit
  <2>1. \A r : {q \in rows : q.table = table /\ q.ws = ws /\ q.id > r.id} = Newer(S, r)
    BY DEF Newer
  <2> QED
    BY <2>1 DEF ListDataTableRows
<1>2. IsFiniteSet(S)
  BY FS_Subset DEF RowsAreNumbered
<1>3. \A r \in S : r.id \in Nat /\ r.id <= inserted
  BY RowIdTypes DEF RowsAreNumbered
<1>4. \A q, r \in S : q.id = r.id => q = r
  BY DEF RowsAreNumbered
<1>5. inserted \in Nat
  BY DataTablesAssumption DEF Types, TypeOK
<1>6. ListLimit \in Nat
  BY DataTablesAssumption
<1>7. S \subseteq rows /\ \A r \in rows : r.table = table /\ r.ws = ws => r \in S
  OBVIOUS
<1> HIDE DEF S
<1>8. /\ Cardinality(listed) <= ListLimit
      /\ \A r \in S \ listed : Cardinality(listed) = ListLimit
                               /\ \A q \in listed : r.id < q.id
  BY <1>1, <1>2, <1>3, <1>4, <1>5, <1>6, NewestRows
<1> QED
  BY <1>1, <1>7, <1>8

\* However requests overlap, each is told the truth: what succeeded is there, what
\* was deleted or not found is not, and a list leaves out older rows only when full.
THEOREM RequestsAreToldTheTruth == Spec => RepliesAreTrue
<1> DEFINE True(c) == call[c].at # "idle" /\ call'[c].at = "idle" => ReplyIsTrue(c)
<1>1. ASSUME IInv, RowsAreNumbered, NEW c \in Callers, CallStep(c)
      PROVE  \A d \in Callers : True(d)
  <2> DEFINE req == call[c].req
  <2>1. \A d \in Callers \ {c} : call'[d] = call[d]
    BY <1>1, StepTypes DEF IInv, Ends, Changed
  <2>2. \A status \in Statuses : Answer(c, status) => call'[c].status = status
    BY <1>1, Answered DEF IInv
  <2>3. /\ StatusOf("ErrNotFound") = 404 /\ StatusOf("ErrRowNotFound") = 404
        /\ StatusOf("other") = 500
        /\ {200, 201, 204, 404, 500} \subseteq Statuses
    BY DEF StatusOf, Statuses
  <2>4. \A status, listed :
          AnswerWith(c, [NoCall EXCEPT !.status = status, !.listed = listed])
            => call'[c].status = status /\ call'[c].listed = listed
    BY <1>1 DEF AnswerWith, NoCall, IInv, Types, TypeOK
  <2>5. AnswerWith(c, [NoCall EXCEPT !.status = StatusOf("other"), !.fault = TRUE])
          => call'[c].status = StatusOf("other")
    BY <1>1 DEF AnswerWith, NoCall, IInv, Types, TypeOK
  <2>6. call'[c].status = 500 => ReplyIsTrue(c)
    BY DEF ReplyIsTrue
  <2>7. rows \subseteq DataRows /\ RowsBelongToTheirTable /\ IdsAreUnique
    BY <1>1 DEF IInv, Types, TypeOK
  <2>10. ASSUME CheckTable(c) PROVE True(c)
    <3>1. CASE Answer(c, StatusOf("ErrNotFound")) /\ GetDataTable(req.ws, req.table) = {}
      <4>1. call'[c].status = 404
        BY <3>1, <2>2, <2>3
      <4>2. \A t \in tables : ~(t.id = req.table /\ t.ws = req.ws)
        BY <3>1 DEF GetDataTable
      <4> QED
        BY <4>1, <4>2 DEF ReplyIsTrue
    <3>2. CASE Answer(c, StatusOf("other"))
      BY <3>2, <2>2, <2>3, <2>6
    <3>3. CASE call' = [call EXCEPT ![c].at = "act"]
      BY <1>1, <3>3 DEF IInv, Types, TypeOK
    <3> QED
      BY <2>10, <3>1, <3>2, <3>3 DEF CheckTable
  <2>11. ASSUME CreateTable(c) PROVE True(c)
    <3>1. call'[c].status = 201 /\ req.op = "createTable"
      BY <2>11, <2>2, <2>3 DEF CreateTable, Acts
    <3> QED
      BY <3>1 DEF ReplyIsTrue
  <2>12. ASSUME ListTables(c) PROVE True(c)
    <3>1. /\ call'[c].status = 200 /\ req.op = "listTables"
          /\ call'[c].listed = {t \in tables : t.ws = req.ws}
      BY <2>12, <2>4 DEF ListTables, ListDataTables, Acts
    <3> QED
      BY <3>1 DEF ReplyIsTrue
  <2>13. ASSUME GetTable(c) PROVE True(c)
    <3>1. req.op = "getTable"
      BY <2>13 DEF GetTable, Acts
    <3>2. CASE GetDataTable(req.ws, req.table) # {}
      <4>1. call'[c].status = 200
        BY <2>13, <3>2, <2>2, <2>3 DEF GetTable
      <4> QED
        BY <3>1, <3>2, <4>1 DEF GetDataTable, ReplyIsTrue
    <3>3. CASE GetDataTable(req.ws, req.table) = {}
      <4>1. call'[c].status = 404
        BY <2>13, <3>3, <2>2, <2>3 DEF GetTable
      <4> QED
        BY <3>1, <3>3, <4>1 DEF GetDataTable, ReplyIsTrue
    <3> QED
      BY <3>2, <3>3
  <2>14. ASSUME DeleteTable(c) PROVE True(c)
    <3>1. call'[c].status = 204 /\ req.op = "deleteTable"
      BY <2>14, <2>2, <2>3 DEF DeleteTable, Acts
    <3>2. /\ tables' = {t \in tables : ~(t.id = req.table /\ t.ws = req.ws)}
          /\ rows' = {r \in rows : \E t \in tables' : t.id = r.table}
      BY <2>14 DEF DeleteTable, DeleteDataTable, GetDataTable, Cascade
    <3>3. ASSUME NEW r \in rows' PROVE ~(r.table = req.table /\ r.ws = req.ws)
      <4>1. PICK t \in tables' : t.id = r.table
        BY <3>2
      <4>2. PICK u \in tables : u.id = r.table /\ u.ws = r.ws
        BY <2>7, <3>2 DEF RowsBelongToTheirTable
      <4>3. t = u
        BY <2>7, <3>2, <4>1, <4>2 DEF IdsAreUnique
      <4> QED
        BY <3>2, <4>1, <4>2, <4>3
    <3> QED
      BY <3>1, <3>2, <3>3 DEF ReplyIsTrue
  <2>15. ASSUME InsertRow(c) PROVE True(c)
    <3>1. req.op = "insertRow"
      BY <2>15 DEF InsertRow, Acts
    <3>2. CASE Answer(c, StatusOf("other"))
      BY <3>2, <2>2, <2>3, <2>6
    <3>3. CASE rows' = InsertDataTableRow(req.ws, req.table, req.data) /\ Answer(c, 201)
      <4>1. call'[c].status = 201
        BY <3>3, <2>2, <2>3
      <4>2. \E r \in rows' : r.ws = req.ws /\ r.table = req.table /\ r.data = req.data
        <5> DEFINE new == [id |-> inserted + 1, table |-> req.table, ws |-> req.ws,
                           data |-> req.data]
        <5>1. new \in rows'
          BY <3>3 DEF InsertDataTableRow
        <5>2. new.ws = req.ws /\ new.table = req.table /\ new.data = req.data
          OBVIOUS
        <5> HIDE DEF new
        <5> QED
          BY <5>1, <5>2
      <4> QED
        BY <3>1, <4>1, <4>2 DEF ReplyIsTrue
    <3> QED
      BY <2>15, <3>2, <3>3 DEF InsertRow
  <2>16. ASSUME ListRows(c) PROVE True(c)
    <3>1. /\ call'[c].status = 200 /\ req.op = "listRows"
          /\ call'[c].listed = ListDataTableRows(req.ws, req.table)
      BY <2>16, <2>4 DEF ListRows, Acts
    <3>2. /\ call'[c].listed \subseteq rows /\ Cardinality(call'[c].listed) <= ListLimit
          /\ \A r \in rows \ call'[c].listed : r.table = req.table /\ r.ws = req.ws =>
                /\ Cardinality(call'[c].listed) = ListLimit
                /\ \A q \in call'[c].listed : r.id < q.id
      BY <1>1, <3>1, ListIsNewest DEF IInv
    <3> QED
      BY <3>1, <3>2 DEF ReplyIsTrue
  <2>17. ASSUME UpdateRow(c) PROVE True(c)
    <3> DEFINE old == RowOf(req.ws, req.table, req.row)
    <3>1. req.op = "updateRow"
      BY <2>17 DEF UpdateRow, Acts
    <3>2. CASE old # {}
      <4>1. call'[c].status = 200
        BY <2>17, <3>2, <2>2, <2>3 DEF UpdateRow
      <4>2. PICK r \in rows : r.id = req.row /\ r.table = req.table /\ r.ws = req.ws
                              /\ r \in old
        BY <3>2 DEF RowOf
      <4> DEFINE new == [r EXCEPT !.data = req.data]
      <4>3. new \in rows'
        BY <2>17, <4>2 DEF UpdateRow, UpdateDataTableRow
      <4>4. /\ new.id = req.row /\ new.table = req.table /\ new.ws = req.ws
            /\ new.data = req.data
        BY <2>7, <4>2 DEF DataRows
      <4> HIDE DEF new
      <4> QED
        BY <3>1, <4>1, <4>3, <4>4 DEF ReplyIsTrue
    <3>3. CASE old = {}
      <4>1. call'[c].status = 404
        BY <2>17, <3>3, <2>2, <2>3 DEF UpdateRow
      <4>2. ASSUME NEW t \in tables, t.id = req.table, t.ws = req.ws,
                   NEW r \in rows, r.id = req.row, r.table = req.table
            PROVE  FALSE
        <5>1. r.ws = req.ws
          BY <2>7, <4>2 DEF RowsBelongToTheirTable, IdsAreUnique
        <5> QED
          BY <3>3, <4>2, <5>1 DEF RowOf
      <4> QED
        BY <3>1, <4>1, <4>2 DEF ReplyIsTrue
    <3> QED
      BY <3>2, <3>3
  <2>18. ASSUME DeleteRow(c) PROVE True(c)
    <3>1. call'[c].status = 204 /\ req.op = "deleteRow"
      BY <2>18, <2>2, <2>3 DEF DeleteRow, Acts
    <3>2. \A r \in rows' : ~(r.id = req.row /\ r.table = req.table /\ r.ws = req.ws)
      BY <2>18 DEF DeleteRow, DeleteDataTableRow, RowOf
    <3> QED
      BY <3>1, <3>2 DEF ReplyIsTrue
  <2>19. ASSUME StatementFails(c) PROVE True(c)
    BY <2>19, <2>3, <2>5, <2>6 DEF StatementFails
  <2>20. True(c)
    BY <1>1, <2>10, <2>11, <2>12, <2>13, <2>14, <2>15, <2>16, <2>17, <2>18, <2>19
       DEF CallStep
  <2> QED
    BY <2>1, <2>20
<1>2. ASSUME IInv, NEW c \in Callers, NEW ws \in Workspaces, Request(c, ws)
      PROVE  \A d \in Callers : True(d)
  <2>1. PICK req \in Requests : Begin(c, req)
    BY <1>2, RequestBegins
  <2>2. \A d \in Callers : call[d].at # "idle" => call'[d] = call[d]
    BY <1>2, <2>1 DEF Begin, IInv, Types, TypeOK
  <2> QED
    BY <2>2
<1>3. IInv /\ RowsAreNumbered /\ [Next]_vars =>
        [\A c \in Callers :
            call[c].at # "idle" /\ call'[c].at = "idle" => ReplyIsTrue(c)]_vars
  BY <1>1, <1>2 DEF Next
<1> QED
  BY InitInv, NextInv, NumbersHold, <1>3, PTL DEF Spec, RepliesAreTrue
=============================================================================
