---------------------------- MODULE DataTables ----------------------------
(***************************************************************************)
(* Data tables and their rows (internal/datatables, its handlers and its    *)
(* statements): a request on a row first checks that the table belongs to   *)
(* the caller's workspace and then executes its own statement, with         *)
(* requests of any workspace in between.                                    *)
(*                                                                          *)
(* Left out: the schema of a table, which nothing reads; ids that are not   *)
(* UUIDs; a table without a name, which is refused before any statement.    *)
(***************************************************************************)
EXTENDS Integers, FiniteSets

CONSTANTS
    Callers,      \* concurrent requests
    Workspaces,
    Tables,       \* ids of data_tables
    Values,       \* what a row may hold
    NoData,       \* the body of a request has no data
    MaxRows,      \* bound on the rows ever inserted; their ids are in that order
    ListLimit,    \* LIMIT of ListDataTableRows
    Faults        \* which of "db" may happen

ASSUME DataTablesAssumption ==
    /\ NoData \notin Values
    /\ MaxRows \in Nat /\ ListLimit \in Nat
    /\ Faults \subseteq {"db"}

VARIABLES
    tables,       \* data_tables
    rows,         \* data_table_rows
    usedTables,   \* history: ids ever given to a table
    inserted,     \* history: the number of rows ever inserted
    call          \* the requests in progress, and how the last one was answered

vars == <<tables, rows, usedTables, inserted, call>>

RowIds == 1 .. MaxRows

TableRows == [id : Tables, ws : Workspaces]

DataRows == [id : RowIds, table : Tables, ws : Workspaces, data : Values]

Bodies == Values \union {NoData}

Requests ==
    UNION {[op : {"createTable", "listTables"}, ws : Workspaces],
           [op : {"deleteTable", "getTable", "listRows"}, ws : Workspaces, table : Tables],
           [op : {"insertRow"}, ws : Workspaces, table : Tables, data : Bodies],
           [op : {"updateRow"}, ws : Workspaces, table : Tables, row : RowIds, data : Bodies],
           [op : {"deleteRow"}, ws : Workspaces, table : Tables, row : RowIds]}

-----------------------------------------------------------------------------
(* The statements, as the rows they select or the table they leave          *)

CreateDataTable(ws, id) == tables \union {[id |-> id, ws |-> ws]}

GetDataTable(ws, id) == {t \in tables : t.id = id /\ t.ws = ws}

ListDataTables(ws) == {t \in tables : t.ws = ws}

\* Mutant: the workspace is not part of the condition.
DeleteDataTableOfAny(ws, id) == {t \in tables : t.id # id}

DeleteDataTable(ws, id) == tables \ GetDataTable(ws, id)

\* ON DELETE CASCADE of data_table_rows.table_id
Cascade(left) == {r \in rows : \E t \in left : t.id = r.table}

RowOf(ws, table, id) == {r \in rows : r.id = id /\ r.table = table /\ r.ws = ws}

InsertDataTableRow(ws, table, data) ==
    rows \union {[id |-> inserted + 1, table |-> table, ws |-> ws, data |-> data]}

UpdateDataTableRow(ws, table, id, data) ==
    (rows \ RowOf(ws, table, id))
        \union {[r EXCEPT !.data = data] : r \in RowOf(ws, table, id)}

DeleteDataTableRow(ws, table, id) == rows \ RowOf(ws, table, id)

\* Mutant: the oldest rows first.
ListOldestRows(ws, table) ==
    {r \in rows :
        /\ r.table = table /\ r.ws = ws
        /\ Cardinality({q \in rows : q.table = table /\ q.ws = ws /\ q.id < r.id})
               < ListLimit}

\* Newest first, and no more than the limit.
ListDataTableRows(ws, table) ==
    {r \in rows :
        /\ r.table = table /\ r.ws = ws
        /\ Cardinality({q \in rows : q.table = table /\ q.ws = ws /\ q.id > r.id})
               < ListLimit}

-----------------------------------------------------------------------------
(* A request                                                               *)

\* Mutant: the second case is a bad request.
StatusOfBadRow(error) ==
    CASE error = "ErrNotFound"    -> 404
      [] error = "ErrRowNotFound" -> 400
      [] error = "other"          -> 500

\* Mutant: the second case is forgotten.
StatusOfTableOnly(error) == IF error = "ErrNotFound" THEN 404 ELSE 500

\* tableServiceErr
StatusOf(error) ==
    CASE error = "ErrNotFound"    -> 404
      [] error = "ErrRowNotFound" -> 404
      [] error = "other"          -> 500

Idle == [at     : {"idle"},
         status : {0, 200, 201, 204, 404, 500},   \* of the last answer
         listed : (SUBSET DataRows) \union (SUBSET TableRows),   \* what is in it
         fault  : BOOLEAN]                        \* history: a statement had failed

Busy == [at : {"check", "act"}, req : Requests]

NoCall == [at |-> "idle", status |-> 0, listed |-> {}, fault |-> FALSE]

Init ==
    /\ tables = {} /\ rows = {}
    /\ usedTables = {} /\ inserted = 0
    /\ call = [c \in Callers |-> NoCall]

AnswerWith(c, answer) == call' = [call EXCEPT ![c] = answer]

Answer(c, status) == AnswerWith(c, [NoCall EXCEPT !.status = status])

Unchanged == UNCHANGED <<tables, rows, usedTables, inserted>>

\* The handler binds the request and calls the service, which looks the table up
\* first when the request is about rows.
Checked == {"insertRow", "listRows", "updateRow", "deleteRow"}

Begin(c, req) ==
    /\ call[c].at = "idle"
    /\ call' = [call EXCEPT ![c] =
                  [at |-> IF req.op \in Checked THEN "check" ELSE "act", req |-> req]]
    /\ Unchanged

PostTable(c, ws) == Begin(c, [op |-> "createTable", ws |-> ws])

GetTables(c, ws) == Begin(c, [op |-> "listTables", ws |-> ws])

GetTableRequest(c, ws, table) ==
    Begin(c, [op |-> "getTable", ws |-> ws, table |-> table])

DeleteTableRequest(c, ws, table) ==
    Begin(c, [op |-> "deleteTable", ws |-> ws, table |-> table])

PostRow(c, ws, table) ==
    \E data \in Bodies :
        Begin(c, [op |-> "insertRow", ws |-> ws, table |-> table, data |-> data])

GetRows(c, ws, table) == Begin(c, [op |-> "listRows", ws |-> ws, table |-> table])

PatchRow(c, ws, table) ==
    \E row \in RowIds, data \in Bodies :
        Begin(c, [op |-> "updateRow", ws |-> ws, table |-> table, row |-> row, data |-> data])

DeleteRowRequest(c, ws, table) ==
    \E row \in RowIds :
        Begin(c, [op |-> "deleteRow", ws |-> ws, table |-> table, row |-> row])

Acts(c, op) == call[c].at = "act" /\ call[c].req.op = op

WithoutData(req) == req.op \in {"insertRow", "updateRow"} /\ req.data = NoData

\* Mutant: the table is not looked up.
CheckTableNot(c) ==
    /\ call[c].at = "check"
    /\ IF WithoutData(call[c].req) THEN Answer(c, StatusOf("other"))
       ELSE call' = [call EXCEPT ![c].at = "act"]
    /\ Unchanged

\* GetTable, before InsertRow, ListRows, UpdateRow and DeleteRow; the first and the
\* third look for data next, whose absence is no error that a handler knows.
CheckTable(c) ==
    LET req == call[c].req IN
    /\ call[c].at = "check"
    /\ CASE GetDataTable(req.ws, req.table) = {} -> Answer(c, StatusOf("ErrNotFound"))
         [] WithoutData(req)                     -> Answer(c, StatusOf("other"))
         [] OTHER                                -> call' = [call EXCEPT ![c].at = "act"]
    /\ Unchanged

\* An id that was never drawn before.
CreateTable(c) ==
    /\ Acts(c, "createTable")
    /\ \E id \in Tables \ usedTables :
        /\ tables' = CreateDataTable(call[c].req.ws, id)
        /\ usedTables' = usedTables \union {id}
    /\ Answer(c, 201)
    /\ UNCHANGED <<rows, inserted>>

ListTables(c) ==
    /\ Acts(c, "listTables")
    /\ AnswerWith(c, [NoCall EXCEPT !.status = 200,
                                     !.listed = ListDataTables(call[c].req.ws)])
    /\ Unchanged

GetTable(c) ==
    LET req == call[c].req IN
    /\ Acts(c, "getTable")
    /\ Answer(c, IF GetDataTable(req.ws, req.table) # {} THEN 200
                 ELSE StatusOf("ErrNotFound"))
    /\ Unchanged

\* That no table was deleted is no error.
DeleteTable(c) ==
    LET req  == call[c].req
        left == DeleteDataTable(req.ws, req.table) IN
    /\ Acts(c, "deleteTable")
    /\ tables' = left /\ rows' = Cascade(left)
    /\ Answer(c, 204)
    /\ UNCHANGED <<usedTables, inserted>>

\* The foreign key refuses the row of a table deleted since the check, which is not
\* ErrNotFound; it knows nothing of the workspace.
InsertRow(c) ==
    LET req == call[c].req IN
    /\ Acts(c, "insertRow")
    /\ IF \E t \in tables : t.id = req.table
       THEN /\ inserted < MaxRows
            /\ rows' = InsertDataTableRow(req.ws, req.table, req.data)
            /\ inserted' = inserted + 1
            /\ Answer(c, 201)
       ELSE /\ UNCHANGED <<rows, inserted>>
            /\ Answer(c, StatusOf("other"))
    /\ UNCHANGED <<tables, usedTables>>

ListRows(c) ==
    LET req == call[c].req IN
    /\ Acts(c, "listRows")
    /\ AnswerWith(c, [NoCall EXCEPT !.status = 200,
                                     !.listed = ListDataTableRows(req.ws, req.table)])
    /\ Unchanged

UpdateRow(c) ==
    LET req == call[c].req IN
    /\ Acts(c, "updateRow")
    /\ rows' = UpdateDataTableRow(req.ws, req.table, req.row, req.data)
    /\ Answer(c, IF RowOf(req.ws, req.table, req.row) # {} THEN 200
                 ELSE StatusOf("ErrRowNotFound"))
    /\ UNCHANGED <<tables, usedTables, inserted>>

\* That no row was deleted is no error.
DeleteRow(c) ==
    LET req == call[c].req IN
    /\ Acts(c, "deleteRow")
    /\ rows' = DeleteDataTableRow(req.ws, req.table, req.row)
    /\ Answer(c, 204)
    /\ UNCHANGED <<tables, usedTables, inserted>>

\* Either statement may fail.
StatementFails(c) ==
    /\ "db" \in Faults
    /\ call[c].at # "idle"
    /\ AnswerWith(c, [NoCall EXCEPT !.status = StatusOf("other"), !.fault = TRUE])
    /\ Unchanged

CallStep(c) ==
    \/ CheckTable(c) \/ CreateTable(c) \/ ListTables(c) \/ GetTable(c)
    \/ DeleteTable(c) \/ InsertRow(c)
    \/ ListRows(c) \/ UpdateRow(c) \/ DeleteRow(c) \/ StatementFails(c)

Request(c, ws) ==
    \/ PostTable(c, ws) \/ GetTables(c, ws)
    \/ \E table \in Tables :
        \/ GetTableRequest(c, ws, table) \/ DeleteTableRequest(c, ws, table)
        \/ PostRow(c, ws, table) \/ GetRows(c, ws, table)
        \/ PatchRow(c, ws, table) \/ DeleteRowRequest(c, ws, table)

Next == \E c \in Callers : CallStep(c) \/ \E ws \in Workspaces : Request(c, ws)

Spec == Init /\ [][Next]_vars

-----------------------------------------------------------------------------
(* Properties                                                              *)

\* Every variable has its type.
TypeOK ==
    /\ tables \subseteq TableRows
    /\ rows \subseteq DataRows
    /\ usedTables \subseteq Tables
    /\ inserted \in 0 .. MaxRows
    /\ call \in [Callers -> Idle \union Busy]

\* A row belongs to a table that exists, and to the workspace of that table,
\* although the workspace is checked in one statement, written by another, and no
\* key ties the two (InsertRow against DeleteTable).
RowsBelongToTheirTable ==
    \A r \in rows : \E t \in tables : t.id = r.table /\ t.ws = r.ws

\* A table or row that changes or goes was named by a request of its own workspace,
\* which addressed the row through its own table: neither an id guessed by another
\* workspace nor one paired with another table reaches it.
ChangesAreRequested ==
    [][/\ \A t \in tables \ tables' :
            \E c \in Callers : /\ Acts(c, "deleteTable")
                               /\ call[c].req.table = t.id /\ call[c].req.ws = t.ws
       /\ \A r \in rows \ rows' :
            \E c \in Callers :
                /\ call[c].at = "act"
                /\ call[c].req.op \in {"deleteTable", "updateRow", "deleteRow"}
                /\ call[c].req.ws = r.ws /\ call[c].req.table = r.table
                /\ call[c].req.op # "deleteTable" => call[c].req.row = r.id]_vars

\* What the answer to c says of what it leaves behind.
ReplyIsTrue(c) ==
    LET req == call[c].req  status == call'[c].status  listed == call'[c].listed IN
    /\ status \in {200, 201} /\ req.op \in {"insertRow", "updateRow"} =>
        \E r \in rows' : /\ r.ws = req.ws /\ r.table = req.table
                         /\ r.data = req.data
                         /\ req.op = "updateRow" => r.id = req.row
    /\ status = 200 /\ req.op = "getTable" =>
        \E t \in tables : t.id = req.table /\ t.ws = req.ws
    /\ status = 200 /\ req.op = "listTables" =>
        \A t \in tables : t \in listed <=> t.ws = req.ws
    /\ status = 204 /\ req.op = "deleteTable" =>
        /\ \A t \in tables' : ~(t.id = req.table /\ t.ws = req.ws)
        /\ \A r \in rows' : ~(r.table = req.table /\ r.ws = req.ws)
    /\ status = 204 /\ req.op = "deleteRow" =>
        \A r \in rows' : ~(r.id = req.row /\ r.table = req.table /\ r.ws = req.ws)
    /\ status = 404 =>
        \/ \A t \in tables : ~(t.id = req.table /\ t.ws = req.ws)
        \/ /\ req.op = "updateRow"
           /\ \A r \in rows : ~(r.id = req.row /\ r.table = req.table)
    /\ status = 200 /\ req.op = "listRows" =>
        /\ listed \subseteq rows /\ Cardinality(listed) <= ListLimit
        /\ \A r \in rows \ listed :
            r.table = req.table /\ r.ws = req.ws =>
                /\ Cardinality(listed) = ListLimit
                /\ \A q \in listed : r.id < q.id

\* A request is told the truth about what it leaves behind: success means that the
\* row or table is now as it asked, 404 that the table, or the row of that table,
\* is not there in its workspace, and a list that is not full is complete, while a
\* full one holds no row older than one it leaves out.
RepliesAreTrue ==
    [][\A c \in Callers :
        call[c].at # "idle" /\ call'[c].at = "idle" => ReplyIsTrue(c)]_vars

\* Unless a statement failed or the request had no data, a request that ends in an
\* internal error is an insert whose table was deleted after it had been checked:
\* tableServiceErr tells every other outcome apart, however requests overlap.
ErrorsAreRaces ==
    [][\A c \in Callers :
        (/\ call[c].at # "idle" /\ call'[c].at = "idle"
         /\ call'[c].status = 500 /\ ~call'[c].fault /\ ~WithoutData(call[c].req)) =>
            /\ call[c].req.op = "insertRow"
            /\ \A t \in tables : t.id # call[c].req.table]_vars
=============================================================================
