----------------------------- MODULE NodeCalls -----------------------------
(***************************************************************************)
(* What a node of a running execution is called with (runNode of            *)
(* internal/runtime/executor, internal/nodes), while the workspaces create, *)
(* update and delete the credentials and the custom node types that it      *)
(* uses (internal/credentials, internal/nodetypes).                         *)
(*                                                                          *)
(* A definition of a custom node type is told apart by its version, a       *)
(* history counter, by its credential and by whether it has a base URL; its *)
(* templates are those of Templates[version].  A secret is told apart by    *)
(* its credential: AES-GCM returns what was sealed, or an error.            *)
(* Left out: the defaults and the wording of definitions, reads by the API, *)
(* the response of an HTTP exchange.                                        *)
(***************************************************************************)
EXTENDS Lookup, NodeSearch

CONSTANTS
    Calls,        \* concurrent node calls
    Workspaces,
    Creds,        \* ids of credentials
    NoCred,       \* credential_id is NULL
    BadId,        \* a credential_id that is no UUID
    TypeIds,      \* ids of node_types
    MaxVersion,   \* bound on the definitions that one node type ever has
    Templates,    \* the texts, the header and the body template of each version
    TokenOf,      \* the field "token" of a credential
    Decryptor,    \* the executors were given a CredentialDecryptor
    RefSets,      \* the "$cred:" references that a config may have
    Config,       \* the config of a custom node, if any
    BuiltinTexts, \* the name and the description of each built-in node
    Queries,      \* what a catalog is searched for
    Paths,        \* the paths a config of a built-in node may have
    Initial,      \* the input of the execution
    ParentOut,    \* what the parents of a later node have put out
    Faults        \* which of "db", "io" may happen

\* A reference to a credential: to all of it, to its field "token" or to a field that
\* it does not have.  It is whole if it is all of a string in an object; otherwise it
\* stands inside a longer string ("Bearer $cred:...") or in an array.
References == [cred : Creds, field : {"all", "token", "other"}, whole : BOOLEAN]

ASSUME NodeCallsAssumption ==
    /\ Workspaces # {}
    /\ NoCred \notin Creds /\ BadId \notin Creds \union {NoCred}
    /\ MaxVersion \in Nat \ {0}
    /\ Decryptor \in BOOLEAN
    /\ RefSets \subseteq SUBSET References
    /\ Faults \subseteq {"db", "io"}

VARIABLES
    creds,        \* credentials
    types,        \* node_types
    call          \* the node calls in progress

vars == <<creds, types, call>>

-----------------------------------------------------------------------------
(* The state                                                               *)

\* What was sealed: a JSON object, other JSON, which has no fields, or either under
\* a key that the executors do not have.
Data == {"object", "other", "foreign"}

CredRows == [state : {"absent", "live", "deleted"}, ws : Workspaces, data : Data]

TypeRows == [state   : {"absent", "live", "deleted"},
             ws      : Workspaces,
             cred    : Creds \union {NoCred},
             url     : BOOLEAN,              \* base_url is not empty
             version : 0 .. MaxVersion]      \* history

Definitions == [cred : Creds \union {NoCred}, url : BOOLEAN, version : 0 .. MaxVersion]

NoDefinition == [cred |-> NoCred, url |-> FALSE, version |-> 0]

\* "pass" stands for no-op, the manual and webhook triggers and every type that is
\* not registered, "io" for http-request, delay and trigger.cron.
Builtins == {"pass", "condition", "transform", "io"}

\* isUUID tells a node type from a built-in node.
ASSUME NodeTypesAssumption ==
    /\ DOMAIN BuiltinTexts = Builtins /\ TypeIds \intersect Builtins = {}
    /\ 1 .. MaxVersion \subseteq DOMAIN Templates

IsSequence(s) == s \in Seq({s[i] : i \in DOMAIN s})

ASSUME TextsAssumption ==
    /\ Queries \subseteq Seq(STRING)
    /\ \A v \in DOMAIN Templates :
        /\ Templates[v].texts \subseteq Seq(STRING)
        /\ IsSequence(Templates[v].header) /\ IsSequence(Templates[v].body.string)

\* The input is an object, as is what it is wrapped in, and a config may hold a path
\* to any field of it whose name has no dot.
ASSUME InputAssumption ==
    /\ IsObject(Initial) /\ IsObject([obj |-> [k \in {"$"} |-> Initial]])
    /\ Paths \subseteq Seq(Segments) \ {<<>>}
    /\ \A f \in DOMAIN Initial.obj \intersect Segments : PathTo(<<"$", f>>) \in Paths

Places == {"idle",
           "load", "decrypt", "send", "sent",    \* Executor.Execute of httpaction
           "resolve", "execute", "executed"}     \* a built-in node

CallRows == [at      : Places,
             ws      : Workspaces,               \* of the execution
             type    : TypeIds \union Builtins,
             first   : BOOLEAN,                  \* the node has no parents
             config  : BOOLEAN,                  \* the node has a config
             loaded  : Definitions,
             secrets : SUBSET Creds,             \* decrypted for this call
             refs    : SUBSET References,        \* of the config
             pending : SUBSET References,        \* those left to be resolved
             from    : 0 .. MaxVersion,          \* history: the version at its start
             dead    : BOOLEAN]                  \* history: deleted at its start

SomeWorkspace == CHOOSE w \in Workspaces : TRUE    \* of a row that is not there

NoCredential == [state |-> "absent", ws |-> SomeWorkspace, data |-> "other"]

NoType == [state |-> "absent", ws |-> SomeWorkspace, cred |-> NoCred, url |-> FALSE,
           version |-> 0]

NoCall == [at |-> "idle", ws |-> SomeWorkspace, type |-> "pass",
           first |-> TRUE, config |-> FALSE,
           loaded |-> NoDefinition, secrets |-> {}, refs |-> {}, pending |-> {},
           from |-> 0, dead |-> FALSE]

Init ==
    /\ creds = [k \in Creds |-> NoCredential]
    /\ types = [t \in TypeIds |-> NoType]
    /\ call = [c \in Calls |-> NoCall]

Live(rows, id) == rows[id].state = "live"

-----------------------------------------------------------------------------
(* The statements, as the rows they leave                                  *)

InsertCredential(ws, k, data) ==
    [creds EXCEPT ![k] = [state |-> "live", ws |-> ws, data |-> data]]

RemoveCredential(k) == [creds EXCEPT ![k].state = "deleted"]

\* Mutant: whatever the workspace.
GetCredentialOfAny(ws, k) == Live(creds, k)

GetCredential(ws, k) == Live(creds, k) /\ creds[k].ws = ws

\* ON DELETE SET NULL of node_types.credential_id
Unbound(k) ==
    [t \in TypeIds |-> IF types[t].cred = k THEN [types[t] EXCEPT !.cred = NoCred]
                       ELSE types[t]]

InsertNodeType(ws, t, cred, url) ==
    [types EXCEPT ![t] = [state |-> "live", ws |-> ws, cred |-> cred, url |-> url,
                          version |-> 1]]

\* All columns are replaced.
ReplaceNodeType(t, cred, url) ==
    [types EXCEPT ![t].cred = cred, ![t].url = url, ![t].version = @ + 1]

RemoveNodeType(t) ==
    [types EXCEPT ![t] = [NoType EXCEPT !.state = "deleted", !.version = types[t].version]]

GetNodeType(ws, t) == Live(types, t) /\ types[t].ws = ws

\* Mutant: the row of a deleted type is kept and found.
GetNodeTypeByIDAny(t) == types[t].state # "absent"

\* By the id alone: the workspace of the execution plays no part.
GetNodeTypeByID(t) == Live(types, t)

-----------------------------------------------------------------------------
(* Requests on credentials and node types, each of which is one statement,  *)
(* and the tools of the MCP server, which call the same services.           *)

\* The data is sealed and stored under an id that was never drawn before.
CreateCredential(ws, k, data) ==
    /\ creds[k].state = "absent"
    /\ creds' = InsertCredential(ws, k, data)
    /\ UNCHANGED <<types, call>>

\* A request without a name, a type or data is refused.
PostCredential(ws, k) == \E data \in Data : CreateCredential(ws, k, data)

DeleteCredential(ws, k) ==
    /\ GetCredential(ws, k)
    /\ creds' = RemoveCredential(k)
    /\ types' = Unbound(k)
    /\ UNCHANGED call

\* A name or a base URL may be missing or empty.
Inputs == [name : BOOLEAN, url : BOOLEAN, cred : Creds \union {NoCred, BadId}]

\* Mutant: it is passed on as it is.
CredentialIdKept(in) == in.cred

\* A credential_id that does not parse is dropped.
CredentialId(in) == IF in.cred = BadId THEN NoCred ELSE in.cred

\* The foreign key wants a credential that exists, of any workspace.
Referable(in) == in.cred \in {NoCred, BadId} \union {k \in Creds : Live(creds, k)}

\* Service.Create, which gives a default to every other part of a definition.
Complete(in) == in.name /\ in.url

StoreNodeType(ws, t, in) ==
    /\ types[t].state = "absent"
    /\ Complete(in) /\ Referable(in)
    /\ types' = InsertNodeType(ws, t, CredentialId(in), in.url)
    /\ UNCHANGED <<creds, call>>

\* Service.Update looks at the name only.
UpdateStored(ws, t, in) ==
    /\ GetNodeType(ws, t)
    /\ in.name /\ Referable(in)
    /\ types[t].version < MaxVersion
    /\ types' = ReplaceNodeType(t, CredentialId(in), in.url)
    /\ UNCHANGED <<creds, call>>

DeleteNodeType(ws, t) ==
    /\ GetNodeType(ws, t)
    /\ types' = RemoveNodeType(t)
    /\ UNCHANGED <<creds, call>>

CreateNodeType(ws, t) == \E in \in Inputs : StoreNodeType(ws, t, in)

UpdateNodeType(ws, t) == \E in \in Inputs : UpdateStored(ws, t, in)

\* The tools refuse a call without the id of a node type; an argument that is no
\* string counts as empty.
CreateNodeTypeTool(ws, t) == \E in \in Inputs : StoreNodeType(ws, t, in)

UpdateNodeTypeTool(ws, t, id) == id /\ \E in \in Inputs : UpdateStored(ws, t, in)

DeleteNodeTypeTool(ws, t, id) == id /\ DeleteNodeType(ws, t)

\* tools/call: nothing looks at the schema of the tool.
CallTool(ws, t) ==
    \/ CreateNodeTypeTool(ws, t)
    \/ \E id \in BOOLEAN : UpdateNodeTypeTool(ws, t, id) \/ DeleteNodeTypeTool(ws, t, id)

\* What a query finds: built-in nodes, and versions of custom ones.
BuiltinsFound ==
    [q \in Queries |->
        {b \in DOMAIN BuiltinTexts :
            q = <<>> \/ \E text \in BuiltinTexts[b] : ContainsInsensitive(text, q)}]

VersionsFound ==
    [q \in Queries |->
        {v \in DOMAIN Templates :
            q = <<>> \/ \E text \in Templates[v].texts : Listed(text, q)}]

ListNodeTypes(ws, q) ==
    {t \in TypeIds : GetNodeType(ws, t) /\ types[t].version \in VersionsFound[q]}

\* The built-in nodes, which are the same for all, and those of the workspace.
Catalog(ws, q) == BuiltinsFound[q] \union ListNodeTypes(ws, q)

-----------------------------------------------------------------------------
(* A node call                                                             *)

At(c, place) == call[c].at = place

Custom(c) == call[c].type \in TypeIds

\* The error of runNode ends the call, and whatever runNodeWithRetry does next is
\* another call.
Ends(c) == call' = [call EXCEPT ![c] = NoCall]

Go(c, place) == call' = [call EXCEPT ![c].at = place]

\* isUUID of the node's type decides: its executor gets the config as it is.
BeginCustom(c, ws, t) ==
    /\ At(c, "idle")
    /\ \E first, config \in BOOLEAN :
        call' = [call EXCEPT ![c] = [NoCall EXCEPT
                    !.at = "load", !.ws = ws, !.type = t, !.first = first,
                    !.config = config, !.from = types[t].version,
                    !.dead = types[t].state = "deleted"]]
    /\ UNCHANGED <<creds, types>>

\* resolveMap and resolveValue descend into objects only, and look at how a string
\* begins.
Recognised(refs) == {ref \in refs : ref.whole}

BeginBuiltin(c, ws, type, refs) ==
    /\ At(c, "idle")
    /\ \E first \in BOOLEAN :
        call' = [call EXCEPT ![c] = [NoCall EXCEPT
                    !.at = "resolve", !.ws = ws, !.type = type, !.first = first,
                    !.refs = refs, !.pending = Recognised(refs)]]
    /\ UNCHANGED <<creds, types>>

\* The execution's input comes under the key "$", a parent's output under its id.
NodeInput(c) ==
    IF call[c].first THEN [obj |-> [k \in {"$"} |-> Initial]] ELSE ParentOut

\* The keys of the config override those of the input.
InputNamespace(c) ==
    IF ~call[c].config THEN NodeInput(c)
    ELSE [obj |-> [k \in DOMAIN Config.obj \union DOMAIN NodeInput(c).obj |->
                     IF k \in DOMAIN Config.obj THEN Config.obj[k]
                     ELSE NodeInput(c).obj[k]]]

\* Encryptor.Decrypt: GCM refuses what was sealed under another key.
Opens(k) == creds[k].data # "foreign"

\* Decrypt, in the workspace of the execution.
Decrypts(ws, k) == GetCredential(ws, k) /\ Opens(k)

\* Without a decryptor a bound credential is passed over, without an error.
Decrypted(k) == Decryptor /\ k # NoCred

LoadNodeType(c) ==
    /\ At(c, "load")
    /\ IF GetNodeTypeByID(call[c].type)
       THEN LET row == types[call[c].type] IN
            call' = [call EXCEPT
                        ![c].at = IF Decrypted(row.cred) THEN "decrypt" ELSE "send",
                        ![c].loaded = [cred |-> row.cred, url |-> row.url,
                                       version |-> row.version]]
       ELSE Ends(c)
    /\ UNCHANGED <<creds, types>>

DecryptBound(c) ==
    /\ At(c, "decrypt")
    /\ IF Decrypts(call[c].ws, call[c].loaded.cred)
       THEN call' = [call EXCEPT ![c].at = "send", ![c].secrets = {call[c].loaded.cred}]
       ELSE Ends(c)
    /\ UNCHANGED <<creds, types>>

\* Data that is no object leaves the namespace without fields.
CredentialNamespace(k) ==
    IF creds[k].data = "object" THEN [obj |-> [f \in {"token"} |-> TokenOf[k]]] ELSE Null

NamespacesOf(c) ==
    IF ~Decrypted(call[c].loaded.cred) THEN [input |-> InputNamespace(c)]
    ELSE [input      |-> InputNamespace(c),
          credential |-> CredentialNamespace(call[c].loaded.cred)]

\* The request is built and sent; without a base URL there is nowhere to send it.
Send(c) ==
    /\ At(c, "send")
    /\ IF call[c].loaded.url THEN Go(c, "sent") ELSE Ends(c)
    /\ UNCHANGED <<creds, types>>

RequestHeader(c) == Resolve(Templates[call[c].loaded.version].header, NamespacesOf(c))
RequestBody(c) == ResolveBody(Templates[call[c].loaded.version].body, NamespacesOf(c))

\* Data that is no object has no fields, and an object only its own.
HasField(ref) ==
    ref.field = "all" \/ (creds[ref.cred].data = "object" /\ ref.field = "token")

\* Mutant: a credential that cannot be decrypted leaves the reference as it is.
ResolveCredRefOrNot(c) ==
    /\ At(c, "resolve") /\ Decryptor
    /\ \E ref \in call[c].pending :
        call' = [call EXCEPT ![c].pending = @ \ {ref},
                    ![c].secrets = IF Decrypts(call[c].ws, ref.cred) /\ HasField(ref)
                                   THEN @ \union {ref.cred} ELSE @]
    /\ UNCHANGED <<creds, types>>

\* resolveCredRef, of any reference that is left: the config is a map.
ResolveCredRef(c) ==
    /\ At(c, "resolve") /\ Decryptor
    /\ \E ref \in call[c].pending :
        IF Decrypts(call[c].ws, ref.cred) /\ HasField(ref)
        THEN call' = [call EXCEPT ![c].pending = @ \ {ref},
                                  ![c].secrets = @ \union {ref.cred}]
        ELSE Ends(c)
    /\ UNCHANGED <<creds, types>>

\* Without a decryptor the node gets its config as it is.
Resolved(c) ==
    /\ At(c, "resolve")
    /\ call[c].pending = {} \/ ~Decryptor
    /\ Go(c, "execute")
    /\ UNCHANGED <<creds, types>>

ExecuteBuiltin(c) ==
    /\ At(c, "execute")
    /\ Go(c, "executed")
    /\ UNCHANGED <<creds, types>>

\* What a built-in node puts out of itself, with a path in its config; a condition
\* with the operator exists, the others compare the same value with one of the config.
Output(c, path) ==
    CASE call[c].type = "pass"      -> NodeInput(c)
      [] call[c].type = "transform" -> Transform(NodeInput(c), "out", path)
      [] call[c].type = "condition" ->
            [obj |-> [f \in {"matched", "input"} |->
                        IF f = "input" THEN NodeInput(c)
                        ELSE ResolveDotPath(NodeInput(c), path) # Null]]
      [] call[c].type = "io"        -> Null

Return(c) ==
    /\ call[c].at \in {"sent", "executed"}
    /\ Ends(c)
    /\ UNCHANGED <<creds, types>>

\* The exchange fails, or the context of the job ends, or the config is not what the
\* node needs.
ExchangeFails(c) ==
    /\ call[c].at \in {"send", "execute"} /\ "io" \in Faults
    /\ Ends(c)
    /\ UNCHANGED <<creds, types>>

StatementFails(c) ==
    /\ call[c].at \in {"load", "decrypt", "resolve"} /\ "db" \in Faults
    /\ Ends(c)
    /\ UNCHANGED <<creds, types>>

-----------------------------------------------------------------------------

StoreStep(ws) ==
    \/ \E k \in Creds :
        \/ PostCredential(ws, k)
        \/ DeleteCredential(ws, k)
    \/ \E t \in TypeIds :
        \/ CreateNodeType(ws, t) \/ UpdateNodeType(ws, t) \/ DeleteNodeType(ws, t)
        \/ CallTool(ws, t)

CustomStep(c) == LoadNodeType(c) \/ DecryptBound(c) \/ Send(c)

BuiltinStep(c) == ResolveCredRef(c) \/ Resolved(c) \/ ExecuteBuiltin(c)

CallStep(c) ==
    \/ CustomStep(c) \/ BuiltinStep(c) \/ Return(c)
    \/ ExchangeFails(c) \/ StatementFails(c)

Next ==
    \/ \E ws \in Workspaces : StoreStep(ws)
    \/ \E c \in Calls :
        \/ \E ws \in Workspaces :
            \/ \E t \in TypeIds : BeginCustom(c, ws, t)
            \/ \E type \in Builtins, refs \in RefSets : BeginBuiltin(c, ws, type, refs)
        \/ CallStep(c)

Spec == Init /\ [][Next]_vars

-----------------------------------------------------------------------------
(* Properties                                                              *)

\* Every variable has its type.
TypeOK ==
    /\ creds \in [Creds -> CredRows]
    /\ types \in [TypeIds -> TypeRows]
    /\ call \in [Calls -> CallRows]

\* A node type is never bound to a credential that does not exist (the foreign key
\* and its ON DELETE SET NULL, against updates that bind it anew).
BindingsExist ==
    \A t \in TypeIds :
        Live(types, t) /\ types[t].cred # NoCred => Live(creds, types[t].cred)

\* A call only ever holds secrets of the workspace of its execution, whoever defined
\* the node type and whatever credential that was bound to.
SecretsAreOwn ==
    \A c \in Calls : \A k \in call[c].secrets : creds[k].ws = call[c].ws

\* With a decryptor a request leaves with the secret that its definition binds, and a
\* built-in node executes with the secrets of all references that are whole, and of no
\* other, although they are read one by one while credentials are being deleted: one
\* that cannot be resolved ends the call, and is never sent as it is written.  (Those
\* inside longer strings and in arrays are, and without a decryptor all of them.)
CallsHaveTheirSecrets ==
    \A c \in Calls : Decryptor =>
        /\ call[c].at \in {"send", "sent"} =>
            call[c].secrets = {call[c].loaded.cred} \ {NoCred}
        /\ call[c].at \in {"execute", "executed"} =>
            call[c].pending = {} /\ call[c].secrets = {r.cred : r \in Recognised(call[c].refs)}

\* The version that a call uses was stored at some moment of that call.  So a node type
\* deleted before is not called any more ("workflow definitions referencing it will
\* fail at execution"), and no call goes back behind an update that was answered
\* before it, which holds for the calls of running executions as well: see
\* ChangesAffectFutureOnly for what the documentation says of those.
CallsUseStoredDefinition ==
    \A c \in Calls :
        call[c].at \in {"decrypt", "send", "sent"} =>
            /\ ~call[c].dead
            /\ call[c].loaded.version >= call[c].from
            /\ call[c].loaded.version <= types[call[c].type].version
            /\ call[c].loaded.version > 0

\* The versions that a search of the built-in nodes would find by their texts.
MustFind ==
    [q \in Queries |->
        {v \in DOMAIN Templates :
            \E text \in Templates[v].texts : ContainsInsensitive(text, q)}]

\* A query with the escape character of ILIKE.
Escapes(q) == \E j \in DOMAIN q : q[j] = "\\"

\* Searching the catalog treats both kinds of nodes alike, and offers nothing that
\* would fail at execution: a custom node is found whenever a built-in node of its
\* name and description would be, but for queries with the escape character of ILIKE,
\* and every node that is found can be called (Catalog, which puts the results of two
\* searches together, against deletes and renamings).
CatalogIsUniform ==
    \A ws \in Workspaces, q \in Queries :
        /\ \A t \in Catalog(ws, q) \intersect TypeIds : GetNodeTypeByID(t)
        /\ \A t \in TypeIds :
            /\ Live(types, t) /\ types[t].ws = ws
            /\ types[t].version \in MustFind[q] /\ ~Escapes(q)
            => t \in Catalog(ws, q)

\* Nothing that a template says is lost, repeated or moved in the request, but for the
\* references that follow the first one in a body string that consists of references
\* only, which isExact takes for one; a value that is the whole string keeps its type.
TemplatesLoseNothing ==
    \A c \in Calls : At(c, "sent") =>
        LET ns     == NamespacesOf(c)
            header == Templates[call[c].loaded.version].header
            body   == Templates[call[c].loaded.version].body
            sent   == RequestBody(c)
            OnlyRefs == \A i \in DOMAIN body.string : IsRef(body.string[i]) IN
        /\ WritesInOrder(RequestHeader(c).str, header, ns)
        /\ ~body.json \/ ~OnlyRefs => WritesInOrder(sent.str, body.string, ns)
        /\ /\ body.json /\ OnlyRefs /\ Len(body.string) = 1
           /\ Contributing(body.string, ns) # {}
           => sent = Written(body.string[1], ns)

\* Some path names each field of the execution's input for the first node, although
\* RunExecution wraps that input under the key "$", and resolveDotPath gives "$" and
\* the empty rest of a path meanings of their own: a field called "$" or "" is within
\* reach as well.  Only a field with a dot in its name is not, which resolveDotPath
\* takes apart.
InitialInputIsReachable ==
    \A c \in Calls :
        At(c, "executed") /\ call[c].first /\ call[c].type = "transform" =>
            \A f \in DOMAIN Initial.obj \intersect Segments :
                \E p \in Paths : Output(c, p).obj["out"] = Initial.obj[f]

-----------------------------------------------------------------------------
(* What the documentation says and the code does not do.                   *)

\* PUT /v1/node-types/:id and the tool update_node_type: "Changes affect future
\* executions only".  A node call belongs to a running execution and loads the
\* definition itself, so it takes one that was stored while it was in progress.
ChangesAffectFutureOnly ==
    \A c \in Calls :
        call[c].at \in {"decrypt", "send", "sent"} /\ call[c].from > 0 =>
            call[c].loaded.version = call[c].from
=============================================================================
