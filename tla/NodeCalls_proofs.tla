-------------------------- MODULE NodeCalls_proofs --------------------------
(***************************************************************************)
(* Proofs about NodeCalls, for any number of node calls, workspaces,        *)
(* credentials, node types and definitions of each, whatever the templates  *)
(* and configs are.                                                         *)
(***************************************************************************)
EXTENDS NodeCalls, NodeData_proofs, TLAPS

\* The history of a node type: it has had a definition exactly if it was created.
Versions ==
    \A t \in TypeIds :
        /\ types[t].state = "absent" => types[t].version = 0
        /\ types[t].state = "live" => types[t].version > 0

CustomPlaces == {"load", "decrypt", "send", "sent"}

\* A call of a custom node has the definition it loaded, and before that knows what
\* state the node type was in when the call began.
Loaded ==
    \A c \in Calls :
        /\ call[c].at \in CustomPlaces => call[c].type \in TypeIds
        /\ At(c, "load") =>
            /\ call[c].from <= types[call[c].type].version
            /\ call[c].dead => types[call[c].type].state = "deleted"
        /\ At(c, "decrypt") => call[c].loaded.cred # NoCred /\ Decryptor
        /\ call[c].at \in {"load", "decrypt"} => call[c].secrets = {}

\* The credential behind a secret was created once, and so has its workspace for good.
SecretsExist ==
    \A c \in Calls : \A k \in call[c].secrets :
        creds[k].ws = call[c].ws /\ creds[k].state # "absent"

\* While the references of a call are being resolved, each one that is recognised is
\* still pending or its secret is at hand, and no other secret is.
BeingResolved ==
    \A c \in Calls : At(c, "resolve") =>
        /\ call[c].pending \subseteq Recognised(call[c].refs)
        /\ \A r \in Recognised(call[c].refs) :
            r \in call[c].pending \/ r.cred \in call[c].secrets
        /\ \A k \in call[c].secrets : \E r \in Recognised(call[c].refs) : r.cred = k

IInv ==
    /\ TypeOK /\ Versions /\ Loaded /\ BindingsExist /\ SecretsExist
    /\ BeingResolved /\ CallsHaveTheirSecrets /\ CallsUseStoredDefinition

-----------------------------------------------------------------------------
(* Types                                                                   *)

LEMMA Sizes == MaxVersion \in Nat /\ 0 \in 0 .. MaxVersion /\ 1 \in 0 .. MaxVersion
BY NodeCallsAssumption

LEMMA NoRowTypes ==
    /\ SomeWorkspace \in Workspaces
    /\ NoCredential \in CredRows /\ NoType \in TypeRows /\ NoCall \in CallRows
<1>1. SomeWorkspace \in Workspaces
  BY NodeCallsAssumption DEF SomeWorkspace
<1>2. NoCredential \in CredRows
  BY <1>1 DEF NoCredential, CredRows, Data
<1>3. NoType \in TypeRows
  BY <1>1, Sizes DEF NoType, TypeRows
<1>4. NoDefinition \in Definitions
  BY Sizes DEF NoDefinition, Definitions
<1>5. NoCall \in CallRows
  BY <1>1, <1>4, Sizes DEF NoCall, CallRows, Builtins, Places
<1> QED
  BY <1>1, <1>2, <1>3, <1>5

LEMMA InitInv == Init => IInv
<1> SUFFICES ASSUME Init PROVE IInv
  OBVIOUS
<1>1. TypeOK
  BY NoRowTypes DEF Init, TypeOK
<1>2. /\ \A t \in TypeIds : types[t].state = "absent" /\ types[t].version = 0
      /\ \A c \in Calls : call[c].at = "idle" /\ call[c].secrets = {}
  BY DEF Init, NoType, NoCall
<1> QED
  BY <1>1, <1>2
     DEF IInv, Versions, Loaded, CustomPlaces, BindingsExist, SecretsExist, BeingResolved,
         CallsHaveTheirSecrets, CallsUseStoredDefinition, At, Live

-----------------------------------------------------------------------------
(* Requests on credentials and node types                                  *)

Grown ==
    \A t \in TypeIds :
        /\ types'[t].version >= types[t].version
        /\ types[t].state = "deleted" => types'[t].state = "deleted"

CredsKept ==
    \A k \in Creds : creds[k].state # "absent" =>
        creds'[k].ws = creds[k].ws /\ creds'[k].state # "absent"

\* A request that only adds to the history of node types and credentials keeps what
\* the calls in progress have seen.
LEMMA StoreKeeps ==
    ASSUME IInv, UNCHANGED call, TypeOK', Versions', BindingsExist', Grown, CredsKept
    PROVE  IInv'
<1>0. /\ call \in [Calls -> CallRows]
      /\ \A t \in TypeIds : types[t].version \in Nat /\ types'[t].version \in Nat
      /\ \A c \in Calls : call[c].from \in Nat /\ call[c].loaded.version \in Nat
      /\ \A c \in Calls : call[c].secrets \subseteq Creds
  BY Sizes DEF IInv, TypeOK, TypeRows, CallRows, Definitions
<1>1. Loaded'
  BY <1>0 DEF IInv, Loaded, Grown, CustomPlaces, At
<1>2. SecretsExist'
  BY <1>0 DEF IInv, SecretsExist, CredsKept
<1>3. CallsHaveTheirSecrets' /\ BeingResolved'
  BY DEF IInv, CallsHaveTheirSecrets, BeingResolved, At
<1>4. CallsUseStoredDefinition'
  <2>1. \A c \in Calls : call[c].at \in {"decrypt", "send", "sent"} => call[c].type \in TypeIds
    BY DEF IInv, Loaded, CustomPlaces
  <2> QED
    BY <1>0, <2>1 DEF IInv, CallsUseStoredDefinition, Grown
<1> QED
  BY <1>1, <1>2, <1>3, <1>4 DEF IInv

LEMMA CreateCredentialKeeps ==
    ASSUME IInv, NEW ws \in Workspaces, NEW k \in Creds, NEW data \in Data,
           CreateCredential(ws, k, data)
    PROVE  IInv'
<1>1. /\ creds' = [creds EXCEPT ![k] = [state |-> "live", ws |-> ws, data |-> data]]
      /\ creds[k].state = "absent" /\ UNCHANGED <<types, call>>
      /\ creds \in [Creds -> CredRows] /\ types \in [TypeIds -> TypeRows]
      /\ call \in [Calls -> CallRows]
  BY DEF CreateCredential, InsertCredential, IInv, TypeOK
<1>2. TypeOK'
  BY <1>1 DEF TypeOK, CredRows
<1>3. \A j \in Creds : Live(creds, j) => Live(creds', j)
  BY <1>1 DEF Live
<1>4. BindingsExist'
  BY <1>1, <1>3 DEF IInv, BindingsExist, TypeOK, TypeRows, Live
<1>5. Versions' /\ Grown /\ CredsKept
  BY <1>1, Sizes DEF IInv, Versions, Grown, CredsKept, TypeRows
<1> QED
  BY <1>1, <1>2, <1>4, <1>5, StoreKeeps

LEMMA DeleteCredentialKeeps ==
    ASSUME IInv, NEW ws \in Workspaces, NEW k \in Creds, DeleteCredential(ws, k)
    PROVE  IInv'
<1>1. /\ creds' = [creds EXCEPT ![k].state = "deleted"] /\ UNCHANGED call
      /\ types' = [t \in TypeIds |-> IF types[t].cred = k
                                     THEN [types[t] EXCEPT !.cred = NoCred] ELSE types[t]]
      /\ creds[k].state = "live"
      /\ creds \in [Creds -> CredRows] /\ types \in [TypeIds -> TypeRows]
      /\ call \in [Calls -> CallRows]
  BY DEF DeleteCredential, GetCredential, Live, RemoveCredential, Unbound, IInv, TypeOK
<1>2. /\ creds' \in [Creds -> CredRows]
      /\ \A j \in Creds : /\ j # k => creds'[j] = creds[j]
                          /\ creds'[j].ws = creds[j].ws
                          /\ creds[j].state # "absent" => creds'[j].state # "absent"
  BY <1>1 DEF CredRows
<1>3. ASSUME NEW t \in TypeIds
      PROVE  /\ types'[t] \in TypeRows /\ types'[t].version = types[t].version
             /\ types'[t].state = types[t].state
             /\ types'[t].cred = IF types[t].cred = k THEN NoCred ELSE types[t].cred
  <2>1. types[t] \in TypeRows
    BY <1>1
  <2>2. CASE types[t].cred = k
    <3>1. types'[t] = [types[t] EXCEPT !.cred = NoCred]
      BY <1>1, <2>2
    <3> QED
      BY <2>1, <2>2, <3>1 DEF TypeRows
  <2>3. CASE types[t].cred # k
    BY <1>1, <2>1, <2>3
  <2> QED
    BY <2>2, <2>3
<1>4. TypeOK'
  BY <1>1, <1>2, <1>3 DEF TypeOK
<1>5. BindingsExist'
  BY <1>1, <1>2, <1>3 DEF IInv, BindingsExist, TypeRows, Live
<1>6. Versions' /\ Grown /\ CredsKept
  BY <1>1, <1>2, <1>3, Sizes DEF IInv, Versions, Grown, CredsKept, TypeRows
<1> QED
  BY <1>1, <1>4, <1>5, <1>6, StoreKeeps

\* What is stored as the credential of a node type: none, or one that exists.
LEMMA CredentialIdTypes ==
    ASSUME NEW in \in Inputs, Referable(in)
    PROVE  /\ CredentialId(in) \in Creds \union {NoCred}
           /\ CredentialId(in) # NoCred => Live(creds, CredentialId(in))
BY NodeCallsAssumption DEF Inputs, Referable, CredentialId

LEMMA NodeTypeKeeps ==
    ASSUME IInv, NEW t \in TypeIds, NEW row \in TypeRows,
           types' = [types EXCEPT ![t] = row], UNCHANGED <<creds, call>>,
           row.version >= types[t].version,
           types[t].state = "deleted" => row.state = "deleted",
           row.state # "absent", row.state = "live" => row.version > 0,
           row.state = "live" /\ row.cred # NoCred => Live(creds, row.cred)
    PROVE  IInv'
<1>1. /\ types \in [TypeIds -> TypeRows] /\ types'[t] = row
      /\ \A u \in TypeIds \ {t} : types'[u] = types[u]
      /\ \A u \in TypeIds : types[u].version \in Nat
  BY Sizes DEF IInv, TypeOK, TypeRows
<1>2. TypeOK' /\ Versions' /\ BindingsExist'
  BY <1>1 DEF IInv, TypeOK, Versions, BindingsExist, Live
<1>3. Grown /\ CredsKept
  BY <1>1 DEF Grown, CredsKept
<1> QED
  BY <1>2, <1>3, StoreKeeps

LEMMA StoreStepKeeps ==
    ASSUME IInv, NEW ws \in Workspaces, StoreStep(ws)
    PROVE  IInv'
<1>0. types \in [TypeIds -> TypeRows]
  BY DEF IInv, TypeOK
<1>1. ASSUME NEW t \in TypeIds, NEW in \in Inputs, StoreNodeType(ws, t, in)
      PROVE  IInv'
  <2> DEFINE row == [state |-> "live", ws |-> ws, cred |-> CredentialId(in),
                     url |-> in.url, version |-> 1]
  <2>1. row \in TypeRows
    BY <1>1, CredentialIdTypes, Sizes DEF StoreNodeType, TypeRows, Inputs
  <2>2. /\ types' = [types EXCEPT ![t] = row] /\ UNCHANGED <<creds, call>>
        /\ types[t].state = "absent" /\ types[t].version = 0
    BY <1>1 DEF StoreNodeType, InsertNodeType, IInv, Versions
  <2>3. row.cred # NoCred => Live(creds, row.cred)
    BY <1>1, CredentialIdTypes DEF StoreNodeType
  <2>4. row.state = "live" /\ row.version = 1
    OBVIOUS
  <2> HIDE DEF row
  <2>5. row.version >= types[t].version /\ row.version > 0
    BY <2>2, <2>4
  <2> QED
    BY <2>1, <2>2, <2>3, <2>4, <2>5, NodeTypeKeeps
<1>2. ASSUME NEW t \in TypeIds, NEW in \in Inputs, UpdateStored(ws, t, in)
      PROVE  IInv'
  <2> DEFINE row == [types[t] EXCEPT !.cred = CredentialId(in), !.url = in.url,
                                     !.version = @ + 1]
  <2>1. /\ types[t] \in TypeRows /\ types[t].state = "live" /\ types[t].version < MaxVersion
        /\ CredentialId(in) \in Creds \union {NoCred} /\ in.url \in BOOLEAN
    BY <1>0, <1>2, CredentialIdTypes DEF UpdateStored, GetNodeType, Live, Inputs
  <2>2. types[t].version + 1 \in 0 .. MaxVersion
    BY <2>1, Sizes DEF TypeRows
  <2>3. /\ row \in TypeRows /\ row.state = "live" /\ row.cred = CredentialId(in)
        /\ row.version = types[t].version + 1
    BY <2>1, <2>2 DEF TypeRows
  <2>4. types' = [types EXCEPT ![t] = row] /\ UNCHANGED <<creds, call>>
    BY <1>0, <1>2 DEF UpdateStored, ReplaceNodeType
  <2>5. row.cred # NoCred => Live(creds, row.cred)
    BY <1>2, <2>3, CredentialIdTypes DEF UpdateStored
  <2>6. types[t].version \in Nat
    BY <2>1, Sizes DEF TypeRows
  <2> HIDE DEF row
  <2>7. row.version >= types[t].version /\ row.version > 0
    BY <2>3, <2>6
  <2> QED
    BY <2>1, <2>3, <2>4, <2>5, <2>7, NodeTypeKeeps
<1>3. ASSUME NEW t \in TypeIds, DeleteNodeType(ws, t)
      PROVE  IInv'
  <2> DEFINE row == [NoType EXCEPT !.state = "deleted", !.version = types[t].version]
  <2>1. /\ types[t] \in TypeRows /\ types[t].version \in 0 .. MaxVersion
        /\ types[t].version \in Nat
    BY <1>0, Sizes DEF TypeRows
  <2>2. row \in TypeRows /\ row.state = "deleted" /\ row.version = types[t].version
    BY <2>1, NoRowTypes DEF TypeRows
  <2>3. types' = [types EXCEPT ![t] = row] /\ UNCHANGED <<creds, call>>
    BY <1>3 DEF DeleteNodeType, RemoveNodeType
  <2> HIDE DEF row
  <2>4. row.version >= types[t].version
    BY <2>1, <2>2
  <2> QED
    BY <2>2, <2>3, <2>4, NodeTypeKeeps
<1> QED
  BY <1>1, <1>2, <1>3, CreateCredentialKeeps, DeleteCredentialKeeps
     DEF StoreStep, PostCredential, CreateNodeType, UpdateNodeType, CallTool, CreateNodeTypeTool,
         UpdateNodeTypeTool, DeleteNodeTypeTool

-----------------------------------------------------------------------------
(* Node calls                                                              *)

\* What IInv says of one call.
Holds(r) ==
    /\ r.at \in CustomPlaces => r.type \in TypeIds
    /\ r.at = "load" =>
        /\ r.from <= types[r.type].version
        /\ r.dead => types[r.type].state = "deleted"
    /\ r.at = "decrypt" => r.loaded.cred # NoCred /\ Decryptor
    /\ r.at \in {"load", "decrypt"} => r.secrets = {}
    /\ \A k \in r.secrets : creds[k].ws = r.ws /\ creds[k].state # "absent"
    /\ r.at = "resolve" =>
        /\ r.pending \subseteq Recognised(r.refs)
        /\ \A ref \in Recognised(r.refs) : ref \in r.pending \/ ref.cred \in r.secrets
        /\ \A k \in r.secrets : \E ref \in Recognised(r.refs) : ref.cred = k
    /\ Decryptor =>
        /\ r.at \in {"send", "sent"} => r.secrets = {r.loaded.cred} \ {NoCred}
        /\ r.at \in {"execute", "executed"} =>
            r.pending = {} /\ r.secrets = {ref.cred : ref \in Recognised(r.refs)}
    /\ r.at \in {"decrypt", "send", "sent"} =>
        /\ ~r.dead
        /\ r.loaded.version >= r.from
        /\ r.loaded.version <= types[r.type].version
        /\ r.loaded.version > 0

LEMMA CallsHold ==
    (\A c \in Calls : Holds(call[c])) <=>
        /\ Loaded /\ SecretsExist /\ BeingResolved
        /\ CallsHaveTheirSecrets /\ CallsUseStoredDefinition
BY DEF Holds, Loaded, SecretsExist, BeingResolved, CallsHaveTheirSecrets,
       CallsUseStoredDefinition, At

LEMMA CallKeeps ==
    ASSUME IInv, NEW c \in Calls, NEW r \in CallRows,
           call' = [call EXCEPT ![c] = r], UNCHANGED <<creds, types>>, Holds(r)
    PROVE  IInv'
<1>1. \A d \in Calls : Holds(call[d])
  BY CallsHold DEF IInv
<1>2. \A d \in Calls : call'[d] = IF d = c THEN r ELSE call[d]
  BY DEF IInv, TypeOK
<1>3. (\A d \in Calls : Holds(call[d]))'
  BY <1>1, <1>2 DEF Holds
<1>4. (/\ Loaded /\ SecretsExist /\ BeingResolved
       /\ CallsHaveTheirSecrets /\ CallsUseStoredDefinition)'
  BY <1>3 DEF Holds, Loaded, SecretsExist, BeingResolved, CallsHaveTheirSecrets,
              CallsUseStoredDefinition, At
<1>5. TypeOK' /\ Versions' /\ BindingsExist'
  BY DEF IInv, TypeOK, Versions, BindingsExist, Live
<1> QED
  BY <1>4, <1>5 DEF IInv

LEMMA EndKeeps ==
    ASSUME IInv, NEW c \in Calls, Ends(c), UNCHANGED <<creds, types>>
    PROVE  IInv'
<1>1. Holds(NoCall)
  BY DEF Holds, NoCall, CustomPlaces
<1> QED
  BY <1>1, NoRowTypes, CallKeeps DEF Ends

LEMMA BeginKeeps ==
    ASSUME IInv, NEW c \in Calls, NEW ws \in Workspaces,
           \/ \E t \in TypeIds : BeginCustom(c, ws, t)
           \/ \E type \in Builtins, refs \in RefSets : BeginBuiltin(c, ws, type, refs)
    PROVE  IInv'
<1>0. types \in [TypeIds -> TypeRows] /\ NoCall \in CallRows
  BY NoRowTypes DEF IInv, TypeOK
<1>1. ASSUME NEW t \in TypeIds, NEW first \in BOOLEAN, NEW config \in BOOLEAN,
             call' = [call EXCEPT ![c] = [NoCall EXCEPT
                         !.at = "load", !.ws = ws, !.type = t, !.first = first,
                         !.config = config, !.from = types[t].version,
                         !.dead = types[t].state = "deleted"]],
             UNCHANGED <<creds, types>>
      PROVE  IInv'
  <2> DEFINE r == [NoCall EXCEPT
                         !.at = "load", !.ws = ws, !.type = t, !.first = first,
                         !.config = config, !.from = types[t].version,
                         !.dead = types[t].state = "deleted"]
  <2>1. types[t] \in TypeRows /\ types[t].version \in 0 .. MaxVersion
        /\ types[t].version \in Nat
    BY <1>0, Sizes DEF TypeRows
  <2>2. r \in CallRows
    BY <1>0, <2>1 DEF CallRows, Places
  <2>3. /\ r.at = "load" /\ r.type = t /\ r.from = types[t].version /\ r.secrets = {}
        /\ r.dead => types[t].state = "deleted"
    BY DEF NoCall
  <2> HIDE DEF r
  <2>4. Holds(r)
    BY <2>1, <2>3 DEF Holds, CustomPlaces
  <2>5. call' = [call EXCEPT ![c] = r]
    BY <1>1 DEF r
  <2> QED
    BY <1>1, <2>2, <2>4, <2>5, CallKeeps
<1>2. ASSUME NEW type \in Builtins, NEW refs \in RefSets, NEW first \in BOOLEAN,
             call' = [call EXCEPT ![c] = [NoCall EXCEPT
                         !.at = "resolve", !.ws = ws, !.type = type, !.first = first,
                         !.refs = refs, !.pending = Recognised(refs)]],
             UNCHANGED <<creds, types>>
      PROVE  IInv'
  <2> DEFINE r == [NoCall EXCEPT !.at = "resolve", !.ws = ws, !.type = type, !.first = first,
                                 !.refs = refs, !.pending = Recognised(refs)]
  <2>1. refs \in SUBSET References /\ Recognised(refs) \in SUBSET References
    BY NodeCallsAssumption DEF Recognised
  <2>2. r \in CallRows
    BY <1>0, <2>1 DEF CallRows, Places
  <2>3. /\ r.at = "resolve" /\ r.secrets = {}
        /\ r.refs = refs /\ r.pending = Recognised(refs)
    BY DEF NoCall
  <2> HIDE DEF r
  <2>4. Holds(r)
    BY <2>3 DEF Holds, CustomPlaces
  <2>5. call' = [call EXCEPT ![c] = r]
    BY <1>2 DEF r
  <2> QED
    BY <1>2, <2>2, <2>4, <2>5, CallKeeps
<1>3. ASSUME NEW t \in TypeIds, BeginCustom(c, ws, t) PROVE IInv'
  <2>1. PICK first \in BOOLEAN, config \in BOOLEAN :
          call' = [call EXCEPT ![c] = [NoCall EXCEPT
                      !.at = "load", !.ws = ws, !.type = t, !.first = first,
                      !.config = config, !.from = types[t].version,
                      !.dead = types[t].state = "deleted"]]
    BY <1>3, Zenon DEF BeginCustom
  <2>2. UNCHANGED <<creds, types>>
    BY <1>3 DEF BeginCustom
  <2> QED
    BY <1>1, <2>1, <2>2, Zenon
<1>4. ASSUME NEW type \in Builtins, NEW refs \in RefSets, BeginBuiltin(c, ws, type, refs)
      PROVE  IInv'
  <2>1. PICK first \in BOOLEAN :
          call' = [call EXCEPT ![c] = [NoCall EXCEPT
                      !.at = "resolve", !.ws = ws, !.type = type, !.first = first,
                      !.refs = refs, !.pending = Recognised(refs)]]
    BY <1>4, Zenon DEF BeginBuiltin
  <2>2. UNCHANGED <<creds, types>>
    BY <1>4 DEF BeginBuiltin
  <2> QED
    BY <1>2, <2>1, <2>2, Zenon
<1> QED
  BY <1>3, <1>4

\* A call that only moves on.
LEMMA GoKeeps ==
    ASSUME IInv, NEW c \in Calls, NEW place \in Places, Go(c, place),
           UNCHANGED <<creds, types>>,
           \/ At(c, "send") /\ place = "sent"
           \/ At(c, "execute") /\ place = "executed"
           \/ /\ At(c, "resolve") /\ place = "execute"
              /\ Decryptor => call[c].pending = {}
    PROVE  IInv'
<1> DEFINE r == [call[c] EXCEPT !.at = place]
<1>1. call[c] \in CallRows /\ call' = [call EXCEPT ![c] = r]
  BY DEF Go, IInv, TypeOK
<1>2. /\ r \in CallRows /\ r.at = place /\ r.type = call[c].type /\ r.loaded = call[c].loaded
      /\ r.secrets = call[c].secrets /\ r.pending = call[c].pending /\ r.ws = call[c].ws
      /\ r.refs = call[c].refs
      /\ r.from = call[c].from /\ r.dead = call[c].dead
  BY <1>1 DEF CallRows
<1>3. Holds(call[c])
  BY CallsHold DEF IInv
<1> HIDE DEF r
<1>4. /\ At(c, "resolve") /\ call[c].pending = {} =>
            call[c].secrets = {ref.cred : ref \in Recognised(call[c].refs)}
      /\ At(c, "execute") /\ Decryptor =>
            call[c].pending = {} /\ call[c].secrets = {ref.cred : ref \in Recognised(call[c].refs)}
  BY <1>3 DEF Holds, At
<1>5. Holds(r)
  <2>1. place \in {"execute", "executed"} /\ Decryptor =>
            r.pending = {} /\ r.secrets = {ref.cred : ref \in Recognised(r.refs)}
    BY <1>2, <1>4
  <2> QED
    BY <1>2, <1>3, <2>1 DEF Holds, At, CustomPlaces
<1> QED
  BY <1>1, <1>2, <1>5, CallKeeps

\* The definition is the one stored now.
LEMMA LoadKeeps ==
    ASSUME IInv, NEW c \in Calls, LoadNodeType(c)
    PROVE  IInv'
<1> DEFINE row == types[call[c].type]
           place == IF Decrypted(row.cred) THEN "decrypt" ELSE "send"
           def == [cred |-> row.cred, url |-> row.url, version |-> row.version]
           r == [call[c] EXCEPT !.at = place, !.loaded = def]
<1>1. CASE Ends(c)
  BY <1>1, EndKeeps DEF LoadNodeType
<1>2. CASE GetNodeTypeByID(call[c].type) /\ call' = [call EXCEPT ![c].at = place, ![c].loaded = def]
  <2>1. /\ call[c] \in CallRows /\ call[c].at = "load" /\ call[c].type \in TypeIds
        /\ row \in TypeRows /\ row.state = "live" /\ row.version > 0
        /\ Holds(call[c])
    BY <1>2, CallsHold
       DEF LoadNodeType, At, GetNodeTypeByID, Live, IInv, TypeOK, Versions, Loaded, CustomPlaces
  <2>2. def \in Definitions /\ place \in Places
    BY <2>1 DEF TypeRows, Definitions, Places
  <2>3. def.cred = row.cred /\ def.version = row.version
    OBVIOUS
  <2>4. call' = [call EXCEPT ![c] = r]
    BY <1>2 DEF IInv, TypeOK
  <2>5. row.version \in Nat
    BY <2>1, Sizes DEF TypeRows
  <2>6. /\ place \in {"decrypt", "send"}
        /\ place = "decrypt" => Decryptor /\ row.cred # NoCred
        /\ place = "send" /\ Decryptor => row.cred = NoCred
    BY DEF Decrypted
  <2> HIDE DEF place, def
  <2>7. /\ r \in CallRows /\ r.at = place /\ r.type = call[c].type /\ r.loaded = def
        /\ r.secrets = call[c].secrets /\ r.pending = call[c].pending /\ r.ws = call[c].ws
        /\ r.refs = call[c].refs
        /\ r.from = call[c].from /\ r.dead = call[c].dead
    BY <2>1, <2>2 DEF CallRows
  <2> HIDE DEF r
  <2>8. Holds(r)
    BY <2>1, <2>3, <2>5, <2>6, <2>7 DEF Holds, CustomPlaces
  <2> QED
    BY <2>4, <2>7, <2>8, CallKeeps DEF LoadNodeType
<1> QED
  BY <1>1, <1>2 DEF LoadNodeType

LEMMA DecryptKeeps ==
    ASSUME IInv, NEW c \in Calls, DecryptBound(c)
    PROVE  IInv'
<1> DEFINE k == call[c].loaded.cred
           r == [call[c] EXCEPT !.at = "send", !.secrets = {k}]
<1>1. CASE Ends(c)
  BY <1>1, EndKeeps DEF DecryptBound
<1>2. CASE /\ Decrypts(call[c].ws, k)
           /\ call' = [call EXCEPT ![c].at = "send", ![c].secrets = {k}]
  <2>1. call[c] \in CallRows /\ call[c].at = "decrypt" /\ Holds(call[c])
    BY CallsHold DEF DecryptBound, At, IInv, TypeOK
  <2>2. k \in Creds /\ creds[k].state = "live" /\ creds[k].ws = call[c].ws
    BY <1>2, <2>1 DEF Decrypts, GetCredential, Live, CallRows, Definitions, Holds
  <2>3. call' = [call EXCEPT ![c] = r]
    BY <1>2 DEF IInv, TypeOK
  <2>4. /\ r \in CallRows /\ r.at = "send" /\ r.type = call[c].type
        /\ r.loaded = call[c].loaded /\ r.secrets = {k} /\ r.ws = call[c].ws
        /\ r.from = call[c].from /\ r.dead = call[c].dead
    BY <2>1, <2>2 DEF CallRows, Places
  <2> HIDE DEF r
  <2>5. Holds(r)
    BY <2>1, <2>2, <2>4 DEF Holds, CustomPlaces
  <2> QED
    BY <2>3, <2>4, <2>5, CallKeeps DEF DecryptBound
<1> QED
  BY <1>1, <1>2 DEF DecryptBound

LEMMA ResolveKeeps ==
    ASSUME IInv, NEW c \in Calls, ResolveCredRef(c)
    PROVE  IInv'
<1>1. CASE Ends(c)
  BY <1>1, EndKeeps DEF ResolveCredRef
<1>2. ASSUME NEW ref \in call[c].pending, Decrypts(call[c].ws, ref.cred),
             call' = [call EXCEPT ![c].pending = @ \ {ref},
                                  ![c].secrets = @ \union {ref.cred}]
      PROVE  IInv'
  <2> DEFINE r == [call[c] EXCEPT !.pending = call[c].pending \ {ref},
                                  !.secrets = call[c].secrets \union {ref.cred}]
  <2>1. call[c] \in CallRows /\ call[c].at = "resolve" /\ Holds(call[c])
    BY CallsHold DEF ResolveCredRef, At, IInv, TypeOK
  <2>2. ref.cred \in Creds /\ creds[ref.cred].state = "live" /\ creds[ref.cred].ws = call[c].ws
    BY <1>2, <2>1 DEF Decrypts, GetCredential, Live, CallRows, References
  <2>3. call' = [call EXCEPT ![c] = r]
    BY <1>2 DEF IInv, TypeOK
  <2>4. /\ r \in CallRows /\ r.at = "resolve" /\ r.ws = call[c].ws
        /\ r.secrets = call[c].secrets \union {ref.cred}
        /\ r.pending = call[c].pending \ {ref} /\ r.refs = call[c].refs
    BY <2>1, <2>2 DEF CallRows
  <2> HIDE DEF r
  <2>5. Holds(r)
    BY <1>2, <2>1, <2>2, <2>4 DEF Holds, CustomPlaces
  <2>6. UNCHANGED <<creds, types>>
    BY DEF ResolveCredRef
  <2> QED
    BY <2>3, <2>4, <2>5, <2>6, CallKeeps
<1>3. PICK ref \in call[c].pending :
        \/ /\ Decrypts(call[c].ws, ref.cred)
           /\ call' = [call EXCEPT ![c].pending = @ \ {ref},
                                   ![c].secrets = @ \union {ref.cred}]
        \/ Ends(c)
  BY DEF ResolveCredRef
<1> QED
  BY <1>1, <1>2, <1>3

LEMMA CallStepKeeps ==
    ASSUME IInv, NEW c \in Calls, CallStep(c)
    PROVE  IInv'
<1>1. CASE Send(c)
  BY <1>1, EndKeeps, GoKeeps DEF Send, Places
<1>2. CASE Resolved(c)
  BY <1>2, GoKeeps DEF Resolved, Places
<1>3. CASE ExecuteBuiltin(c)
  BY <1>3, GoKeeps DEF ExecuteBuiltin, Places
<1>4. CASE Return(c) \/ ExchangeFails(c) \/ StatementFails(c)
  BY <1>4, EndKeeps DEF Return, ExchangeFails, StatementFails
<1> QED
  BY <1>1, <1>2, <1>3, <1>4, LoadKeeps, DecryptKeeps, ResolveKeeps
     DEF CallStep, CustomStep, BuiltinStep

LEMMA NextInv == IInv /\ [Next]_vars => IInv'
<1> SUFFICES ASSUME IInv, [Next]_vars PROVE IInv'
  OBVIOUS
<1>1. CASE UNCHANGED vars
  BY <1>1 DEF vars, IInv, TypeOK, Versions, Loaded, BindingsExist, SecretsExist, BeingResolved,
              CallsHaveTheirSecrets, CallsUseStoredDefinition, At, Live
<1> QED
  BY <1>1, StoreStepKeeps, BeginKeeps, CallStepKeeps DEF Next

-----------------------------------------------------------------------------
(* Theorems                                                                *)

\* Every variable has its type, for any number of calls and rows.
THEOREM NodeCallTypes == Spec => []TypeOK
<1>1. IInv => TypeOK
  BY DEF IInv
<1> QED
  BY InitInv, NextInv, <1>1, PTL DEF Spec

\* No stored node type is bound to a credential that is gone, for any number of
\* requests of any workspaces.
THEOREM BindingsHold == Spec => []BindingsExist
<1>1. IInv => BindingsExist
  BY DEF IInv
<1> QED
  BY InitInv, NextInv, <1>1, PTL DEF Spec

\* A call of any workspace only ever holds secrets of that workspace.
THEOREM NoForeignSecret == Spec => []SecretsAreOwn
<1>1. IInv => SecretsAreOwn
  BY DEF IInv, SecretsExist, SecretsAreOwn
<1> QED
  BY InitInv, NextInv, <1>1, PTL DEF Spec

\* With a decryptor nothing leaves without the secret of its definition, and no
\* built-in node executes without the secrets of all references that are whole, for any
\* number of references and of requests that delete credentials meanwhile.
THEOREM SecretsAreComplete == Spec => []CallsHaveTheirSecrets
<1>1. IInv => CallsHaveTheirSecrets
  BY DEF IInv
<1> QED
  BY InitInv, NextInv, <1>1, PTL DEF Spec

\* Without a decryptor, as the worker builds the executors, no call ever has a secret,
\* and a built-in node gets each reference of its config as it is written, without an
\* error (resolveCredentials, and the condition on the decryptor of httpaction's
\* Execute).
THEOREM NothingIsDecrypted ==
  Spec => [](~Decryptor => \A c \in Calls :
               call[c].secrets = {} /\ call[c].pending = Recognised(call[c].refs))
<1> DEFINE Plain(r) == r.at # "decrypt" /\ r.secrets = {} /\ r.pending = Recognised(r.refs)
<1> DEFINE Undecrypted == ~Decryptor => \A c \in Calls : Plain(call[c])
<1>1. Plain(NoCall)
  BY DEF NoCall, Recognised
<1>2. Init => Undecrypted
  BY <1>1 DEF Init
<1>3. Undecrypted /\ TypeOK /\ [Next]_vars => Undecrypted'
  <2> SUFFICES ASSUME ~Decryptor, TypeOK, [Next]_vars, NEW d \in Calls,
                      \A c \in Calls : Plain(call[c])
               PROVE  Plain(call[d])'
    OBVIOUS
  <2>1. CASE UNCHANGED call
    BY <2>1
  <2>2. ASSUME NEW c \in Calls, NEW r, call' = [call EXCEPT ![c] = r], Plain(r)
        PROVE  Plain(call[d])'
    BY <2>2 DEF TypeOK
  <2>3. ASSUME NEW c \in Calls, Ends(c) PROVE Plain(call[d])'
    BY <2>3, <2>2, <1>1, NoRowTypes DEF Ends
  <2>4. ASSUME NEW c \in Calls, NEW place \in Places \ {"decrypt"}, Go(c, place)
        PROVE  Plain(call[d])'
    BY <2>4 DEF Go, TypeOK, CallRows
  <2>5. ASSUME NEW ws \in Workspaces, StoreStep(ws) PROVE UNCHANGED call
    BY <2>5 DEF StoreStep, PostCredential, CreateCredential, DeleteCredential, CreateNodeType,
        UpdateNodeType, DeleteNodeType, CallTool, CreateNodeTypeTool, UpdateNodeTypeTool,
        DeleteNodeTypeTool, StoreNodeType, UpdateStored
  <2>6. ASSUME NEW c \in Calls, NEW ws \in Workspaces, NEW t \in TypeIds,
               BeginCustom(c, ws, t)
        PROVE  Plain(call[d])'
    <3> DEFINE r(first, config) == [NoCall EXCEPT
                  !.at = "load", !.ws = ws, !.type = t, !.first = first,
                  !.config = config, !.from = types[t].version,
                  !.dead = types[t].state = "deleted"]
    <3>1. \A first, config \in BOOLEAN : Plain(r(first, config))
      BY DEF NoCall, Recognised
    <3>2. \E first, config \in BOOLEAN : call' = [call EXCEPT ![c] = r(first, config)]
      BY <2>6, Zenon DEF BeginCustom
    <3> HIDE DEF r
    <3> QED
      BY <3>1, <3>2, <2>2
  <2>7. ASSUME NEW c \in Calls, NEW ws \in Workspaces, NEW type \in Builtins,
               NEW refs \in RefSets, BeginBuiltin(c, ws, type, refs)
        PROVE  Plain(call[d])'
    <3> DEFINE r(first) == [NoCall EXCEPT
                  !.at = "resolve", !.ws = ws, !.type = type, !.first = first,
                  !.refs = refs, !.pending = Recognised(refs)]
    <3>1. \A first \in BOOLEAN : Plain(r(first))
      BY DEF NoCall, Recognised
    <3>2. \E first \in BOOLEAN : call' = [call EXCEPT ![c] = r(first)]
      BY <2>7, Zenon DEF BeginBuiltin
    <3> HIDE DEF r
    <3> QED
      BY <3>1, <3>2, <2>2
  <2>8. ASSUME NEW c \in Calls, LoadNodeType(c) PROVE Plain(call[d])'
    BY <2>8, <2>3 DEF LoadNodeType, Decrypted, TypeOK, CallRows
  <2>9. ASSUME NEW c \in Calls,
               \/ Send(c) \/ Resolved(c) \/ ExecuteBuiltin(c)
               \/ Return(c) \/ ExchangeFails(c) \/ StatementFails(c)
        PROVE  Plain(call[d])'
    BY <2>9, <2>3, <2>4
       DEF Send, Resolved, ExecuteBuiltin, Return, ExchangeFails, StatementFails, Places
  <2>10. ASSUME NEW c \in Calls PROVE ~DecryptBound(c) /\ ~ResolveCredRef(c)
    BY DEF DecryptBound, ResolveCredRef, At
  <2> QED
    BY <2>1, <2>5, <2>6, <2>7, <2>8, <2>9, <2>10
       DEF Next, CallStep, CustomStep, BuiltinStep, vars
<1>4. Undecrypted => (~Decryptor => \A c \in Calls :
                        call[c].secrets = {} /\ call[c].pending = Recognised(call[c].refs))
  OBVIOUS
<1> QED
  BY <1>2, <1>3, <1>4, NodeCallTypes, PTL DEF Spec

\* The version that a call uses was stored at some moment of the call, for any number
\* of updates and deletes meanwhile.
THEOREM DefinitionsAreStored == Spec => []CallsUseStoredDefinition
<1>1. IInv => CallsUseStoredDefinition
  BY DEF IInv
<1> QED
  BY InitInv, NextInv, <1>1, PTL DEF Spec

-----------------------------------------------------------------------------
(* The data of a call                                                      *)

\* The catalog holds for whatever is stored: each search is about one text.
LEMMA CatalogHolds == TypeOK => CatalogIsUniform
<1> SUFFICES ASSUME TypeOK, NEW ws \in Workspaces, NEW q \in Queries
             PROVE  /\ \A t \in Catalog(ws, q) \intersect TypeIds : GetNodeTypeByID(t)
                    /\ \A t \in TypeIds :
                        /\ Live(types, t) /\ types[t].ws = ws
                        /\ types[t].version \in MustFind[q] /\ ~Escapes(q)
                        => t \in Catalog(ws, q)
  BY DEF CatalogIsUniform
<1>1. \A t \in Catalog(ws, q) \intersect TypeIds : t \in ListNodeTypes(ws, q)
  <2>1. BuiltinsFound[q] \subseteq Builtins
    BY NodeTypesAssumption DEF BuiltinsFound
  <2> QED
    BY <2>1, NodeTypesAssumption DEF Catalog
<1>2. \A t \in Catalog(ws, q) \intersect TypeIds : GetNodeTypeByID(t)
  BY <1>1 DEF ListNodeTypes, GetNodeType, GetNodeTypeByID
<1>3. ASSUME NEW t \in TypeIds, Live(types, t), types[t].ws = ws,
             types[t].version \in MustFind[q], ~Escapes(q)
      PROVE  t \in Catalog(ws, q)
  <2> DEFINE v == types[t].version
  <2>1. v \in DOMAIN Templates
        /\ \E text \in Templates[v].texts : ContainsInsensitive(text, q)
    BY <1>3 DEF MustFind
  <2> HIDE DEF v
  <2>2. PICK text \in Templates[v].texts : ContainsInsensitive(text, q)
    BY <2>1
  <2>3. text \in Seq(STRING) /\ q \in Seq(STRING) /\ \A j \in DOMAIN q : q[j] # "\\"
    BY <1>3, <2>1, TextsAssumption DEF Escapes
  <2>4. Listed(text, q)
    BY <2>2, <2>3, ListedFindsMore
  <2>5. v \in VersionsFound[q]
    BY <2>1, <2>4 DEF VersionsFound
  <2> QED
    BY <1>3, <2>5 DEF v, Catalog, ListNodeTypes, GetNodeType
<1> QED
  BY <1>2, <1>3

\* A request only leaves with a definition that was stored, and so has templates.
LEMMA TemplatesHold == IInv => TemplatesLoseNothing
<1> SUFFICES ASSUME IInv, NEW c \in Calls, At(c, "sent")
             PROVE  LET ns     == NamespacesOf(c)
                        header == Templates[call[c].loaded.version].header
                        body   == Templates[call[c].loaded.version].body
                        sent   == RequestBody(c)
                        OnlyRefs == \A i \in DOMAIN body.string : IsRef(body.string[i]) IN
                    /\ WritesInOrder(RequestHeader(c).str, header, ns)
                    /\ ~body.json \/ ~OnlyRefs => WritesInOrder(sent.str, body.string, ns)
                    /\ /\ body.json /\ OnlyRefs /\ Len(body.string) = 1
                       /\ Contributing(body.string, ns) # {}
                       => sent = Written(body.string[1], ns)
  BY DEF TemplatesLoseNothing
<1> DEFINE v == call[c].loaded.version
           ns == NamespacesOf(c)
           header == Templates[v].header
           body == Templates[v].body
<1>1. v \in DOMAIN Templates
  <2>1. v \in 0 .. MaxVersion /\ v > 0
    BY DEF IInv, TypeOK, CallRows, Definitions, CallsUseStoredDefinition, At
  <2> QED
    BY <2>1, Sizes, NodeTypesAssumption
<1>2. IsSequence(header) /\ IsSequence(body.string)
  BY <1>1, TextsAssumption
<1> HIDE DEF ns, header, body, v
<1>3. WritesInOrder(Resolve(header, ns).str, header, ns)
  BY <1>2, ResolveWritesInOrder DEF IsSequence
<1>4. WritesInOrder(Resolve(body.string, ns).str, body.string, ns)
  BY <1>2, ResolveWritesInOrder DEF IsSequence
<1>5. ASSUME ~body.json \/ ~(\A i \in DOMAIN body.string : IsRef(body.string[i]))
      PROVE  ResolveBody(body, ns) = Resolve(body.string, ns)
  BY <1>5 DEF ResolveBody, ResolveString, IsExact
<1>6. ASSUME body.json, \A i \in DOMAIN body.string : IsRef(body.string[i]),
             Len(body.string) = 1, Contributing(body.string, ns) # {}
      PROVE  ResolveBody(body, ns) = Written(body.string[1], ns)
  <2>1. DOMAIN body.string = {1}
    BY <1>2, <1>6 DEF IsSequence
  <2>2. IsRef(body.string[1]) /\ Written(body.string[1], ns) # Null
    BY <1>6, <2>1 DEF Contributing
  <2> QED
    BY <1>6, <2>1, <2>2, ResolveStringOfOne DEF ResolveBody
<1> QED
  BY <1>3, <1>4, <1>5, <1>6 DEF v, ns, header, body, RequestHeader, RequestBody

LEMMA InitialInputIsFound == InitialInputIsReachable
<1> SUFFICES ASSUME NEW c \in Calls, call[c].first, call[c].type = "transform",
                    NEW f \in DOMAIN Initial.obj, f \in Segments
             PROVE  \E p \in Paths : Output(c, p).obj["out"] = Initial.obj[f]
  BY DEF InitialInputIsReachable
<1> DEFINE path == PathTo(<<"$", f>>)
           wrapped == [obj |-> [k \in {"$"} |-> Initial]]
<1>1. path \in Paths
  BY InputAssumption
<1>2. Output(c, path) = Transform(wrapped, "out", path)
  BY DEF Output, NodeInput
<1>3. ResolveDotPath(wrapped, path) = ResolveDotPath(Initial, PathTo(<<f>>))
  <2>1. <<f>> \in Seq(Segments) /\ <<"$", f>> = <<"$">> \o <<f>>
    OBVIOUS
  <2>2. IsObject(wrapped)
    BY InputAssumption
  <2> QED
    BY <2>1, <2>2, WrappedDataIsReachable
<1>4. ResolveDotPath(Initial, PathTo(<<f>>)) = Initial.obj[f]
  <2>1. ResolveDotPath(Initial, PathTo(<<f>> \o <<>>)) =
        ResolveDotPath(Member(Initial, f), PathTo(<<>>))
    <3>1. <<>> \in Seq(Segments)
      OBVIOUS
    <3>2. \A data : \A key \in Segments, keys \in Seq(Segments) :
            ResolveDotPath(data, PathTo(<<key>> \o keys)) =
            ResolveDotPath(Member(data, key), PathTo(keys))
      BY FirstKey
    <3> QED
      BY <3>1, <3>2, ZenonT(60)
  <2>2. Member(Initial, f) = Initial.obj[f]
    BY InputAssumption DEF Member, Field, IsObject, IsArray
  <2>3. <<f>> \o <<>> = <<f>>
    OBVIOUS
  <2>4. ResolveDotPath(Initial.obj[f], PathTo(<<>>)) = Initial.obj[f]
    BY NoKeys
  <2> QED
    BY <2>1, <2>2, <2>3, <2>4
<1>5. Output(c, path).obj["out"] = Initial.obj[f]
  <2>1. path # <<Empty>>
    <3>1. Len(path) = 5 /\ Len(<<Empty>>) = 1
      BY DEF PathTo
    <3> QED
      BY <3>1
  <2> QED
    BY <1>2, <1>3, <1>4, <2>1 DEF Transform
<1> QED
  BY <1>1, <1>5

\* A search of the catalog finds the custom nodes that a search of built-in nodes with
\* their texts would find, and nothing that cannot be called, for any texts, any
\* queries without the escape character, and whatever is stored.
THEOREM CatalogsAreUniform == Spec => []CatalogIsUniform
<1>1. IInv => CatalogIsUniform
  BY CatalogHolds DEF IInv
<1> QED
  BY InitInv, NextInv, <1>1, PTL DEF Spec

\* Whatever the templates of a node type are, what they say reaches the request, each
\* piece once and in its place.
THEOREM TemplatesAreKept == Spec => []TemplatesLoseNothing
<1> QED
  BY InitInv, NextInv, TemplatesHold, PTL DEF Spec

\* Whatever the input of an execution is, the first node can be given a path to any
\* field of it whose name has no dot, be it empty or "$".
THEOREM InitialInputReached == Spec => []InitialInputIsReachable
<1> QED
  BY InitInv, NextInv, InitialInputIsFound, PTL DEF Spec
=============================================================================
