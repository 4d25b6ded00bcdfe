------------------------------ MODULE Service -------------------------------
(***************************************************************************)
(* GrpcWorkspaceService: concurrent handlers of workspace requests, their  *)
(* security checks, the audit records they write and the registry they     *)
(* share behind one async mutex.                                           *)
(*                                                                         *)
(* A handler writes a record before it acts on each of its checks, and     *)
(* after its effect.  What the sink does with a record is a choice: it is  *)
(* accepted, or it is not.  In the secured profile audit is mandatory: the *)
(* loss of a record of an outcome is noted in a flag that every request    *)
(* loads, and that the one which finds the sink healthy again clears.  In  *)
(* the two local profiles a failing sink is ignored, and the request       *)
(* writes no further record.  The ids of the records and the sink itself   *)
(* are the subject of module AuditStore.                                   *)
(***************************************************************************)
EXTENDS Registry, Policy

CONSTANTS
  Clients,          \* request handlers that run concurrently
  Profiles,         \* the security profiles a service is started with
  Config,           \* the permission table configuration
  CertificateMaps,  \* certificate mappings the operator installs
  Calls,            \* the gRPC requests clients send
  MaxBatch          \* max_batch_operations of the secured profile

ASSUME ServiceAssumption ==
  /\ ~ConfigRefused(Config)
  /\ \A m \in CertificateMaps : ~MappingsRefused(m)

OnHandle(call) == call.rpc \in {"execute", "close"}

RequestTypes == DOMAIN ModelActions \cup DOMAIN PlainActions
                \cup {"FindNodes", "Query", "Explain", "Profile", "ApplyBatch"}

\* A handle the service never draws and a ref that has no file are answered
\* like ones it has not drawn or written yet; a create may leave out the ref,
\* and an open without one, which the registry turns down, is not considered.
ASSUME CallsAssumption ==
  \A call \in Calls :
    /\ call.rpc \in {"create", "open", "execute", "close", "inspect", "status"}
    /\ call.rpc = "create" => call.ref \in Refs \cup {NoRef}
    /\ call.rpc = "open" => call.ref \in Refs
    /\ OnHandle(call) /\ ~call.malformed => call.handle \in Handles
    /\ call.rpc = "execute" /\ ~call.malformed =>
         /\ call.body.type \in RequestTypes
         /\ call.body.type \in {"Query", "Explain", "Profile"} =>
              call.body.query.kind \in {"NodeFind", "Traversal", "EdgeFind"}

VARIABLES
  profile,
  mappings,        \* the authenticator's active certificate mappings
  audit_degraded,  \* the service's flag: the record of an outcome was lost
  lock,            \* the handler inside the registry's mutex, if any
  client,          \* the handlers
  lost             \* history: the flag was raised, and no probe of the sink has
                   \* found it healthy since

securityVars == <<profile, mappings, audit_degraded, lost>>
vars == <<registryVars, securityVars, lock, client>>

Mandatory == profile = "Secured"

\* a call: the method, its arguments, and the peer with its certificate
NoCall == [rpc |-> "none", malformed |-> FALSE, handle |-> NoHandle, ref |-> NoRef,
           local |-> FALSE, body |-> [type |-> "Summary"],
           peer |-> [certificate |-> NoName, loopback |-> TRUE, actor |-> TRUE]]

Idle == [phase |-> "idle", call |-> NoCall, principal |-> NoName, authoritative |-> TRUE,
         trail |-> {}, blind |-> FALSE, answer |-> "none", effect |-> "none", name |-> NoName]

Init ==
  /\ RegistryInit
  /\ profile \in Profiles
  /\ mappings \in CertificateMaps
  /\ audit_degraded = FALSE
  /\ lost = FALSE
  /\ lock = {}
  /\ client = [c \in Clients |-> Idle]

-----------------------------------------------------------------------------
(***************************************************************************)
(* Answers and audit records.                                              *)
(***************************************************************************)
Become(c, handler) == client' = [client EXCEPT ![c] = handler]
At(handler, phase) == [handler EXCEPT !.phase = phase]

\* the handler returns, and drops the mutex if it holds it
Return(c, handler, answer) ==
  /\ Become(c, [Idle EXCEPT !.answer = answer, !.effect = handler.effect])
  /\ lock' = lock \ {c}

\* audit_append: the handlers a record may leave, if the request goes on
Recorded(handler, record) ==
  IF ~handler.authoritative THEN {handler}
  ELSE {[handler EXCEPT !.trail = @ \cup {record}]}
       \cup (IF Mandatory THEN {} ELSE {[handler EXCEPT !.authoritative = FALSE]})

\* a record before the effect: the request goes on, or audit refuses it
Record(c, handler, record, phase) ==
  \/ /\ \E h \in Recorded(handler, record) : Become(c, At(h, phase))
     /\ UNCHANGED lock
  \/ Mandatory /\ Return(c, handler, "AuditSinkUnavailable")

\* audit_security_error, audit_status_error: the refusal is recorded too
Refuse(c, record, answer) ==
  \/ \E h \in Recorded(client[c], record) : Return(c, h, answer)
  \/ Mandatory /\ Return(c, client[c], "AuditSinkUnavailable")

-----------------------------------------------------------------------------
(***************************************************************************)
(* Before the effect.                                                      *)
(***************************************************************************)
Principal(peer) == IF Mandatory THEN Authenticate(mappings, peer.certificate) ELSE NoName

PeerAccepted(peer) ==
  /\ profile = "AnonymousLocal" => peer.loopback
  /\ peer.actor
  /\ Mandatory => Principal(peer) # NoName

ServiceOp(action) == {<<0, Op(action, "Service", ServiceName, NoName)>>}

Operations(call, name) ==
  CASE call.rpc = "create"  -> ServiceOp("WorkspaceCreate")
    [] call.rpc = "inspect" -> ServiceOp("AuditInspect")
    [] call.rpc = "open"    -> {<<0, Op("WorkspaceOpen", "Workspace", name, NoName)>>}
    [] call.rpc = "close"   -> {<<0, Op("WorkspaceClose", "Workspace", name, NoName)>>}
    [] call.rpc = "execute" -> SecurityOperations(call.body, name)

\* create and inspect name the service, open the ref it asks for
NameOf(handler) ==
  CASE OnHandle(handler.call) -> handler.name
    [] handler.call.rpc = "open" -> handler.call.ref
    [] OTHER -> ServiceName

Permitted(handler) ==
  Mandatory => Allows(Table(Config), handler.principal,
                      Operations(handler.call, NameOf(handler)))

\* the Attempt record; security_status writes none, and answers
Attempt(c, handler) ==
  IF handler.call.rpc # "status"
  THEN Record(c, handler, <<"Attempt", "NotApplicable">>, "received")
  ELSE Return(c, handler, IF PeerAccepted(handler.call.peer) THEN "Ok" ELSE "Refused")

\* start_audit_request, then the load of ensure_mandatory_audit_available
Check(c, handler) ==
  IF Mandatory /\ audit_degraded
  THEN Become(c, At(handler, "probing")) /\ UNCHANGED lock
  ELSE Attempt(c, [handler EXCEPT !.blind = lost])

StartRequest(c, handler) ==
  \/ Check(c, handler)
  \/ /\ handler.call.rpc # "status"  \* no request id: refused, or not recorded at all
     /\ IF Mandatory THEN Return(c, handler, "AuditSinkUnavailable")
        ELSE Check(c, [handler EXCEPT !.authoritative = FALSE])

\* security_audit_status loads the flag once more, before all else
Receive(c, call) ==
  LET handler == [Idle EXCEPT !.call = call] IN
  /\ client[c].phase = "idle"
  /\ IF Mandatory /\ call.rpc = "inspect"
     THEN /\ Become(c, At(handler, IF audit_degraded THEN "inspecting" ELSE "inspected"))
          /\ UNCHANGED lock
     ELSE StartRequest(c, handler)
  /\ UNCHANGED <<registryVars, securityVars>>

Inspect(c) ==
  /\ client[c].phase = "inspected"
  /\ StartRequest(c, client[c])
  /\ UNCHANGED <<registryVars, securityVars>>

\* try_recover finds the sink healthy
Probe(c) ==
  /\ client[c].phase \in {"probing", "inspecting"}
  /\ Become(c, At(client[c], IF client[c].phase = "probing" THEN "recovered" ELSE "cleared"))
  /\ lost' = FALSE
  /\ UNCHANGED <<registryVars, profile, mappings, audit_degraded, lock>>

\* or not: the request is refused; security_audit_status answers at once
ProbeFails(c) ==
  LET asked   == [client[c] EXCEPT !.principal = Principal(client[c].call.peer)]
      allowed == PeerAccepted(client[c].call.peer) /\ Permitted(asked)
  IN
  /\ \/ client[c].phase = "probing" /\ Return(c, client[c], "AuditSinkUnavailable")
     \/ /\ client[c].phase = "inspecting"
        /\ Return(c, client[c], IF allowed THEN "Ok" ELSE "Refused")
  /\ UNCHANGED <<registryVars, securityVars>>

\* store(false), whatever the flag is by now
Clear(c) ==
  /\ \/ client[c].phase = "recovered" /\ Attempt(c, client[c])
     \/ /\ client[c].phase = "cleared"
        /\ Become(c, At(client[c], "inspected")) /\ UNCHANGED lock
  /\ audit_degraded' = FALSE
  /\ UNCHANGED <<registryVars, profile, mappings, lost>>

\* request_security_inputs, populate_audit_identity
Identify(c) ==
  LET peer == client[c].call.peer IN
  /\ client[c].phase = "received"
  /\ \/ /\ PeerAccepted(peer)
        /\ Record(c, [client[c] EXCEPT !.principal = Principal(peer)],
                  <<"Authentication", "Allow">>, "identified")
     \/ /\ ~PeerAccepted(peer)
        /\ Refuse(c, <<"Authentication", "Deny">>, "Refused")
  /\ UNCHANGED <<registryVars, securityVars>>

\* the request does not decode
Malformed(c) ==
  /\ client[c].phase = "identified"
  /\ client[c].call.malformed
  /\ Refuse(c, <<"Admission", "Error">>, "Refused")
  /\ UNCHANGED <<registryVars, securityVars>>

\* execute_workspace and close_workspace hold the registry from here on, and
\* ask the policy about the workspace by the name the registry has for it
LogName(h) == IF workspace_refs[h] = NoRef THEN h ELSE workspace_refs[h]

Lock(c) ==
  /\ client[c].phase = "identified"
  /\ OnHandle(client[c].call)
  /\ ~client[c].call.malformed
  /\ lock = {}
  /\ lock' = {c}
  /\ Become(c, [At(client[c], "locked") EXCEPT !.name = LogName(client[c].call.handle)])
  /\ UNCHANGED <<registryVars, securityVars>>

Scoped(call) == Mandatory /\ call.rpc = "execute" => ScopeAccepted(call.body)

\* the secured scope, audit_operations, authorize
Authorize(c) ==
  LET call == client[c].call
      ops  == Operations(call, NameOf(client[c]))
  IN
  /\ client[c].phase = IF OnHandle(call) THEN "locked" ELSE "identified"
  /\ ~call.malformed
  /\ CASE ~Scoped(call) -> Refuse(c, <<"Admission", "Deny">>, "Refused")
       [] Scoped(call) /\ ClassificationOverflow(ops) ->
            Refuse(c, <<"Admission", "Deny">>, "Refused")
       [] Scoped(call) /\ ~ClassificationOverflow(ops) /\ Permitted(client[c]) ->
            Record(c, client[c], <<"Authorization", "Allow">>, "authorized")
       [] OTHER -> Refuse(c, <<"Authorization", "Deny">>, "Denied")
  /\ UNCHANGED <<registryVars, securityVars>>

Limit == IF Mandatory THEN MaxBatch ELSE 2 ^ 16

\* the handle is looked up only now, and a miss is not recorded
Admit(c) ==
  LET call == client[c].call IN
  /\ client[c].phase = "authorized"
  /\ IF OnHandle(call) /\ ~Open(call.handle)
     THEN Return(c, client[c], "NotFound")
     ELSE IF call.rpc = "execute" /\ ~WithinLimits(call.body, Limit)
     THEN Refuse(c, <<"Admission", "Deny">>, "Refused")
     ELSE Record(c, client[c], <<"Admission", "Allow">>, "admitted")
  /\ UNCHANGED <<registryVars, securityVars>>

-----------------------------------------------------------------------------
(***************************************************************************)
(* The effect, and the records of its outcome.                             *)
(***************************************************************************)
IsWrite(body) == body.type \in (DOMAIN ModelActions \cup {"ApplyBatch"}) \ {"FindEdges"}

\* a runtime success leaves the mutex; the failure record is written inside it
Took(c, effect) ==
  /\ client[c].phase = "admitted"
  /\ lock \subseteq {c}
  /\ Become(c, [At(client[c], "reporting") EXCEPT !.effect = effect, !.answer = "Ok"])
  /\ lock' = {}
  /\ UNCHANGED securityVars

Failed(c, effect) ==
  /\ client[c].phase = "admitted"
  /\ lock \subseteq {c}
  /\ Become(c, [At(client[c], "reporting") EXCEPT !.effect = effect, !.answer = "Error"])
  /\ lock' = {c}
  /\ UNCHANGED securityVars

\* the response does not convert: no record of the outcome is written at all
Undelivered(c, effect) ==
  /\ client[c].phase = "admitted"
  /\ lock \subseteq {c}
  /\ Return(c, [client[c] EXCEPT !.effect = effect], "Error")
  /\ UNCHANGED securityVars

\* what the effect left behind: nothing, something in memory, something in a file
Left(p) == IF p = NoPath THEN "volatile" ELSE "durable"

CreateEffect(c) ==
  LET call == client[c].call IN
  /\ call.rpc = "create"
  /\ \/ Took(c, "volatile") /\ ~call.local /\ \E h \in Handles : CreateInMemory(h)
     \/ /\ Took(c, "durable") /\ call.local
        /\ \E h \in Handles, r \in Refs, f \in Formats : CreateLocal(h, call.ref, r, f)
     \/ /\ call.local
        /\ \E r \in Refs, f \in Formats :
             /\ CreateLocalFails(call.ref, r, f)
             /\ Failed(c, IF disk' = disk THEN "none" ELSE "durable")
     \/ Failed(c, "none") /\ CreateRejected

OpenEffect(c) ==
  LET call == client[c].call IN
  /\ call.rpc = "open"
  /\ \/ Took(c, "volatile") /\ \E h \in Handles, f \in Formats : OpenLive(h, call.ref, f)
     \/ Took(c, "volatile") /\ \E h \in Handles, f \in Formats : OpenLoad(h, call.ref, f)
     \/ \E f \in Formats : Failed(c, "none") /\ OpenLoadFails(call.ref, f)
     \/ Failed(c, "none") /\ OpenRejected

ExecuteEffect(c) ==
  LET call == client[c].call  h == call.handle  p == autocommit[workspace_handles[h]] IN
  /\ call.rpc = "execute"
  /\ \/ /\ IsWrite(call.body)
        /\ Took(c, Left(p)) \/ Undelivered(c, Left(p))
        /\ \E w \in Writes : ExecuteAppends(h, w) \/ ExecuteCheckpoints(h, w)
     \/ /\ IsWrite(call.body)
        /\ \E w \in Writes :
             /\ ExecuteAppendFails(h, w) \/ ExecuteCheckpointFails(h, w)
             /\ Failed(c, IF w \in disk'[p].data THEN "durable" ELSE "volatile")
     \/ /\ ~IsWrite(call.body)
        /\ Took(c, "read") \/ Undelivered(c, "read")
        /\ ExecuteReads(h)
     \/ Failed(c, "none") /\ ExecuteReads(h)

CloseEffect(c) ==
  /\ client[c].call.rpc = "close"
  /\ Took(c, "volatile")
  /\ Close(client[c].call.handle)

\* security_audit_status reads the sink and delivers
InspectEffect(c) ==
  /\ client[c].phase = "admitted"
  /\ client[c].call.rpc = "inspect"
  /\ Become(c, [At(client[c], "reporting") EXCEPT !.effect = "read", !.answer = "Ok"])
  /\ UNCHANGED <<registryVars, securityVars, lock>>

\* audit_runtime_success, audit_durability and audit_delivery_handoff, or
\* audit_runtime_failure; then the answer
Report(c) ==
  /\ client[c].phase = "reporting"
  /\ Return(c, client[c], client[c].answer)
  /\ UNCHANGED <<registryVars, securityVars>>

\* audit_append_post_effect: one of these records is lost
Lose(c) ==
  /\ client[c].phase = "reporting"
  /\ Mandatory
  /\ Become(c, At(client[c], "unrecorded"))
  /\ UNCHANGED <<registryVars, securityVars, lock>>

\* which degrades the service and refuses nothing.  The emergency record that
\* follows changes nothing more.
DegradeRefuses(c) ==
  /\ client[c].phase = "unrecorded"
  /\ audit_degraded' = TRUE
  /\ lost' = TRUE
  /\ Return(c, client[c], "AuditSinkUnavailable")
  /\ UNCHANGED <<registryVars, profile, mappings>>

Degrade(c) ==
  /\ client[c].phase = "unrecorded"
  /\ audit_degraded' = TRUE
  /\ lost' = TRUE
  /\ Become(c, At(client[c], "reporting"))
  /\ UNCHANGED <<registryVars, profile, mappings, lock>>

-----------------------------------------------------------------------------
(***************************************************************************)
(* The operator.                                                           *)
(***************************************************************************)
\* CertificatePrincipalAuthenticator::replace_mappings
ReplaceMappings ==
  /\ mappings' \in CertificateMaps
  /\ UNCHANGED <<registryVars, profile, audit_degraded, lost, lock, client>>

\* InProcessWorkspaceService::set_local_workspace_root, between requests
Configure ==
  /\ lock = {}
  /\ \E d \in Roots : SetLocalWorkspaceRoot(d)
  /\ UNCHANGED <<securityVars, lock, client>>

\* ensure_mandatory_audit_available, after the load
Recover(c) == Inspect(c) \/ Probe(c) \/ ProbeFails(c) \/ Clear(c)

Step(c) == Identify(c) \/ Malformed(c) \/ Authorize(c) \/ Admit(c)

Finish(c) == Report(c) \/ Lose(c) \/ Degrade(c)

Effect(c) ==
  \/ CreateEffect(c) \/ OpenEffect(c) \/ ExecuteEffect(c) \/ CloseEffect(c) \/ InspectEffect(c)

Next ==
  \/ \E c \in Clients, call \in Calls : Receive(c, call)
  \/ \E c \in Clients : Recover(c)
  \/ \E c \in Clients : Step(c)
  \/ \E c \in Clients : Lock(c)
  \/ \E c \in Clients : Effect(c)
  \/ \E c \in Clients : Finish(c)
  \/ ReplaceMappings
  \/ Configure

Spec == Init /\ [][Next]_vars

-----------------------------------------------------------------------------
(***************************************************************************)
(* Properties.                                                             *)
(***************************************************************************)
\* What the configuration says, read directly: some assignment of the
\* principal that covers the workspace, or one of its roles, has the permission.
Covers(scope, kind, workspace) ==
  IF kind = "Service" THEN scope.kind = "Service"
  ELSE \/ scope.kind = "DeploymentLocalAllWorkspaces"
       \/ scope.kind = "Workspace" /\ scope.workspace = workspace

Grants(principal, workspace, action, kind, model) ==
  \E a \in Range(Config.assignments) :
    /\ a.principal = principal
    /\ Covers(a.scope, kind, workspace)
    /\ \E p \in a.permissions \cup UNION {r.permissions : r \in
                  {q \in Range(Config.roles) : q.name \in a.roles}} :
         /\ p.action = action
         /\ \/ <<p.resource.kind, kind>> \in {<<"AnyNodeModel", "NodeModel">>,
                                             <<"AnyEdgeModel", "EdgeModel">>}
            \/ p.resource.kind = kind /\ p.resource.model = model

\* What a call does: the actions on the models it reads or changes, a step
\* without an edge model reading relationships of every model.
ReadsOfStep(t) == {<<"EdgeRead", "EdgeModel", t.edge_model>>, <<"NodeRead", "NodeModel", t.end_model>>}

ReadsOfFind(find) ==
  {<<"NodeRead", "NodeModel", find.model>>}
  \cup UNION {ReadsOfStep(t) : t \in Range(find.traversals)}

TouchedBy(body) ==
  CASE body.type = "FindNodes" -> ReadsOfFind(body)
    [] body.type \in {"Query", "Explain", "Profile"} ->
         IF body.query.kind = "EdgeFind" THEN {<<"EdgeRead", "EdgeModel", body.query.model>>}
         ELSE ReadsOfFind(body.query)
    [] body.type = "ApplyBatch" ->
         {<<ModelActions[op.type][1], ModelActions[op.type][2], op.model>> : op \in Range(body.ops)}
    [] body.type \in DOMAIN PlainActions ->
         {<<PlainActions[body.type][1], PlainActions[body.type][2], NoName>>}
    [] body.type \in DOMAIN ModelActions ->
         {<<ModelActions[body.type][1], ModelActions[body.type][2], body.model>>}

Touches(call) ==
  CASE call.rpc = "create"  -> {<<"WorkspaceCreate", "Service", NoName>>}
    [] call.rpc = "inspect" -> {<<"AuditInspect", "Service", NoName>>}
    [] call.rpc = "open"    -> {<<"WorkspaceOpen", "Workspace", NoName>>}
    [] call.rpc = "close"   -> {<<"WorkspaceClose", "Workspace", NoName>>}
    [] call.rpc = "execute" -> TouchedBy(call.body)

\* The workspace a call works on: for a handle, the ref of the file that its
\* loaded workspace really is persisted to.
Subject(call) ==
  IF ~OnHandle(call) THEN (IF call.rpc = "open" THEN call.ref ELSE ServiceName)
  ELSE IF autocommit[workspace_handles[call.handle]] = NoPath THEN call.handle
  ELSE RefOf(autocommit[workspace_handles[call.handle]])

FourAllowed == {<<"Attempt", "NotApplicable">>, <<"Authentication", "Allow">>,
                <<"Authorization", "Allow">>, <<"Admission", "Allow">>}

\* In the secured profile an effect happens only after the records of attempt,
\* authentication, authorization and admission were accepted, and everything
\* it touches in the workspace it really works on is granted to the principal
\* that was authenticated, whatever other handlers did meanwhile.
EffectsGranted ==
  [][\A c \in Clients :
       Mandatory /\ client[c].phase = "admitted" /\ client'[c].phase # "admitted"
       => /\ FourAllowed \subseteq client[c].trail
          /\ \A t \in Touches(client[c].call) :
               Grants(client[c].principal, Subject(client[c].call), t[1], t[2], t[3])]_vars

\* docs/security/security-audit.md: a secured service that lost the record of an
\* outcome "blocks subsequent secured effects until the authoritative sink reports
\* healthy again".  No request passes the check of the flag after a loss was noted
\* in it and before a probe has found the sink healthy.
NoBlindAdmission == \A c \in Clients : ~client[c].blind

\* An answer tells the client what happened: a request that was refused, denied
\* or turned away for want of audit had no effect, also when another handler or
\* the sink failed meanwhile (audit_append_post_effect refuses nothing), and
\* without mandatory audit no request is refused because the sink failed.
AnswersMatchEffects ==
  \A c \in Clients :
    /\ client[c].answer \in {"Refused", "Denied", "NotFound", "AuditSinkUnavailable"}
         => client[c].effect = "none"
    /\ ~Mandatory => client[c].answer # "AuditSinkUnavailable"

\* docs/security/security-audit.md: "failed runtime paths report `NotCommitted`
\* when no durable mutation was established".  The failure record always says
\* NotCommitted; here it is only written when nothing reached a file.
NotCommittedIsTrue ==
  \A c \in Clients :
    client[c].phase = "reporting" /\ client[c].answer = "Error" => client[c].effect # "durable"
=============================================================================
