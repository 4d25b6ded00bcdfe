------------------------------- MODULE Policy -------------------------------
(***************************************************************************)
(* Authentication and authorization of a request: which principal a        *)
(* certificate stands for, which operations a request is classified as,    *)
(* and which of them the permission table allows.                          *)
(*                                                                         *)
(* A request is a record with the name of its ServiceRequest variant and   *)
(* the models it names.  The roles a configuration defines and the         *)
(* permissions of an assignment are sets; the assignments and the          *)
(* certificate mappings are sequences, since the code refuses a second     *)
(* entry for a key.  Model and workspace names are opaque; a missing name  *)
(* is NoName.                                                              *)
(***************************************************************************)
EXTENDS Naturals, Sequences, FiniteSets, SequencesExt

CONSTANTS
  SECURITY_AUDIT_MAX_OPERATIONS,
  NoName,      \* an absent Option<String>
  EmptyName    \* the empty string

ASSUME PolicyAssumption == SECURITY_AUDIT_MAX_OPERATIONS \in Nat \ {0}

ServiceName == "service"

Op(action, kind, workspace, model) ==
  [action |-> action, kind |-> kind, workspace |-> workspace, model |-> model]

-----------------------------------------------------------------------------
(***************************************************************************)
(* The operations a request stands for: a set of entries, each with the    *)
(* place it comes from, the number of a traversal or 0 for the request     *)
(* itself.  The code has a list of them; its length is checked, its order  *)
(* is not.                                                                 *)
(***************************************************************************)
NodeFindOperationsRootOnly(model, traversals, workspace, force) ==
  {<<0, Op("NodeRead", "NodeModel", workspace, model)>>}

\* node_find_security_operations: two operations for each traversal
NodeFindOperations(model, traversals, workspace, force) ==
  {<<0, Op("NodeRead", "NodeModel", workspace, model)>>}
  \cup (IF force \/ traversals # << >>
        THEN {<<0, Op("Traverse", "OperationFamily", workspace, NoName)>>} ELSE {})
  \cup {<<i, Op("EdgeRead", "EdgeModel", workspace, traversals[i].edge_model)>> :
          i \in DOMAIN traversals}
  \cup {<<i, Op("NodeRead", "NodeModel", workspace, traversals[i].end_model)>> :
          i \in DOMAIN traversals}

QueryOperations(query, workspace, wrapper) ==
  {<<0, Op(wrapper, "OperationFamily", workspace, NoName)>>} \cup
  CASE query.kind = "NodeFind" ->
         NodeFindOperations(query.model, query.traversals, workspace, FALSE)
    [] query.kind = "Traversal" ->
         NodeFindOperations(query.model, query.traversals, workspace, TRUE)
    [] query.kind = "EdgeFind" ->
         {<<0, Op("EdgeRead", "EdgeModel", workspace, query.model)>>}

\* the requests on one model, each with its action and the kind of the model
ModelActions ==
  [DefineNode |-> <<"SchemaDefine", "NodeModel">>, DefineEdge |-> <<"SchemaDefine", "EdgeModel">>,
   CreateNode |-> <<"NodeCreate", "NodeModel">>,   CreateEdge |-> <<"EdgeCreate", "EdgeModel">>,
   UpdateNode |-> <<"NodeUpdate", "NodeModel">>,   UpdateEdge |-> <<"EdgeUpdate", "EdgeModel">>,
   DeleteNode |-> <<"NodeDelete", "NodeModel">>,   DeleteEdge |-> <<"EdgeDelete", "EdgeModel">>,
   FindEdges  |-> <<"EdgeRead", "EdgeModel">>]

\* and the requests that name none
PlainActions ==
  [SchemaList |-> <<"SchemaInspect", "Workspace">>, Summary |-> <<"WorkspaceInspect", "Workspace">>,
   IndexList  |-> <<"IndexInspect", "IndexCatalog">>,
   Save   |-> <<"WorkspaceSave", "WorkspaceArtifact">>,
   Load   |-> <<"WorkspaceLoad", "WorkspaceArtifact">>,
   Export |-> <<"WorkspaceExport", "WorkspaceArtifact">>,
   Import |-> <<"WorkspaceImport", "WorkspaceArtifact">>]

\* batch_security_operation
BatchOperation(op, workspace) ==
  Op(ModelActions[op.type][1], ModelActions[op.type][2], workspace, op.model)

\* each distinct operation once; the code stops collecting just above the
\* number that audit_operations refuses
BatchOperations(ops, workspace) ==
  {<<0, Op("BatchApply", "OperationFamily", workspace, NoName)>>}
  \cup {<<0, BatchOperation(op, workspace)>> : op \in Range(ops)}

\* security_operations
SecurityOperations(request, workspace) ==
  CASE request.type \in DOMAIN ModelActions -> {<<0, BatchOperation(request, workspace)>>}
    [] request.type \in DOMAIN PlainActions ->
         {<<0, Op(PlainActions[request.type][1], PlainActions[request.type][2], workspace, NoName)>>}
    [] request.type = "FindNodes" ->
         NodeFindOperations(request.model, request.traversals, workspace, FALSE)
    [] request.type \in {"Query", "Explain", "Profile"} ->
         QueryOperations(request.query, workspace, request.type)
    [] request.type = "ApplyBatch" -> BatchOperations(request.ops, workspace)

\* audit_operations: what the audit record could not hold is refused
ClassificationOverflow(ops) == Cardinality(ops) > SECURITY_AUDIT_MAX_OPERATIONS

\* validate_secured_operation_scope, query_traversals
Traversals(request) ==
  CASE request.type = "FindNodes" -> request.traversals
    [] request.type \in {"Query", "Explain", "Profile"} /\ request.query.kind # "EdgeFind" ->
         request.query.traversals
    [] OTHER -> << >>

ScopeAccepted(request) == \A t \in Range(Traversals(request)) : t.edge_model # NoName

\* enforce_security_limits
WithinLimits(request, maxBatch) == request.type = "ApplyBatch" => Len(request.ops) <= maxBatch

-----------------------------------------------------------------------------
(***************************************************************************)
(* The permission table.                                                   *)
(***************************************************************************)
\* ResourceSelectorKey::matches
SelectorMatches(selector, kind, model) ==
  \/ selector.kind = "AnyNodeModel" /\ kind = "NodeModel"
  \/ selector.kind = "AnyEdgeModel" /\ kind = "EdgeModel"
  \/ selector.kind = kind /\ selector.model = model

\* PermissionKey::from_operation has no key for a model operation without model
HasKey(op) == op.kind \in {"NodeModel", "EdgeModel"} => op.model # NoName

Matches(permission, op) ==
  /\ permission.action = op.action
  /\ SelectorMatches(permission.resource, op.kind, op.model)

\* the scopes has_permission looks up for an operation
ScopeKeys(op) ==
  IF op.kind = "Service" THEN {[kind |-> "Service", workspace |-> NoName]}
  ELSE { [kind |-> "Workspace", workspace |-> op.workspace],
         [kind |-> "DeploymentLocalAllWorkspaces", workspace |-> NoName] }

HasPermission(table, principal, op) ==
  \E scope \in ScopeKeys(op) :
    /\ <<principal, scope>> \in DOMAIN table
    /\ \E permission \in table[<<principal, scope>>] : Matches(permission, op)

\* PermissionTablePolicy::evaluate; no principal is denied
Allows(table, principal, ops) ==
  /\ principal # NoName
  /\ \A entry \in ops : HasKey(entry[2]) /\ HasPermission(table, principal, entry[2])

\* PermissionTablePolicy::new and from_role_config
Unnamed(name) == name = EmptyName
BadSelector(p) == p.resource.kind \in {"NodeModel", "EdgeModel"} /\ Unnamed(p.resource.model)

Permissions(config, a) == a.permissions \cup UNION {r.permissions : r \in
                            {q \in Range(config.roles) : q.name \in a.roles}}

ConfigRefused(config) ==
  LET as == config.assignments  rs == config.roles IN
  \/ Unnamed(config.version)
  \/ \E i \in DOMAIN rs : Unnamed(rs[i].name) \/ rs[i].permissions = {}
  \/ \E i, j \in DOMAIN rs : i # j /\ rs[i].name = rs[j].name
  \/ \E i \in DOMAIN as :
       \/ Unnamed(as[i].principal)
       \/ as[i].roles \ {r.name : r \in Range(rs)} # {}
       \/ Permissions(config, as[i]) = {}
       \/ as[i].scope.kind = "Workspace" /\ Unnamed(as[i].scope.workspace)
       \/ \E p \in Permissions(config, as[i]) : BadSelector(p)
  \/ \E i, j \in DOMAIN as :
       i # j /\ as[i].principal = as[j].principal /\ as[i].scope = as[j].scope

TableKeys(config) == {<<a.principal, a.scope>> : a \in Range(config.assignments)}

Table(config) ==
  [key \in TableKeys(config) |->
     UNION {Permissions(config, a) : a \in
              {b \in Range(config.assignments) : <<b.principal, b.scope>> = key}}]

-----------------------------------------------------------------------------
(***************************************************************************)
(* Authentication by client certificate.                                   *)
(***************************************************************************)
MappingsRefused(mappings) ==
  \/ \E m \in Range(mappings) : Unnamed(m.principal)
  \/ \E i, j \in DOMAIN mappings :
       i # j /\ mappings[i].fingerprint = mappings[j].fingerprint

\* CertificatePrincipalAuthenticator::authenticate; NoName where it fails
Authenticate(mappings, certificate) ==
  LET known == {m \in Range(mappings) : m.fingerprint = certificate}
  IN IF known = {} THEN NoName ELSE (CHOOSE m \in known : TRUE).principal
=============================================================================
