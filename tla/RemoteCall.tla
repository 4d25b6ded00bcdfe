----------------------------- MODULE RemoteCall ------------------------------
(***************************************************************************)
(* A client calls the runtime of a remote workspace: GrpcWorkspaceClient   *)
(* of src/grm-service-api/src/lib.rs, the conversions of Wire, and the     *)
(* dispatcher execute_runtime of src/src/runtime/session.rs with the       *)
(* batches of src/src/runtime/batch.rs.  Other clients send protobuf       *)
(* messages of their own.  A request or a response may be lost; nobody     *)
(* sends it again.                                                         *)
(*                                                                         *)
(* Which of the nodes and edges a query selects, and the plan of one, are  *)
(* left open: they are the subject of Query.                               *)
(***************************************************************************)
EXTENDS Wire

CONSTANTS
  Models,    \* name -> the node models the workspace starts with
  EdgeModels, \* and its edge models
  Plans,     \* the plans explain may give: [command, steps, details]
  Requests,  \* [helper, request]: what clients ask through GrpcWorkspaceClient
  Messages,  \* what other clients send
  MaxId,     \* nodes created
  MaxEdgeId  \* edges created

-----------------------------------------------------------------------------
(***************************************************************************)
(* What the types of the request structs promise about a request of a      *)
(* helper.                                                                 *)
(***************************************************************************)
IsRecord(x) == x = [k \in DOMAIN x |-> x[k]]

\* A canonical base64 text is determined by its sextets.
ValueTyped(v) ==
  v.kind = "Bytes" /\ CanonicalText(v.raw) =>
    v.raw.body = [item |-> v.raw.body.item, canonical |-> TRUE]

\* A map of properties; the list it is sent as is not a field that is not set.
PropsTyped(m) ==
  /\ IsRecord(m) /\ IsFiniteSet(DOMAIN m)
  /\ \A k \in DOMAIN m : ValueTyped(m[k])
  /\ PropertyMap("encode", m) # Nothing

\* A struct with an enum in a field, and a vector of them
EnumTyped(x, field, names) == IsRecord(x) /\ field \in DOMAIN x /\ x[field] \in Range(names)
EnumsTyped(s, field, names) == IsRecord(s) /\ \A i \in DOMAIN s : EnumTyped(s[i], field, names)

PredicateTyped(p) ==
  EnumTyped(p, "op", PredicateOps) /\ "value" \in DOMAIN p /\ ValueTyped(p.value)
PredicatesTyped(ps) == IsRecord(ps) /\ \A i \in DOMAIN ps : PredicateTyped(ps[i])

PredicateKeys == {"predicates", "end_predicates", "edge_predicates"}
NodeFindKeys  == PredicateKeys \cup {"traversals", "order", "return_mode"}

NodeFindTyped(m) ==
  /\ IsRecord(m) /\ NodeFindKeys \subseteq DOMAIN m /\ "props" \notin DOMAIN m
  /\ \A k \in PredicateKeys : PredicatesTyped(m[k])
  /\ EnumsTyped(m.traversals, "direction", Directions)
  /\ EnumsTyped(m.order, "direction", OrderDirections)
  /\ m.return_mode \in Range(Returns) \cup {Nothing}

EdgeFindTyped(m) ==
  /\ IsRecord(m) /\ {"predicates", "order"} \subseteq DOMAIN m
  /\ {"props", "end_predicates", "edge_predicates"} \cap DOMAIN m = {}
  /\ PredicatesTyped(m.predicates)
  /\ EnumsTyped(m.order, "direction", OrderDirections)

QueryTyped(q) ==
  /\ IsRecord(q) /\ {"form", "shape"} \subseteq DOMAIN q
  /\ IF q.form = "EdgeFind" THEN EdgeFindTyped(q.shape) ELSE NodeFindTyped(q.shape)

\* In a batch the type of a field is any text.
KeywordsTyped(s) ==
  IsRecord(s) /\ \A i \in DOMAIN s : IsRecord(s[i]) /\ "value_type" \in DOMAIN s[i]

EndpointTyped(e) == IsRecord(e) /\ "is" \in DOMAIN e /\ e.is \in {"Id", "Ref"}

DefineOps == {"SchemaDefineNode", "SchemaDefineEdge"}
DeleteOps == {"NodeDelete", "EdgeDelete"}
PropsOps  == {"NodeCreate", "NodeUpdate", "EdgeUpdate"}

OperationTyped(o) ==
  /\ IsRecord(o) /\ "type" \in DOMAIN o /\ PredicateKeys \cap DOMAIN o = {}
  /\ o.type \in DefineOps \cup DeleteOps \cup PropsOps \cup {"EdgeCreate"}
  /\ o.type \in DefineOps => "fields" \in DOMAIN o /\ KeywordsTyped(o.fields)
  /\ o.type \in DefineOps \cup DeleteOps => "props" \notin DOMAIN o
  /\ o.type \in PropsOps \cup {"EdgeCreate"} => "props" \in DOMAIN o /\ PropsTyped(o.props)
  /\ o.type = "EdgeCreate" =>
       {"from", "to"} \subseteq DOMAIN o /\ EndpointTyped(o.from) /\ EndpointTyped(o.to)

BatchTyped(m) ==
  /\ IsRecord(m) /\ {"ops", "response"} \subseteq DOMAIN m
  /\ m.response \in Range(ResponseModes)
  /\ \A i \in DOMAIN m.ops : OperationTyped(m.ops[i])

PropsTypes  == {"CreateNode", "UpdateNode", "CreateEdge", "UpdateEdge"}
DeleteTypes == {"DeleteNode", "DeleteEdge"}
PlainTypes  == DefineTypes \cup DeleteTypes \cup EmptyTypes
QueryTypes  == IntrospectTypes \cup {"Query"}

RequestTyped(r) ==
  /\ IsRecord(r) /\ "type" \in DOMAIN r
  /\ r.type \in PlainTypes \cup PropsTypes \cup QueryTypes \cup FileTypes
                \cup {"FindNodes", "FindEdges", "ApplyBatch"}
  /\ r.type \in PlainTypes \cup PropsTypes => PredicateKeys \cap DOMAIN r = {}
  /\ r.type \in PlainTypes => "props" \notin DOMAIN r
  /\ r.type \in DefineTypes =>
       "fields" \in DOMAIN r /\ EnumsTyped(r.fields, "value_type", FieldValueTypes)
  /\ r.type \in PropsTypes => "props" \in DOMAIN r /\ PropsTyped(r.props)
  /\ r.type = "FindNodes" => NodeFindTyped(r)
  /\ r.type = "FindEdges" => EdgeFindTyped(r)
  /\ r.type \in QueryTypes => "query" \in DOMAIN r /\ QueryTyped(r.query)
  /\ r.type = "ApplyBatch" => BatchTyped(r)

ASSUME NothingAssumption == Nothing \notin Nat
ASSUME RequestsAssumption == \A c \in Requests : RequestTyped(c.request)

-----------------------------------------------------------------------------
VARIABLES
  db,        \* the session of the workspace: its catalog, its store, and what
             \* the writer of each node and edge meant
  call       \* [stage, helper, request, message, response, ops, result]

vars == <<db, call>>

Idle ==
  [stage |-> "idle", helper |-> Nothing, request |-> Nothing, message |-> Nothing,
   response |-> Nothing, ops |-> <<>>, result |-> Nothing]

Init ==
  /\ db = [models |-> Models, edge_models |-> EdgeModels, nodes |-> <<>>, edges |-> <<>>,
           next_node |-> 1, next_edge |-> 1, written |-> <<>>]
  /\ call = Idle

-----------------------------------------------------------------------------
(***************************************************************************)
(* The client.                                                             *)
(***************************************************************************)
\* A helper of GrpcWorkspaceClient: what cannot be encoded is not sent.
Send(r) ==
  \E message \in {Sent(r.request, r.helper)} :
      /\ call.stage = "idle"
      /\ call' = [Idle EXCEPT !.stage = IF message = Refused THEN "done" ELSE "sent",
                              !.helper = r.helper, !.request = r.request,
                              !.message = message,
                              !.result = IF message = Refused THEN Refused ELSE Nothing]
      /\ UNCHANGED db

\* Another client's message, as it is.
SendMessage(m) ==
  /\ call.stage = "idle"
  /\ call' = [Idle EXCEPT !.stage = "sent", !.message = m]
  /\ UNCHANGED db

\* The helper decodes the response.
Receive ==
  /\ call.stage = "answered"
  /\ call' = [call EXCEPT !.stage = "done",
                          !.result = IF call.message = Refused \/ call.helper = Nothing
                                     THEN call.message
                                     ELSE ClientResponse(call.message, call.helper)]
  /\ UNCHANGED db

\* The transport fails before or after the server has served the request.
Lose ==
  /\ call.stage \in {"sent", "answered"}
  /\ call' = Idle
  /\ UNCHANGED db

Finish ==
  /\ call.stage = "done"
  /\ call' = Idle
  /\ UNCHANGED db

-----------------------------------------------------------------------------
(***************************************************************************)
(* The operations of the runtime on a session d.  Each gives an outcome,   *)
(* the session after it, the part of the response with its value and the   *)
(* operation for the log, or Refused.                                      *)
(***************************************************************************)
Outcome(d, value, op) == [db |-> d, value |-> value, op |-> op]

\* What the writer meant with the properties it gave, every value in the
\* spelling values are stored in.
MeantValue(v) == IF v.kind \in TaggedKinds THEN ParseTypedValue(v.kind, v.raw) ELSE v
Meant(props) == [k \in DOMAIN props |-> MeantValue(props[k])]
Rewritten(old, new) == IF Nothing \in {old, new} THEN Nothing ELSE new @@ old

\* RuntimeNodeModel::new, RuntimeRelModel::new
Model(m) == [name |-> m.name, id_field_name |-> m.id_field, id_type |-> "Int64",
             fields |-> m.fields]
NodeModel(m) == [label |-> m.name] @@ Model(m)
EdgeModel(m) == [rel_type |-> m.name, from_model |-> m.from_model, to_model |-> m.to_model]
                  @@ Model(m)

CanDefine(d, r) ==
  /\ r.name \notin DOMAIN d.models \cup DOMAIN d.edge_models
  /\ WellFormedModel(r.id_field, r.fields)

ApplyDefineNode(d, r) ==
  IF CanDefine(d, r)
  THEN Outcome([d EXCEPT !.models = (r.name :> NodeModel(r)) @@ @], [model |-> NodeModel(r)],
               [type |-> "RegisterNodeModel", item |-> NodeModel(r)])
  ELSE Refused

ApplyDefineEdge(d, r) ==
  IF CanDefine(d, r) /\ {r.from_model, r.to_model} \subseteq DOMAIN d.models
  THEN Outcome([d EXCEPT !.edge_models = (r.name :> EdgeModel(r)) @@ @],
               [model |-> EdgeModel(r)], [type |-> "RegisterRelModel", item |-> EdgeModel(r)])
  ELSE Refused

\* validate_update_props: nothing is required of an update.
ValidateUpdateProps(fields, props) ==
  \A k \in DOMAIN props : \E f \in Range(fields) :
    f.name = k /\ ValidateValueForKind(f.value_type, props[k])

MergedReplaces(x, props) == [x EXCEPT !.props = props]
Merged(x, props) == [x EXCEPT !.props = props @@ @]

IsNode(d, id, model) == id \in DOMAIN d.nodes /\ d.nodes[id].labels = <<model>>
IsEdge(d, id, model) == id \in DOMAIN d.edges /\ d.edges[id].rel_type = model

PutNode(d, n, meant) ==
  Outcome([d EXCEPT !.nodes = (n.id :> n) @@ @, !.next_node = Max({@, n.id + 1}),
                    !.written = (<<"node", n.id>> :> meant) @@ @],
          [node |-> n], [type |-> "UpsertNode", item |-> n])

PutEdge(d, e, meant) ==
  Outcome([d EXCEPT !.edges = (e.id :> e) @@ @, !.next_edge = Max({@, e.id + 1}),
                    !.written = (<<"edge", e.id>> :> meant) @@ @],
          [edge |-> e], [type |-> "UpsertRel", item |-> e])

\* create_instance_from_props
ApplyNodeCreate(d, r, meant) ==
  IF r.model \in DOMAIN d.models /\ ValidateProps(d.models[r.model].fields, r.props)
  THEN PutNode(d, [id |-> d.next_node, labels |-> <<r.model>>, props |-> r.props], meant)
  ELSE Refused

\* update_node_instance_from_props
ApplyNodeUpdate(d, r, meant) ==
  IF /\ r.model \in DOMAIN d.models /\ ValidateUpdateProps(d.models[r.model].fields, r.props)
     /\ IsNode(d, r.id, r.model)
  THEN PutNode(d, Merged(d.nodes[r.id], r.props), Rewritten(d.written[<<"node", r.id>>], meant))
  ELSE Refused

\* delete_node_instance: the edges at the node go with it.
ApplyNodeDelete(d, r) ==
  LET left == {e \in DOMAIN d.edges : r.id \notin {d.edges[e].from, d.edges[e].to}}
  IN  IF r.model \in DOMAIN d.models /\ IsNode(d, r.id, r.model)
      THEN Outcome([d EXCEPT !.nodes = [i \in DOMAIN @ \ {r.id} |-> @[i]],
                             !.edges = [e \in left |-> @[e]]],
                   [deleted |-> [model |-> r.model, id |-> r.id]],
                   [type |-> "DeleteNode", id |-> r.id])
      ELSE Refused

\* create_relationship_instance_from_props
ApplyEdgeCreate(d, r, meant) ==
  IF /\ r.model \in DOMAIN d.edge_models
     /\ ValidateProps(d.edge_models[r.model].fields, r.props)
     /\ IsNode(d, r.from, d.edge_models[r.model].from_model)
     /\ IsNode(d, r.to, d.edge_models[r.model].to_model)
  THEN PutEdge(d, [id |-> d.next_edge, rel_type |-> r.model, from |-> r.from, to |-> r.to,
                   props |-> r.props], meant)
  ELSE Refused

\* update_relationship_instance_from_props
ApplyEdgeUpdate(d, r, meant) ==
  IF /\ r.model \in DOMAIN d.edge_models
     /\ ValidateUpdateProps(d.edge_models[r.model].fields, r.props)
     /\ IsEdge(d, r.id, r.model)
  THEN PutEdge(d, Merged(d.edges[r.id], r.props), Rewritten(d.written[<<"edge", r.id>>], meant))
  ELSE Refused

\* delete_relationship_instance
ApplyEdgeDelete(d, r) ==
  IF r.model \in DOMAIN d.edge_models /\ IsEdge(d, r.id, r.model)
  THEN Outcome([d EXCEPT !.edges = [e \in DOMAIN @ \ {r.id} |-> @[e]]],
               [deleted |-> [model |-> r.model, id |-> r.id]],
               [type |-> "DeleteRel", id |-> r.id])
  ELSE Refused

ChangeTypes == DefineTypes \cup NodeWriteTypes \cup EdgeWriteTypes

\* execute_schema_request, execute_node_request, execute_edge_request
Apply(d, r, meant) ==
  CASE r.type = "DefineNode" -> ApplyDefineNode(d, r)
    [] r.type = "DefineEdge" -> ApplyDefineEdge(d, r)
    [] r.type = "CreateNode" -> ApplyNodeCreate(d, r, meant)
    [] r.type = "UpdateNode" -> ApplyNodeUpdate(d, r, meant)
    [] r.type = "DeleteNode" -> ApplyNodeDelete(d, r)
    [] r.type = "CreateEdge" -> ApplyEdgeCreate(d, r, meant)
    [] r.type = "UpdateEdge" -> ApplyEdgeUpdate(d, r, meant)
    [] r.type = "DeleteEdge" -> ApplyEdgeDelete(d, r)

-----------------------------------------------------------------------------
(***************************************************************************)
(* The server.                                                             *)
(***************************************************************************)
\* The response is encoded after the effect, whatever becomes of it.
Answer(r, ops) ==
  call' = [call EXCEPT !.stage = "answered", !.response = r, !.ops = ops,
                       !.message = ProtoResponse(r, ops)]

Fail == call' = [call EXCEPT !.stage = "done", !.result = Refused]

\* The request under way, decoded; none when that fails.
Serving == call.stage = "sent"
Request == {Arrived(call.message)}
Served(types) == {r \in Request \ {Refused} : r.type \in types}

\* What the caller of a helper meant with the properties of an operation
Given(o) ==
  IF call.helper = Nothing \/ "props" \notin DOMAIN o THEN Nothing ELSE Meant(o.props)

\* A find, asked for by itself or as a query
Finds(type, form) ==
  Served({type}) \cup {q.query.shape : q \in {r \in Served({"Query"}) : r.query.form = form}}

\* What the runtime may answer with an error: also a find or an introspection,
\* for a field or a model that is not one.
Unacceptable(r) ==
  \/ r = Refused
  \/ r.type \in ChangeTypes /\ Apply(db, r, Nothing) = Refused
  \/ r.type \in QueryTypes \cup {"FindNodes", "FindEdges", "IndexList"}

Refuse ==
  /\ Serving /\ {r \in Request : Unacceptable(r)} # {}
  /\ Fail
  /\ UNCHANGED db

Bounded(d) == d.next_node <= MaxId + 1 /\ d.next_edge <= MaxEdgeId + 1

\* A request for one change
Execute ==
  /\ Serving
  /\ \E r \in Served(ChangeTypes) : \E out \in {Apply(db, r, Given(call.request))} \ {Refused} :
       /\ Bounded(out.db)
       /\ db' = out.db
       /\ Answer([type |-> r.type] @@ out.value, <<out.op>>)

\* Rows in the order of their ids
Rows(table, S) == LET ids == SetToSortSeq(S, <) IN [k \in DOMAIN ids |-> table[ids[k]]]

\* Some of the nodes, or some of the edges a traversal went over
FindNodes(N, E) ==
  /\ Serving
  /\ \E r \in Finds("FindNodes", "NodeFind") :
       /\ r.model \in DOMAIN db.models
       /\ E = {} \/ (N = {} /\ r.return_mode = "Edge")
       /\ Answer([type |-> "FindNodes", model |-> r.model, nodes |-> Rows(db.nodes, N),
                  edges |-> Rows(db.edges, E)], <<>>)
  /\ UNCHANGED db

FindEdges(E) ==
  /\ Serving
  /\ \E r \in Finds("FindEdges", "EdgeFind") :
       /\ r.model \in DOMAIN db.edge_models
       /\ \A e \in E : IsEdge(db, e, r.model)
       /\ Answer([type |-> "FindEdges", model |-> r.model, edges |-> Rows(db.edges, E)], <<>>)
  /\ UNCHANGED db

\* The models of a catalog, in some order of their names
Listed(catalog) == LET names == SetToSeq(DOMAIN catalog)
                   IN  [i \in DOMAIN names |-> catalog[names[i]]]

List ==
  /\ Serving /\ Served({"SchemaList"}) # {}
  /\ Answer([type |-> "SchemaList", node_models |-> Listed(db.models),
             edge_models |-> Listed(db.edge_models), backend_id_type |-> "Int64"], <<>>)
  /\ UNCHANGED db

\* runtime_summary: one count for each model of the catalog
Summary ==
  /\ Serving /\ Served({"Summary"}) # {}
  /\ LET Nodes(m) == {i \in DOMAIN db.nodes : IsNode(db, i, m)}
         Edges(m) == {i \in DOMAIN db.edges : IsEdge(db, i, m)}
         Counts(models, Of(_)) ==
           [i \in DOMAIN models |-> [model |-> models[i].name,
                                     count |-> Cardinality(Of(models[i].name))]]
     IN  Answer([type |-> "Summary", node_count |-> Cardinality(DOMAIN db.nodes),
                 edge_count |-> Cardinality(DOMAIN db.edges),
                 node_model_count |-> Cardinality(DOMAIN db.models),
                 edge_model_count |-> Cardinality(DOMAIN db.edge_models),
                 node_counts |-> Counts(Listed(db.models), Nodes),
                 edge_counts |-> Counts(Listed(db.edge_models), Edges)], <<>>)
  /\ UNCHANGED db

Explain(plan) ==
  /\ Serving /\ Served({"Explain"}) # {}
  /\ Answer(plan @@ [type |-> "Explain"], <<>>)
  /\ UNCHANGED db

Profile(plan, rows) ==
  /\ Serving /\ Served({"Profile"}) # {}
  /\ Answer(plan @@ [type |-> "Profile", result_rows |-> rows], <<>>)
  /\ UNCHANGED db

-----------------------------------------------------------------------------
(***************************************************************************)
(* Batches.                                                                *)
(***************************************************************************)
BatchTypes ==
  [SchemaDefineNode |-> "DefineNode", SchemaDefineEdge |-> "DefineEdge",
   NodeCreate |-> "CreateNode", NodeUpdate |-> "UpdateNode", NodeDelete |-> "DeleteNode",
   EdgeCreate |-> "CreateEdge", EdgeUpdate |-> "UpdateEdge", EdgeDelete |-> "DeleteEdge"]

\* resolve_batch_endpoint
ResolveBatchEndpoint(e, refs) ==
  CASE e.is = "Id" -> e.of
    [] e.is = "Ref" /\ e.of \in DOMAIN refs -> refs[e.of]
    [] OTHER -> Refused

\* The request apply_batch_op makes of an operation: the keywords of its fields
\* are parsed, its references are those of earlier creates, and a reference is
\* given once.
RequestOf(o, refs) ==
  LET r == [o EXCEPT !.type = BatchTypes[@]]
  IN  CASE o.type \in DefineOps ->
             Whole([r EXCEPT !.fields = Each(@, LAMBDA f : BatchField("encode", f))])
        [] o.type = "NodeCreate" /\ o.local_ref \in DOMAIN refs -> Refused
        [] o.type = "EdgeCreate" ->
             Whole([r EXCEPT !.from = ResolveBatchEndpoint(@, refs),
                             !.to = ResolveBatchEndpoint(@, refs)])
        [] OTHER -> r

\* BatchApplied
Applied(o, out) ==
  [op |-> o.type, durable |-> out.op,
   model |-> IF o.type \in DefineOps THEN o.name ELSE o.model,
   id |-> CASE o.type \in DefineOps -> Nothing
            [] "node" \in DOMAIN out.value -> out.value.node.id
            [] "edge" \in DOMAIN out.value -> out.value.edge.id
            [] OTHER -> out.value.deleted.id,
   local_ref |-> IF o.type = "NodeCreate" THEN o.local_ref ELSE Nothing]

\* One operation after those acc has applied; an atomic batch stops at an error.
BatchStep(acc, i, r) ==
  LET o       == r.ops[i]
      request == RequestOf(o, acc.refs)
      meant   == IF call.helper = Nothing THEN Nothing ELSE Given(call.request.ops[i])
      out     == IF \/ o.type \in DeleteOps /\ ~r.allow_deletes
                    \/ request = Refused
                 THEN Refused ELSE Apply(acc.db, request, meant)
      done    == Applied(o, out)
  IN  CASE r.atomic /\ acc.errors # <<>> -> acc
        [] out = Refused ->
             [acc EXCEPT !.errors = Append(@, [index |-> i - 1, recovery |-> "hint"])]
        [] OTHER ->
             [acc EXCEPT !.db = out.db, !.applied = Append(@, done),
                         !.refs = IF done.local_ref = Nothing THEN @
                                  ELSE (done.local_ref :> done.id) @@ @]

\* BatchSummary and SessionBatchOutcome: also a rolled back batch reports what
\* it had counted.
BatchAnswer(acc, r) ==
  LET Of(k, m) == {i \in DOMAIN acc.applied : acc.applied[i].op = k /\ acc.applied[i].model = m}
      Kinds    == {a.op : a \in Range(acc.applied)}
      Named(k) == {a.model : a \in {x \in Range(acc.applied) : x.op = k}}
      found    == SelectSeq(acc.applied, LAMBDA a : a.id # Nothing)
  IN  [type |-> "ApplyBatch", applied |-> acc.errors = <<>>, atomic |-> r.atomic,
       operation_count |-> Len(r.ops),
       counts |-> [k \in Kinds |-> [m \in Named(k) |-> Cardinality(Of(k, m))]],
       errors |-> acc.errors,
       ids |-> IF r.response = "Summary" THEN Nothing
               ELSE [k \in DOMAIN found |->
                       [op |-> found[k].op, model |-> found[k].model,
                        id |-> found[k].id, local_ref |-> found[k].local_ref]],
       should_persist |-> \/ acc.errors = <<>>
                          \/ ~r.atomic /\ acc.applied # <<>>]

\* apply_session_batch: an atomic batch with an error restores the snapshot.
Before == [db |-> db, refs |-> <<>>, applied |-> <<>>, errors |-> <<>>]

Kept(acc, r) == IF r.atomic /\ acc.errors # <<>> THEN Before ELSE acc

ApplyBatch ==
  /\ Serving
  /\ \E r \in Served({"ApplyBatch"}) :
       \E acc \in {FoldLeft(LAMBDA x, i : BatchStep(x, i, r), Before, [i \in DOMAIN r.ops |-> i])} :
          LET kept == Kept(acc, r)
              ops  == [k \in DOMAIN kept.applied |-> kept.applied[k].durable]
          IN  /\ Bounded(kept.db)
              /\ db' = kept.db
              /\ Answer(BatchAnswer(acc, r),
                        IF Len(ops) > 1 THEN <<[type |-> "Batch", ops |-> ops]>> ELSE ops)

Next ==
  \/ \E r \in Requests : Send(r)
  \/ \E m \in Messages : SendMessage(m)
  \/ Receive \/ Lose \/ Finish
  \/ Refuse \/ Execute \/ List \/ Summary \/ ApplyBatch
  \/ \E N \in SUBSET (DOMAIN db.nodes), E \in SUBSET (DOMAIN db.edges) : FindNodes(N, E)
  \/ \E E \in SUBSET (DOMAIN db.edges) : FindEdges(E)
  \/ \E p \in Plans : Explain(p)
  \/ \E p \in Plans, rows \in 0..MaxId : Profile(p, rows)

Spec == Init /\ [][Next]_vars

-----------------------------------------------------------------------------
(***************************************************************************)
(* Properties.                                                             *)
(***************************************************************************)
\* The values of a request, in its properties and in its predicates.
ValuesOf(r) ==
  LET Preds(s) == UNION {{p.value : p \in Range(s[k])} :
                           k \in PredicateKeys \cap DOMAIN s}
      Props(s) == IF "props" \in DOMAIN s THEN Range(s.props) ELSE {}
  IN  CASE r.type \in IntrospectTypes -> Preds(r.query.shape)
        [] r.type = "ApplyBatch" -> UNION {Props(o) : o \in Range(r.ops)}
        [] OTHER -> Preds(r) \cup Props(r)

\* The same request with every value in the spelling of the store.
NormalPredicates(ps) == [i \in DOMAIN ps |-> [ps[i] EXCEPT !.value = MeantValue(@)]]

NormalPart(k, x) ==
  CASE k = "props" -> Meant(x)
    [] k \in PredicateKeys -> NormalPredicates(x)
    [] OTHER -> x

NormalShape(s) == [k \in DOMAIN s |-> NormalPart(k, s[k])]
NormalOps(ops) == [i \in DOMAIN ops |-> NormalShape(ops[i])]

Normal(r) ==
  CASE r.type \in IntrospectTypes -> [r EXCEPT !.query.shape = NormalShape(@)]
    [] r.type = "ApplyBatch" -> [r EXCEPT !.ops = NormalOps(@)]
    [] OTHER -> NormalShape(r)

\* Valid for some kind of field, so that the local runtime may accept it
Storable(v) == \E k \in DOMAIN Keywords : ValidateValueForKind(k, v)

\* The runtime is asked for exactly what the caller of a helper asked for, all
\* enums, options, endpoints and filters included, each typed value in its
\* canonical spelling (lib.rs:5064, :7395).
RequestsArriveIntact ==
  Serving /\ call.helper # Nothing =>
    \A r \in Request \ {Refused} : r = Normal(call.request)

\* A helper's request is refused on its way only when a value in it is one that
\* no field accepts, when the type of a field is not one, or when the helper
\* cannot return what is asked: the wire takes what the local runtime takes
\* (lib.rs:5740, :7395).
RefusalsAreJustified ==
  LET r == call.request
  IN  /\ call.helper # Nothing /\ r.type \notin FileTypes \cup {"IndexList", "Query"}
      /\ \/ call.stage = "done" /\ call.message = Refused /\ call.response = Nothing
         \/ Serving /\ Refused \in Request
      => \/ \E v \in ValuesOf(r) : ~Storable(v)
         \/ call.helper = "find_nodes" /\ r.return_mode = "Edge"
         \/ r.type = "ApplyBatch" /\ \E o \in Range(r.ops) :
              "fields" \in DOMAIN o /\ \E f \in Range(o.fields) : f.value_type \notin Range(Keywords)

\* What the caller of the local runtime would have had, in the names of the
\* wire.  A batch of no operations is to be persisted locally and not remotely:
\* the response carries whether there are durable operations.
Local ==
  LET r == call.response
      Planned == [plan_kind |-> r.command, steps |-> r.steps,
                  indexes |-> UNION {ToSet(d.indexes) \cup ({d.index} \ {Nothing}) :
                                       d \in Range(r.details)}]
  IN  CASE call.helper = "find_nodes" -> [k \in DOMAIN r \ {"edges"} |-> r[k]]
        [] r.type = "ApplyBatch" ->
             [r EXCEPT !.ids = IF @ = Nothing THEN <<>> ELSE @,
                       !.errors = [i \in DOMAIN @ |-> [index |-> @[i].index,
                                                       recovery_hint |-> @[i].recovery]],
                       !.should_persist = @ /\ r.operation_count # 0]
        [] r.type = "Explain" -> [type |-> r.type] @@ Planned
        [] r.type = "Profile" -> [type |-> r.type, row_count |-> r.result_rows] @@ Planned
        [] OTHER -> r

\* A served call is answered: an effect that took place is never reported as
\* an error because its response does not convert, and the caller of a helper
\* has what the local runtime would have returned, of every operation on nodes,
\* edges and models, of a batch, a plan and a summary (lib.rs:7430, :8096).
AnswersArriveIntact ==
  /\ call.stage = "answered" => call.message # Refused
  /\ call.stage = "done" /\ call.response # Nothing /\ call.helper # Nothing
       => Local = IF call.response.type \in IntrospectTypes
                  THEN [call.result EXCEPT !.indexes = ToSet(@)] ELSE call.result

\* What is read is what was written: every node and edge of a delivered answer
\* has the properties its writers meant, through both directions of the wire.
ReadsReturnWrites ==
  call.stage = "done" /\ call.response # Nothing /\ call.helper # Nothing =>
    LET In(one, many) == (IF one \in DOMAIN call.result THEN {call.result[one]} ELSE {})
                         \cup (IF many \in DOMAIN call.result THEN Range(call.result[many]) ELSE {})
        Intact(kind, x) == db.written[<<kind, x.id>>] \in {Nothing, x.props}
    IN  /\ \A n \in In("node", "nodes") : Intact("node", n)
        /\ \A e \in In("edge", "edges") : Intact("edge", e)
=============================================================================
