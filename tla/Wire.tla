-------------------------------- MODULE Wire ---------------------------------
(***************************************************************************)
(* The conversions a remote call goes through, in                          *)
(* src/grm-service-api/src/lib.rs.  A request passes two layers on each    *)
(* side: runtime <-> service types, and service types <-> protobuf.  The   *)
(* client encodes through both, the server decodes through both.  A        *)
(* response is encoded by the server in one step and decoded by the client.*)
(*                                                                         *)
(* A message is a record with the fields of its struct and its variant     *)
(* under "type".  An operator with a direction c, "encode" or "decode",    *)
(* stands for the pair of conversions of one message.  Fields that both    *)
(* sides merely copy are copied by EXCEPT; the enums of the service types  *)
(* name the runtime's variants, so only the protobuf layer changes them.   *)
(* A conversion that returns an error returns Refused.                     *)
(***************************************************************************)
EXTENDS Values, TLC

CONSTANT Nothing   \* an Option without value, a protobuf field not set

\* The ? of a struct or a vector: one refused part refuses the whole.
Whole(r) == IF \E k \in DOMAIN r : r[k] = Refused THEN Refused ELSE r
Each(s, Conv(_)) == Whole([i \in DOMAIN s |-> Conv(s[i])])

-----------------------------------------------------------------------------
(***************************************************************************)
(* Runtime <-> service.                                                    *)
(***************************************************************************)
\* TryFrom<Value> for PropertyValue: null, arrays, untagged objects and
\* numbers above the signed range have no variant; bytes are decoded from
\* base64, the other tagged values travel as their text.
PropertyValueOf(v) ==
  CASE v.kind \in {"UInt", "Other"} -> Refused
    [] v.kind = "Bytes" -> IF CanonicalText(v.raw)
                           THEN Json("Bytes", v.raw.body.item) ELSE Refused
    [] OTHER -> v

ValueOfUnparsed(p) ==
  IF p.kind = "Bytes" THEN Json("Bytes", Plain([item |-> p.raw, canonical |-> TRUE])) ELSE p

\* TryFrom<PropertyValue> for Value: a float must be finite (Malformed is not)
\* and a tagged value is parsed.
ValueOf(p) ==
  CASE p.kind = "Float" /\ p.raw = Malformed -> Refused
    [] p.kind \in TaggedKinds ->
         ParseTypedValue(p.kind, IF p.kind = "Bytes"
                                 THEN Plain([item |-> p.raw, canonical |-> TRUE]) ELSE p.raw)
    [] OTHER -> p

Value(c, v) == IF c = "encode" THEN PropertyValueOf(v) ELSE ValueOf(v)

\* PropertyMap: a map on the runtime side, a list of properties on the other;
\* a property named twice is refused.
PropertyMap(c, m) ==
  IF c = "encode"
  THEN LET names == SetToSeq(DOMAIN m)
       IN  Each(names, LAMBDA n : Whole([name |-> n, value |-> PropertyValueOf(m[n])]))
  ELSE LET names == {m[i].name : i \in DOMAIN m}
           At(n) == CHOOSE i \in DOMAIN m : m[i].name = n
       IN  IF Cardinality(names) # Len(m) THEN Refused
           ELSE Whole([n \in names |-> ValueOf(m[At(n)].value)])

Predicate(c, p) == Whole([p EXCEPT !.value = Value(c, @)])
Predicates(c, ps) == Each(ps, LAMBDA p : Predicate(c, p))

\* FieldSpec and FieldValueType: a type left unspecified is refused.
FieldSpec(c, f) ==
  Whole([f EXCEPT !.value_type = IF @ = "Unspecified" THEN Refused ELSE @])

\* DefineNodeRequest, DefineEdgeRequest with convert_fields
Define(c, m) == Whole([m EXCEPT !.fields = Each(@, LAMBDA f : FieldSpec(c, f))])

\* NodeCreateRequest, NodeUpdateRequest; a NodeDeleteRequest is copied.
NodeWrite(c, m) ==
  IF m.type = "DeleteNode" THEN m ELSE Whole([m EXCEPT !.props = PropertyMap(c, @)])

\* EdgeCreateRequest, EdgeUpdateRequest; an EdgeDeleteRequest is copied.
EdgeWrite(c, m) ==
  IF m.type = "DeleteEdge" THEN m ELSE Whole([m EXCEPT !.props = PropertyMap(c, @)])

\* TryFrom<NodeFindRequest>, node_find_shape_from_runtime and
\* node_find_shape_to_runtime.  A limit is a 64 bit number on both sides.
NodeFind(c, m) ==
  Whole([m EXCEPT !.predicates = Predicates(c, @),
                  !.end_predicates = Predicates(c, @),
                  !.edge_predicates = Predicates(c, @)])

\* TryFrom<EdgeFindRequest>, edge_find_shape_from_runtime,
\* edge_find_shape_to_runtime
EdgeFind(c, m) == Whole([m EXCEPT !.predicates = Predicates(c, @)])

\* QueryRequest: [form, shape], the shape of a find request; the root of a
\* traversal is a node find.
QueryRequest(c, q) ==
  Whole([q EXCEPT !.shape = IF q.form = "EdgeFind" THEN EdgeFind(c, @) ELSE NodeFind(c, @)])

\* ExplainRequest, ProfileRequest
Introspect(c, m) == Whole([m EXCEPT !.query = QueryRequest(c, @)])

Keywords ==
  [String |-> "string", Int |-> "int", Float |-> "float", Bool |-> "bool",
   Bytes |-> "bytes", Decimal |-> "decimal", Date |-> "date",
   DateTime |-> "datetime", Duration |-> "duration", Uuid |-> "uuid"]

\* batch_fields_to_service_fields, service_fields_to_batch_fields: in a batch
\* the runtime spells a field's type as a keyword.
BatchField(c, f) ==
  LET named == {t \in DOMAIN Keywords : Keywords[t] = f.value_type}
  IN  Whole([f EXCEPT !.value_type =
        IF c = "encode" THEN IF named = {} THEN Refused ELSE CHOOSE t \in named : TRUE
        ELSE IF @ = "Unspecified" THEN Refused ELSE Keywords[@]])

\* BatchEndpoint: [is, of]
Endpoint(c, e) ==
  IF e.is = "Id" THEN e
  ELSE [e EXCEPT !.is = IF c = "encode" THEN "LocalRef" ELSE "Ref"]

\* BatchOperation <-> SessionBatchOp
BatchOperation(c, o) ==
  CASE o.type \in {"SchemaDefineNode", "SchemaDefineEdge"} ->
         Whole([o EXCEPT !.fields = Each(@, LAMBDA f : BatchField(c, f))])
    [] o.type \in {"NodeDelete", "EdgeDelete"} -> o
    [] o.type = "EdgeCreate" ->
         Whole([o EXCEPT !.from = Endpoint(c, @), !.to = Endpoint(c, @),
                         !.props = PropertyMap(c, @)])
    [] OTHER -> Whole([o EXCEPT !.props = PropertyMap(c, @)])

\* BatchRequest
Batch(c, m) == Whole([m EXCEPT !.ops = Each(@, LAMBDA o : BatchOperation(c, o))])

DefineTypes     == {"DefineNode", "DefineEdge"}
NodeWriteTypes  == {"CreateNode", "UpdateNode", "DeleteNode"}
EdgeWriteTypes  == {"CreateEdge", "UpdateEdge", "DeleteEdge"}
IntrospectTypes == {"Explain", "Profile"}
EmptyTypes      == {"SchemaList", "Summary", "IndexList"}
FileTypes       == {"Save", "Load", "Export", "Import"}

\* TryFrom<ServiceRequest> for RuntimeRequest, and the client helpers on the
\* way out.  The requests about files have no counterpart in the runtime.
ServiceRequest(c, m) ==
  IF m = Refused THEN Refused ELSE
  CASE m.type \in DefineTypes -> Define(c, m)
    [] m.type \in NodeWriteTypes -> NodeWrite(c, m)
    [] m.type \in EdgeWriteTypes -> EdgeWrite(c, m)
    [] m.type = "FindNodes" -> NodeFind(c, m)
    [] m.type = "FindEdges" -> EdgeFind(c, m)
    [] m.type \in IntrospectTypes \cup {"Query"} -> Introspect(c, m)
    [] m.type = "ApplyBatch" -> Batch(c, m)
    [] m.type \in EmptyTypes -> m
    [] m.type \in FileTypes -> Refused

-----------------------------------------------------------------------------
(***************************************************************************)
(* Service <-> protobuf.                                                   *)
(***************************************************************************)
\* The variants in the order of their codes, which start at 0.
FieldValueTypes  == <<"Unspecified", "String", "Int", "Float", "Bool", "Bytes", "Decimal",
                      "Date", "DateTime", "Duration", "Uuid">>
PredicateOps     == <<"Eq", "Ne", "Gt", "Ge", "Lt", "Le", "Contains">>
OrderDirections  == <<"Asc", "Desc">>
Directions       == <<"Out", "In", "Both">>
Returns          == <<"End", "Root", "Edge">>
ResponseModes    == <<"Summary", "Detailed">>
IdTypes          == <<"Unspecified", "Int64">>
Formats          == <<"Json", "Binary">>

\* proto_predicate_op_from_service and its like
EncodeEnum(names, x) ==
  IF x = "Unspecified" THEN Refused ELSE (CHOOSE i \in DOMAIN names : names[i] = x) - 1

DecodeEnumZeroUnset(names, n) ==
  IF n + 1 \in (DOMAIN names) \ {1} THEN names[n + 1] ELSE Refused

\* proto_predicate_op and its like: an unknown code is refused.
DecodeEnum(names, n) == IF n + 1 \in DOMAIN names THEN names[n + 1] ELSE Refused

Enum(c, names, x) == IF c = "encode" THEN EncodeEnum(names, x) ELSE DecodeEnum(names, x)
EnumOption(c, names, x) == IF x = Nothing THEN Nothing ELSE Enum(c, names, x)

\* missing_proto_field
Required(c, x) == IF c = "decode" /\ x = Nothing THEN Refused ELSE x

\* proto::PropertyValue; Nothing stands for a missing value or a missing kind.
ProtoValue(c, v) == Required(c, v)

\* proto::PropertyMap and Property, with proto_property_map_or_empty: a map
\* that is not set is an empty one.
ProtoPropertyMap(c, m) ==
  IF c = "decode" /\ m = Nothing THEN <<>>
  ELSE Each(m, LAMBDA p : Whole([p EXCEPT !.value = ProtoValue(c, @)]))

ProtoPredicate(c, p) ==
  Whole([p EXCEPT !.op = Enum(c, PredicateOps, @), !.value = ProtoValue(c, @)])
ProtoPredicates(c, ps) == Each(ps, LAMBDA p : ProtoPredicate(c, p))

\* proto::OrderSpec, proto::TraversalStep
ProtoOrder(c, o) == Whole([o EXCEPT !.direction = Enum(c, OrderDirections, @)])
ProtoStep(c, s)  == Whole([s EXCEPT !.direction = Enum(c, Directions, @)])

ProtoFieldSpec(c, f) == Whole([f EXCEPT !.value_type = Enum(c, FieldValueTypes, @)])

ProtoDefine(c, m) == Whole([m EXCEPT !.fields = Each(@, LAMBDA f : ProtoFieldSpec(c, f))])

ProtoNodeWrite(c, m) ==
  IF m.type = "DeleteNode" THEN m ELSE Whole([m EXCEPT !.props = ProtoPropertyMap(c, @)])

ProtoEdgeWrite(c, m) ==
  IF m.type = "DeleteEdge" THEN m ELSE Whole([m EXCEPT !.props = ProtoPropertyMap(c, @)])

ProtoNodeFind(c, m) ==
  Whole([m EXCEPT !.predicates = ProtoPredicates(c, @),
                  !.end_predicates = ProtoPredicates(c, @),
                  !.edge_predicates = ProtoPredicates(c, @),
                  !.traversals = Each(@, LAMBDA s : ProtoStep(c, s)),
                  !.order = Each(@, LAMBDA o : ProtoOrder(c, o)),
                  !.return_mode = EnumOption(c, Returns, @)])

ProtoEdgeFind(c, m) ==
  Whole([m EXCEPT !.predicates = ProtoPredicates(c, @),
                  !.order = Each(@, LAMBDA o : ProtoOrder(c, o))])

\* proto::QueryRequest and its shapes; the root of a traversal is required.
ProtoQuery(c, q) ==
  IF Required(c, q) = Refused THEN Refused
  ELSE IF Required(c, q.shape) = Refused THEN Refused
  ELSE Whole([q EXCEPT !.shape = IF q.form = "EdgeFind" THEN ProtoEdgeFind(c, @)
                                 ELSE ProtoNodeFind(c, @)])

ProtoIntrospect(c, m) == Whole([m EXCEPT !.query = ProtoQuery(c, @)])

\* proto::BatchNodeCreate, BatchEdgeCreate, BatchEndpoint
ProtoBatchCreate(c, o) ==
  LET full == Whole([o EXCEPT !.props = ProtoPropertyMap(c, @)])
  IN  IF o.type = "EdgeCreate" /\ Refused \in {Required(c, o.from), Required(c, o.to)}
      THEN Refused ELSE full

ProtoBatchOperation(c, o) ==
  IF Required(c, o) = Refused THEN Refused ELSE
  CASE o.type \in {"SchemaDefineNode", "SchemaDefineEdge"} -> ProtoDefine(c, o)
    [] o.type \in {"NodeDelete", "EdgeDelete"} -> o
    [] OTHER -> ProtoBatchCreate(c, o)

ProtoBatch(c, m) ==
  Whole([m EXCEPT !.response = Enum(c, ResponseModes, @),
                  !.ops = Each(@, LAMBDA o : ProtoBatchOperation(c, o))])

\* proto::SaveRequest, LoadRequest, ExportRequest, ImportRequest
ProtoFile(c, m) ==
  Whole([k \in DOMAIN m |-> CASE k = "format" -> Enum(c, Formats, m[k])
                              [] k = "snapshot" -> Required(c, m[k])
                              [] OTHER -> m[k]])

ProtoBody(c, m) ==
  CASE m.type \in DefineTypes -> ProtoDefine(c, m)
    [] m.type \in NodeWriteTypes -> ProtoNodeWrite(c, m)
    [] m.type \in EdgeWriteTypes -> ProtoEdgeWrite(c, m)
    [] m.type = "FindNodes" -> ProtoNodeFind(c, m)
    [] m.type = "FindEdges" -> ProtoEdgeFind(c, m)
    [] m.type \in IntrospectTypes \cup {"Query"} -> ProtoIntrospect(c, m)
    [] m.type = "ApplyBatch" -> ProtoBatch(c, m)
    [] m.type \in FileTypes -> ProtoFile(c, m)
    [] m.type \in EmptyTypes -> m

\* proto_runtime_request_from_service_request: what the client helpers send
EncodeRequest(m) ==
  IF m = Refused THEN Refused
  ELSE IF m.type \in FileTypes \cup {"Query", "IndexList"} THEN Refused
  ELSE ProtoBody("encode", m)

\* TryFrom<proto::RuntimeRequest> for ServiceRequest
DecodeRequest(m) == IF m = Nothing THEN Refused ELSE ProtoBody("decode", m)

\* GrpcWorkspaceClient: find_nodes has no place for edges in its result.
Sent(request, helper) ==
  IF helper = "find_nodes" /\ request.return_mode = "Edge" THEN Refused
  ELSE EncodeRequest(ServiceRequest("encode", request))

\* The request the server's runtime is given.
Arrived(message) == ServiceRequest("decode", DecodeRequest(message))

-----------------------------------------------------------------------------
(***************************************************************************)
(* Responses: encoded by the server after the effect, decoded by the client*)
(***************************************************************************)
ProtoIdType(t) == IF t = "Uuid" THEN Refused ELSE EncodeEnum(IdTypes, t)

\* proto_node_model, proto_edge_model, proto_field_spec.  The origin of a
\* model does not travel.
ProtoModel(m) ==
  Whole([m EXCEPT !.id_type = ProtoIdType(@),
                  !.fields = Each(@, LAMBDA f : ProtoFieldSpec("encode", f))])

\* proto_property_value: unlike a request, a number above the signed range
\* becomes a float.
ProtoStoredValue(v) ==
  CASE v.kind = "UInt" -> Json("Float", v.raw)
    [] v.kind = "Other" -> Refused
    [] v.kind = "Bytes" -> IF CanonicalText(v.raw)
                           THEN Json("Bytes", v.raw.body.item) ELSE Refused
    [] OTHER -> v

\* proto_property_map
ProtoStoredProps(props) ==
  LET names == SetToSeq(DOMAIN props)
  IN  Each(names, LAMBDA n : Whole([name |-> n, value |-> ProtoStoredValue(props[n])]))

\* proto_stored_node, proto_stored_edge
ProtoStored(x) == Whole([x EXCEPT !.props = ProtoStoredProps(@)])

\* proto_durable_operation; batches do not nest.
ProtoDurable(op) ==
  LET One(o) == CASE o.type \in {"UpsertNode", "UpsertRel"} ->
                       Whole([o EXCEPT !.item = ProtoStored(@)])
                  [] o.type \in {"RegisterNodeModel", "RegisterRelModel"} ->
                       Whole([o EXCEPT !.item = ProtoModel(@)])
                  [] OTHER -> o
  IN  IF op.type = "Batch" THEN Whole([op EXCEPT !.ops = Each(@, One)]) ELSE One(op)

\* proto_durable_mutation_outcome
ProtoOutcome(ops) ==
  LET sent == Each(ops, ProtoDurable)
  IN  IF sent = Refused THEN Refused
      ELSE [durable_ops |-> sent, has_durable_mutation |-> ops # <<>>]

\* proto_batch_response: counts by operation and model become a list.  The
\* ids are absent in summary mode, the recovery hint has two names.
ProtoBatchResponse(r, ops) ==
  LET pairs == SetToSeq(UNION {{o} \X (DOMAIN r.counts[o]) : o \in DOMAIN r.counts})
  IN  Whole([type |-> r.type, applied |-> r.applied, atomic |-> r.atomic,
             operation_count |-> r.operation_count,
             counts |-> [i \in DOMAIN pairs |->
                           [op |-> pairs[i][1], model |-> pairs[i][2],
                            count |-> r.counts[pairs[i][1]][pairs[i][2]]]],
             errors |-> [i \in DOMAIN r.errors |->
                           [index |-> r.errors[i].index, recovery_hint |-> r.errors[i].recovery]],
             ids |-> IF r.ids = Nothing THEN <<>> ELSE r.ids,
             durability |-> ProtoOutcome(ops)])

\* proto_explain_response with plan_indexes: the distinct indexes the details
\* of the plan name, in order.
ProtoExplain(r) ==
  LET named == FlattenSeq([i \in DOMAIN r.details |->
                 (IF r.details[i].index = Nothing THEN <<>> ELSE <<r.details[i].index>>)
                   \o r.details[i].indexes])
  IN  [type |-> r.type, plan_kind |-> r.command, steps |-> r.steps,
       indexes |-> FoldLeft(LAMBDA acc, x : IF x \in Range(acc) THEN acc ELSE Append(acc, x),
                            <<>>, named)]

\* proto_runtime_response: the parts of a response, each by its own function
ProtoResponse(r, ops) ==
  LET Part(k) ==
        CASE k = "model" /\ r.type \in DefineTypes -> ProtoModel(r[k])
          [] k \in {"node_models", "edge_models"} -> Each(r[k], ProtoModel)
          [] k = "backend_id_type" -> ProtoIdType(r[k])
          [] k \in {"node", "edge"} -> ProtoStored(r[k])
          [] k \in {"nodes", "edges"} -> Each(r[k], ProtoStored)
          [] k = "durability" -> ProtoOutcome(ops)
          [] OTHER -> r[k]
      changes == DefineTypes \cup NodeWriteTypes \cup EdgeWriteTypes
      parts == DOMAIN r \cup (IF r.type \in changes THEN {"durability"} ELSE {})
  IN  CASE r.type = "Explain" -> ProtoExplain(r)
        [] r.type = "Profile" -> ProtoExplain(r) @@ [row_count |-> r.result_rows]
        [] r.type = "ApplyBatch" -> ProtoBatchResponse(r, ops)
        [] OTHER -> Whole([k \in parts |-> Part(k)])

\* runtime_node_model_from_proto, runtime_edge_model_from_proto: rebuilt by
\* the constructor, which names the label after the model.
ClientModel(m) ==
  LET label == IF "label" \in DOMAIN m THEN "label" ELSE "rel_type"
      field == Each(m.fields, LAMBDA f : FieldSpec("decode", ProtoFieldSpec("decode", f)))
      id    == DecodeEnum(IdTypes, m.id_type)
  IN  IF Refused \in {field, id} \/ id = "Unspecified" THEN Refused
      ELSE IF ~WellFormedModel(m.id_field_name, field) THEN Refused
      ELSE [m EXCEPT !.fields = field, !.id_type = id, ![label] = m.name]

\* stored_node_from_proto, stored_edge_from_proto
ClientStored(x) ==
  LET props == ProtoPropertyMap("decode", x.props)
  IN  IF props = Refused THEN Refused
      ELSE Whole([x EXCEPT !.props = PropertyMap("decode", @)])

ClientBatchAppliedPersists(p) ==
  LET Count(o, m) == CHOOSE i \in DOMAIN p.counts : p.counts[i].op = o /\ p.counts[i].model = m
      Counted(o)   == {p.counts[i].model : i \in {j \in DOMAIN p.counts : p.counts[j].op = o}}
  IN  [type |-> p.type, applied |-> p.applied, atomic |-> p.atomic,
       operation_count |-> p.operation_count,
       counts |-> [o \in {p.counts[i].op : i \in DOMAIN p.counts} |->
                     [m \in Counted(o) |-> p.counts[Count(o, m)].count]],
       errors |-> p.errors, ids |-> p.ids, should_persist |-> p.applied]

\* runtime_batch_response_from_proto
ClientBatch(p) ==
  LET Count(o, m) == CHOOSE i \in DOMAIN p.counts : p.counts[i].op = o /\ p.counts[i].model = m
      Counted(o)   == {p.counts[i].model : i \in {j \in DOMAIN p.counts : p.counts[j].op = o}}
  IN  [type |-> p.type, applied |-> p.applied, atomic |-> p.atomic,
       operation_count |-> p.operation_count,
       counts |-> [o \in {p.counts[i].op : i \in DOMAIN p.counts} |->
                     [m \in Counted(o) |-> p.counts[Count(o, m)].count]],
       errors |-> p.errors, ids |-> p.ids,
       should_persist |-> p.durability.has_durable_mutation]

\* runtime_summary_from_proto
ClientSummary(p) ==
  IF \/ p.node_model_count # Len(p.node_counts)
     \/ p.edge_model_count # Len(p.edge_counts)
  THEN Refused ELSE p

\* The helpers of GrpcWorkspaceClient: the result of each, out of the response
\* of its own type.  find_nodes drops the edges.
ClientResponse(p, helper) ==
  LET Part(k) ==
        CASE k = "model" /\ p.type \in DefineTypes -> ClientModel(p[k])
          [] k \in {"node_models", "edge_models"} -> Each(p[k], ClientModel)
          [] k = "backend_id_type" -> DecodeEnum(IdTypes, p[k])
          [] k \in {"node", "edge"} -> ClientStored(p[k])
          [] k \in {"nodes", "edges"} -> Each(p[k], ClientStored)
          [] OTHER -> p[k]
      dropped == {"durability"} \cup (IF helper = "find_nodes" THEN {"edges"} ELSE {})
  IN  CASE p.type = "ApplyBatch" -> ClientBatch(p)
        [] p.type = "Summary" -> ClientSummary(p)
        [] OTHER -> Whole([k \in DOMAIN p \ dropped |-> Part(k)])
=============================================================================
