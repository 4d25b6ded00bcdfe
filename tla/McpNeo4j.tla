------------------------------ MODULE McpNeo4j -------------------------------
(***************************************************************************)
(* The MCP server in Neo4j mode: grm-mcp/src/tools.rs and server.rs over   *)
(* src/runtime/neo4j.rs.  The graph lives in Neo4j; the runtime schema     *)
(* lives in the server's memory and in the schema memory file that         *)
(* GRM_SCHEMA_TEMPLATE names, a checkpoint and an append log.              *)
(*                                                                         *)
(* Tool calls run concurrently and give way to each other wherever they    *)
(* wait: for a lock, for a statement of their Neo4j transaction, for its   *)
(* commit.  A call that only touches the graph works with a copy of the    *)
(* schema.  A batch stages its definitions in such a copy and installs the *)
(* copy once its transaction has committed; neo4j_schema_write keeps every *)
(* other definition out until then.                                        *)
(*                                                                         *)
(* Neo4j itself is external: transactions that read what is committed and  *)
(* what they wrote, that hold what they write until they end, and node and *)
(* relationship ids it chooses.  The finds and the summary only read.      *)
(***************************************************************************)
EXTENDS Naturals, FiniteSets, Sequences

CONSTANTS
  Calls,                    \* the tool calls that may be under way at once
  NodeModels, RelModels,
  FromModel, ToModel,       \* relationship model -> the node models it joins
  NodeIds, RelIds,          \* the ids that Neo4j hands out, a bound
  Requests,                 \* the tool calls made
  Graphs,                   \* what may be in Neo4j when the server starts
  Templates,                \* the schema memory file it may find; None: no file
  Faults,                   \* "io": of the file, "neo4j": of a statement or commit,
                            \* "reuse": Neo4j hands out the ids of deleted entities
  None                      \* no node, no call, no file

Models == NodeModels \cup RelModels
Mutexes == {"schema_write", "state"}

Batches == {"grm_batch", "grm_batch_write", "grm_batch_destructive"}
Deletes == {"node_delete", "edge_delete"}

\* SessionBatchOp.  An end of a relationship is an id, or None for the ref of the batch.
Operation ==
  [op : {"define"}, model : Models]
    \cup [op : {"node_create"}, model : NodeModels, ref : BOOLEAN]
    \cup [op : {"node_update", "node_delete"}, model : NodeModels, id : NodeIds]
    \cup [op : {"edge_create"}, model : RelModels, from : NodeIds \cup {None}, to : NodeIds \cup {None}]
    \cup [op : {"edge_update", "edge_delete"}, model : RelModels, id : RelIds]

\* The tools that define a model, that write the checkpoint, that write one node or
\* relationship ("single"), and the batches.
Request ==
  [tool : {"define", "checkpoint", "single"} \cup Batches, ops : Seq(Operation),
   allow_deletes : BOOLEAN, atomic : BOOLEAN]

Relationship == [model : RelModels, from : NodeIds, to : NodeIds]

\* The graph of a Neo4j database; None where there is no node or relationship.
Neo4jGraph ==
  [nodes : [NodeIds -> NodeModels \cup {None}], rels : [RelIds -> Relationship \cup {None}]]

\* Every relationship joins two nodes, of the models that its own model joins, but
\* for nodes whose id is in z.
Joined(g, z) ==
  \A r \in RelIds : g.rels[r] # None =>
    LET e == g.rels[r]
    IN  /\ None \notin {g.nodes[e.from], g.nodes[e.to]}
        /\ e.from \in z \/ g.nodes[e.from] = FromModel[e.model]
        /\ e.to \in z \/ g.nodes[e.to] = ToModel[e.model]

ASSUME McpAssumption ==
  /\ FromModel \in [RelModels -> NodeModels] /\ ToModel \in [RelModels -> NodeModels]
  /\ NodeModels \cap RelModels = {} /\ NodeIds \cap RelIds = {}
  /\ Faults \subseteq {"io", "neo4j", "reuse"}
  /\ None \notin Calls \cup Models \cup NodeIds \cup Relationship
  /\ \A t \in Templates : t = None \/ t \subseteq Models
  /\ \A t \in SUBSET Models : t # None

ASSUME GraphsAssumption == \A g \in Graphs : g \in Neo4jGraph /\ Joined(g, {})

ASSUME RequestAssumption ==
  \A r \in Requests :
    /\ r \in Request
    /\ r.tool = "define" => Len(r.ops) = 1 /\ r.ops[1].op = "define"
    /\ r.tool = "single" => Len(r.ops) = 1 /\ r.ops[1].op # "define"

VARIABLES
  up,        \* the server runs
  schema,    \* the catalog of state: the models defined in memory
  holder,    \* neo4j_schema_write and state: the call that holds each mutex
  call,      \* per call: what it was asked and how far it is
  base, log, \* the schema memory file, and the models of the lines of its log
  tail,      \* of the log: "clean", "torn" after part of a line, or "broken" by a
             \* line that continues such a part and that no load can read
  graph,     \* what is committed in Neo4j
  gone,      \* the ids of deleted nodes and relationships
  unsaved    \* history: models in memory whose line could not be written

fileVars == <<base, log, tail>>
neo4jVars == <<graph, gone>>
vars == <<up, schema, holder, call, fileVars, neo4jVars, unsaved>>

\* A transaction, or one statement of it: what it wrote, what it created, and what
\* it holds until the transaction ends.
Writes(nodes, rels, made, held) == [nodes |-> nodes, rels |-> rels, made |-> made, held |-> held]
Nothing == [id \in {} |-> None]
NoWrites == Writes(Nothing, Nothing, {}, {})

Idle == [phase |-> "idle", locks |-> <<>>, request |-> None, staged |-> {},
         next |-> 1, checked |-> 0, ref |-> None, tx |-> NoWrites]

Init ==
  /\ up = FALSE
  /\ schema = {} /\ holder = [m \in Mutexes |-> None] /\ call = [c \in Calls |-> Idle]
  /\ base \in Templates /\ log = {} /\ tail = "clean"
  /\ graph \in Graphs /\ gone = {}
  /\ unsaved = {}

-----------------------------------------------------------------------------
(***************************************************************************)
(* The schema and its file.                                                *)
(***************************************************************************)
\* register_model, register_rel_model
Registrable(s, m) ==
  /\ m \notin s
  /\ m \in RelModels => {FromModel[m], ToModel[m]} \subseteq s

\* node_model, rel_model, validated_edge_create: the models an operation needs
ModelsOf(op) ==
  {op.model} \cup IF op.op = "edge_create" THEN {FromModel[op.model], ToModel[op.model]} ELSE {}

\* recover_durable: the checkpoint, and the log over it
Recovered == base \cup log

\* The models that the first n operations define.
DefinedBy(ops, n) == {ops[i].model : i \in {j \in 1..n : ops[j].op = "define"}}

\* append_operation of the definitions of the first n operations, and of part of a
\* further line if the end is "torn": what the log holds then, and how it ends.  Of a
\* broken log only that it cannot be read matters.
Written(ops, n, end) ==
  [log |-> log \cup DefinedBy(ops, n),
   tail |-> IF tail = "clean" THEN end
            ELSE IF tail = "torn" /\ DefinedBy(ops, n) = {} THEN "torn" ELSE "broken"]

\* Where the appends of ops may stop: after a whole line, or in the next one.
Stops(ops) ==
  {<<n, "clean">> : n \in 0..Len(ops)} \cup
  {<<n, "torn">> : n \in {m \in 0..Len(ops) : DefinedBy(ops, m) # DefinedBy(ops, Len(ops))}}

\* Mutant: a batch leaves its definitions to the next checkpoint.
AppendsNothing(ops) == {[file |-> Written(ops, 0, "clean"), ok |-> TRUE]}

\* append_schema_template_ops: a line for each definition, until one fails.  That
\* one may be there in full, in part, or not at all.
Appends(ops) ==
  {[file |-> Written(ops, Len(ops), "clean"), ok |-> TRUE]} \cup
  {[file |-> Written(ops, x[1], x[2]), ok |-> FALSE] :
     x \in IF "io" \in Faults /\ DefinedBy(ops, Len(ops)) # {} THEN Stops(ops) ELSE {}}

\* checkpoint_durable: write the base file, then remove the log
Checkpoints ==
  {[base |-> schema, log |-> {}, tail |-> "clean"]} \cup
  {[base |-> b, log |-> log, tail |-> tail] : b \in IF "io" \in Faults THEN {base, schema} ELSE {}}

\* initialize_schema_memory, connect: it recovers without a checkpoint, so a torn
\* line stays where it is.
Start ==
  /\ ~up /\ tail # "broken"
  /\ up' = TRUE
  /\ base' = IF base = None THEN {} ELSE base
  /\ schema' = IF base = None THEN {} ELSE Recovered
  /\ UNCHANGED <<holder, call, log, tail, neo4jVars, unsaved>>

\* read_operations refuses a line that it cannot parse, and the server does not start.
StartFails == ~up /\ tail = "broken" /\ UNCHANGED vars

-----------------------------------------------------------------------------
(***************************************************************************)
(* Neo4j.                                                                  *)
(***************************************************************************)
Merge(f, g) == [k \in DOMAIN f \cup DOMAIN g |-> IF k \in DOMAIN f THEN f[k] ELSE g[k]]

\* What a transaction with the writes t reads over g.
Over(t, g) == [nodes |-> Merge(t.nodes, g.nodes), rels |-> Merge(t.rels, g.rels)]

View(c) == Over(call[c].tx, graph)

\* The writes t, and then the statement w.
Then(t, w) == Writes(Merge(w.nodes, t.nodes), Merge(w.rels, t.rels), t.made \cup w.made, t.held \cup w.held)

Unlocked(c, w) == \A d \in Calls \ {c} : w.held \cap call[d].tx.held = {}

\* The ids that a create may be given.
Unused == {n \in NodeIds : graph.nodes[n] = None} \cup {r \in RelIds : graph.rels[r] = None}
Free == (IF "reuse" \in Faults THEN Unused ELSE Unused \ gone) \ UNION {call[c].tx.made : c \in Calls}

Attached(g, n) == {r \in RelIds : g.rels[r] # None /\ n \in {g.rels[r].from, g.rels[r].to}}
EndsOf(g, rs) == UNION {{g.rels[r].from, g.rels[r].to} : r \in rs}

To(ids, value) == [id \in ids |-> value]

\* The statement of an operation finds what it works on.
Matches(g, op) ==
  CASE op.op \in {"node_update", "node_delete"} -> g.nodes[op.id] # None
    [] op.op = "edge_create" -> None \notin {g.nodes[op.from], g.nodes[op.to]}
    [] op.op \in {"edge_update", "edge_delete"} -> g.rels[op.id] # None
    [] OTHER -> TRUE

\* What it writes; id is the id of what it creates.
Statement(g, op, id) ==
  IF ~Matches(g, op) THEN NoWrites
  ELSE CASE op.op = "node_create" -> Writes(To({id}, op.model), Nothing, {id}, {id})
         [] op.op = "node_delete" ->
              LET rs == Attached(g, op.id)
              IN  Writes(To({op.id}, None), To(rs, None), {}, {op.id} \cup rs \cup EndsOf(g, rs))
         [] op.op = "edge_create" ->
              LET e == [model |-> op.model, from |-> op.from, to |-> op.to]
              IN  Writes(Nothing, To({id}, e), {id}, {op.from, op.to, id})
         [] op.op = "edge_delete" ->
              Writes(Nothing, To({op.id}, None), {}, {op.id} \cup EndsOf(g, {op.id}))
         [] OTHER -> Writes(Nothing, Nothing, {}, {op.id})

-----------------------------------------------------------------------------
(***************************************************************************)
(* Tool calls.                                                             *)
(***************************************************************************)
\* validate_batch_safety
Safe(r) ==
  r.tool = "grm_batch_write" => ~r.allow_deletes /\ \A i \in DOMAIN r.ops : r.ops[i].op \notin Deletes

\* Mutants: a checkpoint takes the state before it waits for the writers; a batch
\* does not wait for them.
LocksSwapped(r) ==
  IF r.tool = "checkpoint" THEN <<"state", "schema_write">>
  ELSE IF r.tool = "define" THEN <<"schema_write", "state">>
  ELSE IF r.tool \in Batches THEN <<"schema_write">> ELSE <<>>
LocksNoBatch(r) ==
  IF r.tool \in {"define", "checkpoint"} THEN <<"schema_write", "state">> ELSE <<>>

\* The mutexes that a call holds until it answers, in the order it takes them.
Locks(r) ==
  IF r.tool \in {"define", "checkpoint"} THEN <<"schema_write", "state">>
  ELSE IF r.tool \in Batches THEN <<"schema_write">> ELSE <<>>

\* A bound: the ids last for every create of the calls under way and of r.
Room(r) ==
  LET Made(ops, op) == {i \in DOMAIN ops : ops[i].op = op}
      Busy == {c \in Calls : call[c] # Idle}
      Fits(op, ids) ==
        Cardinality(UNION {{c} \X Made(call[c].request.ops, op) : c \in Busy}) + Cardinality(Made(r.ops, op))
          <= Cardinality(ids \cap IF "reuse" \in Faults THEN Unused ELSE Unused \ gone)
  IN  Fits("node_create", NodeIds) /\ Fits("edge_create", RelIds)

Receive(c) ==
  \E r \in Requests :
    /\ up /\ call[c] = Idle
    /\ Safe(r) /\ Room(r)
    /\ call' = [call EXCEPT ![c] = [Idle EXCEPT !.phase = "called", !.locks = Locks(r), !.request = r]]
    /\ UNCHANGED <<up, schema, holder, fileVars, neo4jVars, unsaved>>

Acquire(c) ==
  /\ call[c].locks # <<>> /\ holder[Head(call[c].locks)] = None
  /\ holder' = [holder EXCEPT ![Head(call[c].locks)] = c]
  /\ call' = [call EXCEPT ![c].locks = Tail(@)]
  /\ UNCHANGED <<up, schema, fileVars, neo4jVars, unsaved>>

Entered(c, tools) ==
  call[c].phase = "called" /\ call[c].locks = <<>> /\ call[c].request.tool \in tools

Answer(c) ==
  /\ call' = [call EXCEPT ![c] = Idle]
  /\ holder' = [m \in Mutexes |-> IF holder[m] = c THEN None ELSE holder[m]]

\* The lines of newly registered models.
AppendLines(ops) ==
  \E a \in Appends(ops) :
    /\ log' = a.file.log /\ tail' = a.file.tail
    /\ unsaved' = (unsaved \cup IF a.ok THEN {} ELSE DefinedBy(ops, Len(ops))) \ (base \cup a.file.log)
    /\ UNCHANGED base

\* grm_schema_define_node, grm_schema_define_edge: the model is in memory before
\* its line is, and stays there when the line cannot be written.
Define(c) ==
  LET m == call[c].request.ops[1].model
  IN  /\ Entered(c, {"define"})
      /\ IF Registrable(schema, m)
         THEN schema' = schema \cup {m} /\ AppendLines(call[c].request.ops)
         ELSE UNCHANGED <<schema, fileVars, unsaved>>
      /\ Answer(c)
      /\ UNCHANGED <<up, neo4jVars>>

\* grm_schema_checkpoint
Checkpoint(c) ==
  /\ Entered(c, {"checkpoint"})
  /\ \E f \in Checkpoints :
       /\ base' = f.base /\ log' = f.log /\ tail' = f.tail
       /\ unsaved' = unsaved \ (f.base \cup f.log)
  /\ Answer(c)
  /\ UNCHANGED <<up, schema, neo4jVars>>

\* A copy of the state, and a transaction.
Snapshot(c) ==
  /\ Entered(c, Batches \cup {"single"})
  /\ holder["state"] = None
  /\ call[c].request.atomic
  /\ call' = [call EXCEPT ![c].phase = "tx", ![c].staged = schema]
  /\ UNCHANGED <<up, schema, holder, fileVars, neo4jVars, unsaved>>

\* apply_neo4j_batch refuses atomic=false before it has done anything.
RefuseNonAtomic(c) ==
  /\ Entered(c, Batches)
  /\ ~call[c].request.atomic
  /\ Answer(c)
  /\ UNCHANGED <<up, schema, fileVars, neo4jVars, unsaved>>

-----------------------------------------------------------------------------
(***************************************************************************)
(* The operations of a transaction, statement by statement.                *)
(***************************************************************************)
Running(c) == call[c].phase = "tx" /\ call[c].next <= Len(call[c].request.ops)

\* The operation that call c has reached, its ends resolved (resolve_endpoint).
Op(c) ==
  LET op == call[c].request.ops[call[c].next]
      Resolved(end) == IF end = None THEN call[c].ref ELSE end
  IN  IF op.op = "edge_create" THEN [op EXCEPT !.from = Resolved(@), !.to = Resolved(@)] ELSE op

\* What an operation needs before its first statement.
Ready(c, op) ==
  /\ ModelsOf(op) \subseteq call[c].staged
  /\ op.op \in Deletes => call[c].request.allow_deletes
  /\ op.op = "node_create" => ~op.ref \/ call[c].ref = None
  /\ op.op = "edge_create" => None \notin {op.from, op.to}

\* Mutant: the second endpoint is not looked up.
LookupsFromOnly(op) ==
  CASE op.op \in {"define", "node_create"} -> <<>>
    [] op.op = "edge_create" -> <<[id |-> op.from, model |-> FromModel[op.model]]>>
    [] OTHER -> <<[id |-> op.id, model |-> op.model]>>

\* validate_endpoint, find_edge: what is looked up first, a statement each
Lookups(op) ==
  CASE op.op \in {"define", "node_create"} -> <<>>
    [] op.op = "edge_create" -> <<[id |-> op.from, model |-> FromModel[op.model]],
                                  [id |-> op.to, model |-> ToModel[op.model]]>>
    [] OTHER -> <<[id |-> op.id, model |-> op.model]>>

ModelAt(g, id) ==
  IF id \in NodeIds THEN g.nodes[id] ELSE IF g.rels[id] = None THEN None ELSE g.rels[id].model

Looking(c) ==
  Running(c) /\ Op(c).op # "define" /\ Ready(c, Op(c)) /\ call[c].checked < Len(Lookups(Op(c)))
Writing(c) ==
  Running(c) /\ Op(c).op # "define" /\ Ready(c, Op(c)) /\ call[c].checked = Len(Lookups(Op(c)))

Check(c) ==
  /\ Looking(c)
  /\ LET l == Lookups(Op(c))[call[c].checked + 1] IN ModelAt(View(c), l.id) = l.model
  /\ call' = [call EXCEPT ![c].checked = @ + 1]
  /\ UNCHANGED <<up, schema, holder, fileVars, neo4jVars, unsaved>>

\* schema_define_node, schema_define_edge in a batch
Stage(c) ==
  /\ Running(c) /\ Op(c).op = "define"
  /\ Registrable(call[c].staged, Op(c).model)
  /\ call' = [call EXCEPT ![c].staged = @ \cup {Op(c).model}, ![c].next = @ + 1]
  /\ UNCHANGED <<up, schema, holder, fileVars, neo4jVars, unsaved>>

\* create_node, update_node, delete_node, create_relationship, update_relationship,
\* delete_relationship: a statement waits for those who hold what it writes.  A
\* delete that matches nothing is no error.
Write(c) ==
  /\ Writing(c)
  /\ \E id \in IF Op(c).op = "node_create" THEN Free \cap NodeIds
               ELSE IF Op(c).op = "edge_create" THEN Free \cap RelIds ELSE {None} :
       LET w == Statement(View(c), Op(c), id)
       IN  /\ Matches(View(c), Op(c)) \/ Op(c).op \in Deletes
           /\ Unlocked(c, w)
           /\ call' = [call EXCEPT ![c].tx = Then(@, w),
                                   ![c].next = @ + 1, ![c].checked = 0,
                                   ![c].ref = IF Op(c).op = "node_create" /\ Op(c).ref THEN id ELSE @]
  /\ UNCHANGED <<up, schema, holder, fileVars, neo4jVars, unsaved>>

\* What an operation or its statement refuses.
Refused(c) ==
  \/ Op(c).op = "define" /\ ~Registrable(call[c].staged, Op(c).model)
  \/ Op(c).op # "define" /\ ~Ready(c, Op(c))
  \/ /\ Looking(c)
     /\ LET l == Lookups(Op(c))[call[c].checked + 1] IN ModelAt(View(c), l.id) # l.model
  \/ Writing(c) /\ Op(c).op \notin Deletes /\ ~Matches(View(c), Op(c))

\* A refusal rolls the transaction back, and so does an error of a statement.
Rollback(c) ==
  /\ Running(c) /\ Refused(c)
  /\ Answer(c)
  /\ UNCHANGED <<up, schema, fileVars, neo4jVars, unsaved>>

StatementFails(c) ==
  /\ Running(c) /\ "neo4j" \in Faults
  /\ Answer(c)
  /\ UNCHANGED <<up, schema, fileVars, neo4jVars, unsaved>>

Published(c) ==
  /\ graph' = View(c)
  /\ gone' = gone \cup {id \in NodeIds \cup RelIds :
                          /\ ModelAt(View(c), id) = None
                          /\ ModelAt(graph, id) # None \/ id \in call[c].tx.made}

Commit(c) ==
  /\ call[c].phase = "tx" /\ call[c].next > Len(call[c].request.ops)
  /\ Published(c)
  /\ IF call[c].request.tool = "single" THEN Answer(c)
     ELSE call' = [call EXCEPT ![c].phase = "install", ![c].tx = NoWrites] /\ UNCHANGED holder
  /\ UNCHANGED <<up, schema, fileVars, unsaved>>

\* The commit may have been carried out when its answer is lost.
CommitFails(c) ==
  /\ call[c].phase = "tx" /\ call[c].next > Len(call[c].request.ops)
  /\ "neo4j" \in Faults
  /\ Published(c) \/ UNCHANGED neo4jVars
  /\ Answer(c)
  /\ UNCHANGED <<up, schema, fileVars, unsaved>>

\* neo4j_batch: the staged state replaces the state, and its models are appended
Install(c) ==
  /\ call[c].phase = "install" /\ holder["state"] = None
  /\ schema' = call[c].staged
  /\ AppendLines(call[c].request.ops)
  /\ Answer(c)
  /\ UNCHANGED <<up, neo4jVars>>

\* The file when the process ends while call c appends or checkpoints.
Interrupted(c) ==
  LET ops == call[c].request.ops IN
  \/ /\ \/ Entered(c, {"define"}) /\ Registrable(schema, ops[1].model)
        \/ call[c].phase = "install" /\ holder["state"] = None
     /\ \E x \in Stops(ops) :
          log' = Written(ops, x[1], x[2]).log /\ tail' = Written(ops, x[1], x[2]).tail
     /\ UNCHANGED base
  \/ /\ Entered(c, {"checkpoint"})
     /\ base' = schema
     /\ UNCHANGED <<log, tail>>

Crash ==
  /\ up
  /\ up' = FALSE
  /\ schema' = {} /\ holder' = [m \in Mutexes |-> None] /\ call' = [c \in Calls |-> Idle]
  /\ unsaved' = {}
  /\ UNCHANGED fileVars \/ \E c \in Calls : Interrupted(c)
  /\ UNCHANGED neo4jVars

\* The steps of a call that does not fail, and the failures of Neo4j.
Proceed(c) ==
  \/ Acquire(c) \/ Define(c) \/ Checkpoint(c) \/ Snapshot(c) \/ RefuseNonAtomic(c)
  \/ Check(c) \/ Stage(c) \/ Write(c) \/ Rollback(c) \/ Commit(c) \/ Install(c)
Fail(c) == StatementFails(c) \/ CommitFails(c)

Next ==
  \/ Start \/ StartFails \/ Crash
  \/ \E c \in Calls : Receive(c) \/ Proceed(c) \/ Fail(c)

\* The mutexes are tokio's, first come first served, and Neo4j serves those who
\* wait for a lock: a call that can go on again and again does go on.  That a
\* statement or a commit fails is never relied on.
Spec == Init /\ [][Next]_vars /\ WF_vars(Start) /\ \A c \in Calls : SF_vars(Proceed(c))

-----------------------------------------------------------------------------
\* The recoverable schema only grows as long as the log can be read, and the one in
\* memory grows while the server runs, whatever became of the log: a batch that
\* replaces the state with the copy it staged before its transaction never takes a
\* definition back that another call made meanwhile (neo4j_batch, tools.rs).
SchemaNeverLost ==
  [][/\ base # None /\ tail' # "broken" => Recovered \subseteq base' \cup log'
     /\ up /\ up' => schema \subseteq schema']_vars

\* As long as the log can be read, what a restart reads back is the schema that the
\* running server works with, up to the models whose append was answered with an
\* error: no model that a success answered is missing, none comes back that was
\* never defined.  The log can be read as long as no append followed a torn line.
RecoverableSchema ==
  up /\ tail # "broken" => Recovered \subseteq schema /\ schema \subseteq Recovered \cup unsaved

\* Every relationship in Neo4j joins two nodes that are there, of the models its own
\* model joins, although the endpoints are looked up in statements before the one
\* that creates it and other transactions write meanwhile: only an end that was
\* deleted and whose id Neo4j handed out again may be of another model.
EdgesJoinTheirModels == Joined(graph, gone)

\* The same, of those ends too.
EdgesAlwaysJoinTheirModels == Joined(graph, {})

\* A definition that was answered with success can be loaded again: the log that it
\* was appended to can be read.
DefinitionsLoadable == up => tail # "broken"

\* Every call is answered or ends with the server, also when neither a statement nor
\* a commit ever fails: no order in which calls take the two mutexes and Neo4j's
\* locks leaves them waiting for each other.
CallsAreAnswered == \A c \in Calls : call[c] # Idle ~> call[c] = Idle
=============================================================================
