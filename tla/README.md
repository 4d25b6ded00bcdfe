# A verification project for grm-rs

grm-rs is a graph-relational mapper: a typed graph API over pluggable backends,
a runtime session with its own schema and query language, durable local
workspaces, a gRPC service around them, and clients (CLI, MCP, Python, a web
user interface).  This directory holds TLA+ models of the parts where the
program keeps state, model-checking configurations for TLC, and theorems that
TLAPS checks.

All paths below are relative to the repository root.

## 1. The system

| Part | State | Operations |
|---|---|---|
| Graph store (`src/backend/graphstore.rs`, `persisted.rs`) | node and relationship tables, id counters, eight indexes, a dirty flag | insert, remove, rebuild, save and load, indexed reads |
| In-memory transactions (`src/backend/inmemory/`) | the shared store behind a mutex; per transaction a delta of written and deleted entries | create, update, delete, read through the delta, commit, rollback |
| Session state (`src/runtime/session.rs`, `catalog.rs`) | schema catalog, client over the in-memory backend | define models, node and edge CRUD, find, traverse, snapshot, restore |
| Batches (`src/runtime/batch.rs`) | a snapshot, the refs bound so far, the durable operations so far | atomic and best-effort batches |
| Workspace (`src/runtime/workspace.rs`, `durability.rs`, `fsutil.rs`) | session state, autocommit target with `pending_entries`; files: checkpoint, backup, append log | create, open, execute, save, interval checkpoint, recovery |
| Workspace service (`grm-service-api/src/lib.rs`) | handles, loaded workspaces, live paths, snapshots | create, open, execute, close, save snapshot |
| gRPC service and security (`grm-service-api/src/lib.rs`) | principals, permission table, bounded audit sink | authorize, audit, execute, respond |
| Audit store (`grm-service-api/src/audit_store.rs`) | log and metadata files, reserved and accepted ids, retained records, a health flag | open, reserve, append, prune, compact, recover |
| CLI session (`src/runtime/session.rs`, second half; `grm-cli/src/main.rs`) | session state, bindings, script transaction, autocommit target | commands, `tx begin`/`tx commit`, save, load |
| Queries (`src/runtime/session.rs`, `src/backend/plan.rs`, `inmemory/inmemorytx.rs`) | none | find, traverse, order, page, explain, profile |
| Typed values (`src/runtime/value.rs`) | none | parse, canonicalize, validate, compare |
| Wire conversions and remote client (`grm-service-api/src/lib.rs`) | a channel | encode and decode requests and responses |
| MCP server in Neo4j mode (`grm-mcp/src/`, `src/runtime/neo4j.rs`, `src/backend/neo4j.rs`) | runtime schema, its memory file and log, two mutexes; the graph is in Neo4j | define, checkpoint, single writes, batches |
| Typed repositories, macros, Cypher generation, Python, gateway, web UI | adapters | |

How they interact.  A client request reaches a workspace through the service,
which serializes the requests of one process with a mutex.  The workspace hands
it to the session state; each mutation opens a backend transaction, writes once
and commits; what it reports back is a list of durable operations.  The
workspace appends them as one line to the log, syncs, and after eight lines
writes the whole graph to the checkpoint, then to the backup, and removes the
log.  Opening a workspace reads the checkpoint (or the backup, if the checkpoint
cannot be parsed), replays the log and checkpoints again.  Library users may
also open several backend transactions at once; they share the store.  Around
each request the secured service writes audit records: it takes a request id,
checks audit health, appends records before the effect (any failure refuses the
request) and after it (a failure degrades the service until a probe recovers the
audit store).  Handlers run concurrently; only the store's mutex and, around the
effect, the service's mutex serialize them.  A remote client's request is
converted twice on its side, twice on the service's, and its response once on
each.  The CLI session works on a graph of its own and writes to at most one
autocommit target.  The MCP server in Neo4j mode keeps only the schema; its calls
run concurrently, each with a Neo4j transaction, under two mutexes.

What is hard.  A crash or a failed call between any two file operations; a log
replayed over a checkpoint that already contains it; memory that runs ahead of
the log when an append fails; ids that must not be given out twice although
both the batch rollback and the load rebuild the counters; transactions whose
reads, id allocations and commits interleave; caches that are stale on purpose;
audit records of concurrent handlers, whose ids, appends and health checks are
separate steps; many handles on one loaded workspace; permissions checked against
a name that may change its meaning; values whose spelling, wire form and order
must agree; copies of the schema that are installed after a transaction.
`PROJECT.json` lists each hazard at its line.

## 2. Modules

| Module | Models | Role |
|---|---|---|
| `Graph` | the durable data and every mutation of it | operators shared by the others |
| `GraphProofs` | | lemmas about `Graph`: what a mutation and a replayed record keep, and induction |
| `Workspace` | one autocommit workspace and its three files | state machine, crashes, faults |
| `DurableGraph` | what a durable workspace promises | abstract specification |
| `WorkspaceProofs` | | theorems about `Workspace`: under all faults, exact recovery, the refinement to `DurableGraph` |
| `GraphStore` | the indexes of the store | state machine |
| `GraphStoreProofs` | | theorems about `GraphStore` |
| `InMemoryTx` | concurrent backend transactions | state machine |
| `AuditStore` | the audit store and the handlers that write to it | state machine, crashes, faults |
| `AuditStoreProofs` | | theorems about `AuditStore` |
| `Registry` | handles, loaded workspaces, refs and files of a service process | state machine, restarts |
| `Policy` | classification, permission table, certificates | operators |
| `Service` | concurrent gRPC handlers over `Registry` and `Policy` | composition |
| `ServiceProofs` | | theorems about `Registry` and `Service` |
| `Values` | typed values: canonical forms, validation, order | operators |
| `Query` | finds, traversals, explain and profile over `Values` | state machine with a reference evaluation |
| `Wire` | the conversions of requests and responses | operators |
| `RemoteCall` | client, wire, dispatcher, batches and back | composition, lost messages |
| `RemoteCallProofs` | | theorems about `RemoteCall` and the conversions of `Wire` |
| `CliSession` | the command session over `Graph` | state machine, failing files |
| `SessionProofs` | | theorems about `CliSession` and `InMemoryTx` |
| `McpNeo4j` | the MCP tools in Neo4j mode and their transactions | state machine, crashes, faults, liveness |
| `McpNeo4jProofs` | | theorems about `McpNeo4j` |
| `MC...` | | instances for TLC |

### Graph

A graph is a record: the registered models, the node table, the relationship
table and the two id counters.  A property map is one abstract value.  The
mutations of `SessionState` are sets of outcomes: the graph after a valid
request and the durable operation it reports.  An invalid request changes
nothing and reports nothing; its effect on a batch is an action of `Workspace`.
`ApplyEntry` is `apply_session_log_entry`: it shares the table updates with the
mutations but not their guards, which is where replay and execution can differ
(`remove_node` of an absent node leaves relationships alone).

### Workspace

One action per step that can be separated from the next by a crash:

| Action | Code |
|---|---|
| `Create`, `Open`, `Replay`, `Loaded` | `create_workspace`, `open_autocommit`, the loop of `apply_session_log`, `enable_autocommit` |
| `Begin`, `Apply`, `RejectAtomic`, `Finish` | `execute_runtime`, `apply_session_batch`; a single mutation is a batch of one |
| `AppendOperation`, `AppendFails`, `SyncFails`, `AppendTears` | `append_operation` and its possible failures, `persist_autocommit_ops` |
| `WritePrimary`, `WriteBackup`, `ClearLog` and their `...Fails` | `save_to_json` / `save_to_binary` |
| `Save` | `Workspace::save`, `Workspace::checkpoint` to the workspace's own path |
| `Close`, `Crash`, `CrashInAppend`, `Damage` | the process ends; the medium loses the checkpoint |

The history variables `committed`, `expect` and `issued` say what a restart owes
the clients: the graph of the last durable request, for each node the contents
it may come back with (one, unless requests on it reported errors), and the ids
that were durably handed out.  No action reads them.

A crash is a crash of the process: bytes that were written are not lost and
renames are not undone.  Power failure, where `sync_all` and the directory sync
matter, is outside the model.

### GraphStore

An index is the set of its key-id pairs.  Values are abstract; `Class` is
equality as a filter sees it and `ValueKey` the key the index uses, so that the
two can disagree, as they do for 0.0 and -0.0.  `QueriesMatchScan` says what that
disagreement costs and no more: an indexed read may miss a node whose value equals
the one asked for under another key (`KeyedApart`), and is otherwise a scan.

### InMemoryTx

The store, and per transaction its delta.  Each action is one critical section
of the store's mutex; `delete_node` has two.  `working_copy` is not modelled: the
only code that fills it runs where it is filled already.

### AuditStore

The metadata file, the complete lines of the log and whether an unterminated or
an unparsable line is among them; the state of the open store; the service's
`audit_degraded` flag; and for every handler where it is.  One action per critical
section, and within `append`, which a crash can cut, one per file operation:

| Action | Code |
|---|---|
| `Initialize`, `InitializeFails`, `Reopen` | `open_with_instrumentation` |
| `StartRequest`, `Name`, `ReserveFails` | `allocate_request_id`, `allocate_event_identity` |
| `Admit`, `Probe`, `ProbeFails`, `Clear` | `ensure_mandatory_audit_available`: read the flag, `try_recover`, clear the flag |
| `WriteRecord`, `Compact`, `Accept` and their failures | `append` |
| `LoseRecord`, `Degrade` | what a failed record means before and after the effect |
| `Effect`, `Done` | the runtime call of the handler, its return |

An event id and a service sequence are always taken together and stand for each
other.  Sizes are counted in lines of the maximum length of a record: `Physical` is
the file's size, which `read_records` checks against `max_bytes` and one line more.
Retention by age is a free choice of how many old records go.  The checks of a single
record's fields and the generation id are left out: the store reads back records
that it wrote itself, so only a line that is not a record fails them (`malformed`).
`issued` and `acked` are history variables.  The best-effort mode of the unsecured
profiles, which swallows errors, is not modelled.

### Registry

The registry of `InProcessWorkspaceService`.  A graph is the set of writes applied
to it.  A file is the set of writes a load gives back and the way its log ends:
clean, torn after part of a line, or broken by an append that continued such a
part; how one write reaches a file is `Workspace`.  `CreateInMemory`, `CreateLocal`,
`OpenLive`, `OpenLoad`, `OpenSnapshot`, the `Execute...` actions, `Close` and
`SaveSnapshot` are the operations, each with its failures: `ExecuteAppendFails` leaves
the whole line, part of it or nothing.  `SetLocalWorkspaceRoot` changes the root at
any time, also while workspaces of another root are loaded; a path is a root, a ref
and a format.  `Restart` loses memory.  `acked` and `issued` are history.

### Policy and Service

`Policy` has `security_operations` and its helpers, `PermissionTablePolicy` and the
certificate authenticator as operators over records.  A classification is a set of
entries: an operation and the traversal it comes from, 0 for the request itself, so
that its size is what the code counts against its bound.  `Service` runs handlers over
them: `Receive`, `Identify`, `Malformed`, `Lock`, `Authorize`, `Admit`, an effect that is an
action of `Registry`, and `Report`.  A handler takes the service mutex where the
code does: the name of a handle is read, checked and used inside it.  Each record
is accepted or not by choice; `AuditStore` is about why.  The degradation flag is an
atomic of its own that no lock protects, and each access is a step: the load
(`Check`), the probe (`Probe`, `ProbeFails`), the store of false (`Clear`), the failed
append (`Lose`) and the store of true (`Degrade`).  `Undelivered` is a response that
does not convert: the effect stays, the client gets an error, and no outcome is
recorded.  `lost`, `blind` and `trail` are history: the flag was raised and no probe
has found the sink healthy since; a request admitted then; the records accepted.

### Values and Query

A text is its scanned form, so that canonical spelling, trailing zeros, offsets,
leap seconds and malformed text are told apart without strings.  `Query` builds
any graph within its bounds, asks a query, and keeps question and answer; the
properties compare the answer with an evaluation by meaning (`Meaning`, `PathsReturn`)
that shares nothing with the code's path.  An id in a query is any value whose text
parses as an integer (`IdOf`): a number, a text, a decimal without a point, bytes that
are digits.  Candidates are scans: that an index gives what a scan gives is `GraphStore`.

### Wire and RemoteCall

An operator with a direction stands for a pair of conversions; fields that both
sides copy are copied by `EXCEPT`.  `RemoteCall` composes client, conversions and
the dispatcher: `Execute` is a request for one of the eight changes of models, nodes
and edges (`Apply`), `ApplyBatch` goes through the same changes operation by operation
with its refs, `FindNodes`, `FindEdges`, `List`, `Summary`, `Explain` and `Profile` read,
and `Lose` drops a request or a response.  Which rows a find selects and what a plan
says is left open; `Query` is about that.  Messages of other clients, which need not
be what the helpers send, go through the decoders too.  `written` is history: what
the writer of each node and edge meant.

`AnswersArriveIntact` compares what the helper returns with `Local`, the value the
runtime itself returned.  It excepts one field of one answer: for an empty batch
the runtime says that it should be persisted and the client that it should not
(section 4).

### CliSession

One action per command that changes something, at the prompt and in a script,
where an error ends the script and rolls an open transaction back.  A file is its
base, its log and whether the log can be read.  `behind` (history) says why the
target may lag behind memory: a reported error, the wizard's first instance, a
transaction rolled back after it had been saved.

### McpNeo4j

A call is what it was asked, the mutexes it still has to take, its copy of the
schema, how far it is and what its transaction wrote.  `Acquire`, `Define`,
`Checkpoint`, `Snapshot`, `Check` (one lookup), `Stage`, `Write` (one statement),
`Rollback`, `Commit`, `Install` are separated by the points where the code waits.
Neo4j is external: a transaction reads what is committed and what it wrote, holds
what it writes until it ends, and gets ids of Neo4j's choice, with `"reuse"` also
those of deleted nodes.  The schema memory file is a base and a log with the way it
ends.  `Crash` may cut an append inside a line, and `Start` recovers without a
checkpoint (`server.rs:533`), so the torn line stays and the next append makes the
log unreadable (`tail = "broken"`); from then on `StartFails`.  The tools without
`GRM_SCHEMA_TEMPLATE` append nothing and survive nothing; the model has the file.

## 3. Runs

| Run | Bounds | Shows |
|---|---|---|
| `workspace_crash` | 2 nodes, 1 relationship, 2 values, interval 2, batches of 2, `MaxLog` 1 | recovery after crashes and a damaged primary is exact up to dangling relationships; ids are not reissued; the workspace implements `DurableGraph`; logs are compacted |
| `workspace_faults` | 1 node id, 2 values, batches of 2, a log of 3 lines, interval 2; failing calls, damaged files and torn lines together | node recovery with failing file system calls; the invariant of the proof. Deadlock is not checked: after a torn line the log may stay unreadable, and every later open is refused |
| `graph_store` | 2 nodes, 2 relationships, 2 labels, 2 types, 0.0 and -0.0 among the values | indexes and tables agree, indexed reads and scans do up to `KeyedApart` |
| `tx_concurrent` | 2 transactions, 2 nodes, 1 relationship, 2 values | isolation of concurrent transactions |
| `audit_ids` | 2 handlers, ranges of 2, ids to 4, 2 retained records, failing and torn writes | no id is given out twice, recorded ids stay within the reservation, accepted records stay |
| `registry` | 2 handles, 2 roots, 2 refs, 2 formats, 2 files, 2 writes, 1 snapshot | no acknowledged write is lost from a readable log, no file loaded twice, no ref ambiguous |
| `service` | 2 handlers, 2 handles, 1 ref, 3 principals, classification bound 3 | effects are granted and recorded, refusals change nothing |
| `service_flag` | the same | a violation: the ninth finding of section 4 |
| `query` | 3 nodes, 2 relationships, 2 node and 3 relationship models, one integer, decimal, instant and duration field | finds and traversals against the reference evaluation, explain and profile |
| `remote_call` | 2 nodes, 1 edge, a model with four kinds of field, an edge model, requests of every type | requests and answers arrive as meant |
| `cli_session` | 1 node, 2 files, 1 name, interval 2, logs of 2 | the autocommit target follows memory; names stay right |
| `mcp_neo4j` | 2 calls, 3 nodes, 1 relationship, 2 node models and 1 relationship model, batches to 4 operations | the schema is neither lost nor forgotten, relationships fit their model, no call waits for ever |

Why the bounds are enough.  Recovery goes wrong when a record is replayed in the
wrong place: that takes one id that is created, updated and deleted, a second
one to reuse or to connect to, a log that holds records from before and after a
checkpoint (interval 2 and batches of 2), and two values to tell an old from a
new state.  The interval is 8 in the code; nothing but the comparison depends on
it and the theorems hold for every interval.  For the audit store, a range of 2
is exhausted and reserved again, and given up by a crash or a probe, within 4
ids; two retained records make every third append compact.  Its run does
not check for deadlock: a store whose metadata or log cannot be read stays shut,
and the bound on ids ends a behaviour.  Handlers are interchangeable, so the runs
with two of them use symmetry.

For the registry, two handles are the least that can share a workspace, load a file
twice or keep a workspace of one root while the other is set; `ServiceProofs` covers
any number.  Two handlers are enough for a handle that is closed and drawn again
under a waiting request, and for the race of the ninth finding.
The properties of `query` are about one answer at a time: three nodes and two
relationships have every self loop, parallel pair and path of two.  `mcp_neo4j`
starts with one model defined and without a file, so that a batch that defines two
fails between their lines and a crash tears one of them.

Fairness.  `FairSpec` assumes weak fairness of the steps a process takes on its
own once a call is in hand.  The code runs them in a straight line inside one
call, without waiting for anything else.  Nothing is assumed of clients, crashes
or failures.  `McpNeo4j` assumes strong fairness of a call's steps: tokio's mutexes
are first come first served, Neo4j grants a lock to those who wait, and no call
holds either for ever.  `Proceed`, the steps it is assumed of, has the refusals of the
code (`Rollback` of an operation that `Refused` says the code refuses) and no failure
of Neo4j: `StatementFails` and `CommitFails` may happen and need not, so no call is
answered because Neo4j was assumed to fail.  The counterexample with a swapped lock
order is a real deadlock.

Every property of every passing run has a mutant, an operator next to the definition it
replaces that carries a plausible bug; with it TLC finds the property violated.

## 4. Findings

Each is reproduced by a configuration whose property TLC finds violated
(`tlc -config X.cfg M`); the ninth is a run, the others are kept next to the runs.

1. `MCWorkspaceReplay.cfg` (`RecoveredExactly`, `src/runtime/session.rs:5585`):
   `apply_session_log` replays every record of the log, those the checkpoint already
   contains too, where `docs/local-durability-target.md:60` says "replays any complete
   append-log records after that checkpoint".  A relationship created and then lost
   with its node comes back without the node.
2. `MCWorkspaceTorn.cfg` (`AckedWritesLoadable`, `src/runtime/durability.rs:34`): after a
   partly written record the next append completes the line; the request succeeds
   and the log can no longer be loaded, against `docs/local-durability-target.md:23`.
3. `MCInMemoryTxDelete.cfg` (`OwnDeletesVisible`, `src/backend/inmemory/graphtx.rs:115`):
   update and then delete of a node in one transaction loses the deletion;
   `tests/backend_contracts.rs:200` expects a deleted node not to be found.
4. `MCAuditStoreConcurrent.cfg` (`AlwaysReadable`, `grm-service-api/src/audit_store.rs:323`):
   event ids are taken and records appended in separate critical sections; two
   handlers that overlap leave a log whose ids do not increase, which the next open
   and every probe reject.
5. `MCQueryRoots.cfg` (`RootsPassFilters`, `src/backend/inmemory/inmemorytx.rs:107`):
   bindings are made unique by what is returned before ends and edges are filtered.
   A root whose first path fails the filter is dropped although another passes;
   `docs/query-language-design.md:103` promises roots "after traversal filtering".
6. `MCServiceReport.cfg` (`NotCommittedIsTrue`, `grm-service-api/src/lib.rs:3881`): a write
   that reached its log and failed in the checkpoint after it is audited as
   `NotCommitted`, against `docs/security/security-audit.md:147`.
7. `MCCliWizard.cfg` (`EditsReachTarget`, `src/runtime/session.rs:5454`, `:5516`): the first
   instance a wizard creates is not written to the autocommit target, where
   `docs/tutorials/cli-session.md:274` says that "successful schema changes and data
   mutations are written to the autocommit target".
8. `MCMcpNeo4jReuse.cfg` (`EdgesAlwaysJoinTheirModels`, `src/runtime/neo4j.rs:438`): endpoints are
   looked up before the statement that joins them.  When Neo4j hands out the id of a
   node deleted in between, the relationship joins a node of another model.
9. `MCServiceFlag.cfg` (`NoBlindAdmission`, `grm-service-api/src/lib.rs:2963`): a handler
   that found the flag set probes the sink and clears the flag in a step of its own.
   Another that loses the record of its outcome and raises the flag in between is
   overwritten, and the next request is admitted although no probe has found the
   sink healthy since, where `docs/security/security-audit.md:199` says that the service
   "blocks subsequent secured effects until the authoritative sink reports healthy
   again".

Seen while modelling, without a configuration of their own: ordering predicates on
the root of a traversal match nothing for values that are not numbers
(`inmemorytx.rs:39`); explain reports a property seek where the executor scans the
label (`session.rs:2173`, `:1656`); bytes are ordered by their base64 text; a leap
second or a year that leaves the range in UTC parses to a value that validation
refuses (`value.rs:206`); a date-time with an offset is accepted through the service
and refused locally; `session.load` with an unreadable log has replaced the graph
when it reports the error (`session.rs:877`); save, compact or autocommit inside a
transaction write uncommitted state; a definition whose append to the schema memory
file fails stays usable in Neo4j mode, cannot be defined again, and is gone after a
restart unless a checkpoint follows, and a crash between a batch's commit and its
append leaves data whose model is unknown; for an empty batch the runtime returns
`should_persist` true (`batch.rs:294`) and the client, which derives it from the counts,
false (`lib.rs:7734`, `:8333`).  A line of the schema memory log that a crash tore
survives the restart (`server.rs:533`), and the next definition that is answered with
success continues it into a line that no start can read (`durability.rs:78`):
`DefinitionsLoadable` of `McpNeo4j`, which fails when it is made an invariant of
`MCMcpNeo4j.cfg`.

What the properties that hold leave out, each for what the code does there:

* A log with a torn line that the process lives to continue cannot be loaded.
  `NoLostUpdate`, `RecoverableSchema`, `SchemaNeverLost` and `AckedRetained` except such a
  log and nothing else: what is in memory, in other files and in the same file until
  then is covered, and a checkpoint or compaction ends the exception.
* `QueriesMatchScan` excepts nodes that equal the value asked for under another key.
* `EdgesJoinTheirModels` excepts the model, not the presence, of an end whose id Neo4j
  handed out again.
* Audit health is checked once, at the start of a handler; an effect can follow after
  another handler degraded it.  No property says otherwise: what
  `docs/security/security-audit.md:199` asks is about requests that start later, which is
  `NoBlindAdmission`.

## 5. Proofs

Every theorem holds for all values of the constants: any number of ids, values,
models, handlers, transactions, handles and calls, any interval, range, batch and
log bound and, unless a hypothesis says otherwise, any set of faults.

### Hypotheses

Beside the named assumptions of the modules (bounds are naturals, the endpoints of
a relationship model are node models, markers for absent entries and files are not
values; `RequestAssumption` and `CallsAssumption`: requests have the shape the code's
types give them; `RequestsAssumption`: the requests that the remote helpers build have
the fields and enum variants of their structs, and `NothingAssumption`: a field that
is not set is no enum code; `GraphsAssumption`: the relationships that Neo4j holds when the
server starts join their models), three theorems of `WorkspaceProofs` have the hypothesis
`NoIOErrors`, which the instance of `workspace_crash` meets: no file system call of a live
process fails; crashes, also inside an append, and a damaged checkpoint are allowed.
Without it memory runs ahead of the files and either may survive; what holds then is
`NodesAreRecovered`.

### Workspace

`WorkspaceProofs`, under all faults:

* `TypeCorrect`: the state stays well formed.
* `RecoveryInvariant`: `RecoveryInv`, which is inductive together with `TypeOK`.
  `NodesRecovered` alone speaks of one moment, the end of a load.  What makes it
  true is a fact about the files at all times (`FileInv`): the last record about
  a node is right, and where the log has no record about a node both checkpoints
  are.  Replay then gives the right node from either checkpoint, however much of
  the log it already contains.  `MemoryInv`, `RequestInv`, `CheckpointInv` and
  `LoadInv` carry that fact through requests, checkpoints and loads.
* `NodesAreRecovered`: the property itself.
* `IssuedIdsStayIssued`: `IssuedInv` says where an id that was durably given out can
  be seen: both checkpoints are past it, or a record of the log is, so that the
  replay raises the counter past it before the first request.

Also there, under `NoIOErrors`:

* `LoadsAreExact`, `AttachmentsAreDeliberate`: `ExactInv` says of every graph a load
  may start from or be in the middle of that replaying the rest of the log leads to
  the committed graph (`LeadsTo`).  Since the log may be replayed over a checkpoint
  that contains it, the two graphs agree only up to relationships without both
  ends; `LeadsTo` keeps track of those and of the counters, which shows that no
  dangling relationship names an id that is still to be issued.
* `WorkspaceIsDurable`: seen through `Live`, which leaves dangling relationships out,
  every step of the workspace is a step of `DurableGraph` or changes nothing there:
  a request takes effect when its line is complete, a crash when the process dies.

### Graph store and transactions

`GraphStoreProofs` proves `IndexesStayExact` by induction on the writes: an index
entry determines the table entry it came from, so removing the entries of the
previous contents removes nothing else.  `QueriesFindWhatAScanFinds` follows from it
for every filter and every state of the property caches: a candidate set that an index
gives is the scan without nodes keyed apart from a filter, whatever `Class` and
`ValueKey` are.

`SessionProofs` proves, of `InMemoryTx`, `CommitsPublishViews`: no id is both written and deleted in
one delta, so the order in which `apply_delta_to` goes through the parts does not
matter.  `WritesStayVisible` needs that what a transaction wrote is still in its
delta.  `IdsStayFresh` is inductive as it stands: an id is taken from the counter of
the shared store when the entry is created, and a commit leaves the counter alone.

### Audit store

`AuditStoreProofs`:

* `ReservationsHold`, `IdsNeverReissued`.  That an id was not given out before says
  nothing about the next step; the invariant adds that the file is never behind
  memory, that the next id is at most one past what memory has reserved, and where
  the ids given out so far lie: below the next one while the store is open, within
  the file's reservation when it is not.  A file that is ahead of memory after a
  failed reservation may be taken back later, and the invariant allows that.
* `AcceptedRecordsStay`: `RetainInv` has accepted records in the file, unless a line
  there is malformed, and, while the store is open, in memory (`RecordsInv`, `LinesInv`),
  which is what a compaction writes; the record that is being accepted is in the file
  already; and only one handler is inside `append` (`AppendInv`).
* `RecordsStayReserved`: what open checks of the ids.  An id in the log or among the
  accepted ones was given out (`KnownInv`), and with `ReservationInv` it is within what
  the file reserves, through failed reservations that the file may be ahead of and
  probes that read it back.

### Registry and service

`ServiceProofs` first proves, of `Registry`, `UpdatesAreNotLost`, `RefsStayUnambiguous` and
`HandlesStayConsistent`.  None of the three properties is inductive: that a close or a
checkpoint loses nothing rests on a file being loaded at most once, which rests on
live paths and loaded workspaces naming each other (`HandleInv`), under every root that
was ever set, and on a loaded graph holding what its file was acknowledged (`FileInv`),
which torn appends and failed checkpoints must not break.  `RegistryInv` is their
conjunction with the type invariant.

Of `Service` it has one invariant, `ServiceInv`: what a handler has established when it
is in a phase (`HandlersInv`: its records, the decision about its request, its
principal, that nothing was refused after an effect), and who holds the mutex
(`LockInv`), without which the subject of a decision could change before the effect.
From it follow `AnswersAreTruthful` and `EffectsAreGranted`.  A step of a handler changes
the registry only by one of its actions, so `ServiceKeepsRegistry` carries the results
about the registry over to concurrent handlers.

### MCP server

`McpNeo4jProofs` proves `SchemaIsRecoverable` and `DefinitionsAreKept` from `McpInv`.  Its
core is in `CallsInv`: from its snapshot on a batch holds `neo4j_schema_write`, and what
it has staged is the schema as it still is with the definitions it has gone through,
so that installing the copy adds those and takes none away.  `FileInv` and `LinesInv`
follow the base and the lines of the log through torn appends, crashes inside them
and restarts that keep them.

`EdgesJoinModels` is about Neo4j's locks.  Its invariant `EdgeInv` says of
each transaction that over the committed graph it leaves relationships that join
their models and that it holds what it writes and both ends of what it joins
(`TxInv`), of two transactions that they hold nothing in common (`HeldApart`), and of a
call between its lookups and its create that what it saw is still so or has been
deleted (`LookupInv`).  `JoinedApart` is the core: transactions that hold nothing in
common may commit one over the other.  The statement of the create finds both ends
or fails, and an end that is there is the one that was looked up unless its id is
among those of deleted nodes, in which case its model is left open.

### Command session

`SessionProofs` also proves, of `CliSession`, `TargetFollows` and `BindingsIssued` from `SessionInv`.

* A load of the target replays its whole log, so the proof needs to know what a
  replay of any length gives.  `GraphProofs` derives induction over the naturals from
  the library's well-foundedness of `<` (`Least`, `Induct`), stated of a set of numbers
  instead of a predicate; `Recovered` is a recursive function, and `RecoveredAppend`
  says that a log with one more line gives the graph of the shorter one with that
  line applied.
* `MutationIsReplay` then says that the line an edit appends does to a graph what the
  edit did in memory.  It needs ids below the counters (`IdsBelow`), which every graph
  a session can hold has: `SoundGraph` goes through edits, loads, imports and replay.
* `TargetFollowsState` speaks of the moments outside a transaction.  `FollowsInv` adds
  what makes it come back after one: the graph that an open transaction would restore
  is the one the target gives back, unless the transaction was saved.  `BoundInv` adds
  to `BindingsAreIssued` the names that a rollback restores, which must be below the
  counter that it restores with them.

### Remote calls

`RemoteCallProofs` proves `RequestsIntact`: what the server decodes of a helper's call is
the request that the caller made, in its normal form, for any set of requests of the
right shape and with messages lost anywhere.

* The lemmas about `Wire` follow each part of a request through the four conversions
  (client to wire and back, on both sides): an enum code decodes to the variant it was
  made from, a value is parsed to its canonical spelling and stays there, a property
  map comes back from the list it was sent as, in whatever order `SetToSeq` put it,
  endpoints keep which alternative they are, and an operation of a batch keeps its keyword.
* The conversions dispatch on the type of the message.  `ServiceByType` and `ProtoByType`
  pick the one that applies, from the typing predicates of `RemoteCall` (`RequestTyped`
  and the predicates it is made of), and each is shown to keep the type and the fields
  that it does not convert.  `ArrivedIsNormal` puts the four together.
* `RequestsArriveIntact` only speaks of a server that has decoded.  `CallInv` adds that the
  message of a helper call under way is the encoding of one of the requests, which is
  what a step of the server needs.

### Only model-checked

* All liveness: fairness and `ENABLED` are outside the prover's reach.
* Everything about `Query`: its properties compare whole answers with a reference
  evaluation through sorting and folds over digits, which need induction over data.
* Of `RemoteCall`, `RefusalsAreJustified`, `AnswersArriveIntact` and `ReadsReturnWrites`.
  They depend on a converted message never being the mark `Refused` of a failed
  conversion.  `Refused` is a constant of the model, in the runs a model value that TLC
  knows to differ from every record; for the proofs that would have to be an assumption
  about every converted message, and there is no finite set of those for TLC to evaluate.

## 6. Not modelled, and the plan

Next, in this order:

1. The gateway's snapshot (`grm-flight-deck-gateway/src/main.rs`, `collect_snapshot`),
   which reads a workspace with several calls while others write, and closes its
   handle unless the HTTP request is dropped before.
2. `InMemoryTx` and `Query` together: pattern queries over an uncommitted overlay.

Left out: Cypher generation and the typed DSL (text for an external server, and
builders), typed repositories and macros (stateless wrappers and code generation),
Python bindings (adapters over the session and the service), the gateway and the
web user interface, transport and TLS set-up, command parsing and rendering, and
the finds of the Neo4j backend, which only read.  The MCP server's in-memory mode
does under one mutex what `Workspace` and `RemoteCall` model, and its service mode
forwards to the client of `RemoteCall`.
