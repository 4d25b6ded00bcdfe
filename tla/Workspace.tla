------------------------------ MODULE Workspace ------------------------------
(***************************************************************************)
(* One autocommit workspace and its files: the checkpoint (primary), the   *)
(* backup checkpoint and the append log.                                   *)
(*                                                                         *)
(* A request is executed against the graph in memory, the durable          *)
(* operations it returns are appended to the log as one line and synced,   *)
(* and after CheckpointInterval lines the graph is written to primary,     *)
(* then to backup, and the log is removed.  Opening a workspace loads a    *)
(* checkpoint, replays the log over it and checkpoints again.  The process *)
(* may crash between any two of these steps, and any of the file system    *)
(* calls may fail while the process lives on.                              *)
(*                                                                         *)
(* The log is the sequence of the durable operations of its complete       *)
(* lines; torn says that an unterminated line follows them, malformed that *)
(* a terminated line cannot be parsed.                                     *)
(***************************************************************************)
EXTENDS Graph, Sequences, FiniteSets

CONSTANTS
  CheckpointInterval,  \* AUTOCOMMIT_CHECKPOINT_INTERVAL
  MaxBatch,            \* bound on the operations of one request
  MaxLog,              \* bound on the operations in the log when a request starts
  Faults,              \* the file system failures a live process may meet
  NoFile,              \* a checkpoint file that does not exist
  Damaged              \* a checkpoint file that cannot be deserialized

ASSUME WorkspaceAssumption ==
  /\ CheckpointInterval \in Nat \ {0}
  /\ MaxBatch \in Nat /\ MaxLog \in Nat
  /\ Faults \subseteq {"io", "torn", "damage"}
  /\ NoFile # Damaged
  /\ {NoFile, Damaged} \cap GraphState = {}

VARIABLES
  pc,         \* where the process is; "closed" when none holds the workspace
  mem,        \* the graph in memory
  pending,    \* pending_entries: log lines since the last checkpoint
  atomic,     \* the request in hand is an atomic batch
  undo,       \* the snapshot an atomic batch restores when it fails
  ops,        \* the durable operations of the request in hand
  purpose,    \* what the checkpoint in hand is for
  replayed,   \* how many operations of the log the load has applied
  primary, backup,        \* the checkpoint files
  log, torn, malformed,   \* the append log
  reply,      \* what the last request returned
  \* History: what a restart owes the clients.
  committed,  \* the graph as of the last request or checkpoint made durable
  expect,     \* the contents a restart may give each node
  issued      \* the node ids that were handed out durably

memoryVars  == <<mem, pending, atomic, undo, ops, purpose, replayed>>
fileVars    == <<primary, backup, log, torn, malformed>>
historyVars == <<committed, expect, issued>>
vars == <<pc, memoryVars, fileVars, reply, historyVars>>

TypeOK ==
  /\ pc \in {"closed", "load", "idle", "execute", "append", "primary", "backup", "clear"}
  /\ mem \in GraphState
  /\ pending \in 0..CheckpointInterval
  /\ atomic \in BOOLEAN
  /\ undo \in GraphState
  /\ ops \in Seq(DurableOperation)
  /\ purpose \in {"open", "interval", "save"}
  /\ replayed \in IF pc = "load" THEN 0..Len(log) ELSE {0}
  /\ primary \in GraphState \cup {NoFile, Damaged}
  /\ backup \in GraphState \cup {NoFile}
  /\ log \in Seq(DurableOperation)
  /\ torn \in BOOLEAN
  /\ malformed \in BOOLEAN
  /\ reply \in {"none", "ok", "err"}
  /\ committed \in GraphState
  /\ expect \in [NodeIds -> SUBSET (StoredNode \cup {Absent})]
  /\ issued \in SUBSET NodeIds

Init ==
  /\ pc = "closed"
  /\ mem = EmptyGraph
  /\ pending = 0
  /\ atomic = FALSE
  /\ undo = EmptyGraph
  /\ ops = << >>
  /\ purpose = "open"
  /\ replayed = 0
  /\ primary = NoFile
  /\ backup = NoFile
  /\ log = << >>
  /\ torn = FALSE
  /\ malformed = FALSE
  /\ reply = "none"
  /\ committed = EmptyGraph
  /\ expect = [k \in NodeIds |-> {Absent}]
  /\ issued = {}

-----------------------------------------------------------------------------
(***************************************************************************)
(* History.  A line that is complete in the log, or a finished checkpoint, *)
(* settles what a restart must give; an operation that only reached the    *)
(* memory adds a possibility.                                              *)
(***************************************************************************)
Touched(k) == \E i \in DOMAIN ops : TouchesNode(ops[i], k)

Upserted(k) == \E i \in DOMAIN ops : ops[i].op = "UpsertNode" /\ ops[i].id = k

Settle ==
  /\ committed' = mem
  /\ expect' = [k \in NodeIds |-> IF Touched(k) THEN {mem.nodes[k]} ELSE expect[k]]
  /\ issued' = issued \cup {k \in NodeIds : Upserted(k)}

Attempt ==
  /\ expect' = [k \in NodeIds |->
                  IF Touched(k) THEN expect[k] \cup {mem.nodes[k]} ELSE expect[k]]
  /\ UNCHANGED <<committed, issued>>

SettleAll ==
  /\ committed' = mem
  /\ expect' = [k \in NodeIds |-> {mem.nodes[k]}]
  /\ issued' = issued \cup {k \in NodeIds : HasNode(mem, k)}

-----------------------------------------------------------------------------
(***************************************************************************)
(* Opening.                                                                *)
(***************************************************************************)
\* create_workspace for a ref without any artifact: an empty graph, then
\* enable_autocommit.
Create ==
  /\ pc = "closed"
  /\ primary = NoFile /\ backup = NoFile /\ log = << >> /\ ~torn /\ ~malformed
  /\ pc' = "primary"
  /\ purpose' = "open"
  /\ mem' = EmptyGraph
  /\ UNCHANGED <<pending, atomic, undo, ops, replayed, fileVars, reply, historyVars>>

\* Mutant: a damaged primary is taken as it is.
LoadSourceNoFallback == primary

\* The checkpoint a load starts from: backup when primary cannot be parsed.
LoadSource == IF primary = Damaged THEN backup ELSE primary

\* load_from_json / load_from_binary.  A missing primary, a missing backup
\* behind a damaged primary and a malformed log line abort the load.
Open ==
  /\ pc = "closed"
  /\ LoadSource # NoFile
  /\ ~malformed
  /\ pc' = "load"
  /\ mem' = LoadSource
  /\ replayed' = 0
  /\ UNCHANGED <<pending, atomic, undo, ops, purpose, fileVars, reply, historyVars>>

\* One round of the loop of apply_session_log.
Replay ==
  /\ pc = "load"
  /\ replayed < Len(log)
  /\ mem' = ApplyEntry(mem, log[replayed + 1])
  /\ replayed' = replayed + 1
  /\ UNCHANGED <<pc, pending, atomic, undo, ops, purpose, fileVars, reply, historyVars>>

\* The load is complete; open_autocommit goes on to enable_autocommit.
Loaded ==
  /\ pc = "load"
  /\ replayed = Len(log)
  /\ pc' = "primary"
  /\ purpose' = "open"
  /\ replayed' = 0
  /\ UNCHANGED <<mem, pending, atomic, undo, ops, fileVars, reply, historyVars>>

-----------------------------------------------------------------------------
(***************************************************************************)
(* Checkpoints: save_to_json / save_to_binary.                             *)
(***************************************************************************)
CheckpointStep(from, to) ==
  /\ pc = from
  /\ pc' = to
  /\ UNCHANGED <<mem, atomic, undo, ops, purpose, replayed>>

WritePrimary ==
  /\ CheckpointStep("primary", "backup")
  /\ primary' = mem
  /\ UNCHANGED <<pending, backup, log, torn, malformed, reply, historyVars>>

\* Mutant: backup is written only when there is none.
WriteBackupOnce ==
  /\ CheckpointStep("backup", "clear")
  /\ backup' = IF backup = NoFile THEN mem ELSE backup
  /\ UNCHANGED <<pending, primary, log, torn, malformed, reply, historyVars>>

WriteBackup ==
  /\ CheckpointStep("backup", "clear")
  /\ backup' = mem
  /\ UNCHANGED <<pending, primary, log, torn, malformed, reply, historyVars>>

RemoveLog ==
  /\ log' = << >>
  /\ torn' = FALSE
  /\ malformed' = FALSE

\* Mutant: a save leaves the log.
ClearLogNotOnSave ==
  /\ pc = "clear"
  /\ pc' = "idle"
  /\ IF purpose = "save" THEN UNCHANGED <<log, torn, malformed>> ELSE RemoveLog
  /\ pending' = IF purpose = "save" THEN pending ELSE 0
  /\ reply' = IF purpose = "open" THEN "none" ELSE "ok"
  /\ SettleAll
  /\ UNCHANGED <<mem, atomic, undo, ops, purpose, replayed, primary, backup>>

\* pending_entries starts over, except after a save that does not go through
\* the autocommit target.
ClearLog ==
  /\ pc = "clear"
  /\ pc' = "idle"
  /\ RemoveLog
  /\ pending' = IF purpose = "save" THEN pending ELSE 0
  /\ reply' = IF purpose = "open" THEN "none" ELSE "ok"
  /\ SettleAll
  /\ UNCHANGED <<mem, atomic, undo, ops, purpose, replayed, primary, backup>>

\* The Workspace value is dropped; only its files remain.
Forget ==
  /\ pc' = "closed"
  /\ mem' = EmptyGraph
  /\ undo' = EmptyGraph
  /\ ops' = << >>
  /\ atomic' = FALSE
  /\ pending' = 0
  /\ purpose' = "open"
  /\ replayed' = 0

\* The error is returned: an open fails, a request or a save reports it and
\* the workspace stays as it is, pending_entries included.
CheckpointError ==
  /\ reply' = "err"
  /\ IF purpose = "open" THEN Forget ELSE pc' = "idle" /\ UNCHANGED memoryVars

\* The write fails, before the rename or in the directory sync after it.
WritePrimaryFails ==
  /\ "io" \in Faults
  /\ pc = "primary"
  /\ primary' \in {primary, mem}
  /\ CheckpointError
  /\ UNCHANGED <<backup, log, torn, malformed, historyVars>>

WriteBackupFails ==
  /\ "io" \in Faults
  /\ pc = "backup"
  /\ backup' \in {backup, mem}
  /\ CheckpointError
  /\ UNCHANGED <<primary, log, torn, malformed, historyVars>>

\* remove_file fails, or the directory sync after it.
ClearLogFails ==
  /\ "io" \in Faults
  /\ pc = "clear"
  /\ CheckpointError
  /\ \/ UNCHANGED <<log, torn, malformed, historyVars>>
     \/ RemoveLog /\ SettleAll
  /\ UNCHANGED <<primary, backup>>

\* Workspace::save / Workspace::checkpoint to the workspace's own path.
Save ==
  /\ pc = "idle"
  /\ pc' = "primary"
  /\ purpose' = "save"
  /\ reply' = "none"
  /\ UNCHANGED <<mem, pending, atomic, undo, ops, replayed, fileVars, historyVars>>

-----------------------------------------------------------------------------
(***************************************************************************)
(* Requests: Workspace::execute_runtime.  A single mutation is a batch of  *)
(* one.                                                                    *)
(***************************************************************************)
Begin ==
  /\ pc = "idle"
  /\ Len(log) <= MaxLog
  /\ pc' = "execute"
  /\ atomic' \in BOOLEAN
  /\ undo' = IF atomic' THEN mem ELSE EmptyGraph
  /\ ops' = << >>
  /\ reply' = "none"
  /\ UNCHANGED <<mem, pending, purpose, replayed, fileVars, historyVars>>

\* apply_batch_op succeeds.
Apply(outcomes) ==
  /\ pc = "execute"
  /\ Len(ops) < MaxBatch
  /\ \E s \in outcomes :
       /\ mem' = s.graph
       /\ ops' = Append(ops, s.durable_op)
  /\ UNCHANGED <<pc, pending, atomic, undo, purpose, replayed, fileVars, reply, historyVars>>

\* Mutant: a failed atomic batch keeps what it has done so far.
RejectAtomicNoRestore ==
  /\ pc = "execute"
  /\ atomic
  /\ ops' = << >>
  /\ pc' = "idle"
  /\ reply' = "ok"
  /\ UNCHANGED <<mem, pending, atomic, undo, purpose, replayed, fileVars, historyVars>>

\* apply_batch_op rejects an operation of an atomic batch: the snapshot comes
\* back and nothing is persisted.  (In any other batch the loop goes on.)
RejectAtomic ==
  /\ pc = "execute"
  /\ atomic
  /\ mem' = undo
  /\ ops' = << >>
  /\ pc' = "idle"
  /\ reply' = "ok"
  /\ UNCHANGED <<pending, atomic, undo, purpose, replayed, fileVars, historyVars>>

\* persist_autocommit_ops returns at once when there is nothing to persist.
Finish ==
  /\ pc = "execute"
  /\ pc' = IF ops = << >> THEN "idle" ELSE "append"
  /\ reply' = IF ops = << >> THEN "ok" ELSE reply
  /\ UNCHANGED <<memoryVars, fileVars, historyVars>>

\* Mutant: only the first operation of a batch is written.
WriteLineFirst ==
  /\ log' = IF torn \/ malformed THEN log ELSE Append(log, Head(ops))
  /\ malformed' = (torn \/ malformed)
  /\ torn' = FALSE

\* The bytes of the line reach the file.  After an unterminated line they
\* complete that line instead of making one of their own.
WriteLine ==
  /\ log' = IF torn \/ malformed THEN log ELSE log \o ops
  /\ malformed' = (torn \/ malformed)
  /\ torn' = FALSE

\* append_operation returns; from the CheckpointInterval-th pending line on, a
\* line is followed by a checkpoint before the request returns.  Only that
\* comparison reads pending_entries, so counting stops at the interval.
AppendOperation ==
  /\ pc = "append"
  /\ WriteLine
  /\ Settle
  /\ pending' = IF pending < CheckpointInterval THEN pending + 1 ELSE pending
  /\ IF pending' >= CheckpointInterval
       THEN pc' = "primary" /\ purpose' = "interval" /\ reply' = reply
       ELSE pc' = "idle" /\ purpose' = purpose /\ reply' = "ok"
  /\ UNCHANGED <<mem, atomic, undo, ops, replayed, primary, backup>>

AppendError ==
  /\ pc = "append"
  /\ pc' = "idle"
  /\ reply' = "err"
  /\ UNCHANGED <<mem, pending, atomic, undo, ops, purpose, replayed, primary, backup>>

\* Nothing was written.
AppendFails ==
  /\ "io" \in Faults
  /\ AppendError
  /\ Attempt
  /\ UNCHANGED <<log, torn, malformed>>

\* The line was written and the sync after it failed.
SyncFails ==
  /\ "io" \in Faults
  /\ AppendError
  /\ WriteLine
  /\ Settle

\* A part of the line was written.
AppendTears ==
  /\ "torn" \in Faults
  /\ AppendError
  /\ torn' = TRUE
  /\ Attempt
  /\ UNCHANGED <<log, malformed>>

-----------------------------------------------------------------------------
(***************************************************************************)
(* The process ends: the last handle is closed, or it crashes.             *)
(***************************************************************************)
Close ==
  /\ pc = "idle"
  /\ Forget
  /\ reply' = "none"
  /\ UNCHANGED <<fileVars, historyVars>>

Crash ==
  /\ pc # "closed"
  /\ Forget
  /\ reply' = "none"
  /\ UNCHANGED <<fileVars, historyVars>>

\* The crash falls into append_operation after some bytes have been written:
\* a part of the line, or all of it.
CrashInAppend ==
  /\ pc = "append"
  /\ Forget
  /\ reply' = "none"
  /\ \/ torn' = TRUE /\ UNCHANGED <<log, malformed, historyVars>>
     \/ WriteLine /\ Settle
  /\ UNCHANGED <<primary, backup>>

\* The medium: primary becomes unreadable while nobody holds the workspace.
Damage ==
  /\ "damage" \in Faults
  /\ pc = "closed"
  /\ primary \in GraphState
  /\ backup # NoFile
  /\ primary' = Damaged
  /\ UNCHANGED <<pc, memoryVars, backup, log, torn, malformed, reply, historyVars>>

-----------------------------------------------------------------------------
Mutate ==
  \/ Apply(DefineNode(mem)) \/ Apply(DefineEdge(mem))
  \/ Apply(NodeCreate(mem)) \/ Apply(NodeUpdate(mem)) \/ Apply(NodeDelete(mem))
  \/ Apply(EdgeCreate(mem)) \/ Apply(EdgeUpdate(mem)) \/ Apply(EdgeDelete(mem))

\* The steps the process takes on its own once a request or an open is in hand.
Progress ==
  \/ Replay \/ Loaded
  \/ WritePrimary \/ WriteBackup \/ ClearLog
  \/ Finish \/ AppendOperation

IOError ==
  \/ WritePrimaryFails \/ WriteBackupFails \/ ClearLogFails
  \/ AppendFails \/ SyncFails \/ AppendTears

Next ==
  \/ Create \/ Open \/ Close \/ Save
  \/ Begin \/ Mutate \/ RejectAtomic
  \/ Progress
  \/ IOError
  \/ Crash \/ CrashInAppend \/ Damage

Spec == Init /\ [][Next]_vars

\* The process is scheduled: a call that has been made runs on until it returns.
FairSpec == Spec /\ WF_vars(Progress)
-----------------------------------------------------------------------------
(***************************************************************************)
(* Properties.                                                             *)
(***************************************************************************)
\* The log has been replayed to the end and the workspace is about to open.
AtLoaded == pc = "load" /\ replayed = Len(log)

\* When a load completes, every node has contents that a client may rely on:
\* what the last durable request or checkpoint left there, or, if later
\* requests on that node reported an error, what one of those attempted.  It
\* holds wherever a crash or an I/O error struck between the steps of
\* append_operation and of save_to_json, the log being replayed a second time
\* over a checkpoint that already contains it, and from backup as from primary.
NodesRecovered == AtLoaded => \A k \in NodeIds : mem.nodes[k] \in expect[k]

\* Without I/O errors a completed load yields exactly the schema, nodes, id
\* counters and anchored relationships of the last durable request, all of a
\* batch or none of it.
LiveRecovered == AtLoaded => Live(mem) = Live(committed)

\* Without I/O errors the workspace implements DurableGraph: seen through its
\* anchored part, whatever the crashes, a request is durable as a whole or not
\* at all, a request that returned is durable, and a restart shows exactly the
\* durable requests.
Opened == pc \in {"idle", "execute", "append"} \/ (pc # "closed" /\ purpose # "open")

Durable == INSTANCE DurableGraph WITH
  up   <- Opened,
  view <- IF Opened THEN Live(mem) ELSE EmptyGraph,
  db   <- Live(committed)

ImplementsDurableGraph == Durable!Spec

\* An id that was durably given to a node, deleted since or not, is never given
\* to another one: the counters a load reconstructs are past every such id.
IdsStayIssued ==
  pc \in {"idle", "execute", "append"} => \A k \in issued : k < mem.next_node_id

\* No relationship waits on an id that a later node may still be given, so a
\* relationship whose node was deleted never attaches to an unrelated node.
NoAccidentalAttachment ==
  pc # "closed" =>
    \A r \in RelIds : HasRel(mem, r) =>
      mem.rels[r].from < mem.next_node_id /\ mem.rels[r].to < mem.next_node_id

\* A load gives the checkpoint and the log records after it, and nothing else:
\* the graph of the last durable request, table by table.
RecoveredExactly == AtLoaded => mem = committed

\* After a request has returned successfully its durable operation can be read
\* back: the log it was appended to can be loaded.
AckedWritesLoadable == pc = "idle" /\ reply = "ok" => ~malformed

\* A load, a save and a log that has reached the checkpoint interval all end
\* with the log folded into a checkpoint, unless the process ends first.
LogIsCompacted ==
  (pc \in {"load", "primary"}) ~> (pc = "closed" \/ (pc = "idle" /\ log = << >>))

-----------------------------------------------------------------------------
(***************************************************************************)
(* The invariant that makes NodesRecovered inductive.                      *)
(***************************************************************************)
\* No operation of s from position lo on decides what node k is.
Untouched(s, lo, k) == \A i \in lo..Len(s) : ~TouchesNode(s[i], k)

\* Operation i of s is the last one that decides it.
LastTouch(s, i, k) == TouchesNode(s[i], k) /\ Untouched(s, i + 1, k)

\* A workspace in use has a checkpoint, and without one nothing is owed.
BaseInv ==
  /\ pc \in {"load", "idle", "execute", "append"} => primary # NoFile
  /\ purpose # "open" => primary # NoFile
  /\ primary = NoFile => \A k \in NodeIds : Absent \in expect[k]

\* The log is removed only when both checkpoints hold the graph in memory.
CheckpointInv ==
  /\ pc \in {"backup", "clear"} => primary = mem
  /\ pc = "clear" => backup = mem

\* Between requests the memory is one of the outcomes a restart may give.
MemoryInv ==
  pc \in {"idle", "primary", "backup", "clear"} =>
    \A k \in NodeIds : mem.nodes[k] \in expect[k]

\* During a request the memory differs from such an outcome only where the
\* durable operations collected so far say so.
RequestInv ==
  pc \in {"execute", "append"} =>
    \A k \in NodeIds :
      /\ Untouched(ops, 1, k) => mem.nodes[k] \in expect[k]
      /\ \A i \in 1..Len(ops) : LastTouch(ops, i, k) => mem.nodes[k] = NodeAfter(ops[i])
      /\ atomic => undo.nodes[k] \in expect[k]

\* The last record about a node is right, and where the log has no record both
\* checkpoints are: replay gives the right node from either, however much of
\* the log they already contain.
FileInv ==
  ~malformed =>
    \A k \in NodeIds :
      /\ \A i \in 1..Len(log) : LastTouch(log, i, k) => NodeAfter(log[i]) \in expect[k]
      /\ Untouched(log, 1, k) =>
           /\ primary \in GraphState => primary.nodes[k] \in expect[k]
           /\ backup \in GraphState => backup.nodes[k] \in expect[k]

\* A node that the rest of the log does not mention has been recovered.
LoadInv ==
  pc = "load" =>
    /\ ~malformed
    /\ \A k \in NodeIds : Untouched(log, replayed + 1, k) => mem.nodes[k] \in expect[k]

\* What the steps of requests, checkpoints, loads and crashes maintain together.
RecoveryInv ==
  BaseInv /\ CheckpointInv /\ MemoryInv /\ RequestInv /\ FileInv /\ LoadInv
=============================================================================
