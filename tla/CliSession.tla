----------------------------- MODULE CliSession ------------------------------
(***************************************************************************)
(* The local command session: CliSession of src/src/runtime/session.rs as  *)
(* src/grm-cli/src/main.rs runs it.  It holds a graph in memory, the names *)
(* that let has bound, at most one transaction, and at most one autocommit *)
(* target; a script runs first, or the prompt starts at once.              *)
(*                                                                         *)
(* A command that fails is printed at the prompt, and ends a script.  Each *)
(* command is one step: what a crash inside an append or a checkpoint does *)
(* is the subject of Workspace.  A path stands for a path and the format   *)
(* it is used with.  Commands that only read, or only write a document     *)
(* (session.export), change nothing here.                                  *)
(***************************************************************************)
EXTENDS Graph, Sequences, SequencesExt

CONSTANTS
  Paths,               \* the session files
  Names,               \* the names of let
  Documents,           \* the graphs of the interchange documents to import
  CheckpointInterval,  \* AUTOCOMMIT_CHECKPOINT_INTERVAL
  MaxLog,              \* bound on the operations in the logs
  NoFile,              \* a checkpoint that does not exist
  Off,                 \* no autocommit target
  NoTx                 \* no transaction

ASSUME CliAssumption ==
  /\ CheckpointInterval \in Nat \ {0}
  /\ MaxLog \in Nat
  /\ NoFile \notin GraphState
  /\ Documents \subseteq GraphState

VARIABLES
  session,     \* "off", "script", "interactive", or "failed": the script's error
  state,       \* the graph in memory
  autocommit,  \* [path, pending] or Off
  script_tx,   \* what the transaction restores, [state, bindings, saved], or NoTx
  bindings,    \* name -> the node it was bound to, 0 if it is free
  disk,        \* path -> [base, log, readable]: the checkpoint and its log
  behind,      \* history: why the target may differ from the graph
  replaced     \* history: the graph was loaded after names were bound

sessionVars == <<session, state, autocommit, script_tx, bindings>>
vars == <<sessionVars, disk, behind, replaced>>

\* readable: every line of the log is a record
File(base, log, readable) == [base |-> base, log |-> log, readable |-> readable]
NoBindings == [n \in Names |-> 0]

Init ==
  /\ session = "off"
  /\ state = EmptyGraph /\ autocommit = Off /\ script_tx = NoTx /\ bindings = NoBindings
  /\ disk \in [Paths -> {File(NoFile, <<>>, TRUE), File(EmptyGraph, <<>>, FALSE)}]
  /\ behind = {} /\ replaced = FALSE

-----------------------------------------------------------------------------
(***************************************************************************)
(* Files.                                                                  *)
(***************************************************************************)
\* load_workspace_with_source: the checkpoint, and the log over it.  A line
\* that cannot be read aborts the load.
Loadable(file) == file.base # NoFile /\ file.readable
Recovered(file) ==
  LET at[n \in 0..Len(file.log)] ==
        IF n = 0 THEN file.base ELSE ApplyEntry(at[n - 1], file.log[n])
  IN  at[Len(file.log)]

\* checkpoint_durable, save_workspace: the checkpoint, then an empty log
Saved(g) == File(g, <<>>, TRUE)

\* What is left of a file when that fails: before the rename, before the log
\* is removed, or in the last sync.
HalfSaved(file, g) == {file, [file EXCEPT !.base = g], Saved(g)}

\* append_durable_operation; when it fails the line may be there all the same.
\* (Half a line is the subject of Workspace.)
Appended(file, op) == [file EXCEPT !.log = Append(@, op)]
HalfAppended(file, op) == {file, Appended(file, op)}

-----------------------------------------------------------------------------
(***************************************************************************)
(* Autocommit.  A step on the target is [file, pending, ok].               *)
(***************************************************************************)
Step(file, pending, ok) == [file |-> file, pending |-> pending, ok |-> ok]
Target == disk[autocommit.path]

\* checkpoint_autocommit
Checkpoint(file, pending, g) ==
  {Step(Saved(g), 0, TRUE)} \cup {Step(f, pending, FALSE) : f \in HalfSaved(file, g)}

\* persist_autocommit_entry: from the CheckpointInterval-th line on, a line is
\* followed by a checkpoint.  Counting stops there.
Persist(file, pending, g, op) ==
  {Step(f, pending, FALSE) : f \in HalfAppended(file, op)} \cup
  IF pending + 1 < CheckpointInterval
  THEN {Step(Appended(file, op), pending + 1, TRUE)}
  ELSE Checkpoint(Appended(file, op), CheckpointInterval, g)

-----------------------------------------------------------------------------
(***************************************************************************)
(* The end of a command: the graph, transaction and names it leaves, and   *)
(* what the target lacks then.  An error in a script restores the          *)
(* transaction (rollback_script_tx_after_error) and ends the run.  What    *)
(* the transaction had saved stays in the target.                          *)
(***************************************************************************)
Running == session \in {"script", "interactive"}

\* Mutant: the rollback forgets the names.
RestoredKeepsBindings(tx) == [state |-> tx.state, bindings |-> bindings]

Restored(tx) == [state |-> tx.state, bindings |-> tx.bindings]

Succeeded(g, tx, b, lacks) ==
  /\ state' = g /\ script_tx' = tx /\ bindings' = b
  /\ behind' = lacks
  /\ UNCHANGED session

Failed(g, tx, lacks) ==
  IF session = "interactive" THEN Succeeded(g, tx, bindings, lacks)
  ELSE LET end == IF tx = NoTx THEN [state |-> g, bindings |-> bindings] ELSE Restored(tx)
       IN  /\ session' = "failed" /\ script_tx' = NoTx
           /\ state' = end.state /\ bindings' = end.bindings
           /\ behind' = lacks \cup {r \in {"error"} : tx # NoTx /\ tx.saved}

Done(ok, g, tx, b, lacks) ==
  IF ok THEN Succeeded(g, tx, b, lacks) ELSE Failed(g, tx, lacks \cup {"error"})

\* A transaction in which the target was written
Marked(tx) == IF tx = NoTx THEN NoTx ELSE [tx EXCEPT !.saved = TRUE]

\* checkpoint_autocommit to p as the last step of a command
SaveTarget(p, pending, g, tx, b) ==
  \E t \in Checkpoint(disk[p], pending, g) :
    /\ disk' = [disk EXCEPT ![p] = t.file]
    /\ autocommit' = [path |-> p, pending |-> t.pending]
    /\ Done(t.ok, g, Marked(tx), b, IF t.ok THEN {} ELSE behind)

CheckpointAutocommit(g, tx, b) ==
  IF autocommit # Off THEN SaveTarget(autocommit.path, autocommit.pending, g, tx, b)
  ELSE Succeeded(g, tx, b, behind) /\ UNCHANGED <<autocommit, disk>>

\* An operation goes to the log, except in a transaction.
Logged == autocommit # Off /\ script_tx = NoTx

PersistEntry(g, op, b, lacks) ==
  IF ~Logged THEN Succeeded(g, script_tx, b, behind) /\ UNCHANGED <<autocommit, disk>>
  ELSE \E t \in Persist(Target, autocommit.pending, g, op) :
         /\ disk' = [disk EXCEPT ![autocommit.path] = t.file]
         /\ autocommit' = [autocommit EXCEPT !.pending = t.pending]
         /\ Done(t.ok, g, NoTx, b, lacks \cup (IF t.file = Saved(g) THEN {} ELSE behind))

-----------------------------------------------------------------------------
(***************************************************************************)
(* Commands on the graph.                                                  *)
(***************************************************************************)
\* model.define, link.define, node.create, node.update, node.delete,
\* edge.create, edge.update, edge.delete
Edit(s) ==
  /\ Running
  /\ PersistEntry(s.graph, s.durable_op, bindings, {})
  /\ UNCHANGED replaced

\* let: the name is bound when the node has been persisted.
Let(n, s) ==
  /\ Running /\ bindings[n] = 0
  /\ PersistEntry(s.graph, s.durable_op, [bindings EXCEPT ![n] = s.durable_op.id], {})
  /\ UNCHANGED replaced

\* The wizards of model.define and link.define with a first instance: the
\* definition is persisted, the instance only created.
FirstOf(s) ==
  IF s.durable_op.op = "RegisterNodeModel" THEN NodeCreate(s.graph) ELSE EdgeCreate(s.graph)

Wizard(s, first) ==
  /\ Running
  /\ IF ~Logged
     THEN Succeeded(first.graph, script_tx, bindings, behind) /\ UNCHANGED <<autocommit, disk>>
     ELSE \E t \in {x \in Persist(Target, autocommit.pending, s.graph, s.durable_op) : x.ok} :
            /\ disk' = [disk EXCEPT ![autocommit.path] = t.file]
            /\ autocommit' = [autocommit EXCEPT !.pending = t.pending]
            /\ Succeeded(first.graph, NoTx, bindings, behind \cup {"wizard"})
  /\ UNCHANGED replaced

\* A command that is not understood or not valid, a name that is taken
Rejected ==
  /\ Running
  /\ Failed(state, script_tx, behind)
  /\ UNCHANGED <<autocommit, disk, replaced>>

TxBegin ==
  /\ Running /\ script_tx = NoTx
  /\ Succeeded(state, [state |-> state, bindings |-> bindings, saved |-> FALSE], bindings, behind)
  /\ UNCHANGED <<autocommit, disk, replaced>>

\* Mutant: the commit writes nothing.
TxCommitUnsaved ==
  /\ Running /\ script_tx # NoTx
  /\ Succeeded(state, NoTx, bindings, behind)
  /\ UNCHANGED <<autocommit, disk, replaced>>

\* The transaction is closed before the checkpoint that makes it durable.
TxCommit ==
  /\ Running /\ script_tx # NoTx
  /\ CheckpointAutocommit(state, NoTx, bindings)
  /\ UNCHANGED replaced

-----------------------------------------------------------------------------
(***************************************************************************)
(* Commands on files.                                                      *)
(***************************************************************************)
\* session.save: not through the target, even when it is the target's path
SessionSave(p) ==
  /\ Running
  /\ LET own == autocommit # Off /\ autocommit.path = p
         tx  == IF own THEN Marked(script_tx) ELSE script_tx
     IN  \/ /\ disk' = [disk EXCEPT ![p] = Saved(state)]
            /\ Succeeded(state, tx, bindings, IF own THEN {} ELSE behind)
         \/ \E f \in HalfSaved(disk[p], state) :
              /\ disk' = [disk EXCEPT ![p] = f]
              /\ Failed(state, tx, IF own THEN behind \cup {"error"} ELSE behind)
  /\ UNCHANGED <<autocommit, replaced>>

\* session.load, then a checkpoint to the target
SessionLoad(p) ==
  /\ Running /\ Loadable(disk[p])
  /\ CheckpointAutocommit(Recovered(disk[p]), script_tx, bindings)
  /\ replaced' = (replaced \/ bindings # NoBindings)

\* The log cannot be read: the error comes after the checkpoint has replaced
\* the graph in memory.
SessionLoadAborts(p) ==
  /\ Running /\ disk[p].base # NoFile /\ ~Loadable(disk[p])
  /\ Failed(disk[p].base, script_tx, behind \cup {"error"})
  /\ replaced' = (replaced \/ bindings # NoBindings)
  /\ UNCHANGED <<autocommit, disk>>

\* session.import into an empty session: the counters start after the largest
\* id of the document (build_imported_interchange).
Past(ids) == IF ids = {} THEN 1 ELSE Max(ids) + 1
Imported(doc) ==
  [doc EXCEPT !.next_node_id = Past({k \in NodeIds : HasNode(doc, k)}),
              !.next_rel_id = Past({r \in RelIds : HasRel(doc, r)})]

SessionImport(doc) ==
  /\ Running
  /\ state.models = {} /\ \A k \in NodeIds : ~HasNode(state, k)
  /\ CheckpointAutocommit(Imported(doc), script_tx, bindings)
  /\ replaced' = (replaced \/ bindings # NoBindings)

\* session.compact
SessionCompact ==
  /\ Running /\ autocommit # Off
  /\ CheckpointAutocommit(state, script_tx, bindings)
  /\ UNCHANGED replaced

\* session.autocommit: the target is set before its first checkpoint, and
\* stays set when that fails.
EnableAutocommit(p) ==
  /\ Running
  /\ SaveTarget(p, 0, state, script_tx, bindings)
  /\ UNCHANGED replaced

DisableAutocommit ==
  /\ Running
  /\ autocommit' = Off
  /\ Succeeded(state, script_tx, bindings, {})
  /\ UNCHANGED <<disk, replaced>>

-----------------------------------------------------------------------------
(***************************************************************************)
(* The process: main of grm-cli.                                           *)
(***************************************************************************)
\* A new CliSession over a graph
Begin(kind, g, target) ==
  /\ session' = kind /\ state' = g /\ autocommit' = target
  /\ script_tx' = NoTx /\ bindings' = NoBindings
  /\ behind' = {} /\ replaced' = FALSE

StartFresh(kind) ==
  /\ session = "off"
  /\ Begin(kind, EmptyGraph, Off)
  /\ UNCHANGED disk

\* --load, without and with --autocommit on; a failed checkpoint ends it.
StartLoaded(p) ==
  /\ session = "off" /\ Loadable(disk[p])
  /\ LET g == Recovered(disk[p])
     IN  \/ Begin("interactive", g, Off) /\ UNCHANGED disk
         \/ /\ Begin("interactive", g, [path |-> p, pending |-> 0])
            /\ disk' = [disk EXCEPT ![p] = Saved(g)]
         \/ /\ \E f \in HalfSaved(disk[p], g) : disk' = [disk EXCEPT ![p] = f]
            /\ UNCHANGED <<sessionVars, behind, replaced>>

\* The end of a script: the graph goes on in a session of its own, without
\* the target and the names.  An open transaction is an error.
ScriptEnds ==
  /\ session = "script"
  /\ IF script_tx = NoTx THEN Begin("interactive", state, Off)
     ELSE Failed(state, script_tx, behind) /\ UNCHANGED <<autocommit, replaced>>
  /\ UNCHANGED disk

\* session.exit, the end of the input, a script's error, or a crash
Exit ==
  /\ session # "off"
  /\ Begin("off", EmptyGraph, Off)
  /\ UNCHANGED disk

-----------------------------------------------------------------------------
\* Bound on the logs together
Room == MapThenSumSet(LAMBDA p : Len(disk[p].log), Paths) < MaxLog

Next ==
  \/ Room /\ \E s \in Mutations(state) : Edit(s)
  \/ Room /\ \E n \in Names, s \in NodeCreate(state) : Let(n, s)
  \/ Room /\ \E s \in DefineNode(state) \cup DefineEdge(state) :
       \E first \in FirstOf(s) : Wizard(s, first)
  \/ Rejected \/ TxBegin \/ TxCommit
  \/ \E p \in Paths : SessionSave(p) \/ SessionLoad(p) \/ SessionLoadAborts(p) \/ EnableAutocommit(p)
  \/ \E doc \in Documents : SessionImport(doc)
  \/ SessionCompact \/ DisableAutocommit
  \/ \E kind \in {"script", "interactive"} : StartFresh(kind)
  \/ \E p \in Paths : StartLoaded(p)
  \/ ScriptEnds \/ Exit

Spec == Init /\ [][Next]_vars

-----------------------------------------------------------------------------
(***************************************************************************)
(* Properties.                                                             *)
(***************************************************************************)
Synced == Loadable(Target) /\ Recovered(Target) = state

\* Outside a transaction the target would give back exactly the graph in
\* memory, counters included: across edits, checkpoints, transactions that
\* commit or are rolled back, loads, imports and restarts.  Only three things
\* make it lag until the next checkpoint: an error that was reported, the first
\* instance of a wizard, and a transaction that was rolled back after it had
\* been saved.
TargetFollowsState == autocommit # Off /\ script_tx = NoTx /\ behind = {} => Synced

\* Every successful edit is written to the autocommit target: without a
\* reported error and outside transactions the target has them all.
EditsReachTarget ==
  autocommit # Off /\ script_tx = NoTx /\ behind \subseteq {"wizard"} => Synced

\* A name is bound to an id that was given out in this graph, and that no later
\* node can be given: also when a transaction was rolled back, and until
\* another graph is loaded.
BindingsAreIssued ==
  ~replaced => \A n \in Names : bindings[n] # 0 => bindings[n] < state.next_node_id

=============================================================================
