------------------------------ MODULE Registry ------------------------------
(***************************************************************************)
(* InProcessWorkspaceService: the workspaces a service process has loaded, *)
(* the handles clients hold on them and the files they are kept in.        *)
(*                                                                         *)
(* A handle is an id of its own; several handles may resolve to one loaded *)
(* workspace.  A workspace is identified by the handle it was loaded       *)
(* under.  A local workspace has a ref, and a root directory, a ref and a  *)
(* format name a file.  A graph is the set of writes applied to it, and a  *)
(* file the set of writes a load of it gives back, with the way its log    *)
(* ends; how one write reaches a file through log and checkpoint is the    *)
(* subject of module Workspace.                                            *)
(*                                                                         *)
(* Names a client chooses and names the service generates share one        *)
(* namespace, so refs are numbers and the n-th generated name is n.        *)
(***************************************************************************)
EXTENDS Naturals, FiniteSets

CONSTANTS
  Handles,      \* the ids next_workspace_handle draws
  NoHandle,     \* no handle
  Roots,        \* root directories
  NoRoot,       \* none is configured
  MaxRef,       \* bound: refs are 1..MaxRef
  Formats,      \* DurabilityFormat
  MaxFiles,     \* bound on the local workspaces that are created
  Writes,       \* runtime requests that change a graph
  MaxSnapshots  \* bound on registered snapshots

ASSUME RegistryAssumption ==
  /\ NoHandle \notin Handles
  /\ NoRoot \notin Roots
  /\ MaxRef \in Nat
  /\ MaxSnapshots \in Nat

NoRef == 0
Refs  == 1 .. MaxRef
Paths == Roots \X Refs \X Formats
NoPath == <<NoRoot, NoRef, "none">>
RefOf(p) == p[2]

\* A file: the log ends "clean", or "torn" in part of a line, which a load drops;
\* it is "broken" by a line that continues such a part, and no load can read it.
Files == [exists : BOOLEAN, data : SUBSET Writes, tail : {"clean", "torn", "broken"}]
File(data, tail) == [exists |-> TRUE, data |-> data, tail |-> tail]
Absent == [exists |-> FALSE, data |-> {}, tail |-> "clean"]

\* checkpoint_durable: the base file is written anew and the log removed
Saved(data) == File(data, "clean")

\* append_operation writes a line, or part of one and then fails
Appended(file, w) == IF file.tail = "clean" THEN File(file.data \cup {w}, "clean") ELSE File({}, "broken")
TornBy(file)      == IF file.tail = "broken" THEN file ELSE File(file.data, "torn")

VARIABLES
  workspaces,            \* the ids of the loaded workspaces
  graph,                 \* and the graph of each
  autocommit,            \* and the file it is persisted to, if any
  workspace_handles,     \* open handle -> id of its workspace
  workspace_refs,        \* open handle -> the ref it was opened under
  live_workspace_paths,  \* file -> id of the workspace loaded from it
  next_workspace_ref_id,
  next_snapshot_id,
  local_snapshots,       \* registered snapshots: format and contents
  local_workspace_root,  \* the root directory, if one is configured
  disk,                  \* the files
  issued,                \* history: handles ever given out
  acked                  \* history: writes acknowledged on a file

openVars == <<workspaces, autocommit, workspace_handles, workspace_refs, live_workspace_paths>>
nameVars == <<next_workspace_ref_id, next_snapshot_id, local_snapshots, local_workspace_root>>
registryVars == <<openVars, graph, nameVars, disk, issued, acked>>

RegistryTypeOK ==
  /\ workspaces \subseteq Handles
  /\ graph \in [Handles -> SUBSET Writes]
  /\ autocommit \in [Handles -> Paths \cup {NoPath}]
  /\ workspace_handles \in [Handles -> Handles \cup {NoHandle}]
  /\ workspace_refs \in [Handles -> Refs \cup {NoRef}]
  /\ live_workspace_paths \in [Paths -> Handles \cup {NoHandle}]
  /\ next_workspace_ref_id \in 0 .. MaxRef
  /\ next_snapshot_id \in 0 .. MaxSnapshots
  /\ local_snapshots \subseteq [id : 1 .. MaxSnapshots, format : Formats, data : SUBSET Writes]
  /\ local_workspace_root \in Roots \cup {NoRoot}
  /\ disk \in [Paths -> Files]
  /\ issued \subseteq Handles
  /\ acked \in [Paths -> SUBSET Writes]

RegistryInit ==
  /\ workspaces = {}
  /\ graph = [h \in Handles |-> {}]
  /\ autocommit = [h \in Handles |-> NoPath]
  /\ workspace_handles = [h \in Handles |-> NoHandle]
  /\ workspace_refs = [h \in Handles |-> NoRef]
  /\ live_workspace_paths = [p \in Paths |-> NoHandle]
  /\ next_workspace_ref_id = 0
  /\ next_snapshot_id = 0
  /\ local_snapshots = {}
  /\ local_workspace_root = NoRoot
  /\ disk = [p \in Paths |-> Absent]
  /\ issued = {}
  /\ acked = [p \in Paths |-> {}]

-----------------------------------------------------------------------------
(***************************************************************************)
(* Names and handles.                                                      *)
(***************************************************************************)
Open(h) == workspace_handles[h] # NoHandle

\* next_workspace_handle: 16 random bytes, taken never to repeat
Fresh(h) == h \in Handles \ issued

\* local_workspace_path
PathOf(r, f) == <<local_workspace_root, r, f>>

\* local_workspace_exists: in either format, whatever format is asked for
LocalWorkspaceExistsOneFormat(r) == disk[PathOf(r, CHOOSE f \in Formats : TRUE)].exists

LocalWorkspaceExists(r) == \E f \in Formats : disk[PathOf(r, f)].exists

\* next_available_workspace_ref: counts on until a name is free
NextAvailable(r) ==
  /\ r > next_workspace_ref_id
  /\ ~LocalWorkspaceExists(r)
  /\ \A q \in next_workspace_ref_id + 1 .. r - 1 : LocalWorkspaceExists(q)

\* insert a workspace under its own handle
Register(h, r, p, data) ==
  /\ Fresh(h)
  /\ issued' = issued \cup {h}
  /\ workspaces' = workspaces \cup {h}
  /\ graph' = [graph EXCEPT ![h] = data]
  /\ autocommit' = [autocommit EXCEPT ![h] = p]
  /\ workspace_handles' = [workspace_handles EXCEPT ![h] = h]
  /\ workspace_refs' = [workspace_refs EXCEPT ![h] = r]
  /\ live_workspace_paths' =
       IF p = NoPath THEN live_workspace_paths ELSE [live_workspace_paths EXCEPT ![p] = h]

-----------------------------------------------------------------------------
(***************************************************************************)
(* create_workspace.                                                       *)
(***************************************************************************)
CreateInMemory(h) ==
  /\ Register(h, NoRef, NoPath, {})
  /\ UNCHANGED <<nameVars, disk, acked>>

\* a client's name must be unused; without one the service generates it
Chosen(asked, r) ==
  /\ local_workspace_root # NoRoot
  /\ Cardinality({p \in Paths : disk[p].exists}) < MaxFiles
  /\ IF asked = NoRef
     THEN NextAvailable(r) /\ next_workspace_ref_id' = r
     ELSE r = asked /\ ~LocalWorkspaceExists(r) /\ UNCHANGED next_workspace_ref_id

\* enable_autocommit checkpoints the empty workspace before it is registered
CreateLocal(h, asked, r, f) ==
  /\ Chosen(asked, r)
  /\ Register(h, r, PathOf(r, f), {})
  /\ disk' = [disk EXCEPT ![PathOf(r, f)] = Saved({})]
  /\ UNCHANGED <<next_snapshot_id, local_snapshots, local_workspace_root, acked>>

\* the checkpoint or the handle failed: the file may be there, the workspace is not
CreateLocalFails(asked, r, f) ==
  /\ Chosen(asked, r)
  /\ disk' \in {disk, [disk EXCEPT ![PathOf(r, f)] = Saved({})]}
  /\ UNCHANGED <<openVars, graph, next_snapshot_id, local_snapshots, local_workspace_root,
                 issued, acked>>

\* no root is configured, the name is taken or not a valid name, or there is
\* no handle for a workspace in memory
CreateRejected == UNCHANGED registryVars

-----------------------------------------------------------------------------
(***************************************************************************)
(* open_workspace.                                                         *)
(***************************************************************************)
Live(r, f) == live_workspace_paths[PathOf(r, f)]

\* the file is already loaded: a second handle on the same workspace
OpenLive(h, r, f) ==
  /\ local_workspace_root # NoRoot
  /\ Live(r, f) # NoHandle
  /\ Fresh(h)
  /\ issued' = issued \cup {h}
  /\ workspace_handles' = [workspace_handles EXCEPT ![h] = Live(r, f)]
  /\ workspace_refs' = [workspace_refs EXCEPT ![h] = r]
  /\ UNCHANGED <<workspaces, graph, autocommit, live_workspace_paths, nameVars, disk, acked>>

\* Workspace::open: the file is there and its log can be read
Loadable(p) == disk[p].exists /\ disk[p].tail # "broken"

\* open_autocommit: load the file and checkpoint it, then register
LoadAndRegister(h, r, f) ==
  LET p == PathOf(r, f) IN
  /\ Loadable(p)
  /\ Register(h, r, p, disk[p].data)
  /\ disk' = [disk EXCEPT ![p] = Saved(disk[p].data)]
  /\ UNCHANGED <<nameVars, acked>>

OpenLoadAlways(h, r, f) == local_workspace_root # NoRoot /\ LoadAndRegister(h, r, f)

OpenLoad(h, r, f) ==
  /\ local_workspace_root # NoRoot
  /\ Live(r, f) = NoHandle
  /\ LoadAndRegister(h, r, f)

\* its checkpoint failed after the log was removed
OpenLoadFails(r, f) ==
  LET p == PathOf(r, f) IN
  /\ local_workspace_root # NoRoot
  /\ Live(r, f) = NoHandle
  /\ Loadable(p)
  /\ disk' = [disk EXCEPT ![p] = Saved(disk[p].data)]
  /\ UNCHANGED <<openVars, graph, nameVars, issued, acked>>

\* Workspace::open of a registered snapshot: no autocommit, no ref
OpenSnapshot(h, s, f) ==
  /\ s \in local_snapshots
  /\ s.format = f
  /\ Register(h, NoRef, NoPath, s.data)
  /\ UNCHANGED <<nameVars, disk, acked>>

\* no root, no file, a failed load or checkpoint, no handle, an unknown snapshot, a
\* snapshot of the other format, a ref and a snapshot, or neither
OpenRejected == UNCHANGED registryVars

-----------------------------------------------------------------------------
(***************************************************************************)
(* execute_runtime on the workspace a handle resolves to.                  *)
(***************************************************************************)
\* a request that returns durable operations: its effect on the graph, and on
\* the file the workspace is persisted to
Mutate(h, w, file) ==
  LET id == workspace_handles[h] IN
  /\ Open(h)
  /\ w \notin graph[id]
  /\ graph' = [graph EXCEPT ![id] = graph[id] \cup {w}]
  /\ disk' = IF autocommit[id] = NoPath THEN disk ELSE [disk EXCEPT ![autocommit[id]] = file]
  /\ UNCHANGED <<openVars, nameVars, issued>>

FileOf(h) == LET p == autocommit[workspace_handles[h]] IN IF p = NoPath THEN Absent ELSE disk[p]
GraphOf(h) == graph[workspace_handles[h]]

Acknowledge(h, w) ==
  LET p == autocommit[workspace_handles[h]] IN
  acked' = IF p = NoPath THEN acked ELSE [acked EXCEPT ![p] = acked[p] \cup {w}]

\* the operations are appended to the log, whatever an earlier append left there
ExecuteAppends(h, w) ==
  /\ Mutate(h, w, Appended(FileOf(h), w))
  /\ Acknowledge(h, w)

\* and the log has reached the interval: the graph as it is in memory is saved
ExecuteCheckpoints(h, w) ==
  /\ Mutate(h, w, Saved(GraphOf(h) \cup {w}))
  /\ Acknowledge(h, w)

\* persist_autocommit_ops failed: memory has the write, the file has all of its
\* line, part of it, or nothing
ExecuteAppendFails(h, w) ==
  /\ Open(h)
  /\ autocommit[workspace_handles[h]] # NoPath
  /\ \E file \in {FileOf(h), TornBy(FileOf(h)), Appended(FileOf(h), w)} : Mutate(h, w, file)
  /\ UNCHANGED acked

\* checkpoint_autocommit failed after the append, before or after its rename
ExecuteCheckpointFails(h, w) ==
  /\ Open(h)
  /\ autocommit[workspace_handles[h]] # NoPath
  /\ \E file \in {Appended(FileOf(h), w), Saved(GraphOf(h) \cup {w})} : Mutate(h, w, file)
  /\ UNCHANGED acked

\* a read, or a request the session refuses
ExecuteReads(h) == Open(h) /\ UNCHANGED registryVars

-----------------------------------------------------------------------------
(***************************************************************************)
(* close_workspace.                                                        *)
(***************************************************************************)
AnyHandle(h) == TRUE

LastHandle(h) ==
  \A g \in Handles \ {h} : workspace_handles[g] # workspace_handles[h]

Close(h) ==
  LET id == workspace_handles[h] IN
  /\ Open(h)
  /\ workspace_handles' = [workspace_handles EXCEPT ![h] = NoHandle]
  /\ workspace_refs' = [workspace_refs EXCEPT ![h] = NoRef]
  /\ IF LastHandle(h)
     THEN /\ workspaces' = workspaces \ {id}
          /\ graph' = [graph EXCEPT ![id] = {}]
          /\ autocommit' = [autocommit EXCEPT ![id] = NoPath]
          /\ live_workspace_paths' =
               [p \in Paths |-> IF live_workspace_paths[p] = id THEN NoHandle
                                ELSE live_workspace_paths[p]]
     ELSE UNCHANGED <<workspaces, graph, autocommit, live_workspace_paths>>
  /\ UNCHANGED <<nameVars, disk, issued, acked>>

-----------------------------------------------------------------------------
(***************************************************************************)
(* Local hooks, and the end of the process.                                *)
(***************************************************************************)
\* save_workspace_to_local_snapshot, or a file registered as it is
SaveSnapshot(h, f) ==
  /\ Open(h)
  /\ next_snapshot_id < MaxSnapshots
  /\ next_snapshot_id' = next_snapshot_id + 1
  /\ local_snapshots' = local_snapshots \cup
       {[id |-> next_snapshot_id + 1, format |-> f, data |-> GraphOf(h)]}
  /\ UNCHANGED <<openVars, graph, next_workspace_ref_id, local_workspace_root, disk, issued, acked>>

\* also while workspaces of another root are loaded
SetLocalWorkspaceRoot(d) ==
  /\ local_workspace_root' = d
  /\ UNCHANGED <<openVars, graph, next_workspace_ref_id, next_snapshot_id, local_snapshots,
                 disk, issued, acked>>

\* the service process ends and a new one starts over the same files
Restart ==
  /\ workspaces' = {}
  /\ graph' = [h \in Handles |-> {}]
  /\ autocommit' = [h \in Handles |-> NoPath]
  /\ workspace_handles' = [h \in Handles |-> NoHandle]
  /\ workspace_refs' = [h \in Handles |-> NoRef]
  /\ live_workspace_paths' = [p \in Paths |-> NoHandle]
  /\ next_workspace_ref_id' = 0
  /\ next_snapshot_id' = 0
  /\ local_snapshots' = {}
  /\ local_workspace_root' = NoRoot
  /\ UNCHANGED <<disk, issued, acked>>

RegistryNext ==
  \/ \E h \in Handles : CreateInMemory(h)
  \/ \E h \in Handles, r \in Refs, f \in Formats, asked \in Refs \cup {NoRef} :
       CreateLocal(h, asked, r, f)
  \/ \E r \in Refs, f \in Formats, asked \in Refs \cup {NoRef} : CreateLocalFails(asked, r, f)
  \/ CreateRejected
  \/ \E h \in Handles, r \in Refs, f \in Formats : OpenLive(h, r, f)
  \/ \E h \in Handles, r \in Refs, f \in Formats : OpenLoad(h, r, f)
  \/ \E r \in Refs, f \in Formats : OpenLoadFails(r, f)
  \/ \E h \in Handles, s \in local_snapshots, f \in Formats : OpenSnapshot(h, s, f)
  \/ OpenRejected
  \/ \E h \in Handles, w \in Writes : ExecuteAppends(h, w)
  \/ \E h \in Handles, w \in Writes : ExecuteCheckpoints(h, w)
  \/ \E h \in Handles, w \in Writes : ExecuteAppendFails(h, w)
  \/ \E h \in Handles, w \in Writes : ExecuteCheckpointFails(h, w)
  \/ \E h \in Handles : ExecuteReads(h)
  \/ \E h \in Handles : Close(h)
  \/ \E h \in Handles, f \in Formats : SaveSnapshot(h, f)
  \/ \E d \in Roots : SetLocalWorkspaceRoot(d)
  \/ Restart

RegistrySpec == RegistryInit /\ [][RegistryNext]_registryVars

-----------------------------------------------------------------------------
(***************************************************************************)
(* Properties.                                                             *)
(***************************************************************************)
\* No acknowledged write is lost, whichever clients made it through whichever
\* handles, and across closes, failed checkpoints, changes of the root and
\* restarts: every write acknowledged on a file is in the graph that every handle
\* on that file resolves to, and in the file, but for a log that an append which
\* failed half way left torn and that a later append made unreadable.
NoLostUpdate ==
  \A p \in Paths :
    /\ acked[p] \subseteq disk[p].data \/ disk[p].tail = "broken"
    /\ \A h \in Handles :
         Open(h) /\ autocommit[workspace_handles[h]] = p => acked[p] \subseteq GraphOf(h)

\* A ref names one workspace of a root: it never has a file in both formats, so a
\* client cannot be given different graphs for one name.
RefsAreUnambiguous ==
  \A d \in Roots, r \in Refs, f, g \in Formats :
    disk[<<d, r, f>>].exists /\ disk[<<d, r, g>>].exists => f = g

\* What the service has loaded is what its clients hold: an open handle
\* resolves to a loaded workspace, loaded from the file of the handle's ref;
\* a workspace nobody holds is not kept; and a file is live exactly when the
\* workspace loaded from it is, so no file is ever loaded twice.
HandlesConsistent ==
  /\ workspaces = {workspace_handles[h] : h \in {g \in Handles : Open(g)}}
  /\ \A h \in Handles : Open(h) => workspace_refs[h] = RefOf(autocommit[workspace_handles[h]])
  /\ \A p \in Paths, w \in Handles :
       live_workspace_paths[p] = w <=> w \in workspaces /\ autocommit[w] = p

-----------------------------------------------------------------------------
(***************************************************************************)
(* The invariant that makes the properties inductive.                      *)
(***************************************************************************)
HandleInv ==
  /\ \A h \in Handles : Open(h) => workspace_handles[h] \in workspaces /\ h \in issued
  /\ \A w \in workspaces : w \in issued /\ \E h \in Handles : workspace_handles[h] = w
  /\ \A h \in Handles : Open(h) => workspace_refs[h] = RefOf(autocommit[workspace_handles[h]])
  /\ \A w \in Handles \ workspaces : autocommit[w] = NoPath
  /\ \A p \in Paths, w \in Handles :
       live_workspace_paths[p] = w <=> w \in workspaces /\ autocommit[w] = p

FileInv ==
  /\ \A p \in Paths : acked[p] \subseteq disk[p].data \/ disk[p].tail = "broken"
  /\ \A p \in Paths : ~disk[p].exists => acked[p] = {}
  /\ \A w \in workspaces : autocommit[w] # NoPath =>
       disk[autocommit[w]].exists /\ acked[autocommit[w]] \subseteq graph[w]
  /\ RefsAreUnambiguous

\* Handles, loaded workspaces and live files determine each other, only ids that
\* were given out are in use, and every loaded workspace has a file, whose
\* acknowledged writes it contains.
RegistryInv == RegistryTypeOK /\ HandleInv /\ FileInv
=============================================================================
