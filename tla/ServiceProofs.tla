--------------------------- MODULE ServiceProofs -----------------------------
(***************************************************************************)
(* Proofs about Service, for any number of concurrent handlers, any calls, *)
(* configuration and certificate mappings.                                 *)
(*                                                                         *)
(* ServiceInv is inductive: what the history of a handler says about its   *)
(* phase (HandlerInv), and who is inside the registry's mutex and under    *)
(* which name it was authorized (LockInv).  The handlers change the        *)
(* workspaces by operations of the registry only, so what is proved of the *)
(* registry holds behind the service too.                                  *)
(***************************************************************************)
EXTENDS Service, TLAPS

-----------------------------------------------------------------------------
(***************************************************************************)
(* The registry.  RegistryInv is inductive: its conjuncts are the types,   *)
(* the agreement of handles, loaded workspaces and live files (HandleInv), *)
(* and the agreement of files, graphs and acknowledged writes (FileInv).   *)
(* The three properties the run checks follow from it.                     *)
(***************************************************************************)

\* A path in use is not the mark for no path, and has a ref.
LEMMA PathFacts ==
  ASSUME NEW p \in Paths
  PROVE  p # NoPath /\ RefOf(p) \in Refs
  BY RegistryAssumption DEF Paths, NoPath, NoRef, Refs, RefOf

LEMMA NoPathFacts == NoPath \notin Paths /\ RefOf(NoPath) = NoRef /\ NoRef \notin Refs
  BY RegistryAssumption, PathFacts DEF NoPath, RefOf, NoRef, Refs, Paths

\* The file of a ref and a format under the root that is configured.
LEMMA PathOfFacts ==
  ASSUME RegistryTypeOK, local_workspace_root # NoRoot, NEW r \in Refs, NEW f \in Formats
  PROVE  /\ PathOf(r, f) \in Paths /\ PathOf(r, f) # NoPath /\ RefOf(PathOf(r, f)) = r
         /\ local_workspace_root \in Roots
<1>1. local_workspace_root \in Roots
  BY DEF RegistryTypeOK
<1>2. PathOf(r, f) \in Paths /\ RefOf(PathOf(r, f)) = r
  BY <1>1 DEF PathOf, Paths, RefOf
<1> QED
  BY <1>1, <1>2, PathFacts

LEMMA SavedFacts ==
  ASSUME NEW data \in SUBSET Writes
  PROVE  Saved(data) \in Files /\ Saved(data).exists /\ Saved(data).data = data
  BY DEF Saved, File, Files

-----------------------------------------------------------------------------
(***************************************************************************)
(* Registering a workspace: the handle is new, so nothing refers to it,    *)
(* and the file, if there is one, is not live.                             *)
(***************************************************************************)
LEMMA RegisterTypes ==
  ASSUME RegistryTypeOK, NEW h \in Handles, NEW p \in Paths \cup {NoPath},
         NEW r \in Refs \cup {NoRef}, NEW data \in SUBSET Writes, Register(h, r, p, data)
  PROVE  /\ workspaces' \subseteq Handles
         /\ graph' \in [Handles -> SUBSET Writes]
         /\ autocommit' \in [Handles -> Paths \cup {NoPath}]
         /\ workspace_handles' \in [Handles -> Handles \cup {NoHandle}]
         /\ workspace_refs' \in [Handles -> Refs \cup {NoRef}]
         /\ live_workspace_paths' \in [Paths -> Handles \cup {NoHandle}]
         /\ issued' \subseteq Handles
  BY DEF RegistryTypeOK, Register, Fresh

LEMMA RegisterHandles ==
  ASSUME RegistryTypeOK, HandleInv, NEW h \in Handles, NEW p \in Paths \cup {NoPath},
         NEW data, Register(h, RefOf(p), p, data),
         p # NoPath => live_workspace_paths[p] = NoHandle
  PROVE  HandleInv'
<1> USE RegistryAssumption
<1>1. h \notin workspaces /\ ~Open(h)
  BY DEF Register, Fresh, HandleInv
<1>2. /\ workspaces' = workspaces \cup {h}
      /\ issued' = issued \cup {h}
      /\ \A g \in Handles : workspace_handles'[g] = IF g = h THEN h ELSE workspace_handles[g]
      /\ \A g \in Handles : autocommit'[g] = IF g = h THEN p ELSE autocommit[g]
      /\ \A g \in Handles : workspace_refs'[g] = IF g = h THEN RefOf(p) ELSE workspace_refs[g]
      /\ \A q \in Paths : live_workspace_paths'[q] = IF q = p THEN h ELSE live_workspace_paths[q]
  BY NoPathFacts DEF Register, RegistryTypeOK
<1>3. \A g \in Handles : workspace_handles[g] # h
  BY <1>1 DEF HandleInv, Open
<1>4. \A g \in Handles : Open(g)' =>
        workspace_handles'[g] \in workspaces' /\ g \in issued'
  BY <1>2 DEF HandleInv, Open
<1>5. \A w \in workspaces' : w \in issued' /\ \E g \in Handles : workspace_handles'[g] = w
  <2> TAKE w \in workspaces'
  <2>1. CASE w = h
    BY <2>1, <1>2
  <2>2. CASE w \in workspaces
    <3>1. PICK g \in Handles : workspace_handles[g] = w
      BY <2>2 DEF HandleInv
    <3>2. w \in Handles /\ w # NoHandle
      BY <2>2 DEF RegistryTypeOK
    <3>3. g # h
      BY <3>1, <3>2, <1>1 DEF Open
    <3> QED
      BY <2>2, <3>1, <3>3, <1>2 DEF HandleInv
  <2> QED
    BY <2>1, <2>2, <1>2
<1>6. \A g \in Handles : Open(g)' =>
        workspace_refs'[g] = RefOf(autocommit'[workspace_handles'[g]])
  <2> SUFFICES ASSUME NEW g \in Handles, Open(g)'
               PROVE  workspace_refs'[g] = RefOf(autocommit'[workspace_handles'[g]])
    OBVIOUS
  <2>1. CASE g = h
    BY <2>1, <1>2
  <2>2. CASE g # h
    <3>1. Open(g) /\ workspace_handles'[g] = workspace_handles[g]
      BY <2>2, <1>2 DEF Open
    <3>2. workspace_handles[g] \in Handles /\ workspace_handles[g] # h
      BY <3>1, <1>3 DEF Open, RegistryTypeOK
    <3> QED
      BY <2>2, <3>1, <3>2, <1>2 DEF HandleInv
  <2> QED
    BY <2>1, <2>2
<1>7. \A w \in Handles \ workspaces' : autocommit'[w] = NoPath
  BY <1>2 DEF HandleInv
<1>8. \A q \in Paths, w \in Handles :
        live_workspace_paths'[q] = w <=> w \in workspaces' /\ autocommit'[w] = q
  <2> TAKE q \in Paths, w \in Handles
  <2>1. CASE q = p
    BY <2>1, <1>1, <1>2, PathFacts DEF HandleInv
  <2>2. CASE q # p
    BY <2>2, <1>1, <1>2 DEF HandleInv
  <2> QED
    BY <2>1, <2>2
<1> QED
  BY <1>4, <1>5, <1>6, <1>7, <1>8 DEF HandleInv

\* The acknowledged writes of the file must be in the graph and in the file.
LEMMA RegisterFiles ==
  ASSUME RegistryTypeOK, HandleInv, FileInv,
         NEW h \in Handles, NEW r, NEW p \in Paths \cup {NoPath}, NEW data,
         Register(h, r, p, data), acked' = acked,
         \A q \in Paths : q # p => disk'[q] = disk[q],
         p # NoPath => /\ disk'[p].exists
                       /\ acked[p] \subseteq disk'[p].data
                       /\ acked[p] \subseteq data,
         RefsAreUnambiguous'
  PROVE  FileInv'
<1>1. /\ workspaces' = workspaces \cup {h}
      /\ \A g \in Handles : autocommit'[g] = IF g = h THEN p ELSE autocommit[g]
      /\ \A g \in Handles : graph'[g] = IF g = h THEN data ELSE graph[g]
  BY DEF Register, RegistryTypeOK
<1>2. \A q \in Paths : /\ acked'[q] \subseteq disk'[q].data \/ disk'[q].tail = "broken"
                       /\ ~disk'[q].exists => acked'[q] = {}
  BY NoPathFacts DEF FileInv
<1>3. \A w \in workspaces' : autocommit'[w] # NoPath =>
        disk'[autocommit'[w]].exists /\ acked'[autocommit'[w]] \subseteq graph'[w]
  <2> SUFFICES ASSUME NEW w \in workspaces', autocommit'[w] # NoPath
               PROVE  disk'[autocommit'[w]].exists /\ acked'[autocommit'[w]] \subseteq graph'[w]
    OBVIOUS
  <2>1. CASE w = h
    BY <2>1, <1>1
  <2>2. CASE w # h
    <3>1. w \in workspaces /\ w \in Handles /\ autocommit'[w] = autocommit[w]
          /\ graph'[w] = graph[w] /\ autocommit[w] \in Paths
      BY <2>2, <1>1 DEF RegistryTypeOK
    <3>2. disk[autocommit[w]].exists /\ acked[autocommit[w]] \subseteq graph[w]
      BY <3>1 DEF FileInv
    <3>3. disk'[autocommit[w]].exists
      BY <3>1, <3>2
    <3> QED
      BY <3>1, <3>2, <3>3
  <2> QED
    BY <2>1, <2>2
<1> QED
  BY <1>2, <1>3 DEF FileInv

\* The files as they were keep every ref unambiguous.
LEMMA SameFiles ==
  ASSUME RefsAreUnambiguous, disk' = disk
  PROVE  RefsAreUnambiguous'
  BY DEF RefsAreUnambiguous

\* A new file under a name without file in any format keeps it unambiguous.
LEMMA NewFile ==
  ASSUME RegistryTypeOK, FileInv, NEW r \in Refs, NEW f \in Formats, ~LocalWorkspaceExists(r),
         local_workspace_root # NoRoot, NEW p, p = PathOf(r, f),
         disk' = [disk EXCEPT ![p] = Saved({})]
  PROVE  /\ RefsAreUnambiguous'
         /\ disk' \in [Paths -> Files]
         /\ disk'[p] = Saved({})
         /\ acked[p] = {}
         /\ \A q \in Paths : q # p => disk'[q] = disk[q]
<1>1. p \in Paths /\ local_workspace_root \in Roots
  BY PathOfFacts
<1>2. Saved({}) \in Files
  BY SavedFacts
<1>3. \A q \in Paths : disk'[q] = IF q = p THEN Saved({}) ELSE disk[q]
  BY <1>1 DEF RegistryTypeOK
<1>4. \A e \in Formats : ~disk[PathOf(r, e)].exists
  BY DEF LocalWorkspaceExists
<1>5. RefsAreUnambiguous'
  <2> SUFFICES ASSUME NEW d \in Roots, NEW q \in Refs, NEW e \in Formats, NEW g \in Formats,
                      disk'[<<d, q, e>>].exists, disk'[<<d, q, g>>].exists
               PROVE  e = g
    BY DEF RefsAreUnambiguous
  <2>1. <<d, q, e>> \in Paths /\ <<d, q, g>> \in Paths
    BY DEF Paths
  <2>2. CASE q = r /\ d = local_workspace_root
    <3>1. e = f
      BY <2>1, <2>2, <1>3, <1>4 DEF PathOf
    <3>2. g = f
      BY <2>1, <2>2, <1>3, <1>4 DEF PathOf
    <3> QED
      BY <3>1, <3>2
  <2>3. CASE ~(q = r /\ d = local_workspace_root)
    <3>1. <<d, q, e>> # p /\ <<d, q, g>> # p
      BY <2>3 DEF PathOf
    <3> QED
      BY <2>1, <3>1, <1>3 DEF FileInv, RefsAreUnambiguous
  <2> QED
    BY <2>2, <2>3
<1>6. acked[p] = {}
  BY <1>1, <1>4 DEF FileInv
<1> QED
  BY <1>1, <1>2, <1>3, <1>5, <1>6 DEF RegistryTypeOK

\* A file that is written anew and was there before keeps it unambiguous too.
LEMMA OldFile ==
  ASSUME RegistryTypeOK, FileInv, \A q \in Paths : disk'[q].exists <=> disk[q].exists
  PROVE  RefsAreUnambiguous'
<1>1. \A d \in Roots, r \in Refs, f \in Formats : <<d, r, f>> \in Paths
  BY DEF Paths
<1> QED
  BY <1>1 DEF FileInv, RefsAreUnambiguous

-----------------------------------------------------------------------------
(***************************************************************************)
(* create_workspace and open_workspace.                                    *)
(***************************************************************************)
LEMMA CreateInMemoryInv ==
  ASSUME RegistryInv, NEW h \in Handles, CreateInMemory(h)
  PROVE  RegistryInv'
<1> USE DEF RegistryInv
<1>1. Register(h, RefOf(NoPath), NoPath, {})
  BY NoPathFacts DEF CreateInMemory
<1>2. RegistryTypeOK'
  BY RegisterTypes, NoPathFacts DEF CreateInMemory, nameVars, RegistryTypeOK
<1>3. HandleInv'
  BY <1>1, RegisterHandles
<1>4. FileInv'
  BY <1>1, RegisterFiles, SameFiles DEF CreateInMemory, FileInv
<1> QED
  BY <1>2, <1>3, <1>4

\* The name a creation takes is a ref without file.
LEMMA ChosenFacts ==
  ASSUME RegistryTypeOK, NEW asked \in Refs \cup {NoRef}, NEW r \in Refs, Chosen(asked, r)
  PROVE  /\ ~LocalWorkspaceExists(r) /\ next_workspace_ref_id' \in 0 .. MaxRef
         /\ local_workspace_root # NoRoot
  BY RegistryAssumption DEF Chosen, NextAvailable, RegistryTypeOK, Refs

LEMMA CreateLocalInv ==
  ASSUME RegistryInv, NEW h \in Handles, NEW r \in Refs, NEW f \in Formats,
         NEW asked \in Refs \cup {NoRef}, CreateLocal(h, asked, r, f)
  PROVE  RegistryInv'
<1> USE DEF RegistryInv
<1>0. PICK p : p = PathOf(r, f)
  OBVIOUS
<1>1. p \in Paths /\ RefOf(p) = r /\ p # NoPath
  BY <1>0, ChosenFacts, PathOfFacts DEF CreateLocal
<1>2. Register(h, RefOf(p), p, {}) /\ Chosen(asked, r) /\ acked' = acked
      /\ disk' = [disk EXCEPT ![p] = Saved({})]
  BY <1>0, <1>1 DEF CreateLocal
<1>3. ~LocalWorkspaceExists(r) /\ next_workspace_ref_id' \in 0 .. MaxRef
      /\ local_workspace_root # NoRoot
  BY <1>2, ChosenFacts
<1>4. /\ RefsAreUnambiguous' /\ disk' \in [Paths -> Files] /\ disk'[p] = Saved({})
      /\ acked[p] = {} /\ \A q \in Paths : q # p => disk'[q] = disk[q]
  BY <1>0, <1>2, <1>3, NewFile
<1>5. live_workspace_paths[p] = NoHandle
  <2>1. ~disk[p].exists
    BY <1>0, <1>3 DEF LocalWorkspaceExists
  <2>2. \A w \in workspaces : autocommit[w] # p
    BY <2>1, <1>1 DEF FileInv
  <2> QED
    BY <2>2, <1>1 DEF HandleInv, RegistryTypeOK
<1>6. RegistryTypeOK'
  BY <1>1, <1>2, <1>3, <1>4, RegisterTypes DEF CreateLocal, RegistryTypeOK
<1>7. HandleInv'
  BY <1>1, <1>2, <1>5, RegisterHandles
<1>8. FileInv'
  BY <1>1, <1>2, <1>4, RegisterFiles, SavedFacts
<1> QED
  BY <1>6, <1>7, <1>8

LEMMA CreateLocalFailsInv ==
  ASSUME RegistryInv, NEW r \in Refs, NEW f \in Formats, NEW asked \in Refs \cup {NoRef},
         CreateLocalFails(asked, r, f)
  PROVE  RegistryInv'
<1> USE DEF RegistryInv
<1>1. ~LocalWorkspaceExists(r) /\ next_workspace_ref_id' \in 0 .. MaxRef
      /\ local_workspace_root # NoRoot
  BY ChosenFacts DEF CreateLocalFails
<1>2. CASE disk' = disk
  BY <1>1, <1>2, SameFiles DEF CreateLocalFails, openVars, RegistryTypeOK, HandleInv, Open, FileInv
<1>3. CASE disk' = [disk EXCEPT ![PathOf(r, f)] = Saved({})]
  <2>1. PICK p : p = PathOf(r, f)
    OBVIOUS
  <2>2. /\ RefsAreUnambiguous' /\ disk' \in [Paths -> Files] /\ disk'[p] = Saved({})
        /\ acked[p] = {} /\ \A q \in Paths : q # p => disk'[q] = disk[q]
    BY <1>1, <1>3, <2>1, NewFile
  <2>3. RegistryTypeOK' /\ HandleInv'
    BY <1>1, <2>2 DEF CreateLocalFails, openVars, RegistryTypeOK, HandleInv, Open
  <2>4. \A q \in Paths : /\ acked[q] \subseteq disk'[q].data \/ disk'[q].tail = "broken"
                         /\ ~disk'[q].exists => acked[q] = {}
                         /\ disk[q].exists => disk'[q].exists
    BY <2>2, SavedFacts DEF FileInv
  <2>5. FileInv'
    BY <2>2, <2>4 DEF CreateLocalFails, openVars, FileInv, RegistryTypeOK
  <2> QED
    BY <2>3, <2>5
<1> QED
  BY <1>2, <1>3 DEF CreateLocalFails

\* A second handle on a live file resolves to the workspace that is loaded.
LEMMA OpenLiveInv ==
  ASSUME RegistryInv, NEW h \in Handles, NEW r \in Refs, NEW f \in Formats, OpenLive(h, r, f)
  PROVE  RegistryInv'
<1> USE DEF RegistryInv
<1> DEFINE p == PathOf(r, f)
           id == live_workspace_paths[p]
<1>1. RefOf(p) = r /\ p \in Paths
  BY PathOfFacts DEF OpenLive
<1>2. id \in Handles /\ id \in workspaces /\ autocommit[id] = p
  BY <1>1 DEF OpenLive, Live, HandleInv, RegistryTypeOK
<1>3. ~Open(h) /\ h \notin workspaces
  BY DEF OpenLive, Fresh, HandleInv
<1>4. /\ \A g \in Handles : workspace_handles'[g] = IF g = h THEN id ELSE workspace_handles[g]
      /\ \A g \in Handles : workspace_refs'[g] = IF g = h THEN r ELSE workspace_refs[g]
      /\ issued' = issued \cup {h}
      /\ UNCHANGED <<workspaces, graph, autocommit, live_workspace_paths, disk, acked>>
  BY DEF OpenLive, Live, RegistryTypeOK
<1>5. RegistryTypeOK'
  BY <1>1, <1>2 DEF OpenLive, Live, nameVars, RegistryTypeOK
<1> HIDE DEF p, id
<1>6. \A g \in Handles : Open(g)' => workspace_handles'[g] \in workspaces' /\ g \in issued'
  BY <1>2, <1>4 DEF HandleInv, Open
<1>7. \A w \in workspaces' : w \in issued' /\ \E g \in Handles : workspace_handles'[g] = w
  <2> TAKE w \in workspaces'
  <2>1. PICK g \in Handles : workspace_handles[g] = w
    BY <1>4 DEF HandleInv
  <2>2. g # h
    BY <2>1, <1>3, <1>4, RegistryAssumption DEF Open, RegistryTypeOK
  <2> QED
    BY <2>1, <2>2, <1>4 DEF HandleInv
<1>8. \A g \in Handles : Open(g)' =>
        workspace_refs'[g] = RefOf(autocommit'[workspace_handles'[g]])
  BY <1>1, <1>2, <1>4 DEF HandleInv, Open
<1>9. HandleInv'
  BY <1>4, <1>6, <1>7, <1>8 DEF HandleInv
<1>10. FileInv'
  BY <1>4, SameFiles DEF FileInv
<1> QED
  BY <1>5, <1>9, <1>10

\* A file that can be loaded holds what was acknowledged on it, and its checkpoint
\* keeps that.
LEMMA LoadedFile ==
  ASSUME RegistryInv, NEW p \in Paths, Loadable(p),
         disk' = [disk EXCEPT ![p] = Saved(disk[p].data)]
  PROVE  /\ disk[p].data \in SUBSET Writes
         /\ acked[p] \subseteq disk[p].data
         /\ disk' \in [Paths -> Files]
         /\ disk'[p].exists /\ disk'[p].data = disk[p].data
         /\ \A q \in Paths : q # p => disk'[q] = disk[q]
         /\ \A q \in Paths : disk'[q].exists <=> disk[q].exists
<1>1. disk[p].data \in SUBSET Writes /\ disk \in [Paths -> Files]
  BY DEF RegistryInv, RegistryTypeOK, Files
<1>2. acked[p] \subseteq disk[p].data
  BY DEF RegistryInv, FileInv, Loadable
<1>3. \A q \in Paths : disk'[q] = IF q = p THEN Saved(disk[p].data) ELSE disk[q]
  BY <1>1
<1> QED
  BY <1>1, <1>2, <1>3, SavedFacts DEF Loadable

LEMMA OpenLoadInv ==
  ASSUME RegistryInv, NEW h \in Handles, NEW r \in Refs, NEW f \in Formats, OpenLoad(h, r, f)
  PROVE  RegistryInv'
<1> USE DEF RegistryInv
<1>1. PICK p : p = PathOf(r, f)
  OBVIOUS
<1>2. RefOf(p) = r /\ p \in Paths
  BY <1>1, PathOfFacts DEF OpenLoad
<1>3. Register(h, RefOf(p), p, disk[p].data) /\ live_workspace_paths[p] = NoHandle
      /\ Loadable(p) /\ disk' = [disk EXCEPT ![p] = Saved(disk[p].data)] /\ acked' = acked
  BY <1>1, <1>2 DEF OpenLoad, LoadAndRegister, Live
<1>4. /\ disk[p].data \in SUBSET Writes /\ acked[p] \subseteq disk[p].data
      /\ disk' \in [Paths -> Files] /\ disk'[p].exists /\ disk'[p].data = disk[p].data
      /\ \A q \in Paths : q # p => disk'[q] = disk[q]
      /\ \A q \in Paths : disk'[q].exists <=> disk[q].exists
  BY <1>2, <1>3, LoadedFile
<1>5. RegistryTypeOK'
  BY <1>2, <1>3, <1>4, RegisterTypes DEF OpenLoad, LoadAndRegister, nameVars, RegistryTypeOK
<1>6. HandleInv'
  BY <1>2, <1>3, RegisterHandles
<1>7. FileInv'
  BY <1>2, <1>3, <1>4, RegisterFiles, OldFile
<1> QED
  BY <1>5, <1>6, <1>7

LEMMA OpenLoadFailsInv ==
  ASSUME RegistryInv, NEW r \in Refs, NEW f \in Formats, OpenLoadFails(r, f)
  PROVE  RegistryInv'
<1> USE DEF RegistryInv
<1>1. PICK p : p = PathOf(r, f)
  OBVIOUS
<1>2. p \in Paths
  BY <1>1, PathOfFacts DEF OpenLoadFails
<1>3. Loadable(p) /\ disk' = [disk EXCEPT ![p] = Saved(disk[p].data)]
      /\ UNCHANGED <<openVars, graph, nameVars, issued, acked>>
  BY <1>1 DEF OpenLoadFails
<1>4. /\ disk[p].data \in SUBSET Writes /\ acked[p] \subseteq disk[p].data
      /\ disk' \in [Paths -> Files] /\ disk'[p].exists /\ disk'[p].data = disk[p].data
      /\ \A q \in Paths : q # p => disk'[q] = disk[q]
      /\ \A q \in Paths : disk'[q].exists <=> disk[q].exists
  BY <1>2, <1>3, LoadedFile
<1>5. RegistryTypeOK' /\ HandleInv'
  BY <1>3, <1>4 DEF openVars, nameVars, RegistryTypeOK, HandleInv, Open
<1>6. \A q \in Paths : /\ acked[q] \subseteq disk'[q].data \/ disk'[q].tail = "broken"
                       /\ ~disk'[q].exists => acked[q] = {}
  BY <1>4 DEF FileInv
<1>7. FileInv'
  BY <1>3, <1>4, <1>6, OldFile DEF openVars, FileInv, RegistryTypeOK
<1> QED
  BY <1>5, <1>7

LEMMA OpenSnapshotInv ==
  ASSUME RegistryInv, NEW h \in Handles, NEW s \in local_snapshots, NEW f \in Formats,
         OpenSnapshot(h, s, f)
  PROVE  RegistryInv'
<1> USE DEF RegistryInv
<1>1. Register(h, RefOf(NoPath), NoPath, s.data) /\ s.data \in SUBSET Writes
  BY NoPathFacts DEF OpenSnapshot, RegistryTypeOK
<1>2. RegistryTypeOK'
  BY <1>1, RegisterTypes, NoPathFacts DEF OpenSnapshot, nameVars, RegistryTypeOK
<1>3. HandleInv'
  BY <1>1, RegisterHandles
<1>4. FileInv'
  BY <1>1, RegisterFiles, SameFiles DEF OpenSnapshot, FileInv
<1> QED
  BY <1>2, <1>3, <1>4

-----------------------------------------------------------------------------
(***************************************************************************)
(* execute_runtime: whatever is written to the file of the workspace, the  *)
(* acknowledged writes are part of it.                                     *)
(***************************************************************************)
\* A file is there, and holds the writes in A unless it is broken.
Keeps(file, A) == file \in Files /\ file.exists /\ (A \subseteq file.data \/ file.tail = "broken")

LEMMA MutateInv ==
  ASSUME RegistryInv, NEW h \in Handles, NEW w \in Writes, NEW file, Mutate(h, w, file),
         acked' \in [Paths -> SUBSET Writes], NEW p, p = autocommit[workspace_handles[h]],
         p # NoPath => Keeps(file, acked'[p]) /\ acked'[p] \subseteq acked[p] \cup {w},
         \A q \in Paths : q # p => acked'[q] = acked[q]
  PROVE  RegistryInv'
<1> USE DEF RegistryInv
<1> DEFINE id == workspace_handles[h]
<1>1. id \in Handles /\ id \in workspaces /\ p \in Paths \cup {NoPath}
  BY DEF Mutate, Open, HandleInv, RegistryTypeOK
<1>2. p # NoPath => p \in Paths /\ disk[p].exists /\ acked[p] \subseteq graph[id]
  BY <1>1 DEF FileInv
<1>3. /\ UNCHANGED <<openVars, nameVars, issued>>
      /\ \A g \in Handles : graph'[g] = IF g = id THEN graph[id] \cup {w} ELSE graph[g]
      /\ graph' \in [Handles -> SUBSET Writes]
  BY <1>1 DEF Mutate, RegistryTypeOK
<1>4. /\ disk' \in [Paths -> Files]
      /\ \A q \in Paths : disk'[q] = IF q = p THEN file ELSE disk[q]
      /\ p # NoPath => file.exists
  <2>2. CASE p = NoPath
    BY <2>2, NoPathFacts DEF Mutate, RegistryTypeOK
  <2>3. CASE p # NoPath
    BY <2>3, <1>2 DEF Mutate, RegistryTypeOK, Keeps
  <2> QED
    BY <2>2, <2>3 DEF Keeps
<1>5. /\ p # NoPath => /\ acked'[p] \subseteq file.data \/ file.tail = "broken"
                       /\ acked'[p] \subseteq acked[p] \cup {w}
      /\ \A q \in Paths : q # p => acked'[q] = acked[q]
  BY DEF Keeps
<1>0. p = autocommit[id]
  OBVIOUS
<1> HIDE DEF id
<1>6. RegistryTypeOK' /\ HandleInv'
  BY <1>3, <1>4 DEF openVars, nameVars, RegistryTypeOK, HandleInv, Open
<1>7. \A q \in Paths : disk[q].exists => disk'[q].exists
  BY <1>4, NoPathFacts
<1>8. \A q \in Paths : /\ acked'[q] \subseteq disk'[q].data \/ disk'[q].tail = "broken"
                       /\ ~disk'[q].exists => acked'[q] = {}
  <2> TAKE q \in Paths
  <2>1. CASE q = p
    BY <2>1, <1>4, <1>5, NoPathFacts
  <2>2. CASE q # p
    BY <2>2, <1>4, <1>5 DEF FileInv
  <2> QED
    BY <2>1, <2>2
<1>9. \A v \in workspaces' : autocommit'[v] # NoPath =>
        disk'[autocommit'[v]].exists /\ acked'[autocommit'[v]] \subseteq graph'[v]
  <2> SUFFICES ASSUME NEW v \in workspaces, autocommit[v] # NoPath
               PROVE  disk'[autocommit[v]].exists /\ acked'[autocommit[v]] \subseteq graph'[v]
    BY <1>3 DEF openVars
  <2>1. /\ v \in Handles /\ autocommit[v] \in Paths
        /\ disk[autocommit[v]].exists /\ acked[autocommit[v]] \subseteq graph[v]
    BY DEF FileInv, RegistryTypeOK
  <2>2. CASE v = id
    <3>1. autocommit[v] = p
      BY <2>2, <1>0
    <3> QED
      BY <2>1, <2>2, <3>1, <1>3, <1>5, <1>7
  <2>3. CASE v # id
    <3>1. autocommit[v] # p
      BY <2>1, <2>3, <1>0, <1>1 DEF HandleInv
    <3> QED
      BY <2>1, <2>3, <3>1, <1>3, <1>5, <1>7
  <2> QED
    BY <2>2, <2>3
<1>10. RefsAreUnambiguous'
  <2>1. \A q \in Paths : disk'[q].exists <=> disk[q].exists
    <3> TAKE q \in Paths
    <3>1. CASE q = p
      BY <3>1, <1>2, <1>4, NoPathFacts
    <3>2. CASE q # p
      BY <3>2, <1>4
    <3> QED
      BY <3>1, <3>2
  <2> QED
    BY <2>1, OldFile
<1> QED
  BY <1>6, <1>8, <1>9, <1>10 DEF FileInv

\* The file of a workspace and its graph
LEMMA ContentsFacts ==
  ASSUME RegistryInv, NEW h \in Handles, Open(h)
  PROVE  /\ FileOf(h) \in Files /\ GraphOf(h) \subseteq Writes
         /\ autocommit[workspace_handles[h]] # NoPath =>
              /\ autocommit[workspace_handles[h]] \in Paths
              /\ FileOf(h).exists
              /\ acked[autocommit[workspace_handles[h]]] \subseteq FileOf(h).data
                   \/ FileOf(h).tail = "broken"
              /\ acked[autocommit[workspace_handles[h]]] \subseteq GraphOf(h)
<1> DEFINE id == workspace_handles[h]
           p  == autocommit[id]
<1>1. id \in Handles /\ id \in workspaces /\ p \in Paths \cup {NoPath}
  BY DEF RegistryInv, Open, HandleInv, RegistryTypeOK
<1>2. graph[id] \subseteq Writes /\ (p \in Paths => disk[p] \in Files) /\ Absent \in Files
  BY <1>1 DEF RegistryInv, RegistryTypeOK, Files, Absent
<1>3. p # NoPath => /\ acked[p] \subseteq disk[p].data \/ disk[p].tail = "broken"
                    /\ acked[p] \subseteq graph[id] /\ disk[p].exists
  BY <1>1 DEF RegistryInv, FileInv
<1> QED
  BY <1>1, <1>2, <1>3 DEF FileOf, GraphOf

\* What an append leaves: a file that holds what it held and the write, unless it
\* is broken; or, when only part of the line is there, what it held.
LEMMA AppendFacts ==
  ASSUME NEW file \in Files, NEW w \in Writes, NEW A,
         A \subseteq file.data \/ file.tail = "broken", file.exists
  PROVE  /\ Appended(file, w) \in Files /\ Appended(file, w).exists
         /\ A \cup {w} \subseteq Appended(file, w).data \/ Appended(file, w).tail = "broken"
         /\ TornBy(file) \in Files /\ TornBy(file).exists
         /\ A \subseteq TornBy(file).data \/ TornBy(file).tail = "broken"
<1>1. CASE file.tail = "clean"
  BY <1>1 DEF Files, File, Appended, TornBy
<1>2. CASE file.tail # "clean"
  BY <1>2 DEF Files, File, Appended, TornBy
<1> QED
  BY <1>1, <1>2

\* What acknowledging a write adds
LEMMA AcknowledgeFacts ==
  ASSUME RegistryInv, NEW h \in Handles, NEW w \in Writes, Open(h), Acknowledge(h, w)
  PROVE  /\ acked' \in [Paths -> SUBSET Writes]
         /\ LET p == autocommit[workspace_handles[h]]
            IN  /\ p # NoPath => acked'[p] = acked[p] \cup {w}
                /\ \A q \in Paths : q # p => acked'[q] = acked[q]
<1> DEFINE p == autocommit[workspace_handles[h]]
<1>1. p # NoPath => p \in Paths
  BY ContentsFacts
<1>2. acked \in [Paths -> SUBSET Writes]
  BY DEF RegistryInv, RegistryTypeOK
<1>3. acked' = IF p = NoPath THEN acked ELSE [acked EXCEPT ![p] = acked[p] \cup {w}]
  BY DEF Acknowledge
<1> HIDE DEF p
<1>4. /\ acked' \in [Paths -> SUBSET Writes]
      /\ p # NoPath => acked'[p] = acked[p] \cup {w}
      /\ \A q \in Paths : q # p => acked'[q] = acked[q]
  BY <1>1, <1>2, <1>3
<1> QED
  BY <1>4 DEF p

LEMMA ExecuteInv ==
  ASSUME RegistryInv, NEW h \in Handles, NEW w \in Writes,
         \/ ExecuteAppends(h, w) \/ ExecuteCheckpoints(h, w)
         \/ ExecuteAppendFails(h, w) \/ ExecuteCheckpointFails(h, w)
  PROVE  RegistryInv'
<1>1. Open(h)
  BY DEF ExecuteAppends, ExecuteCheckpoints, ExecuteAppendFails, ExecuteCheckpointFails, Mutate
<1>2. PICK p : p = autocommit[workspace_handles[h]]
  OBVIOUS
<1>3. /\ FileOf(h) \in Files /\ GraphOf(h) \subseteq Writes
      /\ p # NoPath => Keeps(FileOf(h), acked[p]) /\ acked[p] \subseteq GraphOf(h)
  BY <1>1, <1>2, ContentsFacts DEF Keeps
<1>4. acked \in [Paths -> SUBSET Writes]
  BY DEF RegistryInv, RegistryTypeOK
<1>5. ASSUME NEW file, p # NoPath => Keeps(file, acked[p]), acked' = acked, Mutate(h, w, file)
      PROVE  RegistryInv'
  BY <1>2, <1>4, <1>5, MutateInv
<1>6. ASSUME NEW file, p # NoPath => Keeps(file, acked[p] \cup {w}),
             Acknowledge(h, w), Mutate(h, w, file)
      PROVE  RegistryInv'
  <2>1. /\ acked' \in [Paths -> SUBSET Writes]
        /\ p # NoPath => acked'[p] = acked[p] \cup {w}
        /\ \A q \in Paths : q # p => acked'[q] = acked[q]
    BY <1>1, <1>2, <1>6, AcknowledgeFacts
  <2>2. p # NoPath => Keeps(file, acked'[p]) /\ acked'[p] \subseteq acked[p] \cup {w}
    BY <1>6, <2>1
  <2> QED
    BY <1>2, <1>6, <2>1, <2>2, MutateInv
<1>7. p # NoPath => /\ Keeps(Appended(FileOf(h), w), acked[p] \cup {w})
                    /\ Keeps(Appended(FileOf(h), w), acked[p])
                    /\ Keeps(TornBy(FileOf(h)), acked[p])
  BY <1>3, AppendFacts DEF Keeps
<1>8. p # NoPath => /\ Keeps(Saved(GraphOf(h) \cup {w}), acked[p] \cup {w})
                    /\ Keeps(Saved(GraphOf(h) \cup {w}), acked[p])
  BY <1>3, SavedFacts DEF Keeps
<1>9. CASE ExecuteAppends(h, w)
  BY <1>9, <1>7, <1>6 DEF ExecuteAppends
<1>10. CASE ExecuteCheckpoints(h, w)
  BY <1>10, <1>8, <1>6 DEF ExecuteCheckpoints
<1>11. CASE ExecuteAppendFails(h, w)
  <2>1. PICK file \in {FileOf(h), TornBy(FileOf(h)), Appended(FileOf(h), w)} : Mutate(h, w, file)
    BY <1>11 DEF ExecuteAppendFails
  <2>2. p # NoPath => Keeps(file, acked[p])
    BY <2>1, <1>3, <1>7
  <2> QED
    BY <1>5, <1>11, <2>1, <2>2 DEF ExecuteAppendFails
<1>12. CASE ExecuteCheckpointFails(h, w)
  <2>1. PICK file \in {Appended(FileOf(h), w), Saved(GraphOf(h) \cup {w})} : Mutate(h, w, file)
    BY <1>12 DEF ExecuteCheckpointFails
  <2>2. p # NoPath => Keeps(file, acked[p])
    BY <2>1, <1>7, <1>8
  <2> QED
    BY <1>5, <1>12, <2>1, <2>2 DEF ExecuteCheckpointFails
<1> QED
  BY <1>9, <1>10, <1>11, <1>12

-----------------------------------------------------------------------------
(***************************************************************************)
(* close_workspace: only the last handle takes the workspace with it.      *)
(***************************************************************************)
LEMMA CloseInv ==
  ASSUME RegistryInv, NEW h \in Handles, Close(h)
  PROVE  RegistryInv'
<1> USE DEF RegistryInv
<1> DEFINE id == workspace_handles[h]
<1>1. id \in Handles /\ id \in workspaces /\ id # NoHandle
  BY RegistryAssumption DEF Close, Open, HandleInv, RegistryTypeOK
<1>2. /\ \A g \in Handles : workspace_handles'[g] = IF g = h THEN NoHandle ELSE workspace_handles[g]
      /\ \A g \in Handles : workspace_refs'[g] = IF g = h THEN NoRef ELSE workspace_refs[g]
      /\ UNCHANGED <<nameVars, disk, issued, acked>>
  BY DEF Close, RegistryTypeOK
<1>3. RegistryTypeOK'
  BY <1>1 DEF Close, nameVars, RegistryTypeOK
<1>4. CASE LastHandle(h)
  <2>1. /\ workspaces' = workspaces \ {id}
        /\ \A g \in Handles : graph'[g] = IF g = id THEN {} ELSE graph[g]
        /\ \A g \in Handles : autocommit'[g] = IF g = id THEN NoPath ELSE autocommit[g]
        /\ \A q \in Paths : live_workspace_paths'[q] =
              IF live_workspace_paths[q] = id THEN NoHandle ELSE live_workspace_paths[q]
    BY <1>4, <1>1 DEF Close, RegistryTypeOK
  <2>2. \A g \in Handles : g # h => workspace_handles[g] # id
    BY <1>4 DEF LastHandle
  <2> HIDE DEF id
  <2>3. \A g \in Handles : Open(g)' => workspace_handles'[g] \in workspaces' /\ g \in issued'
    BY <1>2, <2>1, <2>2 DEF HandleInv, Open
  <2>4. \A w \in workspaces' : w \in issued' /\ \E g \in Handles : workspace_handles'[g] = w
    <3> TAKE w \in workspaces'
    <3>1. PICK g \in Handles : workspace_handles[g] = w
      BY <2>1 DEF HandleInv
    <3>2. g # h
      BY <3>1, <2>1 DEF id
    <3> QED
      BY <3>1, <3>2, <1>2, <2>1 DEF HandleInv
  <2>5. \A g \in Handles : Open(g)' =>
          workspace_refs'[g] = RefOf(autocommit'[workspace_handles'[g]])
    <3> SUFFICES ASSUME NEW g \in Handles, Open(g)'
                 PROVE  workspace_refs'[g] = RefOf(autocommit'[workspace_handles'[g]])
      OBVIOUS
    <3>1. g # h /\ Open(g) /\ workspace_handles'[g] = workspace_handles[g]
      BY <1>2 DEF Open
    <3>2. workspace_handles[g] \in Handles /\ workspace_handles[g] # id
      BY <3>1, <2>2 DEF Open, RegistryTypeOK
    <3> QED
      BY <3>1, <3>2, <1>2, <2>1 DEF HandleInv
  <2>6. \A w \in Handles \ workspaces' : autocommit'[w] = NoPath
    BY <2>1 DEF HandleInv
  <2>7. \A q \in Paths, w \in Handles :
          live_workspace_paths'[q] = w <=> w \in workspaces' /\ autocommit'[w] = q
    <3> TAKE q \in Paths, w \in Handles
    <3>1. w # NoHandle
      BY RegistryAssumption
    <3>2. live_workspace_paths[q] = w <=> w \in workspaces /\ autocommit[w] = q
      BY DEF HandleInv
    <3>3. CASE w = id
      BY <3>1, <3>3, <2>1, NoPathFacts
    <3>4. CASE w # id
      BY <3>1, <3>2, <3>4, <2>1
    <3> QED
      BY <3>3, <3>4
  <2>8. HandleInv'
    BY <2>3, <2>4, <2>5, <2>6, <2>7 DEF HandleInv
  <2>9. \A w \in workspaces' : /\ w \in workspaces /\ autocommit'[w] = autocommit[w]
                               /\ graph'[w] = graph[w]
    BY <2>1 DEF RegistryTypeOK
  <2>10. FileInv'
    BY <1>2, <2>9, SameFiles DEF FileInv
  <2> QED
    BY <1>3, <2>8, <2>10
<1>5. CASE ~LastHandle(h)
  <2>1. UNCHANGED <<workspaces, graph, autocommit, live_workspace_paths>>
    BY <1>5 DEF Close
  <2>2. PICK other \in Handles : other # h /\ workspace_handles[other] = id
    BY <1>5 DEF LastHandle
  <2> HIDE DEF id
  <2>3. \A w \in workspaces' : w \in issued' /\ \E g \in Handles : workspace_handles'[g] = w
    <3> TAKE w \in workspaces'
    <3>1. PICK g \in Handles : workspace_handles[g] = w
      BY <2>1 DEF HandleInv
    <3>2. \E k \in Handles : k # h /\ workspace_handles[k] = w
      BY <3>1, <2>2 DEF id
    <3> QED
      BY <3>2, <1>2, <2>1 DEF HandleInv
  <2>4. HandleInv'
    BY <1>2, <2>1, <2>3 DEF HandleInv, Open
  <2>5. FileInv'
    BY <1>2, <2>1, SameFiles DEF FileInv
  <2> QED
    BY <1>3, <2>4, <2>5
<1> QED
  BY <1>4, <1>5

-----------------------------------------------------------------------------
(***************************************************************************)
(* The invariant, and the properties that follow from it.                  *)
(***************************************************************************)
LEMMA InitInv == RegistryInit => RegistryInv
<1> SUFFICES ASSUME RegistryInit PROVE RegistryInv
  OBVIOUS
<1>1. Absent \in Files
  BY DEF Absent, Files
<1>2. RegistryTypeOK
  <2>1. 0 \in 0 .. MaxRef /\ 0 \in 0 .. MaxSnapshots
    BY RegistryAssumption
  <2>2. /\ graph \in [Handles -> SUBSET Writes]
        /\ autocommit \in [Handles -> Paths \cup {NoPath}]
        /\ workspace_handles \in [Handles -> Handles \cup {NoHandle}]
        /\ workspace_refs \in [Handles -> Refs \cup {NoRef}]
    BY DEF RegistryInit
  <2>3. /\ live_workspace_paths \in [Paths -> Handles \cup {NoHandle}]
        /\ disk \in [Paths -> Files]
        /\ acked \in [Paths -> SUBSET Writes]
    BY <1>1 DEF RegistryInit
  <2> QED
    BY <2>1, <2>2, <2>3 DEF RegistryInit, RegistryTypeOK
<1>3. HandleInv
  BY RegistryAssumption DEF RegistryInit, HandleInv, Open
<1>4. FileInv
  <2>1. RefsAreUnambiguous
    <3>1. \A d \in Roots, r \in Refs, f \in Formats : <<d, r, f>> \in Paths
      BY DEF Paths
    <3> QED
      BY <3>1 DEF RegistryInit, RefsAreUnambiguous, Absent
  <2> QED
    BY <2>1 DEF RegistryInit, FileInv, Absent
<1> QED
  BY <1>2, <1>3, <1>4 DEF RegistryInv

\* The steps that leave handles, workspaces and files alone
LEMMA SideInv ==
  ASSUME RegistryInv,
         \/ \E h \in Handles, f \in Formats : SaveSnapshot(h, f)
         \/ \E d \in Roots : SetLocalWorkspaceRoot(d)
  PROVE  RegistryInv'
<1> USE DEF RegistryInv
<1>1. UNCHANGED <<openVars, graph, disk, issued, acked>>
  BY DEF SaveSnapshot, SetLocalWorkspaceRoot
<1>2. HandleInv' /\ FileInv'
  BY <1>1, SameFiles DEF openVars, HandleInv, Open, FileInv
<1>3. CASE \E d \in Roots : SetLocalWorkspaceRoot(d)
  BY <1>2, <1>3 DEF SetLocalWorkspaceRoot, openVars, RegistryTypeOK
<1>4. ASSUME NEW h \in Handles, NEW f \in Formats, SaveSnapshot(h, f)
      PROVE  RegistryInv'
  <2>1. GraphOf(h) \subseteq Writes
    BY <1>4, ContentsFacts DEF SaveSnapshot
  <2>2. next_snapshot_id' \in 0 .. MaxSnapshots /\ next_snapshot_id + 1 \in 1 .. MaxSnapshots
    BY <1>4, RegistryAssumption DEF SaveSnapshot, RegistryTypeOK
  <2>3. local_snapshots' \subseteq [id : 1 .. MaxSnapshots, format : Formats, data : SUBSET Writes]
    BY <1>4, <2>1, <2>2 DEF SaveSnapshot, RegistryTypeOK
  <2> QED
    BY <1>2, <1>4, <2>2, <2>3 DEF SaveSnapshot, openVars, RegistryTypeOK
<1> QED
  BY <1>3, <1>4

\* A restart forgets every handle; the files and what they hold remain.
LEMMA RestartInv ==
  ASSUME RegistryInv, Restart
  PROVE  RegistryInv'
<1> USE DEF RegistryInv
<1>1. RegistryTypeOK'
  <2>1. 0 \in 0 .. MaxRef /\ 0 \in 0 .. MaxSnapshots
    BY RegistryAssumption
  <2>2. /\ graph' \in [Handles -> SUBSET Writes]
        /\ autocommit' \in [Handles -> Paths \cup {NoPath}]
        /\ workspace_handles' \in [Handles -> Handles \cup {NoHandle}]
        /\ workspace_refs' \in [Handles -> Refs \cup {NoRef}]
        /\ live_workspace_paths' \in [Paths -> Handles \cup {NoHandle}]
    BY DEF Restart
  <2> QED
    BY <2>1, <2>2 DEF Restart, RegistryTypeOK
<1>2. HandleInv'
  BY RegistryAssumption DEF Restart, HandleInv, Open
<1>3. FileInv'
  BY SameFiles DEF Restart, FileInv
<1> QED
  BY <1>1, <1>2, <1>3

LEMMA NextInv == RegistryInv /\ [RegistryNext]_registryVars => RegistryInv'
<1> SUFFICES ASSUME RegistryInv, [RegistryNext]_registryVars PROVE RegistryInv'
  OBVIOUS
<1>1. CASE UNCHANGED registryVars
  BY <1>1, SameFiles DEF registryVars, openVars, nameVars, RegistryInv, RegistryTypeOK,
                         HandleInv, Open, FileInv
<1>2. ASSUME NEW h \in Handles, CreateInMemory(h) PROVE RegistryInv'
  BY <1>2, CreateInMemoryInv
<1>3. ASSUME NEW h \in Handles, NEW r \in Refs, NEW f \in Formats,
             NEW asked \in Refs \cup {NoRef}, CreateLocal(h, asked, r, f)
      PROVE  RegistryInv'
  BY <1>3, CreateLocalInv
<1>4. ASSUME NEW r \in Refs, NEW f \in Formats, NEW asked \in Refs \cup {NoRef},
             CreateLocalFails(asked, r, f)
      PROVE  RegistryInv'
  BY <1>4, CreateLocalFailsInv
<1>5. ASSUME NEW h \in Handles, NEW r \in Refs, NEW f \in Formats, OpenLive(h, r, f)
      PROVE  RegistryInv'
  BY <1>5, OpenLiveInv
<1>6. ASSUME NEW h \in Handles, NEW r \in Refs, NEW f \in Formats, OpenLoad(h, r, f)
      PROVE  RegistryInv'
  BY <1>6, OpenLoadInv
<1>12. ASSUME NEW r \in Refs, NEW f \in Formats, OpenLoadFails(r, f) PROVE RegistryInv'
  BY <1>12, OpenLoadFailsInv
<1>7. ASSUME NEW h \in Handles, NEW s \in local_snapshots, NEW f \in Formats,
             OpenSnapshot(h, s, f)
      PROVE  RegistryInv'
  BY <1>7, OpenSnapshotInv
<1>8. ASSUME NEW h \in Handles, NEW w \in Writes,
             \/ ExecuteAppends(h, w) \/ ExecuteCheckpoints(h, w)
             \/ ExecuteAppendFails(h, w) \/ ExecuteCheckpointFails(h, w)
      PROVE  RegistryInv'
  BY <1>8, ExecuteInv
<1>9. ASSUME NEW h \in Handles, Close(h) PROVE RegistryInv'
  BY <1>9, CloseInv
<1>10. CASE \/ \E h \in Handles, f \in Formats : SaveSnapshot(h, f)
            \/ \E d \in Roots : SetLocalWorkspaceRoot(d)
  BY <1>10, SideInv
<1>11. CASE Restart
  BY <1>11, RestartInv
<1> QED
  BY <1>1, <1>2, <1>3, <1>4, <1>5, <1>6, <1>7, <1>8, <1>9, <1>10, <1>11,
     <1>12 DEF RegistryNext, CreateRejected, OpenRejected, ExecuteReads

\* RegistryInv holds in every reachable state, for any handles, refs, formats
\* and writes, and any number of clients.
THEOREM RegistryInvariant == RegistrySpec => []RegistryInv
  BY InitInv, NextInv, PTL DEF RegistrySpec

\* The registry never loses an acknowledged write: not through a second handle,
\* a close, a failed append or checkpoint, another workspace root or a restart
\* (create_workspace, open_workspace, execute_runtime, close_workspace,
\* set_local_workspace_root).  The exception is a log that a live process tore
\* and then appended to, which is never loaded again.
THEOREM UpdatesAreNotLost == RegistrySpec => []NoLostUpdate
<1>1. RegistryInv => NoLostUpdate
  <2> SUFFICES ASSUME RegistryInv PROVE NoLostUpdate
    OBVIOUS
  <2>1. ASSUME NEW p \in Paths PROVE acked[p] \subseteq disk[p].data \/ disk[p].tail = "broken"
    BY <2>1 DEF RegistryInv, FileInv
  <2>2. ASSUME NEW p \in Paths, NEW h \in Handles, Open(h),
               autocommit[workspace_handles[h]] = p
        PROVE  acked[p] \subseteq GraphOf(h)
    <3>1. workspace_handles[h] \in workspaces
      BY <2>2 DEF RegistryInv, HandleInv
    <3>2. p # NoPath
      BY PathFacts
    <3> QED
      BY <2>2, <3>1, <3>2 DEF RegistryInv, FileInv, GraphOf
  <2> QED
    BY <2>1, <2>2 DEF NoLostUpdate
<1> QED
  BY <1>1, RegistryInvariant, PTL

\* No ref ever has files in two formats (local_workspace_exists).
THEOREM RefsStayUnambiguous == RegistrySpec => []RefsAreUnambiguous
<1>1. RegistryInv => RefsAreUnambiguous
  BY DEF RegistryInv, FileInv
<1> QED
  BY <1>1, RegistryInvariant, PTL

\* A file is loaded at most once, and exactly while some handle is open on it
\* (open_workspace, close_workspace).
THEOREM HandlesStayConsistent == RegistrySpec => []HandlesConsistent
<1>1. RegistryInv => HandlesConsistent
  <2> SUFFICES ASSUME RegistryInv PROVE HandlesConsistent
    OBVIOUS
  <2>1. workspaces = {workspace_handles[h] : h \in {g \in Handles : Open(g)}}
    BY RegistryAssumption DEF RegistryInv, HandleInv, Open, RegistryTypeOK
  <2> QED
    BY <2>1 DEF RegistryInv, HandleInv, HandlesConsistent
<1> QED
  BY <1>1, RegistryInvariant, PTL

-----------------------------------------------------------------------------
(***************************************************************************)
(* The service.                                                            *)
(***************************************************************************)

\* The phases in ensure_mandatory_audit_available, the ones before the effect,
\* and the ones that have passed a check.
Waiting == {"probing", "inspecting", "recovered", "cleared", "inspected"}
Before == {"received", "identified", "locked", "authorized", "admitted"}
Known  == {"identified", "locked", "authorized", "admitted"}
Cleared == {"authorized", "admitted"}
Holding == {"locked", "authorized", "admitted"}

\* The answers that promise that nothing happened.
Refusals == {"Refused", "Denied", "NotFound", "AuditSinkUnavailable"}

IsHandler(x) ==
  x \in [phase : {x.phase}, call : {x.call}, principal : {x.principal},
         authoritative : {x.authoritative}, trail : {x.trail}, blind : {x.blind},
         answer : {x.answer}, effect : {x.effect}, name : {x.name}]

AnswerInv(x) ==
  /\ x.phase # "idle" => x.call \in Calls
  /\ x.phase \in Waiting \cup Before => x.answer = "none" /\ x.effect = "none"
  /\ x.phase \in Before => x.call.rpc # "status"
  /\ x.phase \in Waiting => Mandatory
  /\ x.phase \in {"reporting", "unrecorded"} => x.answer \in {"Ok", "Error"}
  /\ x.answer \in Refusals => x.effect = "none"
  /\ ~Mandatory => x.answer # "AuditSinkUnavailable"

TrailInv(x) ==
  Mandatory =>
    /\ x.authoritative = TRUE
    /\ x.phase \in Before => <<"Attempt", "NotApplicable">> \in x.trail
    /\ x.phase \in Known => <<"Authentication", "Allow">> \in x.trail
    /\ x.phase \in Cleared => <<"Authorization", "Allow">> \in x.trail
    /\ x.phase = "admitted" => <<"Admission", "Allow">> \in x.trail

ClearedInv(x) ==
  /\ x.phase \in Holding => ~x.call.malformed
  /\ x.phase \in Cleared => Scoped(x.call) /\ Permitted(x)

\* What the phase of a handler says about it.
HandlerInv(x) == IsHandler(x) /\ AnswerInv(x) /\ TrailInv(x) /\ ClearedInv(x)

HandlersInv ==
  /\ client = [c \in Clients |-> client[c]]
  /\ \A c \in Clients : HandlerInv(client[c])

\* A handler that works on a handle is inside the mutex from the moment it read
\* the workspace's name, and when it is admitted the handle is open.
HoldsLock(x, c) ==
  x.phase \in Holding /\ OnHandle(x.call) =>
    /\ lock = {c}
    /\ x.name = LogName(x.call.handle)
    /\ x.phase = "admitted" => Open(x.call.handle)

LockInv == \A c \in Clients : HoldsLock(client[c], c)

ServiceInv == HandlersInv /\ LockInv

-----------------------------------------------------------------------------
(***************************************************************************)
(* How a handler changes.                                                  *)
(***************************************************************************)
LEMMA Become1 ==
  ASSUME HandlersInv, NEW c \in Clients, NEW y, client' = [client EXCEPT ![c] = y]
  PROVE  /\ client' = [d \in Clients |-> client'[d]]
         /\ client'[c] = y
         /\ \A d \in Clients \ {c} : client'[d] = client[d]
  BY DEF HandlersInv

LEMMA SameProfile ==
  ASSUME profile' = profile, NEW x
  PROVE  HandlerInv(x)' <=> HandlerInv(x)
  BY DEF HandlerInv, IsHandler, AnswerInv, TrailInv, ClearedInv, Mandatory, Scoped, Permitted

LEMMA HandlersStep ==
  ASSUME HandlersInv, profile' = profile, NEW c \in Clients, NEW y,
         client' = [client EXCEPT ![c] = y], HandlerInv(y)
  PROVE  HandlersInv'
<1>1. /\ client' = [d \in Clients |-> client'[d]]
      /\ client'[c] = y
      /\ \A d \in Clients \ {c} : client'[d] = client[d]
  BY Become1
<1>2. ASSUME NEW d \in Clients PROVE HandlerInv(client[d])'
  <2>1. PICK x : x = client'[d]
    OBVIOUS
  <2>2. HandlerInv(x)
    BY <2>1, <1>1 DEF HandlersInv
  <2>3. HandlerInv(x)'
    BY <2>2, SameProfile
  <2> QED
    BY <2>1, <2>3 DEF HandlerInv, IsHandler, AnswerInv, TrailInv, ClearedInv, Mandatory, Scoped,
                      Permitted, OnHandle, NameOf
<1> QED
  BY <1>1, <1>2 DEF HandlersInv

\* The others keep the mutex and the name they read, if a handler outside the
\* mutex takes nothing from the one inside and leaves refs and handles alone.
LEMMA LockStep ==
  ASSUME HandlersInv, LockInv, NEW c \in Clients, NEW y, client' = [client EXCEPT ![c] = y],
         \A d \in Clients \ {c} : lock = {d} =>
           lock' = {d} /\ workspace_refs' = workspace_refs /\ workspace_handles' = workspace_handles,
         HoldsLock(y, c)'
  PROVE  LockInv'
<1>1. /\ client'[c] = y
      /\ \A d \in Clients \ {c} : client'[d] = client[d]
  BY Become1
<1>2. ASSUME NEW d \in Clients PROVE HoldsLock(client[d], d)'
  <2>1. CASE d = c
    BY <1>1, <2>1 DEF HoldsLock, LogName, Open
  <2>2. CASE d # c
    <3>1. HoldsLock(client[d], d)
      BY DEF LockInv
    <3>2. client'[d] = client[d]
      BY <1>1, <2>2
    <3>3. lock = {d} =>
            lock' = {d} /\ workspace_refs' = workspace_refs /\ workspace_handles' = workspace_handles
      BY <2>2
    <3> QED
      BY <3>1, <3>2, <3>3 DEF HoldsLock, LogName, Open
  <2> QED
    BY <2>1, <2>2
<1> QED
  BY <1>2 DEF LockInv

\* A handler that is idle or past its effect says nothing about the mutex.
LEMMA FreeHandler ==
  ASSUME NEW y, NEW c, y.phase \notin Holding
  PROVE  HoldsLock(y, c)'
  BY DEF HoldsLock

\* The handler that has returned.
Returned(answer, effect) == [Idle EXCEPT !.answer = answer, !.effect = effect]

IsIdle(y, answer, effect) ==
  /\ IsHandler(y) /\ y.phase = "idle" /\ y.authoritative = TRUE
  /\ y.answer = answer /\ y.effect = effect

LEMMA IdleFields ==
  ASSUME NEW answer, NEW effect, NEW y, y = Returned(answer, effect)
  PROVE  IsIdle(y, answer, effect)
<1>1. IsHandler(y)
  BY DEF Returned, Idle, IsHandler
<1>2. y.phase = "idle" /\ y.answer = answer /\ y.effect = effect
  BY DEF Returned, Idle
<1>3. y.authoritative = TRUE
  BY DEF Returned, Idle
<1> QED
  BY <1>1, <1>2, <1>3, Zenon DEF IsIdle

LEMMA ReturnedHandler ==
  ASSUME NEW answer, NEW effect, answer \in Refusals => effect = "none",
         ~Mandatory => answer # "AuditSinkUnavailable",
         NEW y, y = Returned(answer, effect)
  PROVE  HandlerInv(y) /\ y.phase = "idle"
<1>1. IsIdle(y, answer, effect)
  BY IdleFields
<1>2. /\ "idle" \notin Before /\ "idle" \notin Known /\ "idle" \notin Cleared
      /\ "idle" \notin Holding /\ "idle" # "admitted" /\ "idle" \notin Waiting
      /\ "idle" \notin Waiting \cup Before /\ "idle" \notin {"reporting", "unrecorded"}
  BY DEF Before, Known, Cleared, Holding, Waiting
<1>3. AnswerInv(y)
  BY <1>1, <1>2, Zenon DEF IsIdle, AnswerInv
<1>4. TrailInv(y)
  BY <1>1, <1>2, Zenon DEF IsIdle, TrailInv
<1>5. ClearedInv(y)
  BY <1>1, <1>2, Zenon DEF IsIdle, ClearedInv
<1> QED
  BY <1>1, <1>3, <1>4, <1>5, Zenon DEF IsIdle, HandlerInv

\* A handler answers: nothing had happened if the answer says so.
LEMMA ReturnInv ==
  ASSUME HandlersInv, LockInv, profile' = profile, NEW c \in Clients, NEW handler, NEW answer,
         Return(c, handler, answer),
         UNCHANGED <<workspace_refs, workspace_handles>>,
         answer \in Refusals => handler.effect = "none",
         ~Mandatory => answer # "AuditSinkUnavailable"
  PROVE  HandlersInv' /\ LockInv'
<1>1. PICK y : y = Returned(answer, handler.effect)
  OBVIOUS
<1>2. client' = [client EXCEPT ![c] = y] /\ lock' \in {lock, lock \ {c}}
  BY <1>1 DEF Returned, Return, Become
<1>3. HandlerInv(y) /\ y.phase = "idle"
  BY <1>1, ReturnedHandler
<1>4. HoldsLock(y, c)'
  BY <1>3, FreeHandler DEF Holding
<1> QED
  BY <1>2, <1>3, <1>4, HandlersStep, LockStep

\* What a record before the effect changes of a handler that goes on.
Advances(handler, record, phase, y) ==
  /\ IsHandler(y) /\ y.phase = phase /\ y.call = handler.call
  /\ y.principal = handler.principal /\ y.name = handler.name
  /\ y.answer = handler.answer /\ y.effect = handler.effect
  /\ Mandatory /\ handler.authoritative = TRUE =>
       y.authoritative = TRUE /\ y.trail = handler.trail \cup {record}

LEMMA AdvancedHandler ==
  ASSUME NEW handler, IsHandler(handler), NEW record, NEW phase,
         NEW h \in Recorded(handler, record), NEW y, y = At(h, phase)
  PROVE  Advances(handler, record, phase, y)
<1> DEFINE added == [handler EXCEPT !.trail = @ \cup {record}]
           silent == [handler EXCEPT !.authoritative = FALSE]
<1>1. h \in {handler, added, silent}
  BY DEF Recorded
<1>2. Mandatory /\ handler.authoritative = TRUE => h = added
  BY DEF Recorded
<1>3. CASE h = handler
  BY <1>2, <1>3 DEF IsHandler, At, Advances
<1>4. CASE h = added
  BY <1>4 DEF IsHandler, At, Advances
<1>5. CASE h = silent
  BY <1>2, <1>5 DEF IsHandler, At, Advances
<1> QED
  BY <1>1, <1>3, <1>4, <1>5

\* A record before the effect: the handler goes on to its next phase, with
\* what that phase says about it, or audit turns it away.
LEMMA RecordInv ==
  ASSUME HandlersInv, LockInv, profile' = profile, NEW c \in Clients,
         NEW handler, NEW record, NEW phase \in Before, Record(c, handler, record, phase),
         UNCHANGED <<workspace_refs, workspace_handles>>,
         IsHandler(handler), handler.answer = "none", handler.effect = "none",
         handler.call \in Calls, handler.call.rpc # "status",
         Mandatory => /\ handler.authoritative = TRUE
                      /\ <<"Attempt", "NotApplicable">> \in handler.trail \cup {record}
                      /\ phase \in Known => <<"Authentication", "Allow">> \in handler.trail \cup {record}
                      /\ phase \in Cleared => <<"Authorization", "Allow">> \in handler.trail \cup {record}
                      /\ phase = "admitted" => <<"Admission", "Allow">> \in handler.trail \cup {record},
         phase \in Holding => ~handler.call.malformed,
         phase \in Cleared => Scoped(handler.call) /\ Permitted(handler),
         phase \in Holding /\ OnHandle(handler.call) =>
           /\ lock = {c}
           /\ handler.name = LogName(handler.call.handle)
           /\ phase = "admitted" => Open(handler.call.handle)
  PROVE  HandlersInv' /\ LockInv'
<1>1. CASE Mandatory /\ Return(c, handler, "AuditSinkUnavailable")
  BY <1>1, ReturnInv
<1>2. ASSUME NEW h \in Recorded(handler, record), Become(c, At(h, phase)), UNCHANGED lock
      PROVE  HandlersInv' /\ LockInv'
  <2>1. PICK y : y = At(h, phase)
    OBVIOUS
  <2>2. client' = [client EXCEPT ![c] = y] /\ lock' \in {lock, lock \ {c}}
    BY <1>2, <2>1 DEF Become
  <2>3. Advances(handler, record, phase, y)
    BY <2>1, AdvancedHandler
  <2>8. Mandatory => y.authoritative = TRUE /\ y.trail = handler.trail \cup {record}
    BY <2>3, Zenon DEF Advances
  <2>4. AnswerInv(y)
    BY <2>3 DEF Advances, AnswerInv, Refusals, Waiting, Before
  <2>5. TrailInv(y)
    BY <2>3, <2>8 DEF Advances, TrailInv
  <2>6. ClearedInv(y)
    BY <2>3 DEF Advances, ClearedInv, Permitted, NameOf
  <2>7. HoldsLock(y, c)'
    BY <1>2, <2>3 DEF Advances, HoldsLock, LogName, Open
  <2> QED
    BY <2>2, <2>3, <2>4, <2>5, <2>6, <2>7, HandlersStep, LockStep DEF Advances, HandlerInv
<1> QED
  BY <1>1, <1>2 DEF Record

\* A recorded refusal.
LEMMA RefuseInv ==
  ASSUME HandlersInv, LockInv, profile' = profile, NEW c \in Clients,
         NEW record, NEW answer, Refuse(c, record, answer),
         UNCHANGED <<workspace_refs, workspace_handles>>,
         client[c].effect = "none", answer # "AuditSinkUnavailable"
  PROVE  HandlersInv' /\ LockInv'
<1>1. CASE Mandatory /\ Return(c, client[c], "AuditSinkUnavailable")
  BY <1>1, ReturnInv
<1>2. ASSUME NEW h \in Recorded(client[c], record), Return(c, h, answer)
      PROVE  HandlersInv' /\ LockInv'
  <2>1. IsHandler(client[c])
    BY DEF HandlersInv, HandlerInv
  <2>2. h.effect = client[c].effect
    BY <2>1 DEF IsHandler, Recorded
  <2> QED
    BY <1>2, <2>2, ReturnInv
<1> QED
  BY <1>1, <1>2 DEF Refuse

-----------------------------------------------------------------------------
(***************************************************************************)
(* One lemma per action before the effect.                                 *)
(***************************************************************************)
\* A handler that has written no record yet.
Starting(x) ==
  /\ IsHandler(x) /\ x.answer = "none" /\ x.effect = "none" /\ x.call \in Calls
  /\ Mandatory => x.authoritative = TRUE

LEMMA StartedHandler ==
  ASSUME NEW call \in Calls, NEW x, x = [Idle EXCEPT !.call = call]
  PROVE  Starting(x) /\ x.call = call
<1>1. IsHandler(x)
  BY DEF Idle, IsHandler
<1>2. x.call = call /\ x.answer = "none" /\ x.effect = "none"
  BY DEF Idle
<1>3. x.authoritative = TRUE
  BY DEF Idle
<1> QED
  BY <1>1, <1>2, <1>3, Zenon DEF Starting

\* A handler inside ensure_mandatory_audit_available.
LEMMA WaitInv ==
  ASSUME HandlersInv, LockInv, profile' = profile, NEW c \in Clients, NEW handler,
         Starting(handler), Mandatory, NEW phase \in Waiting,
         Become(c, At(handler, phase)), lock' = lock,
         UNCHANGED <<workspace_refs, workspace_handles>>
  PROVE  HandlersInv' /\ LockInv'
<1>1. PICK y : y = At(handler, phase)
  OBVIOUS
<1>2. client' = [client EXCEPT ![c] = y]
  BY <1>1 DEF Become
<1>3. /\ IsHandler(y) /\ y.phase = phase /\ y.call = handler.call /\ y.answer = handler.answer
      /\ y.effect = handler.effect /\ y.authoritative = handler.authoritative
  BY <1>1 DEF At, Starting, IsHandler
<1>4. /\ phase \notin Before /\ phase \notin Known /\ phase \notin Cleared /\ phase \notin Holding
      /\ phase # "admitted" /\ phase \notin {"reporting", "unrecorded"}
      /\ "none" \notin Refusals /\ "none" # "AuditSinkUnavailable"
  BY DEF Waiting, Before, Known, Cleared, Holding, Refusals
<1>5. AnswerInv(y)
  BY <1>3, <1>4, Zenon DEF Starting, AnswerInv
<1>6. TrailInv(y)
  BY <1>3, <1>4, Zenon DEF Starting, TrailInv
<1>7. ClearedInv(y)
  BY <1>3, <1>4, Zenon DEF ClearedInv
<1>8. HoldsLock(y, c)'
  BY <1>3, <1>4, FreeHandler
<1> QED
  BY <1>2, <1>3, <1>5, <1>6, <1>7, <1>8, HandlersStep, LockStep DEF HandlerInv

\* The Attempt record, or the answer of security_status.
LEMMA AttemptInv ==
  ASSUME HandlersInv, LockInv, profile' = profile, NEW c \in Clients, NEW handler,
         Starting(handler), Attempt(c, handler),
         UNCHANGED <<workspace_refs, workspace_handles>>
  PROVE  HandlersInv' /\ LockInv'
<1>1. CASE handler.call.rpc = "status"
  <2>1. PICK answer \in {"Ok", "Refused"} : Return(c, handler, answer)
    BY <1>1 DEF Attempt
  <2> QED
    BY <2>1, ReturnInv DEF Starting
<1>2. CASE handler.call.rpc # "status"
  <2>1. Record(c, handler, <<"Attempt", "NotApplicable">>, "received")
    BY <1>2 DEF Attempt
  <2>2. "received" \in Before /\ "received" \notin Known /\ "received" \notin Cleared
        /\ "received" \notin Holding /\ "received" # "admitted"
    BY DEF Before, Known, Cleared, Holding
  <2>3. <<"Attempt", "NotApplicable">> \in handler.trail \cup {<<"Attempt", "NotApplicable">>}
    OBVIOUS
  <2>4. /\ IsHandler(handler) /\ handler.answer = "none" /\ handler.effect = "none"
        /\ handler.call \in Calls
    BY DEF Starting
  <2>5. Mandatory => handler.authoritative = TRUE
    BY Zenon DEF Starting
  <2> QED
    BY <1>2, <2>1, <2>2, <2>3, <2>4, <2>5, RecordInv
<1> QED
  BY <1>1, <1>2

\* The load of the flag.
LEMMA CheckInv ==
  ASSUME HandlersInv, LockInv, profile' = profile, NEW c \in Clients, NEW handler,
         Starting(handler), Check(c, handler),
         UNCHANGED <<workspace_refs, workspace_handles>>
  PROVE  HandlersInv' /\ LockInv'
<1>1. CASE Mandatory /\ audit_degraded
  <2>1. Become(c, At(handler, "probing")) /\ lock' = lock
    BY <1>1 DEF Check
  <2>2. "probing" \in Waiting
    BY DEF Waiting
  <2> QED
    BY <1>1, <2>1, <2>2, WaitInv
<1>2. CASE ~(Mandatory /\ audit_degraded)
  <2>1. PICK x : x = [handler EXCEPT !.blind = lost]
    OBVIOUS
  <2>2. /\ IsHandler(x) /\ x.call = handler.call /\ x.answer = handler.answer
        /\ x.effect = handler.effect /\ x.authoritative = handler.authoritative
    BY <2>1 DEF Starting, IsHandler
  <2>3. Starting(x)
    BY <2>2, Zenon DEF Starting
  <2>4. Attempt(c, x)
    BY <1>2, <2>1 DEF Check
  <2> QED
    BY <2>3, <2>4, AttemptInv
<1> QED
  BY <1>1, <1>2

LEMMA StartInv ==
  ASSUME HandlersInv, LockInv, profile' = profile, NEW c \in Clients, NEW handler,
         Starting(handler), StartRequest(c, handler),
         UNCHANGED <<workspace_refs, workspace_handles>>
  PROVE  HandlersInv' /\ LockInv'
<1>1. CASE Check(c, handler)
  BY <1>1, CheckInv
<1>2. CASE Mandatory /\ Return(c, handler, "AuditSinkUnavailable")
  BY <1>2, ReturnInv DEF Starting
<1>3. CASE ~Mandatory /\ Check(c, [handler EXCEPT !.authoritative = FALSE])
  <2>1. PICK x : x = [handler EXCEPT !.authoritative = FALSE]
    OBVIOUS
  <2>2. /\ IsHandler(x) /\ x.call = handler.call /\ x.answer = handler.answer
        /\ x.effect = handler.effect
    BY <2>1 DEF Starting, IsHandler
  <2>3. Starting(x)
    BY <1>3, <2>2, Zenon DEF Starting
  <2> QED
    BY <1>3, <2>1, <2>3, CheckInv
<1> QED
  BY <1>1, <1>2, <1>3 DEF StartRequest

LEMMA ReceiveInv ==
  ASSUME ServiceInv, NEW c \in Clients, NEW call \in Calls, Receive(c, call)
  PROVE  ServiceInv'
<1>1. HandlersInv /\ LockInv
  BY DEF ServiceInv
<1>2. /\ profile' = profile /\ workspace_refs' = workspace_refs
      /\ workspace_handles' = workspace_handles
  BY DEF Receive, registryVars, openVars, securityVars
<1>3. PICK x : x = [Idle EXCEPT !.call = call]
  OBVIOUS
<1>4. Starting(x)
  BY <1>3, StartedHandler
<1>5. CASE Mandatory /\ call.rpc = "inspect"
  <2>1. PICK phase \in {"inspecting", "inspected"} : Become(c, At(x, phase)) /\ lock' = lock
    BY <1>3, <1>5 DEF Receive
  <2>2. phase \in Waiting
    BY DEF Waiting
  <2> QED
    BY <1>1, <1>2, <1>4, <1>5, <2>1, <2>2, WaitInv DEF ServiceInv
<1>6. CASE ~(Mandatory /\ call.rpc = "inspect")
  <2>1. StartRequest(c, x)
    BY <1>3, <1>6 DEF Receive
  <2> QED
    BY <1>1, <1>2, <1>4, <2>1, StartInv DEF ServiceInv
<1> QED
  BY <1>5, <1>6

\* What is known of a handler inside ensure_mandatory_audit_available.
LEMMA WaitingHandler ==
  ASSUME ServiceInv, NEW c \in Clients, client[c].phase \in Waiting
  PROVE  Starting(client[c]) /\ Mandatory
<1>1. HandlerInv(client[c]) /\ client[c].phase # "idle"
  BY DEF ServiceInv, HandlersInv, Waiting
<1>2. client[c].phase \in Waiting \cup Before
  OBVIOUS
<1> QED
  BY <1>1, <1>2, Zenon DEF HandlerInv, AnswerInv, TrailInv, Starting

LEMMA RecoverInv ==
  ASSUME ServiceInv, NEW c \in Clients, Recover(c)
  PROVE  ServiceInv'
<1>1. HandlersInv /\ LockInv
  BY DEF ServiceInv
<1>2. /\ profile' = profile /\ workspace_refs' = workspace_refs
      /\ workspace_handles' = workspace_handles
  BY DEF Recover, Inspect, Probe, ProbeFails, Clear, registryVars, openVars, securityVars
<1>3. client[c].phase \in Waiting
  BY DEF Recover, Inspect, Probe, ProbeFails, Clear, Waiting
<1>4. Starting(client[c]) /\ Mandatory /\ client[c].effect = "none"
  BY <1>3, WaitingHandler DEF Starting
<1>5. CASE StartRequest(c, client[c])
  BY <1>1, <1>2, <1>4, <1>5, StartInv DEF ServiceInv
<1>6. CASE \E phase \in Waiting : Become(c, At(client[c], phase)) /\ lock' = lock
  BY <1>1, <1>2, <1>4, <1>6, WaitInv DEF ServiceInv
<1>7. CASE \E answer : Return(c, client[c], answer)
  BY <1>1, <1>2, <1>4, <1>7, ReturnInv DEF ServiceInv
<1>8. CASE Attempt(c, client[c])
  BY <1>1, <1>2, <1>4, <1>8, AttemptInv DEF ServiceInv
<1> QED
  BY <1>5, <1>6, <1>7, <1>8 DEF Recover, Inspect, Probe, ProbeFails, Clear, Waiting

\* What is known of a handler before its effect.
LEMMA BeforeEffect ==
  ASSUME ServiceInv, NEW c \in Clients, client[c].phase \in Before
  PROVE  /\ IsHandler(client[c]) /\ client[c].answer = "none" /\ client[c].effect = "none"
         /\ client[c].call \in Calls /\ client[c].call.rpc # "status"
         /\ Mandatory => /\ client[c].authoritative = TRUE
                         /\ <<"Attempt", "NotApplicable">> \in client[c].trail
<1>1. HandlerInv(client[c]) /\ client[c].phase # "idle"
  BY DEF ServiceInv, HandlersInv, Before
<1>2. client[c].phase \in Waiting \cup Before
  OBVIOUS
<1> QED
  BY <1>1, <1>2, Zenon DEF HandlerInv, AnswerInv, TrailInv

LEMMA IdentifyInv ==
  ASSUME ServiceInv, NEW c \in Clients, Identify(c)
  PROVE  ServiceInv'
<1>1. HandlersInv /\ LockInv
  BY DEF ServiceInv
<1>2. /\ profile' = profile /\ workspace_refs' = workspace_refs
      /\ workspace_handles' = workspace_handles
  BY DEF Identify, registryVars, openVars, securityVars
<1>3. client[c].phase = "received" /\ client[c].phase \in Before
  BY DEF Identify, Before
<1>4. CASE Refuse(c, <<"Authentication", "Deny">>, "Refused")
  BY <1>1, <1>2, <1>3, <1>4, BeforeEffect, RefuseInv DEF ServiceInv
<1>5. CASE Record(c, [client[c] EXCEPT !.principal = Principal(client[c].call.peer)],
                  <<"Authentication", "Allow">>, "identified")
  <2>1. PICK x : x = [client[c] EXCEPT !.principal = Principal(client[c].call.peer)]
    OBVIOUS
  <2>2. /\ IsHandler(x) /\ x.call = client[c].call /\ x.answer = client[c].answer
        /\ x.effect = client[c].effect /\ x.trail = client[c].trail
        /\ x.authoritative = client[c].authoritative
    BY <2>1, <1>3, BeforeEffect DEF IsHandler
  <2>3. /\ IsHandler(x) /\ x.call \in Calls /\ x.call.rpc # "status"
        /\ x.answer = "none" /\ x.effect = "none"
    BY <1>3, <2>2, BeforeEffect, Zenon
  <2>4. Mandatory =>
          /\ x.authoritative = TRUE
          /\ <<"Attempt", "NotApplicable">> \in x.trail \cup {<<"Authentication", "Allow">>}
          /\ "identified" \in Known =>
               <<"Authentication", "Allow">> \in x.trail \cup {<<"Authentication", "Allow">>}
          /\ "identified" \in Cleared =>
               <<"Authorization", "Allow">> \in x.trail \cup {<<"Authentication", "Allow">>}
          /\ "identified" = "admitted" =>
               <<"Admission", "Allow">> \in x.trail \cup {<<"Authentication", "Allow">>}
    <3>1. "identified" \notin Cleared /\ "identified" # "admitted"
      BY DEF Cleared
    <3> QED
      BY <1>3, <2>2, <3>1, BeforeEffect, Zenon
  <2>5. "identified" \in Before /\ "identified" \notin Cleared /\ "identified" \notin Holding
    BY DEF Before, Cleared, Holding
  <2>6. Record(c, x, <<"Authentication", "Allow">>, "identified")
    BY <1>5, <2>1
  <2>7. HandlersInv' /\ LockInv'
    BY <1>1, <1>2, <2>3, <2>4, <2>5, <2>6, RecordInv
  <2> QED
    BY <2>7 DEF ServiceInv
<1> QED
  BY <1>4, <1>5 DEF Identify

LEMMA MalformedInv ==
  ASSUME ServiceInv, NEW c \in Clients, Malformed(c)
  PROVE  ServiceInv'
<1>1. HandlersInv /\ LockInv
  BY DEF ServiceInv
<1>2. /\ profile' = profile /\ workspace_refs' = workspace_refs
      /\ workspace_handles' = workspace_handles
  BY DEF Malformed, registryVars, openVars, securityVars
<1>3. client[c].phase \in Before /\ Refuse(c, <<"Admission", "Error">>, "Refused")
  BY DEF Malformed, Before
<1> QED
  BY <1>1, <1>2, <1>3, BeforeEffect, RefuseInv DEF ServiceInv

\* The mutex is free when it is taken, and the name is read inside it.
LEMMA LockActionInv ==
  ASSUME ServiceInv, NEW c \in Clients, Lock(c)
  PROVE  ServiceInv'
<1>1. HandlersInv /\ LockInv /\ HandlerInv(client[c])
  BY DEF ServiceInv, HandlersInv
<1>2. /\ profile' = profile /\ workspace_refs' = workspace_refs
      /\ workspace_handles' = workspace_handles
  BY DEF Lock, registryVars, openVars, securityVars
<1>3. /\ client[c].phase = "identified" /\ ~client[c].call.malformed
      /\ lock = {} /\ lock' = {c}
      /\ Become(c, [At(client[c], "locked") EXCEPT !.name = LogName(client[c].call.handle)])
  BY DEF Lock
<1>4. PICK y : y = [At(client[c], "locked") EXCEPT !.name = LogName(client[c].call.handle)]
  OBVIOUS
<1>5. /\ IsHandler(y) /\ y.phase = "locked" /\ y.call = client[c].call
      /\ y.answer = client[c].answer /\ y.effect = client[c].effect /\ y.trail = client[c].trail
      /\ y.authoritative = client[c].authoritative
      /\ y.name = LogName(client[c].call.handle)
  BY <1>1, <1>4 DEF HandlerInv, IsHandler, At
<1>6. /\ "identified" \in Before /\ "identified" \in Known /\ "identified" # "idle"
      /\ "locked" \in Before /\ "locked" \in Known /\ "locked" \notin Cleared
      /\ "locked" # "admitted" /\ "locked" # "idle" /\ "locked" \notin Waiting
      /\ "identified" \in Waiting \cup Before /\ "locked" \notin {"reporting", "unrecorded"}
  BY DEF Before, Known, Cleared, Waiting
<1>7. HandlerInv(y)
  BY <1>1, <1>3, <1>5, <1>6, Zenon DEF HandlerInv, AnswerInv, TrailInv, ClearedInv
<1>8. client' = [client EXCEPT ![c] = y]
  BY <1>3, <1>4 DEF Become
<1>9. HoldsLock(y, c)'
  BY <1>2, <1>3, <1>5, <1>6 DEF HoldsLock, LogName, Open
<1> QED
  BY <1>1, <1>2, <1>3, <1>7, <1>8, <1>9, HandlersStep, LockStep DEF ServiceInv

\* The policy is asked inside the mutex, about the name read there.
LEMMA AuthorizeInv ==
  ASSUME ServiceInv, NEW c \in Clients, Authorize(c)
  PROVE  ServiceInv'
<1>1. HandlersInv /\ LockInv /\ HandlerInv(client[c]) /\ HoldsLock(client[c], c)
  BY DEF ServiceInv, HandlersInv, LockInv
<1>2. /\ profile' = profile /\ workspace_refs' = workspace_refs
      /\ workspace_handles' = workspace_handles
  BY DEF Authorize, registryVars, openVars, securityVars
<1>3. /\ client[c].phase \in {"locked", "identified"}
      /\ OnHandle(client[c].call) => client[c].phase = "locked"
      /\ ~client[c].call.malformed
  BY DEF Authorize
<1>4. client[c].phase \in Before /\ client[c].phase \in Known
  BY <1>3 DEF Before, Known
<1>5. CASE \E record, answer : answer \in {"Refused", "Denied"} /\ Refuse(c, record, answer)
  BY <1>1, <1>2, <1>4, <1>5, BeforeEffect, RefuseInv DEF ServiceInv
<1>6. CASE /\ Scoped(client[c].call) /\ Permitted(client[c])
           /\ Record(c, client[c], <<"Authorization", "Allow">>, "authorized")
  <2>1. Mandatory =>
          /\ client[c].authoritative = TRUE
          /\ <<"Attempt", "NotApplicable">> \in client[c].trail \cup {<<"Authorization", "Allow">>}
          /\ "authorized" \in Known =>
               <<"Authentication", "Allow">> \in client[c].trail \cup {<<"Authorization", "Allow">>}
          /\ "authorized" \in Cleared =>
               <<"Authorization", "Allow">> \in client[c].trail \cup {<<"Authorization", "Allow">>}
          /\ "authorized" = "admitted" =>
               <<"Admission", "Allow">> \in client[c].trail \cup {<<"Authorization", "Allow">>}
    <3>1. "authorized" # "admitted"
      OBVIOUS
    <3> QED
      BY <1>1, <1>4, <3>1, Zenon DEF HandlerInv, TrailInv
  <2>2. "authorized" \in Before /\ "authorized" # "admitted"
    BY DEF Before
  <2>3. OnHandle(client[c].call) =>
          /\ lock = {c}
          /\ client[c].name = LogName(client[c].call.handle)
    BY <1>1, <1>3 DEF HoldsLock, Holding
  <2>4. HandlersInv' /\ LockInv'
    BY <1>1, <1>2, <1>3, <1>4, <1>6, <2>1, <2>2, <2>3, BeforeEffect, RecordInv
  <2> QED
    BY <2>4 DEF ServiceInv
<1> QED
  BY <1>5, <1>6 DEF Authorize

LEMMA AdmitInv ==
  ASSUME ServiceInv, NEW c \in Clients, Admit(c)
  PROVE  ServiceInv'
<1>1. HandlersInv /\ LockInv /\ HandlerInv(client[c]) /\ HoldsLock(client[c], c)
  BY DEF ServiceInv, HandlersInv, LockInv
<1>2. /\ profile' = profile /\ workspace_refs' = workspace_refs
      /\ workspace_handles' = workspace_handles
  BY DEF Admit, registryVars, openVars, securityVars
<1>3. client[c].phase = "authorized"
  BY DEF Admit
<1>4. /\ client[c].phase \in Before /\ client[c].phase \in Known /\ client[c].phase \in Cleared
      /\ client[c].phase \in Holding
  BY <1>3 DEF Before, Known, Cleared, Holding
<1>5. CASE Return(c, client[c], "NotFound")
  <2>1. client[c].effect = "none" /\ "NotFound" # "AuditSinkUnavailable"
    BY <1>4, BeforeEffect
  <2>2. HandlersInv' /\ LockInv'
    BY <1>1, <1>2, <1>5, <2>1, ReturnInv
  <2> QED
    BY <2>2 DEF ServiceInv
<1>6. CASE Refuse(c, <<"Admission", "Deny">>, "Refused")
  BY <1>1, <1>2, <1>4, <1>6, BeforeEffect, RefuseInv DEF ServiceInv
<1>7. CASE /\ OnHandle(client[c].call) => Open(client[c].call.handle)
           /\ Record(c, client[c], <<"Admission", "Allow">>, "admitted")
  <2>1. Mandatory =>
          /\ client[c].authoritative = TRUE
          /\ <<"Attempt", "NotApplicable">> \in client[c].trail \cup {<<"Admission", "Allow">>}
          /\ "admitted" \in Known =>
               <<"Authentication", "Allow">> \in client[c].trail \cup {<<"Admission", "Allow">>}
          /\ "admitted" \in Cleared =>
               <<"Authorization", "Allow">> \in client[c].trail \cup {<<"Admission", "Allow">>}
          /\ "admitted" = "admitted" =>
               <<"Admission", "Allow">> \in client[c].trail \cup {<<"Admission", "Allow">>}
    BY <1>1, <1>4, Zenon DEF HandlerInv, TrailInv
  <2>2. "admitted" \in Before
    BY DEF Before
  <2>3. ~client[c].call.malformed /\ Scoped(client[c].call) /\ Permitted(client[c])
    BY <1>1, <1>4 DEF HandlerInv, ClearedInv
  <2>4. OnHandle(client[c].call) =>
          /\ lock = {c}
          /\ client[c].name = LogName(client[c].call.handle)
          /\ Open(client[c].call.handle)
    BY <1>1, <1>4, <1>7 DEF HoldsLock
  <2>5. HandlersInv' /\ LockInv'
    BY <1>1, <1>2, <1>4, <1>7, <2>1, <2>2, <2>3, <2>4, BeforeEffect, RecordInv
  <2> QED
    BY <2>5 DEF ServiceInv
<1> QED
  BY <1>5, <1>6, <1>7 DEF Admit

-----------------------------------------------------------------------------
(***************************************************************************)
(* The effect and the report.                                              *)
(***************************************************************************)
LEMMA ReportingHandler ==
  ASSUME NEW x, HandlerInv(x), x.phase = "admitted", NEW effect, NEW answer \in {"Ok", "Error"},
         NEW y, y = [At(x, "reporting") EXCEPT !.effect = effect, !.answer = answer]
  PROVE  HandlerInv(y) /\ y.phase \notin Holding
<1>1. /\ IsHandler(y) /\ y.phase = "reporting" /\ y.call = x.call /\ y.answer = answer
      /\ y.effect = effect /\ y.authoritative = x.authoritative
  BY DEF HandlerInv, IsHandler, At
<1>2. /\ "reporting" \notin Before /\ "reporting" \notin Known /\ "reporting" \notin Cleared
      /\ "reporting" \notin Holding /\ "reporting" \notin Waiting /\ "reporting" # "admitted"
      /\ "reporting" \notin Waiting \cup Before
      /\ answer \notin Refusals /\ x.phase # "idle" /\ answer # "AuditSinkUnavailable"
  BY DEF Before, Known, Cleared, Holding, Waiting, Refusals
<1>3. AnswerInv(y)
  BY <1>1, <1>2, Zenon DEF HandlerInv, AnswerInv
<1>4. TrailInv(y) /\ ClearedInv(y)
  BY <1>1, <1>2, Zenon DEF HandlerInv, TrailInv, ClearedInv
<1> QED
  BY <1>1, <1>2, <1>3, <1>4 DEF HandlerInv

\* The effect happens in the mutex, so nobody else relies on a name.
LEMMA EffectInv ==
  ASSUME ServiceInv, NEW c \in Clients, NEW effect, Took(c, effect) \/ Failed(c, effect)
  PROVE  ServiceInv'
<1>1. HandlersInv /\ LockInv /\ HandlerInv(client[c])
  BY DEF ServiceInv, HandlersInv
<1>2. PICK answer \in {"Ok", "Error"} :
        /\ client[c].phase = "admitted" /\ lock \subseteq {c}
        /\ Become(c, [At(client[c], "reporting") EXCEPT !.effect = effect, !.answer = answer])
        /\ UNCHANGED securityVars
  BY DEF Took, Failed
<1>3. PICK y : y = [At(client[c], "reporting") EXCEPT !.effect = effect, !.answer = answer]
  OBVIOUS
<1>4. HandlerInv(y) /\ y.phase \notin Holding
  BY <1>1, <1>2, <1>3, ReportingHandler
<1>5. client' = [client EXCEPT ![c] = y]
  BY <1>2, <1>3 DEF Become
<1>6. HoldsLock(y, c)'
  BY <1>4, FreeHandler
<1>7. \A d \in Clients \ {c} : lock # {d}
  BY <1>2
<1> QED
  BY <1>1, <1>2, <1>4, <1>5, <1>6, <1>7, HandlersStep, LockStep DEF ServiceInv, securityVars

LEMMA UndeliveredInv ==
  ASSUME ServiceInv, NEW c \in Clients, NEW effect, Undelivered(c, effect)
  PROVE  ServiceInv'
<1>1. HandlersInv /\ LockInv
  BY DEF ServiceInv
<1>2. PICK x : x = [client[c] EXCEPT !.effect = effect]
  OBVIOUS
<1>3. lock \subseteq {c} /\ UNCHANGED securityVars /\ Return(c, x, "Error")
  BY <1>2 DEF Undelivered
<1>4. PICK y : y = Returned("Error", x.effect)
  OBVIOUS
<1>5. client' = [client EXCEPT ![c] = y]
  BY <1>3, <1>4 DEF Return, Become, Returned
<1>6. HandlerInv(y) /\ y.phase = "idle"
  BY <1>4, ReturnedHandler DEF Refusals
<1>7. HoldsLock(y, c)'
  BY <1>6, FreeHandler DEF Holding
<1>8. \A d \in Clients \ {c} : lock # {d}
  BY <1>3
<1> QED
  BY <1>1, <1>3, <1>5, <1>6, <1>7, <1>8, HandlersStep, LockStep DEF ServiceInv, securityVars

LEMMA InspectEffectInv ==
  ASSUME ServiceInv, NEW c \in Clients, InspectEffect(c)
  PROVE  ServiceInv'
<1>1. HandlersInv /\ LockInv /\ HandlerInv(client[c])
  BY DEF ServiceInv, HandlersInv
<1>2. /\ client[c].phase = "admitted"
      /\ Become(c, [At(client[c], "reporting") EXCEPT !.effect = "read", !.answer = "Ok"])
      /\ UNCHANGED securityVars /\ lock' = lock
      /\ workspace_refs' = workspace_refs /\ workspace_handles' = workspace_handles
  BY DEF InspectEffect, registryVars, openVars
<1>3. PICK y : y = [At(client[c], "reporting") EXCEPT !.effect = "read", !.answer = "Ok"]
  OBVIOUS
<1>4. HandlerInv(y) /\ y.phase \notin Holding
  BY <1>1, <1>2, <1>3, ReportingHandler
<1>5. client' = [client EXCEPT ![c] = y]
  BY <1>2, <1>3 DEF Become
<1>6. HoldsLock(y, c)'
  BY <1>4, FreeHandler
<1> QED
  BY <1>1, <1>2, <1>4, <1>5, <1>6, HandlersStep, LockStep DEF ServiceInv, securityVars

\* The records of the outcome change neither the answer nor the effect,
\* whether they are kept or lost.
LEMMA FinishInv ==
  ASSUME ServiceInv, NEW c \in Clients, Finish(c)
  PROVE  ServiceInv'
<1>1. HandlersInv /\ LockInv /\ HandlerInv(client[c])
  BY DEF ServiceInv, HandlersInv
<1>2. /\ profile' = profile /\ workspace_refs' = workspace_refs
      /\ workspace_handles' = workspace_handles
      /\ client[c].phase \in {"reporting", "unrecorded"}
  BY DEF Finish, Report, Lose, Degrade, registryVars, openVars, securityVars
<1>3. client[c].answer \in {"Ok", "Error"}
  BY <1>1, <1>2 DEF HandlerInv, AnswerInv
<1>4. CASE Report(c)
  <2>1. Return(c, client[c], client[c].answer)
    BY <1>4 DEF Report
  <2>2. client[c].answer \notin Refusals /\ client[c].answer # "AuditSinkUnavailable"
    BY <1>3 DEF Refusals
  <2> QED
    BY <1>1, <1>2, <2>1, <2>2, ReturnInv DEF ServiceInv
<1>5. CASE Lose(c) \/ Degrade(c)
  <2>1. PICK phase \in {"reporting", "unrecorded"} : Become(c, At(client[c], phase)) /\ lock' = lock
    BY <1>5 DEF Lose, Degrade
  <2>2. PICK y : y = At(client[c], phase)
    OBVIOUS
  <2>3. /\ IsHandler(y) /\ y.phase = phase /\ y.call = client[c].call /\ y.answer = client[c].answer
        /\ y.effect = client[c].effect /\ y.authoritative = client[c].authoritative
    BY <1>1, <2>2 DEF HandlerInv, IsHandler, At
  <2>4. /\ phase \notin Before /\ phase \notin Known /\ phase \notin Cleared
        /\ phase \notin Holding /\ phase \notin Waiting /\ phase # "admitted"
        /\ phase \notin Waiting \cup Before /\ client[c].phase # "idle"
    BY <1>2 DEF Before, Known, Cleared, Holding, Waiting
  <2>5. AnswerInv(y)
    BY <1>1, <1>3, <2>3, <2>4, Zenon DEF HandlerInv, AnswerInv
  <2>6. TrailInv(y) /\ ClearedInv(y)
    BY <1>1, <2>3, <2>4, Zenon DEF HandlerInv, TrailInv, ClearedInv
  <2>7. client' = [client EXCEPT ![c] = y]
    BY <2>1, <2>2 DEF Become
  <2>8. HoldsLock(y, c)'
    BY <2>3, <2>4, FreeHandler
  <2> QED
    BY <1>1, <1>2, <2>1, <2>3, <2>5, <2>6, <2>7, <2>8, HandlersStep, LockStep DEF ServiceInv, HandlerInv
<1> QED
  BY <1>4, <1>5 DEF Finish

\* The operator's steps leave the handlers alone.
LEMMA OperatorInv ==
  ASSUME ServiceInv, ReplaceMappings \/ Configure \/ UNCHANGED vars
  PROVE  ServiceInv'
<1>1. UNCHANGED <<profile, audit_degraded, lost, lock, client, workspace_refs, workspace_handles>>
  BY DEF ReplaceMappings, Configure, SetLocalWorkspaceRoot, vars, registryVars, openVars, securityVars
<1>2. HandlersInv'
  BY <1>1 DEF ServiceInv, HandlersInv, HandlerInv, IsHandler, AnswerInv, TrailInv, ClearedInv,
              Mandatory, Scoped, Permitted
<1>3. LockInv'
  BY <1>1 DEF ServiceInv, LockInv, HoldsLock, LogName, Open
<1> QED
  BY <1>2, <1>3 DEF ServiceInv

LEMMA InitService == Init => ServiceInv
<1> SUFFICES ASSUME Init PROVE ServiceInv
  OBVIOUS
<1>2. PICK y : y = Returned("none", "none")
  OBVIOUS
<1>3. y = Idle
  BY <1>2 DEF Returned, Idle
<1>4. HandlerInv(y) /\ y.phase = "idle"
  BY <1>2, ReturnedHandler DEF Refusals
<1>5. client = [c \in Clients |-> client[c]] /\ \A c \in Clients : client[c] = y
  BY <1>3 DEF Init
<1>6. "idle" \notin Holding
  BY DEF Holding
<1>7. HandlersInv
  BY <1>4, <1>5 DEF HandlersInv
<1>8. LockInv
  BY <1>4, <1>5, <1>6 DEF LockInv, HoldsLock
<1> QED
  BY <1>7, <1>8 DEF ServiceInv

LEMMA NextService == ServiceInv /\ [Next]_vars => ServiceInv'
<1> SUFFICES ASSUME ServiceInv, [Next]_vars PROVE ServiceInv'
  OBVIOUS
<1>1. CASE ReplaceMappings \/ Configure \/ UNCHANGED vars
  BY <1>1, OperatorInv
<1>2. ASSUME NEW c \in Clients, NEW call \in Calls, Receive(c, call) PROVE ServiceInv'
  BY <1>2, ReceiveInv
<1>3. ASSUME NEW c \in Clients, Recover(c) PROVE ServiceInv'
  BY <1>3, RecoverInv
<1>4. ASSUME NEW c \in Clients, Step(c) PROVE ServiceInv'
  BY <1>4, IdentifyInv, MalformedInv, AuthorizeInv, AdmitInv DEF Step
<1>5. ASSUME NEW c \in Clients, Lock(c) PROVE ServiceInv'
  BY <1>5, LockActionInv
<1>6. ASSUME NEW c \in Clients, Effect(c) PROVE ServiceInv'
  <2>1. \/ \E effect : Took(c, effect) \/ Failed(c, effect) \/ Undelivered(c, effect)
        \/ InspectEffect(c)
    BY <1>6 DEF Effect, CreateEffect, OpenEffect, ExecuteEffect, CloseEffect
  <2> QED
    BY <2>1, EffectInv, UndeliveredInv, InspectEffectInv
<1>7. ASSUME NEW c \in Clients, Finish(c) PROVE ServiceInv'
  BY <1>7, FinishInv
<1> QED
  BY <1>1, <1>2, <1>3, <1>4, <1>5, <1>6, <1>7 DEF Next

\* ServiceInv holds in every reachable state, for any number of handlers.
THEOREM ServiceInvariant == Spec => []ServiceInv
  BY InitService, NextService, PTL DEF Spec

\* A refusal, a denial, an unknown handle or a missing audit sink is answered
\* only to requests that changed nothing (audit_append, audit_security_error,
\* audit_append_post_effect, also when the flag is raised or cleared by another
\* handler in between), and a sink that fails refuses nothing where audit is not
\* mandatory.
THEOREM AnswersAreTruthful == Spec => []AnswersMatchEffects
<1>1. ServiceInv => AnswersMatchEffects
  BY DEF ServiceInv, HandlersInv, HandlerInv, AnswerInv, AnswersMatchEffects, Refusals
<1> QED
  BY <1>1, ServiceInvariant, PTL

-----------------------------------------------------------------------------
(***************************************************************************)
(* The service uses the registry by its operations only.                   *)
(***************************************************************************)
\* An admitted call is well formed, so its arguments are ones the registry has.
LEMMA AdmittedCall ==
  ASSUME ServiceInv, NEW c \in Clients, client[c].phase = "admitted"
  PROVE  /\ client[c].call \in Calls /\ ~client[c].call.malformed
         /\ client[c].call.rpc # "status"
         /\ client[c].call.rpc = "create" => client[c].call.ref \in Refs \cup {NoRef}
         /\ client[c].call.rpc = "open" => client[c].call.ref \in Refs
         /\ OnHandle(client[c].call) => client[c].call.handle \in Handles
<1>1. client[c].call \in Calls /\ client[c].call.rpc # "status"
  BY BeforeEffect DEF Before
<1>2. ~client[c].call.malformed
  BY DEF ServiceInv, HandlersInv, HandlerInv, ClearedInv, Holding
<1> QED
  BY <1>1, <1>2, CallsAssumption

LEMMA EffectSteps ==
  ASSUME ServiceInv, NEW c \in Clients, Effect(c)
  PROVE  RegistryNext \/ UNCHANGED registryVars
<1>1. CASE InspectEffect(c)
  BY <1>1 DEF InspectEffect
<1>2. CASE CreateEffect(c)
  <2>1. client[c].phase = "admitted" /\ client[c].call.rpc = "create"
    BY <1>2 DEF CreateEffect, Took, Failed
  <2>2. client[c].call.ref \in Refs \cup {NoRef}
    BY <2>1, AdmittedCall
  <2>3. \/ \E h \in Handles : CreateInMemory(h)
        \/ \E h \in Handles, r \in Refs, f \in Formats : CreateLocal(h, client[c].call.ref, r, f)
        \/ \E r \in Refs, f \in Formats : CreateLocalFails(client[c].call.ref, r, f)
        \/ CreateRejected
    BY <1>2 DEF CreateEffect
  <2> QED
    BY <2>2, <2>3 DEF RegistryNext
<1>3. CASE OpenEffect(c)
  <2>1. client[c].phase = "admitted" /\ client[c].call.rpc = "open"
    BY <1>3 DEF OpenEffect, Took, Failed
  <2>2. client[c].call.ref \in Refs
    BY <2>1, AdmittedCall
  <2>3. \/ \E h \in Handles, f \in Formats : \/ OpenLive(h, client[c].call.ref, f)
                                             \/ OpenLoad(h, client[c].call.ref, f)
        \/ \E f \in Formats : OpenLoadFails(client[c].call.ref, f)
        \/ OpenRejected
    BY <1>3 DEF OpenEffect
  <2> QED
    BY <2>2, <2>3 DEF RegistryNext
<1>4. CASE ExecuteEffect(c)
  <2>1. client[c].phase = "admitted" /\ client[c].call.rpc = "execute"
    BY <1>4 DEF ExecuteEffect, Took, Failed, Undelivered
  <2>2. PICK h \in Handles : h = client[c].call.handle
    BY <2>1, AdmittedCall DEF OnHandle
  <2>3. \/ \E w \in Writes : \/ ExecuteAppends(h, w) \/ ExecuteCheckpoints(h, w)
                             \/ ExecuteAppendFails(h, w) \/ ExecuteCheckpointFails(h, w)
        \/ ExecuteReads(h)
    BY <1>4, <2>2 DEF ExecuteEffect
  <2> QED
    BY <2>3 DEF RegistryNext
<1>5. CASE CloseEffect(c)
  <2>1. client[c].phase = "admitted" /\ client[c].call.rpc = "close"
    BY <1>5 DEF CloseEffect, Took
  <2>2. client[c].call.handle \in Handles /\ Close(client[c].call.handle)
    BY <1>5, <2>1, AdmittedCall DEF OnHandle, CloseEffect
  <2> QED
    BY <2>2 DEF RegistryNext
<1> QED
  BY <1>1, <1>2, <1>3, <1>4, <1>5 DEF Effect

LEMMA ServiceSteps ==
  ASSUME ServiceInv, [Next]_vars
  PROVE  [RegistryNext]_registryVars
<1>1. ASSUME NEW c \in Clients, Effect(c) PROVE [RegistryNext]_registryVars
  BY <1>1, EffectSteps
<1>2. CASE Configure
  BY <1>2 DEF Configure, RegistryNext
<1>3. CASE \/ \E c \in Clients, call \in Calls : Receive(c, call)
           \/ \E c \in Clients : Recover(c) \/ Step(c) \/ Lock(c) \/ Finish(c)
           \/ ReplaceMappings
           \/ UNCHANGED vars
  <2>1. UNCHANGED registryVars
    BY <1>3 DEF Receive, Recover, Inspect, Probe, ProbeFails, Clear, Step, Identify, Malformed,
                Authorize, Admit, Lock, Finish, Report, Lose, Degrade, ReplaceMappings, vars
  <2> QED
    BY <2>1
<1> QED
  BY <1>1, <1>2, <1>3 DEF Next

\* The handlers change workspaces, handles and files only by whole operations
\* of the registry (GrpcWorkspaceService's use of InProcessWorkspaceService).
LEMMA ServiceUsesRegistry == Spec => RegistrySpec
<1>1. Init => RegistryInit
  BY DEF Init
<1>2. ServiceInv /\ [Next]_vars => [RegistryNext]_registryVars
  BY ServiceSteps
<1> QED
  BY <1>1, <1>2, ServiceInvariant, PTL DEF Spec, RegistrySpec

\* So what holds of the registry holds behind the service, whichever clients
\* call concurrently, and whether or not their responses can be delivered: no
\* acknowledged write is lost, no ref is ambiguous and no file is loaded twice.
THEOREM ServiceKeepsRegistry ==
  Spec => [](NoLostUpdate /\ RefsAreUnambiguous /\ HandlesConsistent)
  BY ServiceUsesRegistry, UpdatesAreNotLost, RefsStayUnambiguous, HandlesStayConsistent, PTL

-----------------------------------------------------------------------------
(***************************************************************************)
(* What the policy allowed is what the configuration grants.               *)
(***************************************************************************)
LEMMA PermissionGrants ==
  ASSUME NEW principal, NEW op, HasPermission(Table(Config), principal, op)
  PROVE  Grants(principal, op.workspace, op.action, op.kind, op.model)
<1>1. PICK scope \in ScopeKeys(op) :
        /\ <<principal, scope>> \in DOMAIN Table(Config)
        /\ \E permission \in Table(Config)[<<principal, scope>>] : Matches(permission, op)
  BY DEF HasPermission
<1>2. PICK permission \in Table(Config)[<<principal, scope>>] : Matches(permission, op)
  BY <1>1
<1>3. <<principal, scope>> \in TableKeys(Config)
  BY <1>1 DEF Table
<1>4. Table(Config)[<<principal, scope>>] =
        UNION {Permissions(Config, a) : a \in
                 {b \in Range(Config.assignments) : <<b.principal, b.scope>> = <<principal, scope>>}}
  BY <1>3 DEF Table
<1>5. PICK a \in Range(Config.assignments) :
        <<a.principal, a.scope>> = <<principal, scope>> /\ permission \in Permissions(Config, a)
  BY <1>2, <1>4
<1>6. a.principal = principal /\ a.scope = scope
  BY <1>5
<1>7. Covers(a.scope, op.kind, op.workspace)
  BY <1>6 DEF Covers, ScopeKeys
<1>8. permission.action = op.action /\ SelectorMatches(permission.resource, op.kind, op.model)
  BY <1>2 DEF Matches
<1>9. \/ <<permission.resource.kind, op.kind>> \in {<<"AnyNodeModel", "NodeModel">>,
                                                    <<"AnyEdgeModel", "EdgeModel">>}
      \/ permission.resource.kind = op.kind /\ permission.resource.model = op.model
  BY <1>8 DEF SelectorMatches
<1> QED
  BY <1>5, <1>6, <1>7, <1>8, <1>9 DEF Grants, Permissions

LEMMA OpFields ==
  ASSUME NEW action, NEW kind, NEW workspace, NEW model, NEW op,
         op = Op(action, kind, workspace, model)
  PROVE  op.action = action /\ op.kind = kind /\ op.workspace = workspace /\ op.model = model
  BY DEF Op

\* A request whose operations are all allowed is granted each of them.
LEMMA AllowedGrants ==
  ASSUME NEW principal, NEW ops, Allows(Table(Config), principal, ops),
         NEW place, NEW action, NEW kind, NEW workspace, NEW model,
         <<place, Op(action, kind, workspace, model)>> \in ops
  PROVE  Grants(principal, workspace, action, kind, model)
<1>1. PICK op : op = Op(action, kind, workspace, model)
  OBVIOUS
<1>2. PICK entry \in ops : entry = <<place, op>>
  BY <1>1
<1>3. HasPermission(Table(Config), principal, entry[2]) /\ entry[2] = op
  BY <1>2 DEF Allows
<1>4. Grants(principal, op.workspace, op.action, op.kind, op.model)
  BY <1>3, PermissionGrants
<1> QED
  BY <1>1, <1>4, OpFields

\* The classification of a request leaves out nothing it reads or changes.
LEMMA FindCovered ==
  ASSUME NEW find, NEW workspace, NEW force, NEW t \in ReadsOfFind(find)
  PROVE  \E place : <<place, Op(t[1], t[2], workspace, t[3])>>
                    \in NodeFindOperations(find.model, find.traversals, workspace, force)
<1>1. CASE t = <<"NodeRead", "NodeModel", find.model>>
  BY <1>1 DEF NodeFindOperations
<1>2. CASE \E i \in DOMAIN find.traversals : t \in ReadsOfStep(find.traversals[i])
  <2>1. PICK i \in DOMAIN find.traversals : t \in ReadsOfStep(find.traversals[i])
    BY <1>2
  <2>2. CASE t = <<"EdgeRead", "EdgeModel", find.traversals[i].edge_model>>
    BY <2>2 DEF NodeFindOperations
  <2>3. CASE t = <<"NodeRead", "NodeModel", find.traversals[i].end_model>>
    BY <2>3 DEF NodeFindOperations
  <2> QED
    BY <2>1, <2>2, <2>3 DEF ReadsOfStep
<1> QED
  BY <1>1, <1>2 DEF ReadsOfFind, Range

LEMMA RequestCovered ==
  ASSUME NEW body, body.type \in RequestTypes,
         body.type \in {"Query", "Explain", "Profile"} =>
           body.query.kind \in {"NodeFind", "Traversal", "EdgeFind"},
         NEW workspace, NEW t \in TouchedBy(body)
  PROVE  \E place : <<place, Op(t[1], t[2], workspace, t[3])>>
                    \in SecurityOperations(body, workspace)
<1>1. CASE body.type = "FindNodes"
  <2>1. /\ body.type \notin DOMAIN ModelActions /\ body.type \notin DOMAIN PlainActions
        /\ body.type \notin {"Query", "Explain", "Profile", "ApplyBatch"}
    BY <1>1 DEF ModelActions, PlainActions
  <2>2. SecurityOperations(body, workspace)
          = NodeFindOperations(body.model, body.traversals, workspace, FALSE)
    BY <1>1, <2>1 DEF SecurityOperations
  <2>3. TouchedBy(body) = ReadsOfFind(body)
    BY <1>1, <2>1 DEF TouchedBy
  <2> QED
    BY <2>2, <2>3, FindCovered

<1>2. CASE body.type \in {"Query", "Explain", "Profile"}
  <2>1. /\ body.type \notin DOMAIN ModelActions /\ body.type \notin DOMAIN PlainActions
        /\ body.type # "FindNodes"
    BY <1>2 DEF ModelActions, PlainActions
  <2>2. SecurityOperations(body, workspace) = QueryOperations(body.query, workspace, body.type)
    BY <1>2, <2>1 DEF SecurityOperations
  <2>3. TouchedBy(body) = IF body.query.kind = "EdgeFind"
                          THEN {<<"EdgeRead", "EdgeModel", body.query.model>>}
                          ELSE ReadsOfFind(body.query)
    BY <1>2, <2>1 DEF TouchedBy
  <2>4. CASE body.query.kind = "EdgeFind"
    BY <2>2, <2>3, <2>4 DEF QueryOperations
  <2>5. CASE body.query.kind = "NodeFind"
    <3>1. NodeFindOperations(body.query.model, body.query.traversals, workspace, FALSE)
            \subseteq SecurityOperations(body, workspace)
      BY <2>2, <2>5 DEF QueryOperations
    <3> QED
      BY <2>3, <2>5, <3>1, FindCovered
  <2>6. CASE body.query.kind = "Traversal"
    <3>1. NodeFindOperations(body.query.model, body.query.traversals, workspace, TRUE)
            \subseteq SecurityOperations(body, workspace)
      BY <2>2, <2>6 DEF QueryOperations
    <3> QED
      BY <2>3, <2>6, <3>1, FindCovered
  <2> QED
    BY <1>2, <2>4, <2>5, <2>6
<1>3. CASE body.type = "ApplyBatch"
  <2>1. /\ body.type \notin DOMAIN ModelActions /\ body.type \notin DOMAIN PlainActions
        /\ body.type \notin {"Query", "Explain", "Profile", "FindNodes"}
    BY <1>3 DEF ModelActions, PlainActions
  <2>2. SecurityOperations(body, workspace) = BatchOperations(body.ops, workspace)
    BY <1>3, <2>1 DEF SecurityOperations
  <2>5. TouchedBy(body) =
          {<<ModelActions[op.type][1], ModelActions[op.type][2], op.model>> : op \in Range(body.ops)}
    BY <1>3, <2>1 DEF TouchedBy
  <2>3. PICK op \in Range(body.ops) :
          t = <<ModelActions[op.type][1], ModelActions[op.type][2], op.model>>
    BY <2>5
  <2>4. BatchOperation(op, workspace) = Op(t[1], t[2], workspace, t[3])
    BY <2>3 DEF BatchOperation
  <2> QED
    BY <2>2, <2>4 DEF BatchOperations
<1>4. CASE body.type \in DOMAIN PlainActions
  <2>1. /\ body.type \notin DOMAIN ModelActions
        /\ body.type \notin {"FindNodes", "Query", "Explain", "Profile", "ApplyBatch"}
    BY <1>4 DEF ModelActions, PlainActions
  <2>2. SecurityOperations(body, workspace) =
          {<<0, Op(PlainActions[body.type][1], PlainActions[body.type][2], workspace, NoName)>>}
    BY <1>4, <2>1 DEF SecurityOperations
  <2>3. t = <<PlainActions[body.type][1], PlainActions[body.type][2], NoName>>
    BY <1>4, <2>1 DEF TouchedBy
  <2> QED
    BY <2>2, <2>3
<1>5. CASE body.type \in DOMAIN ModelActions
  <2>1. /\ body.type \notin DOMAIN PlainActions
        /\ body.type \notin {"FindNodes", "Query", "Explain", "Profile", "ApplyBatch"}
    BY <1>5 DEF ModelActions, PlainActions
  <2>2. SecurityOperations(body, workspace) = {<<0, BatchOperation(body, workspace)>>}
    BY <1>5, <2>1 DEF SecurityOperations
  <2>3. t = <<ModelActions[body.type][1], ModelActions[body.type][2], body.model>>
    BY <1>5, <2>1 DEF TouchedBy
  <2>4. BatchOperation(body, workspace) = Op(t[1], t[2], workspace, t[3])
    BY <2>3 DEF BatchOperation
  <2> QED
    BY <2>2, <2>4
<1> QED
  BY <1>1, <1>2, <1>3, <1>4, <1>5 DEF RequestTypes

LEMMA CallCovered ==
  ASSUME NEW call \in Calls, ~call.malformed, call.rpc # "status",
         NEW name, call.rpc \in {"create", "inspect"} => name = ServiceName,
         NEW t \in Touches(call)
  PROVE  \E place : <<place, Op(t[1], t[2], name, t[3])>> \in Operations(call, name)
<1>1. CASE call.rpc = "create"
  BY <1>1 DEF Touches, Operations, ServiceOp
<1>2. CASE call.rpc = "inspect"
  BY <1>2 DEF Touches, Operations, ServiceOp
<1>3. CASE call.rpc = "open"
  BY <1>3 DEF Touches, Operations
<1>4. CASE call.rpc = "close"
  BY <1>4 DEF Touches, Operations
<1>5. CASE call.rpc = "execute"
  <2>1. Touches(call) = TouchedBy(call.body) /\ Operations(call, name) = SecurityOperations(call.body, name)
    BY <1>5 DEF Touches, Operations
  <2>2. /\ call.body.type \in RequestTypes
        /\ call.body.type \in {"Query", "Explain", "Profile"} =>
             call.body.query.kind \in {"NodeFind", "Traversal", "EdgeFind"}
    BY <1>5, CallsAssumption
  <2> QED
    BY <2>1, <2>2, RequestCovered
<1> QED
  BY <1>1, <1>2, <1>3, <1>4, <1>5, CallsAssumption

\* The name an admitted request was authorized for is the name of the workspace
\* it works on: the mutex was held since the name was read.
LEMMA NameIsSubject ==
  ASSUME ServiceInv, RegistryInv, NEW c \in Clients, client[c].phase = "admitted"
  PROVE  NameOf(client[c]) = Subject(client[c].call)
<1>1. CASE OnHandle(client[c].call)
  <2>1. PICK h \in Handles : h = client[c].call.handle
    BY <1>1, AdmittedCall
  <2>2. client[c].name = LogName(h) /\ Open(h)
    BY <1>1, <2>1 DEF ServiceInv, LockInv, HoldsLock, Holding
  <2>3. workspace_refs[h] = RefOf(autocommit[workspace_handles[h]])
    BY <2>2 DEF RegistryInv, HandleInv
  <2>4. autocommit[workspace_handles[h]] \in Paths \cup {NoPath}
    BY <2>2 DEF RegistryInv, RegistryTypeOK, Open
  <2>5. Subject(client[c].call) = IF autocommit[workspace_handles[h]] = NoPath THEN h
                                  ELSE RefOf(autocommit[workspace_handles[h]])
    BY <1>1, <2>1 DEF Subject
  <2>6. LogName(h) = Subject(client[c].call)
    <3>1. CASE autocommit[workspace_handles[h]] = NoPath
      BY <2>3, <2>5, <3>1, NoPathFacts DEF LogName
    <3>2. CASE autocommit[workspace_handles[h]] \in Paths
      BY <2>3, <2>5, <3>2, PathFacts, NoPathFacts DEF LogName
    <3> QED
      BY <2>4, <3>1, <3>2
  <2>7. NameOf(client[c]) = client[c].name
    BY <1>1 DEF NameOf, OnHandle
  <2> QED
    BY <2>2, <2>6, <2>7
<1>2. CASE ~OnHandle(client[c].call) /\ client[c].call.rpc = "open"
  BY <1>2 DEF NameOf, Subject
<1>3. CASE ~OnHandle(client[c].call) /\ client[c].call.rpc # "open"
  BY <1>3 DEF NameOf, Subject
<1> QED
  BY <1>1, <1>2, <1>3

LEMMA AdmittedIsGranted ==
  ASSUME ServiceInv, RegistryInv, NEW c \in Clients, Mandatory, client[c].phase = "admitted"
  PROVE  /\ FourAllowed \subseteq client[c].trail
         /\ \A t \in Touches(client[c].call) :
              Grants(client[c].principal, Subject(client[c].call), t[1], t[2], t[3])
<1>1. HandlerInv(client[c])
  BY DEF ServiceInv, HandlersInv
<1>2. /\ client[c].phase \in Before /\ client[c].phase \in Known /\ client[c].phase \in Cleared
  BY DEF Before, Known, Cleared
<1>3. FourAllowed \subseteq client[c].trail
  BY <1>1, <1>2 DEF HandlerInv, TrailInv, FourAllowed
<1>4. PICK name : name = NameOf(client[c])
  OBVIOUS
<1>5. Allows(Table(Config), client[c].principal, Operations(client[c].call, name))
  BY <1>1, <1>2, <1>4 DEF HandlerInv, ClearedInv, Permitted
<1>6. client[c].call \in Calls /\ ~client[c].call.malformed /\ client[c].call.rpc # "status"
  BY AdmittedCall
<1>7. client[c].call.rpc \in {"create", "inspect"} => name = ServiceName
  BY <1>4 DEF NameOf, OnHandle
<1>8. ASSUME NEW t \in Touches(client[c].call)
      PROVE  Grants(client[c].principal, Subject(client[c].call), t[1], t[2], t[3])
  <2>1. PICK place : <<place, Op(t[1], t[2], name, t[3])>> \in Operations(client[c].call, name)
    BY <1>6, <1>7, <1>8, CallCovered
  <2>2. Grants(client[c].principal, name, t[1], t[2], t[3])
    BY <1>5, <2>1, AllowedGrants
  <2> QED
    BY <1>4, <2>2, NameIsSubject
<1> QED
  BY <1>3, <1>8

\* In the secured profile every effect was recorded four times before it
\* happened, and everything it touches is granted to the authenticated
\* principal in the workspace it really works on (request_security_inputs,
\* security_operations, PermissionTablePolicy::evaluate, and the mutex that
\* execute_workspace and close_workspace hold), for every configuration, every
\* request and any number of concurrent handlers.
THEOREM EffectsAreGranted == Spec => EffectsGranted
<1>1. ServiceInv /\ RegistryInv => \A c \in Clients :
        Mandatory /\ client[c].phase = "admitted"
        => /\ FourAllowed \subseteq client[c].trail
           /\ \A t \in Touches(client[c].call) :
                Grants(client[c].principal, Subject(client[c].call), t[1], t[2], t[3])
  BY AdmittedIsGranted
<1> DEFINE Granted ==
      \A c \in Clients :
        Mandatory /\ client[c].phase = "admitted" /\ client'[c].phase # "admitted"
        => /\ FourAllowed \subseteq client[c].trail
           /\ \A t \in Touches(client[c].call) :
                Grants(client[c].principal, Subject(client[c].call), t[1], t[2], t[3])
<1>2. ServiceInv /\ RegistryInv => [Granted]_vars
  BY <1>1
<1>3. Spec => [](ServiceInv /\ RegistryInv)
  BY ServiceInvariant, ServiceUsesRegistry, RegistryInvariant, PTL
<1> QED
  BY <1>2, <1>3, PTL DEF EffectsGranted
=============================================================================
