--------------------------- MODULE WorkspaceProofs ---------------------------
(***************************************************************************)
(* Proofs about Workspace, for every number of ids, every set of values    *)
(* and models, every checkpoint interval and every combination of faults.  *)
(***************************************************************************)
EXTENDS Workspace, GraphProofs

-----------------------------------------------------------------------------
(***************************************************************************)
(* Type correctness.                                                       *)
(***************************************************************************)
HistoryType ==
  /\ committed \in GraphState
  /\ expect \in [NodeIds -> SUBSET (StoredNode \cup {Absent})]
  /\ issued \in SUBSET NodeIds

\* Whatever a step does to the history keeps its type.
LEMMA HistoryStep ==
  ASSUME TypeOK, Settle \/ Attempt \/ SettleAll \/ UNCHANGED historyVars
  PROVE  HistoryType'
  <1>1. mem \in GraphState /\ \A k \in NodeIds : mem.nodes[k] \in StoredNode \cup {Absent}
    BY DEF TypeOK, GraphState
  <1>2. HistoryType
    BY DEF TypeOK, HistoryType
  <1>3. CASE Settle
    BY <1>1, <1>2, <1>3 DEF Settle, HistoryType
  <1>4. CASE Attempt
    BY <1>1, <1>2, <1>4 DEF Attempt, HistoryType
  <1>5. CASE SettleAll
    BY <1>1, <1>2, <1>5 DEF SettleAll, HistoryType
  <1>6. CASE UNCHANGED historyVars
    BY <1>2, <1>6 DEF historyVars, HistoryType
  <1>7. QED
    BY <1>3, <1>4, <1>5, <1>6

\* A dropped workspace has the types of a fresh one.
LEMMA ForgetType ==
  ASSUME Forget
  PROVE  /\ pc' = "closed" /\ mem' \in GraphState /\ undo' \in GraphState
         /\ ops' = << >> /\ atomic' \in BOOLEAN /\ pending' = 0
         /\ purpose' = "open" /\ replayed' = 0
  BY EmptyGraphType DEF Forget

\* Appending a line to the log keeps its type.
LEMMA WriteLineType ==
  ASSUME TypeOK, WriteLine
  PROVE  log' \in Seq(DurableOperation) /\ torn' \in BOOLEAN /\ malformed' \in BOOLEAN
  <1>1. log \o ops \in Seq(DurableOperation) /\ log \in Seq(DurableOperation)
    BY DEF TypeOK
  <1>2. log' \in Seq(DurableOperation)
    BY <1>1 DEF WriteLine
  <1>3. torn' \in BOOLEAN /\ malformed' \in BOOLEAN
    BY Zenon DEF WriteLine
  <1>4. QED
    BY <1>2, <1>3

\* Removing the log leaves an empty one.
LEMMA RemoveLogType ==
  ASSUME RemoveLog
  PROVE  log' \in Seq(DurableOperation) /\ torn' \in BOOLEAN /\ malformed' \in BOOLEAN
  <1>1. log' \in Seq(DurableOperation)
    BY SMT DEF RemoveLog
  <1>2. torn' \in BOOLEAN /\ malformed' \in BOOLEAN
    BY Zenon DEF RemoveLog
  <1>3. QED
    BY <1>1, <1>2

\* Every step of Workspace keeps the types.
LEMMA TypeStep ==
  ASSUME TypeOK, [Next]_vars
  PROVE  TypeOK'
  <1> USE DEF HistoryType
  <1>1. CASE Create
    BY <1>1, EmptyGraphType DEF TypeOK, Create, fileVars, historyVars
  <1>2. CASE Open
    <2>1. LoadSource \in GraphState
      BY <1>2 DEF Open, LoadSource, TypeOK
    <2>2. 0 \in 0..Len(log)
      BY DEF TypeOK
    <2>3. QED
      BY <1>2, <2>1, <2>2 DEF TypeOK, Open, fileVars, historyVars
  <1>3. CASE Replay
    <2>1. log[replayed + 1] \in DurableOperation /\ replayed + 1 \in 0..Len(log)
      BY <1>3 DEF TypeOK, Replay
    <2>2. mem' \in GraphState
      BY <1>3, <2>1, ApplyEntryType DEF TypeOK, Replay
    <2>3. QED
      BY <1>3, <2>1, <2>2 DEF TypeOK, Replay, fileVars, historyVars
  <1>4. CASE Loaded
    BY <1>4 DEF TypeOK, Loaded, fileVars, historyVars
  <1>5. CASE WritePrimary
    BY <1>5 DEF TypeOK, WritePrimary, CheckpointStep, historyVars
  <1>6. CASE WriteBackup
    BY <1>6 DEF TypeOK, WriteBackup, CheckpointStep, historyVars
  <1>7. CASE ClearLog
    <2>1. HistoryType'
      BY <1>7, HistoryStep DEF ClearLog
    <2>2. log' \in Seq(DurableOperation) /\ torn' \in BOOLEAN /\ malformed' \in BOOLEAN
      BY <1>7, RemoveLogType DEF ClearLog
    <2>3. pending' \in 0..CheckpointInterval /\ reply' \in {"none", "ok", "err"}
      BY <1>7, WorkspaceAssumption DEF ClearLog, TypeOK
    <2>4. QED
      BY <1>7, <2>1, <2>2, <2>3 DEF TypeOK, ClearLog
  <1>8. CASE IOError
    <2>1. CASE AppendFails \/ SyncFails \/ AppendTears
      <3>1. HistoryType'
        BY <2>1, HistoryStep DEF AppendFails, SyncFails, AppendTears
      <3>2. log' \in Seq(DurableOperation) /\ torn' \in BOOLEAN /\ malformed' \in BOOLEAN
        BY <2>1, WriteLineType DEF AppendFails, SyncFails, AppendTears, TypeOK
      <3>3. AppendError
        BY <2>1 DEF AppendFails, SyncFails, AppendTears
      <3>4. QED
        BY <3>1, <3>2, <3>3 DEF TypeOK, AppendError
    <2>2. CASE WritePrimaryFails \/ WriteBackupFails \/ ClearLogFails
      <3>1. HistoryType'
        BY <2>2, HistoryStep DEF WritePrimaryFails, WriteBackupFails, ClearLogFails, historyVars
      <3>2. log' \in Seq(DurableOperation) /\ torn' \in BOOLEAN /\ malformed' \in BOOLEAN
        BY <2>2, RemoveLogType DEF WritePrimaryFails, WriteBackupFails, ClearLogFails, TypeOK
      <3>3. /\ primary' \in GraphState \cup {NoFile, Damaged}
            /\ backup' \in GraphState \cup {NoFile}
        BY <2>2 DEF WritePrimaryFails, WriteBackupFails, ClearLogFails, TypeOK
      <3>4. CheckpointError /\ pc # "load"
        BY <2>2 DEF WritePrimaryFails, WriteBackupFails, ClearLogFails
      <3>5. CASE purpose = "open"
        <4>1. Forget /\ reply' = "err"
          BY <3>4, <3>5 DEF CheckpointError
        <4>2. QED
          BY <3>1, <3>2, <3>3, <4>1, ForgetType, WorkspaceAssumption DEF TypeOK
      <3>6. CASE purpose # "open"
        BY <3>1, <3>2, <3>3, <3>4, <3>6 DEF TypeOK, CheckpointError, memoryVars
      <3>7. QED
        BY <3>5, <3>6
    <2>3. QED
      BY <1>8, <2>1, <2>2 DEF IOError
  <1>9. CASE Save
    BY <1>9 DEF TypeOK, Save, fileVars, historyVars
  <1>10. CASE Begin
    BY <1>10, EmptyGraphType DEF TypeOK, Begin, fileVars, historyVars
  <1>11. CASE Mutate
    <2>1. PICK s \in Mutations(mem) :
            mem' = s.graph /\ ops' = Append(ops, s.durable_op)
      BY <1>11 DEF Mutate, Apply, Mutations
    <2>2. mem' \in GraphState /\ ops' \in Seq(DurableOperation)
      BY <2>1, MutationOutcome DEF TypeOK
    <2>3. /\ pc = "execute"
          /\ UNCHANGED <<pc, pending, atomic, undo, purpose, replayed, fileVars, reply,
                         historyVars>>
      BY <1>11 DEF Mutate, Apply
    <2>4. QED
      BY <2>2, <2>3 DEF TypeOK, fileVars, historyVars
  <1>12. CASE RejectAtomic
    BY <1>12 DEF TypeOK, RejectAtomic, fileVars, historyVars
  <1>13. CASE Finish
    BY <1>13 DEF TypeOK, Finish, memoryVars, fileVars, historyVars
  <1>14. CASE AppendOperation
    <2>1. HistoryType'
      BY <1>14, HistoryStep DEF AppendOperation
    <2>2. log' \in Seq(DurableOperation) /\ torn' \in BOOLEAN /\ malformed' \in BOOLEAN
      BY <1>14, WriteLineType DEF AppendOperation
    <2>3. pending' \in 0..CheckpointInterval
      BY <1>14, WorkspaceAssumption DEF AppendOperation, TypeOK
    <2>4. /\ pc' \in {"primary", "idle"}
          /\ purpose' \in {"open", "interval", "save"}
          /\ reply' \in {"none", "ok", "err"}
      BY <1>14 DEF AppendOperation, TypeOK
    <2>5. QED
      BY <1>14, <2>1, <2>2, <2>3, <2>4 DEF TypeOK, AppendOperation
  <1>15. CASE Close \/ Crash
    <2>1. Forget /\ reply' = "none" /\ UNCHANGED <<fileVars, historyVars>>
      BY <1>15 DEF Close, Crash
    <2>2. QED
      BY <2>1, ForgetType, WorkspaceAssumption DEF TypeOK, fileVars, historyVars
  <1>16. CASE CrashInAppend
    <2>1. HistoryType'
      BY <1>16, HistoryStep DEF CrashInAppend
    <2>2. log' \in Seq(DurableOperation) /\ torn' \in BOOLEAN /\ malformed' \in BOOLEAN
      BY <1>16, WriteLineType DEF CrashInAppend, TypeOK
    <2>3. Forget /\ reply' = "none" /\ UNCHANGED <<primary, backup>>
      BY <1>16 DEF CrashInAppend
    <2>4. QED
      BY <2>1, <2>2, <2>3, ForgetType, WorkspaceAssumption DEF TypeOK
  <1>17. CASE Damage
    BY <1>17 DEF TypeOK, Damage, memoryVars, historyVars
  <1>18. CASE UNCHANGED vars
    BY <1>18 DEF TypeOK, vars, memoryVars, fileVars, historyVars
  <1>19. QED
    BY <1>1, <1>2, <1>3, <1>4, <1>5, <1>6, <1>7, <1>8, <1>9, <1>10, <1>11, <1>12, <1>13,
       <1>14, <1>15, <1>16, <1>17, <1>18 DEF Next, Progress

\* The variables of a workspace keep their types: every graph in memory and in
\* a checkpoint file is well formed, and a load never runs past the log.
THEOREM TypeCorrect == Spec => []TypeOK
  <1>1. Init => TypeOK
    <2>1. << >> \in Seq(DurableOperation) /\ 0 \in 0..CheckpointInterval
      BY WorkspaceAssumption
    <2>2. [k \in NodeIds |-> {Absent}] \in [NodeIds -> SUBSET (StoredNode \cup {Absent})]
      OBVIOUS
    <2>3. FALSE \in BOOLEAN
      OBVIOUS
    <2>4. QED
      BY <2>1, <2>2, <2>3, EmptyGraphType DEF Init, TypeOK
  <1>2. TypeOK /\ [Next]_vars => TypeOK'
    BY TypeStep
  <1>3. QED
    BY <1>1, <1>2, PTL DEF Spec

-----------------------------------------------------------------------------
(***************************************************************************)
(* Which operation of a sequence decides what a node is.                   *)
(***************************************************************************)
\* An empty log or request touches no node.
LEMMA UntouchedEmpty ==
  ASSUME NEW k \in NodeIds
  PROVE  Untouched(<< >>, 1, k)
  BY DEF Untouched

\* A request touches a node unless none of its operations does.
LEMMA TouchedOrNot ==
  ASSUME ops \in Seq(DurableOperation), NEW k \in NodeIds
  PROVE  ~Touched(k) <=> Untouched(ops, 1, k)
  BY DEF Touched, Untouched

\* One more operation of a request.
LEMMA TouchAppend ==
  ASSUME NEW s \in Seq(DurableOperation), NEW o \in DurableOperation, NEW k \in NodeIds
  PROVE  LET t == Append(s, o) IN
         /\ Len(t) = Len(s) + 1 /\ t[Len(s) + 1] = o
         /\ \A i \in 1..Len(s) : t[i] = s[i]
         /\ Untouched(t, 1, k) => Untouched(s, 1, k) /\ ~TouchesNode(o, k)
         /\ \A i \in 1..Len(s) :
              LastTouch(t, i, k) => LastTouch(s, i, k) /\ ~TouchesNode(o, k)
         /\ LastTouch(t, Len(s) + 1, k) => TouchesNode(o, k)
  <1> DEFINE t == Append(s, o)
  <1>1. /\ Len(t) = Len(s) + 1 /\ t[Len(s) + 1] = o /\ Len(s) \in Nat
        /\ \A i \in 1..Len(s) : t[i] = s[i]
    OBVIOUS
  <1> HIDE DEF t
  <1>2. Untouched(t, 1, k) => Untouched(s, 1, k) /\ ~TouchesNode(o, k)
    BY <1>1 DEF Untouched
  <1>3. ASSUME NEW i \in 1..Len(s), LastTouch(t, i, k)
        PROVE  LastTouch(s, i, k) /\ ~TouchesNode(o, k)
    BY <1>1, <1>3 DEF LastTouch, Untouched
  <1>4. LastTouch(t, Len(s) + 1, k) => TouchesNode(o, k)
    BY <1>1 DEF LastTouch
  <1>5. QED
    BY <1>1, <1>2, <1>3, <1>4 DEF t

\* A line behind the log: its own operations come last.
LEMMA TouchConcat ==
  ASSUME NEW s \in Seq(DurableOperation), NEW t \in Seq(DurableOperation), NEW k \in NodeIds
  PROVE  LET u == s \o t IN
         /\ Untouched(u, 1, k) => Untouched(s, 1, k) /\ Untouched(t, 1, k)
         /\ \A i \in 1..Len(u) : LastTouch(u, i, k) =>
              \/ i \in 1..Len(s) /\ u[i] = s[i] /\ LastTouch(s, i, k) /\ Untouched(t, 1, k)
              \/ i - Len(s) \in 1..Len(t) /\ u[i] = t[i - Len(s)] /\ LastTouch(t, i - Len(s), k)
  <1> DEFINE u == s \o t
  <1>1. /\ Len(u) = Len(s) + Len(t) /\ Len(s) \in Nat /\ Len(t) \in Nat
        /\ \A i \in 1..Len(s) : u[i] = s[i]
        /\ \A j \in 1..Len(t) : u[Len(s) + j] = t[j]
    OBVIOUS
  <1> HIDE DEF u
  <1>2. \A j \in 1..Len(t) : Len(s) + j \in 1..Len(u) /\ Len(s) + j >= Len(s) + 1
    BY <1>1
  <1>3. Untouched(u, 1, k) => Untouched(s, 1, k)
    BY <1>1 DEF Untouched
  <1>4. ASSUME NEW lo \in 1..(Len(s) + 1), Untouched(u, lo, k)
        PROVE  Untouched(t, 1, k)
    <2>1. SUFFICES ASSUME NEW j \in 1..Len(t) PROVE ~TouchesNode(t[j], k)
      BY DEF Untouched
    <2>2. Len(s) + j \in lo..Len(u)
      BY <1>1
    <2>3. QED
      BY <1>1, <1>4, <2>2 DEF Untouched
  <1>5. ASSUME NEW i \in 1..Len(u), LastTouch(u, i, k), i <= Len(s)
        PROVE  i \in 1..Len(s) /\ u[i] = s[i] /\ LastTouch(s, i, k) /\ Untouched(t, 1, k)
    <2>1. i \in 1..Len(s) /\ i + 1 \in 1..(Len(s) + 1)
      BY <1>1, <1>5
    <2>2. Untouched(t, 1, k)
      BY <1>4, <1>5, <2>1 DEF LastTouch
    <2>3. LastTouch(s, i, k)
      BY <1>1, <1>5, <2>1 DEF LastTouch, Untouched
    <2>4. QED
      BY <1>1, <2>1, <2>2, <2>3
  <1>6. ASSUME NEW i \in 1..Len(u), LastTouch(u, i, k), ~(i <= Len(s))
        PROVE  i - Len(s) \in 1..Len(t) /\ u[i] = t[i - Len(s)] /\ LastTouch(t, i - Len(s), k)
    <2> DEFINE j == i - Len(s)
    <2>1. j \in 1..Len(t) /\ Len(s) + j = i
      BY <1>1, <1>6
    <2> HIDE DEF j
    <2>2. u[i] = t[j]
      BY <1>1, <2>1
    <2>3. ASSUME NEW m \in (j + 1)..Len(t) PROVE ~TouchesNode(t[m], k)
      <3>1. m \in 1..Len(t) /\ Len(s) + m \in (i + 1)..Len(u)
        BY <1>1, <2>1
      <3>2. QED
        BY <1>1, <1>6, <3>1 DEF LastTouch, Untouched
    <2>4. LastTouch(t, j, k)
      BY <1>6, <2>2, <2>3 DEF LastTouch, Untouched
    <2>5. QED
      BY <2>1, <2>2, <2>4 DEF j
  <1>7. 1 \in 1..(Len(s) + 1)
    BY <1>1
  <1>8. QED
    BY <1>3, <1>4, <1>5, <1>6, <1>7 DEF u

-----------------------------------------------------------------------------
(***************************************************************************)
(* What the history steps mean for the recovery invariant.                 *)
(***************************************************************************)
\* A line that reaches the log settles the nodes it touches: the files and the
\* memory are right about every node afterwards.
LEMMA SettledLine ==
  ASSUME TypeOK, RecoveryInv, pc = "append", WriteLine, Settle, UNCHANGED <<primary, backup>>
  PROVE  /\ FileInv'
         /\ \A k \in NodeIds : mem.nodes[k] \in expect'[k]
  <1>1. \A k \in NodeIds : ~Touched(k) <=> Untouched(ops, 1, k)
    BY TouchedOrNot DEF TypeOK
  <1>2. \A k \in NodeIds :
          expect'[k] = IF Untouched(ops, 1, k) THEN expect[k] ELSE {mem.nodes[k]}
    BY <1>1 DEF Settle
  <1>3. \A k \in NodeIds : mem.nodes[k] \in expect'[k]
    BY <1>2 DEF RecoveryInv, RequestInv
  <1>4. FileInv'
    <2>1. SUFFICES ASSUME ~malformed', NEW k \in NodeIds
                   PROVE  /\ \A i \in 1..Len(log') :
                               LastTouch(log', i, k) => NodeAfter(log'[i]) \in expect'[k]
                          /\ Untouched(log', 1, k) =>
                               /\ primary \in GraphState => primary.nodes[k] \in expect'[k]
                               /\ backup \in GraphState => backup.nodes[k] \in expect'[k]
      BY DEF FileInv, LastTouch, Untouched
    <2>2. ~torn /\ ~malformed
      BY <2>1, Zenon DEF WriteLine
    <2>3. log' = log \o ops
      BY <2>2 DEF WriteLine
    <2>4. log \in Seq(DurableOperation) /\ ops \in Seq(DurableOperation)
      BY DEF TypeOK
    <2>5. /\ \A i \in 1..Len(log) : LastTouch(log, i, k) => NodeAfter(log[i]) \in expect[k]
          /\ Untouched(log, 1, k) =>
               /\ primary \in GraphState => primary.nodes[k] \in expect[k]
               /\ backup \in GraphState => backup.nodes[k] \in expect[k]
      BY <2>2 DEF RecoveryInv, FileInv
    <2>6. \A i \in 1..Len(ops) : LastTouch(ops, i, k) => mem.nodes[k] = NodeAfter(ops[i])
      BY DEF RecoveryInv, RequestInv
    <2>7. ASSUME NEW i \in 1..Len(log'), LastTouch(log', i, k)
          PROVE  NodeAfter(log'[i]) \in expect'[k]
      <3>1. \/ i \in 1..Len(log) /\ log'[i] = log[i] /\ LastTouch(log, i, k) /\ Untouched(ops, 1, k)
            \/ /\ i - Len(log) \in 1..Len(ops) /\ log'[i] = ops[i - Len(log)]
               /\ LastTouch(ops, i - Len(log), k)
        BY <2>3, <2>4, <2>7, TouchConcat
      <3>2. QED
        BY <1>2, <1>3, <2>5, <2>6, <3>1
    <2>8. Untouched(log', 1, k) => Untouched(log, 1, k) /\ Untouched(ops, 1, k)
      BY <2>3, <2>4, TouchConcat
    <2>9. QED
      BY <1>2, <2>5, <2>7, <2>8
  <1>5. QED
    BY <1>3, <1>4

\* A request that reached only the memory adds its outcome to the possible ones.
LEMMA AttemptedLine ==
  ASSUME TypeOK, RecoveryInv, pc = "append", Attempt, UNCHANGED <<primary, backup, log, malformed>>
  PROVE  /\ FileInv'
         /\ \A k \in NodeIds : mem.nodes[k] \in expect'[k]
  <1>1. \A k \in NodeIds : ~Touched(k) <=> Untouched(ops, 1, k)
    BY TouchedOrNot DEF TypeOK
  <1>2. \A k \in NodeIds : expect[k] \subseteq expect'[k]
    BY DEF Attempt
  <1>3. \A k \in NodeIds : mem.nodes[k] \in expect'[k]
    BY <1>1 DEF Attempt, RecoveryInv, RequestInv
  <1>4. FileInv'
    BY <1>2 DEF RecoveryInv, FileInv, LastTouch, Untouched
  <1>5. QED
    BY <1>3, <1>4

\* Once both checkpoints hold the memory the log may go.
LEMMA FoldedLog ==
  ASSUME TypeOK, RecoveryInv, pc = "clear", RemoveLog, SettleAll, UNCHANGED <<primary, backup>>
  PROVE  /\ FileInv'
         /\ \A k \in NodeIds : mem.nodes[k] \in expect'[k]
  <1>1. \A k \in NodeIds : expect'[k] = {mem.nodes[k]}
    BY DEF SettleAll
  <1>2. primary' = mem /\ backup' = mem /\ log' = << >>
    BY DEF RecoveryInv, CheckpointInv, RemoveLog
  <1>3. QED
    BY <1>1, <1>2 DEF FileInv

\* The checkpoint files and the log did not move, and neither did what is owed.
LEMMA SameFiles ==
  ASSUME RecoveryInv, UNCHANGED <<primary, backup, log, malformed, expect>>
  PROVE  FileInv'
  BY DEF RecoveryInv, FileInv, LastTouch, Untouched

\* A checkpoint of a memory that is right about every node may replace a file.
LEMMA CheckpointWritten ==
  ASSUME TypeOK, RecoveryInv, pc \in {"primary", "backup", "clear"},
         primary' \in {primary, mem}, backup' \in {backup, mem},
         UNCHANGED <<log, malformed, expect>>
  PROVE  FileInv'
  BY DEF RecoveryInv, MemoryInv, FileInv, LastTouch, Untouched

\* A dropped workspace owes nothing about its memory.
LEMMA ForgetInv ==
  ASSUME TypeOK, Forget, FileInv', primary' # NoFile \/ UNCHANGED <<primary, expect>>, RecoveryInv
  PROVE  RecoveryInv'
  <1>1. pc' = "closed" /\ purpose' = "open"
    BY DEF Forget
  <1>2. primary' = NoFile => \A k \in NodeIds : Absent \in expect'[k]
    BY DEF RecoveryInv, BaseInv
  <1>3. QED
    BY <1>1, <1>2 DEF RecoveryInv, BaseInv, CheckpointInv, MemoryInv, RequestInv, LoadInv

\* A request has returned: the workspace is open and idle.
LEMMA IdleInv ==
  ASSUME pc' = "idle", primary' # NoFile, FileInv',
         \A k \in NodeIds : mem'.nodes[k] \in expect'[k]
  PROVE  RecoveryInv'
  BY DEF RecoveryInv, BaseInv, CheckpointInv, MemoryInv, RequestInv, LoadInv

\* A graph is neither a missing nor a damaged file.
LEMMA GraphIsFile ==
  ASSUME NEW g \in GraphState
  PROVE  g # NoFile /\ g # Damaged /\ Damaged # NoFile
  BY WorkspaceAssumption

\* Every step keeps the recovery invariant.
LEMMA RecoveryStep ==
  ASSUME TypeOK, RecoveryInv, [Next]_vars
  PROVE  RecoveryInv'
  <1>1. CASE Create
    <2>1. FileInv'
      BY <1>1, SameFiles DEF Create, fileVars, historyVars
    <2>2. \A k \in NodeIds : mem'.nodes[k] \in expect'[k]
      BY <1>1 DEF Create, EmptyGraph, historyVars, RecoveryInv, BaseInv
    <2>3. BaseInv'
      BY <1>1 DEF Create, fileVars, historyVars, RecoveryInv, BaseInv
    <2>4. pc' = "primary"
      BY <1>1 DEF Create
    <2>5. QED
      BY <2>1, <2>2, <2>3, <2>4 DEF RecoveryInv, CheckpointInv, MemoryInv, RequestInv, LoadInv
  <1>2. CASE Open
    <2>1. FileInv'
      BY <1>2, SameFiles DEF Open, fileVars, historyVars
    <2>2. primary # NoFile /\ LoadSource \in GraphState /\ (LoadSource = primary \/ LoadSource = backup)
      BY <1>2, WorkspaceAssumption DEF Open, LoadSource, TypeOK
    <2>3. \A k \in NodeIds : Untouched(log, 1, k) => LoadSource.nodes[k] \in expect[k]
      BY <1>2, <2>2 DEF Open, RecoveryInv, FileInv
    <2>4. LoadInv'
      BY <1>2, <2>3 DEF Open, LoadInv, fileVars, historyVars, Untouched
    <2>5. BaseInv' /\ pc' = "load"
      BY <1>2, <2>2 DEF Open, fileVars, historyVars, RecoveryInv, BaseInv
    <2>6. QED
      BY <2>1, <2>4, <2>5 DEF RecoveryInv, CheckpointInv, MemoryInv, RequestInv
  <1>3. CASE Replay
    <2>1. FileInv'
      BY <1>3, SameFiles DEF Replay, fileVars, historyVars
    <2>2. log[replayed + 1] \in DurableOperation /\ replayed \in Nat /\ Len(log) \in Nat
      BY <1>3 DEF TypeOK, Replay
    <2>3. ASSUME NEW k \in NodeIds, Untouched(log, replayed + 2, k)
          PROVE  mem'.nodes[k] \in expect[k]
      <3>1. mem'.nodes[k] = IF TouchesNode(log[replayed + 1], k)
                              THEN NodeAfter(log[replayed + 1]) ELSE mem.nodes[k]
        BY <1>3, <2>2, ApplyEntryNodes DEF TypeOK, Replay
      <3>2. CASE TouchesNode(log[replayed + 1], k)
        <4>1. LastTouch(log, replayed + 1, k) /\ replayed + 1 \in 1..Len(log)
          BY <1>3, <2>2, <2>3, <3>2 DEF LastTouch, Replay
        <4>2. QED
          BY <1>3, <3>1, <3>2, <4>1 DEF Replay, RecoveryInv, FileInv, LoadInv
      <3>3. CASE ~TouchesNode(log[replayed + 1], k)
        <4>1. Untouched(log, replayed + 1, k)
          BY <2>2, <2>3, <3>3 DEF Untouched
        <4>2. QED
          BY <1>3, <3>1, <3>3, <4>1 DEF Replay, RecoveryInv, LoadInv
      <3>4. QED
        BY <3>2, <3>3
    <2>4. replayed' + 1 = replayed + 2
      BY <1>3, <2>2 DEF Replay
    <2>5. LoadInv'
      BY <1>3, <2>3, <2>4 DEF Replay, RecoveryInv, LoadInv, fileVars, historyVars, Untouched
    <2>6. BaseInv' /\ pc' = "load"
      BY <1>3 DEF Replay, fileVars, historyVars, RecoveryInv, BaseInv
    <2>7. QED
      BY <2>1, <2>5, <2>6 DEF RecoveryInv, CheckpointInv, MemoryInv, RequestInv
  <1>4. CASE Loaded
    <2>1. FileInv'
      BY <1>4, SameFiles DEF Loaded, fileVars, historyVars
    <2>2. \A k \in NodeIds : Untouched(log, replayed + 1, k)
      BY <1>4 DEF Loaded, Untouched, TypeOK
    <2>3. MemoryInv'
      BY <1>4, <2>2 DEF Loaded, MemoryInv, RecoveryInv, LoadInv, historyVars
    <2>4. BaseInv' /\ pc' = "primary"
      BY <1>4 DEF Loaded, fileVars, historyVars, RecoveryInv, BaseInv
    <2>5. QED
      BY <2>1, <2>3, <2>4 DEF RecoveryInv, CheckpointInv, RequestInv, LoadInv
  <1>5. CASE WritePrimary
    <2>1. FileInv'
      BY <1>5, CheckpointWritten DEF WritePrimary, CheckpointStep, historyVars
    <2>2. BaseInv' /\ CheckpointInv' /\ pc' = "backup"
      BY <1>5, GraphIsFile DEF WritePrimary, CheckpointStep, BaseInv, CheckpointInv, TypeOK
    <2>3. MemoryInv'
      BY <1>5 DEF WritePrimary, CheckpointStep, historyVars, RecoveryInv, MemoryInv
    <2>4. QED
      BY <2>1, <2>2, <2>3 DEF RecoveryInv, RequestInv, LoadInv
  <1>6. CASE WriteBackup
    <2>1. FileInv'
      BY <1>6, CheckpointWritten DEF WriteBackup, CheckpointStep, historyVars
    <2>2. BaseInv' /\ CheckpointInv' /\ pc' = "clear"
      BY <1>6, GraphIsFile
      DEF WriteBackup, CheckpointStep, RecoveryInv, BaseInv, CheckpointInv, TypeOK
    <2>3. MemoryInv'
      BY <1>6 DEF WriteBackup, CheckpointStep, historyVars, RecoveryInv, MemoryInv
    <2>4. QED
      BY <2>1, <2>2, <2>3 DEF RecoveryInv, RequestInv, LoadInv
  <1>7. CASE ClearLog
    <2>1. FileInv' /\ \A k \in NodeIds : mem.nodes[k] \in expect'[k]
      BY <1>7, FoldedLog DEF ClearLog
    <2>2. primary' # NoFile
      BY <1>7, GraphIsFile DEF ClearLog, RecoveryInv, CheckpointInv, TypeOK
    <2>3. QED
      BY <1>7, <2>1, <2>2, IdleInv DEF ClearLog
  <1>8. CASE WritePrimaryFails \/ WriteBackupFails \/ ClearLogFails
    <2>1. FileInv' /\ \A k \in NodeIds : mem.nodes[k] \in expect'[k]
      <3>1. CASE WritePrimaryFails \/ WriteBackupFails
        BY <3>1, CheckpointWritten
        DEF WritePrimaryFails, WriteBackupFails, historyVars, RecoveryInv, MemoryInv
      <3>2. CASE ClearLogFails /\ UNCHANGED <<log, torn, malformed, historyVars>>
        BY <3>2, CheckpointWritten DEF ClearLogFails, historyVars, RecoveryInv, MemoryInv
      <3>3. CASE ClearLogFails /\ RemoveLog /\ SettleAll
        BY <3>3, FoldedLog DEF ClearLogFails
      <3>4. QED
        BY <1>8, <3>1, <3>2, <3>3 DEF ClearLogFails
    <2>2. /\ primary' # NoFile \/ UNCHANGED <<primary, expect>>
          /\ purpose # "open" => primary' # NoFile
      <3>1. CASE WritePrimaryFails
        BY <3>1, GraphIsFile DEF WritePrimaryFails, historyVars, RecoveryInv, BaseInv, TypeOK
      <3>2. CASE WriteBackupFails \/ ClearLogFails
        BY <3>2, GraphIsFile
        DEF WriteBackupFails, ClearLogFails, RecoveryInv, CheckpointInv, TypeOK
      <3>3. QED
        BY <1>8, <3>1, <3>2
    <2>3. CheckpointError
      BY <1>8 DEF WritePrimaryFails, WriteBackupFails, ClearLogFails
    <2>4. CASE purpose = "open"
      BY <2>1, <2>2, <2>3, <2>4, ForgetInv DEF CheckpointError
    <2>5. CASE purpose # "open"
      <3>1. pc' = "idle" /\ mem' = mem
        BY <2>3, <2>5 DEF CheckpointError, memoryVars
      <3>2. QED
        BY <2>1, <2>2, <2>5, <3>1, IdleInv
    <2>6. QED
      BY <2>4, <2>5
  <1>9. CASE Save
    <2>1. FileInv'
      BY <1>9, SameFiles DEF Save, fileVars, historyVars
    <2>2. BaseInv' /\ MemoryInv' /\ pc' = "primary"
      BY <1>9 DEF Save, fileVars, historyVars, RecoveryInv, BaseInv, MemoryInv
    <2>3. QED
      BY <2>1, <2>2 DEF RecoveryInv, CheckpointInv, RequestInv, LoadInv
  <1>10. CASE Begin
    <2>1. FileInv'
      BY <1>10, SameFiles DEF Begin, fileVars, historyVars
    <2>2. BaseInv' /\ pc' = "execute"
      BY <1>10 DEF Begin, fileVars, historyVars, RecoveryInv, BaseInv
    <2>3. RequestInv'
      <3>1. \A k \in NodeIds : mem.nodes[k] \in expect[k]
        BY <1>10 DEF Begin, RecoveryInv, MemoryInv
      <3>2. ops' = << >> /\ mem' = mem /\ expect' = expect /\ (atomic' => undo' = mem)
        BY <1>10 DEF Begin, historyVars
      <3>3. 1..Len(ops') = {}
        BY <3>2
      <3>4. QED
        BY <3>1, <3>2, <3>3 DEF RequestInv
    <2>4. QED
      BY <2>1, <2>2, <2>3 DEF RecoveryInv, CheckpointInv, MemoryInv, LoadInv
  <1>11. CASE Mutate
    <2>1. PICK s \in Mutations(mem) :
            mem' = s.graph /\ ops' = Append(ops, s.durable_op)
      BY <1>11 DEF Mutate, Apply, Mutations
    <2>2. /\ pc = "execute"
          /\ UNCHANGED <<pc, pending, atomic, undo, purpose, replayed, fileVars, reply,
                         historyVars>>
      BY <1>11 DEF Mutate, Apply
    <2>3. FileInv'
      BY <2>2, SameFiles DEF fileVars, historyVars
    <2>4. BaseInv'
      BY <2>2 DEF fileVars, historyVars, RecoveryInv, BaseInv
    <2>5. /\ s.durable_op \in DurableOperation
          /\ \A k \in NodeIds :
               mem'.nodes[k] = IF TouchesNode(s.durable_op, k)
                                 THEN NodeAfter(s.durable_op) ELSE mem.nodes[k]
      BY <2>1, MutationOutcome DEF TypeOK
    <2>6. ASSUME NEW k \in NodeIds
          PROVE  /\ Untouched(ops', 1, k) => mem'.nodes[k] \in expect[k]
                 /\ \A i \in 1..Len(ops') :
                      LastTouch(ops', i, k) => mem'.nodes[k] = NodeAfter(ops'[i])
                 /\ atomic => undo.nodes[k] \in expect[k]
      <3>1. /\ Untouched(ops, 1, k) => mem.nodes[k] \in expect[k]
            /\ \A i \in 1..Len(ops) : LastTouch(ops, i, k) => mem.nodes[k] = NodeAfter(ops[i])
            /\ atomic => undo.nodes[k] \in expect[k]
        BY <2>2 DEF RecoveryInv, RequestInv
      <3>2. /\ Len(ops') = Len(ops) + 1 /\ ops'[Len(ops) + 1] = s.durable_op
            /\ \A i \in 1..Len(ops) : ops'[i] = ops[i]
            /\ Untouched(ops', 1, k) => Untouched(ops, 1, k) /\ ~TouchesNode(s.durable_op, k)
            /\ \A i \in 1..Len(ops) :
                 LastTouch(ops', i, k) => LastTouch(ops, i, k) /\ ~TouchesNode(s.durable_op, k)
            /\ LastTouch(ops', Len(ops) + 1, k) => TouchesNode(s.durable_op, k)
        BY <2>1, <2>5, TouchAppend DEF TypeOK
      <3>3. \A i \in 1..Len(ops') : i \in 1..Len(ops) \/ i = Len(ops) + 1
        BY <3>2 DEF TypeOK
      <3>4. QED
        BY <2>5, <3>1, <3>2, <3>3
    <2>7. RequestInv'
      BY <2>2, <2>6 DEF RequestInv, historyVars, Untouched, LastTouch
    <2>8. QED
      BY <2>2, <2>3, <2>4, <2>7 DEF RecoveryInv, CheckpointInv, MemoryInv, LoadInv
  <1>12. CASE RejectAtomic
    <2>1. FileInv'
      BY <1>12, SameFiles DEF RejectAtomic, fileVars, historyVars
    <2>2. \A k \in NodeIds : mem'.nodes[k] \in expect'[k]
      BY <1>12 DEF RejectAtomic, historyVars, RecoveryInv, RequestInv
    <2>3. pc' = "idle" /\ primary' # NoFile
      BY <1>12 DEF RejectAtomic, fileVars, RecoveryInv, BaseInv
    <2>4. QED
      BY <2>1, <2>2, <2>3, IdleInv
  <1>13. CASE Finish
    <2>1. FileInv'
      BY <1>13, SameFiles DEF Finish, fileVars, historyVars
    <2>2. primary' # NoFile /\ mem' = mem /\ ops' = ops /\ expect' = expect
      BY <1>13 DEF Finish, memoryVars, fileVars, historyVars, RecoveryInv, BaseInv
    <2>3. CASE ops = << >>
      <3>1. \A k \in NodeIds : mem.nodes[k] \in expect[k]
        BY <1>13, <2>3, UntouchedEmpty DEF Finish, RecoveryInv, RequestInv
      <3>2. QED
        BY <1>13, <2>1, <2>2, <2>3, <3>1, IdleInv DEF Finish
    <2>4. CASE ops # << >>
      <3>1. pc = "execute" /\ pc' = "append"
        BY <1>13, <2>4 DEF Finish
      <3>2. RequestInv'
        BY <1>13, <2>2, <3>1
        DEF Finish, memoryVars, RecoveryInv, RequestInv, Untouched, LastTouch
      <3>3. BaseInv'
        BY <2>2, <3>1 DEF BaseInv
      <3>4. QED
        BY <2>1, <3>1, <3>2, <3>3 DEF RecoveryInv, CheckpointInv, MemoryInv, LoadInv
    <2>5. QED
      BY <2>3, <2>4
  <1>14. CASE AppendOperation
    <2>1. FileInv' /\ \A k \in NodeIds : mem.nodes[k] \in expect'[k]
      BY <1>14, SettledLine DEF AppendOperation
    <2>2. primary' # NoFile /\ mem' = mem /\ pc' \in {"primary", "idle"}
      BY <1>14 DEF AppendOperation, RecoveryInv, BaseInv
    <2>3. QED
      BY <2>1, <2>2
      DEF RecoveryInv, BaseInv, CheckpointInv, MemoryInv, RequestInv, LoadInv
  <1>15. CASE AppendFails \/ SyncFails \/ AppendTears
    <2>1. AppendError
      BY <1>15 DEF AppendFails, SyncFails, AppendTears
    <2>2. FileInv' /\ \A k \in NodeIds : mem.nodes[k] \in expect'[k]
      <3>1. CASE SyncFails
        BY <3>1, SettledLine DEF SyncFails, AppendError
      <3>2. CASE AppendFails \/ AppendTears
        BY <3>2, AttemptedLine DEF AppendFails, AppendTears, AppendError
      <3>3. QED
        BY <1>15, <3>1, <3>2
    <2>3. primary' # NoFile /\ mem' = mem /\ pc' = "idle"
      BY <2>1 DEF AppendError, RecoveryInv, BaseInv
    <2>4. QED
      BY <2>2, <2>3, IdleInv
  <1>16. CASE Close \/ Crash
    <2>1. Forget /\ UNCHANGED <<fileVars, historyVars>>
      BY <1>16 DEF Close, Crash
    <2>2. FileInv'
      BY <2>1, SameFiles DEF fileVars, historyVars
    <2>3. QED
      BY <2>1, <2>2, ForgetInv DEF fileVars, historyVars
  <1>17. CASE CrashInAppend
    <2>1. Forget /\ pc = "append" /\ UNCHANGED <<primary, backup>> /\ primary' # NoFile
      BY <1>17 DEF CrashInAppend, RecoveryInv, BaseInv
    <2>2. CASE UNCHANGED <<log, malformed, historyVars>>
      BY <2>1, <2>2, SameFiles, ForgetInv DEF historyVars
    <2>3. CASE WriteLine /\ Settle
      BY <2>1, <2>3, SettledLine, ForgetInv
    <2>4. QED
      BY <1>17, <2>2, <2>3 DEF CrashInAppend
  <1>18. CASE Damage
    <2>1. primary' = Damaged /\ Damaged \notin GraphState /\ Damaged # NoFile
      BY <1>18, WorkspaceAssumption DEF Damage
    <2>2. FileInv'
      BY <1>18, <2>1 DEF Damage, historyVars, RecoveryInv, FileInv, Untouched, LastTouch
    <2>3. pc' = "closed"
      BY <1>18 DEF Damage
    <2>4. QED
      BY <2>1, <2>2, <2>3
      DEF RecoveryInv, BaseInv, CheckpointInv, MemoryInv, RequestInv, LoadInv
  <1>19. CASE UNCHANGED vars
    BY <1>19 DEF vars, memoryVars, fileVars, historyVars, RecoveryInv, BaseInv, CheckpointInv,
                 MemoryInv, RequestInv, FileInv, LoadInv, Untouched, LastTouch
  <1>20. QED
    BY <1>1, <1>2, <1>3, <1>4, <1>5, <1>6, <1>7, <1>8, <1>9, <1>10, <1>11, <1>12, <1>13,
       <1>14, <1>15, <1>16, <1>17, <1>18, <1>19 DEF Next, Progress, IOError

\* The recovery invariant holds throughout.
THEOREM RecoveryInvariant == Spec => []RecoveryInv
  <1>1. Init => RecoveryInv
    <2>1. SUFFICES ASSUME Init PROVE RecoveryInv
      OBVIOUS
    <2>2. FileInv
      <3>1. log = << >> /\ primary = NoFile /\ backup = NoFile
        BY <2>1 DEF Init
      <3>2. 1..Len(log) = {} /\ NoFile \notin GraphState
        BY <3>1, WorkspaceAssumption
      <3>3. QED
        BY <3>1, <3>2 DEF FileInv
    <2>3. pc = "closed" /\ purpose = "open" /\ \A k \in NodeIds : Absent \in expect[k]
      BY <2>1 DEF Init
    <2>4. QED
      BY <2>2, <2>3
      DEF RecoveryInv, BaseInv, CheckpointInv, MemoryInv, RequestInv, LoadInv
  <1>2. TypeOK /\ RecoveryInv /\ [Next]_vars => RecoveryInv'
    BY RecoveryStep
  <1>3. QED
    BY <1>1, <1>2, TypeCorrect, PTL DEF Spec

\* A completed load gives every node contents that its clients may rely on,
\* for any number of nodes and any batch, log and checkpoint interval, under
\* every combination of crashes, failed file system calls, torn appends and a
\* damaged checkpoint: apply_session_log over either checkpoint is enough.
THEOREM NodesAreRecovered == Spec => []NodesRecovered
  <1>1. TypeOK /\ RecoveryInv => NodesRecovered
    <2>1. SUFFICES ASSUME TypeOK, RecoveryInv, AtLoaded, NEW k \in NodeIds
                   PROVE  mem.nodes[k] \in expect[k]
      BY DEF NodesRecovered
    <2>2. Untouched(log, replayed + 1, k)
      BY <2>1 DEF AtLoaded, Untouched, TypeOK
    <2>3. QED
      BY <2>1, <2>2 DEF AtLoaded, RecoveryInv, LoadInv
  <1>2. QED
    BY <1>1, TypeCorrect, RecoveryInvariant, PTL

-----------------------------------------------------------------------------
(***************************************************************************)
(* Issued ids stay behind the counter.                                     *)
(***************************************************************************)
\* Replaying s from position lo on raises the node counter past n.
Raises(s, lo, n) == \E i \in lo..Len(s) : s[i].op = "UpsertNode" /\ s[i].id >= n

Checkpoints == {primary, backup} \ {NoFile, Damaged}

\* In every graph, also the ones in files, the ids in use are below the counters.
GraphsBelow ==
  IdsBelow(mem) /\ IdsBelow(undo) /\ \A g \in Checkpoints : IdsBelow(g)

\* The counter of an open workspace is past every issued id, also when an
\* atomic batch is undone, and past those its request is about to issue.
IssuedMemory ==
  /\ pc \notin {"closed", "load"} => \A k \in issued : Below(k, mem)
  /\ pc \in {"execute", "append"} =>
       /\ atomic => \A k \in issued : Below(k, undo)
       /\ \A k \in NodeIds : Upserted(k) => Below(k, mem)

\* Either the log mentions an issued id or both checkpoints are past it.
IssuedFiles ==
  /\ primary = NoFile => issued = {}
  /\ ~malformed => \A k \in issued : Raises(log, 1, k) \/ \A g \in Checkpoints : Below(k, g)

\* A load is past an issued id or has yet to replay an upsert that gets it there.
IssuedLoad ==
  pc = "load" => \A k \in issued : Below(k, mem) \/ Raises(log, replayed + 1, k)

IssuedInv == GraphsBelow /\ IssuedMemory /\ IssuedFiles /\ IssuedLoad

\* A checkpoint file that can be read is a graph.
LEMMA CheckpointsAreGraphs ==
  ASSUME TypeOK
  PROVE  Checkpoints \subseteq GraphState
  BY DEF TypeOK, Checkpoints

\* The files did not move and no id was issued.
LEMMA IssuedFilesSame ==
  ASSUME IssuedInv, UNCHANGED <<primary, backup, log, malformed, issued>>
  PROVE  IssuedFiles' /\ \A g \in Checkpoints' : IdsBelow(g)
  BY DEF IssuedInv, IssuedFiles, GraphsBelow, Checkpoints, Raises, Below

\* A checkpoint of the memory replaces a file.
LEMMA IssuedCheckpoint ==
  ASSUME IssuedInv, pc \in {"primary", "backup", "clear"},
         primary' \in {primary, mem}, backup' \in {backup, mem},
         primary' # NoFile \/ primary' = primary, UNCHANGED <<log, malformed, issued>>
  PROVE  IssuedFiles' /\ \A g \in Checkpoints' : IdsBelow(g)
  <1>1. \A g \in Checkpoints' : g \in Checkpoints \/ g = mem
    BY DEF Checkpoints
  <1>2. \A g \in Checkpoints' : IdsBelow(g)
    BY <1>1 DEF IssuedInv, GraphsBelow
  <1>3. \A k \in issued : Below(k, mem)
    BY DEF IssuedInv, IssuedMemory
  <1>4. primary' = NoFile => issued = {}
    BY DEF IssuedInv, IssuedFiles
  <1>5. QED
    BY <1>1, <1>2, <1>3, <1>4 DEF IssuedInv, IssuedFiles, Raises, Below

\* Both checkpoints hold the memory: the log may go.
LEMMA IssuedFold ==
  ASSUME TypeOK, RecoveryInv, IssuedInv, pc = "clear", RemoveLog, SettleAll,
         UNCHANGED <<primary, backup>>
  PROVE  /\ IssuedFiles' /\ \A g \in Checkpoints' : IdsBelow(g)
         /\ \A k \in issued' : Below(k, mem)
  <1>1. primary' = mem /\ backup' = mem /\ mem # NoFile
    BY GraphIsFile DEF RecoveryInv, CheckpointInv, TypeOK
  <1>2. \A g \in Checkpoints' : g = mem
    BY <1>1 DEF Checkpoints
  <1>3. \A k \in issued' : Below(k, mem)
    BY DEF SettleAll, IssuedInv, IssuedMemory, GraphsBelow, IdsBelow, Below
  <1>4. IssuedFiles'
    BY <1>1, <1>2, <1>3 DEF IssuedFiles, Below
  <1>5. QED
    BY <1>2, <1>3, <1>4 DEF IssuedInv, GraphsBelow

\* A line that reaches the log carries the ids that it issues.
LEMMA IssuedLine ==
  ASSUME TypeOK, RecoveryInv, IssuedInv, pc = "append", WriteLine, Settle,
         UNCHANGED <<primary, backup>>
  PROVE  /\ IssuedFiles' /\ \A g \in Checkpoints' : IdsBelow(g)
         /\ \A k \in issued' : Below(k, mem)
  <1>1. \A k \in issued' : k \in issued \/ (k \in NodeIds /\ Upserted(k))
    BY DEF Settle
  <1>2. \A k \in issued' : Below(k, mem)
    BY <1>1 DEF IssuedInv, IssuedMemory
  <1>3. \A g \in Checkpoints' : g \in Checkpoints /\ IdsBelow(g)
    BY DEF IssuedInv, GraphsBelow, Checkpoints
  <1>4. primary' # NoFile
    BY DEF RecoveryInv, BaseInv
  <1>5. ASSUME ~malformed', NEW k \in issued'
        PROVE  Raises(log', 1, k) \/ \A g \in Checkpoints' : Below(k, g)
    <2>1. ~malformed /\ ~torn
      BY <1>5, Zenon DEF WriteLine
    <2>2. log' = log \o ops
      BY <2>1 DEF WriteLine
    <2>3. log \in Seq(DurableOperation) /\ ops \in Seq(DurableOperation)
      BY DEF TypeOK
    <2>4. /\ \A i \in 1..Len(log) : i \in 1..Len(log') /\ log'[i] = log[i]
          /\ \A j \in 1..Len(ops) : Len(log) + j \in 1..Len(log') /\ log'[Len(log) + j] = ops[j]
      BY <2>2, <2>3
    <2>5. CASE k \in issued
      <3>1. Raises(log, 1, k) => Raises(log', 1, k)
        BY <2>4 DEF Raises
      <3>2. QED
        BY <1>3, <2>1, <2>5, <3>1 DEF IssuedInv, IssuedFiles
    <2>6. CASE k \in NodeIds /\ Upserted(k)
      <3>1. PICK j \in 1..Len(ops) : ops[j].op = "UpsertNode" /\ ops[j].id = k
        BY <2>3, <2>6 DEF Upserted
      <3>2. k >= k
        BY <2>6, CountersAreNumbers
      <3>3. Raises(log', 1, k)
        BY <2>4, <3>1, <3>2 DEF Raises
      <3>4. QED
        BY <3>3
    <2>7. QED
      BY <1>1, <1>5, <2>5, <2>6
  <1>6. IssuedFiles'
    BY <1>4, <1>5 DEF IssuedFiles
  <1>7. QED
    BY <1>2, <1>3, <1>6

\* A workspace that is neither loading nor in a request, with its memory as it was.
LEMMA IssuedRest ==
  ASSUME IssuedInv, pc' \in {"idle", "primary", "backup", "clear"}, mem' = mem,
         undo' = undo, IssuedFiles', \A g \in Checkpoints' : IdsBelow(g),
         \A k \in issued' : Below(k, mem)
  PROVE  IssuedInv'
  BY DEF IssuedInv, IssuedMemory, IssuedLoad, GraphsBelow, IdsBelow, HasNode, HasRel, Below

\* A dropped workspace leaves its files.
LEMMA IssuedForget ==
  ASSUME Forget, IssuedFiles', \A g \in Checkpoints' : IdsBelow(g)
  PROVE  IssuedInv'
  <1>1. pc' = "closed" /\ mem' = EmptyGraph /\ undo' = EmptyGraph
    BY DEF Forget
  <1>2. IdsBelow(mem') /\ IdsBelow(undo')
    BY <1>1, EmptyBelow
  <1>3. GraphsBelow'
    BY <1>2 DEF GraphsBelow, IdsBelow, HasNode, HasRel
  <1>4. QED
    BY <1>1, <1>3 DEF IssuedInv, IssuedMemory, IssuedLoad

\* Every step keeps the issued ids behind the counters.
LEMMA IssuedStep ==
  ASSUME TypeOK, RecoveryInv, IssuedInv, [Next]_vars
  PROVE  IssuedInv'
  <1>1. CASE Create
    <2>1. IssuedFiles' /\ \A g \in Checkpoints' : IdsBelow(g)
      BY <1>1, IssuedFilesSame DEF Create, fileVars, historyVars
    <2>2. issued' = {} /\ pc' = "primary" /\ mem' = EmptyGraph /\ undo' = undo
      BY <1>1 DEF Create, historyVars, IssuedInv, IssuedFiles
    <2>3. IdsBelow(mem') /\ IdsBelow(undo')
      BY <2>2, EmptyBelow DEF IssuedInv, GraphsBelow
    <2>4. QED
      BY <2>1, <2>2, <2>3
      DEF IssuedInv, IssuedMemory, IssuedLoad, GraphsBelow, IdsBelow, HasNode, HasRel
  <1>2. CASE Open
    <2>1. IssuedFiles' /\ \A g \in Checkpoints' : IdsBelow(g)
      BY <1>2, IssuedFilesSame DEF Open, fileVars, historyVars
    <2>2. mem' = LoadSource /\ LoadSource \in Checkpoints
      BY <1>2, WorkspaceAssumption DEF Open, LoadSource, Checkpoints, TypeOK
    <2>3. IdsBelow(mem') /\ IdsBelow(undo')
      BY <1>2, <2>2 DEF Open, IssuedInv, GraphsBelow
    <2>4. \A k \in issued : Raises(log, 1, k) \/ Below(k, mem')
      BY <1>2, <2>2 DEF Open, IssuedInv, IssuedFiles
    <2>5. pc' = "load" /\ replayed' + 1 = 1 /\ log' = log /\ issued' = issued
      BY <1>2 DEF Open, fileVars, historyVars
    <2>6. IssuedLoad'
      BY <2>4, <2>5 DEF IssuedLoad, Raises, Below
    <2>7. QED
      BY <2>1, <2>3, <2>5, <2>6
      DEF IssuedInv, IssuedMemory, GraphsBelow, IdsBelow, HasNode, HasRel
  <1>3. CASE Replay
    <2>1. IssuedFiles' /\ \A g \in Checkpoints' : IdsBelow(g)
      BY <1>3, IssuedFilesSame DEF Replay, fileVars, historyVars
    <2> DEFINE o == log[replayed + 1]
    <2>2. o \in DurableOperation /\ replayed \in Nat /\ Len(log) \in Nat /\ mem \in GraphState
      BY <1>3 DEF TypeOK, Replay
    <2>3. mem' = ApplyEntry(mem, o) /\ mem' \in GraphState
      BY <1>3, <2>2, ApplyEntryType DEF Replay
    <2>4. mem'.next_node_id =
            IF o.op = "UpsertNode" THEN AtLeast(mem.next_node_id, o.id + 1) ELSE mem.next_node_id
      BY <2>2, <2>3, ApplyEntryParts
    <2>5. IdsBelow(mem') /\ IdsBelow(undo')
      BY <1>3, <2>2, <2>3, ApplyEntryBelow DEF Replay, IssuedInv, GraphsBelow
    <2>6. o.op = "UpsertNode" => o.id \in Nat
      BY <2>2, CountersAreNumbers DEF DurableOperation
    <2>7. ASSUME NEW k \in issued
          PROVE  Below(k, mem') \/ Raises(log, replayed + 2, k)
      <3>1. k \in Nat /\ mem.next_node_id \in Nat
        BY <2>2, CountersAreNumbers DEF TypeOK
      <3>2. CASE Below(k, mem)
        BY <2>4, <2>6, <3>1, <3>2 DEF Below, AtLeast
      <3>3. CASE Raises(log, replayed + 1, k)
        <4>1. PICK i \in (replayed + 1)..Len(log) : log[i].op = "UpsertNode" /\ log[i].id >= k
          BY <3>3 DEF Raises
        <4>2. CASE i = replayed + 1
          BY <2>4, <2>6, <3>1, <4>1, <4>2 DEF Below, AtLeast
        <4>3. CASE i # replayed + 1
          <5>1. i \in (replayed + 2)..Len(log)
            BY <2>2, <4>3
          <5>2. QED
            BY <4>1, <5>1 DEF Raises
        <4>4. QED
          BY <4>2, <4>3
      <3>4. QED
        BY <1>3, <3>2, <3>3 DEF Replay, IssuedInv, IssuedLoad
    <2>8. pc' = "load" /\ replayed' + 1 = replayed + 2 /\ log' = log /\ issued' = issued
      BY <1>3, <2>2 DEF Replay, fileVars, historyVars
    <2>9. IssuedLoad'
      BY <2>7, <2>8 DEF IssuedLoad, Raises, Below
    <2>10. QED
      BY <2>1, <2>5, <2>8, <2>9
      DEF IssuedInv, IssuedMemory, GraphsBelow, IdsBelow, HasNode, HasRel
  <1>4. CASE Loaded
    <2>1. IssuedFiles' /\ \A g \in Checkpoints' : IdsBelow(g)
      BY <1>4, IssuedFilesSame DEF Loaded, fileVars, historyVars
    <2>2. \A k \in issued : ~Raises(log, replayed + 1, k)
      BY <1>4 DEF Loaded, Raises, TypeOK
    <2>3. \A k \in issued' : Below(k, mem)
      BY <1>4, <2>2 DEF Loaded, IssuedInv, IssuedLoad, historyVars
    <2>4. QED
      BY <1>4, <2>1, <2>3, IssuedRest DEF Loaded
  <1>5. CASE WritePrimary \/ WriteBackup
    <2>1. /\ pc \in {"primary", "backup"} /\ pc' \in {"backup", "clear"} /\ mem' = mem /\ undo' = undo
          /\ primary' \in {primary, mem} /\ backup' \in {backup, mem}
          /\ UNCHANGED <<log, malformed, issued>>
      BY <1>5 DEF WritePrimary, WriteBackup, CheckpointStep, historyVars
    <2>2. mem # NoFile
      BY GraphIsFile DEF TypeOK
    <2>3. IssuedFiles' /\ \A g \in Checkpoints' : IdsBelow(g)
      BY <2>1, <2>2, IssuedCheckpoint
    <2>4. QED
      BY <2>1, <2>3, IssuedRest DEF IssuedInv, IssuedMemory
  <1>6. CASE ClearLog
    <2>1. /\ IssuedFiles' /\ \A g \in Checkpoints' : IdsBelow(g)
          /\ \A k \in issued' : Below(k, mem)
      BY <1>6, IssuedFold DEF ClearLog
    <2>2. QED
      BY <1>6, <2>1, IssuedRest DEF ClearLog
  <1>7. CASE WritePrimaryFails \/ WriteBackupFails \/ ClearLogFails
    <2>1. pc \in {"primary", "backup", "clear"} /\ CheckpointError
      BY <1>7 DEF WritePrimaryFails, WriteBackupFails, ClearLogFails
    <2>2. /\ IssuedFiles' /\ \A g \in Checkpoints' : IdsBelow(g)
          /\ \A k \in issued' : Below(k, mem)
      <3>1. CASE ClearLogFails /\ RemoveLog /\ SettleAll
        BY <3>1, IssuedFold DEF ClearLogFails
      <3>2. CASE ~(ClearLogFails /\ RemoveLog /\ SettleAll)
        <4>1. /\ primary' \in {primary, mem} /\ backup' \in {backup, mem}
              /\ UNCHANGED <<log, malformed, issued>>
          BY <1>7, <3>2 DEF WritePrimaryFails, WriteBackupFails, ClearLogFails, historyVars
        <4>2. mem # NoFile
          BY GraphIsFile DEF TypeOK
        <4>3. QED
          BY <2>1, <4>1, <4>2, IssuedCheckpoint DEF IssuedInv, IssuedMemory
      <3>3. QED
        BY <3>1, <3>2
    <2>3. CASE purpose = "open"
      BY <2>1, <2>2, <2>3, IssuedForget DEF CheckpointError
    <2>4. CASE purpose # "open"
      BY <2>1, <2>2, <2>4, IssuedRest DEF CheckpointError, memoryVars
    <2>5. QED
      BY <2>3, <2>4
  <1>8. CASE Save
    <2>1. IssuedFiles' /\ \A g \in Checkpoints' : IdsBelow(g)
      BY <1>8, IssuedFilesSame DEF Save, fileVars, historyVars
    <2>2. QED
      BY <1>8, <2>1, IssuedRest DEF Save, historyVars, IssuedInv, IssuedMemory
  <1>9. CASE Begin
    <2>1. IssuedFiles' /\ \A g \in Checkpoints' : IdsBelow(g)
      BY <1>9, IssuedFilesSame DEF Begin, fileVars, historyVars
    <2>2. /\ pc = "idle" /\ pc' = "execute" /\ mem' = mem /\ ops' = << >> /\ issued' = issued
          /\ undo' = IF atomic' THEN mem ELSE EmptyGraph
      BY <1>9 DEF Begin, historyVars
    <2>3. IdsBelow(mem') /\ IdsBelow(undo')
      BY <2>2, EmptyBelow DEF IssuedInv, GraphsBelow
    <2>4. \A k \in issued : Below(k, mem)
      BY <2>2 DEF IssuedInv, IssuedMemory
    <2>5. \A k : ~Upserted(k)'
      BY <2>2 DEF Upserted
    <2>6. IssuedMemory'
      BY <2>2, <2>4, <2>5 DEF IssuedMemory, Below
    <2>7. QED
      BY <2>1, <2>2, <2>3, <2>6
      DEF IssuedInv, IssuedLoad, GraphsBelow, IdsBelow, HasNode, HasRel
  <1>10. CASE Mutate
    <2>1. PICK s \in Mutations(mem) :
            mem' = s.graph /\ ops' = Append(ops, s.durable_op)
      BY <1>10 DEF Mutate, Apply, Mutations
    <2>2. /\ pc = "execute"
          /\ UNCHANGED <<pc, pending, atomic, undo, purpose, replayed, fileVars, reply,
                         historyVars>>
      BY <1>10 DEF Mutate, Apply
    <2>3. IssuedFiles' /\ \A g \in Checkpoints' : IdsBelow(g)
      BY <2>2, IssuedFilesSame DEF fileVars, historyVars
    <2>4. mem \in GraphState /\ IdsBelow(mem) /\ IdsBelow(undo) /\ ops \in Seq(DurableOperation)
          /\ issued \subseteq NodeIds /\ s.durable_op \in DurableOperation
      BY <2>1, MutationOutcome DEF TypeOK, IssuedInv, GraphsBelow
    <2>5. /\ IdsBelow(mem')
          /\ \A k \in NodeIds : Below(k, mem) => Below(k, mem')
          /\ s.durable_op.op = "UpsertNode" => Below(s.durable_op.id, mem')
      BY <2>1, <2>4, MutationBelow
    <2>6. \A k \in NodeIds : Upserted(k)' =>
            Upserted(k) \/ (s.durable_op.op = "UpsertNode" /\ s.durable_op.id = k)
      BY <2>1, <2>4 DEF Upserted
    <2>7. IssuedMemory'
      <3>1. \A k \in issued : Below(k, mem')
        BY <2>2, <2>4, <2>5 DEF IssuedInv, IssuedMemory
      <3>2. \A k \in NodeIds : Upserted(k)' => Below(k, mem')
        BY <2>2, <2>5, <2>6 DEF IssuedInv, IssuedMemory
      <3>3. atomic => \A k \in issued : Below(k, undo)
        BY <2>2 DEF IssuedInv, IssuedMemory
      <3>4. QED
        BY <2>2, <3>1, <3>2, <3>3 DEF IssuedMemory, historyVars, Below
    <2>8. QED
      BY <2>2, <2>3, <2>4, <2>5, <2>7
      DEF IssuedInv, IssuedLoad, GraphsBelow, IdsBelow, HasNode, HasRel
  <1>11. CASE RejectAtomic
    <2>1. IssuedFiles' /\ \A g \in Checkpoints' : IdsBelow(g)
      BY <1>11, IssuedFilesSame DEF RejectAtomic, fileVars, historyVars
    <2>2. pc' = "idle" /\ mem' = undo /\ undo' = undo /\ issued' = issued
      BY <1>11 DEF RejectAtomic, historyVars
    <2>3. \A k \in issued : Below(k, undo)
      BY <1>11 DEF RejectAtomic, IssuedInv, IssuedMemory
    <2>4. QED
      BY <2>1, <2>2, <2>3
      DEF IssuedInv, IssuedMemory, IssuedLoad, GraphsBelow, IdsBelow, HasNode, HasRel, Below
  <1>12. CASE Finish
    <2>1. IssuedFiles' /\ \A g \in Checkpoints' : IdsBelow(g)
      BY <1>12, IssuedFilesSame DEF Finish, fileVars, historyVars
    <2>2. /\ pc = "execute" /\ pc' \in {"idle", "append"} /\ issued' = issued
          /\ UNCHANGED <<mem, undo, atomic, ops>>
      BY <1>12 DEF Finish, memoryVars, historyVars
    <2>3. IssuedMemory'
      BY <2>2 DEF IssuedInv, IssuedMemory, Upserted, Below
    <2>4. QED
      BY <2>1, <2>2, <2>3
      DEF IssuedInv, IssuedLoad, GraphsBelow, IdsBelow, HasNode, HasRel
  <1>13. CASE AppendOperation
    <2>1. /\ IssuedFiles' /\ \A g \in Checkpoints' : IdsBelow(g)
          /\ \A k \in issued' : Below(k, mem)
      BY <1>13, IssuedLine DEF AppendOperation
    <2>2. pc' \in {"idle", "primary"} /\ mem' = mem /\ undo' = undo
      BY <1>13 DEF AppendOperation
    <2>3. QED
      BY <2>1, <2>2, IssuedRest
  <1>14. CASE AppendFails \/ SyncFails \/ AppendTears
    <2>1. pc = "append" /\ pc' = "idle" /\ mem' = mem /\ undo' = undo /\ UNCHANGED <<primary, backup>>
      BY <1>14 DEF AppendFails, SyncFails, AppendTears, AppendError
    <2>2. CASE SyncFails
      BY <2>1, <2>2, IssuedLine, IssuedRest DEF SyncFails
    <2>3. CASE AppendFails \/ AppendTears
      <3>1. UNCHANGED <<log, malformed, issued>>
        BY <2>3 DEF AppendFails, AppendTears, Attempt
      <3>2. QED
        BY <2>1, <3>1, IssuedFilesSame, IssuedRest DEF IssuedInv, IssuedMemory
    <2>4. QED
      BY <1>14, <2>2, <2>3
  <1>15. CASE Close \/ Crash
    BY <1>15, IssuedFilesSame, IssuedForget DEF Close, Crash, fileVars, historyVars
  <1>16. CASE CrashInAppend
    <2>1. CASE UNCHANGED <<log, malformed, historyVars>>
      BY <1>16, <2>1, IssuedFilesSame, IssuedForget DEF CrashInAppend, historyVars
    <2>2. CASE WriteLine /\ Settle
      BY <1>16, <2>2, IssuedLine, IssuedForget DEF CrashInAppend
    <2>3. QED
      BY <1>16, <2>1, <2>2 DEF CrashInAppend
  <1>17. CASE Damage
    <2>1. \A g \in Checkpoints' : g \in Checkpoints
      BY <1>17 DEF Damage, Checkpoints
    <2>2. IssuedFiles'
      BY <1>17, <2>1, WorkspaceAssumption
      DEF Damage, historyVars, IssuedInv, IssuedFiles, Raises, Below
    <2>3. pc' = "closed" /\ mem' = mem /\ undo' = undo
      BY <1>17 DEF Damage, memoryVars
    <2>4. QED
      BY <2>1, <2>2, <2>3
      DEF IssuedInv, IssuedMemory, IssuedLoad, GraphsBelow, IdsBelow, HasNode, HasRel
  <1>18. CASE UNCHANGED vars
    <2>1. IssuedFiles' /\ \A g \in Checkpoints' : IdsBelow(g)
      BY <1>18, IssuedFilesSame DEF vars, fileVars, historyVars
    <2>2. QED
      BY <1>18, <2>1 DEF vars, memoryVars, fileVars, historyVars, IssuedInv, IssuedMemory,
        IssuedLoad, GraphsBelow, IdsBelow, HasNode, HasRel, Below, Upserted, Raises
  <1>19. QED
    BY <1>1, <1>2, <1>3, <1>4, <1>5, <1>6, <1>7, <1>8, <1>9, <1>10, <1>11, <1>12, <1>13,
       <1>14, <1>15, <1>16, <1>17, <1>18 DEF Next, Progress, IOError

\* The invariant behind IdsStayIssued.
LEMMA IssuedInvariant == Spec => []IssuedInv
  <1>1. Init => IssuedInv
    <2>1. SUFFICES ASSUME Init PROVE IssuedInv
      OBVIOUS
    <2>2. /\ mem = EmptyGraph /\ undo = EmptyGraph /\ issued = {} /\ pc = "closed"
          /\ Checkpoints = {}
      BY <2>1 DEF Init, Checkpoints
    <2>3. QED
      BY <2>2, EmptyBelow DEF IssuedInv, GraphsBelow, IssuedMemory, IssuedFiles, IssuedLoad
  <1>2. TypeOK /\ RecoveryInv /\ IssuedInv /\ [Next]_vars => IssuedInv'
    BY IssuedStep
  <1>3. QED
    BY <1>1, <1>2, TypeCorrect, RecoveryInvariant, PTL DEF Spec

\* Whatever crashes and I/O errors happen between append_operation, the writes
\* of save_to_json and the removal of the log, an open workspace counts from
\* beyond every id that was ever durably given to a node.
THEOREM IssuedIdsStayIssued == Spec => []IdsStayIssued
  <1>1. IssuedInv => IdsStayIssued
    BY DEF IssuedInv, IssuedMemory, IdsStayIssued, Below
  <1>2. QED
    BY <1>1, IssuedInvariant, PTL

-----------------------------------------------------------------------------
(***************************************************************************)
(* From here on no I/O error is reported: the process may crash between    *)
(* any two steps, or within an append, and a closed workspace may lose its *)
(* primary checkpoint, but append_operation and save_to_json do not fail   *)
(* while the process lives on.  Then a load gives exactly the live part of *)
(* the last durable request, and the workspace implements DurableGraph,    *)
(* for every number of ids, every schema and every batch size, log length  *)
(* and checkpoint interval.                                                *)
(***************************************************************************)

-----------------------------------------------------------------------------
(***************************************************************************)
(* Which operations a sequence holds.                                      *)
(***************************************************************************)
\* No operation of s from position lo on is in T; operation i is the last in T.
NoneOf(s, lo, T) == \A i \in lo..Len(s) : s[i] \notin T
LastOf(s, i, T)  == s[i] \in T /\ NoneOf(s, i + 1, T)

RelOps(r) == {o \in DurableOperation : TouchesRel(o, r)}

\* Replaying s from position lo on registers m, or raises a counter past n.
RegistersIn(s, lo, m) == \E i \in lo..Len(s) : Registers(s[i]) /\ s[i].model = m
RaisesRel(s, lo, n)   == \E i \in lo..Len(s) : s[i].op = "UpsertRel" /\ s[i].id >= n

\* The node counter is raised past n between position lo and position i.
RaisedBefore(s, lo, i, n) ==
  \E j \in lo..(i - 1) : s[j].op = "UpsertNode" /\ s[j].id >= n

-----------------------------------------------------------------------------
(***************************************************************************)
(* How a graph, a sequence of operations and a later graph fit together.   *)
(***************************************************************************)
\* What rel amounts to in c: nothing unless both of its nodes are there.
Anchor(c, rel) ==
  IF rel # Absent /\ HasNode(c, rel.from) /\ HasNode(c, rel.to) THEN rel ELSE Absent

\* The nodes of rel have been issued in c, deleted since or not.
EndsBelow(rel, c) == rel # Absent => Below(rel.from, c) /\ Below(rel.to, c)

EndsIssued(g) == \A r \in RelIds : EndsBelow(g.rels[r], g)

\* The two graphs have the same live part.
Agree(g, c) ==
  /\ g.models = c.models /\ g.nodes = c.nodes
  /\ g.next_node_id = c.next_node_id /\ g.next_rel_id = c.next_rel_id
  /\ \A r \in RelIds : Anchor(c, g.rels[r]) = Anchor(c, c.rels[r])

\* Replaying s from position lo on over g gives the live part of c, provided
\* that the records of s are right about c: the schema and the counters are
\* what g has and s adds,
SchemaLeads(g, s, lo, c) ==
  \A m \in NodeModels \cup RelModels : m \in c.models <=> m \in g.models \/ RegistersIn(s, lo, m)

CountersLead(g, s, lo, c) ==
  /\ \A n \in NodeIds : Below(n, c) <=> Below(n, g) \/ Raises(s, lo, n)
  /\ \A n \in RelIds : n < c.next_rel_id <=> n < g.next_rel_id \/ RaisesRel(s, lo, n)

\* g is right where s is silent,
TablesLead(g, s, lo, c) ==
  /\ \A k \in NodeIds : Untouched(s, lo, k) => g.nodes[k] = c.nodes[k]
  /\ \A r \in RelIds :
       NoneOf(s, lo, RelOps(r)) => Anchor(c, g.rels[r]) = Anchor(c, c.rels[r])

\* and no relationship is put before the ids of its nodes are issued.
EndsLead(g, s, lo) ==
  /\ EndsIssued(g)
  /\ \A i \in lo..Len(s) : s[i].op = "UpsertRel" =>
       \A e \in {s[i].rel.from, s[i].rel.to} : Below(e, g) \/ RaisedBefore(s, lo, i, e)

LeadsTo(g, s, lo, c) ==
  SchemaLeads(g, s, lo, c) /\ CountersLead(g, s, lo, c) /\ TablesLead(g, s, lo, c)
    /\ EndsLead(g, s, lo)

\* The last record about a node or relationship is right about c, and c has
\* seen what the records mention.
Records(s, c) ==
  \A i \in 1..Len(s) :
    /\ \A k \in NodeIds : LastTouch(s, i, k) => NodeAfter(s[i]) = c.nodes[k]
    /\ \A r \in RelIds :
         LastOf(s, i, RelOps(r)) => Anchor(c, RelAfter(s[i])) = Anchor(c, c.rels[r])
    /\ Registers(s[i]) => s[i].model \in c.models
    /\ s[i].op = "UpsertNode" => Below(s[i].id, c)
    /\ s[i].op = "UpsertRel" => s[i].id < c.next_rel_id /\ EndsBelow(s[i].rel, c)
    /\ s[i].op = "DeleteNode" => ~HasNode(c, s[i].id) /\ Below(s[i].id, c)

\* Ids stay issued from c to d, and a deleted node does not come back.
Grown(c, d) ==
  \A k \in NodeIds : Below(k, c) => Below(k, d) /\ (~HasNode(c, k) => ~HasNode(d, k))

-----------------------------------------------------------------------------
(***************************************************************************)
(* The invariant.                                                          *)
(***************************************************************************)
\* Only a crash leaves an unterminated line, and the next open removes it.
CleanLog ==
  /\ ~malformed
  /\ torn => \/ pc \in {"closed", "load"}
             \/ pc \in {"primary", "backup", "clear"} /\ purpose = "open"

\* The log is right about the committed graph and leads there from either checkpoint.
FilesExact ==
  /\ EndsIssued(committed)
  /\ primary = NoFile => committed = EmptyGraph
  /\ Records(log, committed)
  /\ \A g \in Checkpoints : LeadsTo(g, log, 1, committed)

\* The memory: on its way to the committed graph in a load, a request ahead of
\* it in a request, the same otherwise.
MemoryExact ==
  /\ pc = "load" => LeadsTo(mem, log, replayed + 1, committed)
  /\ pc \in {"idle", "primary", "backup", "clear"} => EndsIssued(mem) /\ Agree(mem, committed)
  /\ pc \in {"execute", "append"} =>
       /\ EndsIssued(mem)
       /\ LeadsTo(committed, ops, 1, mem) /\ Records(ops, mem) /\ Grown(committed, mem)
       /\ atomic => EndsIssued(undo) /\ Agree(undo, committed)

ExactInv == CleanLog /\ FilesExact /\ MemoryExact

-----------------------------------------------------------------------------
(***************************************************************************)
(* Sequences.                                                              *)
(***************************************************************************)
\* The positions of a log with a line behind it.
LEMMA ConcatPositions ==
  ASSUME NEW s \in Seq(DurableOperation), NEW t \in Seq(DurableOperation)
  PROVE  /\ Len(s) \in Nat /\ Len(t) \in Nat /\ Len(s \o t) = Len(s) + Len(t)
         /\ s \o t \in Seq(DurableOperation)
         /\ \A i \in 1..Len(s) : i \in 1..Len(s \o t) /\ (s \o t)[i] = s[i]
         /\ \A j \in 1..Len(t) : Len(s) + j \in 1..Len(s \o t) /\ (s \o t)[Len(s) + j] = t[j]
         /\ \A i \in 1..Len(s \o t) :
              i \in 1..Len(s) \/ (i - Len(s) \in 1..Len(t) /\ i = Len(s) + (i - Len(s)))
  OBVIOUS

\* A line behind the log: its own operations come last.
LEMMA LastConcat ==
  ASSUME NEW s \in Seq(DurableOperation), NEW t \in Seq(DurableOperation), NEW T
  PROVE  /\ NoneOf(s \o t, 1, T) => NoneOf(s, 1, T) /\ NoneOf(t, 1, T)
         /\ \A i \in 1..Len(s) : LastOf(s \o t, i, T) => LastOf(s, i, T) /\ NoneOf(t, 1, T)
         /\ \A j \in 1..Len(t) : LastOf(s \o t, Len(s) + j, T) => LastOf(t, j, T)
  <1> DEFINE u == s \o t
  <1>1. /\ Len(u) = Len(s) + Len(t) /\ Len(s) \in Nat /\ Len(t) \in Nat
        /\ \A i \in 1..Len(s) : u[i] = s[i]
        /\ \A j \in 1..Len(t) : u[Len(s) + j] = t[j]
    OBVIOUS
  <1> HIDE DEF u
  <1>2. ASSUME NEW lo \in 1..(Len(s) + 1), NoneOf(u, lo, T) PROVE NoneOf(t, 1, T)
    <2>1. SUFFICES ASSUME NEW j \in 1..Len(t) PROVE t[j] \notin T
      BY DEF NoneOf
    <2>2. Len(s) + j \in lo..Len(u)
      BY <1>1
    <2>3. QED
      BY <1>1, <1>2, <2>2 DEF NoneOf
  <1>3. ASSUME NEW lo \in 1..(Len(s) + 1), NoneOf(u, lo, T) PROVE NoneOf(s, lo, T)
    <2>1. SUFFICES ASSUME NEW i \in lo..Len(s) PROVE s[i] \notin T
      BY DEF NoneOf
    <2>2. i \in lo..Len(u) /\ i \in 1..Len(s)
      BY <1>1
    <2>3. QED
      BY <1>1, <1>3, <2>2 DEF NoneOf
  <1>4. 1 \in 1..(Len(s) + 1) /\ \A i \in 1..Len(s) : i + 1 \in 1..(Len(s) + 1)
    BY <1>1
  <1>5. \A i \in 1..Len(s) : LastOf(u, i, T) => LastOf(s, i, T) /\ NoneOf(t, 1, T)
    BY <1>1, <1>2, <1>3, <1>4 DEF LastOf
  <1>6. ASSUME NEW j \in 1..Len(t), LastOf(u, Len(s) + j, T) PROVE LastOf(t, j, T)
    <2>1. ASSUME NEW m \in (j + 1)..Len(t) PROVE t[m] \notin T
      <3>1. m \in 1..Len(t) /\ Len(s) + m \in (Len(s) + j + 1)..Len(u)
        BY <1>1
      <3>2. QED
        BY <1>1, <1>6, <3>1 DEF LastOf, NoneOf
    <2>2. QED
      BY <1>1, <1>6, <2>1 DEF LastOf, NoneOf
  <1>7. QED
    BY <1>2, <1>3, <1>4, <1>5, <1>6 DEF u

-----------------------------------------------------------------------------
(***************************************************************************)
(* Graphs.                                                                 *)
(***************************************************************************)
\* The parts of a graph have their types.
LEMMA GraphParts ==
  ASSUME NEW g \in GraphState
  PROVE  /\ g.models \subseteq NodeModels \cup RelModels
         /\ g.nodes \in [NodeIds -> StoredNode \cup {Absent}]
         /\ g.rels \in [RelIds -> StoredRel \cup {Absent}]
         /\ g.next_node_id \in 1..(MaxNodeId + 1) /\ g.next_rel_id \in 1..(MaxRelId + 1)
         /\ \A r \in RelIds : g.rels[r] # Absent =>
              g.rels[r].from \in NodeIds /\ g.rels[r].to \in NodeIds
  <1>1. g.rels \in [RelIds -> StoredRel \cup {Absent}]
    BY DEF GraphState
  <1>2. \A r \in RelIds : g.rels[r] # Absent => g.rels[r] \in StoredRel
    BY <1>1
  <1>3. \A r \in RelIds : g.rels[r] # Absent =>
          g.rels[r].from \in NodeIds /\ g.rels[r].to \in NodeIds
    BY <1>2 DEF StoredRel
  <1>4. QED
    BY <1>1, <1>3 DEF GraphState

\* A counter is known by the ids below it.
LEMMA SameCounter ==
  ASSUME NEW N \in Nat, NEW a \in 1..(N + 1), NEW b \in 1..(N + 1),
         \A n \in 1..N : n < a <=> n < b
  PROVE  a = b
  <1>1. CASE a < b
    <2>1. a \in 1..N
      BY <1>1
    <2>2. QED
      BY <1>1, <2>1
  <1>2. CASE b < a
    <2>1. b \in 1..N
      BY <1>2
    <2>2. QED
      BY <1>2, <2>1
  <1>3. QED
    BY <1>1, <1>2

\* Graphs that agree have the same live part.
LEMMA AgreeLive ==
  ASSUME NEW g \in GraphState, NEW c \in GraphState, Agree(g, c)
  PROVE  Live(g) = Live(c)
  <1>1. \A r \in RelIds : (IF Anchored(g, r) THEN g.rels[r] ELSE Absent) = Anchor(g, g.rels[r])
    BY DEF Anchored, Anchor, HasRel
  <1>2. \A r \in RelIds : (IF Anchored(c, r) THEN c.rels[r] ELSE Absent) = Anchor(c, c.rels[r])
    BY DEF Anchored, Anchor, HasRel
  <1>3. \A rel : Anchor(g, rel) = Anchor(c, rel)
    BY DEF Agree, Anchor, HasNode
  <1> DEFINE rg == [r \in RelIds |-> IF Anchored(g, r) THEN g.rels[r] ELSE Absent]
             rc == [r \in RelIds |-> IF Anchored(c, r) THEN c.rels[r] ELSE Absent]
  <1>4. rg = rc
    BY <1>1, <1>2, <1>3 DEF Agree
  <1>5. Live(g) = [g EXCEPT !.rels = rg] /\ Live(c) = [c EXCEPT !.rels = rc]
    BY DEF Live
  <1> HIDE DEF rg, rc
  <1>6. [g EXCEPT !.rels = rg] = [c EXCEPT !.rels = rc]
    BY <1>4 DEF Agree, GraphState
  <1>7. QED
    BY <1>5, <1>6

\* Agreement goes both ways.
LEMMA AgreeSymmetric ==
  ASSUME NEW g, NEW c, Agree(g, c)
  PROVE  Agree(c, g)
  <1>1. \A rel : Anchor(g, rel) = Anchor(c, rel)
    BY DEF Agree, Anchor, HasNode
  <1>2. QED
    BY <1>1 DEF Agree

\* What is the same in c stays the same in a graph that grew out of c.
LEMMA AnchorGrown ==
  ASSUME NEW c, NEW d, Grown(c, d),
         NEW x \in StoredRel \cup {Absent}, NEW y \in StoredRel \cup {Absent},
         EndsBelow(x, c), EndsBelow(y, c), Anchor(c, x) = Anchor(c, y)
  PROVE  Anchor(d, x) = Anchor(d, y)
  <1>1. \A z \in StoredRel \cup {Absent} : z # Absent => z.from \in NodeIds /\ z.to \in NodeIds
    BY DEF StoredRel
  <1>2. \A z \in {x, y} : Anchor(c, z) = Absent => Anchor(d, z) = Absent
    BY <1>1 DEF Grown, EndsBelow, Anchor
  <1>3. CASE Anchor(c, x) = Absent
    BY <1>2, <1>3
  <1>4. CASE Anchor(c, x) # Absent
    BY <1>4 DEF Anchor
  <1>5. QED
    BY <1>3, <1>4

\* A graph grows into itself, and growth composes.
LEMMA GrownChain ==
  ASSUME NEW c, NEW d, NEW e, Grown(c, d), Grown(d, e)
  PROVE  Grown(c, e)
  BY DEF Grown

\* Graphs that agree grow into each other.
LEMMA AgreeGrown ==
  ASSUME NEW c, NEW d, Agree(c, d)
  PROVE  Grown(c, d)
  BY DEF Agree, Grown, Below, HasNode

-----------------------------------------------------------------------------
(***************************************************************************)
(* One request operation.                                                  *)
(***************************************************************************)
\* Which ids a request may name: a node it puts is fresh or was there, a node
\* it deletes was there, and the nodes of a relationship it puts were issued.
LEMMA RequestedIds ==
  ASSUME NEW g \in GraphState, IdsBelow(g), EndsIssued(g), NEW s \in Mutations(g)
  PROVE  LET o == s.durable_op IN
         /\ o.op = "UpsertNode" => o.id = g.next_node_id \/ HasNode(g, o.id)
         /\ o.op = "DeleteNode" => HasNode(g, o.id) /\ o.id \in NodeIds
         /\ o.op = "UpsertRel" => EndsBelow(o.rel, g)
  <1> USE DEF Outcome
  <1>1. CASE s \in DefineNode(g)
    <2>1. PICK m \in NodeModels : s.durable_op = RegisterNodeModelOp(m)
      BY <1>1 DEF DefineNode
    <2>2. QED
      BY <2>1 DEF RegisterNodeModelOp
  <1>2. CASE s \in DefineEdge(g)
    <2>1. PICK m \in RelModels : s.durable_op = RegisterRelModelOp(m)
      BY <1>2 DEF DefineEdge
    <2>2. QED
      BY <2>1 DEF RegisterRelModelOp
  <1>3. CASE s \in NodeCreate(g)
    BY <1>3 DEF NodeCreate, UpsertNodeOp
  <1>4. CASE s \in NodeUpdate(g)
    <2>1. PICK k \in KnownNodes(g), v \in Values :
            LET node == [g.nodes[k] EXCEPT !.props = v]
            IN  s = Outcome(PutNode(g, k, node), UpsertNodeOp(k, node))
      BY <1>4 DEF NodeUpdate
    <2>2. QED
      BY <2>1 DEF UpsertNodeOp, KnownNodes
  <1>5. CASE s \in NodeDelete(g)
    BY <1>5 DEF NodeDelete, DeleteNodeOp, KnownNodes
  <1>6. CASE s \in EdgeCreate(g)
    <2>1. PICK rel \in {x \in StoredRel : Connects(g, x) /\ g.next_rel_id \in RelIds} :
            s = Outcome([PutRel(g, g.next_rel_id, rel) EXCEPT !.next_rel_id = g.next_rel_id + 1],
                        UpsertRelOp(g.next_rel_id, rel))
      BY <1>6 DEF EdgeCreate
    <2>2. rel.from \in NodeIds /\ rel.to \in NodeIds
      BY DEF StoredRel
    <2>3. EndsBelow(rel, g)
      BY <2>1, <2>2 DEF Connects, EndsBelow, IdsBelow, Below
    <2>4. QED
      BY <2>1, <2>3 DEF UpsertRelOp
  <1>7. CASE s \in EdgeUpdate(g)
    <2>1. PICK r \in KnownRels(g), v \in Values :
            LET rel == [g.rels[r] EXCEPT !.props = v]
            IN  s = Outcome(PutRel(g, r, rel), UpsertRelOp(r, rel))
      BY <1>7 DEF EdgeUpdate
    <2>2. r \in RelIds /\ g.rels[r] # Absent /\ g.rels[r] \in StoredRel
      BY DEF KnownRels, HasRel, GraphState
    <2>3. /\ [g.rels[r] EXCEPT !.props = v].from = g.rels[r].from
          /\ [g.rels[r] EXCEPT !.props = v].to = g.rels[r].to
      BY <2>2 DEF StoredRel
    <2>4. EndsBelow([g.rels[r] EXCEPT !.props = v], g)
      BY <2>2, <2>3 DEF EndsIssued, EndsBelow
    <2>5. QED
      BY <2>1, <2>4 DEF UpsertRelOp
  <1>8. CASE s \in EdgeDelete(g)
    BY <1>8 DEF EdgeDelete, DeleteRelOp
  <1>9. QED
    BY <1>1, <1>2, <1>3, <1>4, <1>5, <1>6, <1>7, <1>8 DEF Mutations

\* After one operation of a request the graph is where the operation leads.
LEMMA OneOperation ==
  ASSUME NEW d \in GraphState, IdsBelow(d), EndsIssued(d), NEW s \in Mutations(d)
  PROVE  /\ LeadsTo(d, <<s.durable_op>>, 1, s.graph)
         /\ Records(<<s.durable_op>>, s.graph)
         /\ Grown(d, s.graph)
         /\ EndsIssued(s.graph)
  <1> DEFINE o == s.durable_op
             h == s.graph
             t == <<o>>
  <1>1. o \in DurableOperation /\ h \in GraphState /\ h = ApplyEntry(d, o)
    BY MutationOutcome, MutationIsReplay
  <1>2. /\ h.models = IF Registers(o) THEN d.models \cup {o.model} ELSE d.models
        /\ h.next_node_id = IF o.op = "UpsertNode" THEN AtLeast(d.next_node_id, o.id + 1)
                            ELSE d.next_node_id
        /\ h.next_rel_id = IF o.op = "UpsertRel" THEN AtLeast(d.next_rel_id, o.id + 1)
                           ELSE d.next_rel_id
    <2> HIDE DEF o, h
    <2>1. ApplyEntry(d, o).models = IF Registers(o) THEN d.models \cup {o.model} ELSE d.models
      BY <1>1, ApplyEntryParts, Zenon
    <2>2. ApplyEntry(d, o).next_node_id =
            IF o.op = "UpsertNode" THEN AtLeast(d.next_node_id, o.id + 1) ELSE d.next_node_id
      BY <1>1, ApplyEntryParts, Zenon
    <2>3. ApplyEntry(d, o).next_rel_id =
            IF o.op = "UpsertRel" THEN AtLeast(d.next_rel_id, o.id + 1) ELSE d.next_rel_id
      BY <1>1, ApplyEntryParts, Zenon
    <2>4. QED
      BY <1>1, <2>1, <2>2, <2>3, Zenon
  <1>3. \A r \in RelIds : h.rels[r] = IF TouchesRel(o, r) THEN RelAfter(o)
                            ELSE IF TakesAlong(d, o, d.rels[r]) THEN Absent ELSE d.rels[r]
    BY <1>1, ApplyEntryParts
  <1>4. \A k \in NodeIds : h.nodes[k] = IF TouchesNode(o, k) THEN NodeAfter(o) ELSE d.nodes[k]
    BY <1>1, ApplyEntryNodes
  <1>5. /\ o.op = "UpsertNode" => o.id = d.next_node_id \/ HasNode(d, o.id)
        /\ o.op = "DeleteNode" => HasNode(d, o.id) /\ o.id \in NodeIds
        /\ o.op = "UpsertRel" => EndsBelow(o.rel, d)
    BY RequestedIds
  <1>6. /\ o.op = "UpsertNode" => o.id \in NodeIds /\ o.id \in Nat
        /\ o.op = "UpsertRel" => o.id \in RelIds /\ o.id \in Nat /\ o.rel \in StoredRel
        /\ d.next_node_id \in Nat /\ d.next_rel_id \in Nat
        /\ NodeIds \subseteq Nat /\ RelIds \subseteq Nat
    BY <1>1, CountersAreNumbers DEF DurableOperation
  <1>7. Len(t) = 1 /\ t[1] = o /\ \A i \in 1..Len(t) : i = 1
    OBVIOUS
  <1>8. \A i : i \in 1..Len(t) <=> i = 1
    BY <1>7
  <1> HIDE DEF o, h, t
  <1>9. \A n \in NodeIds : Below(n, h) <=> Below(n, d) \/ (o.op = "UpsertNode" /\ o.id >= n)
    BY <1>2, <1>6 DEF Below, AtLeast
  <1>10. \A n \in RelIds : n < h.next_rel_id <=> n < d.next_rel_id \/ (o.op = "UpsertRel" /\ o.id >= n)
    BY <1>2, <1>6 DEF AtLeast
  <1>11. SchemaLeads(d, t, 1, h)
    BY <1>2, <1>7, <1>8 DEF SchemaLeads, RegistersIn
  <1>12. CountersLead(d, t, 1, h)
    BY <1>7, <1>8, <1>9, <1>10 DEF CountersLead, Raises, RaisesRel
  <1>13. \A r \in RelIds : o.op = "DeleteNode" /\ Incident(d.rels[r], o.id) => Anchor(h, d.rels[r]) = Absent
    <2>1. o.op = "DeleteNode" => ~HasNode(h, o.id)
      BY <1>4, <1>5 DEF HasNode, TouchesNode, NodeAfter
    <2>2. QED
      BY <2>1 DEF Incident, Anchor
  <1>14. Anchor(h, Absent) = Absent
    BY DEF Anchor
  <1>15. TablesLead(d, t, 1, h)
    <2>1. ASSUME NEW k \in NodeIds, Untouched(t, 1, k) PROVE d.nodes[k] = h.nodes[k]
      BY <1>4, <1>7, <1>8, <2>1 DEF Untouched
    <2>2. ASSUME NEW r \in RelIds, NoneOf(t, 1, RelOps(r))
          PROVE  Anchor(h, d.rels[r]) = Anchor(h, h.rels[r])
      <3>1. ~TouchesRel(o, r)
        BY <1>1, <1>7, <1>8, <2>2 DEF NoneOf, RelOps, o
      <3>2. CASE TakesAlong(d, o, d.rels[r])
        BY <1>3, <1>13, <1>14, <3>1, <3>2 DEF TakesAlong
      <3>3. CASE ~TakesAlong(d, o, d.rels[r])
        BY <1>3, <3>1, <3>3
      <3>4. QED
        BY <3>2, <3>3
    <2>3. QED
      BY <2>1, <2>2 DEF TablesLead
  <1>16. EndsLead(d, t, 1)
    <2>1. o.op = "UpsertRel" => \A e \in {o.rel.from, o.rel.to} : Below(e, d)
      BY <1>5, <1>6, AbsentAssumption DEF EndsBelow
    <2>2. QED
      BY <1>7, <1>8, <2>1 DEF EndsLead
  <1>17. Records(t, h)
    <2>1. SUFFICES /\ \A k \in NodeIds : TouchesNode(o, k) => NodeAfter(o) = h.nodes[k]
                   /\ \A r \in RelIds :
                        o \in RelOps(r) => Anchor(h, RelAfter(o)) = Anchor(h, h.rels[r])
                   /\ Registers(o) => o.model \in h.models
                   /\ o.op = "UpsertNode" => Below(o.id, h)
                   /\ o.op = "UpsertRel" => o.id < h.next_rel_id /\ EndsBelow(o.rel, h)
                   /\ o.op = "DeleteNode" => ~HasNode(h, o.id) /\ Below(o.id, h)
      BY <1>7, <1>8 DEF Records, LastTouch, LastOf
    <2>2. \A k \in NodeIds : TouchesNode(o, k) => NodeAfter(o) = h.nodes[k]
      BY <1>4
    <2>3. \A r \in RelIds : o \in RelOps(r) => Anchor(h, RelAfter(o)) = Anchor(h, h.rels[r])
      BY <1>3 DEF RelOps
    <2>4. Registers(o) => o.model \in h.models
      BY <1>2
    <2>5. o.op = "UpsertNode" => Below(o.id, h)
      BY <1>6, <1>9
    <2>6. o.op = "UpsertRel" => o.id < h.next_rel_id /\ EndsBelow(o.rel, h)
      <3>1. o.op = "UpsertRel" => h.next_node_id = d.next_node_id
        BY <1>2
      <3>2. QED
        BY <1>5, <1>6, <1>10, <3>1 DEF EndsBelow, Below
    <2>7. o.op = "DeleteNode" => ~HasNode(h, o.id) /\ Below(o.id, h)
      <3>1. o.op = "DeleteNode" => Below(o.id, d)
        BY <1>5 DEF IdsBelow, Below
      <3>2. QED
        BY <1>4, <1>5, <1>9, <3>1 DEF HasNode, TouchesNode, NodeAfter
    <2>8. QED
      BY <2>2, <2>3, <2>4, <2>5, <2>6, <2>7
  <1>18. Grown(d, h)
    <2>1. ASSUME NEW k \in NodeIds, Below(k, d), ~HasNode(d, k) PROVE ~HasNode(h, k)
      <3>1. k # d.next_node_id
        BY <1>6, <2>1 DEF Below
      <3>2. QED
        BY <1>4, <1>5, <2>1, <3>1 DEF HasNode, TouchesNode, NodeAfter
    <2>2. QED
      BY <1>9, <2>1 DEF Grown
  <1>19. EndsIssued(h)
    <2>1. SUFFICES ASSUME NEW r \in RelIds PROVE EndsBelow(h.rels[r], h)
      BY DEF EndsIssued
    <2>2. EndsBelow(h.rels[r], d)
      BY <1>3, <1>5 DEF EndsIssued, EndsBelow, RelAfter
    <2>3. h.rels[r] # Absent => h.rels[r].from \in NodeIds /\ h.rels[r].to \in NodeIds
      BY <1>1, GraphParts DEF h
    <2>4. QED
      BY <1>9, <2>2, <2>3 DEF EndsBelow
  <1>20. QED
    BY <1>11, <1>12, <1>15, <1>16, <1>17, <1>18, <1>19 DEF LeadsTo, o, h, t

-----------------------------------------------------------------------------
(***************************************************************************)
(* A line behind the log.                                                  *)
(***************************************************************************)
\* Ids that are below g are below every graph that s leads to from g.
LEMMA LeadsBelow ==
  ASSUME NEW g \in GraphState, NEW c, NEW s, NEW lo, LeadsTo(g, s, lo, c)
  PROVE  \A r \in RelIds : EndsBelow(g.rels[r], c)
  <1>1. \A n \in NodeIds : Below(n, g) => Below(n, c)
    BY DEF LeadsTo, CountersLead
  <1>2. QED
    BY <1>1, GraphParts DEF LeadsTo, EndsLead, EndsIssued, EndsBelow

\* Where s leads from g to c and t from c to d, s followed by t leads from g to
\* d: appending a line to the log keeps every checkpoint a good start.
LEMMA LeadsOn ==
  ASSUME NEW g \in GraphState, NEW c \in GraphState, NEW d \in GraphState,
         NEW s \in Seq(DurableOperation), NEW t \in Seq(DurableOperation),
         LeadsTo(g, s, 1, c), LeadsTo(c, t, 1, d), Grown(c, d)
  PROVE  LeadsTo(g, s \o t, 1, d)
  <1> DEFINE u == s \o t
  <1>1. /\ Len(s) \in Nat /\ Len(t) \in Nat /\ Len(u) = Len(s) + Len(t)
        /\ \A i \in 1..Len(s) : i \in 1..Len(u) /\ u[i] = s[i]
        /\ \A j \in 1..Len(t) : Len(s) + j \in 1..Len(u) /\ u[Len(s) + j] = t[j]
        /\ \A i \in 1..Len(u) :
             i \in 1..Len(s) \/ (i - Len(s) \in 1..Len(t) /\ i = Len(s) + (i - Len(s)))
    BY ConcatPositions
  <1>2. \A k \in NodeIds : Untouched(u, 1, k) => Untouched(s, 1, k) /\ Untouched(t, 1, k)
    BY TouchConcat
  <1>3. \A r \in RelIds : NoneOf(u, 1, RelOps(r)) => NoneOf(s, 1, RelOps(r)) /\ NoneOf(t, 1, RelOps(r))
    BY LastConcat
  <1> HIDE DEF u
  <1> DEFINE Held(q, o) == \E i \in 1..Len(q) : q[i] = o
  <1>held. \A o : Held(u, o) <=> Held(s, o) \/ Held(t, o)
    <2>1. ASSUME NEW o, Held(t, o) PROVE Held(u, o)
      <3>1. PICK j \in 1..Len(t) : t[j] = o
        BY <2>1
      <3>2. Len(s) + j \in 1..Len(u) /\ u[Len(s) + j] = o
        BY <1>1, <3>1
      <3>3. QED
        BY <3>2
    <2>2. ASSUME NEW o, Held(u, o) PROVE Held(s, o) \/ Held(t, o)
      <3>1. PICK i \in 1..Len(u) : u[i] = o
        BY <2>2
      <3>2. CASE i \in 1..Len(s)
        BY <1>1, <3>1, <3>2
      <3>3. CASE i - Len(s) \in 1..Len(t) /\ i = Len(s) + (i - Len(s))
        <4>1. t[i - Len(s)] = o
          BY <1>1, <3>1, <3>3
        <4>2. QED
          BY <3>3, <4>1
      <3>4. QED
        BY <1>1, <3>2, <3>3
    <2>3. \A o : Held(s, o) => Held(u, o)
      BY <1>1
    <2>4. QED
      BY <2>1, <2>2, <2>3
  <1>4. \A m : RegistersIn(u, 1, m) <=> RegistersIn(s, 1, m) \/ RegistersIn(t, 1, m)
    <2>1. \A q, m : RegistersIn(q, 1, m) <=> \E o : Held(q, o) /\ Registers(o) /\ o.model = m
      BY DEF RegistersIn
    <2> HIDE DEF Held
    <2>2. QED
      BY <1>held, <2>1
  <1>5. \A n : Raises(u, 1, n) <=> Raises(s, 1, n) \/ Raises(t, 1, n)
    <2>1. \A q, n : Raises(q, 1, n) <=> \E o : Held(q, o) /\ o.op = "UpsertNode" /\ o.id >= n
      BY DEF Raises
    <2> HIDE DEF Held
    <2>2. QED
      BY <1>held, <2>1
  <1>6. \A n : RaisesRel(u, 1, n) <=> RaisesRel(s, 1, n) \/ RaisesRel(t, 1, n)
    <2>1. \A q, n : RaisesRel(q, 1, n) <=> \E o : Held(q, o) /\ o.op = "UpsertRel" /\ o.id >= n
      BY DEF RaisesRel
    <2> HIDE DEF Held
    <2>2. QED
      BY <1>held, <2>1
  <1>7. SchemaLeads(g, u, 1, d)
    BY <1>4 DEF LeadsTo, SchemaLeads
  <1>8. CountersLead(g, u, 1, d)
    BY <1>5, <1>6 DEF LeadsTo, CountersLead
  <1>9. TablesLead(g, u, 1, d)
    <2>1. \A k \in NodeIds : Untouched(u, 1, k) => g.nodes[k] = d.nodes[k]
      BY <1>2 DEF LeadsTo, TablesLead
    <2>2. ASSUME NEW r \in RelIds, NoneOf(u, 1, RelOps(r))
          PROVE  Anchor(d, g.rels[r]) = Anchor(d, d.rels[r])
      <3>1. EndsBelow(g.rels[r], c) /\ EndsBelow(c.rels[r], c)
        BY LeadsBelow DEF LeadsTo, EndsLead, EndsIssued
      <3>2. g.rels[r] \in StoredRel \cup {Absent} /\ c.rels[r] \in StoredRel \cup {Absent}
        BY GraphParts
      <3>3. Anchor(c, g.rels[r]) = Anchor(c, c.rels[r])
        BY <1>3, <2>2 DEF LeadsTo, TablesLead
      <3>4. Anchor(d, g.rels[r]) = Anchor(d, c.rels[r])
        BY <3>1, <3>2, <3>3, AnchorGrown
      <3>5. Anchor(d, c.rels[r]) = Anchor(d, d.rels[r])
        BY <1>3, <2>2 DEF LeadsTo, TablesLead
      <3>6. QED
        BY <3>4, <3>5
    <2>3. QED
      BY <2>1, <2>2 DEF TablesLead
  <1>10. EndsLead(g, u, 1)
    <2>1. ASSUME NEW i \in 1..Len(u), u[i].op = "UpsertRel", NEW e \in {u[i].rel.from, u[i].rel.to}
          PROVE  Below(e, g) \/ RaisedBefore(u, 1, i, e)
      <3>1. CASE i \in 1..Len(s)
        <4>1. u[i] = s[i]
          BY <1>1, <3>1
        <4>2. Below(e, g) \/ RaisedBefore(s, 1, i, e)
          BY <2>1, <3>1, <4>1 DEF LeadsTo, EndsLead
        <4>3. \A j \in 1..(i - 1) : j \in 1..Len(s)
          BY <1>1, <3>1
        <4>4. QED
          BY <1>1, <4>2, <4>3 DEF RaisedBefore
      <3>2. CASE i - Len(s) \in 1..Len(t)
        <4> DEFINE j == i - Len(s)
        <4>1. j \in 1..Len(t) /\ i = Len(s) + j
          BY <1>1, <3>2
        <4> HIDE DEF j
        <4>2. u[i] = t[j]
          BY <1>1, <4>1
        <4>3. Below(e, c) \/ RaisedBefore(t, 1, j, e)
          BY <2>1, <4>1, <4>2 DEF LeadsTo, EndsLead
        <4>4. CASE RaisedBefore(t, 1, j, e)
          <5>1. PICK m \in 1..(j - 1) : t[m].op = "UpsertNode" /\ t[m].id >= e
            BY <4>4 DEF RaisedBefore
          <5>2. m \in 1..Len(t) /\ Len(s) + m \in 1..(i - 1)
            BY <1>1, <4>1
          <5>3. u[Len(s) + m] = t[m]
            BY <1>1, <5>2
          <5>4. QED
            BY <5>1, <5>2, <5>3 DEF RaisedBefore
        <4>5. CASE Below(e, c)
          <5>1. e \in NodeIds
            <6>1. t[j] \in DurableOperation /\ t[j].op = "UpsertRel"
              BY <2>1, <4>1, <4>2
            <6>2. t[j].rel \in StoredRel
              BY <6>1 DEF DurableOperation
            <6>3. QED
              BY <2>1, <4>2, <6>2 DEF StoredRel
          <5>2. Below(e, g) \/ Raises(s, 1, e)
            BY <4>5, <5>1 DEF LeadsTo, CountersLead
          <5>3. Raises(s, 1, e) => RaisedBefore(u, 1, i, e)
            <6>1. \A m \in 1..Len(s) : m \in 1..(i - 1) /\ u[m] = s[m]
              BY <1>1, <4>1
            <6>2. QED
              BY <6>1 DEF Raises, RaisedBefore
          <5>4. QED
            BY <5>2, <5>3
        <4>6. QED
          BY <4>3, <4>4, <4>5
      <3>3. QED
        BY <1>1, <3>1, <3>2
    <2>2. QED
      BY <2>1 DEF LeadsTo, EndsLead
  <1>11. QED
    BY <1>7, <1>8, <1>9, <1>10 DEF LeadsTo, u

\* The records of s stay right when t is right about what came after.
LEMMA RecordsOn ==
  ASSUME NEW c \in GraphState, NEW d \in GraphState,
         NEW s \in Seq(DurableOperation), NEW t \in Seq(DurableOperation),
         Records(s, c), Records(t, d), LeadsTo(c, t, 1, d), Grown(c, d)
  PROVE  Records(s \o t, d)
  <1> DEFINE u == s \o t
  <1>1. /\ \A i \in 1..Len(s) : i \in 1..Len(u) /\ u[i] = s[i]
        /\ \A j \in 1..Len(t) : Len(s) + j \in 1..Len(u) /\ u[Len(s) + j] = t[j]
        /\ \A i \in 1..Len(u) :
             i \in 1..Len(s) \/ (i - Len(s) \in 1..Len(t) /\ i = Len(s) + (i - Len(s)))
    BY ConcatPositions
  <1>2. \A k \in NodeIds, i \in 1..Len(u) : LastTouch(u, i, k) =>
          \/ i \in 1..Len(s) /\ u[i] = s[i] /\ LastTouch(s, i, k) /\ Untouched(t, 1, k)
          \/ i - Len(s) \in 1..Len(t) /\ u[i] = t[i - Len(s)] /\ LastTouch(t, i - Len(s), k)
    BY TouchConcat
  <1>3. \A r \in RelIds :
          /\ \A i \in 1..Len(s) :
               LastOf(u, i, RelOps(r)) => LastOf(s, i, RelOps(r)) /\ NoneOf(t, 1, RelOps(r))
          /\ \A j \in 1..Len(t) : LastOf(u, Len(s) + j, RelOps(r)) => LastOf(t, j, RelOps(r))
    BY LastConcat
  <1> HIDE DEF u
  <1>4. ASSUME NEW k \in NodeIds, NEW i \in 1..Len(u), LastTouch(u, i, k)
        PROVE  NodeAfter(u[i]) = d.nodes[k]
    <2>1. CASE i \in 1..Len(s) /\ u[i] = s[i] /\ LastTouch(s, i, k) /\ Untouched(t, 1, k)
      BY <2>1 DEF Records, LeadsTo, TablesLead
    <2>2. CASE i - Len(s) \in 1..Len(t) /\ u[i] = t[i - Len(s)] /\ LastTouch(t, i - Len(s), k)
      BY <2>2 DEF Records
    <2>3. QED
      BY <1>2, <1>4, <2>1, <2>2
  <1>5. ASSUME NEW r \in RelIds, NEW i \in 1..Len(s), LastOf(s, i, RelOps(r)),
               NoneOf(t, 1, RelOps(r))
        PROVE  Anchor(d, RelAfter(s[i])) = Anchor(d, d.rels[r])
    <2>1. Anchor(c, RelAfter(s[i])) = Anchor(c, c.rels[r])
      BY <1>5 DEF Records
    <2>2. Anchor(d, c.rels[r]) = Anchor(d, d.rels[r])
      BY <1>5 DEF LeadsTo, TablesLead
    <2>3. EndsBelow(c.rels[r], c) /\ c.rels[r] \in StoredRel \cup {Absent}
      BY GraphParts DEF LeadsTo, EndsLead, EndsIssued
    <2>4. RelAfter(s[i]) \in StoredRel \cup {Absent} /\ EndsBelow(RelAfter(s[i]), c)
      <3>1. CASE s[i].op = "UpsertRel"
        <4>1. s[i] \in DurableOperation
          OBVIOUS
        <4>2. s[i].rel \in StoredRel
          BY <3>1, <4>1 DEF DurableOperation
        <4>3. QED
          BY <3>1, <4>2 DEF Records, RelAfter
      <3>2. CASE s[i].op # "UpsertRel"
        BY <3>2 DEF RelAfter, EndsBelow
      <3>3. QED
        BY <3>1, <3>2
    <2>5. Anchor(d, RelAfter(s[i])) = Anchor(d, c.rels[r])
      BY <2>1, <2>3, <2>4, AnchorGrown
    <2>6. QED
      BY <2>2, <2>5
  <1>6. ASSUME NEW i \in 1..Len(s)
        PROVE  /\ Registers(s[i]) => s[i].model \in d.models
               /\ s[i].op = "UpsertNode" => Below(s[i].id, d)
               /\ s[i].op = "UpsertRel" => s[i].id < d.next_rel_id /\ EndsBelow(s[i].rel, d)
               /\ s[i].op = "DeleteNode" => ~HasNode(d, s[i].id) /\ Below(s[i].id, d)
    <2>1. s[i] \in DurableOperation
      OBVIOUS
    <2>2. /\ Registers(s[i]) => s[i].model \in NodeModels \cup RelModels
          /\ s[i].op \in {"UpsertNode", "DeleteNode"} => s[i].id \in NodeIds
          /\ s[i].op = "UpsertRel" => s[i].id \in RelIds /\ s[i].rel \in StoredRel
      BY <2>1 DEF DurableOperation, Registers
    <2>3. /\ Registers(s[i]) => s[i].model \in c.models
          /\ s[i].op = "UpsertNode" => Below(s[i].id, c)
          /\ s[i].op = "UpsertRel" => s[i].id < c.next_rel_id /\ EndsBelow(s[i].rel, c)
          /\ s[i].op = "DeleteNode" => ~HasNode(c, s[i].id) /\ Below(s[i].id, c)
      BY DEF Records
    <2>4. Registers(s[i]) => s[i].model \in d.models
      BY <2>2, <2>3 DEF LeadsTo, SchemaLeads
    <2>5. s[i].op = "UpsertNode" => Below(s[i].id, d)
      BY <2>2, <2>3 DEF Grown
    <2>6. s[i].op = "UpsertRel" => s[i].id < d.next_rel_id
      BY <2>2, <2>3 DEF LeadsTo, CountersLead
    <2>7. s[i].op = "UpsertRel" => EndsBelow(s[i].rel, d)
      BY <2>2, <2>3 DEF Grown, EndsBelow, StoredRel
    <2>8. s[i].op = "DeleteNode" => ~HasNode(d, s[i].id) /\ Below(s[i].id, d)
      BY <2>2, <2>3 DEF Grown
    <2>9. QED
      BY <2>4, <2>5, <2>6, <2>7, <2>8
  <1>7. ASSUME NEW i \in 1..Len(u)
        PROVE  /\ \A r \in RelIds :
                    LastOf(u, i, RelOps(r)) => Anchor(d, RelAfter(u[i])) = Anchor(d, d.rels[r])
               /\ Registers(u[i]) => u[i].model \in d.models
               /\ u[i].op = "UpsertNode" => Below(u[i].id, d)
               /\ u[i].op = "UpsertRel" => u[i].id < d.next_rel_id /\ EndsBelow(u[i].rel, d)
               /\ u[i].op = "DeleteNode" => ~HasNode(d, u[i].id) /\ Below(u[i].id, d)
    <2>1. CASE i \in 1..Len(s)
      <3>1. u[i] = s[i]
        BY <1>1, <2>1
      <3>2. QED
        BY <1>3, <1>5, <1>6, <2>1, <3>1
    <2>2. CASE i - Len(s) \in 1..Len(t) /\ i = Len(s) + (i - Len(s))
      <3> DEFINE j == i - Len(s)
      <3>1. j \in 1..Len(t) /\ i = Len(s) + j
        BY <2>2
      <3> HIDE DEF j
      <3>2. u[i] = t[j]
        BY <1>1, <3>1
      <3>3. \A r \in RelIds : LastOf(u, i, RelOps(r)) => LastOf(t, j, RelOps(r))
        BY <1>3, <3>1
      <3>4. QED
        BY <3>1, <3>2, <3>3 DEF Records
    <2>3. QED
      BY <1>1, <2>1, <2>2
  <1>8. QED
    BY <1>4, <1>7 DEF Records, u

-----------------------------------------------------------------------------
(***************************************************************************)
(* Loads and checkpoints.                                                  *)
(***************************************************************************)
\* One round of apply_session_log keeps the load on its way to c.
LEMMA LeadsReplay ==
  ASSUME NEW g \in GraphState, NEW c \in GraphState, NEW s \in Seq(DurableOperation),
         NEW lo \in 1..Len(s), LeadsTo(g, s, lo, c), Records(s, c)
  PROVE  LeadsTo(ApplyEntry(g, s[lo]), s, lo + 1, c)
  <1> DEFINE o == s[lo]
             h == ApplyEntry(g, o)
  <1>1. o \in DurableOperation /\ lo \in Nat /\ Len(s) \in Nat
    OBVIOUS
  <1>2. /\ h.models = IF Registers(o) THEN g.models \cup {o.model} ELSE g.models
        /\ h.next_node_id = IF o.op = "UpsertNode" THEN AtLeast(g.next_node_id, o.id + 1)
                            ELSE g.next_node_id
        /\ h.next_rel_id = IF o.op = "UpsertRel" THEN AtLeast(g.next_rel_id, o.id + 1)
                           ELSE g.next_rel_id
    BY <1>1, ApplyEntryParts
  <1>3. \A r \in RelIds : h.rels[r] = IF TouchesRel(o, r) THEN RelAfter(o)
                            ELSE IF TakesAlong(g, o, g.rels[r]) THEN Absent ELSE g.rels[r]
    BY <1>1, ApplyEntryParts
  <1>4. \A k \in NodeIds : h.nodes[k] = IF TouchesNode(o, k) THEN NodeAfter(o) ELSE g.nodes[k]
    BY <1>1, ApplyEntryNodes
  <1>5. /\ o.op = "UpsertNode" => o.id \in Nat
        /\ o.op = "UpsertRel" => o.id \in Nat /\ o.rel \in StoredRel
        /\ g.next_node_id \in Nat /\ g.next_rel_id \in Nat
        /\ NodeIds \subseteq Nat /\ RelIds \subseteq Nat
    BY <1>1, CountersAreNumbers DEF DurableOperation
  <1>6. h \in GraphState
    BY <1>1, ApplyEntryType
  <1>7. \A i : i \in lo..Len(s) <=> i = lo \/ i \in (lo + 1)..Len(s)
    BY <1>1
  <1> HIDE DEF h
  <1>8. \A n \in NodeIds : Below(n, h) <=> Below(n, g) \/ (o.op = "UpsertNode" /\ o.id >= n)
    BY <1>2, <1>5 DEF Below, AtLeast
  <1>9. \A n \in RelIds : n < h.next_rel_id <=> n < g.next_rel_id \/ (o.op = "UpsertRel" /\ o.id >= n)
    BY <1>2, <1>5 DEF AtLeast
  <1>10. SchemaLeads(h, s, lo + 1, c)
    <2>1. \A m : RegistersIn(s, lo, m) <=> (Registers(o) /\ o.model = m) \/ RegistersIn(s, lo + 1, m)
      BY <1>7 DEF RegistersIn
    <2>2. QED
      BY <1>2, <2>1 DEF LeadsTo, SchemaLeads
  <1>11. CountersLead(h, s, lo + 1, c)
    <2>1. \A n : Raises(s, lo, n) <=> (o.op = "UpsertNode" /\ o.id >= n) \/ Raises(s, lo + 1, n)
      BY <1>7 DEF Raises
    <2>2. \A n : RaisesRel(s, lo, n) <=> (o.op = "UpsertRel" /\ o.id >= n) \/ RaisesRel(s, lo + 1, n)
      BY <1>7 DEF RaisesRel
    <2>3. QED
      BY <1>8, <1>9, <2>1, <2>2 DEF LeadsTo, CountersLead
  <1>12. TablesLead(h, s, lo + 1, c)
    <2>1. ASSUME NEW k \in NodeIds, Untouched(s, lo + 1, k) PROVE h.nodes[k] = c.nodes[k]
      <3>1. CASE TouchesNode(o, k)
        BY <1>4, <2>1, <3>1 DEF Records, LastTouch
      <3>2. CASE ~TouchesNode(o, k)
        <4>1. Untouched(s, lo, k)
          BY <1>7, <2>1, <3>2 DEF Untouched
        <4>2. QED
          BY <1>4, <3>2, <4>1 DEF LeadsTo, TablesLead
      <3>3. QED
        BY <3>1, <3>2
    <2>2. ASSUME NEW r \in RelIds, NoneOf(s, lo + 1, RelOps(r))
          PROVE  Anchor(c, h.rels[r]) = Anchor(c, c.rels[r])
      <3>1. CASE TouchesRel(o, r)
        <4>1. LastOf(s, lo, RelOps(r))
          BY <1>1, <2>2, <3>1 DEF LastOf, RelOps
        <4>2. QED
          BY <1>3, <3>1, <4>1 DEF Records
      <3>2. CASE ~TouchesRel(o, r)
        <4>1. NoneOf(s, lo, RelOps(r))
          BY <1>7, <2>2, <3>2 DEF NoneOf, RelOps
        <4>2. Anchor(c, g.rels[r]) = Anchor(c, c.rels[r])
          BY <4>1 DEF LeadsTo, TablesLead
        <4>3. CASE TakesAlong(g, o, g.rels[r])
          <5>1. ~HasNode(c, o.id)
            BY <4>3 DEF Records, TakesAlong
          <5>2. Anchor(c, g.rels[r]) = Absent /\ Anchor(c, Absent) = Absent
            BY <4>3, <5>1 DEF TakesAlong, Incident, Anchor
          <5>3. QED
            BY <1>3, <3>2, <4>2, <4>3, <5>2
        <4>4. CASE ~TakesAlong(g, o, g.rels[r])
          BY <1>3, <3>2, <4>2, <4>4
        <4>5. QED
          BY <4>3, <4>4
      <3>3. QED
        BY <3>1, <3>2
    <2>3. QED
      BY <2>1, <2>2 DEF TablesLead
  <1>13. EndsLead(h, s, lo + 1)
    <2>1. ASSUME NEW r \in RelIds PROVE EndsBelow(h.rels[r], h)
      <3>1. EndsBelow(h.rels[r], g)
        <4>1. CASE TouchesRel(o, r) /\ o.op = "UpsertRel"
          <5>1. \A e \in {o.rel.from, o.rel.to} : Below(e, g) \/ RaisedBefore(s, lo, lo, e)
            BY <4>1 DEF LeadsTo, EndsLead
          <5>2. \A e : ~RaisedBefore(s, lo, lo, e)
            BY <1>1 DEF RaisedBefore
          <5>3. QED
            BY <1>3, <4>1, <5>1, <5>2 DEF EndsBelow, RelAfter
        <4>2. CASE ~(TouchesRel(o, r) /\ o.op = "UpsertRel")
          BY <1>3, <4>2 DEF LeadsTo, EndsLead, EndsIssued, EndsBelow, RelAfter
        <4>3. QED
          BY <4>1, <4>2
      <3>2. h.rels[r] # Absent => h.rels[r].from \in NodeIds /\ h.rels[r].to \in NodeIds
        BY <1>6, GraphParts
      <3>3. QED
        BY <1>8, <3>1, <3>2 DEF EndsBelow
    <2>2. ASSUME NEW i \in (lo + 1)..Len(s), s[i].op = "UpsertRel",
                 NEW e \in {s[i].rel.from, s[i].rel.to}
          PROVE  Below(e, h) \/ RaisedBefore(s, lo + 1, i, e)
      <3>1. i \in lo..Len(s) /\ i \in 1..Len(s)
        BY <1>1
      <3>2. e \in NodeIds
        <4>1. s[i] \in DurableOperation
          BY <3>1
        <4>2. s[i].rel \in StoredRel
          BY <2>2, <4>1 DEF DurableOperation
        <4>3. QED
          BY <4>2 DEF StoredRel
      <3>3. Below(e, g) \/ RaisedBefore(s, lo, i, e)
        BY <2>2, <3>1 DEF LeadsTo, EndsLead
      <3>4. RaisedBefore(s, lo, i, e) =>
              (o.op = "UpsertNode" /\ o.id >= e) \/ RaisedBefore(s, lo + 1, i, e)
        <4>1. \A j \in lo..(i - 1) : j = lo \/ j \in (lo + 1)..(i - 1)
          BY <1>1, <3>1
        <4>2. QED
          BY <4>1 DEF RaisedBefore
      <3>5. QED
        BY <1>8, <3>2, <3>3, <3>4
    <2>3. QED
      BY <2>1, <2>2 DEF EndsLead, EndsIssued
  <1>14. QED
    BY <1>10, <1>11, <1>12, <1>13 DEF LeadsTo, h

\* With nothing left to replay the graphs agree.
LEMMA LeadsToEnd ==
  ASSUME NEW g \in GraphState, NEW c \in GraphState, NEW s \in Seq(DurableOperation),
         LeadsTo(g, s, Len(s) + 1, c)
  PROVE  Agree(g, c) /\ EndsIssued(g)
  <1>1. \A i : i \notin (Len(s) + 1)..Len(s)
    OBVIOUS
  <1>2. \A m \in NodeModels \cup RelModels : m \in c.models <=> m \in g.models
    BY <1>1 DEF LeadsTo, SchemaLeads, RegistersIn
  <1>3. g.models = c.models
    BY <1>2, GraphParts
  <1>4. \A n \in NodeIds : n < c.next_node_id <=> n < g.next_node_id
    BY <1>1 DEF LeadsTo, CountersLead, Raises, Below
  <1>5. g.next_node_id = c.next_node_id
    BY <1>4, GraphParts, SameCounter, BoundAssumption DEF NodeIds
  <1>6. \A n \in RelIds : n < c.next_rel_id <=> n < g.next_rel_id
    BY <1>1 DEF LeadsTo, CountersLead, RaisesRel
  <1>7. g.next_rel_id = c.next_rel_id
    BY <1>6, GraphParts, SameCounter, BoundAssumption DEF RelIds
  <1>8. \A k \in NodeIds : g.nodes[k] = c.nodes[k]
    BY <1>1 DEF LeadsTo, TablesLead, Untouched
  <1>9. g.nodes = c.nodes
    BY <1>8, GraphParts
  <1>10. \A r \in RelIds : Anchor(c, g.rels[r]) = Anchor(c, c.rels[r])
    BY <1>1 DEF LeadsTo, TablesLead, NoneOf
  <1>11. QED
    BY <1>3, <1>5, <1>7, <1>9, <1>10 DEF Agree, LeadsTo, EndsLead

\* A graph that agrees with c may stand for any other start of a log that is
\* right about c: the log is replayed a second time and changes nothing.
LEMMA AgreeLeads ==
  ASSUME NEW g \in GraphState, NEW c \in GraphState, NEW s \in Seq(DurableOperation),
         Agree(g, c), EndsIssued(g), Records(s, c)
  PROVE  LeadsTo(g, s, 1, c)
  <1>1. \A i \in 1..Len(s) :
          /\ s[i] \in DurableOperation
          /\ s[i].op = "UpsertNode" => s[i].id \in Nat
          /\ s[i].op = "UpsertRel" => s[i].id \in Nat /\ s[i].rel \in StoredRel
    <2>1. SUFFICES ASSUME NEW i \in 1..Len(s)
                   PROVE  /\ s[i] \in DurableOperation
                          /\ s[i].op = "UpsertNode" => s[i].id \in Nat
                          /\ s[i].op = "UpsertRel" => s[i].id \in Nat /\ s[i].rel \in StoredRel
      OBVIOUS
    <2>2. s[i] \in DurableOperation
      OBVIOUS
    <2>3. QED
      BY <2>2, CountersAreNumbers DEF DurableOperation
  <1>2. c.next_node_id \in Nat /\ c.next_rel_id \in Nat /\ NodeIds \subseteq Nat /\ RelIds \subseteq Nat
    BY CountersAreNumbers
  <1>3. SchemaLeads(g, s, 1, c)
    BY DEF Agree, Records, SchemaLeads, RegistersIn
  <1>4. CountersLead(g, s, 1, c)
    <2>1. \A n \in NodeIds : Raises(s, 1, n) => Below(n, c)
      BY <1>1, <1>2 DEF Records, Raises, Below
    <2>2. \A n \in RelIds : RaisesRel(s, 1, n) => n < c.next_rel_id
      BY <1>1, <1>2 DEF Records, RaisesRel
    <2>3. QED
      BY <2>1, <2>2 DEF Agree, CountersLead, Below
  <1>5. TablesLead(g, s, 1, c)
    BY DEF Agree, TablesLead
  <1>6. EndsLead(g, s, 1)
    <2>1. \A i \in 1..Len(s) : s[i].op = "UpsertRel" =>
            \A e \in {s[i].rel.from, s[i].rel.to} : Below(e, c)
      BY <1>1, AbsentAssumption DEF Records, EndsBelow
    <2>2. QED
      BY <2>1 DEF EndsLead, Agree, Below
  <1>7. QED
    BY <1>3, <1>4, <1>5, <1>6 DEF LeadsTo

\* Nothing is recorded in an empty log or request.
LEMMA NoRecords ==
  ASSUME NEW c
  PROVE  Records(<< >>, c) /\ << >> \in Seq(DurableOperation)
  BY DEF Records

-----------------------------------------------------------------------------
(***************************************************************************)
(* The invariant is inductive.                                             *)
(***************************************************************************)
\* The file system reports no error to a live process.
NoIOErrors == Faults \subseteq {"damage"}

\* The files did not move and nothing was committed.
LEMMA FilesExactSame ==
  ASSUME FilesExact, UNCHANGED <<primary, backup, log, committed>>
  PROVE  FilesExact'
  BY DEF FilesExact, Checkpoints

\* A checkpoint of a memory that agrees with the committed graph replaces a file.
LEMMA FilesExactCheckpoint ==
  ASSUME TypeOK, ExactInv, pc \in {"primary", "backup"},
         primary' \in {primary, mem}, backup' \in {backup, mem},
         UNCHANGED <<log, committed>>
  PROVE  FilesExact'
  <1>1. mem \in GraphState /\ committed \in GraphState /\ log \in Seq(DurableOperation)
    BY DEF TypeOK
  <1>2. EndsIssued(mem) /\ Agree(mem, committed) /\ Records(log, committed)
    BY DEF ExactInv, MemoryExact, FilesExact
  <1>3. LeadsTo(mem, log, 1, committed)
    BY <1>1, <1>2, AgreeLeads
  <1>4. \A g \in Checkpoints' : g \in Checkpoints \/ g = mem
    BY DEF Checkpoints
  <1>5. mem # NoFile
    BY <1>1, GraphIsFile
  <1>6. primary' = NoFile => committed = EmptyGraph
    BY <1>5 DEF ExactInv, FilesExact
  <1>7. \A g \in Checkpoints' : LeadsTo(g, log, 1, committed)
    BY <1>3, <1>4 DEF ExactInv, FilesExact
  <1>8. EndsIssued(committed) /\ Records(log, committed)
    BY DEF ExactInv, FilesExact
  <1>9. QED
    BY <1>6, <1>7, <1>8 DEF FilesExact

\* A graph agrees with itself.
LEMMA AgreeSelf ==
  ASSUME NEW g
  PROVE  Agree(g, g)
  BY DEF Agree

\* A line reaches the log whole: the committed graph is the memory now.
LEMMA FilesExactLine ==
  ASSUME TypeOK, RecoveryInv, ExactInv, pc = "append", WriteLine, Settle,
         UNCHANGED <<primary, backup>>
  PROVE  FilesExact' /\ ~malformed' /\ ~torn' /\ EndsIssued(mem) /\ committed' = mem
  <1>1. ~torn /\ ~malformed
    BY Zenon DEF ExactInv, CleanLog
  <1>2. log' = log \o ops /\ committed' = mem
    BY <1>1 DEF WriteLine, Settle
  <1>3. ~malformed' /\ ~torn'
    BY <1>1, Zenon DEF WriteLine
  <1>4. /\ log \in Seq(DurableOperation) /\ ops \in Seq(DurableOperation)
        /\ mem \in GraphState /\ committed \in GraphState
    BY DEF TypeOK
  <1>5. /\ LeadsTo(committed, ops, 1, mem) /\ Records(ops, mem) /\ Grown(committed, mem)
        /\ EndsIssued(mem)
    BY DEF ExactInv, MemoryExact
  <1>6. Records(log', mem)
    BY <1>2, <1>4, <1>5, RecordsOn DEF ExactInv, FilesExact
  <1>7. Checkpoints \subseteq GraphState /\ Checkpoints' = Checkpoints
    BY CheckpointsAreGraphs DEF Checkpoints
  <1>8. ASSUME NEW g \in Checkpoints PROVE LeadsTo(g, log', 1, mem)
    <2>1. g \in GraphState /\ LeadsTo(g, log, 1, committed)
      BY <1>7, <1>8 DEF ExactInv, FilesExact
    <2>2. QED
      BY <1>2, <1>4, <1>5, <2>1, LeadsOn
  <1>9. primary' # NoFile
    BY DEF RecoveryInv, BaseInv
  <1>10. FilesExact'
    BY <1>2, <1>5, <1>6, <1>7, <1>8, <1>9 DEF FilesExact
  <1>11. QED
    BY <1>2, <1>3, <1>5, <1>10

\* A dropped workspace leaves its files.
LEMMA ExactForget ==
  ASSUME Forget, FilesExact', ~malformed'
  PROVE  ExactInv'
  <1>1. pc' = "closed"
    BY DEF Forget
  <1>2. CleanLog'
    BY <1>1 DEF CleanLog
  <1>3. MemoryExact'
    BY <1>1 DEF MemoryExact
  <1>4. QED
    BY <1>2, <1>3 DEF ExactInv

\* Every step keeps the invariant, unless the file system reports an error.
LEMMA ExactStep ==
  ASSUME NoIOErrors, TypeOK, RecoveryInv, IssuedInv, ExactInv, [Next]_vars
  PROVE  ExactInv'
  <1>0. /\ mem \in GraphState /\ committed \in GraphState /\ undo \in GraphState
        /\ log \in Seq(DurableOperation) /\ ops \in Seq(DurableOperation)
    BY DEF TypeOK
  <1>1. CASE Create
    <2>1. FilesExact'
      BY <1>1, FilesExactSame DEF Create, fileVars, historyVars, ExactInv
    <2>2. mem' = EmptyGraph /\ committed' = EmptyGraph /\ pc' = "primary"
      BY <1>1 DEF Create, historyVars, ExactInv, FilesExact
    <2>3. EndsIssued(EmptyGraph)
      BY DEF EndsIssued, EndsBelow, EmptyGraph
    <2>4. MemoryExact'
      BY <2>2, <2>3, AgreeSelf DEF MemoryExact
    <2>5. ~malformed' /\ ~torn'
      BY <1>1 DEF Create, fileVars
    <2>6. QED
      BY <2>1, <2>4, <2>5 DEF ExactInv, CleanLog
  <1>2. CASE Open
    <2>1. FilesExact'
      BY <1>2, FilesExactSame DEF Open, fileVars, historyVars, ExactInv
    <2>2. mem' = LoadSource /\ LoadSource \in Checkpoints
      BY <1>2, WorkspaceAssumption DEF Open, LoadSource, Checkpoints, TypeOK
    <2>3. /\ pc' = "load" /\ replayed' + 1 = 1 /\ log' = log /\ committed' = committed
          /\ malformed' = malformed
      BY <1>2 DEF Open, fileVars, historyVars
    <2>4. MemoryExact'
      BY <2>2, <2>3 DEF MemoryExact, ExactInv, FilesExact
    <2>5. CleanLog'
      BY <2>3 DEF ExactInv, CleanLog
    <2>6. QED
      BY <2>1, <2>4, <2>5 DEF ExactInv
  <1>3. CASE Replay
    <2>1. FilesExact'
      BY <1>3, FilesExactSame DEF Replay, fileVars, historyVars, ExactInv
    <2>2. /\ pc = "load" /\ replayed + 1 \in 1..Len(log) /\ replayed \in Nat
          /\ mem' = ApplyEntry(mem, log[replayed + 1])
      BY <1>3 DEF Replay, TypeOK
    <2>3. LeadsTo(mem', log, replayed + 2, committed)
      <3>1. LeadsTo(mem, log, replayed + 1, committed) /\ Records(log, committed)
        BY <2>2 DEF ExactInv, MemoryExact, FilesExact
      <3>2. LeadsTo(mem', log, (replayed + 1) + 1, committed)
        BY <1>0, <2>2, <3>1, LeadsReplay
      <3>3. (replayed + 1) + 1 = replayed + 2
        BY <2>2
      <3>4. QED
        BY <3>2, <3>3
    <2>4. /\ pc' = "load" /\ replayed' + 1 = replayed + 2 /\ log' = log
          /\ committed' = committed /\ malformed' = malformed
      BY <1>3, <2>2 DEF Replay, fileVars, historyVars
    <2>5. MemoryExact'
      BY <2>3, <2>4 DEF MemoryExact
    <2>6. CleanLog'
      BY <2>4 DEF ExactInv, CleanLog
    <2>7. QED
      BY <2>1, <2>5, <2>6 DEF ExactInv
  <1>4. CASE Loaded
    <2>1. FilesExact'
      BY <1>4, FilesExactSame DEF Loaded, fileVars, historyVars, ExactInv
    <2>2. LeadsTo(mem, log, Len(log) + 1, committed)
      BY <1>4 DEF Loaded, ExactInv, MemoryExact
    <2>3. Agree(mem, committed) /\ EndsIssued(mem)
      BY <1>0, <2>2, LeadsToEnd
    <2>4. /\ pc' = "primary" /\ purpose' = "open" /\ mem' = mem /\ committed' = committed
          /\ malformed' = malformed
      BY <1>4 DEF Loaded, fileVars, historyVars
    <2>5. MemoryExact'
      BY <2>3, <2>4 DEF MemoryExact
    <2>6. CleanLog'
      BY <2>4 DEF ExactInv, CleanLog
    <2>7. QED
      BY <2>1, <2>5, <2>6 DEF ExactInv
  <1>5. CASE WritePrimary \/ WriteBackup
    <2>1. /\ pc \in {"primary", "backup"} /\ pc' \in {"backup", "clear"}
          /\ primary' \in {primary, mem} /\ backup' \in {backup, mem}
          /\ UNCHANGED <<mem, purpose, log, torn, malformed, committed>>
      BY <1>5 DEF WritePrimary, WriteBackup, CheckpointStep, historyVars
    <2>2. FilesExact'
      BY <2>1, FilesExactCheckpoint
    <2>3. CleanLog'
      BY <2>1 DEF ExactInv, CleanLog
    <2>4. MemoryExact'
      BY <2>1 DEF ExactInv, MemoryExact
    <2>5. QED
      BY <2>2, <2>3, <2>4 DEF ExactInv
  <1>6. CASE ClearLog
    <2>1. /\ pc = "clear" /\ pc' = "idle" /\ mem' = mem /\ committed' = mem
          /\ log' = << >> /\ ~torn' /\ ~malformed'
          /\ UNCHANGED <<primary, backup>>
      BY <1>6 DEF ClearLog, RemoveLog, SettleAll
    <2>2. primary' = mem /\ backup' = mem /\ mem # NoFile
      BY <1>0, <2>1, GraphIsFile DEF RecoveryInv, CheckpointInv
    <2>3. EndsIssued(mem)
      BY <2>1 DEF ExactInv, MemoryExact
    <2>4. LeadsTo(mem, << >>, 1, mem) /\ Records(<< >>, mem)
      BY <1>0, <2>3, NoRecords, AgreeSelf, AgreeLeads
    <2>5. FilesExact'
      BY <2>1, <2>2, <2>3, <2>4 DEF FilesExact, Checkpoints
    <2>6. MemoryExact'
      BY <2>1, <2>3, AgreeSelf DEF MemoryExact
    <2>7. QED
      BY <2>1, <2>5, <2>6 DEF ExactInv, CleanLog
  <1>7. ~IOError
    BY DEF NoIOErrors, IOError, WritePrimaryFails, WriteBackupFails, ClearLogFails,
           AppendFails, SyncFails, AppendTears
  <1>8. CASE Save
    <2>1. FilesExact'
      BY <1>8, FilesExactSame DEF Save, fileVars, historyVars, ExactInv
    <2>2. /\ pc = "idle" /\ pc' = "primary" /\ UNCHANGED <<mem, committed, torn, malformed>>
      BY <1>8 DEF Save, fileVars, historyVars
    <2>3. CleanLog'
      BY <2>2, Zenon DEF ExactInv, CleanLog
    <2>4. MemoryExact'
      BY <2>2 DEF ExactInv, MemoryExact
    <2>5. QED
      BY <2>1, <2>3, <2>4 DEF ExactInv
  <1>9. CASE Begin
    <2>1. FilesExact'
      BY <1>9, FilesExactSame DEF Begin, fileVars, historyVars, ExactInv
    <2>2. /\ pc = "idle" /\ pc' = "execute" /\ ops' = << >> /\ (atomic' => undo' = mem)
          /\ UNCHANGED <<mem, committed, torn, malformed>>
      BY <1>9 DEF Begin, fileVars, historyVars
    <2>3. EndsIssued(mem) /\ Agree(mem, committed) /\ EndsIssued(committed)
      BY <2>2 DEF ExactInv, MemoryExact, FilesExact
    <2>4. Agree(committed, mem)
      BY <2>3, AgreeSymmetric
    <2>5. LeadsTo(committed, << >>, 1, mem) /\ Records(<< >>, mem)
      BY <1>0, <2>3, <2>4, NoRecords, AgreeLeads
    <2>6. Grown(committed, mem)
      BY <2>4, AgreeGrown
    <2>7. MemoryExact'
      BY <2>2, <2>3, <2>5, <2>6 DEF MemoryExact
    <2>8. CleanLog'
      BY <2>2, Zenon DEF ExactInv, CleanLog
    <2>9. QED
      BY <2>1, <2>7, <2>8 DEF ExactInv
  <1>10. CASE Mutate
    <2>1. PICK s \in Mutations(mem) :
            mem' = s.graph /\ ops' = Append(ops, s.durable_op)
      BY <1>10 DEF Mutate, Apply, Mutations
    <2>2. /\ pc = "execute" /\ pc' = "execute"
          /\ UNCHANGED <<atomic, undo, primary, backup, log, torn, malformed, committed>>
      BY <1>10 DEF Mutate, Apply, fileVars, historyVars
    <2>3. FilesExact'
      BY <2>2, FilesExactSame DEF ExactInv
    <2>4. /\ LeadsTo(committed, ops, 1, mem) /\ Records(ops, mem) /\ Grown(committed, mem)
          /\ EndsIssued(mem) /\ IdsBelow(mem)
      BY <2>2 DEF ExactInv, MemoryExact, IssuedInv, GraphsBelow
    <2>5. /\ LeadsTo(mem, <<s.durable_op>>, 1, mem') /\ Records(<<s.durable_op>>, mem')
          /\ Grown(mem, mem') /\ EndsIssued(mem')
      BY <1>0, <2>1, <2>4, OneOperation
    <2>6. mem' \in GraphState /\ s.durable_op \in DurableOperation
      BY <1>0, <2>1, MutationOutcome
    <2>7. ops' = ops \o <<s.durable_op>> /\ <<s.durable_op>> \in Seq(DurableOperation)
      BY <1>0, <2>1, <2>6
    <2>8. LeadsTo(committed, ops', 1, mem')
      BY <1>0, <2>4, <2>5, <2>6, <2>7, LeadsOn
    <2>9. Records(ops', mem')
      BY <1>0, <2>4, <2>5, <2>6, <2>7, RecordsOn
    <2>10. Grown(committed, mem')
      BY <2>4, <2>5, GrownChain
    <2>11. atomic => EndsIssued(undo) /\ Agree(undo, committed)
      BY <2>2 DEF ExactInv, MemoryExact
    <2>12. MemoryExact'
      BY <2>2, <2>5, <2>8, <2>9, <2>10, <2>11 DEF MemoryExact
    <2>13. CleanLog'
      BY <2>2, Zenon DEF ExactInv, CleanLog
    <2>14. QED
      BY <2>3, <2>12, <2>13 DEF ExactInv
  <1>11. CASE RejectAtomic
    <2>1. FilesExact'
      BY <1>11, FilesExactSame DEF RejectAtomic, fileVars, historyVars, ExactInv
    <2>2. /\ pc = "execute" /\ pc' = "idle" /\ mem' = undo
          /\ UNCHANGED <<committed, torn, malformed>>
      BY <1>11 DEF RejectAtomic, fileVars, historyVars
    <2>3. EndsIssued(undo) /\ Agree(undo, committed)
      BY <1>11 DEF RejectAtomic, ExactInv, MemoryExact
    <2>4. MemoryExact'
      BY <2>2, <2>3 DEF MemoryExact
    <2>5. CleanLog'
      BY <2>2, Zenon DEF ExactInv, CleanLog
    <2>6. QED
      BY <2>1, <2>4, <2>5 DEF ExactInv
  <1>12. CASE Finish
    <2>1. FilesExact'
      BY <1>12, FilesExactSame DEF Finish, fileVars, historyVars, ExactInv
    <2>2. /\ pc = "execute" /\ pc' = IF ops = << >> THEN "idle" ELSE "append"
          /\ UNCHANGED <<mem, undo, atomic, ops, committed, torn, malformed>>
      BY <1>12 DEF Finish, memoryVars, fileVars, historyVars
    <2>3. ASSUME ops = << >> PROVE EndsIssued(mem) /\ Agree(mem, committed)
      <3>1. LeadsTo(committed, << >>, Len(<< >>) + 1, mem) /\ EndsIssued(mem)
        BY <2>2, <2>3 DEF ExactInv, MemoryExact
      <3>2. Agree(committed, mem)
        BY <1>0, <3>1, NoRecords, LeadsToEnd
      <3>3. QED
        BY <3>1, <3>2, AgreeSymmetric
    <2>4. MemoryExact'
      BY <2>2, <2>3 DEF ExactInv, MemoryExact
    <2>5. CleanLog'
      BY <2>2, Zenon DEF ExactInv, CleanLog
    <2>6. QED
      BY <2>1, <2>4, <2>5 DEF ExactInv
  <1>13. CASE AppendOperation
    <2>1. FilesExact' /\ ~malformed' /\ ~torn' /\ EndsIssued(mem) /\ committed' = mem
      BY <1>13, FilesExactLine DEF AppendOperation
    <2>2. pc' \in {"idle", "primary"} /\ mem' = mem
      BY <1>13 DEF AppendOperation
    <2>3. MemoryExact'
      BY <2>1, <2>2, AgreeSelf DEF MemoryExact
    <2>4. QED
      BY <2>1, <2>3 DEF ExactInv, CleanLog
  <1>14. CASE Close \/ Crash
    <2>1. FilesExact' /\ ~malformed'
      BY <1>14, FilesExactSame DEF Close, Crash, fileVars, historyVars, ExactInv, CleanLog
    <2>2. QED
      BY <1>14, <2>1, ExactForget DEF Close, Crash
  <1>15. CASE CrashInAppend
    <2>1. CASE UNCHANGED <<log, malformed, historyVars>>
      <3>1. FilesExact' /\ ~malformed'
        BY <1>15, <2>1, FilesExactSame DEF CrashInAppend, historyVars, ExactInv, CleanLog
      <3>2. QED
        BY <1>15, <3>1, ExactForget DEF CrashInAppend
    <2>2. CASE WriteLine /\ Settle
      BY <1>15, <2>2, FilesExactLine, ExactForget DEF CrashInAppend
    <2>3. QED
      BY <1>15, <2>1, <2>2 DEF CrashInAppend
  <1>16. CASE Damage
    <2>1. \A g \in Checkpoints' : g \in Checkpoints
      BY <1>16 DEF Damage, Checkpoints
    <2>2. /\ primary' # NoFile /\ pc' = "closed"
          /\ UNCHANGED <<log, committed, malformed>>
      BY <1>16, WorkspaceAssumption DEF Damage, historyVars
    <2>3. FilesExact'
      BY <2>1, <2>2 DEF ExactInv, FilesExact
    <2>4. CleanLog' /\ MemoryExact'
      BY <2>2 DEF ExactInv, CleanLog, MemoryExact
    <2>5. QED
      BY <2>3, <2>4 DEF ExactInv
  <1>17. CASE UNCHANGED vars
    <2>1. FilesExact'
      BY <1>17, FilesExactSame DEF vars, fileVars, historyVars, ExactInv
    <2>2. CleanLog' /\ MemoryExact'
      BY <1>17 DEF vars, memoryVars, fileVars, historyVars, ExactInv, CleanLog, MemoryExact
    <2>3. QED
      BY <2>1, <2>2 DEF ExactInv
  <1>18. QED
    BY <1>1, <1>2, <1>3, <1>4, <1>5, <1>6, <1>7, <1>8, <1>9, <1>10, <1>11, <1>12, <1>13,
       <1>14, <1>15, <1>16, <1>17 DEF Next, Progress

\* The invariant holds throughout.
LEMMA ExactInvariant ==
  ASSUME NoIOErrors
  PROVE  Spec => []ExactInv
  <1>1. Init => ExactInv
    <2>1. SUFFICES ASSUME Init PROVE ExactInv
      OBVIOUS
    <2>2. /\ pc = "closed" /\ committed = EmptyGraph /\ log = << >> /\ Checkpoints = {}
          /\ ~malformed /\ ~torn
      BY <2>1 DEF Init, Checkpoints
    <2>3. EndsIssued(EmptyGraph)
      BY DEF EndsIssued, EndsBelow, EmptyGraph
    <2>4. QED
      BY <2>2, <2>3, NoRecords DEF ExactInv, CleanLog, FilesExact, MemoryExact
  <1>2. TypeOK /\ RecoveryInv /\ IssuedInv /\ ExactInv /\ [Next]_vars => ExactInv'
    BY ExactStep
  <1>3. QED
    BY <1>1, <1>2, TypeCorrect, RecoveryInvariant, IssuedInvariant, PTL DEF Spec

\* Whatever crashes strike append_operation and save_to_json, and from backup
\* as from primary, a completed load yields the schema, the nodes, the id
\* counters and the anchored relationships of the last durable request: every
\* operation of a batch or none of them.
THEOREM LoadsAreExact ==
  ASSUME NoIOErrors
  PROVE  Spec => []LiveRecovered
  <1>1. TypeOK /\ ExactInv => LiveRecovered
    <2>1. SUFFICES ASSUME TypeOK, ExactInv, AtLoaded PROVE Live(mem) = Live(committed)
      BY DEF LiveRecovered
    <2>2. /\ mem \in GraphState /\ committed \in GraphState /\ log \in Seq(DurableOperation)
          /\ LeadsTo(mem, log, Len(log) + 1, committed)
      BY <2>1 DEF TypeOK, AtLoaded, ExactInv, MemoryExact
    <2>3. QED
      BY <2>2, LeadsToEnd, AgreeLive
  <1>2. QED
    BY <1>1, TypeCorrect, ExactInvariant, PTL

\* A relationship never waits on an id that is still to be issued, during the
\* replay of a log as little as afterwards: a node created later is never the
\* end of a relationship it was not given.
THEOREM AttachmentsAreDeliberate ==
  ASSUME NoIOErrors
  PROVE  Spec => []NoAccidentalAttachment
  <1>1. TypeOK /\ ExactInv => NoAccidentalAttachment
    <2>1. SUFFICES ASSUME TypeOK, ExactInv, pc # "closed" PROVE EndsIssued(mem)
      BY DEF NoAccidentalAttachment, EndsIssued, EndsBelow, HasRel, Below
    <2>2. QED
      BY <2>1 DEF TypeOK, ExactInv, MemoryExact, LeadsTo, EndsLead
  <1>2. QED
    BY <1>1, TypeCorrect, ExactInvariant, PTL

-----------------------------------------------------------------------------
(***************************************************************************)
(* The workspace implements DurableGraph.  Seen through Live, a request    *)
(* operation is an operation on the live part or, on a relationship that   *)
(* hangs off a missing node, no step at all.                               *)
(***************************************************************************)
\* Graphs are equal when their parts are.
LEMMA SameGraph ==
  ASSUME NEW g \in GraphState, NEW h \in GraphState,
         g.models = h.models, g.next_node_id = h.next_node_id, g.next_rel_id = h.next_rel_id,
         \A k \in NodeIds : g.nodes[k] = h.nodes[k],
         \A r \in RelIds : g.rels[r] = h.rels[r]
  PROVE  g = h
  <1>1. g.nodes = h.nodes /\ g.rels = h.rels
    BY GraphParts
  <1>2. QED
    BY <1>1 DEF GraphState

\* The live part: everything but the relationships that hang off a missing node.
LEMMA LiveParts ==
  ASSUME NEW g \in GraphState
  PROVE  /\ Live(g) \in GraphState
         /\ Live(g).models = g.models /\ Live(g).nodes = g.nodes
         /\ Live(g).next_node_id = g.next_node_id /\ Live(g).next_rel_id = g.next_rel_id
         /\ \A r \in RelIds : Live(g).rels[r] = Anchor(g, g.rels[r])
  <1> DEFINE lr == [r \in RelIds |-> IF Anchored(g, r) THEN g.rels[r] ELSE Absent]
  <1>1. \A r \in RelIds : lr[r] = Anchor(g, g.rels[r])
    BY DEF Anchored, Anchor, HasRel
  <1>2. lr \in [RelIds -> StoredRel \cup {Absent}]
    BY GraphParts
  <1>3. Live(g) = [g EXCEPT !.rels = lr]
    BY DEF Live
  <1> HIDE DEF lr
  <1>4. QED
    BY <1>1, <1>2, <1>3 DEF GraphState

\* An operation that leaves the nodes of every relationship as they are.
LEMMA SameAnchors ==
  ASSUME NEW g \in GraphState, NEW h,
         \A k \in NodeIds : HasNode(h, k) <=> HasNode(g, k)
  PROVE  \A rel \in StoredRel \cup {Absent} : Anchor(h, rel) = Anchor(g, rel)
  BY DEF Anchor, StoredRel

\* What a request operation looks like in the live part.
Shown(g, s) ==
  \/ Live(s.graph) = Live(g)
  \/ \E q \in Mutations(Live(g)) : q.graph = Live(s.graph)

\* An outcome on the live part that has the parts of the live outcome.
LEMMA ShownBy ==
  ASSUME NEW g \in GraphState, NEW s \in Mutations(g), NEW q \in Mutations(Live(g)),
         q.graph.models = s.graph.models,
         q.graph.next_node_id = s.graph.next_node_id,
         q.graph.next_rel_id = s.graph.next_rel_id,
         \A k \in NodeIds : q.graph.nodes[k] = s.graph.nodes[k],
         \A r \in RelIds : q.graph.rels[r] = Anchor(s.graph, s.graph.rels[r])
  PROVE  Shown(g, s)
  <1>1. s.graph \in GraphState /\ q.graph \in GraphState
    BY MutationOutcome, LiveParts
  <1>2. q.graph = Live(s.graph)
    BY <1>1, LiveParts, SameGraph
  <1>3. QED
    BY <1>2 DEF Shown

LEMMA ModelShown ==
  ASSUME NEW g \in GraphState, NEW s \in Mutations(g), NEW q \in Mutations(Live(g)), NEW m,
         s.graph = [g EXCEPT !.models = @ \cup {m}],
         q.graph = [Live(g) EXCEPT !.models = @ \cup {m}]
  PROVE  Shown(g, s)
  <1> DEFINE v == Live(g)
  <1>1. v \in GraphState /\ v.models = g.models
    BY LiveParts
  <1>2. /\ s.graph.models = g.models \cup {m} /\ q.graph.models = v.models \cup {m}
        /\ s.graph.nodes = g.nodes /\ q.graph.nodes = v.nodes
        /\ s.graph.rels = g.rels /\ q.graph.rels = v.rels
        /\ s.graph.next_node_id = g.next_node_id /\ q.graph.next_node_id = v.next_node_id
        /\ s.graph.next_rel_id = g.next_rel_id /\ q.graph.next_rel_id = v.next_rel_id
    BY <1>1 DEF GraphState
  <1>3. \A r \in RelIds : Anchor(s.graph, s.graph.rels[r]) = Anchor(g, g.rels[r])
    BY <1>2 DEF Anchor, HasNode
  <1>4. /\ \A k \in NodeIds : q.graph.nodes[k] = s.graph.nodes[k]
        /\ \A r \in RelIds : q.graph.rels[r] = Anchor(s.graph, s.graph.rels[r])
        /\ q.graph.models = s.graph.models
        /\ q.graph.next_node_id = s.graph.next_node_id /\ q.graph.next_rel_id = s.graph.next_rel_id
    BY <1>1, <1>2, <1>3, LiveParts
  <1>5. QED
    BY <1>4, ShownBy

LEMMA DefineNodeShown ==
  ASSUME NEW g \in GraphState, NEW s \in DefineNode(g)
  PROVE  Shown(g, s)
  <1>1. Live(g).models = g.models
    BY LiveParts
  <1>2. PICK m \in NodeModels \ g.models :
          s = Outcome([g EXCEPT !.models = @ \cup {m}], RegisterNodeModelOp(m))
    BY DEF DefineNode
  <1> DEFINE q == Outcome([Live(g) EXCEPT !.models = @ \cup {m}], RegisterNodeModelOp(m))
  <1>3. q \in DefineNode(Live(g))
    BY <1>1 DEF DefineNode
  <1>4. /\ s.graph = [g EXCEPT !.models = @ \cup {m}]
        /\ q.graph = [Live(g) EXCEPT !.models = @ \cup {m}]
    BY <1>2 DEF Outcome
  <1>5. QED
    BY <1>3, <1>4, ModelShown DEF Mutations

LEMMA DefineEdgeShown ==
  ASSUME NEW g \in GraphState, NEW s \in DefineEdge(g)
  PROVE  Shown(g, s)
  <1>1. Live(g).models = g.models
    BY LiveParts
  <1>2. PICK m \in {x \in RelModels \ g.models : {FromModel[x], ToModel[x]} \subseteq g.models} :
          s = Outcome([g EXCEPT !.models = @ \cup {m}], RegisterRelModelOp(m))
    BY DEF DefineEdge
  <1> DEFINE q == Outcome([Live(g) EXCEPT !.models = @ \cup {m}], RegisterRelModelOp(m))
  <1>3. q \in DefineEdge(Live(g))
    BY <1>1 DEF DefineEdge
  <1>4. /\ s.graph = [g EXCEPT !.models = @ \cup {m}]
        /\ q.graph = [Live(g) EXCEPT !.models = @ \cup {m}]
    BY <1>2 DEF Outcome
  <1>5. QED
    BY <1>3, <1>4, ModelShown DEF Mutations

LEMMA NodeCreateShown ==
  ASSUME NEW g \in GraphState, EndsIssued(g), NEW s \in NodeCreate(g)
  PROVE  Shown(g, s)
  <1> DEFINE v == Live(g)
             k == g.next_node_id
  <1>1. v \in GraphState /\ v.models = g.models /\ v.next_node_id = k /\ v.nodes = g.nodes
    BY LiveParts
  <1>2. PICK node \in {x \in StoredNode : x.label \in g.models /\ k \in NodeIds} :
          s = Outcome([PutNode(g, k, node) EXCEPT !.next_node_id = k + 1], UpsertNodeOp(k, node))
    BY DEF NodeCreate
  <1> DEFINE q == Outcome([PutNode(v, k, node) EXCEPT !.next_node_id = k + 1], UpsertNodeOp(k, node))
  <1>3. q \in NodeCreate(v)
    BY <1>1 DEF NodeCreate
  <1>4. s \in Mutations(g) /\ q \in Mutations(v)
    BY <1>3 DEF Mutations
  <1>5. /\ s.graph = [PutNode(g, k, node) EXCEPT !.next_node_id = k + 1]
        /\ q.graph = [PutNode(v, k, node) EXCEPT !.next_node_id = k + 1]
    BY <1>2 DEF Outcome
  <1> HIDE DEF q
  <1>6. /\ s.graph.models = g.models /\ q.graph.models = v.models
        /\ s.graph.nodes = [g.nodes EXCEPT ![k] = node] /\ q.graph.nodes = [v.nodes EXCEPT ![k] = node]
        /\ s.graph.rels = g.rels /\ q.graph.rels = v.rels
        /\ s.graph.next_node_id = k + 1 /\ q.graph.next_node_id = k + 1
        /\ s.graph.next_rel_id = g.next_rel_id /\ q.graph.next_rel_id = v.next_rel_id
    BY <1>1, <1>5 DEF GraphState, PutNode
  <1>7. \A n \in NodeIds : n # k => s.graph.nodes[n] = g.nodes[n]
    BY <1>6, GraphParts
  <1>8. \A r \in RelIds : g.rels[r] # Absent =>
          /\ g.rels[r].from \in NodeIds /\ g.rels[r].to \in NodeIds
          /\ g.rels[r].from # k /\ g.rels[r].to # k
    BY GraphParts, BoundAssumption DEF EndsIssued, EndsBelow, Below, NodeIds
  <1>9. \A r \in RelIds : Anchor(s.graph, s.graph.rels[r]) = Anchor(g, g.rels[r])
    BY <1>6, <1>7, <1>8 DEF Anchor, HasNode
  <1>10. QED
    BY <1>1, <1>4, <1>6, <1>9, LiveParts, ShownBy

LEMMA NodeUpdateShown ==
  ASSUME NEW g \in GraphState, NEW s \in NodeUpdate(g)
  PROVE  Shown(g, s)
  <1> DEFINE v == Live(g)
  <1>1. v \in GraphState /\ v.models = g.models /\ v.nodes = g.nodes
    BY LiveParts
  <1>2. PICK k \in KnownNodes(g), x \in Values :
          LET node == [g.nodes[k] EXCEPT !.props = x]
          IN  s = Outcome(PutNode(g, k, node), UpsertNodeOp(k, node))
    BY DEF NodeUpdate
  <1> DEFINE node == [v.nodes[k] EXCEPT !.props = x]
             q == Outcome(PutNode(v, k, node), UpsertNodeOp(k, node))
  <1>3. q \in NodeUpdate(v)
    <2>1. k \in KnownNodes(v)
      BY <1>1 DEF KnownNodes, HasNode
    <2>2. \E u \in KnownNodes(v) \X Values :
            q = LET y == [v.nodes[u[1]] EXCEPT !.props = u[2]]
                IN  Outcome(PutNode(v, u[1], y), UpsertNodeOp(u[1], y))
      <3>1. <<k, x>> \in KnownNodes(v) \X Values /\ <<k, x>>[1] = k /\ <<k, x>>[2] = x
        BY <2>1
      <3>2. QED
        BY <3>1
    <2>3. QED
      BY <2>2 DEF NodeUpdate
  <1>4. s \in Mutations(g) /\ q \in Mutations(v)
    BY <1>3 DEF Mutations
  <1>5. s.graph = PutNode(g, k, node) /\ q.graph = PutNode(v, k, node)
    BY <1>1, <1>2 DEF Outcome
  <1>6. k \in NodeIds /\ v.nodes[k] \in StoredNode
    BY <1>1 DEF KnownNodes, HasNode, GraphState
  <1>7. node # Absent
    BY <1>6, AbsentAssumption DEF StoredNode
  <1> HIDE DEF q, node
  <1>8. /\ s.graph.models = g.models /\ q.graph.models = v.models
        /\ s.graph.nodes = [g.nodes EXCEPT ![k] = node] /\ q.graph.nodes = [v.nodes EXCEPT ![k] = node]
        /\ s.graph.rels = g.rels /\ q.graph.rels = v.rels
        /\ s.graph.next_node_id = g.next_node_id /\ q.graph.next_node_id = v.next_node_id
        /\ s.graph.next_rel_id = g.next_rel_id /\ q.graph.next_rel_id = v.next_rel_id
    BY <1>1, <1>5 DEF GraphState, PutNode
  <1>9. \A n \in NodeIds : HasNode(s.graph, n) <=> HasNode(g, n)
    BY <1>1, <1>6, <1>7, <1>8, GraphParts, AbsentAssumption DEF HasNode
  <1>10. \A r \in RelIds : Anchor(s.graph, s.graph.rels[r]) = Anchor(g, g.rels[r])
    BY <1>8, <1>9, GraphParts, SameAnchors
  <1>11. /\ \A n \in NodeIds : q.graph.nodes[n] = s.graph.nodes[n]
         /\ \A r \in RelIds : q.graph.rels[r] = Anchor(s.graph, s.graph.rels[r])
         /\ q.graph.models = s.graph.models
         /\ q.graph.next_node_id = s.graph.next_node_id /\ q.graph.next_rel_id = s.graph.next_rel_id
    BY <1>1, <1>8, <1>10, LiveParts
  <1>12. QED
    BY <1>4, <1>11, ShownBy

LEMMA NodeDeleteShown ==
  ASSUME NEW g \in GraphState, NEW s \in NodeDelete(g)
  PROVE  Shown(g, s)
  <1> DEFINE v == Live(g)
  <1>1. /\ v \in GraphState /\ v.models = g.models /\ v.nodes = g.nodes
        /\ \A r \in RelIds : v.rels[r] = Anchor(g, g.rels[r])
    BY LiveParts
  <1>2. PICK k \in KnownNodes(g) : s = Outcome(RemoveNode(g, k), DeleteNodeOp(k))
    BY DEF NodeDelete
  <1> DEFINE q == Outcome(RemoveNode(v, k), DeleteNodeOp(k))
  <1>3. q \in NodeDelete(v)
    <2>1. k \in KnownNodes(v)
      BY <1>1 DEF KnownNodes, HasNode
    <2>2. QED
      BY <2>1 DEF NodeDelete
  <1>4. s \in Mutations(g) /\ q \in Mutations(v)
    BY <1>3 DEF Mutations
  <1>5. s.graph = RemoveNode(g, k) /\ q.graph = RemoveNode(v, k)
    BY <1>2 DEF Outcome
  <1>6. k \in NodeIds /\ HasNode(g, k) /\ HasNode(v, k)
    BY <1>1 DEF KnownNodes, HasNode
  <1> HIDE DEF q
  <1>7. /\ s.graph.models = g.models /\ q.graph.models = v.models
        /\ s.graph.nodes = [g.nodes EXCEPT ![k] = Absent] /\ q.graph.nodes = [v.nodes EXCEPT ![k] = Absent]
        /\ s.graph.next_node_id = g.next_node_id /\ q.graph.next_node_id = v.next_node_id
        /\ s.graph.next_rel_id = g.next_rel_id /\ q.graph.next_rel_id = v.next_rel_id
    BY <1>1, <1>5, <1>6 DEF GraphState, RemoveNode
  <1>8. \A r \in RelIds :
          /\ s.graph.rels[r] = IF Incident(g.rels[r], k) THEN Absent ELSE g.rels[r]
          /\ q.graph.rels[r] = IF Incident(v.rels[r], k) THEN Absent ELSE v.rels[r]
    BY <1>1, <1>5, <1>6 DEF GraphState, RemoveNode
  <1>9. \A n \in NodeIds : n # k => s.graph.nodes[n] = g.nodes[n]
    BY <1>7, GraphParts
  <1>10. \A r \in RelIds : q.graph.rels[r] = Anchor(s.graph, s.graph.rels[r])
    <2>1. SUFFICES ASSUME NEW r \in RelIds
                   PROVE  q.graph.rels[r] = Anchor(s.graph, s.graph.rels[r])
      OBVIOUS
    <2>2. g.rels[r] # Absent => g.rels[r].from \in NodeIds /\ g.rels[r].to \in NodeIds
      BY GraphParts
    <2>3. CASE Incident(g.rels[r], k)
      <3>1. s.graph.rels[r] = Absent
        BY <1>8, <2>3
      <3>2. Incident(v.rels[r], k) \/ v.rels[r] = Absent
        BY <1>1, <2>3 DEF Anchor
      <3>3. QED
        BY <1>8, <3>1, <3>2 DEF Anchor
    <2>4. CASE ~Incident(g.rels[r], k)
      <3>1. s.graph.rels[r] = g.rels[r]
        BY <1>8, <2>4
      <3>2. q.graph.rels[r] = v.rels[r]
        BY <1>1, <1>8, <2>4 DEF Anchor, Incident
      <3>3. Anchor(s.graph, g.rels[r]) = Anchor(g, g.rels[r])
        BY <1>9, <2>2, <2>4 DEF Anchor, Incident, HasNode
      <3>4. QED
        BY <1>1, <3>1, <3>2, <3>3
    <2>5. QED
      BY <2>3, <2>4
  <1>11. /\ \A n \in NodeIds : q.graph.nodes[n] = s.graph.nodes[n]
         /\ q.graph.models = s.graph.models
         /\ q.graph.next_node_id = s.graph.next_node_id /\ q.graph.next_rel_id = s.graph.next_rel_id
    BY <1>1, <1>7, LiveParts
  <1>12. QED
    BY <1>4, <1>10, <1>11, ShownBy

\* A relationship entry that is put into a graph and into its live part.
LEMMA RelShown ==
  ASSUME NEW g \in GraphState, NEW s \in Mutations(g), NEW q \in Mutations(Live(g)),
         NEW i \in RelIds, NEW rel \in StoredRel \cup {Absent}, NEW n,
         s.graph = [PutRel(g, i, rel) EXCEPT !.next_rel_id = n],
         q.graph = [PutRel(Live(g), i, rel) EXCEPT !.next_rel_id = n],
         Anchor(g, rel) = rel
  PROVE  Shown(g, s)
  <1> DEFINE v == Live(g)
  <1>1. /\ v \in GraphState /\ v.models = g.models /\ v.nodes = g.nodes
        /\ \A r \in RelIds : v.rels[r] = Anchor(g, g.rels[r])
    BY LiveParts
  <1>2. /\ s.graph.models = g.models /\ q.graph.models = v.models
        /\ s.graph.nodes = g.nodes /\ q.graph.nodes = v.nodes
        /\ s.graph.rels = [g.rels EXCEPT ![i] = rel] /\ q.graph.rels = [v.rels EXCEPT ![i] = rel]
        /\ s.graph.next_node_id = g.next_node_id /\ q.graph.next_node_id = v.next_node_id
        /\ s.graph.next_rel_id = n /\ q.graph.next_rel_id = n
    BY <1>1 DEF GraphState, PutRel
  <1>3. \A r \in RelIds : Anchor(s.graph, s.graph.rels[r]) = Anchor(g, s.graph.rels[r])
    BY <1>2 DEF Anchor, HasNode
  <1>4. \A r \in RelIds :
          /\ s.graph.rels[r] = IF r = i THEN rel ELSE g.rels[r]
          /\ q.graph.rels[r] = IF r = i THEN rel ELSE v.rels[r]
    BY <1>1, <1>2, GraphParts
  <1>5. /\ \A k \in NodeIds : q.graph.nodes[k] = s.graph.nodes[k]
        /\ \A r \in RelIds : q.graph.rels[r] = Anchor(s.graph, s.graph.rels[r])
        /\ q.graph.models = s.graph.models
        /\ q.graph.next_node_id = s.graph.next_node_id /\ q.graph.next_rel_id = s.graph.next_rel_id
    BY <1>1, <1>2, <1>3, <1>4, LiveParts
  <1>6. QED
    BY <1>5, ShownBy

\* A relationship entry that hangs off a missing node before and after.
LEMMA DanglingShown ==
  ASSUME NEW g \in GraphState, NEW s \in Mutations(g),
         NEW i \in RelIds, NEW rel \in StoredRel \cup {Absent}, s.graph = PutRel(g, i, rel),
         Anchor(g, g.rels[i]) = Absent, Anchor(g, rel) = Absent
  PROVE  Shown(g, s)
  <1>1. s.graph \in GraphState
    BY MutationOutcome
  <1>2. /\ s.graph.models = g.models /\ s.graph.nodes = g.nodes
        /\ s.graph.next_node_id = g.next_node_id /\ s.graph.next_rel_id = g.next_rel_id
        /\ \A r \in RelIds : s.graph.rels[r] = IF r = i THEN rel ELSE g.rels[r]
    BY DEF PutRel, GraphState
  <1>3. \A r \in RelIds : Anchor(s.graph, s.graph.rels[r]) = Anchor(g, s.graph.rels[r])
    BY <1>2 DEF Anchor, HasNode
  <1>4. \A r \in RelIds : Anchor(g, s.graph.rels[r]) = Anchor(g, g.rels[r])
    BY <1>2
  <1>5. Live(s.graph) = Live(g)
    BY <1>1, <1>2, <1>3, <1>4, LiveParts, SameGraph
  <1>6. QED
    BY <1>5 DEF Shown

LEMMA EdgeCreateShown ==
  ASSUME NEW g \in GraphState, NEW s \in EdgeCreate(g)
  PROVE  Shown(g, s)
  <1> DEFINE v == Live(g)
             i == g.next_rel_id
  <1>1. /\ v \in GraphState /\ v.models = g.models /\ v.nodes = g.nodes /\ v.next_rel_id = i
    BY LiveParts
  <1>2. PICK rel \in {x \in StoredRel : Connects(g, x) /\ i \in RelIds} :
          s = Outcome([PutRel(g, i, rel) EXCEPT !.next_rel_id = i + 1], UpsertRelOp(i, rel))
    BY DEF EdgeCreate
  <1> DEFINE q == Outcome([PutRel(v, i, rel) EXCEPT !.next_rel_id = i + 1], UpsertRelOp(i, rel))
  <1>3. q \in EdgeCreate(v)
    <2>1. Connects(v, rel)
      BY <1>1 DEF Connects, HasNode
    <2>2. QED
      BY <1>1, <2>1 DEF EdgeCreate
  <1>4. s \in Mutations(g) /\ q \in Mutations(v)
    BY <1>3 DEF Mutations
  <1>5. /\ s.graph = [PutRel(g, i, rel) EXCEPT !.next_rel_id = i + 1]
        /\ q.graph = [PutRel(v, i, rel) EXCEPT !.next_rel_id = i + 1]
    BY <1>2 DEF Outcome
  <1> HIDE DEF q
  <1>6. Anchor(g, rel) = rel
    BY AbsentAssumption DEF Connects, Anchor
  <1>7. QED
    BY <1>4, <1>5, <1>6, RelShown

\* Without a new id the counter is what it was.
LEMMA SameCounterPut ==
  ASSUME NEW g \in GraphState, NEW i, NEW rel
  PROVE  PutRel(g, i, rel) = [PutRel(g, i, rel) EXCEPT !.next_rel_id = g.next_rel_id]
  BY DEF PutRel, GraphState

LEMMA EdgeUpdateShown ==
  ASSUME NEW g \in GraphState, NEW s \in EdgeUpdate(g)
  PROVE  Shown(g, s)
  <1> DEFINE v == Live(g)
  <1>1. /\ v \in GraphState /\ v.models = g.models /\ v.next_rel_id = g.next_rel_id
        /\ \A r \in RelIds : v.rels[r] = Anchor(g, g.rels[r])
    BY LiveParts
  <1>2. PICK i \in KnownRels(g), x \in Values :
          LET rel == [g.rels[i] EXCEPT !.props = x]
          IN  s = Outcome(PutRel(g, i, rel), UpsertRelOp(i, rel))
    BY DEF EdgeUpdate
  <1> DEFINE rel == [g.rels[i] EXCEPT !.props = x]
  <1>3. /\ i \in RelIds /\ g.rels[i] \in StoredRel /\ g.rels[i] # Absent
        /\ g.rels[i].rel_type \in g.models
    BY DEF KnownRels, HasRel, GraphState
  <1>4. rel \in StoredRel /\ rel # Absent /\ rel.from = g.rels[i].from /\ rel.to = g.rels[i].to
    BY <1>3, AbsentAssumption DEF StoredRel
  <1>5. s \in Mutations(g) /\ s.graph = PutRel(g, i, rel)
    BY <1>2 DEF Mutations, Outcome
  <1>6. CASE Anchor(g, g.rels[i]) = Absent
    <2>1. Anchor(g, rel) = Absent
      BY <1>3, <1>4, <1>6 DEF Anchor
    <2>2. QED
      BY <1>3, <1>4, <1>5, <1>6, <2>1, DanglingShown
  <1>7. CASE Anchor(g, g.rels[i]) # Absent
    <2>1. v.rels[i] = g.rels[i] /\ Anchor(g, rel) = rel
      BY <1>1, <1>3, <1>4, <1>7 DEF Anchor
    <2> DEFINE y == [v.rels[i] EXCEPT !.props = x]
               q == Outcome(PutRel(v, i, y), UpsertRelOp(i, y))
    <2>2. i \in KnownRels(v)
      BY <1>1, <1>3, <2>1 DEF KnownRels, HasRel
    <2>3. \E u \in KnownRels(v) \X Values :
            q = LET z == [v.rels[u[1]] EXCEPT !.props = u[2]]
                IN  Outcome(PutRel(v, u[1], z), UpsertRelOp(u[1], z))
      <3>1. <<i, x>> \in KnownRels(v) \X Values /\ <<i, x>>[1] = i /\ <<i, x>>[2] = x
        BY <2>2
      <3>2. QED
        BY <3>1
    <2>4. q \in Mutations(v)
      BY <2>3 DEF Mutations, EdgeUpdate
    <2>5. q.graph = PutRel(v, i, rel)
      BY <2>1 DEF Outcome
    <2> HIDE DEF q, rel
    <2>6. /\ s.graph = [PutRel(g, i, rel) EXCEPT !.next_rel_id = g.next_rel_id]
          /\ q.graph = [PutRel(v, i, rel) EXCEPT !.next_rel_id = g.next_rel_id]
      BY <1>1, <1>5, <2>5, SameCounterPut
    <2>7. QED
      BY <1>3, <1>4, <1>5, <2>1, <2>4, <2>6, RelShown
  <1>8. QED
    BY <1>6, <1>7

LEMMA EdgeDeleteShown ==
  ASSUME NEW g \in GraphState, NEW s \in EdgeDelete(g)
  PROVE  Shown(g, s)
  <1> DEFINE v == Live(g)
  <1>1. /\ v \in GraphState /\ v.models = g.models /\ v.next_rel_id = g.next_rel_id
        /\ \A r \in RelIds : v.rels[r] = Anchor(g, g.rels[r])
    BY LiveParts
  <1>2. PICK i \in KnownRels(g) : s = Outcome(RemoveRel(g, i), DeleteRelOp(i))
    BY DEF EdgeDelete
  <1>3. i \in RelIds /\ g.rels[i].rel_type \in g.models /\ Anchor(g, Absent) = Absent
    BY DEF KnownRels, Anchor
  <1>4. s \in Mutations(g) /\ s.graph = PutRel(g, i, Absent)
    BY <1>2 DEF Mutations, Outcome, RemoveRel, PutRel
  <1>5. CASE Anchor(g, g.rels[i]) = Absent
    BY <1>3, <1>4, <1>5, DanglingShown
  <1>6. CASE Anchor(g, g.rels[i]) # Absent
    <2> DEFINE q == Outcome(RemoveRel(v, i), DeleteRelOp(i))
    <2>1. v.rels[i] = g.rels[i] /\ v.rels[i] # Absent
      BY <1>1, <1>3, <1>6 DEF Anchor
    <2>2. i \in KnownRels(v)
      BY <1>1, <1>3, <2>1 DEF KnownRels, HasRel
    <2>3. q \in Mutations(v) /\ q.graph = PutRel(v, i, Absent)
      BY <2>2 DEF Mutations, EdgeDelete, Outcome, RemoveRel, PutRel
    <2> HIDE DEF q
    <2>4. /\ s.graph = [PutRel(g, i, Absent) EXCEPT !.next_rel_id = g.next_rel_id]
          /\ q.graph = [PutRel(v, i, Absent) EXCEPT !.next_rel_id = g.next_rel_id]
      BY <1>1, <1>4, <2>3, SameCounterPut
    <2>5. QED
      BY <1>3, <1>4, <2>3, <2>4, RelShown
  <1>7. QED
    BY <1>5, <1>6

\* Every request operation is an operation on the live part, or does not show.
LEMMA MutationShown ==
  ASSUME NEW g \in GraphState, EndsIssued(g), NEW s \in Mutations(g)
  PROVE  Shown(g, s)
  BY DefineNodeShown, DefineEdgeShown, NodeCreateShown, NodeUpdateShown, NodeDeleteShown,
     EdgeCreateShown, EdgeUpdateShown, EdgeDeleteShown DEF Mutations

-----------------------------------------------------------------------------
\* DurableGraph works on the same graphs.
LEMMA SameMutations ==
  /\ Durable!EmptyGraph = EmptyGraph
  /\ \A g : Durable!Mutations(g) = Mutations(g)
  <1>1. Durable!EmptyGraph = EmptyGraph
    BY DEF Durable!EmptyGraph, EmptyGraph, Durable!NodeIds, Durable!RelIds, NodeIds, RelIds
  <1>2. SUFFICES ASSUME NEW g PROVE Durable!Mutations(g) = Mutations(g)
    BY <1>1
  <1> USE DEF Outcome, Durable!Outcome
  <1>3. Durable!NodeIds = NodeIds /\ Durable!RelIds = RelIds
    BY DEF Durable!NodeIds, Durable!RelIds, NodeIds, RelIds
  <1>4. Durable!StoredNode = StoredNode /\ Durable!StoredRel = StoredRel
    BY <1>3 DEF Durable!StoredNode, Durable!StoredRel, StoredNode, StoredRel
  <1>5. Durable!DefineNode(g) = DefineNode(g)
    BY DEF Durable!DefineNode, DefineNode, Durable!RegisterNodeModelOp, RegisterNodeModelOp
  <1>6. Durable!DefineEdge(g) = DefineEdge(g)
    BY DEF Durable!DefineEdge, DefineEdge, Durable!RegisterRelModelOp, RegisterRelModelOp
  <1>7. Durable!NodeCreate(g) = NodeCreate(g)
    BY <1>3, <1>4 DEF Durable!NodeCreate, NodeCreate, Durable!UpsertNodeOp, UpsertNodeOp,
       Durable!PutNode, PutNode
  <1>8. Durable!KnownNodes(g) = KnownNodes(g) /\ Durable!KnownRels(g) = KnownRels(g)
    BY <1>3 DEF Durable!KnownNodes, KnownNodes, Durable!HasNode, HasNode,
                Durable!KnownRels, KnownRels, Durable!HasRel, HasRel
  <1>9. Durable!NodeUpdate(g) = NodeUpdate(g)
    BY <1>8 DEF Durable!NodeUpdate, NodeUpdate, Durable!UpsertNodeOp, UpsertNodeOp,
       Durable!PutNode, PutNode
  <1>10. \A k : Durable!RemoveNode(g, k) = RemoveNode(g, k)
    BY <1>3 DEF Durable!RemoveNode, RemoveNode, Durable!HasNode, HasNode, Durable!Incident, Incident
  <1>11. Durable!NodeDelete(g) = NodeDelete(g)
    BY <1>8, <1>10 DEF Durable!NodeDelete, NodeDelete, Durable!DeleteNodeOp, DeleteNodeOp
  <1>12. \A rel : Durable!Connects(g, rel) = Connects(g, rel)
    BY DEF Durable!Connects, Connects, Durable!HasNode, HasNode
  <1>13. Durable!EdgeCreate(g) = EdgeCreate(g)
    BY <1>3, <1>4, <1>12 DEF Durable!EdgeCreate, EdgeCreate, Durable!UpsertRelOp, UpsertRelOp,
       Durable!PutRel, PutRel
  <1>14. Durable!EdgeUpdate(g) = EdgeUpdate(g)
    BY <1>8 DEF Durable!EdgeUpdate, EdgeUpdate, Durable!UpsertRelOp, UpsertRelOp,
       Durable!PutRel, PutRel
  <1>15. Durable!EdgeDelete(g) = EdgeDelete(g)
    BY <1>8 DEF Durable!EdgeDelete, EdgeDelete, Durable!DeleteRelOp, DeleteRelOp,
       Durable!RemoveRel, RemoveRel
  <1>16. QED
    BY <1>5, <1>6, <1>7, <1>9, <1>11, <1>13, <1>14, <1>15 DEF Durable!Mutations, Mutations

-----------------------------------------------------------------------------
\* A workspace that is not in use has no checkpoint of a request in hand.
OpenPurpose == pc \in {"closed", "load"} => purpose = "open"

LEMMA OpenPurposeInvariant == Spec => []OpenPurpose
  <1>1. Init => OpenPurpose
    BY DEF Init, OpenPurpose
  <1>2. ASSUME OpenPurpose, [Next]_vars PROVE OpenPurpose'
    <2> USE DEF OpenPurpose
    <2>1. CASE Create \/ Open \/ Close \/ Save \/ Begin \/ RejectAtomic
      BY <1>2, <2>1 DEF Create, Open, Close, Forget, Save, Begin, RejectAtomic
    <2>2. CASE Mutate
      BY <1>2, <2>2 DEF Mutate, Apply
    <2>3. CASE Progress
      BY <1>2, <2>3 DEF Progress, Replay, Loaded, WritePrimary, WriteBackup, CheckpointStep,
                        ClearLog, Finish, memoryVars, AppendOperation
    <2>4. CASE IOError
      BY <1>2, <2>4 DEF IOError, WritePrimaryFails, WriteBackupFails, ClearLogFails,
                        CheckpointError, Forget, AppendFails, SyncFails, AppendTears, AppendError
    <2>5. CASE Crash \/ CrashInAppend \/ Damage
      BY <1>2, <2>5 DEF Crash, CrashInAppend, Damage, Forget, memoryVars
    <2>6. CASE UNCHANGED vars
      BY <1>2, <2>6 DEF vars, memoryVars
    <2>7. QED
      BY <1>2, <2>1, <2>2, <2>3, <2>4, <2>5, <2>6 DEF Next
  <1>3. QED
    BY <1>1, <1>2, PTL DEF Spec

\* A step that leaves the live memory of an open workspace, and the committed
\* graph, as they are.
LEMMA Unseen ==
  ASSUME Opened' <=> Opened, Opened => Live(mem') = Live(mem), Live(committed') = Live(committed)
  PROVE  UNCHANGED Durable!vars
  BY DEF Durable!vars

LEMMA DurableStep ==
  ASSUME NoIOErrors, TypeOK, ExactInv, OpenPurpose, [Next]_vars
  PROVE  [Durable!Next]_(Durable!vars)
  <1>0. mem \in GraphState /\ committed \in GraphState /\ undo \in GraphState
    BY DEF TypeOK
  <1>1. CASE Create \/ Open \/ Loaded \/ Damage \/ Replay
    <2>1. ~Opened /\ ~Opened' /\ committed' = committed
      BY <1>1 DEF Create, Open, Loaded, Damage, Replay, Opened, OpenPurpose, memoryVars, historyVars
    <2>2. QED
      BY <2>1, Unseen
  <1>2. CASE Save \/ Begin \/ Finish
    <2>1. Opened /\ Opened' /\ mem' = mem /\ committed' = committed
      BY <1>2 DEF Save, Begin, Finish, Opened, memoryVars, historyVars
    <2>2. QED
      BY <2>1, Unseen
  <1>3. CASE WritePrimary \/ WriteBackup
    <2>1. (Opened' <=> Opened) /\ mem' = mem /\ committed' = committed
      BY <1>3 DEF WritePrimary, WriteBackup, CheckpointStep, Opened, historyVars
    <2>2. QED
      BY <2>1, Unseen
  <1>4. CASE ClearLog
    <2>1. pc = "clear" /\ mem' = mem /\ committed' = mem /\ Opened' /\ (Opened <=> purpose # "open")
      BY <1>4 DEF ClearLog, SettleAll, Opened
    <2>2. Live(mem) = Live(committed)
      BY <1>0, <2>1, AgreeLive DEF ExactInv, MemoryExact
    <2>3. CASE Opened
      BY <2>1, <2>2, <2>3, Unseen
    <2>4. CASE ~Opened
      <3>1. Durable!Start
        BY <2>1, <2>2, <2>4 DEF Durable!Start
      <3>2. QED
        BY <3>1 DEF Durable!Next
    <2>5. QED
      BY <2>3, <2>4
  <1>5. CASE Mutate
    <2>1. PICK s \in Mutations(mem) : mem' = s.graph
      BY <1>5 DEF Mutate, Apply, Mutations
    <2>2. pc = "execute" /\ Opened /\ Opened' /\ committed' = committed
      BY <1>5 DEF Mutate, Apply, Opened, historyVars
    <2>3. Shown(mem, s)
      BY <1>0, <2>2, MutationShown DEF ExactInv, MemoryExact
    <2>4. CASE Live(mem') = Live(mem)
      BY <2>2, <2>4, Unseen
    <2>5. CASE \E q \in Mutations(Live(mem)) : q.graph = Live(mem')
      <3>1. Durable!Work
        BY <2>2, <2>5, SameMutations DEF Durable!Work
      <3>2. QED
        BY <3>1 DEF Durable!Next
    <2>6. QED
      BY <2>1, <2>3, <2>4, <2>5 DEF Shown
  <1>6. CASE RejectAtomic
    <2>1. pc = "execute" /\ atomic /\ mem' = undo /\ Opened /\ Opened' /\ committed' = committed
      BY <1>6 DEF RejectAtomic, Opened, historyVars
    <2>2. Live(undo) = Live(committed)
      BY <1>0, <2>1, AgreeLive DEF ExactInv, MemoryExact
    <2>3. Durable!Rollback
      BY <2>1, <2>2 DEF Durable!Rollback
    <2>4. QED
      BY <2>3 DEF Durable!Next
  <1>7. CASE AppendOperation
    <2>1. mem' = mem /\ committed' = mem /\ Opened /\ Opened'
      BY <1>7 DEF AppendOperation, Settle, Opened
    <2>2. Durable!Commit
      BY <2>1 DEF Durable!Commit
    <2>3. QED
      BY <2>2 DEF Durable!Next
  <1>8. CASE Close \/ Crash \/ CrashInAppend
    <2>1. ~Opened' /\ (committed' = committed \/ (Opened /\ committed' = mem))
      BY <1>8 DEF Close, Crash, CrashInAppend, Forget, Settle, Opened, historyVars
    <2>2. CASE Opened
      <3>1. Durable!Stop
        BY <2>1, <2>2, SameMutations DEF Durable!Stop
      <3>2. QED
        BY <3>1 DEF Durable!Next
    <2>3. CASE ~Opened
      BY <2>1, <2>3, Unseen
    <2>4. QED
      BY <2>2, <2>3
  <1>9. ~IOError
    BY DEF NoIOErrors, IOError, WritePrimaryFails, WriteBackupFails, ClearLogFails,
           AppendFails, SyncFails, AppendTears
  <1>10. CASE UNCHANGED vars
    <2>1. pc' = pc /\ purpose' = purpose /\ mem' = mem /\ committed' = committed
      BY <1>10 DEF vars, memoryVars, historyVars
    <2>2. Opened' <=> Opened
      BY <2>1 DEF Opened
    <2>3. QED
      BY <2>1, <2>2, Unseen
  <1>11. QED
    BY <1>1, <1>2, <1>3, <1>4, <1>5, <1>6, <1>7, <1>8, <1>9, <1>10 DEF Next, Progress

\* Without I/O errors the workspace implements DurableGraph, whatever the crashes
\* between or within the steps of append_operation and save_to_json: seen through
\* its live part, a request that returned is durable, one that had not is durable
\* as a whole or not at all, and a restart shows exactly the durable requests.
THEOREM WorkspaceIsDurable ==
  ASSUME NoIOErrors
  PROVE  Spec => ImplementsDurableGraph
  <1>1. Init => Durable!Init
    <2>1. SUFFICES ASSUME Init PROVE Durable!Init
      OBVIOUS
    <2>2. ~Opened /\ committed = EmptyGraph
      BY <2>1 DEF Init, Opened
    <2>3. Live(EmptyGraph) = EmptyGraph
      <3>1. \A r \in RelIds : Anchor(EmptyGraph, EmptyGraph.rels[r]) = EmptyGraph.rels[r]
        BY DEF EmptyGraph, Anchor
      <3>2. QED
        BY <3>1, EmptyGraphType, LiveParts, SameGraph
    <2>4. QED
      BY <2>2, <2>3, SameMutations DEF Durable!Init
  <1>2. TypeOK /\ ExactInv /\ OpenPurpose /\ [Next]_vars => [Durable!Next]_(Durable!vars)
    BY DurableStep
  <1>3. QED
    BY <1>1, <1>2, TypeCorrect, ExactInvariant, OpenPurposeInvariant, PTL
       DEF Spec, ImplementsDurableGraph, Durable!Spec
=============================================================================
