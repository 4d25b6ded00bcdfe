--------------------------- MODULE SessionProofs ----------------------------
(***************************************************************************)
(* Proofs about the two places where a local session keeps a transaction:  *)
(* the command session (CliSession), for every number of ids, paths and    *)
(* names, every set of documents, checkpoint interval and length of the    *)
(* logs; and the transactions of the in-memory backend (InMemoryTx), for   *)
(* any number of concurrent ones.  The two share no variable.              *)
(***************************************************************************)
EXTENDS CliSession, InMemoryTx, GraphProofs

-----------------------------------------------------------------------------
(***************************************************************************)
(* The replay of a log.                                                    *)
(***************************************************************************)
\* f[n] is the graph after the first n operations of the log, up to m.
IsReplay(f, base, log, m) ==
  f = [n \in 0..m |-> IF n = 0 THEN base ELSE ApplyEntry(f[n - 1], log[n])]

\* What a replay is, point by point.
LEMMA ReplayPoints ==
  ASSUME NEW f, NEW base, NEW log, NEW m \in Nat, IsReplay(f, base, log, m)
  PROVE  /\ f[0] = base
         /\ \A n \in 1..m : f[n] = ApplyEntry(f[n - 1], log[n])
  BY DEF IsReplay

\* Every log can be replayed to any of its lines.
LEMMA ReplayExists ==
  ASSUME NEW base, NEW log, NEW m \in Nat
  PROVE  \E f : IsReplay(f, base, log, m)
  <1> DEFINE S == {k \in Nat : \E f : IsReplay(f, base, log, k)}
  <1>1. 0 \in S
    <2> DEFINE f == [n \in 0..0 |-> base]
    <2>1. IsReplay(f, base, log, 0)
      BY DEF IsReplay
    <2>2. QED
      BY <2>1
  <1>2. ASSUME NEW k \in S PROVE k + 1 \in S
    <2>1. k \in Nat
      OBVIOUS
    <2>2. PICK f : IsReplay(f, base, log, k)
      OBVIOUS
    <2> DEFINE g == [n \in 0..(k + 1) |->
                       IF n = k + 1 THEN ApplyEntry(f[k], log[k + 1]) ELSE f[n]]
    <2>3. g = [n \in 0..(k + 1) |-> IF n = 0 THEN base ELSE ApplyEntry(g[n - 1], log[n])]
      <3>1. ASSUME NEW n \in 0..(k + 1)
            PROVE  g[n] = IF n = 0 THEN base ELSE ApplyEntry(g[n - 1], log[n])
        <4>1. CASE n = k + 1
          BY <2>1, <4>1
        <4>2. CASE n # k + 1
          <5>1. n \in 0..k /\ g[n] = f[n] /\ (n # 0 => g[n - 1] = f[n - 1])
            BY <2>1, <4>2
          <5>2. f[n] = IF n = 0 THEN base ELSE ApplyEntry(f[n - 1], log[n])
            BY <2>2, <5>1 DEF IsReplay
          <5>3. QED
            BY <5>1, <5>2
        <4>3. QED
          BY <4>1, <4>2
      <3>2. QED
        BY <3>1
    <2> HIDE DEF g
    <2>4. IsReplay(g, base, log, k + 1)
      BY <2>3 DEF IsReplay
    <2>5. QED
      BY <2>1, <2>4
  <1> HIDE DEF S
  <1>3. S = Nat
    <2>1. S \in SUBSET Nat
      BY DEF S
    <2>2. QED
      BY <1>1, <1>2, <2>1, Induct
  <1>4. QED
    BY <1>3 DEF S

\* load_workspace_with_source gives the last graph of the replay.
LEMMA RecoveredReplay ==
  ASSUME NEW file, Len(file.log) \in Nat
  PROVE  \E f : /\ IsReplay(f, file.base, file.log, Len(file.log))
                /\ Recovered(file) = f[Len(file.log)]
  <1> DEFINE F == CHOOSE f : IsReplay(f, file.base, file.log, Len(file.log))
  <1>1. IsReplay(F, file.base, file.log, Len(file.log))
    BY ReplayExists
  <1>2. Recovered(file) = F[Len(file.log)]
    BY Zenon DEF Recovered, IsReplay
  <1>3. QED
    BY <1>1, <1>2

\* A checkpoint without a log is loaded as it is.
LEMMA RecoveredEmpty ==
  ASSUME NEW file, file.log = << >>
  PROVE  Recovered(file) = file.base
  <1>1. Len(file.log) = 0
    OBVIOUS
  <1>2. PICK f : /\ IsReplay(f, file.base, file.log, Len(file.log))
                 /\ Recovered(file) = f[Len(file.log)]
    BY <1>1, RecoveredReplay
  <1>3. QED
    BY <1>1, <1>2, ReplayPoints

\* Two replays of logs that begin alike are alike.
LEMMA ReplayUnique ==
  ASSUME NEW base, NEW log1, NEW log2, NEW m \in Nat, NEW m1 \in Nat, NEW m2 \in Nat,
         m <= m1, m <= m2, \A i \in 1..m : log1[i] = log2[i],
         NEW f1, NEW f2, IsReplay(f1, base, log1, m1), IsReplay(f2, base, log2, m2)
  PROVE  f1[m] = f2[m]
  <1> DEFINE S == {k \in Nat : k <= m => f1[k] = f2[k]}
  <1>1. 0 \in S
    BY ReplayPoints
  <1>2. ASSUME NEW k \in S PROVE k + 1 \in S
    <2>1. k \in Nat
      OBVIOUS
    <2>2. ASSUME k + 1 <= m PROVE f1[k + 1] = f2[k + 1]
      <3>1. k + 1 \in 1..m /\ k + 1 \in 1..m1 /\ k + 1 \in 1..m2 /\ k <= m /\ (k + 1) - 1 = k
        BY <2>1, <2>2
      <3>2. f1[k] = f2[k]
        BY <3>1
      <3>3. f1[k + 1] = ApplyEntry(f1[k], log1[k + 1])
        BY <3>1, ReplayPoints
      <3>4. f2[k + 1] = ApplyEntry(f2[k], log2[k + 1])
        BY <3>1, ReplayPoints
      <3>5. log1[k + 1] = log2[k + 1]
        BY <3>1
      <3>6. QED
        BY <3>2, <3>3, <3>4, <3>5
    <2>3. QED
      BY <2>1, <2>2
  <1> HIDE DEF S
  <1>3. S = Nat
    <2>1. S \in SUBSET Nat
      BY DEF S
    <2>2. QED
      BY <1>1, <1>2, <2>1, Induct
  <1>4. QED
    BY <1>3 DEF S

\* The last step of a replay that goes one line further than another
LEMMA ReplayLast ==
  ASSUME NEW base, NEW log1, NEW log2, NEW n \in Nat, NEW m \in Nat, m = n + 1, NEW f, NEW h,
         IsReplay(f, base, log1, n), IsReplay(h, base, log2, m),
         \A i \in 1..n : log1[i] = log2[i]
  PROVE  h[m] = ApplyEntry(f[n], log2[m])
  <1>1. m \in 1..m /\ m - 1 = n /\ n <= n /\ n <= m
    OBVIOUS
  <1>2. h[m] = ApplyEntry(h[m - 1], log2[m])
    BY <1>1, ReplayPoints
  <1>3. f[n] = h[n]
    BY <1>1, ReplayUnique
  <1>4. QED
    BY <1>1, <1>2, <1>3

\* A line more in the log is one operation more in the replay.
LEMMA RecoveredAppend ==
  ASSUME NEW T, NEW file, NEW next, NEW op \in T, file.log \in Seq(T),
         next.base = file.base, next.log = Append(file.log, op)
  PROVE  Recovered(next) = ApplyEntry(Recovered(file), op)
  <1>1. Len(file.log) \in Nat /\ Len(next.log) \in Nat
    OBVIOUS
  <1>2. PICK n \in Nat, m \in Nat : n = Len(file.log) /\ m = Len(next.log)
    BY <1>1
  <1>3. m = n + 1 /\ next.log[m] = op /\ \A i \in 1..n : file.log[i] = next.log[i]
    BY <1>2
  <1>4. PICK f : IsReplay(f, file.base, file.log, n) /\ Recovered(file) = f[n]
    BY <1>1, <1>2, RecoveredReplay
  <1>5. PICK h : IsReplay(h, file.base, next.log, m) /\ Recovered(next) = h[m]
    BY <1>1, <1>2, RecoveredReplay
  <1>6. h[m] = ApplyEntry(f[n], next.log[m])
    <2>1. PICK b, l, k : b = file.base /\ l = file.log /\ k = next.log
      OBVIOUS
    <2>2. IsReplay(f, b, l, n) /\ IsReplay(h, b, k, m) /\ \A i \in 1..n : l[i] = k[i]
      BY <1>3, <1>4, <1>5, <2>1
    <2>3. h[m] = ApplyEntry(f[n], k[m])
      BY <1>3, <2>2, ReplayLast
    <2>4. QED
      BY <2>1, <2>3
  <1>7. QED
    BY <1>3, <1>4, <1>5, <1>6

-----------------------------------------------------------------------------
(***************************************************************************)
(* Types.  In every graph the session meets, the ids in use are below the  *)
(* counters: a load, an import and a replayed line keep that, and without  *)
(* it an update would be replayed to a larger counter.                     *)
(***************************************************************************)
SoundGraph == {g \in GraphState : IdsBelow(g)}

SessionFile ==
  [base : SoundGraph \cup {NoFile}, log : Seq(DurableOperation), readable : BOOLEAN]

Transaction == [state : SoundGraph, bindings : [Names -> Nat], saved : BOOLEAN]

TargetType == autocommit = Off \/ autocommit \in [path : Paths, pending : Nat]

TxType(tx) == tx = NoTx \/ tx \in Transaction

MemoryType == state \in SoundGraph /\ TxType(script_tx) /\ bindings \in [Names -> Nat]

SessionType ==
  /\ MemoryType
  /\ TargetType
  /\ disk \in [Paths -> SessionFile]

\* The graph of a new session
LEMMA EmptySound == EmptyGraph \in SoundGraph
  BY EmptyGraphType, EmptyBelow DEF SoundGraph

\* A replayed line keeps a graph sound.
LEMMA ApplySound ==
  ASSUME NEW g \in SoundGraph, NEW o \in DurableOperation
  PROVE  ApplyEntry(g, o) \in SoundGraph
  <1>1. g \in GraphState /\ IdsBelow(g)
    BY DEF SoundGraph
  <1>2. ApplyEntry(g, o) \in GraphState
    BY <1>1, ApplyEntryType
  <1>3. IdsBelow(ApplyEntry(g, o))
    BY <1>1, ApplyEntryBelow
  <1>4. QED
    BY <1>2, <1>3 DEF SoundGraph

\* A loaded graph is sound, however long the log was.
LEMMA RecoveredSound ==
  ASSUME NEW file, file.base \in SoundGraph, file.log \in Seq(DurableOperation)
  PROVE  Recovered(file) \in SoundGraph
  <1> DEFINE m == Len(file.log)
  <1>1. m \in Nat /\ \A i \in 1..m : file.log[i] \in DurableOperation
    OBVIOUS
  <1>2. PICK f : IsReplay(f, file.base, file.log, m) /\ Recovered(file) = f[m]
    BY <1>1, RecoveredReplay
  <1> HIDE DEF m
  <1> DEFINE S == {k \in Nat : k <= m => f[k] \in SoundGraph}
  <1>3. 0 \in S
    BY <1>1, <1>2, ReplayPoints
  <1>4. ASSUME NEW k \in S PROVE k + 1 \in S
    <2>1. k \in Nat
      OBVIOUS
    <2>2. ASSUME k + 1 <= m PROVE f[k + 1] \in SoundGraph
      <3>1. k + 1 \in 1..m /\ k <= m /\ (k + 1) - 1 = k
        BY <1>1, <2>1, <2>2
      <3>2. f[k] \in SoundGraph
        BY <3>1
      <3>3. f[k + 1] = ApplyEntry(f[k], file.log[k + 1])
        BY <1>1, <1>2, <3>1, ReplayPoints
      <3>4. QED
        BY <1>1, <3>1, <3>2, <3>3, ApplySound
    <2>3. QED
      BY <2>1, <2>2
  <1> HIDE DEF S
  <1>5. S = Nat
    <2>1. S \in SUBSET Nat
      BY DEF S
    <2>2. QED
      BY <1>3, <1>4, <2>1, Induct
  <1>6. QED
    BY <1>1, <1>2, <1>5 DEF S

\* Every outcome of a command on a sound graph is sound, and is what its log
\* line is replayed to.
LEMMA EditSound ==
  ASSUME NEW g \in SoundGraph, NEW s \in Mutations(g)
  PROVE  /\ s.graph \in SoundGraph
         /\ s.durable_op \in DurableOperation
         /\ s.graph = ApplyEntry(g, s.durable_op)
         /\ s.graph.next_node_id \in Nat /\ g.next_node_id \in Nat
         /\ g.next_node_id <= s.graph.next_node_id
  <1>1. g \in GraphState /\ IdsBelow(g)
    BY DEF SoundGraph
  <1>2. s.graph \in GraphState /\ s.durable_op \in DurableOperation
    BY <1>1, MutationOutcome
  <1>3. IdsBelow(s.graph)
    BY <1>1, MutationBelow
  <1>4. s.graph = ApplyEntry(g, s.durable_op)
    BY <1>1, MutationIsReplay
  <1>5. s.graph.next_node_id = IF s.durable_op.op = "UpsertNode"
          THEN AtLeast(g.next_node_id, s.durable_op.id + 1) ELSE g.next_node_id
    BY <1>1, <1>2, <1>4, ApplyEntryParts
  <1>6. s.graph.next_node_id \in Nat /\ g.next_node_id \in Nat
    BY <1>1, <1>2, CountersAreNumbers
  <1>7. s.durable_op.op = "UpsertNode" => s.durable_op.id \in Nat
    BY <1>2, CountersAreNumbers DEF DurableOperation
  <1>8. g.next_node_id <= s.graph.next_node_id
    BY <1>5, <1>6, <1>7 DEF AtLeast
  <1>9. QED
    BY <1>2, <1>3, <1>4, <1>6, <1>8 DEF SoundGraph

\* The largest of a bounded set of numbers is one of them.
LEMMA LargestIn ==
  ASSUME NEW n \in Nat, NEW S \in SUBSET (1..n), S # {}
  PROVE  Max(S) \in S /\ \A x \in S : x <= Max(S)
  <1> DEFINE T == {n - x : x \in S}
  <1>1. T \in SUBSET Nat /\ T # {}
    <2>1. ASSUME NEW x \in S PROVE n - x \in Nat
      <3>1. x \in 1..n
        OBVIOUS
      <3>2. QED
        BY <3>1
    <2>2. QED
      BY <2>1
  <1>2. PICK t \in T : \A y \in T : t <= y
    BY <1>1, Least
  <1>3. PICK x \in S : t = n - x
    OBVIOUS
  <1>4. ASSUME NEW y \in S PROVE y <= x
    <2>1. t <= n - y /\ x \in Nat /\ y \in Nat
      BY <1>2
    <2>2. QED
      BY <1>3, <2>1
  <1>5. \E m \in S : \A y \in S : y <= m
    BY <1>4
  <1>6. QED
    BY <1>5 DEF Max

\* build_imported_interchange: the counters of an import are past its ids.
LEMMA PastBound ==
  ASSUME NEW n \in Nat, NEW S \in SUBSET (1..n)
  PROVE  Past(S) \in 1..(n + 1) /\ \A x \in S : x < Past(S)
  <1>1. CASE S = {}
    BY <1>1 DEF Past
  <1>2. CASE S # {}
    <2>1. Past(S) = Max(S) + 1
      BY <1>2 DEF Past
    <2>2. Max(S) \in S /\ \A x \in S : x <= Max(S)
      BY <1>2, LargestIn
    <2>3. \E m \in S : m = Max(S)
      BY <2>2
    <2>4. QED
      BY <2>1, <2>2, <2>3
  <1>3. QED
    BY <1>1, <1>2

\* An imported document is sound.
LEMMA ImportSound ==
  ASSUME NEW doc \in Documents
  PROVE  Imported(doc) \in SoundGraph
  <1>1. doc \in GraphState
    BY CliAssumption
  <1> DEFINE N == {k \in NodeIds : HasNode(doc, k)}
             R == {r \in RelIds : HasRel(doc, r)}
  <1>2. N \in SUBSET (1..MaxNodeId) /\ R \in SUBSET (1..MaxRelId)
    BY DEF NodeIds, RelIds
  <1>3. /\ \A k \in NodeIds : HasNode(doc, k) => k \in N
        /\ \A r \in RelIds : HasRel(doc, r) => r \in R
    OBVIOUS
  <1>4. Imported(doc) = [doc EXCEPT !.next_node_id = Past(N), !.next_rel_id = Past(R)]
    BY DEF Imported
  <1> HIDE DEF N, R
  <1>5. Past(N) \in 1..(MaxNodeId + 1) /\ \A x \in N : x < Past(N)
    BY <1>2, BoundAssumption, PastBound
  <1>6. Past(R) \in 1..(MaxRelId + 1) /\ \A x \in R : x < Past(R)
    BY <1>2, BoundAssumption, PastBound
  <1>7. Imported(doc) \in GraphState
    BY <1>1, <1>4, <1>5, <1>6 DEF GraphState
  <1>8. /\ Imported(doc).nodes = doc.nodes /\ Imported(doc).rels = doc.rels
        /\ Imported(doc).next_node_id = Past(N) /\ Imported(doc).next_rel_id = Past(R)
    BY <1>1, <1>4 DEF GraphState
  <1>9. IdsBelow(Imported(doc))
    BY <1>3, <1>5, <1>6, <1>8 DEF IdsBelow, HasNode, HasRel
  <1>10. QED
    BY <1>7, <1>9 DEF SoundGraph

-----------------------------------------------------------------------------
(***************************************************************************)
(* The inductive invariant.                                                *)
(***************************************************************************)
\* Loading the file would give back g.
Gives(f, g) == Loadable(f) /\ Recovered(f) = g

\* Unless it is known to lag, the target gives back the graph in memory, or
\* what an open transaction that was not saved would restore.
Follows(target, files, g, tx, lacks) ==
  target # Off /\ lacks = {} =>
    /\ tx = NoTx => Gives(files[target.path], g)
    /\ tx # NoTx /\ ~tx.saved => Gives(files[target.path], tx.state)

\* The names in b are bound to ids g has given out.
Issued(b, g) == \A n \in Names : b[n] # 0 => b[n] < g.next_node_id

\* So are the names of the session, and those that a rollback restores.
Bound(b, g, tx) == Issued(b, g) /\ (tx # NoTx => Issued(tx.bindings, tx.state))

FollowsInv == Follows(autocommit, disk, state, script_tx, behind)
BoundInv   == ~replaced => Bound(bindings, state, script_tx)

-----------------------------------------------------------------------------
(***************************************************************************)
(* Files.                                                                  *)
(***************************************************************************)
\* A graph is not the missing file.
LEMMA GraphIsFile ==
  ASSUME NEW g \in SoundGraph
  PROVE  g # NoFile
  BY CliAssumption DEF SoundGraph

\* What a checkpoint leaves is a session file that gives back its graph.
LEMMA SavedGives ==
  ASSUME NEW g \in SoundGraph
  PROVE  Saved(g) \in SessionFile /\ Gives(Saved(g), g)
  <1>1. Saved(g) \in SessionFile
    BY DEF Saved, File, SessionFile
  <1>2. Saved(g).base = g /\ Saved(g).log = << >> /\ Saved(g).readable = TRUE
    BY DEF Saved, File
  <1>3. Recovered(Saved(g)) = g
    BY <1>2, RecoveredEmpty
  <1>4. QED
    BY <1>1, <1>2, <1>3, GraphIsFile DEF Gives, Loadable

\* Whatever a failing checkpoint leaves is a session file.
LEMMA HalfSavedType ==
  ASSUME NEW file \in SessionFile, NEW g \in SoundGraph, NEW f \in HalfSaved(file, g)
  PROVE  f \in SessionFile
  <1>1. CASE f = [file EXCEPT !.base = g]
    BY <1>1 DEF SessionFile
  <1>2. QED
    BY <1>1, SavedGives DEF HalfSaved

\* A line more keeps a session file one, and gives the operation to the graph.
LEMMA AppendedGives ==
  ASSUME NEW file \in SessionFile, NEW op \in DurableOperation
  PROVE  /\ Appended(file, op) \in SessionFile
         /\ \A g : Gives(file, g) => Gives(Appended(file, op), ApplyEntry(g, op))
  <1>1. file.log \in Seq(DurableOperation)
    BY DEF SessionFile
  <1>2. PICK longer \in Seq(DurableOperation) : longer = Append(file.log, op)
    <2>1. Append(file.log, op) \in Seq(DurableOperation)
      BY <1>1
    <2>2. QED
      BY <2>1
  <1>3. Appended(file, op) = [file EXCEPT !.log = longer]
    BY <1>2 DEF Appended
  <1>4. /\ Appended(file, op).base = file.base /\ Appended(file, op).log = longer
        /\ Appended(file, op).readable = file.readable
        /\ Appended(file, op) \in SessionFile
    BY <1>3 DEF SessionFile
  <1>5. Recovered(Appended(file, op)) = ApplyEntry(Recovered(file), op)
    BY <1>1, <1>2, <1>4, RecoveredAppend
  <1>6. QED
    BY <1>4, <1>5 DEF Gives, Loadable

\* The outcomes of a checkpoint
LEMMA CheckpointOutcome ==
  ASSUME NEW file \in SessionFile, NEW pending \in Nat, NEW g \in SoundGraph,
         NEW t \in Checkpoint(file, pending, g)
  PROVE  /\ t.file \in SessionFile /\ t.pending \in Nat /\ t.ok \in BOOLEAN
         /\ t.ok => t.file = Saved(g)
  <1>1. CASE t = Step(Saved(g), 0, TRUE)
    BY <1>1, SavedGives DEF Step
  <1>2. CASE \E f \in HalfSaved(file, g) : t = Step(f, pending, FALSE)
    <2>1. PICK f \in HalfSaved(file, g) : t = Step(f, pending, FALSE)
      BY <1>2
    <2>2. f \in SessionFile
      BY HalfSavedType
    <2>3. QED
      BY <2>1, <2>2 DEF Step
  <1>3. QED
    BY <1>1, <1>2 DEF Checkpoint

\* The outcomes of writing a line
LEMMA PersistOutcome ==
  ASSUME NEW file \in SessionFile, NEW pending \in Nat, NEW g \in SoundGraph,
         NEW op \in DurableOperation, NEW t \in Persist(file, pending, g, op)
  PROVE  /\ t.file \in SessionFile /\ t.pending \in Nat /\ t.ok \in BOOLEAN
         /\ t.ok => t.file \in {Saved(g), Appended(file, op)}
  <1> DEFINE longer == Appended(file, op)
  <1>1. longer \in SessionFile
    BY AppendedGives
  <1> HIDE DEF longer
  <1>2. CASE \E f \in {file, longer} : t = Step(f, pending, FALSE)
    BY <1>1, <1>2 DEF Step
  <1>3. CASE t = Step(longer, pending + 1, TRUE)
    BY <1>1, <1>3 DEF Step, longer
  <1>4. CASE t \in Checkpoint(longer, CheckpointInterval, g)
    <2>1. CheckpointInterval \in Nat
      BY CliAssumption
    <2>2. QED
      BY <1>1, <1>4, <2>1, CheckpointOutcome
  <1>5. QED
    BY <1>2, <1>3, <1>4 DEF Persist, HalfAppended, longer

-----------------------------------------------------------------------------
(***************************************************************************)
(* The end of a command.                                                   *)
(***************************************************************************)
\* Marking a transaction changes nothing that it restores.
LEMMA MarkedTx ==
  ASSUME NEW tx, TxType(tx)
  PROVE  /\ TxType(Marked(tx))
         /\ tx = NoTx => Marked(tx) = NoTx
         /\ tx # NoTx => Marked(tx).saved /\ Marked(tx).state = tx.state
                         /\ Marked(tx).bindings = tx.bindings
  BY DEF TxType, Marked, Transaction

LEMMA MarkedBound ==
  ASSUME NEW tx, TxType(tx), NEW b, NEW g, Bound(b, g, tx)
  PROVE  Bound(b, g, Marked(tx))
  <1>1. CASE tx = NoTx
    BY <1>1, MarkedTx
  <1>2. CASE tx # NoTx
    BY <1>2, MarkedTx DEF Bound
  <1>3. QED
    BY <1>1, <1>2

\* A command that succeeds leaves what it says.
LEMMA SucceededEnd ==
  ASSUME NEW g \in SoundGraph, NEW tx, TxType(tx), NEW b \in [Names -> Nat], NEW lacks,
         Succeeded(g, tx, b, lacks)
  PROVE  /\ MemoryType'
         /\ \A target, files : Follows(target, files, g, tx, lacks)
                                 => Follows(target, files, state', script_tx', behind')
         /\ Bound(b, g, tx) => Bound(bindings', state', script_tx')
  BY DEF Succeeded, MemoryType

\* A command that fails leaves the session as it is, or takes the transaction
\* back: a target that was not written meanwhile still gives back its start.
LEMMA FailedEnd ==
  ASSUME bindings \in [Names -> Nat],
         NEW g \in SoundGraph, NEW tx, TxType(tx), NEW lacks, Failed(g, tx, lacks)
  PROVE  /\ MemoryType'
         /\ \A target, files : Follows(target, files, g, tx, lacks)
                                 => Follows(target, files, state', script_tx', behind')
         /\ Bound(bindings, g, tx) => Bound(bindings', state', script_tx')
  <1>1. CASE session = "interactive"
    BY <1>1, SucceededEnd DEF Failed
  <1>2. CASE session # "interactive" /\ tx = NoTx
    <2>1. state' = g /\ bindings' = bindings /\ script_tx' = NoTx
      BY <1>2 DEF Failed
    <2>2. behind' = lacks
      BY <1>2 DEF Failed
    <2>3. QED
      BY <1>2, <2>1, <2>2 DEF MemoryType
  <1>3. CASE session # "interactive" /\ tx # NoTx
    <2>1. state' = tx.state /\ bindings' = tx.bindings /\ script_tx' = NoTx
      BY <1>3 DEF Failed, Restored
    <2>2. behind' = {} => lacks = {} /\ ~tx.saved
      BY <1>3 DEF Failed
    <2>3. tx.state \in SoundGraph /\ tx.bindings \in [Names -> Nat]
      BY <1>3 DEF TxType, Transaction
    <2>4. MemoryType'
      BY <2>1, <2>3 DEF MemoryType, TxType
    <2>5. \A target, files : Follows(target, files, g, tx, lacks)
                               => Follows(target, files, state', script_tx', behind')
      BY <1>3, <2>1, <2>2 DEF Follows
    <2>6. Bound(bindings, g, tx) => Bound(bindings', state', script_tx')
      BY <1>3, <2>1 DEF Bound
    <2>7. QED
      BY <2>4, <2>5, <2>6
  <1>4. QED
    BY <1>1, <1>2, <1>3

LEMMA DoneEnd ==
  ASSUME bindings \in [Names -> Nat], NEW ok \in BOOLEAN,
         NEW g \in SoundGraph, NEW tx, TxType(tx), NEW b \in [Names -> Nat], NEW lacks,
         Done(ok, g, tx, b, lacks)
  PROVE  /\ MemoryType'
         /\ \A target, files : (ok => Follows(target, files, g, tx, lacks))
                                 => Follows(target, files, state', script_tx', behind')
         /\ Bound(b, g, tx) /\ Bound(bindings, g, tx) => Bound(bindings', state', script_tx')
  <1>1. CASE ok
    BY <1>1, SucceededEnd DEF Done
  <1>2. CASE ~ok
    <2>1. PICK all : all = lacks \cup {"error"}
      OBVIOUS
    <2>2. all # {}
      BY <2>1
    <2>3. Failed(g, tx, all)
      BY <1>2, <2>1 DEF Done
    <2>4. \A target, files : Follows(target, files, g, tx, all)
      BY <2>2 DEF Follows
    <2>5. QED
      BY <2>3, <2>4, FailedEnd
  <1>3. QED
    BY <1>1, <1>2

-----------------------------------------------------------------------------
(***************************************************************************)
(* The steps a command is made of.                                         *)
(***************************************************************************)
\* The target after a write of the file at p
LEMMA FileWritten ==
  ASSUME disk \in [Paths -> SessionFile], NEW p \in Paths, NEW f \in SessionFile,
         disk' = [disk EXCEPT ![p] = f]
  PROVE  /\ disk' \in [Paths -> SessionFile]
         /\ disk'[p] = f
         /\ \A q \in Paths \ {p} : disk'[q] = disk[q]
  OBVIOUS

\* A graph that the target gives back is followed, saved transaction or not.
LEMMA GivenFollows ==
  ASSUME NEW target, NEW files, NEW g, NEW tx, NEW lacks, Gives(files[target.path], g),
         tx = NoTx \/ tx.saved
  PROVE  Follows(target, files, g, tx, lacks)
  BY DEF Follows

\* checkpoint_autocommit brings the target up to the graph, or says that it
\* did not.
LEMMA SaveTargetStep ==
  ASSUME SessionType, NEW p \in Paths, NEW pending \in Nat, NEW g \in SoundGraph,
         NEW tx, TxType(tx), NEW b \in [Names -> Nat], SaveTarget(p, pending, g, tx, b)
  PROVE  /\ SessionType'
         /\ FollowsInv'
         /\ Bound(b, g, tx) /\ Bound(bindings, g, tx) => Bound(bindings', state', script_tx')
  <1>1. PICK t \in Checkpoint(disk[p], pending, g) :
          /\ disk' = [disk EXCEPT ![p] = t.file]
          /\ autocommit' = [path |-> p, pending |-> t.pending]
          /\ Done(t.ok, g, Marked(tx), b, IF t.ok THEN {} ELSE behind)
    BY DEF SaveTarget
  <1>2. PICK lacks : lacks = IF t.ok THEN {} ELSE behind
    OBVIOUS
  <1>3. disk[p] \in SessionFile /\ disk \in [Paths -> SessionFile] /\ bindings \in [Names -> Nat]
    BY DEF SessionType, MemoryType
  <1>4. /\ t.file \in SessionFile /\ t.pending \in Nat /\ t.ok \in BOOLEAN
        /\ t.ok => t.file = Saved(g)
    BY <1>3, CheckpointOutcome
  <1>5. disk' \in [Paths -> SessionFile] /\ disk'[p] = t.file
    BY <1>1, <1>3, <1>4, FileWritten
  <1>6. TargetType'
    BY <1>1, <1>4 DEF TargetType
  <1>7. Done(t.ok, g, Marked(tx), b, lacks)
    BY <1>1, <1>2
  <1>8. TxType(Marked(tx))
    BY MarkedTx
  <1>9. MemoryType'
    BY <1>3, <1>4, <1>7, <1>8, DoneEnd
  <1>10. t.ok => Follows(autocommit', disk', g, Marked(tx), lacks)
    <2>1. ASSUME t.ok PROVE Follows(autocommit', disk', g, Marked(tx), lacks)
      <3>1. autocommit'.path = p
        BY <1>1
      <3>2. Gives(disk'[autocommit'.path], g)
        BY <1>4, <1>5, <2>1, <3>1, SavedGives
      <3>3. Marked(tx) = NoTx \/ Marked(tx).saved
        BY MarkedTx
      <3>4. QED
        BY <3>2, <3>3, GivenFollows
    <2>2. QED
      BY <2>1
  <1>11. Follows(autocommit', disk', state', script_tx', behind')
    BY <1>3, <1>4, <1>7, <1>8, <1>10, DoneEnd
  <1>12. Bound(b, g, tx) /\ Bound(bindings, g, tx) => Bound(bindings', state', script_tx')
    <2>1. ASSUME Bound(b, g, tx), Bound(bindings, g, tx) PROVE Bound(bindings', state', script_tx')
      <3>1. Bound(b, g, Marked(tx)) /\ Bound(bindings, g, Marked(tx))
        BY <2>1, MarkedBound
      <3>2. QED
        BY <1>3, <1>4, <1>7, <1>8, <3>1, DoneEnd
    <2>2. QED
      BY <2>1
  <1>13. SessionType'
    BY <1>5, <1>6, <1>9 DEF SessionType
  <1>14. FollowsInv'
    BY <1>11 DEF FollowsInv
  <1>15. QED
    BY <1>12, <1>13, <1>14

\* The same where there may be no target
LEMMA CheckpointStep ==
  ASSUME SessionType, NEW g \in SoundGraph, NEW tx, TxType(tx), NEW b \in [Names -> Nat],
         CheckpointAutocommit(g, tx, b)
  PROVE  /\ SessionType'
         /\ FollowsInv'
         /\ Bound(b, g, tx) /\ Bound(bindings, g, tx) => Bound(bindings', state', script_tx')
  <1>1. CASE autocommit # Off
    <2>1. autocommit.path \in Paths /\ autocommit.pending \in Nat
      BY <1>1 DEF SessionType, TargetType
    <2>2. SaveTarget(autocommit.path, autocommit.pending, g, tx, b)
      BY <1>1 DEF CheckpointAutocommit
    <2>3. QED
      BY <2>1, <2>2, SaveTargetStep
  <1>2. CASE autocommit = Off
    <2>1. Succeeded(g, tx, b, behind) /\ autocommit' = autocommit /\ disk' = disk
      BY <1>2 DEF CheckpointAutocommit
    <2>2. MemoryType' /\ (Bound(b, g, tx) => Bound(bindings', state', script_tx'))
      BY <2>1, SucceededEnd
    <2>3. SessionType'
      BY <2>1, <2>2 DEF SessionType, TargetType
    <2>4. FollowsInv'
      BY <1>2, <2>1 DEF FollowsInv, Follows
    <2>5. QED
      BY <2>2, <2>3, <2>4
  <1>3. QED
    BY <1>1, <1>2

\* persist_autocommit_entry: the line of an edit brings a target that gave
\* back the graph before it to the graph after it.
LEMMA PersistStep ==
  ASSUME SessionType, FollowsInv, NEW s \in Mutations(state), NEW b \in [Names -> Nat],
         PersistEntry(s.graph, s.durable_op, b, {})
  PROVE  /\ SessionType'
         /\ FollowsInv'
         /\ Bound(b, s.graph, script_tx) /\ Bound(bindings, s.graph, script_tx)
              => Bound(bindings', state', script_tx')
  <1> DEFINE g == s.graph
             op == s.durable_op
  <1>1. state \in SoundGraph /\ TxType(script_tx) /\ bindings \in [Names -> Nat]
        /\ disk \in [Paths -> SessionFile]
    BY DEF SessionType, MemoryType
  <1>2. g \in SoundGraph /\ op \in DurableOperation /\ g = ApplyEntry(state, op)
    BY <1>1, EditSound
  <1> HIDE DEF g, op
  <1>3. PersistEntry(g, op, b, {})
    BY DEF g, op
  <1>4. CASE ~Logged
    <2>1. Succeeded(g, script_tx, b, behind) /\ autocommit' = autocommit /\ disk' = disk
      BY <1>3, <1>4 DEF PersistEntry
    <2>2. /\ MemoryType'
          /\ Bound(b, g, script_tx) => Bound(bindings', state', script_tx')
      BY <1>1, <1>2, <2>1, SucceededEnd
    <2>3. SessionType'
      BY <2>1, <2>2 DEF SessionType, TargetType
    <2>4. Follows(autocommit, disk, g, script_tx, behind)
      BY <1>4 DEF FollowsInv, Follows, Logged
    <2>5. FollowsInv'
      BY <1>1, <1>2, <2>1, <2>4, SucceededEnd DEF FollowsInv
    <2>6. QED
      BY <2>2, <2>3, <2>5 DEF g
  <1>5. CASE Logged
    <2>1. autocommit # Off /\ script_tx = NoTx
      BY <1>5 DEF Logged
    <2>2. autocommit.path \in Paths /\ autocommit.pending \in Nat
          /\ autocommit \in [path : Paths, pending : Nat]
      BY <2>1 DEF SessionType, TargetType
    <2>3. PICK p \in Paths : p = autocommit.path
      BY <2>2
    <2>4. PICK t \in Persist(disk[p], autocommit.pending, g, op) :
            /\ disk' = [disk EXCEPT ![p] = t.file]
            /\ autocommit' = [autocommit EXCEPT !.pending = t.pending]
            /\ Done(t.ok, g, NoTx, b, {} \cup (IF t.file = Saved(g) THEN {} ELSE behind))
      BY <1>3, <1>5, <2>3 DEF PersistEntry, Target
    <2>5. PICK lacks : lacks = IF t.file = Saved(g) THEN {} ELSE behind
      OBVIOUS
    <2>6. Done(t.ok, g, NoTx, b, lacks)
      <3>1. {} \cup (IF t.file = Saved(g) THEN {} ELSE behind) = lacks
        BY <2>5
      <3>2. QED
        BY <2>4, <3>1
    <2>7. disk[p] \in SessionFile
      BY <1>1
    <2>8. /\ t.file \in SessionFile /\ t.pending \in Nat /\ t.ok \in BOOLEAN
          /\ t.ok => t.file \in {Saved(g), Appended(disk[p], op)}
      BY <1>2, <2>2, <2>7, PersistOutcome
    <2>9. disk' \in [Paths -> SessionFile] /\ disk'[p] = t.file
      BY <1>1, <2>4, <2>8, FileWritten
    <2>10. autocommit' \in [path : Paths, pending : Nat] /\ autocommit'.path = p
      BY <2>2, <2>3, <2>4, <2>8
    <2>11. TxType(NoTx)
      BY DEF TxType
    <2>12. MemoryType'
      BY <1>1, <1>2, <2>6, <2>8, <2>11, DoneEnd
    <2>13. ASSUME t.ok PROVE Follows(autocommit', disk', g, NoTx, lacks)
      <3>1. CASE t.file = Saved(g)
        <4>1. Gives(disk'[autocommit'.path], g)
          BY <1>2, <2>9, <2>10, <3>1, SavedGives
        <4>2. QED
          BY <4>1, GivenFollows
      <3>2. CASE t.file # Saved(g)
        <4>1. t.file = Appended(disk[p], op) /\ lacks = behind
          BY <2>5, <2>8, <2>13, <3>2
        <4>2. behind = {} => Gives(disk[p], state)
          BY <2>1, <2>3 DEF FollowsInv, Follows
        <4>3. Gives(disk[p], state) => Gives(t.file, g)
          BY <1>2, <2>7, <4>1, AppendedGives
        <4>4. behind = {} => Gives(disk'[autocommit'.path], g)
          BY <2>9, <2>10, <4>2, <4>3
        <4>5. QED
          BY <4>1, <4>4 DEF Follows
      <3>3. QED
        BY <3>1, <3>2
    <2>14. FollowsInv'
      BY <1>1, <1>2, <2>6, <2>8, <2>11, <2>13, DoneEnd DEF FollowsInv
    <2>15. Bound(b, g, NoTx) /\ Bound(bindings, g, NoTx) => Bound(bindings', state', script_tx')
      BY <1>1, <1>2, <2>6, <2>8, <2>11, DoneEnd
    <2>16. SessionType'
      BY <2>9, <2>10, <2>12 DEF SessionType, TargetType
    <2>17. QED
      BY <2>1, <2>14, <2>15, <2>16 DEF g
  <1>6. QED
    BY <1>4, <1>5

-----------------------------------------------------------------------------
(***************************************************************************)
(* Names.                                                                  *)
(***************************************************************************)
\* Ids given out stay given out while the counter does not go back.
LEMMA IssuedGrows ==
  ASSUME NEW g, NEW h, NEW b \in [Names -> Nat], NEW tx,
         g.next_node_id \in Nat, h.next_node_id \in Nat, g.next_node_id <= h.next_node_id,
         Bound(b, g, tx)
  PROVE  Bound(b, h, tx)
  <1>1. Issued(b, h)
    BY DEF Bound, Issued
  <1>2. QED
    BY <1>1 DEF Bound

\* The id that let binds has been given out.
LEMMA CreatedIssued ==
  ASSUME NEW g \in SoundGraph, NEW s \in NodeCreate(g)
  PROVE  /\ s \in Mutations(g)
         /\ s.durable_op.id \in Nat
         /\ s.durable_op.id < s.graph.next_node_id
  <1>1. s \in Mutations(g)
    BY DEF Mutations
  <1>2. s.durable_op.op = "UpsertNode"
    BY DEF NodeCreate, Outcome, UpsertNodeOp
  <1>3. s.durable_op \in DurableOperation
    BY <1>1, EditSound
  <1>4. s.durable_op.id \in Nat
    BY <1>2, <1>3, CountersAreNumbers DEF DurableOperation
  <1>5. g \in GraphState /\ IdsBelow(g)
    BY DEF SoundGraph
  <1>6. Below(s.durable_op.id, s.graph)
    BY <1>1, <1>2, <1>5, MutationBelow
  <1>7. QED
    BY <1>1, <1>4, <1>6 DEF Below

\* The instance that a wizard creates comes after the definition.
LEMMA WizardSteps ==
  ASSUME NEW g \in SoundGraph, NEW s \in DefineNode(g) \cup DefineEdge(g), NEW first \in FirstOf(s)
  PROVE  /\ s \in Mutations(g)
         /\ first \in Mutations(s.graph)
         /\ first.graph \in SoundGraph
         /\ g.next_node_id \in Nat /\ first.graph.next_node_id \in Nat
         /\ g.next_node_id <= first.graph.next_node_id
  <1>1. s \in Mutations(g)
    BY DEF Mutations
  <1>2. first \in Mutations(s.graph)
    BY DEF FirstOf, Mutations
  <1>3. /\ s.graph \in SoundGraph /\ g.next_node_id \in Nat /\ s.graph.next_node_id \in Nat
        /\ g.next_node_id <= s.graph.next_node_id
    BY <1>1, EditSound
  <1>4. /\ first.graph \in SoundGraph /\ first.graph.next_node_id \in Nat
        /\ s.graph.next_node_id <= first.graph.next_node_id
    BY <1>2, <1>3, EditSound
  <1>5. QED
    BY <1>1, <1>2, <1>3, <1>4

\* No name is bound in a new session.
LEMMA NothingBound ==
  ASSUME NEW g
  PROVE  NoBindings \in [Names -> Nat] /\ Issued(NoBindings, g)
  BY DEF NoBindings, Issued

-----------------------------------------------------------------------------
(***************************************************************************)
(* One lemma for each kind of command.                                     *)
(***************************************************************************)
SessionInv == SessionType /\ FollowsInv /\ BoundInv

\* An edit, with or without a name
LEMMA EditStep ==
  ASSUME SessionInv, NEW s \in Mutations(state), Edit(s)
  PROVE  SessionInv'
  <1>1. SessionType /\ FollowsInv /\ BoundInv /\ state \in SoundGraph
        /\ bindings \in [Names -> Nat]
    BY DEF SessionInv, SessionType, MemoryType
  <1>2. PersistEntry(s.graph, s.durable_op, bindings, {}) /\ replaced' = replaced
    BY DEF Edit
  <1>3. /\ SessionType' /\ FollowsInv'
        /\ Bound(bindings, s.graph, script_tx) => Bound(bindings', state', script_tx')
    BY <1>1, <1>2, PersistStep
  <1>4. Bound(bindings, state, script_tx) => Bound(bindings, s.graph, script_tx)
    BY <1>1, EditSound, IssuedGrows
  <1>5. BoundInv'
    BY <1>1, <1>2, <1>3, <1>4 DEF BoundInv
  <1>6. QED
    BY <1>3, <1>5 DEF SessionInv

LEMMA LetStep ==
  ASSUME SessionInv, NEW n \in Names, NEW s \in NodeCreate(state), Let(n, s)
  PROVE  SessionInv'
  <1>1. SessionType /\ FollowsInv /\ BoundInv /\ state \in SoundGraph
        /\ bindings \in [Names -> Nat]
    BY DEF SessionInv, SessionType, MemoryType
  <1>2. s \in Mutations(state) /\ s.durable_op.id \in Nat
        /\ s.durable_op.id < s.graph.next_node_id
    BY <1>1, CreatedIssued
  <1>3. PICK b \in [Names -> Nat] : b = [bindings EXCEPT ![n] = s.durable_op.id]
    BY <1>1, <1>2
  <1>4. PersistEntry(s.graph, s.durable_op, b, {}) /\ replaced' = replaced
    BY <1>3 DEF Let
  <1>5. /\ SessionType' /\ FollowsInv'
        /\ Bound(b, s.graph, script_tx) /\ Bound(bindings, s.graph, script_tx)
             => Bound(bindings', state', script_tx')
    BY <1>1, <1>2, <1>4, PersistStep
  <1>6. Bound(bindings, state, script_tx) => Bound(bindings, s.graph, script_tx)
    BY <1>1, <1>2, EditSound, IssuedGrows
  <1>7. Bound(bindings, s.graph, script_tx) => Bound(b, s.graph, script_tx)
    <2>1. \A m \in Names : b[m] = IF m = n THEN s.durable_op.id ELSE bindings[m]
      BY <1>1, <1>3
    <2>2. QED
      BY <1>2, <2>1 DEF Bound, Issued
  <1>8. BoundInv'
    BY <1>1, <1>4, <1>5, <1>6, <1>7 DEF BoundInv
  <1>9. QED
    BY <1>5, <1>8 DEF SessionInv

\* A definition with its first instance: the target is known to lag.
LEMMA WizardStep ==
  ASSUME SessionInv, NEW s \in DefineNode(state) \cup DefineEdge(state),
         NEW first \in FirstOf(s), Wizard(s, first)
  PROVE  SessionInv'
  <1>1. SessionType /\ FollowsInv /\ BoundInv /\ state \in SoundGraph /\ TxType(script_tx)
        /\ bindings \in [Names -> Nat] /\ disk \in [Paths -> SessionFile]
    BY DEF SessionInv, SessionType, MemoryType
  <1>2. PICK g \in SoundGraph : g = first.graph
    BY <1>1, WizardSteps
  <1>3. s \in Mutations(state) /\ (Bound(bindings, state, script_tx) => Bound(bindings, g, script_tx))
    BY <1>1, <1>2, WizardSteps, IssuedGrows
  <1>4. replaced' = replaced
    BY DEF Wizard
  <1>5. CASE ~Logged
    <2>1. Succeeded(g, script_tx, bindings, behind) /\ autocommit' = autocommit /\ disk' = disk
      BY <1>2, <1>5 DEF Wizard
    <2>2. MemoryType' /\ (Bound(bindings, g, script_tx) => Bound(bindings', state', script_tx'))
      BY <1>1, <2>1, SucceededEnd
    <2>3. SessionType'
      BY <1>1, <2>1, <2>2 DEF SessionType, TargetType
    <2>4. Follows(autocommit, disk, g, script_tx, behind)
      BY <1>1, <1>5 DEF FollowsInv, Follows, Logged
    <2>5. FollowsInv'
      BY <1>1, <2>1, <2>4, SucceededEnd DEF FollowsInv
    <2>6. BoundInv'
      BY <1>1, <1>3, <1>4, <2>2 DEF BoundInv
    <2>7. QED
      BY <2>3, <2>5, <2>6 DEF SessionInv
  <1>6. CASE Logged
    <2>1. autocommit # Off /\ script_tx = NoTx
      BY <1>6 DEF Logged
    <2>2. autocommit.path \in Paths /\ autocommit.pending \in Nat
          /\ autocommit \in [path : Paths, pending : Nat]
      BY <1>1, <2>1 DEF SessionType, TargetType
    <2>3. PICK p \in Paths : p = autocommit.path
      BY <2>2
    <2>4. PICK t \in Persist(disk[p], autocommit.pending, s.graph, s.durable_op) :
            /\ disk' = [disk EXCEPT ![p] = t.file]
            /\ autocommit' = [autocommit EXCEPT !.pending = t.pending]
            /\ Succeeded(g, NoTx, bindings, behind \cup {"wizard"})
      BY <1>2, <1>6, <2>3 DEF Wizard, Target
    <2>5. disk[p] \in SessionFile /\ s.graph \in SoundGraph /\ s.durable_op \in DurableOperation
      BY <1>1, <1>3, EditSound
    <2>6. t.file \in SessionFile /\ t.pending \in Nat
      BY <2>2, <2>5, PersistOutcome
    <2>7. disk' \in [Paths -> SessionFile]
      BY <1>1, <2>4, <2>6, FileWritten
    <2>8. autocommit' \in [path : Paths, pending : Nat]
      BY <2>2, <2>4, <2>6
    <2>9. TxType(NoTx)
      BY DEF TxType
    <2>10. MemoryType' /\ (Bound(bindings, g, NoTx) => Bound(bindings', state', script_tx'))
      BY <1>1, <2>4, <2>9, SucceededEnd
    <2>11. SessionType'
      BY <2>7, <2>8, <2>10 DEF SessionType, TargetType
    <2>12. behind' # {}
      BY <2>4 DEF Succeeded
    <2>13. FollowsInv'
      BY <2>12 DEF FollowsInv, Follows
    <2>14. BoundInv'
      BY <1>1, <1>3, <1>4, <2>1, <2>10 DEF BoundInv
    <2>15. QED
      BY <2>11, <2>13, <2>14 DEF SessionInv
  <1>7. QED
    BY <1>5, <1>6

\* A command that is refused, and the end of a script in a transaction
LEMMA RejectedStep ==
  ASSUME SessionInv, Failed(state, script_tx, behind), UNCHANGED <<autocommit, disk, replaced>>
  PROVE  SessionInv'
  <1>1. SessionType /\ FollowsInv /\ BoundInv /\ state \in SoundGraph /\ TxType(script_tx)
        /\ bindings \in [Names -> Nat]
    BY DEF SessionInv, SessionType, MemoryType
  <1>2. /\ MemoryType'
        /\ Follows(autocommit, disk, state, script_tx, behind)
             => Follows(autocommit, disk, state', script_tx', behind')
        /\ Bound(bindings, state, script_tx) => Bound(bindings', state', script_tx')
    BY <1>1, FailedEnd
  <1>3. SessionType'
    BY <1>1, <1>2 DEF SessionType, TargetType
  <1>4. FollowsInv'
    BY <1>1, <1>2 DEF FollowsInv
  <1>5. BoundInv'
    BY <1>1, <1>2 DEF BoundInv
  <1>6. QED
    BY <1>3, <1>4, <1>5 DEF SessionInv

\* A transaction starts with a graph that the target gives back.
LEMMA TxBeginStep ==
  ASSUME SessionInv, TxBegin
  PROVE  SessionInv'
  <1>1. SessionType /\ FollowsInv /\ BoundInv /\ state \in SoundGraph
        /\ bindings \in [Names -> Nat]
    BY DEF SessionInv, SessionType, MemoryType
  <1>2. PICK tx : tx = [state |-> state, bindings |-> bindings, saved |-> FALSE]
    OBVIOUS
  <1>3. tx \in Transaction /\ tx.state = state /\ tx.bindings = bindings /\ tx.saved = FALSE
    BY <1>1, <1>2 DEF Transaction
  <1>4. /\ script_tx = NoTx /\ Succeeded(state, tx, bindings, behind)
        /\ autocommit' = autocommit /\ disk' = disk /\ replaced' = replaced
    BY <1>2 DEF TxBegin
  <1>5. TxType(tx)
    BY <1>3 DEF TxType
  <1>6. Follows(autocommit, disk, state, tx, behind)
    BY <1>1, <1>3, <1>4 DEF FollowsInv, Follows
  <1>7. Bound(bindings, state, script_tx) => Bound(bindings, state, tx)
    BY <1>3 DEF Bound
  <1>8. /\ MemoryType'
        /\ Follows(autocommit, disk, state', script_tx', behind')
        /\ Bound(bindings, state, tx) => Bound(bindings', state', script_tx')
    BY <1>1, <1>4, <1>5, <1>6, SucceededEnd
  <1>9. SessionType'
    BY <1>1, <1>4, <1>8 DEF SessionType, TargetType
  <1>10. FollowsInv'
    BY <1>4, <1>8 DEF FollowsInv
  <1>11. BoundInv'
    BY <1>1, <1>4, <1>7, <1>8 DEF BoundInv
  <1>12. QED
    BY <1>9, <1>10, <1>11 DEF SessionInv

\* A commit and session.compact: the graph stays, the target is brought up.
LEMMA CommitStep ==
  ASSUME SessionInv, NEW tx \in {NoTx, script_tx}, CheckpointAutocommit(state, tx, bindings),
         UNCHANGED replaced
  PROVE  SessionInv'
  <1>1. SessionType /\ BoundInv /\ state \in SoundGraph /\ TxType(script_tx)
        /\ bindings \in [Names -> Nat]
    BY DEF SessionInv, SessionType, MemoryType
  <1>2. TxType(tx)
    BY <1>1 DEF TxType
  <1>3. Bound(bindings, state, script_tx) => Bound(bindings, state, tx)
    BY DEF Bound
  <1>4. /\ SessionType' /\ FollowsInv'
        /\ Bound(bindings, state, tx) => Bound(bindings', state', script_tx')
    BY <1>1, <1>2, CheckpointStep
  <1>5. BoundInv'
    BY <1>1, <1>3, <1>4 DEF BoundInv
  <1>6. QED
    BY <1>4, <1>5 DEF SessionInv

\* session.load and session.import: another graph, and the target after it.
LEMMA ReplaceStep ==
  ASSUME SessionInv, NEW g \in SoundGraph, CheckpointAutocommit(g, script_tx, bindings),
         replaced' = (replaced \/ bindings # NoBindings)
  PROVE  SessionInv'
  <1>1. SessionType /\ BoundInv /\ TxType(script_tx) /\ bindings \in [Names -> Nat]
    BY DEF SessionInv, SessionType, MemoryType
  <1>2. /\ SessionType' /\ FollowsInv'
        /\ Bound(bindings, g, script_tx) => Bound(bindings', state', script_tx')
    BY <1>1, CheckpointStep
  <1>3. ASSUME ~replaced' PROVE Bound(bindings, g, script_tx)
    <2>1. ~replaced /\ bindings = NoBindings
      BY <1>3
    <2>2. Issued(bindings, g)
      BY <2>1, NothingBound
    <2>3. QED
      BY <1>1, <2>1, <2>2 DEF BoundInv, Bound
  <1>4. BoundInv'
    BY <1>2, <1>3 DEF BoundInv
  <1>5. QED
    BY <1>2, <1>4 DEF SessionInv

\* The files that can be loaded
LEMMA LoadedSound ==
  ASSUME SessionType, NEW p \in Paths
  PROVE  /\ disk[p].base # NoFile => disk[p].base \in SoundGraph
         /\ Loadable(disk[p]) => Recovered(disk[p]) \in SoundGraph
  <1>1. disk[p] \in SessionFile
    BY DEF SessionType
  <1>2. disk[p].base \in SoundGraph \cup {NoFile} /\ disk[p].log \in Seq(DurableOperation)
    BY <1>1 DEF SessionFile
  <1>3. QED
    BY <1>2, RecoveredSound DEF Loadable

\* A load that stops in the log: the session has the checkpoint, the target
\* is known to lag.
LEMMA LoadAbortsStep ==
  ASSUME SessionInv, NEW p \in Paths, SessionLoadAborts(p)
  PROVE  SessionInv'
  <1>1. SessionType /\ BoundInv /\ TxType(script_tx) /\ bindings \in [Names -> Nat]
    BY DEF SessionInv, SessionType, MemoryType
  <1>2. PICK g : g = disk[p].base
    OBVIOUS
  <1>3. PICK lacks : lacks = behind \cup {"error"}
    OBVIOUS
  <1>4. /\ disk[p].base # NoFile /\ Failed(g, script_tx, lacks)
        /\ replaced' = (replaced \/ bindings # NoBindings)
        /\ autocommit' = autocommit /\ disk' = disk
    BY <1>2, <1>3 DEF SessionLoadAborts
  <1>5. g \in SoundGraph
    BY <1>1, <1>2, <1>4, LoadedSound
  <1>6. lacks # {}
    BY <1>3
  <1>7. Follows(autocommit, disk, g, script_tx, lacks)
    BY <1>6 DEF Follows
  <1>8. /\ MemoryType'
        /\ Follows(autocommit, disk, state', script_tx', behind')
        /\ Bound(bindings, g, script_tx) => Bound(bindings', state', script_tx')
    BY <1>1, <1>4, <1>5, <1>7, FailedEnd
  <1>9. ASSUME ~replaced' PROVE Bound(bindings, g, script_tx)
    <2>1. ~replaced /\ bindings = NoBindings
      BY <1>4, <1>9
    <2>2. Issued(bindings, g)
      BY <2>1, NothingBound
    <2>3. QED
      BY <1>1, <2>1, <2>2 DEF BoundInv, Bound
  <1>10. SessionType'
    BY <1>1, <1>4, <1>8 DEF SessionType, TargetType
  <1>11. FollowsInv'
    BY <1>4, <1>8 DEF FollowsInv
  <1>12. BoundInv'
    BY <1>8, <1>9 DEF BoundInv
  <1>13. QED
    BY <1>10, <1>11, <1>12 DEF SessionInv

\* session.save to the target's own path counts as a checkpoint of it; to
\* another path it does not touch the target.
LEMMA SaveStep ==
  ASSUME SessionInv, NEW p \in Paths, SessionSave(p)
  PROVE  SessionInv'
  <1>1. SessionType /\ FollowsInv /\ BoundInv /\ state \in SoundGraph /\ TxType(script_tx)
        /\ bindings \in [Names -> Nat] /\ disk \in [Paths -> SessionFile]
    BY DEF SessionInv, SessionType, MemoryType
  <1> DEFINE own == autocommit # Off /\ autocommit.path = p
  <1>2. PICK tx : tx = IF own THEN Marked(script_tx) ELSE script_tx
    OBVIOUS
  <1>3. autocommit' = autocommit /\ replaced' = replaced
    BY DEF SessionSave
  <1>4. TxType(tx)
    BY <1>1, <1>2, MarkedTx
  <1>5. Bound(bindings, state, script_tx) => Bound(bindings, state, tx)
    BY <1>1, <1>2, MarkedBound
  <1>6. own => tx = NoTx \/ tx.saved
    BY <1>1, <1>2, MarkedTx
  <1>7. ~own => tx = script_tx
    BY <1>2
  <1>8. autocommit # Off => autocommit.path \in Paths
    BY <1>1 DEF SessionType, TargetType
  <1>9. ASSUME NEW f \in SessionFile, disk' = [disk EXCEPT ![p] = f], ~own
        PROVE  Follows(autocommit, disk', state, tx, behind)
    <2>1. autocommit # Off => disk'[autocommit.path] = disk[autocommit.path]
      BY <1>1, <1>8, <1>9, FileWritten
    <2>2. QED
      BY <1>1, <1>7, <1>9, <2>1 DEF FollowsInv, Follows
  <1>10. CASE /\ disk' = [disk EXCEPT ![p] = Saved(state)]
              /\ Succeeded(state, tx, bindings, IF own THEN {} ELSE behind)
    <2>1. PICK lacks : lacks = IF own THEN {} ELSE behind
      OBVIOUS
    <2>2. Succeeded(state, tx, bindings, lacks)
      BY <1>10, <2>1
    <2>3. Saved(state) \in SessionFile /\ Gives(Saved(state), state)
      BY <1>1, SavedGives
    <2>4. disk' \in [Paths -> SessionFile] /\ disk'[p] = Saved(state)
      BY <1>1, <1>10, <2>3, FileWritten
    <2>5. Follows(autocommit, disk', state, tx, lacks)
      <3>1. CASE own
        <4>1. Gives(disk'[autocommit.path], state)
          BY <2>3, <2>4, <3>1
        <4>2. QED
          BY <1>6, <3>1, <4>1, GivenFollows
      <3>2. CASE ~own
        <4>1. lacks = behind
          BY <2>1, <3>2
        <4>2. QED
          BY <1>9, <1>10, <2>3, <3>2, <4>1
      <3>3. QED
        BY <3>1, <3>2
    <2>6. /\ MemoryType'
          /\ Follows(autocommit, disk', state', script_tx', behind')
          /\ Bound(bindings, state, tx) => Bound(bindings', state', script_tx')
      BY <1>1, <1>4, <2>2, <2>5, SucceededEnd
    <2>7. SessionType'
      BY <1>1, <1>3, <2>4, <2>6 DEF SessionType, TargetType
    <2>8. FollowsInv'
      BY <1>3, <2>6 DEF FollowsInv
    <2>9. BoundInv'
      BY <1>1, <1>3, <1>5, <2>6 DEF BoundInv
    <2>10. QED
      BY <2>7, <2>8, <2>9 DEF SessionInv
  <1>11. CASE \E f \in HalfSaved(disk[p], state) :
                /\ disk' = [disk EXCEPT ![p] = f]
                /\ Failed(state, tx, IF own THEN behind \cup {"error"} ELSE behind)
    <2>1. PICK f \in HalfSaved(disk[p], state) :
            /\ disk' = [disk EXCEPT ![p] = f]
            /\ Failed(state, tx, IF own THEN behind \cup {"error"} ELSE behind)
      BY <1>11
    <2>2. PICK lacks : lacks = IF own THEN behind \cup {"error"} ELSE behind
      OBVIOUS
    <2>3. Failed(state, tx, lacks)
      BY <2>1, <2>2
    <2>4. f \in SessionFile
      <3>1. disk[p] \in SessionFile
        BY <1>1
      <3>2. QED
        BY <1>1, <3>1, HalfSavedType
    <2>5. disk' \in [Paths -> SessionFile]
      BY <1>1, <2>1, <2>4, FileWritten
    <2>6. Follows(autocommit, disk', state, tx, lacks)
      <3>1. CASE own
        <4>1. lacks # {}
          BY <2>2, <3>1
        <4>2. QED
          BY <4>1 DEF Follows
      <3>2. CASE ~own
        <4>1. lacks = behind
          BY <2>2, <3>2
        <4>2. QED
          BY <1>9, <2>1, <2>4, <3>2, <4>1
      <3>3. QED
        BY <3>1, <3>2
    <2>7. /\ MemoryType'
          /\ Follows(autocommit, disk', state', script_tx', behind')
          /\ Bound(bindings, state, tx) => Bound(bindings', state', script_tx')
      BY <1>1, <1>4, <2>3, <2>6, FailedEnd
    <2>8. SessionType'
      BY <1>1, <1>3, <2>5, <2>7 DEF SessionType, TargetType
    <2>9. FollowsInv'
      BY <1>3, <2>7 DEF FollowsInv
    <2>10. BoundInv'
      BY <1>1, <1>3, <1>5, <2>7 DEF BoundInv
    <2>11. QED
      BY <2>8, <2>9, <2>10 DEF SessionInv
  <1>12. QED
    BY <1>2, <1>10, <1>11 DEF SessionSave

\* session.autocommit sets the target and brings it up.
LEMMA EnableStep ==
  ASSUME SessionInv, NEW p \in Paths, EnableAutocommit(p)
  PROVE  SessionInv'
  <1>1. SessionType /\ BoundInv /\ state \in SoundGraph /\ TxType(script_tx)
        /\ bindings \in [Names -> Nat]
    BY DEF SessionInv, SessionType, MemoryType
  <1>2. SaveTarget(p, 0, state, script_tx, bindings) /\ replaced' = replaced
    BY DEF EnableAutocommit
  <1>3. /\ SessionType' /\ FollowsInv'
        /\ Bound(bindings, state, script_tx) => Bound(bindings', state', script_tx')
    BY <1>1, <1>2, SaveTargetStep
  <1>4. BoundInv'
    BY <1>1, <1>2, <1>3 DEF BoundInv
  <1>5. QED
    BY <1>3, <1>4 DEF SessionInv

LEMMA DisableStep ==
  ASSUME SessionInv, DisableAutocommit
  PROVE  SessionInv'
  <1>1. SessionType /\ BoundInv /\ state \in SoundGraph /\ TxType(script_tx)
        /\ bindings \in [Names -> Nat]
    BY DEF SessionInv, SessionType, MemoryType
  <1>2. /\ Succeeded(state, script_tx, bindings, {}) /\ autocommit' = Off
        /\ disk' = disk /\ replaced' = replaced
    BY DEF DisableAutocommit
  <1>3. MemoryType' /\ (Bound(bindings, state, script_tx) => Bound(bindings', state', script_tx'))
    BY <1>1, <1>2, SucceededEnd
  <1>4. SessionType'
    BY <1>1, <1>2, <1>3 DEF SessionType, TargetType
  <1>5. FollowsInv'
    BY <1>2 DEF FollowsInv, Follows
  <1>6. BoundInv'
    BY <1>1, <1>2, <1>3 DEF BoundInv
  <1>7. QED
    BY <1>4, <1>5, <1>6 DEF SessionInv

\* A new session, over a graph that its target, if it has one, gives back
GivenBack(target, files, g) ==
  \/ target = Off
  \/ target \in [path : Paths, pending : Nat] /\ Gives(files[target.path], g)

LEMMA BeginStep ==
  ASSUME NEW kind, NEW g \in SoundGraph, NEW target, Begin(kind, g, target),
         GivenBack(target, disk', g), disk' \in [Paths -> SessionFile]
  PROVE  SessionInv'
  <1>1. /\ state' = g /\ autocommit' = target /\ script_tx' = NoTx
        /\ bindings' = NoBindings
    BY DEF Begin
  <1>2. SessionType'
    BY <1>1, NothingBound DEF SessionType, MemoryType, TargetType, TxType, GivenBack
  <1>3. FollowsInv'
    BY <1>1 DEF FollowsInv, Follows, GivenBack
  <1>4. Bound(bindings', state', script_tx')
    BY <1>1, NothingBound DEF Bound
  <1>5. BoundInv'
    BY <1>4 DEF BoundInv
  <1>6. QED
    BY <1>2, <1>3, <1>5 DEF SessionInv

\* A new session without a target
LEMMA BeginPlain ==
  ASSUME NEW kind, NEW g \in SoundGraph, Begin(kind, g, Off), disk' \in [Paths -> SessionFile]
  PROVE  SessionInv'
  <1>1. GivenBack(Off, disk', g)
    BY DEF GivenBack
  <1>2. QED
    BY <1>1, BeginStep

\* A process that does not run has no target.
OffInv == session = "off" => autocommit = Off

\* --load, with and without --autocommit
LEMMA StartLoadedStep ==
  ASSUME SessionInv, OffInv, NEW p \in Paths, StartLoaded(p)
  PROVE  SessionInv'
  <1>1. SessionType /\ disk \in [Paths -> SessionFile]
    BY DEF SessionInv, SessionType
  <1>2. PICK g : g = Recovered(disk[p])
    OBVIOUS
  <1>3. g \in SoundGraph
    BY <1>1, <1>2, LoadedSound DEF StartLoaded
  <1>4. CASE Begin("interactive", g, Off) /\ disk' = disk
    BY <1>1, <1>3, <1>4, BeginPlain
  <1>5. CASE /\ Begin("interactive", g, [path |-> p, pending |-> 0])
             /\ disk' = [disk EXCEPT ![p] = Saved(g)]
    <2>1. PICK target : target = [path |-> p, pending |-> 0]
      OBVIOUS
    <2>2. target \in [path : Paths, pending : Nat] /\ target.path = p
      BY <2>1
    <2>3. Saved(g) \in SessionFile /\ Gives(Saved(g), g)
      BY <1>3, SavedGives
    <2>4. disk' \in [Paths -> SessionFile] /\ disk'[p] = Saved(g)
      BY <1>1, <1>5, <2>3, FileWritten
    <2>5. Begin("interactive", g, target)
      BY <1>5, <2>1
    <2>6. GivenBack(target, disk', g)
      BY <2>2, <2>3, <2>4 DEF GivenBack
    <2>7. QED
      BY <1>3, <2>4, <2>5, <2>6, BeginStep
  <1>6. CASE /\ \E f \in HalfSaved(disk[p], g) : disk' = [disk EXCEPT ![p] = f]
             /\ UNCHANGED <<sessionVars, behind, replaced>>
    <2>1. PICK f \in HalfSaved(disk[p], g) : disk' = [disk EXCEPT ![p] = f]
      BY <1>6
    <2>2. f \in SessionFile
      <3>1. disk[p] \in SessionFile
        BY <1>1
      <3>2. QED
        BY <1>3, <3>1, HalfSavedType
    <2>3. disk' \in [Paths -> SessionFile]
      BY <1>1, <2>1, <2>2, FileWritten
    <2>4. /\ state' = state /\ autocommit' = autocommit /\ script_tx' = script_tx
          /\ bindings' = bindings /\ replaced' = replaced
      BY <1>6 DEF sessionVars
    <2>5. SessionType'
      BY <1>1, <2>3, <2>4 DEF SessionType, MemoryType, TargetType
    <2>6. autocommit = Off
      BY DEF StartLoaded, OffInv
    <2>7. FollowsInv'
      BY <2>4, <2>6 DEF FollowsInv, Follows
    <2>8. BoundInv'
      BY <2>4 DEF BoundInv, SessionInv
    <2>9. QED
      BY <2>5, <2>7, <2>8 DEF SessionInv
  <1>7. QED
    BY <1>2, <1>4, <1>5, <1>6 DEF StartLoaded

\* Commands do not end the process; the others leave it without a target or
\* start it.
LEMMA OffStep ==
  ASSUME OffInv, [Next]_vars
  PROVE  OffInv'
  <1> USE DEF OffInv
  <1>1. ASSUME Running, NEW g, NEW tx, NEW b, NEW lacks,
               Succeeded(g, tx, b, lacks) \/ Failed(g, tx, lacks)
        PROVE  session' # "off"
    BY <1>1 DEF Running, Succeeded, Failed
  <1>2. ASSUME Running, NEW ok, NEW g, NEW tx, NEW b, NEW lacks, Done(ok, g, tx, b, lacks)
        PROVE  session' # "off"
    BY <1>1, <1>2 DEF Done
  <1>3. ASSUME Running, NEW p, NEW pending, NEW g, NEW tx, NEW b, SaveTarget(p, pending, g, tx, b)
        PROVE  session' # "off"
    BY <1>2, <1>3 DEF SaveTarget
  <1>4. ASSUME Running, NEW g, NEW tx, NEW b, CheckpointAutocommit(g, tx, b)
        PROVE  session' # "off"
    BY <1>1, <1>3, <1>4 DEF CheckpointAutocommit
  <1>5. ASSUME Running, NEW g, NEW op, NEW b, NEW lacks, PersistEntry(g, op, b, lacks)
        PROVE  session' # "off"
    BY <1>1, <1>2, <1>5 DEF PersistEntry
  <1>6. ASSUME NEW s \in Mutations(state), Edit(s) PROVE OffInv'
    BY <1>5, <1>6 DEF Edit
  <1>7. ASSUME NEW n \in Names, NEW s \in NodeCreate(state), Let(n, s) PROVE OffInv'
    BY <1>5, <1>7 DEF Let
  <1>8. ASSUME NEW s, NEW first, Wizard(s, first) PROVE OffInv'
    <2>1. Running
      BY <1>8 DEF Wizard
    <2>2. \E g, tx, b, lacks : Succeeded(g, tx, b, lacks)
      BY <1>8 DEF Wizard
    <2>3. QED
      BY <1>1, <2>1, <2>2
  <1>9. CASE Rejected
    BY <1>1, <1>9 DEF Rejected
  <1>10. CASE TxBegin
    BY <1>1, <1>10 DEF TxBegin
  <1>11. CASE TxCommit
    BY <1>4, <1>11 DEF TxCommit
  <1>12. ASSUME NEW p \in Paths, SessionSave(p) PROVE OffInv'
    <2>1. Running
      BY <1>12 DEF SessionSave
    <2>2. \E g, tx, b, lacks : Succeeded(g, tx, b, lacks) \/ Failed(g, tx, lacks)
      BY <1>12 DEF SessionSave
    <2>3. QED
      BY <1>1, <2>1, <2>2
  <1>13. ASSUME NEW p \in Paths, SessionLoad(p) PROVE OffInv'
    BY <1>4, <1>13 DEF SessionLoad
  <1>14. ASSUME NEW p \in Paths, SessionLoadAborts(p) PROVE OffInv'
    BY <1>1, <1>14 DEF SessionLoadAborts
  <1>15. ASSUME NEW p \in Paths, EnableAutocommit(p) PROVE OffInv'
    BY <1>3, <1>15 DEF EnableAutocommit
  <1>16. ASSUME NEW doc \in Documents, SessionImport(doc) PROVE OffInv'
    BY <1>4, <1>16 DEF SessionImport
  <1>17. CASE SessionCompact
    BY <1>4, <1>17 DEF SessionCompact
  <1>18. CASE DisableAutocommit
    BY <1>18 DEF DisableAutocommit
  <1>19. ASSUME NEW kind \in {"script", "interactive"}, StartFresh(kind) PROVE OffInv'
    BY <1>19 DEF StartFresh, Begin
  <1>20. ASSUME NEW p \in Paths, StartLoaded(p) PROVE OffInv'
    <2>1. session = "off" /\ autocommit = Off
      BY <1>20 DEF StartLoaded
    <2>2. session' = "interactive" \/ autocommit' = autocommit
      BY <1>20 DEF StartLoaded, Begin, sessionVars
    <2>3. QED
      BY <2>1, <2>2
  <1>21. CASE ScriptEnds
    <2>1. Running
      BY <1>21 DEF ScriptEnds, Running
    <2>2. CASE script_tx = NoTx
      BY <1>21, <2>2 DEF ScriptEnds, Begin
    <2>3. CASE script_tx # NoTx
      BY <1>1, <1>21, <2>1, <2>3 DEF ScriptEnds
    <2>4. QED
      BY <2>2, <2>3
  <1>22. CASE Exit
    BY <1>22 DEF Exit, Begin
  <1>23. CASE UNCHANGED vars
    BY <1>23 DEF vars, sessionVars
  <1>24. QED
    BY <1>6, <1>7, <1>8, <1>9, <1>10, <1>11, <1>12, <1>13, <1>14, <1>15, <1>16, <1>17, <1>18,
       <1>19, <1>20, <1>21, <1>22, <1>23 DEF Next

-----------------------------------------------------------------------------
(***************************************************************************)
(* The theorems.                                                           *)
(***************************************************************************)
LEMMA SessionInit ==
  ASSUME Init
  PROVE  SessionInv /\ OffInv
  <1>1. /\ session = "off" /\ state = EmptyGraph /\ autocommit = Off /\ script_tx = NoTx
        /\ bindings = NoBindings
        /\ disk \in [Paths -> {File(NoFile, <<>>, TRUE), File(EmptyGraph, <<>>, FALSE)}]
    BY DEF Init
  <1>2. {File(NoFile, <<>>, TRUE), File(EmptyGraph, <<>>, FALSE)} \subseteq SessionFile
    BY EmptySound DEF File, SessionFile
  <1>3. disk \in [Paths -> SessionFile]
    BY <1>1, <1>2
  <1>4. SessionType
    BY <1>1, <1>3, EmptySound, NothingBound DEF SessionType, MemoryType, TargetType, TxType
  <1>5. FollowsInv /\ OffInv
    BY <1>1 DEF FollowsInv, Follows, OffInv
  <1>6. BoundInv
    BY <1>1, NothingBound DEF BoundInv, Bound
  <1>7. QED
    BY <1>4, <1>5, <1>6 DEF SessionInv

\* Every step of the session keeps the invariant.
LEMMA SessionStep ==
  ASSUME SessionInv, OffInv, [Next]_vars
  PROVE  SessionInv'
  <1>1. ASSUME NEW s \in Mutations(state), Edit(s) PROVE SessionInv'
    BY <1>1, EditStep
  <1>2. ASSUME NEW n \in Names, NEW s \in NodeCreate(state), Let(n, s) PROVE SessionInv'
    BY <1>2, LetStep
  <1>3. ASSUME NEW s \in DefineNode(state) \cup DefineEdge(state), NEW first \in FirstOf(s),
               Wizard(s, first)
        PROVE  SessionInv'
    BY <1>3, WizardStep
  <1>4. CASE Rejected
    BY <1>4, RejectedStep DEF Rejected
  <1>5. CASE TxBegin
    BY <1>5, TxBeginStep
  <1>6. CASE TxCommit
    BY <1>6, CommitStep DEF TxCommit
  <1>7. ASSUME NEW p \in Paths, SessionSave(p) PROVE SessionInv'
    BY <1>7, SaveStep
  <1>8. ASSUME NEW p \in Paths, SessionLoad(p) PROVE SessionInv'
    <2>1. PICK g : g = Recovered(disk[p])
      OBVIOUS
    <2>2. g \in SoundGraph
      BY <1>8, <2>1, LoadedSound DEF SessionLoad, SessionInv
    <2>3. /\ CheckpointAutocommit(g, script_tx, bindings)
          /\ replaced' = (replaced \/ bindings # NoBindings)
      BY <1>8, <2>1 DEF SessionLoad
    <2>4. QED
      BY <2>2, <2>3, ReplaceStep
  <1>9. ASSUME NEW p \in Paths, SessionLoadAborts(p) PROVE SessionInv'
    BY <1>9, LoadAbortsStep
  <1>10. ASSUME NEW p \in Paths, EnableAutocommit(p) PROVE SessionInv'
    BY <1>10, EnableStep
  <1>11. ASSUME NEW doc \in Documents, SessionImport(doc) PROVE SessionInv'
    <2>1. PICK g : g = Imported(doc)
      OBVIOUS
    <2>2. g \in SoundGraph
      BY <2>1, ImportSound
    <2>3. /\ CheckpointAutocommit(g, script_tx, bindings)
          /\ replaced' = (replaced \/ bindings # NoBindings)
      BY <1>11, <2>1 DEF SessionImport
    <2>4. QED
      BY <2>2, <2>3, ReplaceStep
  <1>12. CASE SessionCompact
    BY <1>12, CommitStep DEF SessionCompact
  <1>13. CASE DisableAutocommit
    BY <1>13, DisableStep
  <1>14. disk \in [Paths -> SessionFile] /\ state \in SoundGraph
    BY DEF SessionInv, SessionType, MemoryType
  <1>15. ASSUME NEW kind \in {"script", "interactive"}, StartFresh(kind) PROVE SessionInv'
    <2>1. Begin(kind, EmptyGraph, Off) /\ disk' = disk
      BY <1>15 DEF StartFresh
    <2>2. QED
      BY <1>14, <2>1, EmptySound, BeginPlain
  <1>16. ASSUME NEW p \in Paths, StartLoaded(p) PROVE SessionInv'
    BY <1>16, StartLoadedStep
  <1>17. CASE ScriptEnds
    <2>1. CASE script_tx = NoTx
      <3>1. Begin("interactive", state, Off) /\ disk' = disk
        BY <1>17, <2>1 DEF ScriptEnds
      <3>2. QED
        BY <1>14, <3>1, BeginPlain
    <2>2. CASE script_tx # NoTx
      <3>1. Failed(state, script_tx, behind) /\ UNCHANGED <<autocommit, disk, replaced>>
        BY <1>17, <2>2 DEF ScriptEnds
      <3>2. QED
        BY <3>1, RejectedStep
    <2>3. QED
      BY <2>1, <2>2
  <1>18. CASE Exit
    <2>1. Begin("off", EmptyGraph, Off) /\ disk' = disk
      BY <1>18 DEF Exit
    <2>2. QED
      BY <1>14, <2>1, EmptySound, BeginPlain
  <1>19. CASE UNCHANGED vars
    BY <1>19 DEF vars, sessionVars, SessionInv, SessionType, MemoryType, TargetType, FollowsInv, BoundInv
  <1>20. QED
    BY <1>1, <1>2, <1>3, <1>4, <1>5, <1>6, <1>7, <1>8, <1>9, <1>10, <1>11, <1>12, <1>13,
       <1>15, <1>16, <1>17, <1>18, <1>19 DEF Next

LEMMA SessionInvariant == Spec => []SessionInv
  <1>1. Init => SessionInv /\ OffInv
    BY SessionInit
  <1>2. OffInv /\ [Next]_vars => OffInv'
    BY OffStep
  <1>3. SessionInv /\ OffInv /\ [Next]_vars => SessionInv'
    BY SessionStep
  <1>4. QED
    BY <1>1, <1>2, <1>3, PTL DEF Spec

\* The autocommit target of a session (persist_autocommit_entry,
\* checkpoint_autocommit) gives back the graph in memory outside transactions,
\* whatever commands, failures, rollbacks and restarts came before.
THEOREM TargetFollows == Spec => []TargetFollowsState
  <1>1. SessionInv => TargetFollowsState
    BY DEF SessionInv, FollowsInv, Follows, TargetFollowsState, Synced, Gives, Target
  <1>2. QED
    BY <1>1, SessionInvariant, PTL

\* A name that let has bound never comes to mean another node, also when
\* rollback_script_tx_after_error restores an earlier graph.
THEOREM BindingsIssued == Spec => []BindingsAreIssued
  <1>1. SessionInv => BindingsAreIssued
    BY DEF SessionInv, BoundInv, Bound, Issued, BindingsAreIssued
  <1>2. QED
    BY <1>1, SessionInvariant, PTL

-----------------------------------------------------------------------------
(***************************************************************************)
(* Transactions of the in-memory backend.                                  *)
(***************************************************************************)
\* A fresh TxDelta.
LEMMA EmptyDeltaType == EmptyDelta \in TxDelta
  BY DEF EmptyDelta, TxDelta, NodeTable, RelTable

\* GraphStore::default is a well-formed store.
LEMMA EmptyStoreType == EmptyGraph \in GraphState
  BY BoundAssumption DEF EmptyGraph, GraphState, NodeIds, RelIds

\* The parts of a well-formed store and delta.
LEMMA Parts ==
  ASSUME TypeOK, NEW t \in Txs
  PROVE  /\ store \in GraphState
         /\ store.nodes \in NodeTable /\ store.rels \in RelTable
         /\ delta[t] \in TxDelta
         /\ delta[t].nodes \in NodeTable /\ delta[t].deleted_nodes \in SUBSET NodeIds
         /\ delta[t].rels \in RelTable /\ delta[t].deleted_rels \in SUBSET RelIds
  BY DEF TypeOK, GraphState, TxDelta, NodeTable, RelTable

\* What a transaction sees at an id is a node or nothing.
LEMMA VisibleType ==
  ASSUME TypeOK, NEW t \in Txs
  PROVE  /\ \A k \in NodeIds : VisibleNode(t, k) \in StoredNode \cup {Absent}
         /\ \A r \in RelIds : OverlayRel(t, r) \in StoredRel \cup {Absent}
  BY Parts DEF VisibleNode, OverlayRel, NodeTable, RelTable

\* Commit, table by table.
LEMMA ApplyDeltaTables ==
  ASSUME TypeOK, NEW t \in Txs
  PROVE  LET g == store
             d == delta[t]
             h == ApplyDelta(g, d)
         IN  /\ h \in GraphState
             /\ \A k \in NodeIds :
                  h.nodes[k] = IF d.nodes[k] # Absent THEN d.nodes[k]
                               ELSE IF k \in d.deleted_nodes THEN Absent ELSE g.nodes[k]
             /\ \A r \in RelIds :
                  h.rels[r] = IF d.rels[r] # Absent THEN d.rels[r]
                              ELSE IF \/ r \in d.deleted_rels
                                      \/ \E k \in d.deleted_nodes :
                                           g.nodes[k] # Absent /\ Incident(g.rels[r], k)
                                     THEN Absent ELSE g.rels[r]
  <1> DEFINE g == store
             d == delta[t]
             h == ApplyDelta(g, d)
             N == [k \in NodeIds |-> IF d.nodes[k] # Absent THEN d.nodes[k]
                               ELSE IF k \in d.deleted_nodes THEN Absent ELSE g.nodes[k]]
             R == [r \in RelIds |-> IF d.rels[r] # Absent THEN d.rels[r]
                              ELSE IF \/ r \in d.deleted_rels
                                      \/ \E k \in d.deleted_nodes :
                                           g.nodes[k] # Absent /\ Incident(g.rels[r], k)
                                     THEN Absent ELSE g.rels[r]]
  <1>1. N \in NodeTable
    BY Parts DEF NodeTable
  <1>2. R \in RelTable
    BY Parts DEF RelTable
  <1>3. h = [g EXCEPT !.nodes = N, !.rels = R]
    BY Parts DEF ApplyDelta, GraphState
  <1>4. h \in GraphState /\ h.nodes = N /\ h.rels = R
    <2> HIDE DEF N, R, h
    <2>1. QED
      BY <1>1, <1>2, <1>3, Parts DEF GraphState, NodeTable, RelTable
  <1>5. QED
    BY <1>4

\* A commit publishes the view of its transaction.
LEMMA CommitView ==
  ASSUME TypeOK, DeltasDisjoint, NEW t \in Txs, Commit(t)
  PROVE  /\ \A k \in NodeIds : store'.nodes[k] = VisibleNode(t, k)
         /\ \A r \in RelIds : Live(store').rels[r] = ReachableRel(t, r)
  <1> DEFINE g == store
             d == delta[t]
             h == store'
  <1>1. h \in GraphState
    BY ApplyDeltaTables DEF Commit
  <1>2. \A k \in NodeIds :
          h.nodes[k] = IF d.nodes[k] # Absent THEN d.nodes[k]
                       ELSE IF k \in d.deleted_nodes THEN Absent ELSE g.nodes[k]
    BY ApplyDeltaTables DEF Commit
  <1>3. \A r \in RelIds :
          h.rels[r] = IF d.rels[r] # Absent THEN d.rels[r]
                      ELSE IF \/ r \in d.deleted_rels
                              \/ \E k \in d.deleted_nodes :
                                   g.nodes[k] # Absent /\ Incident(g.rels[r], k)
                             THEN Absent ELSE g.rels[r]
    BY ApplyDeltaTables DEF Commit
  <1>4. \A k \in NodeIds : h.nodes[k] = VisibleNode(t, k)
    BY <1>2 DEF VisibleNode, DeltasDisjoint
  <1>5. ASSUME NEW r \in RelIds
        PROVE  Live(h).rels[r] = ReachableRel(t, r)
    <2>1. Live(h).rels[r] = IF Anchored(h, r) THEN h.rels[r] ELSE Absent
      BY <1>1 DEF Live, GraphState
    <2>2. OverlayRel(t, r) \in StoredRel \cup {Absent}
      BY VisibleType
    <2>3. CASE OverlayRel(t, r) = Absent
      <3>1. h.rels[r] = Absent
        BY <1>3, <2>3 DEF OverlayRel, DeltasDisjoint
      <3>2. QED
        BY <2>1, <2>3, <3>1 DEF ReachableRel, VisibleRel
    <2>4. CASE OverlayRel(t, r) # Absent
      <3> DEFINE rel == OverlayRel(t, r)
      <3>1. rel \in StoredRel /\ rel.from \in NodeIds /\ rel.to \in NodeIds /\ rel # Absent
        BY <2>2, <2>4 DEF StoredRel
      <3>2. h.rels[r] = rel \/ (h.rels[r] = Absent /\ \E k \in d.deleted_nodes : Incident(rel, k))
        BY <1>3, <2>4 DEF OverlayRel, DeltasDisjoint
      <3> HIDE DEF rel
      <3>3. CASE {rel.from, rel.to} \cap d.deleted_nodes # {}
        <4>1. PICK k \in {rel.from, rel.to} : k \in d.deleted_nodes
          BY <3>3
        <4>2. VisibleNode(t, k) = Absent /\ k \in NodeIds
          BY <3>1, <4>1 DEF VisibleNode
        <4>3. ReachableRel(t, r) = Absent
          BY <3>3 DEF ReachableRel, VisibleRel, rel
        <4>4. h.rels[r] = rel => ~Anchored(h, r)
          BY <1>4, <3>1, <4>1, <4>2 DEF Anchored, HasRel, HasNode
        <4>5. QED
          BY <2>1, <3>2, <4>3, <4>4
      <3>4. CASE {rel.from, rel.to} \cap d.deleted_nodes = {}
        <4>1. h.rels[r] = rel
          BY <3>2, <3>4 DEF Incident
        <4>2. VisibleRel(t, r) = rel
          BY <3>4 DEF VisibleRel, rel
        <4>3. ReachableRel(t, r) = IF /\ VisibleNode(t, rel.from) # Absent
                                      /\ VisibleNode(t, rel.to) # Absent
                                     THEN rel ELSE Absent
          BY <3>1, <4>2 DEF ReachableRel
        <4>4. Anchored(h, r) <=> /\ VisibleNode(t, rel.from) # Absent
                                 /\ VisibleNode(t, rel.to) # Absent
          BY <1>4, <3>1, <4>1 DEF Anchored, HasRel, HasNode
        <4>5. QED
          BY <2>1, <4>1, <4>3, <4>4
      <3>5. QED
        BY <3>3, <3>4
    <2>5. QED
      BY <2>3, <2>4
  <1>6. QED
    BY <1>4, <1>5

-----------------------------------------------------------------------------
(***************************************************************************)
(* The steps.                                                              *)
(***************************************************************************)
\* A delta is well formed and keeps its written and its deleted ids apart.
GoodDelta(d) ==
  /\ d \in TxDelta
  /\ \A k \in d.deleted_nodes : d.nodes[k] = Absent
  /\ \A r \in d.deleted_rels : d.rels[r] = Absent

GoodDeltas == delta \in [Txs -> TxDelta] /\ \A t \in Txs : GoodDelta(delta[t])

\* Replacing one delta by a good one.
LEMMA PutDelta ==
  ASSUME GoodDeltas, NEW t \in Txs, NEW d, GoodDelta(d), delta' = [delta EXCEPT ![t] = d]
  PROVE  GoodDeltas'
  BY DEF GoodDeltas, GoodDelta

\* Writing node k of a delta.
LEMMA WriteNodeDelta ==
  ASSUME NEW d, GoodDelta(d), NEW k \in NodeIds, NEW node \in StoredNode
  PROVE  GoodDelta([d EXCEPT !.nodes = [d.nodes EXCEPT ![k] = node],
                             !.deleted_nodes = d.deleted_nodes \ {k}])
  <1> DEFINE N == [d.nodes EXCEPT ![k] = node]
             D == d.deleted_nodes \ {k}
  <1>1. N \in NodeTable /\ D \in SUBSET NodeIds /\ \A n \in D : N[n] = Absent
    BY DEF GoodDelta, TxDelta, NodeTable
  <1> HIDE DEF N, D
  <1>2. GoodDelta([d EXCEPT !.nodes = N, !.deleted_nodes = D])
    BY <1>1 DEF GoodDelta, TxDelta
  <1>3. QED
    BY <1>2 DEF N, D

\* Writing relationship r of a delta.
LEMMA WriteRelDelta ==
  ASSUME NEW d, GoodDelta(d), NEW r \in RelIds, NEW rel \in StoredRel
  PROVE  GoodDelta([d EXCEPT !.rels = [d.rels EXCEPT ![r] = rel],
                             !.deleted_rels = d.deleted_rels \ {r}])
  <1> DEFINE N == [d.rels EXCEPT ![r] = rel]
             D == d.deleted_rels \ {r}
  <1>1. N \in RelTable /\ D \in SUBSET RelIds /\ \A n \in D : N[n] = Absent
    BY DEF GoodDelta, TxDelta, RelTable
  <1> HIDE DEF N, D
  <1>2. GoodDelta([d EXCEPT !.rels = N, !.deleted_rels = D])
    BY <1>1 DEF GoodDelta, TxDelta
  <1>3. QED
    BY <1>2 DEF N, D

\* The node part of delete_node on a delta.
LEMMA DropNodeGood ==
  ASSUME NEW d, GoodDelta(d), NEW k \in NodeIds
  PROVE  GoodDelta(DropNode(d, k))
  <1>1. CASE d.nodes[k] # Absent
    <2> DEFINE N == [d.nodes EXCEPT ![k] = Absent]
    <2>1. N \in NodeTable /\ \A n \in d.deleted_nodes : N[n] = Absent
      BY DEF GoodDelta, TxDelta, NodeTable
    <2>2. DropNode(d, k) = [d EXCEPT !.nodes = N]
      BY <1>1 DEF DropNode
    <2> HIDE DEF N
    <2>3. QED
      BY <2>1, <2>2 DEF GoodDelta, TxDelta
  <1>2. CASE d.nodes[k] = Absent
    BY <1>2 DEF DropNode, GoodDelta, TxDelta
  <1>3. QED
    BY <1>1, <1>2

\* The relationship part of delete_node, and delete_relationship.
LEMMA DropRelsGood ==
  ASSUME NEW d, GoodDelta(d), NEW ids \in SUBSET RelIds
  PROVE  GoodDelta(DropRels(d, ids))
  <1> DEFINE N == [r \in RelIds |-> IF r \in ids THEN Absent ELSE d.rels[r]]
             D == d.deleted_rels \cup {r \in ids : d.rels[r] = Absent}
  <1>1. N \in RelTable /\ D \in SUBSET RelIds /\ \A n \in D : N[n] = Absent
    BY DEF GoodDelta, TxDelta, RelTable
  <1>2. DropRels(d, ids) = [d EXCEPT !.rels = N, !.deleted_rels = D]
    BY DEF DropRels
  <1> HIDE DEF N, D
  <1>3. QED
    BY <1>1, <1>2 DEF GoodDelta, TxDelta

\* The history of writes keeps its type.
LEMMA WroteType ==
  ASSUME TypeOK, NEW t \in Txs, NEW k \in NodeIds, NEW w \in WriteType
  PROVE  [wrote EXCEPT ![t][k] = w] \in [Txs -> [NodeIds -> WriteType]]
  BY DEF TypeOK

\* Every step keeps the types, and the deltas good.
LEMMA TxStep ==
  ASSUME TypeOK, GoodDeltas, [TxNext]_txVars
  PROVE  TypeOK' /\ GoodDeltas'
  <1>a. Nothing \in WriteType /\ Deleted \in WriteType /\ \A n \in StoredNode : Wrote(n) \in WriteType
    BY DEF WriteType, Wrote
  <1>b. NoDelete \in Deletion \cup {NoDelete}
    OBVIOUS
  <1>c. GoodDeltas' => delta' \in [Txs -> TxDelta]
    BY DEF GoodDeltas
  <1>1. ASSUME NEW t \in Txs, BeginTx(t) PROVE TypeOK' /\ GoodDeltas'
    BY <1>1 DEF BeginTx, TypeOK, GoodDeltas
  <1>2. ASSUME NEW t \in Txs, CreateNode(t) PROVE TypeOK' /\ GoodDeltas'
    <2> DEFINE id == store.next_node_id
    <2>1. PICK node \in StoredNode :
            /\ delta' = [delta EXCEPT ![t] = AddNode(@, id, node)]
            /\ wrote' = [wrote EXCEPT ![t][id] = Wrote(node)]
      BY <1>2 DEF CreateNode
    <2>2. id \in NodeIds /\ store' = [store EXCEPT !.next_node_id = id + 1]
      BY <1>2 DEF CreateNode
    <2>3. store' \in GraphState
      <3>1. id + 1 \in 1..MaxNodeId + 1
        BY <2>2, BoundAssumption DEF NodeIds
      <3>2. store \in GraphState
        BY DEF TypeOK
      <3> HIDE DEF id
      <3>3. QED
        BY <2>2, <3>1, <3>2 DEF GraphState
    <2>4. GoodDelta(delta[t]) /\ delta[t] \in TxDelta
      BY DEF GoodDeltas
    <2>5. AddNode(delta[t], id, node)
            = [delta[t] EXCEPT !.nodes = [delta[t].nodes EXCEPT ![id] = node],
                               !.deleted_nodes = delta[t].deleted_nodes \ {id}]
      BY <2>4 DEF AddNode, TxDelta
    <2>6. GoodDeltas'
      BY <2>1, <2>2, <2>4, <2>5, WriteNodeDelta, PutDelta DEF TypeOK
    <2>7. wrote' \in [Txs -> [NodeIds -> WriteType]]
      BY <1>a, <2>1, <2>2, WroteType
    <2>8. UNCHANGED <<active, deleting>>
      BY <1>2 DEF CreateNode
    <2>9. QED
      BY <1>c, <2>3, <2>6, <2>7, <2>8 DEF TypeOK
  <1>3. ASSUME NEW t \in Txs, UpdateNode(t) PROVE TypeOK' /\ GoodDeltas'
    <2>1. PICK k \in NodeIds, v \in Values :
            /\ VisibleNode(t, k) # Absent
            /\ LET node == [VisibleNode(t, k) EXCEPT !.props = v]
               IN  /\ delta' = [delta EXCEPT ![t] = PutNode(@, k, node)]
                   /\ wrote' = [wrote EXCEPT ![t][k] = Wrote(node)]
      BY <1>3 DEF UpdateNode
    <2> DEFINE node == [VisibleNode(t, k) EXCEPT !.props = v]
    <2>2. node \in StoredNode
      BY <2>1, VisibleType DEF StoredNode
    <2>3. delta' = [delta EXCEPT ![t] = PutNode(@, k, node)] /\ wrote' = [wrote EXCEPT ![t][k] = Wrote(node)]
      BY <2>1
    <2>4. k \notin delta[t].deleted_nodes
      BY <2>1 DEF VisibleNode
    <2> HIDE DEF node
    <2>5. GoodDelta(delta[t]) /\ delta[t] \in TxDelta
      BY DEF GoodDeltas
    <2>6. delta[t].deleted_nodes \ {k} = delta[t].deleted_nodes
      BY <2>4
    <2>7. PutNode(delta[t], k, node)
            = [delta[t] EXCEPT !.nodes = [delta[t].nodes EXCEPT ![k] = node],
                               !.deleted_nodes = delta[t].deleted_nodes \ {k}]
      BY <2>5, <2>6 DEF PutNode, TxDelta
    <2>8. GoodDeltas'
      BY <2>2, <2>3, <2>5, <2>7, WriteNodeDelta, PutDelta DEF TypeOK
    <2>9. wrote' \in [Txs -> [NodeIds -> WriteType]]
      BY <1>a, <2>2, <2>3, WroteType
    <2>10. UNCHANGED <<store, active, deleting>>
      BY <1>3 DEF UpdateNode
    <2>11. QED
      BY <1>c, <2>8, <2>9, <2>10 DEF TypeOK
  <1>4. ASSUME NEW t \in Txs, ReadIncident(t) PROVE TypeOK' /\ GoodDeltas'
    <2>1. PICK k \in NodeIds :
            deleting' = [deleting EXCEPT ![t] =
              [id |-> k, found |-> VisibleNode(t, k) # Absent,
               rel_ids |-> {r \in RelIds : Incident(store.rels[r], k)}]]
      BY <1>4 DEF ReadIncident
    <2>2. (VisibleNode(t, k) # Absent) \in BOOLEAN
      BY Zenon
    <2>3. [id |-> k, found |-> VisibleNode(t, k) # Absent,
           rel_ids |-> {r \in RelIds : Incident(store.rels[r], k)}] \in Deletion
      BY <2>2 DEF Deletion
    <2>4. deleting' \in [Txs -> Deletion \cup {NoDelete}]
      BY <2>1, <2>3 DEF TypeOK
    <2>5. QED
      BY <1>4, <2>4 DEF ReadIncident, TypeOK, GoodDeltas
  <1>5. ASSUME NEW t \in Txs, DeleteNode(t) PROVE TypeOK' /\ GoodDeltas'
    <2> DEFINE k == deleting[t].id
               d == delta[t]
               seen == {r \in deleting[t].rel_ids : VisibleRel(t, r) # Absent}
               own == {r \in RelIds : Incident(d.rels[r], k)}
               ids == IF deleting[t].found THEN seen \cup own ELSE {}
    <2>1. deleting[t] \in Deletion
      BY <1>5 DEF DeleteNode, TypeOK
    <2>2. k \in NodeIds /\ ids \in SUBSET RelIds
      BY <2>1 DEF Deletion
    <2>3. /\ delta' = [delta EXCEPT ![t] = DropRels(DropNode(d, k), ids)]
          /\ deleting' = [deleting EXCEPT ![t] = NoDelete]
          /\ wrote' = [wrote EXCEPT ![t][k] = Deleted]
          /\ UNCHANGED <<store, active>>
      BY <1>5 DEF DeleteNode
    <2>4. GoodDelta(d)
      BY DEF GoodDeltas
    <2> HIDE DEF k, d, ids
    <2>5. GoodDelta(DropNode(d, k))
      BY <2>2, <2>4, DropNodeGood
    <2>6. GoodDelta(DropRels(DropNode(d, k), ids))
      BY <2>2, <2>5, DropRelsGood
    <2>7. GoodDeltas'
      BY <2>3, <2>6, PutDelta
    <2>8. wrote' \in [Txs -> [NodeIds -> WriteType]]
      BY <1>a, <2>2, <2>3, WroteType
    <2>9. deleting' \in [Txs -> Deletion \cup {NoDelete}]
      BY <1>b, <2>3 DEF TypeOK
    <2>10. QED
      BY <1>c, <2>3, <2>7, <2>8, <2>9 DEF TypeOK
  <1>6. ASSUME NEW t \in Txs, CreateRelationship(t) PROVE TypeOK' /\ GoodDeltas'
    <2> DEFINE id == store.next_rel_id
    <2>1. PICK rel \in StoredRel :
            delta' = [delta EXCEPT ![t] = AddRel(@, id, rel)]
      BY <1>6 DEF CreateRelationship
    <2>2. id \in RelIds /\ store' = [store EXCEPT !.next_rel_id = id + 1]
      BY <1>6 DEF CreateRelationship
    <2>3. store' \in GraphState
      <3>1. id + 1 \in 1..MaxRelId + 1
        BY <2>2, BoundAssumption DEF RelIds
      <3>2. store \in GraphState
        BY DEF TypeOK
      <3> HIDE DEF id
      <3>3. QED
        BY <2>2, <3>1, <3>2 DEF GraphState
    <2>4. GoodDelta(delta[t]) /\ delta[t] \in TxDelta
      BY DEF GoodDeltas
    <2>5. AddRel(delta[t], id, rel)
            = [delta[t] EXCEPT !.rels = [delta[t].rels EXCEPT ![id] = rel],
                               !.deleted_rels = delta[t].deleted_rels \ {id}]
      BY <2>4 DEF AddRel, TxDelta
    <2>6. GoodDeltas'
      BY <2>1, <2>2, <2>4, <2>5, WriteRelDelta, PutDelta DEF TypeOK
    <2>7. UNCHANGED <<active, deleting, wrote>>
      BY <1>6 DEF CreateRelationship
    <2>8. QED
      BY <1>c, <2>3, <2>6, <2>7 DEF TypeOK
  <1>7. ASSUME NEW t \in Txs, UpdateRelationship(t) PROVE TypeOK' /\ GoodDeltas'
    <2>1. PICK r \in RelIds, v \in Values :
            /\ OverlayRel(t, r) # Absent
            /\ delta' = [delta EXCEPT ![t] = PutRel(@, r, [OverlayRel(t, r) EXCEPT !.props = v])]
      BY <1>7 DEF UpdateRelationship
    <2> DEFINE rel == [OverlayRel(t, r) EXCEPT !.props = v]
    <2>2. rel \in StoredRel
      BY <2>1, VisibleType DEF StoredRel
    <2>3. delta' = [delta EXCEPT ![t] = PutRel(@, r, rel)]
      BY <2>1
    <2>4. r \notin delta[t].deleted_rels
      BY <2>1 DEF OverlayRel
    <2> HIDE DEF rel
    <2>5. GoodDelta(delta[t]) /\ delta[t] \in TxDelta
      BY DEF GoodDeltas
    <2>6. delta[t].deleted_rels \ {r} = delta[t].deleted_rels
      BY <2>4
    <2>7. PutRel(delta[t], r, rel)
            = [delta[t] EXCEPT !.rels = [delta[t].rels EXCEPT ![r] = rel],
                               !.deleted_rels = delta[t].deleted_rels \ {r}]
      BY <2>5, <2>6 DEF PutRel, TxDelta
    <2>8. GoodDeltas'
      BY <2>2, <2>3, <2>5, <2>7, WriteRelDelta, PutDelta DEF TypeOK
    <2>9. UNCHANGED <<store, active, deleting, wrote>>
      BY <1>7 DEF UpdateRelationship
    <2>10. QED
      BY <1>c, <2>8, <2>9 DEF TypeOK
  <1>8. ASSUME NEW t \in Txs, DeleteRelationship(t) PROVE TypeOK' /\ GoodDeltas'
    <2>1. PICK r \in RelIds : delta' = [delta EXCEPT ![t] = DropRels(@, {r})]
      BY <1>8 DEF DeleteRelationship
    <2>2. GoodDelta(DropRels(delta[t], {r}))
      BY DropRelsGood DEF GoodDeltas
    <2>3. GoodDeltas'
      BY <2>1, <2>2, PutDelta DEF TypeOK
    <2>4. UNCHANGED <<store, active, deleting, wrote>>
      BY <1>8 DEF DeleteRelationship
    <2>5. QED
      BY <1>c, <2>3, <2>4 DEF TypeOK
  <1>9. ASSUME NEW t \in Txs, Commit(t) \/ Rollback(t) PROVE TypeOK' /\ GoodDeltas'
    <2>1. End(t)
      BY <1>9 DEF Commit, Rollback
    <2>2. store' \in GraphState
      BY <1>9, ApplyDeltaTables DEF Commit, Rollback, TypeOK
    <2>3. GoodDelta(EmptyDelta)
      BY EmptyDeltaType DEF GoodDelta, EmptyDelta
    <2>4. GoodDeltas'
      BY <2>1, <2>3, PutDelta DEF End
    <2>5. wrote' \in [Txs -> [NodeIds -> WriteType]]
      BY <1>a, <2>1 DEF End, TypeOK
    <2>6. deleting' \in [Txs -> Deletion \cup {NoDelete}] /\ active' \subseteq Txs
      BY <1>b, <2>1 DEF End, TypeOK
    <2>7. QED
      BY <1>c, <2>2, <2>4, <2>5, <2>6 DEF TypeOK
  <1>10. CASE UNCHANGED txVars
    BY <1>10 DEF txVars, TypeOK, GoodDeltas
  <1>11. QED
    BY <1>1, <1>2, <1>3, <1>4, <1>5, <1>6, <1>7, <1>8, <1>9, <1>10 DEF TxNext

\* Before the first transaction.
LEMMA TxStarts == TxInit => TypeOK /\ GoodDeltas
  <1>1. GoodDelta(EmptyDelta)
    BY EmptyDeltaType DEF GoodDelta, EmptyDelta
  <1>2. Nothing \in WriteType
    BY DEF WriteType
  <1>3. QED
    BY <1>1, <1>2, EmptyDeltaType, EmptyStoreType DEF TxInit, TypeOK, GoodDeltas

\* Deltas are well formed, and an id is never both written and deleted in one.
LEMMA TxTypeCorrect == TxSpec => [](TypeOK /\ GoodDeltas)
  <1>1. TypeOK /\ GoodDeltas /\ [TxNext]_txVars => (TypeOK /\ GoodDeltas)'
    BY TxStep
  <1>2. QED
    BY <1>1, TxStarts, PTL DEF TxSpec

\* Commits of concurrent transactions publish exactly what each of them saw:
\* apply_delta_to loses none of its writes and undoes nothing that others had
\* committed and it did not touch.
THEOREM CommitsPublishViews == TxSpec => CommitPublishesView
  <1> DEFINE Inv == TypeOK /\ GoodDeltas
  <1>1. TxInit => Inv
    BY TxStarts
  <1>2. Inv /\ [TxNext]_txVars => Inv'
    BY TxStep
  <1>3. Inv => [\A t \in Txs : Commit(t) =>
                  /\ \A k \in NodeIds : store'.nodes[k] = VisibleNode(t, k)
                  /\ \A r \in RelIds : Live(store').rels[r] = ReachableRel(t, r)]_txVars
    <2>1. SUFFICES ASSUME Inv, NEW t \in Txs, Commit(t)
                   PROVE  /\ \A k \in NodeIds : store'.nodes[k] = VisibleNode(t, k)
                          /\ \A r \in RelIds : Live(store').rels[r] = ReachableRel(t, r)
      OBVIOUS
    <2>2. DeltasDisjoint
      BY <2>1 DEF DeltasDisjoint, GoodDeltas, GoodDelta
    <2>3. QED
      BY <2>1, <2>2, CommitView
  <1>4. QED
    BY <1>1, <1>2, <1>3, PTL DEF TxSpec, CommitPublishesView

-----------------------------------------------------------------------------
(***************************************************************************)
(* Own writes and fresh ids.                                               *)
(***************************************************************************)
\* The tables after delete_node and after its relationship part alone.
LEMMA DropTables ==
  ASSUME NEW d \in TxDelta, NEW k \in NodeIds, NEW ids \in SUBSET RelIds
  PROVE  /\ \A n \in NodeIds : DropRels(DropNode(d, k), ids).nodes[n] =
                                 IF n = k THEN Absent ELSE d.nodes[n]
         /\ \A r \in RelIds : DropRels(DropNode(d, k), ids).rels[r] =
                                 IF r \in ids THEN Absent ELSE d.rels[r]
         /\ DropRels(d, ids).nodes = d.nodes
         /\ \A r \in RelIds : DropRels(d, ids).rels[r] = IF r \in ids THEN Absent ELSE d.rels[r]
  <1> DEFINE e == DropNode(d, k)
  <1>1. /\ e.rels = d.rels /\ e \in TxDelta
        /\ \A n \in NodeIds : e.nodes[n] = IF n = k THEN Absent ELSE d.nodes[n]
    <2>1. CASE d.nodes[k] # Absent
      BY <2>1 DEF DropNode, TxDelta, NodeTable
    <2>2. CASE d.nodes[k] = Absent
      BY <2>2 DEF DropNode, TxDelta, NodeTable
    <2>3. QED
      BY <2>1, <2>2
  <1>2. ASSUME NEW f \in TxDelta
        PROVE  /\ DropRels(f, ids).nodes = f.nodes
               /\ \A r \in RelIds : DropRels(f, ids).rels[r] = IF r \in ids THEN Absent ELSE f.rels[r]
    BY DEF DropRels, TxDelta
  <1> HIDE DEF e
  <1>3. QED
    BY <1>1, <1>2 DEF e

\* What OwnWritesVisible rests on: a node that a transaction wrote is in its own
\* delta as it was written, so that no commit of another one can come between.
WritesInDelta ==
  \A t \in Txs, k \in NodeIds :
    wrote[t][k].kind = "wrote" => delta[t].nodes[k] = wrote[t][k].node

\* It is enough to look at the transaction that takes the step.
LEMMA WritesOfOne ==
  ASSUME WritesInDelta, NEW t \in Txs,
         \A u \in Txs \ {t} : delta'[u] = delta[u] /\ wrote'[u] = wrote[u],
         \A k \in NodeIds : wrote'[t][k].kind = "wrote" => delta'[t].nodes[k] = wrote'[t][k].node
  PROVE  WritesInDelta'
  BY DEF WritesInDelta

\* Every step keeps the writes of every transaction in its delta.
LEMMA WritesStep ==
  ASSUME TypeOK, GoodDeltas, WritesInDelta, [TxNext]_txVars
  PROVE  WritesInDelta'
  <1>0. \A t \in Txs : delta[t] \in TxDelta
    BY DEF GoodDeltas
  <1>1. ASSUME NEW t \in Txs, BeginTx(t) \/ ReadIncident(t) PROVE WritesInDelta'
    BY <1>1 DEF BeginTx, ReadIncident, WritesInDelta
  <1>2. ASSUME NEW t \in Txs, CreateNode(t) PROVE WritesInDelta'
    <2> DEFINE id == store.next_node_id
    <2>1. PICK node \in StoredNode :
            /\ delta' = [delta EXCEPT ![t] = AddNode(@, id, node)]
            /\ wrote' = [wrote EXCEPT ![t][id] = Wrote(node)]
      BY <1>2 DEF CreateNode
    <2>2. id \in NodeIds
      BY <1>2 DEF CreateNode
    <2> HIDE DEF id
    <2>3. \A n \in NodeIds : AddNode(delta[t], id, node).nodes[n] =
                               IF n = id THEN node ELSE delta[t].nodes[n]
      BY <1>0, <2>2 DEF AddNode, TxDelta, NodeTable
    <2>4. /\ \A u \in Txs : delta'[u] = IF u = t THEN AddNode(delta[t], id, node) ELSE delta[u]
          /\ \A u \in Txs \ {t} : wrote'[u] = wrote[u]
          /\ \A n \in NodeIds : wrote'[t][n] = IF n = id THEN Wrote(node) ELSE wrote[t][n]
      BY <2>1, <2>2 DEF TypeOK
    <2>5. QED
      BY <2>3, <2>4, WritesOfOne DEF Wrote, WritesInDelta
  <1>3. ASSUME NEW t \in Txs, UpdateNode(t) PROVE WritesInDelta'
    <2>1. PICK k \in NodeIds, v \in Values :
            LET node == [VisibleNode(t, k) EXCEPT !.props = v]
            IN  /\ delta' = [delta EXCEPT ![t] = PutNode(@, k, node)]
                /\ wrote' = [wrote EXCEPT ![t][k] = Wrote(node)]
      BY <1>3 DEF UpdateNode
    <2> DEFINE node == [VisibleNode(t, k) EXCEPT !.props = v]
    <2>2. /\ delta' = [delta EXCEPT ![t] = PutNode(delta[t], k, node)]
          /\ wrote' = [wrote EXCEPT ![t][k] = Wrote(node)]
      BY <2>1
    <2> HIDE DEF node
    <2>3. \A n \in NodeIds : PutNode(delta[t], k, node).nodes[n] =
                               IF n = k THEN node ELSE delta[t].nodes[n]
      BY <1>0 DEF PutNode, TxDelta, NodeTable
    <2>4. /\ \A u \in Txs : delta'[u] = IF u = t THEN PutNode(delta[t], k, node) ELSE delta[u]
          /\ \A u \in Txs \ {t} : wrote'[u] = wrote[u]
          /\ \A n \in NodeIds : wrote'[t][n] = IF n = k THEN Wrote(node) ELSE wrote[t][n]
      BY <2>2 DEF TypeOK
    <2>5. QED
      BY <2>3, <2>4, WritesOfOne DEF Wrote, WritesInDelta
  <1>4. ASSUME NEW t \in Txs, DeleteNode(t) PROVE WritesInDelta'
    <2> DEFINE k == deleting[t].id
               d == delta[t]
               seen == {r \in deleting[t].rel_ids : VisibleRel(t, r) # Absent}
               own == {r \in RelIds : Incident(d.rels[r], k)}
               ids == IF deleting[t].found THEN seen \cup own ELSE {}
    <2>1. deleting[t] \in Deletion
      BY <1>4 DEF DeleteNode, TypeOK
    <2>2. k \in NodeIds /\ ids \in SUBSET RelIds /\ d \in TxDelta
      BY <1>0, <2>1 DEF Deletion
    <2>3. /\ delta' = [delta EXCEPT ![t] = DropRels(DropNode(d, k), ids)]
          /\ wrote' = [wrote EXCEPT ![t][k] = Deleted]
      BY <1>4 DEF DeleteNode
    <2> HIDE DEF k, ids, d
    <2>4. \A n \in NodeIds : DropRels(DropNode(d, k), ids).nodes[n] = IF n = k THEN Absent ELSE d.nodes[n]
      BY <2>2, DropTables
    <2>5. /\ \A u \in Txs : delta'[u] = IF u = t THEN DropRels(DropNode(d, k), ids) ELSE delta[u]
          /\ \A u \in Txs \ {t} : wrote'[u] = wrote[u]
          /\ \A n \in NodeIds : wrote'[t][n] = IF n = k THEN Deleted ELSE wrote[t][n]
      BY <2>2, <2>3 DEF TypeOK
    <2>6. QED
      BY <2>4, <2>5, WritesOfOne DEF Deleted, WritesInDelta, d
  <1>5. ASSUME NEW t \in Txs, CreateRelationship(t) \/ UpdateRelationship(t) \/ DeleteRelationship(t)
        PROVE  WritesInDelta'
    <2>1. wrote' = wrote
      BY <1>5 DEF CreateRelationship, UpdateRelationship, DeleteRelationship
    <2>2. \A u \in Txs : delta'[u].nodes = delta[u].nodes
      <3>1. CASE CreateRelationship(t)
        BY <1>0, <3>1 DEF CreateRelationship, AddRel, TxDelta, TypeOK
      <3>2. CASE UpdateRelationship(t)
        BY <1>0, <3>2 DEF UpdateRelationship, PutRel, TxDelta, TypeOK
      <3>3. CASE DeleteRelationship(t)
        BY <1>0, <3>3 DEF DeleteRelationship, DropRels, TxDelta, TypeOK
      <3>4. QED
        BY <1>5, <3>1, <3>2, <3>3
    <2>3. QED
      BY <2>1, <2>2 DEF WritesInDelta
  <1>6. ASSUME NEW t \in Txs, Commit(t) \/ Rollback(t) PROVE WritesInDelta'
    <2>1. /\ delta' = [delta EXCEPT ![t] = EmptyDelta]
          /\ wrote' = [wrote EXCEPT ![t] = [k \in NodeIds |-> Nothing]]
      BY <1>6 DEF Commit, Rollback, End
    <2>2. /\ \A u \in Txs \ {t} : delta'[u] = delta[u] /\ wrote'[u] = wrote[u]
          /\ \A k \in NodeIds : wrote'[t][k].kind = "nothing"
      BY <2>1 DEF Nothing, TypeOK
    <2>3. QED
      BY <2>2, WritesOfOne
  <1>7. CASE UNCHANGED txVars
    BY <1>7 DEF txVars, WritesInDelta
  <1>8. QED
    BY <1>1, <1>2, <1>3, <1>4, <1>5, <1>6, <1>7 DEF TxNext

\* A transaction reads back what it wrote, for any number of transactions: the
\* commits of others never show through visible_node at a node it has written.
THEOREM WritesStayVisible == TxSpec => []OwnWritesVisible
  <1>1. TxInit => WritesInDelta
    BY DEF TxInit, WritesInDelta, Nothing
  <1>2. TypeOK /\ GoodDeltas /\ WritesInDelta /\ [TxNext]_txVars => WritesInDelta'
    BY WritesStep
  <1>3. TypeOK /\ GoodDeltas /\ WritesInDelta => OwnWritesVisible
    <2>1. SUFFICES ASSUME TypeOK, GoodDeltas, WritesInDelta, NEW t \in active, NEW k \in NodeIds,
                          wrote[t][k].kind = "wrote"
                   PROVE  VisibleNode(t, k) = wrote[t][k].node
      BY DEF OwnWritesVisible
    <2>2. t \in Txs /\ wrote[t][k] \in WriteType
      BY <2>1 DEF TypeOK
    <2>3. wrote[t][k].node \in StoredNode
      BY <2>1, <2>2 DEF WriteType, Nothing, Deleted
    <2>4. delta[t].nodes[k] = wrote[t][k].node /\ delta[t].nodes[k] # Absent
      BY <2>1, <2>2, <2>3, AbsentAssumption DEF WritesInDelta
    <2>5. k \notin delta[t].deleted_nodes
      BY <2>1, <2>2, <2>4 DEF GoodDeltas, GoodDelta
    <2>6. QED
      BY <2>4, <2>5 DEF VisibleNode
  <1>4. QED
    BY <1>1, <1>2, <1>3, TxTypeCorrect, PTL DEF TxSpec

\* An id that a transaction can address has been given out.
LEMMA VisibleIsIssued ==
  ASSUME TypeOK, IdsAreFresh, NEW t \in Txs
  PROVE  /\ \A k \in NodeIds : VisibleNode(t, k) # Absent => k < store.next_node_id
         /\ \A r \in RelIds : OverlayRel(t, r) # Absent => r < store.next_rel_id
  <1>1. store.next_node_id \in Nat /\ store.next_rel_id \in Nat
    BY BoundAssumption DEF TypeOK, GraphState
  <1>2. QED
    BY <1>1 DEF IdsAreFresh, VisibleNode, OverlayRel, NodeIds, RelIds

\* It is enough to look at the store and at the transaction that takes the step.
LEMMA FreshOfOne ==
  ASSUME TypeOK, TypeOK', IdsAreFresh, NEW t \in Txs,
         store.next_node_id <= store'.next_node_id, store.next_rel_id <= store'.next_rel_id,
         \A u \in Txs \ {t} : delta'[u] = delta[u],
         \A k \in NodeIds : k >= store'.next_node_id =>
           /\ store'.nodes[k] \in {Absent, store.nodes[k], delta[t].nodes[k]}
           /\ delta'[t].nodes[k] \in {Absent, delta[t].nodes[k]},
         \A r \in RelIds : r >= store'.next_rel_id =>
           /\ store'.rels[r] \in {Absent, store.rels[r], delta[t].rels[r]}
           /\ delta'[t].rels[r] \in {Absent, delta[t].rels[r]}
  PROVE  IdsAreFresh'
  <1>1. /\ store.next_node_id \in Nat /\ store.next_rel_id \in Nat
        /\ store'.next_node_id \in Nat /\ store'.next_rel_id \in Nat
    BY BoundAssumption DEF TypeOK, GraphState
  <1>2. ASSUME NEW k \in NodeIds, k >= store'.next_node_id
        PROVE  store'.nodes[k] = Absent /\ \A u \in Txs : delta'[u].nodes[k] = Absent
    <2>1. store.nodes[k] = Absent /\ \A u \in Txs : delta[u].nodes[k] = Absent
      BY <1>1, <1>2 DEF IdsAreFresh, NodeIds
    <2>2. QED
      BY <1>2, <2>1
  <1>3. ASSUME NEW r \in RelIds, r >= store'.next_rel_id
        PROVE  store'.rels[r] = Absent /\ \A u \in Txs : delta'[u].rels[r] = Absent
    <2>1. store.rels[r] = Absent /\ \A u \in Txs : delta[u].rels[r] = Absent
      BY <1>1, <1>3 DEF IdsAreFresh, RelIds
    <2>2. QED
      BY <1>3, <2>1
  <1>4. QED
    BY <1>2, <1>3 DEF IdsAreFresh

\* Every step leaves the ids at and past the counters unused.
LEMMA FreshStep ==
  ASSUME TypeOK, TypeOK', GoodDeltas, IdsAreFresh, [TxNext]_txVars
  PROVE  IdsAreFresh'
  <1>0. /\ \A t \in Txs : delta[t] \in TxDelta
        /\ store.next_node_id \in Nat /\ store.next_rel_id \in Nat /\ store \in GraphState
        /\ NodeIds \subseteq Nat /\ RelIds \subseteq Nat
    BY BoundAssumption DEF GoodDeltas, TypeOK, GraphState, NodeIds, RelIds
  <1>1. ASSUME NEW t \in Txs, BeginTx(t) \/ ReadIncident(t) PROVE IdsAreFresh'
    BY <1>1 DEF BeginTx, ReadIncident, IdsAreFresh
  <1>2. ASSUME NEW t \in Txs, CreateNode(t) PROVE IdsAreFresh'
    <2> DEFINE id == store.next_node_id
    <2>1. PICK node \in StoredNode : delta' = [delta EXCEPT ![t] = AddNode(@, id, node)]
      BY <1>2 DEF CreateNode
    <2>2. id \in NodeIds /\ store' = [store EXCEPT !.next_node_id = id + 1]
      BY <1>2 DEF CreateNode
    <2>3. /\ store'.next_node_id = id + 1 /\ store'.next_rel_id = store.next_rel_id
          /\ store'.nodes = store.nodes /\ store'.rels = store.rels
      BY <1>0, <2>2 DEF GraphState
    <2>4. /\ \A n \in NodeIds : AddNode(delta[t], id, node).nodes[n] =
                                  IF n = id THEN node ELSE delta[t].nodes[n]
          /\ AddNode(delta[t], id, node).rels = delta[t].rels
      BY <1>0, <2>2 DEF AddNode, TxDelta, NodeTable
    <2>5. \A u \in Txs : delta'[u] = IF u = t THEN AddNode(delta[t], id, node) ELSE delta[u]
      BY <2>1 DEF TypeOK
    <2> HIDE DEF id
    <2>6. \A n \in NodeIds : n >= id + 1 => n # id
      BY <1>0, <2>2
    <2>7. QED
      BY <1>0, <2>3, <2>4, <2>5, <2>6, FreshOfOne DEF id
  <1>3. ASSUME NEW t \in Txs, UpdateNode(t) PROVE IdsAreFresh'
    <2>1. PICK k \in NodeIds, v \in Values :
            /\ VisibleNode(t, k) # Absent
            /\ delta' = [delta EXCEPT ![t] = PutNode(@, k, [VisibleNode(t, k) EXCEPT !.props = v])]
      BY <1>3 DEF UpdateNode
    <2> DEFINE node == [VisibleNode(t, k) EXCEPT !.props = v]
    <2>2. delta' = [delta EXCEPT ![t] = PutNode(delta[t], k, node)] /\ store' = store
      BY <1>3, <2>1 DEF UpdateNode
    <2>3. k < store.next_node_id
      BY <2>1, VisibleIsIssued
    <2> HIDE DEF node
    <2>4. /\ \A n \in NodeIds : PutNode(delta[t], k, node).nodes[n] =
                                  IF n = k THEN node ELSE delta[t].nodes[n]
          /\ PutNode(delta[t], k, node).rels = delta[t].rels
      BY <1>0 DEF PutNode, TxDelta, NodeTable
    <2>5. \A u \in Txs : delta'[u] = IF u = t THEN PutNode(delta[t], k, node) ELSE delta[u]
      BY <2>2 DEF TypeOK
    <2>6. \A n \in NodeIds : n >= store'.next_node_id => n # k
      BY <1>0, <2>2, <2>3
    <2>7. QED
      BY <1>0, <2>2, <2>4, <2>5, <2>6, FreshOfOne
  <1>4. ASSUME NEW t \in Txs, DeleteNode(t) PROVE IdsAreFresh'
    <2> DEFINE k == deleting[t].id
               d == delta[t]
               seen == {r \in deleting[t].rel_ids : VisibleRel(t, r) # Absent}
               own == {r \in RelIds : Incident(d.rels[r], k)}
               ids == IF deleting[t].found THEN seen \cup own ELSE {}
    <2>1. deleting[t] \in Deletion
      BY <1>4 DEF DeleteNode, TypeOK
    <2>2. k \in NodeIds /\ ids \in SUBSET RelIds /\ d \in TxDelta
      BY <1>0, <2>1 DEF Deletion
    <2>3. delta' = [delta EXCEPT ![t] = DropRels(DropNode(d, k), ids)] /\ store' = store
      BY <1>4 DEF DeleteNode
    <2> HIDE DEF k, ids, d
    <2>4. /\ \A n \in NodeIds : DropRels(DropNode(d, k), ids).nodes[n] =
                                  IF n = k THEN Absent ELSE d.nodes[n]
          /\ \A r \in RelIds : DropRels(DropNode(d, k), ids).rels[r] =
                                  IF r \in ids THEN Absent ELSE d.rels[r]
      BY <2>2, DropTables
    <2>5. \A u \in Txs : delta'[u] = IF u = t THEN DropRels(DropNode(d, k), ids) ELSE delta[u]
      BY <2>3 DEF TypeOK
    <2>6. QED
      BY <1>0, <2>3, <2>4, <2>5, FreshOfOne DEF d
  <1>5. ASSUME NEW t \in Txs, CreateRelationship(t) PROVE IdsAreFresh'
    <2> DEFINE id == store.next_rel_id
    <2>1. PICK rel \in StoredRel : delta' = [delta EXCEPT ![t] = AddRel(@, id, rel)]
      BY <1>5 DEF CreateRelationship
    <2>2. id \in RelIds /\ store' = [store EXCEPT !.next_rel_id = id + 1]
      BY <1>5 DEF CreateRelationship
    <2>3. /\ store'.next_rel_id = id + 1 /\ store'.next_node_id = store.next_node_id
          /\ store'.nodes = store.nodes /\ store'.rels = store.rels
      BY <1>0, <2>2 DEF GraphState
    <2>4. /\ \A n \in RelIds : AddRel(delta[t], id, rel).rels[n] =
                                  IF n = id THEN rel ELSE delta[t].rels[n]
          /\ AddRel(delta[t], id, rel).nodes = delta[t].nodes
      BY <1>0, <2>2 DEF AddRel, TxDelta, RelTable
    <2>5. \A u \in Txs : delta'[u] = IF u = t THEN AddRel(delta[t], id, rel) ELSE delta[u]
      BY <2>1 DEF TypeOK
    <2> HIDE DEF id
    <2>6. \A n \in RelIds : n >= id + 1 => n # id
      BY <1>0, <2>2
    <2>7. QED
      BY <1>0, <2>3, <2>4, <2>5, <2>6, FreshOfOne DEF id
  <1>6. ASSUME NEW t \in Txs, UpdateRelationship(t) PROVE IdsAreFresh'
    <2>1. PICK r \in RelIds, v \in Values :
            /\ OverlayRel(t, r) # Absent
            /\ delta' = [delta EXCEPT ![t] = PutRel(@, r, [OverlayRel(t, r) EXCEPT !.props = v])]
      BY <1>6 DEF UpdateRelationship
    <2> DEFINE rel == [OverlayRel(t, r) EXCEPT !.props = v]
    <2>2. delta' = [delta EXCEPT ![t] = PutRel(delta[t], r, rel)] /\ store' = store
      BY <1>6, <2>1 DEF UpdateRelationship
    <2>3. r < store.next_rel_id
      BY <2>1, VisibleIsIssued
    <2> HIDE DEF rel
    <2>4. /\ \A n \in RelIds : PutRel(delta[t], r, rel).rels[n] =
                                  IF n = r THEN rel ELSE delta[t].rels[n]
          /\ PutRel(delta[t], r, rel).nodes = delta[t].nodes
      BY <1>0 DEF PutRel, TxDelta, RelTable
    <2>5. \A u \in Txs : delta'[u] = IF u = t THEN PutRel(delta[t], r, rel) ELSE delta[u]
      BY <2>2 DEF TypeOK
    <2>6. \A n \in RelIds : n >= store'.next_rel_id => n # r
      BY <1>0, <2>2, <2>3
    <2>7. QED
      BY <1>0, <2>2, <2>4, <2>5, <2>6, FreshOfOne
  <1>7. ASSUME NEW t \in Txs, DeleteRelationship(t) PROVE IdsAreFresh'
    <2>1. PICK r \in RelIds : delta' = [delta EXCEPT ![t] = DropRels(delta[t], {r})]
      BY <1>7 DEF DeleteRelationship
    <2>2. store' = store
      BY <1>7 DEF DeleteRelationship
    <2>3. /\ DropRels(delta[t], {r}).nodes = delta[t].nodes
          /\ \A n \in RelIds : DropRels(delta[t], {r}).rels[n] = IF n \in {r} THEN Absent ELSE delta[t].rels[n]
      BY <1>0 DEF DropRels, TxDelta
    <2>4. \A u \in Txs : delta'[u] = IF u = t THEN DropRels(delta[t], {r}) ELSE delta[u]
      BY <2>1 DEF TypeOK
    <2>5. /\ delta'[t].nodes = delta[t].nodes
          /\ \A n \in RelIds : delta'[t].rels[n] \in {Absent, delta[t].rels[n]}
      BY <2>3, <2>4
    <2>6. QED
      BY <1>0, <2>2, <2>4, <2>5, FreshOfOne
  <1>8. ASSUME NEW t \in Txs, Commit(t) \/ Rollback(t) PROVE IdsAreFresh'
    <2>1. delta' = [delta EXCEPT ![t] = EmptyDelta] /\ store' \in {store, ApplyDelta(store, delta[t])}
      BY <1>8 DEF Commit, Rollback, End
    <2>2. \A u \in Txs : delta'[u] = IF u = t THEN EmptyDelta ELSE delta[u]
      BY <2>1 DEF TypeOK
    <2>3. /\ \A k \in NodeIds : EmptyDelta.nodes[k] = Absent
          /\ \A r \in RelIds : EmptyDelta.rels[r] = Absent
      BY DEF EmptyDelta
    <2>4. /\ \A k \in NodeIds : store'.nodes[k] \in {Absent, store.nodes[k], delta[t].nodes[k]}
          /\ \A r \in RelIds : store'.rels[r] \in {Absent, store.rels[r], delta[t].rels[r]}
      BY <2>1, ApplyDeltaTables
    <2>5. store'.next_node_id = store.next_node_id /\ store'.next_rel_id = store.next_rel_id
      BY <1>0, <2>1 DEF ApplyDelta, GraphState
    <2>6. store.next_node_id <= store'.next_node_id /\ store.next_rel_id <= store'.next_rel_id
      BY <1>0, <2>5, BoundAssumption DEF TypeOK, GraphState
    <2>7. \A u \in Txs \ {t} : delta'[u] = delta[u]
      BY <2>2
    <2>8. delta'[t] = EmptyDelta
      BY <2>2
    <2>9. /\ \A k \in NodeIds : delta'[t].nodes[k] \in {Absent, delta[t].nodes[k]}
          /\ \A r \in RelIds : delta'[t].rels[r] \in {Absent, delta[t].rels[r]}
      BY <2>3, <2>8
    <2>10. QED
      BY <1>0, <2>4, <2>6, <2>7, <2>9, FreshOfOne
  <1>9. CASE UNCHANGED txVars
    BY <1>9 DEF txVars, IdsAreFresh
  <1>10. QED
    BY <1>1, <1>2, <1>3, <1>4, <1>5, <1>6, <1>7, <1>8, <1>9 DEF TxNext

\* Concurrent transactions never share an id: the counters of the shared store
\* stay past every id in it and in every delta, also of transactions that took
\* ids and have not committed.
THEOREM IdsStayFresh == TxSpec => []IdsAreFresh
  <1>1. TxInit => IdsAreFresh
    BY DEF TxInit, IdsAreFresh, EmptyGraph, EmptyDelta
  <1>2. TypeOK /\ TypeOK' /\ GoodDeltas /\ IdsAreFresh /\ [TxNext]_txVars => IdsAreFresh'
    BY FreshStep
  <1>3. QED
    BY <1>1, <1>2, TxTypeCorrect, PTL DEF TxSpec
=============================================================================
