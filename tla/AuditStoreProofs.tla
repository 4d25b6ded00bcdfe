-------------------------- MODULE AuditStoreProofs --------------------------
(***************************************************************************)
(* No audit id is given out twice, accepted records stay in the log, and   *)
(* the files agree on which ids are reserved: for any number of handlers,  *)
(* any reservation range and any bounds and faults.                        *)
(***************************************************************************)
EXTENDS AuditStore, SequenceTheorems, TLAPS

\* The part of TypeOK that the argument about ids uses.
IdTypes ==
  /\ up \in BOOLEAN
  /\ metadata \in Metadata
  /\ meta_file \in Metadata
  /\ next \in Counters
  /\ client \in [Clients -> Handler]
  /\ issued \in [Kinds -> SUBSET Nat]

IdInv == IdTypes /\ ReservationInv

USE AuditAssumption

\* Reserving a range gives well-formed metadata that reserves more.
LEMMA ReserveGrows ==
  ASSUME IdTypes, NEW kind \in Kinds
  PROVE  /\ Reserve(kind) \in Metadata
         /\ \A k \in Kinds : Reserve(kind).reserved[k] =
              IF k = kind THEN metadata.reserved[k] + ReservationRange
                          ELSE metadata.reserved[k]
<1> DEFINE ids == [metadata.reserved EXCEPT ![kind] = @ + ReservationRange]
<1>1. Reserve(kind) = [reserved |-> ids, accepted |-> metadata.accepted]
  BY DEF IdTypes, Reserve, Metadata
<1>2. metadata.reserved \in Counters /\ metadata.accepted \in Counters
  BY DEF IdTypes, Metadata
<1>3. ids \in Counters
  BY <1>2 DEF Counters
<1>4. \A k \in Kinds : ids[k] = IF k = kind THEN metadata.reserved[k] + ReservationRange
                                             ELSE metadata.reserved[k]
  BY <1>2 DEF Counters
<1> HIDE DEF ids
<1> QED
  BY <1>1, <1>2, <1>3, <1>4 DEF Metadata

\* allocate_request_id and allocate_event_identity keep the invariant, and the
\* id they give out was not given out before.
LEMMA IssueStep ==
  ASSUME IdInv, up, NEW c \in Clients, NEW kind \in Kinds, NEW phase \in Phases,
         Issue(c, kind, phase)
  PROVE  IdInv' /\ next[kind] \notin issued[kind]
<1> USE DEF IdInv
<1>1. next[kind] \notin issued[kind]
  BY DEF ReservationInv, IdTypes, Counters
<1>2. \A k \in Kinds : /\ metadata.reserved[k] <= metadata'.reserved[k]
                       /\ metadata'.reserved[k] <= meta_file'.reserved[k]
                       /\ next'[k] <= metadata'.reserved[k] + 1
  <2>1. CASE Exhausted(kind)
    <3>1. metadata' = Reserve(kind) /\ meta_file' = Reserve(kind)
      BY <2>1 DEF Issue
    <3>2. \A k \in Kinds : Reserve(kind).reserved[k] =
            IF k = kind THEN metadata.reserved[k] + ReservationRange
                        ELSE metadata.reserved[k]
      BY ReserveGrows
    <3>3. \A k \in Kinds : /\ metadata.reserved[k] \in Nat
                           /\ meta_file.reserved[k] \in Nat
                           /\ next[k] \in Nat
      BY DEF IdTypes, Metadata, Counters
    <3>4. \A k \in Kinds : next'[k] = IF k = kind THEN next[k] + 1 ELSE next[k]
      BY DEF Issue, IdTypes, Counters
    <3>5. next[kind] = metadata.reserved[kind] + 1
      BY <2>1, <3>3 DEF Exhausted, ReservationInv
    <3>6. \A k \in Kinds : next[k] <= metadata.reserved[k] + 1
      BY DEF ReservationInv
    <3> QED
      BY <3>1, <3>2, <3>3, <3>4, <3>5, <3>6
  <2>2. CASE ~Exhausted(kind)
    BY <2>2 DEF Issue, Exhausted, ReservationInv, IdTypes, Metadata, Counters
  <2> QED
    BY <2>1, <2>2
<1>3. IdTypes'
  <2>1. metadata' \in Metadata /\ meta_file' \in Metadata
    BY ReserveGrows DEF IdTypes, Issue
  <2>2. Holding(c, kind, phase) \in Handler
    BY DEF Holding, IdTypes, Handler, Counters
  <2> QED
    BY <2>1, <2>2 DEF IdTypes, Issue, Counters
<1>4. ReservationInv'
  <2>1. \A k \in Kinds : \A id \in issued'[k] : id < next'[k]
    BY DEF Issue, ReservationInv, IdTypes, Counters
  <2>2. HeldIdsReserved'
    <3>1. ASSUME NEW d \in Clients, NEW k \in Kinds
          PROVE  client'[d].id[k] <= metadata'.reserved[k]
      <4>1. client'[d] = IF d = c THEN Holding(c, kind, phase) ELSE client[d]
        BY DEF Issue, IdTypes
      <4>2. Holding(c, kind, phase).id[k] = IF k = kind THEN next[k] ELSE client[c].id[k]
        BY DEF Holding, IdTypes, Handler, Counters
      <4>3. next'[kind] = next[kind] + 1
        BY DEF Issue, IdTypes, Counters
      <4>4. client[d].id[k] <= metadata.reserved[k] /\ client[c].id[k] <= metadata.reserved[k]
        BY DEF ReservationInv, HeldIdsReserved
      <4>5. /\ client[d].id[k] \in Nat /\ client[c].id[k] \in Nat /\ next[kind] \in Nat
            /\ metadata.reserved[k] \in Nat /\ metadata'.reserved[k] \in Nat
        BY <1>3 DEF IdTypes, Metadata, Handler, Counters
      <4>6. client'[d].id[k] <= metadata.reserved[k] \/ (k = kind /\ client'[d].id[k] = next[kind])
        BY <4>1, <4>2, <4>4
      <4>7. metadata.reserved[k] <= metadata'.reserved[k] /\ next'[k] <= metadata'.reserved[k] + 1
        BY <1>2
      <4>8. client'[d].id[k] \in Nat
        BY <1>3 DEF IdTypes, Handler, Counters
      <4> QED
        BY <4>3, <4>5, <4>6, <4>7, <4>8
    <3> QED
      BY <3>1 DEF HeldIdsReserved
  <2>3. \A k \in Kinds : \A id \in issued'[k] : id <= meta_file'.reserved[k]
    BY <1>2, <1>3, <2>1 DEF IdTypes, Metadata, Counters
  <2>4. up' /\ meta_state' = "whole"
    BY DEF Issue, ReservationInv
  <2> QED
    BY <1>2, <2>1, <2>2, <2>3, <2>4 DEF ReservationInv
<1> QED
  BY <1>1, <1>3, <1>4

\* A step of an open store that gives out no id, lets what is reserved in memory
\* only grow and keeps the file ahead of it.
LEMMA QuietStep ==
  ASSUME IdInv, IdTypes', up, up', UNCHANGED <<meta_state, issued>>,
         \A k \in Kinds : /\ metadata.reserved[k] <= metadata'.reserved[k]
                          /\ metadata'.reserved[k] <= meta_file'.reserved[k]
                          /\ next[k] <= next'[k]
                          /\ next'[k] <= metadata'.reserved[k] + 1,
         \A c \in Clients : \A k \in Kinds : client'[c].id[k] \in {client[c].id[k], 0}
  PROVE  IdInv'
<1> USE DEF IdInv
<1>1. HeldIdsReserved'
  <2>1. ASSUME NEW c \in Clients, NEW k \in Kinds
        PROVE  client'[c].id[k] <= metadata'.reserved[k]
    <3>1. /\ client[c].id[k] \in Nat
          /\ metadata.reserved[k] \in Nat /\ metadata'.reserved[k] \in Nat
      BY DEF IdTypes, Metadata, Handler, Counters
    <3>2. client[c].id[k] <= metadata.reserved[k]
      BY DEF ReservationInv, HeldIdsReserved
    <3> QED
      BY <3>1, <3>2
  <2> QED
    BY <2>1 DEF HeldIdsReserved
<1>2. \A k \in Kinds : \A id \in issued'[k] : id < next'[k]
  BY DEF ReservationInv, IdTypes, Counters
<1>3. \A k \in Kinds : \A id \in issued'[k] : id <= meta_file'.reserved[k]
  BY <1>2 DEF IdTypes, Metadata, Counters
<1> QED
  BY <1>1, <1>2, <1>3 DEF ReservationInv

\* The usual case: the next ids and what is reserved in memory stay, and what is
\* reserved in the file is what it was, or is what is reserved in memory.
LEMMA StillStep ==
  ASSUME IdInv, up, UNCHANGED <<up, meta_state, next, issued>>,
         metadata' \in Metadata, metadata'.reserved = metadata.reserved,
         meta_file' \in Metadata,
         meta_file'.reserved \in {meta_file.reserved, metadata.reserved},
         client' \in [Clients -> Handler],
         \A c \in Clients : client'[c].id \in {client[c].id, Zero}
  PROVE  IdInv'
<1>1. IdTypes'
  BY DEF IdInv, IdTypes
<1>2. \A k \in Kinds : /\ metadata.reserved[k] <= metadata'.reserved[k]
                       /\ metadata'.reserved[k] <= meta_file'.reserved[k]
                       /\ next[k] <= next'[k]
                       /\ next'[k] <= metadata'.reserved[k] + 1
  BY DEF IdInv, IdTypes, ReservationInv, Metadata, Counters
<1>3. \A c \in Clients : \A k \in Kinds : client'[c].id[k] \in {client[c].id[k], 0}
  BY DEF Zero
<1> QED
  BY <1>1, <1>2, <1>3, QuietStep

\* What a handler holds after it moves on or becomes idle.
LEMMA ClientMoves ==
  ASSUME IdTypes, NEW c \in Clients,
         \/ \E phase \in Phases, stage \in Stages : Move(c, phase, stage)
         \/ client' = [client EXCEPT ![c] = Idle]
  PROVE  /\ client' \in [Clients -> Handler]
         /\ \A d \in Clients : client'[d].id \in {client[d].id, Zero}
<1>1. client \in [Clients -> Handler]
  BY DEF IdTypes
<1>2. ASSUME NEW h \in Handler, client' = [client EXCEPT ![c] = h],
             h.id \in {client[c].id, Zero}
      PROVE  /\ client' \in [Clients -> Handler]
             /\ \A d \in Clients : client'[d].id \in {client[d].id, Zero}
  BY <1>1, <1>2
<1>3. CASE client' = [client EXCEPT ![c] = Idle]
  <2>1. Idle \in Handler /\ Idle.id = Zero
    BY DEF Idle, Handler, Zero, Phases, Stages, Counters
  <2> QED
    BY <1>2, <1>3, <2>1
<1>4. ASSUME NEW phase \in Phases, NEW stage \in Stages, Move(c, phase, stage)
      PROVE  /\ client' \in [Clients -> Handler]
             /\ \A d \in Clients : client'[d].id \in {client[d].id, Zero}
  <2> DEFINE h == [phase |-> phase, id |-> client[c].id, stage |-> stage]
  <2>1. h \in Handler /\ h.id = client[c].id
    BY <1>1 DEF Handler
  <2>2. client' = [client EXCEPT ![c] = h]
    BY <1>4 DEF Move
  <2> HIDE DEF h
  <2> QED
    BY <1>2, <2>1, <2>2
<1> QED
  BY <1>3, <1>4

\* Metadata with other accepted ids reserves the same.
LEMMA AcceptedUpdate ==
  ASSUME NEW m \in Metadata, NEW a \in Counters
  PROVE  /\ [m EXCEPT !.accepted = a] \in Metadata
         /\ [m EXCEPT !.accepted = a].reserved = m.reserved
BY DEF Metadata

\* The steps of opening and of dying.
LEMMA LifecycleStep ==
  ASSUME IdInv, Initialize \/ InitializeFails \/ Reopen \/ Crash \/ CrashInWrite
  PROVE  IdInv'
<1> USE DEF IdInv
<1>0. ZeroMetadata \in Metadata /\ ZeroMetadata.reserved = Zero /\ Zero \in Counters
      /\ \A k \in Kinds : Zero[k] = 0
  BY DEF ZeroMetadata, Zero, Metadata, Counters
<1>1. CASE Initialize
  <2>1. next' \in Counters /\ \A k \in Kinds : next'[k] = 1
    BY <1>0, <1>1 DEF Initialize, AboveReserved, Counters
  <2>2. \A k \in Kinds : issued'[k] = {}
    BY <1>1 DEF Initialize, ReservationInv
  <2>3. metadata' = ZeroMetadata /\ meta_file' = ZeroMetadata /\ up' /\ meta_state' = "whole"
    BY <1>1 DEF Initialize
  <2>4. HeldIdsReserved'
    <3>1. ~up /\ metadata' = ZeroMetadata /\ client' = client
      BY <1>1 DEF Initialize
    <3>2. \A k \in Kinds : metadata.reserved[k] = 0
      BY <3>1 DEF ReservationInv
    <3> QED
      BY <1>0, <3>1, <3>2 DEF ReservationInv, HeldIdsReserved, IdTypes, Metadata, Counters
  <2>5. IdTypes'
    BY <1>0, <1>1, <2>1, <2>3 DEF Initialize, IdTypes
  <2>6. \A k \in Kinds : metadata'.reserved[k] = 0 /\ meta_file'.reserved[k] = 0
    BY <1>0, <2>3
  <2> QED
    BY <2>1, <2>2, <2>3, <2>4, <2>5, <2>6 DEF ReservationInv
<1>2. CASE InitializeFails
  BY <1>2 DEF InitializeFails, memVars, ReservationInv, IdTypes, HeldIdsReserved
<1>3. CASE Reopen
  <2>1. next' \in Counters /\ \A k \in Kinds : next'[k] = meta_file.reserved[k] + 1
    BY <1>3 DEF Reopen, AboveReserved, IdTypes, Metadata, Counters
  <2>2. /\ metadata' = meta_file /\ meta_file' = meta_file
        /\ issued' = issued /\ client' = client
        /\ up' = TRUE /\ meta_state' = "whole"
    BY <1>3 DEF Reopen
  <2>3. IdTypes'
    BY <2>1, <2>2 DEF IdTypes
  <2>4. HeldIdsReserved'
    BY <2>2 DEF ReservationInv, HeldIdsReserved, IdTypes, Metadata, Handler, Counters
  <2>5. \A k \in Kinds : \A id \in issued'[k] : id < next'[k] /\ id <= meta_file'.reserved[k]
    BY <2>1, <2>2 DEF ReservationInv, IdTypes, Metadata, Counters
  <2>6. \A k \in Kinds : /\ next'[k] <= metadata'.reserved[k] + 1
                         /\ metadata'.reserved[k] <= meta_file'.reserved[k]
    BY <2>1, <2>2 DEF IdTypes, Metadata, Counters
  <2> QED
    BY <2>2, <2>3, <2>4, <2>5, <2>6 DEF ReservationInv
<1>4. CASE Crash \/ CrashInWrite
  <2>1. /\ up' = FALSE /\ metadata' = ZeroMetadata /\ next' = Zero
        /\ client' = [c \in Clients |-> Idle]
        /\ meta_file' = meta_file /\ issued' = issued /\ meta_state' = meta_state /\ up
    BY <1>4 DEF Crash, CrashInWrite, Forget
  <2>2. Idle \in Handler /\ Idle.id = Zero
    BY <1>0 DEF Idle, Handler, Phases, Stages
  <2>3. IdTypes'
    BY <1>0, <2>1, <2>2 DEF IdTypes
  <2>4. HeldIdsReserved'
    BY <1>0, <2>1, <2>2 DEF HeldIdsReserved
  <2>5. \A k \in Kinds : metadata'.reserved[k] = 0 /\ metadata'.reserved[k] <= meta_file'.reserved[k]
    BY <1>0, <2>1, <2>3 DEF IdTypes, Metadata, Counters
  <2> QED
    BY <2>1, <2>3, <2>4, <2>5 DEF ReservationInv
<1> QED
  BY <1>1, <1>2, <1>3, <1>4

\* Every step of a handler.
LEMMA HandlerStep ==
  ASSUME IdInv, NEW c \in Clients,
         \/ StartRequest(c) \/ Admit(c) \/ Probe(c) \/ ProbeFails(c) \/ Clear(c)
         \/ Name(c) \/ Degrade(c) \/ \E kind \in Kinds : ReserveFails(c, kind)
         \/ WriteRecord(c) \/ Compact(c) \/ Accept(c)
         \/ WriteFails(c) \/ WriteTears(c) \/ CompactFails(c) \/ AcceptFails(c)
         \/ Effect(c) \/ Done(c)
  PROVE  IdInv'
<1>0. /\ IdTypes /\ metadata \in Metadata /\ meta_file \in Metadata
      /\ {"admitted", "new", "named", "compact", "meta", "probing", "recovered", "lost"} \subseteq Phases
      /\ {"before", "after", "emergency"} \subseteq Stages
      /\ client[c].stage \in Stages
  BY DEF IdInv, IdTypes, Handler, Phases, Stages
<1>1. CASE StartRequest(c)
  BY <1>0, <1>1, IssueStep DEF StartRequest, At, In, Kinds
<1>2. CASE Name(c)
  BY <1>0, <1>2, IssueStep DEF Name, At, In, Kinds
<1>3. CASE Admit(c) \/ Effect(c) \/ Done(c) \/ Compact(c) \/ Clear(c) \/ Degrade(c)
  <2>1. /\ up /\ UNCHANGED <<up, meta_state, next, issued, metadata, meta_file>>
        /\ \/ \E phase \in Phases, stage \in Stages : Move(c, phase, stage)
           \/ client' = [client EXCEPT ![c] = Idle]
    BY <1>0, <1>3 DEF Admit, Effect, Done, Compact, Clear, Degrade, In, memVars
  <2> QED
    BY <1>0, <2>1, ClientMoves, StillStep
<1>4. CASE Probe(c)
  <2>1. PICK top \in Tops(meta_file, log) : metadata' = [meta_file EXCEPT !.accepted = top]
    BY <1>4 DEF Probe
  <2>2. top \in Counters
    BY <1>0 DEF Tops, Highest, Counters, Metadata
  <2>3. /\ metadata' \in Metadata /\ metadata'.reserved = meta_file.reserved
        /\ meta_file' \in Metadata /\ meta_file'.reserved = meta_file.reserved
    BY <1>0, <1>4, <2>1, <2>2, AcceptedUpdate DEF Probe
  <2>4. /\ up /\ UNCHANGED <<up, meta_state, issued>>
        /\ Move(c, "recovered", "before")
    BY <1>4 DEF Probe, At, In
  <2>5. /\ client' \in [Clients -> Handler]
        /\ \A d \in Clients : client'[d].id \in {client[d].id, Zero}
    BY <1>0, <2>4, ClientMoves
  <2>6. \A k \in Kinds : next'[k] = meta_file.reserved[k] + 1 /\ next[k] <= next'[k]
    <3>1. \A k \in Kinds : next[k] <= meta_file.reserved[k] + 1
      BY <1>0, <2>4 DEF IdInv, ReservationInv, IdTypes, Metadata, Counters
    <3> QED
      BY <1>0, <1>4, <3>1 DEF Probe, Highest, IdTypes, Metadata, Counters
  <2>7. next' \in Counters
    BY <1>0, <1>4 DEF Probe, Highest, IdTypes, Metadata, Counters
  <2>8. IdTypes'
    BY <1>0, <2>3, <2>4, <2>5, <2>7 DEF IdTypes
  <2>9. \A k \in Kinds : /\ metadata.reserved[k] <= metadata'.reserved[k]
                         /\ metadata'.reserved[k] <= meta_file'.reserved[k]
                         /\ next'[k] <= metadata'.reserved[k] + 1
    BY <1>0, <2>3, <2>6 DEF IdInv, ReservationInv, Metadata, Counters
  <2>10. \A d \in Clients : \A k \in Kinds : client'[d].id[k] \in {client[d].id[k], 0}
    BY <2>5 DEF Zero
  <2> QED
    BY <2>4, <2>6, <2>8, <2>9, <2>10, QuietStep
<1>5. CASE ProbeFails(c)
  <2>1. meta_file' \in Metadata /\ meta_file'.reserved = meta_file.reserved
    <3>1. CASE UNCHANGED meta_file
      BY <1>0, <3>1
    <3>2. CASE \E top \in Tops(meta_file, log) : meta_file' = [meta_file EXCEPT !.accepted = top]
      <4>1. PICK top \in Tops(meta_file, log) : meta_file' = [meta_file EXCEPT !.accepted = top]
        BY <3>2
      <4>2. top \in Counters
        BY <1>0 DEF Tops, Highest, Counters, Metadata
      <4> QED
        BY <1>0, <4>1, <4>2, AcceptedUpdate
    <3> QED
      BY <1>5, <3>1, <3>2 DEF ProbeFails
  <2>2. /\ up /\ UNCHANGED <<up, meta_state, next, issued, metadata>>
        /\ client' = [client EXCEPT ![c] = Idle]
    BY <1>5 DEF ProbeFails, At, In
  <2> QED
    BY <1>0, <2>1, <2>2, ClientMoves, StillStep
<1>6. CASE WriteRecord(c)
  <2> DEFINE top == [k \in Kinds |-> Highest(metadata.accepted[k], client[c].id[k])]
  <2>1. /\ up /\ UNCHANGED <<up, meta_state, next, issued, meta_file>>
        /\ metadata' = [metadata EXCEPT !.accepted = top]
        /\ \E phase \in Phases, stage \in Stages : Move(c, phase, stage)
    BY <1>0, <1>6 DEF WriteRecord, At, In
  <2>2. top \in Counters
    BY <1>0 DEF IdTypes, Highest, Metadata, Handler, Counters
  <2>3. metadata' \in Metadata /\ metadata'.reserved = metadata.reserved
    BY <1>0, <2>1, <2>2, AcceptedUpdate
  <2> QED
    BY <1>0, <2>1, <2>3, ClientMoves, StillStep
<1>7. CASE Accept(c)
  <2>1. /\ up /\ UNCHANGED <<up, meta_state, next, issued, metadata>>
        /\ meta_file' = metadata
        /\ \E phase \in Phases, stage \in Stages : Move(c, phase, stage)
    BY <1>0, <1>7 DEF Accept, In
  <2> QED
    BY <1>0, <2>1, ClientMoves, StillStep
<1>8. CASE WriteFails(c) \/ WriteTears(c) \/ CompactFails(c) \/ AcceptFails(c)
  <2>1. /\ up /\ UNCHANGED <<up, meta_state, next, issued, metadata>>
        /\ meta_file' \in {meta_file, metadata}
        /\ LoseRecord(c)
    BY <1>8 DEF WriteFails, WriteTears, CompactFails, AcceptFails, AppendError, At, In
  <2>2. \/ \E phase \in Phases, stage \in Stages : Move(c, phase, stage)
        \/ client' = [client EXCEPT ![c] = Idle]
    BY <1>0, <2>1 DEF LoseRecord, Stages
  <2> QED
    BY <1>0, <2>1, <2>2, ClientMoves, StillStep
<1>9. CASE \E kind \in Kinds : ReserveFails(c, kind)
  <2>1. PICK kind \in Kinds : ReserveFails(c, kind)
    BY <1>9
  <2>2. /\ up /\ UNCHANGED <<up, meta_state, next, issued, metadata>>
        /\ meta_file' \in {meta_file, Reserve(kind)}
        /\ LoseRecord(c)
    BY <2>1 DEF ReserveFails, At, In
  <2>3. \/ \E phase \in Phases, stage \in Stages : Move(c, phase, stage)
        \/ client' = [client EXCEPT ![c] = Idle]
    BY <1>0, <2>2 DEF LoseRecord, Stages
  <2>4. /\ client' \in [Clients -> Handler]
        /\ \A d \in Clients : client'[d].id \in {client[d].id, Zero}
    BY <1>0, <2>3, ClientMoves
  <2>5. /\ Reserve(kind) \in Metadata
        /\ \A k \in Kinds : metadata.reserved[k] <= Reserve(kind).reserved[k]
    <3>1. \A k \in Kinds : metadata.reserved[k] \in Nat
      BY <1>0 DEF Metadata, Counters
    <3> QED
      BY <1>0, <3>1, ReserveGrows
  <2>6. IdTypes'
    BY <1>0, <2>2, <2>4, <2>5 DEF IdTypes
  <2>7. \A k \in Kinds : metadata'.reserved[k] <= meta_file'.reserved[k]
    BY <2>2, <2>5 DEF IdInv, ReservationInv
  <2>8. \A k \in Kinds : /\ metadata.reserved[k] <= metadata'.reserved[k]
                         /\ next[k] <= next'[k]
                         /\ next'[k] <= metadata'.reserved[k] + 1
    BY <1>0, <2>2 DEF IdInv, ReservationInv, IdTypes, Metadata, Counters
  <2>9. \A d \in Clients : \A k \in Kinds : client'[d].id[k] \in {client[d].id[k], 0}
    BY <2>4 DEF Zero
  <2> QED
    BY <2>2, <2>6, <2>7, <2>8, <2>9, QuietStep
<1> QED
  BY <1>1, <1>2, <1>3, <1>4, <1>5, <1>6, <1>7, <1>8, <1>9

LEMMA InitIds == Init => IdInv
<1> SUFFICES ASSUME Init PROVE IdInv
  OBVIOUS
<1>1. /\ ZeroMetadata \in Metadata /\ ZeroMetadata.reserved = Zero
      /\ Zero \in Counters /\ \A k \in Kinds : Zero[k] = 0
  BY DEF ZeroMetadata, Zero, Metadata, Counters
<1>2. Idle \in Handler /\ Idle.id = Zero
  BY <1>1 DEF Idle, Handler, Phases, Stages
<1>3. IdTypes
  BY <1>1, <1>2 DEF Init, IdTypes
<1>4. HeldIdsReserved
  BY <1>1, <1>2 DEF Init, HeldIdsReserved
<1>5. \A k \in Kinds : metadata.reserved[k] = 0 /\ meta_file.reserved[k] = 0 /\ issued[k] = {}
  BY <1>1 DEF Init
<1> QED
  BY <1>3, <1>4, <1>5 DEF Init, IdInv, ReservationInv

LEMMA NextIds == IdInv /\ [Next]_vars => IdInv'
<1> SUFFICES ASSUME IdInv, [Next]_vars PROVE IdInv'
  OBVIOUS
<1>1. CASE UNCHANGED vars
  BY <1>1 DEF vars, memVars, IdInv, IdTypes, ReservationInv, HeldIdsReserved
<1>2. CASE Initialize \/ InitializeFails \/ Reopen \/ Crash \/ CrashInWrite
  BY <1>2, LifecycleStep
<1>3. CASE \E c \in Clients :
            \/ StartRequest(c) \/ Admit(c) \/ Probe(c) \/ ProbeFails(c) \/ Clear(c)
            \/ Name(c) \/ Degrade(c) \/ \E kind \in Kinds : ReserveFails(c, kind)
            \/ WriteRecord(c) \/ Compact(c) \/ Accept(c)
            \/ WriteFails(c) \/ WriteTears(c) \/ CompactFails(c) \/ AcceptFails(c)
            \/ Effect(c) \/ Done(c)
  BY <1>3, HandlerStep
<1> QED
  BY <1>1, <1>2, <1>3 DEF Next

\* What is reserved in the metadata file, in memory and given out stays in step
\* through every crash, failed write and recovery probe, and append never meets
\* an id it would refuse as unreserved.
THEOREM ReservationsHold == Spec => []ReservationInv
<1>1. IdInv => ReservationInv
  BY DEF IdInv
<1> QED
  BY InitIds, NextIds, <1>1, PTL DEF Spec

\* allocate_request_id and allocate_event_identity never give out an id twice
\* over the whole life of the store.
THEOREM IdsNeverReissued == Spec => NeverReissued
<1> DEFINE Fresh ==
      \A c \in Clients :
        /\ StartRequest(c) => next["request"] \notin issued["request"]
        /\ Name(c) => next["event"] \notin issued["event"]
<1>1. ASSUME IdInv, NEW c \in Clients, StartRequest(c)
      PROVE  next["request"] \notin issued["request"]
  <2>1. up /\ "request" \in Kinds
    BY <1>1 DEF StartRequest, At, In, Kinds
  <2> QED
    BY <1>1, <2>1 DEF IdInv, IdTypes, ReservationInv, Counters
<1>2. ASSUME IdInv, NEW c \in Clients, Name(c)
      PROVE  next["event"] \notin issued["event"]
  <2>1. up /\ "event" \in Kinds
    BY <1>2 DEF Name, At, In, Kinds
  <2> QED
    BY <1>2, <2>1 DEF IdInv, IdTypes, ReservationInv, Counters
<1>3. IdInv => [Fresh]_vars
  BY <1>1, <1>2
<1> QED
  BY InitIds, NextIds, <1>3, PTL DEF Spec, NeverReissued

-----------------------------------------------------------------------------
(***************************************************************************)
(* What the log keeps.                                                     *)
(***************************************************************************)
Lines(s) == {s[i] : i \in DOMAIN s}
Inside(c) == client[c].phase \in {"compact", "meta"}

\* Accepted records are in the file, unless a line of it is broken, and, while the
\* store is open, in memory, from which a compaction rewrites the file; the record
\* being accepted is in the file if it is retained; append is entered by one
\* handler at a time.
RecordsInv ==
  /\ log \in Seq(Counters) /\ events \in Seq(Counters)
  /\ malformed = TRUE \/ acked \subseteq Lines(log)
  /\ up => acked \subseteq Lines(events)

LinesInv ==
  /\ malformed \in BOOLEAN /\ torn \in BOOLEAN
  /\ meta_state = "missing" => acked = {}

AppendInv ==
  /\ ~up => Unlocked
  /\ \A c, d \in Clients : Inside(c) /\ Inside(d) => c = d
  /\ \A c \in Clients : client[c].phase = "meta" /\ client[c].id \in Lines(events)
       => malformed = TRUE \/ client[c].id \in Lines(log)

RetainInv == RecordsInv /\ LinesInv /\ AppendInv

\* Every id that is recorded, accepted or held was given out, or is 0.
Given(r, ids) == \A k \in Kinds : r[k] \in ids[k] \cup {0}

KnownInv ==
  /\ \A r \in Lines(log) \cup Lines(events) : Given(r, issued)
  /\ Given(metadata.accepted, issued) /\ Given(meta_file.accepted, issued)
  /\ \A c \in Clients : Given(client[c].id, issued)

-----------------------------------------------------------------------------
(***************************************************************************)
(* Appending and pruning.                                                  *)
(***************************************************************************)
LEMMA AppendLines ==
  ASSUME NEW s \in Seq(Counters), NEW r \in Counters
  PROVE  /\ Append(s, r) \in Seq(Counters)
         /\ Lines(Append(s, r)) = Lines(s) \cup {r}
<1>1. /\ Append(s, r) \in Seq(Counters) /\ Len(Append(s, r)) = Len(s) + 1
      /\ DOMAIN s = 1..Len(s) /\ DOMAIN Append(s, r) = 1..(Len(s) + 1) /\ Len(s) \in Nat
  OBVIOUS
<1>2. \A i \in 1..Len(s) : Append(s, r)[i] = s[i]
  OBVIOUS
<1>3. Append(s, r)[Len(s) + 1] = r
  OBVIOUS
<1>4. \A i \in 1..(Len(s) + 1) : i \in 1..Len(s) \/ i = Len(s) + 1
  BY <1>1
<1> DEFINE t == Append(s, r)
<1> HIDE DEF t
<1>5. Lines(t) = Lines(s) \cup {r}
  <2>1. Lines(t) \subseteq Lines(s) \cup {r}
    BY <1>1, <1>2, <1>3, <1>4 DEF Lines, t
  <2>2. Lines(s) \cup {r} \subseteq Lines(t)
    <3>1. r \in Lines(t)
      BY <1>1, <1>3 DEF Lines, t
    <3>2. ASSUME NEW i \in DOMAIN s PROVE s[i] \in Lines(t)
      BY <1>1, <1>2, <3>2 DEF Lines, t
    <3> QED
      BY <3>1, <3>2 DEF Lines
  <2> QED
    BY <2>1, <2>2
<1> QED
  BY <1>1, <1>5 DEF t

LEMMA PrunedLines ==
  ASSUME NEW s \in Seq(Counters), NEW n \in Prunable(s)
  PROVE  /\ Pruned(s, n) \in Seq(Counters)
         /\ Lines(Pruned(s, n)) \subseteq Lines(s)
         /\ Lines(s) \subseteq Lines(Pruned(s, n)) \cup Gone(s, n)
         /\ n = 0 => Lines(Pruned(s, n)) = Lines(s) /\ Pruned(s, n) = s
<1>1. n \in 0..Len(s) /\ Len(s) \in Nat /\ DOMAIN s = 1..Len(s)
  BY DEF Prunable
<1> DEFINE t == SubSeq(s, n + 1, Len(s))
<1>2. /\ t \in Seq(Counters) /\ Len(t) = Len(s) - n /\ DOMAIN t = 1..(Len(s) - n)
      /\ \A i \in 1..(Len(s) - n) : t[i] = s[n + i]
  <2>1. \A i \in (n + 1)..Len(s) : s[i] \in Counters
    BY <1>1
  <2>2. n + 1 \in Int /\ Len(s) \in Int
    BY <1>1
  <2>3. /\ t \in Seq(Counters)
        /\ Len(t) = IF n + 1 <= Len(s) THEN Len(s) - (n + 1) + 1 ELSE 0
        /\ \A i \in 1..(Len(s) - (n + 1) + 1) : t[i] = s[n + 1 + i - 1]
    BY <2>1, <2>2, SubSeqProperties
  <2> HIDE DEF t
  <2>4. Len(s) - (n + 1) + 1 = Len(s) - n /\ Len(t) = Len(s) - n
    <3>1. ASSUME NEW m \in Nat, NEW l, n \in 0..m,
                 l = IF n + 1 <= m THEN m - (n + 1) + 1 ELSE 0
          PROVE  m - (n + 1) + 1 = m - n /\ l = m - n
      BY <3>1
    <3>2. Len(t) = IF n + 1 <= Len(s) THEN Len(s) - (n + 1) + 1 ELSE 0
      BY <2>3
    <3> QED
      BY <1>1, <3>1, <3>2
  <2>5. \A i \in 1..(Len(s) - n) : n + 1 + i - 1 = n + i
    BY <1>1
  <2>6. t \in Seq(Counters) /\ Len(t) = Len(s) - n
    BY <2>3, <2>4
  <2>7. DOMAIN t = 1..(Len(s) - n)
    <3>1. DOMAIN t = 1..Len(t)
      BY <2>6
    <3> QED
      BY <2>6, <3>1, Zenon
  <2>8. ASSUME NEW i \in 1..(Len(s) - n) PROVE t[i] = s[n + i]
    <3>1. i \in 1..(Len(s) - (n + 1) + 1)
      BY <2>4, Zenon
    <3>2. t[i] = s[n + 1 + i - 1]
      BY <2>3, <3>1, Zenon
    <3>3. n + 1 + i - 1 = n + i
      BY <2>5, Zenon
    <3> QED
      BY <3>2, <3>3, Zenon
  <2> QED
    BY <2>6, <2>7, <2>8, Zenon
<1>3. Pruned(s, n) = t
  BY DEF Pruned
<1> HIDE DEF t
<1>4. Lines(t) \subseteq Lines(s)
  <2>1. ASSUME NEW i \in DOMAIN t PROVE t[i] \in Lines(s)
    <3>1. n + i \in DOMAIN s /\ t[i] = s[n + i]
      BY <1>1, <1>2
    <3> QED
      BY <3>1 DEF Lines
  <2> QED
    BY <2>1 DEF Lines
<1>5. Lines(s) \subseteq Lines(t) \cup Gone(s, n)
  <2>1. ASSUME NEW i \in DOMAIN s PROVE s[i] \in Lines(t) \cup Gone(s, n)
    <3>1. CASE i <= n
      BY <1>1, <3>1 DEF Gone
    <3>2. CASE i > n
      <4>1. i - n \in 1..(Len(s) - n) /\ n + (i - n) = i
        BY <1>1, <3>2
      <4>2. s[i] = t[i - n] /\ i - n \in DOMAIN t
        BY <1>2, <4>1
      <4> QED
        BY <4>2 DEF Lines
    <3> QED
      BY <1>1, <3>1, <3>2
  <2> QED
    BY <2>1 DEF Lines
<1>7. ASSUME n = 0 PROVE t = s
  <2>1. Len(t) = Len(s) /\ DOMAIN t = DOMAIN s
    BY <1>1, <1>2, <1>7
  <2>2. \A i \in DOMAIN s : t[i] = s[i]
    BY <1>1, <1>2, <1>7
  <2>3. t = [i \in DOMAIN t |-> t[i]] /\ s = [i \in DOMAIN s |-> s[i]]
    BY <1>2
  <2> QED
    BY <2>1, <2>2, <2>3
<1> QED
  BY <1>2, <1>3, <1>4, <1>5, <1>7

-----------------------------------------------------------------------------
(***************************************************************************)
(* Accepted records are retained.                                          *)
(***************************************************************************)
\* A line that is written completes a torn one, or is a line of its own.
LEMMA WriteLineKeeps ==
  ASSUME RecordsInv, LinesInv, NEW r \in Counters, WriteLine(r)
  PROVE  /\ log' \in Seq(Counters) /\ torn' \in BOOLEAN /\ malformed' \in BOOLEAN
         /\ malformed' = TRUE \/ (malformed = FALSE /\ Lines(log') = Lines(log) \cup {r})
<1>1. log \in Seq(Counters) /\ malformed \in BOOLEAN /\ torn \in BOOLEAN
  BY DEF RecordsInv, LinesInv
<1>2. CASE torn = TRUE \/ malformed = TRUE
  <2>1. log' = log /\ torn' = FALSE
    BY <1>2 DEF WriteLine
  <2>2. malformed' = TRUE
    BY <1>2, Zenon DEF WriteLine
  <2> QED
    BY <1>1, <2>1, <2>2
<1>3. CASE torn = FALSE /\ malformed = FALSE
  <2>1. log' = Append(log, r) /\ torn' = FALSE
    BY <1>3 DEF WriteLine
  <2>2. malformed' = FALSE
    BY <1>3 DEF WriteLine
  <2> QED
    BY <1>1, <1>3, <2>1, <2>2, AppendLines
<1> QED
  BY <1>1, <1>2, <1>3

\* One handler moves, to a phase outside append.
Leaves(c) ==
  /\ \A d \in Clients : d # c => client'[d] = client[d]
  /\ client'[c].phase \notin {"compact", "meta"}

LEMMA MovesOutside ==
  ASSUME IdTypes, NEW c \in Clients,
         \/ client' = [client EXCEPT ![c] = Idle]
         \/ \E phase \in Phases \ {"compact", "meta"}, stage \in Stages : Move(c, phase, stage)
         \/ \E kind \in Kinds, phase \in Phases \ {"compact", "meta"} : Issue(c, kind, phase)
  PROVE  Leaves(c)
<1>1. client \in [Clients -> Handler]
  BY DEF IdTypes
<1>2. ASSUME NEW h, client' = [client EXCEPT ![c] = h], h.phase \notin {"compact", "meta"}
      PROVE  Leaves(c)
  BY <1>1, <1>2 DEF Leaves
<1>3. CASE client' = [client EXCEPT ![c] = Idle]
  <2>1. Idle.phase \notin {"compact", "meta"}
    BY DEF Idle
  <2> QED
    BY <1>2, <1>3, <2>1
<1>4. ASSUME NEW phase \in Phases \ {"compact", "meta"}, NEW stage \in Stages, Move(c, phase, stage)
      PROVE  Leaves(c)
  BY <1>2, <1>4 DEF Move
<1>5. ASSUME NEW kind \in Kinds, NEW phase \in Phases \ {"compact", "meta"}, Issue(c, kind, phase)
      PROVE  Leaves(c)
  BY <1>2, <1>5 DEF Issue, Holding
<1> QED
  BY <1>3, <1>4, <1>5

\* What a failed record means for the handler.
LEMMA LosingLeaves ==
  ASSUME IdTypes, NEW c \in Clients, LoseRecord(c)
  PROVE  Leaves(c)
<1>1. client[c].stage \in Stages
  BY DEF IdTypes, Handler
<1>2. {"lost", "admitted"} \subseteq Phases \ {"compact", "meta"} /\ {"after"} \subseteq Stages
  BY DEF Phases, Stages
<1>3. \/ client' = [client EXCEPT ![c] = Idle]
      \/ \E phase \in Phases \ {"compact", "meta"}, stage \in Stages : Move(c, phase, stage)
  BY <1>1, <1>2 DEF LoseRecord, Stages
<1> QED
  BY <1>3, MovesOutside

\* A step of an open store in which a handler goes outside append, where it was
\* already, or which changes neither the log nor the records in memory.
LEMMA OutsideStep ==
  ASSUME RetainInv, RecordsInv', up, UNCHANGED <<up, meta_state>>,
         meta_state = "whole", torn' \in BOOLEAN, malformed' \in BOOLEAN,
         NEW c \in Clients, Leaves(c),
         Unlocked \/ UNCHANGED <<log, events, malformed>> \/ log' = events'
  PROVE  RetainInv'
<1>1. LinesInv'
  BY DEF LinesInv
<1>2. ASSUME NEW d \in Clients PROVE Inside(d)' => d # c /\ Inside(d) /\ client'[d] = client[d]
  BY DEF Leaves, Inside
<1>3. \A d, e \in Clients : Inside(d)' /\ Inside(e)' => d = e
  BY <1>2 DEF RetainInv, AppendInv
<1>4. ASSUME NEW d \in Clients, client'[d].phase = "meta", client'[d].id \in Lines(events')
      PROVE  malformed' = TRUE \/ client'[d].id \in Lines(log')
  <2>1. Inside(d)'
    BY <1>4 DEF Inside
  <2>2. Inside(d) /\ client'[d] = client[d]
    BY <1>2, <2>1
  <2>3. ~Unlocked
    BY <2>2 DEF Unlocked, Inside
  <2>4. CASE UNCHANGED <<log, events, malformed>>
    BY <1>4, <2>2, <2>4 DEF RetainInv, AppendInv
  <2>5. CASE log' = events'
    BY <1>4, <2>5
  <2> QED
    BY <2>3, <2>4, <2>5
<1>5. AppendInv'
  BY <1>3, <1>4 DEF AppendInv
<1> QED
  BY <1>1, <1>5 DEF RetainInv

\* Opening and recovery read the log, prune it and repair the file.
LEMMA RepairKeeps ==
  ASSUME RetainInv, malformed = FALSE, NEW n \in Prunable(log),
         events' = Pruned(log, n), acked' = acked \ Gone(log, n), Repair(n)
  PROVE  /\ RecordsInv' /\ torn' = FALSE /\ malformed' = FALSE
         /\ log' = events'
<1>1. log \in Seq(Counters) /\ acked \subseteq Lines(log) /\ malformed = FALSE /\ torn \in BOOLEAN
  BY DEF RetainInv, RecordsInv, LinesInv
<1>2. /\ Pruned(log, n) \in Seq(Counters)
      /\ Lines(log) \subseteq Lines(Pruned(log, n)) \cup Gone(log, n)
      /\ n = 0 => Pruned(log, n) = log
  BY <1>1, PrunedLines
<1>3. n \in Nat
  BY <1>1 DEF Prunable
<1>4. log' = events' /\ torn' = FALSE /\ malformed' = FALSE
  <2>1. CASE torn \/ n > 0
    BY <2>1 DEF Repair
  <2>2. CASE ~(torn \/ n > 0)
    <3>1. n = 0 /\ torn = FALSE
      BY <1>3, <2>2
    <3> QED
      BY <1>1, <1>2, <2>2, <3>1 DEF Repair, logVars
  <2> QED
    BY <2>1, <2>2
<1>5. acked' \subseteq Lines(events')
  BY <1>1, <1>2
<1> QED
  BY <1>2, <1>4, <1>5 DEF RecordsInv

LEMMA LifecycleRetains ==
  ASSUME IdInv, RetainInv,
         Initialize \/ InitializeFails \/ Reopen \/ Crash \/ CrashInWrite
  PROVE  RetainInv'
<1>0. IdTypes /\ (up => meta_state = "whole")
  BY DEF IdInv, ReservationInv
<1>1. CASE Initialize
  <2>1. /\ UNCHANGED <<events, client, log, torn, malformed, acked>> /\ up'
        /\ meta_state = "missing" /\ ~up /\ meta_state' = "whole"
    BY <1>1 DEF Initialize, logVars
  <2>2. acked = {} /\ torn \in BOOLEAN /\ malformed \in BOOLEAN
    BY <2>1 DEF RetainInv, LinesInv
  <2>3. RecordsInv' /\ LinesInv'
    BY <2>1, <2>2 DEF RetainInv, RecordsInv, LinesInv
  <2>4. AppendInv'
    BY <2>1 DEF RetainInv, AppendInv, Inside
  <2> QED
    BY <2>3, <2>4 DEF RetainInv
<1>2. CASE InitializeFails
  <2>1. UNCHANGED <<up, events, client, log, torn, malformed, acked>> /\ meta_state' = "malformed"
    BY <1>2 DEF InitializeFails, memVars, logVars
  <2> QED
    BY <2>1 DEF RetainInv, RecordsInv, LinesInv, AppendInv, Inside, Unlocked
<1>3. CASE Reopen
  <2>1. PICK n \in Prunable(log) :
          events' = Pruned(log, n) /\ acked' = acked \ Gone(log, n) /\ Repair(n)
    BY <1>3 DEF Reopen
  <2>a. malformed = FALSE
    BY <1>3, Zenon DEF Reopen, Readable, RetainInv, LinesInv
  <2>2. RecordsInv' /\ torn' = FALSE /\ malformed' = FALSE /\ log' = events'
    BY <2>1, <2>a, RepairKeeps
  <2>3. ~up /\ up' /\ UNCHANGED <<client, meta_state>> /\ meta_state = "whole"
    BY <1>3 DEF Reopen
  <2>4. LinesInv'
    BY <2>2, <2>3 DEF LinesInv
  <2>5. AppendInv'
    BY <2>2, <2>3 DEF RetainInv, AppendInv, Inside
  <2> QED
    BY <2>2, <2>4, <2>5 DEF RetainInv
<1>4. CASE Crash \/ CrashInWrite
  <2>1. /\ up /\ up' = FALSE /\ events' = << >> /\ client' = [c \in Clients |-> Idle]
        /\ UNCHANGED <<meta_state, log, malformed, acked>>
    BY <1>4 DEF Crash, CrashInWrite, Forget, logVars
  <2>2. \A c \in Clients : client'[c].phase = "idle"
    BY <2>1 DEF Idle
  <2>3. RecordsInv'
    BY <2>1 DEF RetainInv, RecordsInv
  <2>a. torn' \in BOOLEAN
    BY <1>4 DEF RetainInv, LinesInv, Crash, CrashInWrite, logVars
  <2>b. LinesInv'
    BY <1>0, <2>1, <2>a DEF RetainInv, LinesInv
  <2>4. AppendInv'
    BY <2>2 DEF AppendInv, Inside, Unlocked
  <2> QED
    BY <2>3, <2>b, <2>4 DEF RetainInv
<1> QED
  BY <1>1, <1>2, <1>3, <1>4

LEMMA HandlerRetains ==
  ASSUME IdInv, RetainInv, NEW c \in Clients,
         \/ StartRequest(c) \/ Admit(c) \/ Probe(c) \/ ProbeFails(c) \/ Clear(c)
         \/ Name(c) \/ Degrade(c) \/ \E kind \in Kinds : ReserveFails(c, kind)
         \/ WriteRecord(c) \/ Compact(c) \/ Accept(c)
         \/ WriteFails(c) \/ WriteTears(c) \/ CompactFails(c) \/ AcceptFails(c)
         \/ Effect(c) \/ Done(c)
  PROVE  RetainInv'
<1>0. /\ IdTypes /\ (up => meta_state = "whole")
      /\ client \in [Clients -> Handler]
  BY DEF IdInv, ReservationInv, IdTypes
<1>a. /\ log \in Seq(Counters) /\ events \in Seq(Counters)
      /\ malformed = TRUE \/ acked \subseteq Lines(log)
      /\ up => acked \subseteq Lines(events)
      /\ malformed \in BOOLEAN /\ torn \in BOOLEAN
  BY DEF RetainInv, RecordsInv, LinesInv
<1>b. /\ {"admitted", "new", "named", "probing", "recovered", "lost"} \subseteq Phases \ {"compact", "meta"}
      /\ {"before", "after", "emergency"} \subseteq Stages
      /\ client[c].id \in Counters /\ client[c].stage \in Stages
  BY <1>0 DEF Phases, Stages, Handler
<1>c. ASSUME Leaves(c), up, UNCHANGED <<up, meta_state, events, log, torn, malformed, acked>>
      PROVE  RetainInv'
  <2>1. RecordsInv' /\ torn' \in BOOLEAN /\ malformed' \in BOOLEAN
    BY <1>a, <1>c DEF RecordsInv
  <2> QED
    BY <1>0, <1>c, <2>1, OutsideStep
<1>1. CASE StartRequest(c) \/ Name(c)
  <2>1. /\ up /\ UNCHANGED <<up, meta_state, events, log, torn, malformed, acked>>
        /\ \E kind \in Kinds, phase \in Phases \ {"compact", "meta"} : Issue(c, kind, phase)
    BY <1>1, <1>b DEF StartRequest, Name, At, In, Issue, Kinds, logVars
  <2> QED
    BY <1>0, <1>c, <2>1, MovesOutside
<1>2. CASE Admit(c) \/ Clear(c) \/ Degrade(c) \/ Effect(c) \/ Done(c)
  <2>1. /\ up /\ UNCHANGED <<up, meta_state, events, log, torn, malformed, acked>>
        /\ \/ \E phase \in Phases \ {"compact", "meta"}, stage \in Stages : Move(c, phase, stage)
           \/ client' = [client EXCEPT ![c] = Idle]
    BY <1>2, <1>b DEF Admit, Clear, Degrade, Effect, Done, In, memVars, logVars
  <2> QED
    BY <1>0, <1>c, <2>1, MovesOutside
<1>3. CASE (\E kind \in Kinds : ReserveFails(c, kind)) \/ AcceptFails(c)
  <2>1. /\ up /\ UNCHANGED <<up, meta_state, events, log, torn, malformed, acked>>
        /\ LoseRecord(c)
    BY <1>3 DEF ReserveFails, AcceptFails, AppendError, At, In, logVars
  <2> QED
    BY <1>0, <1>c, <2>1, LosingLeaves
<1>4. CASE Probe(c)
  <2>1. PICK n \in Prunable(log) :
          events' = Pruned(log, n) /\ acked' = acked \ Gone(log, n) /\ Repair(n)
    BY <1>4 DEF Probe
  <2>a. malformed = FALSE
    BY <1>4, Zenon DEF Probe, Readable, RetainInv, LinesInv
  <2>2. RecordsInv' /\ torn' = FALSE /\ malformed' = FALSE /\ log' = events'
    BY <2>1, <2>a, RepairKeeps
  <2>3. up /\ UNCHANGED <<up, meta_state>> /\ Move(c, "recovered", "before")
    BY <1>4 DEF Probe, At, In
  <2>4. Leaves(c)
    BY <1>0, <1>b, <2>3, MovesOutside
  <2> QED
    BY <1>0, <2>2, <2>3, <2>4, OutsideStep
<1>5. CASE ProbeFails(c)
  <2>1. /\ up /\ Unlocked /\ UNCHANGED <<up, meta_state, events>>
        /\ client' = [client EXCEPT ![c] = Idle]
    BY <1>5 DEF ProbeFails, At, In
  <2>2. Leaves(c)
    BY <1>0, <2>1, MovesOutside
  <2>3. CASE UNCHANGED <<logVars, acked>>
    BY <1>c, <2>1, <2>2, <2>3 DEF logVars
  <2>4. ASSUME NEW n \in Prunable(log), log' = Pruned(log, n), torn' = FALSE, malformed' = FALSE,
               acked' = acked \ Gone(log, n), Readable(meta_file)
        PROVE  RetainInv'
    <3>a. malformed = FALSE
      BY <1>a, <2>4, Zenon DEF Readable
    <3>1. /\ Pruned(log, n) \in Seq(Counters)
          /\ Lines(log) \subseteq Lines(Pruned(log, n)) \cup Gone(log, n)
      BY <1>a, PrunedLines
    <3>2. acked' \subseteq Lines(log') /\ acked' \subseteq Lines(events')
      BY <1>a, <2>1, <2>4, <3>1, <3>a
    <3>3. RecordsInv'
      BY <1>a, <2>1, <2>4, <3>1, <3>2 DEF RecordsInv
    <3> QED
      BY <1>0, <2>1, <2>2, <2>4, <3>3, OutsideStep
  <2> QED
    BY <1>5, <2>3, <2>4 DEF ProbeFails
<1>6. CASE WriteRecord(c)
  <2> DEFINE r == client[c].id
             kept == Append(events, r)
  <2>1. /\ up /\ Unlocked /\ UNCHANGED <<up, meta_state>> /\ WriteLine(r)
    BY <1>6 DEF WriteRecord, At, In
  <2>2. PICK n \in Prunable(kept) :
          /\ events' = Pruned(kept, n) /\ acked' = acked \ Gone(kept, n)
          /\ Move(c, IF n > 0 THEN "compact" ELSE "meta", client[c].stage)
    BY <1>6 DEF WriteRecord
  <2>3. r \in Counters
    BY <1>b
  <2> HIDE DEF r
  <2>4. /\ log' \in Seq(Counters) /\ torn' \in BOOLEAN /\ malformed' \in BOOLEAN
        /\ malformed' = TRUE \/ (malformed = FALSE /\ Lines(log') = Lines(log) \cup {r})
    BY <2>1, <2>3, WriteLineKeeps DEF RetainInv
  <2>5. kept \in Seq(Counters) /\ Lines(kept) = Lines(events) \cup {r}
    BY <1>a, <2>3, AppendLines
  <2> HIDE DEF kept
  <2>6. /\ events' \in Seq(Counters)
        /\ Lines(kept) \subseteq Lines(events') \cup Gone(kept, n)
    BY <2>2, <2>5, PrunedLines
  <2>7. RecordsInv'
    <3>1. acked' \subseteq Lines(events')
      BY <1>a, <2>1, <2>2, <2>5, <2>6
    <3>2. malformed' = TRUE \/ acked' \subseteq Lines(log')
      BY <1>a, <2>2, <2>4
    <3> QED
      BY <2>4, <2>6, <3>1, <3>2 DEF RecordsInv
  <2>8. LinesInv'
    BY <1>0, <2>1, <2>4 DEF LinesInv
  <2>9. /\ client'[c].id = r
        /\ \A d \in Clients : d # c => client'[d] = client[d] /\ ~Inside(d)
    BY <1>0, <2>1, <2>2 DEF Move, Unlocked, Inside, r
  <2>10. AppendInv'
    BY <2>1, <2>4, <2>9 DEF AppendInv, Inside
  <2> QED
    BY <2>7, <2>8, <2>10 DEF RetainInv
<1>7. CASE Compact(c)
  <2>1. /\ up /\ UNCHANGED <<up, meta_state, events, acked>> /\ log' = events
        /\ torn' = FALSE /\ malformed' = FALSE /\ Move(c, "meta", client[c].stage)
        /\ Inside(c)
    BY <1>7 DEF Compact, In, memVars, Inside
  <2>2. RecordsInv'
    BY <1>a, <2>1 DEF RecordsInv
  <2>3. LinesInv'
    BY <1>0, <2>1 DEF LinesInv
  <2>4. \A d \in Clients : Inside(d)' => Inside(d)
    BY <1>0, <2>1 DEF Move, Inside
  <2>5. AppendInv'
    BY <2>1, <2>4 DEF RetainInv, AppendInv
  <2> QED
    BY <2>2, <2>3, <2>5 DEF RetainInv
<1>8. CASE Accept(c)
  <2>1. /\ up /\ UNCHANGED <<up, meta_state, events, log, torn, malformed>>
        /\ acked' = acked \cup ({client[c].id} \cap Lines(events))
        /\ client[c].phase = "meta"
        /\ \E phase \in Phases \ {"compact", "meta"}, stage \in Stages : Move(c, phase, stage)
    BY <1>8, <1>b DEF Accept, In, logVars, Lines
  <2>2. client[c].id \in Lines(events) => malformed = TRUE \/ client[c].id \in Lines(log)
    BY <2>1 DEF RetainInv, AppendInv
  <2>3. RecordsInv'
    BY <1>a, <2>1, <2>2 DEF RecordsInv
  <2>4. Leaves(c)
    BY <1>0, <2>1, MovesOutside
  <2> QED
    BY <1>0, <1>a, <2>1, <2>3, <2>4, OutsideStep
<1>9. CASE WriteFails(c)
  <2>1. /\ up /\ Unlocked /\ UNCHANGED <<up, meta_state, events, acked>> /\ LoseRecord(c)
        /\ UNCHANGED logVars \/ WriteLine(client[c].id)
    BY <1>9 DEF WriteFails, AppendError, At, In
  <2>2. Leaves(c)
    BY <1>0, <2>1, LosingLeaves
  <2>3. CASE UNCHANGED logVars
    BY <1>c, <2>1, <2>2, <2>3 DEF logVars
  <2>4. CASE WriteLine(client[c].id)
    <3>1. /\ log' \in Seq(Counters) /\ torn' \in BOOLEAN /\ malformed' \in BOOLEAN
          /\ malformed' = TRUE \/ (malformed = FALSE /\ Lines(log') = Lines(log) \cup {client[c].id})
      BY <1>b, <2>4, WriteLineKeeps DEF RetainInv
    <3>3. RecordsInv'
      BY <1>a, <2>1, <3>1 DEF RecordsInv
    <3> QED
      BY <1>0, <2>1, <2>2, <3>1, <3>3, OutsideStep
  <2> QED
    BY <2>1, <2>3, <2>4
<1>10. CASE WriteTears(c)
  <2>1. /\ up /\ Unlocked /\ UNCHANGED <<up, meta_state, events, acked, log, malformed>>
        /\ LoseRecord(c) /\ torn' = TRUE
    BY <1>10 DEF WriteTears, AppendError, At, In
  <2>2. RecordsInv'
    BY <1>a, <2>1 DEF RecordsInv
  <2> QED
    BY <1>0, <1>a, <2>1, <2>2, LosingLeaves, OutsideStep
<1>11. CASE CompactFails(c)
  <2>1. /\ up /\ UNCHANGED <<up, meta_state, events, acked>> /\ LoseRecord(c)
        /\ UNCHANGED logVars \/ (log' = events /\ torn' = FALSE /\ malformed' = FALSE)
    BY <1>11 DEF CompactFails, AppendError, In
  <2>2. Leaves(c)
    BY <1>0, <2>1, LosingLeaves
  <2>3. CASE UNCHANGED logVars
    BY <1>c, <2>1, <2>2, <2>3 DEF logVars
  <2>4. CASE log' = events /\ torn' = FALSE /\ malformed' = FALSE
    <3>1. RecordsInv' /\ log' = events'
      BY <1>a, <2>1, <2>4 DEF RecordsInv
    <3> QED
      BY <1>0, <2>1, <2>2, <2>4, <3>1, OutsideStep
  <2> QED
    BY <2>1, <2>3, <2>4
<1> QED
  BY <1>1, <1>2, <1>3, <1>4, <1>5, <1>6, <1>7, <1>8, <1>9, <1>10, <1>11

LEMMA InitRetains == Init => RetainInv
<1> SUFFICES ASSUME Init PROVE RetainInv
  OBVIOUS
<1>1. \A c \in Clients : client[c].phase = "idle"
  BY DEF Init, Idle
<1>2. RecordsInv
  BY DEF Init, RecordsInv
<1>3. LinesInv
  BY DEF Init, LinesInv
<1>4. AppendInv
  BY <1>1 DEF AppendInv, Unlocked, Inside
<1> QED
  BY <1>2, <1>3, <1>4 DEF RetainInv

LEMMA NextRetains == IdInv /\ RetainInv /\ [Next]_vars => RetainInv'
<1> SUFFICES ASSUME IdInv, RetainInv, [Next]_vars PROVE RetainInv'
  OBVIOUS
<1>1. CASE UNCHANGED vars
  BY <1>1 DEF vars, memVars, logVars, RetainInv, RecordsInv, LinesInv, AppendInv, Unlocked, Inside
<1>2. CASE Initialize \/ InitializeFails \/ Reopen \/ Crash \/ CrashInWrite
  BY <1>2, LifecycleRetains
<1>3. CASE \E c \in Clients :
            \/ StartRequest(c) \/ Admit(c) \/ Probe(c) \/ ProbeFails(c) \/ Clear(c)
            \/ Name(c) \/ Degrade(c) \/ \E kind \in Kinds : ReserveFails(c, kind)
            \/ WriteRecord(c) \/ Compact(c) \/ Accept(c)
            \/ WriteFails(c) \/ WriteTears(c) \/ CompactFails(c) \/ AcceptFails(c)
            \/ Effect(c) \/ Done(c)
  BY <1>3, HandlerRetains
<1> QED
  BY <1>1, <1>2, <1>3 DEF Next

\* A record that append accepted can be read back from the log, through crashes,
\* failed compactions and recovery probes, until prune_retention removes it: for
\* any number of handlers and all faults, as long as no line of the log is broken.
THEOREM AcceptedRecordsStay == Spec => []AckedRetained
<1>1. RetainInv => AckedRetained
  BY Zenon DEF RetainInv, RecordsInv, LinesInv, AckedRetained, Lines
<1> QED
  BY InitIds, NextIds, InitRetains, NextRetains, <1>1, PTL DEF Spec

-----------------------------------------------------------------------------
(***************************************************************************)
(* What the files say of the ids.                                          *)
(***************************************************************************)
\* An id that was given out stays given out.
LEMMA GivenGrows ==
  ASSUME NEW r, NEW ids, NEW more, Given(r, ids), \A k \in Kinds : ids[k] \subseteq more[k]
  PROVE  Given(r, more)
BY DEF Given

LEMMA GivenZero ==
  ASSUME NEW ids PROVE Given(Zero, ids) /\ Given(ZeroMetadata.accepted, ids) /\ Given(Idle.id, ids)
BY DEF Given, Zero, ZeroMetadata, Idle

\* The accepted ids after a record, and those that recovery finds.
LEMMA GivenHighest ==
  ASSUME NEW a, NEW r, NEW ids, Given(a, ids), Given(r, ids)
  PROVE  Given([k \in Kinds |-> Highest(a[k], r[k])], ids)
BY DEF Given, Highest

LEMMA GivenTops ==
  ASSUME NEW m, NEW s, NEW ids, NEW top \in Tops(m, s),
         Given(m.accepted, ids), \A r \in Lines(s) : Given(r, ids)
  PROVE  Given(top, ids)
<1>1. ASSUME NEW k \in Kinds PROVE top[k] \in ids[k] \cup {0}
  <2>1. top[k] \in {m.accepted[k]} \cup {s[i][k] : i \in DOMAIN s}
    BY <1>1 DEF Tops
  <2>2. CASE top[k] = m.accepted[k]
    BY <2>2 DEF Given
  <2>3. ASSUME NEW i \in DOMAIN s, top[k] = s[i][k] PROVE top[k] \in ids[k] \cup {0}
    BY <2>3 DEF Given, Lines
  <2> QED
    BY <2>1, <2>2, <2>3
<1> QED
  BY <1>1 DEF Given

\* What a step that gives out no id has to keep.
LEMMA KnownStep ==
  ASSUME KnownInv, issued' = issued,
         \A r \in Lines(log') \cup Lines(events') : Given(r, issued),
         Given(metadata'.accepted, issued), Given(meta_file'.accepted, issued),
         \A c \in Clients : client'[c].id \in {client[c].id, Zero}
  PROVE  KnownInv'
<1>1. \A c \in Clients : Given(client'[c].id, issued)
  BY GivenZero DEF KnownInv
<1> QED
  BY <1>1 DEF KnownInv

LEMMA LifecycleKnown ==
  ASSUME RecordsInv, KnownInv, Initialize \/ InitializeFails \/ Reopen \/ Crash \/ CrashInWrite
  PROVE  KnownInv'
<1>0. /\ \A r \in Lines(log) \cup Lines(events) : Given(r, issued)
      /\ Given(metadata.accepted, issued) /\ Given(meta_file.accepted, issued)
      /\ Given(ZeroMetadata.accepted, issued)
  BY GivenZero DEF KnownInv
<1>1. CASE Initialize
  <2>1. /\ metadata' = ZeroMetadata /\ meta_file' = ZeroMetadata
        /\ UNCHANGED <<events, log, client, issued>>
    BY <1>1 DEF Initialize, logVars
  <2> QED
    BY <1>0, <2>1, KnownStep
<1>2. CASE InitializeFails
  <2>1. UNCHANGED <<metadata, meta_file, events, log, client, issued>>
    BY <1>2 DEF InitializeFails, memVars, logVars
  <2> QED
    BY <1>0, <2>1, KnownStep
<1>3. CASE Reopen
  <2>1. PICK n \in Prunable(log) : events' = Pruned(log, n) /\ Repair(n)
    BY <1>3 DEF Reopen
  <2>2. Lines(events') \subseteq Lines(log)
    BY <2>1, PrunedLines DEF RecordsInv
  <2>3. log' = events' \/ log' = log
    BY <2>1 DEF Repair, logVars
  <2>4. metadata' = meta_file /\ UNCHANGED <<meta_file, client, issued>>
    BY <1>3 DEF Reopen
  <2>5. \A r \in Lines(log') \cup Lines(events') : Given(r, issued)
    BY <1>0, <2>2, <2>3
  <2> QED
    BY <1>0, <2>4, <2>5, KnownStep
<1>4. CASE Crash \/ CrashInWrite
  <2>1. /\ metadata' = ZeroMetadata /\ events' = << >> /\ client' = [c \in Clients |-> Idle]
        /\ UNCHANGED <<meta_file, log, issued>>
    BY <1>4 DEF Crash, CrashInWrite, Forget, logVars
  <2>2. Lines(events') = {}
    BY <2>1 DEF Lines
  <2>3. \A c \in Clients : client'[c].id = Zero
    BY <2>1 DEF Idle
  <2> QED
    BY <1>0, <2>1, <2>2, <2>3, KnownStep
<1> QED
  BY <1>1, <1>2, <1>3, <1>4

\* Giving out an id.
LEMMA IssueKnown ==
  ASSUME IdInv, KnownInv, NEW c \in Clients, NEW kind \in Kinds, NEW phase \in Phases,
         Issue(c, kind, phase)
  PROVE  KnownInv'
<1>0. /\ client \in [Clients -> Handler] /\ issued \in [Kinds -> SUBSET Nat]
      /\ metadata \in Metadata /\ meta_file \in Metadata /\ client[c].id \in Counters
  BY DEF IdInv, IdTypes, Handler
<1>1. /\ \A k \in Kinds : issued[k] \subseteq issued'[k]
      /\ next[kind] \in issued'[kind]
  BY <1>0 DEF Issue
<1>2. UNCHANGED <<events, log>>
  BY DEF Issue, logVars
<1>3. \A r \in Lines(log') \cup Lines(events') : Given(r, issued')
  BY <1>1, <1>2, GivenGrows DEF KnownInv
<1>4. metadata'.accepted = metadata.accepted
      /\ meta_file'.accepted \in {metadata.accepted, meta_file.accepted}
  BY <1>0 DEF Issue, Reserve, Metadata
<1>5. Given(metadata'.accepted, issued') /\ Given(meta_file'.accepted, issued')
  BY <1>1, <1>4, GivenGrows DEF KnownInv
<1>6. ASSUME NEW d \in Clients PROVE Given(client'[d].id, issued')
  <2>1. CASE d # c
    <3>1. client'[d] = client[d]
      BY <1>0, <2>1 DEF Issue
    <3> QED
      BY <1>1, <3>1, GivenGrows DEF KnownInv
  <2>2. CASE d = c
    <3>1. client'[c].id = [client[c].id EXCEPT ![kind] = next[kind]]
      BY <1>0 DEF Issue, Holding
    <3>2. Given(client[c].id, issued')
      BY <1>1, GivenGrows DEF KnownInv
    <3> QED
      BY <1>0, <1>1, <2>2, <3>1, <3>2 DEF Given, Counters
  <2> QED
    BY <2>1, <2>2
<1> QED
  BY <1>3, <1>5, <1>6 DEF KnownInv

LEMMA AcceptedField ==
  ASSUME NEW m \in Metadata, NEW a
  PROVE  [m EXCEPT !.accepted = a].accepted = a
BY DEF Metadata

LEMMA HandlerKnown ==
  ASSUME IdInv, RecordsInv, KnownInv, NEW c \in Clients,
         \/ StartRequest(c) \/ Admit(c) \/ Probe(c) \/ ProbeFails(c) \/ Clear(c)
         \/ Name(c) \/ Degrade(c) \/ \E kind \in Kinds : ReserveFails(c, kind)
         \/ WriteRecord(c) \/ Compact(c) \/ Accept(c)
         \/ WriteFails(c) \/ WriteTears(c) \/ CompactFails(c) \/ AcceptFails(c)
         \/ Effect(c) \/ Done(c)
  PROVE  KnownInv'
<1>0. /\ \A r \in Lines(log) \cup Lines(events) : Given(r, issued)
      /\ Given(metadata.accepted, issued) /\ Given(meta_file.accepted, issued)
      /\ Given(client[c].id, issued)
      /\ log \in Seq(Counters) /\ events \in Seq(Counters)
  BY DEF KnownInv, RecordsInv
<1>a. /\ IdTypes /\ metadata \in Metadata /\ meta_file \in Metadata
      /\ client[c].id \in Counters /\ client[c].stage \in Stages
  BY DEF IdInv, IdTypes, Handler
<1>b. /\ {"admitted", "new", "named", "compact", "meta", "probing", "recovered", "lost"} \subseteq Phases
      /\ {"before", "after", "emergency"} \subseteq Stages
  BY DEF Phases, Stages
<1>c. ASSUME LoseRecord(c)
      PROVE  \A d \in Clients : client'[d].id \in {client[d].id, Zero}
  <2>1. \/ \E phase \in Phases, stage \in Stages : Move(c, phase, stage)
        \/ client' = [client EXCEPT ![c] = Idle]
    BY <1>a, <1>b, <1>c DEF LoseRecord, Stages
  <2> QED
    BY <1>a, <2>1, ClientMoves
<1>d. ASSUME WriteLine(client[c].id)
      PROVE  \A r \in Lines(log') : Given(r, issued)
  <2>1. log' = log \/ log' = Append(log, client[c].id)
    BY <1>d DEF WriteLine
  <2>2. Lines(Append(log, client[c].id)) = Lines(log) \cup {client[c].id}
    BY <1>0, <1>a, AppendLines
  <2> QED
    BY <1>0, <2>1, <2>2
<1>1. CASE StartRequest(c) \/ Name(c)
  BY <1>1, <1>b, IssueKnown DEF StartRequest, Name, Kinds
<1>2. CASE Admit(c) \/ Clear(c) \/ Degrade(c) \/ Effect(c) \/ Done(c)
  <2>1. /\ UNCHANGED <<metadata, meta_file, events, log, issued>>
        /\ \/ \E phase \in Phases, stage \in Stages : Move(c, phase, stage)
           \/ client' = [client EXCEPT ![c] = Idle]
    BY <1>2, <1>b DEF Admit, Clear, Degrade, Effect, Done, memVars, logVars
  <2>2. \A d \in Clients : client'[d].id \in {client[d].id, Zero}
    BY <1>a, <2>1, ClientMoves
  <2> QED
    BY <1>0, <2>1, <2>2, KnownStep
<1>3. CASE \E kind \in Kinds : ReserveFails(c, kind)
  <2>1. PICK kind \in Kinds : ReserveFails(c, kind)
    BY <1>3
  <2>2. /\ UNCHANGED <<metadata, events, log, issued>> /\ LoseRecord(c)
        /\ meta_file' \in {meta_file, Reserve(kind)}
    BY <2>1 DEF ReserveFails, logVars
  <2>3. Reserve(kind).accepted = metadata.accepted
    BY <1>a DEF Reserve, Metadata
  <2> QED
    BY <1>0, <1>c, <2>2, <2>3, KnownStep
<1>4. CASE Probe(c)
  <2>1. PICK n \in Prunable(log) : events' = Pruned(log, n) /\ Repair(n)
    BY <1>4 DEF Probe
  <2>2. Lines(events') \subseteq Lines(log)
    BY <1>0, <2>1, PrunedLines
  <2>3. log' = events' \/ log' = log
    BY <2>1 DEF Repair, logVars
  <2>4. PICK top \in Tops(meta_file, log) : metadata' = [meta_file EXCEPT !.accepted = top]
    BY <1>4 DEF Probe
  <2>5. Given(top, issued)
    BY <1>0, GivenTops
  <2>6. metadata'.accepted = top /\ meta_file' = metadata' /\ issued' = issued
        /\ Move(c, "recovered", "before")
    BY <1>4, <1>a, <2>4, AcceptedField DEF Probe
  <2>7. \A d \in Clients : client'[d].id \in {client[d].id, Zero}
    BY <1>a, <1>b, <2>6, ClientMoves
  <2>8. \A r \in Lines(log') \cup Lines(events') : Given(r, issued)
    BY <1>0, <2>2, <2>3
  <2> QED
    BY <2>5, <2>6, <2>7, <2>8, KnownStep
<1>5. CASE ProbeFails(c)
  <2>1. UNCHANGED <<metadata, events, issued>> /\ client' = [client EXCEPT ![c] = Idle]
    BY <1>5 DEF ProbeFails
  <2>2. \A d \in Clients : client'[d].id \in {client[d].id, Zero}
    BY <1>a, <2>1, ClientMoves
  <2>3. log' = log \/ \E n \in Prunable(log) : log' = Pruned(log, n)
    BY <1>5 DEF ProbeFails, logVars
  <2>4. Lines(log') \subseteq Lines(log)
    BY <1>0, <2>3, PrunedLines
  <2>5. meta_file' = meta_file
        \/ \E top \in Tops(meta_file, log) : meta_file' = [meta_file EXCEPT !.accepted = top]
    BY <1>5 DEF ProbeFails
  <2>6. Given(meta_file'.accepted, issued)
    <3>1. ASSUME NEW top \in Tops(meta_file, log), meta_file' = [meta_file EXCEPT !.accepted = top]
          PROVE  Given(meta_file'.accepted, issued)
      BY <1>0, <1>a, <3>1, GivenTops, AcceptedField
    <3> QED
      BY <1>0, <2>5, <3>1
  <2> QED
    BY <1>0, <2>1, <2>2, <2>4, <2>6, KnownStep
<1>6. CASE WriteRecord(c)
  <2> DEFINE kept == Append(events, client[c].id)
             top == [k \in Kinds |-> Highest(metadata.accepted[k], client[c].id[k])]
  <2>1. /\ UNCHANGED <<meta_file, issued>> /\ WriteLine(client[c].id)
        /\ metadata' = [metadata EXCEPT !.accepted = top]
        /\ \E phase \in Phases, stage \in Stages : Move(c, phase, stage)
    BY <1>6, <1>a, <1>b DEF WriteRecord
  <2>2. PICK n \in Prunable(kept) : events' = Pruned(kept, n)
    BY <1>6 DEF WriteRecord
  <2>3. kept \in Seq(Counters) /\ Lines(kept) = Lines(events) \cup {client[c].id}
    BY <1>0, <1>a, AppendLines
  <2> HIDE DEF kept
  <2>4. Lines(events') \subseteq Lines(events) \cup {client[c].id}
    BY <2>2, <2>3, PrunedLines
  <2>5. Given(top, issued)
    BY <1>0, GivenHighest
  <2> HIDE DEF top
  <2>6. metadata'.accepted = top
    BY <1>a, <2>1, AcceptedField
  <2>7. \A d \in Clients : client'[d].id \in {client[d].id, Zero}
    BY <1>a, <2>1, ClientMoves
  <2>8. \A r \in Lines(log') \cup Lines(events') : Given(r, issued)
    BY <1>0, <1>d, <2>1, <2>4
  <2> QED
    BY <1>0, <2>1, <2>5, <2>6, <2>7, <2>8, KnownStep
<1>7. CASE Compact(c) \/ Accept(c)
  <2>1. /\ UNCHANGED <<metadata, events, issued>> /\ meta_file' \in {meta_file, metadata}
        /\ log' \in {log, events}
        /\ \E phase \in Phases, stage \in Stages : Move(c, phase, stage)
    BY <1>7, <1>a, <1>b DEF Compact, Accept, memVars, logVars
  <2>2. \A d \in Clients : client'[d].id \in {client[d].id, Zero}
    BY <1>a, <2>1, ClientMoves
  <2> QED
    BY <1>0, <2>1, <2>2, KnownStep
<1>8. CASE WriteFails(c) \/ WriteTears(c) \/ CompactFails(c) \/ AcceptFails(c)
  <2>1. /\ UNCHANGED <<metadata, events, issued>> /\ meta_file' \in {meta_file, metadata}
        /\ log' \in {log, events} \/ WriteLine(client[c].id)
        /\ LoseRecord(c)
    BY <1>8 DEF WriteFails, WriteTears, CompactFails, AcceptFails, AppendError, logVars
  <2>2. \A r \in Lines(log') : Given(r, issued)
    BY <1>0, <1>d, <2>1
  <2> QED
    BY <1>0, <1>c, <2>1, <2>2, KnownStep
<1> QED
  BY <1>1, <1>2, <1>3, <1>4, <1>5, <1>6, <1>7, <1>8

LEMMA InitKnown == Init => KnownInv
<1> SUFFICES ASSUME Init PROVE KnownInv
  OBVIOUS
<1>1. Lines(log) = {} /\ Lines(events) = {}
  BY DEF Init, Lines
<1>2. \A c \in Clients : client[c].id = Zero
  BY DEF Init, Idle
<1> QED
  BY <1>1, <1>2, GivenZero DEF Init, KnownInv

LEMMA NextKnown == IdInv /\ RetainInv /\ KnownInv /\ [Next]_vars => KnownInv'
<1> SUFFICES ASSUME IdInv, RecordsInv, KnownInv, [Next]_vars PROVE KnownInv'
  BY DEF RetainInv
<1>1. CASE UNCHANGED vars
  BY <1>1 DEF vars, memVars, logVars, KnownInv
<1>2. CASE Initialize \/ InitializeFails \/ Reopen \/ Crash \/ CrashInWrite
  BY <1>2, LifecycleKnown
<1>3. CASE \E c \in Clients :
            \/ StartRequest(c) \/ Admit(c) \/ Probe(c) \/ ProbeFails(c) \/ Clear(c)
            \/ Name(c) \/ Degrade(c) \/ \E kind \in Kinds : ReserveFails(c, kind)
            \/ WriteRecord(c) \/ Compact(c) \/ Accept(c)
            \/ WriteFails(c) \/ WriteTears(c) \/ CompactFails(c) \/ AcceptFails(c)
            \/ Effect(c) \/ Done(c)
  BY <1>3, HandlerKnown
<1> QED
  BY <1>1, <1>2, <1>3 DEF Next

\* Every recorded and every accepted id is within what the metadata file reserves,
\* at every moment the process may die (the check of open and try_recover that
\* calls a store inconsistent), for any number of handlers and all faults.
THEOREM RecordsStayReserved == Spec => []LogWithinReservation
<1>1. ASSUME IdInv, NEW r, Given(r, issued), NEW k \in Kinds
      PROVE  r[k] <= meta_file.reserved[k]
  <2>1. \A id \in issued[k] : id <= meta_file.reserved[k]
    BY <1>1 DEF IdInv, ReservationInv
  <2>2. meta_file.reserved[k] \in Nat
    BY <1>1 DEF IdInv, IdTypes, Metadata, Counters
  <2> QED
    BY <1>1, <2>1, <2>2 DEF Given
<1>2. IdInv /\ KnownInv => LogWithinReservation
  <2> SUFFICES ASSUME IdInv, KnownInv PROVE LogWithinReservation
    OBVIOUS
  <2>1. \A k \in Kinds : meta_file.accepted[k] <= meta_file.reserved[k]
    BY <1>1 DEF KnownInv
  <2>2. \A k \in Kinds : \A i \in DOMAIN log : log[i][k] <= meta_file.reserved[k]
    BY <1>1 DEF KnownInv, Lines
  <2> QED
    BY <2>1, <2>2 DEF LogWithinReservation
<1> QED
  BY InitIds, NextIds, InitRetains, NextRetains, InitKnown, NextKnown, <1>2, PTL DEF Spec
=============================================================================
