----------------------------- MODULE AuditStore -----------------------------
(***************************************************************************)
(* The durable security audit store and the requests that write to it.     *)
(*                                                                         *)
(* A request takes a request id, and for each of its records an event      *)
(* identity, and then appends the record.  These are separate critical     *)
(* sections of the store's mutex.  Ids come from ranges that are reserved  *)
(* in the metadata file first.  An append writes one line to the log,      *)
(* prunes the retained records, rewrites the log if it pruned any, and     *)
(* records the accepted ids in the metadata file.                          *)
(*                                                                         *)
(* The event id and the service sequence are allocated and reserved        *)
(* together and start together; "event" stands for both.  A record is the  *)
(* pair of its ids.  Sizes are counted in lines, all of the length that a  *)
(* record of the maximum size has.  Retention by age is a choice of how    *)
(* many old records go.  The service runs secured: audit is mandatory.     *)
(***************************************************************************)
EXTENDS Naturals, Sequences

CONSTANTS
  Clients,           \* request handlers that run concurrently
  ReservationRange,  \* COUNTER_RESERVATION_RANGE
  MaxEvents,         \* max_events: how many records are retained
  MaxBytes,          \* max_bytes, in lines of SECURITY_AUDIT_MAX_EVENT_BYTES
  MaxId,             \* bound on the ids a behaviour takes
  Faults             \* what may go wrong in a live process

ASSUME AuditAssumption ==
  /\ ReservationRange \in Nat \ {0}
  /\ MaxEvents \in Nat \ {0}
  /\ MaxBytes \in Nat \ {0}
  /\ MaxId \in Nat
  /\ Faults \subseteq {"io", "torn"}

Kinds    == {"event", "request"}
Counters == [Kinds -> Nat]
Metadata == [reserved : Counters, accepted : Counters]

VARIABLES
  up,              \* a process has the store open
  metadata,        \* StoreState: metadata, events, the next ids, degraded
  events,
  next,
  degraded,
  audit_degraded,  \* the service's flag: a record after an effect was lost
  client,          \* per handler: where it is, the ids it holds, its stage
  meta_state,      \* the metadata file does not exist, is cut short, or is whole
  meta_file,       \* and what it then says
  log,             \* the records of the complete lines of the log
  torn,            \* an unterminated line follows them
  malformed,       \* a complete line cannot be parsed
  issued,          \* history: the ids given out, ever
  acked            \* history: accepted records that retention has not removed

memVars  == <<metadata, events, next, degraded, audit_degraded>>
logVars  == <<log, torn, malformed>>
vars == <<up, memVars, client, meta_state, meta_file, logVars, issued, acked>>

Zero == [k \in Kinds |-> 0]
ZeroMetadata == [reserved |-> Zero, accepted |-> Zero]
Idle == [phase |-> "idle", id |-> Zero, stage |-> "before"]
Phases == {"idle", "new", "probing", "recovered", "admitted", "named", "compact", "meta", "lost"}
Stages == {"before", "after", "emergency"}  \* the effect, and the record of a lost record
Handler == [phase : Phases, id : Counters, stage : Stages]

TypeOK ==
  /\ up \in BOOLEAN
  /\ metadata \in Metadata
  /\ events \in Seq(Counters)
  /\ next \in Counters
  /\ degraded \in BOOLEAN
  /\ audit_degraded \in BOOLEAN
  /\ client \in [Clients -> Handler]
  /\ meta_state \in {"missing", "malformed", "whole"}
  /\ meta_file \in Metadata
  /\ log \in Seq(Counters)
  /\ torn \in BOOLEAN
  /\ malformed \in BOOLEAN
  /\ issued \in [Kinds -> SUBSET Nat]
  /\ acked \subseteq Counters

Forget ==
  /\ up' = FALSE
  /\ metadata' = ZeroMetadata
  /\ events' = << >>
  /\ next' = Zero
  /\ degraded' = FALSE
  /\ audit_degraded' = FALSE
  /\ client' = [c \in Clients |-> Idle]

Init ==
  /\ up = FALSE
  /\ metadata = ZeroMetadata
  /\ events = << >>
  /\ next = Zero
  /\ degraded = FALSE
  /\ audit_degraded = FALSE
  /\ client = [c \in Clients |-> Idle]
  /\ meta_state = "missing"
  /\ meta_file = ZeroMetadata
  /\ log = << >>
  /\ torn = FALSE
  /\ malformed = FALSE
  /\ issued = [k \in Kinds |-> {}]
  /\ acked = {}

-----------------------------------------------------------------------------
(***************************************************************************)
(* Opening.                                                                *)
(***************************************************************************)
AboveAccepted(m) == [k \in Kinds |-> m.accepted[k] + 1]

AboveReserved(m) == [k \in Kinds |-> m.reserved[k] + 1]

\* The first open: write_new_metadata, then an empty store.
Initialize ==
  /\ ~up /\ meta_state = "missing"
  /\ up' = TRUE
  /\ meta_state' = "whole"
  /\ meta_file' = ZeroMetadata
  /\ metadata' = ZeroMetadata
  /\ next' = AboveReserved(ZeroMetadata)
  /\ UNCHANGED <<events, degraded, audit_degraded, client, logVars, issued, acked>>

\* It ends in the middle of the file; no later open gets past that.
InitializeFails ==
  /\ ~up /\ meta_state = "missing"
  /\ meta_state' = "malformed"
  /\ UNCHANGED <<up, memVars, client, meta_file, logVars, issued, acked>>

\* What read_records and the loops of open and try_recover insist on: the size
\* of the file, whole lines up to the last, their order and their ids.  The checks
\* of a single record (version, store, sizes of its fields) are the ones it passed
\* when append wrote it, so only a line that is not a record fails them.
Physical == Len(log) + (IF torn THEN 1 ELSE 0)

Ordered(s) == \A i, j \in DOMAIN s : i < j => s[i]["event"] < s[j]["event"]

Readable(m) ==
  /\ Physical <= MaxBytes + 1
  /\ ~malformed
  /\ Ordered(log)
  /\ \A k \in Kinds :
       /\ m.accepted[k] <= m.reserved[k]
       /\ \A i \in DOMAIN log : log[i][k] <= m.reserved[k]

PrunedShort(s, n) == SubSeq(s, n + 2, Len(s))

\* prune_retention: the n oldest records of s go.
Pruned(s, n) == SubSeq(s, n + 1, Len(s))
Prunable(s)  == {n \in 0..Len(s) : Len(s) - n <= MaxEvents /\ Len(s) - n <= MaxBytes}
Gone(s, n)   == {s[i] : i \in 1..n}

\* compact, when the log is not what should be retained.
Repair(n) ==
  IF torn \/ n > 0
    THEN log' = events' /\ torn' = FALSE /\ malformed' = FALSE
    ELSE UNCHANGED logVars

\* A compaction that fails here leaves the files of a Reopen followed by a Crash.
Reopen ==
  /\ ~up /\ meta_state = "whole"
  /\ Readable(meta_file)
  /\ up' = TRUE
  /\ metadata' = meta_file
  /\ next' = AboveReserved(meta_file)
  /\ \E n \in Prunable(log) :
       /\ events' = Pruned(log, n)
       /\ acked' = acked \ Gone(log, n)
       /\ Repair(n)
  /\ UNCHANGED <<meta_state, degraded, audit_degraded, client, meta_file, issued>>

-----------------------------------------------------------------------------
(***************************************************************************)
(* Ids: allocate_request_id, allocate_event_identity.                      *)
(***************************************************************************)
\* Nobody is inside append, which holds the mutex from end to end.
Unlocked == \A c \in Clients : client[c].phase \notin {"compact", "meta"}

In(c, phase) == up /\ client[c].phase = phase
At(c, phase) == In(c, phase) /\ Unlocked

Move(c, phase, stage) ==
  client' = [client EXCEPT ![c] =
               [phase |-> phase, id |-> client[c].id, stage |-> stage]]

ExhaustedLate(kind) == next[kind] > metadata.reserved[kind] + 1

Exhausted(kind) == next[kind] > metadata.reserved[kind]

Reserve(kind) == [metadata EXCEPT !.reserved[kind] = @ + ReservationRange]

Holding(c, kind, phase) ==
  [phase  |-> phase,
   id     |-> [client[c].id EXCEPT ![kind] = next[kind]],
   stage  |-> client[c].stage]

\* The id and the handler's next phase; an exhausted range is extended first.
Issue(c, kind, phase) ==
  /\ next[kind] <= MaxId
  /\ IF Exhausted(kind)
       THEN metadata' = Reserve(kind) /\ meta_file' = metadata'
       ELSE UNCHANGED <<metadata, meta_file>>
  /\ next' = [next EXCEPT ![kind] = @ + 1]
  /\ issued' = [issued EXCEPT ![kind] = @ \cup {next[kind]}]
  /\ client' = [client EXCEPT ![c] = Holding(c, kind, phase)]
  /\ UNCHANGED <<up, meta_state, events, degraded, audit_degraded, logVars, acked>>

StartRequest(c) == At(c, "idle") /\ Issue(c, "request", "new")

Name(c) == At(c, "admitted") /\ Issue(c, "event", "named")

\* What a failed record means: before the effect the request is refused; after
\* it the service's flag is next; the emergency record is given up.
LoseRecord(c) ==
  CASE client[c].stage = "before"    -> client' = [client EXCEPT ![c] = Idle]
    [] client[c].stage = "after"     -> Move(c, "lost", "after")
    [] client[c].stage = "emergency" -> Move(c, "admitted", "after")

ReserveFailsKeeps(c, kind) ==
  /\ "io" \in Faults
  /\ At(c, IF kind = "request" THEN "idle" ELSE "admitted")
  /\ next[kind] <= MaxId
  /\ Exhausted(kind)
  /\ metadata' = Reserve(kind)
  /\ degraded' = TRUE
  /\ LoseRecord(c)
  /\ UNCHANGED <<up, meta_state, meta_file, events, next, audit_degraded, logVars, issued, acked>>

\* replace_metadata fails, before its rename or after it; the range is given
\* back in memory.
ReserveFails(c, kind) ==
  /\ "io" \in Faults
  /\ At(c, IF kind = "request" THEN "idle" ELSE "admitted")
  /\ next[kind] <= MaxId
  /\ Exhausted(kind)
  /\ meta_file' \in {meta_file, Reserve(kind)}
  /\ degraded' = TRUE
  /\ LoseRecord(c)
  /\ UNCHANGED <<up, meta_state, metadata, events, next, audit_degraded, logVars, issued, acked>>

\* The flag, and then the emergency record.
Degrade(c) ==
  /\ In(c, "lost")
  /\ audit_degraded' = TRUE
  /\ Move(c, "admitted", "emergency")
  /\ UNCHANGED <<up, meta_state, metadata, events, next, degraded, meta_file, logVars, issued, acked>>

-----------------------------------------------------------------------------
(***************************************************************************)
(* ensure_mandatory_audit_available, with try_recover.                     *)
(***************************************************************************)
\* The flag is read without the mutex, and cleared without it after the probe.
Admit(c) ==
  /\ In(c, "new")
  /\ Move(c, IF audit_degraded THEN "probing" ELSE "admitted", "before")
  /\ UNCHANGED <<up, meta_state, memVars, meta_file, logVars, issued, acked>>

Highest(a, b) == IF a < b THEN b ELSE a

\* The largest ids among the accepted ones and those of the log, which a readable
\* log keeps within the reserved ones.
Tops(m, s) ==
  {top \in [Kinds -> 0..Highest(m.reserved["event"], m.reserved["request"])] :
     \A k \in Kinds :
       LET seen == {m.accepted[k]} \cup {s[i][k] : i \in DOMAIN s} IN
       top[k] \in seen /\ \A id \in seen : id <= top[k]}

Probe(c) ==
  /\ At(c, "probing")
  /\ Readable(meta_file)
  /\ \E top \in Tops(meta_file, log) :
       metadata' = [meta_file EXCEPT !.accepted = top]
  /\ meta_file' = metadata'
  /\ next' = [k \in Kinds |-> Highest(next[k], meta_file.reserved[k] + 1)]
  /\ \E n \in Prunable(log) :
       /\ events' = Pruned(log, n)
       /\ acked' = acked \ Gone(log, n)
       /\ Repair(n)
  /\ degraded' = FALSE
  /\ Move(c, "recovered", "before")
  /\ UNCHANGED <<up, meta_state, audit_degraded, issued>>

Clear(c) ==
  /\ In(c, "recovered")
  /\ audit_degraded' = FALSE
  /\ Move(c, "admitted", "before")
  /\ UNCHANGED <<up, meta_state, metadata, events, next, degraded, meta_file, logVars, issued, acked>>

\* The probe fails and the request is refused.  The log may have been repaired
\* and the metadata replaced before; the state in memory stays as it was.
ProbeFails(c) ==
  /\ At(c, "probing")
  /\ \/ ~Readable(meta_file) /\ UNCHANGED <<meta_file, logVars, acked>>
     \/ /\ "io" \in Faults /\ Readable(meta_file)
        /\ \E n \in Prunable(log) :
             /\ log' = Pruned(log, n) /\ torn' = FALSE /\ malformed' = FALSE
             /\ acked' = acked \ Gone(log, n)
        /\ \/ UNCHANGED meta_file
           \/ \E top \in Tops(meta_file, log) :
                meta_file' = [meta_file EXCEPT !.accepted = top]
     \/ "io" \in Faults /\ UNCHANGED <<meta_file, logVars, acked>>
  /\ degraded' = TRUE
  /\ client' = [client EXCEPT ![c] = Idle]
  /\ UNCHANGED <<up, meta_state, metadata, events, next, audit_degraded, issued>>

-----------------------------------------------------------------------------
(***************************************************************************)
(* append.                                                                 *)
(***************************************************************************)
\* The bytes of a whole line; after an unterminated one they complete it.
WriteLine(r) ==
  /\ log' = IF torn \/ malformed THEN log ELSE Append(log, r)
  /\ malformed' = (torn \/ malformed)
  /\ torn' = FALSE

Within(r, m) == \A k \in Kinds : r[k] <= m.reserved[k]

\* The line is written and synced, the retained records are pruned.
WriteRecord(c) ==
  LET r == client[c].id
      kept == Append(events, r)
  IN
  /\ At(c, "named")
  /\ Within(r, metadata)
  /\ WriteLine(r)
  /\ metadata' = [metadata EXCEPT !.accepted =
                    [k \in Kinds |-> Highest(@[k], r[k])]]
  /\ \E n \in Prunable(kept) :
       /\ events' = Pruned(kept, n)
       /\ acked' = acked \ Gone(kept, n)
       /\ Move(c, IF n > 0 THEN "compact" ELSE "meta", client[c].stage)
  /\ UNCHANGED <<up, meta_state, next, degraded, audit_degraded, meta_file, issued>>

\* compact: the log becomes the retained records.
Compact(c) ==
  /\ In(c, "compact")
  /\ log' = events /\ torn' = FALSE /\ malformed' = FALSE
  /\ Move(c, "meta", client[c].stage)
  /\ UNCHANGED <<up, meta_state, memVars, meta_file, issued, acked>>

\* replace_metadata, and append returns Ok.
Accept(c) ==
  /\ In(c, "meta")
  /\ meta_file' = metadata
  /\ degraded' = FALSE
  /\ acked' = acked \cup ({client[c].id} \cap {events[i] : i \in DOMAIN events})
  /\ Move(c, "admitted", IF client[c].stage = "before" THEN "before" ELSE "after")
  /\ UNCHANGED <<up, meta_state, metadata, events, next, audit_degraded, logVars, issued>>

AppendError(c) ==
  /\ degraded' = TRUE
  /\ LoseRecord(c)
  /\ UNCHANGED <<up, meta_state, next, audit_degraded, issued, acked>>

\* Nothing was written, or the line was and the sync failed.
WriteFails(c) ==
  /\ "io" \in Faults
  /\ At(c, "named")
  /\ AppendError(c)
  /\ UNCHANGED logVars \/ WriteLine(client[c].id)
  /\ UNCHANGED <<metadata, events, meta_file>>

\* A part of the line was written.
WriteTears(c) ==
  /\ "torn" \in Faults
  /\ At(c, "named")
  /\ AppendError(c)
  /\ torn' = TRUE
  /\ UNCHANGED <<metadata, events, log, malformed, meta_file>>

\* Before the rename or after it.
CompactFails(c) ==
  /\ "io" \in Faults
  /\ In(c, "compact")
  /\ AppendError(c)
  /\ UNCHANGED logVars \/ (log' = events /\ torn' = FALSE /\ malformed' = FALSE)
  /\ UNCHANGED <<metadata, events, meta_file>>

AcceptFails(c) ==
  /\ "io" \in Faults
  /\ In(c, "meta")
  /\ AppendError(c)
  /\ meta_file' \in {meta_file, metadata}
  /\ UNCHANGED <<metadata, events, logVars>>

\* The handler's runtime call, whatever its outcome, once a record before it was
\* accepted; the records after it go through audit_append_post_effect.
Effect(c) ==
  /\ In(c, "admitted") /\ client[c].stage = "before"
  /\ client[c].id["event"] > 0
  /\ Move(c, "admitted", "after")
  /\ UNCHANGED <<up, meta_state, memVars, meta_file, logVars, issued, acked>>

\* The handler returns, with a response or an error.
Done(c) ==
  /\ In(c, "admitted") /\ client[c].stage # "emergency"
  /\ client' = [client EXCEPT ![c] = Idle]
  /\ UNCHANGED <<up, meta_state, memVars, meta_file, logVars, issued, acked>>

-----------------------------------------------------------------------------
Crash ==
  /\ up
  /\ Forget
  /\ UNCHANGED <<meta_state, meta_file, logVars, issued, acked>>

\* The crash falls into write_all.
CrashInWrite ==
  /\ up
  /\ \E c \in Clients : At(c, "named")
  /\ Forget
  /\ torn' = TRUE
  /\ UNCHANGED <<meta_state, meta_file, log, malformed, issued, acked>>

Next ==
  \/ Initialize \/ InitializeFails \/ Reopen \/ Crash \/ CrashInWrite
  \/ \E c \in Clients :
       \/ StartRequest(c) \/ Admit(c) \/ Probe(c) \/ ProbeFails(c) \/ Clear(c)
       \/ Name(c) \/ Degrade(c) \/ \E kind \in Kinds : ReserveFails(c, kind)
       \/ WriteRecord(c) \/ Compact(c) \/ Accept(c)
       \/ WriteFails(c) \/ WriteTears(c) \/ CompactFails(c) \/ AcceptFails(c)
       \/ Effect(c) \/ Done(c)

Spec == Init /\ [][Next]_vars

-----------------------------------------------------------------------------
(***************************************************************************)
(* Properties.                                                             *)
(***************************************************************************)
\* No id that start_audit_request or audit_append takes was given out before,
\* whatever the crashes, failed reservations and recovery probes in between.
NeverReissued ==
  [][\A c \in Clients :
       /\ StartRequest(c) => next["request"] \notin issued["request"]
       /\ Name(c) => next["event"] \notin issued["event"]]_vars

\* The ids a handler holds are reserved: append never meets the ids it refuses.
HeldIdsReserved ==
  \A c \in Clients : \A k \in Kinds : client[c].id[k] <= metadata.reserved[k]

\* Why no id is given out twice: the metadata file is never behind what is
\* reserved in memory, the next id is at most one past that, and every id given
\* out is below the next one while the store is open and reserved in the file
\* when it is not.
ReservationInv ==
  /\ up => meta_state = "whole"
  /\ meta_state = "missing" => \A k \in Kinds : issued[k] = {}
  /\ HeldIdsReserved
  /\ \A k \in Kinds :
       /\ metadata.reserved[k] <= meta_file.reserved[k]
       /\ \A id \in issued[k] : id <= meta_file.reserved[k]
       /\ ~up => metadata.reserved[k] = 0
       /\ up => /\ next[k] <= metadata.reserved[k] + 1
                /\ \A id \in issued[k] : id < next[k]

\* The records that append accepted can be read back from the log until
\* prune_retention removes them, whatever else fails.  The exception is a log with
\* a line that a live process tore and the next append continued: no load reads it,
\* until a compaction replaces it.
AckedRetained == malformed \/ acked \subseteq {log[i] : i \in DOMAIN log}

\* At every moment the process may die, each recorded id and each accepted one is
\* within what the metadata file reserves, or open would refuse the store as
\* inconsistent: also between a record and the metadata that accepts it, after
\* failed reservations, and while other handlers reserve, append or recover.
LogWithinReservation ==
  \A k \in Kinds :
    /\ meta_file.accepted[k] <= meta_file.reserved[k]
    /\ \A i \in DOMAIN log : log[i][k] <= meta_file.reserved[k]

\* docs/security/security-audit.md calls the store "an ordered list of typed
\* immutable `SecurityAuditEvent` records", and open insists on the order: a store
\* that nothing else has touched could always be opened again.
AlwaysReadable == meta_state = "whole" => Readable(meta_file)
=============================================================================
