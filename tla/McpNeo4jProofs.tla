--------------------------- MODULE McpNeo4jProofs ---------------------------
(***************************************************************************)
(* Proofs about McpNeo4j, for any number of concurrent tool calls, any     *)
(* requests and every fault: the two mutexes keep the schema in memory and *)
(* the schema memory file together, and the locks of Neo4j keep its        *)
(* relationships between the nodes that they are meant for.                *)
(***************************************************************************)
EXTENDS McpNeo4j, TLAPS

Writers == {"define", "checkpoint"}

\* A call is a record of these fields.
IsCall(x) ==
  x \in [phase : {x.phase}, locks : {x.locks}, request : {x.request}, staged : {x.staged},
         next : {x.next}, checked : {x.checked}, ref : {x.ref}, tx : {x.tx}]

\* A waiting call holds the mutexes that it no longer waits for.
Waits(c, x, h) ==
  /\ x.next = 1
  /\ x.request.tool \in Writers =>
       /\ x.locks \in {<<"schema_write", "state">>, <<"state">>, <<>>}
       /\ x.locks # <<"schema_write", "state">> => h["schema_write"] = c
  /\ x.request.tool \in Batches =>
       x.locks \in {<<"schema_write">>, <<>>} /\ (x.locks = <<>> => h["schema_write"] = c)
  /\ x.request.tool = "single" => x.locks = <<>>

\* A batch keeps neo4j_schema_write from its snapshot on, and what it has staged
\* is the schema as it still is and the definitions it has gone through.
Stages(c, x, h, s) ==
  /\ x.locks = <<>>
  /\ x.request.tool \in Batches \cup {"single"}
  /\ x.request.tool \in Batches =>
       /\ h["schema_write"] = c
       /\ x.next \in 1..(Len(x.request.ops) + 1)
       /\ x.staged = s \cup DefinedBy(x.request.ops, x.next - 1)

CallInv(c, x, h, s) ==
  /\ IsCall(x)
  /\ x.phase \in {"idle", "called", "tx", "install"}
  /\ x.phase = "idle" => x = Idle
  /\ x.phase # "idle" => x.request \in Requests
  /\ x.phase = "called" => Waits(c, x, h)
  /\ x.phase \in {"tx", "install"} => Stages(c, x, h, s)
  /\ x.phase = "install" =>
       x.request.tool \in Batches /\ x.next = Len(x.request.ops) + 1

CallsInv ==
  /\ DOMAIN call = Calls /\ call = [c \in Calls |-> call[c]]
  /\ holder \in [Mutexes -> Calls \cup {None}]
  /\ \A c \in Calls : CallInv(c, call[c], holder, schema)
  /\ ~up => \A c \in Calls : call[c] = Idle

\* The schema is made of models, and a running server has a file.
FileInv ==
  /\ schema \subseteq Models /\ log \subseteq Models
  /\ base = None \/ base \subseteq Models
  /\ up => base # None
  /\ base = None => log = {}

\* The lines of the log, readable or not, and the schema of a running server.
LinesInv == up => Recovered \subseteq schema /\ schema \subseteq Recovered \cup unsaved

McpInv == CallsInv /\ FileInv /\ LinesInv

-----------------------------------------------------------------------------
(***************************************************************************)
(* Requests and their definitions.                                         *)
(***************************************************************************)
LEMMA RequestOps ==
  ASSUME NEW r \in Requests
  PROVE  /\ r.tool \in Writers \cup {"single"} \cup Batches
         /\ r.ops \in Seq(Operation) /\ Len(r.ops) \in Nat
         /\ \A i \in 1..Len(r.ops) : r.ops[i].model \in Models
         /\ r.tool = "define" => Len(r.ops) = 1 /\ r.ops[1].op = "define"
  <1>1. r \in Request
    BY RequestAssumption
  <1>2. r.ops \in Seq(Operation) /\ Len(r.ops) \in Nat
    BY <1>1 DEF Request
  <1>3. \A op \in Operation : op.model \in Models
    BY DEF Operation, Models
  <1>4. \A i \in 1..Len(r.ops) : r.ops[i] \in Operation
    BY <1>2
  <1>5. QED
    BY <1>1, <1>2, <1>3, <1>4, RequestAssumption DEF Request, Writers

LEMMA DefinedModels ==
  ASSUME NEW r \in Requests, NEW n \in 0..Len(r.ops)
  PROVE  /\ DefinedBy(r.ops, n) \subseteq Models
         /\ DefinedBy(r.ops, n) \subseteq DefinedBy(r.ops, Len(r.ops))
  <1>1. Len(r.ops) \in Nat /\ \A i \in 1..Len(r.ops) : r.ops[i].model \in Models
    BY RequestOps
  <1>2. \A i \in 1..n : i \in 1..Len(r.ops)
    BY <1>1
  <1>3. QED
    BY <1>1, <1>2 DEF DefinedBy

\* One operation more.
LEMMA DefinedNext ==
  ASSUME NEW ops, NEW n \in Nat \ {0}
  PROVE  DefinedBy(ops, n) =
           DefinedBy(ops, n - 1) \cup IF ops[n].op = "define" THEN {ops[n].model} ELSE {}
  <1>1. 1..n = (1..(n - 1)) \cup {n}
    OBVIOUS
  <1>2. QED
    BY <1>1 DEF DefinedBy

LEMMA DefinedNone ==
  ASSUME NEW ops
  PROVE  DefinedBy(ops, 0) = {}
  BY DEF DefinedBy

-----------------------------------------------------------------------------
(***************************************************************************)
(* The mutexes.                                                            *)
(***************************************************************************)
LEMMA IdleCall ==
  /\ IsCall(Idle)
  /\ Idle.phase = "idle"
  /\ \A c, h, s : CallInv(c, Idle, h, s)
  BY DEF IsCall, Idle, CallInv

\* A call that has not moved: nobody else takes its mutexes from it, and nobody
\* else moves the schema while it holds neo4j_schema_write.
LEMMA CallKept ==
  ASSUME NEW c, NEW x, NEW h, NEW i, NEW s, NEW t, CallInv(c, x, h, s),
         \A m \in Mutexes : h[m] = c => i[m] = c,
         t = s \/ h["schema_write"] # c
  PROVE  CallInv(c, x, i, t)
  <1>1. h["schema_write"] = c => i["schema_write"] = c
    BY DEF Mutexes
  <1>2. Waits(c, x, h) => Waits(c, x, i)
    BY <1>1 DEF Waits
  <1>3. Stages(c, x, h, s) => Stages(c, x, i, t)
    BY <1>1 DEF Stages
  <1>4. QED
    BY <1>2, <1>3 DEF CallInv

\* A step of call c.
LEMMA CallStep ==
  ASSUME CallsInv, NEW c \in Calls, NEW y, call' = [call EXCEPT ![c] = y],
         CallInv(c, y, holder', schema'),
         holder' \in [Mutexes -> Calls \cup {None}],
         \A m \in Mutexes, d \in Calls \ {c} : holder[m] = d => holder'[m] = d,
         schema' = schema \/ holder["schema_write"] = c,
         up, up' = up
  PROVE  CallsInv'
  <1>1. /\ DOMAIN call' = Calls /\ call' = [d \in Calls |-> call'[d]]
        /\ call'[c] = y /\ \A d \in Calls \ {c} : call'[d] = call[d]
    BY DEF CallsInv
  <1>2. ASSUME NEW d \in Calls \ {c} PROVE CallInv(d, call'[d], holder', schema')
    <2>1. CallInv(d, call[d], holder, schema)
      BY DEF CallsInv
    <2>2. CallInv(d, call[d], holder', schema')
      BY <2>1, CallKept
    <2>3. QED
      BY <1>1, <2>2
  <1>3. \A d \in Calls : CallInv(d, call'[d], holder', schema')
    BY <1>1, <1>2
  <1>4. QED
    BY <1>1, <1>3 DEF CallsInv

\* Call c answers and gives back its mutexes.
LEMMA AnswerStep ==
  ASSUME CallsInv, NEW c \in Calls, Answer(c),
         schema' = schema \/ holder["schema_write"] = c, up, up' = up
  PROVE  CallsInv'
  <1>1. call' = [call EXCEPT ![c] = Idle] /\ CallInv(c, Idle, holder', schema')
    BY IdleCall DEF Answer
  <1>2. /\ holder' \in [Mutexes -> Calls \cup {None}]
        /\ \A m \in Mutexes, d \in Calls \ {c} : holder[m] = d => holder'[m] = d
    BY DEF Answer, CallsInv
  <1>3. QED
    BY <1>1, <1>2, CallStep

\* A call that does anything is one that the running server has received.
LEMMA Active ==
  ASSUME CallsInv, NEW c \in Calls, call[c].phase # "idle"
  PROVE  /\ up /\ CallInv(c, call[c], holder, schema) /\ IsCall(call[c])
         /\ call[c].request \in Requests
  BY IdleCall DEF CallsInv, CallInv

LEMMA ReceiveStep ==
  ASSUME CallsInv, NEW c \in Calls, Receive(c)
  PROVE  CallsInv'
  <1>1. PICK r \in Requests :
          /\ up /\ call[c] = Idle
          /\ call' = [call EXCEPT ![c] = [Idle EXCEPT !.phase = "called", !.locks = Locks(r), !.request = r]]
          /\ UNCHANGED <<up, schema, holder>>
    BY DEF Receive
  <1> DEFINE y == [Idle EXCEPT !.phase = "called", !.locks = Locks(r), !.request = r]
  <1>2. /\ y.phase = "called" /\ y.locks = Locks(r) /\ y.request = r /\ y.next = 1
        /\ IsCall(y)
    BY DEF Idle, IsCall
  <1> HIDE DEF y
  <1>3. Waits(c, y, holder)
    BY <1>2, RequestOps DEF Waits, Locks, Writers, Batches
  <1>4. CallInv(c, y, holder, schema)
    BY <1>2, <1>3 DEF CallInv
  <1>5. QED
    BY <1>1, <1>4, CallStep DEF CallsInv, y

\* The next mutex that a call waits for, and the ones after it.
LEMMA NextLock ==
  ASSUME NEW l
  PROVE  /\ l = <<"schema_write", "state">> => Head(l) = "schema_write" /\ Tail(l) = <<"state">>
         /\ l = <<"state">> => Head(l) = "state" /\ Tail(l) = <<>>
         /\ l = <<"schema_write">> => Head(l) = "schema_write" /\ Tail(l) = <<>>
  <1>1. ASSUME l = <<"schema_write", "state">>
        PROVE  Head(l) = "schema_write" /\ Tail(l) = <<"state">>
    BY <1>1
  <1>2. ASSUME NEW m, l = <<m>> PROVE Head(l) = m /\ Tail(l) = <<>>
    BY <1>2
  <1>3. QED
    BY <1>1, <1>2, Zenon

LEMMA AcquireStep ==
  ASSUME CallsInv, NEW c \in Calls, Acquire(c)
  PROVE  CallsInv'
  <1> DEFINE x == call[c]
             m == Head(x.locks)
             y == [x EXCEPT !.locks = Tail(@)]
  <1>1. /\ x.locks # <<>> /\ holder[m] = None
        /\ holder' = [holder EXCEPT ![m] = c] /\ call' = [call EXCEPT ![c] = y]
        /\ UNCHANGED <<up, schema>>
    BY DEF Acquire
  <1>2. x.phase # "idle"
    BY <1>1 DEF CallsInv, CallInv, Idle
  <1>3. up /\ CallInv(c, x, holder, schema) /\ IsCall(x) /\ x.request \in Requests
    BY <1>2, Active
  <1>4. x.phase = "called" /\ Waits(c, x, holder)
    BY <1>1, <1>2, <1>3 DEF CallInv, Stages
  <1>5. /\ y.phase = x.phase /\ y.request = x.request /\ y.next = x.next
        /\ y.locks = Tail(x.locks) /\ IsCall(y)
    BY <1>3 DEF IsCall
  <1>6. /\ x.locks \in {<<"schema_write", "state">>, <<"state">>, <<"schema_write">>}
        /\ x.locks = <<"state">> => holder["schema_write"] = c
    BY <1>1, <1>3, <1>4, RequestOps DEF Waits
  <1>7. /\ x.locks = <<"schema_write", "state">> => m = "schema_write" /\ Tail(x.locks) = <<"state">>
        /\ x.locks = <<"state">> => m = "state" /\ Tail(x.locks) = <<>>
        /\ x.locks = <<"schema_write">> => m = "schema_write" /\ Tail(x.locks) = <<>>
    BY NextLock
  <1> HIDE DEF y, m
  <1>8. m \in Mutexes /\ holder' \in [Mutexes -> Calls \cup {None}] /\ holder'[m] = c
        /\ \A n \in Mutexes \ {m} : holder'[n] = holder[n]
    BY <1>1, <1>6, <1>7 DEF CallsInv, Mutexes
  <1>9. holder'["schema_write"] = c
    BY <1>6, <1>7, <1>8 DEF Mutexes
  <1>10. Waits(c, y, holder')
    BY <1>3, <1>4, <1>5, <1>6, <1>7, <1>9, RequestOps DEF Waits, Writers, Batches
  <1>11. CallInv(c, y, holder', schema')
    BY <1>3, <1>4, <1>5, <1>10 DEF CallInv
  <1>12. \A n \in Mutexes, d \in Calls \ {c} : holder[n] = d => holder'[n] = d
    BY <1>1, <1>8, McpAssumption
  <1>13. QED
    BY <1>1, <1>3, <1>8, <1>11, <1>12, CallStep

\* A step that only moves call c, on to y.
LEMMA MoveStep ==
  ASSUME CallsInv, NEW c \in Calls, NEW y, call' = [call EXCEPT ![c] = y],
         CallInv(c, y, holder, schema), up, UNCHANGED <<up, schema, holder>>
  PROVE  CallsInv'
  <1>1. holder' \in [Mutexes -> Calls \cup {None}]
    BY DEF CallsInv
  <1>2. QED
    BY <1>1, CallStep

LEMMA SnapshotStep ==
  ASSUME CallsInv, NEW c \in Calls, Snapshot(c)
  PROVE  CallsInv'
  <1> DEFINE x == call[c]
             y == [x EXCEPT !.phase = "tx", !.staged = schema]
  <1>1. /\ x.phase = "called" /\ x.locks = <<>> /\ x.request.tool \in Batches \cup {"single"}
        /\ call' = [call EXCEPT ![c] = y] /\ UNCHANGED <<up, schema, holder>>
    BY DEF Snapshot, Entered, CallsInv
  <1>2. up /\ CallInv(c, x, holder, schema) /\ IsCall(x) /\ x.request \in Requests
    BY <1>1, Active
  <1>3. Waits(c, x, holder)
    BY <1>1, <1>2 DEF CallInv
  <1>4. /\ y.phase = "tx" /\ y.request = x.request /\ y.next = x.next
        /\ y.locks = x.locks /\ y.staged = schema /\ IsCall(y)
    BY <1>2 DEF IsCall
  <1> HIDE DEF y
  <1>5. y.next = 1 /\ y.next - 1 = 0 /\ DefinedBy(y.request.ops, y.next - 1) = {}
    BY <1>3, <1>4, DefinedNone DEF Waits
  <1>6. x.request.tool \in Batches => holder["schema_write"] = c
    BY <1>1, <1>3 DEF Waits
  <1>7. 1 \in 1..(Len(x.request.ops) + 1)
    BY <1>2, RequestOps
  <1>8. Stages(c, y, holder, schema)
    BY <1>1, <1>4, <1>5, <1>6, <1>7 DEF Stages
  <1>9. CallInv(c, y, holder, schema)
    BY <1>2, <1>4, <1>8 DEF CallInv
  <1>10. QED
    BY <1>1, <1>2, <1>9, MoveStep

\* The operation that a running call has reached.
LEMMA Reached ==
  ASSUME CallsInv, NEW c \in Calls, Running(c)
  PROVE  /\ up /\ CallInv(c, call[c], holder, schema) /\ IsCall(call[c])
         /\ call[c].request \in Requests /\ Stages(c, call[c], holder, schema)
         /\ call[c].request.tool \in Batches =>
              /\ call[c].next \in 1..Len(call[c].request.ops)
              /\ Op(c).op = call[c].request.ops[call[c].next].op
              /\ Op(c).op = "define" => Op(c) = call[c].request.ops[call[c].next]
  <1> DEFINE x == call[c]
             op == x.request.ops[x.next]
  <1>1. x.phase = "tx" /\ x.next <= Len(x.request.ops)
    BY DEF Running
  <1>2. up /\ CallInv(c, x, holder, schema) /\ IsCall(x) /\ x.request \in Requests
    BY <1>1, Active
  <1>3. Stages(c, x, holder, schema)
    BY <1>1, <1>2 DEF CallInv
  <1>4. SUFFICES ASSUME x.request.tool \in Batches
                 PROVE  /\ x.next \in 1..Len(x.request.ops)
                        /\ Op(c).op = op.op /\ (Op(c).op = "define" => Op(c) = op)
    BY <1>2, <1>3
  <1>5. x.next \in 1..Len(x.request.ops) /\ op \in Operation
    BY <1>1, <1>2, <1>3, <1>4, RequestOps DEF Stages
  <1>6. CASE op.op = "edge_create"
    <2> DEFINE Resolved(end) == IF end = None THEN x.ref ELSE end
    <2>1. Op(c) = [op EXCEPT !.from = Resolved(@), !.to = Resolved(@)]
      BY <1>6 DEF Op
    <2>2. Op(c).op = op.op
      BY <1>5, <1>6, <2>1 DEF Operation
    <2>3. QED
      BY <1>5, <1>6, <2>2
  <1>7. CASE op.op # "edge_create"
    BY <1>5, <1>7 DEF Op
  <1>8. QED
    BY <1>6, <1>7

LEMMA CheckStep ==
  ASSUME CallsInv, NEW c \in Calls, Check(c)
  PROVE  CallsInv'
  <1> DEFINE x == call[c]
             y == [x EXCEPT !.checked = @ + 1]
  <1>1. Running(c) /\ call' = [call EXCEPT ![c] = y] /\ UNCHANGED <<up, schema, holder>>
    BY DEF Check, Looking, CallsInv
  <1>2. up /\ CallInv(c, x, holder, schema) /\ IsCall(x) /\ x.phase = "tx"
    BY <1>1, Reached DEF Running
  <1>3. /\ y.phase = x.phase /\ y.request = x.request /\ y.next = x.next
        /\ y.locks = x.locks /\ y.staged = x.staged /\ IsCall(y)
    BY <1>2 DEF IsCall
  <1> HIDE DEF y
  <1>4. CallInv(c, y, holder, schema)
    BY <1>2, <1>3 DEF CallInv, Stages
  <1>5. QED
    BY <1>1, <1>2, <1>4, MoveStep

LEMMA StageStep ==
  ASSUME CallsInv, NEW c \in Calls, Stage(c)
  PROVE  CallsInv'
  <1> DEFINE x == call[c]
             y == [x EXCEPT !.staged = @ \cup {Op(c).model}, !.next = @ + 1]
  <1>1. /\ Running(c) /\ Op(c).op = "define"
        /\ call' = [call EXCEPT ![c] = y] /\ UNCHANGED <<up, schema, holder>>
    BY DEF Stage, CallsInv
  <1>2. /\ up /\ CallInv(c, x, holder, schema) /\ IsCall(x) /\ x.phase = "tx"
        /\ x.request \in Requests /\ Stages(c, x, holder, schema)
    BY <1>1, Reached DEF Running
  <1>3. /\ y.phase = x.phase /\ y.request = x.request /\ y.next = x.next + 1
        /\ y.locks = x.locks /\ y.staged = x.staged \cup {Op(c).model} /\ IsCall(y)
    BY <1>2 DEF IsCall
  <1> HIDE DEF y
  <1>4. ASSUME x.request.tool \in Batches
        PROVE  /\ y.next \in 1..(Len(x.request.ops) + 1)
               /\ y.staged = schema \cup DefinedBy(x.request.ops, y.next - 1)
    <2>1. x.next \in 1..Len(x.request.ops) /\ Op(c) = x.request.ops[x.next]
      BY <1>1, <1>4, Reached
    <2>2. Len(x.request.ops) \in Nat
      BY <1>2, RequestOps
    <2>3. x.next \in Nat \ {0} /\ y.next - 1 = x.next /\ y.next \in 1..(Len(x.request.ops) + 1)
      BY <1>3, <2>1, <2>2
    <2>4. DefinedBy(x.request.ops, x.next) = DefinedBy(x.request.ops, x.next - 1) \cup {Op(c).model}
      BY <1>1, <2>1, <2>3, DefinedNext
    <2>5. x.staged = schema \cup DefinedBy(x.request.ops, x.next - 1)
      BY <1>2, <1>4 DEF Stages
    <2>6. QED
      BY <1>3, <2>3, <2>4, <2>5
  <1>5. Stages(c, y, holder, schema)
    BY <1>2, <1>3, <1>4 DEF Stages
  <1>6. CallInv(c, y, holder, schema)
    BY <1>2, <1>3, <1>5 DEF CallInv
  <1>7. QED
    BY <1>1, <1>2, <1>6, MoveStep

LEMMA WriteStep ==
  ASSUME CallsInv, NEW c \in Calls, Write(c)
  PROVE  CallsInv'
  <1> DEFINE x == call[c]
  <1>1. /\ Running(c) /\ Op(c).op # "define" /\ UNCHANGED <<up, schema, holder>>
    BY DEF Write, Writing
  <1>2. \E t, f : call' = [call EXCEPT ![c] = [x EXCEPT !.tx = t, !.next = @ + 1, !.checked = 0, !.ref = f]]
    <2>1. PICK id : LET w == Statement(View(c), Op(c), id) IN
            call' = [call EXCEPT ![c].tx = Then(@, w),
                                 ![c].next = @ + 1, ![c].checked = 0,
                                 ![c].ref = IF Op(c).op = "node_create" /\ Op(c).ref THEN id ELSE @]
      BY DEF Write
    <2> DEFINE w == Statement(View(c), Op(c), id)
               t == Then(x.tx, w)
               f == IF Op(c).op = "node_create" /\ Op(c).ref THEN id ELSE x.ref
    <2>2. call' = [call EXCEPT ![c].tx = t, ![c].next = @ + 1, ![c].checked = 0, ![c].ref = f]
      BY <2>1
    <2> HIDE DEF t, f
    <2>3. call' = [call EXCEPT ![c] = [x EXCEPT !.tx = t, !.next = @ + 1, !.checked = 0, !.ref = f]]
      BY <2>2 DEF CallsInv
    <2>4. QED
      BY <2>3
  <1>3. PICK t, f : call' = [call EXCEPT ![c] = [x EXCEPT !.tx = t, !.next = @ + 1, !.checked = 0, !.ref = f]]
    BY <1>2
  <1> DEFINE y == [x EXCEPT !.tx = t, !.next = @ + 1, !.checked = 0, !.ref = f]
  <1>4. /\ up /\ CallInv(c, x, holder, schema) /\ IsCall(x) /\ x.phase = "tx"
        /\ x.request \in Requests /\ Stages(c, x, holder, schema)
    BY <1>1, Reached DEF Running
  <1>5. /\ y.phase = x.phase /\ y.request = x.request /\ y.next = x.next + 1
        /\ y.locks = x.locks /\ y.staged = x.staged /\ IsCall(y)
    BY <1>4 DEF IsCall
  <1>6. call' = [call EXCEPT ![c] = y]
    BY <1>3
  <1> HIDE DEF y
  <1>7. ASSUME x.request.tool \in Batches
        PROVE  /\ y.next \in 1..(Len(x.request.ops) + 1)
               /\ y.staged = schema \cup DefinedBy(x.request.ops, y.next - 1)
    <2>1. x.next \in 1..Len(x.request.ops) /\ x.request.ops[x.next].op # "define"
      BY <1>1, <1>7, Reached
    <2>2. Len(x.request.ops) \in Nat
      BY <1>4, RequestOps
    <2>3. x.next \in Nat \ {0} /\ y.next - 1 = x.next /\ y.next \in 1..(Len(x.request.ops) + 1)
      BY <1>5, <2>1, <2>2
    <2>4. DefinedBy(x.request.ops, x.next) = DefinedBy(x.request.ops, x.next - 1)
      <3>1. DefinedBy(x.request.ops, x.next) = DefinedBy(x.request.ops, x.next - 1) \cup {}
        BY <2>1, <2>3, DefinedNext
      <3>2. \A S : S \cup {} = S
        OBVIOUS
      <3>3. QED
        BY <3>1, <3>2
    <2>5. x.staged = schema \cup DefinedBy(x.request.ops, x.next - 1)
      BY <1>4, <1>7 DEF Stages
    <2>6. QED
      BY <1>5, <2>3, <2>4, <2>5
  <1>8. Stages(c, y, holder, schema)
    BY <1>4, <1>5, <1>7 DEF Stages
  <1>9. CallInv(c, y, holder, schema)
    BY <1>4, <1>5, <1>8 DEF CallInv
  <1>10. QED
    BY <1>1, <1>4, <1>6, <1>9, MoveStep

LEMMA CommitStep ==
  ASSUME CallsInv, NEW c \in Calls, Commit(c)
  PROVE  CallsInv'
  <1> DEFINE x == call[c]
             y == [x EXCEPT !.phase = "install", !.tx = NoWrites]
  <1>1. x.phase = "tx" /\ x.next > Len(x.request.ops) /\ UNCHANGED <<up, schema>>
    BY DEF Commit
  <1>2. up /\ CallInv(c, x, holder, schema) /\ IsCall(x) /\ x.request \in Requests
    BY <1>1, Active
  <1>3. Stages(c, x, holder, schema)
    BY <1>1, <1>2 DEF CallInv
  <1>4. CASE x.request.tool = "single"
    BY <1>1, <1>2, <1>4, AnswerStep DEF Commit
  <1>5. CASE x.request.tool # "single"
    <2>1. call' = [call EXCEPT ![c] = y] /\ UNCHANGED holder
      BY <1>5 DEF Commit, CallsInv
    <2>2. /\ y.phase = "install" /\ y.request = x.request /\ y.next = x.next
          /\ y.locks = x.locks /\ y.staged = x.staged /\ IsCall(y)
      BY <1>2 DEF IsCall
    <2> HIDE DEF y
    <2>3. x.request.tool \in Batches /\ x.next = Len(x.request.ops) + 1
      BY <1>1, <1>2, <1>3, <1>5, RequestOps DEF Stages
    <2>4. CallInv(c, y, holder, schema)
      BY <1>2, <1>3, <2>2, <2>3 DEF CallInv, Stages
    <2>5. QED
      BY <1>1, <1>2, <2>1, <2>4, MoveStep
  <1>6. QED
    BY <1>4, <1>5

\* A call that defines, checkpoints or installs has kept every other one out.
LEMMA Exclusive ==
  ASSUME CallsInv, NEW c \in Calls, Entered(c, Writers) \/ call[c].phase = "install"
  PROVE  /\ up /\ CallInv(c, call[c], holder, schema) /\ call[c].request \in Requests
         /\ holder["schema_write"] = c
  <1>1. call[c].phase # "idle"
    BY DEF Entered
  <1>2. up /\ CallInv(c, call[c], holder, schema) /\ call[c].request \in Requests
    BY <1>1, Active
  <1>3. CASE Entered(c, Writers)
    BY <1>2, <1>3 DEF CallInv, Waits, Entered
  <1>4. CASE call[c].phase = "install"
    BY <1>2, <1>4 DEF CallInv, Stages
  <1>5. QED
    BY <1>2, <1>3, <1>4

\* Every step keeps the mutexes and the staged copies.
LEMMA CallsStep ==
  ASSUME CallsInv, [Next]_vars
  PROVE  CallsInv'
  <1>1. CASE Start
    <2>1. \A c \in Calls : call[c] = Idle
      BY <1>1 DEF Start, CallsInv
    <2>2. /\ call' = call /\ holder' = holder
      BY <1>1 DEF Start
    <2>3. \A c \in Calls : CallInv(c, call'[c], holder', schema')
      BY <2>1, <2>2, IdleCall
    <2>4. QED
      BY <2>1, <2>2, <2>3 DEF CallsInv
  <1>2. CASE Crash
    <2>1. /\ call' = [c \in Calls |-> Idle] /\ holder' \in [Mutexes -> Calls \cup {None}]
      BY <1>2 DEF Crash
    <2>2. \A c \in Calls : CallInv(c, call'[c], holder', schema')
      BY <2>1, IdleCall
    <2>3. QED
      BY <2>1, <2>2 DEF CallsInv
  <1>3. ASSUME NEW c \in Calls, Define(c) \/ Checkpoint(c) \/ Install(c) PROVE CallsInv'
    <2>1. Answer(c) /\ up' = up
      BY <1>3 DEF Define, Checkpoint, Install
    <2>2. Entered(c, Writers) \/ call[c].phase = "install"
      BY <1>3 DEF Define, Checkpoint, Install, Entered, Writers
    <2>3. QED
      BY <2>1, <2>2, Exclusive, AnswerStep
  <1>4. ASSUME NEW c \in Calls, RefuseNonAtomic(c) \/ Rollback(c)
                 \/ StatementFails(c) \/ CommitFails(c)
        PROVE  CallsInv'
    <2>1. Answer(c) /\ UNCHANGED <<up, schema>> /\ call[c].phase # "idle"
      BY <1>4 DEF RefuseNonAtomic, Rollback, StatementFails, CommitFails, Entered, Running
    <2>2. QED
      BY <2>1, Active, AnswerStep
  <1>5. CASE StartFails \/ UNCHANGED vars
    BY <1>5 DEF StartFails, vars, CallsInv
  <1>6. QED
    BY <1>1, <1>2, <1>3, <1>4, <1>5, ReceiveStep, AcquireStep, SnapshotStep, CheckStep, StageStep,
       WriteStep, CommitStep DEF Next, Proceed, Fail

-----------------------------------------------------------------------------
(***************************************************************************)
(* The schema and its file.                                                *)
(***************************************************************************)
LEMMA WrittenLog ==
  \A ops, n, end : Written(ops, n, end).log = log \cup DefinedBy(ops, n)
  BY DEF Written

\* The lines of a request whose definitions are in the schema from now on.
LEMMA AppendLinesStep ==
  ASSUME McpInv, up, up' = up, NEW r \in Requests, AppendLines(r.ops),
         schema' = schema \cup DefinedBy(r.ops, Len(r.ops))
  PROVE  FileInv' /\ LinesInv' /\ Recovered \subseteq base' \cup log'
  <1> DEFINE D == DefinedBy(r.ops, Len(r.ops))
  <1>1. Len(r.ops) \in 0..Len(r.ops)
    BY RequestOps
  <1>2. D \subseteq Models
    BY <1>1, DefinedModels
  <1>3. PICK a \in Appends(r.ops) :
          /\ log' = a.file.log /\ base' = base
          /\ unsaved' = (unsaved \cup IF a.ok THEN {} ELSE D) \ (base \cup a.file.log)
    BY DEF AppendLines
  <1>4. /\ log \subseteq a.file.log /\ a.file.log \subseteq log \cup D
        /\ a.ok => a.file.log = log \cup D
    <2>1. CASE a = [file |-> Written(r.ops, Len(r.ops), "clean"), ok |-> TRUE]
      <3>1. a.file = Written(r.ops, Len(r.ops), "clean")
        BY <2>1
      <3>2. a.file.log = log \cup D
        BY <3>1, WrittenLog
      <3>3. QED
        BY <3>2
    <2>2. CASE a # [file |-> Written(r.ops, Len(r.ops), "clean"), ok |-> TRUE]
      <3>0. PICK x \in Stops(r.ops) : a = [file |-> Written(r.ops, x[1], x[2]), ok |-> FALSE]
        BY <1>3, <2>2 DEF Appends
      <3>1. PICK n \in 0..Len(r.ops), end \in {"clean", "torn"} :
              a = [file |-> Written(r.ops, n, end), ok |-> FALSE]
        <4>1. x[1] \in 0..Len(r.ops) /\ x[2] \in {"clean", "torn"}
          BY DEF Stops
        <4>2. QED
          BY <3>0, <4>1
      <3>2. DefinedBy(r.ops, n) \subseteq D
        BY DefinedModels
      <3>3. a.file = Written(r.ops, n, end) /\ ~a.ok
        BY <3>1
      <3>4. a.file.log = log \cup DefinedBy(r.ops, n)
        BY <3>3, WrittenLog
      <3>5. QED
        BY <3>2, <3>3, <3>4
    <2>3. QED
      BY <2>1, <2>2
  <1>5. base # None /\ Recovered \subseteq schema /\ schema \subseteq Recovered \cup unsaved
    BY DEF McpInv, FileInv, LinesInv
  <1> HIDE DEF D
  <1>6. FileInv'
    BY <1>2, <1>3, <1>4, <1>5 DEF McpInv, FileInv, D
  <1>7. base' \cup log' \subseteq schema'
    BY <1>3, <1>4, <1>5 DEF Recovered, D
  <1>8. schema' \subseteq (base' \cup log') \cup unsaved'
    <2>1. CASE a.ok
      BY <1>3, <1>4, <1>5, <2>1 DEF Recovered, D
    <2>2. CASE ~a.ok
      BY <1>3, <1>4, <1>5, <2>2 DEF Recovered, D
    <2>3. QED
      BY <2>1, <2>2
  <1>9. QED
    BY <1>3, <1>4, <1>6, <1>7, <1>8 DEF LinesInv, Recovered

\* Neither the schema nor its file moves.
LEMMA FileSame ==
  ASSUME McpInv, UNCHANGED <<up, schema, base, log, unsaved>>
  PROVE  FileInv' /\ LinesInv' /\ Recovered \subseteq base' \cup log'
  BY DEF McpInv, FileInv, LinesInv, Recovered

LEMMA DefineStep ==
  ASSUME McpInv, NEW c \in Calls, Define(c)
  PROVE  FileInv' /\ LinesInv' /\ Recovered \subseteq base' \cup log' /\ schema \subseteq schema'
  <1> DEFINE r == call[c].request
             m == r.ops[1].model
  <1>1. Entered(c, {"define"}) /\ up' = up
    BY DEF Define
  <1>2. Entered(c, Writers) /\ r.tool = "define" /\ CallsInv
    BY <1>1 DEF Entered, Writers, McpInv
  <1>3. up /\ r \in Requests
    BY <1>2, Exclusive
  <1>4. CASE Registrable(schema, m)
    <2>1. schema' = schema \cup {m} /\ AppendLines(r.ops)
      BY <1>4 DEF Define
    <2>2. Len(r.ops) = 1 /\ r.ops[1].op = "define"
      BY <1>2, <1>3, RequestOps
    <2>3. DefinedBy(r.ops, 1) = {m}
      <3>1. DefinedBy(r.ops, 1) = DefinedBy(r.ops, 1 - 1) \cup {m}
        BY <2>2, DefinedNext
      <3>2. DefinedBy(r.ops, 1 - 1) = {}
        BY DefinedNone
      <3>3. QED
        BY <3>1, <3>2
    <2>4. schema' = schema \cup DefinedBy(r.ops, Len(r.ops))
      BY <2>1, <2>2, <2>3
    <2>5. QED
      BY <1>1, <1>3, <2>1, <2>4, AppendLinesStep
  <1>5. CASE ~Registrable(schema, m)
    <2>1. UNCHANGED <<up, schema, base, log, unsaved>>
      BY <1>1, <1>5 DEF Define, fileVars
    <2>2. QED
      BY <2>1, FileSame
  <1>6. QED
    BY <1>4, <1>5

LEMMA InstallStep ==
  ASSUME McpInv, NEW c \in Calls, Install(c)
  PROVE  FileInv' /\ LinesInv' /\ Recovered \subseteq base' \cup log' /\ schema \subseteq schema'
  <1> DEFINE x == call[c]
             r == x.request
  <1>1. x.phase = "install" /\ schema' = x.staged /\ AppendLines(r.ops) /\ up' = up
    BY DEF Install
  <1>2. up /\ CallInv(c, x, holder, schema) /\ r \in Requests
    BY <1>1, Exclusive DEF McpInv
  <1>3. /\ x.staged = schema \cup DefinedBy(r.ops, x.next - 1)
        /\ x.next = Len(r.ops) + 1
    BY <1>1, <1>2 DEF CallInv, Stages
  <1>4. x.next - 1 = Len(r.ops)
    BY <1>2, <1>3, RequestOps
  <1>5. schema' = schema \cup DefinedBy(r.ops, Len(r.ops))
    BY <1>1, <1>3, <1>4
  <1>6. QED
    BY <1>1, <1>2, <1>5, AppendLinesStep

LEMMA CheckpointStep ==
  ASSUME McpInv, NEW c \in Calls, Checkpoint(c)
  PROVE  FileInv' /\ LinesInv' /\ Recovered \subseteq base' \cup log' /\ schema' = schema
  <1>1. Entered(c, Writers)
    BY DEF Checkpoint, Entered, Writers
  <1>2. up
    BY <1>1, Exclusive DEF McpInv
  <1>3. PICK f \in Checkpoints :
          base' = f.base /\ log' = f.log /\ unsaved' = unsaved \ (f.base \cup f.log)
    BY DEF Checkpoint
  <1>4. /\ f.base \in {base, schema} /\ f.log \in {log, {}}
        /\ f.log = log \/ f.base = schema
    <2>1. CASE f = [base |-> schema, log |-> {}, tail |-> "clean"]
      BY <2>1
    <2>2. CASE \E b \in {base, schema} : f = [base |-> b, log |-> log, tail |-> tail]
      BY <2>2
    <2>3. QED
      BY <1>3, <2>1, <2>2 DEF Checkpoints
  <1>5. up' = up /\ schema' = schema
    BY DEF Checkpoint
  <1>6. /\ schema \subseteq Models /\ log \subseteq Models /\ base # None /\ schema # None
        /\ base \subseteq Models
        /\ base \cup log \subseteq schema /\ schema \subseteq base \cup log \cup unsaved
    BY <1>2, McpAssumption DEF McpInv, FileInv, LinesInv, Recovered
  <1>7. FileInv'
    BY <1>3, <1>4, <1>5, <1>6 DEF FileInv
  <1>8. base \cup log \subseteq base' \cup log'
    BY <1>3, <1>4, <1>6
  <1>9. base' \cup log' \subseteq schema
    BY <1>3, <1>4, <1>6
  <1>10. schema \subseteq (base' \cup log') \cup unsaved'
    BY <1>3, <1>6, <1>8
  <1>11. QED
    BY <1>5, <1>7, <1>8, <1>9, <1>10 DEF LinesInv, Recovered

\* A process that ends in the middle of an append or a checkpoint leaves the lines
\* that were there.
LEMMA InterruptedStep ==
  ASSUME McpInv, NEW c \in Calls, Interrupted(c), ~up', schema' = {}
  PROVE  FileInv' /\ Recovered \subseteq base' \cup log'
  <1> DEFINE x == call[c]
             r == x.request
  <1>1. CASE Entered(c, {"checkpoint"}) /\ base' = schema /\ log' = log
    <2>1. up
      BY <1>1, Exclusive DEF McpInv, Entered, Writers
    <2>2. QED
      BY <1>1, <2>1, McpAssumption DEF McpInv, FileInv, LinesInv, Recovered
  <1>2. CASE /\ Entered(c, {"define"}) \/ x.phase = "install"
             /\ base' = base
             /\ \E y \in Stops(r.ops) : log' = Written(r.ops, y[1], y[2]).log
    <2>1. up /\ r \in Requests
      BY <1>2, Exclusive DEF McpInv, Entered, Writers
    <2>2. PICK n \in 0..Len(r.ops), end \in {"clean", "torn"} :
            log' = Written(r.ops, n, end).log
      BY <1>2 DEF Stops
    <2>3. log' = log \cup DefinedBy(r.ops, n) /\ DefinedBy(r.ops, n) \subseteq Models
      BY <2>1, <2>2, WrittenLog, DefinedModels
    <2>4. QED
      BY <1>2, <2>1, <2>3 DEF McpInv, FileInv, Recovered
  <1>3. QED
    BY <1>1, <1>2 DEF Interrupted

\* Every step keeps the file and the schema together, and loses nothing.
LEMMA FileStep ==
  ASSUME McpInv, [Next]_vars
  PROVE  /\ FileInv' /\ LinesInv'
         /\ base # None => Recovered \subseteq base' \cup log'
         /\ up /\ up' => schema \subseteq schema'
  <1>1. CASE Start
    <2>1. /\ ~up /\ base' = (IF base = None THEN {} ELSE base) /\ log' = log
          /\ schema' = IF base = None THEN {} ELSE Recovered
      BY <1>1 DEF Start
    <2>2. FileInv /\ {} # None
      BY McpAssumption DEF McpInv
    <2>3. FileInv' /\ schema' = base' \cup log'
      BY <2>1, <2>2 DEF FileInv, Recovered
    <2>4. QED
      BY <2>1, <2>3 DEF LinesInv, Recovered
  <1>2. CASE Crash
    <2>1. up /\ ~up' /\ schema' = {}
      BY <1>2 DEF Crash
    <2>2. CASE UNCHANGED fileVars
      BY <2>1, <2>2 DEF McpInv, FileInv, LinesInv, Recovered, fileVars
    <2>3. CASE \E c \in Calls : Interrupted(c)
      BY <2>1, <2>3, InterruptedStep DEF LinesInv
    <2>4. QED
      BY <1>2, <2>2, <2>3 DEF Crash
  <1>3. ASSUME NEW c \in Calls, Receive(c) \/ Acquire(c) \/ Snapshot(c) \/ RefuseNonAtomic(c)
                 \/ Check(c) \/ Stage(c) \/ Write(c) \/ Rollback(c) \/ Commit(c)
                 \/ StatementFails(c) \/ CommitFails(c)
        PROVE  UNCHANGED <<up, schema, base, log, unsaved>>
    BY <1>3 DEF Receive, Acquire, Snapshot, RefuseNonAtomic, Check, Stage, Write, Rollback,
                Commit, StatementFails, CommitFails, fileVars
  <1>4. CASE StartFails \/ UNCHANGED vars
    <2>1. UNCHANGED <<up, schema, base, log, unsaved>>
      BY <1>4 DEF StartFails, vars, fileVars
    <2>2. QED
      BY <2>1, FileSame
  <1>5. QED
    BY <1>1, <1>2, <1>3, <1>4, FileSame, DefineStep, InstallStep, CheckpointStep DEF Next, Proceed, Fail

LEMMA McpInvariant == Spec => []McpInv
  <1>1. Init => McpInv
    <2>1. SUFFICES ASSUME Init PROVE McpInv
      OBVIOUS
    <2>2. CallsInv
      <3>1. call = [c \in Calls |-> Idle] /\ holder \in [Mutexes -> Calls \cup {None}]
        BY <2>1 DEF Init
      <3>2. \A c \in Calls : call[c] = Idle /\ CallInv(c, call[c], holder, schema)
        BY <3>1, IdleCall
      <3>3. QED
        BY <3>1, <3>2 DEF CallsInv
    <2>3. FileInv /\ LinesInv
      BY <2>1, McpAssumption DEF Init, FileInv, LinesInv
    <2>4. QED
      BY <2>2, <2>3 DEF McpInv
  <1>2. McpInv /\ [Next]_vars => McpInv'
    BY CallsStep, FileStep DEF McpInv
  <1>3. QED
    BY <1>1, <1>2, PTL DEF Spec

-----------------------------------------------------------------------------
\* In every reachable state of a running server, for any number of concurrent tool
\* calls and every fault of the file and of Neo4j, torn lines that a restart keeps
\* among them, a schema memory file whose log can be read holds the schema in memory,
\* but for the models whose append reported an error.
THEOREM SchemaIsRecoverable == Spec => []RecoverableSchema
  <1>1. McpInv => RecoverableSchema
    BY DEF McpInv, LinesInv, RecoverableSchema
  <1>2. QED
    BY <1>1, McpInvariant, PTL

\* No step takes a definition back, neither from a log that can be read after it nor
\* from the schema in memory, whatever became of the log: a batch that installs its staged copy of the state, however
\* long its Neo4j transaction took, installs every definition made meanwhile.
THEOREM DefinitionsAreKept == Spec => SchemaNeverLost
  <1>1. McpInv /\ [Next]_vars =>
          [/\ base # None /\ tail' # "broken" => Recovered \subseteq base' \cup log'
           /\ up /\ up' => schema \subseteq schema']_vars
    BY FileStep
  <1>2. QED
    BY <1>1, McpInvariant, PTL DEF Spec, SchemaNeverLost

-----------------------------------------------------------------------------
(***************************************************************************)
(* The relationships in Neo4j.  A transaction holds what it writes and the *)
(* ends of what it joins until it ends, so that transactions that are      *)
(* under way at once write apart from each other; between the lookup of an *)
(* end and the create nothing is held, and the end may be deleted.         *)
(***************************************************************************)
\* A transaction holds what it writes; a node that it leaves behind it has made, and
\* of a relationship that it leaves behind it holds the ends.
IsTx(t) ==
  /\ t \in [nodes : {t.nodes}, rels : {t.rels}, made : {t.made}, held : {t.held}]
  /\ t.nodes \in [DOMAIN t.nodes -> NodeModels \cup {None}]
  /\ t.rels \in [DOMAIN t.rels -> Relationship \cup {None}]
  /\ DOMAIN t.nodes \subseteq NodeIds \cap t.held
  /\ DOMAIN t.rels \subseteq RelIds \cap t.held
  /\ t.made \subseteq t.held
  /\ \A n \in DOMAIN t.nodes : t.nodes[n] # None => n \in t.made
  /\ \A r \in DOMAIN t.rels : t.rels[r] # None => {t.rels[r].from, t.rels[r].to} \subseteq t.held

\* Node n is there, and of model m unless its id is in z.
Fits(g, z, n, m) == g.nodes[n] # None /\ (n \in z \/ g.nodes[n] = m)

\* Over the graph g, after the ids z have been deleted: the transaction leaves a
\* graph whose relationships join their models, and made its nodes of free ids.
TxInv(t, g, z) ==
  /\ IsTx(t)
  /\ Joined(Over(t, g), z)
  /\ \A n \in t.made \cap NodeIds : g.nodes[n] = None

\* What a lookup has seen is still so, or the node has been deleted since.
Seen(t, g, z, n, m) == n \in NodeIds /\ (Over(t, g).nodes[n] = m \/ n \in z)

\* What a call has looked up for the operation it has reached.
LookupInv(c) ==
  /\ call[c].next \in Nat \ {0} /\ call[c].checked \in Nat
  /\ call[c].ref \in NodeIds \cup {None}
  /\ call[c].checked # 0 => Running(c) /\ Op(c).op # "define"
  /\ call[c].checked # 0 /\ Op(c).op = "edge_create" =>
       Seen(call[c].tx, graph, gone, Op(c).from, FromModel[Op(c).model])
  /\ call[c].checked # 0 /\ call[c].checked # 1 /\ Op(c).op = "edge_create" =>
       Seen(call[c].tx, graph, gone, Op(c).to, ToModel[Op(c).model])

GraphInv(g, z) == g \in Neo4jGraph /\ Joined(g, z)

HeldApart == \A c, d \in Calls : c # d => call[c].tx.held \cap call[d].tx.held = {}

EdgeInv ==
  /\ GraphInv(graph, gone)
  /\ \A c \in Calls : TxInv(call[c].tx, graph, gone)
  /\ HeldApart
  /\ \A c \in Calls : LookupInv(c)

-----------------------------------------------------------------------------
(***************************************************************************)
(* Transactions over a graph, id by id.                                    *)
(***************************************************************************)
NodeOver(t, g, n) == IF n \in DOMAIN t.nodes THEN t.nodes[n] ELSE g.nodes[n]
RelOver(t, g, r) == IF r \in DOMAIN t.rels THEN t.rels[r] ELSE g.rels[r]

LEMMA TxParts ==
  ASSUME NEW t, IsTx(t)
  PROVE  /\ DOMAIN t.nodes \subseteq NodeIds /\ DOMAIN t.nodes \subseteq t.held
         /\ DOMAIN t.rels \subseteq RelIds /\ DOMAIN t.rels \subseteq t.held
         /\ t.made \subseteq t.held
         /\ \A n \in DOMAIN t.nodes : t.nodes[n] \in NodeModels \cup {None}
         /\ \A r \in DOMAIN t.rels : t.rels[r] \in Relationship \cup {None}
         /\ \A n \in DOMAIN t.nodes : t.nodes[n] # None => n \in t.made
         /\ \A r \in DOMAIN t.rels : t.rels[r] # None => t.rels[r].from \in t.held /\ t.rels[r].to \in t.held
  BY DEF IsTx

LEMMA OverAt ==
  ASSUME NEW t, IsTx(t), NEW g \in Neo4jGraph
  PROVE  /\ Over(t, g) \in Neo4jGraph
         /\ \A n \in NodeIds : Over(t, g).nodes[n] = NodeOver(t, g, n)
         /\ \A r \in RelIds : Over(t, g).rels[r] = RelOver(t, g, r)
  <1> DEFINE nodes == Merge(t.nodes, g.nodes)
             rels == Merge(t.rels, g.rels)
  <1>1. DOMAIN t.nodes \subseteq NodeIds /\ DOMAIN g.nodes = NodeIds
    BY TxParts DEF Neo4jGraph
  <1>2. DOMAIN t.rels \subseteq RelIds /\ DOMAIN g.rels = RelIds
    BY TxParts DEF Neo4jGraph
  <1>3. nodes = [n \in NodeIds |-> NodeOver(t, g, n)]
    <2>1. DOMAIN t.nodes \cup DOMAIN g.nodes = NodeIds
      BY <1>1
    <2>2. QED
      BY <2>1 DEF Merge, NodeOver
  <1>4. rels = [r \in RelIds |-> RelOver(t, g, r)]
    <2>1. DOMAIN t.rels \cup DOMAIN g.rels = RelIds
      BY <1>2
    <2>2. QED
      BY <2>1 DEF Merge, RelOver
  <1>5. \A n \in NodeIds : NodeOver(t, g, n) \in NodeModels \cup {None}
    BY TxParts DEF NodeOver, Neo4jGraph
  <1>6. \A r \in RelIds : RelOver(t, g, r) \in Relationship \cup {None}
    BY TxParts DEF RelOver, Neo4jGraph
  <1> HIDE DEF nodes, rels
  <1>7. nodes \in [NodeIds -> NodeModels \cup {None}]
    BY <1>3, <1>5
  <1>8. rels \in [RelIds -> Relationship \cup {None}]
    BY <1>4, <1>6
  <1>9. Over(t, g) = [nodes |-> nodes, rels |-> rels]
    BY DEF Over, nodes, rels
  <1>10. Over(t, g) \in Neo4jGraph
    BY <1>7, <1>8, <1>9 DEF Neo4jGraph
  <1>11. Over(t, g).nodes = nodes /\ Over(t, g).rels = rels
    BY <1>9
  <1>12. QED
    BY <1>3, <1>4, <1>10, <1>11

\* Where a relationship lies: its ends are node ids, and it is not None.
LEMMA GraphAt ==
  ASSUME NEW g \in Neo4jGraph
  PROVE  /\ \A n \in NodeIds : g.nodes[n] \in NodeModels \cup {None}
         /\ \A r \in RelIds : g.rels[r] \in Relationship \cup {None}
         /\ \A e \in Relationship : /\ e # None
                                    /\ e.model \in RelModels /\ e.from \in NodeIds /\ e.to \in NodeIds
                                    /\ FromModel[e.model] \in NodeModels /\ FromModel[e.model] # None
                                    /\ ToModel[e.model] \in NodeModels /\ ToModel[e.model] # None
  <1>1. \A e \in Relationship : e.model \in RelModels /\ e.from \in NodeIds /\ e.to \in NodeIds
    BY DEF Relationship
  <1>2. None \notin Relationship /\ None \notin NodeModels
    BY McpAssumption DEF Models
  <1>3. \A m \in RelModels : FromModel[m] \in NodeModels /\ ToModel[m] \in NodeModels
    BY McpAssumption
  <1>4. \A e \in Relationship : e # None /\ FromModel[e.model] # None /\ ToModel[e.model] # None
    BY <1>1, <1>2, <1>3
  <1>5. QED
    BY <1>1, <1>3, <1>4 DEF Neo4jGraph


LEMMA JoinedAt ==
  ASSUME NEW g \in Neo4jGraph, NEW z
  PROVE  Joined(g, z) <=> \A r \in RelIds : g.rels[r] \in Relationship =>
           /\ Fits(g, z, g.rels[r].from, FromModel[g.rels[r].model])
           /\ Fits(g, z, g.rels[r].to, ToModel[g.rels[r].model])
  <1>1. \A r \in RelIds : g.rels[r] # None <=> g.rels[r] \in Relationship
    BY GraphAt
  <1>2. QED
    BY <1>1 DEF Joined, Fits

LEMMA JoinedMore ==
  ASSUME NEW g, NEW y, NEW z, Joined(g, y), y \subseteq z
  PROVE  Joined(g, z)
  BY DEF Joined

\* Two transactions that hold nothing in common may both be carried out.
LEMMA JoinedApart ==
  ASSUME NEW t, NEW u, NEW g \in Neo4jGraph, NEW z, IsTx(t), IsTx(u), t.held \cap u.held = {},
         Joined(Over(t, g), z), Joined(Over(u, g), z)
  PROVE  Joined(Over(t, Over(u, g)), z)
  <1> DEFINE v == Over(u, g)
             w == Over(t, v)
             x == Over(t, g)
  <1>1. /\ v \in Neo4jGraph
        /\ \A n \in NodeIds : v.nodes[n] = NodeOver(u, g, n)
        /\ \A r \in RelIds : v.rels[r] = RelOver(u, g, r)
    BY OverAt
  <1>2. /\ x \in Neo4jGraph
        /\ \A n \in NodeIds : x.nodes[n] = NodeOver(t, g, n)
        /\ \A r \in RelIds : x.rels[r] = RelOver(t, g, r)
    BY OverAt
  <1>3. Joined(v, z) /\ Joined(x, z)
    OBVIOUS
  <1> HIDE DEF v, x
  <1>4. /\ w \in Neo4jGraph
        /\ \A n \in NodeIds : w.nodes[n] = NodeOver(t, v, n)
        /\ \A r \in RelIds : w.rels[r] = RelOver(t, v, r)
    BY <1>1, OverAt
  <1> HIDE DEF w
  <1>5. ASSUME NEW r \in RelIds, NEW e \in Relationship, w.rels[r] = e, NEW n \in {e.from, e.to}
        PROVE  \/ x.rels[r] = e /\ w.nodes[n] = x.nodes[n]
               \/ v.rels[r] = e /\ w.nodes[n] = v.nodes[n]
    <2>1. n \in NodeIds /\ e # None
      BY GraphAt
    <2>2. CASE r \in DOMAIN t.rels
      <3>1. x.rels[r] = e
        BY <1>2, <1>4, <1>5, <2>2 DEF RelOver
      <3>2. n \in t.held
        BY <1>4, <1>5, <2>1, <2>2, TxParts DEF RelOver
      <3>3. n \notin DOMAIN u.nodes
        BY <3>2, TxParts
      <3>4. QED
        BY <1>1, <1>2, <1>4, <2>1, <3>1, <3>3 DEF NodeOver
    <2>3. CASE r \notin DOMAIN t.rels
      <3>1. v.rels[r] = e
        BY <1>4, <1>5, <2>3 DEF RelOver
      <3>2. CASE n \notin DOMAIN t.nodes
        BY <1>4, <2>1, <3>1, <3>2 DEF NodeOver
      <3>3. CASE n \in DOMAIN t.nodes
        <4>1. n \notin u.held
          BY <3>3, TxParts
        <4>2. r \notin DOMAIN u.rels
          BY <1>1, <1>5, <2>1, <3>1, <4>1, TxParts DEF RelOver
        <4>3. x.rels[r] = e
          BY <1>1, <1>2, <2>3, <3>1, <4>2 DEF RelOver
        <4>4. QED
          BY <1>2, <1>4, <2>1, <3>3, <4>3 DEF NodeOver
      <3>4. QED
        BY <3>2, <3>3
    <2>4. QED
      BY <2>2, <2>3
  <1>6. ASSUME NEW r \in RelIds, NEW e \in Relationship, w.rels[r] = e
        PROVE  Fits(w, z, e.from, FromModel[e.model]) /\ Fits(w, z, e.to, ToModel[e.model])
    <2>1. x.rels[r] = e => Fits(x, z, e.from, FromModel[e.model]) /\ Fits(x, z, e.to, ToModel[e.model])
      BY <1>2, <1>3, JoinedAt
    <2>2. v.rels[r] = e => Fits(v, z, e.from, FromModel[e.model]) /\ Fits(v, z, e.to, ToModel[e.model])
      BY <1>1, <1>3, JoinedAt
    <2>3. \/ x.rels[r] = e /\ w.nodes[e.from] = x.nodes[e.from]
          \/ v.rels[r] = e /\ w.nodes[e.from] = v.nodes[e.from]
      BY <1>5, <1>6
    <2>4. \/ x.rels[r] = e /\ w.nodes[e.to] = x.nodes[e.to]
          \/ v.rels[r] = e /\ w.nodes[e.to] = v.nodes[e.to]
      BY <1>5, <1>6
    <2>5. QED
      BY <2>1, <2>2, <2>3, <2>4 DEF Fits
  <1>7. Joined(w, z)
    BY <1>4, <1>6, JoinedAt
  <1>8. QED
    BY <1>7 DEF w, v

\* What another transaction leaves alone, whatever its commit deletes.
LEMMA TxApart ==
  ASSUME NEW t, NEW u, NEW g \in Neo4jGraph, NEW y, NEW z, TxInv(t, g, y), TxInv(u, g, y),
         t.held \cap u.held = {}, y \subseteq z
  PROVE  TxInv(t, Over(u, g), z)
  <1>1. IsTx(t) /\ IsTx(u) /\ Joined(Over(t, g), y) /\ Joined(Over(u, g), y)
    BY DEF TxInv
  <1>2. Joined(Over(t, Over(u, g)), y)
    BY <1>1, JoinedApart
  <1>3. Joined(Over(t, Over(u, g)), z)
    BY <1>2, JoinedMore
  <1>4. ASSUME NEW n \in t.made \cap NodeIds
        PROVE  Over(u, g).nodes[n] = None
    <2>1. g.nodes[n] = None
      BY DEF TxInv
    <2>2. n \notin u.held
      BY <1>1, TxParts
    <2>3. n \notin DOMAIN u.nodes
      BY <1>1, <2>2, TxParts
    <2>4. QED
      BY <1>1, <2>1, <2>3, OverAt DEF NodeOver
  <1>5. QED
    BY <1>1, <1>3, <1>4 DEF TxInv

\* A lookup holds on over the commit of another transaction u, which may delete the
\* node but cannot replace it.
LEMMA SeenApart ==
  ASSUME NEW t, NEW u, NEW g \in Neo4jGraph, NEW y, NEW z, TxInv(t, g, y), TxInv(u, g, y),
         t.held \cap u.held = {}, y \subseteq z,
         \A n \in NodeIds : Over(u, g).nodes[n] = None /\ g.nodes[n] # None => n \in z,
         NEW n, NEW m \in NodeModels, Seen(t, g, y, n, m)
  PROVE  Seen(t, Over(u, g), z, n, m)
  <1>1. IsTx(t) /\ IsTx(u) /\ n \in NodeIds /\ m # None
    BY McpAssumption DEF TxInv, Seen, Models
  <1>2. SUFFICES ASSUME Over(t, g).nodes[n] = m, n \notin z
                 PROVE  Over(t, Over(u, g)).nodes[n] = m
    BY <1>1 DEF Seen
  <1>3. /\ Over(t, g).nodes[n] = NodeOver(t, g, n)
        /\ Over(u, g).nodes[n] = NodeOver(u, g, n) /\ Over(u, g) \in Neo4jGraph
    BY <1>1, OverAt
  <1>4. Over(t, Over(u, g)).nodes[n] = NodeOver(t, Over(u, g), n)
    BY <1>1, <1>3, OverAt
  <1>5. CASE n \in DOMAIN t.nodes
    BY <1>2, <1>3, <1>4, <1>5 DEF NodeOver
  <1>6. CASE n \notin DOMAIN t.nodes
    <2>1. g.nodes[n] = m
      BY <1>2, <1>3, <1>6 DEF NodeOver
    <2>2. CASE n \in DOMAIN u.nodes
      <3>1. u.nodes[n] # None
        BY <1>1, <1>2, <1>3, <2>1, <2>2 DEF NodeOver
      <3>2. n \in u.made
        BY <1>1, <2>2, <3>1, TxParts
      <3>3. g.nodes[n] = None
        BY <1>1, <3>2 DEF TxInv
      <3>4. QED
        BY <1>1, <2>1, <3>3
    <2>3. CASE n \notin DOMAIN u.nodes
      BY <1>3, <1>4, <1>6, <2>1, <2>3 DEF NodeOver
    <2>4. QED
      BY <2>2, <2>3
  <1>7. QED
    BY <1>5, <1>6

LEMMA NoTx == IsTx(NoWrites) /\ NoWrites.held = {} /\ NoWrites.made = {}
  BY DEF IsTx, NoWrites, Writes, Nothing

\* A transaction that has written nothing reads the graph.
LEMMA NothingOver ==
  ASSUME NEW g \in Neo4jGraph
  PROVE  Over(NoWrites, g) = g
  <1>1. DOMAIN NoWrites.nodes = {} /\ DOMAIN NoWrites.rels = {}
    BY DEF NoWrites, Writes, Nothing
  <1>2. /\ g.nodes = [n \in NodeIds |-> g.nodes[n]] /\ g.rels = [r \in RelIds |-> g.rels[r]]
        /\ DOMAIN g.nodes = NodeIds /\ DOMAIN g.rels = RelIds
        /\ g = [nodes |-> g.nodes, rels |-> g.rels]
    BY DEF Neo4jGraph
  <1>3. Merge(NoWrites.nodes, g.nodes) = g.nodes
    BY <1>1, <1>2 DEF Merge
  <1>4. Merge(NoWrites.rels, g.rels) = g.rels
    BY <1>1, <1>2 DEF Merge
  <1>5. QED
    BY <1>2, <1>3, <1>4 DEF Over

\* The writes of a transaction and one statement more.
LEMMA ThenTx ==
  ASSUME NEW t, NEW w, IsTx(t), IsTx(w)
  PROVE  /\ IsTx(Then(t, w))
         /\ Then(t, w).held = t.held \cup w.held /\ Then(t, w).made = t.made \cup w.made
         /\ \A g \in Neo4jGraph : Over(Then(t, w), g) = Over(w, Over(t, g))
  <1> DEFINE s == Then(t, w)
  <1>1. /\ s.nodes = Merge(w.nodes, t.nodes) /\ s.rels = Merge(w.rels, t.rels)
        /\ s.made = t.made \cup w.made /\ s.held = t.held \cup w.held
        /\ s \in [nodes : {s.nodes}, rels : {s.rels}, made : {s.made}, held : {s.held}]
    BY DEF Then, Writes
  <1> HIDE DEF s
  <1>2. /\ DOMAIN s.nodes = DOMAIN w.nodes \cup DOMAIN t.nodes
        /\ \A n \in DOMAIN s.nodes : s.nodes[n] = IF n \in DOMAIN w.nodes THEN w.nodes[n] ELSE t.nodes[n]
        /\ s.nodes = [n \in DOMAIN s.nodes |-> s.nodes[n]]
    BY <1>1 DEF Merge
  <1>3. /\ DOMAIN s.rels = DOMAIN w.rels \cup DOMAIN t.rels
        /\ \A r \in DOMAIN s.rels : s.rels[r] = IF r \in DOMAIN w.rels THEN w.rels[r] ELSE t.rels[r]
        /\ s.rels = [r \in DOMAIN s.rels |-> s.rels[r]]
    BY <1>1 DEF Merge
  <1>4. s.nodes \in [DOMAIN s.nodes -> NodeModels \cup {None}]
    BY <1>2, TxParts
  <1>5. s.rels \in [DOMAIN s.rels -> Relationship \cup {None}]
    BY <1>3, TxParts
  <1>6. DOMAIN s.nodes \subseteq NodeIds \cap s.held /\ DOMAIN s.rels \subseteq RelIds \cap s.held
    BY <1>1, <1>2, <1>3, TxParts
  <1>7. s.made \subseteq s.held
    BY <1>1, TxParts
  <1>8. \A n \in DOMAIN s.nodes : s.nodes[n] # None => n \in s.made
    BY <1>1, <1>2, TxParts
  <1>9. \A r \in DOMAIN s.rels : s.rels[r] # None => {s.rels[r].from, s.rels[r].to} \subseteq s.held
    BY <1>1, <1>3, TxParts
  <1>10. IsTx(s)
    BY <1>1, <1>4, <1>5, <1>6, <1>7, <1>8, <1>9 DEF IsTx
  <1>11. ASSUME NEW g \in Neo4jGraph
         PROVE  Over(s, g) = Over(w, Over(t, g))
    <2> DEFINE x == Over(t, g)
               a == Over(s, g)
               b == Over(w, x)
    <2>1. /\ x \in Neo4jGraph
          /\ \A n \in NodeIds : x.nodes[n] = NodeOver(t, g, n)
          /\ \A r \in RelIds : x.rels[r] = RelOver(t, g, r)
      BY OverAt
    <2> HIDE DEF x
    <2>2. /\ a \in Neo4jGraph
          /\ \A n \in NodeIds : a.nodes[n] = NodeOver(s, g, n)
          /\ \A r \in RelIds : a.rels[r] = RelOver(s, g, r)
      BY <1>10, OverAt
    <2>3. /\ b \in Neo4jGraph
          /\ \A n \in NodeIds : b.nodes[n] = NodeOver(w, x, n)
          /\ \A r \in RelIds : b.rels[r] = RelOver(w, x, r)
      BY <2>1, OverAt
    <2> HIDE DEF a, b
    <2>4. \A n \in NodeIds : a.nodes[n] = b.nodes[n]
      BY <1>2, <2>1, <2>2, <2>3 DEF NodeOver
    <2>5. \A r \in RelIds : a.rels[r] = b.rels[r]
      BY <1>3, <2>1, <2>2, <2>3 DEF RelOver
    <2>6. a.nodes = b.nodes
      BY <2>2, <2>3, <2>4 DEF Neo4jGraph
    <2>7. a.rels = b.rels
      BY <2>2, <2>3, <2>5 DEF Neo4jGraph
    <2>8. a = [nodes |-> a.nodes, rels |-> a.rels] /\ b = [nodes |-> b.nodes, rels |-> b.rels]
      BY <2>2, <2>3 DEF Neo4jGraph
    <2>9. QED
      BY <2>6, <2>7, <2>8 DEF a, b, x
  <1>12. QED
    BY <1>1, <1>10, <1>11 DEF s

-----------------------------------------------------------------------------
(***************************************************************************)
(* The statements.                                                         *)
(***************************************************************************)
\* An operation whose ends are resolved, and what is known when its statement runs
\* on the view v, after the ids z have been deleted: the id of a create is free, the
\* ends of a relationship are of the models that they were looked up to be of.
Resolvable(v, z, op, id) ==
  /\ op.op \in {"node_create", "node_update", "node_delete", "edge_create", "edge_update", "edge_delete"}
  /\ op.op = "node_create" => op.model \in NodeModels /\ id \in NodeIds /\ v.nodes[id] = None
  /\ op.op = "node_delete" => op.id \in NodeIds
  /\ op.op = "edge_delete" => op.id \in RelIds
  /\ op.op = "edge_create" =>
       /\ op.model \in RelModels /\ op.from \in NodeIds /\ op.to \in NodeIds /\ id \in RelIds
       /\ Matches(v, op) => /\ Fits(v, z, op.from, FromModel[op.model])
                            /\ Fits(v, z, op.to, ToModel[op.model])

\* A statement that writes ns to nodes and rs to relationships.
LEMMA WritesTx ==
  ASSUME NEW ns, NEW rs, NEW made, NEW held,
         ns \in [DOMAIN ns -> NodeModels \cup {None}], rs \in [DOMAIN rs -> Relationship \cup {None}],
         DOMAIN ns \subseteq NodeIds \cap held, DOMAIN rs \subseteq RelIds \cap held, made \subseteq held,
         \A n \in DOMAIN ns : ns[n] # None => n \in made,
         \A r \in DOMAIN rs : rs[r] # None => {rs[r].from, rs[r].to} \subseteq held
  PROVE  IsTx(Writes(ns, rs, made, held))
  <1> DEFINE w == Writes(ns, rs, made, held)
  <1>1. /\ w.nodes = ns /\ w.rels = rs /\ w.made = made /\ w.held = held
        /\ w \in [nodes : {w.nodes}, rels : {w.rels}, made : {w.made}, held : {w.held}]
    BY DEF Writes
  <1> HIDE DEF w
  <1>2. IsTx(w)
    BY <1>1 DEF IsTx
  <1>3. QED
    BY <1>2 DEF w

LEMMA WritesAt ==
  \A ns, rs, made, held :
    LET w == Writes(ns, rs, made, held)
    IN  w.nodes = ns /\ w.rels = rs /\ w.made = made /\ w.held = held
  BY DEF Writes

LEMMA ToAt ==
  ASSUME NEW S, NEW x
  PROVE  DOMAIN To(S, x) = S /\ (\A i \in S : To(S, x)[i] = x) /\ \A T : x \in T => To(S, x) \in [S -> T]
  BY DEF To

LEMMA NothingAt == DOMAIN Nothing = {}
  BY DEF Nothing

\* A statement that writes relationships only.
LEMMA RelWritesTx ==
  ASSUME NEW rs, NEW made, NEW held, rs \in [DOMAIN rs -> Relationship \cup {None}],
         DOMAIN rs \subseteq RelIds \cap held, made \subseteq held,
         \A r \in DOMAIN rs : rs[r] # None => {rs[r].from, rs[r].to} \subseteq held
  PROVE  IsTx(Writes(Nothing, rs, made, held))
  <1>1. PICK no : no = Nothing
    OBVIOUS
  <1>2. DOMAIN no = {} /\ no \in [DOMAIN no -> NodeModels \cup {None}]
    BY <1>1 DEF Nothing
  <1>3. DOMAIN no \subseteq NodeIds \cap held /\ \A n \in DOMAIN no : no[n] # None => n \in made
    BY <1>2
  <1>4. IsTx(Writes(no, rs, made, held))
    BY <1>2, <1>3, WritesTx
  <1>5. QED
    BY <1>1, <1>4

\* A statement that writes nodes only.
LEMMA NodeWritesTx ==
  ASSUME NEW ns, NEW made, NEW held, ns \in [DOMAIN ns -> NodeModels \cup {None}],
         DOMAIN ns \subseteq NodeIds \cap held, made \subseteq held,
         \A n \in DOMAIN ns : ns[n] # None => n \in made
  PROVE  IsTx(Writes(ns, Nothing, made, held))
  <1>1. PICK no : no = Nothing
    OBVIOUS
  <1>2. DOMAIN no = {} /\ no \in [DOMAIN no -> Relationship \cup {None}]
    BY <1>1 DEF Nothing
  <1>3. /\ DOMAIN no \subseteq RelIds \cap held
        /\ \A r \in DOMAIN no : no[r] # None => {no[r].from, no[r].to} \subseteq held
    BY <1>2
  <1>4. IsTx(Writes(ns, no, made, held))
    BY <1>2, <1>3, WritesTx
  <1>5. QED
    BY <1>1, <1>4

\* A graph in which the relationships that are left join what they joined.
LEMMA JoinedOver ==
  ASSUME NEW v \in Neo4jGraph, NEW z, NEW w, IsTx(w),
         \A r \in RelIds : RelOver(w, v, r) \in Relationship =>
           LET e == RelOver(w, v, r)
           IN  /\ NodeOver(w, v, e.from) # None /\ NodeOver(w, v, e.to) # None
               /\ e.from \in z \/ NodeOver(w, v, e.from) = FromModel[e.model]
               /\ e.to \in z \/ NodeOver(w, v, e.to) = ToModel[e.model]
  PROVE  Joined(Over(w, v), z)
  <1> DEFINE x == Over(w, v)
  <1>1. /\ x \in Neo4jGraph
        /\ \A n \in NodeIds : x.nodes[n] = NodeOver(w, v, n)
        /\ \A r \in RelIds : x.rels[r] = RelOver(w, v, r)
    BY OverAt
  <1> HIDE DEF x
  <1>2. ASSUME NEW r \in RelIds, x.rels[r] \in Relationship
        PROVE  /\ Fits(x, z, x.rels[r].from, FromModel[x.rels[r].model])
               /\ Fits(x, z, x.rels[r].to, ToModel[x.rels[r].model])
    <2>1. x.rels[r].from \in NodeIds /\ x.rels[r].to \in NodeIds
      BY <1>2, GraphAt
    <2>2. QED
      BY <1>1, <1>2, <2>1 DEF Fits
  <1>3. Joined(x, z)
    BY <1>1, <1>2, JoinedAt
  <1>4. QED
    BY <1>3 DEF x

LEMMA StatementTx ==
  ASSUME NEW v \in Neo4jGraph, NEW z, Joined(v, z), NEW op, NEW id, Resolvable(v, z, op, id)
  PROVE  /\ IsTx(Statement(v, op, id))
         /\ Joined(Over(Statement(v, op, id), v), z)
         /\ \A n \in Statement(v, op, id).made \cap NodeIds : op.op = "node_create" /\ n = id
  <1> DEFINE w == Statement(v, op, id)
  <1>0. /\ \A r \in RelIds : v.rels[r] \in Relationship =>
             /\ v.nodes[v.rels[r].from] # None /\ v.nodes[v.rels[r].to] # None
             /\ v.rels[r].from \in z \/ v.nodes[v.rels[r].from] = FromModel[v.rels[r].model]
             /\ v.rels[r].to \in z \/ v.nodes[v.rels[r].to] = ToModel[v.rels[r].model]
        /\ \A r \in RelIds : v.rels[r] \in Relationship \cup {None}
        /\ None \notin Relationship
    BY JoinedAt, GraphAt DEF Fits
  <1>1. CASE ~Matches(v, op)
    <2>1. w = NoWrites
      BY <1>1 DEF Statement
    <2>2. QED
      BY <2>1, NoTx, NothingOver
  <1>2. CASE Matches(v, op) /\ op.op = "node_create"
    <2> DEFINE ns == To({id}, op.model)
    <2>1. w = Writes(ns, Nothing, {id}, {id})
      BY <1>2 DEF Statement
    <2>2. op.model \in NodeModels /\ id \in NodeIds /\ v.nodes[id] = None
      BY <1>2 DEF Resolvable
    <2>3. /\ DOMAIN ns = {id} /\ ns[id] = op.model /\ ns \in [{id} -> NodeModels \cup {None}]
      BY <2>2, ToAt
    <2> HIDE DEF ns, w
    <2>4. IsTx(w) /\ w.nodes = ns /\ w.rels = Nothing /\ w.made = {id}
      BY <2>1, <2>2, <2>3, NodeWritesTx, WritesAt
    <2>5. \A r \in RelIds : RelOver(w, v, r) = v.rels[r]
      BY <2>4, NothingAt DEF RelOver
    <2>6. \A n \in NodeIds : n # id => NodeOver(w, v, n) = v.nodes[n]
      BY <2>3, <2>4 DEF NodeOver
    <2>7. \A r \in RelIds : v.rels[r] \in Relationship => v.rels[r].from # id /\ v.rels[r].to # id
      BY <1>0, <2>2
    <2>8. \A r \in RelIds : v.rels[r] \in Relationship => v.rels[r].from \in NodeIds /\ v.rels[r].to \in NodeIds
      BY GraphAt
    <2>9. Joined(Over(w, v), z)
      BY <1>0, <2>4, <2>5, <2>6, <2>7, <2>8, JoinedOver
    <2>10. QED
      BY <1>2, <2>4, <2>9 DEF w
  <1>3. CASE Matches(v, op) /\ op.op = "node_delete"
    <2> DEFINE rs == Attached(v, op.id)
               ns == To({op.id}, None)
               es == To(rs, None)
               held == {op.id} \cup rs \cup EndsOf(v, rs)
    <2>1. w = Writes(ns, es, {}, held)
      BY <1>3 DEF Statement
    <2>2. op.id \in NodeIds /\ rs \subseteq RelIds
      BY <1>3 DEF Resolvable, Attached
    <2>3. /\ DOMAIN ns = {op.id} /\ ns[op.id] = None /\ ns \in [{op.id} -> NodeModels \cup {None}]
          /\ DOMAIN es = rs /\ (\A r \in rs : es[r] = None) /\ es \in [rs -> Relationship \cup {None}]
      BY ToAt
    <2>4. \A r \in RelIds \ rs : v.rels[r] \in Relationship => v.rels[r].from # op.id /\ v.rels[r].to # op.id
      BY <1>0 DEF Attached
    <2>5. op.id \in held /\ rs \subseteq held
      OBVIOUS
    <2> HIDE DEF ns, es, rs, held, w
    <2>6. IsTx(w) /\ w.nodes = ns /\ w.rels = es /\ w.made = {}
      BY <2>1, <2>2, <2>3, <2>5, WritesTx, WritesAt
    <2>7. \A r \in RelIds : RelOver(w, v, r) = IF r \in rs THEN None ELSE v.rels[r]
      BY <2>3, <2>6 DEF RelOver
    <2>8. \A n \in NodeIds : n # op.id => NodeOver(w, v, n) = v.nodes[n]
      BY <2>3, <2>6 DEF NodeOver
    <2>9. \A r \in RelIds : v.rels[r] \in Relationship => v.rels[r].from \in NodeIds /\ v.rels[r].to \in NodeIds
      BY GraphAt
    <2>10. Joined(Over(w, v), z)
      BY <1>0, <2>4, <2>6, <2>7, <2>8, <2>9, JoinedOver
    <2>11. QED
      BY <2>6, <2>10 DEF w
  <1>4. CASE Matches(v, op) /\ op.op = "edge_create"
    <2> DEFINE e == [model |-> op.model, from |-> op.from, to |-> op.to]
               es == To({id}, e)
               held == {op.from, op.to, id}
    <2>1. w = Writes(Nothing, es, {id}, held)
      BY <1>4 DEF Statement
    <2>2. /\ op.model \in RelModels /\ op.from \in NodeIds /\ op.to \in NodeIds /\ id \in RelIds
          /\ v.nodes[op.from] # None /\ v.nodes[op.to] # None
          /\ op.from \in z \/ v.nodes[op.from] = FromModel[op.model]
          /\ op.to \in z \/ v.nodes[op.to] = ToModel[op.model]
      BY <1>4 DEF Resolvable, Fits
    <2>3. e \in Relationship /\ e.from = op.from /\ e.to = op.to /\ e.model = op.model
      BY <2>2 DEF Relationship
    <2> HIDE DEF e
    <2>4. DOMAIN es = {id} /\ es[id] = e /\ es \in [{id} -> Relationship \cup {None}]
      BY <2>3, ToAt
    <2>5. id \in held /\ {e.from, e.to} \subseteq held
      BY <2>3
    <2> HIDE DEF es, held, w
    <2>6. IsTx(w) /\ w.nodes = Nothing /\ w.rels = es /\ w.made = {id}
      BY <2>1, <2>2, <2>4, <2>5, RelWritesTx, WritesAt
    <2>7. \A r \in RelIds : RelOver(w, v, r) = IF r = id THEN e ELSE v.rels[r]
      BY <2>4, <2>6 DEF RelOver
    <2>8. \A n : NodeOver(w, v, n) = v.nodes[n]
      BY <2>6, NothingAt DEF NodeOver
    <2>9. Joined(Over(w, v), z)
      BY <1>0, <2>2, <2>3, <2>6, <2>7, <2>8, JoinedOver
    <2>10. id \notin NodeIds
      BY <2>2, McpAssumption
    <2>11. QED
      BY <2>6, <2>9, <2>10 DEF w
  <1>5. CASE Matches(v, op) /\ op.op = "edge_delete"
    <2> DEFINE es == To({op.id}, None)
               held == {op.id} \cup EndsOf(v, {op.id})
    <2>1. w = Writes(Nothing, es, {}, held)
      BY <1>5 DEF Statement
    <2>2. op.id \in RelIds /\ op.id \in held
      BY <1>5 DEF Resolvable
    <2>3. DOMAIN es = {op.id} /\ es[op.id] = None /\ es \in [{op.id} -> Relationship \cup {None}]
      BY ToAt
    <2> HIDE DEF es, held, w
    <2>4. IsTx(w) /\ w.nodes = Nothing /\ w.rels = es /\ w.made = {}
      BY <2>1, <2>2, <2>3, RelWritesTx, WritesAt
    <2>5. \A r \in RelIds : RelOver(w, v, r) = IF r = op.id THEN None ELSE v.rels[r]
      BY <2>3, <2>4 DEF RelOver
    <2>6. \A n : NodeOver(w, v, n) = v.nodes[n]
      BY <2>4, NothingAt DEF NodeOver
    <2>7. Joined(Over(w, v), z)
      BY <1>0, <2>4, <2>5, <2>6, JoinedOver
    <2>8. QED
      BY <2>4, <2>7 DEF w
  <1>6. CASE Matches(v, op) /\ op.op \in {"node_update", "edge_update"}
    <2>1. w = Writes(Nothing, Nothing, {}, {op.id})
      <3>1. /\ op.op # "node_create" /\ op.op # "node_delete"
            /\ op.op # "edge_create" /\ op.op # "edge_delete"
        BY <1>6
      <3>2. QED
        BY <1>6, <3>1 DEF Statement
    <2> HIDE DEF w
    <2>2. IsTx(w) /\ w.nodes = Nothing /\ w.rels = Nothing /\ w.made = {}
      <3>1. PICK no : no = Nothing
        OBVIOUS
      <3>2. DOMAIN no = {} /\ no \in [DOMAIN no -> Relationship \cup {None}]
        BY <3>1 DEF Nothing
      <3>3. DOMAIN no \subseteq RelIds \cap {op.id}
        BY <3>2
      <3>4. \A r \in DOMAIN no : no[r] # None => {no[r].from, no[r].to} \subseteq {op.id}
        BY <3>2
      <3>5. IsTx(Writes(Nothing, no, {}, {op.id}))
        BY <3>2, <3>3, <3>4, RelWritesTx
      <3>6. QED
        BY <2>1, <3>1, <3>5, WritesAt
    <2>3. (\A r : RelOver(w, v, r) = v.rels[r]) /\ \A n : NodeOver(w, v, n) = v.nodes[n]
      BY <2>2, NothingAt DEF RelOver, NodeOver
    <2>4. Joined(Over(w, v), z)
      BY <1>0, <2>2, <2>3, JoinedOver
    <2>5. QED
      BY <2>2, <2>4 DEF w
  <1>7. QED
    BY <1>1, <1>2, <1>3, <1>4, <1>5, <1>6 DEF Resolvable

-----------------------------------------------------------------------------
(***************************************************************************)
(* The steps of a call.                                                    *)
(***************************************************************************)
LEMMA OpKinds ==
  ASSUME CallsInv, NEW c \in Calls, LookupInv(c), Running(c)
  PROVE  /\ Op(c).op = "define" \/
              Op(c).op \in {"node_create", "node_update", "node_delete", "edge_create", "edge_update", "edge_delete"}
         /\ Op(c).op = "node_create" => Op(c).model \in NodeModels
         /\ Op(c).op = "node_delete" => Op(c).id \in NodeIds
         /\ Op(c).op = "edge_delete" => Op(c).id \in RelIds
         /\ Op(c).op = "edge_create" =>
              /\ Op(c).model \in RelModels
              /\ Op(c).from \in NodeIds \cup {None} /\ Op(c).to \in NodeIds \cup {None}
  <1> DEFINE x == call[c]
             op == x.request.ops[x.next]
  <1>1. x.phase = "tx" /\ x.next <= Len(x.request.ops) /\ x.next \in Nat \ {0} /\ x.ref \in NodeIds \cup {None}
    BY DEF Running, LookupInv
  <1>2. x.request \in Requests
    BY <1>1, Active
  <1>3. x.request.ops \in Seq(Operation) /\ Len(x.request.ops) \in Nat
    BY <1>2, RequestOps
  <1>4. op \in Operation
    BY <1>1, <1>3
  <1>5. CASE op.op = "edge_create"
    <2> DEFINE Resolved(end) == IF end = None THEN x.ref ELSE end
    <2>1. Op(c) = [op EXCEPT !.from = Resolved(@), !.to = Resolved(@)]
      BY <1>5 DEF Op
    <2>2. op \in [op : {"edge_create"}, model : RelModels, from : NodeIds \cup {None}, to : NodeIds \cup {None}]
      BY <1>4, <1>5 DEF Operation
    <2>3. Resolved(op.from) \in NodeIds \cup {None} /\ Resolved(op.to) \in NodeIds \cup {None}
      BY <1>1, <2>2
    <2> HIDE DEF op, Resolved
    <2>4. /\ Op(c).op = "edge_create" /\ Op(c).model = op.model
          /\ Op(c).from = Resolved(op.from) /\ Op(c).to = Resolved(op.to)
      BY <2>1, <2>2
    <2>5. QED
      BY <2>2, <2>3, <2>4
  <1>6. CASE op.op # "edge_create"
    <2>1. Op(c) = op
      BY <1>6 DEF Op
    <2> HIDE DEF op
    <2>2. QED
      BY <1>4, <1>6, <2>1 DEF Operation
  <1>7. QED
    BY <1>5, <1>6

\* A call that has not moved keeps what it has looked up, as long as that stays so.
LEMMA LookupKept ==
  ASSUME CallsInv, NEW c \in Calls, LookupInv(c), call'[c] = call[c],
         \A n, m : m \in NodeModels /\ Seen(call[c].tx, graph, gone, n, m)
                     => Seen(call[c].tx, graph', gone', n, m)
  PROVE  LookupInv(c)'
  <1>1. Op(c)' = Op(c) /\ (Running(c)' <=> Running(c))
    BY DEF Op, Running
  <1>2. ASSUME call[c].checked # 0, Op(c).op = "edge_create"
        PROVE  FromModel[Op(c).model] \in NodeModels /\ ToModel[Op(c).model] \in NodeModels
    <2>1. Running(c)
      BY <1>2 DEF LookupInv
    <2>2. Op(c).model \in RelModels
      BY <1>2, <2>1, OpKinds
    <2>3. QED
      BY <2>2, McpAssumption
  <1>3. QED
    BY <1>1, <1>2 DEF LookupInv

\* A call that has nothing looked up.
LEMMA LookupNone ==
  ASSUME NEW c, call'[c].checked = 0, call'[c].next \in Nat \ {0}, call'[c].ref \in NodeIds \cup {None}
  PROVE  LookupInv(c)'
  BY DEF LookupInv

LEMMA IdleEdges ==
  ASSUME NEW g, NEW z, GraphInv(g, z)
  PROVE  /\ Idle.checked = 0 /\ Idle.next = 1 /\ Idle.ref = None /\ Idle.tx = NoWrites
         /\ TxInv(NoWrites, g, z)
  <1>1. Over(NoWrites, g) = g
    BY NothingOver DEF GraphInv
  <1>2. QED
    BY <1>1, NoTx DEF Idle, TxInv, GraphInv

\* Call c moves, and nothing is committed.
LEMMA EdgeStep ==
  ASSUME CallsInv, EdgeInv, NEW c \in Calls, NEW y, call' = [call EXCEPT ![c] = y],
         UNCHANGED neo4jVars, TxInv(y.tx, graph, gone),
         \A d \in Calls \ {c} : y.tx.held \cap call[d].tx.held = {},
         LookupInv(c)'
  PROVE  EdgeInv'
  <1>1. graph' = graph /\ gone' = gone
    BY DEF neo4jVars
  <1>2. call'[c] = y /\ \A d \in Calls \ {c} : call'[d] = call[d]
    BY DEF CallsInv
  <1>3. GraphInv(graph, gone)'
    BY <1>1 DEF EdgeInv, GraphInv, Joined
  <1>4. ASSUME NEW d \in Calls PROVE TxInv(call'[d].tx, graph', gone')
    <2>1. TxInv(call[d].tx, graph, gone)
      BY DEF EdgeInv
    <2>2. CASE d = c
      BY <1>1, <1>2, <2>2
    <2>3. CASE d # c
      BY <1>1, <1>2, <2>1, <2>3
    <2>4. QED
      BY <2>2, <2>3
  <1>5. HeldApart'
    <2>1. HeldApart
      BY DEF EdgeInv
    <2>2. QED
      BY <1>2, <2>1 DEF HeldApart
  <1>6. ASSUME NEW d \in Calls PROVE LookupInv(d)'
    <2>1. CASE d = c
      BY <2>1
    <2>2. CASE d # c
      <3>1. LookupInv(d) /\ call'[d] = call[d]
        BY <1>2, <2>2 DEF EdgeInv
      <3>2. QED
        BY <1>1, <3>1, LookupKept
    <2>3. QED
      BY <2>1, <2>2
  <1>7. QED
    BY <1>3, <1>4, <1>5, <1>6 DEF EdgeInv

\* It keeps its transaction, and has nothing looked up.
LEMMA EdgeQuiet ==
  ASSUME CallsInv, EdgeInv, NEW c \in Calls, NEW y, call' = [call EXCEPT ![c] = y],
         UNCHANGED neo4jVars, y.tx = call[c].tx,
         y.checked = 0, y.next \in Nat \ {0}, y.ref \in NodeIds \cup {None}
  PROVE  EdgeInv'
  <1>1. call'[c] = y
    BY DEF CallsInv
  <1>2. LookupInv(c)'
    BY <1>1, LookupNone
  <1>3. TxInv(y.tx, graph, gone) /\ \A d \in Calls \ {c} : y.tx.held \cap call[d].tx.held = {}
    BY DEF EdgeInv, HeldApart
  <1>4. QED
    BY <1>2, <1>3, EdgeStep

\* It answers, and what it has not committed is rolled back.
LEMMA EdgeAnswer ==
  ASSUME CallsInv, EdgeInv, NEW c \in Calls, Answer(c), UNCHANGED neo4jVars
  PROVE  EdgeInv'
  <1>1. call' = [call EXCEPT ![c] = Idle] /\ call'[c] = Idle
    BY DEF Answer, CallsInv
  <1>2. /\ Idle.checked = 0 /\ Idle.next = 1 /\ Idle.ref = None /\ Idle.tx = NoWrites
        /\ TxInv(NoWrites, graph, gone)
    BY IdleEdges DEF EdgeInv
  <1>3. LookupInv(c)'
    BY <1>1, <1>2, LookupNone
  <1>4. \A d \in Calls \ {c} : Idle.tx.held \cap call[d].tx.held = {}
    BY <1>2, NoTx
  <1>5. QED
    BY <1>1, <1>2, <1>3, <1>4, EdgeStep

\* It commits: every other transaction finds the graph as it needs it.
LEMMA EdgeCommit ==
  ASSUME CallsInv, EdgeInv, NEW c \in Calls, NEW y, Published(c), call' = [call EXCEPT ![c] = y],
         y.tx = NoWrites, y.checked = 0, y.next \in Nat \ {0}, y.ref \in NodeIds \cup {None}
  PROVE  EdgeInv'
  <1>1. PICK u : u = call[c].tx
    OBVIOUS
  <1>2. PICK g : g = graph
    OBVIOUS
  <1>3. PICK z : z = gone
    OBVIOUS
  <1>4. call'[c] = y /\ \A d \in Calls \ {c} : call'[d] = call[d]
    BY DEF CallsInv
  <1>5. graph' = Over(u, g)
    BY <1>1, <1>2 DEF Published, View
  <1>6. GraphInv(g, z) /\ g \in Neo4jGraph /\ TxInv(u, g, z) /\ IsTx(u)
    BY <1>1, <1>2, <1>3 DEF EdgeInv, GraphInv, TxInv
  <1>7. /\ z \subseteq gone'
        /\ \A n \in NodeIds : n \in gone' <=>
             n \in z \/ (Over(u, g).nodes[n] = None /\ (g.nodes[n] # None \/ n \in u.made))
    BY <1>1, <1>2, <1>3 DEF Published, View, ModelAt
  <1>8. GraphInv(graph', gone')
    <2>1. Over(u, g) \in Neo4jGraph /\ Joined(Over(u, g), z)
      BY <1>6, OverAt DEF TxInv
    <2>2. Joined(Over(u, g), gone')
      BY <1>7, <2>1, JoinedMore
    <2>3. QED
      BY <1>5, <2>1, <2>2 DEF GraphInv
  <1>9. ASSUME NEW d \in Calls PROVE TxInv(call'[d].tx, graph', gone')
    <2>1. CASE d = c
      BY <1>4, <1>8, <2>1, IdleEdges
    <2>2. CASE d # c
      <3>1. TxInv(call[d].tx, g, z) /\ call[d].tx.held \cap u.held = {}
        BY <1>1, <1>2, <1>3, <2>2 DEF EdgeInv, HeldApart
      <3>2. TxInv(call[d].tx, Over(u, g), gone')
        BY <1>6, <1>7, <3>1, TxApart
      <3>3. QED
        BY <1>4, <1>5, <2>2, <3>2
    <2>3. QED
      BY <2>1, <2>2
  <1>10. HeldApart'
    <2>1. HeldApart /\ y.tx.held = {}
      BY NoTx DEF EdgeInv
    <2>2. QED
      BY <1>4, <2>1 DEF HeldApart
  <1>11. ASSUME NEW d \in Calls PROVE LookupInv(d)'
    <2>1. CASE d = c
      BY <1>4, <2>1, LookupNone
    <2>2. CASE d # c
      <3>1. TxInv(call[d].tx, g, z) /\ call[d].tx.held \cap u.held = {}
        BY <1>1, <1>2, <1>3, <2>2 DEF EdgeInv, HeldApart
      <3>2. \A n \in NodeIds : Over(u, g).nodes[n] = None /\ g.nodes[n] # None => n \in gone'
        BY <1>7
      <3>3. ASSUME NEW n, NEW m \in NodeModels, Seen(call[d].tx, g, z, n, m)
            PROVE  Seen(call[d].tx, Over(u, g), gone', n, m)
        BY <1>6, <1>7, <3>1, <3>2, <3>3, SeenApart
      <3>4. LookupInv(d) /\ call'[d] = call[d]
        BY <1>4, <2>2 DEF EdgeInv
      <3>5. QED
        BY <1>2, <1>3, <1>5, <3>3, <3>4, LookupKept
    <2>3. QED
      BY <2>1, <2>2
  <1>12. QED
    BY <1>8, <1>9, <1>10, <1>11 DEF EdgeInv

LEMMA EdgeCheck ==
  ASSUME CallsInv, EdgeInv, NEW c \in Calls, Check(c)
  PROVE  EdgeInv'
  <1> DEFINE x == call[c]
             y == [x EXCEPT !.checked = @ + 1]
             l == Lookups(Op(c))[x.checked + 1]
  <1>1. /\ Looking(c) /\ Running(c) /\ Op(c).op # "define" /\ Ready(c, Op(c))
        /\ x.checked < Len(Lookups(Op(c))) /\ ModelAt(View(c), l.id) = l.model
        /\ UNCHANGED neo4jVars
    BY DEF Check, Looking
  <1>2. IsCall(x) /\ LookupInv(c)
    BY DEF CallsInv, CallInv, EdgeInv
  <1>3. call' = [call EXCEPT ![c] = y]
    BY DEF Check, CallsInv
  <1>4. /\ y.phase = x.phase /\ y.request = x.request /\ y.next = x.next /\ y.ref = x.ref
        /\ y.tx = x.tx /\ y.checked = x.checked + 1
    BY <1>2 DEF IsCall
  <1> HIDE DEF y
  <1>5. call'[c] = y
    BY <1>3 DEF CallsInv
  <1>6. Op(c)' = Op(c) /\ Running(c)'
    BY <1>1, <1>4, <1>5 DEF Op, Running
  <1>7. graph' = graph /\ gone' = gone
    BY <1>1 DEF neo4jVars
  <1>8. x.checked \in Nat /\ x.next \in Nat \ {0} /\ x.ref \in NodeIds \cup {None}
    BY <1>2 DEF LookupInv
  <1>9. ASSUME Op(c).op = "edge_create"
        PROVE  /\ x.checked \in {0, 1}
               /\ x.checked = 0 => Seen(x.tx, graph, gone, Op(c).from, FromModel[Op(c).model])
               /\ x.checked = 1 => Seen(x.tx, graph, gone, Op(c).to, ToModel[Op(c).model])
    <2>1. Op(c).from \in NodeIds /\ Op(c).to \in NodeIds
      BY <1>1, <1>2, <1>9, OpKinds DEF Ready
    <2>2. Lookups(Op(c)) = <<[id |-> Op(c).from, model |-> FromModel[Op(c).model]],
                             [id |-> Op(c).to, model |-> ToModel[Op(c).model]]>>
      BY <1>9 DEF Lookups
    <2>3. x.checked \in {0, 1}
      BY <1>1, <1>8, <2>2
    <2>4. View(c) = Over(x.tx, graph)
      BY DEF View
    <2>5. CASE x.checked = 0
      <3>1. l.id = Op(c).from /\ l.model = FromModel[Op(c).model]
        BY <2>2, <2>5
      <3>2. QED
        BY <1>1, <2>1, <2>4, <2>5, <3>1 DEF ModelAt, Seen
    <2>6. CASE x.checked = 1
      <3>1. l.id = Op(c).to /\ l.model = ToModel[Op(c).model]
        BY <2>2, <2>6
      <3>2. QED
        BY <1>1, <2>1, <2>4, <2>6, <3>1 DEF ModelAt, Seen
    <2>7. QED
      BY <2>3, <2>5, <2>6
  <1>10. ASSUME Op(c).op = "edge_create"
         PROVE  /\ Seen(x.tx, graph, gone, Op(c).from, FromModel[Op(c).model])
                /\ x.checked # 0 => Seen(x.tx, graph, gone, Op(c).to, ToModel[Op(c).model])
    BY <1>2, <1>9, <1>10 DEF LookupInv
  <1>11. LookupInv(c)'
    <2>1. y.checked # 0 /\ y.checked \in Nat /\ (y.checked # 1 <=> x.checked # 0)
      BY <1>4, <1>8
    <2>2. QED
      BY <1>1, <1>4, <1>5, <1>6, <1>7, <1>8, <1>10, <2>1 DEF LookupInv
  <1>12. TxInv(y.tx, graph, gone) /\ \A d \in Calls \ {c} : y.tx.held \cap call[d].tx.held = {}
    BY <1>4 DEF EdgeInv, HeldApart
  <1>13. QED
    BY <1>1, <1>3, <1>11, <1>12, EdgeStep

\* A node that was seen and is still there is what it was seen to be, or was deleted
\* and its id handed out again.
LEMMA SeenNow ==
  ASSUME NEW t, NEW g, NEW z, NEW n, NEW m, Seen(t, g, z, n, m), Over(t, g).nodes[n] # None
  PROVE  Fits(Over(t, g), z, n, m)
  BY DEF Seen, Fits

\* An id that Neo4j hands out is free in the graph and in every transaction.
LEMMA FreeNode ==
  ASSUME NEW c \in Calls, NEW id \in Free \cap NodeIds
  PROVE  graph.nodes[id] = None /\ id \notin call[c].tx.made
  <1>1. id \in Unused /\ id \notin UNION {call[d].tx.made : d \in Calls}
    BY DEF Free
  <1>2. id \notin RelIds
    BY McpAssumption
  <1>3. QED
    BY <1>1, <1>2 DEF Unused

LEMMA EdgeWrite ==
  ASSUME CallsInv, EdgeInv, NEW c \in Calls, Write(c)
  PROVE  EdgeInv'
  <1> DEFINE x == call[c]
             op == Op(c)
  <1>1. /\ Running(c) /\ op.op # "define" /\ Ready(c, op) /\ x.checked = Len(Lookups(op))
        /\ UNCHANGED neo4jVars
    BY DEF Write, Writing
  <1>2. PICK id \in IF op.op = "node_create" THEN Free \cap NodeIds
                    ELSE IF op.op = "edge_create" THEN Free \cap RelIds ELSE {None} :
          LET w == Statement(View(c), op, id)
          IN  /\ Unlocked(c, w)
              /\ call' = [call EXCEPT ![c].tx = Then(@, w),
                                      ![c].next = @ + 1, ![c].checked = 0,
                                      ![c].ref = IF op.op = "node_create" /\ op.ref THEN id ELSE @]
    BY DEF Write
  <1>3. PICK w : w = Statement(View(c), op, id)
    OBVIOUS
  <1>4. PICK f : f = IF op.op = "node_create" /\ op.ref THEN id ELSE x.ref
    OBVIOUS
  <1> DEFINE y == [x EXCEPT !.tx = Then(x.tx, w), !.next = @ + 1, !.checked = 0, !.ref = f]
  <1>5. call' = [call EXCEPT ![c] = y] /\ Unlocked(c, w)
    BY <1>2, <1>3, <1>4 DEF CallsInv
  <1>6. IsCall(x) /\ LookupInv(c) /\ x.next \in Nat \ {0} /\ x.ref \in NodeIds \cup {None}
    BY DEF CallsInv, CallInv, EdgeInv, LookupInv
  <1>7. y.tx = Then(x.tx, w) /\ y.next = x.next + 1 /\ y.checked = 0 /\ y.ref = f
    BY <1>6 DEF IsCall
  <1> HIDE DEF y
  <1>8. PICK v : v = View(c)
    OBVIOUS
  <1>9. /\ GraphInv(graph, gone) /\ graph \in Neo4jGraph /\ TxInv(x.tx, graph, gone) /\ IsTx(x.tx)
        /\ v = Over(x.tx, graph) /\ Joined(v, gone)
    BY <1>8 DEF EdgeInv, GraphInv, TxInv, View
  <1>10. v \in Neo4jGraph /\ \A n \in NodeIds : v.nodes[n] = NodeOver(x.tx, graph, n)
    BY <1>9, OverAt
  <1> HIDE DEF op
  <1>11. op.op = "node_create" =>
           id \in NodeIds /\ graph.nodes[id] = None /\ id \notin x.tx.made
    BY <1>2, FreeNode
  <1>12. Resolvable(v, gone, op, id)
    <2>1. op.op = "node_create" => op.model \in NodeModels /\ id \in NodeIds /\ v.nodes[id] = None
      <3>1. op.op = "node_create" => op.model \in NodeModels
        BY <1>1, <1>6, OpKinds DEF op
      <3>2. op.op = "node_create" => NodeOver(x.tx, graph, id) = None
        BY <1>9, <1>11, TxParts DEF NodeOver
      <3>3. QED
        BY <1>10, <1>11, <3>1, <3>2
    <2>2. op.op \in {"node_create", "node_update", "node_delete", "edge_create", "edge_update", "edge_delete"}
      BY <1>1, <1>6, OpKinds DEF op
    <2>3. (op.op = "node_delete" => op.id \in NodeIds) /\ (op.op = "edge_delete" => op.id \in RelIds)
      BY <1>1, <1>6, OpKinds DEF op
    <2>4. ASSUME op.op = "edge_create"
          PROVE  /\ op.model \in RelModels /\ op.from \in NodeIds /\ op.to \in NodeIds /\ id \in RelIds
                 /\ Matches(v, op) => /\ Fits(v, gone, op.from, FromModel[op.model])
                                      /\ Fits(v, gone, op.to, ToModel[op.model])
      <3>1. op.model \in RelModels /\ op.from \in NodeIds \cup {None} /\ op.to \in NodeIds \cup {None}
        BY <1>1, <1>6, <2>4, OpKinds DEF op
      <3>2. op.from # None /\ op.to # None
        BY <1>1, <2>4 DEF Ready
      <3>3. id \in RelIds
        BY <1>2, <2>4
      <3>4. x.checked = 2
        BY <1>1, <2>4 DEF Lookups
      <3>5. /\ Seen(x.tx, graph, gone, op.from, FromModel[op.model])
            /\ Seen(x.tx, graph, gone, op.to, ToModel[op.model])
        BY <1>6, <2>4, <3>4 DEF LookupInv, op
      <3>6. Matches(v, op) => v.nodes[op.from] # None /\ v.nodes[op.to] # None
        BY <2>4 DEF Matches
      <3>7. QED
        BY <1>9, <3>1, <3>2, <3>3, <3>5, <3>6, SeenNow
    <2>5. QED
      BY <2>1, <2>2, <2>3, <2>4 DEF Resolvable
  <1>13. /\ IsTx(w) /\ Joined(Over(w, v), gone)
         /\ \A n \in w.made \cap NodeIds : op.op = "node_create" /\ n = id
    BY <1>3, <1>8, <1>9, <1>10, <1>12, StatementTx
  <1>14. /\ IsTx(y.tx) /\ y.tx.held = x.tx.held \cup w.held /\ y.tx.made = x.tx.made \cup w.made
         /\ Over(y.tx, graph) = Over(w, v)
    BY <1>7, <1>9, <1>13, ThenTx
  <1>15. TxInv(y.tx, graph, gone)
    <2>1. \A n \in y.tx.made \cap NodeIds : graph.nodes[n] = None
      BY <1>9, <1>11, <1>13, <1>14 DEF TxInv
    <2>2. QED
      BY <1>13, <1>14, <2>1 DEF TxInv
  <1>16. \A d \in Calls \ {c} : y.tx.held \cap call[d].tx.held = {}
    BY <1>5, <1>14 DEF Unlocked, EdgeInv, HeldApart
  <1>17. LookupInv(c)'
    <2>1. call'[c] = y
      BY <1>5 DEF CallsInv
    <2>2. f \in NodeIds \cup {None}
      BY <1>4, <1>6, <1>11
    <2>3. QED
      BY <1>6, <1>7, <2>1, <2>2, LookupNone
  <1>18. QED
    BY <1>1, <1>5, <1>15, <1>16, <1>17, EdgeStep

LEMMA EdgeStart ==
  ASSUME CallsInv, EdgeInv, UNCHANGED <<call, graph, gone>>
  PROVE  EdgeInv'
  <1>1. GraphInv(graph, gone)' /\ HeldApart'
    BY DEF EdgeInv, GraphInv, HeldApart, Joined
  <1>2. \A c \in Calls : TxInv(call'[c].tx, graph', gone')
    BY DEF EdgeInv
  <1>3. ASSUME NEW c \in Calls PROVE LookupInv(c)'
    <2>1. LookupInv(c) /\ call'[c] = call[c]
      BY DEF EdgeInv
    <2>2. QED
      BY <2>1, LookupKept
  <1>4. QED
    BY <1>1, <1>2, <1>3 DEF EdgeInv

LEMMA EdgeCrash ==
  ASSUME EdgeInv, Crash
  PROVE  EdgeInv'
  <1>1. graph' = graph /\ gone' = gone /\ \A c \in Calls : call'[c] = Idle
    BY DEF Crash, neo4jVars
  <1>2. GraphInv(graph, gone)
    BY DEF EdgeInv
  <1>3. GraphInv(graph, gone)'
    BY <1>1, <1>2 DEF GraphInv, Joined
  <1>4. \A c \in Calls : TxInv(call'[c].tx, graph', gone')
    BY <1>1, <1>2, IdleEdges
  <1>5. HeldApart'
    BY <1>1, <1>2, IdleEdges, NoTx DEF HeldApart
  <1>6. ASSUME NEW c \in Calls PROVE LookupInv(c)'
    BY <1>1, <1>2, IdleEdges, LookupNone
  <1>7. QED
    BY <1>3, <1>4, <1>5, <1>6 DEF EdgeInv

\* The steps that keep the transaction and the lookups of a call as they are.
LEMMA EdgeMove ==
  ASSUME CallsInv, EdgeInv, NEW c \in Calls,
         Receive(c) \/ Acquire(c) \/ Snapshot(c) \/ Stage(c)
  PROVE  EdgeInv'
  <1> DEFINE x == call[c]
  <1>1. /\ IsCall(x) /\ CallInv(c, x, holder, schema)
        /\ x.next \in Nat \ {0} /\ x.ref \in NodeIds \cup {None}
        /\ x.checked # 0 => x.phase = "tx" /\ Running(c) /\ Op(c).op # "define"
    BY DEF CallsInv, CallInv, EdgeInv, LookupInv, Running
  <1>2. UNCHANGED neo4jVars
    BY DEF Receive, Acquire, Snapshot, Stage
  <1>3. CASE Receive(c)
    <2>1. PICK r : /\ x = Idle
                   /\ call' = [call EXCEPT ![c] = [Idle EXCEPT !.phase = "called", !.locks = Locks(r),
                                                                !.request = r]]
      BY <1>3 DEF Receive
    <2> DEFINE y == [Idle EXCEPT !.phase = "called", !.locks = Locks(r), !.request = r]
    <2>2. /\ y.tx = Idle.tx /\ y.checked = 0
          /\ y.next \in Nat \ {0} /\ y.ref \in NodeIds \cup {None}
      BY DEF Idle
    <2> HIDE DEF y
    <2>3. call' = [call EXCEPT ![c] = y]
      BY <2>1 DEF y
    <2>4. QED
      BY <1>2, <2>1, <2>2, <2>3, EdgeQuiet
  <1>4. CASE Acquire(c)
    <2> DEFINE y == [x EXCEPT !.locks = Tail(@)]
    <2>1. call' = [call EXCEPT ![c] = y] /\ x.locks # <<>>
      BY <1>4 DEF Acquire, CallsInv
    <2>2. y.tx = x.tx /\ y.checked = x.checked /\ y.next = x.next /\ y.ref = x.ref
      BY <1>1 DEF IsCall
    <2>3. x.checked = 0
      BY <1>1, <2>1 DEF CallInv, Stages
    <2> HIDE DEF y
    <2>4. QED
      BY <1>1, <1>2, <2>1, <2>2, <2>3, EdgeQuiet
  <1>5. CASE Snapshot(c)
    <2> DEFINE y == [x EXCEPT !.phase = "tx", !.staged = schema]
    <2>1. call' = [call EXCEPT ![c] = y] /\ x.phase = "called"
      BY <1>5 DEF Snapshot, CallsInv, Entered
    <2>2. y.tx = x.tx /\ y.checked = x.checked /\ y.next = x.next /\ y.ref = x.ref
      BY <1>1 DEF IsCall
    <2>3. x.checked = 0
      BY <1>1, <2>1
    <2> HIDE DEF y
    <2>4. QED
      BY <1>1, <1>2, <2>1, <2>2, <2>3, EdgeQuiet
  <1>6. CASE Stage(c)
    <2> DEFINE y == [x EXCEPT !.staged = @ \cup {Op(c).model}, !.next = @ + 1]
    <2>1. call' = [call EXCEPT ![c] = y] /\ Op(c).op = "define"
      BY <1>6 DEF Stage, CallsInv
    <2>2. y.tx = x.tx /\ y.checked = x.checked /\ y.next \in Nat \ {0} /\ y.ref = x.ref
      <3>1. y.tx = x.tx /\ y.checked = x.checked /\ y.next = x.next + 1 /\ y.ref = x.ref
        BY <1>1 DEF IsCall
      <3>2. QED
        BY <1>1, <3>1
    <2>3. x.checked = 0
      BY <1>1, <2>1
    <2> HIDE DEF y
    <2>4. QED
      BY <1>1, <1>2, <2>1, <2>2, <2>3, EdgeQuiet
  <1>7. QED
    BY <1>3, <1>4, <1>5, <1>6

\* Its transaction ends.
LEMMA EdgeEnd ==
  ASSUME CallsInv, EdgeInv, NEW c \in Calls, Commit(c) \/ CommitFails(c)
  PROVE  EdgeInv'
  <1> DEFINE x == call[c]
  <1>1. /\ IsCall(x) /\ x.next \in Nat \ {0} /\ x.ref \in NodeIds \cup {None}
        /\ x.checked # 0 => Running(c)
    BY DEF CallsInv, CallInv, EdgeInv, LookupInv
  <1>2. x.checked = 0
    <2>1. x.next > Len(x.request.ops) /\ x.phase = "tx"
      BY DEF Commit, CommitFails
    <2>2. Len(x.request.ops) \in Nat
      BY <2>1, Active, RequestOps
    <2>3. QED
      BY <1>1, <2>1, <2>2 DEF Running
  <1>3. ASSUME Published(c), Answer(c) PROVE EdgeInv'
    <2>1. call' = [call EXCEPT ![c] = Idle]
      BY <1>3 DEF Answer
    <2>2. /\ Idle.tx = NoWrites /\ Idle.checked = 0
          /\ Idle.next \in Nat \ {0} /\ Idle.ref \in NodeIds \cup {None}
      BY DEF Idle
    <2>3. QED
      BY <1>3, <2>1, <2>2, EdgeCommit
  <1>4. CASE Commit(c) /\ x.request.tool = "single"
    BY <1>3, <1>4 DEF Commit
  <1>5. CASE Commit(c) /\ x.request.tool # "single"
    <2> DEFINE y == [x EXCEPT !.phase = "install", !.tx = NoWrites]
    <2>1. call' = [call EXCEPT ![c] = y] /\ Published(c)
      BY <1>5 DEF Commit, CallsInv
    <2>2. y.tx = NoWrites /\ y.checked = x.checked /\ y.next = x.next /\ y.ref = x.ref
      BY <1>1 DEF IsCall
    <2> HIDE DEF y
    <2>3. QED
      BY <1>1, <1>2, <2>1, <2>2, EdgeCommit
  <1>6. CASE CommitFails(c)
    BY <1>3, <1>6, EdgeAnswer DEF CommitFails
  <1>7. QED
    BY <1>4, <1>5, <1>6

LEMMA EdgeNext ==
  ASSUME CallsInv, EdgeInv, [Next]_vars
  PROVE  EdgeInv'
  <1>1. CASE Start
    BY <1>1, EdgeStart DEF Start, neo4jVars
  <1>2. CASE Crash
    BY <1>2, EdgeCrash
  <1>3. ASSUME NEW c \in Calls, Receive(c) \/ Acquire(c) \/ Snapshot(c) \/ Stage(c) PROVE EdgeInv'
    BY <1>3, EdgeMove
  <1>4. ASSUME NEW c \in Calls, Define(c) \/ Checkpoint(c) \/ RefuseNonAtomic(c) \/ Rollback(c)
                 \/ StatementFails(c) \/ Install(c)
        PROVE  EdgeInv'
    <2>1. Answer(c) /\ UNCHANGED neo4jVars
      BY <1>4 DEF Define, Checkpoint, RefuseNonAtomic, Rollback, StatementFails, Install
    <2>2. QED
      BY <2>1, EdgeAnswer
  <1>5. ASSUME NEW c \in Calls, Check(c) PROVE EdgeInv'
    BY <1>5, EdgeCheck
  <1>6. ASSUME NEW c \in Calls, Write(c) PROVE EdgeInv'
    BY <1>6, EdgeWrite
  <1>7. ASSUME NEW c \in Calls, Commit(c) \/ CommitFails(c) PROVE EdgeInv'
    BY <1>7, EdgeEnd
  <1>8. CASE StartFails \/ UNCHANGED vars
    BY <1>8, EdgeStart DEF StartFails, vars, neo4jVars
  <1>9. QED
    BY <1>1, <1>2, <1>3, <1>4, <1>5, <1>6, <1>7, <1>8 DEF Next, Proceed, Fail

LEMMA EdgeInit ==
  ASSUME Init
  PROVE  EdgeInv
  <1>1. GraphInv(graph, gone)
    BY GraphsAssumption DEF Init, GraphInv
  <1>2. \A c \in Calls : call[c] = Idle
    BY DEF Init
  <1>3. \A c \in Calls : TxInv(call[c].tx, graph, gone)
    BY <1>1, <1>2, IdleEdges
  <1>4. HeldApart
    BY <1>1, <1>2, IdleEdges, NoTx DEF HeldApart
  <1>5. \A c \in Calls : LookupInv(c)
    BY <1>1, <1>2, IdleEdges DEF LookupInv
  <1>6. QED
    BY <1>1, <1>3, <1>4, <1>5 DEF EdgeInv

\* Every relationship in Neo4j joins two nodes that are there, of the models that its
\* own model joins, except for an end that was deleted and whose id Neo4j has handed
\* out again, however the lookups, the creates and the deletes of any number of calls
\* interleave, whichever of them fail and wherever the server stops.
THEOREM EdgesJoinModels == Spec => []EdgesJoinTheirModels
<1>1. Init => EdgeInv
  BY EdgeInit
<1>2. CallsInv /\ EdgeInv /\ [Next]_vars => EdgeInv'
  BY EdgeNext
<1>3. EdgeInv => EdgesJoinTheirModels
  BY DEF EdgeInv, GraphInv, EdgesJoinTheirModels
<1>4. Spec => []CallsInv
  BY McpInvariant, PTL DEF McpInv
<1>5. QED
  BY <1>1, <1>2, <1>3, <1>4, PTL DEF Spec
=============================================================================
