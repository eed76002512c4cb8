---------------------------- MODULE EventStoreProofs ----------------------------
(*****************************************************************************)
(* Event ingestion's safety and its refinement of EventLog, for any number   *)
(* of workers, bodies, keys, deliveries and failures.  The inductive         *)
(* invariant is                                                              *)
(*                                                                           *)
(*   Inv == TypeOK /\ DeliveriesInOrder /\ OncePerKey /\ FreeLockIsClean     *)
(*            /\ AckedIsDurable                                              *)
(*                                                                           *)
(* DeliveriesInOrder carries what a worker has established.  At its heart is *)
(* Coming(w), the rows that will be visible once the worker has inserted     *)
(* what it has to: an insert leaves it alone, and it has one row per key.    *)
(*                                                                           *)
(* CopiesInv adds what bounds the copies of an event without a key: Numbered *)
(* tells deliveries apart, Charged pays for those that were made in vain.    *)
(*****************************************************************************)
EXTENDS EventStore, FiniteSetTheorems, Numbers, TLAPS

(* The rows seen on the connection when w has made its inserts. *)
Coming(w) == Visible \cup {Own(w, j) : j \in req[w].todo}

(* Every position of w's body is answered with an event under its key, an     *)
(* event without a key with its own.                                          *)
Resolved(w) ==
  /\ req[w].result \in [DOMAIN Keys(w) -> Row]
  /\ \A j \in DOMAIN Keys(w) :
       /\ req[w].result[j].key = Keys(w)[j]
       /\ Keys(w)[j] = NoKey => req[w].result[j] = Own(w, j)

(* ... each of them stored already, or the delivery's own and no later; the   *)
(* open transaction holds nothing else.                                       *)
Inserting(w) ==
  /\ Resolved(w)
  /\ \A j \in DOMAIN Keys(w) :
       /\ req[w].result[j] \in Coming(w)
       /\ req[w].result[j] \in table \/ \E i \in 1..j : req[w].result[j] = Own(w, i)
  /\ \A j \in req[w].todo : req[w].result[j] = Own(w, j)
  /\ \A row \in open : \E j \in DOMAIN Keys(w) : row = req[w].result[j]
  /\ Log!OncePerKey(Coming(w))

Answered(w) ==
  /\ Resolved(w)
  /\ \A j \in DOMAIN Keys(w) : req[w].result[j] \in table

InOrder(w) ==
  /\ req[w].pc \in {"resolve", "insert"} <=> lock = w
  /\ req[w].pc = "resolve" => open = {}
  /\ req[w].pc = "insert" => Inserting(w)
  /\ req[w].pc = "answer" /\ req[w].result # Failed => Answered(w)

DeliveriesInOrder == \A w \in Workers : InOrder(w)

Inv ==
  /\ TypeOK
  /\ DeliveriesInOrder
  /\ OncePerKey
  /\ FreeLockIsClean
  /\ AckedIsDurable

-----------------------------------------------------------------------------
(* The event a delivery builds from position j of its body is well formed. *)
LEMMA OwnIsRow ==
  ASSUME NEW w \in Workers, req[w].message \in Message, NEW j \in DOMAIN Keys(w)
  PROVE  /\ Own(w, j) \in Row
         /\ Own(w, j).key = Keys(w)[j] /\ Own(w, j).pos = j
         /\ Own(w, j).payload = req[w].message.payload
<1>1. Own(w, j) \in Log!Own(req[w].message)
  BY DEF Own, Keys, Log!Own, Log!Event
<1>2. Own(w, j) \in Row
  BY <1>1 DEF Row
<1> QED
  BY <1>2 DEF Own, Keys, Log!Event

(* Events of one delivery differ by their position. *)
LEMMA OwnInjective ==
  ASSUME NEW w \in Workers, NEW i, NEW j, Own(w, i) = Own(w, j)
  PROVE  i = j
BY DEF Own, Log!Event

(* A worker's move replaces its own locals and nobody else's. *)
LEMMA Moved ==
  ASSUME TypeOK, NEW w \in Workers, NEW local, Goto(w, local)
  PROVE  /\ DOMAIN req' = Workers
         /\ req'[w] = local
         /\ \A v \in Workers : v # w => req'[v] = req[v]
BY DEF TypeOK, Goto

(* The fields of a worker's locals after some of them are replaced. *)
LEMMA Fields ==
  ASSUME NEW r, DOMAIN r = DOMAIN Idle, NEW pc, NEW todo, NEW result
  PROVE  LET moved == [r EXCEPT !.pc = pc, !.result = result, !.todo = todo] IN
         /\ DOMAIN moved = DOMAIN Idle
         /\ moved.pc = pc /\ moved.todo = todo /\ moved.result = result
         /\ moved.message = r.message
BY DEF Idle

(* What another worker has established survives a step that keeps the table   *)
(* growing, and is taken under the lock or leaves lock and rows alone.        *)
LEMMA InOrderKept ==
  ASSUME NEW v \in Workers, InOrder(v), req'[v] = req[v],
         table \subseteq table',
         lock' = v <=> lock = v,
         lock = v => table' = table /\ open' = open
  PROVE  InOrder(v)'
<1>1. /\ Keys(v)' = Keys(v)
      /\ \A j : Own(v, j)' = Own(v, j)
  BY DEF Keys, Own
<1>2. Resolved(v) => Resolved(v)'
  BY <1>1 DEF Resolved
<1>3. lock = v => Coming(v)' = Coming(v)
  BY <1>1 DEF Coming, Visible
<1>4. lock = v /\ Inserting(v) => Inserting(v)'
  BY <1>1, <1>2, <1>3 DEF Inserting, Log!OncePerKey
<1>5. Answered(v) => Answered(v)'
  BY <1>1, <1>2 DEF Answered
<1> QED
  BY <1>4, <1>5 DEF InOrder

(* One worker moves: what is left to show of such a step. *)
LEMMA WorkerStep ==
  ASSUME Inv, NEW w \in Workers, NEW local, Goto(w, local),
         local = Idle \/
           /\ DOMAIN local = DOMAIN Idle
           /\ local.pc \in {"wait", "resolve", "insert", "answer"}
           /\ local.message \in Message
           /\ local.todo \subseteq Positions(local.message),
         InOrder(w)',
         \A v \in Workers \ {w} :
           /\ lock' = v <=> lock = v
           /\ lock = v => table' = table /\ open' = open,
         lock' \in Workers \cup {NoWorker},
         table \subseteq table', table' \subseteq Row, open' \subseteq Row,
         sent' \in 0..MaxDeliveries, failures' \in 0..MaxFailures,
         acked' \subseteq Payloads,
         OncePerKey', FreeLockIsClean', AckedIsDurable'
  PROVE  Inv'
<1>1. /\ DOMAIN req' = Workers
      /\ req'[w] = local
      /\ \A v \in Workers : v # w => req'[v] = req[v]
  BY Moved DEF Inv
<1>2. DeliveriesInOrder'
  <2> SUFFICES ASSUME NEW v \in Workers, v # w PROVE InOrder(v)'
    BY DEF DeliveriesInOrder
  <2> QED
    BY <1>1, InOrderKept DEF Inv, DeliveriesInOrder
<1>3. \A v \in Workers : At(v, "answer")' => IsAnswer(req[v].result, req[v].message)'
  BY <1>2 DEF DeliveriesInOrder, InOrder, Answered, Resolved, IsAnswer, At,
     Positions, Keys
<1>4. ASSUME NEW v \in Workers
      PROVE  /\ DOMAIN req'[v] = DOMAIN Idle
             /\ req'[v] = Idle \/
                  /\ req'[v].pc \in {"wait", "resolve", "insert", "answer"}
                  /\ req'[v].message \in Message
                  /\ req'[v].todo \subseteq Positions(req'[v].message)
  BY <1>1 DEF Inv, TypeOK
<1>5. TypeOK'
  BY <1>1, <1>3, <1>4 DEF TypeOK
<1> QED
  BY <1>2, <1>5 DEF Inv

-----------------------------------------------------------------------------
(* The process starts, with an empty table, inside the invariant. *)
LEMMA InitInv == Init => Inv
<1> SUFFICES ASSUME Init PROVE Inv
  OBVIOUS
<1>1. /\ table = {} /\ open = {} /\ acked = {} /\ lock = NoWorker
      /\ \A w \in Workers : req[w] = Idle /\ req[w].pc = "idle"
  BY DEF Init, Idle
<1>2. TypeOK
  BY <1>1, EventStoreAssumption DEF Init, TypeOK, At
<1>3. DeliveriesInOrder
  BY <1>1, EventStoreAssumption DEF DeliveriesInOrder, InOrder
<1> QED
  BY <1>1, <1>2, <1>3 DEF Inv, OncePerKey, Log!OncePerKey, FreeLockIsClean,
     AckedIsDurable

(* A restart undoes the open transaction and keeps what is committed. *)
LEMMA CrashStep ==
  ASSUME Inv, Crash PROVE Inv'
<1>1. /\ table' = table /\ open' = {} /\ acked' = acked /\ lock' = NoWorker
      /\ \A w \in Workers : req'[w] = Idle /\ req'[w].pc = "idle"
  BY DEF Crash, Idle
<1>2. TypeOK'
  BY <1>1, EventStoreAssumption DEF Inv, TypeOK, Crash, At
<1>3. DeliveriesInOrder'
  BY <1>1, EventStoreAssumption DEF DeliveriesInOrder, InOrder
<1>4. OncePerKey'
  BY <1>1 DEF Inv, OncePerKey, Log!OncePerKey
<1> QED
  BY <1>1, <1>2, <1>3, <1>4 DEF Inv, FreeLockIsClean, AckedIsDurable

(* A step that leaves the rows alone keeps what is said of rows only. *)
LEMMA RowsKept ==
  ASSUME Inv, table' = table, open' = open, acked' = acked
  PROVE  /\ OncePerKey' /\ AckedIsDurable'
         /\ table \subseteq table' /\ table' \subseteq Row /\ open' \subseteq Row
         /\ acked' \subseteq Payloads
BY DEF Inv, TypeOK, OncePerKey, AckedIsDurable, Log!OncePerKey

(* The locals of a worker that serves a delivery. *)
LEMMA Serving ==
  ASSUME Inv, NEW w \in Workers, req[w].pc # "idle"
  PROVE  /\ DOMAIN req[w] = DOMAIN Idle
         /\ req[w].pc \in {"wait", "resolve", "insert", "answer"}
         /\ req[w].message \in Message
         /\ req[w].todo \subseteq Positions(req[w].message)
         /\ InOrder(w)
BY DEF Inv, TypeOK, DeliveriesInOrder, Idle

(* Accepting a delivery touches no row. *)
LEMMA DeliverStep ==
  ASSUME Inv, NEW w \in Workers, NEW p \in Payloads, Deliver(w, p) PROVE Inv'
<1> DEFINE m     == [payload |-> p, delivery |-> sent + 1]
           local == [Idle EXCEPT !.pc = "wait", !.message = m]
<1>1. m \in Message /\ sent' \in 0..MaxDeliveries
  BY EventStoreAssumption DEF Deliver, Message, Inv, TypeOK
<1>2. /\ DOMAIN local = DOMAIN Idle /\ local.pc = "wait"
      /\ local.message = m /\ local.todo = {}
  BY DEF Idle
<1>3. Goto(w, local)
  BY DEF Deliver
<1>4. lock # w
  BY DEF Inv, DeliveriesInOrder, InOrder, Deliver, At
<1> HIDE DEF local, m
<1>5. req'[w] = local
  BY <1>3, Moved DEF Inv
<1>6. InOrder(w)'
  BY <1>2, <1>4, <1>5 DEF InOrder, Deliver
<1> QED
  BY <1>1, <1>2, <1>3, <1>6, WorkerStep, RowsKept
     DEF Deliver, Inv, TypeOK, FreeLockIsClean

(* The lock is taken when it is free: the transaction starts from committed   *)
(* history.                                                                   *)
LEMMA AcquireStep ==
  ASSUME Inv, NEW w \in Workers, Acquire(w) PROVE Inv'
<1> DEFINE local == [req[w] EXCEPT !.pc = "resolve"]
<1>1. /\ lock = NoWorker /\ open = {} /\ NoWorker \notin Workers
      /\ req[w].pc = "wait"
  BY EventStoreAssumption DEF Acquire, LockFree, Inv, FreeLockIsClean, At
<1>2. /\ DOMAIN local = DOMAIN Idle /\ local.pc = "resolve"
      /\ local.message = req[w].message /\ local.todo = req[w].todo
  BY <1>1, Serving DEF Idle
<1>3. Goto(w, local)
  BY DEF Acquire
<1> HIDE DEF local
<1>4. req'[w] = local
  BY <1>3, Moved DEF Inv
<1>5. InOrder(w)'
  BY <1>1, <1>2, <1>4 DEF InOrder, Acquire
<1>6. FreeLockIsClean'
  BY <1>1 DEF FreeLockIsClean, Acquire
<1> QED
  BY <1>1, <1>2, <1>3, <1>5, <1>6, Serving, WorkerStep, RowsKept
     DEF Acquire, Inv, TypeOK

(* The producer reads its answer: what is acknowledged is committed. *)
LEMMA AnswerStep ==
  ASSUME Inv, NEW w \in Workers, Respond(w) \/ LoseAnswer(w) PROVE Inv'
<1>1. /\ Goto(w, Idle) /\ req[w].pc = "answer"
      /\ UNCHANGED <<table, open, lock, sent>>
      /\ failures' \in 0..MaxFailures
  BY EventStoreAssumption DEF Respond, LoseAnswer, At, Inv, TypeOK
<1>2. lock # w /\ InOrder(w)
  BY <1>1, Serving DEF InOrder
<1>3. req'[w] = Idle /\ Idle.pc = "idle"
  BY <1>1, Moved DEF Inv, Idle
<1>4. InOrder(w)'
  BY <1>1, <1>2, <1>3 DEF InOrder
<1>5. acked' = acked \/ (acked' = acked \cup {req[w].message.payload}
                          /\ req[w].result # Failed)
  BY DEF Respond, LoseAnswer, Acknowledges
<1>6. acked' \subseteq Payloads
  BY <1>1, <1>5, Serving DEF Message, Inv, TypeOK
<1>7. AckedIsDurable'
  <2> SUFFICES ASSUME NEW p \in acked', p \notin acked,
                      NEW j \in DOMAIN Batch[p]
               PROVE  \E row \in table :
                        IF Batch[p][j] = NoKey THEN row.payload = p /\ row.pos = j
                                               ELSE row.key = Batch[p][j]
    BY <1>1 DEF AckedIsDurable, Inv
  <2>1. p = req[w].message.payload /\ req[w].result # Failed
    BY <1>5
  <2>2. Answered(w)
    BY <1>1, <1>2, <2>1 DEF InOrder
  <2>3. /\ req[w].result[j] \in table /\ req[w].result[j].key = Batch[p][j]
        /\ Batch[p][j] = NoKey => req[w].result[j] = Own(w, j)
    BY <2>1, <2>2 DEF Answered, Resolved, Keys
  <2>4. Own(w, j).payload = p /\ Own(w, j).pos = j
    BY <2>1 DEF Own, Log!Event
  <2> QED
    BY <2>3, <2>4
<1>8. OncePerKey' /\ FreeLockIsClean'
  BY <1>1 DEF Inv, OncePerKey, Log!OncePerKey, FreeLockIsClean
<1> QED
  BY <1>1, <1>3, <1>4, <1>6, <1>7, <1>8, WorkerStep DEF Inv, TypeOK

(* A failing statement rolls back before the lock is freed. *)
LEMMA StorageFailsStep ==
  ASSUME Inv, NEW w \in Workers, StorageFails(w) PROVE Inv'
<1> DEFINE local == [req[w] EXCEPT !.pc = "answer", !.todo = {}, !.result = Failed]
<1>1. /\ lock = w /\ lock' = NoWorker /\ open' = {} /\ NoWorker \notin Workers
      /\ UNCHANGED <<table, sent, acked>>
      /\ failures' \in 0..MaxFailures
  BY EventStoreAssumption, Serving
     DEF StorageFails, Freed, RolledBack, Inv, TypeOK, InOrder
<1>2. /\ DOMAIN local = DOMAIN Idle /\ local.pc = "answer"
      /\ local.message = req[w].message /\ local.todo = {}
      /\ local.result = Failed
  BY Serving DEF Idle, StorageFails
<1>3. Goto(w, local)
  BY DEF StorageFails
<1> HIDE DEF local
<1>4. req'[w] = local
  BY <1>3, Moved DEF Inv
<1>5. InOrder(w)'
  BY <1>1, <1>2, <1>4 DEF InOrder
<1>6. OncePerKey' /\ FreeLockIsClean' /\ AckedIsDurable'
  BY <1>1 DEF Inv, OncePerKey, Log!OncePerKey, FreeLockIsClean, AckedIsDurable
<1>7. req[w].message \in Message
  BY Serving DEF StorageFails
<1> QED
  BY <1>1, <1>2, <1>3, <1>5, <1>6, <1>7, WorkerStep DEF Inv, TypeOK

(* One row of executemany: the rows to come stay the same. *)
LEMMA InsertStep ==
  ASSUME Inv, NEW w \in Workers, Insert(w) PROVE Inv'
<1> PICK j \in req[w].todo : /\ open' = open \cup {Own(w, j)}
                             /\ Goto(w, [req[w] EXCEPT !.todo = @ \ {j}])
  BY DEF Insert
<1> DEFINE local == [req[w] EXCEPT !.todo = @ \ {j}]
<1>1. /\ req[w].pc = "insert" /\ lock = w /\ Inserting(w)
      /\ req[w].message \in Message
      /\ req[w].todo \subseteq DOMAIN Keys(w)
  BY Serving DEF Insert, At, InOrder, Positions, Keys
<1>2. /\ DOMAIN local = DOMAIN Idle /\ local.pc = "insert"
      /\ local.message = req[w].message /\ local.todo = req[w].todo \ {j}
      /\ local.result = req[w].result
  BY <1>1, Serving DEF Idle
<1>3. Goto(w, local) /\ UNCHANGED <<table, lock, sent, failures, acked>>
  BY DEF Insert
<1> HIDE DEF local
<1>4. req'[w] = local
  BY <1>3, Moved DEF Inv
<1>5. Own(w, j) = req[w].result[j] /\ Own(w, j) \in Row
  BY <1>1, OwnIsRow DEF Inserting
<1>6. Keys(w)' = Keys(w) /\ \A i : Own(w, i)' = Own(w, i)
  BY <1>2, <1>4 DEF Keys, Own
<1>7. Coming(w)' = Coming(w)
  BY <1>2, <1>3, <1>4, <1>6 DEF Coming, Visible
<1>8. Resolved(w)'
  BY <1>1, <1>2, <1>4, <1>6 DEF Inserting, Resolved
<1>9. Inserting(w)'
  <2>1. \A row \in open' : \E i \in DOMAIN Keys(w) : row = req[w].result[i]
    BY <1>1, <1>5 DEF Inserting
  <2>2. \A i \in req'[w].todo : req'[w].result[i] = Own(w, i)
    BY <1>1, <1>2, <1>4 DEF Inserting
  <2> QED
    BY <1>1, <1>2, <1>3, <1>4, <1>6, <1>7, <1>8, <2>1, <2>2
       DEF Inserting, Log!OncePerKey
<1>10. InOrder(w)'
  BY <1>1, <1>2, <1>3, <1>4, <1>9 DEF InOrder
<1>11. OncePerKey'
  <2>1. (table \cup open)' \subseteq Coming(w)
    BY <1>7 DEF Coming, Visible
  <2> QED
    BY <1>1, <2>1 DEF OncePerKey, Inserting, Log!OncePerKey
<1>12. FreeLockIsClean' /\ AckedIsDurable'
  BY <1>1, <1>3, EventStoreAssumption DEF Inv, FreeLockIsClean, AckedIsDurable
<1>13. open' \subseteq Row
  BY <1>5 DEF Inv, TypeOK
<1>14. local.todo \subseteq Positions(local.message)
  BY <1>1, <1>2 DEF Keys, Positions
<1> QED
  BY <1>1, <1>2, <1>3, <1>10, <1>11, <1>12, <1>13, <1>14, WorkerStep DEF Inv, TypeOK

(* The commit makes the rows to come durable, all at once. *)
LEMMA CommitStep ==
  ASSUME Inv, NEW w \in Workers, Commit(w) PROVE Inv'
<1> DEFINE local == [req[w] EXCEPT !.pc = "answer"]
<1>1. /\ req[w].pc = "insert" /\ lock = w /\ Inserting(w) /\ req[w].todo = {}
      /\ req[w].message \in Message
  BY Serving DEF Commit, At, InOrder
<1>2. /\ DOMAIN local = DOMAIN Idle /\ local.pc = "answer"
      /\ local.message = req[w].message /\ local.todo = {}
      /\ local.result = req[w].result
  BY <1>1, Serving DEF Idle
<1>3. /\ Goto(w, local)
      /\ lock' = NoWorker /\ open' = {} /\ UNCHANGED <<sent, failures, acked>>
      /\ table' = table \cup open
      /\ NoWorker \notin Workers
  BY EventStoreAssumption DEF Commit, Freed, Visible
<1> HIDE DEF local
<1>4. req'[w] = local
  BY <1>3, Moved DEF Inv
<1>5. Coming(w) = table'
  BY <1>1, <1>3 DEF Coming, Visible
<1>6. Keys(w)' = Keys(w) /\ \A i : Own(w, i)' = Own(w, i)
  BY <1>2, <1>4 DEF Keys, Own
<1>7. Answered(w)'
  BY <1>1, <1>2, <1>4, <1>5, <1>6 DEF Answered, Inserting, Resolved
<1>8. InOrder(w)'
  BY <1>1, <1>2, <1>3, <1>4, <1>7 DEF InOrder
<1>9. OncePerKey'
  BY <1>1, <1>3, <1>5 DEF OncePerKey, Inserting, Log!OncePerKey
<1>10. FreeLockIsClean' /\ AckedIsDurable'
  BY <1>3 DEF Inv, FreeLockIsClean, AckedIsDurable
<1> QED
  BY <1>1, <1>2, <1>3, <1>8, <1>9, <1>10, WorkerStep DEF Inv, TypeOK

(* The first position of a body under a key is the first for every position   *)
(* of that key.                                                               *)
LEMMA FirstFacts ==
  ASSUME NEW w \in Workers, req[w].message \in Message, NEW j \in DOMAIN Keys(w)
  PROVE  LET i == FirstUnderKey(w, j) IN
         /\ i \in 1..j /\ i \in DOMAIN Keys(w) /\ Keys(w)[i] = Keys(w)[j]
         /\ \A h \in 1..(i - 1) : Keys(w)[h] # Keys(w)[j]
         /\ FirstUnderKey(w, i) = i
<1> DEFINE K == Keys(w)
           IsFirst(i, n) == /\ i \in 1..n /\ K[i] = K[n]
                            /\ \A h \in 1..(i - 1) : K[h] # K[n]
<1>1. Len(K) \in Nat /\ DOMAIN K = 1..Len(K)
  BY EventStoreAssumption DEF Message, Keys
<1>2. ASSUME NEW n \in DOMAIN K PROVE IsFirst(FirstUnderKey(w, n), n)
  <2> DEFINE S == {i \in 1..n : K[i] = K[n]}
  <2>1. S \in SUBSET Nat /\ n \in S
    BY <1>1
  <2> HIDE DEF S
  <2>2. PICK i \in S : \A m \in S : i <= m
    BY <2>1, Least
  <2>3. IsFirst(i, n)
    BY <1>1, <2>2 DEF S
  <2> QED
    BY <2>3 DEF FirstUnderKey
<1> DEFINE i == FirstUnderKey(w, j)
           g == FirstUnderKey(w, i)
<1>3. IsFirst(i, j) /\ i \in DOMAIN K
  BY <1>1, <1>2
<1>4. IsFirst(g, i)
  BY <1>2, <1>3
<1> HIDE DEF i, g
<1>5. g = i
  BY <1>1, <1>3, <1>4
<1> QED
  BY <1>3, <1>5 DEF i, g

(* What one turn of the loop over the batch answers: an event under the       *)
(* position's key, stored already or the batch's own first under that key.    *)
LEMMA ResolutionFacts ==
  ASSUME Inv, NEW w \in Workers, At(w, "resolve"), NEW j \in DOMAIN Keys(w)
  PROVE  LET row == Resolution(w, j)
             k   == Keys(w)[j] IN
         /\ row \in Row /\ row.key = k
         /\ k = NoKey => row = Own(w, j)
         /\ \/ row \in table
            \/ \E i \in 1..j : /\ i \in DOMAIN Keys(w)
                               /\ row = Own(w, i) /\ Resolution(w, i) = Own(w, i)
         /\ k # NoKey /\ StoredUnder(k) # {} => row \in table
         /\ k # NoKey /\ StoredUnder(k) = {} => row = Own(w, FirstUnderKey(w, j))
<1>1. /\ req[w].message \in Message /\ open = {} /\ Visible = table
      /\ table \subseteq Row
  BY Serving DEF At, InOrder, Visible, Inv, TypeOK
<1>2. Len(Keys(w)) \in Nat /\ DOMAIN Keys(w) = 1..Len(Keys(w)) /\ j \in 1..j
  BY <1>1, EventStoreAssumption DEF Message, Keys
<1>3. CASE Keys(w)[j] = NoKey
  BY <1>1, <1>2, <1>3, OwnIsRow DEF Resolution
<1>4. CASE Keys(w)[j] # NoKey /\ StoredUnder(Keys(w)[j]) # {}
  <2>1. Resolution(w, j) \in StoredUnder(Keys(w)[j])
    BY <1>4 DEF Resolution
  <2> QED
    BY <1>1, <1>4, <2>1 DEF StoredUnder
<1>5. CASE Keys(w)[j] # NoKey /\ StoredUnder(Keys(w)[j]) = {}
  <2> DEFINE i == FirstUnderKey(w, j)
  <2>1. /\ i \in 1..j /\ i \in DOMAIN Keys(w) /\ Keys(w)[i] = Keys(w)[j]
        /\ FirstUnderKey(w, i) = i
    BY <1>1, FirstFacts
  <2>2. Resolution(w, j) = Own(w, i)
    BY <1>5 DEF Resolution
  <2> HIDE DEF i
  <2>3. Resolution(w, i) = Own(w, i)
    BY <1>5, <2>1 DEF Resolution
  <2>4. Own(w, i) \in Row /\ Own(w, i).key = Keys(w)[i]
    BY <1>1, <2>1, OwnIsRow
  <2> QED
    BY <1>5, <2>1, <2>2, <2>3, <2>4 DEF i
<1> QED
  BY <1>3, <1>4, <1>5

(* What the loop inserts adds no second row under a stored key or its own.    *)
LEMMA NothingTwice ==
  ASSUME Inv, NEW w \in Workers, At(w, "resolve")
  PROVE  Log!OncePerKey(table \cup
           {Own(w, j) : j \in {i \in DOMAIN Keys(w) : Resolution(w, i) = Own(w, i)}})
<1> DEFINE todo == {i \in DOMAIN Keys(w) : Resolution(w, i) = Own(w, i)}
<1>1. /\ req[w].message \in Message /\ Visible = table
      /\ Log!OncePerKey(table)
  BY Serving DEF At, InOrder, Visible, Inv, OncePerKey
<1>2. Len(Keys(w)) \in Nat /\ DOMAIN Keys(w) = 1..Len(Keys(w))
  BY <1>1, EventStoreAssumption DEF Message, Keys
<1>3. ASSUME NEW a \in table, NEW j \in todo,
             a.key = Own(w, j).key, a.key # NoKey
      PROVE  a = Own(w, j)
  <2>1. Own(w, j).key = Keys(w)[j]
    BY <1>1, OwnIsRow
  <2>2. a \in StoredUnder(Keys(w)[j])
    BY <1>1, <1>3, <2>1 DEF StoredUnder
  <2>3. Own(w, j) \in table
    BY <1>3, <2>1, <2>2, ResolutionFacts
  <2> QED
    BY <1>1, <1>3, <2>3 DEF Log!OncePerKey
<1>4. ASSUME NEW i \in todo, NEW j \in todo,
             Own(w, i).key = Own(w, j).key, Own(w, i).key # NoKey
      PROVE  Own(w, i) = Own(w, j)
  <2>1. Own(w, i).key = Keys(w)[i] /\ Own(w, j).key = Keys(w)[j]
    BY <1>1, OwnIsRow
  <2>2. CASE StoredUnder(Keys(w)[i]) # {}
    <3>1. Own(w, i) \in table
      BY <1>4, <2>1, <2>2, ResolutionFacts
    <3> QED
      BY <1>3, <1>4, <3>1
  <2>3. CASE StoredUnder(Keys(w)[i]) = {}
    <3>1. Keys(w)[i] = Keys(w)[j] /\ Keys(w)[i] # NoKey
      BY <1>4, <2>1
    <3>2. StoredUnder(Keys(w)[j]) = {}
      BY <2>3, <3>1
    <3>3. FirstUnderKey(w, i) = i
      BY <1>4, <2>3, <3>1, ResolutionFacts, OwnInjective
    <3>4. FirstUnderKey(w, j) = j
      BY <1>4, <3>1, <3>2, ResolutionFacts, OwnInjective
    <3>5. i = j
      <4>1. /\ \A h \in 1..(i - 1) : Keys(w)[h] # Keys(w)[i]
            /\ \A h \in 1..(j - 1) : Keys(w)[h] # Keys(w)[j]
        BY <1>1, <3>3, <3>4, FirstFacts
      <4>2. i \in Nat /\ j \in Nat /\ i >= 1 /\ j >= 1
        BY <1>2
      <4>3. ~(i < j) /\ ~(j < i)
        BY <3>1, <4>1, <4>2
      <4> QED
        BY <4>2, <4>3
    <3> QED
      BY <3>5
  <2> QED
    BY <2>2, <2>3
<1> HIDE DEF todo
<1>5. ASSUME NEW a \in table \cup {Own(w, j) : j \in todo},
             NEW b \in table \cup {Own(w, j) : j \in todo},
             a.key = b.key, a.key # NoKey
      PROVE  a = b
  <2>1. CASE a \in table /\ b \in table
    BY <1>1, <1>5, <2>1 DEF Log!OncePerKey
  <2>2. CASE a \in table /\ b \notin table
    BY <1>3, <1>5, <2>2
  <2>3. CASE a \notin table /\ b \in table
    BY <1>3, <1>5, <2>3
  <2>4. CASE a \notin table /\ b \notin table
    BY <1>4, <1>5, <2>4
  <2> QED
    BY <2>1, <2>2, <2>3, <2>4
<1> QED
  BY <1>5 DEF todo, Log!OncePerKey

(* The loop over the batch establishes what the inserts and the answer need.  *)
LEMMA ResolveStep ==
  ASSUME Inv, NEW w \in Workers, Resolve(w) PROVE Inv'
<1> DEFINE resolved == [j \in DOMAIN Keys(w) |-> Resolution(w, j)]
           todo     == {j \in DOMAIN Keys(w) : resolved[j] = Own(w, j)}
           local    == [req[w] EXCEPT !.pc = "insert", !.result = resolved,
                                      !.todo = todo]
<1>1. /\ At(w, "resolve") /\ req[w].pc = "resolve" /\ lock = w /\ open = {}
      /\ req[w].message \in Message /\ DOMAIN req[w] = DOMAIN Idle
  BY Serving DEF Resolve, At, InOrder
<1>2. todo = {j \in DOMAIN Keys(w) : Resolution(w, j) = Own(w, j)}
  OBVIOUS
<1>3. /\ Goto(w, local)
      /\ UNCHANGED <<table, open, lock, sent, failures, acked>>
  BY DEF Resolve
<1> HIDE DEF resolved, todo
<1>4. /\ DOMAIN local = DOMAIN Idle /\ local.pc = "insert"
      /\ local.message = req[w].message /\ local.todo = todo
      /\ local.result = resolved
  BY <1>1 DEF Idle
<1> HIDE DEF local
<1>5. req'[w] = local
  BY <1>3, Moved DEF Inv
<1>6. Keys(w)' = Keys(w) /\ \A i : Own(w, i)' = Own(w, i)
  BY <1>4, <1>5 DEF Keys, Own
<1>7. Coming(w)' = table \cup {Own(w, j) : j \in todo}
  BY <1>1, <1>3, <1>4, <1>5, <1>6 DEF Coming, Visible
<1>8. \A j \in DOMAIN Keys(w) : resolved[j] = Resolution(w, j)
  BY DEF resolved
<1>9. Resolved(w)'
  <2>1. resolved \in [DOMAIN Keys(w) -> Row]
    BY <1>1, ResolutionFacts DEF resolved
  <2> QED
    BY <1>1, <1>4, <1>5, <1>6, <1>8, <2>1, ResolutionFacts DEF Resolved
<1>10. ASSUME NEW j \in DOMAIN Keys(w)
       PROVE  /\ resolved[j] \in Coming(w)'
              /\ resolved[j] \in table \/ \E i \in 1..j : resolved[j] = Own(w, i)
  <2>1. \/ resolved[j] \in table
        \/ \E i \in 1..j : /\ i \in DOMAIN Keys(w)
                           /\ resolved[j] = Own(w, i) /\ Resolution(w, i) = Own(w, i)
    BY <1>1, <1>8, ResolutionFacts
  <2> QED
    BY <1>2, <1>7, <2>1
<1>11. Log!OncePerKey(Coming(w)')
  BY <1>1, <1>2, <1>7, NothingTwice
<1>12. Inserting(w)'
  BY <1>1, <1>2, <1>3, <1>4, <1>5, <1>6, <1>8, <1>9, <1>10, <1>11
     DEF Inserting, Log!OncePerKey
<1>13. InOrder(w)'
  BY <1>1, <1>3, <1>4, <1>5, <1>12 DEF InOrder
<1>14. local.todo \subseteq Positions(local.message)
  BY <1>2, <1>4 DEF Keys, Positions
<1>15. FreeLockIsClean'
  BY <1>3 DEF Inv, FreeLockIsClean
<1> QED
  BY <1>1, <1>3, <1>4, <1>13, <1>14, <1>15, WorkerStep, RowsKept DEF Inv, TypeOK

(* Every step of ingestion keeps the invariant. *)
LEMMA NextInv == Inv /\ [Next]_vars => Inv'
<1> SUFFICES ASSUME Inv, [Next]_vars PROVE Inv'
  OBVIOUS
<1>1. CASE Crash
  BY <1>1, CrashStep
<1>2. ASSUME NEW w \in Workers, NEW p \in Payloads, Deliver(w, p) PROVE Inv'
  BY <1>2, DeliverStep
<1>3. ASSUME NEW w \in Workers, Progress(w) \/ StorageFails(w) \/ LoseAnswer(w)
      PROVE  Inv'
  BY <1>3, AcquireStep, ResolveStep, InsertStep, CommitStep, AnswerStep,
     StorageFailsStep DEF Progress
<1>4. CASE UNCHANGED vars
  <2>1. TypeOK' /\ OncePerKey' /\ FreeLockIsClean' /\ AckedIsDurable'
    BY <1>4 DEF vars, Inv, TypeOK, At, OncePerKey, Log!OncePerKey,
       FreeLockIsClean, AckedIsDurable
  <2>2. DeliveriesInOrder'
    BY <1>4, InOrderKept DEF vars, Inv, DeliveriesInOrder
  <2> QED
    BY <2>1, <2>2 DEF Inv
<1> QED
  BY <1>1, <1>2, <1>3, <1>4 DEF Next

(* The inductive invariant holds of every reachable state of ingestion, for   *)
(* any threads, bodies, keys, deliveries and failures.                        *)
THEOREM SafetyInvariant == Spec => []Inv
BY InitInv, NextInv, PTL DEF Spec

(* Every variable stays in its domain and a worker's locals fit its stage.    *)
THEOREM TypeCorrect == Spec => []TypeOK
<1>1. Inv => TypeOK
  BY DEF Inv
<1> QED
  BY <1>1, SafetyInvariant, PTL

(* No two events are ever stored under one (source, external_id), though the  *)
(* schema has no constraint for it: find, insert and commit are one critical  *)
(* section, and a batch is resolved against itself.                           *)
THEOREM KeyedEventsOnce == Spec => []OncePerKey
<1>1. Inv => OncePerKey
  BY DEF Inv
<1> QED
  BY <1>1, SafetyInvariant, PTL

(* The shared connection has no transaction open while its lock is free.      *)
THEOREM NoStrayTransaction == Spec => []FreeLockIsClean
<1>1. Inv => FreeLockIsClean
  BY DEF Inv
<1> QED
  BY <1>1, SafetyInvariant, PTL

(* Whatever a producer has seen acknowledged is committed, whole.             *)
THEOREM AcknowledgedSurvives == Spec => []AckedIsDurable
<1>1. Inv => AckedIsDurable
  BY DEF Inv
<1> QED
  BY <1>1, SafetyInvariant, PTL

-----------------------------------------------------------------------------
(* Copies.  A delivery of a body is stored, served, or both; it is void when  *)
(* it is stored and nobody is left to answer it.                              *)
Busy(w) == req[w].pc # "idle"
Stored(p, j) == {row.delivery : row \in {r \in Visible : r.payload = p /\ r.pos = j}}
Serves(p) == {w \in Workers : Busy(w) /\ req[w].message.payload = p}
Served(p) == {req[w].message.delivery : w \in Serves(p)}
Void(p, j) == Stored(p, j) \ Served(p)
Made(p, j) == Stored(p, j) \cup Served(p)

(* Deliveries are told apart by their number, and one that is not answered    *)
(* with events has none committed.                                            *)
Numbered ==
  /\ \A row \in table : row.delivery <= sent
  /\ \A w \in Workers : Busy(w) =>
       /\ req[w].message.delivery <= sent
       /\ \A v \in Workers :
            Busy(v) /\ req[v].message.delivery = req[w].message.delivery => v = w
       /\ (req[w].pc = "answer" => req[w].result = Failed)
            => \A row \in table : row.delivery # req[w].message.delivery

(* Each failure voids at most one delivery per worker, and no delivery is     *)
(* made after an acknowledgement.                                             *)
Charged ==
  \A p \in Payloads : \A j \in DOMAIN Batch[p] :
    /\ p \notin acked => Cardinality(Void(p, j)) <= Cardinality(Workers) * failures
    /\ Cardinality(Made(p, j)) <= Cardinality(Workers) * (failures + 1)

CopiesInv == Inv /\ Numbered /\ Charged

(* Deliveries are finitely many, and no more are served than there are        *)
(* workers.                                                                   *)
LEMMA Countable ==
  ASSUME Inv, NEW p \in Payloads, NEW j
  PROVE  /\ IsFiniteSet(Stored(p, j)) /\ IsFiniteSet(Served(p))
         /\ IsFiniteSet(Void(p, j)) /\ IsFiniteSet(Made(p, j))
         /\ Cardinality(Served(p)) <= Cardinality(Workers)
<1>1. ASSUME NEW row \in Visible PROVE row.delivery \in 1 .. MaxDeliveries
  <2>1. row \in Row
    BY DEF Visible, Inv, TypeOK
  <2> QED
    BY <2>1 DEF Row, Message, Log!Own, Log!Event
<1>2. IsFiniteSet(1 .. MaxDeliveries)
  BY EventStoreAssumption, FS_Interval
<1>3. Stored(p, j) \in SUBSET (1 .. MaxDeliveries)
  BY <1>1 DEF Stored
<1>4. \A w \in Serves(p) : req[w].message.delivery \in 1 .. MaxDeliveries
  BY Serving DEF Serves, Busy, Message
<1>5. Served(p) \in SUBSET (1 .. MaxDeliveries)
  BY <1>4 DEF Served
<1>6. IsFiniteSet(Stored(p, j)) /\ IsFiniteSet(Served(p))
  BY <1>2, <1>3, <1>5, FS_Subset
<1>7. IsFiniteSet(Void(p, j)) /\ IsFiniteSet(Made(p, j))
  <2>1. Void(p, j) \in SUBSET Stored(p, j)
    BY DEF Void
  <2>2. Made(p, j) \in SUBSET (1 .. MaxDeliveries)
    BY <1>3, <1>5 DEF Made
  <2> QED
    BY <1>2, <1>6, <2>1, <2>2, FS_Subset
<1>8. Cardinality(Served(p)) <= Cardinality(Workers)
  <2> DEFINE f == [w \in Serves(p) |-> req[w].message.delivery]
  <2>1. f \in Surjection(Serves(p), Served(p))
    BY DEF Surjection, Served
  <2>2. Serves(p) \in SUBSET Workers
    BY DEF Serves
  <2>3. IsFiniteSet(Serves(p)) /\ Cardinality(Serves(p)) <= Cardinality(Workers)
    BY <2>2, EventStoreAssumption, FS_Subset
  <2> HIDE DEF f
  <2>4. Cardinality(Served(p)) <= Cardinality(Serves(p))
    BY <2>1, <2>3, FS_Surjection
  <2>5. /\ Cardinality(Served(p)) \in Nat /\ Cardinality(Serves(p)) \in Nat
        /\ Cardinality(Workers) \in Nat
    BY <1>6, <2>3, EventStoreAssumption, FS_CardinalityType
  <2> QED
    BY <2>3, <2>4, <2>5
<1> QED
  BY <1>6, <1>7, <1>8

(* A product grows with its second factor. *)
LEMMA TimesGrows ==
  ASSUME NEW n \in Nat, NEW a \in Nat, NEW b \in Nat, a <= b
  PROVE  /\ n * a <= n * b /\ n * (a + 1) <= n * (b + 1)
         /\ n * a \in Nat /\ n * b \in Nat
         /\ n * (a + 1) \in Nat /\ n * (b + 1) \in Nat
<1>1. PICK more \in Nat : b = a + more
  <2>1. b - a \in Nat /\ b = a + (b - a)
    OBVIOUS
  <2> QED
    BY <2>1
<1>2. n * b = n * a + n * more /\ n * more \in Nat
  BY <1>1
<1>3. n * (b + 1) = n * b + n /\ n * (a + 1) = n * a + n /\ n * a \in Nat
  OBVIOUS
<1> QED
  BY <1>2, <1>3

(* A step after which no more deliveries count than before keeps the bound.   *)
LEMMA ChargedKept ==
  ASSUME Inv, Charged, acked \subseteq acked', failures <= failures',
         failures' \in Nat,
         \A p \in Payloads : \A j \in DOMAIN Batch[p] :
           /\ p \notin acked' => Void(p, j)' \in SUBSET Void(p, j)
           /\ Made(p, j)' \in SUBSET Made(p, j)
  PROVE  Charged'
<1> DEFINE n == Cardinality(Workers)
<1>1. n \in Nat /\ failures \in Nat
  BY EventStoreAssumption, FS_CardinalityType DEF Inv, TypeOK
<1>2. /\ n * failures <= n * failures' /\ n * (failures + 1) <= n * (failures' + 1)
      /\ n * failures \in Nat /\ n * failures' \in Nat
      /\ n * (failures + 1) \in Nat /\ n * (failures' + 1) \in Nat
  <2> DEFINE now == failures
             next == failures'
  <2>1. now \in Nat /\ next \in Nat /\ now <= next
    BY <1>1
  <2> HIDE DEF n, now, next
  <2>2. /\ n * now <= n * next /\ n * (now + 1) <= n * (next + 1)
        /\ n * now \in Nat /\ n * next \in Nat
        /\ n * (now + 1) \in Nat /\ n * (next + 1) \in Nat
    BY <1>1, <2>1, TimesGrows
  <2> QED
    BY <2>2 DEF now, next
<1>4. ASSUME NEW p \in Payloads, NEW j \in DOMAIN Batch[p]
      PROVE  /\ p \notin acked' => Cardinality(Void(p, j)') <= n * failures'
             /\ Cardinality(Made(p, j)') <= n * (failures' + 1)
  <2>1. IsFiniteSet(Void(p, j)) /\ IsFiniteSet(Made(p, j))
    BY Countable
  <2>2. /\ p \notin acked => Cardinality(Void(p, j)) <= n * failures
        /\ Cardinality(Made(p, j)) <= n * (failures + 1)
    BY DEF Charged
  <2>3. /\ Cardinality(Void(p, j)) \in Nat /\ Cardinality(Made(p, j)) \in Nat
    BY <2>1, FS_CardinalityType
  <2>4. /\ Cardinality(Made(p, j)') <= Cardinality(Made(p, j))
        /\ Cardinality(Made(p, j)') \in Nat
    BY <2>1, FS_Subset, FS_CardinalityType
  <2> HIDE DEF n
  <2>5. ASSUME p \notin acked' PROVE Cardinality(Void(p, j)') <= n * failures'
    <3>1. /\ Cardinality(Void(p, j)') <= Cardinality(Void(p, j))
          /\ Cardinality(Void(p, j)') \in Nat
      BY <2>1, <2>5, FS_Subset, FS_CardinalityType
    <3>2. Cardinality(Void(p, j)) <= n * failures
      BY <2>2, <2>5
    <3> QED
      BY <1>2, <2>3, <3>1, <3>2
  <2> QED
    BY <1>2, <2>2, <2>3, <2>4, <2>5
<1> QED
  BY <1>4 DEF Charged

(* A worker's step towards its answer: the delivery stays the same, and the   *)
(* rows that become visible are its own.                                      *)
LEMMA OnTheWay ==
  ASSUME Inv, NEW w \in Workers,
         Acquire(w) \/ Resolve(w) \/ Insert(w) \/ Commit(w) \/ StorageFails(w)
  PROVE  /\ \A v \in Workers : v # w => req'[v] = req[v]
         /\ Busy(w) /\ Busy(w)' /\ req'[w].message = req[w].message
         /\ req[w].pc # "answer"
         /\ req'[w].pc = "answer" => req'[w].result = Failed \/ Commit(w)
         /\ sent' = sent /\ acked' = acked /\ failures <= failures' /\ failures' \in Nat
         /\ table' = table \/ (Commit(w) /\ table' = table \cup open)
         /\ \A row \in Visible' :
              \/ row \in Visible
              \/ /\ row.payload = req[w].message.payload
                 /\ row.delivery = req[w].message.delivery
<1>1. /\ Busy(w) /\ req[w].pc # "answer" /\ req[w].pc # "idle"
      /\ DOMAIN req[w] = DOMAIN Idle
  <2>1. Busy(w) /\ req[w].pc # "answer" /\ req[w].pc # "idle"
    BY DEF Acquire, Resolve, Insert, Commit, StorageFails, At, Busy
  <2> QED
    BY <2>1, Serving DEF Busy
<1>2. /\ sent' = sent /\ acked' = acked /\ failures <= failures' /\ failures' \in Nat
      /\ table' = table \/ (Commit(w) /\ table' = table \cup open)
  BY DEF Acquire, Resolve, Insert, Commit, StorageFails, Visible, Inv, TypeOK
<1>3. ASSUME NEW row \in Visible', row \notin Visible
      PROVE  /\ row.payload = req[w].message.payload
             /\ row.delivery = req[w].message.delivery
  <2>1. CASE Insert(w)
    BY <1>3, <2>1 DEF Insert, Visible, Own, Log!Event
  <2>2. CASE Acquire(w) \/ Resolve(w) \/ Commit(w) \/ StorageFails(w)
    BY <1>3, <2>2 DEF Acquire, Resolve, Commit, StorageFails, RolledBack, Visible
  <2> QED
    BY <2>1, <2>2
<1>4. ASSUME NEW local, Goto(w, local), DOMAIN local = DOMAIN Idle,
             local.pc # "idle", local.message = req[w].message,
             local.pc = "answer" => local.result = Failed \/ Commit(w)
      PROVE  /\ \A v \in Workers : v # w => req'[v] = req[v]
             /\ Busy(w)' /\ req'[w].message = req[w].message
             /\ req'[w].pc = "answer" => req'[w].result = Failed \/ Commit(w)
  BY <1>4, Moved DEF Inv, Busy
<1> DEFINE Settled ==
             /\ \A v \in Workers : v # w => req'[v] = req[v]
             /\ Busy(w)' /\ req'[w].message = req[w].message
             /\ req'[w].pc = "answer" => req'[w].result = Failed \/ Commit(w)
<1>5. Settled
  <2>1. CASE Acquire(w)
    <3> DEFINE local == [req[w] EXCEPT !.pc = "resolve"]
    <3>1. /\ DOMAIN local = DOMAIN Idle /\ local.pc = "resolve"
          /\ local.message = req[w].message
      BY <1>1 DEF Idle
    <3>2. Goto(w, local)
      BY <2>1 DEF Acquire
    <3> HIDE DEF local
    <3> QED
      BY <1>4, <3>1, <3>2
  <2>2. CASE Resolve(w)
    <3>1. PICK resolved, todo :
            Goto(w, [req[w] EXCEPT !.pc = "insert", !.result = resolved, !.todo = todo])
      BY <2>2 DEF Resolve
    <3> DEFINE local == [req[w] EXCEPT !.pc = "insert", !.result = resolved, !.todo = todo]
    <3>2. /\ DOMAIN local = DOMAIN Idle /\ local.pc = "insert"
          /\ local.message = req[w].message
      BY <1>1 DEF Idle
    <3>3. Goto(w, local)
      BY <3>1
    <3> HIDE DEF local
    <3> QED
      BY <1>4, <3>2, <3>3
  <2>3. CASE Insert(w)
    <3>1. PICK j : Goto(w, [req[w] EXCEPT !.todo = @ \ {j}])
      BY <2>3 DEF Insert
    <3> DEFINE local == [req[w] EXCEPT !.todo = @ \ {j}]
    <3>2. /\ DOMAIN local = DOMAIN Idle /\ local.pc = req[w].pc
          /\ local.message = req[w].message
      BY <1>1 DEF Idle
    <3>3. Goto(w, local)
      BY <3>1
    <3> HIDE DEF local
    <3> QED
      BY <1>1, <1>4, <3>2, <3>3
  <2>4. CASE Commit(w)
    <3> DEFINE local == [req[w] EXCEPT !.pc = "answer"]
    <3>1. /\ DOMAIN local = DOMAIN Idle /\ local.pc = "answer"
          /\ local.message = req[w].message
      BY <1>1 DEF Idle
    <3>2. Goto(w, local)
      BY <2>4 DEF Commit
    <3> HIDE DEF local
    <3> QED
      BY <1>4, <2>4, <3>1, <3>2
  <2>5. CASE StorageFails(w)
    <3> DEFINE local == [req[w] EXCEPT !.pc = "answer", !.todo = {}, !.result = Failed]
    <3>1. /\ DOMAIN local = DOMAIN Idle /\ local.pc = "answer"
          /\ local.message = req[w].message /\ local.result = Failed
      BY <1>1 DEF Idle
    <3>2. Goto(w, local)
      BY <2>5 DEF StorageFails
    <3> HIDE DEF local
    <3> QED
      BY <1>4, <3>1, <3>2
  <2> HIDE DEF Settled
  <2> QED
    BY <2>1, <2>2, <2>3, <2>4, <2>5
<1> QED
  BY <1>1, <1>2, <1>3, <1>5

(* Rows of the open transaction are stored already, or of the delivery that   *)
(* the lock's holder serves.                                                  *)
LEMMA OpenIsOwned ==
  ASSUME Inv, NEW row \in open, row \notin table
  PROVE  \E w \in Workers : /\ lock = w /\ req[w].pc = "insert"
                            /\ row.delivery = req[w].message.delivery
<1>1. lock # NoWorker /\ lock \in Workers
  BY DEF Inv, FreeLockIsClean, TypeOK
<1> DEFINE w == lock
<1>2. InOrder(w)
  BY <1>1 DEF Inv, DeliveriesInOrder
<1>3. req[w].pc = "insert" /\ Inserting(w)
  BY <1>1, <1>2 DEF InOrder
<1>4. \E i : row = Own(w, i)
  BY <1>3 DEF Inserting
<1>5. row.delivery = req[w].message.delivery
  BY <1>4 DEF Own, Log!Event
<1> QED
  BY <1>1, <1>3, <1>5

(* Steps on the way keep the numbers apart. *)
LEMMA OnTheWayNumbered ==
  ASSUME Inv, Numbered, NEW w \in Workers,
         Acquire(w) \/ Resolve(w) \/ Insert(w) \/ Commit(w) \/ StorageFails(w)
  PROVE  Numbered'
<1>1. /\ \A v \in Workers : v # w => req'[v] = req[v]
      /\ Busy(w) /\ Busy(w)' /\ req'[w].message = req[w].message
      /\ req[w].pc # "answer" /\ sent' = sent
      /\ req'[w].pc = "answer" => req'[w].result = Failed \/ Commit(w)
      /\ table' = table \/ (Commit(w) /\ table' = table \cup open)
  BY OnTheWay
<1>2. \A v \in Workers : Busy(v)' = Busy(v) /\ req'[v].message = req[v].message
  BY <1>1 DEF Busy
<1>3. ASSUME Commit(w)
      PROVE  /\ \A row \in table' : row \in table \/ row.delivery = req[w].message.delivery
             /\ req'[w].result # Failed
  <2>1. lock = w /\ Inserting(w)
    BY <1>1, <1>3, Serving DEF Commit, At, InOrder, Busy
  <2>2. \A row \in open : row \in table \/ row.delivery = req[w].message.delivery
    BY <2>1, OpenIsOwned
  <2>3. req[w].result \in [Positions(req[w].message) -> Row] /\ req[w].message \in Message
    BY <1>1, <2>1, Serving DEF Inserting, Resolved, Keys, Positions, Busy
  <2>4. req[w].result # Failed
    BY <2>3, PlaceholdersAssumption
  <2>5. req'[w].result = req[w].result
    BY <1>3, <1>1, Serving, Moved DEF Commit, Inv, Busy, Idle
  <2> QED
    BY <1>1, <2>2, <2>4, <2>5
<1>4. \A row \in table' : row.delivery <= sent'
  BY <1>1, <1>3 DEF Numbered
<1>5. ASSUME NEW v \in Workers, Busy(v)', req'[v].pc = "answer" => req'[v].result = Failed,
             NEW row \in table'
      PROVE  row.delivery # req'[v].message.delivery
  <2>1. Busy(v) /\ req'[v].message = req[v].message
    BY <1>2, <1>5
  <2>2. req[v].pc = "answer" => req[v].result = Failed
    BY <1>1, <1>5
  <2>3. CASE row \in table
    BY <2>1, <2>2, <2>3 DEF Numbered
  <2>4. CASE row \notin table
    <3>1. Commit(w) /\ row.delivery = req[w].message.delivery
      BY <1>1, <1>3, <2>4
    <3>2. v # w
      <4>1. req'[w].pc = "answer"
        BY <1>1, <3>1, Serving, Moved DEF Commit, Inv, Busy, Idle
      <4> QED
        BY <1>3, <1>5, <3>1, <4>1
    <3> QED
      BY <1>1, <2>1, <3>1, <3>2 DEF Numbered
  <2> QED
    BY <2>3, <2>4
<1>6. ASSUME NEW v \in Workers, Busy(v)'
      PROVE  /\ req'[v].message.delivery <= sent'
             /\ \A u \in Workers :
                  Busy(u)' /\ req'[u].message.delivery = req'[v].message.delivery => u = v
  BY <1>1, <1>2, <1>6 DEF Numbered
<1> QED
  BY <1>4, <1>5, <1>6 DEF Numbered

(* ... and no more deliveries count than before. *)
LEMMA OnTheWayCharged ==
  ASSUME Inv, Charged, NEW w \in Workers,
         Acquire(w) \/ Resolve(w) \/ Insert(w) \/ Commit(w) \/ StorageFails(w)
  PROVE  Charged'
<1>1. /\ \A v \in Workers : v # w => req'[v] = req[v]
      /\ Busy(w) /\ Busy(w)' /\ req'[w].message = req[w].message
      /\ acked' = acked /\ failures <= failures' /\ failures' \in Nat
      /\ \A row \in Visible' :
           \/ row \in Visible
           \/ /\ row.payload = req[w].message.payload
              /\ row.delivery = req[w].message.delivery
  BY OnTheWay
<1>2. ASSUME NEW p \in Payloads, NEW j
      PROVE  Void(p, j)' \in SUBSET Void(p, j) /\ Made(p, j)' \in SUBSET Made(p, j)
  <2>1. Serves(p)' = Serves(p) /\ \A v \in Serves(p) : req'[v].message = req[v].message
    BY <1>1 DEF Serves, Busy
  <2>2. Served(p)' = Served(p)
    BY <2>1 DEF Served
  <2>3. \A d \in Stored(p, j)' : d \in Stored(p, j) \/ d \in Served(p)
    <3> SUFFICES ASSUME NEW row \in Visible', row.payload = p, row.pos = j
                 PROVE  row.delivery \in Stored(p, j) \/ row.delivery \in Served(p)
      BY DEF Stored
    <3>1. CASE row \in Visible
      BY <3>1 DEF Stored
    <3>2. CASE row \notin Visible
      BY <1>1, <3>2 DEF Served, Serves
    <3> QED
      BY <3>1, <3>2
  <2> QED
    BY <2>2, <2>3 DEF Void, Made
<1> QED
  BY <1>1, <1>2, ChargedKept

(* Answering: an acknowledged body is delivered no more, a refused delivery   *)
(* has left nothing behind.                                                   *)
LEMMA RespondCopies ==
  ASSUME CopiesInv, NEW w \in Workers, Respond(w) PROVE Numbered' /\ Charged'
<1>1. /\ req[w].pc = "answer" /\ Busy(w) /\ req'[w] = Idle /\ ~Busy(w)'
      /\ \A v \in Workers : v # w => req'[v] = req[v]
      /\ table' = table /\ open' = open /\ Visible' = Visible
      /\ sent' = sent /\ failures' = failures /\ failures \in Nat
      /\ acked' = IF req[w].result # Failed THEN acked \cup {req[w].message.payload}
                                            ELSE acked
  <2>1. Idle.pc = "idle"
    BY DEF Idle
  <2> QED
    BY <2>1, Moved DEF CopiesInv, Inv, TypeOK, Respond, Acknowledges, At, Busy, Visible
<1>2. \A v \in Workers : Busy(v)' => v # w /\ Busy(v) /\ req'[v] = req[v]
  BY <1>1 DEF Busy
<1>3. Numbered'
  BY <1>1, <1>2 DEF CopiesInv, Numbered
<1>4. ASSUME req[w].result = Failed, NEW row \in Visible
      PROVE  row.delivery # req[w].message.delivery
  <2>1. CASE row \in table
    BY <1>1, <1>4, <2>1 DEF CopiesInv, Numbered
  <2>2. CASE row \notin table
    <3>1. PICK v \in Workers : /\ req[v].pc = "insert"
                               /\ row.delivery = req[v].message.delivery
      BY <2>2, OpenIsOwned DEF Visible, CopiesInv
    <3>2. Busy(v) /\ v # w
      BY <1>1, <3>1 DEF Busy
    <3> QED
      BY <1>1, <3>1, <3>2 DEF CopiesInv, Numbered
  <2> QED
    BY <2>1, <2>2
<1>5. ASSUME NEW p \in Payloads, NEW j
      PROVE  /\ p \notin acked' => Void(p, j)' \in SUBSET Void(p, j)
             /\ Made(p, j)' \in SUBSET Made(p, j)
  <2>1. Stored(p, j)' = Stored(p, j)
    BY <1>1 DEF Stored
  <2>2. Served(p)' \in SUBSET Served(p)
    BY <1>2 DEF Served, Serves
  <2>3. ASSUME p \notin acked', NEW d \in Void(p, j)' PROVE d \in Void(p, j)
    <3>1. d \in Stored(p, j) /\ d \notin Served(p)'
      BY <2>1, <2>3 DEF Void
    <3>2. ASSUME d \in Served(p) PROVE FALSE
      <4>1. PICK v \in Serves(p) : d = req[v].message.delivery
        BY <3>2 DEF Served
      <4>2. v = w
        BY <1>1, <3>1, <4>1 DEF Served, Serves, Busy
      <4>3. req[w].result = Failed
        BY <1>1, <2>3, <4>1, <4>2 DEF Serves
      <4> QED
        BY <1>4, <3>1, <4>1, <4>2, <4>3 DEF Stored
    <3> QED
      BY <3>1, <3>2 DEF Void
  <2> QED
    BY <2>1, <2>2, <2>3 DEF Made
<1>6. Charged'
  BY <1>1, <1>5, ChargedKept DEF CopiesInv
<1> QED
  BY <1>3, <1>6

(* One more failure pays for one more void delivery per worker. *)
LEMMA FailurePays ==
  ASSUME Inv, failures' = failures + 1, acked' = acked,
         \A p \in Payloads : \A j \in DOMAIN Batch[p] :
           /\ Made(p, j)' \in SUBSET Made(p, j)
           /\ p \notin acked =>
                Cardinality(Void(p, j)') <= Cardinality(Workers) * (failures + 1),
         Charged
  PROVE  Charged'
<1> DEFINE n == Cardinality(Workers)
<1>1. n \in Nat /\ failures \in Nat
  BY EventStoreAssumption, FS_CardinalityType DEF Inv, TypeOK
<1>2. /\ n * (failures + 1) \in Nat /\ n * (failures' + 1) \in Nat
      /\ n * (failures + 1) <= n * (failures' + 1)
  <2> HIDE DEF n
  <2>1. n * (failures' + 1) = n * (failures + 1) + n /\ n * (failures + 1) \in Nat
    BY <1>1
  <2> QED
    BY <1>1, <2>1
<1>3. ASSUME NEW p \in Payloads, NEW j \in DOMAIN Batch[p]
      PROVE  Cardinality(Made(p, j)') <= n * (failures' + 1)
  <2>1. /\ Cardinality(Made(p, j)') <= Cardinality(Made(p, j))
        /\ Cardinality(Made(p, j)') \in Nat /\ Cardinality(Made(p, j)) \in Nat
    BY Countable, FS_Subset, FS_CardinalityType
  <2>2. Cardinality(Made(p, j)) <= n * (failures + 1)
    BY DEF Charged
  <2> HIDE DEF n
  <2> QED
    BY <1>2, <2>1, <2>2
<1> QED
  BY <1>3 DEF Charged

(* A lost answer voids the one delivery it answered. *)
LEMMA LoseAnswerCopies ==
  ASSUME CopiesInv, NEW w \in Workers, LoseAnswer(w) PROVE Numbered' /\ Charged'
<1>1. /\ Busy(w) /\ req'[w] = Idle /\ ~Busy(w)'
      /\ \A v \in Workers : v # w => req'[v] = req[v]
      /\ table' = table /\ Visible' = Visible
      /\ sent' = sent /\ failures' = failures + 1 /\ acked' = acked
  <2>1. Idle.pc = "idle"
    BY DEF Idle
  <2> QED
    BY <2>1, Moved DEF CopiesInv, Inv, TypeOK, LoseAnswer, At, Busy, Visible
<1>2. \A v \in Workers : Busy(v)' => v # w /\ Busy(v) /\ req'[v] = req[v]
  BY <1>1 DEF Busy
<1>3. Numbered'
  BY <1>1, <1>2 DEF CopiesInv, Numbered
<1> DEFINE n == Cardinality(Workers)
<1>4. n \in Nat /\ n >= 1 /\ failures \in Nat
  <2>1. n \in Nat /\ n # 0
    BY EventStoreAssumption, FS_CardinalityType, FS_EmptySet
  <2> HIDE DEF n
  <2> QED
    BY <2>1 DEF CopiesInv, Inv, TypeOK
<1>5. ASSUME NEW p \in Payloads, NEW j \in DOMAIN Batch[p]
      PROVE  /\ Made(p, j)' \in SUBSET Made(p, j)
             /\ p \notin acked => Cardinality(Void(p, j)') <= n * (failures + 1)
  <2>1. Stored(p, j)' = Stored(p, j)
    BY <1>1 DEF Stored
  <2>2. Served(p)' \in SUBSET Served(p)
    BY <1>2 DEF Served, Serves
  <2> DEFINE d == req[w].message.delivery
  <2>3. Void(p, j)' \in SUBSET (Void(p, j) \cup {d})
    <3> SUFFICES ASSUME NEW x \in Served(p), x \notin Served(p)' PROVE x = d
      BY <2>1 DEF Void
    <3>1. PICK v \in Serves(p) : x = req[v].message.delivery
      BY DEF Served
    <3> QED
      BY <1>1, <3>1 DEF Served, Serves, Busy
  <2> HIDE DEF d
  <2>4. IsFiniteSet(Void(p, j))
    BY Countable DEF CopiesInv
  <2>5. /\ IsFiniteSet(Void(p, j) \cup {d})
        /\ Cardinality(Void(p, j) \cup {d}) <= Cardinality(Void(p, j)) + 1
    <3>1. /\ IsFiniteSet(Void(p, j) \cup {d})
          /\ Cardinality(Void(p, j) \cup {d})
               = IF d \in Void(p, j) THEN Cardinality(Void(p, j)) ELSE Cardinality(Void(p, j)) + 1
      BY <2>4, FS_AddElement
    <3>2. Cardinality(Void(p, j)) \in Nat
      BY <2>4, FS_CardinalityType
    <3> QED
      BY <3>1, <3>2
  <2>6. /\ Cardinality(Void(p, j)') <= Cardinality(Void(p, j) \cup {d})
        /\ Cardinality(Void(p, j)') \in Nat /\ Cardinality(Void(p, j)) \in Nat
        /\ Cardinality(Void(p, j) \cup {d}) \in Nat
    BY <2>3, <2>4, <2>5, FS_Subset, FS_CardinalityType
  <2>7. ASSUME p \notin acked PROVE Cardinality(Void(p, j)') <= n * (failures + 1)
    <3>1. Cardinality(Void(p, j)) <= n * failures
      BY <2>7 DEF CopiesInv, Charged
    <3> HIDE DEF n
    <3>2. n * (failures + 1) = n * failures + n /\ n * failures \in Nat
      BY <1>4
    <3> QED
      BY <1>4, <2>5, <2>6, <3>1, <3>2
  <2> QED
    BY <2>1, <2>2, <2>7 DEF Made
<1>6. Charged'
  BY <1>1, <1>5, FailurePays DEF CopiesInv
<1> QED
  BY <1>3, <1>6

(* A restart voids what is being served, one delivery per worker. *)
LEMMA CrashCopies ==
  ASSUME CopiesInv, Crash PROVE Numbered' /\ Charged'
<1>1. /\ \A v \in Workers : ~Busy(v)'
      /\ table' = table /\ Visible' \in SUBSET Visible
      /\ sent' = sent /\ failures' = failures + 1 /\ acked' = acked
  BY DEF Crash, Idle, Busy, Visible
<1>2. Numbered'
  BY <1>1 DEF CopiesInv, Numbered
<1>3. ASSUME NEW p \in Payloads, NEW j \in DOMAIN Batch[p]
      PROVE  /\ Made(p, j)' \in SUBSET Made(p, j)
             /\ Cardinality(Void(p, j)') <= Cardinality(Workers) * (failures + 1)
  <2>1. Stored(p, j)' \in SUBSET Stored(p, j) /\ Served(p)' = {}
    BY <1>1 DEF Stored, Served, Serves
  <2>2. Void(p, j)' \in SUBSET Made(p, j) /\ Made(p, j)' \in SUBSET Made(p, j)
    BY <2>1 DEF Void, Made
  <2>3. IsFiniteSet(Made(p, j))
    BY Countable DEF CopiesInv
  <2>4. /\ Cardinality(Void(p, j)') <= Cardinality(Made(p, j))
        /\ Cardinality(Void(p, j)') \in Nat /\ Cardinality(Made(p, j)) \in Nat
    BY <2>2, <2>3, FS_Subset, FS_CardinalityType
  <2>5. Cardinality(Made(p, j)) <= Cardinality(Workers) * (failures + 1)
    BY DEF CopiesInv, Charged
  <2>6. Cardinality(Workers) * (failures + 1) \in Int
    <3> DEFINE n == Cardinality(Workers)
    <3>1. n \in Nat /\ failures \in Nat
      BY EventStoreAssumption, FS_CardinalityType DEF CopiesInv, Inv, TypeOK
    <3> HIDE DEF n
    <3>2. n * (failures + 1) \in Int
      BY <3>1
    <3> QED
      BY <3>2 DEF n
  <2> QED
    BY <2>2, <2>4, <2>5, <2>6
<1>4. Charged'
  BY <1>1, <1>3, FailurePays DEF CopiesInv
<1> QED
  BY <1>2, <1>4

(* A delivery of a body not acknowledged: what is void is paid for, and no    *)
(* more are served than there are workers.                                    *)
LEMMA DeliverCopies ==
  ASSUME CopiesInv, NEW w \in Workers, NEW p \in Payloads, Deliver(w, p)
  PROVE  Numbered' /\ Charged'
<1> DEFINE m     == [payload |-> p, delivery |-> sent + 1]
           local == [Idle EXCEPT !.pc = "wait", !.message = m]
<1>1. local.pc = "wait" /\ local.message = m
  BY DEF Idle
<1>2. Goto(w, local)
  BY DEF Deliver
<1> HIDE DEF local
<1>3. /\ req'[w] = local /\ \A v \in Workers : v # w => req'[v] = req[v]
  BY <1>2, Moved DEF CopiesInv, Inv
<1>4. /\ Busy(w)' /\ ~Busy(w) /\ p \notin acked
      /\ req'[w].pc = "wait"
      /\ req'[w].message.delivery = sent + 1 /\ req'[w].message.payload = p
      /\ \A v \in Workers : v # w => Busy(v)' = Busy(v)
      /\ table' = table /\ Visible' = Visible /\ sent' = sent + 1
      /\ failures' = failures /\ acked' = acked
  BY <1>1, <1>3 DEF Deliver, At, Busy, Visible
<1>5. /\ sent \in Int
      /\ \A row \in table : row.delivery \in Int
      /\ \A v \in Workers : Busy(v) => req[v].message.delivery \in Int
  <2>1. \A row \in Row : row.delivery \in Int
    BY DEF Row, Message, Log!Own, Log!Event
  <2>2. \A v \in Workers : Busy(v) => req[v].message.delivery \in Int
    BY Serving DEF CopiesInv, Busy, Message
  <2> QED
    BY <2>1, <2>2, EventStoreAssumption DEF CopiesInv, Inv, TypeOK
<1>6. Numbered'
  <2>1. /\ \A row \in table' : row.delivery <= sent /\ row.delivery \in Int
        /\ \A v \in Workers : v # w /\ Busy(v) =>
             req[v].message.delivery <= sent /\ req[v].message.delivery \in Int
    BY <1>4, <1>5 DEF CopiesInv, Numbered
  <2>2. \A row \in table' : row.delivery <= sent' /\ row.delivery # sent + 1
    BY <1>4, <1>5, <2>1
  <2>3. \A v \in Workers : v # w /\ Busy(v) =>
          req[v].message.delivery <= sent' /\ req[v].message.delivery # sent + 1
    BY <1>4, <1>5, <2>1
  <2>4. ASSUME NEW v \in Workers, v # w, Busy(v)'
        PROVE  /\ req'[v].message.delivery <= sent'
               /\ \A u \in Workers :
                    Busy(u)' /\ req'[u].message.delivery = req'[v].message.delivery => u = v
               /\ (req'[v].pc = "answer" => req'[v].result = Failed)
                    => \A row \in table' : row.delivery # req'[v].message.delivery
    <3>1. Busy(v) /\ req'[v] = req[v]
      BY <1>3, <1>4, <2>4
    <3>2. req'[w].message.delivery # req'[v].message.delivery
      BY <1>4, <2>3, <2>4, <3>1
    <3> QED
      BY <1>3, <1>4, <2>3, <2>4, <3>1, <3>2 DEF CopiesInv, Numbered
  <2>5. /\ req'[w].message.delivery <= sent'
        /\ \A u \in Workers :
             Busy(u)' /\ req'[u].message.delivery = req'[w].message.delivery => u = w
        /\ \A row \in table' : row.delivery # req'[w].message.delivery
    BY <1>3, <1>4, <1>5, <2>2, <2>3
  <2> QED
    BY <2>2, <2>4, <2>5 DEF Numbered
<1> DEFINE n == Cardinality(Workers)
<1>7. n \in Nat /\ failures \in Nat
  BY EventStoreAssumption, FS_CardinalityType DEF CopiesInv, Inv, TypeOK
<1>8. ASSUME NEW q \in Payloads, NEW j \in DOMAIN Batch[q]
      PROVE  /\ q \notin acked' => Cardinality(Void(q, j)') <= n * failures'
             /\ Cardinality(Made(q, j)') <= n * (failures' + 1)
  <2>1. Stored(q, j)' = Stored(q, j)
    BY <1>4 DEF Stored
  <2>2. Served(q) \in SUBSET Served(q)'
    BY <1>3, <1>4 DEF Served, Serves
  <2>3. Void(q, j)' \in SUBSET Void(q, j)
    BY <2>1, <2>2 DEF Void
  <2>4. IsFiniteSet(Void(q, j))
    BY Countable DEF CopiesInv
  <2>5. /\ Cardinality(Void(q, j)') <= Cardinality(Void(q, j))
        /\ Cardinality(Void(q, j)') \in Nat /\ Cardinality(Void(q, j)) \in Nat
        /\ IsFiniteSet(Void(q, j)')
    BY <2>3, <2>4, FS_Subset, FS_CardinalityType
  <2>6. n * failures \in Nat /\ n * (failures + 1) = n * failures + n
    <3> HIDE DEF n
    <3> QED
      BY <1>7
  <2>7. ASSUME q \notin acked PROVE Cardinality(Void(q, j)') <= n * failures
    <3>1. Cardinality(Void(q, j)) <= n * failures
      BY <2>7 DEF CopiesInv, Charged
    <3> HIDE DEF n
    <3> QED
      BY <2>5, <2>6, <3>1
  <2>8. CASE q = p
    <3>1. IsFiniteSet(Served(q)') /\ Cardinality(Served(q)') <= n
      <4>1. Serves(q)' \in SUBSET Workers
        BY DEF Serves
      <4>2. /\ IsFiniteSet(Serves(q)') /\ Cardinality(Serves(q)') <= n
        BY <4>1, EventStoreAssumption, FS_Subset
      <4> DEFINE S == Serves(q)'
                 T == Served(q)'
                 f == [v \in S |-> req'[v].message.delivery]
      <4>3. f \in Surjection(S, T)
        BY DEF Surjection, Served
      <4>4. IsFiniteSet(S) /\ Cardinality(S) <= n
        BY <4>2
      <4> HIDE DEF f, S, T
      <4>5. IsFiniteSet(T) /\ Cardinality(T) <= Cardinality(S)
        BY <4>3, <4>4, FS_Surjection
      <4>6. Cardinality(T) \in Nat /\ Cardinality(S) \in Nat
        BY <4>4, <4>5, FS_CardinalityType
      <4> HIDE DEF n
      <4>7. IsFiniteSet(T) /\ Cardinality(T) <= n
        BY <1>7, <4>4, <4>5, <4>6
      <4> QED
        BY <4>7 DEF T
    <3>2. Made(q, j)' = Void(q, j)' \cup Served(q)'
      BY DEF Made, Void
    <3> DEFINE V == Void(q, j)'
               T == Served(q)'
    <3>3. IsFiniteSet(V) /\ IsFiniteSet(T) /\ Cardinality(T) <= n /\ Made(q, j)' = V \cup T
      BY <2>5, <3>1, <3>2
    <3>4. Cardinality(V) <= n * failures
      BY <1>4, <2>7, <2>8
    <3> HIDE DEF V, T
    <3>5. /\ Cardinality(V \cup T) = Cardinality(V) + Cardinality(T) - Cardinality(V \cap T)
          /\ IsFiniteSet(V \cap T)
      <4>1. V \cap T \in SUBSET V
        OBVIOUS
      <4> QED
        BY <3>3, <4>1, FS_Union, FS_Subset
    <3>6. Cardinality(V) \in Nat /\ Cardinality(T) \in Nat /\ Cardinality(V \cap T) \in Nat
      BY <3>3, <3>5, FS_CardinalityType
    <3>7. Cardinality(V \cup T) <= n * failures + n
      <4> HIDE DEF n
      <4> QED
        BY <1>7, <2>6, <3>3, <3>4, <3>5, <3>6
    <3>8. Cardinality(Made(q, j)') <= n * (failures' + 1)
      BY <1>4, <2>6, <3>3, <3>7
    <3> QED
      BY <1>4, <2>7, <2>8, <3>8
  <2>9. CASE q # p
    <3>1. Served(q)' = Served(q)
      BY <1>3, <1>4, <2>9 DEF Served, Serves
    <3>2. Made(q, j)' = Made(q, j)
      BY <2>1, <3>1 DEF Made
    <3>3. Cardinality(Made(q, j)) <= n * (failures + 1)
      BY DEF CopiesInv, Charged
    <3> QED
      BY <1>4, <2>7, <3>2, <3>3
  <2> QED
    BY <2>8, <2>9
<1>9. Charged'
  BY <1>8 DEF Charged
<1> QED
  BY <1>6, <1>9

(* Every step keeps the bound on copies. *)
LEMMA CopiesNext == CopiesInv /\ [Next]_vars => CopiesInv'
<1> SUFFICES ASSUME CopiesInv, [Next]_vars PROVE CopiesInv'
  OBVIOUS
<1>1. Inv'
  BY NextInv DEF CopiesInv
<1>2. Numbered' /\ Charged'
  <2>1. CASE Crash
    BY <2>1, CrashCopies
  <2>2. ASSUME NEW w \in Workers, NEW p \in Payloads, Deliver(w, p)
        PROVE  Numbered' /\ Charged'
    BY <2>2, DeliverCopies
  <2>3. ASSUME NEW w \in Workers, Progress(w) \/ StorageFails(w)
        PROVE  Numbered' /\ Charged'
    BY <2>3, OnTheWayNumbered, OnTheWayCharged, RespondCopies DEF Progress, CopiesInv
  <2>4. ASSUME NEW w \in Workers, LoseAnswer(w) PROVE Numbered' /\ Charged'
    BY <2>4, LoseAnswerCopies
  <2>5. CASE UNCHANGED vars
    <3>1. Numbered'
      BY <2>5 DEF vars, CopiesInv, Numbered, Busy
    <3>2. Charged'
      <4>1. \A p, j : Stored(p, j)' = Stored(p, j) /\ Served(p)' = Served(p)
        BY <2>5 DEF vars, Stored, Served, Serves, Busy, Visible
      <4>2. \A p, j : Void(p, j)' = Void(p, j) /\ Made(p, j)' = Made(p, j)
        BY <4>1 DEF Void, Made
      <4>3. failures \in Nat
        BY DEF CopiesInv, Inv, TypeOK
      <4> QED
        BY <2>5, <4>2, <4>3, ChargedKept DEF vars, CopiesInv
    <3> QED
      BY <3>1, <3>2
  <2> QED
    BY <2>1, <2>2, <2>3, <2>4, <2>5 DEF Next
<1> QED
  BY <1>1, <1>2 DEF CopiesInv

(* Nothing is delivered at first. *)
LEMMA CopiesInit == Init => CopiesInv
<1> SUFFICES ASSUME Init PROVE CopiesInv
  OBVIOUS
<1>1. /\ table = {} /\ open = {} /\ failures = 0
      /\ \A w \in Workers : ~Busy(w)
  BY DEF Init, Idle, Busy
<1>2. Numbered
  BY <1>1 DEF Numbered
<1>3. ASSUME NEW p \in Payloads, NEW j PROVE Void(p, j) = {} /\ Made(p, j) = {}
  BY <1>1 DEF Void, Made, Stored, Served, Serves, Visible
<1>4. Cardinality({}) = 0
  BY FS_EmptySet
<1> DEFINE n == Cardinality(Workers)
<1>5. n \in Nat
  BY EventStoreAssumption, FS_CardinalityType
<1>6. 0 <= n * failures /\ 0 <= n * (failures + 1)
  <2> HIDE DEF n
  <2> QED
    BY <1>1, <1>5
<1>7. Charged
  BY <1>3, <1>4, <1>6 DEF Charged
<1> QED
  BY <1>2, <1>7, InitInv DEF CopiesInv

(* An event without a key is stored once per overlapping delivery, and as     *)
(* often again for each failure: a row of it stands for a delivery of its     *)
(* body, and those are charged.                                               *)
THEOREM CopiesAreCharged == Spec => []CopiesNeedFailures
<1>1. ASSUME CopiesInv PROVE CopiesNeedFailures
  <2> SUFFICES ASSUME NEW p \in Payloads, NEW j \in DOMAIN Batch[p]
               PROVE  Cardinality({row \in Visible : row.payload = p /\ row.pos = j})
                        <= Cardinality(Workers) * (failures + 1)
    BY DEF CopiesNeedFailures
  <2> DEFINE copies == {row \in Visible : row.payload = p /\ row.pos = j}
             f == [row \in copies |-> row.delivery]
  <2>1. Inv /\ Cardinality(Made(p, j)) <= Cardinality(Workers) * (failures + 1)
    BY <1>1 DEF CopiesInv, Charged
  <2>2. \A row \in copies : row.delivery \in Made(p, j)
    BY DEF Made, Stored
  <2>3. ASSUME NEW a \in copies, NEW b \in copies, a.delivery = b.delivery PROVE a = b
    <3>1. \A row \in Row :
            row = [payload |-> row.payload, delivery |-> row.delivery,
                   pos |-> row.pos, key |-> Batch[row.payload][row.pos]]
      BY DEF Row, Log!Own, Log!Event
    <3>2. a \in Row /\ b \in Row
      BY <2>1 DEF Inv, TypeOK, Visible
    <3> QED
      BY <2>3, <3>1, <3>2
  <2> HIDE DEF copies
  <2>4. f \in Injection(copies, Made(p, j))
    BY <2>2, <2>3 DEF Injection, IsInjective
  <2>5. IsFiniteSet(Made(p, j))
    BY <2>1, Countable
  <2> HIDE DEF f
  <2>6. IsFiniteSet(copies) /\ Cardinality(copies) <= Cardinality(Made(p, j))
    BY <2>4, <2>5, FS_Injection
  <2>7. Cardinality(copies) \in Nat /\ Cardinality(Made(p, j)) \in Nat
    BY <2>5, <2>6, FS_CardinalityType
  <2> DEFINE n == Cardinality(Workers)
  <2>8. n \in Nat /\ failures \in Nat
    BY <2>1, EventStoreAssumption, FS_CardinalityType DEF Inv, TypeOK
  <2>9. n * (failures + 1) \in Nat
    <3> HIDE DEF n
    <3> QED
      BY <2>8
  <2>10. Cardinality(copies) <= n * (failures + 1)
    BY <2>1, <2>6, <2>7, <2>9
  <2> QED
    BY <2>10 DEF copies
<1> QED
  BY <1>1, CopiesInit, CopiesNext, PTL DEF Spec

-----------------------------------------------------------------------------
(* The refinement of EventLog.  The log is the committed table; what a worker *)
(* has taken in is its message, what it has given out its answer.             *)
Inbox == [w \in Workers |-> req[w].message]
Given(local) == IF local.pc = "answer" THEN local.result ELSE Nothing
Outbox == [w \in Workers |-> Given(req[w])]

(* A worker's move changes its own inbox and outbox only. *)
LEMMA BoxesMoved ==
  ASSUME TypeOK, NEW w \in Workers, NEW local, Goto(w, local)
  PROVE  /\ Inbox' = [Inbox EXCEPT ![w] = local.message]
         /\ Outbox' = [Outbox EXCEPT ![w] = Given(local)]
<1>1. /\ req'[w] = local
      /\ \A v \in Workers : v # w => req'[v] = req[v]
  BY Moved
<1> QED
  BY <1>1 DEF Inbox, Outbox, Given

(* A worker with a delivery and no answer yet is one the log calls pending;   *)
(* one that answers has something in its outbox.                              *)
LEMMA BoxFacts ==
  ASSUME Inv, NEW w \in Workers
  PROVE  /\ req[w].pc = "idle" => req[w].message = Nothing
         /\ req[w].pc # "idle" => Inbox[w] # Nothing /\ Inbox[w] = req[w].message
         /\ req[w].pc # "answer" => Outbox[w] = Nothing
         /\ req[w].pc = "answer" => Outbox[w] # Nothing
<1>1. req[w].pc = "idle" => req[w].message = Nothing
  BY DEF Inv, TypeOK, Idle
<1>2. req[w].pc # "idle" => req[w].message \in Message
  BY Serving
<1>3. ASSUME req[w].pc = "answer" PROVE req[w].result # Nothing
  <2>1. CASE req[w].result = Failed
    BY <2>1, PlaceholdersAssumption
  <2>2. CASE req[w].result # Failed
    <3>1. Answered(w)
      BY <1>3, <2>2 DEF Inv, DeliveriesInOrder, InOrder
    <3>2. req[w].result \in [Positions(req[w].message) -> Row]
      BY <3>1 DEF Answered, Resolved, Keys, Positions
    <3> QED
      BY <1>2, <1>3, <3>2, PlaceholdersAssumption
  <2> QED
    BY <2>1, <2>2
<1> QED
  BY <1>1, <1>2, <1>3, PlaceholdersAssumption DEF Inbox, Outbox, Given

(* The commit is where the log stores a delivery, whole. *)
LEMMA CommitStores ==
  ASSUME Inv, NEW w \in Workers, Commit(w) PROVE Log!Store(w)
<1> DEFINE local  == [req[w] EXCEPT !.pc = "answer"]
           stored == req[w].result
           p      == req[w].message.payload
<1>1. /\ req[w].pc = "insert" /\ Inserting(w) /\ req[w].todo = {}
      /\ req[w].message \in Message /\ DOMAIN req[w] = DOMAIN Idle
      /\ Goto(w, local)
      /\ table' = table \cup open /\ sent' = sent
  BY Serving DEF Commit, At, InOrder, Visible
<1>2. /\ local.pc = "answer" /\ local.message = req[w].message
      /\ local.result = stored
  BY <1>1 DEF Idle
<1> HIDE DEF local
<1>3. /\ Inbox' = [Inbox EXCEPT ![w] = req[w].message]
      /\ Outbox' = [Outbox EXCEPT ![w] = stored]
  BY <1>1, <1>2, BoxesMoved DEF Inv, Given
<1>4. Inbox' = Inbox
  BY <1>3 DEF Inbox
<1>5. Log!Pending(w)
  BY <1>1, BoxFacts DEF Log!Pending, Inbox, Outbox, Given
<1>6. Keys(w) = Batch[p]
  BY DEF Keys
<1>7. Len(Keys(w)) \in Nat /\ DOMAIN Keys(w) = 1..Len(Keys(w))
  BY <1>1, EventStoreAssumption DEF Message, Keys
<1>8. /\ Resolved(w)
      /\ \A j \in DOMAIN Keys(w) :
           /\ stored[j] \in table'
           /\ stored[j] \in table \/ \E i \in 1..j : stored[j] = Own(w, i)
      /\ \A row \in open : \E j \in DOMAIN Keys(w) : row = stored[j]
      /\ Log!OncePerKey(table')
  BY <1>1 DEF Inserting, Coming, Visible
<1>9. ASSUME NEW j \in DOMAIN Keys(w)
      PROVE  /\ stored[j] \in table \cup Log!Own(req[w].message)
             /\ stored[j] \in table \/ stored[j].pos <= j
  <2>1. CASE stored[j] \in table
    BY <2>1
  <2>2. CASE stored[j] \notin table
    <3>1. PICK i \in 1..j : stored[j] = Own(w, i)
      BY <1>8, <2>2
    <3>2. i \in DOMAIN Keys(w) /\ i <= j
      BY <1>7
    <3>3. Own(w, i) \in Log!Own(req[w].message) /\ Own(w, i).pos = i
      BY <3>2 DEF Own, Keys, Log!Own, Log!Event
    <3> QED
      BY <3>1, <3>2, <3>3
  <2> QED
    BY <2>1, <2>2
<1>10. stored \in [DOMAIN Batch[p] -> table \cup Log!Own(req[w].message)]
  BY <1>6, <1>8, <1>9 DEF Resolved
<1>11. table' = table \cup {stored[j] : j \in DOMAIN Batch[p]}
  BY <1>1, <1>6, <1>8
<1>12. \A j \in DOMAIN Batch[p] :
         /\ stored[j].key = Batch[p][j]
         /\ Batch[p][j] = NoKey => stored[j] = Log!Event(p, req[w].message.delivery, j)
         /\ stored[j] \in table \/ stored[j].pos <= j
  BY <1>6, <1>8, <1>9 DEF Resolved, Own
<1>13. Inbox[w] = req[w].message
  BY DEF Inbox
<1> HIDE DEF stored, p
<1> QED
  BY <1>1, <1>3, <1>4, <1>5, <1>8, <1>10, <1>11, <1>12, <1>13
     DEF Log!Store, Inbox, Outbox, Given, p

(* Every step of ingestion is a step of the log or leaves it alone. *)
LEMMA StepMaps == Inv /\ [Next]_vars => [Log!Next]_(Log!logVars)
<1> SUFFICES ASSUME Inv, [Next]_vars PROVE [Log!Next]_(Log!logVars)
  OBVIOUS
<1> USE DEF Inbox, Outbox, Given, Log!logVars
<1>1. CASE Crash
  <2>1. Log!Crash
    BY <1>1 DEF Crash, Idle, Log!Crash
  <2> QED
    BY <2>1 DEF Log!Next
<1>2. ASSUME NEW w \in Workers, NEW p \in Payloads, Deliver(w, p)
      PROVE  Log!Next
  <2> DEFINE m     == [payload |-> p, delivery |-> sent + 1]
             local == [Idle EXCEPT !.pc = "wait", !.message = m]
  <2>1. local.pc = "wait" /\ local.message = m
    BY DEF Idle
  <2>2. Goto(w, local)
    BY <1>2 DEF Deliver
  <2> HIDE DEF local, m
  <2>3. /\ Inbox' = [Inbox EXCEPT ![w] = m]
        /\ Outbox' = [Outbox EXCEPT ![w] = Nothing]
    BY <2>1, <2>2, BoxesMoved DEF Inv
  <2>4. Inbox[w] = Nothing /\ Outbox[w] = Nothing
    BY <1>2, BoxFacts DEF Deliver, At
  <2>5. Log!Deliver(w)
    BY <1>2, <2>3, <2>4 DEF Deliver, Log!Deliver, m
  <2> QED
    BY <2>5 DEF Log!Next
<1>3. ASSUME NEW w \in Workers, Acquire(w) \/ Resolve(w) \/ Insert(w)
      PROVE  UNCHANGED Log!logVars
  <2>1. PICK local :
          /\ Goto(w, local) /\ local.message = req[w].message
          /\ local.pc # "answer" /\ req[w].pc \notin {"idle", "answer"}
    <3>1. req[w].pc # "idle" => DOMAIN req[w] = DOMAIN Idle
      BY Serving
    <3>2. CASE Acquire(w)
      BY <3>1, <3>2 DEF Acquire, At, Idle
    <3>3. CASE Resolve(w)
      BY <3>1, <3>3 DEF Resolve, At, Idle
    <3>4. CASE Insert(w)
      BY <3>1, <3>4 DEF Insert, At, Idle
    <3> QED
      BY <1>3, <3>2, <3>3, <3>4
  <2>2. /\ Inbox' = [Inbox EXCEPT ![w] = req[w].message]
        /\ Outbox' = [Outbox EXCEPT ![w] = Nothing]
    BY <2>1, BoxesMoved, ZenonT(30) DEF Inv
  <2>3. table' = table /\ sent' = sent
    BY <1>3 DEF Acquire, Resolve, Insert
  <2> QED
    BY <2>1, <2>2, <2>3
<1>4. ASSUME NEW w \in Workers, Commit(w) PROVE Log!Next
  BY <1>4, CommitStores DEF Log!Next
<1>5. ASSUME NEW w \in Workers, StorageFails(w) PROVE Log!Next
  <2> DEFINE local == [req[w] EXCEPT !.pc = "answer", !.todo = {}, !.result = Failed]
  <2>1. req[w].pc \in {"resolve", "insert"} /\ DOMAIN req[w] = DOMAIN Idle
    BY <1>5, Serving DEF StorageFails
  <2>2. /\ local.pc = "answer" /\ local.result = Failed
        /\ local.message = req[w].message
    BY <2>1 DEF Idle
  <2>3. Goto(w, local)
    BY <1>5 DEF StorageFails
  <2> HIDE DEF local
  <2>4. /\ Inbox' = [Inbox EXCEPT ![w] = req[w].message]
        /\ Outbox' = [Outbox EXCEPT ![w] = Failed]
    BY <2>2, <2>3, BoxesMoved, ZenonT(30) DEF Inv
  <2>5. Log!Pending(w)
    BY <2>1, BoxFacts DEF Log!Pending
  <2>6. Log!Refuse(w)
    BY <1>5, <2>4, <2>5 DEF StorageFails, Log!Refuse
  <2> QED
    BY <2>6 DEF Log!Next
<1>6. ASSUME NEW w \in Workers, Respond(w) \/ LoseAnswer(w) PROVE Log!Next
  <2>1. /\ Goto(w, Idle) /\ req[w].pc = "answer" /\ UNCHANGED <<table, sent>>
    BY <1>6 DEF Respond, LoseAnswer, At
  <2>2. Idle.pc = "idle" /\ Idle.message = Nothing
    BY DEF Idle
  <2>3. /\ Inbox' = [Inbox EXCEPT ![w] = Nothing]
        /\ Outbox' = [Outbox EXCEPT ![w] = Nothing]
    BY <2>1, <2>2, BoxesMoved DEF Inv
  <2>4. Log!Answer(w)
    BY <2>1, <2>3, BoxFacts DEF Log!Answer
  <2> QED
    BY <2>4 DEF Log!Next
<1>7. CASE UNCHANGED vars
  BY <1>7 DEF vars
<1> QED
  BY <1>1, <1>2, <1>3, <1>4, <1>5, <1>6, <1>7 DEF Next, Progress

(* Concurrent, repeated and failing deliveries behave as atomic submissions   *)
(* to an append-only log with one event per key: the commit is the one        *)
(* instant at which a delivery takes effect.                                  *)
THEOREM IngestionRefinesLog == Spec => ImplementsEventLog
<1>1. Init => Log!Init
  BY DEF Init, Idle, Log!Init
<1> QED
  BY <1>1, SafetyInvariant, StepMaps, PTL DEF Spec, ImplementsEventLog, Log!Spec
=============================================================================
