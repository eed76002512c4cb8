------------------------------- MODULE EventStore -------------------------------
(*****************************************************************************)
(* Event ingestion: record_event and record_events (services/ingestion.py)   *)
(* over EventStore.add_or_get and add_all_or_get (storage/event_store.py),   *)
(* on a thread pool sharing one SQLite connection guarded by one lock, with  *)
(* producers that deliver a body again until a delivery of it is             *)
(* acknowledged.  A single event is a batch of one.                          *)
(*                                                                           *)
(* A worker goes through  idle -> wait -> resolve -> insert -> answer.       *)
(* `open' holds the rows the connection's transaction has written and not    *)
(* yet committed: any statement on the same connection sees them.            *)
(*                                                                           *)
(* Bounds: MaxDeliveries deliveries and MaxFailures failures (crashes,       *)
(* storage errors, lost answers) in a behaviour.                             *)
(*****************************************************************************)
EXTENDS Integers, Sequences, FiniteSets

CONSTANTS
  Workers, Payloads, Batch, NoKey, MaxDeliveries, MaxFailures,
  Nothing, Failed, NoWorker

ASSUME EventStoreAssumption ==
  /\ MaxDeliveries \in Nat
  /\ MaxFailures \in Nat
  /\ \A p \in Payloads :
       Batch[p] # <<>> /\ Len(Batch[p]) \in Nat /\ DOMAIN Batch[p] = 1..Len(Batch[p])
  /\ NoWorker \notin Workers
  /\ IsFiniteSet(Workers)

VARIABLES
  table,     (* committed rows of the events table                           *)
  open,      (* rows written by the open transaction                         *)
  lock,      (* the worker holding EventStore._lock, or NoWorker             *)
  req,       (* per worker: the delivery it serves and its local variables   *)
  sent,      (* deliveries so far; numbers the uuids drawn                   *)
  failures,  (* failures so far                                              *)
  acked      (* payloads whose producer has seen a delivery acknowledged     *)

vars == <<table, open, lock, req, sent, failures, acked>>

Log == INSTANCE EventLog WITH
  log    <- table,
  inbox  <- [w \in Workers |-> req[w].message],
  outbox <- [w \in Workers |->
               IF req[w].pc = "answer" THEN req[w].result ELSE Nothing]

Idle == [pc |-> "idle", message |-> Nothing, todo |-> {}, result |-> Nothing]

At(w, where) == req[w].pc = where
Goto(w, local) == req' = [req EXCEPT ![w] = local]

Keys(w) == Batch[req[w].message.payload]
Own(w, j) == Log!Event(req[w].message.payload, req[w].message.delivery, j)

-----------------------------------------------------------------------------
Init ==
  /\ table = {} /\ open = {}
  /\ lock = NoWorker
  /\ req = [w \in Workers |-> Idle]
  /\ sent = 0 /\ failures = 0
  /\ acked = {}

(* A first delivery, or another of a body not acknowledged yet: after a       *)
(* refusal, or while an earlier delivery is still being served.  Ids and      *)
(* received_at are given here, before the lock.                               *)
Deliver(w, p) ==
  /\ At(w, "idle")
  /\ p \notin acked
  /\ sent < MaxDeliveries
  /\ sent' = sent + 1
  /\ Goto(w, [Idle EXCEPT !.pc = "wait",
                          !.message = [payload |-> p, delivery |-> sent + 1]])
  /\ UNCHANGED <<table, open, lock, failures, acked>>

(* with self._lock.  The variant does not wait for it. *)
Unguarded(w) == TRUE
LockFree(w) == lock = NoWorker

Acquire(w) ==
  /\ At(w, "wait")
  /\ LockFree(w)
  /\ lock' = w
  /\ Goto(w, [req[w] EXCEPT !.pc = "resolve"])
  /\ UNCHANGED <<table, open, sent, failures, acked>>

(* _find_by_key sees what the connection sees.  The variant matches on the    *)
(* source alone.                                                              *)
Visible == table \cup open
SameSource(k) == {row \in Visible : row.key # NoKey}
StoredUnder(k) == {row \in Visible : row.key = k}

(* The batch's own earlier event under the same key: `seen'.  The variant     *)
(* only looks at stored events.                                               *)
NeverSeen(w, j) == j
FirstUnderKey(w, j) ==
  CHOOSE i \in 1..j : /\ Keys(w)[i] = Keys(w)[j]
                      /\ \A h \in 1..(i - 1) : Keys(w)[h] # Keys(w)[j]

(* The event the submission at position j is answered with. *)
Resolution(w, j) ==
  CASE Keys(w)[j] = NoKey                                          -> Own(w, j)
    [] Keys(w)[j] # NoKey /\ StoredUnder(Keys(w)[j]) # {}          ->
         CHOOSE row \in StoredUnder(Keys(w)[j]) : TRUE
    [] Keys(w)[j] # NoKey /\ StoredUnder(Keys(w)[j]) = {}          ->
         Own(w, FirstUnderKey(w, j))

(* The loop over the batch: what to answer and which events to insert. *)
Resolve(w) ==
  LET resolved == [j \in DOMAIN Keys(w) |-> Resolution(w, j)] IN
  /\ At(w, "resolve")
  /\ Goto(w, [req[w] EXCEPT
                !.pc = "insert", !.result = resolved,
                !.todo = {j \in DOMAIN Keys(w) : resolved[j] = Own(w, j)}])
  /\ UNCHANGED <<table, open, lock, sent, failures, acked>>

(* executemany: the rows one after another, in the open transaction.  The     *)
(* variant runs in autocommit mode.                                           *)
InsertAutocommitted(w) ==
  /\ At(w, "insert")
  /\ \E j \in req[w].todo :
       /\ \A i \in req[w].todo : j <= i
       /\ table' = table \cup {Own(w, j)}
       /\ Goto(w, [req[w] EXCEPT !.todo = @ \ {j}])
  /\ UNCHANGED <<open, lock, sent, failures, acked>>
Insert(w) ==
  /\ At(w, "insert")
  /\ \E j \in req[w].todo :
       /\ \A i \in req[w].todo : j <= i
       /\ open' = open \cup {Own(w, j)}
       /\ Goto(w, [req[w] EXCEPT !.todo = @ \ {j}])
  /\ UNCHANGED <<table, lock, sent, failures, acked>>

(* Leaving the with block, by return or by exception, frees the lock.  The    *)
(* variant forgets to.                                                        *)
StillHeld == lock
Freed == NoWorker

(* Both with blocks are left: commit, then the lock. *)
Commit(w) ==
  /\ At(w, "insert")
  /\ req[w].todo = {}
  /\ table' = Visible
  /\ open' = {}
  /\ lock' = Freed
  /\ Goto(w, [req[w] EXCEPT !.pc = "answer"])
  /\ UNCHANGED <<sent, failures, acked>>

(* A statement or the commit raises: a taken id (DuplicateEventIdError), a    *)
(* full disk, a database locked by another connection.  The connection's      *)
(* block rolls back before the lock is freed.  The variant does not.          *)
LeftOpen == open
RolledBack == {}
StorageFails(w) ==
  /\ req[w].pc \in {"resolve", "insert"}
  /\ failures < MaxFailures
  /\ failures' = failures + 1
  /\ open' = RolledBack
  /\ lock' = Freed
  /\ Goto(w, [req[w] EXCEPT !.pc = "answer", !.todo = {}, !.result = Failed])
  /\ UNCHANGED <<table, sent, acked>>

(* The answer reaches the producer: 201, 200 or 202 acknowledges the body,    *)
(* whether its events are new or were stored before.  One variant             *)
(* acknowledges an error as well, one refuses what was stored before.         *)
AnyAnswer(w) == TRUE
NewOnly(w) ==
  /\ req[w].result # Failed
  /\ \A j \in DOMAIN req[w].result :
       req[w].result[j].delivery = req[w].message.delivery
Acknowledges(w) == req[w].result # Failed

Respond(w) ==
  /\ At(w, "answer")
  /\ Goto(w, Idle)
  /\ acked' = IF Acknowledges(w) THEN acked \cup {req[w].message.payload} ELSE acked
  /\ UNCHANGED <<table, open, lock, sent, failures>>

(* The producer has given up on this delivery. *)
LoseAnswer(w) ==
  /\ At(w, "answer")
  /\ failures < MaxFailures
  /\ failures' = failures + 1
  /\ Goto(w, Idle)
  /\ UNCHANGED <<table, open, lock, sent, acked>>

(* The process stops; the journal undoes the open transaction on restart. *)
Crash ==
  /\ failures < MaxFailures
  /\ failures' = failures + 1
  /\ open' = {}
  /\ lock' = NoWorker
  /\ req' = [w \in Workers |-> Idle]
  /\ UNCHANGED <<table, sent, acked>>

Progress(w) ==
  \/ Acquire(w) \/ Resolve(w) \/ Insert(w) \/ Commit(w) \/ Respond(w)

Next ==
  \/ Crash
  \/ \E w \in Workers :
       \/ \E p \in Payloads : Deliver(w, p)
       \/ Progress(w)
       \/ StorageFails(w)
       \/ LoseAnswer(w)

Spec == Init /\ [][Next]_vars

(* Threads keep running, and a producer keeps delivering what has not been    *)
(* acknowledged.                                                              *)
FairSpec ==
  /\ Spec
  /\ \A w \in Workers : WF_vars(Progress(w))
  /\ \A p \in Payloads : SF_vars(\E w \in Workers : Deliver(w, p))

-----------------------------------------------------------------------------
Message == [payload : Payloads, delivery : 1..MaxDeliveries]
Row == UNION {Log!Own(m) : m \in Message}
Positions(m) == DOMAIN Batch[m.payload]

(* None and an error response are neither a body nor a list of events. *)
ASSUME PlaceholdersAssumption ==
  /\ Nothing # Failed
  /\ Nothing \notin Message
  /\ \A m \in Message :
       Nothing \notin [Positions(m) -> Row] /\ Failed \notin [Positions(m) -> Row]

(* What a worker serving message m may be answering: an error, or for each    *)
(* position of the body an event with that position's key.                    *)
IsAnswer(r, m) ==
  \/ r = Failed
  \/ /\ DOMAIN r = Positions(m)
     /\ \A j \in Positions(m) : r[j] \in Row /\ r[j].key = Batch[m.payload][j]

(* Every variable stays in its domain, and a worker's locals fit the stage of *)
(* the delivery it serves.                                                    *)
TypeOK ==
  /\ table \subseteq Row /\ open \subseteq Row
  /\ lock \in Workers \cup {NoWorker}
  /\ DOMAIN req = Workers
  /\ \A w \in Workers :
       /\ DOMAIN req[w] = DOMAIN Idle
       /\ req[w] = Idle \/
            /\ req[w].pc \in {"wait", "resolve", "insert", "answer"}
            /\ req[w].message \in Message
            /\ req[w].todo \subseteq Positions(req[w].message)
       /\ At(w, "answer") => IsAnswer(req[w].result, req[w].message)
  /\ sent \in 0..MaxDeliveries /\ failures \in 0..MaxFailures
  /\ acked \subseteq Payloads

(* No two events are ever stored under the same (source, external_id),        *)
(* whatever is redelivered concurrently, repeated inside one batch, rolled    *)
(* back or interrupted by a restart: the schema has no constraint for it.     *)
OncePerKey == Log!OncePerKey(table \cup open)

(* Rows of an unfinished transaction are never visible while nobody holds the *)
(* lock: the next reader or writer on the shared connection starts from       *)
(* committed history.                                                         *)
FreeLockIsClean == lock = NoWorker => open = {}

(* An acknowledged body is in the committed table, whole: its keyed events    *)
(* under their keys, each event without a key as a row of its own.            *)
AckedIsDurable ==
  \A p \in acked : \A j \in DOMAIN Batch[p] :
    \E row \in table :
      IF Batch[p][j] = NoKey THEN row.payload = p /\ row.pos = j
                             ELSE row.key = Batch[p][j]

(* An event without a key is stored again by a repeated delivery, but only    *)
(* deliveries that overlap or whose answer was lost repeat: each failure lets *)
(* at most one delivery per thread go unanswered, so the copies of one event  *)
(* never exceed one per thread, and as many again for each failure.           *)
CopiesNeedFailures ==
  \A p \in Payloads : \A j \in {i \in DOMAIN Batch[p] : Batch[p][i] = NoKey} :
    LET copies == {row \in Visible : row.payload = p /\ row.pos = j}
    IN Cardinality(copies) <= Cardinality(Workers) * (failures + 1)

(* Concurrent, repeated and failing deliveries behave as atomic submissions   *)
(* to an append-only log with one event per key.                              *)
ImplementsEventLog == Log!Spec

(* A producer that keeps retrying gets every body stored and acknowledged.    *)
EveryPayloadAcknowledged == \A p \in Payloads : <>(p \in acked)
=============================================================================
