----------------------------- MODULE IncidentStore ------------------------------
(*****************************************************************************)
(* The incident routes (api/incidents.py), the services behind them          *)
(* (services/incident_reporting.py) and IncidentStore.add and .mutate        *)
(* (storage/incident_store.py), as they run on a thread pool sharing one     *)
(* connection guarded by one lock.                                           *)
(*                                                                           *)
(* A worker serves one call at a time and goes through                       *)
(*   idle -> verify -> stamp -> wait -> locked -> apply -> answer            *)
(* Declaring and linking verify their evidence first; the other routes start *)
(* at "stamp".  The stamp (datetime.now) is taken before the lock.           *)
(*                                                                           *)
(* Bounds: the wall clock takes values in Times only, which ends a behaviour *)
(* only in the sense that the clock stays at its last value.                 *)
(*****************************************************************************)
EXTENDS IncidentLifecycle

CONSTANTS
  Workers, NoRow, NoCall, NoAnswer, NoWorker,
  MaxTime,              (* bound on the wall clock                            *)
  ClockMayStepBack      (* whether the wall clock may be set back             *)

ASSUME StoreAssumption ==
  /\ MaxTime \in Nat
  /\ ClockMayStepBack \in BOOLEAN
  /\ NoRow \notin Incident
  /\ NoWorker \notin Workers

Times == 0..MaxTime

VARIABLES
  clock,    (* what datetime.now(UTC) returns                                *)
  events,   (* ids the event store holds; events are never deleted           *)
  rows,     (* the committed incidents table                                 *)
  lock,     (* the worker holding IncidentStore._lock, or NoWorker           *)
  req       (* per worker: where it is and its local variables               *)

vars == <<clock, events, rows, lock, req>>

Contract == INSTANCE IncidentRegister WITH
  register <- rows, known <- events,
  asked    <- [w \in Workers |-> req[w].call],
  answered <- [w \in Workers |->
                 IF req[w].pc = "answer"
                   THEN [outcome |-> req[w].outcome, incident |-> req[w].row]
                   ELSE NoAnswer]

Idle == [pc |-> "idle", call |-> NoCall, unchecked |-> {}, at |-> 0,
         row |-> NoRow, outcome |-> "none"]

At(w, where) == req[w].pc = where
Goto(w, local) == req' = [req EXCEPT ![w] = local]
Decided(w, why, row) ==
  [req[w] EXCEPT !.pc = "answer", !.at = 0, !.outcome = why, !.row = row]

-----------------------------------------------------------------------------
Init ==
  /\ clock = 0
  /\ events = {}
  /\ rows = [i \in Incidents |-> NoRow]
  /\ lock = NoWorker
  /\ req = [w \in Workers |-> Idle]

(* A committed write of the event store, from any other route. *)
RecordEvent ==
  /\ \E e \in EventIds \ events : events' = events \cup {e}
  /\ UNCHANGED <<clock, rows, lock, req>>

Tick ==
  /\ \E t \in Times \ {clock} :
       /\ t > clock \/ ClockMayStepBack
       /\ clock' = t
  /\ UNCHANGED <<events, rows, lock, req>>

(* The body has been validated and the handler starts. *)
Receive(w) ==
  /\ At(w, "idle")
  /\ \E c \in Calls :
       Goto(w, [Idle EXCEPT !.pc = IF CitesEvidence(c) THEN "verify" ELSE "stamp",
                            !.call = c,
                            !.unchecked = IF CitesEvidence(c) THEN c.ids ELSE {}])
  /\ UNCHANGED <<clock, events, rows, lock>>

(* verify_events_exist: one EventStore.get per cited id, each taking the     *)
(* event store's own lock, the unknown ids collected before any is reported. *)
(* The variant skips the check.                                              *)
LookupWithoutVerdict(w) ==
  /\ At(w, "verify")
  /\ Goto(w, [req[w] EXCEPT !.pc = "stamp", !.unchecked = {}])
  /\ UNCHANGED <<clock, events, rows, lock>>
Lookup(w) ==
  /\ At(w, "verify")
  /\ \E e \in req[w].unchecked :
       LET left    == req[w].unchecked \ {e}
           verdict == IF e \in events THEN req[w].outcome ELSE "unknown_ids"
       IN Goto(w, [req[w] EXCEPT
                     !.unchecked = left,
                     !.outcome = verdict,
                     !.pc = CASE left # {} -> "verify"
                              [] left = {} /\ verdict = "unknown_ids" -> "answer"
                              [] left = {} /\ verdict # "unknown_ids" -> "stamp"])
  /\ UNCHANGED <<clock, events, rows, lock>>

(* now = datetime.now(UTC); a declaration also builds its incident here. *)
Stamp(w) ==
  /\ At(w, "stamp")
  /\ LET c == req[w].call IN
       Goto(w, [req[w] EXCEPT !.pc = "wait", !.at = clock,
                  !.row = IF c.op = "declare" THEN Declare(c.ids, clock) ELSE NoRow])
  /\ UNCHANGED <<clock, events, rows, lock>>

(* with self._lock.  The variant does not wait for it. *)
Unguarded(w) == TRUE
LockFree(w) == lock = NoWorker

Acquire(w) ==
  /\ At(w, "wait")
  /\ LockFree(w)
  /\ lock' = w
  /\ Goto(w, [req[w] EXCEPT !.pc = "locked"])
  /\ UNCHANGED <<clock, events, rows>>

(* A statement or the commit fails (disk full, or the database locked by the *)
(* other store's connection): rolled back, and the exception leaves both with *)
(* blocks.                                                                    *)
StorageFails(w) ==
  /\ req[w].pc \in {"locked", "apply"}
  /\ Goto(w, Decided(w, "storage_error", NoRow))
  /\ UNCHANGED <<clock, events, rows, lock>>

(* add: one INSERT, refused by the primary key when the id is taken.  The    *)
(* variant replaces the row.                                                 *)
NeverTaken(i) == FALSE
IdTaken(i) == rows[i] # NoRow

Insert(w) ==
  LET i == req[w].call.incident IN
  /\ At(w, "locked")
  /\ req[w].call.op = "declare"
  /\ IF IdTaken(i)
       THEN Goto(w, Decided(w, "duplicate", NoRow)) /\ rows' = rows
       ELSE /\ Goto(w, Decided(w, "ok", req[w].row))
            /\ rows' = [rows EXCEPT ![i] = req[w].row]
  /\ UNCHANGED <<clock, events, lock>>

(* mutate, first half: SELECT the row under the lock. *)
ReadRow(w) ==
  LET row == rows[req[w].call.incident] IN
  /\ At(w, "locked")
  /\ req[w].call.op # "declare"
  /\ IF row = NoRow
       THEN Goto(w, Decided(w, "missing", NoRow))
       ELSE Goto(w, [req[w] EXCEPT !.pc = "apply", !.row = row])
  /\ UNCHANGED <<clock, events, rows, lock>>

(* mutate, second half: the mutator on the row that was read, then UPDATE and *)
(* commit; a mutator that raises leaves the table untouched.                  *)
Apply(w) ==
  LET i == req[w].call.incident
      result == Mutation(req[w].call, req[w].row, req[w].at)
  IN
  /\ At(w, "apply")
  /\ Goto(w, Decided(w, result.outcome, result.incident))
  /\ rows' = IF result.outcome = "ok"
               THEN [rows EXCEPT ![i] = result.incident] ELSE rows
  /\ UNCHANGED <<clock, events, lock>>

(* Leaving the with block, by return or by exception, frees the lock; the     *)
(* answer goes out.  The variant forgets the lock.                           *)
StillHeld(w) == lock
FreedBy(w) == IF lock = w THEN NoWorker ELSE lock

Respond(w) ==
  /\ At(w, "answer")
  /\ lock' = FreedBy(w)
  /\ Goto(w, Idle)
  /\ UNCHANGED <<clock, events, rows>>

(* The process stops and starts again: both tables survive, nothing else. *)
Crash ==
  /\ req # [w \in Workers |-> Idle]
  /\ req' = [w \in Workers |-> Idle]
  /\ lock' = NoWorker
  /\ UNCHANGED <<clock, events, rows>>

Progress(w) ==
  \/ Lookup(w) \/ Stamp(w) \/ Acquire(w) \/ Insert(w)
  \/ ReadRow(w) \/ Apply(w) \/ Respond(w)

Next ==
  \/ RecordEvent
  \/ Tick
  \/ Crash
  \/ \E w \in Workers : Receive(w) \/ Progress(w) \/ StorageFails(w)

Spec == Init /\ [][Next]_vars

(* Each thread keeps running; clients, the clock and failures are not fair. *)
FairSpec == Spec /\ \A w \in Workers : WF_vars(Progress(w))

-----------------------------------------------------------------------------
(* The HTTP status each route turns an outcome into. *)
StatusCode(c, outcome) ==
  CASE outcome = "ok"            -> IF c.op = "declare" THEN 201 ELSE 200
    [] outcome = "missing"       -> 404
    [] outcome \in {"storage_error", "duplicate"} -> 500
    [] c.op = "resolve"          -> IF outcome = "bad_move" THEN 409 ELSE 500
    [] c.op = "transition"       -> IF outcome = "bad_move" THEN 409 ELSE 422
    [] c.op = "link"             -> IF outcome = "closed" THEN 409 ELSE 422
    [] c.op = "unlink"           -> 409
    [] c.op = "declare"          -> 422

-----------------------------------------------------------------------------
Outcomes ==
  {"none", "ok", "unknown_ids", "missing", "duplicate", "storage_error",
   "bad_move", "backwards", "note_on_reopen", "closed", "too_many",
   "last_event", "invalid"}

Local ==
  [pc : {"idle", "verify", "stamp", "wait", "locked", "apply", "answer"},
   call : Calls \cup {NoCall}, unchecked : SUBSET EventIds, at : Times,
   row : Incident \cup {NoRow}, outcome : Outcomes]

(* None and a missing answer are neither a request nor a response. *)
ASSUME PlaceholdersAssumption ==
  /\ NoCall \notin Calls
  /\ NoAnswer \notin [outcome : Outcomes, incident : Incident \cup {NoRow}]

(* Every variable stays in its domain. *)
TypeOK ==
  /\ clock \in Times
  /\ events \subseteq EventIds
  /\ rows \in [Incidents -> Incident \cup {NoRow}]
  /\ lock \in Workers \cup {NoWorker}
  /\ req \in [Workers -> Local]

(* A mutator always works on the row that is still stored: between the SELECT *)
(* of IncidentStore.mutate and its UPDATE no other call changes the row.      *)
LockProtectsRow ==
  \A w \in Workers :
    At(w, "apply") => /\ lock = w
                      /\ req[w].row = rows[req[w].call.incident]

(* How a call progresses: evidence is verified before the stamp, the lock is  *)
(* held over every access to the table, and a mutator keeps the stored row.   *)
InOrder(w) ==
  LET r == req[w] IN
  /\ r.pc # "idle" => r.call \in Calls
  /\ r.pc = "verify" =>
       \/ r.outcome = "unknown_ids"
       \/ r.call.ids \ r.unchecked \subseteq events
  /\ r.pc \in {"stamp", "wait", "locked", "apply"} /\ CitesEvidence(r.call) =>
       r.call.ids \subseteq events
  /\ r.pc \in {"wait", "locked"} /\ r.call.op = "declare" =>
       r.row = Declare(r.call.ids, r.at)
  /\ r.pc \in {"locked", "apply"} => lock = w
  /\ r.pc = "apply" =>
       /\ r.call.op # "declare"
       /\ r.row # NoRow
       /\ r.row = rows[r.call.incident]

CallsInOrder == \A w \in Workers : InOrder(w)

(* Every stored incident satisfies the record's validator, so every stored    *)
(* row can be read back; and no accepted change relies on the revalidation in *)
(* _evolve: the operations' own guards refuse first, each with its own error. *)
RevalidationNeverRefuses ==
  /\ \A i \in Incidents : rows[i] # NoRow => Consistent(rows[i])
  /\ \A w \in Workers : req[w].outcome # "invalid"

(* Evidence is verified before the lock is taken and stays valid afterwards:  *)
(* every id a stored incident cites is an event the event store holds.        *)
EvidenceTraceable ==
  \A i \in Incidents : rows[i] # NoRow => rows[i].event_ids \subseteq events

(* A closed incident is a finished record: no later call, however it          *)
(* interleaves with the closing one, changes anything about it.               *)
ClosedIsFinal ==
  [][\A i \in Incidents :
       rows[i] # NoRow /\ rows[i].status \in Terminal => rows'[i] = rows[i]]_rows

(* A stored incident is never removed; each committed change is a lifecycle   *)
(* move or an evidence change, its update time never goes back even when the  *)
(* wall clock does, and while it stays inactive its resolution instant stays. *)
HistoryForward ==
  [][\A i \in Incidents : rows[i] # NoRow => Forward(rows[i], rows'[i])]_rows

(* The threaded store is an atomic register of incidents: no accepted change  *)
(* is lost or applied to a stale record, no refused call leaves a trace, and  *)
(* a crash never leaves a half-made change.                                   *)
ImplementsRegister == Contract!Spec

(* The store keeps serving: while calls are in progress, one is eventually    *)
(* answered, unless the process stops and drops them; in particular no error  *)
(* path leaves the lock taken.                                                *)
CallsKeepBeingAnswered ==
  (\E w \in Workers : ~At(w, "idle")) ~>
    (\/ \E w \in Workers : At(w, "answer")
     \/ \A w \in Workers : At(w, "idle"))

(* The resolution route answers every call that the incident model decides    *)
(* with the statuses it declares: 200, 404 for a missing incident, 409 for    *)
(* one that cannot move to resolved.                                          *)
ResolveAnswersAreDeclared ==
  \A w \in Workers :
    At(w, "answer") /\ req[w].call.op = "resolve" /\ req[w].outcome # "storage_error"
      => StatusCode(req[w].call, req[w].outcome) \in {200, 404, 409}
=============================================================================
