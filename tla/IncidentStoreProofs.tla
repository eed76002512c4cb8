--------------------------- MODULE IncidentStoreProofs ---------------------------
(*****************************************************************************)
(* The incident store's safety, for any number of workers, incidents, events *)
(* and instants.  The inductive invariant is                                 *)
(*                                                                           *)
(*   Inv == TypeOK /\ CallsInOrder /\ EvidenceTraceable                      *)
(*            /\ RevalidationNeverRefuses                                    *)
(*                                                                           *)
(* CallsInOrder carries what a worker has established so far; a step of one  *)
(* worker keeps it for another because only the lock's holder touches rows   *)
(* and events only grow (InOrderKept).                                       *)
(*                                                                           *)
(* The last part proves that the store implements IncidentRegister.          *)
(*****************************************************************************)
EXTENDS IncidentStore, IncidentLifecycleProofs

Inv ==
  /\ TypeOK
  /\ CallsInOrder
  /\ EvidenceTraceable
  /\ RevalidationNeverRefuses

-----------------------------------------------------------------------------
(* Every instant of the wall clock is a natural number. *)
LEMMA TimesAreNat == Times \subseteq Nat
BY StoreAssumption DEF Times

(* A thread between two calls has well-typed locals. *)
LEMMA IdleTyped == Idle \in Local
<1>1. 0 \in Times
  BY StoreAssumption DEF Times
<1> QED
  BY <1>1 DEF Idle, Local, Outcomes

(* A worker's move replaces its own locals and nobody else's. *)
LEMMA GotoTyped ==
  ASSUME TypeOK, NEW w \in Workers, NEW local \in Local, Goto(w, local)
  PROVE  /\ req' \in [Workers -> Local]
         /\ req'[w] = local
         /\ \A v \in Workers : v # w => req'[v] = req[v]
BY DEF TypeOK, Goto

(* What another worker has established survives a step that keeps events and  *)
(* either leaves the table and the lock alone or is taken under the lock.     *)
LEMMA InOrderKept ==
  ASSUME NEW v \in Workers, InOrder(v),
         req'[v] = req[v],
         events \subseteq events',
         lock = v => lock' = v /\ rows' = rows
  PROVE  InOrder(v)'
BY DEF InOrder

(* One worker moves without touching the table. *)
LEMMA LocalStep ==
  ASSUME Inv, NEW w \in Workers, NEW local \in Local, Goto(w, local),
         UNCHANGED <<clock, events, rows>>,
         lock' \in Workers \cup {NoWorker},
         \A v \in Workers \ {w} : lock = v => lock' = v,
         local.outcome # "invalid",
         InOrder(w)'
  PROVE  Inv'
<1>1. /\ req' \in [Workers -> Local]
      /\ req'[w] = local
      /\ \A v \in Workers : v # w => req'[v] = req[v]
  BY GotoTyped DEF Inv
<1>2. TypeOK'
  BY <1>1 DEF Inv, TypeOK
<1>3. CallsInOrder'
  <2> SUFFICES ASSUME NEW v \in Workers, v # w
               PROVE  InOrder(v)'
    BY DEF CallsInOrder
  <2>1. InOrder(v) /\ req'[v] = req[v]
    BY <1>1 DEF Inv, CallsInOrder
  <2> QED
    BY <2>1, InOrderKept
<1>4. EvidenceTraceable'
  BY DEF Inv, EvidenceTraceable
<1>5. RevalidationNeverRefuses'
  BY <1>1 DEF Inv, RevalidationNeverRefuses
<1> QED
  BY <1>2, <1>3, <1>4, <1>5 DEF Inv

(* The lock's holder writes a sound incident and answers. *)
LEMMA WriteStep ==
  ASSUME Inv, NEW w \in Workers, NEW i \in Incidents, NEW inc \in Incident,
         NEW local \in Local, Goto(w, local), local.pc = "answer",
         local.call \in Calls, local.outcome # "invalid",
         lock = w, UNCHANGED <<clock, events, lock>>,
         rows' = [rows EXCEPT ![i] = inc],
         Consistent(inc), inc.event_ids \subseteq events
  PROVE  Inv'
<1>1. /\ req' \in [Workers -> Local]
      /\ req'[w] = local
      /\ \A v \in Workers : v # w => req'[v] = req[v]
  BY GotoTyped DEF Inv
<1>2. TypeOK'
  BY <1>1 DEF Inv, TypeOK
<1>3. CallsInOrder'
  <2> SUFFICES ASSUME NEW v \in Workers
               PROVE  InOrder(v)'
    BY DEF CallsInOrder
  <2>1. CASE v = w
    BY <1>1, <2>1 DEF InOrder
  <2>2. CASE v # w
    BY <1>1, <2>2, InOrderKept DEF Inv, CallsInOrder
  <2> QED
    BY <2>1, <2>2
<1>4. \A j \in Incidents : rows'[j] = IF j = i THEN inc ELSE rows[j]
  BY DEF Inv, TypeOK
<1>5. EvidenceTraceable'
  BY <1>4 DEF Inv, EvidenceTraceable
<1>6. RevalidationNeverRefuses'
  BY <1>1, <1>4 DEF Inv, RevalidationNeverRefuses
<1> QED
  BY <1>2, <1>3, <1>5, <1>6 DEF Inv

(* An answer decided by the worker itself. *)
LEMMA DecidedTyped ==
  ASSUME TypeOK, NEW w \in Workers,
         NEW why \in Outcomes, NEW row \in Incident \cup {NoRow}
  PROVE  /\ Decided(w, why, row) \in Local
         /\ Decided(w, why, row).pc = "answer"
         /\ Decided(w, why, row).call = req[w].call
         /\ Decided(w, why, row).outcome = why
<1>1. 0 \in Times
  BY StoreAssumption DEF Times
<1> QED
  BY <1>1 DEF TypeOK, Decided, Local

(* Deciding without a write, by a worker serving a call. *)
LEMMA DecideStep ==
  ASSUME Inv, NEW w \in Workers, req[w].pc # "idle",
         NEW why \in Outcomes, why # "invalid",
         NEW row \in Incident \cup {NoRow},
         Goto(w, Decided(w, why, row)), UNCHANGED <<clock, events, rows, lock>>
  PROVE  Inv'
<1> DEFINE local == Decided(w, why, row)
<1>1. local \in Local /\ local.pc = "answer" /\ local.call = req[w].call
        /\ local.outcome = why
  BY DecidedTyped DEF Inv
<1>2. req[w].call \in Calls
  BY DEF Inv, CallsInOrder, InOrder
<1>3. req'[w] = local
  BY <1>1, GotoTyped DEF Inv
<1>4. InOrder(w)'
  BY <1>1, <1>2, <1>3 DEF InOrder
<1>5. lock' \in Workers \cup {NoWorker}
  BY DEF Inv, TypeOK
<1>6. Goto(w, local)
  OBVIOUS
<1> HIDE DEF local
<1> QED
  BY <1>1, <1>4, <1>5, <1>6, LocalStep

-----------------------------------------------------------------------------
(* The service starts, with empty tables, inside the invariant. *)
LEMMA InitInv == Init => Inv
<1> SUFFICES ASSUME Init PROVE Inv
  OBVIOUS
<1>1. TypeOK
  BY IdleTyped, StoreAssumption DEF Init, TypeOK, Times
<1>2. CallsInOrder
  BY DEF Init, CallsInOrder, InOrder, Idle
<1>3. EvidenceTraceable
  BY DEF Init, EvidenceTraceable
<1>4. RevalidationNeverRefuses
  BY DEF Init, RevalidationNeverRefuses, Idle
<1> QED
  BY <1>1, <1>2, <1>3, <1>4 DEF Inv

(* A step that moves no worker and leaves lock and table alone. *)
LEMMA EnvironmentStep ==
  ASSUME Inv, UNCHANGED <<rows, lock, req>>,
         clock' \in Times, events' \subseteq EventIds, events \subseteq events'
  PROVE  Inv'
<1>1. TypeOK'
  BY DEF Inv, TypeOK
<1>2. CallsInOrder'
  <2> SUFFICES ASSUME NEW v \in Workers PROVE InOrder(v)'
    BY DEF CallsInOrder
  <2> QED
    BY InOrderKept DEF Inv, CallsInOrder
<1>3. EvidenceTraceable'
  BY DEF Inv, EvidenceTraceable
<1>4. RevalidationNeverRefuses'
  BY DEF Inv, RevalidationNeverRefuses
<1> QED
  BY <1>1, <1>2, <1>3, <1>4 DEF Inv

(* A restart drops every call in progress and keeps the invariant. *)
LEMMA CrashStep ==
  ASSUME Inv, Crash PROVE Inv'
<1>1. TypeOK'
  BY IdleTyped DEF Inv, TypeOK, Crash
<1>2. CallsInOrder'
  BY DEF Crash, CallsInOrder, InOrder, Idle
<1>3. EvidenceTraceable'
  BY DEF Inv, Crash, EvidenceTraceable
<1>4. RevalidationNeverRefuses'
  BY DEF Inv, Crash, RevalidationNeverRefuses, Idle
<1> QED
  BY <1>1, <1>2, <1>3, <1>4 DEF Inv

(* Accepting a call, whatever its body, keeps the invariant. *)
LEMMA ReceiveStep ==
  ASSUME Inv, NEW w \in Workers, Receive(w) PROVE Inv'
<1> PICK c \in Calls :
      Goto(w, [Idle EXCEPT !.pc = IF CitesEvidence(c) THEN "verify" ELSE "stamp",
                           !.call = c,
                           !.unchecked = IF CitesEvidence(c) THEN c.ids ELSE {}])
  BY DEF Receive
<1> DEFINE local ==
      [Idle EXCEPT !.pc = IF CitesEvidence(c) THEN "verify" ELSE "stamp",
                   !.call = c,
                   !.unchecked = IF CitesEvidence(c) THEN c.ids ELSE {}]
<1>1. c.ids \in SUBSET EventIds
  BY DEF Calls, Request, Evidence, Singletons
<1>2. /\ local \in Local
      /\ local.pc = IF CitesEvidence(c) THEN "verify" ELSE "stamp"
      /\ local.call = c
      /\ local.unchecked = IF CitesEvidence(c) THEN c.ids ELSE {}
      /\ local.outcome = "none"
  BY <1>1, IdleTyped DEF Local, Idle
<1> HIDE DEF local
<1>3. req'[w] = local
  BY <1>2, GotoTyped DEF Inv, local
<1>4. InOrder(w)'
  BY <1>1, <1>2, <1>3 DEF InOrder
<1> QED
  BY <1>2, <1>4, LocalStep DEF Receive, Inv, TypeOK, local

(* One lookup of verify_events_exist keeps the invariant: what has been
   checked stays stored, because events are never deleted. *)
LEMMA LookupStep ==
  ASSUME Inv, NEW w \in Workers, Lookup(w) PROVE Inv'
<1> PICK e \in req[w].unchecked :
      LET left    == req[w].unchecked \ {e}
          verdict == IF e \in events THEN req[w].outcome ELSE "unknown_ids"
      IN Goto(w, [req[w] EXCEPT
                     !.unchecked = left,
                     !.outcome = verdict,
                     !.pc = CASE left # {} -> "verify"
                              [] left = {} /\ verdict = "unknown_ids" -> "answer"
                              [] left = {} /\ verdict # "unknown_ids" -> "stamp"])
  BY DEF Lookup
<1> DEFINE left    == req[w].unchecked \ {e}
           verdict == IF e \in events THEN req[w].outcome ELSE "unknown_ids"
           next    == CASE left # {} -> "verify"
                        [] left = {} /\ verdict = "unknown_ids" -> "answer"
                        [] left = {} /\ verdict # "unknown_ids" -> "stamp"
           local   == [req[w] EXCEPT !.unchecked = left, !.outcome = verdict,
                                     !.pc = next]
<1>1. req[w] \in Local /\ req[w].pc = "verify" /\ req[w].call \in Calls
  BY DEF Inv, TypeOK, CallsInOrder, InOrder, Lookup, At
<1>2. verdict \in Outcomes /\ verdict # "invalid"
  BY <1>1 DEF Inv, RevalidationNeverRefuses, Local, Outcomes
<1>3. left \in SUBSET EventIds
  BY <1>1 DEF Local
<1>4. next \in {"verify", "answer", "stamp"}
  OBVIOUS
<1>5. /\ local \in Local /\ local.pc = next /\ local.call = req[w].call
      /\ local.unchecked = left /\ local.outcome = verdict
  BY <1>1, <1>2, <1>3, <1>4 DEF Local
<1>6. Goto(w, local)
  OBVIOUS
<1>7. req'[w] = local
  BY <1>5, <1>6, GotoTyped DEF Inv
<1>8. events' = events
  BY DEF Lookup
<1>9. next = "verify" => verdict = "unknown_ids" \/ req[w].call.ids \ left \subseteq events
  BY <1>1 DEF Inv, CallsInOrder, InOrder
<1>10. next = "stamp" => req[w].call.ids \subseteq events
  BY <1>1 DEF Inv, CallsInOrder, InOrder
<1>11. InOrder(w)'
  <2> HIDE DEF left, verdict, next, local
  <2> QED
    BY <1>1, <1>4, <1>5, <1>7, <1>8, <1>9, <1>10 DEF InOrder
<1> HIDE DEF left, verdict, next, local
<1> QED
  BY <1>2, <1>5, <1>6, <1>11, LocalStep DEF Lookup, Inv, TypeOK

(* Reading the clock keeps the invariant; a declaration is built typed. *)
LEMMA StampStep ==
  ASSUME Inv, NEW w \in Workers, Stamp(w) PROVE Inv'
<1> DEFINE c     == req[w].call
           row   == IF c.op = "declare" THEN Declare(c.ids, clock) ELSE NoRow
           local == [req[w] EXCEPT !.pc = "wait", !.at = clock, !.row = row]
<1>1. /\ req[w] \in Local /\ req[w].pc = "stamp" /\ c \in Calls
      /\ req[w].outcome # "invalid"
      /\ CitesEvidence(c) => c.ids \subseteq events
  BY DEF Inv, TypeOK, CallsInOrder, InOrder, Stamp, At, RevalidationNeverRefuses
<1>2. clock \in Times /\ clock \in Nat
  BY TimesAreNat DEF Inv, TypeOK
<1>3. row \in Incident \cup {NoRow}
  <2>1. c.op = "declare" => c.ids \in SUBSET EventIds /\ IsEvidence(c.ids)
    BY <1>1 DEF Calls, Request, Evidence
  <2> QED
    BY <1>2, <2>1, DeclareSound
<1>4. /\ local \in Local /\ local.pc = "wait" /\ local.call = c
      /\ local.at = clock /\ local.row = row /\ local.outcome = req[w].outcome
  BY <1>1, <1>2, <1>3 DEF Local
<1>5. Goto(w, local)
  BY DEF Stamp
<1>6. req'[w] = local
  BY <1>4, <1>5, GotoTyped DEF Inv
<1>7. InOrder(w)'
  BY <1>1, <1>4, <1>6 DEF InOrder, Stamp
<1> HIDE DEF local, row, c
<1> QED
  BY <1>1, <1>4, <1>5, <1>7, LocalStep DEF Stamp, Inv, TypeOK

(* Taking the lock keeps the invariant: nobody else is past it. *)
LEMMA AcquireStep ==
  ASSUME Inv, NEW w \in Workers, Acquire(w) PROVE Inv'
<1> DEFINE local == [req[w] EXCEPT !.pc = "locked"]
<1>1. /\ req[w] \in Local /\ req[w].pc = "wait" /\ InOrder(w)
      /\ req[w].outcome # "invalid"
  BY DEF Inv, TypeOK, CallsInOrder, Acquire, At, RevalidationNeverRefuses
<1>2. /\ local \in Local /\ local.pc = "locked" /\ local.call = req[w].call
      /\ local.at = req[w].at /\ local.row = req[w].row
      /\ local.outcome = req[w].outcome
  BY <1>1 DEF Local
<1>3. Goto(w, local)
  BY DEF Acquire
<1>4. req'[w] = local
  BY <1>2, <1>3, GotoTyped DEF Inv
<1>5. InOrder(w)'
  BY <1>1, <1>2, <1>4 DEF InOrder, Acquire
<1>6. \A v \in Workers : lock # v
  BY StoreAssumption DEF Acquire, LockFree
<1> HIDE DEF local
<1> QED
  BY <1>1, <1>2, <1>3, <1>5, <1>6, LocalStep DEF Acquire

(* A failing statement keeps the invariant: no row has changed. *)
LEMMA StorageFailsStep ==
  ASSUME Inv, NEW w \in Workers, StorageFails(w) PROVE Inv'
<1>1. req[w].pc # "idle"
  BY DEF StorageFails
<1> QED
  BY <1>1, DecideStep DEF StorageFails, Outcomes

(* IncidentStore.add keeps the invariant: what it inserts is consistent and
   its evidence was verified. *)
LEMMA InsertStep ==
  ASSUME Inv, NEW w \in Workers, Insert(w) PROVE Inv'
<1> DEFINE c == req[w].call
           i == c.incident
<1>1. /\ req[w].pc = "locked" /\ c \in Calls /\ c.op = "declare" /\ lock = w
      /\ req[w].row = Declare(c.ids, req[w].at) /\ c.ids \subseteq events
      /\ req[w].at \in Times
  BY DEF Inv, TypeOK, Local, CallsInOrder, InOrder, CitesEvidence, Insert, At
<1>2. CASE IdTaken(i)
  <2>1. rows' = rows
    BY <1>2 DEF Insert
  <2> QED
    BY <1>1, <1>2, <2>1, DecideStep DEF Insert, Outcomes
<1>3. CASE ~IdTaken(i)
  <2>1. c.ids \in SUBSET EventIds /\ IsEvidence(c.ids) /\ i \in Incidents
    BY <1>1 DEF Calls, Request, Evidence
  <2>2. /\ req[w].row \in Incident /\ Consistent(req[w].row)
        /\ req[w].row.event_ids \subseteq events
    BY <1>1, <2>1, DeclareSound, TimesAreNat
  <2>3. /\ Decided(w, "ok", req[w].row) \in Local
        /\ Decided(w, "ok", req[w].row).pc = "answer"
        /\ Decided(w, "ok", req[w].row).call = c
        /\ Decided(w, "ok", req[w].row).outcome = "ok"
    BY <2>2, DecidedTyped DEF Inv, Outcomes
  <2>4. /\ Goto(w, Decided(w, "ok", req[w].row))
        /\ rows' = [rows EXCEPT ![i] = req[w].row]
        /\ UNCHANGED <<clock, events, lock>>
    BY <1>3 DEF Insert
  <2> HIDE DEF c, i
  <2>5. Decided(w, "ok", req[w].row).outcome # "invalid"
    BY <2>3
  <2>6. Decided(w, "ok", req[w].row).call \in Calls
    BY <1>1, <2>3
  <2> QED
    BY <1>1, <2>1, <2>2, <2>3, <2>4, <2>5, <2>6, WriteStep
<1> QED
  BY <1>2, <1>3

(* The SELECT of IncidentStore.mutate keeps the invariant. *)
LEMMA ReadRowStep ==
  ASSUME Inv, NEW w \in Workers, ReadRow(w) PROVE Inv'
<1> DEFINE row   == rows[req[w].call.incident]
           local == [req[w] EXCEPT !.pc = "apply", !.row = row]
<1>1. /\ req[w] \in Local /\ req[w].pc = "locked" /\ InOrder(w)
      /\ req[w].call.op # "declare" /\ req[w].outcome # "invalid"
      /\ req[w].call \in Calls
  BY DEF Inv, TypeOK, CallsInOrder, InOrder, ReadRow, At, RevalidationNeverRefuses
<1>2. CASE row = NoRow
  BY <1>1, <1>2, DecideStep DEF ReadRow, Outcomes
<1>3. CASE row # NoRow
  <2>1. req[w].call.incident \in Incidents
    BY <1>1 DEF Calls, Request
  <2>2. row \in Incident
    BY <1>3, <2>1 DEF Inv, TypeOK
  <2>3. /\ local \in Local /\ local.pc = "apply" /\ local.call = req[w].call
        /\ local.row = row /\ local.outcome = req[w].outcome
    BY <1>1, <2>2 DEF Local
  <2>4. Goto(w, local)
    BY <1>3 DEF ReadRow
  <2>5. req'[w] = local
    BY <2>3, <2>4, GotoTyped DEF Inv
  <2>6. InOrder(w)'
    BY <1>1, <1>3, <2>3, <2>5 DEF InOrder, ReadRow
  <2> HIDE DEF local
  <2> QED
    BY <1>1, <2>3, <2>4, <2>6, LocalStep DEF ReadRow, Inv, TypeOK
<1> QED
  BY <1>2, <1>3

(* What the mutator makes of the stored row. *)
LEMMA ApplyFacts ==
  ASSUME Inv, NEW w \in Workers, At(w, "apply")
  PROVE  /\ req[w].call \in Calls /\ req[w].call.op # "declare"
         /\ req[w].call.incident \in Incidents /\ lock = w
         /\ req[w].row = rows[req[w].call.incident]
         /\ req[w].row \in Incident /\ Consistent(req[w].row)
         /\ Sound(req[w].row, Mutation(req[w].call, req[w].row, req[w].at))
         /\ Mutation(req[w].call, req[w].row, req[w].at).incident.event_ids
              \subseteq events
<1> DEFINE c == req[w].call
           result == Mutation(c, req[w].row, req[w].at)
<1>1. /\ c \in Calls /\ c.op # "declare" /\ lock = w
      /\ req[w].row = rows[c.incident] /\ req[w].row # NoRow
      /\ CitesEvidence(c) => c.ids \subseteq events
      /\ req[w].at \in Times
  BY DEF Inv, TypeOK, Local, CallsInOrder, InOrder, At
<1>2. c.incident \in Incidents
  BY <1>1 DEF Calls, Request
<1>3. /\ req[w].row \in Incident /\ Consistent(req[w].row)
      /\ req[w].row.event_ids \subseteq events
  BY <1>1, <1>2 DEF Inv, TypeOK, EvidenceTraceable, RevalidationNeverRefuses
<1>4. req[w].at \in Nat
  BY <1>1, TimesAreNat
<1>5. /\ Sound(req[w].row, result)
      /\ result.incident.event_ids
           \subseteq req[w].row.event_ids \cup (IF c.op = "link" THEN c.ids ELSE {})
  BY <1>1, <1>3, <1>4, MutationSound
<1>6. result.incident.event_ids \subseteq events
  BY <1>1, <1>3, <1>5 DEF CitesEvidence
<1> QED
  BY <1>1, <1>2, <1>3, <1>5, <1>6

(* The UPDATE of IncidentStore.mutate keeps the invariant: it writes what
   MutationSound says of a mutation of the stored row. *)
LEMMA ApplyStep ==
  ASSUME Inv, NEW w \in Workers, Apply(w) PROVE Inv'
<1> DEFINE i == req[w].call.incident
           result == Mutation(req[w].call, req[w].row, req[w].at)
           local == Decided(w, result.outcome, result.incident)
<1>1. /\ req[w].call \in Calls /\ i \in Incidents /\ lock = w
      /\ Sound(req[w].row, result) /\ result.incident.event_ids \subseteq events
      /\ req[w].pc = "apply"
  BY ApplyFacts DEF Apply, At
<1>2. /\ result.incident \in Incident /\ Consistent(result.incident)
      /\ result.outcome \in Outcomes /\ result.outcome # "invalid"
  BY <1>1 DEF Sound, Refusals, Outcomes
<1>3. /\ Goto(w, local) /\ UNCHANGED <<clock, events, lock>>
      /\ rows' = IF result.outcome = "ok"
                   THEN [rows EXCEPT ![i] = result.incident] ELSE rows
  BY DEF Apply
<1> HIDE DEF result, i
<1>4. CASE result.outcome # "ok"
  BY <1>1, <1>2, <1>3, <1>4, DecideStep
<1>5. CASE result.outcome = "ok"
  <2>1. /\ local \in Local /\ local.pc = "answer"
        /\ local.call \in Calls /\ local.outcome # "invalid"
    BY <1>1, <1>2, DecidedTyped DEF Inv
  <2> HIDE DEF local
  <2> QED
    BY <1>1, <1>2, <1>3, <1>5, <2>1, WriteStep
<1> QED
  BY <1>4, <1>5

(* Answering frees the lock only if the answering thread holds it, and keeps
   the invariant. *)
LEMMA RespondStep ==
  ASSUME Inv, NEW w \in Workers, Respond(w) PROVE Inv'
<1>1. Idle \in Local /\ Idle.pc = "idle" /\ Idle.outcome = "none"
  BY IdleTyped DEF Idle
<1>2. req'[w] = Idle /\ Goto(w, Idle)
  BY <1>1, GotoTyped DEF Respond, Inv
<1>3. InOrder(w)'
  BY <1>1, <1>2 DEF InOrder
<1>4. /\ lock' \in Workers \cup {NoWorker}
      /\ \A v \in Workers \ {w} : lock = v => lock' = v
  BY DEF Respond, FreedBy, Inv, TypeOK
<1> QED
  BY <1>1, <1>2, <1>3, <1>4, LocalStep DEF Respond

(* Every step of the service keeps the invariant. *)
LEMMA NextInv == Inv /\ [Next]_vars => Inv'
<1> SUFFICES ASSUME Inv, [Next]_vars PROVE Inv'
  OBVIOUS
<1>1. CASE RecordEvent
  BY <1>1, EnvironmentStep DEF RecordEvent, Inv, TypeOK
<1>2. CASE Tick
  BY <1>2, EnvironmentStep DEF Tick, Inv, TypeOK
<1>3. CASE Crash
  BY <1>3, CrashStep
<1>4. ASSUME NEW w \in Workers, Receive(w) \/ Progress(w) \/ StorageFails(w)
      PROVE  Inv'
  BY <1>4, ReceiveStep, LookupStep, StampStep, AcquireStep, InsertStep,
     ReadRowStep, ApplyStep, RespondStep, StorageFailsStep DEF Progress
<1>5. CASE UNCHANGED vars
  BY <1>5, EnvironmentStep DEF vars, Inv, TypeOK
<1> QED
  BY <1>1, <1>2, <1>3, <1>4, <1>5 DEF Next

(* The inductive invariant holds of every reachable state of the threaded
   incident store, for any threads, incidents, events and clock. *)
THEOREM SafetyInvariant == Spec => []Inv
BY InitInv, NextInv, PTL DEF Spec

(* Every variable stays in its domain, whatever calls interleave, fail or are *)
(* cut off by a restart.                                                      *)
THEOREM TypeCorrect == Spec => []TypeOK
<1>1. Inv => TypeOK
  BY DEF Inv
<1> QED
  BY <1>1, SafetyInvariant, PTL

(* IncidentStore.mutate applies its change to the row that is still stored.   *)
THEOREM RowProtected == Spec => []LockProtectsRow
<1>1. Inv => LockProtectsRow
  BY DEF Inv, CallsInOrder, InOrder, LockProtectsRow, At
<1> QED
  BY <1>1, SafetyInvariant, PTL

(* Every id a stored incident cites is an event the event store holds, though *)
(* verify_events_exist runs before the incident store's lock is taken.        *)
THEOREM EvidenceAlwaysTraceable == Spec => []EvidenceTraceable
<1>1. Inv => EvidenceTraceable
  BY DEF Inv
<1> QED
  BY <1>1, SafetyInvariant, PTL

(* Every stored incident passes Incident's validator, and _evolve's           *)
(* revalidation never refuses a change the operations' own guards let through. *)
THEOREM GuardsSuffice == Spec => []RevalidationNeverRefuses
<1>1. Inv => RevalidationNeverRefuses
  BY DEF Inv
<1> QED
  BY <1>1, SafetyInvariant, PTL

-----------------------------------------------------------------------------
(* The only steps that change a stored incident apply a mutation to it. *)
LEMMA RowChange ==
  ASSUME Inv, [Next]_vars, NEW i \in Incidents, rows[i] # NoRow, rows'[i] # rows[i]
  PROVE  /\ Forward(rows[i], rows'[i])
         /\ rows[i].status \notin Terminal
<1>1. PICK w \in Workers : Insert(w) \/ Apply(w)
  BY DEF Next, Progress, vars, RecordEvent, Tick, Crash, Receive, StorageFails,
     Lookup, Stamp, Acquire, ReadRow, Respond
<1>2. CASE Insert(w)
  <2>1. CASE IdTaken(req[w].call.incident)
    BY <1>2, <2>1 DEF Insert
  <2>2. CASE ~IdTaken(req[w].call.incident)
    <3>1. rows' = [rows EXCEPT ![req[w].call.incident] = req[w].row]
      BY <1>2, <2>2 DEF Insert
    <3>2. rows[req[w].call.incident] = NoRow
      BY <2>2 DEF IdTaken
    <3> QED
      BY <3>1, <3>2 DEF Inv, TypeOK
  <2> QED
    BY <2>1, <2>2
<1>3. CASE Apply(w)
  <2> DEFINE j == req[w].call.incident
             result == Mutation(req[w].call, req[w].row, req[w].at)
  <2>1. Sound(rows[j], result) /\ j \in Incidents
    BY <1>3, ApplyFacts DEF Apply
  <2>2. rows' = IF result.outcome = "ok"
                  THEN [rows EXCEPT ![j] = result.incident] ELSE rows
    BY <1>3 DEF Apply
  <2> HIDE DEF j, result
  <2>3. i = j /\ rows'[i] = result.incident
    BY <2>1, <2>2 DEF Inv, TypeOK
  <2> QED
    BY <2>1, <2>3 DEF Sound
<1> QED
  BY <1>1, <1>2, <1>3

(* No later call changes anything about a closed incident.                    *)
THEOREM ClosedStaysFinal == Spec => ClosedIsFinal
<1>1. Inv /\ [Next]_vars =>
        [\A i \in Incidents :
           rows[i] # NoRow /\ rows[i].status \in Terminal => rows'[i] = rows[i]]_rows
  BY RowChange
<1> QED
  BY <1>1, SafetyInvariant, PTL DEF Spec, ClosedIsFinal

(* Every change of a stored incident is a lifecycle move or an evidence       *)
(* change, its update time never goes back and its resolution instant stays   *)
(* while it stays inactive; and no incident is removed.                       *)
THEOREM HistoryAlwaysForward == Spec => HistoryForward
<1>1. ASSUME Inv, NEW i \in Incidents, rows[i] # NoRow, rows'[i] = rows[i]
      PROVE  Forward(rows[i], rows'[i])
  <2>1. rows[i] \in Incident
    BY <1>1 DEF Inv, TypeOK
  <2>2. rows[i].updated_at \in Nat
    BY <2>1 DEF Incident
  <2> QED
    BY <1>1, <2>1, <2>2 DEF Forward
<1>2. Inv /\ [Next]_vars =>
        [\A i \in Incidents : rows[i] # NoRow => Forward(rows[i], rows'[i])]_rows
  BY <1>1, RowChange
<1> QED
  BY <1>2, SafetyInvariant, PTL DEF Spec, HistoryForward

-----------------------------------------------------------------------------
(* IncidentStore implements IncidentRegister: every call of the threaded      *)
(* store takes effect at one step.  The register is the incidents table, a    *)
(* worker's question its call, its answer the outcome and row it has decided  *)
(* on; Insert and Apply are the steps at which an accepted call takes         *)
(* effect, whatever the other threads do between the steps of this one.       *)
(*                                                                            *)
(* Beyond Inv the mapping needs that a thread between two calls has none, and *)
(* that a call refused for unknown evidence is one that cites evidence and    *)
(* answers with no record (Serving).                                          *)
Serving(w) ==
  /\ req[w].pc = "idle" => req[w].call = NoCall
  /\ req[w].pc = "verify" => CitesEvidence(req[w].call) /\ req[w].row = NoRow

RefinementInv == Inv /\ \A w \in Workers : Serving(w)

-----------------------------------------------------------------------------
(* A step that moves no worker, or one worker as Serving asks, keeps Serving. *)
LEMMA ServingKept ==
  ASSUME TypeOK, \A v \in Workers : Serving(v),
         NEW w \in Workers, NEW local \in Local, Goto(w, local),
         local.pc = "idle" => local.call = NoCall,
         local.pc = "verify" => CitesEvidence(local.call) /\ local.row = NoRow
  PROVE  \A v \in Workers : Serving(v)'
<1>1. /\ req'[w] = local
      /\ \A v \in Workers : v # w => req'[v] = req[v]
  BY GotoTyped
<1> QED
  BY <1>1 DEF Serving

(* The locals a worker's step leaves behind are typed; while the call is not  *)
(* answered they keep the call, and with "verify" the missing row.            *)
LEMMA StepLocals ==
  ASSUME RefinementInv, NEW w \in Workers,
         \/ Stamp(w) \/ Acquire(w) \/ Insert(w) \/ ReadRow(w) \/ Apply(w)
         \/ StorageFails(w)
  PROVE  \E local \in Local :
           /\ Goto(w, local) /\ local.call = req[w].call
           /\ local.pc \notin {"idle", "verify"}
<1>1. req[w] \in Local /\ clock \in Times
  BY DEF RefinementInv, Inv, TypeOK
<1>2. TypeOK
  BY DEF RefinementInv, Inv
<1>3. ASSUME NEW why \in Outcomes, NEW row \in Incident \cup {NoRow},
             Goto(w, Decided(w, why, row))
      PROVE  \E local \in Local :
               /\ Goto(w, local) /\ local.call = req[w].call
               /\ local.pc \notin {"idle", "verify"}
  <2>1. /\ Decided(w, why, row) \in Local
        /\ Decided(w, why, row).pc = "answer"
        /\ Decided(w, why, row).call = req[w].call
    BY <1>2, DecidedTyped
  <2> QED
    BY <1>3, <2>1
<1>4. CASE Stamp(w)
  <2> DEFINE c     == req[w].call
             row   == IF c.op = "declare" THEN Declare(c.ids, clock) ELSE NoRow
             local == [req[w] EXCEPT !.pc = "wait", !.at = clock, !.row = row]
  <2>1. c \in Calls /\ clock \in Nat
    BY <1>1, <1>4, TimesAreNat
       DEF Stamp, At, RefinementInv, Inv, CallsInOrder, InOrder
  <2>2. row \in Incident \cup {NoRow}
    <3>1. c.op = "declare" => c.ids \in SUBSET EventIds /\ IsEvidence(c.ids)
      BY <2>1 DEF Calls, Request, Evidence
    <3> QED
      BY <2>1, <3>1, DeclareSound
  <2>3. local \in Local /\ local.pc = "wait" /\ local.call = c
    BY <1>1, <2>2 DEF Local
  <2>4. Goto(w, local)
    BY <1>4 DEF Stamp
  <2> HIDE DEF local
  <2> QED
    BY <2>3, <2>4
<1>5. CASE Acquire(w)
  <2> DEFINE local == [req[w] EXCEPT !.pc = "locked"]
  <2>1. local \in Local /\ local.pc = "locked" /\ local.call = req[w].call
    BY <1>1 DEF Local
  <2>2. Goto(w, local)
    BY <1>5 DEF Acquire
  <2> HIDE DEF local
  <2> QED
    BY <2>1, <2>2
<1>6. CASE Insert(w)
  <2>1. req[w].row \in Incident \cup {NoRow}
    BY <1>1 DEF Local
  <2> QED
    BY <1>3, <1>6, <2>1 DEF Insert, Outcomes
<1>7. CASE ReadRow(w)
  <2> DEFINE row   == rows[req[w].call.incident]
             local == [req[w] EXCEPT !.pc = "apply", !.row = row]
  <2>1. CASE row = NoRow
    BY <1>3, <1>7, <2>1 DEF ReadRow, Outcomes
  <2>2. CASE row # NoRow
    <3>1. req[w].call \in Calls
      BY <1>7 DEF ReadRow, At, RefinementInv, Inv, CallsInOrder, InOrder
    <3>2. row \in Incident
      BY <1>2, <2>2, <3>1 DEF TypeOK, Calls, Request
    <3>3. local \in Local /\ local.pc = "apply" /\ local.call = req[w].call
      BY <1>1, <3>2 DEF Local
    <3>4. Goto(w, local)
      BY <1>7, <2>2 DEF ReadRow
    <3> HIDE DEF local
    <3> QED
      BY <3>3, <3>4
  <2> QED
    BY <2>1, <2>2
<1>8. CASE Apply(w)
  <2> DEFINE result == Mutation(req[w].call, req[w].row, req[w].at)
  <2>1. Sound(req[w].row, result)
    BY <1>8, ApplyFacts DEF Apply, RefinementInv
  <2>2. Goto(w, Decided(w, result.outcome, result.incident))
    BY <1>8 DEF Apply
  <2> HIDE DEF result
  <2>3. result.outcome \in Outcomes /\ result.incident \in Incident \cup {NoRow}
    BY <2>1 DEF Sound, Refusals, Outcomes
  <2> QED
    BY <1>3, <2>2, <2>3
<1>9. CASE StorageFails(w)
  BY <1>3, <1>9 DEF StorageFails, Outcomes
<1> QED
  BY <1>4, <1>5, <1>6, <1>7, <1>8, <1>9

(* One lookup of verify_events_exist keeps the call, and answers only to       *)
(* refuse it.                                                                 *)
LEMMA LookupMove ==
  ASSUME RefinementInv, NEW w \in Workers, Lookup(w)
  PROVE  \E local :
           /\ Goto(w, local) /\ local.call = req[w].call /\ local.row = req[w].row
           /\ local.pc \in {"verify", "answer", "stamp"}
           /\ local.pc = "answer" => local.outcome = "unknown_ids"
<1>1. DOMAIN req[w] = DOMAIN Idle
  BY DEF RefinementInv, Inv, TypeOK, Local, Idle
<1>2. PICK e \in req[w].unchecked :
        LET left    == req[w].unchecked \ {e}
            verdict == IF e \in events THEN req[w].outcome ELSE "unknown_ids"
        IN Goto(w, [req[w] EXCEPT
                      !.unchecked = left,
                      !.outcome = verdict,
                      !.pc = CASE left # {} -> "verify"
                               [] left = {} /\ verdict = "unknown_ids" -> "answer"
                               [] left = {} /\ verdict # "unknown_ids" -> "stamp"])
  BY DEF Lookup
<1> DEFINE left    == req[w].unchecked \ {e}
           verdict == IF e \in events THEN req[w].outcome ELSE "unknown_ids"
           pc      == CASE left # {} -> "verify"
                        [] left = {} /\ verdict = "unknown_ids" -> "answer"
                        [] left = {} /\ verdict # "unknown_ids" -> "stamp"
           local   == [req[w] EXCEPT !.unchecked = left, !.outcome = verdict, !.pc = pc]
<1>3. pc \in {"verify", "answer", "stamp"} /\ (pc = "answer" => verdict = "unknown_ids")
  OBVIOUS
<1>4. Goto(w, local)
  BY <1>2
<1> HIDE DEF left, verdict, pc
<1>5. /\ local.call = req[w].call /\ local.row = req[w].row
      /\ local.pc = pc /\ local.outcome = verdict
  BY <1>1 DEF Idle
<1> HIDE DEF local
<1> QED
  BY <1>3, <1>4, <1>5

(* Serving is part of an inductive invariant. *)
LEMMA ServingStep == RefinementInv /\ [Next]_vars => RefinementInv'
<1> SUFFICES ASSUME RefinementInv, [Next]_vars PROVE \A v \in Workers : Serving(v)'
  BY NextInv DEF RefinementInv
<1> USE DEF RefinementInv
<1>1. CASE RecordEvent \/ Tick \/ UNCHANGED vars
  BY <1>1 DEF RecordEvent, Tick, vars, Serving
<1>2. CASE Crash
  BY <1>2 DEF Crash, Idle, Serving
<1>3. ASSUME NEW w \in Workers, Receive(w) PROVE \A v \in Workers : Serving(v)'
  <2>1. PICK c \in Calls :
          Goto(w, [Idle EXCEPT !.pc = IF CitesEvidence(c) THEN "verify" ELSE "stamp",
                               !.call = c,
                               !.unchecked = IF CitesEvidence(c) THEN c.ids ELSE {}])
    BY <1>3 DEF Receive
  <2> DEFINE local ==
        [Idle EXCEPT !.pc = IF CitesEvidence(c) THEN "verify" ELSE "stamp",
                     !.call = c,
                     !.unchecked = IF CitesEvidence(c) THEN c.ids ELSE {}]
  <2>2. c.ids \in SUBSET EventIds
    BY DEF Calls, Request, Evidence, Singletons
  <2>3. /\ local \in Local /\ local.call = c /\ local.row = NoRow
        /\ local.pc = IF CitesEvidence(c) THEN "verify" ELSE "stamp"
    BY <2>2, IdleTyped DEF Local, Idle
  <2> HIDE DEF local
  <2>4. Goto(w, local)
    BY <2>1 DEF local
  <2> QED
    BY <2>3, <2>4, ServingKept DEF Inv
<1>4. ASSUME NEW w \in Workers, Lookup(w) PROVE \A v \in Workers : Serving(v)'
  <2>1. PICK local :
          /\ Goto(w, local) /\ local.call = req[w].call /\ local.row = req[w].row
          /\ local.pc \in {"verify", "answer", "stamp"}
    BY <1>4, LookupMove
  <2>2. Serving(w) /\ req[w].pc = "verify"
    BY <1>4 DEF Lookup, At
  <2>3. /\ req'[w] = local
        /\ \A v \in Workers : v # w => req'[v] = req[v]
    BY <2>1 DEF Goto, Inv, TypeOK
  <2> QED
    BY <2>1, <2>2, <2>3 DEF Serving
<1>5. ASSUME NEW w \in Workers,
             \/ Stamp(w) \/ Acquire(w) \/ Insert(w) \/ ReadRow(w) \/ Apply(w)
             \/ StorageFails(w)
      PROVE  \A v \in Workers : Serving(v)'
  BY <1>5, StepLocals, ServingKept DEF Inv
<1>6. ASSUME NEW w \in Workers, Respond(w) PROVE \A v \in Workers : Serving(v)'
  <2>1. Idle \in Local /\ Idle.pc = "idle" /\ Idle.call = NoCall
    BY IdleTyped DEF Idle
  <2> QED
    BY <1>6, <2>1, ServingKept DEF Inv, Respond
<1> QED
  BY <1>1, <1>2, <1>3, <1>4, <1>5, <1>6 DEF Next, Progress

-----------------------------------------------------------------------------
(* The register's copy of the incident model counts cited events alike. *)
LEMMA SameEvidence ==
  ASSUME NEW ids
  PROVE  Contract!IsEvidence(ids) = IsEvidence(ids)
<1>1. Contract!Cardinality(ids) = Cardinality(ids)
  BY DEF Contract!Cardinality, Cardinality
<1> QED
  BY <1>1, Zenon DEF Contract!IsEvidence, IsEvidence

(* The register's definitions of the incident's operations are the store's.   *)
LEMMA SameOperations ==
  /\ Contract!Calls = Calls
  /\ \A c : Contract!CitesEvidence(c) = CitesEvidence(c)
  /\ \A ids, at : Contract!Declare(ids, at) = Declare(ids, at)
  /\ \A why, inc : Contract!Refused(why, inc) = [outcome |-> why, incident |-> inc]
  /\ \A inc : Contract!Returned(inc) = [outcome |-> "ok", incident |-> inc]
<1>1. Contract!Calls = Calls
  <2>1. Contract!Evidence = Evidence
    BY SameEvidence, Zenon DEF Contract!Evidence, Evidence
  <2>2. /\ Contract!Singletons = Singletons
        /\ Contract!AnyNote = AnyNote
        /\ Contract!Status = Status
    BY DEF Contract!Singletons, Singletons, Contract!AnyNote, AnyNote,
       Contract!Status, Status, Contract!Active, Active, Contract!Terminal, Terminal
  <2> QED
    BY <2>1, <2>2, Zenon DEF Contract!Calls, Calls, Contract!Request, Request
<1>2. \A c : Contract!CitesEvidence(c) = CitesEvidence(c)
  BY DEF Contract!CitesEvidence, CitesEvidence
<1>3. \A ids, at : Contract!Declare(ids, at) = Declare(ids, at)
  BY DEF Contract!Declare, Declare
<1> QED
  BY <1>1, <1>2, <1>3 DEF Contract!Refused, Contract!Returned

(* ... the transformation of a record included. *)
LEMMA SameMutation ==
  ASSUME NEW c, NEW inc, NEW at
  PROVE  Contract!Mutation(c, inc, at) = Mutation(c, inc, at)
<1> USE DEF Contract!Refused, Refused, Contract!Returned, Returned,
    Contract!Backwards, Backwards, Contract!Frozen, Frozen,
    Contract!Active, Active, Contract!Terminal, Terminal
<1>1. \A new : Contract!Evolve(inc, new) = Evolve(inc, new)
  BY SameEvidence, Zenon
     DEF Contract!Evolve, Evolve, Contract!Consistent, Consistent
<1>2. Contract!LinkEvents(inc, c.ids, at) = LinkEvents(inc, c.ids, at)
  <2>1. Contract!Cardinality(inc.event_ids \cup c.ids) = Cardinality(inc.event_ids \cup c.ids)
    BY DEF Contract!Cardinality, Cardinality
  <2> QED
    BY <1>1, <2>1, Zenon DEF Contract!LinkEvents, LinkEvents
<1>3. Contract!UnlinkEvents(inc, c.ids, at) = UnlinkEvents(inc, c.ids, at)
  BY <1>1 DEF Contract!UnlinkEvents, UnlinkEvents
<1>4. Contract!Moved(inc, c.target, at, c.note) = Moved(inc, c.target, at, c.note)
  BY DEF Contract!Moved, Moved, Contract!ResolutionAfter, ResolutionAfter,
     Contract!NoteAfter, NoteAfter
<1>5. Contract!TransitionTo(inc, c.target, at, c.note) = TransitionTo(inc, c.target, at, c.note)
  BY <1>1, <1>4 DEF Contract!TransitionTo, TransitionTo, Contract!CanTransition,
     CanTransition, Contract!AllowedTransitions, AllowedTransitions
<1> QED
  BY <1>2, <1>3, <1>5 DEF Contract!Mutation, Mutation

(* The result of an operation is an outcome and an incident, nothing else. *)
LEMMA MutationShape ==
  ASSUME NEW c \in Calls, c.op # "declare", NEW inc, NEW at
  PROVE  Mutation(c, inc, at) =
           [outcome |-> Mutation(c, inc, at).outcome,
            incident |-> Mutation(c, inc, at).incident]
<1> USE DEF Refused, Returned
<1>1. ASSUME NEW old, NEW new
      PROVE  Evolve(old, new) = [outcome |-> Evolve(old, new).outcome,
                                 incident |-> Evolve(old, new).incident]
  BY DEF Evolve
<1>2. LinkEvents(inc, c.ids, at) =
        [outcome |-> LinkEvents(inc, c.ids, at).outcome,
         incident |-> LinkEvents(inc, c.ids, at).incident]
  BY <1>1 DEF LinkEvents
<1>3. UnlinkEvents(inc, c.ids, at) =
        [outcome |-> UnlinkEvents(inc, c.ids, at).outcome,
         incident |-> UnlinkEvents(inc, c.ids, at).incident]
  BY <1>1 DEF UnlinkEvents
<1>4. TransitionTo(inc, c.target, at, c.note) =
        [outcome |-> TransitionTo(inc, c.target, at, c.note).outcome,
         incident |-> TransitionTo(inc, c.target, at, c.note).incident]
  BY <1>1 DEF TransitionTo
<1>5. c.op \in {"link", "unlink", "resolve", "transition"}
  BY DEF Calls, Request
<1> QED
  BY <1>2, <1>3, <1>4, <1>5 DEF Mutation

-----------------------------------------------------------------------------
(* What a worker has been asked and what it has decided to answer. *)
Asked == [w \in Workers |-> req[w].call]
Given(local) ==
  IF local.pc = "answer"
    THEN [outcome |-> local.outcome, incident |-> local.row] ELSE NoAnswer
Answered == [w \in Workers |-> Given(req[w])]

(* A worker's move changes its own question and answer only. *)
LEMMA TalkMoved ==
  ASSUME TypeOK, NEW w \in Workers, NEW local, Goto(w, local)
  PROVE  /\ Asked' = [Asked EXCEPT ![w] = local.call]
         /\ Answered' = [Answered EXCEPT ![w] = Given(local)]
<1>1. /\ req'[w] = local
      /\ \A v \in Workers : v # w => req'[v] = req[v]
  BY DEF TypeOK, Goto
<1> QED
  BY <1>1 DEF Asked, Answered, Given

(* A worker past "idle" and before "answer" is one the register has not       *)
(* served; one at "answer" has an answer.                                     *)
LEMMA TalkFacts ==
  ASSUME RefinementInv, NEW w \in Workers
  PROVE  /\ Asked[w] = req[w].call
         /\ req[w].pc = "idle" => Asked[w] = NoCall
         /\ req[w].pc # "idle" => Asked[w] # NoCall /\ Asked[w] \in Calls
         /\ req[w].pc # "answer" => Answered[w] = NoAnswer
         /\ req[w].pc = "answer" => Answered[w] # NoAnswer
<1>1. req[w] \in Local
  BY DEF RefinementInv, Inv, TypeOK
<1>2. [outcome |-> req[w].outcome, incident |-> req[w].row]
        \in [outcome : Outcomes, incident : Incident \cup {NoRow}]
  BY <1>1 DEF Local
<1>3. req[w].pc # "idle" => req[w].call \in Calls
  BY DEF RefinementInv, Inv, CallsInOrder, InOrder
<1>4. req[w].pc = "idle" => req[w].call = NoCall
  BY DEF RefinementInv, Serving
<1> QED
  BY <1>2, <1>3, <1>4, PlaceholdersAssumption DEF Asked, Answered, Given

(* A call answered without a write is one the register rejects. *)
LEMMA RejectMaps ==
  ASSUME RefinementInv, NEW w \in Workers, req[w].pc \notin {"idle", "answer"},
         NEW why, NEW local, Goto(w, local),
         local.call = req[w].call, Given(local) = [outcome |-> why, incident |-> NoRow],
         UNCHANGED <<rows, events>>,
         \/ why = "storage_error"
         \/ why = "unknown_ids" /\ CitesEvidence(req[w].call)
         \/ /\ why = "missing" /\ req[w].call.op # "declare"
            /\ rows[req[w].call.incident] = NoRow
         \/ /\ why = "duplicate" /\ req[w].call.op = "declare"
            /\ rows[req[w].call.incident] # NoRow
  PROVE  Contract!Next
<1>1. /\ Asked' = [Asked EXCEPT ![w] = req[w].call]
      /\ Answered' = [Answered EXCEPT ![w] = Contract!Refused(why, NoRow)]
  BY TalkMoved, SameOperations DEF RefinementInv, Inv
<1>2. Asked' = Asked
  BY <1>1 DEF Asked
<1>3. Contract!Unserved(w)
  BY TalkFacts DEF Contract!Unserved, Asked, Answered, Given
<1>4. Asked[w] = req[w].call
  BY DEF Asked
<1>5. Contract!Reject(w)
  BY <1>1, <1>2, <1>3, <1>4, SameOperations
     DEF Contract!Reject, Contract!Answer, Asked, Answered, Given
<1> QED
  BY <1>5 DEF Contract!Next

(* Inserting an accepted declaration is the register's Open. *)
LEMMA InsertMaps ==
  ASSUME RefinementInv, NEW w \in Workers, Insert(w) PROVE Contract!Next
<1> DEFINE c == req[w].call
           i == c.incident
<1>1. /\ req[w].pc = "locked" /\ c.op = "declare" /\ c \in Calls
      /\ req[w].row = Declare(c.ids, req[w].at) /\ c.ids \subseteq events
      /\ req[w].at \in Times /\ req[w].row \in Incident \cup {NoRow}
  BY DEF RefinementInv, Inv, TypeOK, Local, CallsInOrder, InOrder, CitesEvidence,
     Insert, At
<1>2. ASSUME NEW why \in Outcomes, NEW row \in Incident \cup {NoRow}
      PROVE  /\ Decided(w, why, row).call = c
             /\ Given(Decided(w, why, row)) = [outcome |-> why, incident |-> row]
  <2>1. DOMAIN req[w] = DOMAIN Idle
    BY DEF RefinementInv, Inv, TypeOK, Local, Idle
  <2> QED
    BY <2>1 DEF Decided, Given, Idle
<1>3. CASE IdTaken(i)
  <2>1. /\ Goto(w, Decided(w, "duplicate", NoRow)) /\ UNCHANGED <<rows, events>>
    BY <1>3 DEF Insert
  <2> QED
    BY <1>1, <1>2, <1>3, <2>1, RejectMaps DEF IdTaken, Outcomes
<1>4. CASE ~IdTaken(i)
  <2>1. /\ Goto(w, Decided(w, "ok", req[w].row))
        /\ rows' = [rows EXCEPT ![i] = req[w].row]
        /\ events' = events /\ rows[i] = NoRow
    BY <1>4 DEF Insert, IdTaken
  <2>2. /\ Asked' = [Asked EXCEPT ![w] = c]
        /\ Answered' = [Answered EXCEPT ![w] = Contract!Returned(req[w].row)]
    BY <1>1, <1>2, <2>1, TalkMoved, SameOperations DEF RefinementInv, Inv, Outcomes
  <2>3. Asked' = Asked /\ Asked[w] = c
    BY <2>2 DEF Asked
  <2>4. Contract!Unserved(w)
    BY <1>1, TalkFacts DEF Contract!Unserved, Asked, Answered, Given
  <2>5. req[w].row = Contract!Declare(c.ids, req[w].at)
    BY <1>1, SameOperations
  <2> HIDE DEF c, i
  <2>6. Contract!Open(w)
    BY <1>1, <2>1, <2>2, <2>3, <2>4, <2>5, ZenonT(30)
       DEF Contract!Open, Contract!Answer, Asked, Answered, Given, i
  <2> QED
    BY <2>6 DEF Contract!Next
<1> QED
  BY <1>3, <1>4

(* The UPDATE of IncidentStore.mutate, or its mutator's refusal, is the       *)
(* register's Change.                                                         *)
LEMMA ApplyMaps ==
  ASSUME RefinementInv, NEW w \in Workers, Apply(w) PROVE Contract!Next
<1> DEFINE c == req[w].call
           i == c.incident
           result == Mutation(c, req[w].row, req[w].at)
<1>1. /\ req[w].pc = "apply" /\ c \in Calls /\ c.op # "declare" /\ i \in Incidents
      /\ req[w].row = rows[i] /\ rows[i] # NoRow
      /\ Sound(rows[i], result) /\ req[w].at \in Times
      /\ c.op = "link" => c.ids \subseteq events
  BY ApplyFacts DEF RefinementInv, Inv, TypeOK, Local, CallsInOrder, InOrder,
     CitesEvidence, Apply, At
<1>2. /\ Goto(w, Decided(w, result.outcome, result.incident))
      /\ rows' = IF result.outcome = "ok"
                   THEN [rows EXCEPT ![i] = result.incident] ELSE rows
      /\ events' = events
  BY DEF Apply
<1>3. result = Contract!Mutation(c, rows[i], req[w].at)
  BY <1>1, SameMutation
<1>4. result = [outcome |-> result.outcome, incident |-> result.incident]
  BY <1>1, MutationShape
<1> HIDE DEF c, i, result
<1>5. rows' = [rows EXCEPT ![i] = result.incident]
  <2>1. rows = [j \in Incidents |-> rows[j]]
    BY DEF RefinementInv, Inv, TypeOK
  <2>2. result.outcome # "ok" => result.incident = rows[i]
    BY <1>1 DEF Sound
  <2> QED
    BY <1>2, <2>1, <2>2
<1>6. /\ Decided(w, result.outcome, result.incident).call = c
      /\ Given(Decided(w, result.outcome, result.incident)) = result
  <2>1. DOMAIN req[w] = DOMAIN Idle
    BY DEF RefinementInv, Inv, TypeOK, Local, Idle
  <2> QED
    BY <1>4, <2>1 DEF Decided, Given, Idle, c
<1>7. /\ Asked' = [Asked EXCEPT ![w] = c]
      /\ Answered' = [Answered EXCEPT ![w] = result]
  BY <1>2, <1>6, TalkMoved DEF RefinementInv, Inv
<1>8. Asked' = Asked /\ Asked[w] = c
  BY <1>7 DEF Asked, c
<1>9. Contract!Unserved(w)
  BY <1>1, TalkFacts DEF Contract!Unserved, Asked, Answered, Given
<1>10. Contract!Change(w)
  BY <1>1, <1>2, <1>3, <1>5, <1>7, <1>8, <1>9
     DEF Contract!Change, Contract!Answer, Asked, Answered, Given, i
<1> QED
  BY <1>10 DEF Contract!Next

(* Every step of the threaded store is a step of the register or leaves it    *)
(* alone.                                                                     *)
LEMMA StepMaps == RefinementInv /\ [Next]_vars => [Contract!Next]_(Contract!regVars)
<1> SUFFICES ASSUME RefinementInv, [Next]_vars
             PROVE  Contract!Next \/ UNCHANGED <<rows, events, Asked, Answered>>
  BY DEF Contract!regVars, Asked, Answered, Given
<1>1. CASE RecordEvent
  <2>1. UNCHANGED <<Asked, Answered, rows>>
    BY <1>1 DEF RecordEvent, Asked, Answered
  <2>2. Contract!RecordEvent
    BY <1>1, <2>1 DEF RecordEvent, Contract!RecordEvent, Asked, Answered, Given
  <2> QED
    BY <2>2 DEF Contract!Next
<1>2. CASE Tick \/ UNCHANGED vars
  BY <1>2 DEF Tick, vars, Asked, Answered
<1>3. CASE Crash
  <2>1. Contract!Crash
    BY <1>3 DEF Crash, Idle, Contract!Crash
  <2> QED
    BY <2>1 DEF Contract!Next
<1>4. ASSUME NEW w \in Workers, Receive(w) PROVE Contract!Next
  <2>0. PICK c \in Calls :
          \E local : /\ Goto(w, local) /\ local.call = c /\ local.pc \in {"verify", "stamp"}
                    /\ UNCHANGED <<rows, events>> /\ req[w].pc = "idle"
    BY <1>4 DEF Receive, Idle, At
  <2>1. PICK local :
          /\ Goto(w, local) /\ local.call = c /\ local.pc \in {"verify", "stamp"}
          /\ UNCHANGED <<rows, events>> /\ req[w].pc = "idle"
    BY <2>0
  <2>2. /\ Asked' = [Asked EXCEPT ![w] = c]
        /\ Answered' = [Answered EXCEPT ![w] = NoAnswer]
    BY <2>1, TalkMoved DEF RefinementInv, Inv, Given
  <2>3. Answered[w] = NoAnswer /\ Asked[w] = NoCall
    BY <2>1, TalkFacts
  <2>4. Answered' = Answered
    BY <2>2, <2>3 DEF Answered
  <2>5. Contract!Ask(w)
    BY <2>1, <2>2, <2>3, <2>4, SameOperations
       DEF Contract!Ask, Asked, Answered, Given
  <2> QED
    BY <2>5 DEF Contract!Next
<1>5. ASSUME NEW w \in Workers, NEW local, Goto(w, local),
             local.call = req[w].call, local.pc # "answer", req[w].pc # "answer",
             UNCHANGED <<rows, events>>
      PROVE  UNCHANGED <<rows, events, Asked, Answered>>
  <2>1. /\ Asked' = [Asked EXCEPT ![w] = req[w].call]
        /\ Answered' = [Answered EXCEPT ![w] = NoAnswer]
    BY <1>5, TalkMoved DEF RefinementInv, Inv, Given
  <2>2. Answered[w] = NoAnswer
    BY <1>5, TalkFacts
  <2> QED
    BY <1>5, <2>1, <2>2 DEF Asked, Answered
<1>6. ASSUME NEW w \in Workers, Lookup(w)
      PROVE  Contract!Next \/ UNCHANGED <<rows, events, Asked, Answered>>
  <2>1. PICK local :
          /\ Goto(w, local) /\ local.call = req[w].call /\ local.row = req[w].row
          /\ local.pc \in {"verify", "answer", "stamp"}
          /\ local.pc = "answer" => local.outcome = "unknown_ids"
    BY <1>6, LookupMove
  <2>2. /\ req[w].pc = "verify" /\ UNCHANGED <<rows, events>>
        /\ CitesEvidence(req[w].call) /\ req[w].row = NoRow
    BY <1>6 DEF Lookup, At, RefinementInv, Serving
  <2>3. CASE local.pc = "answer"
    <3>1. Given(local) = [outcome |-> "unknown_ids", incident |-> NoRow]
      BY <2>1, <2>2, <2>3 DEF Given
    <3> QED
      BY <2>1, <2>2, <3>1, RejectMaps
  <2> QED
    BY <1>5, <2>1, <2>2, <2>3
<1>7. ASSUME NEW w \in Workers, Stamp(w) \/ Acquire(w)
      PROVE  UNCHANGED <<rows, events, Asked, Answered>>
  <2>1. PICK local : /\ Goto(w, local) /\ local.call = req[w].call
                     /\ local.pc # "answer"
    <3>1. DOMAIN req[w] = DOMAIN Idle
      BY DEF RefinementInv, Inv, TypeOK, Local, Idle
    <3>2. CASE Stamp(w)
      <4>1. PICK row :
              Goto(w, [req[w] EXCEPT !.pc = "wait", !.at = clock, !.row = row])
        BY <3>2 DEF Stamp
      <4> DEFINE local == [req[w] EXCEPT !.pc = "wait", !.at = clock, !.row = row]
      <4>2. local.call = req[w].call /\ local.pc # "answer"
        BY <3>1 DEF Idle
      <4> HIDE DEF local
      <4> QED
        BY <4>1, <4>2 DEF local
    <3>3. CASE Acquire(w)
      BY <3>1, <3>3 DEF Acquire, Idle
    <3> QED
      BY <1>7, <3>2, <3>3
  <2> QED
    BY <1>5, <1>7, <2>1 DEF Stamp, Acquire, At
<1>8. ASSUME NEW w \in Workers, Insert(w) PROVE Contract!Next
  BY <1>8, InsertMaps
<1>9. ASSUME NEW w \in Workers, ReadRow(w)
      PROVE  Contract!Next \/ UNCHANGED <<rows, events, Asked, Answered>>
  <2>1. DOMAIN req[w] = DOMAIN Idle
    BY DEF RefinementInv, Inv, TypeOK, Local, Idle
  <2> DEFINE row == rows[req[w].call.incident]
  <2>2. CASE row = NoRow
    <3>1. /\ Decided(w, "missing", NoRow).call = req[w].call
          /\ Given(Decided(w, "missing", NoRow))
               = [outcome |-> "missing", incident |-> NoRow]
      BY <2>1 DEF Decided, Given, Idle
    <3>2. Goto(w, Decided(w, "missing", NoRow))
      BY <1>9, <2>2 DEF ReadRow
    <3> QED
      BY <1>9, <2>2, <3>1, <3>2, RejectMaps DEF ReadRow, At
  <2>3. CASE row # NoRow
    <3> DEFINE local == [req[w] EXCEPT !.pc = "apply", !.row = row]
    <3>1. local.pc = "apply" /\ local.call = req[w].call
      BY <2>1 DEF Idle
    <3>2. Goto(w, local)
      BY <1>9, <2>3 DEF ReadRow
    <3> HIDE DEF local
    <3> QED
      BY <1>5, <1>9, <3>1, <3>2 DEF ReadRow, At
  <2> QED
    BY <2>2, <2>3
<1>10. ASSUME NEW w \in Workers, Apply(w) PROVE Contract!Next
  BY <1>10, ApplyMaps
<1>11. ASSUME NEW w \in Workers, StorageFails(w) PROVE Contract!Next
  <2>1. DOMAIN req[w] = DOMAIN Idle
    BY DEF RefinementInv, Inv, TypeOK, Local, Idle
  <2>2. /\ Decided(w, "storage_error", NoRow).call = req[w].call
        /\ Given(Decided(w, "storage_error", NoRow))
             = [outcome |-> "storage_error", incident |-> NoRow]
    BY <2>1 DEF Decided, Given, Idle
  <2> QED
    BY <1>11, <2>2, RejectMaps DEF StorageFails
<1>12. ASSUME NEW w \in Workers, Respond(w) PROVE Contract!Next
  <2>1. /\ Goto(w, Idle) /\ req[w].pc = "answer" /\ UNCHANGED <<rows, events>>
        /\ Idle.pc = "idle" /\ Idle.call = NoCall
    BY <1>12 DEF Respond, At, Idle
  <2>2. /\ Asked' = [Asked EXCEPT ![w] = NoCall]
        /\ Answered' = [Answered EXCEPT ![w] = NoAnswer]
    BY <2>1, TalkMoved DEF RefinementInv, Inv, Given
  <2>3. Contract!Reply(w)
    BY <2>1, <2>2, TalkFacts DEF Contract!Reply, Asked, Answered, Given
  <2> QED
    BY <2>3 DEF Contract!Next
<1> QED
  BY <1>1, <1>2, <1>3, <1>4, <1>6, <1>7, <1>8, <1>9, <1>10, <1>11, <1>12
     DEF Next, Progress

(* The threaded store is an atomic register of incidents: an accepted call    *)
(* takes effect at one step on the record as it then stands, a refused one    *)
(* leaves no trace, a restart never leaves a half-made change.                *)
THEOREM StoreRefinesRegister == Spec => ImplementsRegister
<1>1. Init => RefinementInv
  BY InitInv DEF Init, Idle, RefinementInv, Serving
<1>2. Init => Contract!Init
  BY DEF Init, Idle, Contract!Init
<1> QED
  BY <1>1, <1>2, ServingStep, StepMaps, PTL
     DEF Spec, ImplementsRegister, Contract!Spec
=============================================================================
