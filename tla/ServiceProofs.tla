------------------------------ MODULE ServiceProofs -----------------------------
(*****************************************************************************)
(* The running service's safety, for any events, incidents, settings,        *)
(* requests, selections, page size and number of restarts, and for every     *)
(* interleaving of the gate, a page, a walk and the tool (TLC explores those *)
(* that PagesMeetWrites of MCService keeps apart only separately).  The      *)
(* inductive invariant is built in layers, each resting on the ones above:   *)
(*                                                                           *)
(*   StartInOrder   where a start stands and what it has opened so far       *)
(*   StoresSound    what the tables hold, whoever writes them                *)
(*   GatePassed     what a request at each stage has been checked for        *)
(*   PageInOrder    how the readings of a page relate to the stores          *)
(*   WalkInOrder    where the rows a walk still owes stand in the listing    *)
(*****************************************************************************)
EXTENDS Service, FiniteSetTheorems, SequenceTheorems, Numbers, TLAPS

Stages == {"closed", "look", "alter", "open"}
Phases == Starting \cup {"down", "serving"}

(* A store is opened in the phase of the start that opens it, on a schema     *)
(* that is whole by then; the column is added by one of the processes, and at *)
(* most the other one is refused for it.                                      *)
StartInOrder ==
  /\ schema \in {"absent", "old", "whole"}
  /\ opener \in [Processes -> Stages]
  /\ refused \in {0, 1}
  /\ schema = "absent" => \A p \in Processes : opener[p] = "closed"
  /\ schema # "whole" => refused = 0
  /\ schema = "whole" => opener["service"] # "alter" \/ opener["tool"] # "alter"
  /\ refused = 1 => \A p \in Processes : opener[p] # "alter"
  /\ \A p \in Processes : opener[p] = "open" => schema = "whole"
  /\ phase \in Phases
  /\ opener["service"] # "closed" => phase \in {"open_events", "open_incidents"}
  /\ phase \in Phases \ {"down", "configure", "open_events"} => schema = "whole"
  /\ published \in BOOLEAN /\ (published <=> Serving)
  /\ phase \in {"down", "configure", "open_events"} => opened = {}
  /\ phase = "open_incidents" => opened = {"event_store"}
  /\ phase \in Phases \ {"down", "configure", "open_events", "open_incidents"} =>
       opened = {"event_store", "incident_store"}
  /\ settings \in SettingsChoices \cup {NoSettings}
  /\ phase \in {"seed", "seed_incident"} => settings.demo
  /\ stops \in 0..MaxStops
  /\ ~Drained => Serving

(* Rows cite stored events; a demo reaches service only with events stored; a *)
(* declaration under way is of an incident that has no row yet.               *)
StoresSound ==
  /\ events \subseteq AllEvents
  /\ incidents \in [IncidentIds -> RowOf \cup {NoRow}]
  /\ \A i \in Tracked(incidents) : incidents[i].cites \subseteq events
  /\ phase = "seed_incident" => DemoEvidence \in events
  /\ phase \in {"publish", "serving"} /\ settings.demo => events # {}
  /\ request # NoRequest /\ request.stage # "answered" /\ request.r.route = "declare" =>
       incidents[request.r.incident] = NoRow

Statuses == {0, 200, 201, 202, 400, 401, 403, 404, 409, 413, 422, 500}

(* A request past the signature check was signed as it claims. *)
AsSigned(q) ==
  /\ q.r.signature = ComputeSignature(q.r.event, q.r.stamp)
  /\ q.r.stamp \in 0..MaxTime
  /\ Distance(q.judged, q.r.stamp) <= Tolerance

Passed(q) ==
  /\ DOMAIN q = {"r", "stage", "received", "judged", "status"}
  /\ q.r \in Requests
  /\ q.stage \in {"receive", "handle", "store", "answered"}
  /\ q.status \in Statuses
  /\ q.received \in Nat /\ q.received <= Limit + MaxChunk
  /\ q.stage # "answered" => q.status = 0 /\ q.received <= Limit /\ ~IsReadOnly
  /\ q.status \in {200, 201, 202} => q.received <= Limit
  /\ q.stage = "store" => q.r.wellFormed
  /\ q.r.route = "webhook" /\ (q.stage = "store" \/ q.status = 202) => AsSigned(q)
  /\ IsReadOnly => q.received = 0

GatePassed ==
  /\ clock \in 0..MaxTime
  /\ request # NoRequest => Passed(request)

Rest(holds, k) == [i \in 1..(Len(holds) - k) |-> holds[i + k]]

(* What a later reading of the same table may differ by from an earlier one.  *)
Covers(s, later, r, earlier) ==
  /\ r \in FromEvents /\ s \in FromEvents => earlier \subseteq later
  /\ r \in FromIncidents /\ s \in FromIncidents => Tracked(earlier) \subseteq Tracked(later)
  /\ r \in FromIncidents /\ s \in FromEvents =>
       \A i \in Tracked(earlier) : earlier[i].cites \subseteq later

Precedes(holds, r, s) ==
  \E i, j \in DOMAIN holds : i <= j /\ r \in holds[i] /\ s \in holds[j]

(* The first k holds have been read, each reading is covered by those after   *)
(* it ...                                                                     *)
ReadInOrder(holds, page) ==
  /\ DOMAIN page = {"name", "todo", "got"}
  /\ \E k \in 0..Len(holds) :
       page.todo = Rest(holds, k) /\ DOMAIN page.got = UNION {holds[i] : i \in 1..k}
  /\ \A r, s \in DOMAIN page.got :
       Precedes(holds, r, s) => Covers(s, page.got[s], r, page.got[r])

(* ... and by what the stores hold now. *)
ReadBefore(page) ==
  \A r \in DOMAIN page.got :
    /\ Covers("incidents", incidents, r, page.got[r])
    /\ Covers("history", events, r, page.got[r])

PageInOrder ==
  Assembling =>
    /\ view.name \in DOMAIN Holds
    /\ ReadInOrder(Holds[view.name], view)
    /\ ReadBefore(view)

(* The rows a walk still owes stand past the ones it has been through, and a   *)
(* row that is added only moves others further down.                          *)
RankIn(order, rows, r) == Cardinality({q \in rows : Listed(order, q, r)})
OrderOf(w) == IF w.list = "incidents" THEN IncidentOrder ELSE EventOrder

Owing(w, rows) ==
  /\ DOMAIN w = {"list", "selection", "due", "offset", "last"}
  /\ w.list \in {"events", "incidents"}
  /\ w.offset \in Nat
  /\ w.due \subseteq rows
  /\ \A r \in w.due : w.offset < RankIn(OrderOf(w), rows, r)
  /\ w.last => w.due = {}

WalkInOrder == walk # NoWalk => Owing(walk, Rows(walk))

Inv == StartInOrder /\ StoresSound /\ GatePassed /\ PageInOrder /\ WalkInOrder

-----------------------------------------------------------------------------
(* Before anything runs the start has opened nothing. *)
LEMMA StartInit == Init => StartInOrder
<1> SUFFICES ASSUME Init PROVE StartInOrder
  OBVIOUS
<1> USE LifespanAssumption DEF Init, LifespanInit, MigrationInit, GateInit, ViewInit,
        Stages, Phases, Starting, Serving, Drained, Assembling
<1>1. published \in BOOLEAN /\ (published <=> Serving)
  OBVIOUS
<1>2. opener \in [Processes -> Stages] /\ \A p \in Processes : opener[p] = "closed"
  OBVIOUS
<1> QED
  BY <1>1, <1>2 DEF StartInOrder, Processes

(* A step of the lifespan that is taken while no request is served. *)
LEMMA StartKeepsDrained ==
  ASSUME StartInOrder, ~Serving \/ Drained, UNCHANGED <<gateVars, view>>
  PROVE  Drained'
BY DEF StartInOrder, Drained, Assembling, gateVars

(* Bringing the schema up to date, by either process. *)
LEMMA SchemaStep ==
  ASSUME StartInOrder, NEW p \in Processes, CreateSchema(p) \/ ColumnTaken(p)
  PROVE  /\ schema' \in {"absent", "old", "whole"}
         /\ opener' \in [Processes -> Stages]
         /\ \A q \in Processes : q # p => opener'[q] = opener[q]
         /\ refused' \in {0, 1}
         /\ schema' = "absent" => \A q \in Processes : opener'[q] = "closed"
         /\ schema' # "whole" => refused' = 0
         /\ schema' = "whole" => opener'["service"] # "alter" \/ opener'["tool"] # "alter"
         /\ refused' = 1 => \A q \in Processes : opener'[q] # "alter"
         /\ \A q \in Processes : opener'[q] = "open" => schema' = "whole"
         /\ schema = "whole" => schema' = "whole"
<1> USE DEF StartInOrder, Stages, Processes
<1>1. CASE RunScript(p)
  BY <1>1 DEF RunScript, Proceed
<1>2. CASE Look(p)
  BY <1>2 DEF Look, Proceed, ColumnPresent
<1>3. CASE AddColumn(p)
  BY <1>3 DEF AddColumn, Proceed
<1>4. CASE ColumnTaken(p)
  BY <1>4 DEF ColumnTaken, Proceed
<1> QED
  BY <1>1, <1>2, <1>3, <1>4 DEF CreateSchema

(* A start, and every way it may end, opens what it says in the order it says. *)
LEMMA StartStep ==
  ASSUME StartInOrder, Start \/ AbandonStart \/ RefusedStart,
         UNCHANGED <<gateVars, view, walk>>
  PROVE  StartInOrder'
<1>1. ~Serving
  BY DEF StartInOrder, Start, AbandonStart, RefusedStart, ColumnTaken, Proceed,
     Launch, Configure, MigrateSchema, OpenEventStore, OpenIncidentStore, SkipSeeding,
     SeedEvents, SeedIncident, Publish, Serving, Starting, Processes
<1>2. Drained'
  BY <1>1, StartKeepsDrained
<1> USE DEF StartInOrder, Phases, Starting, Serving
<1>3. CASE Launch
  BY <1>2, <1>3 DEF Launch, migrationVars
<1>4. CASE Configure
  BY <1>2, <1>4 DEF Configure, migrationVars
<1>5. CASE MigrateSchema
  BY <1>2, <1>5, SchemaStep DEF MigrateSchema, Processes
<1>6. CASE OpenEventStore
  BY <1>2, <1>6 DEF OpenEventStore, Opened, Closed, Processes, Stages
<1>7. CASE OpenIncidentStore
  BY <1>2, <1>7 DEF OpenIncidentStore, Opened, Closed, Processes, Stages
<1>8. CASE SkipSeeding
  BY <1>2, <1>8 DEF SkipSeeding, migrationVars
<1>9. CASE SeedEvents
  BY <1>2, <1>9 DEF SeedEvents, migrationVars
<1>10. CASE SeedIncident
  BY <1>2, <1>10 DEF SeedIncident, migrationVars
<1>11. CASE Publish
  BY <1>2, <1>11 DEF Publish, migrationVars
<1>12. CASE AbandonStart
  BY <1>2, <1>12, LifespanAssumption
     DEF AbandonStart, ClosedByStack, Closed, Processes, Stages
<1>13. CASE RefusedStart
  BY <1>1, <1>2, <1>13, SchemaStep DEF RefusedStart, ClosedByStack, Processes,
     ColumnTaken, Proceed
<1> QED
  BY <1>3, <1>4, <1>5, <1>6, <1>7, <1>8, <1>9, <1>10, <1>11, <1>12, <1>13 DEF Start

(* Every step keeps the order of the start. *)
LEMMA StartNext == StartInOrder /\ [Next]_vars => StartInOrder'
<1> SUFFICES ASSUME StartInOrder, [Next]_vars PROVE StartInOrder'
  OBVIOUS
<1>1. CASE (Start \/ AbandonStart \/ RefusedStart) /\ UNCHANGED <<gateVars, view, walk>>
  BY <1>1, StartStep
<1>2. CASE Shutdown /\ Drained /\ UNCHANGED <<gateVars, view, walk>>
  <2>1. Drained'
    BY <1>2, StartKeepsDrained
  <2> USE LifespanAssumption DEF StartInOrder, Shutdown, Phases, Starting, Serving,
          ClosedByStack, migrationVars
  <2>2. published' \in BOOLEAN /\ (published <=> Serving)'
    BY <1>2
  <2>3. stops' \in 0..MaxStops /\ settings' \in SettingsChoices \cup {NoSettings}
    BY <1>2
  <2> QED
    BY <1>2, <2>1, <2>2, <2>3
<1>3. CASE Crash /\ request' = NoRequest /\ view' = NoView /\ UNCHANGED <<clock, walk>>
  <2>1. Drained'
    BY <1>3 DEF Drained, Assembling
  <2> USE LifespanAssumption DEF StartInOrder, Crash, Phases, Starting, Serving,
          Closed, Processes, Stages
  <2>2. published' \in BOOLEAN /\ (published <=> Serving)'
    BY <1>3
  <2>3. stops' \in 0..MaxStops /\ settings' \in SettingsChoices \cup {NoSettings}
    BY <1>3
  <2> QED
    BY <1>3, <2>1, <2>2, <2>3
<1>4. ASSUME UNCHANGED <<phase, settings, opened, published, stops, migrationVars>>,
             ~Drained' => Serving
      PROVE  StartInOrder'
  BY <1>4 DEF StartInOrder, Serving, migrationVars
<1>5. CASE Pass /\ UNCHANGED <<lifespanVars, view, walk>>
  <2>1. request' # NoRequest => Serving
    BY <1>5 DEF Pass, Admit, Refuse, ReceiveChunk, ReceiveLast, Overflow, Disconnect,
       RejectUnauthentic, RejectMalformed, Accept, Respond, Tick, At, StartInOrder, Drained
  <2> QED
    BY <1>4, <1>5, <2>1 DEF lifespanVars, migrationVars, StartInOrder, Drained, Assembling
<1>6. CASE Store /\ UNCHANGED <<phase, settings, opened, published, stops, migrationVars, view, walk>>
  <2>1. Serving
    BY <1>6 DEF Store, StoreEvent, StoreIncident, StoreRefuses, StoreFails, At,
       StartInOrder, Drained
  <2> QED
    BY <1>4, <1>6, <2>1
<1>7. CASE View /\ UNCHANGED <<lifespanVars, gateVars, walk>>
  <2>1. Serving
    BY <1>7 DEF View, Open, Read, Deliver, Complete, StartInOrder, Drained
  <2> QED
    BY <1>4, <1>7, <2>1 DEF lifespanVars
<1>8. CASE Walk /\ UNCHANGED <<lifespanVars, gateVars, view>>
  BY <1>4, <1>8 DEF lifespanVars, gateVars, StartInOrder, Drained, Assembling
<1>9. CASE /\ Tool
           /\ UNCHANGED <<events, incidents, phase, settings, opened, published, stops>>
           /\ UNCHANGED <<gateVars, view, walk>>
  <2>1. ~Drained' => Serving
    BY <1>9 DEF StartInOrder, Drained, Assembling, gateVars
  <2>2. CASE CreateSchema("tool") \/ ColumnTaken("tool")
    BY <1>9, <2>1, <2>2, SchemaStep DEF StartInOrder, Serving, Processes
  <2>3. CASE CloseTool
    BY <1>9, <2>1, <2>3 DEF CloseTool, StartInOrder, Serving, Processes, Stages
  <2> QED
    BY <1>9, <2>2, <2>3 DEF Tool
<1>10. CASE UNCHANGED vars
  BY <1>4, <1>10 DEF vars, lifespanVars, gateVars, StartInOrder, Drained, Assembling
<1> QED
  BY <1>1, <1>2, <1>3, <1>5, <1>6, <1>7, <1>8, <1>9, <1>10 DEF Next

-----------------------------------------------------------------------------
(* The fields of a request after some of them are replaced. *)
LEMMA RequestFields ==
  ASSUME NEW q, DOMAIN q = {"r", "stage", "received", "judged", "status"},
         NEW stage, NEW status, NEW received, NEW judged
  PROVE  LET new == [q EXCEPT !.stage = stage, !.status = status,
                              !.received = received, !.judged = judged] IN
         /\ DOMAIN new = DOMAIN q
         /\ new.r = q.r /\ new.stage = stage /\ new.status = status
         /\ new.received = received /\ new.judged = judged
OBVIOUS

(* Every request the middleware lets in or turns away begins checked. *)
LEMMA AdmitStep ==
  ASSUME GatePassed, NEW r \in Requests, Admit(r) \/ Refuse(r),
         UNCHANGED lifespanVars
  PROVE  GatePassed'
<1> USE GateAssumption DEF GatePassed, Passed, Served, Statuses, lifespanVars
<1>1. IsReadOnly' = IsReadOnly
  BY DEF IsReadOnly
<1>2. CASE Admit(r)
  <2>1. ~IsReadOnly
    BY <1>2 DEF Admit, Refusal
  <2> QED
    BY <1>1, <1>2, <2>1 DEF Admit
<1>3. CASE Refuse(r)
  <2>1. Refusal(r) \in {403, 404, 413}
    BY <1>3 DEF Refuse, Refusal
  <2> QED
    BY <1>1, <1>3, <2>1 DEF Refuse
<1> QED
  BY <1>2, <1>3

(* Receipt counts what has come, and lets no more than the bound to handling. *)
LEMMA ReceiveStep ==
  ASSUME GatePassed, NEW n \in 0..MaxChunk,
         ReceiveChunk(n) \/ ReceiveLast(n) \/ Overflow(n),
         UNCHANGED lifespanVars
  PROVE  GatePassed'
<1>1. IsReadOnly' = IsReadOnly
  BY DEF IsReadOnly, lifespanVars
<1>2. /\ request # NoRequest /\ Passed(request) /\ request.stage = "receive"
      /\ clock' = clock /\ clock \in 0..MaxTime
  BY DEF ReceiveChunk, ReceiveLast, Overflow, At, GatePassed
<1>3. n \in Nat /\ n <= MaxChunk /\ Limit \in Nat /\ MaxChunk \in Nat
  BY GateAssumption
<1> USE DEF Passed, Statuses
<1>4. CASE ReceiveChunk(n)
  <2>1. /\ DOMAIN request' = DOMAIN request /\ request'.r = request.r
        /\ request'.stage = "receive" /\ request'.status = 0
        /\ request'.received = request.received + n
    BY <1>2, <1>4 DEF ReceiveChunk
  <2> QED
    BY <1>1, <1>2, <1>3, <1>4, <2>1 DEF ReceiveChunk, TooLong, GatePassed
<1>5. CASE ReceiveLast(n)
  <2>1. /\ DOMAIN request' = DOMAIN request /\ request'.r = request.r
        /\ request'.stage = "handle" /\ request'.status = 0
        /\ request'.received = request.received + n
    BY <1>2, <1>5 DEF ReceiveLast
  <2> QED
    BY <1>1, <1>2, <1>3, <1>5, <2>1 DEF ReceiveLast, TooLong, GatePassed
<1>6. CASE Overflow(n)
  <2>1. PICK status \in {400, 413} :
          request' = [request EXCEPT !.received = @ + n, !.stage = "answered",
                                     !.status = status]
    BY <1>6, ZenonT(30) DEF Overflow
  <2>2. /\ DOMAIN request' = DOMAIN request /\ request'.r = request.r
        /\ request'.stage = "answered" /\ request'.status = status
        /\ request'.received = request.received + n
    BY <1>2, <2>1
  <2> QED
    BY <1>1, <1>2, <1>3, <2>2 DEF GatePassed
<1> QED
  BY <1>4, <1>5, <1>6

(* An answer below 200 or above 202 claims nothing about the request. *)
LEMMA RefuseStep ==
  ASSUME GatePassed, request # NoRequest, request.stage # "answered",
         NEW status \in Statuses \ {200, 201, 202}, Answer(status),
         clock' = clock, settings' = settings
  PROVE  GatePassed'
<1>1. IsReadOnly' = IsReadOnly
  BY DEF IsReadOnly
<1>2. Passed(request)
  BY DEF GatePassed
<1>3. /\ DOMAIN request' = DOMAIN request /\ request'.r = request.r
      /\ request'.stage = "answered" /\ request'.status = status
      /\ request'.received = request.received /\ request'.judged = request.judged
  BY <1>2 DEF Answer, Passed
<1> QED
  BY <1>1, <1>2, <1>3 DEF GatePassed, Passed

(* A request handed to the stores is well formed and, if it came by webhook,  *)
(* signed as it claims at an instant near its stamp.                          *)
LEMMA AcceptStep ==
  ASSUME GatePassed, Accept, UNCHANGED lifespanVars
  PROVE  GatePassed'
<1>1. IsReadOnly' = IsReadOnly
  BY DEF IsReadOnly, lifespanVars
<1>2. /\ Passed(request) /\ request.stage = "handle" /\ Verified(request.r)
      /\ request.r.wellFormed /\ clock' = clock
  BY DEF Accept, At, GatePassed
<1>3. /\ DOMAIN request' = DOMAIN request /\ request'.r = request.r
      /\ request'.stage = "store" /\ request'.status = 0
      /\ request'.received = request.received /\ request'.judged = clock
  BY <1>2 DEF Accept, Passed
<1>4. request.r.route = "webhook" => AsSigned(request')
  <2> SUFFICES ASSUME request.r.route = "webhook" PROVE AsSigned(request')
    OBVIOUS
  <2>1. Authentic(request.r)
    BY <1>2 DEF Verified
  <2>2. request.r \in Request
    BY <1>2, GateAssumption DEF Passed
  <2>3. request.r.stamp \in 0..MaxTime
    BY <2>1, <2>2 DEF Authentic, Presented, Request
  <2> QED
    BY <1>3, <2>1, <2>3 DEF Authentic, Presented, AsSigned
<1> QED
  BY <1>1, <1>2, <1>3, <1>4 DEF GatePassed, Passed, Statuses

(* A write that is acknowledged was checked before. *)
LEMMA StoreStep ==
  ASSUME GatePassed, Store, settings' = settings
  PROVE  GatePassed'
<1>1. IsReadOnly' = IsReadOnly
  BY DEF IsReadOnly
<1>2. /\ request # NoRequest /\ Passed(request) /\ request.stage = "store"
      /\ clock' = clock
  BY DEF Store, StoreEvent, StoreIncident, StoreRefuses, StoreFails, At, GatePassed
<1>3. CASE StoreRefuses \/ StoreFails
  <2>1. StoreRefusal(request.r) \in {0, 404, 409, 422}
    BY DEF StoreRefusal
  <2> QED
    BY <1>2, <1>3, <2>1, RefuseStep DEF StoreRefuses, StoreFails, Statuses
<1>4. CASE StoreEvent \/ StoreIncident
  <2>1. PICK status \in Created(request.r) : Answer(status)
    BY <1>4 DEF StoreEvent, StoreIncident
  <2>2. status \in {200, 201, 202} /\ (status = 202 => request.r.route = "webhook")
    BY DEF Created
  <2>3. /\ DOMAIN request' = DOMAIN request /\ request'.r = request.r
        /\ request'.stage = "answered" /\ request'.status = status
        /\ request'.received = request.received /\ request'.judged = request.judged
    BY <1>2, <2>1 DEF Answer, Passed
  <2>4. request.r.route = "webhook" => AsSigned(request')
    BY <1>2, <2>3 DEF AsSigned, Passed
  <2> QED
    BY <1>1, <1>2, <2>2, <2>3, <2>4 DEF GatePassed, Passed, Statuses
<1> QED
  BY <1>3, <1>4 DEF Store

(* Every step of the server, and no other, moves a request on, checked. *)
LEMMA GateNext == StartInOrder /\ GatePassed /\ [Next]_vars => GatePassed'
<1> SUFFICES ASSUME StartInOrder, GatePassed, [Next]_vars PROVE GatePassed'
  OBVIOUS
<1>1. ASSUME request' = NoRequest, clock' \in 0..MaxTime PROVE GatePassed'
  BY <1>1 DEF GatePassed
<1>2. ASSUME request' = request, settings' = settings, clock' \in 0..MaxTime
      PROVE  GatePassed'
  BY <1>2 DEF GatePassed, Passed, IsReadOnly, AsSigned
<1>3. clock \in 0..MaxTime /\ MaxTime \in Nat
  BY GateAssumption DEF GatePassed
<1>4. CASE (Start \/ AbandonStart \/ RefusedStart) /\ UNCHANGED <<gateVars, view, walk>>
  <2>1. ~Serving
    BY <1>4 DEF StartInOrder, Start, AbandonStart, RefusedStart, ColumnTaken, Proceed,
       Launch, Configure, MigrateSchema, OpenEventStore, OpenIncidentStore, SkipSeeding,
       SeedEvents, SeedIncident, Publish, Serving, Starting, Processes
  <2> QED
    BY <1>1, <1>3, <1>4, <2>1 DEF StartInOrder, Drained, gateVars
<1>5. CASE Shutdown /\ Drained /\ UNCHANGED <<gateVars, view, walk>>
  BY <1>1, <1>3, <1>5 DEF Drained, gateVars
<1>6. CASE Crash /\ request' = NoRequest /\ view' = NoView /\ UNCHANGED <<clock, walk>>
  BY <1>1, <1>3, <1>6
<1>7. CASE Pass /\ UNCHANGED <<lifespanVars, view, walk>>
  <2>1. CASE \E r \in Requests : Admit(r) \/ Refuse(r)
    BY <1>7, <2>1, AdmitStep
  <2>2. CASE \E n \in 1..MaxChunk : ReceiveChunk(n) \/ Overflow(n)
    BY <1>7, <2>2, ReceiveStep, GateAssumption
  <2>3. CASE \E n \in 0..MaxChunk : ReceiveLast(n)
    BY <1>7, <2>3, ReceiveStep
  <2>4. CASE Disconnect \/ Respond
    BY <1>1, <1>3, <2>4 DEF Disconnect, Respond
  <2>5. CASE RejectUnauthentic \/ RejectMalformed
    <3>1. PICK status \in {401, 422, 500} : Answer(status)
      BY <2>5 DEF RejectUnauthentic, RejectMalformed
    <3>2. request # NoRequest /\ request.stage = "handle" /\ clock' = clock
      BY <2>5 DEF RejectUnauthentic, RejectMalformed, At
    <3> QED
      BY <1>7, <3>1, <3>2, RefuseStep DEF Statuses, lifespanVars
  <2>6. CASE Accept
    BY <1>7, <2>6, AcceptStep
  <2>7. CASE Tick
    BY <1>2, <1>3, <1>7, <2>7 DEF Tick, lifespanVars
  <2> QED
    BY <1>7, <2>1, <2>2, <2>3, <2>4, <2>5, <2>6, <2>7 DEF Pass
<1>8. CASE Store /\ UNCHANGED <<phase, settings, opened, published, stops, migrationVars, view, walk>>
  BY <1>8, StoreStep
<1>9. CASE View /\ UNCHANGED <<lifespanVars, gateVars, walk>>
  BY <1>2, <1>3, <1>9 DEF lifespanVars, gateVars
<1>10. CASE Walk /\ UNCHANGED <<lifespanVars, gateVars, view>>
  BY <1>2, <1>3, <1>10 DEF lifespanVars, gateVars
<1>11. CASE /\ Tool
            /\ UNCHANGED <<events, incidents, phase, settings, opened, published, stops>>
            /\ UNCHANGED <<gateVars, view, walk>>
  BY <1>2, <1>3, <1>11 DEF gateVars
<1>12. CASE UNCHANGED vars
  BY <1>2, <1>3, <1>12 DEF vars, lifespanVars, gateVars
<1> QED
  BY <1>4, <1>5, <1>6, <1>7, <1>8, <1>9, <1>10, <1>11, <1>12 DEF Next

-----------------------------------------------------------------------------
(* How a step may change the tables: events are only added, an incident that  *)
(* is stored keeps its evidence, and nothing else is written at once with one *)
(* of the two.                                                                *)
Grown ==
  /\ events \subseteq events' /\ events' \subseteq AllEvents
  /\ incidents' \in [IncidentIds -> RowOf \cup {NoRow}]
  /\ \A i \in Tracked(incidents) :
       i \in Tracked(incidents') /\ incidents'[i].cites = incidents[i].cites
  /\ \A i \in Tracked(incidents') : incidents'[i].cites \subseteq events'

(* Statuses and evidence of the rows that are written. *)
LEMMA RowFields ==
  /\ \A status \in {"open", "resolved"}, cites \in (SUBSET AllEvents) \ {{}} :
       /\ Row(status, cites) \in RowOf /\ Row(status, cites) # NoRow
       /\ Row(status, cites).cites = cites
  /\ \A row \in RowOf :
       /\ [row EXCEPT !.status = "resolved"] \in RowOf
       /\ [row EXCEPT !.status = "resolved"] # NoRow
       /\ [row EXCEPT !.status = "resolved"].cites = row.cites
BY RowsAssumption DEF Row, RowOf

(* A row is written over an incident that has none, or keeps its evidence. *)
LEMMA RowStored ==
  ASSUME StoresSound, events' = events, NEW i \in IncidentIds, NEW row \in RowOf,
         incidents' = [incidents EXCEPT ![i] = row], row.cites \subseteq events,
         incidents[i] # NoRow => row.cites = incidents[i].cites
  PROVE  Grown
BY RowsAssumption DEF StoresSound, Grown, Tracked

(* The demo incident cites the demo event that was stored before it. *)
LEMMA DemoStored == ASSUME StoresSound, SeedIncident PROVE Grown
<1>1. {DemoEvidence} \in (SUBSET AllEvents) \ {{}}
  BY LifespanAssumption DEF AllEvents
<1>2. DemoRow \in RowOf /\ DemoRow.cites = {DemoEvidence} /\ DemoIncident \in IncidentIds
  BY <1>1, RowFields DEF DemoRow, IncidentIds
<1>3. CASE incidents[DemoIncident] = NoRow
  <2>1. {DemoEvidence} \subseteq events /\ events' = events
        /\ incidents' = [incidents EXCEPT ![DemoIncident] = DemoRow]
    BY <1>3 DEF SeedIncident, StoresSound
  <2> QED
    BY <1>2, <1>3, <2>1, RowStored
<1>4. CASE incidents[DemoIncident] # NoRow
  BY <1>4 DEF SeedIncident, StoresSound, Grown
<1> QED
  BY <1>3, <1>4

(* A client's incident is declared over stored events or was declared before. *)
LEMMA IncidentStored ==
  ASSUME StoresSound, GatePassed, StoreIncident
  PROVE  Grown
<1> DEFINE r == request.r
           i == r.incident
<1>1. /\ r \in Requests /\ r \in Request /\ r.wellFormed /\ i \in IncidentIds
      /\ r.route \in {"declare", "resolve"} /\ StoreRefusal(r) = 0 /\ events' = events
  BY GateAssumption DEF StoreIncident, At, GatePassed, Passed, Request, IncidentIds
<1>2. CASE r.route = "declare"
  <2>1. r.cites \subseteq events /\ r.cites # {} /\ r.cites \in SUBSET AllEvents
    BY <1>1, <1>2, GateAssumption DEF StoreRefusal, Request
  <2>2. incidents' = [incidents EXCEPT ![i] = Row("open", r.cites)]
    BY <1>2 DEF StoreIncident
  <2>3. incidents[i] = NoRow
    BY <1>2 DEF StoreIncident, At, StoresSound
  <2>4. Row("open", r.cites) \in RowOf /\ Row("open", r.cites).cites = r.cites
    BY <2>1, RowFields
  <2> HIDE DEF r, i
  <2> QED
    BY <1>1, <2>1, <2>2, <2>3, <2>4, RowStored
<1>3. CASE r.route = "resolve"
  <2>1. incidents[i] # NoRow /\ incidents[i] \in RowOf
    BY <1>1, <1>3 DEF StoreRefusal, StoresSound
  <2>2. incidents' = [incidents EXCEPT ![i] = [incidents[i] EXCEPT !.status = "resolved"]]
    BY <1>3 DEF StoreIncident
  <2>3. incidents[i].cites \subseteq events
    BY <1>1, <2>1 DEF StoresSound, Tracked
  <2> QED
    BY <1>1, <2>1, <2>2, <2>3, RowStored, RowFields
<1> QED
  BY <1>1, <1>2, <1>3

(* Whatever a step does, the tables only grow, and stay sound. *)
LEMMA TablesGrow ==
  StartInOrder /\ StoresSound /\ GatePassed /\ [Next]_vars => Grown
<1> SUFFICES ASSUME StartInOrder, StoresSound, GatePassed, [Next]_vars PROVE Grown
  OBVIOUS
<1>1. CASE UNCHANGED <<events, incidents>>
  BY <1>1 DEF StoresSound, Grown, Tracked
<1>2. CASE SeedEvents
  BY <1>2 DEF SeedEvents, StoresSound, Grown, Tracked, AllEvents
<1>3. CASE SeedIncident
  BY <1>3, DemoStored
<1>4. CASE StoreEvent
  <2>1. request.r.event \in AllEvents
    BY <1>4, GateAssumption DEF StoreEvent, At, GatePassed, Passed, Request, AllEvents
  <2> QED
    BY <1>4, <2>1 DEF StoreEvent, StoresSound, Grown, Tracked
<1>5. CASE StoreIncident
  BY <1>5, IncidentStored
<1>6. CASE (Start \/ AbandonStart \/ RefusedStart) /\ UNCHANGED <<gateVars, view, walk>>
  BY <1>1, <1>2, <1>3, <1>6
     DEF Start, AbandonStart, RefusedStart, Launch, Configure, MigrateSchema,
     OpenEventStore, OpenIncidentStore, SkipSeeding, Publish
<1>7. CASE (Shutdown /\ Drained /\ UNCHANGED <<gateVars, view, walk>>)
           \/ (Crash /\ request' = NoRequest /\ view' = NoView /\ UNCHANGED <<clock, walk>>)
  BY <1>1, <1>7 DEF Shutdown, Crash
<1>8. CASE Store
  BY <1>1, <1>4, <1>5, <1>8 DEF Store, StoreRefuses, StoreFails
<1>9. CASE UNCHANGED <<lifespanVars>> \/ UNCHANGED <<events, incidents>> \/ UNCHANGED vars
  BY <1>1, <1>9 DEF lifespanVars, vars
<1> QED
  BY <1>6, <1>7, <1>8, <1>9 DEF Next

(* A declaration under way came in while its id was unused. *)
LEMMA DeclarationFresh ==
  ASSUME StartInOrder, StoresSound, GatePassed, Next,
         request' # NoRequest, request'.stage # "answered", request'.r.route = "declare"
  PROVE  incidents'[request'.r.incident] = NoRow
<1> DEFINE Kept == /\ incidents' = incidents /\ request # NoRequest
                   /\ request.stage # "answered" /\ request'.r = request.r
<1>1. CASE Kept
  BY <1>1 DEF StoresSound
<1>2. CASE request' = request /\ incidents' = incidents
  BY <1>2 DEF StoresSound
<1>3. request # NoRequest => Passed(request)
  BY DEF GatePassed
<1>4. CASE Pass /\ UNCHANGED <<lifespanVars, view, walk>>
  <2>1. CASE \E r \in Requests : Admit(r)
    BY <1>4, <2>1 DEF Admit, Served, lifespanVars
  <2>2. ~Disconnect /\ ~Respond
    BY DEF Disconnect, Respond
  <2>3. ~(\E r \in Requests : Refuse(r))
    <3>1. ASSUME NEW r \in Requests, Refuse(r) PROVE request'.stage = "answered"
      BY <3>1 DEF Refuse, Served
    <3> QED
      BY <3>1
  <2>4. ASSUME NEW status, Answer(status), request # NoRequest PROVE FALSE
    BY <1>3, <2>4 DEF Answer, Passed
  <2>5. ~RejectUnauthentic /\ ~RejectMalformed
    BY <2>4 DEF RejectUnauthentic, RejectMalformed, At
  <2>6. ~(\E n \in 1..MaxChunk : Overflow(n))
    <3> SUFFICES ASSUME NEW n \in 1..MaxChunk, Overflow(n) PROVE FALSE
      OBVIOUS
    <3>1. PICK status :
            request' = [request EXCEPT !.received = @ + n, !.stage = "answered",
                                       !.status = status]
      BY ZenonT(30) DEF Overflow
    <3>2. request # NoRequest
      BY DEF Overflow, At
    <3> QED
      BY <1>3, <3>1, <3>2 DEF Passed
  <2>7. CASE \E n \in 0..MaxChunk : ReceiveChunk(n) \/ ReceiveLast(n)
    <3>1. request # NoRequest /\ request.stage = "receive" /\ request'.r = request.r
      BY <1>3, <2>7 DEF ReceiveChunk, ReceiveLast, At, Passed
    <3> QED
      BY <1>1, <1>4, <3>1 DEF lifespanVars
  <2>8. CASE Accept
    <3>1. request # NoRequest /\ request.stage = "handle" /\ request'.r = request.r
      BY <1>3, <2>8 DEF Accept, At, Passed
    <3> QED
      BY <1>1, <1>4, <3>1 DEF lifespanVars
  <2>9. CASE Tick
    BY <1>2, <1>4, <2>9 DEF Tick, lifespanVars
  <2> QED
    BY <1>4, <2>1, <2>2, <2>3, <2>5, <2>6, <2>7, <2>8, <2>9, GateAssumption DEF Pass
<1>5. ~Store
  <2>1. ASSUME NEW status, Answer(status), At("store") PROVE FALSE
    BY <1>3, <2>1 DEF Answer, Passed, At
  <2> QED
    BY <2>1 DEF Store, StoreEvent, StoreIncident, StoreRefuses, StoreFails
<1>6. CASE (Start \/ AbandonStart \/ RefusedStart) /\ UNCHANGED <<gateVars, view, walk>>
  <2>1. ~Serving
    BY <1>6 DEF StartInOrder, Start, AbandonStart, RefusedStart, ColumnTaken, Proceed,
       Launch, Configure, MigrateSchema, OpenEventStore, OpenIncidentStore, SkipSeeding,
       SeedEvents, SeedIncident, Publish, Serving, Starting, Processes
  <2> QED
    BY <1>6, <2>1 DEF StartInOrder, Drained, gateVars
<1>7. CASE Shutdown /\ Drained /\ UNCHANGED <<gateVars, view, walk>>
  BY <1>7 DEF Drained, gateVars
<1>8. CASE UNCHANGED gateVars /\ (UNCHANGED lifespanVars \/ UNCHANGED <<events, incidents>>)
  BY <1>2, <1>8 DEF lifespanVars, gateVars
<1> QED
  BY <1>4, <1>5, <1>6, <1>7, <1>8 DEF Next

(* Seeding finds the demo's own event stored, and serving a demo some event. *)
LEMMA StoresNext ==
  StartInOrder /\ StoresSound /\ GatePassed /\ [Next]_vars => StoresSound'
<1> SUFFICES ASSUME StartInOrder, StoresSound, GatePassed, [Next]_vars
             PROVE  StoresSound'
  OBVIOUS
<1>1. Grown
  BY TablesGrow
<1>2. phase' = "seed_incident" => DemoEvidence \in events'
  <2>1. CASE Start
    BY <1>1, <2>1, LifespanAssumption
       DEF Start, Launch, Configure, MigrateSchema, OpenEventStore, OpenIncidentStore,
       SkipSeeding, SeedEvents, SeedIncident, Publish, Grown, StoresSound
  <2>2. CASE AbandonStart \/ RefusedStart \/ Shutdown \/ Crash
    BY <2>2 DEF AbandonStart, RefusedStart, Shutdown, Crash
  <2>3. CASE phase' = phase
    BY <1>1, <2>3 DEF StoresSound, Grown
  <2> QED
    BY <2>1, <2>2, <2>3 DEF Next, vars, lifespanVars
<1>3. phase' \in {"publish", "serving"} /\ settings'.demo => events' # {}
  <2>1. CASE Start
    BY <1>1, <2>1, LifespanAssumption
       DEF Start, Launch, Configure, MigrateSchema, OpenEventStore, OpenIncidentStore,
       SkipSeeding, SeedEvents, SeedIncident, Publish, Grown, StoresSound, MaySeed
  <2>2. CASE AbandonStart \/ RefusedStart \/ Shutdown \/ Crash
    BY <2>2 DEF AbandonStart, RefusedStart, Shutdown, Crash
  <2>3. CASE phase' = phase /\ settings' = settings
    BY <1>1, <2>3 DEF StoresSound, Grown
  <2> QED
    BY <2>1, <2>2, <2>3 DEF Next, vars, lifespanVars
<1>4. request' # NoRequest /\ request'.stage # "answered" /\ request'.r.route = "declare" =>
        incidents'[request'.r.incident] = NoRow
  <2>1. CASE UNCHANGED vars
    BY <2>1 DEF vars, lifespanVars, gateVars, StoresSound
  <2> QED
    BY <2>1, DeclarationFresh
<1> QED
  BY <1>1, <1>2, <1>3, <1>4 DEF StoresSound, Grown

-----------------------------------------------------------------------------
Reads == FromIncidents \cup FromEvents

(* No view takes the same reading twice ...                                   *)
OnceEach(holds) ==
  /\ holds \in Seq(SUBSET Reads)
  /\ Len(holds) \in Nat /\ DOMAIN holds = 1..Len(holds)
  /\ \A i, j \in DOMAIN holds : holds[i] \cap holds[j] # {} => i = j

(* ... neither in one hold nor in two. *)
LEMMA ViewsReadOnce == \A name \in DOMAIN Holds : OnceEach(Holds[name])
<1> USE DEF OnceEach, Reads, FromIncidents, FromEvents
<1>1. OnceEach(DashboardHolds)
  <2> DEFINE h == DashboardHolds
  <2>1. /\ h \in Seq(SUBSET Reads) /\ Len(h) = 7 /\ DOMAIN h = 1..7
        /\ h[1] = {"brief"} /\ h[2] = {"risks"} /\ h[3] = {"incidents"}
        /\ h[4] = {"incident_count"} /\ h[5] = {"history"} /\ h[6] = {"recent"}
        /\ h[7] = {"event_count"}
    BY DEF DashboardHolds, BriefHold, RiskHold, HistoryHold
  <2> HIDE DEF h
  <2> QED
    BY <2>1 DEF h
<1>2. OnceEach(TimelineHolds) /\ OnceEach(SummaryHolds)
  BY DEF TimelineHolds, SummaryHolds, HistoryHold
<1>3. OnceEach(IncidentPageHolds)
  BY DEF IncidentPageHolds
<1>4. OnceEach(EventPageHolds)
  BY DEF EventPageHolds
<1> HIDE DEF OnceEach
<1> QED
  BY <1>1, <1>2, <1>3, <1>4 DEF Holds

(* The holds that are left: all of them at first ...                          *)
LEMMA RestFirst ==
  ASSUME NEW T, NEW holds \in Seq(T)
  PROVE  holds = Rest(holds, 0)
BY DEF Rest

(* ... and then without the one that is taken. *)
LEMMA RestFacts ==
  ASSUME NEW T, NEW holds \in Seq(T), NEW k \in Nat, k <= Len(holds)
  PROVE  /\ Rest(holds, k) = <<>> => k = Len(holds)
         /\ Rest(holds, k) # <<>> =>
              /\ k + 1 \in 1..Len(holds)
              /\ Head(Rest(holds, k)) = holds[k + 1]
              /\ Tail(Rest(holds, k)) = Rest(holds, k + 1)
<1> DEFINE rest == Rest(holds, k)
<1>1. Len(holds) \in Nat /\ DOMAIN holds = 1..Len(holds)
  OBVIOUS
<1>2. /\ rest \in Seq(T) /\ Len(rest) = Len(holds) - k
      /\ \A i \in 1..(Len(holds) - k) : rest[i] = holds[i + k]
  BY <1>1 DEF Rest
<1>3. Rest(holds, k + 1) = [i \in 1..(Len(holds) - (k + 1)) |-> holds[i + (k + 1)]]
  BY DEF Rest
<1> HIDE DEF rest
<1>4. CASE rest = <<>>
  <2>1. Len(rest) = 0
    BY <1>4
  <2>2. k = Len(holds)
    BY <1>1, <1>2, <2>1
  <2> QED
    BY <1>4, <2>2 DEF rest
<1>5. CASE rest # <<>>
  <2>1. Len(rest) >= 1
    BY <1>2, <1>5
  <2>2. k + 1 \in 1..Len(holds)
    BY <1>1, <1>2, <2>1
  <2>3. Head(rest) = holds[k + 1]
    BY <1>1, <1>2, <2>1
  <2>4. /\ Tail(rest) \in Seq(T) /\ Len(Tail(rest)) = Len(rest) - 1
        /\ \A i \in 1..Len(Tail(rest)) : Tail(rest)[i] = rest[i + 1]
    BY <1>2, <1>5, HeadTailProperties
  <2>5. \A i \in 1..(Len(holds) - (k + 1)) : rest[i + 1] = holds[i + (k + 1)]
    BY <1>1, <1>2
  <2>6. Tail(rest) = [i \in 1..Len(Tail(rest)) |-> Tail(rest)[i]]
    <3> DEFINE t == Tail(rest)
    <3>1. t \in Seq(T)
      BY <2>4
    <3> HIDE DEF t
    <3>2. t = [i \in 1..Len(t) |-> t[i]]
      BY <3>1
    <3> QED
      BY <3>2 DEF t
  <2>7. Len(Tail(rest)) = Len(holds) - (k + 1)
    <3> DEFINE a == Len(Tail(rest))
               b == Len(rest)
               c == Len(holds)
    <3>1. a = b - 1 /\ b = c - k /\ c \in Nat
      BY <1>1, <1>2, <2>4
    <3> HIDE DEF a, b, c
    <3>2. a = c - (k + 1)
      BY <3>1
    <3> QED
      BY <3>2 DEF a, c
  <2>8. Tail(rest) = Rest(holds, k + 1)
    BY <1>3, <2>4, <2>5, <2>6, <2>7
  <2> QED
    BY <2>2, <2>3, <2>8, <1>5 DEF rest
<1> QED
  BY <1>4, <1>5

(* A reading taken now is covered by any other taken now. *)
LEMMA CoversNow ==
  ASSUME StoresSound, NEW r \in Reads, NEW s \in Reads
  PROVE  Covers(s, Seen(s), r, Seen(r))
BY DEF StoresSound, Covers, Seen, Reads, FromIncidents, FromEvents

(* A reading that was covered stays covered as the tables grow. *)
LEMMA CoversGrown ==
  ASSUME Grown, NEW r \in Reads, NEW earlier,
         Covers("incidents", incidents, r, earlier), Covers("history", events, r, earlier)
  PROVE  Covers("incidents", incidents', r, earlier) /\ Covers("history", events', r, earlier)
<1>1. "incidents" \in FromIncidents /\ "history" \in FromEvents
      /\ "incidents" \notin FromEvents /\ "history" \notin FromIncidents
  BY DEF FromIncidents, FromEvents
<1>2. Tracked(incidents) \subseteq Tracked(incidents') /\ events \subseteq events'
  BY DEF Grown
<1> QED
  BY <1>1, <1>2 DEF Covers

(* Only the table a reading is taken from matters. *)
LEMMA CoversAny ==
  ASSUME NEW r \in Reads, NEW s \in Reads, NEW earlier,
         Covers("incidents", incidents, r, earlier), Covers("history", events, r, earlier)
  PROVE  Covers(s, Seen(s), r, earlier)
<1>1. "incidents" \in FromIncidents /\ "history" \in FromEvents
      /\ "incidents" \notin FromEvents /\ "history" \notin FromIncidents
  BY DEF FromIncidents, FromEvents
<1> QED
  BY <1>1 DEF Covers, Seen, Reads, FromIncidents, FromEvents

(* Another hold: its readings cover those before and one another. *)
LEMMA ReadStep ==
  ASSUME StoresSound, PageInOrder, Read, UNCHANGED lifespanVars
  PROVE  PageInOrder'
<1> DEFINE holds == Holds[view.name]
<1>1. Assembling /\ view.todo # <<>>
  BY DEF Read
<1>2. /\ DOMAIN view = {"name", "todo", "got"}
      /\ view.name \in DOMAIN Holds /\ OnceEach(holds)
  BY <1>1, ViewsReadOnce DEF PageInOrder, ReadInOrder
<1>3. PICK k \in 0..Len(holds) :
        view.todo = Rest(holds, k) /\ DOMAIN view.got = UNION {holds[i] : i \in 1..k}
  BY <1>1 DEF PageInOrder, ReadInOrder, ReadBefore
<1> DEFINE now == Head(view.todo)
           got == [r \in DOMAIN view.got \cup now |-> IF r \in now THEN Seen(r) ELSE view.got[r]]
<1>4. /\ DOMAIN view' = DOMAIN view /\ view'.name = view.name
      /\ view'.todo = Tail(view.todo) /\ view'.got = got
  BY <1>2 DEF Read
<1>5. /\ k \in Nat /\ k <= Len(holds)
      /\ holds \in Seq(SUBSET Reads) /\ DOMAIN holds = 1..Len(holds) /\ Len(holds) \in Nat
      /\ \A i, j \in DOMAIN holds : holds[i] \cap holds[j] # {} => i = j
  BY <1>2 DEF OnceEach
<1>6. /\ k + 1 \in DOMAIN holds /\ k + 1 \in 0..Len(holds) /\ now = holds[k + 1]
      /\ view'.todo = Rest(holds, k + 1)
  <2> HIDE DEF holds
  <2>1. Rest(holds, k) # <<>>
    BY <1>1, <1>3
  <2>2. /\ k + 1 \in 1..Len(holds) /\ Head(Rest(holds, k)) = holds[k + 1]
        /\ Tail(Rest(holds, k)) = Rest(holds, k + 1)
    BY <1>5, <2>1, RestFacts
  <2>3. now = holds[k + 1] /\ view'.todo = Rest(holds, k + 1)
    BY <1>3, <1>4, <2>2
  <2> QED
    BY <1>5, <2>2, <2>3
<1>7. DOMAIN got = UNION {holds[i] : i \in 1..(k + 1)}
  <2>1. {holds[i] : i \in 1..(k + 1)} = {holds[i] : i \in 1..k} \cup {now}
    BY <1>5, <1>6
  <2> QED
    BY <1>3, <2>1
<1>8. \A r \in DOMAIN got : r \in Reads
  BY <1>3, <1>5, <1>6
<1>9. \A r \in DOMAIN view.got :
        /\ Covers("incidents", incidents, r, view.got[r])
        /\ Covers("history", events, r, view.got[r])
  BY <1>1 DEF PageInOrder, ReadInOrder, ReadBefore
<1>10. \A r, s \in DOMAIN view.got :
        Precedes(holds, r, s) => Covers(s, view.got[s], r, view.got[r])
  BY <1>1 DEF PageInOrder, ReadInOrder, ReadBefore
<1>11. \A r \in DOMAIN view.got : r \notin now
  BY <1>3, <1>5, <1>6
<1>12. \A r \in DOMAIN got : r \in now => got[r] = Seen(r)
  OBVIOUS
<1>13. \A r \in DOMAIN got : r \notin now => r \in DOMAIN view.got /\ got[r] = view.got[r]
  OBVIOUS
<1>14. "incidents" \in Reads /\ "history" \in Reads
       /\ Seen("incidents") = incidents /\ Seen("history") = events
  BY DEF Reads, FromIncidents, FromEvents, Seen
<1> HIDE DEF got, now
<1>15. ASSUME NEW r \in DOMAIN got
       PROVE  Covers("incidents", incidents, r, got[r]) /\ Covers("history", events, r, got[r])
  BY <1>8, <1>9, <1>12, <1>13, <1>14, CoversNow
<1>16. ASSUME NEW r \in DOMAIN got, NEW s \in DOMAIN got, Precedes(holds, r, s)
       PROVE  Covers(s, got[s], r, got[r])
  <2>1. CASE s \in now
    BY <1>8, <1>12, <1>15, <2>1, CoversAny
  <2>2. CASE s \notin now
    <3>1. r \notin now
      <4> SUFFICES ASSUME r \in now PROVE FALSE
        OBVIOUS
      <4>1. PICK n \in 1..k : s \in holds[n]
        BY <1>3, <1>13, <2>2
      <4>2. PICK i, j \in DOMAIN holds : i <= j /\ r \in holds[i] /\ s \in holds[j]
        BY <1>16 DEF Precedes
      <4>3. i = k + 1 /\ j = n
        BY <1>5, <1>6, <4>1, <4>2
      <4> QED
        BY <1>5, <4>1, <4>2, <4>3
    <3> QED
      BY <1>10, <1>13, <1>16, <2>2, <3>1
  <2> QED
    BY <2>1, <2>2
<1>17. events' = events /\ incidents' = incidents
  BY DEF lifespanVars
<1>18. Holds[view'.name] = holds
  BY <1>4
<1> HIDE DEF holds
<1>19. \E n \in 0..Len(holds) :
         view'.todo = Rest(holds, n) /\ DOMAIN view'.got = UNION {holds[i] : i \in 1..n}
  BY <1>6, <1>4, <1>7
<1>20. \A r \in DOMAIN view'.got :
         /\ Covers("incidents", incidents', r, view'.got[r])
         /\ Covers("history", events', r, view'.got[r])
  BY <1>4, <1>15, <1>17
<1>21. \A r, s \in DOMAIN view'.got :
         Precedes(holds, r, s) => Covers(s, view'.got[s], r, view'.got[r])
  BY <1>4, <1>16
<1>22. ReadInOrder(holds, view')
  BY <1>2, <1>4, <1>19, <1>21 DEF ReadInOrder
<1>23. ReadBefore(view)'
  BY <1>20 DEF ReadBefore
<1>24. view'.name \in DOMAIN Holds
  BY <1>2, <1>4
<1> QED
  BY <1>18, <1>22, <1>23, <1>24 DEF PageInOrder

(* A page opens with all of its holds to come. *)
LEMMA OpenStep ==
  ASSUME NEW name \in DOMAIN Holds, Open(name)
  PROVE  PageInOrder'
<1> DEFINE holds == Holds[name]
<1>1. OnceEach(holds)
  BY ViewsReadOnce
<1>2. DOMAIN view' = {"name", "todo", "got"} /\ view'.name = name
      /\ view'.todo = holds /\ view'.got = <<>>
  BY DEF Open
<1> HIDE DEF holds
<1>3. holds = Rest(holds, 0) /\ 0 \in 0..Len(holds)
  BY <1>1, RestFirst DEF OnceEach
<1>4. DOMAIN view'.got = {}
  BY <1>2
<1>5. {} = UNION {holds[i] : i \in 1..0}
  OBVIOUS
<1>6. ReadInOrder(holds, view')
  BY <1>2, <1>3, <1>4, <1>5 DEF ReadInOrder
<1>7. ReadBefore(view)'
  BY <1>4 DEF ReadBefore
<1> QED
  BY <1>2, <1>6, <1>7 DEF PageInOrder, holds

(* A write beside the page leaves its readings where they were. *)
LEMMA WrittenBeside ==
  ASSUME PageInOrder, Grown, view' = view
  PROVE  PageInOrder'
<1> SUFFICES ASSUME Assembling PROVE PageInOrder'
  BY DEF PageInOrder, Assembling
<1>1. OnceEach(Holds[view.name]) /\ ReadInOrder(Holds[view.name], view) /\ ReadBefore(view)
  BY ViewsReadOnce DEF PageInOrder
<1>2. ASSUME NEW r \in DOMAIN view.got PROVE r \in Reads
  BY <1>1, <1>2 DEF ReadInOrder, OnceEach
<1>3. ASSUME NEW r \in DOMAIN view.got
      PROVE  /\ Covers("incidents", incidents', r, view.got[r])
             /\ Covers("history", events', r, view.got[r])
  BY <1>1, <1>2, CoversGrown DEF ReadBefore
<1>4. ReadBefore(view)'
  BY <1>3 DEF ReadBefore
<1> QED
  BY <1>1, <1>4 DEF PageInOrder

(* Every step keeps the page in order. *)
LEMMA PageNext ==
  StartInOrder /\ StoresSound /\ GatePassed /\ PageInOrder /\ [Next]_vars => PageInOrder'
<1> SUFFICES ASSUME StartInOrder, StoresSound, GatePassed, PageInOrder, [Next]_vars
             PROVE  PageInOrder'
  OBVIOUS
<1>1. Grown
  BY TablesGrow
<1>2. CASE view' = view
  BY <1>1, <1>2, WrittenBeside
<1>3. CASE view' = NoView
  BY <1>3 DEF PageInOrder, Assembling
<1>4. CASE View /\ UNCHANGED <<lifespanVars, gateVars, walk>>
  BY <1>3, <1>4, OpenStep, ReadStep DEF View, Deliver
<1> QED
  BY <1>2, <1>3, <1>4 DEF Next, vars

-----------------------------------------------------------------------------
(* Of two readings of a whole page, the later covers the earlier. *)
LEMMA LaterCovers ==
  ASSUME PageInOrder, Complete, NEW r, NEW s, Precedes(Holds[view.name], r, s)
  PROVE  /\ r \in DOMAIN view.got /\ s \in DOMAIN view.got
         /\ Covers(s, Saw(s), r, Saw(r))
<1> DEFINE holds == Holds[view.name]
<1>1. OnceEach(holds) /\ ReadInOrder(holds, view)
  BY ViewsReadOnce DEF PageInOrder, Complete
<1> HIDE DEF holds
<1>2. PICK k \in 0..Len(holds) :
        view.todo = Rest(holds, k) /\ DOMAIN view.got = UNION {holds[i] : i \in 1..k}
  BY <1>1 DEF ReadInOrder
<1>3. k = Len(holds)
  <2>1. k \in Nat /\ k <= Len(holds) /\ holds \in Seq(SUBSET Reads)
    BY <1>1 DEF OnceEach
  <2> QED
    BY <1>2, <2>1, RestFacts DEF Complete
<1>4. PICK i, j \in DOMAIN holds : i <= j /\ r \in holds[i] /\ s \in holds[j]
  BY DEF Precedes, holds
<1>5. DOMAIN holds = 1..k
  BY <1>1, <1>3 DEF OnceEach
<1>6. r \in DOMAIN view.got /\ s \in DOMAIN view.got
  BY <1>2, <1>4, <1>5
<1> QED
  BY <1>1, <1>6 DEF ReadInOrder, Saw, holds

(* In each view that names evidence the history is read after the incidents. *)
LEMMA PageResolves == PageInOrder => EvidenceResolves
<1> SUFFICES ASSUME PageInOrder, Complete, view.name \in {"dashboard", "timeline", "summary"},
                    NEW i \in Tracked(Saw("incidents"))
             PROVE  Saw("incidents")[i].cites \subseteq Saw("history")
  BY DEF EvidenceResolves
<1>1. Precedes(DashboardHolds, "incidents", "history")
  <2>1. DashboardHolds[3] = {"incidents"} /\ DashboardHolds[5] = {"history"}
        /\ 3 \in DOMAIN DashboardHolds /\ 5 \in DOMAIN DashboardHolds
    BY DEF DashboardHolds, HistoryHold
  <2> QED
    BY <2>1 DEF Precedes
<1>2. Precedes(TimelineHolds, "incidents", "history")
      /\ Precedes(SummaryHolds, "incidents", "history")
  <2>1. <<{"incidents"}, {"history"}>>[1] = {"incidents"}
        /\ <<{"incidents"}, {"history"}>>[2] = {"history"}
        /\ DOMAIN <<{"incidents"}, {"history"}>> = 1..2
    OBVIOUS
  <2> QED
    BY <2>1 DEF Precedes, TimelineHolds, SummaryHolds, HistoryHold
<1>3. Precedes(Holds[view.name], "incidents", "history")
  BY <1>1, <1>2 DEF Holds
<1>4. Covers("history", Saw("history"), "incidents", Saw("incidents"))
  BY <1>3, LaterCovers
<1> QED
  BY <1>4 DEF Covers, FromIncidents, FromEvents

(* What is shown is read before it is counted. *)
LEMMA PageCounts == PageInOrder => ShownIsCounted
<1> SUFFICES ASSUME PageInOrder, Complete PROVE ShownIsCounted
  BY DEF ShownIsCounted
<1> DEFINE h == DashboardHolds
<1>1. /\ DOMAIN h = 1..7 /\ h[1] = {"brief"} /\ h[2] = {"risks"} /\ h[3] = {"incidents"}
      /\ h[4] = {"incident_count"} /\ h[5] = {"history"} /\ h[6] = {"recent"}
      /\ h[7] = {"event_count"}
  BY DEF DashboardHolds, BriefHold, RiskHold, HistoryHold
<1> HIDE DEF h
<1>2. /\ Precedes(h, "brief", "risks") /\ Precedes(h, "risks", "history")
      /\ Precedes(h, "history", "recent") /\ Precedes(h, "recent", "event_count")
      /\ Precedes(h, "incidents", "incident_count")
  BY <1>1 DEF Precedes
<1>3. view.name = "dashboard" =>
        /\ Saw("brief") \subseteq Saw("risks")
        /\ Saw("risks") \subseteq Saw("history")
        /\ Saw("history") \subseteq Saw("recent")
        /\ Saw("recent") \subseteq Saw("event_count")
  BY <1>2, LaterCovers DEF Holds, h, Covers, FromIncidents, FromEvents
<1>4. "incidents" \in DOMAIN view.got /\ "incident_count" \in DOMAIN view.got
        => Tracked(Saw("incidents")) \subseteq Tracked(Saw("incident_count"))
  <2> SUFFICES ASSUME "incident_count" \in DOMAIN view.got
               PROVE  Tracked(Saw("incidents")) \subseteq Tracked(Saw("incident_count"))
    OBVIOUS
  <2>1. PICK i \in DOMAIN Holds[view.name] : "incident_count" \in Holds[view.name][i]
    BY ViewsReadOnce DEF PageInOrder, Complete, ReadInOrder, OnceEach
  <2>2. view.name \in {"dashboard", "timeline", "summary", "incidents", "events"}
    BY DEF PageInOrder, Complete, Holds
  <2>3. ASSUME NEW first, NEW second, NEW j \in DOMAIN <<first, second>>,
               "incident_count" \in <<first, second>>[j]
        PROVE  "incident_count" \in first \/ "incident_count" \in second
    BY <2>3
  <2>4. view.name \notin {"timeline", "summary"}
    <3>1. view.name \in {"timeline", "summary"} => Holds[view.name] = <<{"incidents"}, {"history"}>>
      BY DEF Holds, TimelineHolds, SummaryHolds, HistoryHold
    <3> QED
      BY <2>1, <2>3, <3>1
  <2>5. view.name # "events"
    <3> SUFFICES ASSUME view.name = "events" PROVE FALSE
      OBVIOUS
    <3>1. Holds[view.name] = <<{"recent", "event_count"}>>
      BY DEF Holds, EventPageHolds
    <3> QED
      BY <2>1, <3>1
  <2>6. Precedes(IncidentPageHolds, "incidents", "incident_count")
    <3>1. /\ DOMAIN IncidentPageHolds = 1..2
          /\ IncidentPageHolds[1] = {"incidents"} /\ IncidentPageHolds[2] = {"incident_count"}
      BY DEF IncidentPageHolds
    <3> QED
      BY <3>1 DEF Precedes
  <2>7. Precedes(Holds[view.name], "incidents", "incident_count")
    BY <1>2, <2>2, <2>4, <2>5, <2>6 DEF Holds, h
  <2>8. Covers("incident_count", Saw("incident_count"), "incidents", Saw("incidents"))
    BY <2>7, LaterCovers
  <2> QED
    BY <2>8 DEF Covers, FromIncidents
<1> QED
  BY <1>3, <1>4 DEF ShownIsCounted

(* One hold reads the page of events and its total. *)
LEMMA EventsAgree == PageInOrder => EventPageAgrees
<1> SUFFICES ASSUME PageInOrder, Complete, view.name = "events"
             PROVE  Saw("recent") = Saw("event_count")
  BY DEF EventPageAgrees
<1>1. Precedes(EventPageHolds, "recent", "event_count")
      /\ Precedes(EventPageHolds, "event_count", "recent")
  BY DEF Precedes, EventPageHolds
<1>2. Holds[view.name] = EventPageHolds
  BY DEF Holds
<1>3. /\ Covers("event_count", Saw("event_count"), "recent", Saw("recent"))
      /\ Covers("recent", Saw("recent"), "event_count", Saw("event_count"))
  BY <1>1, <1>2, LaterCovers
<1> QED
  BY <1>3 DEF Covers, FromIncidents, FromEvents

-----------------------------------------------------------------------------
(* ORDER BY puts the rows in one line. *)
LEMMA InLine ==
  ASSUME NEW order, NEW S, Orders(order, S)
  PROVE  /\ \A q, r \in S : Listed(order, q, r) \/ Listed(order, r, q)
         /\ \A q, r \in S : Listed(order, q, r) /\ Listed(order, r, q) => q = r
         /\ \A p, q, r \in S : Listed(order, p, q) /\ Listed(order, q, r) => Listed(order, p, r)
<1>1. /\ DOMAIN order = 1..Cardinality(S) /\ Cardinality(S) \in Nat
      /\ \A r \in S : \E i \in DOMAIN order : order[i] = r
      /\ \A i, j \in DOMAIN order : order[i] = order[j] => i = j
  BY FS_CardinalityType DEF Orders
<1>2. \A i \in DOMAIN order : i \in Nat
  BY <1>1
<1>3. ASSUME NEW q \in S, NEW r \in S PROVE Listed(order, q, r) \/ Listed(order, r, q)
  BY <1>1, <1>2 DEF Listed
<1>4. ASSUME NEW q \in S, NEW r \in S, Listed(order, q, r), Listed(order, r, q) PROVE q = r
  BY <1>1, <1>2, <1>4 DEF Listed
<1>5. ASSUME NEW p \in S, NEW q \in S, NEW r \in S, Listed(order, p, q), Listed(order, q, r)
      PROVE  Listed(order, p, r)
  BY <1>1, <1>2, <1>5 DEF Listed
<1> QED
  BY <1>3, <1>4, <1>5

(* Any rows have a first and a last in the line. *)
LEMMA FirstAndLast ==
  ASSUME NEW order, NEW S, Orders(order, S), NEW R \in SUBSET S, R # {}
  PROVE  /\ \E r \in R : \A q \in R : Listed(order, r, q)
         /\ \E r \in R : \A q \in R : Listed(order, q, r)
<1> DEFINE T == {i \in DOMAIN order : order[i] \in R}
<1>1. /\ DOMAIN order = 1..Cardinality(S) /\ Cardinality(S) \in Nat
      /\ \A r \in R : \E i \in T : order[i] = r
  BY FS_CardinalityType DEF Orders
<1>2. T \in SUBSET (1..Cardinality(S)) /\ T \in SUBSET Nat /\ T # {}
      /\ \A i \in T : i \in DOMAIN order /\ order[i] \in R
  BY <1>1
<1> HIDE DEF T
<1>3. PICK i \in T : \A j \in T : i <= j
  BY <1>2, Least
<1>4. PICK k \in T : \A j \in T : j <= k
  BY <1>1, <1>2, Greatest
<1>5. \A q \in R : Listed(order, order[i], q)
  BY <1>1, <1>2, <1>3 DEF Listed
<1>6. \A q \in R : Listed(order, q, order[k])
  BY <1>1, <1>2, <1>4 DEF Listed
<1> QED
  BY <1>2, <1>5, <1>6

(* A row's rank counts it, and the rows that are listed before it. *)
LEMMA Ranked ==
  ASSUME NEW order, NEW S, Orders(order, S), NEW R \in SUBSET S
  PROVE  /\ IsFiniteSet(R)
         /\ \A r \in R : RankIn(order, R, r) \in Nat /\ RankIn(order, R, r) >= 1
         /\ \A Q \in SUBSET R, r \in R : RankIn(order, Q, r) <= RankIn(order, R, r)
<1>1. IsFiniteSet(R) /\ IsFiniteSet(S)
  BY FS_Subset DEF Orders
<1>2. ASSUME NEW r \in R
      PROVE  RankIn(order, R, r) \in Nat /\ RankIn(order, R, r) >= 1
  <2> DEFINE below == {q \in R : Listed(order, q, r)}
  <2>1. r \in below
    BY InLine
  <2>2. IsFiniteSet(below)
    BY <1>1, FS_Subset
  <2> HIDE DEF below
  <2>3. Cardinality(below) \in Nat /\ Cardinality(below) # 0
    BY <2>1, <2>2, FS_CardinalityType, FS_EmptySet
  <2> QED
    BY <2>3 DEF RankIn, below
<1>3. ASSUME NEW Q \in SUBSET R, NEW r \in R
      PROVE  RankIn(order, Q, r) <= RankIn(order, R, r)
  <2> DEFINE below == {q \in R : Listed(order, q, r)}
             fewer == {q \in Q : Listed(order, q, r)}
  <2>1. IsFiniteSet(below) /\ fewer \in SUBSET below
    BY <1>1, FS_Subset
  <2> HIDE DEF below, fewer
  <2>2. Cardinality(fewer) <= Cardinality(below)
    BY <2>1, FS_Subset
  <2> QED
    BY <2>2 DEF RankIn, below, fewer
<1> QED
  BY <1>1, <1>2, <1>3

(* At most n rows have a rank up to n. *)
LEMMA FewBefore ==
  ASSUME NEW order, NEW S, Orders(order, S), NEW R \in SUBSET S, NEW n \in Nat
  PROVE  Cardinality({r \in R : RankIn(order, R, r) <= n}) <= n
<1> DEFINE before == {r \in R : RankIn(order, R, r) <= n}
<1>1. IsFiniteSet(R) /\ IsFiniteSet(before)
  BY Ranked, FS_Subset
<1>2. CASE before = {}
  <2> HIDE DEF before
  <2>1. Cardinality(before) = 0
    BY <1>2, FS_EmptySet
  <2> QED
    BY <2>1 DEF before
<1>3. CASE before # {}
  <2>1. PICK r \in before : \A q \in before : Listed(order, q, r)
    BY <1>3, FirstAndLast
  <2> DEFINE below == {q \in R : Listed(order, q, r)}
  <2>2. IsFiniteSet(below) /\ before \in SUBSET below
    BY <1>1, <2>1, FS_Subset
  <2>3. Cardinality(below) <= n
    BY <2>1 DEF RankIn
  <2> HIDE DEF below, before
  <2>4. Cardinality(before) <= Cardinality(below)
        /\ Cardinality(before) \in Nat /\ Cardinality(below) \in Nat
    BY <1>1, <2>2, FS_Subset, FS_CardinalityType
  <2>5. Cardinality(before) <= n
    BY <2>3, <2>4
  <2> QED
    BY <2>5 DEF before
<1> QED
  BY <1>2, <1>3

(* If some row has a higher rank, they are no fewer than n. *)
LEMMA ManyBefore ==
  ASSUME NEW order, NEW S, Orders(order, S), NEW R \in SUBSET S, NEW n \in Nat,
         NEW far \in R, n < RankIn(order, R, far)
  PROVE  n <= Cardinality({r \in R : RankIn(order, R, r) <= n})
<1> DEFINE before == {r \in R : RankIn(order, R, r) <= n}
           after == R \ before
<1>1. IsFiniteSet(R) /\ IsFiniteSet(before)
  BY Ranked, FS_Subset
<1>2. far \in after /\ after \in SUBSET S
  BY Ranked
<1>3. PICK r \in after : \A q \in after : Listed(order, r, q)
  <2> HIDE DEF after
  <2> QED
    BY <1>2, FirstAndLast
<1> DEFINE below == {q \in R : Listed(order, q, r)}
<1>4. below \in SUBSET (before \cup {r})
  <2> SUFFICES ASSUME NEW q \in R, Listed(order, q, r), q # r PROVE q \in before
    OBVIOUS
  <2>1. q \notin after
    BY <1>3, InLine
  <2> QED
    BY <2>1
<1>5. n < Cardinality(below) /\ r \notin before
  <2>1. r \in R /\ r \notin before /\ RankIn(order, R, r) \in Nat
    BY <1>3, Ranked
  <2>2. RankIn(order, R, r) = Cardinality(below)
    BY DEF RankIn
  <2> QED
    BY <2>1, <2>2
<1> HIDE DEF before, below
<1>6. IsFiniteSet(before \cup {r}) /\ Cardinality(before \cup {r}) = Cardinality(before) + 1
  BY <1>1, <1>5, FS_AddElement
<1>7. Cardinality(below) <= Cardinality(before) + 1
  BY <1>4, <1>6, FS_Subset
<1>8. Cardinality(before) \in Nat /\ Cardinality(below) \in Nat
  BY <1>1, <1>4, <1>6, FS_Subset, FS_CardinalityType
<1>9. n <= Cardinality(before)
  BY <1>5, <1>7, <1>8
<1> QED
  BY <1>9 DEF before

PageAt(order, rows, from, size) ==
  {r \in rows : from < RankIn(order, rows, r) /\ RankIn(order, rows, r) <= from + size}

(* A page that leaves any row further down is full. *)
LEMMA FullPage ==
  ASSUME NEW order, NEW S, Orders(order, S), NEW R \in SUBSET S,
         NEW from \in Nat, NEW size \in Nat,
         NEW far \in R, from + size < RankIn(order, R, far)
  PROVE  size <= Cardinality(PageAt(order, R, from, size))
<1> DEFINE rank(r) == RankIn(order, R, r)
           upto == {r \in R : rank(r) <= from + size}
           past == {r \in R : rank(r) <= from}
           page == {r \in R : from < rank(r) /\ rank(r) <= from + size}
<1>1. \A r \in R : rank(r) \in Nat
  BY Ranked
<1>2. IsFiniteSet(upto)
  BY Ranked, FS_Subset
<1>3. from + size <= Cardinality(upto) /\ Cardinality(past) <= from
  BY ManyBefore, FewBefore
<1> HIDE DEF rank
<1>4. past \subseteq upto /\ page = upto \ past
  BY <1>1
<1> HIDE DEF upto, past, page
<1>5. IsFiniteSet(past) /\ upto \cap past = past
  BY <1>2, <1>4, FS_Subset
<1>6. Cardinality(page) = Cardinality(upto) - Cardinality(past)
  BY <1>2, <1>4, <1>5, FS_Difference, ZenonT(30)
<1>7. Cardinality(upto) \in Nat /\ Cardinality(past) \in Nat
  BY <1>2, <1>5, FS_CardinalityType
<1>8. size <= Cardinality(page)
  BY <1>3, <1>6, <1>7
<1> QED
  BY <1>8 DEF page, rank, PageAt

(* Rank and Page are the ranks and the page of the walk's own listing. *)
LEMMA WalksRows ==
  ASSUME StoresSound, NEW w, w.list \in {"events", "incidents"}
  PROVE  /\ \A r : Rank(w, r) = RankIn(OrderOf(w), Rows(w), r)
         /\ \E S : Orders(OrderOf(w), S) /\ Rows(w) \in SUBSET S
<1>1. CASE w.list = "incidents"
  <2>1. Rows(w) \in SUBSET IncidentIds
    BY <1>1 DEF Rows, Tracked
  <2> QED
    BY <1>1, <2>1, PagingAssumption DEF Rank, RankIn, OrderOf, IncidentListed
<1>2. CASE w.list = "events"
  <2>1. Rows(w) \in SUBSET AllEvents
    BY <1>2 DEF Rows, StoresSound
  <2> QED
    BY <1>2, <2>1, PagingAssumption DEF Rank, RankIn, OrderOf, EventListed
<1> QED
  BY <1>1, <1>2

(* A page shows the rows it is for and leaves the rest owing. *)
LEMMA TurnStep ==
  ASSUME StoresSound, NEW w, Owing(w, Rows(w))
  PROVE  Owing(Turned(w), Rows(Turned(w)))
<1> DEFINE next == Turned(w)
           o == OrderOf(w)
           R == Rows(w)
<1>1. /\ DOMAIN next = DOMAIN w /\ next.list = w.list /\ next.selection = w.selection
      /\ next.due = w.due \ Page(w) /\ next.offset = w.offset + PageSize
      /\ next.last = (Cardinality(Page(w)) < PageSize)
  BY DEF Turned, Owing
<1>2. OrderOf(next) = o /\ Rows(next) = R
  BY <1>1 DEF OrderOf, Rows
<1>3. PageSize \in Nat /\ w.offset \in Nat
  BY PagingAssumption DEF Owing
<1>4. PICK S : Orders(o, S) /\ R \in SUBSET S
  BY WalksRows DEF Owing
<1>5. Page(w) = PageAt(o, R, w.offset, PageSize)
  BY WalksRows DEF Page, PageAt, Owing
<1> HIDE DEF next, o, R
<1>6. \A r \in R : RankIn(o, R, r) \in Nat
  BY <1>4, Ranked
<1>7. \A r \in next.due : next.offset < RankIn(o, R, r)
  BY <1>1, <1>3, <1>5, <1>6 DEF Owing, PageAt, o, R
<1>8. next.last => next.due = {}
  <2> SUFFICES ASSUME next.last, NEW r \in next.due PROVE FALSE
    OBVIOUS
  <2>1. r \in R /\ w.offset + PageSize < RankIn(o, R, r)
    BY <1>1, <1>7 DEF Owing, R
  <2>2. PageSize <= Cardinality(Page(w))
    BY <1>3, <1>4, <1>5, <2>1, FullPage
  <2>3. Cardinality(Page(w)) \in Nat
    <3>1. Page(w) \in SUBSET R /\ IsFiniteSet(R)
      BY <1>4, <1>5, Ranked DEF PageAt
    <3> QED
      BY <3>1, FS_Subset, FS_CardinalityType
  <2> DEFINE shown == Cardinality(Page(w))
  <2>4. shown < PageSize
    BY <1>1
  <2> HIDE DEF shown
  <2>5. shown \in Nat /\ PageSize <= shown
    BY <2>2, <2>3 DEF shown
  <2> QED
    BY <1>3, <2>4, <2>5
<1>9. next.due \subseteq R /\ next.offset \in Nat
  BY <1>1, <1>3 DEF Owing, R
<1> QED
  BY <1>1, <1>2, <1>7, <1>8, <1>9 DEF Owing, next

(* Writes between two pages only push rows further down. *)
LEMMA MoreRows ==
  ASSUME NEW w, NEW rows, NEW more, NEW S, Orders(OrderOf(w), S),
         rows \subseteq more, more \subseteq S, Owing(w, rows)
  PROVE  Owing(w, more)
<1>1. ASSUME NEW r \in w.due PROVE w.offset < RankIn(OrderOf(w), more, r)
  <2>1. /\ RankIn(OrderOf(w), rows, r) <= RankIn(OrderOf(w), more, r)
        /\ RankIn(OrderOf(w), rows, r) \in Nat /\ RankIn(OrderOf(w), more, r) \in Nat
    BY Ranked DEF Owing
  <2> QED
    BY <2>1 DEF Owing
<1> QED
  BY <1>1 DEF Owing

(* Every step leaves a walk's rows where it will come to them. *)
LEMMA WalkNext ==
  StartInOrder /\ StoresSound /\ GatePassed /\ WalkInOrder /\ [Next]_vars => WalkInOrder'
<1> SUFFICES ASSUME StartInOrder, StoresSound, GatePassed, WalkInOrder, [Next]_vars,
                    walk' # NoWalk
             PROVE  Owing(walk', Rows(walk)')
  BY DEF WalkInOrder
<1>1. Grown
  BY TablesGrow
<1>2. CASE walk' = walk
  <2>1. Owing(walk, Rows(walk)) /\ walk.list \in {"events", "incidents"}
    BY <1>2 DEF WalkInOrder, Owing
  <2>2. Rows(walk) \subseteq Rows(walk)'
    BY <1>1, <1>2 DEF Rows, Grown
  <2>3. \E S : Orders(OrderOf(walk), S) /\ Rows(walk)' \subseteq S
    <3>1. Rows(walk)' \subseteq IF walk.list = "incidents" THEN IncidentIds ELSE AllEvents
      BY <1>1, <1>2 DEF Rows, Tracked, Grown
    <3> QED
      BY <3>1, PagingAssumption DEF OrderOf
  <2>4. Owing(walk, Rows(walk)')
    BY <2>1, <2>2, <2>3, MoreRows
  <2> QED
    BY <1>2, <2>4
<1>3. CASE Walk /\ UNCHANGED <<lifespanVars, gateVars, view>>
  <2>1. Rows(walk)' = Rows(walk')
    BY <1>3 DEF Rows, lifespanVars
  <2>2. CASE BeginWalk
    <3>1. PICK w \in [list : {"events"}, selection : Selections]
                       \cup [list : {"incidents"}, selection : {{}}] :
            walk' = Turned([list |-> w.list, selection |-> w.selection,
                            due |-> Rows(w), offset |-> 0, last |-> FALSE])
      BY <2>2 DEF BeginWalk
    <3> DEFINE first == [list |-> w.list, selection |-> w.selection,
                         due |-> Rows(w), offset |-> 0, last |-> FALSE]
    <3>2. first.list \in {"events", "incidents"} /\ first.due = Rows(first)
          /\ first.offset = 0 /\ ~first.last
          /\ DOMAIN first = {"list", "selection", "due", "offset", "last"}
      BY DEF Rows
    <3> HIDE DEF first
    <3>3. \A r \in Rows(first) : 0 < RankIn(OrderOf(first), Rows(first), r)
      BY <3>2, WalksRows, Ranked, SMTT(30)
    <3>4. Owing(first, Rows(first))
      BY <3>2, <3>3 DEF Owing
    <3> QED
      BY <2>1, <3>1, <3>4, TurnStep DEF first
  <2>3. CASE NextPage
    BY <2>1, <2>3, TurnStep DEF NextPage, WalkInOrder
  <2>4. CASE EndWalk
    BY <2>4 DEF EndWalk
  <2> QED
    BY <1>3, <2>2, <2>3, <2>4 DEF Walk
<1> QED
  BY <1>2, <1>3 DEF Next, vars

-----------------------------------------------------------------------------
(* Before anything runs there is nothing stored, asked, shown or walked. *)
LEMMA InvInit == Init => Inv
<1> SUFFICES ASSUME Init PROVE Inv
  OBVIOUS
<1>1. StartInOrder
  BY StartInit
<1>2. StoresSound
  BY DEF Init, LifespanInit, GateInit, StoresSound, Tracked
<1>3. GatePassed
  BY GateAssumption DEF Init, GateInit, GatePassed
<1>4. PageInOrder /\ WalkInOrder
  BY DEF Init, ViewInit, WalkInit, PageInOrder, WalkInOrder, Assembling
<1> QED
  BY <1>1, <1>2, <1>3, <1>4 DEF Inv

(* Each layer is kept, given those above it. *)
LEMMA InvNext == Inv /\ [Next]_vars => Inv'
BY StartNext, StoresNext, GateNext, PageNext, WalkNext DEF Inv

(* The service is never found out of order. *)
THEOREM SafetyInvariant == Spec => []Inv
BY InvInit, InvNext, PTL DEF Spec

(* Variables keep to their domains, and stored incidents cite evidence. *)
THEOREM TypeCorrect == Spec => []TypeOK
<1>1. Inv => TypeOK
  <2> SUFFICES ASSUME Inv PROVE TypeOK
    OBVIOUS
  <2>1. request # NoRequest =>
          /\ request.r \in Requests
          /\ request.stage \in {"receive", "handle", "store", "answered"}
          /\ request.status \in {0, 200, 201, 202, 400, 401, 403, 404, 409, 413, 422, 500}
    BY DEF Inv, GatePassed, Passed, Statuses
  <2>2. walk # NoWalk => walk.offset \in Nat /\ walk.due \subseteq AllEvents \cup IncidentIds
    BY DEF Inv, WalkInOrder, Owing, Rows, Tracked, StoresSound
  <2>3. Assembling =>
          view.name \in DOMAIN Holds /\ DOMAIN view.got \subseteq FromIncidents \cup FromEvents
    BY ViewsReadOnce DEF Inv, PageInOrder, ReadInOrder, OnceEach, Reads
  <2>4. opened \subseteq {"event_store", "incident_store"}
    BY DEF Inv, StartInOrder
  <2> QED
    BY <2>1, <2>2, <2>3, <2>4
       DEF TypeOK, Inv, StartInOrder, StoresSound, GatePassed, Phases, Stages
<1> QED
  BY <1>1, SafetyInvariant, PTL

(* Whatever is being served has both stores open behind it, and a demo has    *)
(* events (main.py:28-31).                                                    *)
THEOREM ServedIsWhole == Spec => []PublishedIsWhole
<1>1. Inv => PublishedIsWhole
  BY DEF Inv, StartInOrder, StoresSound, PublishedIsWhole, Serving, Phases
<1> QED
  BY <1>1, SafetyInvariant, PTL

(* No more than the bound plus a chunk is ever received, and no more than the *)
(* bound is handled (api/limits.py).                                          *)
THEOREM ReceiptBounded == Spec => []ReceiptIsBounded
<1>1. Inv => ReceiptIsBounded
  BY GateAssumption DEF Inv, GatePassed, Passed, ReceiptIsBounded
<1> QED
  BY <1>1, SafetyInvariant, PTL

(* A webhook's event is stored only as it was signed, near its stamp          *)
(* (webhooks.py).                                                             *)
THEOREM OnlyAsSigned == Spec => []AcceptedAsSigned
<1>1. Inv => AcceptedAsSigned
  BY DEF Inv, GatePassed, Passed, AcceptedAsSigned, AsSigned, ComputeSignature
<1> QED
  BY <1>1, SafetyInvariant, PTL

(* No page calls evidence missing (services/dashboard.py,                     *)
(* incident_timeline_reporting.py).                                           *)
THEOREM EvidenceAlwaysResolves == Spec => []EvidenceResolves
BY SafetyInvariant, PageResolves, PTL DEF Inv

(* The panels of a page lag behind one another in one direction only.         *)
THEOREM PanelsLag == Spec => []ShownIsCounted
BY SafetyInvariant, PageCounts, PTL DEF Inv

(* The event listing's total agrees with its page (retrieval.py).             *)
THEOREM TotalsAgree == Spec => []EventPageAgrees
BY SafetyInvariant, EventsAgree, PTL DEF Inv

(* Walking a listing leaves out no row that matched at the start, whatever is *)
(* written between the pages (event_store.py:351-353).                        *)
THEOREM NoGaps == Spec => []WalkMissesNothing
<1>1. Inv => WalkMissesNothing
  BY DEF Inv, WalkInOrder, Owing, WalkMissesNothing
<1> QED
  BY <1>1, SafetyInvariant, PTL

(* Nobody reads or writes before the schema is whole, and at most one opening *)
(* is ever refused for it (database.py:98-101).                               *)
THEOREM SchemaHeals == Spec => []MigrationHeals
<1>1. Inv => MigrationHeals
  <2>1. Cardinality(Processes) = 2
    <3>1. IsFiniteSet({"service"}) /\ Cardinality({"service"}) = 1
      BY FS_Singleton
    <3>2. Cardinality({"service"} \cup {"tool"}) = 2
      BY <3>1, FS_AddElement
    <3>3. Processes = {"service"} \cup {"tool"}
      BY DEF Processes
    <3> QED
      BY <3>2, <3>3
  <2> QED
    BY <2>1 DEF Inv, StartInOrder, MigrationHeals, Opened, Processes, Serving, Phases, Starting
<1> QED
  BY <1>1, SafetyInvariant, PTL

(* Demo events arrive together and only in an empty store, however often the  *)
(* service is started (seed.py:10-12).                                        *)
THEOREM SeedingMixesNothing == Spec => SeedingNeverMixes
<1> DEFINE A == events' \cap DemoEvents # events \cap DemoEvents
                  => events = {} /\ events' = DemoEvents
<1>1. Inv /\ [Next]_vars => [A]_vars
  <2> SUFFICES ASSUME Inv, Next, events' # events PROVE A
    BY DEF vars, lifespanVars
  <2>1. CASE SeedEvents
    BY <2>1 DEF SeedEvents, MaySeed
  <2>2. CASE StoreEvent
    BY <2>2, GateAssumption, LifespanAssumption
       DEF StoreEvent, At, Inv, GatePassed, Passed, Request
  <2> QED
    BY <2>1, <2>2 DEF Next, Start, AbandonStart, RefusedStart, Launch, Configure,
       MigrateSchema, OpenEventStore, OpenIncidentStore, SkipSeeding, SeedIncident, Publish,
       Shutdown, Crash, Store, StoreIncident, StoreRefuses, StoreFails, lifespanVars
<1> QED
  BY <1>1, SafetyInvariant, PTL DEF Spec, SeedingNeverMixes

(* A process that says it takes no writes stores nothing and takes in no body *)
(* (config.py:57-65).                                                         *)
THEOREM ReadOnlyKeepsOut == Spec => ReadOnlyTakesNothing
<1> DEFINE A == Serving /\ (settings.readOnly \/ settings.demo)
                  => /\ UNCHANGED <<events, incidents>>
                     /\ request' # NoRequest => request'.received = 0
<1>1. Inv /\ Inv' /\ [Next]_vars => [A]_vars
  <2> SUFFICES ASSUME Inv, Inv', Next, Serving, settings.readOnly \/ settings.demo
               PROVE  /\ UNCHANGED <<events, incidents>>
                      /\ request' # NoRequest => request'.received = 0
    BY DEF vars, lifespanVars, gateVars
  <2>1. ~Store
    BY DEF Store, StoreEvent, StoreIncident, StoreRefuses, StoreFails, At, Inv, GatePassed,
       Passed, IsReadOnly
  <2>2. ~SeedEvents /\ ~SeedIncident
    BY DEF SeedEvents, SeedIncident, Serving
  <2>3. UNCHANGED <<events, incidents>>
    BY <2>1, <2>2 DEF Next, Start, AbandonStart, RefusedStart, Launch, Configure,
       MigrateSchema, OpenEventStore, OpenIncidentStore, SkipSeeding, Publish,
       Shutdown, Crash, lifespanVars
  <2>4. CASE settings' = settings
    <3>1. IsReadOnly'
      BY <2>4 DEF IsReadOnly
    <3>2. request' # NoRequest => Passed(request)'
      BY DEF Inv, GatePassed
    <3> QED
      BY <2>3, <3>1, <3>2 DEF Passed
  <2>5. CASE settings' # settings
    <3>1. ~Launch /\ ~AbandonStart /\ ~RefusedStart
      BY DEF Launch, AbandonStart, RefusedStart, Serving, Starting, ColumnTaken, Proceed,
         Inv, StartInOrder, Processes
    <3>2. request' = NoRequest
      BY <2>1, <2>5, <3>1 DEF Next, Start, Configure, MigrateSchema, OpenEventStore,
         OpenIncidentStore, SkipSeeding, SeedEvents, SeedIncident, Publish, Shutdown, Crash,
         Drained, gateVars, lifespanVars
    <3> QED
      BY <2>3, <3>2
  <2> QED
    BY <2>3, <2>4, <2>5
<1> QED
  BY <1>1, SafetyInvariant, PTL DEF Spec, ReadOnlyTakesNothing
=============================================================================
