--------------------------------- MODULE Service --------------------------------
(*****************************************************************************)
(* The running service: its lifespan, a write request passing the gate and a *)
(* page being assembled from the same stores, across restarts.               *)
(*****************************************************************************)
EXTENDS RequestGate, Views, Paging

vars == <<lifespanVars, gateVars, view, walk>>

Init == LifespanInit /\ GateInit /\ ViewInit /\ WalkInit

(* The server, outside this code, lets requests finish before it shuts down. *)
Drained == request = NoRequest /\ ~Assembling

Next ==
  \/ (Start \/ AbandonStart \/ RefusedStart) /\ UNCHANGED <<gateVars, view, walk>>
  \/ Shutdown /\ Drained /\ UNCHANGED <<gateVars, view, walk>>
  \/ Crash /\ request' = NoRequest /\ view' = NoView /\ UNCHANGED <<clock, walk>>
  \/ Pass /\ UNCHANGED <<lifespanVars, view, walk>>
  \/ Store /\ UNCHANGED <<phase, settings, opened, published, stops, migrationVars, view, walk>>
  \/ View /\ UNCHANGED <<lifespanVars, gateVars, walk>>
  \/ Walk /\ UNCHANGED <<lifespanVars, gateVars, view>>
  \/ /\ Tool
     /\ UNCHANGED <<events, incidents, phase, settings, opened, published, stops>>
     /\ UNCHANGED <<gateVars, view, walk>>

Spec == Init /\ [][Next]_vars

-----------------------------------------------------------------------------
RowOf == [status : {"open", "resolved"}, cites : (SUBSET AllEvents) \ {{}}]

(* None is not a row. *)
ASSUME RowsAssumption == NoRow \notin RowOf

(* Every variable keeps to its domain, and a stored incident cites evidence. *)
TypeOK ==
  /\ events \subseteq AllEvents
  /\ incidents \in [IncidentIds -> RowOf \cup {NoRow}]
  /\ phase \in Starting \cup {"down", "serving"}
  /\ settings \in SettingsChoices \cup {NoSettings}
  /\ opened \subseteq {"event_store", "incident_store"}
  /\ published \in BOOLEAN
  /\ stops \in 0..MaxStops
  /\ clock \in 0..MaxTime
  /\ request # NoRequest =>
       /\ request.r \in Requests
       /\ request.stage \in {"receive", "handle", "store", "answered"}
       /\ request.status \in {0, 200, 201, 202, 400, 401, 403, 404, 409, 413, 422, 500}
  /\ schema \in {"absent", "old", "whole"}
  /\ opener \in [Processes -> {"closed", "look", "alter", "open"}]
  /\ walk # NoWalk => walk.offset \in Nat /\ walk.due \subseteq AllEvents \cup IncidentIds
  /\ Assembling =>
       /\ view.name \in DOMAIN Holds
       /\ DOMAIN view.got \subseteq FromIncidents \cup FromEvents

(* Nothing is half published (main.py:28-31): whatever is being served has    *)
(* both stores open behind it, a process that is down holds none of them, and *)
(* a demo is served only from a store that has events.                        *)
PublishedIsWhole ==
  /\ published <=> Serving
  /\ published => /\ opened = {"event_store", "incident_store"}
                  /\ settings.demo => events # {}
  /\ phase = "down" => opened = {}
  /\ ~Drained => published

(* "It never mixes synthetic data into a store that already holds real        *)
(* events and never seeds a second time across restarts" (seed.py:10-12):     *)
(* demo events arrive together and only in an empty store, whatever the       *)
(* settings of earlier processes were.                                        *)
SeedingNeverMixes ==
  [][events' \cap DemoEvents # events \cap DemoEvents
       => events = {} /\ events' = DemoEvents]_vars

(* A process that says it takes no writes serves none, demos included         *)
(* (config.py:57-65), and takes in no body.                                   *)
ReadOnlyTakesNothing ==
  [][Serving /\ (settings.readOnly \/ settings.demo)
       => /\ UNCHANGED <<events, incidents>>
          /\ request' # NoRequest => request'.received = 0]_vars

(* Receipt stops at the bound plus at most one chunk, and what is parsed,     *)
(* verified or stored was within the bound (api/limits.py:9-14), however the  *)
(* body is cut and whatever length it declares.                               *)
ReceiptIsBounded ==
  request # NoRequest =>
    /\ request.received < Limit + MaxChunk + 1
    /\ request.stage \in {"handle", "store"} => request.received <= Limit
    /\ request.status \in {200, 201, 202} => request.received <= Limit

(* A webhook's event is stored only as its holder of the secret signed it, at *)
(* an instant near the one it was signed for: a delivery that was altered,    *)
(* re-stamped or kept past the window is refused (webhooks.py:59-76).         *)
AcceptedAsSigned ==
  request # NoRequest /\ request.r.route = "webhook"
  /\ (request.stage = "store" \/ request.status = 202)
    => \E t \in 0..MaxTime :
         /\ request.r.signature = [event |-> request.r.event, stamp |-> t]
         /\ Distance(request.judged, t) <= Tolerance

(* No view names a cited event as missing: an incident cites what is stored,  *)
(* nothing is deleted, and the history is read after the incidents            *)
(* (services/dashboard.py:253-258, incident_timeline_reporting.py:29-33),     *)
(* even if incidents are declared over new events meanwhile.                  *)
EvidenceResolves ==
  Complete /\ view.name \in {"dashboard", "timeline", "summary"}
    => \A i \in Tracked(Saw("incidents")) : Saw("incidents")[i].cites \subseteq Saw("history")

(* What a page shows, its total counts, and the panels of the dashboard only  *)
(* ever lag behind one another: the brief's actions speak of no event the     *)
(* risks, the timelines or the total do not know.                             *)
ShownIsCounted ==
  Complete =>
    /\ "incidents" \in DOMAIN view.got /\ "incident_count" \in DOMAIN view.got
         => Tracked(Saw("incidents")) \subseteq Tracked(Saw("incident_count"))
    /\ view.name = "dashboard" =>
         /\ Saw("brief") \subseteq Saw("risks")
         /\ Saw("risks") \subseteq Saw("history")
         /\ Saw("history") \subseteq Saw("recent")
         /\ Saw("recent") \subseteq Saw("event_count")

(* "Successive pages of the same filters walk the whole result without gaps"  *)
(* (event_store.py:351-353; incident_store.py:196-199 calls it safe):         *)
(* whatever is stored or resolved between two pages, and across restarts, no  *)
(* row is left out at the last page that matched when the first was read.     *)
(* What a walk can miss (events/schema.py:240-245) is only what was stored    *)
(* after it began; rows may repeat.                                           *)
WalkMissesNothing == walk # NoWalk /\ walk.last => walk.due = {}

(* "A database created by an earlier version gains them rather than failing   *)
(* when a query names a column its table does not have" (database.py:98-101): *)
(* nobody reads or writes before the schema is whole, whoever opened it; and  *)
(* of the processes opening it at once at most all but one are turned away,   *)
(* once, because it is whole already, so trying again succeeds.               *)
MigrationHeals ==
  /\ Serving \/ Opened("service") \/ Opened("tool") => schema = "whole"
  /\ refused < Cardinality(Processes)
  /\ refused > 0 => schema = "whole" /\ \A p \in Processes : opener[p] # "alter"

(* "Within a request the total agrees with the page" of the event listing     *)
(* (services/retrieval.py:24-27).                                             *)
EventPageAgrees ==
  Complete /\ view.name = "events" => Saw("recent") = Saw("event_count")

-----------------------------------------------------------------------------
(* "So a public demo shows a populated dashboard (..., and a tracked          *)
(* incident with a timeline)" (README.md:414-418): a seeded store that is     *)
(* being served has the demo incident.                                        *)
DemoIsPopulated == Serving /\ settings.demo /\ DemoEvents \subseteq events
                     => incidents[DemoIncident] # NoRow
=============================================================================
