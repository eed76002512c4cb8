-------------------------------- MODULE Lifespan --------------------------------
(*****************************************************************************)
(* The application's lifespan (main.py): settings are read and validated,    *)
(* the two stores are opened into one ExitStack, the demo data is seeded     *)
(* (samples/seed.py), the stores are published, and after serving everything *)
(* is closed again.  A step may raise and the process may stop at any point. *)
(*                                                                           *)
(* The stores' contents outlive the process.  A write is atomic here:        *)
(* EventStore and IncidentStore model how that comes about.                  *)
(*****************************************************************************)
EXTENDS Migration

CONSTANTS
  DemoEvents,     (* the match-day fixture                                   *)
  LiveEvents,     (* events that clients submit                              *)
  DemoIncident,   (* the worked quality-control incident                     *)
  DemoEvidence,   (* the demo event it cites                                 *)
  LiveIncidents,  (* incidents that clients declare                          *)
  SettingsChoices, (* the settings a process may be started with             *)
  MaxStops,       (* failed starts, stops and crashes in a behaviour         *)
  NoRow, NoSettings

ASSUME LifespanAssumption ==
  /\ DemoEvents \cap LiveEvents = {}
  /\ DemoIncident \notin LiveIncidents
  /\ DemoEvidence \in DemoEvents
  /\ MaxStops \in Nat
  /\ SettingsChoices \subseteq [demo : BOOLEAN, readOnly : BOOLEAN, secret : BOOLEAN]

VARIABLES
  events,    (* ids in the events table                                      *)
  incidents, (* per incident id: its row, or NoRow                           *)
  phase,     (* where the process is                                         *)
  settings,  (* get_settings() of the process, or NoSettings                 *)
  opened,    (* stores entered into the ExitStack                            *)
  published, (* app.state holds the stores                                   *)
  stops

lifespanVars == <<events, incidents, phase, settings, opened, published, stops, migrationVars>>

AllEvents == DemoEvents \cup LiveEvents
IncidentIds == LiveIncidents \cup {DemoIncident}
Row(status, cites) == [status |-> status, cites |-> cites]
Tracked(rows) == {i \in IncidentIds : rows[i] # NoRow}

Starting == {"configure", "open_events", "open_incidents", "seed", "seed_incident", "publish"}
Serving == phase = "serving"

LifespanInit ==
  /\ events = {}
  /\ incidents = [i \in IncidentIds |-> NoRow]
  /\ phase = "down" /\ opened = {} /\ published = FALSE
  /\ settings = NoSettings
  /\ stops = 0
  /\ MigrationInit

(* The process starts: the settings are read once and cached.  Values         *)
(* validate_settings refuses raise in `configure' (AbandonStart).             *)
Launch ==
  /\ phase = "down"
  /\ phase' = "configure"
  /\ settings' \in SettingsChoices
  /\ UNCHANGED <<events, incidents, opened, published, stops, migrationVars>>

Configure ==
  /\ phase = "configure"
  /\ phase' = "open_events"
  /\ UNCHANGED <<events, incidents, settings, opened, published, stops, migrationVars>>

(* Each store brings the schema up to date as it opens. *)
MigrateSchema ==
  /\ phase \in {"open_events", "open_incidents"}
  /\ CreateSchema("service")
  /\ UNCHANGED <<events, incidents, phase, settings, opened, published, stops>>

OpenEventStore ==
  /\ phase = "open_events" /\ Opened("service")
  /\ phase' = "open_incidents"
  /\ opened' = {"event_store"}
  /\ opener' = Closed("service")
  /\ UNCHANGED <<events, incidents, settings, published, stops, schema, refused>>

OpenIncidentStore ==
  /\ phase = "open_incidents" /\ Opened("service")
  /\ phase' = IF settings.demo THEN "seed" ELSE "publish"
  /\ opened' = opened \cup {"incident_store"}
  /\ opener' = Closed("service")
  /\ UNCHANGED <<events, incidents, settings, published, stops, schema, refused>>

(* Seeding is skipped unless the event store is empty.  The variant seeds     *)
(* whenever the demo data is not all there.                                   *)
IncompleteOnly == ~(DemoEvents \subseteq events)
MaySeed == events = {}

SkipSeeding ==
  /\ phase = "seed"
  /\ ~MaySeed
  /\ phase' = "publish"
  /\ UNCHANGED <<events, incidents, settings, opened, published, stops, migrationVars>>

(* EventStore.add_all: all the demo events in one transaction. *)
SeedEvents ==
  /\ phase = "seed"
  /\ MaySeed
  /\ events' = events \cup DemoEvents
  /\ phase' = "seed_incident"
  /\ UNCHANGED <<incidents, settings, opened, published, stops, migrationVars>>

(* build_sample_qc_incident.  The variant cites no event. *)
Unfounded == Row("resolved", {})
DemoRow == Row("resolved", {DemoEvidence})

(* IncidentStore.add, in a transaction of its own, unless it is there. *)
SeedIncident ==
  /\ phase = "seed_incident"
  /\ incidents' = IF incidents[DemoIncident] = NoRow
                  THEN [incidents EXCEPT ![DemoIncident] = DemoRow]
                  ELSE incidents
  /\ phase' = "publish"
  /\ UNCHANGED <<events, settings, opened, published, stops, migrationVars>>

Publish ==
  /\ phase = "publish"
  /\ phase' = "serving"
  /\ published' = TRUE
  /\ UNCHANGED <<events, incidents, settings, opened, stops, migrationVars>>

(* What the ExitStack leaves open when an exception passes it.  The variant   *)
(* enters each store into a block of its own that is left too early.          *)
StillOpen == opened
ClosedByStack == {}

(* A step of the start raises: the stack closes what was opened. *)
AbandonStart ==
  /\ phase \in Starting
  /\ stops < MaxStops
  /\ stops' = stops + 1
  /\ phase' = "down"
  /\ opened' = ClosedByStack
  /\ settings' = NoSettings
  /\ opener' = Closed("service")
  /\ UNCHANGED <<events, incidents, published, schema, refused>>

(* A start refused by the schema: as above, with nothing to bound. *)
RefusedStart ==
  /\ ColumnTaken("service")
  /\ phase' = "down"
  /\ opened' = ClosedByStack
  /\ settings' = NoSettings
  /\ UNCHANGED <<events, incidents, published, stops>>

(* An orderly shutdown: the finally clause, then the stack.  The server has   *)
(* let the requests it was serving finish.                                    *)
Shutdown ==
  /\ Serving
  /\ stops < MaxStops
  /\ stops' = stops + 1
  /\ phase' = "down"
  /\ published' = FALSE
  /\ opened' = ClosedByStack
  /\ settings' = NoSettings
  /\ UNCHANGED <<events, incidents, migrationVars>>

(* The process is killed. *)
Crash ==
  /\ phase # "down"
  /\ stops < MaxStops
  /\ stops' = stops + 1
  /\ phase' = "down"
  /\ published' = FALSE
  /\ opened' = {}
  /\ settings' = NoSettings
  /\ opener' = Closed("service")
  /\ UNCHANGED <<events, incidents, schema, refused>>

Start ==
  \/ Launch \/ Configure \/ MigrateSchema \/ OpenEventStore \/ OpenIncidentStore
  \/ SkipSeeding \/ SeedEvents \/ SeedIncident \/ Publish
=============================================================================
