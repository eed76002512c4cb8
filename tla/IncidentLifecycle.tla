---------------------------- MODULE IncidentLifecycle ----------------------------
(*****************************************************************************)
(* The incident record and the pure operations on it: the lifecycle table    *)
(* (incidents/lifecycle.py) and Incident.declare, transition_to, link_events *)
(* and unlink_events (incidents/schema.py).                                  *)
(*                                                                           *)
(* An operation either returns the changed incident or refuses and leaves it *)
(* as it was; the code signals a refusal by raising, so a result here is the *)
(* outcome together with the incident that holds afterwards.                 *)
(*                                                                           *)
(* Title, severity and id never change after declaration and are left out.   *)
(* The cited events are a set: the code keeps them in link order, and no     *)
(* operation or refusal depends on that order.  Instants are naturals.       *)
(*****************************************************************************)
EXTENDS Integers, FiniteSets

CONSTANTS
  Incidents,    (* incident identifiers                                      *)
  EventIds,     (* identifiers an incident may cite                          *)
  Notes,        (* resolution notes, trimmed and non-blank                   *)
  NoNote,       (* resolution_note is None (a blank note is stored as this)  *)
  NoTime,       (* resolved_at is None                                       *)
  MaxEvidence   (* MAX_EVIDENCE_EVENT_IDS                                    *)

ASSUME LifecycleAssumption ==
  /\ IsFiniteSet(EventIds)
  /\ NoNote \notin Notes
  /\ NoTime \notin Nat
  /\ MaxEvidence \in Nat

-----------------------------------------------------------------------------
Active   == {"open", "investigating", "monitoring"}
Terminal == {"closed"}
Status   == Active \cup {"resolved"} \cup Terminal

AllowedTransitions(s) ==
  CASE s = "open"          -> {"investigating", "monitoring", "resolved", "closed"}
    [] s = "investigating" -> {"monitoring", "resolved", "closed"}
    [] s = "monitoring"    -> {"investigating", "resolved", "closed"}
    [] s = "resolved"      -> {"investigating", "closed"}
    [] s = "closed"        -> {}

CanTransition(s, t) == t \in AllowedTransitions(s)

(* The field constraints of a list of cited ids: between one and MaxEvidence. *)
IsEvidence(ids) == ids # {} /\ Cardinality(ids) <= MaxEvidence

Incident ==
  [status      : Status,
   opened_at   : Nat,
   updated_at  : Nat,
   resolved_at : Nat \cup {NoTime},
   note        : Notes \cup {NoNote},
   event_ids   : SUBSET EventIds]

(* The model validator every constructed, evolved or re-read Incident passes. *)
Consistent(inc) ==
  /\ (inc.status \in Active) <=> (inc.resolved_at = NoTime)
  /\ inc.status \in Active => inc.note = NoNote
  /\ inc.opened_at <= inc.updated_at
  /\ inc.resolved_at # NoTime =>
       inc.opened_at <= inc.resolved_at /\ inc.resolved_at <= inc.updated_at
  /\ IsEvidence(inc.event_ids)

-----------------------------------------------------------------------------
Returned(inc)     == [outcome |-> "ok", incident |-> inc]
Refused(why, inc) == [outcome |-> why,  incident |-> inc]

(* _evolve: the changed copy is revalidated and refused if inconsistent. *)
Evolve(inc, changed) ==
  IF Consistent(changed) THEN Returned(changed) ELSE Refused("invalid", inc)

(* Variant with a fault: a declaration in a state the lifecycle does not list. *)
DeclareUnlisted(ids, at) ==
  [status |-> "declared", opened_at |-> at, updated_at |-> at,
   resolved_at |-> NoTime, note |-> NoNote, event_ids |-> ids]

Declare(ids, at) ==
  [status |-> "open", opened_at |-> at, updated_at |-> at,
   resolved_at |-> NoTime, note |-> NoNote, event_ids |-> ids]

(* _advanced_update_time refuses a stamp older than the last change.          *)
(* The variant accepts it.                                                    *)
NeverBackwards(inc, at) == FALSE
Backwards(inc, at) == at < inc.updated_at

(* resolved_at after a move: cleared by a reopening, kept by resolved ->      *)
(* closed.  The variant stamps it again on closing.                           *)
RestampedResolution(inc, target, at) == IF target \in Active THEN NoTime ELSE at
ResolutionAfter(inc, target, at) ==
  CASE target \in Active                                 -> NoTime
    [] target \notin Active /\ inc.resolved_at # NoTime  -> inc.resolved_at
    [] target \notin Active /\ inc.resolved_at = NoTime  -> at

NoteAfter(inc, target, note) ==
  CASE target \in Active                      -> NoNote
    [] target \notin Active /\ note # NoNote  -> note
    [] target \notin Active /\ note = NoNote  -> inc.note

Moved(inc, target, at, note) ==
  [inc EXCEPT !.status = target, !.updated_at = at,
              !.resolved_at = ResolutionAfter(inc, target, at),
              !.note = NoteAfter(inc, target, note)]

TransitionTo(inc, target, at, note) ==
  IF ~CanTransition(inc.status, target)          THEN Refused("bad_move", inc)
  ELSE IF Backwards(inc, at)                     THEN Refused("backwards", inc)
  ELSE IF target \in Active /\ note # NoNote     THEN Refused("note_on_reopen", inc)
  ELSE Evolve(inc, Moved(inc, target, at, note))

(* A closed incident is frozen.  The variant forgets it. *)
NeverFrozen(inc) == FALSE
Frozen(inc) == inc.status \in Terminal

(* A link that adds nothing returns the incident as it is, whatever the stamp. *)
LinkEvents(inc, ids, at) ==
  LET merged == inc.event_ids \cup ids IN
  IF Frozen(inc)                                 THEN Refused("closed", inc)
  ELSE IF merged = inc.event_ids                 THEN Returned(inc)
  ELSE IF Cardinality(merged) > MaxEvidence      THEN Refused("too_many", inc)
  ELSE IF Backwards(inc, at)                     THEN Refused("backwards", inc)
  ELSE Evolve(inc, [inc EXCEPT !.event_ids = merged, !.updated_at = at])

UnlinkEvents(inc, ids, at) ==
  LET remaining == inc.event_ids \ ids IN
  IF Frozen(inc)                                 THEN Refused("closed", inc)
  ELSE IF remaining = inc.event_ids              THEN Returned(inc)
  ELSE IF remaining = {}                         THEN Refused("last_event", inc)
  ELSE IF Backwards(inc, at)                     THEN Refused("backwards", inc)
  ELSE Evolve(inc, [inc EXCEPT !.event_ids = remaining, !.updated_at = at])

-----------------------------------------------------------------------------
(* A validated request: the route, the incident it names (for a declaration, *)
(* the identifier uuid4 draws for it), and the fields of its body.           *)
Request(ops, ids, targets, notes) ==
  [op : ops, incident : Incidents, ids : ids, target : targets, note : notes]

Evidence   == {ids \in SUBSET EventIds : IsEvidence(ids)}
Singletons == {{e} : e \in EventIds}
AnyNote    == Notes \cup {NoNote}

Calls ==
  Request({"declare", "link"}, Evidence, {"open"}, {NoNote})
    \cup Request({"unlink"}, Singletons, {"open"}, {NoNote})
    \cup Request({"resolve"}, {{}}, {"resolved"}, AnyNote)
    \cup Request({"transition"}, {{}}, Status, AnyNote)

(* The operation of the incident model a mutating route hands to the store. *)
Mutation(c, inc, at) ==
  CASE c.op = "link"   -> LinkEvents(inc, c.ids, at)
    [] c.op = "unlink" -> UnlinkEvents(inc, c.ids, at)
    [] c.op \in {"resolve", "transition"} -> TransitionTo(inc, c.target, at, c.note)

CitesEvidence(c) == c.op \in {"declare", "link"}

(* What one accepted operation may make of an incident. *)
Forward(old, new) ==
  /\ new \in Incident
  /\ new.opened_at = old.opened_at
  /\ new.updated_at >= old.updated_at
  /\ new.status # old.status => CanTransition(old.status, new.status)
  /\ old.resolved_at # NoTime /\ new.resolved_at # NoTime =>
       new.resolved_at = old.resolved_at
=============================================================================
