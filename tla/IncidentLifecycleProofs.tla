------------------------- MODULE IncidentLifecycleProofs -------------------------
(*****************************************************************************)
(* What the pure operations of the incident record guarantee, for any set of *)
(* events, notes and evidence limit: they keep the record's type and its     *)
(* validator, their own guards refuse before the validator has to, a change  *)
(* is a lifecycle move forward in time, and a closed incident is left alone. *)
(*****************************************************************************)
EXTENDS IncidentLifecycle, FiniteSetTheorems, TLAPS

(* Withdrawing some but not all of an incident's evidence leaves evidence. *)
LEMMA EvidenceShrinks ==
  ASSUME NEW ids \in SUBSET EventIds, IsEvidence(ids),
         NEW rest \in SUBSET ids, rest # {}
  PROVE  IsEvidence(rest)
<1>1. IsFiniteSet(ids)
  BY LifecycleAssumption, FS_Subset
<1>2. Cardinality(rest) <= Cardinality(ids)
  BY <1>1, FS_Subset
<1>3. Cardinality(rest) \in Nat /\ Cardinality(ids) \in Nat
  BY <1>1, FS_Subset, FS_CardinalityType
<1> QED
  BY <1>2, <1>3, LifecycleAssumption DEF IsEvidence

(* A declaration over valid evidence is a valid incident. *)
LEMMA DeclareSound ==
  ASSUME NEW ids \in SUBSET EventIds, IsEvidence(ids), NEW at \in Nat
  PROVE  /\ Declare(ids, at) \in Incident
         /\ Consistent(Declare(ids, at))
         /\ Declare(ids, at).event_ids = ids
BY LifecycleAssumption
   DEF Declare, Incident, Consistent, Status, Active, Terminal

(* The outcomes of an operation on a consistent incident: _evolve's own       *)
(* refusal, "invalid", is not among them.                                     *)
Refusals == {"bad_move", "backwards", "note_on_reopen",
             "closed", "too_many", "last_event"}

(* What every operation owes its caller. *)
Sound(inc, result) ==
  /\ result.incident \in Incident
  /\ result.outcome # "ok" => result.incident = inc
  /\ result.incident # inc => Forward(inc, result.incident)
  /\ result.outcome \in Refusals \cup {"ok"}
  /\ Consistent(result.incident)
  /\ inc.status \in Terminal => result.incident = inc

(* A refusal owes nothing more. *)
LEMMA RefusedSound ==
  ASSUME NEW inc \in Incident, Consistent(inc),
         NEW why \in Refusals
  PROVE  Sound(inc, Refused(why, inc))
BY DEF Sound, Refused, Refusals

(* A changed copy that is typed, consistent and forward passes _evolve. *)
LEMMA EvolveSound ==
  ASSUME NEW inc \in Incident, inc.status \notin Terminal,
         NEW changed \in Incident, Consistent(changed), Forward(inc, changed)
  PROVE  Sound(inc, Evolve(inc, changed))
BY DEF Sound, Evolve, Returned

(* transition_to: every admitted move yields a consistent incident. *)
LEMMA MovedSound ==
  ASSUME NEW inc \in Incident, Consistent(inc),
         NEW target \in Status, CanTransition(inc.status, target),
         NEW at \in Nat, ~Backwards(inc, at),
         NEW note \in AnyNote, target \in Active => note = NoNote
  PROVE  /\ Moved(inc, target, at, note) \in Incident
         /\ Consistent(Moved(inc, target, at, note))
         /\ Forward(inc, Moved(inc, target, at, note))
<1> DEFINE new == Moved(inc, target, at, note)
<1>1. new = [inc EXCEPT !.status = target, !.updated_at = at,
                        !.resolved_at = ResolutionAfter(inc, target, at),
                        !.note = NoteAfter(inc, target, note)]
  BY DEF Moved
<1>2. ResolutionAfter(inc, target, at) \in Nat \cup {NoTime}
  BY DEF ResolutionAfter, Incident
<1>3. NoteAfter(inc, target, note) \in Notes \cup {NoNote}
  BY DEF NoteAfter, Incident, AnyNote
<1>4. new \in Incident
  BY <1>1, <1>2, <1>3 DEF Incident
<1>5. /\ new.status = target /\ new.opened_at = inc.opened_at
      /\ new.updated_at = at /\ new.event_ids = inc.event_ids
      /\ new.resolved_at = ResolutionAfter(inc, target, at)
      /\ new.note = NoteAfter(inc, target, note)
  BY <1>1 DEF Incident
<1>6. /\ inc.opened_at \in Nat /\ inc.updated_at \in Nat
      /\ inc.updated_at <= at /\ inc.opened_at <= inc.updated_at
  BY DEF Incident, Backwards, Consistent
<1>7. CASE target \in Active
  <2>1. new.resolved_at = NoTime /\ new.note = NoNote
    BY <1>5, <1>7 DEF ResolutionAfter, NoteAfter
  <2> QED
    BY <1>4, <1>5, <1>6, <1>7, <2>1 DEF Consistent, Forward
<1>8. CASE target \notin Active
  <2>1. CASE inc.resolved_at = NoTime
    <3>1. new.resolved_at = at
      BY <1>5, <1>8, <2>1 DEF ResolutionAfter
    <3>2. at # NoTime
      BY LifecycleAssumption
    <3> QED
      BY <1>4, <1>5, <1>6, <1>8, <2>1, <3>1, <3>2 DEF Consistent, Forward
  <2>2. CASE inc.resolved_at # NoTime
    <3>1. new.resolved_at = inc.resolved_at
      BY <1>5, <1>8, <2>2 DEF ResolutionAfter
    <3>2. /\ inc.resolved_at \in Nat
          /\ inc.opened_at <= inc.resolved_at
          /\ inc.resolved_at <= inc.updated_at
      BY <2>2 DEF Incident, Consistent
    <3> QED
      BY <1>4, <1>5, <1>6, <1>8, <2>2, <3>1, <3>2 DEF Consistent, Forward
  <2> QED
    BY <2>1, <2>2
<1> QED
  BY <1>7, <1>8, <1>4

(* What MutationSound states, for Incident.transition_to. *)
LEMMA TransitionSound ==
  ASSUME NEW inc \in Incident, Consistent(inc),
         NEW target \in Status, NEW at \in Nat, NEW note \in AnyNote
  PROVE  /\ Sound(inc, TransitionTo(inc, target, at, note))
         /\ TransitionTo(inc, target, at, note).incident.event_ids = inc.event_ids
<1> DEFINE new == Moved(inc, target, at, note)
<1>1. CASE /\ CanTransition(inc.status, target) /\ ~Backwards(inc, at)
           /\ ~(target \in Active /\ note # NoNote)
  <2>1. new \in Incident /\ Consistent(new) /\ Forward(inc, new)
    BY <1>1, MovedSound
  <2>2. inc.status \notin Terminal
    BY <1>1 DEF CanTransition, AllowedTransitions, Terminal
  <2>3. TransitionTo(inc, target, at, note) = Evolve(inc, new)
    BY <1>1 DEF TransitionTo
  <2>4. Evolve(inc, new).incident.event_ids = inc.event_ids
    BY <2>1 DEF Evolve, Returned, Moved, Incident
  <2> QED
    BY <2>1, <2>2, <2>3, <2>4, EvolveSound
<1>2. CASE ~(/\ CanTransition(inc.status, target) /\ ~Backwards(inc, at)
             /\ ~(target \in Active /\ note # NoNote))
  <2>1. PICK why \in {"bad_move", "backwards", "note_on_reopen"} :
          TransitionTo(inc, target, at, note) = Refused(why, inc)
    BY <1>2 DEF TransitionTo
  <2>2. why \in Refusals
    BY DEF Refusals
  <2>3. Sound(inc, Refused(why, inc))
    BY <2>2, RefusedSound
  <2>4. Refused(why, inc).incident = inc
    BY DEF Refused
  <2> QED
    BY <2>1, <2>3, <2>4
<1> QED
  BY <1>1, <1>2

(* An evidence change that passed its guards. *)
LEMMA RecitedSound ==
  ASSUME NEW inc \in Incident, Consistent(inc), inc.status \notin Terminal,
         NEW ids \in SUBSET EventIds, IsEvidence(ids),
         NEW at \in Nat, ~Backwards(inc, at)
  PROVE  Sound(inc, Evolve(inc, [inc EXCEPT !.event_ids = ids, !.updated_at = at]))
<1> DEFINE new == [inc EXCEPT !.event_ids = ids, !.updated_at = at]
<1>1. new \in Incident
  BY DEF Incident
<1>2. /\ new.status = inc.status /\ new.opened_at = inc.opened_at
      /\ new.updated_at = at /\ new.resolved_at = inc.resolved_at
      /\ new.note = inc.note /\ new.event_ids = ids
  BY DEF Incident
<1>3. /\ inc.opened_at \in Nat /\ inc.updated_at \in Nat
      /\ inc.resolved_at \in Nat \cup {NoTime}
      /\ inc.updated_at <= at /\ inc.opened_at <= inc.updated_at
  BY DEF Incident, Backwards, Consistent
<1>4. Consistent(new)
  BY <1>2, <1>3 DEF Consistent
<1>5. Forward(inc, new)
  BY <1>1, <1>2, <1>3 DEF Forward
<1> QED
  BY <1>1, <1>4, <1>5, EvolveSound

(* What MutationSound states, for Incident.link_events. *)
LEMMA LinkSound ==
  ASSUME NEW inc \in Incident, Consistent(inc),
         NEW ids \in SUBSET EventIds, NEW at \in Nat
  PROVE  /\ Sound(inc, LinkEvents(inc, ids, at))
         /\ LinkEvents(inc, ids, at).incident.event_ids
              \subseteq inc.event_ids \cup ids
<1> DEFINE merged == inc.event_ids \cup ids
           new == [inc EXCEPT !.event_ids = merged, !.updated_at = at]
<1>1. merged \in SUBSET EventIds /\ merged # {}
  BY DEF Incident, Consistent, IsEvidence
<1>2. Cardinality(merged) \in Nat /\ MaxEvidence \in Nat
  BY <1>1, LifecycleAssumption, FS_Subset, FS_CardinalityType
<1>3. CASE ~Frozen(inc) /\ merged = inc.event_ids
  BY <1>3 DEF LinkEvents, Returned, Sound, Frozen
<1>4. CASE /\ ~Frozen(inc) /\ merged # inc.event_ids
           /\ ~(Cardinality(merged) > MaxEvidence) /\ ~Backwards(inc, at)
  <2>1. LinkEvents(inc, ids, at) = Evolve(inc, new)
    BY <1>4 DEF LinkEvents
  <2>2. IsEvidence(merged)
    BY <1>1, <1>2, <1>4 DEF IsEvidence
  <2>3. Evolve(inc, new).incident.event_ids \subseteq inc.event_ids \cup ids
    BY DEF Evolve, Returned, Refused, Incident
  <2> QED
    BY <1>1, <1>4, <2>1, <2>2, <2>3, RecitedSound DEF Frozen
<1>5. CASE \/ Frozen(inc)
           \/ /\ merged # inc.event_ids
              /\ Cardinality(merged) > MaxEvidence \/ Backwards(inc, at)
  <2>1. PICK why \in {"closed", "too_many", "backwards"} :
          LinkEvents(inc, ids, at) = Refused(why, inc)
    BY <1>5 DEF LinkEvents
  <2>2. why \in Refusals
    BY DEF Refusals
  <2>3. Sound(inc, Refused(why, inc))
    BY <2>2, RefusedSound
  <2>4. Refused(why, inc).incident = inc
    BY DEF Refused
  <2> QED
    BY <2>1, <2>3, <2>4
<1> QED
  BY <1>3, <1>4, <1>5

(* What MutationSound states, for Incident.unlink_events. *)
LEMMA UnlinkSound ==
  ASSUME NEW inc \in Incident, Consistent(inc),
         NEW ids \in SUBSET EventIds, NEW at \in Nat
  PROVE  /\ Sound(inc, UnlinkEvents(inc, ids, at))
         /\ UnlinkEvents(inc, ids, at).incident.event_ids \subseteq inc.event_ids
<1> DEFINE remaining == inc.event_ids \ ids
           new == [inc EXCEPT !.event_ids = remaining, !.updated_at = at]
<1>1. inc.event_ids \in SUBSET EventIds /\ IsEvidence(inc.event_ids)
  BY DEF Incident, Consistent
<1>2. CASE ~Frozen(inc) /\ remaining = inc.event_ids
  BY <1>2 DEF UnlinkEvents, Returned, Sound, Frozen
<1>3. CASE /\ ~Frozen(inc) /\ remaining # inc.event_ids
           /\ remaining # {} /\ ~Backwards(inc, at)
  <2>1. UnlinkEvents(inc, ids, at) = Evolve(inc, new)
    BY <1>3 DEF UnlinkEvents
  <2>2. IsEvidence(remaining)
    BY <1>1, <1>3, EvidenceShrinks
  <2>3. Evolve(inc, new).incident.event_ids \subseteq inc.event_ids
    BY DEF Evolve, Returned, Refused, Incident
  <2> QED
    BY <1>1, <1>3, <2>1, <2>2, <2>3, RecitedSound DEF Frozen
<1>4. CASE \/ Frozen(inc)
           \/ /\ remaining # inc.event_ids
              /\ remaining = {} \/ Backwards(inc, at)
  <2>1. PICK why \in {"closed", "last_event", "backwards"} :
          UnlinkEvents(inc, ids, at) = Refused(why, inc)
    BY <1>4 DEF UnlinkEvents
  <2>2. why \in Refusals
    BY DEF Refusals
  <2>3. Sound(inc, Refused(why, inc))
    BY <2>2, RefusedSound
  <2>4. Refused(why, inc).incident = inc
    BY DEF Refused
  <2> QED
    BY <2>1, <2>3, <2>4
<1> QED
  BY <1>2, <1>3, <1>4

(* Every mutating call is sound, and only a link cites new events: its own. *)
THEOREM MutationSound ==
  ASSUME NEW inc \in Incident, Consistent(inc),
         NEW c \in Calls, c.op # "declare", NEW at \in Nat
  PROVE  /\ Sound(inc, Mutation(c, inc, at))
         /\ Mutation(c, inc, at).incident.event_ids
              \subseteq inc.event_ids \cup (IF c.op = "link" THEN c.ids ELSE {})
<1>1. c.ids \in SUBSET EventIds
  BY DEF Calls, Request, Evidence, Singletons
<1>2. CASE c.op = "link"
  BY <1>1, <1>2, LinkSound DEF Mutation
<1>3. CASE c.op = "unlink"
  BY <1>1, <1>3, UnlinkSound DEF Mutation
<1>4. CASE c.op \in {"resolve", "transition"}
  <2>1. c.target \in Status /\ c.note \in AnyNote
    BY <1>4 DEF Calls, Request, Status
  <2>2. Mutation(c, inc, at) = TransitionTo(inc, c.target, at, c.note)
    BY <1>4 DEF Mutation
  <2> QED
    BY <1>4, <2>1, <2>2, TransitionSound
<1>5. c.op \in {"link", "unlink", "resolve", "transition"}
  BY DEF Calls, Request
<1> QED
  BY <1>2, <1>3, <1>4, <1>5
=============================================================================
