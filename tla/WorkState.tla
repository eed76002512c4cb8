-------------------------------- MODULE WorkState --------------------------------
(*****************************************************************************)
(* The projection of a work entity's reports into its current state          *)
(* (risks/work_state.py): the reports are put oldest first and folded, each  *)
(* one updating what is known rather than replacing it.                      *)
(*                                                                           *)
(* A report carries what the projection reads: when it occurred, its entity, *)
(* and the status and deadline it states, if any.  `rank' breaks ties: the   *)
(* (received_at, id) pair here, the id in what the rules, the recent view    *)
(* and the timelines sort.  One rank does for both, since no property        *)
(* compares the fold's order among ties with another list's.  No two reports *)
(* share a rank, and it need not follow the order of arrival, since ids are  *)
(* random and the wall clock can be set back.                                *)
(*****************************************************************************)
EXTENDS Integers, FiniteSets, SequencesExt

CONSTANTS
  Entities,     (* work keys: source, entity_type, entity_id                 *)
  NoEntity,     (* the report names no entity pair                           *)
  NoStatus,     (* status is None                                            *)
  NoDue,        (* due_at is None                                            *)
  NoReport      (* no event: status_event, due_event, blocked_since are None *)

Terminal == {"resolved", "cancelled"}
Statuses == {"open", "blocked", "failed"} \cup Terminal \cup {NoStatus}

(* _order_key: occurrence time decides, whatever was received last.           *)
Before(a, b) == a.at < b.at \/ (a.at = b.at /\ a.rank < b.rank)

(* sorted(), by an order without ties: a member's place is the number of      *)
(* those that precede it.                                                     *)
SortedBy(S, Precedes(_, _)) ==
  [k \in 1..Cardinality(S) |->
     CHOOSE e \in S : Cardinality({d \in S : Precedes(d, e)}) = k - 1]

(* [x for x in s if Test(x)]: the places that pass, in order. *)
Kept(s, Test(_)) ==
  LET places == SortedBy({k \in DOMAIN s : Test(s[k])}, <)
  IN [k \in DOMAIN places |-> s[places[k]]]

OldestFirst(reports) == SortedBy(reports, Before)

(* Reports of the future take no part in the picture at `now'.                *)
OccurredBy(reports, now) == {e \in reports : e.at <= now}

Informational(e) == e.status = NoStatus /\ e.due = NoDue

-----------------------------------------------------------------------------
Unknown == [status |-> NoStatus, status_event |-> NoReport, due_event |-> NoReport]

(* One turn of the fold.  A status is taken over and a terminal one clears    *)
(* the deadline; then a stated deadline is taken over.  The variant lets a    *)
(* report without a status erase the status.                                  *)
LatestReplaces(state, e) ==
  [status |-> e.status, status_event |-> e,
   due_event |-> IF e.due = NoDue THEN state.due_event ELSE e]
Fold(state, e) ==
  LET stated ==
        IF e.status = NoStatus THEN state
        ELSE [status       |-> e.status,
              status_event |-> e,
              due_event    |-> IF e.status \in Terminal THEN NoReport
                                                        ELSE state.due_event]
  IN CASE Informational(e)                    -> state
       [] ~Informational(e) /\ e.due = NoDue  -> stated
       [] ~Informational(e) /\ e.due # NoDue  -> [stated EXCEPT !.due_event = e]

(* effective[k] is what is known after the k oldest reports. *)
Effective(ordered) ==
  LET known[k \in 0..Len(ordered)] ==
        IF k = 0 THEN Unknown ELSE Fold(known[k - 1], ordered[k])
  IN known

(* _blocked_run_start: the first report of the trailing stretch over which    *)
(* the work has been blocked.  The variant dates the block from its latest    *)
(* affirmation.                                                               *)
LatestBlock(ordered, known) == known[Len(ordered)].status_event
BlockedRunStart(ordered, known) ==
  LET run == {k \in 1..Len(ordered) :
                \A j \in k..Len(ordered) : known[j].status = "blocked"}
  IN IF run = {} THEN NoReport ELSE ordered[Min(run)]

Project(reports) ==
  LET ordered == OldestFirst(reports)
      known   == Effective(ordered)
      final   == known[Len(ordered)]
  IN [status        |-> final.status,
      status_event  |-> final.status_event,
      due_event     |-> final.due_event,
      blocked_since |-> IF final.status = "blocked"
                          THEN BlockedRunStart(ordered, known) ELSE NoReport]

(* group_work: one state per entity reported on, and the reports without one. *)
About(reports, entity) == {e \in reports : e.entity = entity}
Tracked(reports) == {e.entity : e \in reports} \ {NoEntity}
WorkStates(reports) == {Project(About(reports, k)) : k \in Tracked(reports)}
Unkeyed(reports) == About(reports, NoEntity)
=============================================================================
