--------------------------------- MODULE Paging ---------------------------------
(*****************************************************************************)
(* A client walking a listing page by page: GET /events and GET /incidents   *)
(* with limit and offset (list_page and list_incidents of the stores).  Each *)
(* page is a request of its own, so writes, and restarts, come between two.  *)
(*                                                                           *)
(* The listings are ordered by columns that never change, and so are those   *)
(* that event filters read: a selection is a set of events.  The status      *)
(* filter of the incident listing does change; its walks are left out.       *)
(*****************************************************************************)
EXTENDS Lifespan, Sequences

CONSTANTS
  EventOrder,     (* all events, by occurred_at, received_at and id, downwards *)
  IncidentOrder,  (* all incidents, by opened_at and id, downwards            *)
  Selections,     (* the events that each filter in use selects               *)
  PageSize, NoWalk

(* `order' lists every member of S once. *)
Orders(order, S) ==
  /\ IsFiniteSet(S)
  /\ order \in [1..Cardinality(S) -> S]
  /\ \A r \in S : \E i \in DOMAIN order : order[i] = r
  /\ \A i, j \in DOMAIN order : order[i] = order[j] => i = j

ASSUME PagingAssumption ==
  /\ Orders(EventOrder, AllEvents) /\ Orders(IncidentOrder, IncidentIds)
  /\ Selections \subseteq SUBSET AllEvents
  /\ PageSize \in Nat \ {0}

VARIABLES walk  (* the walk under way, or NoWalk; `due' are the rows that     *)
                (* matched when it began and have not been shown since        *)

WalkInit == walk = NoWalk

(* ORDER BY: row q is listed no later than row r.  The variant lists open     *)
(* incidents before the others.                                               *)
Listed(order, q, r) ==
  \E i, j \in DOMAIN order : i <= j /\ order[i] = q /\ order[j] = r
OpenFirst(q, r) ==
  IF incidents[q].status = incidents[r].status
    THEN Listed(IncidentOrder, q, r) ELSE incidents[q].status = "open"
IncidentListed(q, r) == Listed(IncidentOrder, q, r)
EventListed(q, r) == Listed(EventOrder, q, r)

(* WHERE: the matching rows. *)
Rows(w) == IF w.list = "incidents" THEN Tracked(incidents) ELSE events \cap w.selection
Rank(w, r) ==
  Cardinality({q \in Rows(w) : IF w.list = "incidents" THEN IncidentListed(q, r)
                                                       ELSE EventListed(q, r)})

(* LIMIT and OFFSET. *)
Page(w) ==
  {r \in Rows(w) : w.offset < Rank(w, r) /\ Rank(w, r) <= w.offset + PageSize}

(* The next page; one that is not full is the last.                           *)
Turned(w) ==
  [w EXCEPT !.due = @ \ Page(w), !.offset = @ + PageSize,
            !.last = Cardinality(Page(w)) < PageSize]

BeginWalk ==
  /\ Serving /\ walk = NoWalk
  /\ \E w \in [list : {"events"}, selection : Selections]
                \cup [list : {"incidents"}, selection : {{}}] :
       walk' = Turned([list |-> w.list, selection |-> w.selection,
                       due |-> Rows(w), offset |-> 0, last |-> FALSE])

NextPage ==
  /\ Serving /\ walk # NoWalk /\ ~walk.last
  /\ walk' = Turned(walk)

EndWalk ==
  /\ walk # NoWalk /\ walk.last
  /\ walk' = NoWalk

Walk == BeginWalk \/ NextPage \/ EndWalk
=============================================================================
