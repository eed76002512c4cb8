--------------------------------- MODULE Views ----------------------------------
(*****************************************************************************)
(* The reads that make up one page: the dashboard, the two listings and the  *)
(* views of one incident.  Each read takes a store's lock on its own, so a   *)
(* write may come between two of them; `got' keeps what each has seen.       *)
(*                                                                           *)
(* A read sees a whole store here: filters, order and paging select from it, *)
(* and risks, the brief and timelines are computed from it (RiskPicture,     *)
(* Generation).                                                              *)
(*****************************************************************************)
EXTENDS Lifespan, Sequences

CONSTANTS NoView

VARIABLES view   (* the page being assembled, or NoView *)

(* The holds of a store's lock that make up each view, in the order of the    *)
(* code, and what is read under each.  The brief and the risks are computed   *)
(* from a reading of the whole history each.                                  *)
BriefHold == {"brief"}
RiskHold == {"risks"}
HistoryHold == {"history"}

(* The dashboard's variants read the history, or a total, first. *)
HistoryFirst == <<{"history"}, {"brief"}, {"risks"}, {"incidents"}, {"incident_count"},
                  {"recent"}, {"event_count"}>>
TotalsFirst == <<{"brief"}, {"risks"}, {"incident_count"}, {"incidents"}, {"history"},
                 {"event_count"}, {"recent"}>>
DashboardHolds ==
  <<BriefHold, RiskHold, {"incidents"}, {"incident_count"}, HistoryHold,
    {"recent"}, {"event_count"}>>

(* The timeline and the summary of an incident, and its audit. *)
TimelineHolds == <<{"incidents"}, HistoryHold>>
SummaryHolds == <<{"incidents"}, HistoryHold>>

IncidentPageHolds == <<{"incidents"}, {"incident_count"}>>

(* list_page.  The variant reads the total under a hold of its own. *)
TwoHolds == <<{"recent"}, {"event_count"}>>
EventPageHolds == <<{"recent", "event_count"}>>

Holds ==
  [dashboard |-> DashboardHolds, timeline |-> TimelineHolds, summary |-> SummaryHolds,
   incidents |-> IncidentPageHolds, events |-> EventPageHolds]

FromIncidents == {"incidents", "incident_count"}
FromEvents == {"brief", "risks", "history", "recent", "event_count"}
Seen(read) == IF read \in FromIncidents THEN incidents ELSE events

Assembling == view # NoView
Complete == Assembling /\ view.todo = <<>>
Saw(read) == view.got[read]

ViewInit == view = NoView

(* A GET: the stores are published before a request is taken. *)
Open(name) ==
  /\ Serving /\ ~Assembling
  /\ view' = [name |-> name, todo |-> Holds[name], got |-> <<>>]

(* Another hold of a lock. *)
Read ==
  /\ Assembling /\ view.todo # <<>>
  /\ view' = [view EXCEPT
                 !.todo = Tail(@),
                 !.got = [r \in DOMAIN @ \cup Head(view.todo) |->
                            IF r \in Head(view.todo) THEN Seen(r) ELSE view.got[r]]]

Deliver ==
  /\ Complete
  /\ view' = NoView

View == (\E name \in DOMAIN Holds : Open(name)) \/ Read \/ Deliver
=============================================================================
