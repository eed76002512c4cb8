------------------------------- MODULE MCService --------------------------------
(* Small instances of Service for TLC. *)
EXTENDS Service

CONSTANTS d1, d2, e1, e2, demo1, i1

Demo == [demo |-> TRUE, readOnly |-> FALSE, secret |-> TRUE]
ReadOnly == [demo |-> FALSE, readOnly |-> TRUE, secret |-> TRUE]
Open_ == [demo |-> FALSE, readOnly |-> FALSE, secret |-> FALSE]
Signed == [demo |-> FALSE, readOnly |-> FALSE, secret |-> TRUE]
AllSettings == {Demo, ReadOnly, Open_, Signed}

Plain(route, e, i, cites, length, ok) ==
  [route |-> route, event |-> e, incident |-> i, cites |-> cites,
   declared |-> length, wellFormed |-> ok, stamp |-> NoStamp, signature |-> NoSignature]
Webhook(e, stamp, signature, ok) ==
  [Plain("webhook", e, i1, {}, NoLength, ok) EXCEPT !.stamp = stamp, !.signature = signature]

(* Events by either route, an incident over a new event, its resolution,      *)
(* declared lengths at and past the bound, bodies that fail the contract, and *)
(* deliveries that are unsigned, altered or re-stamped.                       *)
SomeRequests ==
  {Plain("events", e1, i1, {}, NoLength, ok) : ok \in BOOLEAN}
  \cup {Plain("declare", e1, i1, {c}, Limit, TRUE) : c \in {e1, e2}}
  \cup {Plain("resolve", e1, i1, {}, length, TRUE) : length \in {Limit, Limit + 1}}
  \cup {Webhook(e2, 0, ComputeSignature(e2, 0), ok) : ok \in BOOLEAN}
  \cup {Webhook(e2, 0, ComputeSignature(e1, 0), TRUE),
        Webhook(e2, 2, ComputeSignature(e2, 0), TRUE),
        Webhook(e2, 0, NoSignature, TRUE), Webhook(e2, NoStamp, ComputeSignature(e2, 0), TRUE)}

EventsByTime == <<e1, d2, e2, d1>>
IncidentsByTime == <<demo1, i1>>
SomeSelections == {AllEvents, LiveEvents}

(* The gate, a page, a walk and the tool meet only in the database.  While a  *)
(* page is assembled or a listing walked, the other requests explored are     *)
(* those that store something, without the ways their bodies may arrive.  The *)
(* tool, and a process refused by the schema, is followed beside the starts.  *)
Writes == {r \in SomeRequests : r.wellFormed /\ r.route # "webhook"}
Quiet == request = NoRequest /\ ~Assembling /\ walk = NoWalk /\ clock = 0
PagesMeetWrites ==
  /\ Assembling \/ walk # NoWalk =>
       /\ clock = 0
       /\ request # NoRequest => request.r \in Writes /\ request.received = 0
  /\ Assembling => walk = NoWalk
  /\ opener["tool"] # "closed" \/ refused > 0 => Quiet
=============================================================================
