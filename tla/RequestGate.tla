------------------------------- MODULE RequestGate ------------------------------
(*****************************************************************************)
(* What a write request passes before anything is stored: the read-only      *)
(* check, the body bound over the declared length and over the chunks as     *)
(* they arrive (api/readonly.py, api/limits.py), the webhook's own checks    *)
(* (api/webhooks.py, webhooks.py) and the validation of the body; then the   *)
(* write itself and the answer.                                              *)
(*                                                                           *)
(* A request goes  receive -> handle -> store -> answered;  a refusal goes   *)
(* to `answered' from wherever it is found.  Lengths are counted in units    *)
(* of which Limit make MAX_REQUEST_BODY_BYTES.                               *)
(*****************************************************************************)
EXTENDS Lifespan, Integers

CONSTANTS
  Requests,     (* the write requests clients send: the set Request below    *)
  Limit, MaxChunk,
  Tolerance, MaxTime,
  NoLength, NoStamp, NoSignature, NoRequest

VARIABLES
  request,      (* the request being served, or NoRequest                    *)
  clock         (* int(time.time())                                          *)

gateVars == <<request, clock>>

(* A signature stands for the timestamp and the body it was computed over     *)
(* with the secret; the header carries `stamp', which need not be the same.   *)
(* The variant signs the body alone.                                          *)
SignBody(event, stamp) == [event |-> event, stamp |-> 0]
ComputeSignature(event, stamp) == [event |-> event, stamp |-> stamp]
Signatures == {ComputeSignature(e, t) : e \in LiveEvents, t \in 0..MaxTime}

Request ==
  [route : {"events", "webhook", "declare", "resolve"},
   event : LiveEvents, incident : LiveIncidents, cites : SUBSET AllEvents,
   declared : Nat \cup {NoLength}, wellFormed : BOOLEAN,
   stamp : 0..MaxTime \cup {NoStamp},
   signature : Signatures \cup {NoSignature}]

(* A declaration that fits the contract cites at least one event. *)
ASSUME GateAssumption ==
  /\ Requests \subseteq Request
  /\ \A r \in Requests : r.route = "declare" /\ r.wellFormed => r.cites # {}
  /\ Limit \in Nat /\ MaxChunk \in Nat \ {0}
  /\ Tolerance \in Nat \ {0} /\ MaxTime \in Nat

At(stage) == request # NoRequest /\ request.stage = stage
Served(r, stage) ==
  [r |-> r, stage |-> stage, received |-> 0, judged |-> clock, status |-> 0]
Answer(status) == request' = [request EXCEPT !.stage = "answered", !.status = status]

GateInit == request = NoRequest /\ clock = 0

-----------------------------------------------------------------------------
(* Settings.is_read_only.  The variant forgets that a demo takes no writes. *)
ReadOnlyFlag == settings.readOnly
IsReadOnly == settings.readOnly \/ settings.demo

DeclaredTooLong(r) == r.declared # NoLength /\ r.declared > Limit

(* The first check of the middleware and of the webhook's route that refuses  *)
(* the request before its body is read: its status, or 0.                     *)
Refusal(r) ==
  CASE IsReadOnly                                                   -> 403
    [] ~IsReadOnly /\ DeclaredTooLong(r)                            -> 413
    [] ~IsReadOnly /\ ~DeclaredTooLong(r)
         /\ r.route = "webhook" /\ ~settings.secret                 -> 404
    [] OTHER                                                        -> 0

(* The stores are published before a request is taken.  An incident is        *)
(* declared under an id never used before.                                    *)
Admit(r) ==
  /\ Serving /\ request = NoRequest
  /\ Refusal(r) = 0
  /\ r.route = "declare" => incidents[r.incident] = NoRow
  /\ request' = Served(r, "receive")
  /\ UNCHANGED clock

Refuse(r) ==
  /\ Serving /\ request = NoRequest
  /\ Refusal(r) # 0
  /\ request' = [Served(r, "answered") EXCEPT !.status = Refusal(r)]
  /\ UNCHANGED clock

-----------------------------------------------------------------------------
(* limited_receive judges the bytes received so far.  The variant judges the  *)
(* chunk.                                                                     *)
ChunkTooLong(n) == n > Limit
TooLong(n) == request.received + n > Limit

(* A chunk of the body that is not the last. *)
ReceiveChunk(n) ==
  /\ At("receive")
  /\ ~TooLong(n)
  /\ request' = [request EXCEPT !.received = @ + n]
  /\ UNCHANGED clock

ReceiveLast(n) ==
  /\ At("receive")
  /\ ~TooLong(n)
  /\ request' = [request EXCEPT !.received = @ + n, !.stage = "handle"]
  /\ UNCHANGED clock

(* RequestBodyTooLarge.  The webhook's route lets it pass to the middleware,  *)
(* which answers 413; for a route with a parsed body the framework, outside   *)
(* this code, may turn an error of the read into an answer of its own, 400.   *)
Overflow(n) ==
  /\ At("receive")
  /\ TooLong(n)
  /\ \E status \in IF request.r.route = "webhook" THEN {413} ELSE {400, 413} :
       request' = [request EXCEPT !.received = @ + n, !.stage = "answered",
                                  !.status = status]
  /\ UNCHANGED clock

(* The client goes away while the body is read: no answer. *)
Disconnect ==
  /\ At("receive")
  /\ request' = NoRequest
  /\ UNCHANGED clock

-----------------------------------------------------------------------------
Distance(a, b) == IF a < b THEN b - a ELSE a - b

(* verify_webhook_signature up to the comparison: both headers are there and  *)
(* the stamp is in the window.  One that is not an integer counts as missing, *)
(* and so does a signature without its prefix.                                *)
Presented(r) ==
  /\ r.stamp # NoStamp /\ r.signature # NoSignature
  /\ Distance(clock, r.stamp) <= Tolerance

Authentic(r) == Presented(r) /\ r.signature = ComputeSignature(r.event, r.stamp)

Verified(r) == r.route = "webhook" => Authentic(r)

(* A signature that is compared and does not match stands for any other       *)
(* header: compare_digest raises on one with characters beyond ASCII, which   *)
(* the route does not handle, so the answer is 500 instead.                   *)
RejectUnauthentic ==
  /\ At("handle")
  /\ ~Verified(request.r)
  /\ \E status \in IF Presented(request.r) THEN {401, 500} ELSE {401} : Answer(status)
  /\ UNCHANGED clock

(* Decoding, parsing and the contract come after the signature. *)
RejectMalformed ==
  /\ At("handle")
  /\ Verified(request.r)
  /\ ~request.r.wellFormed
  /\ Answer(422)
  /\ UNCHANGED clock

Accept ==
  /\ At("handle")
  /\ Verified(request.r)
  /\ request.r.wellFormed
  /\ request' = [request EXCEPT !.stage = "store", !.judged = clock]
  /\ UNCHANGED clock

-----------------------------------------------------------------------------
(* The stores' own refusals: evidence that is not stored, an incident that   *)
(* is missing or already resolved.                                            *)
StoreRefusal(r) ==
  CASE r.route = "declare" /\ ~(r.cites \subseteq events)             -> 422
    [] r.route = "resolve" /\ incidents[r.incident] = NoRow          -> 404
    [] r.route = "resolve" /\ incidents[r.incident] # NoRow
         /\ incidents[r.incident].status # "open"                    -> 409
    [] OTHER                                                         -> 0

(* An event that is stored already, sent again by itself under its key, is    *)
(* answered 200; in a batch, or without a key, it is answered 201 like a new  *)
(* one.                                                                       *)
Created(r) ==
  CASE r.route = "webhook"                       -> {202}
    [] r.route = "resolve"                       -> {200}
    [] r.route = "events" /\ r.event \in events -> {200, 201}
    [] OTHER                                     -> {201}

StoreEvent ==
  /\ At("store")
  /\ request.r.route \in {"events", "webhook"}
  /\ events' = events \cup {request.r.event}
  /\ \E status \in Created(request.r) : Answer(status)
  /\ UNCHANGED <<incidents, clock>>

StoreIncident ==
  /\ At("store")
  /\ request.r.route \in {"declare", "resolve"}
  /\ StoreRefusal(request.r) = 0
  /\ incidents' = [incidents EXCEPT ![request.r.incident] =
       IF request.r.route = "declare" THEN Row("open", request.r.cites)
       ELSE [@ EXCEPT !.status = "resolved"]]
  /\ \E status \in Created(request.r) : Answer(status)
  /\ UNCHANGED <<events, clock>>

StoreRefuses ==
  /\ At("store")
  /\ StoreRefusal(request.r) # 0
  /\ Answer(StoreRefusal(request.r))
  /\ UNCHANGED <<events, incidents, clock>>

(* The transaction fails and is rolled back. *)
StoreFails ==
  /\ At("store")
  /\ Answer(500)
  /\ UNCHANGED <<events, incidents, clock>>

Respond ==
  /\ At("answered")
  /\ request' = NoRequest
  /\ UNCHANGED clock

Tick ==
  /\ clock < MaxTime
  /\ clock' = clock + 1
  /\ UNCHANGED request

Pass ==
  \/ \E r \in Requests : Admit(r) \/ Refuse(r)
  \/ \E n \in 1..MaxChunk : ReceiveChunk(n) \/ Overflow(n)
  \/ \E n \in 0..MaxChunk : ReceiveLast(n)
  \/ Disconnect
  \/ RejectUnauthentic \/ RejectMalformed \/ Accept
  \/ Respond \/ Tick

Store == StoreEvent \/ StoreIncident \/ StoreRefuses \/ StoreFails
=============================================================================
