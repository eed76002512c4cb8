-------------------------------- MODULE EventLog --------------------------------
(*****************************************************************************)
(* What event ingestion promises a producer that may deliver a batch more    *)
(* than once: stored history only grows; a delivery is stored whole, at one  *)
(* instant, or not at all; and an event carrying an external_id is stored at *)
(* most once per key, every delivery of it being answered with that one      *)
(* stored event.  EventStore implements this.                                *)
(*****************************************************************************)
EXTENDS Integers

CONSTANTS
  Workers,        (* threads serving requests                                 *)
  Payloads,       (* request bodies producers may send, again and again       *)
  Batch,          (* Batch[p] is the list of keys of p's events               *)
  NoKey,          (* the key of an event without an external_id               *)
  MaxDeliveries,  (* bound on the deliveries of a behaviour                   *)
  Nothing, Failed

VARIABLES log, sent, inbox, outbox

logVars == <<log, sent, inbox, outbox>>

(* The event built from position j of the n-th delivery; <<n, j>> stands for  *)
(* the uuid4 it is given.                                                     *)
Event(p, n, j) == [payload |-> p, delivery |-> n, pos |-> j, key |-> Batch[p][j]]
Own(m) == {Event(m.payload, m.delivery, j) : j \in DOMAIN Batch[m.payload]}

OncePerKey(rows) ==
  \A a, b \in rows : a.key = b.key /\ a.key # NoKey => a = b

-----------------------------------------------------------------------------
Init ==
  /\ log = {}
  /\ sent = 0
  /\ inbox = [w \in Workers |-> Nothing]
  /\ outbox = [w \in Workers |-> Nothing]

Deliver(w) ==
  /\ inbox[w] = Nothing
  /\ sent < MaxDeliveries
  /\ sent' = sent + 1
  /\ \E p \in Payloads :
       inbox' = [inbox EXCEPT ![w] = [payload |-> p, delivery |-> sent + 1]]
  /\ UNCHANGED <<log, outbox>>

Pending(w) == inbox[w] # Nothing /\ outbox[w] = Nothing

Store(w) ==
  /\ Pending(w)
  /\ LET p == inbox[w].payload
         own(j) == Event(p, inbox[w].delivery, j)
     IN \E stored \in [DOMAIN Batch[p] -> log \cup Own(inbox[w])] :
          /\ \A j \in DOMAIN Batch[p] :
               /\ stored[j].key = Batch[p][j]
               /\ Batch[p][j] = NoKey => stored[j] = own(j)
               /\ stored[j] \in log \/ stored[j].pos <= j
          /\ log' = log \cup {stored[j] : j \in DOMAIN Batch[p]}
          /\ OncePerKey(log) => OncePerKey(log')
          /\ outbox' = [outbox EXCEPT ![w] = stored]
  /\ UNCHANGED <<sent, inbox>>

Refuse(w) ==
  /\ Pending(w)
  /\ outbox' = [outbox EXCEPT ![w] = Failed]
  /\ UNCHANGED <<log, sent, inbox>>

Answer(w) ==
  /\ outbox[w] # Nothing
  /\ inbox' = [inbox EXCEPT ![w] = Nothing]
  /\ outbox' = [outbox EXCEPT ![w] = Nothing]
  /\ UNCHANGED <<log, sent>>

Crash ==
  /\ inbox' = [w \in Workers |-> Nothing]
  /\ outbox' = [w \in Workers |-> Nothing]
  /\ UNCHANGED <<log, sent>>

Next ==
  \/ Crash
  \/ \E w \in Workers : Deliver(w) \/ Store(w) \/ Refuse(w) \/ Answer(w)

Spec == Init /\ [][Next]_logVars
=============================================================================
