---------------------------- MODULE IncidentRegister -----------------------------
(*****************************************************************************)
(* What the incident endpoints promise: a register of incidents on which     *)
(* each accepted call takes effect at one instant between its arrival and    *)
(* its answer, on the record as it then stands, and a refused call changes   *)
(* nothing.  Evidence is only accepted when every cited event is stored.  A  *)
(* crash loses the calls in progress, never an incident.                     *)
(*                                                                           *)
(* IncidentStore implements this specification with threads, a lock and a    *)
(* read-transform-write cycle.                                               *)
(*****************************************************************************)
EXTENDS IncidentLifecycle

CONSTANTS
  Workers,      (* threads serving requests, one call each at a time         *)
  Times,        (* instants a change can be stamped with                     *)
  NoRow, NoCall, NoAnswer

VARIABLES register, known, asked, answered

regVars == <<register, known, asked, answered>>

-----------------------------------------------------------------------------
Init ==
  /\ register = [i \in Incidents |-> NoRow]
  /\ known = {}
  /\ asked = [w \in Workers |-> NoCall]
  /\ answered = [w \in Workers |-> NoAnswer]

RecordEvent ==
  /\ \E e \in EventIds : known' = known \cup {e}
  /\ UNCHANGED <<register, asked, answered>>

Ask(w) ==
  /\ asked[w] = NoCall
  /\ \E c \in Calls : asked' = [asked EXCEPT ![w] = c]
  /\ UNCHANGED <<register, known, answered>>

Answer(w, result) == answered' = [answered EXCEPT ![w] = result]

Unserved(w) == asked[w] # NoCall /\ answered[w] = NoAnswer

(* Unknown evidence, a missing incident, a taken identifier or a storage error. *)
Reject(w) ==
  /\ Unserved(w)
  /\ \/ CitesEvidence(asked[w]) /\ Answer(w, Refused("unknown_ids", NoRow))
     \/ /\ asked[w].op # "declare"
        /\ register[asked[w].incident] = NoRow
        /\ Answer(w, Refused("missing", NoRow))
     \/ /\ asked[w].op = "declare"
        /\ register[asked[w].incident] # NoRow
        /\ Answer(w, Refused("duplicate", NoRow))
     \/ Answer(w, Refused("storage_error", NoRow))
  /\ UNCHANGED <<register, known, asked>>

Open(w) ==
  /\ Unserved(w)
  /\ asked[w].op = "declare"
  /\ register[asked[w].incident] = NoRow
  /\ asked[w].ids \subseteq known
  /\ \E at \in Times :
       LET inc == Declare(asked[w].ids, at) IN
       /\ register' = [register EXCEPT ![asked[w].incident] = inc]
       /\ Answer(w, Returned(inc))
  /\ UNCHANGED <<known, asked>>

Change(w) ==
  /\ Unserved(w)
  /\ asked[w].op # "declare"
  /\ register[asked[w].incident] # NoRow
  /\ asked[w].op = "link" => asked[w].ids \subseteq known
  /\ \E at \in Times :
       LET result == Mutation(asked[w], register[asked[w].incident], at) IN
       /\ register' = [register EXCEPT ![asked[w].incident] = result.incident]
       /\ Answer(w, result)
  /\ UNCHANGED <<known, asked>>

Reply(w) ==
  /\ answered[w] # NoAnswer
  /\ asked' = [asked EXCEPT ![w] = NoCall]
  /\ answered' = [answered EXCEPT ![w] = NoAnswer]
  /\ UNCHANGED <<register, known>>

Crash ==
  /\ asked' = [w \in Workers |-> NoCall]
  /\ answered' = [w \in Workers |-> NoAnswer]
  /\ UNCHANGED <<register, known>>

Next ==
  \/ RecordEvent
  \/ Crash
  \/ \E w \in Workers : Ask(w) \/ Reject(w) \/ Open(w) \/ Change(w) \/ Reply(w)

Spec == Init /\ [][Next]_regVars
=============================================================================
