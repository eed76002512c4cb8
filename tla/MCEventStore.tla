------------------------------ MODULE MCEventStore ------------------------------
(* Small instances of EventStore for TLC. *)
EXTENDS EventStore, TLC

CONSTANTS p1, p2, k1, k2

(* One key repeated inside a batch and shared between two bodies, and events  *)
(* with no key or a key of their own.                                         *)
Bodies == p1 :> <<k1, NoKey, k1>> @@ p2 :> <<k2, k1>>
=============================================================================
