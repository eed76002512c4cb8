----------------------------- MODULE MCIncidentStore ----------------------------
(* Small instances of IncidentStore for TLC. *)
EXTENDS IncidentStore, TLC

(* Workers run the same code and event ids are opaque. *)
Interchangeable == Permutations(Workers) \cup Permutations(EventIds)
=============================================================================
