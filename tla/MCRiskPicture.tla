----------------------------- MODULE MCRiskPicture ------------------------------
(* Small instances of RiskPicture and of what is derived from it, for TLC. *)
EXTENDS BriefContext
=============================================================================
