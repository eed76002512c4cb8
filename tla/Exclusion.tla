------------------------------ MODULE Exclusion ------------------------------
(***************************************************************************)
(* What a model or a composed narrative is told (exclusion.py and its uses *)
(* in brief/generate.py, brief/narrative.py, incidents/summary.py and      *)
(* incidents/narrative.py).  A text is abstracted to its origins: the      *)
(* event fields and the operator's free text its values come from, in the  *)
(* names a deployment excludes them by.  A placeholder has no origin, and  *)
(* neither have rules, counts, event ids and the service's own judgements. *)
(***************************************************************************)
EventFields == {"source", "event_type", "subject", "severity", "status", "occurred_at"}
FreeText == "incident_free_text"
ExcludableNames == EventFields \cup {FreeText}

\* Where prose comes from: a rule titles its risk after the subject; an
\* incident is titled by an operator, or after the risk it is opened from.
RiskTitle == {"subject"}
IncidentTitle == {"subject", FreeText}

\* A text held back as a unit when one of its controls is excluded.
HeldBack(text, controls, excluded) == IF controls \cap excluded = {} THEN text ELSE {}

\* _render_event and _render_entry: field by field.
EventLine(excluded) == UNION {HeldBack({f}, {f}, excluded) : f \in EventFields}

\* A variant of ShownRiskTitle that only minds what is printed as a field.
TitleAsWritten(excluded) == RiskTitle
ShownRiskTitle(excluded) == HeldBack(RiskTitle, {"subject"}, excluded)
ShownIncidentTitle(excluded) ==
    HeldBack(IncidentTitle, {"subject", FreeText}, excluded)
ShownFreeText(excluded) == HeldBack({FreeText}, {FreeText}, excluded)
Span(excluded) == HeldBack({"occurred_at"}, {"occurred_at"}, excluded)
=============================================================================
