----------------------------- MODULE Generation -----------------------------
(***************************************************************************)
(* Generating a daily brief or an incident summary: generate_brief         *)
(* (brief/generate.py) and generate_incident_summary (incidents/summary.py)*)
(* over the material PromptBudget renders, with a provider that may fail.  *)
(* What is phrased is left out: a generation is its warnings, the status   *)
(* of its summary, whether it is answered at all, and which fields what is *)
(* phrased, or shown to be phrased, comes from.                            *)
(***************************************************************************)
EXTENDS PromptBudget, Exclusion

CONSTANTS
    PreambleLen,   \* the preamble's lines, joined
    BlockLen,      \* a trailer block's lines, joined
    MaxRecent,     \* DEFAULT_RECENT_EVENTS
    Pictures,      \* the pictures to generate from
    Exclusions     \* the sets of names deployments exclude

VARIABLES
    picture,    \* what the generation describes
    composes,   \* the provider composes narratives itself: no model is asked
    excluded,   \* the deployment's excluded names
    warnings,   \* the codes of the warnings gathered so far
    status,     \* the summary's status, "none" until there is one
    outcome     \* "pending", "answered" or "failed"

gvars == <<picture, composes, excluded, warnings, status, outcome>>
vars == <<bvars, gvars>>

\* A brief describes risks and events: the newest MaxRecent, and older ones.
\* An incident describes the events it cites: those found, and those missing.
IsBrief(p) ==
    /\ p.kind = "brief"
    /\ Len(p.events) <= MaxRecent
    /\ p.unseen > 0 => Len(p.events) = MaxRecent
    /\ p.events = <<>> => p.risks = <<>>
IsIncident(p) ==
    /\ p.kind = "incident" /\ p.risks = <<>>
    /\ p.events = <<>> => p.unseen > 0

Picture ==
    [kind : {"brief", "incident"}, risks : Seq(Nat), events : Seq(Nat),
     unseen : Nat, resolved : BOOLEAN]

ASSUME LengthsAssumption == {PreambleLen, BlockLen, MaxRecent} \subseteq Nat
ASSUME PictureAssumption ==
    Pictures \subseteq Picture /\ \A p \in Pictures : IsBrief(p) \/ IsIncident(p)
ASSUME ExclusionAssumption == Exclusions \subseteq SUBSET ExcludableNames

\* What a context says of its own gaps (_warnings), and what a timeline misses.
BriefGaps(p) ==
    IF p.events = <<>> THEN {"no_events"}
    ELSE (IF p.risks = <<>> THEN {"no_risks"} ELSE {})
           \cup (IF p.unseen > 0 THEN {"events_omitted"} ELSE {})
IncidentGaps(p) ==
    (IF p.unseen > 0 THEN {"missing_events"} ELSE {})
      \cup (IF p.events = <<>> THEN {"no_timeline"} ELSE {})
Gaps(p) == IF p.kind = "brief" THEN BriefGaps(p) ELSE IncidentGaps(p)

\* A brief's trailer carries its notes; an incident's the resolution note and
\* the count of missing events, each a block of its own.
Material(p) ==
    [preamble |-> PreambleLen,
     sections |-> IF p.kind = "brief" THEN <<p.risks, p.events>> ELSE <<p.events>>,
     trailer  |-> IF p.kind = "brief"
                  THEN IF BriefGaps(p) = {} THEN <<>> ELSE <<BlockLen>>
                  ELSE (IF p.resolved THEN <<BlockLen>> ELSE <<>>)
                         \o (IF p.unseen > 0 THEN <<BlockLen>> ELSE <<>>)]

Init ==
    /\ picture \in Pictures
    /\ composes \in BOOLEAN
    /\ excluded \in Exclusions
    /\ warnings = Gaps(picture)
    /\ status = "none" /\ outcome = "pending"
    /\ doc = Material(picture)
    /\ phase = "fit"
    /\ used = 0 /\ reserve = 0
    /\ shown = <<>>

\* The offline provider: the summary restates the picture, nothing is rendered.
Compose ==
    /\ composes /\ outcome = "pending"
    /\ status' = "deterministic" /\ outcome' = "answered"
    /\ UNCHANGED <<bvars, picture, composes, excluded, warnings>>

RenderMaterial ==
    /\ ~ composes
    /\ Render
    /\ UNCHANGED gvars

\* CompletionRequest bounds its input; its refusal is not a provider's failure
\* and nothing handles it.
RequestRefused ==
    /\ phase = "rendered" /\ outcome = "pending"
    /\ used > Budget
    /\ outcome' = "failed"
    /\ UNCHANGED <<bvars, picture, composes, excluded, warnings, status>>

TruncationWarnings == IF Truncated THEN {"prompt_truncated"} ELSE {}

Settle(s, codes) ==
    /\ phase = "rendered" /\ outcome = "pending"
    /\ used <= Budget
    /\ status' = s
    /\ warnings' = warnings \cup TruncationWarnings \cup codes
    /\ outcome' = "answered"
    /\ UNCHANGED <<bvars, picture, composes, excluded>>

ProviderFails == Settle("unavailable", {"model_unavailable"})
ProviderSaysNothing == Settle("unavailable", {"empty_summary"})
ProviderAnswers == Settle("model_unverified", {})

Next ==
    \/ Compose \/ RenderMaterial \/ RequestRefused
    \/ ProviderFails \/ ProviderSaysNothing \/ ProviderAnswers

Spec == Init /\ [][Next]_vars

\* What the material tells the model: the lines a section has kept, and an
\* incident's preamble and resolution note, which are never trimmed.
Line(i, line) == IF shown[i] > 0 THEN line ELSE {}

BriefMaterial == Line(1, ShownRiskTitle(excluded)) \cup Line(2, EventLine(excluded))

IncidentMaterial ==
    UNION {ShownIncidentTitle(excluded), Line(1, EventLine(excluded)),
           IF picture.events /= <<>> THEN Span(excluded) ELSE {},
           IF picture.resolved THEN ShownFreeText(excluded) ELSE {}}

\* What a narrative composed offline tells: of a brief its most urgent risk's
\* title, of an incident its title and, over a timeline, its span and note.
BriefNarrative == IF picture.risks = <<>> THEN {} ELSE ShownRiskTitle(excluded)

IncidentNarrative ==
    IF picture.events = <<>> THEN ShownIncidentTitle(excluded)
    ELSE UNION {ShownIncidentTitle(excluded), Span(excluded),
                IF picture.resolved THEN ShownFreeText(excluded) ELSE {}}

Told ==
    CASE outcome /= "answered" -> {}
      [] outcome = "answered" /\ composes ->
           IF picture.kind = "brief" THEN BriefNarrative ELSE IncidentNarrative
      [] outcome = "answered" /\ ~ composes ->
           IF picture.kind = "brief" THEN BriefMaterial ELSE IncidentMaterial

\* The codes that lower confidence, most severe first.
NoData == {"no_events", "no_timeline"}
MissingEvidence == {"missing_events"}

\* A variant that takes a trimmed prompt for a complete one.
PartialUnlessTrimmed == {"events_omitted", "model_unavailable", "empty_summary"}

Partial ==
    {"events_omitted", "prompt_truncated", "model_unavailable", "empty_summary"}

Confidence ==
    CASE warnings \cap NoData /= {} -> "none"
      [] warnings \cap NoData = {} /\ warnings \cap MissingEvidence /= {} -> "low"
      [] warnings \cap (NoData \cup MissingEvidence) = {}
           /\ warnings \cap Partial /= {} -> "medium"
      [] OTHER -> "high"
-----------------------------------------------------------------------------
Codes == NoData \cup MissingEvidence \cup Partial \cup {"no_risks"}

(* A generation stays a rendering of its own picture: the document, how far  *)
(* it was filled, the warnings and the outcome keep their domains.           *)
TypeOK ==
    /\ picture \in Pictures /\ composes \in BOOLEAN /\ excluded \in Exclusions
    /\ doc = Material(picture)
    /\ phase \in {"fit", "sections", "items", "rendered"}
    /\ used \in Nat /\ reserve \in Nat
    /\ Len(shown) <= Len(doc.sections)
    /\ \A i \in DOMAIN shown : shown[i] \in 0 .. Len(doc.sections[i])
    /\ warnings \subseteq Codes
    /\ status \in {"none", "deterministic", "model_unverified", "unavailable"}
    /\ outcome \in {"pending", "answered", "failed"}
    /\ outcome = "answered" <=> status /= "none"

(* "high" confidence (assess_confidence) is only stated when every event of  *)
(* the picture was in view, a summary was written, and the model, if one was *)
(* asked, was shown the whole document.                                      *)
HighConfidenceIsEarned ==
    outcome = "answered" /\ Confidence = "high" =>
        /\ picture.unseen = 0 /\ picture.events /= <<>>
        /\ status \in {"deterministic", "model_unverified"}
        /\ ~ composes => used = FullLength(doc)

(* What a deployment excludes reaches neither the model nor the composed     *)
(* narrative, as a field, through prose derived from it, or in text that is  *)
(* never trimmed; and no more is held back than what derives from it: the    *)
(* model is told every other field of the events it is shown, and a title or *)
(* a note none of whose origins is excluded.                                 *)
ExcludedNeverTold ==
    outcome = "answered" =>
        /\ Told \cap excluded = {}
        /\ ~ composes /\ shown[Len(shown)] > 0 => EventFields \ excluded \subseteq Told
        /\ composes /\ picture.risks /= <<>> => RiskTitle \ excluded \subseteq Told
        /\ picture.kind = "incident" /\ IncidentTitle \cap excluded = {} =>
             IncidentTitle \subseteq Told

(* generate_brief's docstring: the model is a phrasing layer, so it is never *)
(* allowed to fail the brief.                                                *)
NeverFailsTheBrief == BudgetIsEnough => outcome /= "failed"
=============================================================================
