------------------------------ MODULE BriefContext ------------------------------
(*****************************************************************************)
(* What is derived from the risk picture and leaves the service: the daily   *)
(* brief's material with its sources (brief/context.py, brief/schema.py,     *)
(* references.py), the audit of a brief (audit.py), and the incidents opened *)
(* from the risks with their timelines (incidents/declaration.py,            *)
(* incidents/linking.py, incidents/timeline.py).                             *)
(*                                                                           *)
(* All of it is a function of one read of the history and an instant.  A     *)
(* report stands for its id; identifiers and titles of incidents are left    *)
(* out, and of generated output everything but the evidence.                 *)
(*****************************************************************************)
EXTENDS RiskPicture

CONSTANTS
  MaxRecent,     (* max_recent_events of build_brief_context                  *)
  MaxEvidence    (* MAX_EVIDENCE_EVENT_IDS                                    *)

ASSUME BriefAssumption == {MaxRecent, MaxEvidence} \subseteq Nat \ {0}

(* _order_newest_first, cut at the bound of the recent view. *)
Newer(a, b) == a.at > b.at \/ (a.at = b.at /\ a.rank < b.rank)
RecentEvents(present) ==
  LET ordered == SortedBy(present, Newer)
  IN SubSeq(ordered, 1, Min({MaxRecent, Len(ordered)}))

(* A risk's event_ids are in the order its rule cites them.  The variant      *)
(* cites the latest report first.                                             *)
CitedNewestFirst(risk) == SortedBy(risk.cites, Newer)
EventIds(risk) == OldestFirst(risk.cites)

(* collect_source_event_ids: the lists are read one after another, the risks'  *)
(* evidence and then the recent events, and an id is kept where it is met     *)
(* first.  A mention is a list and a place in it.  The variant does not look  *)
(* whether an id was met before.                                              *)
IdLists(risks, recent) == [i \in DOMAIN risks |-> EventIds(risks[i])] \o <<recent>>
Mentions(lists) == UNION {{<<i, k>> : k \in DOMAIN lists[i]} : i \in DOMAIN lists}
Mentioned(lists, m) == lists[m[1]][m[2]]
ReadOut(lists, mentions) ==
  LET read == SortedBy(mentions, Lexicographic)
  IN [k \in DOMAIN read |-> Mentioned(lists, read[k])]
Collected(risks, recent) ==
  LET lists == IdLists(risks, recent) IN ReadOut(lists, Mentions(lists))
SourceEventIds(risks, recent) ==
  LET lists == IdLists(risks, recent)
      first == {m \in Mentions(lists) : \A l \in Mentions(lists) :
                  Mentioned(lists, l) = Mentioned(lists, m)
                    => l = m \/ Lexicographic(m, l)}
  IN ReadOut(lists, first)

(* build_source_references: one reference per id, resolved or not. *)
References(ids, events) ==
  [i \in DOMAIN ids |-> [event |-> ids[i], resolved |-> ids[i] \in events]]

Warnings(count, risks, shown) ==
  IF count = 0 THEN {"no_events"}
  ELSE {w \in {"no_risks", "events_omitted"} :
          CASE w = "no_risks"       -> risks = <<>>
            [] w = "events_omitted" -> shown < count}

(* suggest_next_actions: the canonical advice is a function of the rule. *)
NextActions(risks) ==
  [i \in DOMAIN risks |->
     [rule |-> risks[i].rule, severity |-> risks[i].severity,
      event_ids |-> EventIds(risks[i])]]

(* build_brief_context; generate_brief carries all of it over into the brief. *)
Context(present, risks, recent, sources) ==
  [risks            |-> risks,
   recent_events    |-> recent,
   source_event_ids |-> sources,
   references       |-> References(sources, present),
   warnings         |-> Warnings(Cardinality(present), risks, Len(recent)),
   next_actions     |-> NextActions(risks)]
BriefOver(present, risks, recent) ==
  Context(present, risks, recent, SourceEventIds(risks, recent))
Brief(events, at) ==
  LET present == OccurredBy(events, at)
  IN BriefOver(present, Prioritize(Detected(present, at)), RecentEvents(present))

(* audit_daily_brief: read off the brief, never off the store. *)
MissingEventIds(references) ==
  LET unresolved == Kept(references, LAMBDA r : ~r.resolved)
  IN [i \in DOMAIN unresolved |-> unresolved[i].event]
Audit(brief) ==
  [source_event_ids  |-> brief.source_event_ids,
   missing_event_ids |-> MissingEventIds(brief.references),
   warning_codes     |-> brief.warnings]

-----------------------------------------------------------------------------
RiskToIncidentSeverity ==
  [low |-> "low", medium |-> "medium", high |-> "high", critical |-> "critical"]

(* declare_incidents_from_events: one incident per risk, most urgent first.   *)
(* Incident.declare refuses more evidence than its bound, which no caller     *)
(* between the two catches: one refusal is the answer to the whole call.      *)
Refuses(risk) == Cardinality(risk.cites) > MaxEvidence
DeclareFrom(risk) ==
  [severity |-> RiskToIncidentSeverity[risk.severity], event_ids |-> EventIds(risk)]
DeclareAll(risks) ==
  IF \E i \in DOMAIN risks : Refuses(risks[i])
    THEN [outcome |-> "invalid", incidents |-> <<>>]
    ELSE [outcome   |-> "ok",
          incidents |-> [i \in DOMAIN risks |-> DeclareFrom(risks[i])]]
Declared(events, at) == DeclareAll(Prioritize(Detected(events, at)))

(* resolve_incident_events and the timeline built on it, which sorts again.   *)
(* An incident cites no event twice, so the list and its range sort alike.    *)
Resolved(incident, events) ==
  [events  |-> Kept(incident.event_ids, LAMBDA e : e \in events),
   missing |-> Kept(incident.event_ids, LAMBDA e : e \notin events)]
Timeline(incident, events) ==
  LET resolved == Resolved(incident, events)
  IN [entries           |-> OldestFirst(Range(resolved.events)),
      missing_event_ids |-> resolved.missing]

(* The evidence of generate_incident_summary: the references are resolved     *)
(* apart from the timeline.  audit_incident_summary reads them as Audit does. *)
Summary(incident, events) ==
  LET timeline == Timeline(incident, events)
  IN [source_event_ids |-> incident.event_ids,
      references       |-> References(incident.event_ids, events),
      warnings         |->
        {w \in {"missing_events", "no_timeline"} :
           CASE w = "missing_events" -> timeline.missing_event_ids # <<>>
             [] w = "no_timeline"    -> timeline.entries = <<>>}]
SummaryAudit(summary) == Audit(summary)

-----------------------------------------------------------------------------
(* A brief accounts for every report that has occurred: the evidence of all   *)
(* its risks comes before what is merely recent and in the risks' order, each *)
(* report once and resolved, so that the audit misses none; what it leaves    *)
(* out is older than everything it shows as recent, is no risk's evidence,    *)
(* and is owned up to by a warning.                                           *)
AccountsFor(brief, audit, present) ==
  LET sources == brief.source_event_ids
      citing(e) == {i \in DOMAIN brief.risks : e \in brief.risks[i].cites}
  IN /\ IsInjective(sources)
     /\ Range(sources) \subseteq present
     /\ audit.missing_event_ids = <<>>
     /\ \A i, j \in DOMAIN sources :
          i < j /\ citing(sources[j]) # {} =>
            /\ citing(sources[i]) # {}
            /\ Min(citing(sources[i])) <= Min(citing(sources[j]))
     /\ \A e \in present \ Range(sources) :
          /\ citing(e) = {}
          /\ \A r \in Range(brief.recent_events) : Newer(r, e)
          /\ "events_omitted" \in audit.warning_codes
SourcesAccounted ==
  \A brief \in {Brief(stored, now)} : AccountsFor(brief, Audit(brief), Present)

(* Opening incidents from the stored events is all or nothing: it is refused  *)
(* exactly when some risk has more evidence than an incident may cite.        *)
(* Otherwise every risk and every suggested action has its incident, in the   *)
(* same order, and the timeline of each over the stored events is that risk's *)
(* evidence, complete, and nothing of the future; so is what the audit of its *)
(* summary names.                                                             *)
CarriesRisk(incident, action, risks) ==
  LET timeline == Timeline(incident, stored)
      shown    == Range(timeline.entries)
      audit    == SummaryAudit(Summary(incident, stored))
  IN /\ Range(audit.source_event_ids) = shown
     /\ audit.missing_event_ids = <<>> /\ audit.warning_codes = {}
     /\ shown \subseteq Present /\ timeline.missing_event_ids = <<>>
     /\ timeline.entries = action.event_ids
     /\ \E r \in risks : /\ r.cites = shown /\ r.rule = action.rule
                         /\ Weight(incident.severity) = Weight(r.severity)
DeclaredLike(declared, actions, risks) ==
  IF \E r \in risks : Cardinality(r.cites) > MaxEvidence
    THEN declared.outcome # "ok" /\ declared.incidents = <<>>
    ELSE /\ Len(declared.incidents) = Cardinality(risks)
         /\ Len(actions) = Len(declared.incidents)
         /\ \A i \in DOMAIN actions :
              CarriesRisk(declared.incidents[i], actions[i], risks)
DeclarationsCarryTheirRisk ==
  DeclaredLike(Declared(stored, now), Brief(stored, now).next_actions, Risks)
=============================================================================
