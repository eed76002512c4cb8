-------------------------------- MODULE RiskRules --------------------------------
(*****************************************************************************)
(* The three risk rules (risks/rules), the detector that runs them           *)
(* (risks/engine.py) and the ranking of what they raise (risks/priority.py). *)
(*                                                                           *)
(* A risk is the rule, the severity and the cited reports.  Its title is a   *)
(* function of the subject and is left to the rank that already orders the   *)
(* reports, as are the final tie-breaks by event id.                         *)
(*****************************************************************************)
EXTENDS WorkState

CONSTANTS
  EscalateAfter,     (* ESCALATION_AFTER of the overdue and blocked rules     *)
  Window,            (* WINDOW of the integration rule                        *)
  FailureThreshold,  (* FAILURE_THRESHOLD                                     *)
  EscalationCount    (* ESCALATION_COUNT                                      *)

ASSUME RulesAssumption ==
  /\ {EscalateAfter, Window, FailureThreshold, EscalationCount} \subseteq Nat
  /\ 0 < FailureThreshold /\ FailureThreshold <= EscalationCount

Weight(severity) ==
  CASE severity = "medium" -> 2 [] severity = "high" -> 3 [] severity = "critical" -> 4

(* _severity of the overdue and blocked rules: at the boundary it is already  *)
(* high.  The variant is high at the boundary only.                           *)
AgedExactly(since, now) == IF now - since = EscalateAfter THEN "high" ELSE "medium"
AgedSeverity(since, now) == IF now - since >= EscalateAfter THEN "high" ELSE "medium"

(* WorkState.overdue_deadline, for tracked work.  The variant forgets that    *)
(* finished work has no deadline to miss.                                     *)
PastDeadline(state, now) ==
  state.due_event # NoReport /\ state.due_event.due < now
MissedDeadline(state, now) ==
  /\ state.due_event # NoReport
  /\ state.status \notin Terminal
  /\ state.due_event.due < now

(* is_overdue_work, for a report that names no entity. *)
ReportsOverdue(e, now) ==
  e.due # NoDue /\ e.status \notin Terminal /\ e.due < now

OverdueRisks(reports, now) ==
  LET late == {s.due_event : s \in {t \in WorkStates(reports) : MissedDeadline(t, now)}}
                \cup {e \in Unkeyed(reports) : ReportsOverdue(e, now)}
  IN {[rule |-> "overdue_work", severity |-> AgedSeverity(e.due, now), cites |-> {e}] :
        e \in late}

BlockedRisks(reports, now) ==
  LET blocked == ({s.blocked_since : s \in WorkStates(reports)} \ {NoReport})
                   \cup {e \in Unkeyed(reports) : e.status = "blocked"}
  IN {[rule |-> "blocked_work", severity |-> AgedSeverity(e.at, now), cites |-> {e}] :
        e \in blocked}

(* _active_failures: in the window, and not before the last recovery.  The    *)
(* variant counts failures a recovery has cleared.                            *)
InWindow(reports, k, now) ==
  {e \in About(reports, k) : e.status = "failed" /\ now - Window <= e.at /\ e.at <= now}
ActiveFailures(reports, k, now) ==
  {e \in About(reports, k) :
     /\ e.status = "failed"
     /\ now - Window <= e.at /\ e.at <= now
     /\ \A r \in About(reports, k) : r.status = "resolved" => r.at <= e.at}

IntegrationRisks(reports, now) ==
  LET raised == {f \in {ActiveFailures(reports, k, now) : k \in Tracked(reports)} :
                   Cardinality(f) >= FailureThreshold}
  IN {[rule     |-> "repeated_integration_failure",
       severity |-> IF Cardinality(f) >= EscalationCount THEN "critical" ELSE "high",
       cites    |-> f] : f \in raised}

(* detect_risks over default_rules: every rule judges the same present. *)
Detected(reports, now) ==
  LET present == OccurredBy(reports, now) IN
  OverdueRisks(present, now) \cup BlockedRisks(present, now)
    \cup IntegrationRisks(present, now)

-----------------------------------------------------------------------------
RuleOrder(rule) ==
  CASE rule = "blocked_work" -> 1
    [] rule = "overdue_work" -> 2
    [] rule = "repeated_integration_failure" -> 3

(* event_ids[0]: a rule cites its reports by occurrence, then id. *)
FirstCited(risk) ==
  CHOOSE e \in risk.cites : \A d \in risk.cites : d = e \/ Before(e, d)

Lexicographic(a, b) ==
  \E i \in DOMAIN a : a[i] < b[i] /\ \A j \in 1..(i - 1) : a[j] = b[j]

(* _priority_key, smaller first.  The variant stops at the evidence count.    *)
CoarseKey(risk) == <<0 - Weight(risk.severity), 0 - Cardinality(risk.cites)>>
PriorityKey(risk) ==
  <<0 - Weight(risk.severity), 0 - Cardinality(risk.cites),
    RuleOrder(risk.rule), FirstCited(risk).rank>>

MoreUrgent(a, b) == Lexicographic(PriorityKey(a), PriorityKey(b))

Prioritize(risks) == SortedBy(risks, MoreUrgent)
=============================================================================
