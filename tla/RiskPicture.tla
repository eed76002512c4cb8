------------------------------- MODULE RiskPicture -------------------------------
(*****************************************************************************)
(* The risk picture over time: producers report in any order, late and ahead *)
(* of time, and a reader asks at an instant that moves on.  The picture is   *)
(* recomputed from the stored reports on every read (list_risks in           *)
(* services/risk_reporting.py over read_all_events, one snapshot).           *)
(*                                                                           *)
(* Bounds: MaxReports reports; occurrences, deadlines and the reading        *)
(* instant lie in 0..MaxTime.                                                *)
(*****************************************************************************)
EXTENDS RiskRules

CONSTANTS
  MaxReports, MaxTime,
  StatedStatuses,    (* the statuses producers use in this instance           *)
  StatedDues,        (* the deadlines producers use in this instance          *)
  Subjects           (* the entities (and NoEntity) reported on               *)

ASSUME PictureAssumption ==
  /\ MaxReports \in Nat /\ MaxTime \in Nat
  /\ StatedStatuses \subseteq Statuses
  /\ StatedDues \subseteq (0..MaxTime) \cup {NoDue}
  /\ Subjects \subseteq Entities \cup {NoEntity}

VARIABLES
  stored,   (* the event history                                              *)
  now       (* the instant the picture is read at                             *)

vars == <<stored, now>>

Report ==
  [at : 0..MaxTime, rank : 1..MaxReports, entity : Subjects,
   status : StatedStatuses, due : StatedDues]

ASSUME PlaceholdersAssumption ==
  NoReport \notin Report /\ NoStatus \notin {"open", "blocked", "failed"} \cup Terminal

Init == stored = {} /\ now = 0

(* A report is stored; it may be of the past or of the future.  Ids are the   *)
(* primary key.  The variant lets two reports share one.                      *)
StoreTwice(e) ==
  /\ stored' = stored \cup {e}
  /\ UNCHANGED now
Store(e) ==
  /\ \A d \in stored : d.rank # e.rank
  /\ stored' = stored \cup {e}
  /\ UNCHANGED now

Advance ==
  /\ now < MaxTime
  /\ now' = now + 1
  /\ UNCHANGED stored

Next == Advance \/ \E e \in Report : Store(e)

Spec == Init /\ [][Next]_vars

-----------------------------------------------------------------------------
(* The history holds well-formed reports, no two under one id, and the        *)
(* reading instant stays in its range.                                        *)
TypeOK ==
  /\ stored \subseteq Report /\ now \in 0..MaxTime
  /\ \A d, e \in stored : d.rank = e.rank => d = e

Present == OccurredBy(stored, now)
State(k) == Project(About(Present, k))
Risks == Detected(stored, now)

Latest(reports) == CHOOSE e \in reports : \A d \in reports : d = e \/ Before(d, e)
Stating(k) == {e \in About(Present, k) : e.status # NoStatus}

(* The fold computes what the contract says of a history read as a whole: the *)
(* status is the latest one stated; the deadline is the latest one stated,    *)
(* unless the work was finished after it; a block dates from its first report *)
(* since the last other status.                                               *)
ProjectionMatchesHistory ==
  \A k \in Tracked(Present) :
    LET dated == {e \in About(Present, k) : e.due # NoDue}
        ends  == {e \in Stating(k) : e.status \in Terminal}
        unblocks == {e \in Stating(k) : e.status # "blocked"}
        run   == {e \in Stating(k) : \A d \in unblocks : Before(d, e)}
        s     == State(k)
    IN /\ s.status_event = IF Stating(k) = {} THEN NoReport ELSE Latest(Stating(k))
       /\ s.due_event =
            IF dated = {} \/ \E e \in ends : Before(Latest(dated), e)
              THEN NoReport ELSE Latest(dated)
       /\ s.blocked_since =
            IF run = {} THEN NoReport
            ELSE CHOOSE e \in run : \A d \in run : d = e \/ Before(e, d)

(* However often work is reported, it raises at most one overdue and one      *)
(* blocked risk, and none once its latest stated status finishes it.          *)
OneLiveRiskPerWork ==
  \A k \in Tracked(stored) : \A rule \in {"overdue_work", "blocked_work"} :
    LET raised == {r \in Risks : r.rule = rule /\ \E e \in r.cites : e.entity = k} IN
    /\ Cardinality(raised) <= 1
    /\ raised # {} /\ Stating(k) # {} => Latest(Stating(k)).status \notin Terminal

(* Every risk cites stored reports that have occurred, and the listed order   *)
(* is the only one the ranking admits: no two risks of a picture are tied, so *)
(* the list has them all, and never depends on the order events arrived in.   *)
RankedAndTraceable ==
  /\ \A r \in Risks : r.cites # {} /\ r.cites \subseteq Present
  /\ \A r, q \in Risks : r = q \/ MoreUrgent(r, q) \/ MoreUrgent(q, r)
  /\ LET list == Prioritize(Risks)
     IN /\ Risks = {list[i] : i \in DOMAIN list}
        /\ \A i, j \in DOMAIN list : i < j => MoreUrgent(list[i], list[j])

(* A report that states neither status nor deadline changes nothing known     *)
(* about its work, and one older than the report that set the current status  *)
(* never changes that status, however late it arrives.                        *)
LateReportsNeverOverrule ==
  [][\A e \in stored' \ stored :
       e.entity # NoEntity /\ e.at <= now =>
         /\ Informational(e) => State(e.entity)' = State(e.entity)
         /\ State(e.entity).status_event # NoReport /\ Before(e, State(e.entity).status_event)
              => State(e.entity)'.status_event = State(e.entity).status_event]_vars

(* A resolved report that comes last of all that is known of its work leaves  *)
(* no risk that cites the work, whichever rule raised it, but the failures of *)
(* its own instant: only a later recovery clears those, and they still stand, *)
(* all of them, in whatever order recovery and failures arrived.              *)
ResolvedClearsEveryRule ==
  [][\A e \in stored' \ stored :
       /\ e.entity # NoEntity /\ e.status = "resolved" /\ e.at <= now
       /\ \A d \in About(Present, e.entity) : Before(d, e)
       => \A r \in Risks' :
            (\E c \in r.cites : c.entity = e.entity) =>
              /\ r.rule = "repeated_integration_failure"
              /\ r.cites = {d \in About(Present, e.entity) :
                              d.status = "failed" /\ d.at = e.at}]_vars

(* While nothing new occurs, the passing of time alone never takes an overdue *)
(* or blocked risk out of the picture nor lowers its severity.                *)
RisksOnlyEscalate ==
  [][stored' = stored /\ Present' = Present =>
       \A r \in {x \in Risks : x.rule # "repeated_integration_failure"} :
         \E q \in Risks' : /\ q.rule = r.rule /\ q.cites = r.cites
                           /\ Weight(q.severity) >= Weight(r.severity)]_vars

(* Work reopened after it was finished has no deadline but one stated since:  *)
(* finishing it is the one explicit deadline removal.                         *)
ReopenedWorkNeedsFreshDeadline ==
  \A k \in Tracked(Present) :
    \A e \in Stating(k) :
      e.status \in Terminal /\ State(k).status \notin Terminal
        /\ State(k).due_event # NoReport => Before(e, State(k).due_event)
=============================================================================
