---------------------------- MODULE RiskPictureProofs ----------------------------
(*****************************************************************************)
(* Proofs about the risk picture.  A finite set under an order without ties  *)
(* has a member at every place, so sorting lists it in order; the fold over  *)
(* that list knows, after each report, the latest status stated so far and   *)
(* the latest deadline not cleared since.  What the projection yields for a  *)
(* whole history follows, and from it what the picture promises of risks.    *)
(*                                                                           *)
(* The proofs hold for any entities, statuses, deadlines, number of reports, *)
(* instants, thresholds and order of arrival.                                *)
(*****************************************************************************)
EXTENDS RiskPicture, FiniteSetTheorems, Numbers, TLAPS

-----------------------------------------------------------------------------
(* Orders and places.  R is a set of pairs.                                   *)
StrictlyOrders(R, S) ==
  /\ \A a \in S : <<a, a>> \notin R
  /\ \A a, b, c \in S : <<a, b>> \in R /\ <<b, c>> \in R => <<a, c>> \in R
  /\ \A a, b \in S : a = b \/ <<a, b>> \in R \/ <<b, a>> \in R

Below(R, S, e) == {d \in S : <<d, e>> \in R}

(* Whoever precedes another has the smaller place, and every place is taken.  *)
LEMMA Places ==
  ASSUME NEW S, IsFiniteSet(S), NEW R, StrictlyOrders(R, S)
  PROVE  /\ \A e \in S : Cardinality(Below(R, S, e)) \in 0 .. (Cardinality(S) - 1)
         /\ \A d, e \in S : <<d, e>> \in R =>
              Cardinality(Below(R, S, d)) < Cardinality(Below(R, S, e))
         /\ \A k \in 1 .. Cardinality(S) :
              \E e \in S : Cardinality(Below(R, S, e)) = k - 1
<1> DEFINE place(e) == Cardinality(Below(R, S, e))
           n == Cardinality(S)
<1>1. n \in Nat
  BY FS_CardinalityType
<1>2. ASSUME NEW e \in S PROVE place(e) \in 0 .. (n - 1) /\ IsFiniteSet(Below(R, S, e))
  <2>1. Below(R, S, e) \in SUBSET S /\ e \notin Below(R, S, e)
    BY DEF Below, StrictlyOrders
  <2>2. /\ IsFiniteSet(Below(R, S, e)) /\ place(e) <= n
        /\ n = place(e) => S = Below(R, S, e)
    BY <2>1, FS_Subset
  <2>3. place(e) \in Nat /\ n # place(e)
    BY <2>1, <2>2, FS_CardinalityType
  <2> HIDE DEF place, n
  <2> QED
    BY <1>1, <2>2, <2>3
<1>3. ASSUME NEW d \in S, NEW e \in S, <<d, e>> \in R PROVE place(d) < place(e)
  <2>1. Below(R, S, d) \in SUBSET Below(R, S, e)
    BY <1>3 DEF Below, StrictlyOrders
  <2>2. d \in Below(R, S, e) /\ d \notin Below(R, S, d)
    BY <1>3 DEF Below, StrictlyOrders
  <2>3. place(d) <= place(e) /\ place(d) # place(e)
    BY <1>2, <2>1, <2>2, FS_Subset
  <2>4. place(d) \in Nat /\ place(e) \in Nat
    BY <1>1, <1>2
  <2> HIDE DEF place
  <2> QED
    BY <2>3, <2>4
<1>4. ASSUME NEW k \in 1 .. n PROVE \E e \in S : place(e) = k - 1
  <2> DEFINE f == [e \in S |-> place(e) + 1]
  <2>1. f \in [S -> 1 .. n]
    <3> HIDE DEF place, n
    <3> QED
      BY <1>1, <1>2
  <2>2. ASSUME NEW d \in S, NEW e \in S, f[d] = f[e] PROVE d = e
    <3>1. place(d) = place(e) /\ place(d) \in Nat
      <4> HIDE DEF place, n
      <4> QED
        BY <1>1, <1>2, <2>2
    <3>2. <<d, e>> \notin R /\ <<e, d>> \notin R
      <4> HIDE DEF place
      <4> QED
        BY <1>3, <3>1
    <3> QED
      BY <3>2 DEF StrictlyOrders
  <2>3. f \in Injection(S, 1 .. n)
    <3> HIDE DEF f
    <3> QED
      BY <2>1, <2>2 DEF Injection, IsInjective
  <2>4. IsFiniteSet(1 .. n) /\ Cardinality(1 .. n) = n
    BY <1>1, FS_Interval
  <2>5. f \in Surjection(S, 1 .. n)
    <3> HIDE DEF f
    <3> QED
      BY <2>3, <2>4, FS_Injection
  <2>6. PICK e \in S : f[e] = k
    <3> HIDE DEF f, n
    <3> QED
      BY <2>5 DEF Surjection
  <2>7. place(e) + 1 = k /\ place(e) \in Nat
    <3> HIDE DEF place, n
    <3> QED
      BY <1>1, <1>2, <2>6
  <2> HIDE DEF place
  <2> QED
    BY <2>7
<1> QED
  BY <1>2, <1>3, <1>4

(* A sorted list: every member of S, each before those it precedes. *)
Lists(s, S, R) ==
  /\ Len(s) \in Nat /\ s \in [1 .. Len(s) -> S]
  /\ \A e \in S : \E i \in 1 .. Len(s) : s[i] = e
  /\ \A i, j \in 1 .. Len(s) : i < j <=> <<s[i], s[j]>> \in R

(* Members at their places are a sorted list. *)
LEMMA PlacedIsListed ==
  ASSUME NEW S, IsFiniteSet(S), NEW R, StrictlyOrders(R, S),
         NEW s \in [1 .. Cardinality(S) -> S],
         \A k \in 1 .. Cardinality(S) : Cardinality(Below(R, S, s[k])) = k - 1
  PROVE  Lists(s, S, R)
<1> DEFINE n == Cardinality(S)
           place(e) == Cardinality(Below(R, S, e))
<1>1. n \in Nat
  BY FS_CardinalityType
<1>2. s \in [1 .. n -> S] /\ \A k \in 1 .. n : s[k] \in S /\ place(s[k]) = k - 1
  OBVIOUS
<1>3. /\ \A e \in S : place(e) \in 0 .. (n - 1)
      /\ \A d, e \in S : <<d, e>> \in R => place(d) < place(e)
  BY Places
<1>4. \A d, e \in S : d = e \/ <<d, e>> \in R \/ <<e, d>> \in R
  BY DEF StrictlyOrders
<1> HIDE DEF n, place
<1>5. Len(s) = n
  <2>1. s \in Seq(S)
    BY <1>1, <1>2
  <2> QED
    BY <1>1, <1>2, <2>1
<1>6. ASSUME NEW e \in S PROVE \E i \in 1 .. n : s[i] = e
  <2>1. place(e) + 1 \in 1 .. n
    BY <1>1, <1>3
  <2>2. s[place(e) + 1] \in S /\ place(s[place(e) + 1]) = place(e)
    BY <1>1, <1>2, <1>3, <2>1
  <2> DEFINE d == s[place(e) + 1]
  <2>3. d \in S /\ place(d) = place(e) /\ place(e) \in Int
    BY <1>3, <2>2
  <2> HIDE DEF d
  <2>4. d = e
    <3>1. ~(place(d) < place(e)) /\ ~(place(e) < place(d))
      BY <2>3
    <3>2. <<d, e>> \notin R /\ <<e, d>> \notin R
      BY <1>3, <2>3, <3>1
    <3> QED
      BY <1>4, <2>3, <3>2
  <2> QED
    BY <2>1, <2>4 DEF d
<1>7. ASSUME NEW i \in 1 .. n, NEW j \in 1 .. n PROVE i < j <=> <<s[i], s[j]>> \in R
  <2>1. s[i] \in S /\ s[j] \in S /\ place(s[i]) = i - 1 /\ place(s[j]) = j - 1
    BY <1>2
  <2>2. i < j => <<s[i], s[j]>> \in R
    <3> SUFFICES ASSUME i < j PROVE <<s[i], s[j]>> \in R
      OBVIOUS
    <3>1. s[i] # s[j] /\ ~(<<s[j], s[i]>> \in R)
      BY <1>1, <1>3, <2>1
    <3> QED
      BY <1>4, <2>1, <3>1
  <2>3. <<s[i], s[j]>> \in R => i < j
    BY <1>1, <1>3, <2>1
  <2> QED
    BY <2>2, <2>3
<1> QED
  BY <1>1, <1>2, <1>5, <1>6, <1>7 DEF Lists

-----------------------------------------------------------------------------
(* Reports under the order of _order_key. *)
Readable(reports) ==
  /\ IsFiniteSet(reports)
  /\ \A e \in reports : e \in Report
  /\ \A d, e \in reports : d.rank = e.rank => d = e

Precedence(reports) == {p \in reports \X reports : Before(p[1], p[2])}

(* No two reports of a history are tied. *)
LEMMA BeforeOrders ==
  ASSUME NEW reports, Readable(reports)
  PROVE  /\ \A d \in reports : ~Before(d, d)
         /\ \A c, d, e \in reports : Before(c, d) /\ Before(d, e) => Before(c, e)
         /\ \A d, e \in reports : d = e \/ Before(d, e) \/ Before(e, d)
         /\ \A d, e \in reports : ~(Before(d, e) /\ Before(e, d))
<1>1. \A e \in reports : e.at \in Int /\ e.rank \in Int
  BY PictureAssumption DEF Readable, Report
<1>2. \A d, e \in reports : d.rank = e.rank => d = e
  BY DEF Readable
<1> QED
  BY <1>1, <1>2 DEF Before

(* So the pairs of Precedence order a history, and a place counts precedents. *)
LEMMA PrecedenceOrders ==
  ASSUME NEW reports, Readable(reports)
  PROVE  /\ StrictlyOrders(Precedence(reports), reports)
         /\ \A d, e \in reports : <<d, e>> \in Precedence(reports) <=> Before(d, e)
         /\ \A e \in reports :
              Below(Precedence(reports), reports, e) = {d \in reports : Before(d, e)}
<1>1. \A d, e \in reports : <<d, e>> \in Precedence(reports) <=> Before(d, e)
  BY DEF Precedence
<1>2. StrictlyOrders(Precedence(reports), reports)
  BY <1>1, BeforeOrders DEF StrictlyOrders
<1>3. ASSUME NEW e \in reports
      PROVE  Below(Precedence(reports), reports, e) = {d \in reports : Before(d, e)}
  BY <1>1 DEF Below
<1> QED
  BY <1>1, <1>2, <1>3

(* OldestFirst lists a history by precedence. *)
OrderedReports(s, reports) ==
  /\ Len(s) \in Nat /\ s \in [1 .. Len(s) -> reports]
  /\ \A e \in reports : \E i \in 1 .. Len(s) : s[i] = e
  /\ \A i, j \in 1 .. Len(s) : i < j <=> Before(s[i], s[j])

(* group_work folds the reports in the order sorted() puts them in. *)
LEMMA OldestFirstOrders ==
  ASSUME NEW reports, Readable(reports)
  PROVE  OrderedReports(OldestFirst(reports), reports)
<1> DEFINE n == Cardinality(reports)
           R == Precedence(reports)
           s == OldestFirst(reports)
<1>1. /\ IsFiniteSet(reports) /\ StrictlyOrders(R, reports)
      /\ \A d, e \in reports : <<d, e>> \in R <=> Before(d, e)
      /\ \A e \in reports : Below(R, reports, e) = {d \in reports : Before(d, e)}
  BY PrecedenceOrders DEF Readable
<1> DEFINE at(k) == CHOOSE e \in reports : Cardinality({d \in reports : Before(d, e)}) = k - 1
<1>2. s = [k \in 1 .. n |-> at(k)]
  BY DEF OldestFirst, SortedBy
<1> HIDE DEF R, s, at, n
<1>3. ASSUME NEW k \in 1 .. n
      PROVE  s[k] \in reports /\ Cardinality(Below(R, reports, s[k])) = k - 1
  <2> DEFINE P(e) == Cardinality({d \in reports : Before(d, e)}) = k - 1
  <2>1. PICK e \in reports : Cardinality(Below(R, reports, e)) = k - 1
    BY <1>1, <1>3, Places DEF n
  <2>2. P(e)
    BY <1>1, <2>1
  <2>3. s[k] = CHOOSE x \in reports : P(x)
    BY <1>2 DEF at
  <2> HIDE DEF P
  <2>4. s[k] \in reports /\ P(s[k])
    BY <2>2, <2>3
  <2> QED
    BY <1>1, <2>4 DEF P
<1>4. s \in [1 .. n -> reports]
  BY <1>2, <1>3
<1>5. Lists(s, reports, R)
  BY <1>1, <1>3, <1>4, PlacedIsListed DEF n
<1> QED
  BY <1>1, <1>5 DEF Lists, OrderedReports, s

-----------------------------------------------------------------------------
(* The fold.  f is what is known after each of the first m reports of s.      *)
Folds(s, f, m) ==
  f = [k \in 0 .. m |-> IF k = 0 THEN Unknown ELSE Fold(f[k - 1], s[k])]

(* The fold has a result for every list of reports: otherwise take the least  *)
(* number of turns for which it has none.                                     *)
LEMMA FoldsExist ==
  ASSUME NEW s, Len(s) \in Nat
  PROVE  \E f : Folds(s, f, Len(s))
<1> DEFINE without == {m \in Nat : ~ \E f : Folds(s, f, m)}
<1> SUFFICES ASSUME without # {} PROVE FALSE
  OBVIOUS
<1>2. without \in SUBSET Nat
  OBVIOUS
<1> HIDE DEF without
<1>3. PICK m \in without : \A n \in without : m <= n
  BY <1>2, Least
<1>4. m \in Nat /\ ~ \E f : Folds(s, f, m)
  BY DEF without
<1>5. m # 0
  <2> SUFFICES ASSUME m = 0 PROVE FALSE
    OBVIOUS
  <2> DEFINE f == [k \in 0 .. 0 |-> Unknown]
  <2>1. \A k \in 0 .. 0 : k = 0
    OBVIOUS
  <2>2. f = [k \in 0 .. 0 |-> IF k = 0 THEN Unknown ELSE Fold(f[k - 1], s[k])]
    BY <2>1, Zenon
  <2>3. Folds(s, f, 0)
    BY <2>2 DEF Folds
  <2> QED
    BY <1>4, <2>3
<1>6. m - 1 \in Nat /\ m - 1 \notin without
  BY <1>3, <1>4, <1>5
<1>7. PICK f : Folds(s, f, m - 1)
  BY <1>6 DEF without
<1> DEFINE last == Fold(f[m - 1], s[m])
           g == [k \in 0 .. m |-> IF k < m THEN f[k] ELSE last]
<1>8. /\ \A k \in 0 .. (m - 1) : k \in 0 .. m /\ k < m
      /\ \A k \in 0 .. m : k # 0 => k - 1 \in 0 .. m /\ k - 1 < m
      /\ \A k \in 0 .. m : k < m \/ k = m
      /\ \A k \in 0 .. m : k < m => k \in 0 .. (m - 1)
      /\ ~(m < m)
  BY <1>4, <1>6
<1>9. ASSUME NEW k \in 0 .. m
      PROVE  g[k] = IF k = 0 THEN Unknown ELSE Fold(g[k - 1], s[k])
  <2>1. CASE k = 0
    <3>1. k < m /\ k \in 0 .. (m - 1)
      BY <1>4, <1>5, <2>1
    <3>2. f[k] = Unknown
      BY <1>7, <2>1, <3>1, Zenon DEF Folds
    <3> HIDE DEF last
    <3> QED
      BY <2>1, <3>1, <3>2
  <2>2. CASE k # 0
    <3>1. g[k - 1] = f[k - 1]
      <4> HIDE DEF last
      <4> QED
        BY <1>8, <2>2
    <3>2. g[k] = Fold(f[k - 1], s[k])
      <4>1. CASE k < m
        <5>1. k \in 0 .. (m - 1)
          BY <1>8, <4>1
        <5>2. f[k] = Fold(f[k - 1], s[k])
          BY <1>7, <2>2, <5>1, Zenon DEF Folds
        <5> HIDE DEF last
        <5> QED
          BY <4>1, <5>2
      <4>2. CASE k = m
        <5>1. g[k] = last
          <6> HIDE DEF last
          <6> QED
            BY <1>8, <4>2
        <5> QED
          BY <4>2, <5>1
      <4> QED
        BY <1>8, <4>1, <4>2
    <3> QED
      BY <2>2, <3>1, <3>2
  <2> QED
    BY <2>1, <2>2
<1>10. Folds(s, g, m)
  <2>1. g = [k \in 0 .. m |-> g[k]]
    <3> HIDE DEF last
    <3> QED
      OBVIOUS
  <2> DEFINE turn(k) == IF k = 0 THEN Unknown ELSE Fold(g[k - 1], s[k])
             h == [k \in 0 .. m |-> turn(k)]
  <2>2. \A k \in 0 .. m : g[k] = h[k]
    <3> HIDE DEF g
    <3> QED
      BY <1>9, Zenon
  <2>3. DOMAIN h = 0 .. m /\ DOMAIN g = 0 .. m /\ h = [k \in 0 .. m |-> h[k]]
    <3>1. DOMAIN g = 0 .. m
      <4> HIDE DEF last
      <4> QED
        OBVIOUS
    <3> HIDE DEF turn, g
    <3> QED
      BY <3>1
  <2>4. g = h
    <3> HIDE DEF g, h
    <3> QED
      BY <2>1, <2>2, <2>3
  <2> QED
    BY <2>4 DEF Folds
<1> QED
  BY <1>4, <1>10

(* Effective is that result: unknown at first, then one turn per report.      *)
LEMMA EffectiveDefined ==
  ASSUME NEW s, Len(s) \in Nat, NEW f, f = Effective(s)
  PROVE  /\ f[0] = Unknown
         /\ \A k \in 1 .. Len(s) : f[k] = Fold(f[k - 1], s[k])
<1> DEFINE Body(g) == [k \in 0 .. Len(s) |-> IF k = 0 THEN Unknown ELSE Fold(g[k - 1], s[k])]
<1>1. PICK g : g = Body(g)
  BY FoldsExist DEF Folds
<1>2. f = CHOOSE h : h = Body(h)
  BY DEF Effective
<1>3. f = Body(f)
  BY <1>1, <1>2
<1>4. 0 \in 0 .. Len(s) /\ \A k \in 1 .. Len(s) : k \in 0 .. Len(s) /\ k # 0
  OBVIOUS
<1> DEFINE ff == f
<1>5. ff = Body(ff)
  BY <1>3
<1> HIDE DEF ff
<1>6. ff[0] = Unknown
  BY <1>4, <1>5, Zenon
<1>7. \A k \in 1 .. Len(s) : ff[k] = Fold(ff[k - 1], s[k])
  BY <1>4, <1>5, Zenon
<1> QED
  BY <1>6, <1>7 DEF ff

(* What a state is made of, and a report that finishes work. *)
IsState(st) ==
  st = [status |-> st.status, status_event |-> st.status_event, due_event |-> st.due_event]
Ends(e) == e.status # NoStatus /\ e.status \in Terminal

(* One turn: a stated status replaces the status, an end clears the deadline, *)
(* and a stated deadline is taken over last.                                  *)
LEMMA FoldTurn ==
  ASSUME NEW st, IsState(st), NEW e
  PROVE  /\ IsState(Fold(st, e))
         /\ Fold(st, e).status = IF e.status = NoStatus THEN st.status ELSE e.status
         /\ Fold(st, e).status_event = IF e.status = NoStatus THEN st.status_event ELSE e
         /\ Fold(st, e).due_event = IF e.due # NoDue THEN e
                                    ELSE IF Ends(e) THEN NoReport ELSE st.due_event
<1> DEFINE t == Fold(st, e)
<1> SUFFICES /\ IsState(t)
             /\ t.status = IF e.status = NoStatus THEN st.status ELSE e.status
             /\ t.status_event = IF e.status = NoStatus THEN st.status_event ELSE e
             /\ t.due_event = IF e.due # NoDue THEN e
                              ELSE IF Ends(e) THEN NoReport ELSE st.due_event
  OBVIOUS
<1> DEFINE stated ==
             IF e.status = NoStatus THEN st
             ELSE [status       |-> e.status,
                   status_event |-> e,
                   due_event    |-> IF e.status \in Terminal THEN NoReport ELSE st.due_event]
<1>1. /\ IsState(stated)
      /\ stated.status = IF e.status = NoStatus THEN st.status ELSE e.status
      /\ stated.status_event = IF e.status = NoStatus THEN st.status_event ELSE e
      /\ stated.due_event = IF Ends(e) THEN NoReport ELSE st.due_event
  BY DEF IsState, Ends
<1>2. t = CASE Informational(e)                    -> st
            [] ~Informational(e) /\ e.due = NoDue  -> stated
            [] ~Informational(e) /\ e.due # NoDue  -> [stated EXCEPT !.due_event = e]
  BY DEF Fold
<1> HIDE DEF stated, t
<1>3. CASE Informational(e)
  <2>1. t = st
    BY <1>2, <1>3
  <2> QED
    BY <1>3, <2>1 DEF Informational, Ends
<1>4. CASE ~Informational(e) /\ e.due = NoDue
  <2>1. t = stated
    BY <1>2, <1>4
  <2> QED
    BY <1>1, <1>4, <2>1
<1>5. CASE ~Informational(e) /\ e.due # NoDue
  <2>1. t = [stated EXCEPT !.due_event = e]
    BY <1>2, <1>5
  <2>2. /\ t = [status |-> stated.status, status_event |-> stated.status_event, due_event |-> e]
    BY <1>1, <2>1 DEF IsState
  <2> QED
    BY <1>1, <1>5, <2>2 DEF IsState
<1> QED
  BY <1>3, <1>4, <1>5

(* What the fold knows after k reports: the latest status stated, and the     *)
(* latest deadline unless an end came after it.                               *)
StatusKnown(s, st, k) ==
  \/ /\ st.status = NoStatus /\ st.status_event = NoReport
     /\ \A i \in 1 .. k : s[i].status = NoStatus
  \/ \E i \in 1 .. k :
       /\ s[i].status # NoStatus /\ st.status = s[i].status /\ st.status_event = s[i]
       /\ \A j \in (i + 1) .. k : s[j].status = NoStatus
DueKnown(s, st, k) ==
  \/ /\ st.due_event = NoReport
     /\ \A i \in 1 .. k : s[i].due # NoDue => \E j \in (i + 1) .. k : Ends(s[j])
  \/ \E i \in 1 .. k :
       /\ s[i].due # NoDue /\ st.due_event = s[i]
       /\ \A j \in (i + 1) .. k : s[j].due = NoDue /\ ~Ends(s[j])
Known(s, st, k) == IsState(st) /\ StatusKnown(s, st, k) /\ DueKnown(s, st, k)

(* A turn of the fold takes what is known after k reports to k + 1. *)
LEMMA TurnKnows ==
  ASSUME NEW s, NEW k \in Nat, NEW st, Known(s, st, k), NEW t, t = Fold(st, s[k + 1])
  PROVE  Known(s, t, k + 1)
<1> DEFINE e == s[k + 1]
           tt == t
<1>1. IsState(st) /\ StatusKnown(s, st, k) /\ DueKnown(s, st, k)
  BY DEF Known
<1>2. /\ IsState(tt)
      /\ tt.status = IF e.status = NoStatus THEN st.status ELSE e.status
      /\ tt.status_event = IF e.status = NoStatus THEN st.status_event ELSE e
      /\ tt.due_event = IF e.due # NoDue THEN e
                       ELSE IF Ends(e) THEN NoReport ELSE st.due_event
  <2>1. tt = Fold(st, e)
    OBVIOUS
  <2> HIDE DEF tt, e
  <2> QED
    BY <1>1, <2>1, FoldTurn, Zenon
<1> HIDE DEF tt
<1>3. /\ k + 1 \in 1 .. (k + 1) /\ \A i \in 1 .. k : i \in 1 .. (k + 1)
      /\ \A i \in 1 .. (k + 1) : i \in 1 .. k \/ i = k + 1
      /\ \A j \in (k + 1 + 1) .. (k + 1) : FALSE
      /\ \A i \in 1 .. k : k + 1 \in (i + 1) .. (k + 1)
      /\ \A i \in 1 .. k : \A j \in (i + 1) .. (k + 1) : j \in (i + 1) .. k \/ j = k + 1
      /\ \A i \in 1 .. k : \A j \in (i + 1) .. k : j \in (i + 1) .. (k + 1)
  OBVIOUS
<1>4. StatusKnown(s, tt, k + 1)
  <2>1. CASE e.status = NoStatus
    <3>1. tt.status = st.status /\ tt.status_event = st.status_event
      BY <1>2, <2>1
    <3>2. CASE /\ st.status = NoStatus /\ st.status_event = NoReport
               /\ \A i \in 1 .. k : s[i].status = NoStatus
      <4>1. \A i \in 1 .. (k + 1) : s[i].status = NoStatus
        BY <1>3, <2>1, <3>2
      <4> QED
        BY <3>1, <3>2, <4>1 DEF StatusKnown
    <3>3. ASSUME NEW i \in 1 .. k, s[i].status # NoStatus, st.status = s[i].status,
                 st.status_event = s[i], \A j \in (i + 1) .. k : s[j].status = NoStatus
          PROVE  StatusKnown(s, tt, k + 1)
      <4>1. i \in 1 .. (k + 1) /\ \A j \in (i + 1) .. (k + 1) : s[j].status = NoStatus
        BY <1>3, <2>1, <3>3
      <4> QED
        BY <3>1, <3>3, <4>1 DEF StatusKnown
    <3> QED
      BY <1>1, <3>2, <3>3 DEF StatusKnown
  <2>2. CASE e.status # NoStatus
    <3>1. tt.status = e.status /\ tt.status_event = e
      BY <1>2, <2>2
    <3> QED
      BY <1>3, <2>2, <3>1 DEF StatusKnown
  <2> QED
    BY <2>1, <2>2
<1>5. DueKnown(s, tt, k + 1)
  <2>1. CASE e.due # NoDue
    <3>1. tt.due_event = e
      BY <1>2, <2>1
    <3> QED
      BY <1>3, <2>1, <3>1 DEF DueKnown
  <2>2. CASE e.due = NoDue /\ Ends(e)
    <3>1. tt.due_event = NoReport
      BY <1>2, <2>2
    <3>2. \A i \in 1 .. (k + 1) : s[i].due # NoDue => \E j \in (i + 1) .. (k + 1) : Ends(s[j])
      BY <1>3, <2>2
    <3> QED
      BY <3>1, <3>2 DEF DueKnown
  <2>3. CASE e.due = NoDue /\ ~Ends(e)
    <3>1. tt.due_event = st.due_event
      BY <1>2, <2>3
    <3>2. CASE /\ st.due_event = NoReport
               /\ \A i \in 1 .. k : s[i].due # NoDue => \E j \in (i + 1) .. k : Ends(s[j])
      <4>1. \A i \in 1 .. (k + 1) :
              s[i].due # NoDue => \E j \in (i + 1) .. (k + 1) : Ends(s[j])
        BY <1>3, <2>3, <3>2
      <4> QED
        BY <3>1, <3>2, <4>1 DEF DueKnown
    <3>3. ASSUME NEW i \in 1 .. k, s[i].due # NoDue, st.due_event = s[i],
                 \A j \in (i + 1) .. k : s[j].due = NoDue /\ ~Ends(s[j])
          PROVE  DueKnown(s, tt, k + 1)
      <4>1. /\ i \in 1 .. (k + 1)
            /\ \A j \in (i + 1) .. (k + 1) : s[j].due = NoDue /\ ~Ends(s[j])
        BY <1>3, <2>3, <3>3
      <4> QED
        BY <3>1, <3>3, <4>1 DEF DueKnown
    <3> QED
      BY <1>1, <3>2, <3>3 DEF DueKnown
  <2> QED
    BY <2>1, <2>2, <2>3
<1> QED
  BY <1>2, <1>4, <1>5 DEF Known, tt

(* Hence after every report, by the least one after which it would not be.    *)
LEMMA FoldKnows ==
  ASSUME NEW s, Len(s) \in Nat, NEW f, f = Effective(s)
  PROVE  \A k \in 0 .. Len(s) : Known(s, f[k], k)
<1> DEFINE ff == f
           unknown == {k \in 0 .. Len(s) : ~Known(s, ff[k], k)}
<1>1. ff[0] = Unknown /\ \A k \in 1 .. Len(s) : ff[k] = Fold(ff[k - 1], s[k])
  BY EffectiveDefined
<1> HIDE DEF ff
<1>2. Known(s, ff[0], 0)
  <2>1. IsState(ff[0]) /\ ff[0].status = NoStatus /\ ff[0].status_event = NoReport
        /\ ff[0].due_event = NoReport
    BY <1>1 DEF Unknown, IsState
  <2>2. \A i \in 1 .. 0 : FALSE
    OBVIOUS
  <2> QED
    BY <2>1, <2>2 DEF Known, StatusKnown, DueKnown
<1>3. unknown = {}
  <2> SUFFICES ASSUME unknown # {} PROVE FALSE
    OBVIOUS
  <2>1. unknown \in SUBSET Nat
    OBVIOUS
  <2> HIDE DEF unknown
  <2>2. PICK k \in unknown : \A n \in unknown : k <= n
    BY <2>1, Least
  <2>3. k \in 0 .. Len(s) /\ ~Known(s, ff[k], k)
    BY DEF unknown
  <2>4. k # 0
    BY <1>2, <2>3
  <2>5. k - 1 \in 0 .. Len(s) /\ k - 1 \notin unknown /\ k \in 1 .. Len(s) /\ k - 1 \in Nat
        /\ k - 1 + 1 = k
    BY <2>2, <2>3, <2>4
  <2>6. Known(s, ff[k - 1], k - 1)
    BY <2>5 DEF unknown
  <2>7. ff[k] = Fold(ff[k - 1], s[k - 1 + 1])
    BY <1>1, <2>5
  <2>8. Known(s, ff[k], k - 1 + 1)
    BY <2>5, <2>6, <2>7, TurnKnows
  <2> QED
    BY <2>3, <2>5, <2>8
<1> QED
  BY <1>3 DEF ff

-----------------------------------------------------------------------------
(* What the contract says of a history read as a whole. *)
Stated(reports)   == {e \in reports : e.status # NoStatus}
Dated(reports)    == {e \in reports : e.due # NoDue}
Ending(reports)   == {e \in Stated(reports) : e.status \in Terminal}
Unblocks(reports) == {e \in Stated(reports) : e.status # "blocked"}
Blocking(reports) == {e \in Stated(reports) : \A d \in Unblocks(reports) : Before(d, e)}

IsLast(e, S)  == e \in S /\ \A d \in S : d = e \/ Before(d, e)
IsFirst(e, S) == e \in S /\ \A d \in S : d = e \/ Before(e, d)

StatusAgrees(p, reports) ==
  \/ Stated(reports) = {} /\ p.status = NoStatus /\ p.status_event = NoReport
  \/ \E e : IsLast(e, Stated(reports)) /\ p.status = e.status /\ p.status_event = e
DueAgrees(p, reports) ==
  \/ /\ p.due_event = NoReport
     /\ \A e \in Dated(reports) : \E d \in Ending(reports) : Before(e, d)
  \/ \E e : /\ IsLast(e, Dated(reports)) /\ p.due_event = e
            /\ \A d \in Ending(reports) : ~Before(e, d)
BlockAgrees(p, reports) ==
  \/ p.blocked_since = NoReport /\ Blocking(reports) = {}
  \/ \E e : IsFirst(e, Blocking(reports)) /\ p.blocked_since = e

(* The status known after the whole list is the latest one stated. *)
LEMMA StatusProjects ==
  ASSUME NEW reports, NEW s, OrderedReports(s, reports), NEW p, StatusKnown(s, p, Len(s))
  PROVE  StatusAgrees(p, reports)
<1> DEFINE n == Len(s)
<1>1. /\ n \in Nat /\ \A i \in 1 .. n : s[i] \in reports
      /\ \A e \in reports : \E i \in 1 .. n : s[i] = e
      /\ \A i, j \in 1 .. n : i < j <=> Before(s[i], s[j])
  BY DEF OrderedReports
<1>2. StatusKnown(s, p, n)
  OBVIOUS
<1> HIDE DEF n
<1>3. CASE /\ p.status = NoStatus /\ p.status_event = NoReport
           /\ \A i \in 1 .. n : s[i].status = NoStatus
  <2>1. Stated(reports) = {}
    BY <1>1, <1>3 DEF Stated
  <2> QED
    BY <1>3, <2>1 DEF StatusAgrees
<1>4. ASSUME NEW i \in 1 .. n, s[i].status # NoStatus, p.status = s[i].status,
             p.status_event = s[i], \A j \in (i + 1) .. n : s[j].status = NoStatus
      PROVE  StatusAgrees(p, reports)
  <2>1. s[i] \in Stated(reports)
    BY <1>1, <1>4 DEF Stated
  <2>2. ASSUME NEW d \in Stated(reports) PROVE d = s[i] \/ Before(d, s[i])
    <3>1. PICK j \in 1 .. n : s[j] = d
      BY <1>1 DEF Stated
    <3>2. j \notin (i + 1) .. n
      BY <1>4, <3>1 DEF Stated
    <3>3. j = i \/ j < i
      BY <1>1, <3>2
    <3> QED
      BY <1>1, <3>1, <3>3
  <2>3. IsLast(s[i], Stated(reports))
    BY <2>1, <2>2 DEF IsLast
  <2> QED
    BY <1>4, <2>3 DEF StatusAgrees
<1> QED
  BY <1>2, <1>3, <1>4 DEF StatusKnown

(* The deadline is the latest one stated, unless an end came after it. *)
LEMMA DueProjects ==
  ASSUME NEW reports, NEW s, OrderedReports(s, reports), NEW p, DueKnown(s, p, Len(s))
  PROVE  DueAgrees(p, reports)
<1> DEFINE n == Len(s)
<1>1. /\ n \in Nat /\ \A i \in 1 .. n : s[i] \in reports
      /\ \A e \in reports : \E i \in 1 .. n : s[i] = e
      /\ \A i, j \in 1 .. n : i < j <=> Before(s[i], s[j])
  BY DEF OrderedReports
<1>2. DueKnown(s, p, n)
  OBVIOUS
<1> HIDE DEF n
<1>3. \A d \in reports : d \in Ending(reports) <=> Ends(d)
  BY DEF Ending, Stated, Ends
<1>4. Ending(reports) \subseteq reports /\ Dated(reports) \subseteq reports
  BY DEF Ending, Stated, Dated
<1>5. CASE /\ p.due_event = NoReport
           /\ \A i \in 1 .. n : s[i].due # NoDue => \E j \in (i + 1) .. n : Ends(s[j])
  <2>1. ASSUME NEW e \in Dated(reports) PROVE \E d \in Ending(reports) : Before(e, d)
    <3>1. PICK i \in 1 .. n : s[i] = e
      BY <1>1 DEF Dated
    <3>2. PICK j \in (i + 1) .. n : Ends(s[j])
      BY <1>5, <3>1 DEF Dated
    <3>3. j \in 1 .. n /\ i < j
      BY <1>1
    <3> QED
      BY <1>1, <1>3, <3>1, <3>2, <3>3
  <2> QED
    BY <1>5, <2>1 DEF DueAgrees
<1>6. ASSUME NEW i \in 1 .. n, s[i].due # NoDue, p.due_event = s[i],
             \A j \in (i + 1) .. n : s[j].due = NoDue /\ ~Ends(s[j])
      PROVE  DueAgrees(p, reports)
  <2>1. s[i] \in Dated(reports)
    BY <1>1, <1>6 DEF Dated
  <2>2. ASSUME NEW d \in Dated(reports) PROVE d = s[i] \/ Before(d, s[i])
    <3>1. PICK j \in 1 .. n : s[j] = d
      BY <1>1 DEF Dated
    <3>2. j \notin (i + 1) .. n
      BY <1>6, <3>1 DEF Dated
    <3>3. j = i \/ j < i
      BY <1>1, <3>2
    <3> QED
      BY <1>1, <3>1, <3>3
  <2>3. ASSUME NEW d \in Ending(reports), Before(s[i], d) PROVE FALSE
    <3>1. PICK j \in 1 .. n : s[j] = d
      BY <1>1, <1>4
    <3>2. i < j
      BY <1>1, <2>3, <3>1
    <3>3. j \in (i + 1) .. n
      BY <1>1, <3>2
    <3> QED
      BY <1>3, <1>4, <1>6, <3>1, <3>3
  <2>4. IsLast(s[i], Dated(reports))
    BY <2>1, <2>2 DEF IsLast
  <2> QED
    BY <1>6, <2>3, <2>4 DEF DueAgrees
<1> QED
  BY <1>2, <1>5, <1>6 DEF DueKnown

(* The trailing blocked stretch begins with the first report of the block. *)
LEMMA BlockProjects ==
  ASSUME NEW reports, NEW s, OrderedReports(s, reports),
         NEW f, \A k \in 0 .. Len(s) : StatusKnown(s, f[k], k),
         NEW p, p.blocked_since = IF f[Len(s)].status = "blocked"
                                    THEN BlockedRunStart(s, f) ELSE NoReport
  PROVE  BlockAgrees(p, reports)
<1> DEFINE n == Len(s)
           run == {k \in 1 .. n : \A j \in k .. n : f[j].status = "blocked"}
           since == IF f[n].status = "blocked" THEN BlockedRunStart(s, f) ELSE NoReport
<1>1. /\ n \in Nat /\ \A i \in 1 .. n : s[i] \in reports
      /\ \A e \in reports : \E i \in 1 .. n : s[i] = e
      /\ \A i, j \in 1 .. n : i < j <=> Before(s[i], s[j])
  BY DEF OrderedReports
<1>2. \A k \in 0 .. n : StatusKnown(s, f[k], k)
  OBVIOUS
<1>3. since = IF f[n].status = "blocked"
                THEN (IF run = {} THEN NoReport ELSE s[Min(run)]) ELSE NoReport
  BY DEF BlockedRunStart
<1>4. p.blocked_since = since
  OBVIOUS
<1> HIDE DEF n, since
<1>5. ASSUME NEW k \in 0 .. n, f[k].status # NoStatus
      PROVE  \E i \in 1 .. k : /\ s[i].status # NoStatus /\ f[k].status = s[i].status
                               /\ \A j \in (i + 1) .. k : s[j].status = NoStatus
  BY <1>2, <1>5 DEF StatusKnown
<1>6. ASSUME NEW k \in 0 .. n, NEW i \in 1 .. k, s[i].status # NoStatus
      PROVE  \E m \in i .. k : /\ f[k].status = s[m].status /\ s[m].status # NoStatus
                               /\ m \in 1 .. n
  <2>1. PICK m \in 1 .. k : /\ s[m].status # NoStatus /\ f[k].status = s[m].status
                            /\ \A j \in (m + 1) .. k : s[j].status = NoStatus
    BY <1>2, <1>6 DEF StatusKnown
  <2>2. i \notin (m + 1) .. k
    BY <1>6, <2>1
  <2>3. m \in i .. k /\ m \in 1 .. n
    BY <1>1, <2>2
  <2> QED
    BY <2>1, <2>3
<1>7. ASSUME NEW k \in 1 .. n, s[k].status # NoStatus
      PROVE  f[k].status = s[k].status
  <2>1. k \in 0 .. n /\ k \in 1 .. k /\ \A m \in k .. k : m = k
    BY <1>1
  <2>2. PICK m \in k .. k : f[k].status = s[m].status
    BY <1>6, <1>7, <2>1
  <2> QED
    BY <2>1, <2>2
<1>8. ASSUME NEW k \in 1 .. n, s[k] \in Blocking(reports) PROVE k \in run
  <2> SUFFICES ASSUME NEW j \in k .. n PROVE f[j].status = "blocked"
    OBVIOUS
  <2>1. j \in 0 .. n /\ k \in 1 .. j /\ s[k].status # NoStatus
    BY <1>1, <1>8 DEF Blocking, Stated
  <2>2. PICK m \in k .. j : /\ f[j].status = s[m].status /\ s[m].status # NoStatus
                            /\ m \in 1 .. n
    BY <1>6, <2>1
  <2>3. s[m].status # "blocked" => Before(s[m], s[k])
    BY <1>1, <1>8, <2>2 DEF Blocking, Unblocks, Stated
  <2>4. ~(m < k)
    BY <1>1
  <2> QED
    BY <1>1, <2>2, <2>3, <2>4
<1>9. CASE run = {}
  <2>1. p.blocked_since = NoReport
    BY <1>3, <1>4, <1>9
  <2>2. Blocking(reports) = {}
    <3> SUFFICES ASSUME NEW e \in Blocking(reports) PROVE FALSE
      OBVIOUS
    <3>1. PICK k \in 1 .. n : s[k] = e
      BY <1>1 DEF Blocking, Stated
    <3> HIDE DEF run
    <3> QED
      BY <1>8, <1>9, <3>1
  <2> QED
    BY <2>1, <2>2 DEF BlockAgrees
<1>10. CASE run # {}
  <2>1. run \in SUBSET Nat
    BY <1>1
  <2>2. \A k \in run : k \in 1 .. n /\ \A j \in k .. n : f[j].status = "blocked"
    OBVIOUS
  <2>3. \A k \in 1 .. n : (\A j \in k .. n : f[j].status = "blocked") => k \in run
    OBVIOUS
  <2> HIDE DEF run
  <2> DEFINE m == Min(run)
  <2>4. m \in run /\ \A k \in run : m <= k
    <3>1. PICK k \in run : \A j \in run : k <= j
      BY <1>10, <2>1, Least
    <3> QED
      BY <3>1 DEF Min
  <2>5. m \in 1 .. n /\ n \in m .. n /\ m \in m .. n /\ m \in 0 .. n
    BY <1>1, <2>2, <2>4
  <2>6. p.blocked_since = s[m]
    BY <1>3, <1>4, <1>10, <2>2, <2>4, <2>5
  <2> HIDE DEF m
  <2>7. f[m].status = "blocked" /\ f[m].status # NoStatus
    BY <2>2, <2>4, <2>5, PlaceholdersAssumption
  <2>8. PICK i \in 1 .. m : /\ s[i].status # NoStatus /\ f[m].status = s[i].status
                            /\ \A j \in (i + 1) .. m : s[j].status = NoStatus
    BY <1>5, <2>5, <2>7
  <2>9. i = m
    <3> SUFFICES ASSUME i < m PROVE FALSE
      BY <2>5
    <3>1. ASSUME NEW j \in i .. n PROVE f[j].status = "blocked"
      <4>1. CASE j < m
        <5>1. j \in 0 .. n /\ i \in 1 .. j
          BY <1>1, <2>5, <4>1
        <5>2. PICK q \in i .. j : f[j].status = s[q].status /\ s[q].status # NoStatus
          BY <1>6, <2>8, <5>1
        <5>3. q = i \/ q \in (i + 1) .. m
          BY <2>5, <4>1
        <5> QED
          BY <2>7, <2>8, <5>2, <5>3
      <4>2. CASE ~(j < m)
        <5>1. j \in m .. n
          BY <1>1, <2>5, <4>2
        <5> QED
          BY <2>2, <2>4, <5>1
      <4> QED
        BY <4>1, <4>2
    <3>2. i \in 1 .. n
      BY <1>1, <2>5
    <3>3. i \in run
      BY <2>3, <3>1, <3>2
    <3> QED
      BY <2>4, <2>5, <3>3
  <2>10. s[m].status = "blocked" /\ s[m] \in Stated(reports)
    BY <1>1, <2>5, <2>7, <2>8, <2>9 DEF Stated
  <2>11. ASSUME NEW d \in Unblocks(reports) PROVE Before(d, s[m])
    <3>1. PICK j \in 1 .. n : s[j] = d
      BY <1>1 DEF Unblocks, Stated
    <3>2. s[j].status # NoStatus /\ s[j].status # "blocked"
      BY <3>1 DEF Unblocks, Stated
    <3>3. f[j].status # "blocked"
      BY <1>7, <3>2
    <3>4. j \notin m .. n
      BY <2>2, <2>4, <3>3
    <3>5. j < m
      BY <1>1, <2>5, <3>4
    <3> QED
      BY <1>1, <2>5, <3>1, <3>5
  <2>12. s[m] \in Blocking(reports)
    BY <2>10, <2>11 DEF Blocking
  <2>13. ASSUME NEW d \in Blocking(reports) PROVE d = s[m] \/ Before(s[m], d)
    <3>1. PICK j \in 1 .. n : s[j] = d
      BY <1>1 DEF Blocking, Stated
    <3>2. m <= j
      BY <1>8, <2>4, <3>1
    <3>3. m = j \/ m < j
      BY <2>5, <3>2
    <3> QED
      BY <1>1, <2>5, <3>1, <3>3
  <2> QED
    BY <2>6, <2>12, <2>13 DEF BlockAgrees, IsFirst
<1> QED
  BY <1>9, <1>10

(* Project computes it. *)
LEMMA ProjectAgrees ==
  ASSUME NEW reports, Readable(reports)
  PROVE  /\ StatusAgrees(Project(reports), reports)
         /\ DueAgrees(Project(reports), reports)
         /\ BlockAgrees(Project(reports), reports)
<1> DEFINE s == OldestFirst(reports)
           f == Effective(s)
           final == f[Len(s)]
           p == Project(reports)
<1>1. OrderedReports(s, reports) /\ Len(s) \in Nat
  BY OldestFirstOrders DEF OrderedReports
<1>2. p = [status        |-> final.status,
           status_event  |-> final.status_event,
           due_event     |-> final.due_event,
           blocked_since |-> IF final.status = "blocked"
                               THEN BlockedRunStart(s, f) ELSE NoReport]
  BY DEF Project
<1> HIDE DEF s, p
<1>3. \A k \in 0 .. Len(s) : Known(s, f[k], k)
  BY <1>1, FoldKnows
<1> HIDE DEF f
<1>4. Known(s, final, Len(s)) /\ \A k \in 0 .. Len(s) : StatusKnown(s, f[k], k)
  BY <1>1, <1>3 DEF Known
<1>5. /\ p.status = final.status /\ p.status_event = final.status_event
      /\ p.due_event = final.due_event
      /\ p.blocked_since = IF f[Len(s)].status = "blocked"
                             THEN BlockedRunStart(s, f) ELSE NoReport
  BY <1>2
<1> HIDE DEF final
<1>6. StatusKnown(s, p, Len(s)) /\ DueKnown(s, p, Len(s))
  BY <1>4, <1>5 DEF Known, StatusKnown, DueKnown
<1>7. StatusAgrees(p, reports) /\ DueAgrees(p, reports)
  BY <1>1, <1>6, StatusProjects, DueProjects
<1>8. BlockAgrees(p, reports)
  BY <1>1, <1>4, <1>5, BlockProjects
<1> QED
  BY <1>7, <1>8 DEF p

-----------------------------------------------------------------------------
(* The picture over time. *)
PInv == TypeOK /\ IsFiniteSet(stored)

(* The type invariant, strengthened by the history being finite, is inductive. *)
LEMMA PInvInit == Init => PInv
BY FS_EmptySet, PictureAssumption DEF Init, PInv, TypeOK

(* Storing a report under a free rank, and time, keep it. *)
LEMMA PInvNext == PInv /\ [Next]_vars => PInv'
<1> SUFFICES ASSUME PInv, [Next]_vars PROVE PInv'
  OBVIOUS
<1>1. CASE Advance
  BY <1>1, PictureAssumption DEF Advance, PInv, TypeOK
<1>2. ASSUME NEW e \in Report, Store(e) PROVE PInv'
  <2>1. stored' = stored \cup {e} /\ now' = now /\ \A d \in stored : d.rank # e.rank
    BY <1>2 DEF Store
  <2>2. IsFiniteSet(stored')
    BY <2>1, FS_AddElement DEF PInv
  <2>3. \A c, d \in stored' : c.rank = d.rank => c = d
    BY <2>1 DEF PInv, TypeOK
  <2> QED
    BY <2>1, <2>2, <2>3 DEF PInv, TypeOK
<1>3. CASE UNCHANGED vars
  BY <1>3 DEF vars, PInv, TypeOK
<1> QED
  BY <1>1, <1>2, <1>3 DEF Next

(* Histories are of well-formed reports under distinct ids and the reading    *)
(* instant keeps its range, for any reports and any order of arrival.         *)
THEOREM TypeCorrect == Spec => []TypeOK
<1>1. PInv => TypeOK
  BY DEF PInv
<1> QED
  BY <1>1, PInvInit, PInvNext, PTL DEF Spec

(* Any part of the history is readable. *)
LEMMA PartReadable ==
  ASSUME NEW whole, Readable(whole), NEW part \in SUBSET whole
  PROVE  Readable(part)
BY FS_Subset DEF Readable

(* The stored history and every part of it are readable, at any instant. *)
LEMMA HistoryReadable ==
  ASSUME PInv
  PROVE  /\ Readable(stored) /\ Readable(Present)
         /\ \A k : Readable(About(Present, k)) /\ Readable(About(stored, k))
<1>1. Readable(stored)
  BY DEF PInv, TypeOK, Readable
<1>2. Present \in SUBSET stored
  BY DEF Present, OccurredBy
<1>3. \A k : About(Present, k) \in SUBSET stored /\ About(stored, k) \in SUBSET stored
  BY <1>2 DEF About
<1> QED
  BY <1>1, <1>2, <1>3, PartReadable

(* A last and a first report are the only ones. *)
LEMMA Extremes ==
  ASSUME NEW reports, Readable(reports), NEW S \in SUBSET reports, NEW e
  PROVE  /\ IsLast(e, S) => e = Latest(S)
         /\ IsFirst(e, S) => e = CHOOSE x \in S : \A d \in S : d = x \/ Before(x, d)
         /\ \A d : IsLast(e, S) /\ IsLast(d, S) => d = e
         /\ \A d : IsFirst(e, S) /\ IsFirst(d, S) => d = e
<1>1. \A d, x \in S : ~(Before(d, x) /\ Before(x, d))
  BY BeforeOrders
<1>2. ASSUME NEW d, IsLast(e, S), IsLast(d, S) PROVE d = e
  BY <1>1, <1>2 DEF IsLast
<1>3. ASSUME NEW d, IsFirst(e, S), IsFirst(d, S) PROVE d = e
  BY <1>1, <1>3 DEF IsFirst
<1>4. ASSUME IsLast(e, S) PROVE e = Latest(S)
  <2> DEFINE P(x) == \A d \in S : d = x \/ Before(d, x)
  <2>1. e \in S /\ P(e)
    BY <1>4 DEF IsLast
  <2>2. Latest(S) = CHOOSE x \in S : P(x)
    BY DEF Latest
  <2> HIDE DEF P
  <2>3. Latest(S) \in S /\ P(Latest(S))
    BY <2>1, <2>2
  <2> QED
    BY <1>2, <1>4, <2>3 DEF IsLast, P
<1>5. ASSUME IsFirst(e, S)
      PROVE  e = CHOOSE x \in S : \A d \in S : d = x \/ Before(x, d)
  <2> DEFINE P(x) == \A d \in S : d = x \/ Before(x, d)
             c == CHOOSE x \in S : P(x)
  <2>1. e \in S /\ P(e)
    BY <1>5 DEF IsFirst
  <2> SUFFICES c = e
    OBVIOUS
  <2> HIDE DEF P
  <2>3. c \in S /\ P(c)
    BY <2>1
  <2> HIDE DEF c
  <2> QED
    BY <1>3, <1>5, <2>3 DEF IsFirst, P
<1> QED
  BY <1>2, <1>3, <1>4, <1>5

(* Reports that are any have a last one and a first one. *)
LEMMA LastExists ==
  ASSUME NEW reports, Readable(reports), NEW S \in SUBSET reports, S # {}
  PROVE  (\E e : IsLast(e, S)) /\ (\E e : IsFirst(e, S))
<1> DEFINE s == OldestFirst(S)
           n == Len(s)
<1>1. OrderedReports(s, S)
  BY PartReadable, OldestFirstOrders
<1> HIDE DEF s
<1>2. /\ n \in Nat /\ \A i \in 1 .. n : s[i] \in S
      /\ \A e \in S : \E i \in 1 .. n : s[i] = e
      /\ \A i, j \in 1 .. n : i < j <=> Before(s[i], s[j])
  BY <1>1 DEF OrderedReports
<1> HIDE DEF n
<1>3. 1 \in 1 .. n /\ n \in 1 .. n
  BY <1>2
<1>4. IsLast(s[n], S)
  <2> SUFFICES ASSUME NEW d \in S PROVE d = s[n] \/ Before(d, s[n])
    BY <1>2, <1>3 DEF IsLast
  <2>1. PICK i \in 1 .. n : s[i] = d
    BY <1>2
  <2>2. i = n \/ i < n
    BY <1>2
  <2> QED
    BY <1>2, <1>3, <2>1, <2>2
<1>5. IsFirst(s[1], S)
  <2> SUFFICES ASSUME NEW d \in S PROVE d = s[1] \/ Before(s[1], d)
    BY <1>2, <1>3 DEF IsFirst
  <2>1. PICK i \in 1 .. n : s[i] = d
    BY <1>2
  <2>2. i = 1 \/ 1 < i
    BY <1>2
  <2> QED
    BY <1>2, <1>3, <2>1, <2>2
<1> QED
  BY <1>4, <1>5

(* For any history, the projection of a work entity is what its reports say   *)
(* when read as a whole: the fold over sorted reports (work_state.py) forgets *)
(* nothing and lets no older report win.                                      *)
THEOREM ProjectionIsHistory == Spec => []ProjectionMatchesHistory
<1>1. ASSUME PInv PROVE ProjectionMatchesHistory
  <2> SUFFICES ASSUME NEW k \in Tracked(Present)
               PROVE
       LET dated == {e \in About(Present, k) : e.due # NoDue}
           ends  == {e \in Stating(k) : e.status \in Terminal}
           unblocks == {e \in Stating(k) : e.status # "blocked"}
           run   == {e \in Stating(k) : \A d \in unblocks : Before(d, e)}
           s     == State(k)
       IN /\ s.status_event = IF Stating(k) = {} THEN NoReport ELSE Latest(Stating(k))
          /\ s.due_event =
               IF dated = {} \/ \E e \in ends : Before(Latest(dated), e)
                 THEN NoReport ELSE Latest(dated)
          /\ s.blocked_since =
               IF run = {} THEN NoReport
               ELSE CHOOSE e \in run : \A d \in run : d = e \/ Before(e, d)
    BY DEF ProjectionMatchesHistory
  <2> DEFINE reports == About(Present, k)
             s == State(k)
  <2>1. Readable(reports)
    BY <1>1, HistoryReadable
  <2>2. s = Project(reports)
    BY DEF State
  <2>3. StatusAgrees(s, reports) /\ DueAgrees(s, reports) /\ BlockAgrees(s, reports)
    BY <2>1, <2>2, ProjectAgrees
  <2> DEFINE dated == Dated(reports)
             ends == Ending(reports)
             run == Blocking(reports)
             stated == Stated(reports)
  <2>4. stated = Stating(k)
    BY DEF Stated, Stating
  <2>5. /\ stated \in SUBSET reports /\ dated \in SUBSET reports
        /\ run \in SUBSET reports /\ ends \in SUBSET reports
    BY DEF Stated, Dated, Blocking, Ending
  <2> HIDE DEF s, reports, stated, dated, ends, run
  <2>6. s.status_event = IF stated = {} THEN NoReport ELSE Latest(stated)
    <3>1. CASE stated = {} /\ s.status_event = NoReport
      BY <3>1
    <3>2. ASSUME NEW e, IsLast(e, stated), s.status_event = e
          PROVE  s.status_event = IF stated = {} THEN NoReport ELSE Latest(stated)
      BY <2>1, <2>5, <3>2, Extremes DEF IsLast
    <3> QED
      BY <2>3, <3>1, <3>2 DEF StatusAgrees, stated
  <2>7. s.due_event = IF dated = {} \/ \E e \in ends : Before(Latest(dated), e)
                        THEN NoReport ELSE Latest(dated)
    <3>1. CASE /\ s.due_event = NoReport
               /\ \A e \in dated : \E d \in ends : Before(e, d)
      <4>1. CASE dated = {}
        BY <3>1, <4>1
      <4>2. CASE dated # {}
        <5>1. Latest(dated) \in dated
          <6>1. PICK e : IsLast(e, dated)
            BY <2>1, <2>5, <4>2, LastExists
          <6> QED
            BY <2>1, <2>5, <6>1, Extremes DEF IsLast
        <5> QED
          BY <3>1, <5>1
      <4> QED
        BY <4>1, <4>2
    <3>2. ASSUME NEW e, IsLast(e, dated), s.due_event = e, \A d \in ends : ~Before(e, d)
          PROVE  s.due_event = IF dated = {} \/ \E x \in ends : Before(Latest(dated), x)
                                 THEN NoReport ELSE Latest(dated)
      <4>1. e = Latest(dated) /\ dated # {}
        BY <2>1, <2>5, <3>2, Extremes DEF IsLast
      <4> QED
        BY <3>2, <4>1
    <3> QED
      BY <2>3, <3>1, <3>2 DEF DueAgrees, dated, ends
  <2>8. s.blocked_since = IF run = {} THEN NoReport
                          ELSE CHOOSE e \in run : \A d \in run : d = e \/ Before(e, d)
    <3>1. CASE run = {} /\ s.blocked_since = NoReport
      BY <3>1
    <3>2. ASSUME NEW e, IsFirst(e, run), s.blocked_since = e
          PROVE  s.blocked_since = IF run = {} THEN NoReport
                          ELSE CHOOSE x \in run : \A d \in run : d = x \/ Before(x, d)
      <4>1. run # {}
        BY <3>2 DEF IsFirst
      <4> QED
        BY <2>1, <2>5, <3>2, <4>1, Extremes
    <3> QED
      BY <2>3, <3>1, <3>2 DEF BlockAgrees, run
  <2>9. /\ dated = {e \in About(Present, k) : e.due # NoDue}
        /\ ends = {e \in Stating(k) : e.status \in Terminal}
        /\ run = {e \in Stating(k) :
                    \A d \in {x \in Stating(k) : x.status # "blocked"} : Before(d, e)}
    BY <2>4 DEF dated, ends, run, stated, reports, Dated, Ending, Blocking, Unblocks
  <2> QED
    BY <2>4, <2>6, <2>7, <2>8, <2>9 DEF s
<1> QED
  BY <1>1, PInvInit, PInvNext, PTL DEF Spec

(* The projection depends on the reports that state something only. *)
LEMMA SameStatements ==
  ASSUME NEW a, Readable(a), NEW b, Readable(b),
         Stated(a) = Stated(b), Dated(a) = Dated(b)
  PROVE  Project(a) = Project(b)
<1> DEFINE p == Project(a)
           q == Project(b)
<1>1. /\ StatusAgrees(p, a) /\ DueAgrees(p, a) /\ BlockAgrees(p, a)
      /\ StatusAgrees(q, b) /\ DueAgrees(q, b) /\ BlockAgrees(q, b)
  BY ProjectAgrees
<1>2. p = [status |-> p.status, status_event |-> p.status_event,
           due_event |-> p.due_event, blocked_since |-> p.blocked_since]
  BY DEF Project
<1>3. q = [status |-> q.status, status_event |-> q.status_event,
           due_event |-> q.due_event, blocked_since |-> q.blocked_since]
  BY DEF Project
<1>4. Ending(a) = Ending(b) /\ Blocking(a) = Blocking(b)
  BY DEF Ending, Blocking, Unblocks
<1>5. Stated(a) \in SUBSET a /\ Dated(a) \in SUBSET a /\ Blocking(a) \in SUBSET a
  BY DEF Stated, Dated, Blocking
<1> HIDE DEF p, q
<1>6. /\ \A d, e : IsLast(e, Stated(a)) /\ IsLast(d, Stated(a)) => d = e
      /\ \A d, e : IsLast(e, Dated(a)) /\ IsLast(d, Dated(a)) => d = e
      /\ \A d, e : IsFirst(e, Blocking(a)) /\ IsFirst(d, Blocking(a)) => d = e
  BY <1>5, Extremes
<1>7. p.status = q.status /\ p.status_event = q.status_event
  BY <1>1, <1>6 DEF StatusAgrees, IsLast
<1>8. p.due_event = q.due_event
  BY <1>1, <1>4, <1>6 DEF DueAgrees, IsLast
<1>9. p.blocked_since = q.blocked_since
  BY <1>1, <1>4, <1>6 DEF BlockAgrees, IsFirst
<1> QED
  BY <1>2, <1>3, <1>7, <1>8, <1>9 DEF p, q

(* Whenever a report arrives, one that states nothing leaves what is known of *)
(* its work alone, and one older than the latest stated status leaves that:   *)
(* the order of arrival never matters to the fold of work_state.py.           *)
THEOREM ArrivalNeverOverrules == Spec => LateReportsNeverOverrule
<1> DEFINE Keeps(e) ==
      e.entity # NoEntity /\ e.at <= now =>
         /\ Informational(e) => State(e.entity)' = State(e.entity)
         /\ State(e.entity).status_event # NoReport /\ Before(e, State(e.entity).status_event)
              => State(e.entity)'.status_event = State(e.entity).status_event
<1>1. ASSUME PInv, PInv', [Next]_vars, NEW e \in stored' \ stored PROVE Keeps(e)
  <2>1. PICK x \in Report : Store(x)
    BY <1>1 DEF Next, Advance, vars
  <2>2. stored' = stored \cup {e} /\ now' = now
    BY <1>1, <2>1 DEF Store
  <2> SUFFICES ASSUME e.at <= now
               PROVE
         /\ Informational(e) => State(e.entity)' = State(e.entity)
         /\ State(e.entity).status_event # NoReport /\ Before(e, State(e.entity).status_event)
              => State(e.entity)'.status_event = State(e.entity).status_event
    OBVIOUS
  <2> DEFINE a == About(Present, e.entity)
             b == About(Present', e.entity)
  <2>3. b = a \cup {e}
    BY <2>2 DEF Present, OccurredBy, About
  <2>4. State(e.entity) = Project(a) /\ State(e.entity)' = Project(b)
    BY DEF State
  <2>5. Readable(a) /\ Readable(Present')
    <3>1. Readable(stored')
      BY <1>1 DEF PInv, TypeOK, Readable
    <3>2. Present' \in SUBSET stored'
      BY DEF Present, OccurredBy
    <3> QED
      BY <1>1, <3>1, <3>2, HistoryReadable, PartReadable
  <2>6. Readable(b)
    <3>1. b \in SUBSET Present'
      BY DEF About
    <3> QED
      BY <2>5, <3>1, PartReadable
  <2> HIDE DEF a, b
  <2>7. ASSUME Informational(e) PROVE Project(b) = Project(a)
    <3>1. Stated(b) = Stated(a) /\ Dated(b) = Dated(a)
      BY <2>3, <2>7 DEF Informational, Stated, Dated
    <3> QED
      BY <2>5, <2>6, <3>1, SameStatements
  <2>8. ASSUME Project(a).status_event # NoReport, Before(e, Project(a).status_event)
        PROVE  Project(b).status_event = Project(a).status_event
    <3> DEFINE x1 == Project(a).status_event
    <3>1. IsLast(x1, Stated(a))
      BY <2>5, <2>8, ProjectAgrees DEF StatusAgrees
    <3>2. Before(e, x1)
      BY <2>8
    <3> HIDE DEF x1
    <3>3. IsLast(x1, Stated(b))
      BY <2>3, <3>1, <3>2 DEF IsLast, Stated
    <3>4. StatusAgrees(Project(b), b) /\ Stated(b) \in SUBSET b
      BY <2>6, ProjectAgrees DEF Stated
    <3>5. Project(b).status_event = x1
      BY <2>6, <3>3, <3>4, Extremes DEF StatusAgrees, IsLast
    <3> QED
      BY <3>5 DEF x1
  <2> QED
    BY <2>4, <2>7, <2>8
<1>2. PInv /\ PInv' /\ [Next]_vars => [\A e \in stored' \ stored : Keeps(e)]_vars
  BY <1>1
<1> QED
  BY <1>2, PInvInit, PInvNext, PTL DEF Spec, LateReportsNeverOverrule

-----------------------------------------------------------------------------
(* The risks of a history P at an instant t, report by report. *)
Work(P, e) == Project(About(P, e.entity))

LateAt(P, t, e) ==
  /\ e \in P /\ e.due # NoDue /\ e.due < t
  /\ e.entity = NoEntity => e.status \notin Terminal
  /\ e.entity # NoEntity => Work(P, e).due_event = e /\ Work(P, e).status \notin Terminal
StuckAt(P, e) ==
  /\ e \in P
  /\ e.entity = NoEntity => e.status = "blocked"
  /\ e.entity # NoEntity => Work(P, e).blocked_since = e

OverdueRisk(e, t) ==
  [rule |-> "overdue_work", severity |-> AgedSeverity(e.due, t), cites |-> {e}]
BlockedRisk(e, t) ==
  [rule |-> "blocked_work", severity |-> AgedSeverity(e.at, t), cites |-> {e}]

(* The reports that the projection of a work points to are that work's, state *)
(* a deadline, and block it; a latest stated status that finishes the work    *)
(* leaves it finished and not blocked.                                        *)
LEMMA WorkFacts ==
  ASSUME NEW P, Readable(P), NEW k, NEW w, w = Project(About(P, k))
  PROVE  /\ w.due_event # NoReport =>
              /\ w.due_event \in P /\ w.due_event.entity = k
              /\ w.due_event.due # NoDue
         /\ w.blocked_since # NoReport =>
              /\ w.blocked_since \in P /\ w.blocked_since.entity = k
              /\ w.blocked_since \in Blocking(About(P, k))
         /\ \A e \in Stated(About(P, k)) :
              IsLast(e, Stated(About(P, k))) /\ e.status \in Terminal =>
                w.status \in Terminal /\ w.blocked_since = NoReport
<1> DEFINE a == About(P, k)
           p == Project(a)
<1>1. Readable(a) /\ a \in SUBSET P /\ \A e \in a : e.entity = k
  <2>1. a \in SUBSET P /\ \A e \in a : e.entity = k
    BY DEF About
  <2> HIDE DEF a
  <2> QED
    BY <2>1, PartReadable
<1>2. StatusAgrees(p, a) /\ DueAgrees(p, a) /\ BlockAgrees(p, a)
  BY <1>1, ProjectAgrees
<1> HIDE DEF a, p
<1>3. p.due_event # NoReport =>
        /\ p.due_event \in P /\ p.due_event.entity = k /\ p.due_event.due # NoDue
  BY <1>1, <1>2 DEF DueAgrees, IsLast, Dated
<1>4. p.blocked_since # NoReport =>
        /\ p.blocked_since \in P /\ p.blocked_since.entity = k
        /\ p.blocked_since \in Blocking(a)
  BY <1>1, <1>2 DEF BlockAgrees, IsFirst, Blocking, Stated
<1>5. ASSUME NEW e \in Stated(a), IsLast(e, Stated(a)), e.status \in Terminal
      PROVE  p.status \in Terminal /\ p.blocked_since = NoReport
  <2>1. e \in Unblocks(a)
    BY <1>5, PlaceholdersAssumption DEF Terminal, Unblocks
  <2>2. Stated(a) \in SUBSET a
    BY DEF Stated
  <2>3. p.status = e.status
    BY <1>1, <1>2, <1>5, <2>2, Extremes DEF StatusAgrees
  <2>4. Blocking(a) = {}
    <3> SUFFICES ASSUME NEW d \in Blocking(a) PROVE FALSE
      OBVIOUS
    <3>1. Before(e, d) /\ d \in Stated(a)
      BY <2>1 DEF Blocking
    <3>2. d = e \/ Before(d, e)
      BY <1>5, <3>1 DEF IsLast
    <3> QED
      BY <1>1, <1>5, <2>2, <3>1, <3>2, BeforeOrders
  <2> QED
    BY <1>2, <1>5, <2>3, <2>4 DEF BlockAgrees, IsFirst
<1> QED
  BY <1>3, <1>4, <1>5 DEF a, p

(* The overdue rule, by report: one risk per report that is late. *)
LEMMA OverdueByReport ==
  ASSUME NEW P, Readable(P), NEW t
  PROVE  OverdueRisks(P, t) = {OverdueRisk(e, t) : e \in {x \in P : LateAt(P, t, x)}}
<1> DEFINE tracked == {s.due_event : s \in {w \in WorkStates(P) : MissedDeadline(w, t)}}
           loose   == {e \in Unkeyed(P) : ReportsOverdue(e, t)}
           late    == {x \in P : LateAt(P, t, x)}
<1>1. ASSUME NEW e \in tracked PROVE e \in late
  <2>1. PICK w \in WorkStates(P) : MissedDeadline(w, t) /\ e = w.due_event
    OBVIOUS
  <2>2. PICK k \in Tracked(P) : w = Project(About(P, k))
    BY <2>1 DEF WorkStates
  <2>3. /\ e \in P /\ e.entity = k /\ e.due # NoDue
    BY <2>1, <2>2, WorkFacts DEF MissedDeadline
  <2>4. w.status \notin Terminal /\ e.due < t /\ k # NoEntity
    BY <2>1, <2>2 DEF MissedDeadline, Tracked
  <2>5. w = Work(P, e)
    BY <2>2, <2>3 DEF Work
  <2> QED
    BY <2>1, <2>3, <2>4, <2>5 DEF LateAt
<1>2. ASSUME NEW e \in loose PROVE e \in late
  BY DEF Unkeyed, About, ReportsOverdue, LateAt
<1>3. ASSUME NEW e \in late PROVE e \in tracked \cup loose
  <2>1. e \in P /\ LateAt(P, t, e)
    OBVIOUS
  <2>2. CASE e.entity = NoEntity
    BY <2>1, <2>2 DEF Unkeyed, About, ReportsOverdue, LateAt
  <2>3. CASE e.entity # NoEntity
    <3>1. e.entity \in Tracked(P)
      BY <2>1, <2>3 DEF Tracked
    <3>2. Work(P, e) \in WorkStates(P)
      BY <3>1 DEF WorkStates, Work
    <3>3. /\ Work(P, e).due_event = e /\ Work(P, e).status \notin Terminal
          /\ e.due < t
      BY <2>1, <2>3 DEF LateAt
    <3>4. e # NoReport
      BY <2>1, PlaceholdersAssumption DEF Readable
    <3>5. MissedDeadline(Work(P, e), t)
      BY <3>3, <3>4 DEF MissedDeadline
    <3> QED
      BY <3>2, <3>3, <3>5
  <2> QED
    BY <2>2, <2>3
<1>4. tracked \cup loose = late
  BY <1>1, <1>2, <1>3
<1>5. OverdueRisks(P, t) = {OverdueRisk(e, t) : e \in tracked \cup loose}
  BY DEF OverdueRisks, OverdueRisk
<1> QED
  BY <1>4, <1>5

(* The blocked rule, by report: one risk per report that blocks. *)
LEMMA BlockedByReport ==
  ASSUME NEW P, Readable(P), NEW t
  PROVE  BlockedRisks(P, t) = {BlockedRisk(e, t) : e \in {x \in P : StuckAt(P, x)}}
<1> DEFINE tracked == {s.blocked_since : s \in WorkStates(P)} \ {NoReport}
           loose   == {e \in Unkeyed(P) : e.status = "blocked"}
           stuck   == {x \in P : StuckAt(P, x)}
<1>1. ASSUME NEW e \in tracked PROVE e \in stuck
  <2>1. PICK w \in WorkStates(P) : e = w.blocked_since /\ e # NoReport
    OBVIOUS
  <2>2. PICK k \in Tracked(P) : w = Project(About(P, k))
    BY <2>1 DEF WorkStates
  <2>3. e \in P /\ e.entity = k /\ k # NoEntity
    BY <2>1, <2>2, WorkFacts DEF Tracked
  <2>4. w = Work(P, e)
    BY <2>2, <2>3 DEF Work
  <2> QED
    BY <2>1, <2>3, <2>4 DEF StuckAt
<1>2. ASSUME NEW e \in loose PROVE e \in stuck
  BY DEF Unkeyed, About, StuckAt
<1>3. ASSUME NEW e \in stuck PROVE e \in tracked \cup loose
  <2>1. e \in P /\ StuckAt(P, e)
    OBVIOUS
  <2>2. CASE e.entity = NoEntity
    BY <2>1, <2>2 DEF Unkeyed, About, StuckAt
  <2>3. CASE e.entity # NoEntity
    <3>1. e.entity \in Tracked(P)
      BY <2>1, <2>3 DEF Tracked
    <3>2. Work(P, e) \in WorkStates(P) /\ Work(P, e).blocked_since = e
      BY <2>1, <2>3, <3>1 DEF WorkStates, Work, StuckAt
    <3>3. e # NoReport
      BY <2>1, PlaceholdersAssumption DEF Readable
    <3> QED
      BY <3>2, <3>3
  <2> QED
    BY <2>2, <2>3
<1>4. tracked \cup loose = stuck
  BY <1>1, <1>2, <1>3
<1>5. BlockedRisks(P, t) = {BlockedRisk(e, t) : e \in tracked \cup loose}
  BY DEF BlockedRisks, BlockedRisk
<1> QED
  BY <1>4, <1>5

FailureRisk(P, k, t) ==
  LET f == ActiveFailures(P, k, t)
  IN [rule     |-> "repeated_integration_failure",
      severity |-> IF Cardinality(f) >= EscalationCount THEN "critical" ELSE "high",
      cites    |-> f]
RepeatedAt(P, k, t) == Cardinality(ActiveFailures(P, k, t)) >= FailureThreshold

(* The integration rule, by work: one risk per work that fails repeatedly. *)
LEMMA FailuresByWork ==
  ASSUME NEW P, NEW t
  PROVE  IntegrationRisks(P, t)
           = {FailureRisk(P, k, t) : k \in {w \in Tracked(P) : RepeatedAt(P, w, t)}}
<1> DEFINE raised == {f \in {ActiveFailures(P, k, t) : k \in Tracked(P)} :
                        Cardinality(f) >= FailureThreshold}
           works == {w \in Tracked(P) : RepeatedAt(P, w, t)}
           risk(f) == [rule     |-> "repeated_integration_failure",
                       severity |-> IF Cardinality(f) >= EscalationCount
                                      THEN "critical" ELSE "high",
                       cites    |-> f]
<1>1. IntegrationRisks(P, t) = {risk(f) : f \in raised}
  BY DEF IntegrationRisks
<1>2. \A k : FailureRisk(P, k, t) = risk(ActiveFailures(P, k, t))
  BY DEF FailureRisk
<1>3. \A f : f \in raised <=> \E k \in works : f = ActiveFailures(P, k, t)
  BY DEF RepeatedAt
<1> HIDE DEF risk, raised, works
<1>4. {risk(f) : f \in raised} = {FailureRisk(P, k, t) : k \in works}
  BY <1>2, <1>3
<1> QED
  BY <1>1, <1>4 DEF works

(* A risk is raised by one report, or by the failures of one work. *)
LEMMA RisksByReport ==
  ASSUME NEW P, Readable(P), NEW t,
         NEW r \in OverdueRisks(P, t) \cup BlockedRisks(P, t) \cup IntegrationRisks(P, t)
  PROVE  \/ \E e \in P : LateAt(P, t, e) /\ r = OverdueRisk(e, t)
         \/ \E e \in P : StuckAt(P, e) /\ r = BlockedRisk(e, t)
         \/ \E k \in Tracked(P) : RepeatedAt(P, k, t) /\ r = FailureRisk(P, k, t)
<1>1. CASE r \in OverdueRisks(P, t)
  BY <1>1, OverdueByReport
<1>2. CASE r \in BlockedRisks(P, t)
  BY <1>2, BlockedByReport
<1>3. CASE r \in IntegrationRisks(P, t)
  BY <1>3, FailuresByWork
<1> QED
  BY <1>1, <1>2, <1>3

(* The picture is what the three rules raise of the reports that occurred. *)
LEMMA PictureOfRisks ==
  Risks = OverdueRisks(Present, now) \cup BlockedRisks(Present, now)
            \cup IntegrationRisks(Present, now)
BY DEF Risks, Detected, Present

(* A risk keeps its report and never loses weight while only time passes: the *)
(* overdue and blocked rules escalate with age and nothing un-escalates them. *)
THEOREM TimeOnlyEscalates == Spec => RisksOnlyEscalate
<1> DEFINE Escalated(r) ==
             \E q \in Risks' : /\ q.rule = r.rule /\ q.cites = r.cites
                               /\ Weight(q.severity) >= Weight(r.severity)
           Escalates == stored' = stored /\ Present' = Present =>
                          \A r \in {x \in Risks : x.rule # "repeated_integration_failure"} :
                            \E q \in Risks' : /\ q.rule = r.rule /\ q.cites = r.cites
                                              /\ Weight(q.severity) >= Weight(r.severity)
<1>1. ASSUME NEW since \in Int, NEW t \in Int, NEW later \in Int, t <= later
      PROVE  Weight(AgedSeverity(since, later)) >= Weight(AgedSeverity(since, t))
  <2>1. EscalateAfter \in Int
    BY RulesAssumption
  <2>2. Weight("high") = 3 /\ Weight("medium") = 2
    BY DEF Weight
  <2>3. AgedSeverity(since, t) = "high" => AgedSeverity(since, later) = "high"
    BY <1>1, <2>1 DEF AgedSeverity
  <2>4. \A u : AgedSeverity(since, u) \in {"medium", "high"}
    BY DEF AgedSeverity
  <2> QED
    BY <2>2, <2>3, <2>4
<1>2. ASSUME PInv, PInv', [Next]_vars, stored' = stored, Present' = Present,
             NEW r \in Risks, r.rule # "repeated_integration_failure"
      PROVE  Escalated(r)
  <2>1. now \in Int /\ now' \in Int /\ now <= now'
    <3>1. now \in Int /\ now' \in Int
      BY <1>2, PictureAssumption DEF PInv, TypeOK
    <3> QED
      BY <1>2, <3>1 DEF Next, Advance, Store, vars
  <2>2. Readable(Present)
    BY <1>2, HistoryReadable
  <2>3. Risks' = OverdueRisks(Present, now') \cup BlockedRisks(Present, now')
                   \cup IntegrationRisks(Present, now')
    BY <1>2, PictureOfRisks DEF Risks, Detected, Present
  <2> DEFINE P == Present
             t == now
             later == now'
  <2> HIDE DEF P
  <2>4. r \in OverdueRisks(P, t) \cup BlockedRisks(P, t) \cup IntegrationRisks(P, t)
    BY <1>2, PictureOfRisks DEF P
  <2>5. \A k : FailureRisk(P, k, t).rule = "repeated_integration_failure"
    BY DEF FailureRisk
  <2>6. Readable(P)
    BY <2>2 DEF P
  <2>7. \A e \in P : e.at \in Int /\ (e.due # NoDue => e.due \in Int)
    <3> SUFFICES ASSUME NEW e \in P PROVE e.at \in Int /\ (e.due # NoDue => e.due \in Int)
      OBVIOUS
    <3>1. e.at \in 0 .. MaxTime /\ e.due \in StatedDues
      BY <2>6 DEF Readable, Report
    <3>2. e.due \in (0 .. MaxTime) \cup {NoDue} /\ MaxTime \in Nat
      BY <3>1, PictureAssumption
    <3> QED
      BY <3>1, <3>2
  <2>8. ASSUME NEW e \in P, LateAt(P, t, e), r = OverdueRisk(e, t) PROVE Escalated(r)
    <3>1. e.due \in Int /\ e.due < later
      BY <2>1, <2>7, <2>8 DEF LateAt
    <3>2. LateAt(P, later, e)
      BY <2>8, <3>1 DEF LateAt
    <3>3. OverdueRisk(e, later) \in Risks'
      BY <2>3, <2>6, <3>2, OverdueByReport DEF P
    <3>4. /\ OverdueRisk(e, later).rule = r.rule /\ OverdueRisk(e, later).cites = r.cites
          /\ Weight(OverdueRisk(e, later).severity) >= Weight(r.severity)
      BY <1>1, <2>1, <2>8, <3>1 DEF OverdueRisk
    <3> QED
      BY <3>3, <3>4
  <2>9. ASSUME NEW e \in P, StuckAt(P, e), r = BlockedRisk(e, t) PROVE Escalated(r)
    <3>1. BlockedRisk(e, later) \in Risks'
      BY <2>3, <2>6, <2>9, BlockedByReport DEF P
    <3>2. /\ BlockedRisk(e, later).rule = r.rule /\ BlockedRisk(e, later).cites = r.cites
          /\ Weight(BlockedRisk(e, later).severity) >= Weight(r.severity)
      BY <1>1, <2>1, <2>7, <2>9 DEF BlockedRisk
    <3> QED
      BY <3>1, <3>2
  <2> QED
    BY <1>2, <2>4, <2>5, <2>6, <2>8, <2>9, RisksByReport
<1>3. PInv /\ PInv' /\ [Next]_vars => [Escalates]_vars
  BY <1>2
<1> QED
  BY <1>3, PInvInit, PInvNext, PTL DEF Spec, RisksOnlyEscalate

(* A work has at most one overdue and one blocked risk however often it is    *)
(* reported, and none once its latest stated status finishes it: the rules    *)
(* judge work, not reports (group_work).                                      *)
THEOREM OneRiskPerWork == Spec => []OneLiveRiskPerWork
<1>1. ASSUME PInv PROVE OneLiveRiskPerWork
  <2> SUFFICES ASSUME NEW k \in Tracked(stored),
                      NEW rule \in {"overdue_work", "blocked_work"}
               PROVE
       LET raised == {r \in Risks : r.rule = rule /\ \E e \in r.cites : e.entity = k} IN
       /\ Cardinality(raised) <= 1
       /\ raised # {} /\ Stating(k) # {} => Latest(Stating(k)).status \notin Terminal
    BY DEF OneLiveRiskPerWork
  <2> DEFINE P == Present
             a == About(P, k)
             w == Project(a)
             raised == {r \in Risks : r.rule = rule /\ \E e \in r.cites : e.entity = k}
             one == IF rule = "overdue_work" THEN OverdueRisk(w.due_event, now)
                                             ELSE BlockedRisk(w.blocked_since, now)
  <2>1. Readable(P) /\ Readable(a) /\ k # NoEntity
    BY <1>1, HistoryReadable DEF Tracked
  <2>2. Risks = OverdueRisks(P, now) \cup BlockedRisks(P, now) \cup IntegrationRisks(P, now)
    BY PictureOfRisks
  <2> HIDE DEF P
  <2>3. ASSUME NEW r \in Risks, r.rule = rule, NEW e \in r.cites, e.entity = k
        PROVE  /\ e \in a /\ r = one
               /\ w.status \notin Terminal \/ w.blocked_since # NoReport
    <3>1. CASE \E x \in P : LateAt(P, now, x) /\ r = OverdueRisk(x, now)
      <4>1. LateAt(P, now, e) /\ e \in P /\ rule = "overdue_work" /\ r = OverdueRisk(e, now)
        BY <2>3, <3>1 DEF OverdueRisk
      <4>2. e = w.due_event /\ w.status \notin Terminal
        BY <2>1, <2>3, <4>1 DEF LateAt, Work
      <4> QED
        BY <2>3, <4>1, <4>2 DEF About
    <3>2. CASE \E x \in P : StuckAt(P, x) /\ r = BlockedRisk(x, now)
      <4>1. StuckAt(P, e) /\ e \in P /\ rule = "blocked_work" /\ r = BlockedRisk(e, now)
        BY <2>3, <3>2 DEF BlockedRisk
      <4>2. e = w.blocked_since /\ e # NoReport
        BY <2>1, <2>3, <4>1, PlaceholdersAssumption DEF StuckAt, Work, Readable
      <4> QED
        BY <2>3, <4>1, <4>2 DEF About
    <3>3. CASE \E x \in Tracked(P) : RepeatedAt(P, x, now) /\ r = FailureRisk(P, x, now)
      BY <2>3, <3>3 DEF FailureRisk
    <3> QED
      BY <2>1, <2>2, <2>3, <3>1, <3>2, <3>3, RisksByReport
  <2> HIDE DEF one
  <2>4. \A r \in raised : r = one
    BY <2>3
  <2>5. Cardinality(raised) <= 1
    <3>1. raised = {} \/ raised = {one}
      BY <2>4
    <3> HIDE DEF raised
    <3>2. Cardinality({}) = 0 /\ Cardinality({one}) = 1
      BY FS_EmptySet, FS_Singleton
    <3> QED
      BY <3>1, <3>2
  <2> DEFINE stated == Stated(a)
  <2>6. ASSUME raised # {}, stated # {} PROVE Latest(stated).status \notin Terminal
    <3>1. PICK r \in raised : TRUE
      BY <2>6
    <3>2. PICK e \in r.cites : e.entity = k
      BY <3>1
    <3>3. w.status \notin Terminal \/ w.blocked_since # NoReport
      BY <2>3, <3>1, <3>2
    <3>4. stated \in SUBSET a
      BY DEF Stated
    <3> HIDE DEF a, w, raised, stated
    <3>5. PICK l : IsLast(l, stated)
      BY <2>1, <2>6, <3>4, LastExists
    <3>6. l = Latest(stated) /\ l \in stated
      BY <2>1, <3>4, <3>5, Extremes DEF IsLast
    <3>7. l.status \in Terminal => w.status \in Terminal /\ w.blocked_since = NoReport
      BY <2>1, <3>5, <3>6, WorkFacts DEF a, w, stated
    <3> QED
      BY <3>3, <3>6, <3>7
  <2>7. stated = Stating(k)
    BY DEF P, Stated, Stating
  <2> HIDE DEF stated
  <2> QED
    BY <2>5, <2>6, <2>7
<1> QED
  BY <1>1, PInvInit, PInvNext, PTL DEF Spec

(* The last report of a work, if it is a recovery, silences every rule about  *)
(* that work but for the failures of its own instant: the projection is       *)
(* finished and no earlier failure counts (integration.py _active_failures).  *)
THEOREM RecoveryClears == Spec => ResolvedClearsEveryRule
<1> DEFINE Clears(e) ==
      /\ e.entity # NoEntity /\ e.status = "resolved" /\ e.at <= now
      /\ \A d \in About(Present, e.entity) : Before(d, e)
      => \A r \in Risks' :
           (\E c \in r.cites : c.entity = e.entity) =>
             /\ r.rule = "repeated_integration_failure"
             /\ r.cites = {d \in About(Present, e.entity) :
                             d.status = "failed" /\ d.at = e.at}
<1>1. ASSUME PInv, PInv', [Next]_vars, NEW e \in stored' \ stored PROVE Clears(e)
  <2>1. PICK arrived \in Report : Store(arrived)
    BY <1>1 DEF Next, Advance, vars
  <2>2. stored' = stored \cup {e} /\ now' = now /\ e \in Report
    BY <1>1, <2>1 DEF Store
  <2> SUFFICES ASSUME e.entity # NoEntity, e.status = "resolved", e.at <= now,
                      \A d \in About(Present, e.entity) : Before(d, e),
                      NEW r \in Risks', NEW c \in r.cites, c.entity = e.entity
               PROVE  /\ r.rule = "repeated_integration_failure"
                      /\ r.cites = {d \in About(Present, e.entity) :
                                      d.status = "failed" /\ d.at = e.at}
    OBVIOUS
  <2> DEFINE P == Present'
             t == now
             k == e.entity
             a == About(P, k)
             known == About(Present, k)
             w == Project(a)
  <2>3. P \in SUBSET stored' /\ e \in P /\ a = known \cup {e}
    BY <2>2 DEF Present, OccurredBy, About
  <2>4. Readable(P) /\ Readable(a)
    <3>1. Readable(stored')
      BY <1>1 DEF PInv, TypeOK, Readable
    <3>2. a \in SUBSET P
      BY DEF About
    <3> HIDE DEF P, a
    <3> QED
      BY <2>3, <3>1, <3>2, PartReadable
  <2>5. Risks' = OverdueRisks(P, t) \cup BlockedRisks(P, t) \cup IntegrationRisks(P, t)
    BY <2>2 DEF Risks, Detected, Present
  <2>6. \A d \in known : Before(d, e)
    OBVIOUS
  <2> HIDE DEF P, known
  <2>7. e \in Stated(a) /\ IsLast(e, Stated(a))
    BY <2>3, <2>6, PlaceholdersAssumption DEF IsLast, Stated, Terminal
  <2>8. w.status \in Terminal /\ w.blocked_since = NoReport
    BY <2>4, <2>7, WorkFacts DEF Terminal
  <2>9. CASE \E x \in P : LateAt(P, t, x) /\ r = OverdueRisk(x, t)
    <3>1. LateAt(P, t, c)
      BY <2>9 DEF OverdueRisk
    <3> QED
      BY <2>8, <3>1 DEF LateAt, Work
  <2>10. CASE \E x \in P : StuckAt(P, x) /\ r = BlockedRisk(x, t)
    <3>1. StuckAt(P, c) /\ c \in P
      BY <2>10 DEF BlockedRisk
    <3> QED
      BY <2>4, <2>8, <3>1, PlaceholdersAssumption DEF StuckAt, Work, Readable
  <2>11. CASE \E x \in Tracked(P) : RepeatedAt(P, x, t) /\ r = FailureRisk(P, x, t)
    <3>1. PICK x \in Tracked(P) : r = FailureRisk(P, x, t)
      BY <2>11
    <3>2. r.rule = "repeated_integration_failure" /\ r.cites = ActiveFailures(P, x, t)
      BY <3>1 DEF FailureRisk
    <3>3. c \in About(P, x) /\ x = k
      BY <3>2 DEF ActiveFailures, About
    <3>4. \A d \in a : d.at \in Int
      BY <2>4, PictureAssumption DEF Readable, Report
    <3>5. e \in a /\ \A d \in a : d = e \/ d.at <= e.at
      <4> HIDE DEF a
      <4> QED
        BY <2>3, <2>6, <3>4 DEF Before
    <3>6. e.status = "resolved" /\ e.status # "failed"
      OBVIOUS
    <3>7. r.cites = {d \in a : /\ d.status = "failed"
                               /\ t - Window <= d.at /\ d.at <= t
                               /\ \A q \in a : q.status = "resolved" => q.at <= d.at}
      BY <3>2, <3>3 DEF ActiveFailures
    <3> HIDE DEF a, k
    <3>8. \A d \in r.cites : d \in known /\ d.status = "failed" /\ d.at = e.at
      BY <2>3, <3>4, <3>5, <3>6, <3>7
    <3>9. t - Window <= e.at /\ e.at <= t
      BY <3>7, <3>8
    <3>10. ASSUME NEW d \in known, d.status = "failed", d.at = e.at PROVE d \in r.cites
      BY <2>3, <3>4, <3>5, <3>7, <3>9, <3>10
    <3> QED
      BY <3>2, <3>8, <3>10 DEF k, known
  <2> QED
    BY <2>4, <2>5, <2>9, <2>10, <2>11, RisksByReport
<1>2. PInv /\ PInv' /\ [Next]_vars => [\A e \in stored' \ stored : Clears(e)]_vars
  BY <1>1
<1> QED
  BY <1>2, PInvInit, PInvNext, PTL DEF Spec, ResolvedClearsEveryRule

-----------------------------------------------------------------------------
(* The ranking.  Keys are compared place by place.                            *)
Key == Int \X Int \X Int \X Int

(* Tuples are compared at the first place where they differ. *)
LEMMA KeysCompare ==
  ASSUME NEW a \in Key, NEW b \in Key
  PROVE  Lexicographic(a, b) <=>
           \/ a[1] < b[1]
           \/ a[1] = b[1] /\ a[2] < b[2]
           \/ a[1] = b[1] /\ a[2] = b[2] /\ a[3] < b[3]
           \/ a[1] = b[1] /\ a[2] = b[2] /\ a[3] = b[3] /\ a[4] < b[4]
<1>1. \A i : i \in DOMAIN a <=> i \in {1, 2, 3, 4}
  BY DEF Key
<1>2. /\ 1 .. (1 - 1) = {} /\ 1 .. (2 - 1) = {1}
      /\ 1 .. (3 - 1) = {1, 2} /\ 1 .. (4 - 1) = {1, 2, 3}
  OBVIOUS
<1> DEFINE Decides(i) == a[i] < b[i] /\ \A j \in 1 .. (i - 1) : a[j] = b[j]
<1>3. Lexicographic(a, b) <=> Decides(1) \/ Decides(2) \/ Decides(3) \/ Decides(4)
  <2>1. Lexicographic(a, b) <=> \E i \in DOMAIN a : Decides(i)
    BY DEF Lexicographic
  <2> HIDE DEF Decides
  <2> QED
    BY <1>1, <2>1
<1>4. /\ Decides(1) <=> a[1] < b[1]
      /\ Decides(2) <=> a[1] = b[1] /\ a[2] < b[2]
      /\ Decides(3) <=> a[1] = b[1] /\ a[2] = b[2] /\ a[3] < b[3]
      /\ Decides(4) <=> a[1] = b[1] /\ a[2] = b[2] /\ a[3] = b[3] /\ a[4] < b[4]
  BY <1>2
<1> HIDE DEF Decides
<1> QED
  BY <1>3, <1>4

(* Comparing keys orders them: no key precedes itself, and two keys that      *)
(* neither way precede each other are the same.                               *)
LEMMA KeysOrder ==
  /\ \A a \in Key : ~Lexicographic(a, a)
  /\ \A a, b, c \in Key :
       Lexicographic(a, b) /\ Lexicographic(b, c) => Lexicographic(a, c)
  /\ \A a, b \in Key :
       Lexicographic(a, b) \/ Lexicographic(b, a) \/ (a[3] = b[3] /\ a[4] = b[4])
<1>1. \A a \in Key : a[1] \in Int /\ a[2] \in Int /\ a[3] \in Int /\ a[4] \in Int
  BY DEF Key
<1>2. \A a \in Key : ~Lexicographic(a, a)
  BY <1>1, KeysCompare
<1>3. \A a, b, c \in Key :
        Lexicographic(a, b) /\ Lexicographic(b, c) => Lexicographic(a, c)
  BY <1>1, KeysCompare
<1>4. \A a, b \in Key :
        Lexicographic(a, b) \/ Lexicographic(b, a) \/ (a[3] = b[3] /\ a[4] = b[4])
  BY <1>1, KeysCompare
<1> QED
  BY <1>2, <1>3, <1>4

RisksOf(P, t) == OverdueRisks(P, t) \cup BlockedRisks(P, t) \cup IntegrationRisks(P, t)

(* Every risk cites reports of the picture, one of which is the first.        *)
LEMMA RiskCites ==
  ASSUME NEW P, Readable(P), NEW t, NEW r \in RisksOf(P, t)
  PROVE  /\ r.cites # {} /\ r.cites \in SUBSET P
         /\ r.severity \in {"medium", "high", "critical"}
         /\ r.rule \in {"blocked_work", "overdue_work", "repeated_integration_failure"}
         /\ IsFirst(FirstCited(r), r.cites)
<1>1. /\ r.cites # {} /\ r.cites \in SUBSET P
      /\ r.severity \in {"medium", "high", "critical"}
      /\ r.rule \in {"blocked_work", "overdue_work", "repeated_integration_failure"}
  <2>1. CASE \E e \in P : LateAt(P, t, e) /\ r = OverdueRisk(e, t)
    BY <2>1 DEF OverdueRisk, AgedSeverity
  <2>2. CASE \E e \in P : StuckAt(P, e) /\ r = BlockedRisk(e, t)
    BY <2>2 DEF BlockedRisk, AgedSeverity
  <2>3. CASE \E k \in Tracked(P) : RepeatedAt(P, k, t) /\ r = FailureRisk(P, k, t)
    <3>1. PICK k \in Tracked(P) : RepeatedAt(P, k, t) /\ r = FailureRisk(P, k, t)
      BY <2>3
    <3> DEFINE f == ActiveFailures(P, k, t)
    <3>2. f \in SUBSET P
      BY DEF ActiveFailures, About
    <3>3. /\ r.cites = f /\ r.rule = "repeated_integration_failure"
          /\ r.severity \in {"high", "critical"}
      BY <3>1 DEF FailureRisk
    <3>4. Cardinality(f) >= FailureThreshold
      BY <3>1 DEF RepeatedAt
    <3> HIDE DEF f
    <3>5. f # {}
      BY <3>4, FS_EmptySet, RulesAssumption
    <3> QED
      BY <3>2, <3>3, <3>5
  <2> QED
    BY <2>1, <2>2, <2>3, RisksByReport DEF RisksOf
<1>2. PICK e : IsFirst(e, r.cites)
  BY <1>1, LastExists
<1>3. e = FirstCited(r)
  BY <1>1, <1>2, Extremes DEF FirstCited
<1> QED
  BY <1>1, <1>2, <1>3

(* A rule raises no two risks that cite the same report first.                *)
LEMMA RisksApart ==
  ASSUME NEW P, Readable(P), NEW t, NEW r \in RisksOf(P, t), NEW q \in RisksOf(P, t),
         r.rule = q.rule, FirstCited(r) = FirstCited(q)
  PROVE  r = q
<1>1. FirstCited(r) \in r.cites /\ FirstCited(r) \in q.cites
  BY RiskCites DEF IsFirst
<1> DEFINE first == FirstCited(r)
<1> HIDE DEF first
<1>2. first \in r.cites /\ first \in q.cites
  BY <1>1 DEF first
<1>3. CASE \E e \in P : LateAt(P, t, e) /\ r = OverdueRisk(e, t)
  <2>1. r = OverdueRisk(first, t) /\ r.rule = "overdue_work"
    BY <1>2, <1>3 DEF OverdueRisk
  <2>2. \E e \in P : LateAt(P, t, e) /\ q = OverdueRisk(e, t)
    BY <2>1, RisksByReport DEF RisksOf, BlockedRisk, FailureRisk
  <2>3. q = OverdueRisk(first, t)
    BY <1>2, <2>2 DEF OverdueRisk
  <2> QED
    BY <2>1, <2>3
<1>4. CASE \E e \in P : StuckAt(P, e) /\ r = BlockedRisk(e, t)
  <2>1. r = BlockedRisk(first, t) /\ r.rule = "blocked_work"
    BY <1>2, <1>4 DEF BlockedRisk
  <2>2. \E e \in P : StuckAt(P, e) /\ q = BlockedRisk(e, t)
    BY <2>1, RisksByReport DEF RisksOf, OverdueRisk, FailureRisk
  <2>3. q = BlockedRisk(first, t)
    BY <1>2, <2>2 DEF BlockedRisk
  <2> QED
    BY <2>1, <2>3
<1>5. CASE \E k \in Tracked(P) : RepeatedAt(P, k, t) /\ r = FailureRisk(P, k, t)
  <2>1. PICK k \in Tracked(P) : r = FailureRisk(P, k, t)
    BY <1>5
  <2>2. k = first.entity /\ r.rule = "repeated_integration_failure"
    BY <1>2, <2>1 DEF FailureRisk, ActiveFailures, About
  <2> DEFINE Failing == \E l \in Tracked(P) : RepeatedAt(P, l, t) /\ q = FailureRisk(P, l, t)
  <2>3. PICK l \in Tracked(P) : q = FailureRisk(P, l, t)
    <3>1. \/ \E e \in P : LateAt(P, t, e) /\ q = OverdueRisk(e, t)
          \/ \E e \in P : StuckAt(P, e) /\ q = BlockedRisk(e, t)
          \/ Failing
      BY RisksByReport DEF RisksOf
    <3> HIDE DEF Failing
    <3>2. q.rule = "repeated_integration_failure"
      BY <2>2
    <3>3. Failing
      BY <3>1, <3>2 DEF OverdueRisk, BlockedRisk
    <3> QED
      BY <3>3 DEF Failing
  <2>4. l = first.entity
    BY <1>2, <2>3 DEF FailureRisk, ActiveFailures, About
  <2> QED
    BY <2>1, <2>2, <2>3, <2>4
<1> QED
  BY <1>3, <1>4, <1>5, RisksByReport DEF RisksOf

(* Hence the risks of a picture are finitely many. *)
LEMMA RisksFinite ==
  ASSUME NEW P, Readable(P), NEW t
  PROVE  IsFiniteSet(RisksOf(P, t))
<1> DEFINE S == RisksOf(P, t)
           Rules == {"blocked_work", "overdue_work", "repeated_integration_failure"}
           T == Rules \X P
           f == [r \in S |-> <<r.rule, FirstCited(r)>>]
<1>1. IsFiniteSet(Rules)
  <2>1. IsFiniteSet({"blocked_work"})
    BY FS_Singleton
  <2>2. IsFiniteSet({"blocked_work"} \cup {"overdue_work"})
    BY <2>1, FS_AddElement
  <2>3. IsFiniteSet(({"blocked_work"} \cup {"overdue_work"})
                      \cup {"repeated_integration_failure"})
    BY <2>2, FS_AddElement
  <2>4. Rules = ({"blocked_work"} \cup {"overdue_work"})
                  \cup {"repeated_integration_failure"}
    OBVIOUS
  <2> QED
    BY <2>3, <2>4
<1>2. \A r \in S : r.rule \in Rules /\ FirstCited(r) \in P
  BY RiskCites DEF IsFirst
<1>3. \A r, q \in S : r.rule = q.rule /\ FirstCited(r) = FirstCited(q) => r = q
  BY RisksApart
<1> HIDE DEF S, Rules
<1>4. IsFiniteSet(T)
  BY <1>1, FS_Product DEF Readable
<1>5. f \in [S -> T]
  BY <1>2
<1>6. \A r, q \in S : f[r] = f[q] => r = q
  BY <1>3
<1> HIDE DEF f, T
<1>7. f \in Injection(S, T)
  BY <1>5, <1>6 DEF Injection, IsInjective
<1> QED
  BY <1>4, <1>7, FS_Injection DEF S

Urgency(S) == {p \in S \X S : MoreUrgent(p[1], p[2])}

(* Urgency orders the risks of a picture without ties.                        *)
LEMMA UrgencyOrders ==
  ASSUME NEW P, Readable(P), NEW t
  PROVE  /\ StrictlyOrders(Urgency(RisksOf(P, t)), RisksOf(P, t))
         /\ \A r, q \in RisksOf(P, t) :
              <<r, q>> \in Urgency(RisksOf(P, t)) <=> MoreUrgent(r, q)
<1> DEFINE S == RisksOf(P, t)
<1>1. ASSUME NEW r \in S PROVE PriorityKey(r) \in Key
  <2>1. Weight(r.severity) \in Int
    BY RiskCites DEF Weight
  <2>2. RuleOrder(r.rule) \in Int
    BY RiskCites DEF RuleOrder
  <2>3. FirstCited(r).rank \in Int
    <3>1. FirstCited(r) \in P
      BY RiskCites DEF IsFirst
    <3> QED
      BY <3>1, PictureAssumption DEF Readable, Report
  <2>4. Cardinality(r.cites) \in Int
    <3>1. r.cites \in SUBSET P /\ IsFiniteSet(P)
      BY RiskCites DEF Readable
    <3>2. IsFiniteSet(r.cites)
      BY <3>1, FS_Subset
    <3> QED
      BY <3>2, FS_CardinalityType
  <2> QED
    BY <2>1, <2>2, <2>3, <2>4 DEF PriorityKey, Key
<1>2. ASSUME NEW r \in S, NEW q \in S,
             PriorityKey(r)[3] = PriorityKey(q)[3], PriorityKey(r)[4] = PriorityKey(q)[4]
      PROVE  r = q
  <2>1. RuleOrder(r.rule) = RuleOrder(q.rule) /\ FirstCited(r).rank = FirstCited(q).rank
    BY <1>2 DEF PriorityKey
  <2>2. r.rule = q.rule
    BY <2>1, RiskCites DEF RuleOrder
  <2>3. FirstCited(r) \in P /\ FirstCited(q) \in P
    BY RiskCites DEF IsFirst
  <2>4. FirstCited(r) = FirstCited(q)
    BY <2>1, <2>3 DEF Readable
  <2> QED
    BY <2>2, <2>4, RisksApart
<1> HIDE DEF S
<1>3. \A r, q \in S : r = q \/ MoreUrgent(r, q) \/ MoreUrgent(q, r)
  BY <1>1, <1>2, KeysOrder DEF MoreUrgent
<1>4. /\ \A r \in S : ~MoreUrgent(r, r)
      /\ \A r, q, s \in S : MoreUrgent(r, q) /\ MoreUrgent(q, s) => MoreUrgent(r, s)
  BY <1>1, KeysOrder DEF MoreUrgent
<1>5. \A r, q \in S : <<r, q>> \in Urgency(S) <=> MoreUrgent(r, q)
  BY DEF Urgency
<1>6. StrictlyOrders(Urgency(S), S)
  BY <1>3, <1>4, <1>5 DEF StrictlyOrders
<1> QED
  BY <1>5, <1>6 DEF S

(* Prioritize lists the risks of a picture by urgency. *)
LEMMA PrioritizeOrders ==
  ASSUME NEW P, Readable(P), NEW t
  PROVE  Lists(Prioritize(RisksOf(P, t)), RisksOf(P, t), Urgency(RisksOf(P, t)))
         /\ DOMAIN Prioritize(RisksOf(P, t)) = 1 .. Len(Prioritize(RisksOf(P, t)))
<1> DEFINE S == RisksOf(P, t)
           n == Cardinality(S)
           R == Urgency(S)
           s == Prioritize(S)
           at(k) == CHOOSE r \in S : Cardinality({q \in S : MoreUrgent(q, r)}) = k - 1
<1>1. /\ IsFiniteSet(S) /\ StrictlyOrders(R, S)
      /\ \A r, q \in S : <<r, q>> \in R <=> MoreUrgent(r, q)
  BY RisksFinite, UrgencyOrders
<1>2. s = [k \in 1 .. n |-> at(k)]
  BY DEF Prioritize, SortedBy
<1> HIDE DEF S, R, s, at, n
<1>3. \A r \in S : Below(R, S, r) = {q \in S : MoreUrgent(q, r)}
  BY <1>1 DEF Below
<1>4. ASSUME NEW k \in 1 .. n PROVE s[k] \in S /\ Cardinality(Below(R, S, s[k])) = k - 1
  <2> DEFINE At(r) == Cardinality({q \in S : MoreUrgent(q, r)}) = k - 1
  <2>1. PICK r \in S : Cardinality(Below(R, S, r)) = k - 1
    BY <1>1, <1>4, Places DEF n
  <2>2. At(r)
    BY <1>3, <2>1
  <2>3. s[k] = CHOOSE x \in S : At(x)
    BY <1>2 DEF at
  <2> HIDE DEF At
  <2>4. s[k] \in S /\ At(s[k])
    BY <2>2, <2>3
  <2> QED
    BY <1>3, <2>4 DEF At
<1>5. s \in [1 .. n -> S]
  BY <1>2, <1>4
<1>6. Lists(s, S, R)
  BY <1>1, <1>4, <1>5, PlacedIsListed DEF n
<1> QED
  BY <1>6 DEF Lists, S, R, s

(* A picture's list holds exactly its risks, most urgent first, in the one    *)
(* order there is: the answer depends on what is stored and not on how it     *)
(* came to be stored (prioritize_risks).                                      *)
THEOREM RankingIsTotal == Spec => []RankedAndTraceable
<1>1. ASSUME PInv PROVE RankedAndTraceable
  <2> DEFINE P == Present
             S == Risks
             list == Prioritize(S)
             R == Urgency(S)
  <2>1. Readable(P) /\ S = RisksOf(P, now)
    BY <1>1, HistoryReadable, PictureOfRisks DEF RisksOf
  <2> HIDE DEF P, S
  <2>2. \A r \in S : r.cites # {} /\ r.cites \subseteq P
    BY <2>1, RiskCites
  <2>3. /\ \A r, q \in S : <<r, q>> \in R <=> MoreUrgent(r, q)
        /\ StrictlyOrders(R, S)
    BY <2>1, UrgencyOrders
  <2>4. \A r, q \in S : r = q \/ MoreUrgent(r, q) \/ MoreUrgent(q, r)
    BY <2>3 DEF StrictlyOrders
  <2>5. Lists(list, S, R) /\ DOMAIN list = 1 .. Len(list)
    BY <2>1, PrioritizeOrders
  <2> HIDE DEF list, R
  <2>6. S = {list[i] : i \in DOMAIN list}
    BY <2>5 DEF Lists
  <2>7. ASSUME NEW i \in DOMAIN list, NEW j \in DOMAIN list, i < j
        PROVE  MoreUrgent(list[i], list[j])
    <3>1. list[i] \in S /\ list[j] \in S /\ <<list[i], list[j]>> \in R
      BY <2>5, <2>7 DEF Lists
    <3> QED
      BY <2>3, <3>1
  <2> QED
    BY <2>2, <2>4, <2>6, <2>7 DEF RankedAndTraceable, P, S, list
<1> QED
  BY <1>1, PInvInit, PInvNext, PTL DEF Spec

=================================================================================
