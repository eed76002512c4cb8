--------------------------- MODULE BriefContextProofs ---------------------------
(*****************************************************************************)
(* Proofs about what leaves the service.  Places, mentions and reports are   *)
(* sorted by orders without ties, so PlacedIsListed of the risk proofs says  *)
(* what each list holds and in which order; the first mention of a report is *)
(* the least of its mentions, and all mentions are finitely many because no  *)
(* list names a report twice.                                                *)
(*                                                                           *)
(* The proofs hold for any history, instant, thresholds, bound of the recent *)
(* view and bound on an incident's evidence.                                 *)
(*****************************************************************************)
EXTENDS BriefContext, RiskPictureProofs, SequenceTheorems

-----------------------------------------------------------------------------
(* Places in a list, in their order. *)
Ascending(T) == {p \in T \X T : p[1] < p[2]}

(* Numbers are put in order. *)
LEMMA NumbersInOrder ==
  ASSUME NEW T, IsFiniteSet(T), T \subseteq Int
  PROVE  Lists(SortedBy(T, <), T, Ascending(T))
<1> DEFINE n == Cardinality(T)
           R == Ascending(T)
           s == SortedBy(T, <)
           at(k) == CHOOSE e \in T : Cardinality({d \in T : d < e}) = k - 1
<1>1. StrictlyOrders(R, T)
  BY DEF StrictlyOrders, Ascending
<1>2. \A e \in T : Below(R, T, e) = {d \in T : d < e}
  BY DEF Below, Ascending
<1>3. s = [k \in 1 .. n |-> at(k)]
  BY DEF SortedBy
<1> HIDE DEF n, R, s, at
<1>4. ASSUME NEW k \in 1 .. n PROVE s[k] \in T /\ Cardinality(Below(R, T, s[k])) = k - 1
  <2> DEFINE At(e) == Cardinality({d \in T : d < e}) = k - 1
  <2>1. PICK e \in T : Cardinality(Below(R, T, e)) = k - 1
    BY <1>1, <1>4, Places DEF n
  <2>2. At(e)
    BY <1>2, <2>1
  <2>3. s[k] = CHOOSE x \in T : At(x)
    BY <1>3 DEF at
  <2> HIDE DEF At
  <2>4. s[k] \in T /\ At(s[k])
    BY <2>2, <2>3
  <2> QED
    BY <1>2, <2>4 DEF At
<1>5. s \in [1 .. n -> T]
  BY <1>3, <1>4
<1>6. Lists(s, T, R)
  BY <1>1, <1>4, <1>5, PlacedIsListed DEF n
<1> QED
  BY <1>6 DEF R, s
(* The part of a list at the places T: what Kept keeps, T being the places    *)
(* that pass its test.                                                        *)
AtPlaces(s, T) ==
  LET places == SortedBy(T, <) IN [k \in DOMAIN places |-> s[places[k]]]

(* Nothing is kept but what passes, and nothing that passes is left out. *)
LEMMA KeptAtPlaces ==
  ASSUME NEW s, NEW n \in Nat, NEW T \in SUBSET (1 .. n)
  PROVE  /\ Range(AtPlaces(s, T)) = {s[i] : i \in T}
         /\ T = {} => AtPlaces(s, T) = <<>>
<1> DEFINE places == SortedBy(T, <)
           kept == [k \in DOMAIN places |-> s[places[k]]]
<1>1. IsFiniteSet(T) /\ T \subseteq Int
  <2>1. IsFiniteSet(1 .. n)
    BY FS_Interval
  <2>2. IsFiniteSet(T)
    BY <2>1, FS_Subset
  <2> QED
    BY <2>2
<1>2. Lists(places, T, Ascending(T)) /\ DOMAIN places = 1 .. Len(places)
  <2>1. Lists(places, T, Ascending(T))
    BY <1>1, NumbersInOrder
  <2> QED
    BY <2>1 DEF Lists
<1> HIDE DEF places
<1>3. Range(kept) = {s[i] : i \in T}
  BY <1>2 DEF Range, Lists
<1>4. ASSUME T = {} PROVE kept = <<>>
  <2>1. Len(places) = 0
    BY <1>2, <1>4 DEF Lists
  <2> QED
    BY <1>2, <2>1
<1> QED
  BY <1>3, <1>4 DEF places, AtPlaces

-----------------------------------------------------------------------------
(* Mentions are read list by list, and in each list place by place. *)
Mention == Nat \X Nat
Reading(M) == {p \in M \X M : Lexicographic(p[1], p[2])}

(* Pairs are compared at the first place where they differ. *)
LEMMA MentionsCompare ==
  ASSUME NEW a \in Mention, NEW b \in Mention
  PROVE  Lexicographic(a, b) <=> a[1] < b[1] \/ (a[1] = b[1] /\ a[2] < b[2])
<1>1. \A i : i \in DOMAIN a <=> i \in {1, 2}
  BY DEF Mention
<1>2. 1 .. (1 - 1) = {} /\ 1 .. (2 - 1) = {1}
  OBVIOUS
<1> DEFINE Decides(i) == a[i] < b[i] /\ \A j \in 1 .. (i - 1) : a[j] = b[j]
<1>3. Lexicographic(a, b) <=> Decides(1) \/ Decides(2)
  <2>1. Lexicographic(a, b) <=> \E i \in DOMAIN a : Decides(i)
    BY DEF Lexicographic
  <2> HIDE DEF Decides
  <2> QED
    BY <1>1, <2>1
<1>4. /\ Decides(1) <=> a[1] < b[1]
      /\ Decides(2) <=> a[1] = b[1] /\ a[2] < b[2]
  BY <1>2
<1> HIDE DEF Decides
<1> QED
  BY <1>3, <1>4

(* So reading goes through any mentions without ties. *)
LEMMA ReadingOrders ==
  ASSUME NEW M \in SUBSET Mention
  PROVE  /\ StrictlyOrders(Reading(M), M)
         /\ \A a, b \in M : <<a, b>> \in Reading(M) <=> Lexicographic(a, b)
<1>1. \A a \in M : a[1] \in Nat /\ a[2] \in Nat /\ a = <<a[1], a[2]>>
  BY DEF Mention
<1>2. \A a, b \in M :
        Lexicographic(a, b) <=> a[1] < b[1] \/ (a[1] = b[1] /\ a[2] < b[2])
  BY MentionsCompare
<1>3. \A a, b \in M : <<a, b>> \in Reading(M) <=> Lexicographic(a, b)
  BY DEF Reading
<1>4. \A a \in M : ~Lexicographic(a, a)
  BY <1>1, <1>2
<1>5. \A a, b, c \in M :
        Lexicographic(a, b) /\ Lexicographic(b, c) => Lexicographic(a, c)
  BY <1>1, <1>2
<1>6. ASSUME NEW a \in M, NEW b \in M
      PROVE  a = b \/ Lexicographic(a, b) \/ Lexicographic(b, a)
  <2>1. a[1] = b[1] /\ a[2] = b[2] => a = b
    BY <1>1
  <2> QED
    BY <1>1, <1>2, <2>1
<1> QED
  BY <1>3, <1>4, <1>5, <1>6 DEF StrictlyOrders

(* sorted() puts mentions in reading order. *)
LEMMA MentionsInOrder ==
  ASSUME NEW M \in SUBSET Mention, IsFiniteSet(M)
  PROVE  Lists(SortedBy(M, Lexicographic), M, Reading(M))
<1> DEFINE n == Cardinality(M)
           R == Reading(M)
           s == SortedBy(M, Lexicographic)
           at(k) == CHOOSE e \in M : Cardinality({d \in M : Lexicographic(d, e)}) = k - 1
<1>1. StrictlyOrders(R, M) /\ \A a, b \in M : <<a, b>> \in R <=> Lexicographic(a, b)
  BY ReadingOrders
<1>2. s = [k \in 1 .. n |-> at(k)]
  BY DEF SortedBy
<1> HIDE DEF n, R, s, at
<1>3. \A e \in M : Below(R, M, e) = {d \in M : Lexicographic(d, e)}
  BY <1>1 DEF Below
<1>4. ASSUME NEW k \in 1 .. n PROVE s[k] \in M /\ Cardinality(Below(R, M, s[k])) = k - 1
  <2> DEFINE At(e) == Cardinality({d \in M : Lexicographic(d, e)}) = k - 1
  <2>1. PICK e \in M : Cardinality(Below(R, M, e)) = k - 1
    BY <1>1, <1>4, Places DEF n
  <2>2. At(e)
    BY <1>3, <2>1
  <2>3. s[k] = CHOOSE x \in M : At(x)
    BY <1>2 DEF at
  <2> HIDE DEF At
  <2>4. s[k] \in M /\ At(s[k])
    BY <2>2, <2>3
  <2> QED
    BY <1>3, <2>4 DEF At
<1>5. s \in [1 .. n -> M]
  BY <1>2, <1>4
<1>6. Lists(s, M, R)
  BY <1>1, <1>4, <1>5, PlacedIsListed DEF n
<1> QED
  BY <1>6 DEF R, s

-----------------------------------------------------------------------------
(* Reports from the newest on. *)
Recency(reports) == {p \in reports \X reports : Newer(p[1], p[2])}

(* No two reports of a history are tied for recency. *)
LEMMA RecencyOrders ==
  ASSUME NEW reports, Readable(reports)
  PROVE  /\ StrictlyOrders(Recency(reports), reports)
         /\ \A d, e \in reports : <<d, e>> \in Recency(reports) <=> Newer(d, e)
<1>1. \A e \in reports : e.at \in Int /\ e.rank \in Int
  BY PictureAssumption DEF Readable, Report
<1>2. \A d, e \in reports : d.rank = e.rank => d = e
  BY DEF Readable
<1>3. \A d, e \in reports : <<d, e>> \in Recency(reports) <=> Newer(d, e)
  BY DEF Recency
<1>4. /\ \A d \in reports : ~Newer(d, d)
      /\ \A c, d, e \in reports : Newer(c, d) /\ Newer(d, e) => Newer(c, e)
      /\ \A d, e \in reports : d = e \/ Newer(d, e) \/ Newer(e, d)
  BY <1>1, <1>2 DEF Newer
<1> QED
  BY <1>3, <1>4 DEF StrictlyOrders

(* _order_newest_first lists every report of a history. *)
LEMMA NewestFirst ==
  ASSUME NEW reports, Readable(reports)
  PROVE  /\ Lists(SortedBy(reports, Newer), reports, Recency(reports))
         /\ Len(SortedBy(reports, Newer)) = Cardinality(reports)
<1> DEFINE n == Cardinality(reports)
           R == Recency(reports)
           s == SortedBy(reports, Newer)
           at(k) == CHOOSE e \in reports : Cardinality({d \in reports : Newer(d, e)}) = k - 1
<1>1. /\ StrictlyOrders(R, reports) /\ IsFiniteSet(reports)
      /\ \A a, b \in reports : <<a, b>> \in R <=> Newer(a, b)
  BY RecencyOrders DEF Readable
<1>2. s = [k \in 1 .. n |-> at(k)]
  BY DEF SortedBy
<1> HIDE DEF n, R, s, at
<1>3. \A e \in reports : Below(R, reports, e) = {d \in reports : Newer(d, e)}
  BY <1>1 DEF Below
<1>4. ASSUME NEW k \in 1 .. n
      PROVE  s[k] \in reports /\ Cardinality(Below(R, reports, s[k])) = k - 1
  <2> DEFINE At(e) == Cardinality({d \in reports : Newer(d, e)}) = k - 1
  <2>1. PICK e \in reports : Cardinality(Below(R, reports, e)) = k - 1
    BY <1>1, <1>4, Places DEF n
  <2>2. At(e)
    BY <1>3, <2>1
  <2>3. s[k] = CHOOSE x \in reports : At(x)
    BY <1>2 DEF at
  <2> HIDE DEF At
  <2>4. s[k] \in reports /\ At(s[k])
    BY <2>2, <2>3
  <2> QED
    BY <1>3, <2>4 DEF At
<1>5. s \in [1 .. n -> reports]
  BY <1>2, <1>4
<1>6. Lists(s, reports, R)
  BY <1>1, <1>4, <1>5, PlacedIsListed DEF n
<1>7. Len(s) = n
  <2>1. n \in Nat
    BY <1>1, FS_CardinalityType DEF n
  <2>2. DOMAIN s = 1 .. n /\ DOMAIN s = 1 .. Len(s) /\ Len(s) \in Nat
    BY <1>5, <1>6 DEF Lists
  <2> QED
    BY <2>1, <2>2
<1> QED
  BY <1>6, <1>7 DEF R, s, n
-----------------------------------------------------------------------------
(* n lists of members of E, none of which names a member twice. *)
Named(lists, n, E) ==
  /\ n \in Nat /\ IsFiniteSet(E) /\ DOMAIN lists = 1 .. n
  /\ \A i \in 1 .. n :
       /\ DOMAIN lists[i] \subseteq Nat
       /\ \A k \in DOMAIN lists[i] : lists[i][k] \in E
       /\ IsInjective(lists[i])

FirstMentions(lists) ==
  {m \in Mentions(lists) : \A l \in Mentions(lists) :
     Mentioned(lists, l) = Mentioned(lists, m) => l = m \/ Lexicographic(m, l)}

(* A mention is a list and a place, and there are finitely many. *)
LEMMA MentionsFinite ==
  ASSUME NEW lists, NEW n, NEW E, Named(lists, n, E)
  PROVE  /\ Mentions(lists) \in SUBSET Mention
         /\ \A m \in Mentions(lists) :
              m[1] \in 1 .. n /\ m[2] \in DOMAIN lists[m[1]] /\ Mentioned(lists, m) \in E
         /\ \A i \in 1 .. n : \A k \in DOMAIN lists[i] : <<i, k>> \in Mentions(lists)
         /\ IsFiniteSet(Mentions(lists))
<1> DEFINE M == Mentions(lists)
           T == (1 .. n) \X E
           f == [m \in M |-> <<m[1], Mentioned(lists, m)>>]
<1>1. \A m : m \in M <=> \E i \in 1 .. n : \E k \in DOMAIN lists[i] : m = <<i, k>>
  BY DEF Mentions, Named
<1>2. M \in SUBSET Mention
  BY <1>1 DEF Mention, Named
<1>3. \A m \in M :
        /\ m = <<m[1], m[2]>>
        /\ m[1] \in 1 .. n /\ m[2] \in DOMAIN lists[m[1]] /\ Mentioned(lists, m) \in E
  BY <1>1 DEF Named, Mentioned
<1>4. IsFiniteSet(T)
  <2>1. IsFiniteSet(1 .. n)
    BY FS_Interval DEF Named
  <2> QED
    BY <2>1, FS_Product DEF Named
<1>5. f \in [M -> T]
  <2> HIDE DEF M
  <2> QED
    BY <1>3
<1>6. ASSUME NEW a \in M, NEW b \in M, f[a] = f[b] PROVE a = b
  <2> HIDE DEF M
  <2>1. a[1] = b[1] /\ Mentioned(lists, a) = Mentioned(lists, b)
    BY <1>6
  <2>2. IsInjective(lists[a[1]])
    BY <1>3 DEF Named
  <2>3. a[2] = b[2]
    BY <1>3, <2>1, <2>2 DEF IsInjective, Mentioned
  <2> QED
    BY <1>3, <2>1, <2>3
<1>7. f \in Injection(M, T)
  <2> HIDE DEF f, M, T
  <2> QED
    BY <1>5, <1>6 DEF Injection, IsInjective
<1>8. IsFiniteSet(M)
  <2> HIDE DEF f, M, T
  <2> QED
    BY <1>4, <1>7, FS_Injection
<1> QED
  BY <1>1, <1>2, <1>3, <1>8

(* Whatever is mentioned is mentioned first somewhere, and only there. *)
LEMMA FirstMentionExists ==
  ASSUME NEW lists, NEW n, NEW E, Named(lists, n, E), NEW l \in Mentions(lists)
  PROVE  \E m \in FirstMentions(lists) : Mentioned(lists, m) = Mentioned(lists, l)
<1> DEFINE S == {m \in Mentions(lists) : Mentioned(lists, m) = Mentioned(lists, l)}
           s == SortedBy(S, Lexicographic)
<1>1. S \in SUBSET Mention /\ IsFiniteSet(S)
  <2>1. S \in SUBSET Mentions(lists)
    OBVIOUS
  <2> HIDE DEF S
  <2> QED
    BY <2>1, MentionsFinite, FS_Subset
<1>2. l \in S
  OBVIOUS
<1> HIDE DEF S
<1>3. Lists(s, S, Reading(S)) /\ \A a, b \in S : <<a, b>> \in Reading(S) <=> Lexicographic(a, b)
  BY <1>1, MentionsInOrder, ReadingOrders
<1> HIDE DEF s
<1>4. 1 \in 1 .. Len(s) /\ s[1] \in S
  BY <1>2, <1>3 DEF Lists
<1>5. ASSUME NEW m \in S PROVE m = s[1] \/ Lexicographic(s[1], m)
  <2>1. PICK i \in 1 .. Len(s) : s[i] = m
    BY <1>3 DEF Lists
  <2>2. i = 1 \/ 1 < i
    OBVIOUS
  <2>3. 1 < i => <<s[1], s[i]>> \in Reading(S)
    BY <1>3, <1>4 DEF Lists
  <2> QED
    BY <1>3, <1>4, <2>1, <2>2, <2>3
<1>6. s[1] \in FirstMentions(lists)
  BY <1>4, <1>5 DEF FirstMentions, S
<1> QED
  BY <1>4, <1>6 DEF S

(* Reading out the first mentions names everything mentioned once, list after *)
(* list.                                                                      *)
LEMMA ReadOnce ==
  ASSUME NEW lists, NEW n, NEW E, Named(lists, n, E)
  PROVE  LET ids == ReadOut(lists, FirstMentions(lists))
         IN /\ IsInjective(ids)
            /\ Range(ids) = {Mentioned(lists, m) : m \in Mentions(lists)}
            /\ Len(ids) \in Nat /\ DOMAIN ids = 1 .. Len(ids)
            /\ \E read \in [DOMAIN ids -> FirstMentions(lists)] :
                 /\ \A k \in DOMAIN ids : ids[k] = Mentioned(lists, read[k])
                 /\ \A i, j \in DOMAIN ids : i < j => read[i][1] <= read[j][1]
<1> DEFINE F == FirstMentions(lists)
           read == SortedBy(F, Lexicographic)
           ids == ReadOut(lists, F)
<1>1. /\ F \in SUBSET Mentions(lists) /\ F \in SUBSET Mention /\ IsFiniteSet(F)
  <2>1. F \in SUBSET Mentions(lists)
    BY DEF FirstMentions
  <2> HIDE DEF F
  <2> QED
    BY <2>1, MentionsFinite, FS_Subset
<1>2. ids = [k \in DOMAIN read |-> Mentioned(lists, read[k])]
  BY DEF ReadOut
<1>3. ASSUME NEW a \in F, NEW b \in F, Mentioned(lists, a) = Mentioned(lists, b) PROVE a = b
  <2>1. a = b \/ (Lexicographic(a, b) /\ Lexicographic(b, a))
    BY <1>3 DEF FirstMentions
  <2>2. a \in Mention /\ b \in Mention
    BY <1>1
  <2>3. ~(Lexicographic(a, b) /\ Lexicographic(b, a))
    <3>1. a[1] \in Nat /\ a[2] \in Nat /\ b[1] \in Nat /\ b[2] \in Nat
      BY <2>2 DEF Mention
    <3> QED
      BY <2>2, <3>1, MentionsCompare
  <2> QED
    BY <2>1, <2>3
<1> HIDE DEF F
<1>4. /\ Lists(read, F, Reading(F))
      /\ \A a, b \in F : <<a, b>> \in Reading(F) <=> Lexicographic(a, b)
  BY <1>1, MentionsInOrder, ReadingOrders
<1> HIDE DEF read, ids
<1>5. DOMAIN read = 1 .. Len(read) /\ Len(read) \in Nat /\ read \in [1 .. Len(read) -> F]
  BY <1>4 DEF Lists
<1>6. DOMAIN ids = 1 .. Len(read) /\ Len(ids) = Len(read)
  BY <1>2, <1>5
<1>7. IsInjective(ids)
  <2> SUFFICES ASSUME NEW i \in DOMAIN ids, NEW j \in DOMAIN ids, ids[i] = ids[j]
               PROVE  i = j
    BY DEF IsInjective
  <2>1. read[i] \in F /\ read[j] \in F /\ read[i] = read[j]
    BY <1>2, <1>3, <1>5, <1>6
  <2>2. ~(i < j) /\ ~(j < i)
    <3>1. <<read[i], read[j]>> \notin Reading(F) /\ <<read[j], read[i]>> \notin Reading(F)
      BY <1>1, <2>1, ReadingOrders DEF StrictlyOrders
    <3> QED
      BY <1>4, <1>6, <3>1 DEF Lists
  <2> QED
    BY <1>6, <2>2
<1>8. Range(ids) = {Mentioned(lists, m) : m \in Mentions(lists)}
  <2>1. ASSUME NEW m \in Mentions(lists) PROVE Mentioned(lists, m) \in Range(ids)
    <3>1. PICK f \in F : Mentioned(lists, f) = Mentioned(lists, m)
      BY FirstMentionExists DEF F
    <3>2. PICK i \in 1 .. Len(read) : read[i] = f
      BY <1>4 DEF Lists
    <3>3. ids[i] = Mentioned(lists, m) /\ i \in DOMAIN ids
      BY <1>2, <1>6, <1>5, <3>1, <3>2
    <3> QED
      BY <3>3 DEF Range
  <2>2. \A k \in DOMAIN ids : read[k] \in Mentions(lists) /\ ids[k] = Mentioned(lists, read[k])
    BY <1>1, <1>2, <1>5, <1>6
  <2> QED
    BY <2>1, <2>2 DEF Range
<1>9. ASSUME NEW i \in DOMAIN ids, NEW j \in DOMAIN ids, i < j
      PROVE  read[i][1] <= read[j][1]
  <2>1. read[i] \in F /\ read[j] \in F /\ <<read[i], read[j]>> \in Reading(F)
    BY <1>4, <1>5, <1>6, <1>9 DEF Lists
  <2>2. Lexicographic(read[i], read[j]) /\ read[i] \in Mention /\ read[j] \in Mention
    BY <1>1, <1>4, <2>1
  <2>3. read[i][1] \in Nat /\ read[j][1] \in Nat
    BY <2>2 DEF Mention
  <2> QED
    BY <2>2, <2>3, MentionsCompare
<1>10. read \in [DOMAIN ids -> F] /\ \A k \in DOMAIN ids : ids[k] = Mentioned(lists, read[k])
  BY <1>2, <1>5, <1>6
<1> QED
  BY <1>5, <1>6, <1>7, <1>8, <1>9, <1>10 DEF ids, F
-----------------------------------------------------------------------------
(* A risk's event_ids name each report it cites once.                         *)
LEMMA EvidenceNamed ==
  ASSUME NEW P, Readable(P), NEW cites \in SUBSET P
  PROVE  LET ids == OldestFirst(cites)
         IN /\ ids \in Seq(P) /\ IsInjective(ids) /\ Range(ids) = cites
<1> DEFINE ids == OldestFirst(cites)
<1>1. Readable(cites) /\ OrderedReports(ids, cites)
  BY PartReadable, OldestFirstOrders
<1> HIDE DEF ids
<1>2. /\ ids \in Seq(P) /\ DOMAIN ids = 1 .. Len(ids) /\ Len(ids) \in Nat
      /\ \A i \in DOMAIN ids : ids[i] \in cites
      /\ \A e \in cites : \E i \in DOMAIN ids : ids[i] = e
  BY <1>1 DEF OrderedReports
<1>3. IsInjective(ids)
  <2> SUFFICES ASSUME NEW i \in DOMAIN ids, NEW j \in DOMAIN ids, ids[i] = ids[j]
               PROVE  i = j
    BY DEF IsInjective
  <2>1. ids[i] \in cites /\ ids[j] \in cites
    BY <1>2
  <2>2. ~Before(ids[i], ids[j]) /\ ~Before(ids[j], ids[i])
    BY <1>1, <2>1, BeforeOrders
  <2>3. ~(i < j) /\ ~(j < i)
    BY <1>1, <1>2, <2>2 DEF OrderedReports
  <2> QED
    BY <1>2, <2>3
<1>4. Range(ids) = cites
  BY <1>2 DEF Range
<1> QED
  BY <1>2, <1>3, <1>4 DEF ids

(* The recent view names reports once each; whatever it leaves out is older   *)
(* than all it shows, and then it shows fewer than there are.                 *)
LEMMA RecentView ==
  ASSUME NEW P, Readable(P)
  PROVE  LET recent == RecentEvents(P)
         IN /\ recent \in Seq(P)
            /\ IsInjective(recent) /\ Range(recent) \subseteq P
            /\ \A e \in P \ Range(recent) :
                 Len(recent) < Cardinality(P) /\ \A r \in Range(recent) : Newer(r, e)
<1> DEFINE s == SortedBy(P, Newer)
           n == Len(s)
           m == Min({MaxRecent, n})
           recent == RecentEvents(P)
<1>1. /\ Lists(s, P, Recency(P)) /\ n = Cardinality(P)
      /\ StrictlyOrders(Recency(P), P)
      /\ \A d, e \in P : <<d, e>> \in Recency(P) <=> Newer(d, e)
  BY NewestFirst, RecencyOrders
<1>2. recent = SubSeq(s, 1, m)
  BY DEF RecentEvents
<1> HIDE DEF s, recent
<1>3. n \in Nat /\ s \in [1 .. n -> P]
  BY <1>1 DEF Lists
<1> HIDE DEF n
<1>4. m \in Nat /\ m <= n /\ (m = n \/ m = MaxRecent)
  <2> DEFINE IsMin(x) == \A y \in {MaxRecent, n} : x <= y
  <2>1. \E x \in {MaxRecent, n} : IsMin(x)
    BY <1>3, BriefAssumption
  <2>2. m = CHOOSE x \in {MaxRecent, n} : IsMin(x)
    BY DEF Min
  <2> HIDE DEF IsMin
  <2>3. m \in {MaxRecent, n} /\ IsMin(m)
    BY <2>1, <2>2
  <2> HIDE DEF m
  <2> QED
    BY <1>3, <2>3, BriefAssumption DEF IsMin
<1> HIDE DEF m
<1>5. /\ recent \in Seq(P) /\ Len(recent) = m /\ DOMAIN recent = 1 .. m
      /\ \A i \in 1 .. m : recent[i] = s[i]
  <2>1. \A i \in 1 .. m : s[i] \in P
    BY <1>3, <1>4
  <2>2. /\ recent \in Seq(P)
        /\ Len(recent) = IF 1 <= m THEN m - 1 + 1 ELSE 0
        /\ \A i \in 1 .. m - 1 + 1 : recent[i] = s[1 + i - 1]
    BY <1>2, <1>4, <2>1, SubSeqProperties
  <2>3. Len(recent) = m
    BY <1>4, <2>2
  <2>4. DOMAIN recent = 1 .. m
    BY <2>2, <2>3
  <2>5. ASSUME NEW i \in 1 .. m PROVE recent[i] = s[i]
    <3>1. i \in 1 .. m - 1 + 1 /\ 1 + i - 1 = i
      BY <1>4
    <3> QED
      BY <2>2, <3>1
  <2> QED
    BY <2>2, <2>3, <2>4, <2>5
<1>6. \A i, j \in 1 .. n : s[i] = s[j] => i = j
  <2> SUFFICES ASSUME NEW i \in 1 .. n, NEW j \in 1 .. n, s[i] = s[j] PROVE i = j
    OBVIOUS
  <2>1. s[i] \in P /\ s[j] \in P
    BY <1>3
  <2>2. <<s[i], s[j]>> \notin Recency(P) /\ <<s[j], s[i]>> \notin Recency(P)
    BY <1>1, <2>1 DEF StrictlyOrders
  <2>3. ~(i < j) /\ ~(j < i)
    BY <1>1, <2>2 DEF Lists, n
  <2> QED
    BY <2>3
<1>7. IsInjective(recent) /\ Range(recent) \subseteq P
  <2>1. \A i \in 1 .. m : i \in 1 .. n
    BY <1>3, <1>4
  <2> QED
    BY <1>3, <1>5, <1>6, <2>1 DEF IsInjective, Range
<1>8. ASSUME NEW e \in P, e \notin Range(recent)
      PROVE  m < n /\ \A r \in Range(recent) : Newer(r, e)
  <2>1. PICK k \in 1 .. n : s[k] = e
    BY <1>1 DEF Lists, n
  <2>2. k \notin 1 .. m
    BY <1>5, <1>8, <2>1 DEF Range
  <2>3. m < k
    BY <1>3, <1>4, <2>2
  <2>4. ASSUME NEW i \in 1 .. m PROVE Newer(recent[i], e)
    <3>1. i \in 1 .. n /\ i < k
      BY <1>3, <1>4, <2>3
    <3>2. <<s[i], s[k]>> \in Recency(P) /\ s[i] \in P /\ s[k] \in P
      BY <1>1, <1>3, <3>1 DEF Lists, n
    <3> QED
      BY <1>1, <1>5, <2>1, <3>2
  <2> QED
    BY <1>3, <1>4, <1>5, <2>3, <2>4 DEF Range
<1> QED
  BY <1>1, <1>4, <1>5, <1>7, <1>8 DEF recent

(* What a brief reads its sources from: the evidence of each risk in turn,    *)
(* then the recent view.                                                      *)
LEMMA BriefLists ==
  ASSUME NEW P, Readable(P), NEW risks, Len(risks) \in Nat,
         DOMAIN risks = 1 .. Len(risks),
         \A i \in DOMAIN risks : risks[i].cites \in SUBSET P
  PROVE  LET lists == IdLists(risks, RecentEvents(P))
         IN /\ Named(lists, Len(risks) + 1, P)
            /\ \A i \in DOMAIN risks : Range(lists[i]) = risks[i].cites
            /\ lists[Len(risks) + 1] = RecentEvents(P)
<1> DEFINE n == Len(risks)
           recent == RecentEvents(P)
           evidence == [i \in DOMAIN risks |-> EventIds(risks[i])]
           lists == IdLists(risks, recent)
<1>1. ASSUME NEW i \in DOMAIN risks
      PROVE  /\ evidence[i] \in Seq(P)
             /\ IsInjective(evidence[i]) /\ Range(evidence[i]) = risks[i].cites
  BY EvidenceNamed DEF EventIds
<1>2. recent \in Seq(P) /\ IsInjective(recent)
  BY RecentView
<1>3. lists = evidence \o <<recent>>
  BY DEF IdLists
<1> HIDE DEF lists, recent
<1>4. evidence \in Seq(Seq(P)) /\ <<recent>> \in Seq(Seq(P)) /\ Len(evidence) = n
  <2>1. evidence \in [1 .. n -> Seq(P)]
    BY <1>1
  <2> HIDE DEF evidence
  <2> QED
    BY <1>2, <2>1
<1>5. /\ DOMAIN lists = 1 .. (n + 1)
      /\ \A i \in DOMAIN risks : lists[i] = evidence[i]
      /\ lists[n + 1] = recent
  <2> HIDE DEF evidence
  <2>1. /\ lists \in Seq(Seq(P)) /\ Len(lists) = n + 1
        /\ \A i \in 1 .. n + 1 :
             lists[i] = IF i <= n THEN evidence[i] ELSE <<recent>>[i - n]
    <3>1. Len(<<recent>>) = 1
      OBVIOUS
    <3> QED
      BY <1>3, <1>4, <3>1, ConcatProperties
  <2>2. n + 1 \in 1 .. n + 1 /\ ~(n + 1 <= n) /\ (n + 1) - n = 1
    OBVIOUS
  <2>3. lists[n + 1] = recent
    BY <2>1, <2>2
  <2>4. \A i \in 1 .. n : i \in 1 .. n + 1 /\ i <= n
    OBVIOUS
  <2> QED
    BY <2>1, <2>3, <2>4
<1>6. Named(lists, n + 1, P)
  <2>1. ASSUME NEW i \in 1 .. (n + 1)
        PROVE  lists[i] \in Seq(P) /\ IsInjective(lists[i])
    <3>1. i \in DOMAIN risks \/ i = n + 1
      OBVIOUS
    <3> HIDE DEF evidence
    <3> QED
      BY <1>1, <1>2, <1>5, <3>1
  <2>2. ASSUME NEW i \in 1 .. (n + 1)
        PROVE  DOMAIN lists[i] \subseteq Nat /\ \A k \in DOMAIN lists[i] : lists[i][k] \in P
    BY <2>1
  <2> QED
    BY <1>5, <2>1, <2>2 DEF Named, Readable
<1> QED
  BY <1>1, <1>5, <1>6 DEF lists, recent
(* The least of the risks that cite a report is found by Min.                 *)
LEMMA MinIsLeast ==
  ASSUME NEW S \in SUBSET Nat, NEW n \in S, \A m \in S : n <= m
  PROVE  Min(S) = n
<1> DEFINE IsLeast(x) == \A y \in S : x <= y
<1>1. IsLeast(n)
  OBVIOUS
<1>2. Min(S) = CHOOSE x \in S : IsLeast(x)
  BY DEF Min
<1> HIDE DEF IsLeast
<1> DEFINE least == Min(S)
<1>3. least \in S /\ IsLeast(least)
  BY <1>1, <1>2
<1> HIDE DEF least
<1>4. least <= n /\ n <= least
  BY <1>3 DEF IsLeast
<1>5. least = n
  BY <1>3, <1>4
<1> QED
  BY <1>5 DEF least

(* collect_source_event_ids names every cited or recent report once.  The     *)
(* first mention of a cited report is in the evidence of the first risk that  *)
(* cites it, so evidence comes in the risks' order and before the rest.       *)
LEMMA SourcesRead ==
  ASSUME NEW P, Readable(P), NEW risks, Len(risks) \in Nat,
         DOMAIN risks = 1 .. Len(risks),
         \A i \in DOMAIN risks : risks[i].cites \in SUBSET P
  PROVE  LET sources   == SourceEventIds(risks, RecentEvents(P))
             citing(e) == {i \in DOMAIN risks : e \in risks[i].cites}
         IN /\ IsInjective(sources)
            /\ Len(sources) \in Nat /\ DOMAIN sources = 1 .. Len(sources)
            /\ Range(sources) \subseteq P
            /\ \A e \in P \ Range(sources) :
                 citing(e) = {} /\ e \notin Range(RecentEvents(P))
            /\ \A i, j \in DOMAIN sources :
                 i < j /\ citing(sources[j]) # {} =>
                   /\ citing(sources[i]) # {}
                   /\ Min(citing(sources[i])) <= Min(citing(sources[j]))
<1> DEFINE n == Len(risks)
           recent == RecentEvents(P)
           lists == IdLists(risks, recent)
           sources == SourceEventIds(risks, recent)
           citing(e) == {i \in DOMAIN risks : e \in risks[i].cites}
<1>1. /\ Named(lists, n + 1, P)
      /\ \A i \in 1 .. n : Range(lists[i]) = risks[i].cites
      /\ lists[n + 1] = recent
  BY BriefLists
<1>2. sources = ReadOut(lists, FirstMentions(lists))
  BY DEF SourceEventIds, FirstMentions
<1>3. \A e : citing(e) \in SUBSET (1 .. n) /\ \A i \in 1 .. n : i \in citing(e) <=> e \in risks[i].cites
  OBVIOUS
<1> HIDE DEF lists, sources, recent, citing
<1>4. /\ IsInjective(sources)
      /\ Len(sources) \in Nat /\ DOMAIN sources = 1 .. Len(sources)
      /\ Range(sources) = {Mentioned(lists, m) : m \in Mentions(lists)}
  BY <1>1, <1>2, ReadOnce
<1>5. PICK read \in [DOMAIN sources -> FirstMentions(lists)] :
        /\ \A k \in DOMAIN sources : sources[k] = Mentioned(lists, read[k])
        /\ \A i, j \in DOMAIN sources : i < j => read[i][1] <= read[j][1]
  BY <1>1, <1>2, ReadOnce
<1>6. /\ \A m \in Mentions(lists) :
           m[1] \in 1 .. (n + 1) /\ m[2] \in DOMAIN lists[m[1]] /\ Mentioned(lists, m) \in P
      /\ \A i \in 1 .. (n + 1) : \A k \in DOMAIN lists[i] : <<i, k>> \in Mentions(lists)
      /\ Mentions(lists) \in SUBSET Mention
  BY <1>1, MentionsFinite
<1>7. ASSUME NEW i \in 1 .. (n + 1), NEW e \in Range(lists[i])
      PROVE  \E m \in Mentions(lists) : m[1] = i /\ Mentioned(lists, m) = e
  <2>1. PICK k \in DOMAIN lists[i] : lists[i][k] = e
    BY DEF Range
  <2>2. <<i, k>> \in Mentions(lists) /\ <<i, k>>[1] = i /\ Mentioned(lists, <<i, k>>) = e
    BY <1>6, <2>1 DEF Mentioned
  <2> QED
    BY <2>2
<1>8. ASSUME NEW e \in P, e \notin Range(sources)
      PROVE  citing(e) = {} /\ e \notin Range(recent)
  <2>1. \A i \in 1 .. (n + 1) : e \notin Range(lists[i])
    BY <1>4, <1>7, <1>8
  <2>2. \A i \in 1 .. n : i \in 1 .. (n + 1)
    OBVIOUS
  <2>3. n + 1 \in 1 .. (n + 1)
    OBVIOUS
  <2> QED
    BY <1>1, <1>3, <2>1, <2>2, <2>3
<1>9. ASSUME NEW k \in DOMAIN sources
      PROVE  /\ read[k][1] \in 1 .. (n + 1)
             /\ \A i \in citing(sources[k]) : read[k][1] <= i
             /\ read[k][1] \in 1 .. n => read[k][1] \in citing(sources[k])
  <2> DEFINE f == read[k]
  <2>1. /\ f \in FirstMentions(lists) /\ f \in Mentions(lists) /\ f \in Mention
        /\ Mentioned(lists, f) = sources[k]
    BY <1>5, <1>6 DEF FirstMentions
  <2> HIDE DEF f
  <2>2. f[1] \in 1 .. (n + 1) /\ f[1] \in Nat /\ f[2] \in DOMAIN lists[f[1]]
    BY <1>6, <2>1
  <2>3. ASSUME NEW i \in citing(sources[k]) PROVE f[1] <= i
    <3>1. i \in 1 .. n /\ i \in 1 .. (n + 1) /\ sources[k] \in Range(lists[i])
      BY <1>1, <1>3
    <3>2. PICK m \in Mentions(lists) : m[1] = i /\ Mentioned(lists, m) = sources[k]
      BY <1>7, <3>1
    <3>3. m = f \/ Lexicographic(f, m)
      BY <2>1, <3>2 DEF FirstMentions
    <3>4. m \in Mention
      BY <1>6
    <3>5. Lexicographic(f, m) => f[1] < m[1] \/ f[1] = m[1]
      BY <2>1, <3>4, MentionsCompare
    <3> QED
      BY <2>2, <3>1, <3>2, <3>3, <3>5
  <2>4. ASSUME f[1] \in 1 .. n PROVE f[1] \in citing(sources[k])
    <3>1. sources[k] \in Range(lists[f[1]])
      BY <2>1, <2>2 DEF Mentioned, Range
    <3> QED
      BY <1>1, <1>3, <2>4, <3>1
  <2> QED
    BY <2>2, <2>3, <2>4 DEF f
<1>10. ASSUME NEW k \in DOMAIN sources, read[k][1] <= n
       PROVE  citing(sources[k]) # {} /\ Min(citing(sources[k])) = read[k][1]
  <2>1. read[k][1] \in 1 .. n
    BY <1>9, <1>10
  <2>2. read[k][1] \in citing(sources[k]) /\ \A i \in citing(sources[k]) : read[k][1] <= i
    BY <1>9, <2>1
  <2>3. citing(sources[k]) \in SUBSET Nat
    BY <1>3
  <2> QED
    BY <2>2, <2>3, MinIsLeast
<1>11. ASSUME NEW i \in DOMAIN sources, NEW j \in DOMAIN sources, i < j,
              citing(sources[j]) # {}
       PROVE  /\ citing(sources[i]) # {}
              /\ Min(citing(sources[i])) <= Min(citing(sources[j]))
  <2>1. read[i][1] <= read[j][1] /\ read[i][1] \in Nat /\ read[j][1] \in Nat
    BY <1>5, <1>9, <1>11
  <2>2. read[j][1] <= n
    <3>1. PICK l \in citing(sources[j]) : TRUE
      BY <1>11
    <3> QED
      BY <1>3, <1>9, <2>1, <3>1
  <2>3. read[i][1] <= n
    BY <2>1, <2>2
  <2> QED
    BY <1>10, <2>1, <2>2, <2>3
<1>12. Range(sources) \subseteq P
  BY <1>4, <1>6
<1> QED
  BY <1>4, <1>8, <1>11, <1>12 DEF sources, recent, citing

(* An audit of ids that are all resolved reports none missing. *)
LEMMA NothingMissing ==
  ASSUME NEW ids, Len(ids) \in Nat, DOMAIN ids = 1 .. Len(ids),
         NEW events, Range(ids) \subseteq events
  PROVE  MissingEventIds(References(ids, events)) = <<>>
<1> DEFINE refs == References(ids, events)
           T == {k \in DOMAIN refs : ~refs[k].resolved}
           unresolved == Kept(refs, LAMBDA r : ~r.resolved)
<1>1. DOMAIN refs = 1 .. Len(ids) /\ \A k \in DOMAIN refs : refs[k].resolved
  BY DEF References, Range
<1> HIDE DEF refs
<1>2. T = {} /\ T \in SUBSET (1 .. Len(ids))
  BY <1>1
<1>3. unresolved = AtPlaces(refs, T)
  BY DEF Kept, AtPlaces
<1> HIDE DEF T, unresolved
<1>4. unresolved = <<>>
  BY <1>2, <1>3, KeptAtPlaces
<1>5. MissingEventIds(refs) = [i \in DOMAIN unresolved |-> unresolved[i].event]
  BY DEF MissingEventIds, unresolved
<1> QED
  BY <1>4, <1>5 DEF refs
(* An incident that cites stored reports, oldest first, has a timeline of all *)
(* of them in that order, and its summary's audit finds nothing wanting.      *)
LEMMA TimelineComplete ==
  ASSUME NEW P, Readable(P), NEW cites \in SUBSET P, cites # {},
         NEW incident, incident.event_ids = OldestFirst(cites),
         NEW events, P \subseteq events
  PROVE  LET timeline == Timeline(incident, events)
             audit    == SummaryAudit(Summary(incident, events))
         IN /\ timeline.entries = OldestFirst(cites)
            /\ timeline.missing_event_ids = <<>>
            /\ audit.source_event_ids = OldestFirst(cites)
            /\ audit.missing_event_ids = <<>> /\ audit.warning_codes = {}
<1> DEFINE ids == OldestFirst(cites)
           n == Len(ids)
           found == {k \in DOMAIN ids : ids[k] \in events}
           lost == {k \in DOMAIN ids : ids[k] \notin events}
           resolved == Resolved(incident, events)
           timeline == Timeline(incident, events)
           summary == Summary(incident, events)
<1>1. ids \in Seq(P) /\ Range(ids) = cites
  BY EvidenceNamed
<1>2. /\ resolved.events = AtPlaces(ids, found)
      /\ resolved.missing = AtPlaces(ids, lost)
  BY DEF Resolved, Kept, AtPlaces
<1>3. incident.event_ids = ids
  OBVIOUS
<1> HIDE DEF ids
<1>4. n \in Nat /\ DOMAIN ids = 1 .. n /\ \A k \in 1 .. n : ids[k] \in events
  BY <1>1
<1> HIDE DEF n
<1>5. lost = {} /\ lost \in SUBSET (1 .. n) /\ found = 1 .. n /\ found \in SUBSET (1 .. n)
  BY <1>4
<1> HIDE DEF lost, found
<1>6. /\ Range(AtPlaces(ids, found)) = {ids[i] : i \in found}
      /\ AtPlaces(ids, lost) = <<>>
  BY <1>4, <1>5, KeptAtPlaces
<1>7. Range(resolved.events) = cites /\ resolved.missing = <<>>
  <2>1. {ids[i] : i \in found} = cites
    BY <1>1, <1>4, <1>5 DEF Range
  <2> QED
    BY <1>2, <1>6, <2>1
<1>8. /\ timeline.entries = OldestFirst(Range(resolved.events))
      /\ timeline.missing_event_ids = resolved.missing
  BY DEF Timeline
<1> HIDE DEF resolved
<1>9. timeline.entries = ids /\ timeline.missing_event_ids = <<>>
  BY <1>7, <1>8 DEF ids
<1>10. ids # <<>>
  <2>1. PICK e \in cites : TRUE
    OBVIOUS
  <2>2. \E i \in DOMAIN ids : ids[i] = e
    BY <1>1 DEF Range
  <2> QED
    BY <2>2
<1>11. /\ summary.source_event_ids = incident.event_ids
       /\ summary.references = References(incident.event_ids, events)
       /\ summary.warnings =
            {w \in {"missing_events", "no_timeline"} :
               CASE w = "missing_events" -> timeline.missing_event_ids # <<>>
                 [] w = "no_timeline"    -> timeline.entries = <<>>}
  BY DEF Summary
<1> HIDE DEF timeline, summary
<1>12. summary.warnings = {}
  BY <1>9, <1>10, <1>11
<1>13. MissingEventIds(References(ids, events)) = <<>>
  <2>1. Len(ids) \in Nat /\ DOMAIN ids = 1 .. Len(ids) /\ Range(ids) \subseteq events
    BY <1>1
  <2> QED
    BY <2>1, NothingMissing
<1> DEFINE audit == SummaryAudit(summary)
<1>14. /\ audit.source_event_ids = summary.source_event_ids
       /\ audit.missing_event_ids = MissingEventIds(summary.references)
       /\ audit.warning_codes = summary.warnings
  BY DEF SummaryAudit, Audit
<1> HIDE DEF audit
<1>15. /\ audit.source_event_ids = ids /\ audit.missing_event_ids = <<>>
       /\ audit.warning_codes = {}
  BY <1>3, <1>11, <1>12, <1>13, <1>14
<1> QED
  BY <1>9, <1>15 DEF timeline, summary, audit, ids

-----------------------------------------------------------------------------
(* The risks of a brief and of a declaration are the listed ones: each once,  *)
(* citing reports that have occurred, however many there are.                 *)
LEMMA ListedRisks ==
  ASSUME PInv
  PROVE  LET risks == Prioritize(Risks)
         IN /\ Readable(Present) /\ Present \subseteq stored
            /\ Detected(Present, now) = Risks
            /\ Len(risks) = Cardinality(Risks) /\ Len(risks) \in Nat
            /\ DOMAIN risks = 1 .. Len(risks)
            /\ \A i \in DOMAIN risks : risks[i] \in Risks
            /\ \A r \in Risks : \E i \in DOMAIN risks : risks[i] = r
            /\ \A r \in Risks :
                 /\ r.cites # {} /\ r.cites \in SUBSET Present
                 /\ r.severity \in {"medium", "high", "critical"}
<1> DEFINE risks == Prioritize(Risks)
<1>1. Readable(Present) /\ Present \subseteq stored
  BY HistoryReadable DEF Present, OccurredBy
<1>2. Detected(Present, now) = Risks
  <2>1. OccurredBy(Present, now) = Present
    BY DEF Present, OccurredBy
  <2> QED
    BY <2>1, PictureOfRisks DEF Detected
<1>3. Risks = RisksOf(Present, now)
  BY PictureOfRisks DEF RisksOf
<1>4. Lists(risks, Risks, Urgency(Risks)) /\ DOMAIN risks = 1 .. Len(risks)
  BY <1>1, <1>3, PrioritizeOrders
<1>5. DOMAIN risks = 1 .. Cardinality(Risks)
  BY DEF Prioritize, SortedBy
<1>6. Cardinality(Risks) \in Nat
  BY <1>1, <1>3, RisksFinite, FS_CardinalityType
<1>7. \A r \in Risks :
        /\ r.cites # {} /\ r.cites \in SUBSET Present
        /\ r.severity \in {"medium", "high", "critical"}
  BY <1>1, <1>3, RiskCites
<1> HIDE DEF risks
<1>8. Len(risks) = Cardinality(Risks) /\ Len(risks) \in Nat
  BY <1>4, <1>5, <1>6 DEF Lists
<1>9. /\ \A i \in DOMAIN risks : risks[i] \in Risks
      /\ \A r \in Risks : \E i \in DOMAIN risks : risks[i] = r
  BY <1>4 DEF Lists
<1> QED
  BY <1>1, <1>2, <1>4, <1>7, <1>8, <1>9 DEF risks

(* A brief accounts for every report that has occurred: risks' evidence first *)
(* and in their order, each report once, all resolved; what is left out is    *)
(* older than the recent view, no evidence, and owned up to by a warning      *)
(* (build_brief_context, collect_source_event_ids, audit_daily_brief).        *)
THEOREM BriefAccounts == Spec => []SourcesAccounted
<1>1. ASSUME PInv PROVE SourcesAccounted
  <2> DEFINE risks == Prioritize(Risks)
             recent == RecentEvents(Present)
             sources == SourceEventIds(risks, recent)
             brief == Brief(stored, now)
             audit == Audit(brief)
             citing(e) == {i \in DOMAIN risks : e \in risks[i].cites}
  <2>1. /\ Readable(Present) /\ Detected(Present, now) = Risks
        /\ Len(risks) \in Nat /\ DOMAIN risks = 1 .. Len(risks)
        /\ \A i \in DOMAIN risks : risks[i].cites \in SUBSET Present
    BY <1>1, ListedRisks
  <2>2. brief = Context(Present, risks, recent, sources)
    BY <2>1 DEF Brief, BriefOver, Present
  <2>3. /\ brief.risks = risks /\ brief.recent_events = recent
        /\ brief.source_event_ids = sources
        /\ brief.references = References(sources, Present)
        /\ brief.warnings = Warnings(Cardinality(Present), risks, Len(recent))
    BY <2>2 DEF Context
  <2> HIDE DEF risks
  <2>4. /\ IsInjective(sources)
        /\ Len(sources) \in Nat /\ DOMAIN sources = 1 .. Len(sources)
        /\ Range(sources) \subseteq Present
        /\ \A e \in Present \ Range(sources) : citing(e) = {} /\ e \notin Range(recent)
        /\ \A i, j \in DOMAIN sources :
             i < j /\ citing(sources[j]) # {} =>
               /\ citing(sources[i]) # {}
               /\ Min(citing(sources[i])) <= Min(citing(sources[j]))
    BY <2>1, SourcesRead
  <2> HIDE DEF sources
  <2>5. \A e \in Present \ Range(recent) :
          Len(recent) < Cardinality(Present) /\ \A r \in Range(recent) : Newer(r, e)
    BY <2>1, RecentView
  <2> HIDE DEF recent, brief
  <2>6. /\ audit.missing_event_ids = MissingEventIds(brief.references)
        /\ audit.warning_codes = brief.warnings
    BY DEF Audit
  <2> HIDE DEF audit
  <2>7. audit.missing_event_ids = <<>>
    <3>1. MissingEventIds(References(sources, Present)) = <<>>
      BY <2>4, NothingMissing
    <3> QED
      BY <2>3, <2>6, <3>1
  <2>8. ASSUME NEW e \in Present \ Range(sources)
        PROVE  "events_omitted" \in audit.warning_codes
    <3>1. Len(recent) < Cardinality(Present)
      BY <2>4, <2>5
    <3>2. Cardinality(Present) # 0
      BY <2>1, FS_EmptySet DEF Readable
    <3> DEFINE count == Cardinality(Present)
               shown == Len(recent)
    <3>3. audit.warning_codes = Warnings(count, risks, shown)
      BY <2>3, <2>6
    <3> HIDE DEF count, shown
    <3> QED
      BY <3>1, <3>2, <3>3 DEF Warnings, count, shown
  <2> DEFINE cited(e) == {i \in DOMAIN brief.risks : e \in brief.risks[i].cites}
  <2>9. \A e : citing(e) = cited(e)
    BY <2>3
  <2> HIDE DEF citing, cited
  <2>10. \A i, j \in DOMAIN sources :
           i < j /\ cited(sources[j]) # {} =>
             /\ cited(sources[i]) # {}
             /\ Min(cited(sources[i])) <= Min(cited(sources[j]))
    BY <2>4, <2>9
  <2>11. \A e \in Present \ Range(sources) :
           /\ cited(e) = {}
           /\ \A r \in Range(brief.recent_events) : Newer(r, e)
           /\ "events_omitted" \in audit.warning_codes
    BY <2>3, <2>4, <2>5, <2>8, <2>9
  <2>12. AccountsFor(brief, audit, Present)
    <3>1. brief.source_event_ids = sources
      BY <2>3
    <3> QED
      BY <2>4, <2>7, <2>10, <2>11, <3>1 DEF AccountsFor, cited
  <2>13. AccountsFor(Brief(stored, now), Audit(Brief(stored, now)), Present)
    BY <2>12 DEF brief, audit
  <2> QED
    BY <2>13, Zenon DEF SourcesAccounted
<1> QED
  BY <1>1, PInvInit, PInvNext, PTL DEF Spec

(* Opening incidents from events is all or nothing, and what is opened        *)
(* carries exactly its risk: the timeline over the stored events is the       *)
(* risk's evidence, complete, as is what the audit of its summary names       *)
(* (declare_incidents_from_events, build_incident_timeline).                  *)
THEOREM DeclarationsCarry == Spec => []DeclarationsCarryTheirRisk
<1>1. ASSUME PInv PROVE DeclarationsCarryTheirRisk
  <2> DEFINE risks == Prioritize(Risks)
             actions == NextActions(risks)
             declared == DeclareAll(risks)
  <2>1. /\ Readable(Present) /\ Present \subseteq stored
        /\ Detected(Present, now) = Risks
        /\ Len(risks) = Cardinality(Risks) /\ Len(risks) \in Nat
        /\ DOMAIN risks = 1 .. Len(risks)
        /\ \A i \in DOMAIN risks : risks[i] \in Risks
        /\ \A r \in Risks : \E i \in DOMAIN risks : risks[i] = r
        /\ \A r \in Risks :
             /\ r.cites # {} /\ r.cites \in SUBSET Present
             /\ r.severity \in {"medium", "high", "critical"}
    BY <1>1, ListedRisks
  <2>2. Declared(stored, now) = declared
    BY DEF Declared, Risks
  <2>3. Brief(stored, now).next_actions = actions
    BY <2>1 DEF Brief, BriefOver, Context, Present
  <2> SUFFICES DeclaredLike(declared, actions, Risks)
    BY <2>2, <2>3 DEF DeclarationsCarryTheirRisk
  <2> HIDE DEF risks
  <2>4. CASE \E r \in Risks : Cardinality(r.cites) > MaxEvidence
    <3>1. \E i \in DOMAIN risks : Refuses(risks[i])
      BY <2>1, <2>4 DEF Refuses
    <3>2. declared.outcome # "ok" /\ declared.incidents = <<>>
      BY <3>1 DEF DeclareAll
    <3> QED
      BY <2>4, <3>2 DEF DeclaredLike
  <2>5. CASE ~\E r \in Risks : Cardinality(r.cites) > MaxEvidence
    <3>1. ~\E i \in DOMAIN risks : Refuses(risks[i])
      BY <2>1, <2>5 DEF Refuses
    <3>2. declared.incidents = [i \in DOMAIN risks |-> DeclareFrom(risks[i])]
      BY <3>1 DEF DeclareAll
    <3>3. DOMAIN actions = 1 .. Len(risks)
      BY <2>1 DEF NextActions
    <3>4. Len(declared.incidents) = Len(risks) /\ Len(actions) = Len(risks)
      BY <2>1, <3>2, <3>3
    <3>5. ASSUME NEW i \in 1 .. Len(risks)
          PROVE  CarriesRisk(declared.incidents[i], actions[i], Risks)
      <4> DEFINE risk == risks[i]
                 cites == risk.cites
                 incident == declared.incidents[i]
                 action == actions[i]
                 timeline == Timeline(incident, stored)
                 audit == SummaryAudit(Summary(incident, stored))
      <4>1. /\ risk \in Risks /\ cites # {} /\ cites \in SUBSET Present
            /\ risk.severity \in {"medium", "high", "critical"}
        BY <2>1
      <4>2. /\ incident.event_ids = OldestFirst(cites)
            /\ incident.severity = RiskToIncidentSeverity[risk.severity]
        BY <2>1, <3>2 DEF DeclareFrom, EventIds
      <4>3. action.rule = risk.rule /\ action.event_ids = OldestFirst(cites)
        BY <2>1 DEF NextActions, EventIds
      <4> HIDE DEF incident, action, risk
      <4>4. incident.severity = risk.severity
        BY <4>1, <4>2 DEF RiskToIncidentSeverity
      <4>5. /\ timeline.entries = OldestFirst(cites)
            /\ timeline.missing_event_ids = <<>>
            /\ audit.source_event_ids = OldestFirst(cites)
            /\ audit.missing_event_ids = <<>> /\ audit.warning_codes = {}
        BY <2>1, <4>1, <4>2, TimelineComplete
      <4>6. Range(OldestFirst(cites)) = cites
        BY <2>1, <4>1, EvidenceNamed
      <4> HIDE DEF timeline, audit
      <4>7. \E r \in Risks : /\ r.cites = cites /\ r.rule = action.rule
                            /\ Weight(incident.severity) = Weight(r.severity)
        BY <4>1, <4>3, <4>4
      <4>8. CarriesRisk(incident, action, Risks)
        BY <4>1, <4>3, <4>5, <4>6, <4>7 DEF CarriesRisk, timeline, audit
      <4> QED
        BY <4>8 DEF incident, action
    <3> HIDE DEF actions, declared
    <3>6. /\ Len(declared.incidents) = Cardinality(Risks)
          /\ Len(actions) = Len(declared.incidents)
          /\ \A i \in DOMAIN actions : CarriesRisk(declared.incidents[i], actions[i], Risks)
      BY <2>1, <3>3, <3>4, <3>5
    <3> QED
      BY <2>5, <3>6 DEF DeclaredLike
  <2> QED
    BY <2>4, <2>5
<1> QED
  BY <1>1, PInvInit, PInvNext, PTL DEF Spec
=============================================================================
