----------------------------- MODULE GenerationProofs -----------------------------
(*****************************************************************************)
(* What a generation promises, for any picture, lengths, budget and set of   *)
(* excluded names.  The inductive invariant is                               *)
(*                                                                           *)
(*   Filling     how far the document is filled and what has been used       *)
(*   Settled     what the warnings and the outcome say of the filling        *)
(*                                                                           *)
(* Lengths are added up by Upto, a recursive function: that it has the sums  *)
(* it is meant to have is proved first.                                      *)
(*****************************************************************************)
EXTENDS Generation, FiniteSetTheorems, SequenceTheorems, Numbers, TLAPS

(* f has the sums of the first m numbers of s. *)
Adds(s, f, m) == f[0] = 0 /\ \A n \in 1 .. m : f[n] = f[n - 1] + s[n]
Sums(s, f, m) == f \in [0 .. m -> Int] /\ Adds(s, f, m)

(* Sums that begin alike and go on alike are alike. *)
LEMMA SumsAgree ==
  ASSUME NEW m \in Nat, NEW s, NEW t, NEW f, NEW g, Adds(s, f, m), Adds(t, g, m),
         \A n \in 1 .. m : s[n] = t[n]
  PROVE  \A n \in 0 .. m : f[n] = g[n]
<1> DEFINE off == {n \in 0 .. m : f[n] # g[n]}
<1> SUFFICES ASSUME off # {} PROVE FALSE
  OBVIOUS
<1>1. off \in SUBSET Nat
  OBVIOUS
<1> HIDE DEF off
<1>2. PICK n \in off : \A o \in off : n <= o
  BY <1>1, Least
<1>3. n \in 0 .. m /\ f[n] # g[n] /\ n # 0
  BY DEF off, Adds
<1>4. n - 1 \in 0 .. m /\ n - 1 \notin off /\ n \in 1 .. m
  BY <1>2, <1>3
<1>5. f[n - 1] = g[n - 1]
  BY <1>4 DEF off
<1> QED
  BY <1>3, <1>4, <1>5 DEF Adds

(* Every sequence of numbers has its sums. *)
LEMMA SumsExist ==
  ASSUME NEW s \in Seq(Int)
  PROVE  \A m \in 0 .. Len(s) : \E f : Sums(s, f, m)
<1>1. Len(s) \in Nat /\ \A n \in 1 .. Len(s) : s[n] \in Int
  OBVIOUS
<1> DEFINE without == {m \in 0 .. Len(s) : ~ \E f : Sums(s, f, m)}
<1> SUFFICES ASSUME without # {} PROVE FALSE
  OBVIOUS
<1>2. without \in SUBSET Nat
  BY <1>1
<1> HIDE DEF without
<1>3. PICK m \in without : \A n \in without : m <= n
  BY <1>2, Least
<1>4. m \in 0 .. Len(s) /\ ~ \E f : Sums(s, f, m)
  BY DEF without
<1>5. m # 0
  <2> SUFFICES ASSUME m = 0 PROVE FALSE
    OBVIOUS
  <2>1. Sums(s, [n \in 0 .. 0 |-> 0], 0)
    BY DEF Sums, Adds
  <2> QED
    BY <1>4, <2>1
<1>6. m - 1 \in 0 .. Len(s) /\ m - 1 \notin without /\ m \in Nat
  BY <1>1, <1>3, <1>4, <1>5
<1>7. PICK f : Sums(s, f, m - 1)
  BY <1>6 DEF without
<1> DEFINE g == [n \in 0 .. m |-> IF n < m THEN f[n] ELSE f[m - 1] + s[m]]
<1>8. Sums(s, g, m)
  <2>1. s[m] \in Int /\ m - 1 \in 0 .. (m - 1) /\ m \in 1 .. Len(s)
    BY <1>1, <1>4, <1>5, <1>6
  <2>2. f \in [0 .. (m - 1) -> Int] /\ f[0] = 0 /\ \A n \in 1 .. (m - 1) : f[n] = f[n - 1] + s[n]
    BY <1>7 DEF Sums, Adds
  <2>3. g \in [0 .. m -> Int] /\ g[0] = 0
    BY <1>5, <1>6, <2>1, <2>2
  <2>4. ASSUME NEW n \in 1 .. m PROVE g[n] = g[n - 1] + s[n]
    <3>1. /\ n \in 0 .. m /\ n - 1 \in 0 .. m /\ n - 1 < m
          /\ n = m \/ (n < m /\ n \in 1 .. (m - 1))
      BY <1>6
    <3>2. g[n - 1] = f[n - 1]
      BY <3>1
    <3>3. CASE n = m
      BY <3>1, <3>2, <3>3
    <3>4. CASE n < m /\ n \in 1 .. (m - 1)
      <4>1. g[n] = f[n]
        BY <3>1, <3>4
      <4> QED
        BY <2>2, <3>2, <3>4, <4>1
    <3> QED
      BY <3>1, <3>3, <3>4
  <2> QED
    BY <2>3, <2>4 DEF Sums, Adds
<1> QED
  BY <1>4, <1>8

(* Upto has them. *)
LEMMA UptoDefined ==
  ASSUME NEW s \in Seq(Int)
  PROVE  Sums(s, Upto(s), Len(s))
<1> DEFINE Body(f) == [n \in 0 .. Len(s) |-> IF n = 0 THEN 0 ELSE f[n - 1] + s[n]]
<1>1. Len(s) \in Nat /\ \A n \in 1 .. Len(s) : s[n] \in Int
  OBVIOUS
<1>2. PICK f : Sums(s, f, Len(s))
  BY <1>1, SumsExist
<1>3. f = Body(f)
  BY <1>1, <1>2 DEF Sums, Adds
<1>4. Upto(s) = CHOOSE g : g = Body(g)
  BY DEF Upto
<1>5. Upto(s) = Body(Upto(s))
  BY <1>3, <1>4
<1> DEFINE u == Upto(s)
<1> HIDE DEF u
<1>6. DOMAIN u = 0 .. Len(s) /\ u[0] = 0 /\ \A n \in 1 .. Len(s) : u[n] = u[n - 1] + s[n]
  <2>1. u = [n \in 0 .. Len(s) |-> IF n = 0 THEN 0 ELSE u[n - 1] + s[n]]
    BY <1>5 DEF u
  <2>2. 0 \in 0 .. Len(s) /\ \A n \in 1 .. Len(s) : n \in 0 .. Len(s) /\ n # 0
    BY <1>1
  <2>3. DOMAIN u = 0 .. Len(s) /\ u[0] = 0
    BY <2>1, <2>2
  <2>4. ASSUME NEW n \in 1 .. Len(s) PROVE u[n] = u[n - 1] + s[n]
    BY <2>1, <2>2
  <2> QED
    BY <2>3, <2>4
<1>7. \A n \in 0 .. Len(s) : u[n] = f[n]
  <2>1. Adds(s, u, Len(s)) /\ Adds(s, f, Len(s))
    BY <1>2, <1>6 DEF Sums, Adds
  <2> QED
    BY <1>1, <2>1, SumsAgree
<1>8. u \in [0 .. Len(s) -> Int]
  <2>1. f \in [0 .. Len(s) -> Int]
    BY <1>2 DEF Sums, Adds
  <2>2. \A n \in 0 .. Len(s) : u[n] \in Int
    BY <1>7, <2>1
  <2>3. u = [n \in 0 .. Len(s) |-> u[n]]
    BY <1>5, <1>6 DEF u
  <2> QED
    BY <2>2, <2>3
<1> QED
  BY <1>6, <1>8 DEF Sums, Adds, u

-----------------------------------------------------------------------------
(* A total is an integer, that of nothing is 0, and the partial sums are its  *)
(* parts.                                                                     *)
LEMMA TotalFacts ==
  ASSUME NEW s \in Seq(Int)
  PROVE  /\ Total(s) \in Int
         /\ Len(s) = 0 => Total(s) = 0
         /\ \A n \in 0 .. Len(s) : Upto(s)[n] \in Int
         /\ Upto(s)[0] = 0
         /\ \A n \in 1 .. Len(s) : Upto(s)[n] = Upto(s)[n - 1] + s[n]
<1>1. Len(s) \in Nat
  OBVIOUS
<1>2. /\ Upto(s) \in [0 .. Len(s) -> Int] /\ Upto(s)[0] = 0
      /\ \A n \in 1 .. Len(s) : Upto(s)[n] = Upto(s)[n - 1] + s[n]
  BY UptoDefined DEF Sums, Adds
<1>3. \A n \in 0 .. Len(s) : Upto(s)[n] \in Int
  BY <1>2
<1>4. Len(s) \in 0 .. Len(s) /\ Total(s) = Upto(s)[Len(s)]
  BY <1>1 DEF Total
<1> QED
  BY <1>2, <1>3, <1>4

(* One number more adds itself. *)
LEMMA TotalMore ==
  ASSUME NEW s \in Seq(Int), NEW t \in Seq(Int), Len(t) = Len(s) + 1,
         \A n \in 1 .. Len(s) : t[n] = s[n]
  PROVE  Total(t) = Total(s) + t[Len(t)]
<1>1. Len(s) \in Nat /\ Len(t) \in Nat
  OBVIOUS
<1>2. /\ Upto(s)[0] = 0 /\ \A n \in 1 .. Len(s) : Upto(s)[n] = Upto(s)[n - 1] + s[n]
      /\ Upto(t)[0] = 0 /\ \A n \in 1 .. Len(t) : Upto(t)[n] = Upto(t)[n - 1] + t[n]
  BY TotalFacts
<1>3. \A n \in 1 .. Len(s) : n \in 1 .. Len(t)
  BY <1>1
<1>4. \A n \in 0 .. Len(s) : Upto(t)[n] = Upto(s)[n]
  <2> DEFINE u == Upto(t)
             v == Upto(s)
  <2>1. Adds(t, u, Len(s)) /\ Adds(s, v, Len(s)) /\ \A n \in 1 .. Len(s) : t[n] = s[n]
    BY <1>2, <1>3 DEF Adds
  <2> HIDE DEF u, v
  <2>2. \A n \in 0 .. Len(s) : u[n] = v[n]
    BY <1>1, <2>1, SumsAgree, SMTT(30)
  <2> QED
    BY <2>2 DEF u, v
<1>5. Len(t) - 1 = Len(s) /\ Len(t) \in 1 .. Len(t) /\ Len(s) \in 0 .. Len(s)
  BY <1>1
<1> QED
  BY <1>2, <1>4, <1>5 DEF Total

(* Sums of naturals only grow. *)
LEMMA SumsGrow ==
  ASSUME NEW s \in Seq(Nat)
  PROVE  /\ \A n \in 0 .. Len(s) : Upto(s)[n] \in Nat /\ Upto(s)[n] <= Total(s)
         /\ Total(s) \in Nat
<1>1. Len(s) \in Nat /\ s \in Seq(Int) /\ \A n \in 1 .. Len(s) : s[n] \in Nat
  OBVIOUS
<1>2. /\ \A n \in 0 .. Len(s) : Upto(s)[n] \in Int
      /\ Upto(s)[0] = 0
      /\ \A n \in 1 .. Len(s) : Upto(s)[n] = Upto(s)[n - 1] + s[n]
  BY <1>1, TotalFacts
<1>3. \A n \in 0 .. Len(s) : Upto(s)[n] \in Nat
  <2> DEFINE low == {n \in 0 .. Len(s) : Upto(s)[n] \notin Nat}
  <2> SUFFICES ASSUME low # {} PROVE FALSE
    OBVIOUS
  <2>1. low \in SUBSET Nat
    BY <1>1
  <2> HIDE DEF low
  <2>2. PICK n \in low : \A o \in low : n <= o
    BY <2>1, Least
  <2>3. n \in 0 .. Len(s) /\ Upto(s)[n] \notin Nat /\ n # 0
    BY <1>2 DEF low
  <2>4. n - 1 \in 0 .. Len(s) /\ n - 1 \notin low /\ n \in 1 .. Len(s)
    BY <1>1, <2>2, <2>3
  <2>5. Upto(s)[n - 1] \in Nat
    BY <2>4 DEF low
  <2> QED
    BY <1>1, <1>2, <2>3, <2>4, <2>5, SMTT(30)
<1> DEFINE u == Upto(s)
           m == Len(s)
<1>4. /\ m \in Nat /\ \A n \in 0 .. m : u[n] \in Nat
      /\ \A n \in 1 .. m : u[n] = u[n - 1] + s[n] /\ s[n] \in Nat
  BY <1>1, <1>2, <1>3
<1> HIDE DEF u, m
<1>5. \A n \in 0 .. m : u[n] <= u[m]
  <2> DEFINE high == {n \in 1 .. m : u[n - 1] > u[m]}
  <2>1. high = {}
    <3> SUFFICES ASSUME high # {} PROVE FALSE
      OBVIOUS
    <3>1. high \in SUBSET (1 .. m)
      OBVIOUS
    <3> HIDE DEF high
    <3>2. PICK n \in high : \A o \in high : o <= n
      BY <1>4, <3>1, Greatest
    <3>3. n \in 1 .. m /\ u[n - 1] > u[m]
      BY DEF high
    <3>4. u[n] = u[n - 1] + s[n] /\ s[n] \in Nat /\ u[n] \in Nat /\ u[n - 1] \in Nat
          /\ u[m] \in Nat
      BY <1>4, <3>3
    <3>5. n # m
      BY <3>3, <3>4
    <3>6. n + 1 \in 1 .. m /\ n + 1 \notin high /\ (n + 1) - 1 = n
      BY <1>4, <3>2, <3>3, <3>5
    <3>7. ~ (u[n] > u[m])
      BY <3>6 DEF high
    <3> QED
      BY <3>3, <3>4, <3>7
  <2>2. ASSUME NEW n \in 0 .. m PROVE u[n] <= u[m]
    <3>1. CASE n = m
      BY <1>4, <3>1
    <3>2. CASE n # m
      <4>1. n + 1 \in 1 .. m /\ (n + 1) - 1 = n
        BY <1>4, <3>2
      <4>2. ~ (u[n] > u[m])
        BY <2>1, <4>1
      <4> QED
        BY <1>4, <4>2
    <3> QED
      BY <3>1, <3>2
  <2> QED
    BY <2>2
<1> QED
  BY <1>3, <1>4, <1>5 DEF Total, u, m

(* Larger numbers have a larger total. *)
LEMMA TotalsOrdered ==
  ASSUME NEW s \in Seq(Int), NEW t \in Seq(Int), Len(s) = Len(t),
         \A n \in 1 .. Len(s) : s[n] <= t[n]
  PROVE  Total(s) <= Total(t)
<1>1. Len(s) \in Nat /\ \A n \in 1 .. Len(s) : s[n] \in Int /\ t[n] \in Int
  OBVIOUS
<1>2. /\ \A n \in 0 .. Len(s) : Upto(s)[n] \in Int /\ Upto(t)[n] \in Int
      /\ Upto(s)[0] = 0 /\ Upto(t)[0] = 0
      /\ \A n \in 1 .. Len(s) : Upto(s)[n] = Upto(s)[n - 1] + s[n]
                                /\ Upto(t)[n] = Upto(t)[n - 1] + t[n]
  BY <1>1, TotalFacts
<1> DEFINE u == Upto(s)
           v == Upto(t)
           m == Len(s)
<1>3. /\ m \in Nat /\ \A n \in 0 .. m : u[n] \in Int /\ v[n] \in Int
      /\ u[0] = 0 /\ v[0] = 0
      /\ \A n \in 1 .. m : /\ u[n] = u[n - 1] + s[n] /\ v[n] = v[n - 1] + t[n]
                           /\ s[n] \in Int /\ t[n] \in Int /\ s[n] <= t[n]
  BY <1>1, <1>2
<1> HIDE DEF u, v, m
<1> DEFINE over == {n \in 0 .. m : u[n] > v[n]}
<1>4. over = {}
  <2> SUFFICES ASSUME over # {} PROVE FALSE
    OBVIOUS
  <2>1. over \in SUBSET Nat
    BY <1>3
  <2> HIDE DEF over
  <2>2. PICK n \in over : \A o \in over : n <= o
    BY <2>1, Least
  <2>3. n \in 0 .. m /\ u[n] > v[n] /\ n # 0
    BY <1>3 DEF over
  <2>4. n - 1 \in 0 .. m /\ n - 1 \notin over /\ n \in 1 .. m
    BY <1>3, <2>2, <2>3
  <2>5. ~ (u[n - 1] > v[n - 1])
    BY <2>4 DEF over
  <2>6. /\ u[n] = u[n - 1] + s[n] /\ v[n] = v[n - 1] + t[n]
        /\ s[n] \in Int /\ t[n] \in Int /\ s[n] <= t[n]
    BY <1>3, <2>4
  <2>7. u[n - 1] \in Int /\ v[n - 1] \in Int
    BY <1>3, <2>4
  <2> QED
    BY <2>3, <2>5, <2>6, <2>7, SMTT(30)
<1>5. u[m] <= v[m]
  BY <1>3, <1>4, SMTT(30)
<1> QED
  BY <1>5 DEF Total, u, v, m

-----------------------------------------------------------------------------
(* What a section's lines and notes cost, and a document's sections in turn. *)
ItemCosts(items) == [i \in DOMAIN items |-> ItemCost(items[i])]
Costs(d) == [i \in DOMAIN d.sections |-> SectionCost(d.sections[i])]
Worsts(d) == [i \in DOMAIN d.sections |-> WorstNote(d.sections[i])]
Openings(d) == [i \in DOMAIN d.sections |-> Opening(d.sections[i])]
Longests(d) == [i \in DOMAIN d.sections |-> LongestNote(d.sections[i])]
Trailer(d) == Per(BlockCost, d.trailer)

(* A document has a section, and none with items when its last has none.      *)
IsDocument(d) ==
  /\ d.preamble \in Nat /\ d.sections \in Seq(Seq(Nat)) /\ d.trailer \in Seq(Nat)
  /\ Len(d.sections) >= 1
  /\ d.sections[Len(d.sections)] = <<>> =>
       \A i \in 1 .. Len(d.sections) : d.sections[i] = <<>>

(* A count has a digit, and none is one digit. *)
LEMMA DigitsCounted ==
  ASSUME NEW n \in Int
  PROVE  Digits(n) \in Nat /\ Digits(n) >= 1 /\ Digits(0) = 1
<1> DEFINE P == {10, 100, 1000, 10000, 100000}
           T(m) == {p \in P : p <= m}
<1>1. \A p \in P : p \in Nat /\ 1 <= p
  BY SMT
<1>2. IsFiniteSet(P)
  <2> DEFINE top == 100000
  <2>1. top \in Int /\ P \subseteq 1 .. top
    BY SMTT(30)
  <2> HIDE DEF top, P
  <2>2. IsFiniteSet(1 .. top)
    BY <2>1, FS_Interval
  <2>3. P \in SUBSET (1 .. top)
    BY <2>1
  <2> QED
    BY <2>2, <2>3, FS_Subset
<1>3. Digits(n) = 1 + Cardinality(T(n)) /\ Digits(0) = 1 + Cardinality(T(0))
  BY SMT DEF Digits
<1> HIDE DEF P
<1>4. IsFiniteSet(T(n)) /\ T(0) = {}
  <2>1. T(0) = {}
    BY <1>1, SMT
  <2>2. T(n) \in SUBSET P
    OBVIOUS
  <2> QED
    BY <1>2, <2>1, <2>2, FS_Subset
<1> DEFINE c == Cardinality(T(n))
           z == Cardinality(T(0))
<1>5. c \in Nat /\ z = 0
  BY <1>4, FS_CardinalityType, FS_EmptySet
<1> HIDE DEF c, z
<1> QED
  BY <1>3, <1>5 DEF c, z

(* Every cost is a number; a section's note is estimated at no more than its  *)
(* longest.                                                                   *)
LEMMA SectionFacts ==
  ASSUME NEW items \in Seq(Nat)
  PROVE  /\ Len(items) \in Nat
         /\ Opening(items) \in Nat
         /\ WorstNote(items) \in Nat /\ LongestNote(items) \in Nat
         /\ WorstNote(items) <= LongestNote(items)
         /\ \A kept \in Nat : NoteCost(kept, Len(items)) \in Nat
<1>1. {HeaderLen, NoneLen, NoteLen} \subseteq Nat /\ Len(items) \in Nat
  BY BudgetAssumption
<1> DEFINE n == Len(items)
<1>2. n \in Int /\ \A kept \in Nat : kept \in Int /\ n - kept \in Int
  BY <1>1
<1>3. \A m \in Int : Digits(m) \in Nat /\ Digits(m) >= 1 /\ Digits(0) = 1
  BY DigitsCounted
<1>4. NoteCost(n, n) = 1 + NoteLen + Digits(0) + Digits(n) + Digits(n)
  <2>1. n - n = 0
    BY <1>2
  <2> QED
    BY <2>1 DEF NoteCost
<1>5. \A kept \in Nat : NoteCost(kept, n) \in Nat
  <2> TAKE kept \in Nat
  <2>1. Digits(n - kept) \in Nat /\ Digits(kept) \in Nat /\ Digits(n) \in Nat
    BY <1>2, <1>3
  <2> QED
    BY <1>1, <2>1, SMTT(30) DEF NoteCost
<1> HIDE DEF n
<1>6. Digits(n) \in Nat /\ Digits(n) >= 1 /\ Digits(0) = 1
  BY <1>2, <1>3
<1>7. Opening(items) \in Nat
  BY <1>1 DEF Opening
<1>8. /\ WorstNote(items) = IF items = <<>> THEN 0 ELSE NoteCost(n, n)
      /\ LongestNote(items) = IF items = <<>> THEN 0 ELSE 1 + NoteLen + 3 * Digits(n)
  BY DEF WorstNote, LongestNote, n
<1>9. /\ WorstNote(items) \in Nat /\ LongestNote(items) \in Nat
      /\ WorstNote(items) <= LongestNote(items)
  BY <1>1, <1>4, <1>6, <1>8
<1> QED
  BY <1>1, <1>5, <1>7, <1>9 DEF n

(* A section costs its opening and its items. *)
LEMMA ItemFacts ==
  ASSUME NEW items \in Seq(Nat)
  PROVE  /\ ItemCosts(items) \in Seq(Nat) /\ Len(ItemCosts(items)) = Len(items)
         /\ \A i \in 1 .. Len(items) : ItemCosts(items)[i] = ItemCost(items[i])
                                       /\ ItemCost(items[i]) \in Nat
         /\ SectionCost(items) = Opening(items) + Total(ItemCosts(items))
         /\ SectionCost(items) \in Nat
<1>1. Len(items) \in Nat /\ DOMAIN items = 1 .. Len(items)
      /\ \A i \in 1 .. Len(items) : items[i] \in Nat
  OBVIOUS
<1>2. \A i \in 1 .. Len(items) : ItemCost(items[i]) \in Nat
  BY <1>1 DEF ItemCost
<1>3. /\ ItemCosts(items) \in Seq(Nat) /\ Len(ItemCosts(items)) = Len(items)
      /\ \A i \in 1 .. Len(items) : ItemCosts(items)[i] = ItemCost(items[i])
  BY <1>1, <1>2 DEF ItemCosts
<1>4. SectionCost(items) = Opening(items) + Total(ItemCosts(items))
  BY DEF SectionCost, Per, ItemCosts
<1>5. Total(ItemCosts(items)) \in Nat /\ Opening(items) \in Nat
  BY <1>3, SumsGrow, SectionFacts
<1> QED
  BY <1>2, <1>3, <1>4, <1>5

(* A document's lengths, from those of its sections. *)
LEMMA DocumentFacts ==
  ASSUME NEW d, IsDocument(d)
  PROVE  /\ Len(d.sections) \in Nat /\ d.preamble \in Nat
         /\ \A i \in 1 .. Len(d.sections) : d.sections[i] \in Seq(Nat)
         /\ Costs(d) \in Seq(Nat) /\ Len(Costs(d)) = Len(d.sections)
         /\ Worsts(d) \in Seq(Nat) /\ Len(Worsts(d)) = Len(d.sections)
         /\ Openings(d) \in Seq(Nat) /\ Len(Openings(d)) = Len(d.sections)
         /\ Longests(d) \in Seq(Nat) /\ Len(Longests(d)) = Len(d.sections)
         /\ \A i \in 1 .. Len(d.sections) :
              /\ Costs(d)[i] = SectionCost(d.sections[i])
              /\ Worsts(d)[i] = WorstNote(d.sections[i])
              /\ Openings(d)[i] = Opening(d.sections[i])
              /\ Longests(d)[i] = LongestNote(d.sections[i])
         /\ Trailer(d) \in Nat
         /\ FullLength(d) = d.preamble + Total(Costs(d)) + Trailer(d)
         /\ Reserved(d) = Total(Worsts(d)) + Trailer(d)
         /\ FixedLength(d) =
              d.preamble + Total(Openings(d)) + Total(Longests(d)) + Trailer(d)
<1> DEFINE n == Len(d.sections)
<1>1. n \in Nat /\ DOMAIN d.sections = 1 .. n /\ d.preamble \in Nat
      /\ \A i \in 1 .. n : d.sections[i] \in Seq(Nat)
  BY DEF IsDocument
<1>2. \A i \in 1 .. n :
        /\ SectionCost(d.sections[i]) \in Nat /\ WorstNote(d.sections[i]) \in Nat
        /\ Opening(d.sections[i]) \in Nat /\ LongestNote(d.sections[i]) \in Nat
  BY <1>1, SectionFacts, ItemFacts
<1>3. Costs(d) \in Seq(Nat) /\ Len(Costs(d)) = n
      /\ \A i \in 1 .. n : Costs(d)[i] = SectionCost(d.sections[i])
  BY <1>1, <1>2 DEF Costs
<1>4. Worsts(d) \in Seq(Nat) /\ Len(Worsts(d)) = n
      /\ \A i \in 1 .. n : Worsts(d)[i] = WorstNote(d.sections[i])
  BY <1>1, <1>2 DEF Worsts
<1>5. Openings(d) \in Seq(Nat) /\ Len(Openings(d)) = n
      /\ \A i \in 1 .. n : Openings(d)[i] = Opening(d.sections[i])
  BY <1>1, <1>2 DEF Openings
<1>6. Longests(d) \in Seq(Nat) /\ Len(Longests(d)) = n
      /\ \A i \in 1 .. n : Longests(d)[i] = LongestNote(d.sections[i])
  BY <1>1, <1>2 DEF Longests
<1>7. Trailer(d) \in Nat
  <2> DEFINE blocks == [i \in DOMAIN d.trailer |-> BlockCost(d.trailer[i])]
  <2>1. d.trailer \in Seq(Nat)
    BY DEF IsDocument
  <2>2. Len(d.trailer) \in Nat /\ DOMAIN d.trailer = 1 .. Len(d.trailer)
        /\ \A i \in 1 .. Len(d.trailer) : BlockCost(d.trailer[i]) \in Nat
    BY <2>1 DEF BlockCost
  <2>3. blocks \in Seq(Nat)
    BY <2>2
  <2>4. Trailer(d) = Total(blocks)
    BY DEF Trailer, Per
  <2> HIDE DEF blocks
  <2> QED
    BY <2>3, <2>4, SumsGrow
<1>8. FullLength(d) = d.preamble + Total(Costs(d)) + Trailer(d)
  BY DEF FullLength, Per, Costs, Trailer
<1>9. Reserved(d) = Total(Worsts(d)) + Trailer(d)
  BY DEF Reserved, Per, Worsts, Trailer
<1>10. FixedLength(d) = d.preamble + Total(Openings(d)) + Total(Longests(d)) + Trailer(d)
  BY DEF FixedLength, Per, Openings, Longests, Trailer
<1> QED
  BY <1>1, <1>3, <1>4, <1>5, <1>6, <1>7, <1>8, <1>9, <1>10

(* What a picture is rendered from is a document. *)
LEMMA MaterialIsDocument ==
  ASSUME NEW p \in Pictures
  PROVE  IsDocument(Material(p))
<1>1. /\ p \in Picture /\ (IsBrief(p) \/ IsIncident(p))
      /\ p.risks \in Seq(Nat) /\ p.events \in Seq(Nat) /\ p.kind \in {"brief", "incident"}
  BY PictureAssumption DEF Picture
<1>2. PreambleLen \in Nat /\ BlockLen \in Nat
  BY LengthsAssumption
<1> DEFINE r == p.risks
           e == p.events
           one == IF p.resolved THEN <<BlockLen>> ELSE <<>>
           two == IF p.unseen > 0 THEN <<BlockLen>> ELSE <<>>
           trailer == IF p.kind = "brief"
                      THEN IF BriefGaps(p) = {} THEN <<>> ELSE <<BlockLen>>
                      ELSE one \o two
           sections == IF p.kind = "brief" THEN <<r, e>> ELSE <<e>>
<1>3. trailer \in Seq(Nat)
  <2>1. one \in Seq(Nat) /\ two \in Seq(Nat)
    BY <1>2
  <2> HIDE DEF one, two
  <2>2. one \o two \in Seq(Nat)
    BY <2>1, ConcatProperties
  <2>3. <<>> \in Seq(Nat) /\ <<BlockLen>> \in Seq(Nat)
    BY <1>2
  <2> QED
    BY <2>2, <2>3
<1>4. /\ Material(p).preamble = PreambleLen /\ Material(p).sections = sections
      /\ Material(p).trailer = trailer
  BY DEF Material
<1> HIDE DEF trailer
<1>5. CASE p.kind = "brief"
  <2>1. e = <<>> => r = <<>>
    BY <1>1, <1>5 DEF IsBrief, IsIncident
  <2>2. r \in Seq(Nat) /\ e \in Seq(Nat)
    BY <1>1
  <2> HIDE DEF r, e
  <2>3. /\ <<r, e>> \in Seq(Seq(Nat)) /\ Len(<<r, e>>) = 2
        /\ <<r, e>>[1] = r /\ <<r, e>>[2] = e
    BY <2>2
  <2>4. sections = <<r, e>>
    BY <1>5
  <2> QED
    BY <1>2, <1>3, <1>4, <2>1, <2>3, <2>4 DEF IsDocument
<1>6. CASE p.kind # "brief"
  <2>1. e \in Seq(Nat)
    BY <1>1
  <2> HIDE DEF e
  <2>2. <<e>> \in Seq(Seq(Nat)) /\ Len(<<e>>) = 1 /\ <<e>>[1] = e
    BY <2>1
  <2>3. sections = <<e>>
    BY <1>6
  <2> QED
    BY <1>2, <1>3, <1>4, <2>2, <2>3 DEF IsDocument
<1> QED
  BY <1>5, <1>6

(* A section without items costs its opening. *)
LEMMA EmptySection ==
  SectionCost(<<>>) = Opening(<<>>) /\ Opening(<<>>) \in Nat
<1> DEFINE e == <<>>
           c == ItemCosts(e)
<1>1. e \in Seq(Nat) /\ Len(e) = 0
  OBVIOUS
<1> HIDE DEF e
<1>2. c \in Seq(Nat) /\ Len(c) = 0 /\ SectionCost(e) = Opening(e) + Total(c)
  BY <1>1, ItemFacts
<1>3. Opening(e) \in Nat
  BY <1>1, SectionFacts
<1> HIDE DEF c
<1>4. c \in Seq(Int)
  BY <1>2
<1>5. Total(c) = 0
  BY <1>2, <1>4, TotalFacts
<1> QED
  BY <1>2, <1>3, <1>5 DEF e

(* A budget above the fixed length holds what is held back and the opening of *)
(* the first section; and the whole document, when no section has items.      *)
LEMMA EnoughBudget ==
  ASSUME NEW d, IsDocument(d), FixedLength(d) <= Budget
  PROVE  /\ Budget \in Nat
         /\ d.preamble + Reserved(d) + Opening(d.sections[1]) <= Budget
         /\ d.sections[Len(d.sections)] = <<>> => FullLength(d) <= Budget
<1> DEFINE n == Len(d.sections)
<1>1. n \in Nat /\ n >= 1 /\ 1 \in 1 .. n /\ Budget \in Nat
  BY DocumentFacts, BudgetAssumption DEF IsDocument
<1>2. Upto(Openings(d))[1] = Opening(d.sections[1]) /\ Opening(d.sections[1]) \in Nat
  <2>1. Openings(d) \in Seq(Int) /\ Len(Openings(d)) = n
        /\ Openings(d)[1] = Opening(d.sections[1])
        /\ d.sections[1] \in Seq(Nat)
    BY <1>1, DocumentFacts
  <2>2. Upto(Openings(d))[0] = 0
        /\ Upto(Openings(d))[1] = Upto(Openings(d))[1 - 1] + Openings(d)[1]
    BY <1>1, <2>1, TotalFacts
  <2>3. Opening(d.sections[1]) \in Nat
    BY <2>1, SectionFacts
  <2> QED
    BY <2>1, <2>2, <2>3
<1>3. Opening(d.sections[1]) <= Total(Openings(d)) /\ Total(Openings(d)) \in Nat
  <2>1. Openings(d) \in Seq(Nat) /\ Len(Openings(d)) = n
    BY DocumentFacts
  <2>2. 1 \in 0 .. Len(Openings(d))
    BY <1>1, <2>1
  <2> QED
    BY <1>2, <2>1, <2>2, SumsGrow
<1>4. Total(Worsts(d)) <= Total(Longests(d))
  <2>1. \A i \in 1 .. n : Worsts(d)[i] <= Longests(d)[i]
    BY DocumentFacts, SectionFacts
  <2>2. Worsts(d) \in Seq(Int) /\ Longests(d) \in Seq(Int)
        /\ Len(Worsts(d)) = n /\ Len(Longests(d)) = n
    BY DocumentFacts
  <2> QED
    BY <2>1, <2>2, TotalsOrdered
<1>5. Total(Worsts(d)) \in Nat /\ Total(Longests(d)) \in Nat /\ Total(Costs(d)) \in Nat
  BY DocumentFacts, SumsGrow
<1>6. /\ d.preamble \in Nat /\ Trailer(d) \in Nat
      /\ FullLength(d) = d.preamble + Total(Costs(d)) + Trailer(d)
      /\ Reserved(d) = Total(Worsts(d)) + Trailer(d)
      /\ FixedLength(d) =
           d.preamble + Total(Openings(d)) + Total(Longests(d)) + Trailer(d)
  BY DocumentFacts
<1>7. d.sections[n] = <<>> => Total(Costs(d)) <= Total(Openings(d))
  <2> SUFFICES ASSUME d.sections[n] = <<>> PROVE Total(Costs(d)) <= Total(Openings(d))
    OBVIOUS
  <2>1. \A i \in 1 .. n : d.sections[i] = <<>>
    BY DEF IsDocument
  <2>2. SectionCost(<<>>) = Opening(<<>>) /\ Opening(<<>>) \in Nat
    BY EmptySection
  <2>3. ASSUME NEW i \in 1 .. n PROVE Costs(d)[i] <= Openings(d)[i]
    <3>1. Costs(d)[i] = SectionCost(d.sections[i]) /\ Openings(d)[i] = Opening(d.sections[i])
      BY DocumentFacts
    <3> QED
      BY <2>1, <2>2, <3>1
  <2>4. Costs(d) \in Seq(Int) /\ Openings(d) \in Seq(Int)
        /\ Len(Costs(d)) = n /\ Len(Openings(d)) = n
    BY DocumentFacts
  <2> QED
    BY <2>3, <2>4, TotalsOrdered
<1> HIDE DEF n
<1> DEFINE w == Total(Worsts(d))
           l == Total(Longests(d))
           o == Total(Openings(d))
           c == Total(Costs(d))
           b == Trailer(d)
           f == Opening(d.sections[1])
<1>8. /\ w \in Nat /\ l \in Nat /\ o \in Nat /\ c \in Nat /\ b \in Nat /\ f \in Nat
      /\ w <= l /\ f <= o /\ d.preamble \in Nat /\ Budget \in Nat
      /\ d.preamble + o + l + b <= Budget
      /\ FullLength(d) = d.preamble + c + b /\ Reserved(d) = w + b
      /\ d.sections[n] = <<>> => c <= o
  BY <1>1, <1>2, <1>3, <1>4, <1>5, <1>6, <1>7
<1> HIDE DEF w, l, o, c, b, f
<1>9. d.preamble + Reserved(d) + f <= Budget
  BY <1>8, SMTT(30)
<1>10. d.sections[n] = <<>> => FullLength(d) <= Budget
  BY <1>8
<1> QED
  BY <1>1, <1>9, <1>10 DEF n, f

-----------------------------------------------------------------------------
(* What the overshoot of the first k sections adds up to. *)
Over(d, sh, i) ==
  LET items == d.sections[i]
      extra == NoteCost(sh[i], Len(items)) - WorstNote(items)
  IN  (IF i > 1 THEN Opening(items) ELSE 0)
        + (IF sh[i] < Len(items) /\ extra > 0 THEN extra ELSE 0)
Overs(d, sh, k) == [i \in 1 .. k |-> Over(d, sh, i)]

(* Counts of shown items that the sections have. *)
IsShown(d, sh) ==
  /\ sh \in Seq(Nat) /\ Len(sh) <= Len(d.sections)
  /\ \A i \in 1 .. Len(sh) : sh[i] <= Len(d.sections[i])

(* Overshoots are numbers, and depend on what their section has shown. *)
LEMMA OverFacts ==
  ASSUME NEW d, IsDocument(d), NEW sh, IsShown(d, sh)
  PROVE  /\ Len(sh) \in Nat
         /\ \A i \in 1 .. Len(sh) : Over(d, sh, i) \in Nat
         /\ \A k \in 0 .. Len(sh) :
              Overs(d, sh, k) \in Seq(Nat) /\ Total(Overs(d, sh, k)) \in Nat
         /\ \A k \in 1 .. Len(sh) :
              Total(Overs(d, sh, k)) = Total(Overs(d, sh, k - 1)) + Over(d, sh, k)
         /\ Total(Overs(d, sh, 0)) = 0
<1>1. Len(sh) \in Nat /\ sh \in Seq(Nat) /\ \A i \in 1 .. Len(sh) : sh[i] \in Nat
  BY DEF IsShown
<1>2. \A i \in 1 .. Len(sh) : i \in 1 .. Len(d.sections) /\ d.sections[i] \in Seq(Nat)
  <2>1. Len(d.sections) \in Nat /\ Len(sh) <= Len(d.sections)
    BY DocumentFacts DEF IsShown
  <2>2. \A i \in 1 .. Len(sh) : i \in 1 .. Len(d.sections)
    BY <1>1, <2>1
  <2> QED
    BY <2>2, DocumentFacts
<1>3. ASSUME NEW i \in 1 .. Len(sh) PROVE Over(d, sh, i) \in Nat
  <2> DEFINE o == Opening(d.sections[i])
             w == WorstNote(d.sections[i])
             c == NoteCost(sh[i], Len(d.sections[i]))
             all == Len(d.sections[i])
  <2>1. o \in Nat /\ w \in Nat /\ c \in Nat
    BY <1>1, <1>2, SectionFacts
  <2>2. Over(d, sh, i) = (IF i > 1 THEN o ELSE 0) + (IF sh[i] < all /\ c - w > 0 THEN c - w ELSE 0)
    BY DEF Over
  <2> HIDE DEF o, w, c, all
  <2> QED
    BY <2>1, <2>2
<1>4. ASSUME NEW k \in 0 .. Len(sh)
      PROVE  Overs(d, sh, k) \in Seq(Nat) /\ Len(Overs(d, sh, k)) = k
             /\ \A i \in 1 .. k : Overs(d, sh, k)[i] = Over(d, sh, i)
  <2>1. k \in Nat /\ \A i \in 1 .. k : Over(d, sh, i) \in Nat
    BY <1>1, <1>3
  <2> QED
    BY <2>1 DEF Overs
<1>5. \A k \in 0 .. Len(sh) : Total(Overs(d, sh, k)) \in Nat
  BY <1>4, SumsGrow
<1>6. ASSUME NEW k \in 1 .. Len(sh)
      PROVE  Total(Overs(d, sh, k)) = Total(Overs(d, sh, k - 1)) + Over(d, sh, k)
  <2> DEFINE s == Overs(d, sh, k - 1)
             t == Overs(d, sh, k)
  <2>1. k \in 0 .. Len(sh) /\ k - 1 \in 0 .. Len(sh) /\ k \in 1 .. k
        /\ \A i \in 1 .. (k - 1) : i \in 1 .. k
    BY <1>1
  <2>2. /\ s \in Seq(Int) /\ t \in Seq(Int) /\ Len(s) = k - 1 /\ Len(t) = k
        /\ t[k] = Over(d, sh, k) /\ \A i \in 1 .. (k - 1) : t[i] = s[i]
    BY <1>4, <2>1, SMTT(30)
  <2> HIDE DEF s, t
  <2>3. Total(t) = Total(s) + t[Len(t)]
    BY <2>1, <2>2, TotalMore
  <2> QED
    BY <2>2, <2>3 DEF s, t
<1>7. Total(Overs(d, sh, 0)) = 0
  <2>1. 0 \in 0 .. Len(sh)
    BY <1>1
  <2>2. Overs(d, sh, 0) \in Seq(Int) /\ Len(Overs(d, sh, 0)) = 0
    BY <1>4, <2>1
  <2> QED
    BY <2>2, TotalFacts
<1> QED
  BY <1>1, <1>3, <1>4, <1>5, <1>6, <1>7

(* Counts that agree so far have the same overshoot so far. *)
LEMMA OverSame ==
  ASSUME NEW d, NEW sh, NEW t, NEW k \in Nat, \A i \in 1 .. k : sh[i] = t[i]
  PROVE  Overs(d, sh, k) = Overs(d, t, k)
BY DEF Overs, Over

-----------------------------------------------------------------------------
(* The sections up to the k-th are shown as they are. *)
Whole(d, sh, k) == \A i \in 1 .. k : sh[i] = Len(d.sections[i])

(* The phase and how far the sections are. *)
Shaped(d, ph, u, r, sh) ==
  /\ IsDocument(d) /\ IsShown(d, sh)
  /\ ph \in {"fit", "sections", "items", "rendered"} /\ u \in Nat /\ r \in Nat
  /\ ph = "fit" => Len(sh) = 0
  /\ ph = "items" => Len(sh) >= 1 /\ d.sections[Len(sh)] # <<>>
  /\ ph = "rendered" => Len(sh) = Len(d.sections)

(* Only a document that does not fit is trimmed, and what is held back is the *)
(* notes of the sections to come and the trailer.                             *)
Reckoned(d, ph, r, sh) ==
  ph \in {"sections", "items"} =>
    /\ FullLength(d) > Budget
    /\ r = Reserved(d) - Upto(Worsts(d))[Len(sh)]

(* As long as nothing is omitted, what is used is what is whole so far. *)
SpentWhole(d, ph, u, sh) ==
  /\ ph = "sections" /\ Whole(d, sh, Len(sh)) =>
       u = d.preamble + Upto(Costs(d))[Len(sh)]
  /\ ph = "items" /\ Whole(d, sh, Len(sh) - 1) =>
       u = d.preamble + Upto(Costs(d))[Len(sh) - 1] + Opening(d.sections[Len(sh)])
             + Upto(ItemCosts(d.sections[Len(sh)]))[sh[Len(sh)]]
  /\ ph = "rendered" /\ Whole(d, sh, Len(sh)) => u = FullLength(d)

(* A section that has kept an item kept it within the budget; so a rendering  *)
(* that omits nothing is within it, unless no section has items.              *)
KeptWithin(d, ph, u, r, sh) ==
  /\ ph = "items" /\ sh[Len(sh)] > 0 =>
       u + r + WorstNote(d.sections[Len(sh)]) <= Budget
  /\ ph = "sections" /\ Len(sh) > 0 /\ d.sections[Len(sh)] # <<>>
       /\ sh[Len(sh)] = Len(d.sections[Len(sh)]) => u + r <= Budget
  /\ ph = "rendered" /\ Whole(d, sh, Len(sh)) /\ FixedLength(d) <= Budget => u <= Budget

(* What is used and held back passes the budget by no more than the overshoot *)
(* of the sections so far.                                                    *)
Overshot(d, ph, u, r, sh) ==
  FixedLength(d) <= Budget =>
    /\ ph = "sections" /\ Len(sh) = 0 => u = d.preamble
    /\ ph = "sections" /\ Len(sh) > 0 =>
         u + r <= Budget + Total(Overs(d, sh, Len(sh)))
    /\ ph = "items" =>
         u + r + WorstNote(d.sections[Len(sh)])
           <= Budget + Total(Overs(d, sh, Len(sh) - 1))
                + (IF Len(sh) > 1 THEN Opening(d.sections[Len(sh)]) ELSE 0)
    /\ ph = "rendered" => u <= Budget + Total(Overs(d, sh, Len(sh)))

Filled(d, ph, u, r, sh) ==
  /\ Shaped(d, ph, u, r, sh) /\ Reckoned(d, ph, r, sh) /\ SpentWhole(d, ph, u, sh)
  /\ KeptWithin(d, ph, u, r, sh) /\ Overshot(d, ph, u, r, sh)

Filling == Filled(doc, phase, used, reserve, shown)

(* What the warnings and the outcome say of it. *)
FailureCodes == {"model_unavailable", "empty_summary"}
Judged ==
  /\ picture \in Pictures /\ composes \in BOOLEAN /\ excluded \in Exclusions
  /\ doc = Material(picture)
  /\ status \in {"none", "deterministic", "model_unverified", "unavailable"}
  /\ outcome \in {"pending", "answered", "failed"}
  /\ outcome = "answered" <=> status # "none"
  /\ composes => phase = "fit" /\ status \in {"none", "deterministic"}
  /\ outcome # "pending" /\ ~ composes => phase = "rendered"
  /\ outcome = "answered" /\ ~ composes => status # "deterministic"
Warned ==
  /\ outcome # "answered" \/ composes => warnings = Gaps(picture)
  /\ outcome = "answered" /\ ~ composes =>
       \E codes \in SUBSET FailureCodes :
         /\ warnings = Gaps(picture) \cup TruncationWarnings \cup codes
         /\ status = "unavailable" => codes # {}
Settled == Judged /\ Warned

IInv == Filling /\ Settled

-----------------------------------------------------------------------------
(* Where a filling stands: what its lengths are. *)
LEMMA Standing ==
  ASSUME NEW d, NEW sh, IsDocument(d), IsShown(d, sh)
  PROVE  /\ Len(sh) \in Nat /\ Len(d.sections) \in Nat /\ Len(sh) <= Len(d.sections)
         /\ FullLength(d) \in Nat /\ Reserved(d) \in Nat /\ Budget \in Nat
         /\ d.preamble \in Nat /\ Trailer(d) \in Nat
         /\ \A i \in 1 .. Len(d.sections) :
              /\ d.sections[i] \in Seq(Nat) /\ Len(d.sections[i]) \in Nat
              /\ Opening(d.sections[i]) \in Nat /\ WorstNote(d.sections[i]) \in Nat
         /\ \A i \in 1 .. Len(sh) : sh[i] \in Nat /\ sh[i] <= Len(d.sections[i])
         /\ \A k \in 0 .. Len(d.sections) :
              /\ Upto(Costs(d))[k] \in Nat
              /\ Upto(Worsts(d))[k] \in Nat /\ Upto(Worsts(d))[k] <= Total(Worsts(d))
         /\ Total(Worsts(d)) \in Nat /\ Total(Costs(d)) \in Nat
         /\ \A k \in 1 .. Len(d.sections) :
              /\ Upto(Costs(d))[k] = Upto(Costs(d))[k - 1] + SectionCost(d.sections[k])
              /\ Upto(Worsts(d))[k] = Upto(Worsts(d))[k - 1] + WorstNote(d.sections[k])
         /\ Upto(Costs(d))[0] = 0 /\ Upto(Worsts(d))[0] = 0
         /\ Upto(Costs(d))[Len(d.sections)] = Total(Costs(d))
         /\ Upto(Worsts(d))[Len(d.sections)] = Total(Worsts(d))
<1> DEFINE n == Len(d.sections)
<1>1. /\ Len(sh) \in Nat /\ n \in Nat /\ Len(sh) <= n /\ Budget \in Nat
      /\ d.preamble \in Nat /\ Trailer(d) \in Nat
      /\ \A i \in 1 .. Len(sh) : sh[i] \in Nat /\ sh[i] <= Len(d.sections[i])
  <2>1. Len(sh) \in Nat /\ Len(sh) <= n /\ sh \in Seq(Nat)
        /\ \A i \in 1 .. Len(sh) : sh[i] <= Len(d.sections[i])
    BY OverFacts DEF IsShown
  <2>2. \A i \in 1 .. Len(sh) : sh[i] \in Nat
    BY <2>1
  <2>3. n \in Nat /\ d.preamble \in Nat /\ Trailer(d) \in Nat /\ Budget \in Nat
    BY DocumentFacts, BudgetAssumption
  <2> QED
    BY <2>1, <2>2, <2>3
<1>2. \A i \in 1 .. n :
        /\ d.sections[i] \in Seq(Nat) /\ Len(d.sections[i]) \in Nat
        /\ Opening(d.sections[i]) \in Nat /\ WorstNote(d.sections[i]) \in Nat
  BY DocumentFacts, SectionFacts
<1>3. Costs(d) \in Seq(Nat) /\ Len(Costs(d)) = n /\ Worsts(d) \in Seq(Nat)
      /\ Len(Worsts(d)) = n
      /\ \A i \in 1 .. n : Costs(d)[i] = SectionCost(d.sections[i])
                           /\ Worsts(d)[i] = WorstNote(d.sections[i])
  BY DocumentFacts
<1>4. /\ \A k \in 0 .. n : Upto(Costs(d))[k] \in Nat /\ Upto(Worsts(d))[k] \in Nat
                           /\ Upto(Worsts(d))[k] <= Total(Worsts(d))
      /\ Total(Worsts(d)) \in Nat /\ Total(Costs(d)) \in Nat
  BY <1>3, SumsGrow
<1>5. /\ \A k \in 1 .. n :
           /\ Upto(Costs(d))[k] = Upto(Costs(d))[k - 1] + SectionCost(d.sections[k])
           /\ Upto(Worsts(d))[k] = Upto(Worsts(d))[k - 1] + WorstNote(d.sections[k])
      /\ Upto(Costs(d))[0] = 0 /\ Upto(Worsts(d))[0] = 0
  <2> DEFINE c == Costs(d)
             w == Worsts(d)
  <2>1. c \in Seq(Int) /\ w \in Seq(Int) /\ Len(c) = n /\ Len(w) = n
    BY <1>3
  <2> HIDE DEF c, w
  <2>2. /\ \A k \in 1 .. n : Upto(c)[k] = Upto(c)[k - 1] + c[k]
                             /\ Upto(w)[k] = Upto(w)[k - 1] + w[k]
        /\ Upto(c)[0] = 0 /\ Upto(w)[0] = 0
    BY <2>1, TotalFacts
  <2> QED
    BY <1>3, <2>2 DEF c, w
<1>6. Upto(Costs(d))[n] = Total(Costs(d)) /\ Upto(Worsts(d))[n] = Total(Worsts(d))
  BY <1>3 DEF Total
<1>7. FullLength(d) \in Nat /\ Reserved(d) \in Nat
  <2>1. FullLength(d) = d.preamble + Total(Costs(d)) + Trailer(d)
        /\ Reserved(d) = Total(Worsts(d)) + Trailer(d)
    BY DocumentFacts
  <2> QED
    BY <1>1, <1>4, <2>1
<1> QED
  BY <1>1, <1>2, <1>4, <1>5, <1>6, <1>7

(* A document that fits: every section is shown in full. *)
LEMMA FilledWhole ==
  ASSUME NEW d, NEW u, NEW r, NEW sh, Filled(d, "fit", u, r, sh), FullLength(d) <= Budget,
         NEW t, t = [i \in DOMAIN d.sections |-> Len(d.sections[i])]
  PROVE  Filled(d, "rendered", FullLength(d), r, t)
<1> DEFINE n == Len(d.sections)
<1>1. IsDocument(d) /\ IsShown(d, sh) /\ r \in Nat
  BY DEF Filled, Shaped
<1>2. n \in Nat /\ FullLength(d) \in Nat /\ Budget \in Nat
      /\ \A i \in 1 .. n : Len(d.sections[i]) \in Nat
  BY <1>1, Standing
<1>3. DOMAIN d.sections = 1 .. n
  BY <1>1 DEF IsDocument
<1>4. t \in Seq(Nat) /\ Len(t) = n /\ \A i \in 1 .. n : t[i] = Len(d.sections[i])
  BY <1>2, <1>3
<1>5. IsShown(d, t)
  BY <1>2, <1>4 DEF IsShown
<1>6. Overshot(d, "rendered", FullLength(d), r, t)
  <2>1. n \in 0 .. Len(t)
    BY <1>2, <1>4
  <2>2. Total(Overs(d, t, Len(t))) \in Nat
    BY <1>1, <1>4, <1>5, <2>1, OverFacts
  <2> DEFINE o == Total(Overs(d, t, Len(t)))
  <2> HIDE DEF o
  <2>3. FullLength(d) <= Budget + o
    BY <1>2, <2>2 DEF o
  <2> QED
    BY <2>3 DEF Overshot, o
<1> QED
  BY <1>1, <1>2, <1>4, <1>5, <1>6 DEF Filled, Shaped, Reckoned, SpentWhole, KeptWithin

(* One that does not: the preamble is used, notes and trailer are held back. *)
LEMMA FilledPreamble ==
  ASSUME NEW d, NEW u, NEW r, NEW sh, Filled(d, "fit", u, r, sh), FullLength(d) > Budget
  PROVE  Filled(d, "sections", d.preamble, Reserved(d), sh)
<1>1. IsDocument(d) /\ IsShown(d, sh) /\ Len(sh) = 0
  BY DEF Filled, Shaped
<1>2. /\ d.preamble \in Nat /\ Reserved(d) \in Nat
      /\ Upto(Costs(d))[0] = 0 /\ Upto(Worsts(d))[0] = 0
  BY <1>1, Standing
<1>3. Reserved(d) = Reserved(d) - Upto(Worsts(d))[Len(sh)]
      /\ d.preamble = d.preamble + Upto(Costs(d))[Len(sh)]
  BY <1>1, <1>2
<1> QED
  BY <1>1, <1>2, <1>3
    DEF Filled, Shaped, Reckoned, SpentWhole, KeptWithin, Overshot

(* The next section is opened, and its note no longer held back. *)
LEMMA FilledOpening ==
  ASSUME NEW d, NEW u, NEW r, NEW sh, Filled(d, "sections", u, r, sh),
         Len(sh) < Len(d.sections),
         NEW items, items = d.sections[Len(sh) + 1],
         NEW t, t = Append(sh, 0)
  PROVE  Filled(d, IF items = <<>> THEN "sections" ELSE "items",
                u + Opening(items), r - WorstNote(items), t)
<1> DEFINE k == Len(sh)
           n == Len(d.sections)
           o == Opening(items)
           w == WorstNote(items)
           ws(i) == Upto(Worsts(d))[i]
           cs(i) == Upto(Costs(d))[i]
           ph == IF items = <<>> THEN "sections" ELSE "items"
<1>1. IsDocument(d) /\ IsShown(d, sh) /\ u \in Nat /\ r \in Nat
      /\ FullLength(d) > Budget /\ r = Reserved(d) - ws(k)
      /\ (Whole(d, sh, k) => u = d.preamble + cs(k))
  BY DEF Filled, Shaped, Reckoned, SpentWhole
<1>2. k \in Nat /\ n \in Nat /\ k < n /\ k + 1 \in 1 .. n /\ k \in 0 .. n
  BY <1>1, Standing
<1>3. /\ items \in Seq(Nat) /\ Len(items) \in Nat /\ o \in Nat /\ w \in Nat
      /\ cs(k) \in Nat /\ ws(k) \in Nat /\ Reserved(d) \in Nat /\ d.preamble \in Nat
      /\ Budget \in Nat
  BY <1>1, <1>2, Standing
<1>4. /\ ws(k + 1) = ws(k) + w /\ cs(k + 1) = cs(k) + SectionCost(items)
      /\ ws(k + 1) <= Total(Worsts(d)) /\ Total(Worsts(d)) <= Reserved(d)
      /\ ws(k + 1) \in Nat
  <2>1. (k + 1) - 1 = k /\ k + 1 \in 0 .. n
    BY <1>2
  <2>2. Reserved(d) = Total(Worsts(d)) + Trailer(d) /\ Trailer(d) \in Nat
        /\ Total(Worsts(d)) \in Nat
    BY <1>1, DocumentFacts, Standing
  <2> QED
    BY <1>1, <1>2, <2>1, <2>2, Standing, SMTT(30)
<1>5. /\ t \in Seq(Nat) /\ Len(t) = k + 1 /\ t[k + 1] = 0
      /\ \A i \in 1 .. k : t[i] = sh[i]
  BY <1>1, <1>2 DEF IsShown
<1>6. IsShown(d, t)
  <2>1. \A i \in 1 .. k : sh[i] <= Len(d.sections[i])
    BY <1>1 DEF IsShown
  <2>2. ASSUME NEW i \in 1 .. (k + 1) PROVE t[i] <= Len(d.sections[i])
    <3>1. CASE i = k + 1
      BY <1>3, <1>5, <3>1
    <3>2. CASE i # k + 1
      BY <1>2, <1>5, <2>1, <3>2
    <3> QED
      BY <3>1, <3>2
  <2> QED
    BY <1>2, <1>5, <2>2 DEF IsShown
<1>7. r - w \in Nat /\ r - w = Reserved(d) - ws(k + 1)
  <2>1. ws(k) + w <= Reserved(d)
    <3> HIDE DEF ws, w
    <3>1. Total(Worsts(d)) \in Nat
      BY <1>1, Standing
    <3> QED
      BY <1>3, <1>4, <3>1
  <2> DEFINE a == ws(k)
             b == ws(k + 1)
  <2>2. /\ a \in Nat /\ b = a + w /\ w \in Nat /\ r \in Nat /\ Reserved(d) \in Nat
        /\ r = Reserved(d) - a /\ a + w <= Reserved(d)
    BY <1>1, <1>3, <1>4, <2>1
  <2> HIDE DEF a, b, w
  <2>3. r - w \in Nat /\ r - w = Reserved(d) - b
    BY <2>2
  <2> QED
    BY <2>3 DEF b
<1>8. Whole(d, t, k) <=> Whole(d, sh, k)
  BY <1>5 DEF Whole
<1>9. Whole(d, t, k + 1) => Whole(d, t, k)
  BY <1>2 DEF Whole
<1>10. SpentWhole(d, ph, u + o, t)
  <2>1. CASE items = <<>>
    <3>1. SectionCost(items) = o
      BY <2>1, EmptySection
    <3>2. Whole(d, t, k + 1) => u + o = d.preamble + cs(k + 1)
      <4> DEFINE p == d.preamble
                 a == cs(k)
                 b == cs(k + 1)
      <4>1. u \in Nat /\ o \in Nat /\ p \in Nat /\ a \in Nat /\ b = a + o
        BY <1>1, <1>3, <1>4, <3>1
      <4>2. Whole(d, t, k + 1) => u = p + a
        BY <1>1, <1>8, <1>9
      <4> HIDE DEF p, a, b, o
      <4>3. Whole(d, t, k + 1) => u + o = p + b
        BY <4>1, <4>2
      <4> QED
        BY <4>3 DEF p, b
    <3> QED
      BY <1>5, <2>1, <3>2 DEF SpentWhole
  <2>2. CASE items # <<>>
    <3>1. Upto(ItemCosts(items))[t[k + 1]] = 0
      <4> DEFINE c == ItemCosts(items)
      <4>1. c \in Seq(Nat)
        BY <1>3, ItemFacts
      <4> HIDE DEF c
      <4>2. c \in Seq(Int)
        BY <4>1
      <4>3. Upto(c)[0] = 0
        BY <4>2, TotalFacts
      <4> QED
        BY <1>5, <4>3 DEF c
    <3>2. Whole(d, t, k) => u + o = d.preamble + cs(k) + o + Upto(ItemCosts(items))[t[k + 1]]
      <4> HIDE DEF o, cs
      <4> QED
        BY <1>1, <1>3, <1>8, <3>1
    <3>3. (k + 1) - 1 = k
      BY <1>2
    <3> QED
      BY <1>5, <2>2, <3>2, <3>3 DEF SpentWhole
  <2> QED
    BY <2>1, <2>2
<1>11. KeptWithin(d, ph, u + o, r - w, t)
  BY <1>5 DEF KeptWithin
<1>12. Overshot(d, ph, u + o, r - w, t)
  <2> SUFFICES ASSUME FixedLength(d) <= Budget PROVE Overshot(d, ph, u + o, r - w, t)
    BY DEF Overshot
  <2> DEFINE x(i) == Total(Overs(d, t, i))
             y == Total(Overs(d, sh, k))
  <2>0. k = 0 \/ k > 0
    BY <1>2
  <2>1. /\ k = 0 => u = d.preamble
        /\ k > 0 => u + r <= Budget + y
    BY DEF Filled, Overshot
  <2>2. x(k) = y /\ x(k) \in Nat /\ x(k + 1) \in Nat /\ x(0) = 0
    <3>1. k \in 0 .. Len(t) /\ k + 1 \in 0 .. Len(t)
      BY <1>2, <1>5
    <3>2. Overs(d, sh, k) = Overs(d, t, k)
      <4> HIDE DEF k
      <4> QED
        BY <1>2, <1>5, OverSame
    <3> QED
      BY <1>1, <1>6, <3>1, <3>2, OverFacts
  <2>3. k > 0 /\ items = <<>> => x(k + 1) = x(k) + o
    <3>1. k + 1 \in 1 .. Len(t) /\ (k + 1) - 1 = k
      BY <1>2, <1>5
    <3>2. x(k + 1) = x(k) + Over(d, t, k + 1)
      BY <1>1, <1>6, <3>1, OverFacts
    <3>3. Len(<<>>) = 0
      OBVIOUS
    <3>4. k > 0 /\ items = <<>> => Over(d, t, k + 1) = o
      <4> SUFFICES ASSUME k > 0, items = <<>> PROVE Over(d, t, k + 1) = o
        OBVIOUS
      <4>1. ~ (t[k + 1] < Len(items)) /\ k + 1 > 1
        BY <1>2, <1>5, <3>3
      <4>2. Over(d, t, k + 1) = o + 0
        BY <4>1 DEF Over
      <4> QED
        BY <1>3, <4>2
    <3> QED
      BY <3>2, <3>4
  <2>4. k = 0 => d.preamble + Reserved(d) + o <= Budget
    BY <1>1, EnoughBudget
  <2>5. k = 0 => ws(k) = 0
    BY <1>1, Standing
  <2>6. items = <<>> => w = 0
    BY DEF WorstNote
  <2> DEFINE before == x(k)
             after == x(k + 1)
             left == r - w
  <2>11. /\ before \in Nat /\ after \in Nat /\ u \in Nat /\ o \in Nat /\ r \in Nat
         /\ w \in Nat /\ left \in Nat /\ left + w = r /\ Budget \in Nat
         /\ k > 0 => u + r <= Budget + before
         /\ k > 0 /\ items = <<>> => after = before + o
    <3>1. before \in Nat /\ after \in Nat /\ (k > 0 => u + r <= Budget + before)
      <4> HIDE DEF y
      <4>1. before = y
        BY <2>2
      <4> QED
        BY <2>1, <2>2, <4>1
    <3>2. left \in Nat /\ left + w = r
      <4> HIDE DEF w
      <4> QED
        BY <1>1, <1>3, <1>7
    <3>3. k > 0 /\ items = <<>> => after = before + o
      BY <2>3
    <3> QED
      BY <1>1, <1>3, <3>1, <3>2, <3>3
  <2> HIDE DEF x, y, o, w, ws, n, before, after, left
  <2>12. k > 0 => u + o + left + w <= Budget + before + o
    BY <2>11
  <2>13. k > 0 /\ items = <<>> => u + o + left <= Budget + after
    BY <2>6, <2>11
  <2>14. (u + r + o <= Budget) /\ items = <<>> => u + o + left <= Budget + after
    BY <2>6, <2>11
  <2>7. u + o + (r - w) + w = u + r + o
    BY <1>1, <1>3
  <2>8. k = 0 => u + r + o <= Budget
    BY <1>1, <1>3, <2>1, <2>4, <2>5
  <2>9. CASE items = <<>>
    <3>1. u + o + (r - w) <= Budget + x(k + 1)
      <4>1. CASE k = 0
        BY <2>8, <2>9, <2>14, <4>1 DEF after, left
      <4>2. CASE k > 0
        BY <2>9, <2>13, <4>2 DEF after, left
      <4> QED
        BY <2>0, <4>1, <4>2
    <3>2. Len(t) > 0 /\ x(Len(t)) = x(k + 1)
      BY <1>2, <1>5
    <3> QED
      BY <1>2, <1>5, <2>9, <3>1, <3>2 DEF Overshot, x
  <2>10. CASE items # <<>>
    <3>1. u + o + (r - w) + w <= Budget + x(k) + (IF k + 1 > 1 THEN o ELSE 0)
      <4>1. CASE k = 0
        BY <1>1, <1>3, <2>2, <2>7, <2>8, <4>1
      <4>2. CASE k > 0
        <5>1. k + 1 > 1
          BY <1>2, <4>2
        <5> QED
          BY <2>12, <4>2, <5>1 DEF before, left
      <4> QED
        BY <2>0, <4>1, <4>2
    <3>2. Len(t) - 1 = k /\ Len(t) = k + 1 /\ Len(t) # 0
      BY <1>2, <1>5
    <3> QED
      BY <1>2, <1>5, <2>10, <3>1, <3>2 DEF Overshot, x, o, w
  <2> QED
    BY <2>9, <2>10
<1>13. Shaped(d, ph, u + o, r - w, t)
  <2>1. u + o \in Nat /\ Len(t) >= 1 /\ d.sections[Len(t)] = items
    <3> HIDE DEF o
    <3> QED
      BY <1>1, <1>2, <1>3, <1>5, SMTT(30)
  <2> QED
    BY <1>1, <1>6, <1>7, <2>1 DEF Shaped
<1>14. Reckoned(d, ph, r - w, t)
  BY <1>1, <1>5, <1>7 DEF Reckoned
<1> QED
  BY <1>10, <1>11, <1>12, <1>13, <1>14 DEF Filled

(* The section under way: what it is, and what the invariant says of it. *)
LEMMA UnderWay ==
  ASSUME NEW d, NEW u, NEW r, NEW sh, Filled(d, "items", u, r, sh),
         NEW k, k = Len(sh), NEW items, items = d.sections[k]
  PROVE  /\ IsDocument(d) /\ IsShown(d, sh) /\ u \in Nat /\ r \in Nat /\ Budget \in Nat
         /\ k \in 1 .. Len(d.sections) /\ k \in Nat /\ k >= 1
         /\ items \in Seq(Nat) /\ items # <<>> /\ Len(items) \in Nat
         /\ WorstNote(items) \in Nat /\ Opening(items) \in Nat
         /\ sh[k] \in Nat /\ sh[k] <= Len(items)
         /\ FullLength(d) > Budget /\ r = Reserved(d) - Upto(Worsts(d))[k]
         /\ Whole(d, sh, k - 1) =>
              u = d.preamble + Upto(Costs(d))[k - 1] + Opening(items)
                    + Upto(ItemCosts(items))[sh[k]]
         /\ sh[k] > 0 => u + r + WorstNote(items) <= Budget
         /\ FixedLength(d) <= Budget =>
              u + r + WorstNote(items)
                <= Budget + Total(Overs(d, sh, k - 1)) + (IF k > 1 THEN Opening(items) ELSE 0)
<1>1. IsDocument(d) /\ IsShown(d, sh) /\ u \in Nat /\ r \in Nat /\ k >= 1 /\ items # <<>>
  BY DEF Filled, Shaped
<1>2. k \in Nat /\ k \in 1 .. Len(d.sections) /\ k \in 1 .. Len(sh)
  BY <1>1, Standing
<1>3. /\ items \in Seq(Nat) /\ Len(items) \in Nat /\ Budget \in Nat
      /\ WorstNote(items) \in Nat /\ Opening(items) \in Nat
      /\ sh[k] \in Nat /\ sh[k] <= Len(items)
  BY <1>1, <1>2, Standing
<1>4. FullLength(d) > Budget /\ r = Reserved(d) - Upto(Worsts(d))[k]
  BY DEF Filled, Reckoned
<1>5. Whole(d, sh, k - 1) =>
        u = d.preamble + Upto(Costs(d))[k - 1] + Opening(items)
              + Upto(ItemCosts(items))[sh[k]]
  BY DEF Filled, SpentWhole
<1>6. sh[k] > 0 => u + r + WorstNote(items) <= Budget
  BY DEF Filled, KeptWithin
<1>7. FixedLength(d) <= Budget =>
        u + r + WorstNote(items)
          <= Budget + Total(Overs(d, sh, k - 1)) + (IF k > 1 THEN Opening(items) ELSE 0)
  BY DEF Filled, Overshot
<1> QED
  BY <1>1, <1>2, <1>3, <1>4, <1>5, <1>6, <1>7

(* An item that fits is kept. *)
LEMMA FilledKeeping ==
  ASSUME NEW d, NEW u, NEW r, NEW sh, Filled(d, "items", u, r, sh),
         NEW k, k = Len(sh), NEW items, items = d.sections[k],
         sh[k] < Len(items),
         NEW c, c = ItemCost(items[sh[k] + 1]),
         u + c + r + WorstNote(items) <= Budget,
         NEW t, t = [sh EXCEPT ![k] = sh[k] + 1]
  PROVE  Filled(d, "items", u + c, r, t)
<1> DEFINE w == WorstNote(items)
           o == Opening(items)
           kept == sh[k]
           all == Len(items)
           sums(i) == Upto(ItemCosts(items))[i]
<1>1. /\ IsDocument(d) /\ IsShown(d, sh) /\ u \in Nat /\ r \in Nat /\ Budget \in Nat
      /\ k \in 1 .. Len(d.sections) /\ k \in Nat /\ k >= 1
      /\ items \in Seq(Nat) /\ items # <<>> /\ all \in Nat /\ w \in Nat /\ o \in Nat
      /\ kept \in Nat /\ kept <= all
      /\ FullLength(d) > Budget /\ r = Reserved(d) - Upto(Worsts(d))[k]
  BY UnderWay, SMTT(30)
<1>11. /\ u \in Nat /\ r \in Nat /\ Budget \in Nat /\ w \in Nat /\ o \in Nat
       /\ k \in Nat /\ k >= 1
  BY <1>1
<1>12. kept \in Nat /\ all \in Nat /\ kept < all
  BY <1>1
<1>2. /\ t \in Seq(Nat) /\ Len(t) = k /\ t[k] = kept + 1
      /\ \A i \in 1 .. (k - 1) : t[i] = sh[i]
  <2>1. k \in 1 .. Len(sh) /\ kept + 1 \in Nat /\ sh \in Seq(Nat)
    BY <1>1, SMTT(30) DEF IsShown
  <2> QED
    BY <2>1
<1>3. c \in Nat /\ sums(kept + 1) = sums(kept) + c /\ sums(kept) \in Nat
  <2>1. kept + 1 \in 1 .. all /\ (kept + 1) - 1 = kept /\ kept \in 0 .. all
    <3> HIDE DEF kept, all
    <3> QED
      BY <1>12
  <2> DEFINE cs == ItemCosts(items)
  <2>2. cs \in Seq(Nat) /\ Len(cs) = all /\ cs[kept + 1] = c /\ c \in Nat
    BY <1>1, <2>1, ItemFacts
  <2> HIDE DEF cs, kept, all
  <2>3. cs \in Seq(Int)
    BY <2>2
  <2>4. Upto(cs)[kept + 1] = Upto(cs)[kept] + c
    BY <2>1, <2>2, <2>3, TotalFacts
  <2>5. Upto(cs)[kept] \in Nat
    BY <2>1, <2>2, SumsGrow
  <2> QED
    BY <2>2, <2>4, <2>5 DEF cs, kept
<1>4. IsShown(d, t)
  <2>1. /\ \A i \in 1 .. Len(sh) : sh[i] <= Len(d.sections[i])
        /\ Len(sh) <= Len(d.sections)
    BY <1>1 DEF IsShown
  <2>2. ASSUME NEW i \in 1 .. k PROVE t[i] <= Len(d.sections[i])
    <3>1. CASE i = k
      BY <1>1, <1>2, <3>1, SMTT(30)
    <3>2. CASE i # k
      BY <1>1, <1>2, <2>1, <3>2
    <3> QED
      BY <3>1, <3>2
  <2> QED
    BY <1>2, <2>1, <2>2 DEF IsShown
<1>5. Shaped(d, "items", u + c, r, t)
  <2>1. u + c \in Nat /\ d.sections[Len(t)] = items
    <3>1. u + c \in Nat
      <4>1. c \in Nat
        BY <1>3
      <4> QED
        BY <1>11, <4>1
    <3> QED
      BY <1>2, <3>1
  <2> QED
    BY <1>1, <1>2, <1>4, <2>1 DEF Shaped
<1>6. Reckoned(d, "items", r, t)
  BY <1>1, <1>2 DEF Reckoned
<1>7. SpentWhole(d, "items", u + c, t)
  <2>1. Whole(d, t, k - 1) => Whole(d, sh, k - 1)
    BY <1>2 DEF Whole
  <2> DEFINE before == Upto(Costs(d))[k - 1]
  <2>2. Whole(d, sh, k - 1) => u = d.preamble + before + o + sums(kept)
    BY DEF Filled, SpentWhole
  <2>3. d.preamble \in Nat /\ before \in Nat
    <3>1. k - 1 \in 0 .. Len(d.sections)
      BY <1>1
    <3> QED
      BY <1>1, <3>1, Standing
  <2> HIDE DEF before, o, sums
  <2>4. Whole(d, t, k - 1) => u + c = d.preamble + before + o + sums(kept + 1)
    <3> DEFINE a == sums(kept)
               b == sums(kept + 1)
               e == d.preamble
    <3>1. a \in Nat /\ b = a + c /\ c \in Nat
      BY <1>3
    <3>2. e \in Nat
      BY <2>3
    <3> HIDE DEF a, b, e
    <3>3. u = e + before + o + a => u + c = e + before + o + b
      BY <1>11, <2>3, <3>1, <3>2
    <3> QED
      BY <2>1, <2>2, <3>3 DEF a, b, e
  <2> QED
    BY <1>2, <2>4 DEF SpentWhole, before, o, sums
<1>8. u + c + r + w <= Budget
  OBVIOUS
<1>9. KeptWithin(d, "items", u + c, r, t)
  <2> HIDE DEF w
  <2> QED
    BY <1>1, <1>2, <1>8 DEF KeptWithin, w
<1>10. Overshot(d, "items", u + c, r, t)
  <2> DEFINE x == Total(Overs(d, t, k - 1))
             e == IF k > 1 THEN o ELSE 0
  <2>1. x \in Nat
    <3>1. k - 1 \in 0 .. Len(t)
      BY <1>1, <1>2
    <3> QED
      BY <1>1, <1>4, <3>1, OverFacts
  <2>2. e \in Nat
    BY <1>1
  <2> HIDE DEF x, w, e
  <2>3. u + c + r + w <= Budget + x + e
    <3> DEFINE z == u + c + r + w
    <3>1. z <= Budget /\ z \in Int
      BY <1>3, <1>8, <1>11
    <3> HIDE DEF z
    <3>2. z <= Budget + x + e
      BY <1>11, <2>1, <2>2, <3>1
    <3> QED
      BY <3>2 DEF z
  <2> QED
    BY <1>2, <2>3 DEF Overshot, x, w, e
<1> QED
  BY <1>5, <1>6, <1>7, <1>9, <1>10 DEF Filled

(* The overshoot of the section under way adds itself. *)
LEMMA OverUnderWay ==
  ASSUME NEW d, NEW u, NEW r, NEW sh, Filled(d, "items", u, r, sh),
         NEW k, k = Len(sh), NEW items, items = d.sections[k],
         NEW o, o = Opening(items), NEW w, w = WorstNote(items),
         NEW note, note = NoteCost(sh[k], Len(items))
  PROVE  /\ Total(Overs(d, sh, k - 1)) \in Nat /\ Total(Overs(d, sh, k)) \in Nat
         /\ note \in Nat /\ Over(d, sh, k) \in Nat
         /\ Total(Overs(d, sh, k)) = Total(Overs(d, sh, k - 1)) + Over(d, sh, k)
         /\ Over(d, sh, k) >= IF k > 1 THEN o ELSE 0
         /\ sh[k] < Len(items) => Over(d, sh, k) >= (IF k > 1 THEN o ELSE 0) + (note - w)
<1>1. /\ IsDocument(d) /\ IsShown(d, sh) /\ k \in Nat /\ k >= 1
      /\ items \in Seq(Nat) /\ w \in Nat /\ o \in Nat /\ sh[k] \in Nat
  BY UnderWay
<1>2. k \in 1 .. Len(sh) /\ k \in 0 .. Len(sh) /\ k - 1 \in 0 .. Len(sh)
  BY <1>1
<1>3. /\ Total(Overs(d, sh, k - 1)) \in Nat /\ Total(Overs(d, sh, k)) \in Nat
      /\ Over(d, sh, k) \in Nat
      /\ Total(Overs(d, sh, k)) = Total(Overs(d, sh, k - 1)) + Over(d, sh, k)
  BY <1>1, <1>2, OverFacts
<1>4. note \in Nat
  BY <1>1, SectionFacts
<1> DEFINE over == Over(d, sh, k)
           few == sh[k] < Len(items)
           e == IF k > 1 THEN o ELSE 0
<1>5. over = e + (IF few /\ note - w > 0 THEN note - w ELSE 0)
  BY DEF Over
<1>6. e \in Nat
  BY <1>1
<1> HIDE DEF over, few, e
<1>7. over >= e /\ (few => over >= e + (note - w))
  BY <1>1, <1>4, <1>5, <1>6
<1> QED
  BY <1>3, <1>4, <1>7 DEF over, few, e

(* An item that does not fit ends its section with a note. *)
LEMMA FilledTrimming ==
  ASSUME NEW d, NEW u, NEW r, NEW sh, Filled(d, "items", u, r, sh),
         NEW k, k = Len(sh), NEW items, items = d.sections[k],
         sh[k] < Len(items),
         NEW note, note = NoteCost(sh[k], Len(items))
  PROVE  Filled(d, "sections", u + note, r, sh)
<1> DEFINE w == WorstNote(items)
           o == Opening(items)
           e == IF k > 1 THEN o ELSE 0
           x == Total(Overs(d, sh, k - 1))
           y == Total(Overs(d, sh, k))
           over == Over(d, sh, k)
<1>1. /\ IsDocument(d) /\ IsShown(d, sh) /\ u \in Nat /\ r \in Nat /\ Budget \in Nat
      /\ k \in Nat /\ k >= 1 /\ o \in Nat /\ w \in Nat
      /\ FullLength(d) > Budget /\ r = Reserved(d) - Upto(Worsts(d))[k]
      /\ sh[k] \in Nat /\ Len(items) \in Nat
  BY UnderWay, SMTT(30)
<1>2. /\ x \in Nat /\ y \in Nat /\ note \in Nat /\ over \in Nat
      /\ y = x + over /\ over >= e + (note - w)
  <2>1. /\ x \in Nat /\ y \in Nat /\ note \in Nat /\ over \in Nat
        /\ y = x + over
    BY OverUnderWay
  <2>2. over >= (IF k > 1 THEN o ELSE 0) + (note - w)
    BY OverUnderWay
  <2> HIDE DEF x, y, over, w, o
  <2> QED
    BY <2>1, <2>2
<1>3. FixedLength(d) <= Budget => u + r + w <= Budget + x + e
  BY DEF Filled, Overshot
<1>4. sh[k] # Len(items) /\ k > 0 /\ k \in 1 .. k
  BY <1>1
<1>5. u + note \in Nat
  <2>1. u \in Nat /\ note \in Nat
    BY <1>1, <1>2
  <2> QED
    BY <2>1
<1>6. e \in Nat
  BY <1>1
<1>7. FixedLength(d) <= Budget => u + note + r <= Budget + y
  <2> SUFFICES ASSUME FixedLength(d) <= Budget PROVE u + note + r <= Budget + y
    OBVIOUS
  <2> DEFINE b == Budget
             cost == note
  <2>1. /\ u \in Nat /\ r \in Nat /\ b \in Nat /\ w \in Nat
        /\ x \in Nat /\ cost \in Nat /\ over \in Nat /\ e \in Nat
    <3> HIDE DEF w, e, x, y, over
    <3> QED
      BY <1>1, <1>2, <1>6
  <2>2. y = x + over /\ over >= e + (cost - w)
    <3> HIDE DEF w, e, x, y, over
    <3> QED
      BY <1>2
  <2>3. u + r + w <= b + x + e
    <3> HIDE DEF w, e, x, y, over
    <3> QED
      BY <1>3
  <2> HIDE DEF w, o, e, x, y, over, b, cost
  <2>4. u + cost + r <= b + y
    BY <2>1, <2>2, <2>3
  <2> QED
    BY <2>4 DEF b, cost
<1>8. Shaped(d, "sections", u + note, r, sh)
  BY <1>1, <1>5 DEF Shaped
<1>9. Reckoned(d, "sections", r, sh)
  BY <1>1 DEF Reckoned
<1>10. SpentWhole(d, "sections", u + note, sh)
  <2>1. ~ Whole(d, sh, k)
    BY <1>4 DEF Whole
  <2> QED
    BY <2>1 DEF SpentWhole
<1>11. KeptWithin(d, "sections", u + note, r, sh)
  BY <1>4 DEF KeptWithin
<1>12. Overshot(d, "sections", u + note, r, sh)
  BY <1>4, <1>7 DEF Overshot
<1> QED
  BY <1>8, <1>9, <1>10, <1>11, <1>12 DEF Filled

(* A section whose items all fitted is whole. *)
LEMMA FilledComplete ==
  ASSUME NEW d, NEW u, NEW r, NEW sh, Filled(d, "items", u, r, sh),
         NEW k, k = Len(sh), NEW items, items = d.sections[k],
         sh[k] = Len(items)
  PROVE  Filled(d, "sections", u, r, sh)
<1> DEFINE w == WorstNote(items)
           o == Opening(items)
           e == IF k > 1 THEN o ELSE 0
           x == Total(Overs(d, sh, k - 1))
           y == Total(Overs(d, sh, k))
           over == Over(d, sh, k)
<1>1. /\ IsDocument(d) /\ IsShown(d, sh) /\ u \in Nat /\ r \in Nat /\ Budget \in Nat
      /\ k \in Nat /\ k >= 1 /\ k \in 1 .. Len(d.sections) /\ o \in Nat /\ w \in Nat
      /\ FullLength(d) > Budget /\ r = Reserved(d) - Upto(Worsts(d))[k]
      /\ items \in Seq(Nat) /\ items # <<>> /\ Len(items) \in Nat
  BY UnderWay
<1>2. /\ x \in Nat /\ y \in Nat /\ over \in Nat /\ y = x + over /\ over >= e
  BY OverUnderWay
<1>3. FixedLength(d) <= Budget => u + r + w <= Budget + x + e
  BY DEF Filled, Overshot
<1>4. sh[k] > 0 /\ k > 0
  BY <1>1
<1>5. u + r + w <= Budget
  BY <1>4 DEF Filled, KeptWithin
<1>6. e \in Nat
  BY <1>1
<1>7. u + r <= Budget /\ (FixedLength(d) <= Budget => u + r <= Budget + y)
  <2> HIDE DEF w, o, e, x, y, over
  <2>1. u \in Nat /\ r \in Nat /\ Budget \in Nat /\ w \in Nat
    BY <1>1
  <2> QED
    BY <1>2, <1>3, <1>5, <1>6, <2>1
<1>8. Shaped(d, "sections", u, r, sh)
  BY <1>1 DEF Shaped
<1>9. Reckoned(d, "sections", r, sh)
  BY <1>1 DEF Reckoned
<1>10. SpentWhole(d, "sections", u, sh)
  <2> DEFINE cs(i) == Upto(Costs(d))[i]
             b == Total(ItemCosts(items))
  <2>1. Whole(d, sh, k) => Whole(d, sh, k - 1)
    BY <1>1 DEF Whole
  <2>2. Whole(d, sh, k - 1) => u = d.preamble + cs(k - 1) + o + Upto(ItemCosts(items))[sh[k]]
    BY DEF Filled, SpentWhole
  <2>3. Upto(ItemCosts(items))[sh[k]] = b /\ b \in Nat /\ SectionCost(items) = o + b
    <3>1. ItemCosts(items) \in Seq(Nat) /\ Len(ItemCosts(items)) = Len(items)
          /\ SectionCost(items) = o + b
      BY <1>1, ItemFacts
    <3>2. b \in Nat
      BY <3>1, SumsGrow
    <3> QED
      BY <3>1, <3>2 DEF Total
  <2>4. cs(k) = cs(k - 1) + SectionCost(items) /\ cs(k - 1) \in Nat /\ d.preamble \in Nat
    <3>1. k - 1 \in 0 .. Len(d.sections)
      BY <1>1
    <3> QED
      BY <1>1, <3>1, Standing
  <2> DEFINE p == d.preamble
             a == cs(k - 1)
             z == cs(k)
  <2> HIDE DEF b, o
  <2>5. p \in Nat /\ a \in Nat /\ b \in Nat /\ o \in Nat /\ z = a + (o + b)
    BY <1>1, <2>3, <2>4
  <2>6. Whole(d, sh, k) => u = p + a + o + b
    BY <2>1, <2>2, <2>3
  <2> HIDE DEF cs, p, a, z
  <2>7. Whole(d, sh, k) => u = p + z
    BY <2>5, <2>6
  <2> QED
    BY <2>7 DEF SpentWhole, p, z, cs
<1>11. KeptWithin(d, "sections", u, r, sh)
  BY <1>7 DEF KeptWithin
<1>12. Overshot(d, "sections", u, r, sh)
  BY <1>4, <1>7 DEF Overshot
<1> QED
  BY <1>8, <1>9, <1>10, <1>11, <1>12 DEF Filled

(* After the last section only the trailer is held back, and it is added. *)
LEMMA FilledTrailer ==
  ASSUME NEW d, NEW u, NEW r, NEW sh, Filled(d, "sections", u, r, sh),
         Len(sh) = Len(d.sections), NEW b, b = Trailer(d)
  PROVE  Filled(d, "rendered", u + b, r - b, sh)
<1> DEFINE n == Len(d.sections)
           x == Total(Overs(d, sh, n))
           last == d.sections[n]
           f == FullLength(d)
           p == d.preamble
           c == Total(Costs(d))
<1>1. /\ IsDocument(d) /\ IsShown(d, sh) /\ u \in Nat /\ r \in Nat
      /\ f > Budget /\ r = Reserved(d) - Upto(Worsts(d))[n]
      /\ Whole(d, sh, n) => u = p + Upto(Costs(d))[n]
  BY DEF Filled, Shaped, Reckoned, SpentWhole
<1>2. n \in Nat /\ n >= 1 /\ n > 0 /\ n \in 1 .. n /\ n \in 0 .. Len(sh)
  BY <1>1, Standing DEF IsDocument
<1>3. /\ Budget \in Nat /\ b \in Nat /\ p \in Nat /\ c \in Nat /\ f \in Nat
      /\ Total(Worsts(d)) \in Nat
      /\ Upto(Costs(d))[n] = c /\ Upto(Worsts(d))[n] = Total(Worsts(d))
  BY <1>1, Standing
<1>4. f = p + c + b /\ Reserved(d) = Total(Worsts(d)) + b
  BY <1>1, DocumentFacts
<1>5. r = b
  <2> DEFINE w == Total(Worsts(d))
  <2>1. w \in Nat /\ r = (w + b) - w
    BY <1>1, <1>3, <1>4
  <2> HIDE DEF w
  <2> QED
    BY <1>3, <2>1
<1>6. x \in Nat
  BY <1>1, <1>2, OverFacts
<1>7. FixedLength(d) <= Budget => u + r <= Budget + x
  BY <1>2 DEF Filled, Overshot
<1>8. Whole(d, sh, n) /\ last # <<>> => u + r <= Budget
  <2>1. Whole(d, sh, n) => sh[n] = Len(last)
    BY <1>2 DEF Whole
  <2> QED
    BY <1>2, <2>1 DEF Filled, KeptWithin
<1>9. last = <<>> /\ FixedLength(d) <= Budget => FALSE
  <2> SUFFICES ASSUME last = <<>>, FixedLength(d) <= Budget PROVE FALSE
    OBVIOUS
  <2>1. f <= Budget
    BY <1>1, EnoughBudget
  <2> HIDE DEF f
  <2> QED
    BY <1>1, <1>3, <2>1
<1>10. u + b \in Nat /\ r - b \in Nat
  BY <1>1, <1>3, <1>5
<1>11. Shaped(d, "rendered", u + b, r - b, sh)
  BY <1>1, <1>10 DEF Shaped
<1>12. Reckoned(d, "rendered", r - b, sh)
  BY DEF Reckoned
<1>13. SpentWhole(d, "rendered", u + b, sh)
  <2>1. Whole(d, sh, n) => u + b = f
    <3> HIDE DEF f, p, c
    <3> QED
      BY <1>1, <1>3, <1>4
  <2> QED
    BY <2>1 DEF SpentWhole
<1>14. KeptWithin(d, "rendered", u + b, r - b, sh)
  <2>1. Whole(d, sh, n) /\ FixedLength(d) <= Budget => u + b <= Budget
    BY <1>5, <1>8, <1>9
  <2> QED
    BY <2>1 DEF KeptWithin
<1>15. Overshot(d, "rendered", u + b, r - b, sh)
  BY <1>5, <1>7 DEF Overshot
<1> QED
  BY <1>11, <1>12, <1>13, <1>14, <1>15 DEF Filled

-----------------------------------------------------------------------------
(* The invariant holds at first ... *)
LEMMA Starts ==
  ASSUME Init
  PROVE  IInv
<1>1. IsDocument(doc) /\ doc = Material(picture)
  BY MaterialIsDocument DEF Init
<1>2. shown = <<>> /\ shown \in Seq(Nat) /\ Len(shown) = 0
  BY DEF Init
<1>3. IsShown(doc, shown)
  <2>1. Len(doc.sections) \in Nat
    BY <1>1, DocumentFacts
  <2> QED
    BY <1>2, <2>1 DEF IsShown
<1>4. phase = "fit" /\ used = 0 /\ reserve = 0
  BY DEF Init
<1>5. Filling
  BY <1>1, <1>2, <1>3, <1>4
    DEF Filling, Filled, Shaped, Reckoned, SpentWhole, KeptWithin, Overshot
<1>6. Settled
  BY DEF Init, Settled, Judged, Warned
<1> QED
  BY <1>5, <1>6 DEF IInv

(* ... is kept by rendering, step by step ... *)
LEMMA RenderingFills ==
  ASSUME Filling, Render
  PROVE  Filling'
<1> USE DEF Filling
<1>1. Filled(doc, phase, used, reserve, shown)
  OBVIOUS
<1> DEFINE now == Filled(doc', phase', used', reserve', shown')
<1>2. CASE RenderWhole
  <2>1. now
    BY <1>1, <1>2, FilledWhole DEF RenderWhole
  <2> QED
    BY <2>1
<1>3. CASE StartTrimming
  <2>1. now
    BY <1>1, <1>3, FilledPreamble DEF StartTrimming
  <2> QED
    BY <2>1
<1>4. CASE OpenSection
  <2>1. now
    BY <1>1, <1>4, FilledOpening DEF OpenSection, Here
  <2> QED
    BY <2>1
<1>5. CASE Keep
  <2>1. now
    BY <1>1, <1>5, FilledKeeping DEF Keep, Here, Kept, Items, Fits
  <2> QED
    BY <2>1
<1>6. CASE Trim
  <2>1. now
    BY <1>1, <1>6, FilledTrimming DEF Trim, Here, Kept, Items
  <2> QED
    BY <2>1
<1>7. CASE SectionComplete
  <2>1. now
    BY <1>1, <1>7, FilledComplete DEF SectionComplete, Here, Kept, Items
  <2> QED
    BY <2>1
<1>8. CASE AddTrailer
  <2>1. now
    BY <1>1, <1>8, FilledTrailer DEF AddTrailer, Here, Trailer
  <2> QED
    BY <2>1
<1> QED
  BY <1>2, <1>3, <1>4, <1>5, <1>6, <1>7, <1>8 DEF Render

(* ... and by whatever else a generation does. *)
LEMMA StepsKeep ==
  ASSUME IInv, [Next]_vars
  PROVE  IInv'
<1>1. Filling /\ Settled
  BY DEF IInv
<1>2. CASE Compose
  <2>1. UNCHANGED bvars /\ UNCHANGED <<picture, composes, excluded, warnings>>
        /\ composes /\ status' = "deterministic" /\ outcome' = "answered"
    BY <1>2 DEF Compose
  <2>2. Filling'
    BY <1>1, <2>1 DEF Filling, bvars
  <2>3. Settled'
    BY <1>1, <2>1 DEF Settled, Judged, Warned, bvars
  <2> QED
    BY <2>2, <2>3 DEF IInv
<1>3. CASE RenderMaterial
  <2>1. Render /\ ~ composes /\ UNCHANGED gvars
    BY <1>3 DEF RenderMaterial
  <2>2. Filling'
    BY <1>1, <2>1, RenderingFills
  <2>3. phase # "rendered" /\ doc' = doc
    BY <2>1 DEF Render, RenderWhole, StartTrimming, OpenSection, Keep, Trim,
                SectionComplete, AddTrailer
  <2>4. Settled'
    BY <1>1, <2>1, <2>3 DEF Settled, Judged, Warned, gvars
  <2> QED
    BY <2>2, <2>4 DEF IInv
<1>4. CASE RequestRefused
  <2>1. UNCHANGED bvars /\ UNCHANGED <<picture, composes, excluded, warnings, status>>
        /\ phase = "rendered" /\ outcome = "pending" /\ outcome' = "failed"
    BY <1>4 DEF RequestRefused
  <2>2. Filling'
    BY <1>1, <2>1 DEF Filling, bvars
  <2>3. Settled'
    BY <1>1, <2>1 DEF Settled, Judged, Warned, bvars
  <2> QED
    BY <2>2, <2>3 DEF IInv
<1>5. ASSUME NEW s \in {"unavailable", "model_unverified"}, NEW codes \in SUBSET FailureCodes,
             s = "unavailable" => codes # {}, Settle(s, codes)
      PROVE  IInv'
  <2>1. UNCHANGED bvars /\ UNCHANGED <<picture, composes, excluded>>
        /\ phase = "rendered" /\ outcome = "pending" /\ outcome' = "answered" /\ status' = s
        /\ warnings' = warnings \cup TruncationWarnings \cup codes
    BY <1>5 DEF Settle
  <2>2. Filling'
    BY <1>1, <2>1 DEF Filling, bvars
  <2>3. ~ composes /\ warnings = Gaps(picture)
    BY <1>1, <2>1 DEF Settled, Judged, Warned
  <2>4. TruncationWarnings' = TruncationWarnings
    BY <2>1 DEF TruncationWarnings, Truncated, bvars
  <2>5. Judged'
    BY <1>1, <2>1, <2>3 DEF Settled, Judged, bvars
  <2>6. Warned'
    <3>1. /\ warnings' = Gaps(picture)' \cup TruncationWarnings' \cup codes
          /\ status' = "unavailable" => codes # {}
      BY <1>5, <2>1, <2>3, <2>4
    <3> QED
      BY <2>1, <2>3, <3>1 DEF Warned
  <2> QED
    BY <2>2, <2>5, <2>6 DEF IInv, Settled
<1>6. CASE ProviderFails
  BY <1>5, <1>6 DEF ProviderFails, FailureCodes
<1>7. CASE ProviderSaysNothing
  BY <1>5, <1>7 DEF ProviderSaysNothing, FailureCodes
<1>8. CASE ProviderAnswers
  BY <1>5, <1>8 DEF ProviderAnswers
<1>9. CASE UNCHANGED vars
  <2>1. UNCHANGED bvars /\ UNCHANGED gvars
    BY <1>9 DEF vars
  <2>2. TruncationWarnings' = TruncationWarnings
    BY <2>1 DEF TruncationWarnings, Truncated, bvars
  <2>3. Filling'
    BY <1>1, <2>1 DEF Filling, bvars
  <2>4. Judged'
    BY <1>1, <2>1 DEF Settled, Judged, bvars, gvars
  <2>5. Warned'
    BY <1>1, <2>1, <2>2 DEF Settled, Warned, bvars, gvars
  <2> QED
    BY <2>3, <2>4, <2>5 DEF IInv, Settled
<1> QED
  BY <1>2, <1>3, <1>4, <1>6, <1>7, <1>8, <1>9 DEF Next

(* A generation fills its document, and settles, as the invariant says.       *)
THEOREM FillingInvariant == Spec => []IInv
<1>1. Init => IInv
  BY Starts
<1>2. IInv /\ [Next]_vars => IInv'
  BY StepsKeep
<1> QED
  BY <1>1, <1>2, PTL DEF Spec

-----------------------------------------------------------------------------
(* Nothing is omitted exactly when every section reached is whole. *)
LEMMA TruncatedMeansNotWhole ==
  ASSUME IInv
  PROVE  /\ ~ Truncated <=> Whole(doc, shown, Len(shown))
         /\ shown \in Seq(Nat) /\ Len(shown) \in Nat /\ DOMAIN shown = 1 .. Len(shown)
<1>1. IsDocument(doc) /\ IsShown(doc, shown)
  BY DEF IInv, Filling, Filled, Shaped
<1>2. shown \in Seq(Nat) /\ Len(shown) \in Nat /\ DOMAIN shown = 1 .. Len(shown)
  BY <1>1 DEF IsShown
<1>3. \A i \in 1 .. Len(shown) :
        shown[i] \in Nat /\ shown[i] <= Len(doc.sections[i]) /\ Len(doc.sections[i]) \in Nat
  <2>1. \A i \in 1 .. Len(shown) : i \in 1 .. Len(doc.sections)
    BY <1>1, Standing
  <2> QED
    BY <1>1, <2>1, Standing
<1>4. \A i \in 1 .. Len(shown) :
        ~ (shown[i] < Len(doc.sections[i])) <=> shown[i] = Len(doc.sections[i])
  BY <1>3
<1> QED
  BY <1>2, <1>4 DEF Truncated, Whole

(* A generation stays a rendering of its own picture (TypeOK): the document,  *)
(* what is used and held back, the counts shown, the warnings and the outcome *)
(* keep their domains; what is held back never runs below nothing.            *)
THEOREM TypeCorrect == Spec => []TypeOK
<1>1. ASSUME IInv PROVE TypeOK
  <2>1. /\ IsDocument(doc) /\ IsShown(doc, shown) /\ used \in Nat /\ reserve \in Nat
        /\ phase \in {"fit", "sections", "items", "rendered"}
    BY <1>1 DEF IInv, Filling, Filled, Shaped
  <2>2. Len(shown) <= Len(doc.sections)
    BY <2>1 DEF IsShown
  <2>3. \A i \in DOMAIN shown : shown[i] \in 0 .. Len(doc.sections[i])
    <3>1. \A i \in 1 .. Len(shown) : i \in 1 .. Len(doc.sections)
      BY <2>1, Standing
    <3>2. \A i \in 1 .. Len(shown) :
            shown[i] \in Nat /\ shown[i] <= Len(doc.sections[i]) /\ Len(doc.sections[i]) \in Nat
      BY <2>1, <3>1, Standing
    <3> QED
      BY <1>1, <3>2, TruncatedMeansNotWhole
  <2>4. Judged /\ Warned
    BY <1>1 DEF IInv, Settled
  <2>5. warnings \subseteq Codes
    <3>1. Gaps(picture) \subseteq Codes
      BY DEF Gaps, BriefGaps, IncidentGaps, Codes, NoData, MissingEvidence, Partial
    <3>2. TruncationWarnings \subseteq Codes /\ FailureCodes \subseteq Codes
      BY DEF TruncationWarnings, FailureCodes, Codes, Partial
    <3> QED
      BY <2>4, <3>1, <3>2 DEF Warned
  <2> QED
    BY <2>1, <2>2, <2>3, <2>4, <2>5 DEF TypeOK, Judged
<1> QED
  BY <1>1, FillingInvariant, PTL

(* The material passes its budget by no more than what render_budgeted forgets *)
(* to hold back (OvershootIsUnreserved).                                       *)
THEOREM OvershootIsBounded == Spec => []OvershootIsUnreserved
<1>1. ASSUME IInv PROVE OvershootIsUnreserved
  <2> SUFFICES ASSUME phase = "rendered", FixedLength(doc) <= Budget
               PROVE  used <= Budget + Total([i \in DOMAIN shown |-> Excess(i)])
    BY DEF OvershootIsUnreserved, BudgetIsEnough
  <2>1. used <= Budget + Total(Overs(doc, shown, Len(shown)))
    BY <1>1 DEF IInv, Filling, Filled, Overshot
  <2>2. [i \in DOMAIN shown |-> Excess(i)] = Overs(doc, shown, Len(shown))
    <3>1. DOMAIN shown = 1 .. Len(shown)
      BY <1>1, TruncatedMeansNotWhole
    <3>2. \A i : Excess(i) = Over(doc, shown, i)
      BY DEF Excess, Over
    <3> QED
      BY <3>1, <3>2 DEF Overs
  <2> QED
    BY <2>1, <2>2
<1> QED
  BY <1>1, FillingInvariant, PTL

(* Material reported complete is the whole document and fits                  *)
(* (CompleteMeansWhole), whatever path rendered it.                           *)
THEOREM CompleteIsWhole == Spec => []CompleteMeansWhole
<1>1. ASSUME IInv PROVE CompleteMeansWhole
  <2> SUFFICES ASSUME phase = "rendered", FixedLength(doc) <= Budget, ~ Truncated
               PROVE  used = FullLength(doc) /\ used <= Budget
    BY DEF CompleteMeansWhole, BudgetIsEnough
  <2>1. Whole(doc, shown, Len(shown))
    BY <1>1, TruncatedMeansNotWhole
  <2>2. used = FullLength(doc)
    BY <1>1, <2>1 DEF IInv, Filling, Filled, SpentWhole
  <2>3. used <= Budget
    BY <1>1, <2>1 DEF IInv, Filling, Filled, KeptWithin
  <2> QED
    BY <2>2, <2>3
<1> QED
  BY <1>1, FillingInvariant, PTL

(* High confidence is only stated of a picture seen in full, a summary that   *)
(* was written, and a prompt that was whole (HighConfidenceIsEarned).         *)
THEOREM ConfidenceIsEarned == Spec => []HighConfidenceIsEarned
<1>1. ASSUME IInv PROVE HighConfidenceIsEarned
  <2> SUFFICES ASSUME outcome = "answered", Confidence = "high"
               PROVE  /\ picture.unseen = 0 /\ picture.events # <<>>
                      /\ status \in {"deterministic", "model_unverified"}
                      /\ ~ composes => used = FullLength(doc)
    BY DEF HighConfidenceIsEarned
  <2>1. warnings \cap (NoData \cup MissingEvidence \cup Partial) = {}
    BY DEF Confidence
  <2>2. Judged /\ Warned
    BY <1>1 DEF IInv, Settled
  <2>3. Gaps(picture) \subseteq warnings
    BY <2>2 DEF Warned
  <2>4. picture \in Picture /\ (IsBrief(picture) \/ IsIncident(picture))
    BY <2>2, PictureAssumption DEF Judged
  <2>5. picture.unseen = 0 /\ picture.events # <<>>
    <3>1. picture.unseen \in Nat
      BY <2>4 DEF Picture
    <3>2. ~ (picture.unseen > 0)
      BY <2>1, <2>3, <2>4
        DEF Gaps, BriefGaps, IncidentGaps, NoData, MissingEvidence, Partial, IsBrief, IsIncident
    <3>3. picture.events # <<>>
      BY <2>1, <2>3, <2>4 DEF Gaps, BriefGaps, IncidentGaps, NoData, MissingEvidence
    <3> QED
      BY <3>1, <3>2, <3>3
  <2>6. status # "unavailable"
    <3> SUFFICES ASSUME status = "unavailable" PROVE FALSE
      OBVIOUS
    <3>1. ~ composes
      BY <2>2 DEF Judged
    <3>2. PICK codes \in SUBSET FailureCodes : codes # {} /\ codes \subseteq warnings
      BY <2>2, <3>1 DEF Warned
    <3> QED
      BY <2>1, <3>2 DEF FailureCodes, Partial
  <2>7. ASSUME ~ composes PROVE used = FullLength(doc)
    <3>1. TruncationWarnings \subseteq warnings /\ phase = "rendered"
      BY <2>2, <2>7 DEF Warned, Judged
    <3>2. ~ Truncated
      BY <2>1, <3>1 DEF TruncationWarnings, Partial
    <3>3. Whole(doc, shown, Len(shown))
      BY <1>1, <3>2, TruncatedMeansNotWhole
    <3> QED
      BY <1>1, <3>1, <3>3 DEF IInv, Filling, Filled, SpentWhole
  <2> QED
    BY <2>2, <2>5, <2>6, <2>7 DEF Judged
<1> QED
  BY <1>1, FillingInvariant, PTL

(* A line of the material tells the unexcluded fields of its events, and a    *)
(* title or a note what is not held back.                                     *)
LEMMA LinesTold ==
  ASSUME NEW ex
  PROVE  /\ EventLine(ex) = EventFields \ ex
         /\ ShownRiskTitle(ex) \cap ex = {} /\ RiskTitle \ ex \subseteq ShownRiskTitle(ex)
         /\ ShownIncidentTitle(ex) \cap ex = {}
         /\ IncidentTitle \cap ex = {} => ShownIncidentTitle(ex) = IncidentTitle
         /\ ShownFreeText(ex) \cap ex = {} /\ Span(ex) \cap ex = {}
<1>1. EventLine(ex) = EventFields \ ex
  <2>1. \A f, x : x \in HeldBack({f}, {f}, ex) <=> x = f /\ f \notin ex
    BY DEF HeldBack
  <2>2. ASSUME NEW x \in EventLine(ex) PROVE x \in EventFields \ ex
    <3>1. PICK f \in EventFields : x \in HeldBack({f}, {f}, ex)
      BY <2>2 DEF EventLine
    <3>2. x = f /\ f \notin ex
      BY <2>1, <3>1
    <3> QED
      BY <3>2
  <2>3. ASSUME NEW x \in EventFields \ ex PROVE x \in EventLine(ex)
    <3>1. x \in HeldBack({x}, {x}, ex)
      BY <2>1, <2>3
    <3> QED
      BY <2>3, <3>1 DEF EventLine
  <2> QED
    BY <2>2, <2>3
<1>2. ShownRiskTitle(ex) \cap ex = {} /\ RiskTitle \ ex \subseteq ShownRiskTitle(ex)
  BY DEF ShownRiskTitle, RiskTitle, HeldBack
<1>3. /\ ShownIncidentTitle(ex) \cap ex = {}
      /\ IncidentTitle \cap ex = {} => ShownIncidentTitle(ex) = IncidentTitle
  BY DEF ShownIncidentTitle, IncidentTitle, HeldBack
<1>4. ShownFreeText(ex) \cap ex = {} /\ Span(ex) \cap ex = {}
  BY DEF ShownFreeText, Span, HeldBack
<1> QED
  BY <1>1, <1>2, <1>3, <1>4

(* What a deployment excludes is never told, and no more than derives from it *)
(* is held back (ExcludedNeverTold).                                          *)
THEOREM ExclusionHolds == Spec => []ExcludedNeverTold
<1>1. ASSUME IInv PROVE ExcludedNeverTold
  <2> SUFFICES ASSUME outcome = "answered"
               PROVE  /\ Told \cap excluded = {}
                      /\ ~ composes /\ shown[Len(shown)] > 0 =>
                           EventFields \ excluded \subseteq Told
                      /\ composes /\ picture.risks # <<>> => RiskTitle \ excluded \subseteq Told
                      /\ picture.kind = "incident" /\ IncidentTitle \cap excluded = {} =>
                           IncidentTitle \subseteq Told
    BY DEF ExcludedNeverTold
  <2> DEFINE ex == excluded
  <2>1. /\ EventLine(ex) = EventFields \ ex
        /\ ShownRiskTitle(ex) \cap ex = {} /\ RiskTitle \ ex \subseteq ShownRiskTitle(ex)
        /\ ShownIncidentTitle(ex) \cap ex = {}
        /\ IncidentTitle \cap ex = {} => ShownIncidentTitle(ex) = IncidentTitle
        /\ ShownFreeText(ex) \cap ex = {} /\ Span(ex) \cap ex = {}
    BY LinesTold
  <2>2. Judged
    BY <1>1 DEF IInv, Settled
  <2>3. (IsBrief(picture) \/ IsIncident(picture))
        /\ (IsBrief(picture) <=> picture.kind = "brief")
    BY <2>2, PictureAssumption DEF Judged, IsBrief, IsIncident
  <2>4. ~ composes => phase = "rendered"
    BY <2>2 DEF Judged
  <2>5. ~ composes => Len(shown) = IF picture.kind = "brief" THEN 2 ELSE 1
    <3>1. ~ composes => Len(shown) = Len(doc.sections)
      BY <1>1, <2>4 DEF IInv, Filling, Filled, Shaped
    <3>2. Len(doc.sections) = IF picture.kind = "brief" THEN 2 ELSE 1
      BY <2>2 DEF Judged, Material
    <3> QED
      BY <3>1, <3>2
  <2>6. CASE composes
    <3>1. Told = IF picture.kind = "brief" THEN BriefNarrative ELSE IncidentNarrative
      BY <2>6 DEF Told
    <3>2. BriefNarrative \cap ex = {} /\ IncidentNarrative \cap ex = {}
      BY <2>1 DEF BriefNarrative, IncidentNarrative
    <3>3. picture.risks # <<>> => picture.kind = "brief" /\ RiskTitle \ ex \subseteq BriefNarrative
      BY <2>1, <2>3 DEF IsIncident, BriefNarrative
    <3>4. ShownIncidentTitle(ex) \subseteq IncidentNarrative
      BY DEF IncidentNarrative
    <3> QED
      BY <2>1, <2>6, <3>1, <3>2, <3>3, <3>4
  <2>7. CASE ~ composes
    <3>1. Told = IF picture.kind = "brief" THEN BriefMaterial ELSE IncidentMaterial
      BY <2>7 DEF Told
    <3>2. BriefMaterial \cap ex = {} /\ IncidentMaterial \cap ex = {}
      BY <2>1 DEF BriefMaterial, IncidentMaterial, Line
    <3>3. shown[Len(shown)] > 0 => EventFields \ ex \subseteq Told
      BY <2>1, <2>5, <2>7, <3>1 DEF BriefMaterial, IncidentMaterial, Line
    <3>4. ShownIncidentTitle(ex) \subseteq IncidentMaterial
      BY DEF IncidentMaterial
    <3> QED
      BY <2>1, <2>7, <3>1, <3>2, <3>3, <3>4
  <2> QED
    BY <2>6, <2>7
<1> QED
  BY <1>1, FillingInvariant, PTL
=================================================================================
