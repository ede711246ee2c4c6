------------------------ MODULE WorkbenchDataProofs ------------------------
(***************************************************************************)
(* Proofs about the data behind the pages of the workbench, for any        *)
(* contents of the backend.  Facts about lists of any length are proved by *)
(* induction over a set of numbers.                                        *)
(***************************************************************************)
EXTENDS WorkbenchProofs, FiniteSetTheorems, WellFoundedInduction

-----------------------------------------------------------------------------
(* Induction. *)

\* A set of numbers that is not empty has a least member.
LEMMA LeastNumber ==
  ASSUME NEW T \in SUBSET Nat, T # {}
  PROVE  \E n \in T : \A m \in T : n <= m
<1> DEFINE R == OpToRel(<, Nat)
<1>1. \A x, y \in Nat : x < y => <<x, y>> \in R
  BY DEF OpToRel
<1>2. IsWellFoundedOn(R, Nat)
  BY NatLessThanWellFounded
<1> HIDE DEF R
<1>3. PICK n \in T : \A m \in T : ~ (<<m, n>> \in R)
  BY <1>2, WFMin
<1>4. \A m \in T : ~ (m < n)
  BY <1>1, <1>3
<1> QED
  BY <1>4

\* A set of numbers that holds 0 and with each number the next holds them all.
LEMMA Induction ==
  ASSUME NEW T \in SUBSET Nat, 0 \in T, \A n \in T : n + 1 \in T
  PROVE  T = Nat
<1> SUFFICES ASSUME Nat \ T # {} PROVE FALSE
  OBVIOUS
<1>1. PICK n \in Nat \ T : \A m \in Nat \ T : n <= m
  BY LeastNumber
<1>2. n # 0 /\ n - 1 \in Nat
  BY <1>1
<1>3. n - 1 \in T
  BY <1>1, <1>2
<1> QED
  BY <1>1, <1>2, <1>3

-----------------------------------------------------------------------------
(* The list of events.  In a list that passes some event one comes first, so *)
(* what the command centre shows is listed.                                  *)

\* A list of events as the backend answers.
IsEvents(list) ==
    /\ IsSequence(list)
    /\ \A i \in DOMAIN list : list[i].confidence \in Nat

LEMMA ScoreIsNat ==
  ASSUME NEW list, IsEvents(list)
  PROVE  \A i \in DOMAIN list : L!PriorityScore(list[i]) \in Nat
BY DEF IsEvents, L!PriorityScore, L!TierScore

\* Of any beginning of the list that has events to show, one precedes all.
LEMMA ForemostExists ==
  ASSUME NEW list, NEW f, IsEvents(list), L!Passing(list, f) # {}
  PROVE  \E i \in L!Passing(list, f) :
            \A j \in L!Passing(list, f) : L!Precedes(list, i, j)
<1> DEFINE P == L!Passing(list, f)
           Part(n) == {i \in P : i <= n}
           Best(n, i) == i \in Part(n) /\ \A j \in Part(n) : L!Precedes(list, i, j)
           T == {n \in Nat : Part(n) # {} => \E i \in P : Best(n, i)}
<1>1. /\ Len(list) \in Nat /\ DOMAIN list = 1 .. Len(list) /\ P \subseteq DOMAIN list
      /\ \A i \in P : i \in Nat /\ 1 <= i /\ i <= Len(list)
  BY DEF L!Passing, IsEvents, IsSequence
<1>2. \A i \in P : L!PriorityScore(list[i]) \in Nat
  BY <1>1, ScoreIsNat
<1> HIDE DEF P
<1>3. 0 \in T
  <2>1. Part(0) = {}
    BY <1>1
  <2> QED
    BY <2>1
<1>4. ASSUME NEW n \in T PROVE n + 1 \in T
  <2> SUFFICES ASSUME Part(n + 1) # {} PROVE \E i \in P : Best(n + 1, i)
    OBVIOUS
  <2>1. CASE n + 1 \notin P
    <3>1. Part(n + 1) = Part(n)
      BY <1>1, <2>1
    <3> QED
      BY <3>1
  <2>2. CASE n + 1 \in P /\ Part(n) = {}
    <3>1. Part(n + 1) = {n + 1}
      BY <1>1, <2>2
    <3>2. L!Precedes(list, n + 1, n + 1)
      BY <1>2, <2>2 DEF L!Precedes
    <3> QED
      BY <2>2, <3>1, <3>2
  <2>3. CASE n + 1 \in P /\ Part(n) # {}
    <3>1. PICK i \in P : Best(n, i)
      BY <2>3
    <3>2. Part(n + 1) = Part(n) \cup {n + 1} /\ \A j \in Part(n) : j <= n /\ j \in Nat
      BY <1>1, <2>3
    <3>3. CASE L!PriorityScore(list[n + 1]) <= L!PriorityScore(list[i])
      <4>1. L!Precedes(list, i, n + 1)
        BY <1>2, <2>3, <3>1, <3>2, <3>3 DEF L!Precedes
      <4> QED
        BY <3>1, <3>2, <4>1
    <3>4. CASE L!PriorityScore(list[i]) < L!PriorityScore(list[n + 1])
      <4>1. ASSUME NEW j \in Part(n)
            PROVE  L!Precedes(list, n + 1, j)
        <5>1. L!Precedes(list, i, j) /\ j \in P
          BY <3>1
        <5>2. L!PriorityScore(list[j]) <= L!PriorityScore(list[i])
          BY <1>2, <3>1, <5>1 DEF L!Precedes
        <5> QED
          BY <1>2, <2>3, <3>1, <3>4, <5>1, <5>2 DEF L!Precedes
      <4>2. L!Precedes(list, n + 1, n + 1)
        BY <1>2, <2>3 DEF L!Precedes
      <4> QED
        BY <2>3, <3>2, <4>1, <4>2
    <3> QED
      BY <1>2, <2>3, <3>1, <3>3, <3>4
  <2> QED
    BY <2>1, <2>2, <2>3
<1> HIDE DEF T
<1>5. T = Nat
  <2>1. T \in SUBSET Nat
    BY DEF T
  <2> QED
    BY <1>3, <1>4, <2>1, Induction
<1>6. Part(Len(list)) = P
  BY <1>1
<1>7. \E i \in P : Best(Len(list), i)
  BY <1>1, <1>5, <1>6 DEF T, P
<1> QED
  BY <1>6, <1>7 DEF P

\* What comes first is shown.
LEMMA ForemostIsShown ==
  ASSUME NEW list, NEW f, IsEvents(list), L!Shown(list, f) # {}
  PROVE  L!Foremost(list, f) \in L!Shown(list, f)
<1>1. L!Passing(list, f) # {}
  BY DEF L!Shown
<1> DEFINE i == CHOOSE i \in L!Passing(list, f) :
                   \A j \in L!Passing(list, f) : L!Precedes(list, i, j)
<1>2. i \in L!Passing(list, f)
  BY <1>1, ForemostExists
<1>3. L!Foremost(list, f) = list[i].id
  BY DEF L!Foremost
<1> QED
  BY <1>2, <1>3 DEF L!Shown

\* A draw of the command centre shows a listed event.
LEMMA DrawShowsListed ==
  ASSUME NEW list, NEW f, NEW was, IsEvents(list), L!Draw(list, f, was),
         items' = list, filter' = f
  PROVE  /\ L!DetailIsListed'
         /\ {selected', detail'} \subseteq {was, NoneYet} \cup L!Shown(list, f)
<1>1. CASE L!Shown(list, f) = {}
  BY <1>1 DEF L!Draw, L!Select, L!DetailIsListed
<1>2. CASE L!Shown(list, f) # {}
  <2>1. selected' = detail' /\ selected' \in L!Shown(list, f)
    BY <1>2, ForemostIsShown DEF L!Draw, L!Select, L!Choose
  <2> QED
    BY <1>2, <2>1 DEF L!DetailIsListed
<1> QED
  BY <1>1, <1>2

-----------------------------------------------------------------------------
(* The dashboard: its score. *)

\* The running total of a list is a function: it has a value at every place.
LEMMA RunningTotal ==
  ASSUME NEW cases, NEW k \in Nat
  PROVE  \E sum : sum = [n \in 0 .. k |-> IF n = 0 THEN 0 ELSE sum[n - 1] + cases[n].risk]
<1> DEFINE Eq(f, j) == f = [n \in 0 .. j |-> IF n = 0 THEN 0 ELSE f[n - 1] + cases[n].risk]
           T == {j \in Nat : \E f : Eq(f, j)}
<1>1. 0 \in T
  <2>1. Eq([n \in 0 .. 0 |-> 0], 0)
    OBVIOUS
  <2> QED
    BY <2>1
<1>2. ASSUME NEW j \in T PROVE j + 1 \in T
  <2>1. PICK f : Eq(f, j)
    OBVIOUS
  <2> DEFINE g == [n \in 0 .. j + 1 |->
                      IF n = j + 1 THEN f[j] + cases[j + 1].risk ELSE f[n]]
  <2>2. ASSUME NEW n \in 0 .. j + 1
        PROVE  g[n] = IF n = 0 THEN 0 ELSE g[n - 1] + cases[n].risk
    <3>1. CASE n = j + 1
      BY <3>1
    <3>2. CASE n # j + 1
      BY <2>1, <3>2
    <3> QED
      BY <3>1, <3>2
  <2>3. Eq(g, j + 1)
    BY <2>2
  <2> HIDE DEF g
  <2>4. \E h : Eq(h, j + 1)
    BY <2>3
  <2> QED
    BY <2>4
<1> HIDE DEF T
<1>3. T = Nat
  <2>1. T \in SUBSET Nat
    BY DEF T
  <2> QED
    BY <1>1, <1>2, <2>1, Induction
<1> QED
  BY <1>3 DEF T

\* Cases as the backend answers.
IsCases(cases) ==
    /\ IsSequence(cases)
    /\ \A i \in DOMAIN cases : cases[i].risk \in Nat

LEMMA TotalRiskIsNat ==
  ASSUME NEW cases, IsCases(cases)
  PROVE  D!TotalRisk(cases) \in Nat
<1> DEFINE sum == CHOOSE sum : sum = [n \in 0 .. Len(cases) |->
                                IF n = 0 THEN 0 ELSE sum[n - 1] + cases[n].risk]
<1>1. Len(cases) \in Nat /\ \A i \in 1 .. Len(cases) : cases[i].risk \in Nat
  BY DEF IsCases, IsSequence
<1>2. sum = [n \in 0 .. Len(cases) |-> IF n = 0 THEN 0 ELSE sum[n - 1] + cases[n].risk]
  BY <1>1, RunningTotal
<1>3. D!TotalRisk(cases) = sum[Len(cases)]
  BY DEF D!TotalRisk
<1> HIDE DEF sum
<1> DEFINE T == {n \in Nat : n <= Len(cases) => sum[n] \in Nat}
<1>4. 0 \in T
  BY <1>1, <1>2
<1>5. ASSUME NEW n \in T PROVE n + 1 \in T
  <2>1. CASE n + 1 <= Len(cases)
    <3>1. sum[n + 1] = sum[n] + cases[n + 1].risk
      BY <1>1, <1>2, <2>1
    <3> QED
      BY <1>1, <2>1, <3>1
  <2> QED
    BY <2>1
<1> HIDE DEF T
<1>6. T = Nat
  <2>1. T \in SUBSET Nat
    BY DEF T
  <2> QED
    BY <1>4, <1>5, <2>1, Induction
<1> QED
  BY <1>1, <1>3, <1>6 DEF T

LEMMA RoundedIsNat ==
  ASSUME NEW a \in Nat, NEW b \in Nat
  PROVE  D!Rounded(a, b) \in Nat
<1>1. CASE b = 0
  BY <1>1 DEF D!Rounded
<1>2. CASE b # 0
  <2>1. 2 * a + b \in Nat /\ 2 * b \in Nat \ {0}
    BY <1>2
  <2>2. \A x \in Nat, y \in Nat \ {0} : x \div y \in Nat
    OBVIOUS
  <2> QED
    BY <1>2, <2>1, <2>2 DEF D!Rounded
<1> QED
  BY <1>1, <1>2

LEMMA RiskScoreRange ==
  ASSUME NEW o, NEW cases, IsCases(cases), o.highSeverityAlerts \in Nat,
         o.activeIncidents \in Nat, o.eventizationRate \in Nat
  PROVE  D!RiskScore(o, cases) \in 0 .. 100
<1> DEFINE weighted == 100 * (8 * D!Least(o.highSeverityAlerts, 5)
                              + 8 * D!Least(o.activeIncidents, 5)
                              + D!Least(o.highSeverityAlerts, 10))
                       + 12 * D!Least(o.eventizationRate, 100)
           mean == D!Rounded(D!TotalRisk(cases), Len(cases))
<1>1. Len(cases) \in Nat
  BY DEF IsCases, IsSequence
<1>2. mean \in Nat
  BY <1>1, TotalRiskIsNat, RoundedIsNat
<1>3. weighted \in Nat
  <2>1. \A a, b \in Nat : D!Least(a, b) \in Nat
    BY DEF D!Least
  <2>2. /\ D!Least(o.highSeverityAlerts, 5) \in Nat /\ D!Least(o.activeIncidents, 5) \in Nat
        /\ D!Least(o.highSeverityAlerts, 10) \in Nat
        /\ D!Least(o.eventizationRate, 100) \in Nat
    BY <2>1
  <2>3. \A a, b, c, d \in Nat : 100 * (8 * a + 8 * b + c) + 12 * d \in Nat
    OBVIOUS
  <2> QED
    BY <2>2, <2>3
<1>4. D!Rounded(weighted, 100) \in Nat
  <2> HIDE DEF weighted
  <2> QED
    BY <1>3, RoundedIsNat
<1>5. D!RiskScore(o, cases) = D!Least(100, D!Most(mean, D!Rounded(weighted, 100)))
  BY DEF D!RiskScore
<1> HIDE DEF mean, weighted
<1> QED
  BY <1>2, <1>4, <1>5 DEF D!Least, D!Most

-----------------------------------------------------------------------------
(* The dashboard: its counts and its map. *)

\* The counts of the dashboard are those of the library.
LEMMA SameCardinality == \A S : D!Cardinality(S) = Cardinality(S)
BY DEF D!Cardinality, Cardinality

\* Worlds and Lists are told by moments.
LEMMA MomentsFacts ==
  /\ Len(Worlds) \in Nat \ {0} /\ D!Moments = 1 .. Len(Worlds)
  /\ DOMAIN Lists = D!Moments
<1>1. /\ Worlds \in Seq({Worlds[i] : i \in DOMAIN Worlds})
      /\ Lists \in Seq({Lists[i] : i \in DOMAIN Lists})
      /\ Len(Worlds) > 0 /\ Len(Worlds) = Len(Lists)
  BY WorkbenchAssumption DEF IsSequence
<1>2. Len(Worlds) \in Nat
  BY <1>1
<1>3. DOMAIN Lists = 1 .. Len(Lists)
  BY <1>1
<1> QED
  BY <1>1, <1>2, <1>3 DEF D!Moments

\* What the backend holds at a moment.
LEMMA MomentContents ==
  ASSUME NEW t \in D!Moments
  PROVE  /\ IsCases(D!Cases(t)) /\ IsSequence(D!Events(t)) /\ IsEvents(Lists[t])
         /\ t \in DOMAIN Lists
<1>1. t \in 1 .. Len(Worlds)
  BY MomentsFacts
<1>2. IsCases(D!Cases(t)) /\ IsSequence(D!Events(t)) /\ IsEvents(Lists[t])
  BY <1>1, ContentsAssumption DEF D!Cases, D!Events, IsCases, IsEvents
<1> QED
  BY <1>2, MomentsFacts

LEMMA PlacesAreFinite ==
  ASSUME NEW s, IsSequence(s), NEW P \in SUBSET (DOMAIN s)
  PROVE  IsFiniteSet(P) /\ Cardinality(P) \in Nat
<1>1. Len(s) \in Nat /\ DOMAIN s = 1 .. Len(s)
  BY DEF IsSequence
<1>2. IsFiniteSet(1 .. Len(s))
  BY <1>1, FS_Interval
<1>3. IsFiniteSet(P)
  BY <1>1, <1>2, FS_Subset
<1> QED
  BY <1>3, FS_CardinalityType

LEMMA OverviewFacts ==
  ASSUME NEW s \in D!Moments, NEW t \in D!Moments, NEW i \in D!Moments, NEW window
  PROVE  LET o == D!Overview(s, t, i, window) IN
         /\ o.window = window
         /\ o.highSeverityAlerts = D!Summary(s).highSeverityEvents
         /\ o.highSeverityAlerts \in Nat
         /\ o.activeIncidents = Cardinality(D!Active(i))
         /\ o.activeIncidents \in Nat
         /\ o.eventizationRate \in Nat
         /\ o.p1 = D!Urgent(i, "P1") /\ o.p2 = D!Urgent(i, "P2") /\ o.p3 = D!Urgent(i, "P3")
<1> DEFINE o == D!Overview(s, t, i, window)
           attacks(m) == {k \in DOMAIN D!Events(m) : D!Events(m)[k].attack}
           high(m) == {k \in DOMAIN D!Events(m) : D!Events(m)[k].high}
<1>1. \A m \in D!Moments :
        Cardinality(attacks(m)) \in Nat /\ Cardinality(high(m)) \in Nat /\ Len(D!Events(m)) \in Nat
  <2>1. ASSUME NEW m \in D!Moments
        PROVE  /\ Cardinality(attacks(m)) \in Nat /\ Cardinality(high(m)) \in Nat
               /\ Len(D!Events(m)) \in Nat
    <3>1. IsSequence(D!Events(m))
      BY MomentContents
    <3>2. attacks(m) \in SUBSET (DOMAIN D!Events(m)) /\ high(m) \in SUBSET (DOMAIN D!Events(m))
      OBVIOUS
    <3> HIDE DEF attacks, high
    <3>3. Cardinality(attacks(m)) \in Nat /\ Cardinality(high(m)) \in Nat
      BY <3>1, <3>2, PlacesAreFinite
    <3>4. Len(D!Events(m)) \in Nat
      BY <3>1 DEF IsSequence
    <3> QED
      BY <3>3, <3>4
  <2> QED
    BY <2>1
<1>2. /\ D!Summary(s).eventCount = Len(D!Events(s))
      /\ D!Summary(s).confirmedAttacks = Cardinality(attacks(s))
      /\ D!Summary(s).highSeverityEvents = Cardinality(high(s))
  BY SameCardinality DEF D!Summary, D!Count
<1> DEFINE confirmed == D!Or(D!Summary(s).confirmedAttacks, Cardinality(attacks(t)))
           count == D!Or(D!Summary(s).eventCount, Len(D!Events(t)))
<1>3. /\ o.window = window
      /\ o.highSeverityAlerts = D!Summary(s).highSeverityEvents
      /\ o.activeIncidents = Cardinality(D!Active(i))
      /\ o.eventizationRate = D!Rounded(100 * confirmed, count)
      /\ o.p1 = D!Urgent(i, "P1") /\ o.p2 = D!Urgent(i, "P2") /\ o.p3 = D!Urgent(i, "P3")
  BY SameCardinality DEF D!Overview, D!Count
<1>4. o.highSeverityAlerts \in Nat
  BY <1>1, <1>2, <1>3
<1>5. o.activeIncidents \in Nat
  <2>1. IsSequence(D!Cases(i))
    BY MomentContents DEF IsCases
  <2>2. D!Active(i) \in SUBSET (DOMAIN D!Cases(i))
    BY DEF D!Active
  <2>3. Cardinality(D!Active(i)) \in Nat
    BY <2>1, <2>2, PlacesAreFinite
  <2> QED
    BY <1>3, <2>3
<1>6. o.eventizationRate \in Nat
  <2>1. confirmed \in Nat /\ count \in Nat
    BY <1>1, <1>2 DEF D!Or
  <2> HIDE DEF confirmed, count
  <2>2. 100 * confirmed \in Nat
    BY <2>1
  <2> QED
    BY <1>3, <2>1, <2>2, RoundedIsNat
<1> QED
  BY <1>3, <1>4, <1>5, <1>6

LEMMA DisjointUnion ==
  ASSUME NEW S, NEW T, IsFiniteSet(S), IsFiniteSet(T), S \cap T = {}
  PROVE  /\ IsFiniteSet(S \cup T)
         /\ Cardinality(S \cup T) = Cardinality(S) + Cardinality(T)
<1>1. Cardinality(S \cap T) = 0
  BY FS_EmptySet
<1>2. Cardinality(S) \in Nat /\ Cardinality(T) \in Nat
  BY FS_CardinalityType
<1>3. /\ IsFiniteSet(S \cup T)
      /\ Cardinality(S \cup T) = Cardinality(S) + Cardinality(T) - Cardinality(S \cap T)
  BY FS_Union
<1> QED
  BY <1>1, <1>2, <1>3

\* The open cases of the three priorities are different ones.
LEMMA UrgentIsPart ==
  ASSUME NEW i \in D!Moments
  PROVE  D!Urgent(i, "P1") + D!Urgent(i, "P2") + D!Urgent(i, "P3") <= Cardinality(D!Active(i))
<1> DEFINE A == D!Active(i)
           U(p) == {k \in A : D!Cases(i)[k].priority = p}
<1>1. IsFiniteSet(A)
  <2>1. IsSequence(D!Cases(i)) /\ A \in SUBSET (DOMAIN D!Cases(i))
    BY MomentContents DEF IsCases, D!Active
  <2> HIDE DEF A
  <2> QED
    BY <2>1, PlacesAreFinite
<1>2. /\ U("P1") \in SUBSET A /\ U("P2") \in SUBSET A /\ U("P3") \in SUBSET A
      /\ U("P1") \cap U("P2") = {} /\ (U("P1") \cup U("P2")) \cap U("P3") = {}
  OBVIOUS
<1>3. \A p : D!Urgent(i, p) = Cardinality(U(p))
  BY SameCardinality DEF D!Urgent
<1> HIDE DEF A, U
<1> DEFINE V == U("P1") \cup U("P2")
           W == V \cup U("P3")
<1>4. /\ IsFiniteSet(U("P1")) /\ IsFiniteSet(U("P2")) /\ IsFiniteSet(U("P3"))
  BY <1>1, <1>2, FS_Subset
<1>5. /\ Cardinality(U("P1")) \in Nat /\ Cardinality(U("P2")) \in Nat
      /\ Cardinality(U("P3")) \in Nat
  BY <1>4, FS_CardinalityType
<1>6. IsFiniteSet(V) /\ Cardinality(V) = Cardinality(U("P1")) + Cardinality(U("P2"))
  BY <1>2, <1>4, DisjointUnion
<1>7. Cardinality(W) = Cardinality(V) + Cardinality(U("P3"))
  <2> HIDE DEF V
  <2>1. V \cap U("P3") = {}
    BY <1>2 DEF V
  <2> QED
    BY <1>4, <1>6, <2>1, DisjointUnion
<1>8. W \in SUBSET A
  BY <1>2
<1>9. Cardinality(W) <= Cardinality(A)
  <2> HIDE DEF W
  <2> QED
    BY <1>1, <1>8, FS_Subset
<1> QED
  BY <1>3, <1>5, <1>6, <1>7, <1>9, SameCardinality DEF A

\* A function has no more values than places.
LEMMA ValuesAtMostPlaces ==
  ASSUME NEW f, NEW S, IsFiniteSet(S), f = [x \in S |-> f[x]]
  PROVE  LET T == {f[x] : x \in S} IN IsFiniteSet(T) /\ Cardinality(T) <= Cardinality(S)
<1> DEFINE T == {f[x] : x \in S}
<1>1. f \in [S -> T] /\ \A y \in T : \E x \in S : f[x] = y
  OBVIOUS
<1>2. f \in Surjection(S, T)
  BY <1>1 DEF Surjection
<1> HIDE DEF T
<1>3. IsFiniteSet(T) /\ Cardinality(T) <= Cardinality(S)
  BY <1>2, FS_Surjection
<1> QED
  BY <1>3 DEF T

LEMMA FirstFacts ==
  ASSUME NEW s, IsSequence(s), NEW n \in Nat
  PROVE  /\ IsSequence(D!First(n, s))
         /\ Len(D!First(n, s)) = D!Least(n, Len(s))
         /\ D!Least(n, Len(s)) \in Nat
         /\ Len(D!Ids(D!First(n, s))) = D!Least(n, Len(s))
<1> DEFINE m == D!Least(n, Len(s))
           S == {s[i] : i \in DOMAIN s}
           u == D!First(n, s)
<1>1. s \in Seq(S) /\ Len(s) \in Nat
  BY DEF IsSequence
<1>2. m \in Nat /\ m <= Len(s)
  BY <1>1 DEF D!Least
<1>3. u = SubSeq(s, 1, m)
  BY DEF D!First
<1> HIDE DEF m, S, u
<1>4. u \in Seq(S) /\ Len(u) = m
  BY <1>1, <1>2, <1>3
<1>5. DOMAIN u = 1 .. m
  BY <1>2, <1>4
<1>6. u \in Seq({u[i] : i \in DOMAIN u})
  BY <1>2, <1>4, <1>5
<1>7. Len(D!Ids(u)) = m
  <2>1. D!Ids(u) = [i \in 1 .. m |-> u[i].id]
    BY <1>5 DEF D!Ids
  <2> QED
    BY <1>2, <2>1
<1> QED
  BY <1>2, <1>4, <1>6, <1>7 DEF m, u, IsSequence

\* The map of the first four cases and the list of the first five.
LEMMA TopologyIsGraph ==
  ASSUME NEW cases, IsSequence(cases), data.topology = D!Topology(cases),
         data.incidents = D!Ids(D!First(5, cases))
  PROVE  D!MapIsGraph
<1> DEFINE four == D!First(4, cases)
           I == DOMAIN four
           located == {i \in I : D!OnMap(four, i)}
           source == [i \in located |-> <<"source", four[i].source>>]
           target == [i \in I |-> <<"target", four[i].target>>]
           sources == {source[i] : i \in located}
           targets == {target[i] : i \in I}
           t == data.topology
<1>1. /\ Len(four) = D!Least(4, Len(cases)) /\ I = 1 .. Len(four)
      /\ Len(four) \in Nat /\ Len(four) <= 4
      /\ D!Least(4, Len(data.incidents)) = Len(four)
  <2>1. /\ IsSequence(four) /\ Len(four) = D!Least(4, Len(cases))
        /\ Len(data.incidents) = D!Least(5, Len(cases))
    BY FirstFacts
  <2>2. Len(cases) \in Nat /\ I = 1 .. Len(four)
    BY <2>1 DEF IsSequence
  <2> HIDE DEF four
  <2> QED
    BY <2>1, <2>2 DEF D!Least
<1>2. IsFiniteSet(I) /\ Cardinality(I) = Len(four)
  <2> HIDE DEF four
  <2> QED
    BY <1>1, FS_Interval
<1>3. located \in SUBSET I /\ I \ located \in SUBSET I
  OBVIOUS
<1>4. /\ t.nodes = sources \cup targets
      /\ t.links = [i \in located |-> [from |-> source[i], to |-> target[i]]]
      /\ t.suppressed = Cardinality(I \ located)
  BY SameCardinality DEF D!Topology, D!Linked
<1> HIDE DEF four, I, located, t
<1>5. IsFiniteSet(located) /\ Cardinality(located) \in Nat /\ Cardinality(located) <= Len(four)
  BY <1>2, <1>3, FS_Subset, FS_CardinalityType
<1>6. Cardinality(located) + Cardinality(I \ located) = Len(four)
  <2>1. IsFiniteSet(I \ located)
    BY <1>2, <1>3, FS_Subset
  <2>2. located \cap (I \ located) = {} /\ located \cup (I \ located) = I
    BY <1>3
  <2>3. Cardinality(located \cup (I \ located)) = Cardinality(located) + Cardinality(I \ located)
    BY <1>5, <2>1, <2>2, DisjointUnion
  <2> QED
    BY <1>2, <2>2, <2>3
<1>7. Cardinality(sources \cup targets) <= 8
  <2>1. IsFiniteSet(sources) /\ Cardinality(sources) <= Cardinality(located)
    <3>1. source = [i \in located |-> source[i]]
      OBVIOUS
    <3> HIDE DEF source
    <3> QED
      BY <1>5, <3>1, ValuesAtMostPlaces
  <2>2. IsFiniteSet(targets) /\ Cardinality(targets) <= Cardinality(I)
    <3>1. target = [i \in I |-> target[i]]
      OBVIOUS
    <3> HIDE DEF target
    <3> QED
      BY <1>2, <3>1, ValuesAtMostPlaces
  <2> HIDE DEF sources, targets
  <2>3. /\ Cardinality(sources) \in Nat /\ Cardinality(targets) \in Nat
        /\ Cardinality(sources \cap targets) \in Nat
    <3>1. sources \cap targets \in SUBSET sources
      OBVIOUS
    <3>2. IsFiniteSet(sources \cap targets)
      BY <2>1, <3>1, FS_Subset
    <3> QED
      BY <2>1, <2>2, <3>2, FS_CardinalityType
  <2>4. Cardinality(sources \cup targets)
          = Cardinality(sources) + Cardinality(targets) - Cardinality(sources \cap targets)
    BY <2>1, <2>2, FS_Union
  <2> QED
    BY <1>1, <1>2, <1>5, <2>1, <2>2, <2>3, <2>4
<1>8. \A i \in DOMAIN t.links : {t.links[i].from, t.links[i].to} \subseteq t.nodes
  <2>1. ASSUME NEW i \in located
        PROVE  source[i] \in sources /\ target[i] \in targets
    BY <1>3
  <2> HIDE DEF source, target, sources, targets
  <2> QED
    BY <1>4, <2>1
<1>9. Cardinality(DOMAIN t.links) + t.suppressed = D!Least(4, Len(data.incidents))
  <2>1. DOMAIN t.links = located
    BY <1>4
  <2> QED
    BY <1>1, <1>4, <1>6, <2>1
<1> HIDE DEF source, target, sources, targets
<1> QED
  BY <1>4, <1>7, <1>8, <1>9, SameCardinality DEF D!MapIsGraph, t

\* No map and no case is a graph, too.
LEMMA NoTopologyIsGraph ==
  ASSUME data.topology = D!NoTopology, data.incidents = <<>>
  PROVE  D!MapIsGraph
<1>1. /\ data.topology.nodes = {} /\ data.topology.links = <<>>
      /\ data.topology.suppressed = 0
  BY DEF D!NoTopology
<1>2. Cardinality({}) = 0
  BY FS_EmptySet
<1>3. D!Least(4, Len(data.incidents)) = 0
  BY DEF D!Least
<1>4. DOMAIN data.topology.links = {}
  BY <1>1
<1> QED
  BY <1>1, <1>2, <1>3, <1>4, SameCardinality DEF D!MapIsGraph

\* dashboardData keeps its fields, its score is in range and named by its label.
DataTyped ==
    /\ DOMAIN data = DOMAIN D!NewData
    /\ data.liveTelemetryLoaded \in BOOLEAN
    /\ data.observationWindowMinutes \in Windows
    /\ data.riskScore \in 0 .. 100
    /\ data.riskStatus = D!SeverityLabelFromScore(data.riskScore)

\* What a load that is answered leaves is one picture, and its score in range.
LEMMA LoadDoneFacts ==
  ASSUME now \in D!Moments, NEW l \in Slots, NEW s, NEW t, NEW i,
         load[l].sent \in 1 .. now, load[l].window \in Windows, D!LoadDone(l, s, t, i),
         now' = now
  PROVE  D!OnePicture' /\ DataTyped'
<1> DEFINE o == D!Overview(s, t, i, load[l].window)
           score == D!RiskScore(o, D!Cases(i))
<1>1. /\ now \in Nat
      /\ s \in D!Moments /\ t \in D!Moments /\ i \in D!Moments
      /\ s \in 1 .. now /\ i \in 1 .. now
  <2>1. Len(Worlds) \in Nat /\ D!Moments = 1 .. Len(Worlds)
    BY MomentsFacts
  <2>2. s \in load[l].sent .. now /\ t \in load[l].sent .. now /\ i \in load[l].sent .. now
    BY DEF D!LoadDone
  <2> QED
    BY <2>1, <2>2
<1>2. /\ data'.liveTelemetryLoaded = TRUE
      /\ data'.observationWindowMinutes = o.window
      /\ data'.riskScore = score
      /\ data'.riskStatus = D!SeverityLabelFromScore(score)
      /\ data'.riskDrivers = D!Drivers(o)
      /\ data'.kpis = D!Kpis(o)
      /\ data'.topology = D!Topology(D!Cases(i))
      /\ data'.ticker = D!Ids(D!First(5, D!Summary(s).recentAlerts))
      /\ data'.incidents = D!Ids(D!First(5, D!Cases(i)))
      /\ DOMAIN data' = DOMAIN D!NewData
  BY DEF D!LoadDone, D!NewData
<1>3. /\ o.window = load[l].window
      /\ o.highSeverityAlerts = D!Summary(s).highSeverityEvents
      /\ o.highSeverityAlerts \in Nat
      /\ o.activeIncidents = Cardinality(D!Active(i))
      /\ o.activeIncidents \in Nat
      /\ o.eventizationRate \in Nat
      /\ o.p1 = D!Urgent(i, "P1") /\ o.p2 = D!Urgent(i, "P2") /\ o.p3 = D!Urgent(i, "P3")
  BY <1>1, OverviewFacts
<1> HIDE DEF o
<1>4. score \in 0 .. 100
  BY <1>1, <1>3, MomentContents, RiskScoreRange
<1>5. /\ data'.riskDrivers[1] = o.highSeverityAlerts
      /\ data'.riskDrivers[2] = o.activeIncidents
      /\ data'.kpis.openAlerts = o.highSeverityAlerts
      /\ data'.kpis.p1 = o.p1 /\ data'.kpis.p2 = o.p2 /\ data'.kpis.p3 = o.p3
  BY <1>2 DEF D!Drivers, D!Kpis
<1>6. data'.kpis.p1 + data'.kpis.p2 + data'.kpis.p3 <= Cardinality(D!Active(i))
  BY <1>1, <1>3, <1>5, UrgentIsPart
<1>7. D!OnePicture'
  BY <1>1, <1>2, <1>3, <1>5, <1>6, SameCardinality DEF D!OnePicture
<1> QED
  BY <1>2, <1>3, <1>4, <1>7 DEF DataTyped

-----------------------------------------------------------------------------
(* The tables: a handler draws panels of its own page only. *)

Within(P, H) == \A n \in 1 .. Len(H) : H[n].draws \subseteq DOMAIN P

LEMMA OneWithin ==
  ASSUME NEW P, NEW W, NEW V, V \subseteq DOMAIN P
  PROVE  Within(P, <<Segment(W, V)>>) /\ Within(P, Sync(W, V))
BY DEF Within, Sync, Segment

LEMMA TwoWithin ==
  ASSUME NEW P, NEW S, NEW T, S.draws \subseteq DOMAIN P, T.draws \subseteq DOMAIN P
  PROVE  Within(P, <<S, T>>) /\ Within(P, <<S>> \o <<T>>)
<1>1. Within(P, <<S, T>>)
  BY DEF Within
<1> DEFINE H == <<S>> \o <<T>>
<1>2. Len(H) = 2 /\ H[1] = S /\ H[2] = T
  OBVIOUS
<1> HIDE DEF H
<1>3. Within(P, H)
  BY <1>2 DEF Within
<1> QED
  BY <1>1, <1>3 DEF H

LEMMA ThreeWithin ==
  ASSUME NEW P, NEW S, NEW T, NEW U,
         S.draws \subseteq DOMAIN P, T.draws \subseteq DOMAIN P, U.draws \subseteq DOMAIN P
  PROVE  /\ Within(P, <<S, T, U>>) /\ Within(P, <<S, T>> \o <<U>>)
         /\ Within(P, <<S>> \o <<T, U>>)
<1>1. Within(P, <<S, T, U>>)
  BY DEF Within
<1>2. ASSUME NEW H, Len(H) = 3, H[1] = S, H[2] = T, H[3] = U
      PROVE  Within(P, H)
  BY <1>2 DEF Within
<1> DEFINE G == <<S, T>> \o <<U>>
           K == <<S>> \o <<T, U>>
<1>3. Len(G) = 3 /\ G[1] = S /\ G[2] = T /\ G[3] = U
  OBVIOUS
<1>4. Len(K) = 3 /\ K[1] = S /\ K[2] = T /\ K[3] = U
  OBVIOUS
<1> HIDE DEF G, K
<1>5. Within(P, G) /\ Within(P, K)
  BY <1>2, <1>3, <1>4
<1> QED
  BY <1>1, <1>5 DEF G, K

LEMMA SegmentDraws == \A W, V : Segment(W, V).draws = V
BY DEF Segment

LEMMA SegmentsWithin ==
  ASSUME NEW P, NEW W1, NEW V1, NEW W2, NEW V2, V1 \subseteq DOMAIN P, V2 \subseteq DOMAIN P
  PROVE  Within(P, <<Segment(W1, V1), Segment(W2, V2)>>)
BY TwoWithin, SegmentDraws

LEMMA ThreeSegmentsWithin ==
  ASSUME NEW P, NEW W1, NEW V1, NEW W2, NEW V2, NEW W3, NEW V3,
         V1 \subseteq DOMAIN P, V2 \subseteq DOMAIN P, V3 \subseteq DOMAIN P
  PROVE  Within(P, <<Segment(W1, V1), Segment(W2, V2), Segment(W3, V3)>>)
BY ThreeWithin, SegmentDraws

LEMMA LoadWithin ==
  ASSUME NEW P, NEW W, NEW V, V \subseteq DOMAIN P
  PROVE  Within(P, LoadThenDraw(W, V))
BY TwoWithin, SegmentDraws DEF LoadThenDraw, Nothing

PageWithin(p) == \A h \in DOMAIN Handlers[p] : Within(Panels[p], Handler(p, h))

LEMMA DashboardWithin == PageWithin("dashboard")
<1> DEFINE P == DashboardPanels
<1>1. Tail(RefreshDashboardPage) = <<Segment(LoadDashboard, DOMAIN P)>>
  BY DEF RefreshDashboardPage, LoadThenDraw
<1>2. Within(P, PressWindow) /\ Within(P, PressSentinelWindow)
  <2>1. {"DashboardWindowToggle"} \subseteq DOMAIN P /\ {} \subseteq DOMAIN P
    BY DEF DashboardPanels
  <2> HIDE DEF P
  <2>2. ASSUME NEW W, NEW V \in SUBSET DOMAIN P
        PROVE  Within(P, <<Segment(W, V)>> \o <<Segment(LoadDashboard, DOMAIN P)>>)
    BY TwoWithin, SegmentDraws
  <2>3. ASSUME NEW W, NEW V \in SUBSET DOMAIN P
        PROVE  Within(P, <<Segment(W, V)>> \o Tail(RefreshDashboardPage))
    BY <1>1, <2>2
  <2> QED
    BY <2>1, <2>3 DEF PressWindow, PressSentinelWindow
<1>3. Within(P, InitDashboardPage) /\ Within(P, RefreshDashboardPage)
  BY LoadWithin DEF InitDashboardPage, RefreshDashboardPage
<1>4. Within(P, Sync({}, {"ThreatTrend"}))
  BY OneWithin DEF DashboardPanels
<1>5. Panels["dashboard"] = P /\ Handlers["dashboard"] = DashboardHandlers
  BY DEF Panels, Handlers
<1> HIDE DEF P
<1> QED
  BY <1>2, <1>3, <1>4, <1>5 DEF PageWithin, Handler, DashboardHandlers

LEMMA IncidentsWithin == PageWithin("incidents")
<1> DEFINE P == IncidentPanels
<1>1. /\ DrawLedger \subseteq DOMAIN P
      /\ Within(P, Sync({"selectedEventId"}, {"IncidentCommandCenter"}))
  BY OneWithin DEF DrawLedger, IncidentPanels
<1>2. Panels["incidents"] = P /\ Handlers["incidents"] = IncidentHandlers
  BY DEF Panels, Handlers
<1> HIDE DEF P
<1>3. Within(P, LoadThenDraw(LoadIncidentEventLedger, DrawLedger))
  BY <1>1, LoadWithin
<1>4. \A W : Within(P, Sync(W, DrawLedger))
  BY <1>1, OneWithin
<1>5. Within(P, PressStatus)
  BY <1>1, ThreeWithin, SegmentDraws DEF PressStatus, LoadThenDraw, Nothing
<1> QED
  BY <1>1, <1>2, <1>3, <1>4, <1>5 DEF PageWithin, Handler, IncidentHandlers

LEMMA ResponseWithin == PageWithin("response")
<1> DEFINE P == ResponsePanels
           Feedback == {"FeedbackSummary", "FeedbackFlow"}
<1>1. /\ Workflow \subseteq DOMAIN P /\ AfterFeedback \subseteq DOMAIN P
      /\ Feedback \subseteq DOMAIN P /\ {"FeedbackFlow"} \subseteq DOMAIN P
      /\ {"ResponseTimeline"} \subseteq DOMAIN P /\ {} \subseteq DOMAIN P
      /\ DOMAIN ResponsePanels \subseteq DOMAIN P
  BY DEF Workflow, AfterFeedback, ResponsePanels
<1>2. Panels["response"] = P /\ Handlers["response"] = ResponseHandlers
  BY DEF Panels, Handlers
<1> HIDE DEF P
<1>3. Within(P, InitNoCase) /\ Within(P, InitNoDetail) /\ Within(P, InitCase)
  BY <1>1, TwoWithin, ThreeWithin, SegmentDraws
     DEF InitNoCase, InitNoDetail, InitCase, InitResponse, Nothing
<1>4. Within(P, AssigneeSent) /\ Within(P, FirewallAction) /\ Within(P, ArtifactAction)
  BY <1>1, SegmentsWithin DEF AssigneeSent, FirewallAction, ArtifactAction
<1>5. Within(P, SubmitFeedback) /\ Within(P, SubmitFeedbackNoCase)
  BY <1>1, TwoWithin, ThreeWithin, SegmentDraws
     DEF SubmitFeedback, SubmitFeedbackNoCase, Nothing
<1>6. /\ \A W : Within(P, Sync(W, Workflow)) /\ Within(P, Sync(W, Feedback))
      /\ \A W : Within(P, Sync(W, {"FeedbackFlow"})) /\ Within(P, Sync(W, {"ResponseTimeline"}))
  BY <1>1, OneWithin
<1>7. /\ Within(P, AssigneeOnly) /\ Within(P, RecommendedAction) /\ Within(P, ArtifactNoCase)
      /\ Within(P, PressFeedback) /\ \A f : Within(P, TogglePool(f))
  BY <1>6 DEF AssigneeOnly, RecommendedAction, ArtifactNoCase, PressFeedback, TogglePool
<1> QED
  BY <1>2, <1>3, <1>4, <1>5, <1>6, <1>7 DEF PageWithin, Handler, ResponseHandlers

LEMMA InsightsWithin == PageWithin("insights")
<1> DEFINE P == InsightsPanels
<1>1. Within(P, PressStage) /\ Within(P, Sync({}, {"DriftCanvas", "ComparisonCanvas"}))
  BY OneWithin DEF PressStage, InsightsPanels
<1>2. Within(P, InitInsightsPage)
  BY LoadWithin DEF InitInsightsPage
<1>3. Panels["insights"] = P /\ Handlers["insights"] = InsightsHandlers
  BY DEF Panels, Handlers
<1> HIDE DEF P
<1> QED
  BY <1>1, <1>2, <1>3 DEF PageWithin, Handler, InsightsHandlers

LEMMA ReportsWithin == PageWithin("reports")
<1> DEFINE P == ReportsPanels
<1>1. {"ReportPreview"} \subseteq DOMAIN P /\ {"ReportHistory"} \subseteq DOMAIN P
  BY DEF ReportsPanels
<1>2. Panels["reports"] = P /\ Handlers["reports"] = ReportsHandlers
      /\ DOMAIN P = DOMAIN ReportsPanels
  BY DEF Panels, Handlers
<1> HIDE DEF P
<1>3. \A W : Within(P, Sync(W, {"ReportPreview"}))
  BY <1>1, OneWithin
<1>4. Within(P, ExportDone) /\ Within(P, LoadReportsEmpty)
  BY <1>1, <1>2, LoadWithin DEF ExportDone, LoadReportsEmpty
<1>5. Within(P, ExportRefused)
  BY TwoWithin, SegmentDraws DEF ExportRefused, Nothing
<1>6. Within(P, LoadReports)
  BY <1>2, ThreeSegmentsWithin DEF LoadReports, Nothing
<1> QED
  BY <1>2, <1>3, <1>4, <1>5, <1>6 DEF PageWithin, Handler, ReportsHandlers

LEMMA LearningWithin == PageWithin("learning")
<1> DEFINE P == LearningPanels
<1>1. /\ {"LearningQueueSummary", "LearningQueueTables"} \subseteq DOMAIN P
      /\ {"LearningQueueFlow"} \subseteq DOMAIN P
  BY DEF LearningPanels
<1>2. Panels["learning"] = P /\ Handlers["learning"] = LearningHandlers
      /\ DOMAIN P = DOMAIN LearningPanels
  BY DEF Panels, Handlers
<1> HIDE DEF P
<1>3. Within(P, FilterLearning) /\ Within(P, Sync({"actionLog"}, {"LearningQueueFlow"}))
  BY <1>1, OneWithin DEF FilterLearning
<1>4. Within(P, ExportCandidates) /\ Within(P, LoadThenDraw(LoadLearningQueue, DOMAIN LearningPanels))
  BY <1>1, <1>2, LoadWithin DEF ExportCandidates
<1> QED
  BY <1>2, <1>3, <1>4 DEF PageWithin, Handler, LearningHandlers

LEMMA SettingsWithin == PageWithin("settings")
<1> DEFINE P == SettingsPanels
<1>1. Panels["settings"] = P /\ Handlers["settings"] = SettingsHandlers
      /\ DOMAIN P = DOMAIN SettingsPanels
  BY DEF Panels, Handlers
<1> HIDE DEF P
<1>2. \A B : Within(P, LoadSettings(B))
  BY <1>1, SegmentsWithin DEF LoadSettings
<1> QED
  BY <1>1, <1>2 DEF PageWithin, Handler, SettingsHandlers

LEMMA IntakeWithin == PageWithin("intake")
<1> DEFINE P == IntakePanels
<1>1. DOMAIN P = {"SourceCards", "StrategySummary", "LatestAnalysis", "Terminal"}
  BY DEF IntakePanels
<1>2. Panels["intake"] = P /\ Handlers["intake"] = IntakeHandlers
      /\ DOMAIN P = DOMAIN IntakePanels
  BY DEF Panels, Handlers
<1> HIDE DEF P
<1>3. \A W, V : V \subseteq DOMAIN P => PushIntakeLog(W, V).draws \subseteq DOMAIN P
  BY <1>1, SegmentDraws DEF PushIntakeLog
<1>4. /\ {} \subseteq DOMAIN P /\ {"LatestAnalysis"} \subseteq DOMAIN P
      /\ {"StrategySummary"} \subseteq DOMAIN P
      /\ {"SourceCards", "StrategySummary"} \subseteq DOMAIN P
  BY <1>1
<1>5. \A S : S.draws \subseteq DOMAIN P => Within(P, <<S>>)
  BY DEF Within
<1>6. Within(P, PressSource) /\ Within(P, UpdateConfig) /\ Within(P, <<PushIntakeLog({}, {})>>)
  BY <1>3, <1>4, <1>5 DEF PressSource, UpdateConfig
<1>7. Within(P, UploadDone) /\ Within(P, UploadFails)
  BY <1>3, <1>4, TwoWithin DEF UploadDone, UploadFails, UploadBegins
<1>8. Within(P, InitIntakePage)
  BY <1>2, SegmentsWithin DEF InitIntakePage
<1> QED
  BY <1>2, <1>6, <1>7, <1>8 DEF PageWithin, Handler, IntakeHandlers

LEMMA AllWithin == \A p \in Pages : PageWithin(p)
<1>1. Pages = {"dashboard", "incidents", "response", "insights", "reports", "learning",
               "settings", "intake"}
  BY DEF Pages, Panels
<1> QED
  BY <1>1, DashboardWithin, IncidentsWithin, ResponseWithin, InsightsWithin,
     ReportsWithin, LearningWithin, SettingsWithin, IntakeWithin

-----------------------------------------------------------------------------
(* The invariant. *)

\* A handler waiting on the dashboard waits for a load that was sent before.
LoadsAreSent ==
    page = "dashboard" =>
        \A s \in Slots : running[s] # Idle =>
            load[s].sent \in 1 .. now /\ load[s].window \in Windows

DashboardInv ==
    /\ load = [s \in Slots |-> load[s]]
    /\ DOMAIN data = DOMAIN D!NewData
    /\ LoadsAreSent
    /\ D!DashboardTypeOK
    /\ D!OnePicture

LedgerInv ==
    /\ request = [s \in Slots |-> request[s]]
    /\ L!LedgerTypeOK
    /\ L!DetailIsListed

FreshInv == fresh \subseteq DOMAIN Panels[page]

DataInv == FreshInv /\ DashboardInv /\ LedgerInv

\* What the list can hold, and what is shown of it.
LEMMA ListedFacts ==
  ASSUME NEW list, NEW n \in D!Moments, list = <<>> \/ \E t \in 1 .. n : list = Lists[t]
  PROVE  IsEvents(list) /\ \A f : L!Shown(list, f) \subseteq L!EventIds
<1>1. CASE list = <<>>
  BY <1>1 DEF IsEvents, IsSequence, L!Shown, L!Passing
<1>2. ASSUME NEW t \in 1 .. n, list = Lists[t]
      PROVE  IsEvents(list) /\ \A f : L!Shown(list, f) \subseteq L!EventIds
  <2>1. t \in D!Moments /\ t \in DOMAIN Lists
    BY MomentsFacts
  <2>2. IsEvents(list)
    BY <1>2, <2>1, MomentContents
  <2>3. \A f : L!Shown(list, f) \subseteq {Lists[t][i].id : i \in DOMAIN Lists[t]}
    BY <1>2 DEF L!Shown, L!Passing
  <2>4. {Lists[t][i].id : i \in DOMAIN Lists[t]} \subseteq L!EventIds
    BY <2>1 DEF L!EventIds
  <2> QED
    BY <2>2, <2>3, <2>4
<1> QED
  BY <1>1, <1>2

\* Any draw of the command centre from a list of the backend.
LEMMA LedgerDrawn ==
  ASSUME LedgerInv, now \in D!Moments, now' = now,
         NEW was \in L!EventIds \cup {NoneYet}, L!Draw(items', filter', was),
         items' = <<>> \/ \E t \in 1 .. now : items' = Lists[t],
         filter' \in [mode : L!Modes, search : Texts],
         request' = [s \in Slots |-> request'[s]],
         \A s \in Slots : request'[s] # NoneYet => request'[s] \in 1 .. now
  PROVE  LedgerInv'
<1>1. IsEvents(items') /\ \A f : L!Shown(items', f) \subseteq L!EventIds
  BY ListedFacts
<1>2. /\ L!DetailIsListed'
      /\ {selected', detail'} \subseteq {was, NoneYet} \cup L!Shown(items', filter')
  BY <1>1, DrawShowsListed
<1>3. {selected', detail'} \subseteq L!EventIds \cup {NoneYet}
  BY <1>1, <1>2
<1>4. L!LedgerTypeOK'
  BY <1>3 DEF L!LedgerTypeOK
<1> QED
  BY <1>2, <1>4 DEF LedgerInv

LEMMA LedgerStep ==
  ASSUME LedgerInv, now \in D!Moments, [Next]_vars
  PROVE  LedgerInv'
<1>1. ASSUME UNCHANGED <<now, ledger>>
      PROVE  LedgerInv'
  BY <1>1 DEF ledger, LedgerInv, L!LedgerTypeOK, L!DetailIsListed
<1>2. ASSUME NEW p \in Pages, OpenPage(p)
      PROVE  LedgerInv'
  <2>1. /\ items' = <<>> /\ filter' = L!NewFilter
        /\ selected' = NoneYet /\ detail' = NoneYet /\ now' = now
        /\ request' = Sent("incidents", now)
    BY <1>2 DEF OpenPage, NewDocument
  <2>2. now \in 1 .. now
    BY MomentsFacts
  <2>3. L!NewFilter \in [mode : L!Modes, search : Texts]
    BY WorkbenchAssumption DEF L!NewFilter, L!Modes
  <2>4. L!LedgerTypeOK' /\ request' = [s \in Slots |-> request'[s]]
    BY <2>1, <2>2, <2>3 DEF Sent, L!LedgerTypeOK
  <2>5. L!Shown(items', filter') = {}
    BY <2>1 DEF L!Shown, L!Passing
  <2> QED
    BY <2>1, <2>4, <2>5 DEF LedgerInv, L!DetailIsListed
<1>3. ASSUME Advance
      PROVE  LedgerInv'
  <2>1. now \in Nat /\ now' = now + 1 /\ UNCHANGED <<request, items, filter, selected, detail>>
    BY <1>3, MomentsFacts DEF Advance, ledger
  <2>2. 1 .. now \subseteq 1 .. now'
    BY <2>1
  <2> QED
    BY <2>1, <2>2 DEF LedgerInv, L!LedgerTypeOK, L!DetailIsListed
<1>4. ASSUME NEW s \in Slots, L!SendRequest(s), UNCHANGED <<now, items, filter, selected, detail>>
      PROVE  LedgerInv'
  <2>1. now \in 1 .. now
    BY MomentsFacts
  <2>2. /\ request' = [x \in Slots |-> request'[x]] /\ request'[s] = now
        /\ \A x \in Slots \ {s} : request'[x] = request[x]
    BY <1>4 DEF L!SendRequest, LedgerInv
  <2> QED
    BY <1>4, <2>1, <2>2 DEF LedgerInv, L!LedgerTypeOK, L!DetailIsListed
<1>5. ASSUME NEW s \in Slots, LedgerAnswered(s)
      PROVE  LedgerInv'
  <2>1. /\ request[s] \in 1 .. now /\ now' = now /\ now \in Nat
    BY <1>5, MomentsFacts DEF LedgerAnswered, OnIncidents, LedgerInv, L!LedgerTypeOK
  <2>2. PICK list : L!LedgerLoaded(s, list)
    BY <1>5 DEF LedgerAnswered
  <2>3. list = <<>> \/ \E t \in 1 .. now : list = Lists[t]
    <3>1. request[s] .. now \subseteq 1 .. now
      BY <2>1
    <3> QED
      BY <2>2, <3>1 DEF L!LedgerLoaded
  <2>4. /\ request' = [x \in Slots |-> request'[x]] /\ request'[s] = NoneYet
        /\ \A x \in Slots \ {s} : request'[x] = request[x]
    BY <2>2 DEF L!LedgerLoaded, LedgerInv
  <2>5. /\ items' = list /\ filter' = filter /\ L!Draw(items', filter', selected)
    BY <2>2 DEF L!LedgerLoaded
  <2>6. /\ selected \in L!EventIds \cup {NoneYet}
        /\ filter' \in [mode : L!Modes, search : Texts]
        /\ \A x \in Slots : request'[x] # NoneYet => request'[x] \in 1 .. now
    BY <2>4, <2>5 DEF LedgerInv, L!LedgerTypeOK
  <2> QED
    BY <2>1, <2>3, <2>4, <2>5, <2>6, LedgerDrawn
<1>6. ASSUME NEW f \in [mode : L!Modes, search : Texts], L!SetFilter(f), now' = now
      PROVE  LedgerInv'
  <2>1. /\ L!Draw(items', filter', selected) /\ filter' = f /\ UNCHANGED <<request, items>>
    BY <1>6 DEF L!SetFilter
  <2>2. /\ selected \in L!EventIds \cup {NoneYet}
        /\ items' = <<>> \/ \E t \in 1 .. now : items' = Lists[t]
        /\ request' = [x \in Slots |-> request'[x]]
        /\ \A x \in Slots : request'[x] # NoneYet => request'[x] \in 1 .. now
    BY <2>1 DEF LedgerInv, L!LedgerTypeOK
  <2> QED
    BY <1>6, <2>1, <2>2, LedgerDrawn
<1>7. ASSUME NEW e \in L!EventIds, L!Pick(e), now' = now
      PROVE  LedgerInv'
  <2>1. /\ L!Draw(items', filter', e) /\ UNCHANGED <<request, items, filter>>
    BY <1>7 DEF L!Pick
  <2>2. /\ filter' \in [mode : L!Modes, search : Texts]
        /\ items' = <<>> \/ \E t \in 1 .. now : items' = Lists[t]
        /\ request' = [x \in Slots |-> request'[x]]
        /\ \A x \in Slots : request'[x] # NoneYet => request'[x] \in 1 .. now
    BY <2>1 DEF LedgerInv, L!LedgerTypeOK
  <2> QED
    BY <1>7, <2>1, <2>2, LedgerDrawn
<1>8. ASSUME NEW s \in Slots, NEW text \in Texts, Search(s, text)
      PROVE  LedgerInv'
  <2>1. [filter EXCEPT !.search = text] \in [mode : L!Modes, search : Texts]
    BY DEF LedgerInv, L!LedgerTypeOK
  <2> QED
    BY <1>6, <1>8, <2>1 DEF Search, OnIncidents
<1>9. ASSUME NEW s \in Slots, NEW mode \in L!Modes, ChooseMode(s, mode)
      PROVE  LedgerInv'
  <2>1. [filter EXCEPT !.mode = mode] \in [mode : L!Modes, search : Texts]
    BY DEF LedgerInv, L!LedgerTypeOK
  <2> QED
    BY <1>6, <1>9, <2>1 DEF ChooseMode, OnIncidents
<1> QED
  BY <1>1, <1>2, <1>3, <1>4, <1>5, <1>7, <1>8, <1>9
     DEF Next, vars, ledger, OnDashboard, OnIncidents, Elsewhere, RefreshDashboard,
         ChooseWindow, ResizeDashboard, DashboardAnswered, RefreshLedger, SendStatus,
         StatusAnswered, PickEvent, BeginElsewhere, ResumeElsewhere

\* What a page without an answer holds.
LEMMA LostFacts ==
  ASSUME DOMAIN data = DOMAIN D!NewData, windowMinutes \in Windows, data' = D!Lost
  PROVE  D!OnePicture' /\ DataTyped'
<1>1. DOMAIN data = {"liveTelemetryLoaded", "observationWindowMinutes", "riskScore",
                     "riskStatus", "riskDrivers", "kpis", "topology", "ticker",
                     "incidents", "recentEvents"}
  BY DEF D!NewData
<1>2. DOMAIN data' = DOMAIN data
  BY DEF D!Lost
<1>3. /\ data'.liveTelemetryLoaded = FALSE
      /\ data'.observationWindowMinutes = windowMinutes
      /\ data'.riskScore = 0 /\ data'.riskStatus = "low"
      /\ data'.topology = D!NoTopology /\ data'.ticker = <<>>
      /\ data'.incidents = <<>> /\ data'.recentEvents = <<>>
  BY <1>1 DEF D!Lost
<1>4. D!OnePicture'
  BY <1>3 DEF D!OnePicture
<1>5. D!SeverityLabelFromScore(0) = "low"
  BY DEF D!SeverityLabelFromScore
<1>6. data'.riskScore \in 0 .. 100 /\ data'.liveTelemetryLoaded \in BOOLEAN
  <2>1. data'.riskScore = 0 /\ 0 \in 0 .. 100
    BY <1>3
  <2>2. data'.liveTelemetryLoaded = FALSE /\ FALSE \in BOOLEAN
    BY <1>3, Zenon
  <2> QED
    BY <2>1, <2>2, Zenon
<1>7. data'.riskStatus = D!SeverityLabelFromScore(data'.riskScore)
  BY <1>3, <1>5
<1>8. data'.observationWindowMinutes \in Windows
  BY <1>3
<1> QED
  BY <1>2, <1>4, <1>6, <1>7, <1>8 DEF DataTyped

LEMMA NewDataFacts ==
  ASSUME data' = D!NewData
  PROVE  D!OnePicture' /\ DataTyped'
<1>1. /\ DOMAIN data' = DOMAIN D!NewData /\ data'.liveTelemetryLoaded = FALSE
      /\ data'.observationWindowMinutes = 15
      /\ data'.riskScore = 0 /\ data'.riskStatus = "low"
      /\ data'.topology = D!NoTopology /\ data'.ticker = <<>>
      /\ data'.incidents = <<>> /\ data'.recentEvents = <<>>
  BY DEF D!NewData
<1>2. D!OnePicture'
  BY <1>1 DEF D!OnePicture
<1>3. D!SeverityLabelFromScore(0) = "low"
  BY DEF D!SeverityLabelFromScore
<1>4. data'.riskScore \in 0 .. 100 /\ data'.liveTelemetryLoaded \in BOOLEAN
  <2>1. data'.riskScore = 0 /\ 0 \in 0 .. 100
    BY <1>1
  <2>2. data'.liveTelemetryLoaded = FALSE /\ FALSE \in BOOLEAN
    BY <1>1, Zenon
  <2> QED
    BY <2>1, <2>2, Zenon
<1>5. data'.riskStatus = D!SeverityLabelFromScore(data'.riskScore)
  BY <1>1, <1>3
<1>6. data'.observationWindowMinutes \in Windows
  BY <1>1, WorkbenchAssumption
<1> QED
  BY <1>1, <1>2, <1>4, <1>5, <1>6 DEF DataTyped

\* A handler of the dashboard waits once, but for the one that never does.
LEMMA DashboardWaitsOnce ==
  ASSUME NEW h \in DOMAIN Handlers["dashboard"]
  PROVE  /\ Len(Handler("dashboard", h)) \in {1, 2}
         /\ h = "resize" => Len(Handler("dashboard", h)) = 1
<1>1. Handlers["dashboard"] = DashboardHandlers
  BY DEF Handlers
<1>2. \A W, V : Len(LoadThenDraw(W, V)) = 2 /\ Len(Sync(W, V)) = 1
  BY DEF LoadThenDraw, Sync
<1>3. Tail(RefreshDashboardPage) = <<Segment(LoadDashboard, DOMAIN DashboardPanels)>>
  BY DEF RefreshDashboardPage, LoadThenDraw
<1>4. Len(PressWindow) = 2 /\ Len(PressSentinelWindow) = 2
  BY <1>3, Prefixed DEF PressWindow, PressSentinelWindow
<1>5. Len(InitDashboardPage) = 2 /\ Len(RefreshDashboardPage) = 2
  BY <1>2 DEF InitDashboardPage, RefreshDashboardPage
<1> QED
  BY <1>1, <1>2, <1>4, <1>5 DEF Handler, DashboardHandlers

\* A load goes out from the dashboard in the slot of the handler that begins.
LEMMA LoadSent ==
  ASSUME DashboardInv, RestInv, now \in Nat \ {0}, OnDashboard, NEW s \in Slots, NEW h, Begin(s, h),
         NEW w \in Windows, D!SendLoad(s, w), windowMinutes' \in Windows, data' = data
  PROVE  DashboardInv'
<1>1. now' = now /\ now \in 1 .. now
  BY DEF OnDashboard
<1>2. /\ load' = [x \in Slots |-> load'[x]] /\ load'[s] = [sent |-> now, window |-> w]
      /\ \A x \in Slots \ {s} : load'[x] = load[x]
  BY DEF D!SendLoad, DashboardInv
<1>3. load'[s].sent = now /\ load'[s].window = w
  BY <1>2
<1>4. \A x \in Slots \ {s} : running'[x] = running[x]
  BY DEF Begin, RestInv, Waits
<1>5. LoadsAreSent'
  <2>1. page = "dashboard"
    BY DEF OnDashboard
  <2> QED
    BY <1>1, <1>2, <1>3, <1>4, <2>1 DEF LoadsAreSent, DashboardInv
<1>6. \A x \in Slots : load'[x] # NoneYet =>
         load'[x].sent \in 1 .. now /\ load'[x].window \in Windows
  BY <1>1, <1>2, <1>3 DEF DashboardInv, D!DashboardTypeOK
<1>7. D!DashboardTypeOK'
  BY <1>1, <1>6 DEF DashboardInv, D!DashboardTypeOK, D!Moments
<1>8. D!OnePicture'
  BY <1>1 DEF DashboardInv, D!OnePicture
<1> QED
  BY <1>2, <1>5, <1>7, <1>8 DEF DashboardInv

LEMMA DashboardStep ==
  ASSUME DashboardInv, RestInv, [Next]_vars
  PROVE  DashboardInv'
<1>1. now \in D!Moments /\ now \in Nat \ {0} /\ now \in 1 .. now
  <2>1. now \in D!Moments
    BY DEF DashboardInv, D!DashboardTypeOK
  <2> QED
    BY <2>1, MomentsFacts
<1>2. ASSUME UNCHANGED <<now, dashboard>>, LoadsAreSent'
      PROVE  DashboardInv'
  BY <1>2 DEF dashboard, DashboardInv, D!DashboardTypeOK, D!Moments, D!OnePicture
<1>3. ASSUME NEW p \in Pages, OpenPage(p)
      PROVE  DashboardInv'
  <2>1. /\ windowMinutes' = 15 /\ data' = D!NewData /\ now' = now
        /\ load' = Sent("dashboard", [sent |-> now, window |-> 15])
    BY <1>3 DEF OpenPage, NewDocument, D!NewWindow
  <2> DEFINE what == [sent |-> now, window |-> 15]
  <2>2. what.sent \in 1 .. now /\ what.window \in Windows
    BY <1>1, WorkbenchAssumption
  <2> HIDE DEF what
  <2>3. /\ load' = [x \in Slots |-> load'[x]]
        /\ \A x \in Slots : load'[x] = IF page' = "dashboard" /\ running'[x] # Idle
                                       THEN what ELSE NoneYet
    BY <2>1 DEF Sent, what
  <2>4. LoadsAreSent'
    BY <2>1, <2>2, <2>3 DEF LoadsAreSent
  <2>5. D!DashboardTypeOK'
    <3>1. windowMinutes' \in Windows
      BY <2>1, WorkbenchAssumption
    <3> QED
      BY <1>1, <2>1, <2>2, <2>3, <3>1, NewDataFacts DEF DataTyped, D!DashboardTypeOK, D!Moments
  <2> QED
    BY <2>1, <2>3, <2>4, <2>5, NewDataFacts DEF DataTyped, DashboardInv
<1>4. ASSUME Advance
      PROVE  DashboardInv'
  <2>1. /\ now' = now + 1 /\ now' \in D!Moments
        /\ UNCHANGED <<page, running, windowMinutes, load, data>>
    BY <1>1, <1>4, MomentsFacts DEF Advance, dashboard
  <2>2. \A t \in 1 .. now : t \in 1 .. now'
    BY <1>1, <2>1
  <2>3. LoadsAreSent' /\ D!DashboardTypeOK'
    BY <2>1, <2>2 DEF DashboardInv, LoadsAreSent, D!DashboardTypeOK, D!Moments
  <2>4. D!OnePicture'
    BY <2>1, <2>2 DEF DashboardInv, D!OnePicture
  <2> QED
    BY <2>1, <2>3, <2>4 DEF DashboardInv
<1>5. ASSUME NEW s \in Slots, RefreshDashboard(s)
      PROVE  DashboardInv'
  <2>1. windowMinutes \in Windows
    BY DEF DashboardInv, D!DashboardTypeOK
  <2> QED
    BY <1>1, <1>5, <2>1, LoadSent DEF RefreshDashboard
<1>6. ASSUME NEW s \in Slots, NEW h, NEW w \in Windows, ChooseWindow(s, h, w)
      PROVE  DashboardInv'
  BY <1>1, <1>6, LoadSent DEF ChooseWindow
<1>7. ASSUME NEW s \in Slots, ResizeDashboard(s)
      PROVE  DashboardInv'
  <2>1. /\ page = "dashboard" /\ page' = page /\ Begin(s, "resize")
        /\ UNCHANGED <<now, dashboard>>
    BY <1>7 DEF ResizeDashboard, OnDashboard, Begin
  <2>2. Len(Handler(page, "resize")) = 1
    BY <2>1, DashboardWaitsOnce DEF Begin
  <2>3. running'[s] = Idle /\ \A x \in Slots \ {s} : running'[x] = running[x]
    BY <2>1, <2>2 DEF Begin, After, RestInv, Waits
  <2>4. LoadsAreSent'
    BY <2>1, <2>3 DEF LoadsAreSent, DashboardInv, dashboard
  <2> QED
    BY <1>2, <2>1, <2>4
<1>8. ASSUME NEW s \in Slots, DashboardAnswered(s)
      PROVE  DashboardInv'
  <2>1. /\ page = "dashboard" /\ page' = page /\ now' = now /\ windowMinutes' = windowMinutes
        /\ running[s] # Idle /\ Resume(s)
    BY <1>8 DEF DashboardAnswered, OnDashboard, Resume
  <2>2. load[s].sent \in 1 .. now /\ load[s].window \in Windows
    BY <2>1 DEF DashboardInv, LoadsAreSent
  <2>3. windowMinutes \in Windows /\ DOMAIN data = DOMAIN D!NewData
    BY DEF DashboardInv, D!DashboardTypeOK
  <2>4. load' = [load EXCEPT ![s] = NoneYet]
    BY <1>8 DEF DashboardAnswered, D!LoadFails, D!LoadDone
  <2>5. /\ load' = [x \in Slots |-> load'[x]] /\ load'[s] = NoneYet
        /\ \A x \in Slots \ {s} : load'[x] = load[x]
    BY <2>4 DEF DashboardInv
  <2>6. D!OnePicture' /\ DataTyped'
    <3>1. CASE D!LoadFails(s)
      BY <2>3, <3>1, LostFacts DEF D!LoadFails
    <3>2. ASSUME NEW a, NEW b, NEW c, D!LoadDone(s, a, b, c)
          PROVE  D!OnePicture' /\ DataTyped'
      BY <1>1, <2>1, <2>2, <3>2, LoadDoneFacts
    <3> QED
      BY <1>8, <3>1, <3>2 DEF DashboardAnswered
  <2>7. running'[s] = Idle /\ \A x \in Slots \ {s} : running'[x] = running[x]
    <3> DEFINE h == running[s].handler
    <3>1. /\ h \in DOMAIN Handlers["dashboard"]
          /\ running[s].at \in 1 .. Len(Handler("dashboard", h)) - 1
      BY <2>1 DEF RestInv, Waits
    <3>2. running[s].at + 1 = Len(Handler("dashboard", h))
      <4>1. Len(Handler("dashboard", h)) \in {1, 2}
        BY <3>1, DashboardWaitsOnce
      <4>2. \A n \in {1, 2} : \A a : a \in 1 .. n - 1 => a + 1 = n
        OBVIOUS
      <4> HIDE DEF h
      <4> QED
        BY <3>1, <4>1, <4>2
    <3>3. running' = [running EXCEPT ![s] = After(page, h, running[s].at + 1)]
      BY <2>1 DEF Resume
    <3> QED
      BY <2>1, <3>2, <3>3 DEF After, RestInv, Waits
  <2>8. LoadsAreSent'
    BY <2>1, <2>5, <2>7 DEF DashboardInv, LoadsAreSent
  <2>9. D!DashboardTypeOK'
    BY <1>1, <2>1, <2>3, <2>5, <2>6 DEF DataTyped, DashboardInv, D!DashboardTypeOK, D!Moments
  <2> QED
    BY <2>5, <2>6, <2>8, <2>9 DEF DataTyped, DashboardInv
<1>9. ASSUME UNCHANGED <<now, dashboard>>, page' = page,
             page # "dashboard" \/ UNCHANGED running
      PROVE  DashboardInv'
  <2>1. LoadsAreSent'
    BY <1>9 DEF LoadsAreSent, DashboardInv, dashboard
  <2> QED
    BY <1>2, <1>9, <2>1
<1>10. ASSUME OnIncidents \/ Elsewhere, page' = page
       PROVE  DashboardInv'
  BY <1>9, <1>10 DEF OnIncidents, Elsewhere
<1>11. ASSUME UNCHANGED vars
       PROVE  DashboardInv'
  BY <1>9, <1>11 DEF vars
<1> QED
  BY <1>3, <1>4, <1>5, <1>6, <1>7, <1>8, <1>10, <1>11
     DEF Next, RefreshLedger, SendStatus, StatusAnswered, LedgerAnswered, Search, ChooseMode,
         PickEvent, BeginElsewhere, ResumeElsewhere, Begin, Resume

LEMMA FreshStep ==
  ASSUME FreshInv, RestInv, [Next]_vars
  PROVE  FreshInv'
<1>1. ASSUME UNCHANGED <<page, fresh>>
      PROVE  FreshInv'
  BY <1>1 DEF FreshInv
<1>2. ASSUME NEW h \in DOMAIN Handlers[page], NEW n \in 1 .. Len(Handler(page, h)),
             Run(Handler(page, h)[n]), page' = page
      PROVE  FreshInv'
  <2>1. Handler(page, h)[n].draws \subseteq DOMAIN Panels[page]
    BY AllWithin DEF RestInv, Waits, PageWithin, Within
  <2> QED
    BY <1>2, <2>1 DEF FreshInv, Run
<1>3. ASSUME NEW p \in Pages, OpenPage(p)
      PROVE  FreshInv'
  <2>1. PICK h \in DOMAIN Handlers[p] : page' = p /\ fresh' = Handler(p, h)[1].draws
    BY <1>3 DEF OpenPage, Open
  <2>2. 1 \in 1 .. Len(Handler(p, h))
    BY AllCovered DEF PageCovered, Covers
  <2>3. Handler(p, h)[1].draws \subseteq DOMAIN Panels[p]
    BY <2>2, AllWithin DEF PageWithin, Within
  <2> QED
    BY <2>1, <2>3 DEF FreshInv
<1>4. ASSUME NEW s \in Slots, NEW h, Begin(s, h)
      PROVE  FreshInv'
  <2>1. h \in DOMAIN Handlers[page] /\ Run(Handler(page, h)[1]) /\ page' = page
    BY <1>4 DEF Begin
  <2>2. 1 \in 1 .. Len(Handler(page, h))
    BY <2>1, AllCovered DEF RestInv, Waits, PageCovered, Covers
  <2> QED
    BY <1>2, <2>1, <2>2
<1>5. ASSUME NEW s \in Slots, Resume(s)
      PROVE  FreshInv'
  <2> DEFINE h == running[s].handler
             n == running[s].at + 1
  <2>1. /\ h \in DOMAIN Handlers[page] /\ running[s].at \in 1 .. Len(Handler(page, h)) - 1
        /\ Run(Handler(page, h)[n]) /\ page' = page
    BY <1>5 DEF Resume, RestInv, Waits
  <2>2. n \in 1 .. Len(Handler(page, h))
    BY <2>1, AllCovered DEF RestInv, Waits, PageCovered, Covers
  <2> HIDE DEF h, n
  <2> QED
    BY <1>2, <2>1, <2>2
<1> QED
  BY <1>1, <1>3, <1>4, <1>5
     DEF Next, vars, Advance, RefreshDashboard, ChooseWindow, ResizeDashboard,
         DashboardAnswered, RefreshLedger, SendStatus, StatusAnswered, LedgerAnswered,
         Search, ChooseMode, PickEvent, BeginElsewhere, ResumeElsewhere

LEMMA InitData == Init => DataInv
<1> SUFFICES ASSUME Init PROVE DataInv
  OBVIOUS
<1>1. FreshInv
  BY DEF Init, FreshInv
<1>2. now = 1 /\ now \in D!Moments /\ now \in 1 .. now
  BY MomentsFacts DEF Init
<1>3. LedgerInv
  <2>1. /\ items = <<>> /\ filter = L!NewFilter /\ selected = NoneYet /\ detail = NoneYet
        /\ request = [s \in Slots |-> NoneYet]
    BY DEF Init
  <2>2. L!NewFilter \in [mode : L!Modes, search : Texts]
    BY WorkbenchAssumption DEF L!NewFilter, L!Modes
  <2>3. L!LedgerTypeOK
    BY <2>1, <2>2 DEF L!LedgerTypeOK
  <2>4. L!Shown(items, filter) = {}
    BY <2>1 DEF L!Shown, L!Passing
  <2> QED
    BY <2>1, <2>3, <2>4 DEF LedgerInv, L!DetailIsListed
<1>4. DashboardInv
  <2> DEFINE what == [sent |-> now, window |-> 15]
  <2>1. what.sent \in 1 .. now /\ what.window \in Windows /\ 15 \in Windows
    BY <1>2, WorkbenchAssumption
  <2>2. /\ windowMinutes = 15 /\ data = D!NewData
        /\ load = [s \in Slots |-> IF running[s] = Idle THEN NoneYet ELSE what]
    BY DEF Init, D!NewWindow
  <2> HIDE DEF what
  <2>3. /\ load = [s \in Slots |-> load[s]]
        /\ \A s \in Slots : load[s] = IF running[s] = Idle THEN NoneYet ELSE what
    BY <2>2
  <2>4. LoadsAreSent
    BY <2>1, <2>3 DEF LoadsAreSent
  <2>5. /\ data.liveTelemetryLoaded = FALSE /\ data.observationWindowMinutes = 15
        /\ data.riskScore = 0 /\ data.riskStatus = "low"
        /\ data.topology = D!NoTopology /\ data.ticker = <<>>
        /\ data.incidents = <<>> /\ data.recentEvents = <<>>
    BY <2>2 DEF D!NewData
  <2>6. D!OnePicture
    BY <2>5 DEF D!OnePicture
  <2>7. data.liveTelemetryLoaded \in BOOLEAN
    BY <2>5, Zenon
  <2>8. data.riskScore \in 0 .. 100
    BY <2>5
  <2>9. data.riskStatus = D!SeverityLabelFromScore(data.riskScore)
    BY <2>5 DEF D!SeverityLabelFromScore
  <2>10. D!DashboardTypeOK
    BY <1>2, <2>1, <2>2, <2>3, <2>5, <2>7, <2>8, <2>9 DEF D!DashboardTypeOK, D!Moments
  <2> QED
    BY <2>2, <2>3, <2>4, <2>6, <2>10 DEF DashboardInv
<1> QED
  BY <1>1, <1>3, <1>4 DEF DataInv

LEMMA NextData == RestInv /\ DataInv /\ [Next]_vars => DataInv'
<1>1. DashboardInv => now \in D!Moments
  BY DEF DashboardInv, D!DashboardTypeOK
<1> QED
  BY <1>1, FreshStep, DashboardStep, LedgerStep DEF DataInv

LEMMA DataHolds == Spec => [](RestInv /\ DataInv)
BY InitRest, NextRest, InitData, NextData, PTL DEF Spec

\* Each variable of the workbench holds values of its kind, for any contents of
\* the backend: handlers of the page draw panels of the page only, a load asks
\* about the past, the score is at most 100, and the list is one the backend had.
THEOREM TypeCorrect == Spec => []TypeOK
<1>1. RestInv /\ DataInv => TypeOK
  BY DEF RestInv, Waits, DataInv, FreshInv, DashboardInv, LedgerInv, TypeOK, ViewsTypeOK
<1> QED
  BY <1>1, DataHolds, PTL

\* The cases and the alerts on the dashboard are of one moment each, in whatever
\* order the answers of overlapping loads come.
THEOREM PictureIsOne == Spec => []DashboardIsOnePicture
<1>1. DataInv => DashboardIsOnePicture
  BY DEF DataInv, DashboardInv, DashboardIsOnePicture
<1> QED
  BY <1>1, DataHolds, PTL

\* The map of the cases is a graph of at most eight nodes, whatever the cases.
THEOREM MapStaysGraph == Spec => []MapIsGraph
<1>1. DataInv => MapIsGraph
  <2> SUFFICES ASSUME DataInv PROVE D!MapIsGraph
    BY DEF MapIsGraph
  <2>1. CASE data.liveTelemetryLoaded
    <3>1. now \in D!Moments /\ \A i \in 1 .. now : i \in D!Moments
      BY MomentsFacts DEF DataInv, DashboardInv, D!DashboardTypeOK
    <3>2. PICK i \in 1 .. now :
            /\ data.topology = D!Topology(D!Cases(i))
            /\ data.incidents = D!Ids(D!First(5, D!Cases(i)))
      BY <2>1 DEF DataInv, DashboardInv, D!OnePicture
    <3>3. IsSequence(D!Cases(i))
      BY <3>1, MomentContents DEF IsCases
    <3> QED
      BY <3>2, <3>3, TopologyIsGraph
  <2>2. CASE ~data.liveTelemetryLoaded
    BY <2>2, NoTopologyIsGraph DEF DataInv, DashboardInv, D!OnePicture
  <2> QED
    BY <2>1, <2>2
<1> QED
  BY <1>1, DataHolds, PTL

\* The event the command centre shows is listed, and one is shown whenever any
\* is listed, whatever the list, its filter and the order of the answers.
THEOREM ShownIsListed == Spec => []DetailIsListed
<1>1. DataInv => DetailIsListed
  BY DEF DataInv, LedgerInv, DetailIsListed
<1> QED
  BY <1>1, DataHolds, PTL
=============================================================================
