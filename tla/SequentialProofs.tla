------------------------- MODULE SequentialProofs ---------------------------
(***************************************************************************)
(* Theorems about the two sequential programs, the calibration and the     *)
(* guard's reading of a text.  The scan of the candidate cutoffs finds the *)
(* best of all cutoffs, and the engine looks up what it found, for any     *)
(* languages and pairs of them, any samples and scores and any target; and *)
(* a wrong label changes nothing in any text whose stages meet no match    *)
(* that depends on it.                                                     *)
(***************************************************************************)
EXTENDS Calibration, Extraction, SequenceTheorems, FiniteSetTheorems, TLAPS

(***************************************************************************)
(* The place of an element of a finite set of numbers in ascending order.  *)
(***************************************************************************)
LEMMA Places ==
  ASSUME NEW S \in SUBSET Int, IsFiniteSet(S), NEW x \in S
  PROVE  /\ Cardinality(S) \in Nat
         /\ NoHigher(S, x) \in 1..Cardinality(S)
         /\ \A y \in S : x < y => NoHigher(S, x) < NoHigher(S, y)
<1> DEFINE Low(z) == {v \in S : v <= z}
<1>1. ASSUME NEW z \in S PROVE Low(z) \in SUBSET S /\ IsFiniteSet(Low(z)) /\ Cardinality(Low(z)) \in Nat
  <2>1. Low(z) \in SUBSET S
    OBVIOUS
  <2> HIDE DEF Low
  <2>2. QED  BY <2>1, FS_Subset, FS_CardinalityType
<1>2. Cardinality(S) \in Nat
  BY FS_CardinalityType
<1>3. x \in Low(x)
  OBVIOUS
<1>4. ASSUME NEW y \in S, x < y PROVE Low(x) \cup {y} \in SUBSET Low(y) /\ y \notin Low(x)
  <2>1. x \in Int /\ y \in Int
    OBVIOUS
  <2>2. ASSUME NEW v \in S, v <= x PROVE v <= y
    BY <1>4, <2>1, <2>2, v \in Int
  <2>3. y <= y /\ ~(y <= x)
    BY <1>4, <2>1
  <2>4. QED  BY <2>2, <2>3
<1> HIDE DEF Low
<1>5. Cardinality(Low(x)) <= Cardinality(S)
  BY <1>1, FS_Subset
<1>6. Cardinality(Low(x)) # 0
  BY <1>1, <1>3, FS_EmptySet
<1>7. ASSUME NEW y \in S, x < y PROVE Cardinality(Low(x)) < Cardinality(Low(y))
  <2>1. Cardinality(Low(x) \cup {y}) = Cardinality(Low(x)) + 1
    BY <1>1, <1>4, <1>7, FS_AddElement
  <2>2. Cardinality(Low(x) \cup {y}) <= Cardinality(Low(y))
    BY <1>1, <1>4, <1>7, FS_Subset
  <2>3. QED  BY <1>1, <2>1, <2>2
<1>8. QED  BY <1>1, <1>2, <1>5, <1>6, <1>7 DEF NoHigher, Low

(***************************************************************************)
(* Every place is taken.                                                   *)
(***************************************************************************)
LEMMA PlacesTaken ==
  ASSUME NEW S \in SUBSET Int, IsFiniteSet(S), NEW j \in 1..Cardinality(S)
  PROVE  \E x \in S : NoHigher(S, x) = j
<1> DEFINE n == Cardinality(S)
           f == [x \in S |-> NoHigher(S, x)]
<1>1. n \in Nat /\ \A x \in S : NoHigher(S, x) \in 1..n
  BY Places, FS_CardinalityType
<1>2. \A x, y \in S : x # y => x < y \/ y < x
  OBVIOUS
<1>3. ASSUME NEW x \in S, NEW y \in S, NoHigher(S, x) = NoHigher(S, y) PROVE x = y
  <2>1. ~(x < y) /\ ~(y < x)
    BY <1>1, <1>3, Places
  <2>2. QED  BY <1>2, <2>1
<1> HIDE DEF n
<1>4. f \in Injection(S, 1..n)
  BY <1>1, <1>3 DEF Injection, IsInjective
<1>5. 1 \in Int /\ n \in Int
  BY <1>1
<1>6. IsFiniteSet(1..n) /\ Cardinality(1..n) = n
  BY <1>1, <1>5, FS_Interval
<1> HIDE DEF f
<1>7. f \in Surjection(S, 1..n)
  BY <1>4, <1>6, FS_Injection DEF n
<1>8. \E x \in S : f[x] = j
  BY <1>7 DEF Surjection, n
<1>9. QED  BY <1>8 DEF f

(***************************************************************************)
(* The ascending sequence of a finite set of numbers: its elements, each   *)
(* at its place.                                                           *)
(***************************************************************************)
LEMMA AscendingIs ==
  ASSUME NEW S \in SUBSET Int, IsFiniteSet(S)
  PROVE  /\ Cardinality(S) \in Nat /\ Len(Ascending(S)) = Cardinality(S)
         /\ \A j \in 1..Cardinality(S) : Ascending(S)[j] \in S /\ NoHigher(S, Ascending(S)[j]) = j
         /\ \A x \in S : NoHigher(S, x) \in 1..Cardinality(S) /\ Ascending(S)[NoHigher(S, x)] = x
<1> DEFINE n == Cardinality(S)
<1>1. n \in Nat /\ \A x \in S : NoHigher(S, x) \in 1..n
  BY Places, FS_CardinalityType
<1>2. \A j \in 1..n : \E x \in S : NoHigher(S, x) = j
  BY PlacesTaken
<1>3. ASSUME NEW x \in S, NEW y \in S, NoHigher(S, x) = NoHigher(S, y) PROVE x = y
  <2>1. ~(x < y) /\ ~(y < x)
    BY <1>1, <1>3, Places
  <2>2. QED  BY <2>1
<1> HIDE DEF n
<1>4. Ascending(S) = [j \in 1..n |-> CHOOSE x \in S : NoHigher(S, x) = j]
  BY DEF Ascending, n
<1>5. ASSUME NEW j \in 1..n PROVE Ascending(S)[j] \in S /\ NoHigher(S, Ascending(S)[j]) = j
  <2>1. Ascending(S)[j] = CHOOSE x \in S : NoHigher(S, x) = j
    BY <1>4
  <2>2. QED  BY <1>2, <2>1
<1>6. Len(Ascending(S)) = n
  BY <1>1, <1>4
<1>7. ASSUME NEW x \in S PROVE Ascending(S)[NoHigher(S, x)] = x
  BY <1>1, <1>3, <1>5
<1>8. QED  BY <1>1, <1>5, <1>6, <1>7 DEF n

(***************************************************************************)
(* A finite set of numbers that has any has a least and a greatest one.    *)
(***************************************************************************)
LEMMA LeastAndGreatest ==
  ASSUME NEW S \in SUBSET Int, IsFiniteSet(S), S # {}
  PROVE  /\ \E x \in S : \A y \in S : x <= y
         /\ \E x \in S : \A y \in S : y <= x
<1> DEFINE n == Cardinality(S)
<1>1. n \in Nat /\ n # 0
  BY FS_CardinalityType, FS_EmptySet
<1>2. 1 \in 1..n /\ n \in 1..n
  BY <1>1
<1>3. PICK x \in S : NoHigher(S, x) = 1
  BY <1>2, PlacesTaken
<1>4. PICK z \in S : NoHigher(S, z) = n
  BY <1>2, PlacesTaken
<1>5. ASSUME NEW y \in S PROVE x <= y /\ y <= z
  <2>1. NoHigher(S, y) \in 1..n
    BY Places
  <2>2. ~(y < x) /\ ~(z < y)
    BY <1>1, <1>3, <1>4, <2>1, Places
  <2>3. QED  BY <2>2
<1>6. QED  BY <1>5

-----------------------------------------------------------------------------
Points == [thr : Int, tp : Nat, fp : Nat]

(***************************************************************************)
(* The samples of a pass are finitely many, and so are their scores.       *)
(***************************************************************************)
LEMMA ScoresAre ==
  ASSUME samples \in SampleSets, NEW n \in DOMAIN LangPairs, NEW p \in Passes
  PROVE  /\ IsFiniteSet(Population(n, p))
         /\ IsFiniteSet(Positives(n, p)) /\ IsFiniteSet(Negatives(n, p))
         /\ Scores(n, p) \in SUBSET Int /\ IsFiniteSet(Scores(n, p))
         /\ Population(n, p) # {} => Scores(n, p) # {}
         /\ \A x \in Population(n, p) : samples[n][x].score \in Scores(n, p)
<1> DEFINE P == Population(n, p)
           f == [x \in P |-> samples[n][x].score]
<1>1. P \in SUBSET DOMAIN samples[n] /\ IsFiniteSet(DOMAIN samples[n])
  BY CalibrationAssumption DEF Population
<1>2. \A x \in P : samples[n][x].score \in Int
  BY <1>1, CalibrationAssumption
<1>3. Scores(n, p) = {samples[n][x].score : x \in P}
  BY DEF Scores
<1> HIDE DEF P
<1>4. IsFiniteSet(P)
  BY <1>1, FS_Subset
<1>5. f \in Surjection(P, Scores(n, p))
  BY <1>3 DEF Surjection
<1>6. IsFiniteSet(Scores(n, p))
  BY <1>4, <1>5, FS_Surjection
<1>7. Positives(n, p) \in SUBSET P /\ Negatives(n, p) \in SUBSET P
  BY DEF Positives, Negatives, P
<1>8. IsFiniteSet(Positives(n, p)) /\ IsFiniteSet(Negatives(n, p))
  BY <1>4, <1>7, FS_Subset
<1>9. Scores(n, p) \in SUBSET Int /\ (P # {} => Scores(n, p) # {})
  BY <1>2, <1>3
<1>10. QED  BY <1>3, <1>4, <1>6, <1>8, <1>9 DEF P

(***************************************************************************)
(* What a cutoff lets through is counted.                                  *)
(***************************************************************************)
LEMMA PointIs ==
  ASSUME samples \in SampleSets, NEW n \in DOMAIN LangPairs, NEW p \in Passes, NEW c \in Int
  PROVE  PointAt(n, p, c) \in Points
<1>1. ASSUME NEW xs, IsFiniteSet(xs) PROVE AtLeast(n, xs, c) \in Nat
  <2> DEFINE ys == {x \in xs : 2 * samples[n][x].score >= c}
  <2>1. ys \in SUBSET xs
    OBVIOUS
  <2>2. AtLeast(n, xs, c) = Cardinality(ys)
    BY DEF AtLeast
  <2> HIDE DEF ys
  <2>3. QED  BY <1>1, <2>1, <2>2, FS_Subset, FS_CardinalityType
<1>2. AtLeast(n, Positives(n, p), c) \in Nat /\ AtLeast(n, Negatives(n, p), c) \in Nat
  BY <1>1, ScoresAre
<1>3. QED  BY <1>2 DEF PointAt, Points

(***************************************************************************)
(* Cutoffs that have the same scores on either side let the same through.  *)
(***************************************************************************)
LEMMA SamePoint ==
  ASSUME samples \in SampleSets, NEW n \in DOMAIN LangPairs, NEW p \in Passes,
         NEW c, NEW d, \A v \in Scores(n, p) : 2 * v >= c <=> 2 * v >= d
  PROVE  PointAt(n, p, c).tp = PointAt(n, p, d).tp /\ PointAt(n, p, c).fp = PointAt(n, p, d).fp
<1>1. \A x \in Population(n, p) : 2 * samples[n][x].score >= c <=> 2 * samples[n][x].score >= d
  BY ScoresAre
<1>2. ASSUME NEW xs \in SUBSET Population(n, p) PROVE AtLeast(n, xs, c) = AtLeast(n, xs, d)
  <2>1. {x \in xs : 2 * samples[n][x].score >= c} = {x \in xs : 2 * samples[n][x].score >= d}
    BY <1>1
  <2>2. QED  BY <2>1 DEF AtLeast
<1>3. Positives(n, p) \in SUBSET Population(n, p) /\ Negatives(n, p) \in SUBSET Population(n, p)
  BY DEF Positives, Negatives
<1>4. QED  BY <1>2, <1>3 DEF PointAt

-----------------------------------------------------------------------------
\* The cutoffs worth trying for a set of scores.
Neighbours(S, a, b) == a \in S /\ b \in S /\ a < b /\ \A c \in S : c <= a \/ b <= c
Least(S, a)    == a \in S /\ \A v \in S : a <= v
Greatest(S, a) == a \in S /\ \A v \in S : v <= a

IsCutoff(S, d) ==
  \/ \E a, b \in S : Neighbours(S, a, b) /\ d = a + b
  \/ \E a \in S : Least(S, a) /\ d = 2 * (a - Margin)
  \/ \E a \in S : Greatest(S, a) /\ d = 2 * (a + Margin)

(***************************************************************************)
(* The candidates made from a sequence of numbers.                         *)
(***************************************************************************)
LEMMA CandidatesOf ==
  ASSUME NEW s, NEW n \in Nat, n > 0, Len(s) = n, \A j \in 1..n : s[j] \in Int,
         NEW c, c = [j \in 1..(Len(s) - 1) |-> s[j] + s[j + 1]]
                    \o <<2 * (s[1] - Margin), 2 * (s[Len(s)] + Margin)>>
  PROVE  /\ Len(c) = n + 1
         /\ \A j \in 1..(n - 1) : c[j] = s[j] + s[j + 1]
         /\ c[n] = 2 * (s[1] - Margin) /\ c[n + 1] = 2 * (s[n] + Margin)
<1> DEFINE a == [j \in 1..(Len(s) - 1) |-> s[j] + s[j + 1]]
           x == 2 * (s[1] - Margin)
           y == 2 * (s[Len(s)] + Margin)
           b == <<x, y>>
<1>1. s[1] \in Int /\ s[n] \in Int /\ Margin \in Int
  BY CalibrationAssumption
<1>2. x \in Int /\ y \in Int
  BY <1>1
<1>3. \A j \in 1..(n - 1) : s[j] + s[j + 1] \in Int
  OBVIOUS
<1>4. a \in Seq(Int) /\ Len(a) = n - 1 /\ \A j \in 1..(n - 1) : a[j] = s[j] + s[j + 1]
  BY <1>3
<1>5. c = a \o b
  OBVIOUS
<1> HIDE DEF x, y
<1>6. b \in Seq(Int) /\ Len(b) = 2 /\ b[1] = x /\ b[2] = y
  BY <1>2
<1> HIDE DEF a, b
<1>7. /\ Len(c) = Len(a) + Len(b)
      /\ \A i \in 1..(Len(a) + Len(b)) : c[i] = IF i <= Len(a) THEN a[i] ELSE b[i - Len(a)]
  <2>1. /\ Len(a \o b) = Len(a) + Len(b)
        /\ \A i \in 1..(Len(a) + Len(b)) : (a \o b)[i] = IF i <= Len(a) THEN a[i] ELSE b[i - Len(a)]
    BY ONLY <1>4, <1>6, ConcatProperties
  <2>2. QED  BY ONLY <1>5, <2>1
<1>8. c[n] = x
  <2>1. n \in 1..(Len(a) + Len(b)) /\ ~(n <= Len(a)) /\ n - Len(a) = 1
    BY <1>4, <1>6
  <2>2. QED  BY <1>6, <1>7, <2>1
<1>9. c[n + 1] = y
  <2>1. n + 1 \in 1..(Len(a) + Len(b)) /\ ~(n + 1 <= Len(a)) /\ (n + 1) - Len(a) = 2
    BY <1>4, <1>6
  <2>2. QED  BY <1>6, <1>7, <2>1
<1>10. \A j \in 1..(n - 1) : c[j] = s[j] + s[j + 1]
  BY <1>4, <1>6, <1>7
<1>11. QED  BY <1>4, <1>6, <1>7, <1>8, <1>9, <1>10 DEF x, y

(***************************************************************************)
(* The candidates of a pass are the cutoffs worth trying, and the last of  *)
(* them lets nothing through.                                              *)
(***************************************************************************)
LEMMA CandidatesAre ==
  ASSUME samples \in SampleSets, NEW n \in DOMAIN LangPairs, NEW p \in Passes,
         Population(n, p) # {}
  PROVE  LET S == Scores(n, p)  c == Candidates(n, p)
         IN /\ Len(c) \in Nat /\ Len(c) > 1
            /\ \A i \in 1..Len(c) : IsCutoff(S, c[i]) /\ c[i] \in Int
            /\ \A d : IsCutoff(S, d) => \E i \in 1..Len(c) : c[i] = d
            /\ \A v \in S : ~(2 * v >= c[Len(c)])
<1> DEFINE S == Scores(n, p)  s == Ascending(S)  c == Candidates(n, p)  m == Cardinality(S)
<1>1. S \in SUBSET Int /\ IsFiniteSet(S) /\ S # {}
  BY ScoresAre
<1>0. \A v \in S : v \in Int
  BY <1>1
<1>2. c = [j \in 1..(Len(s) - 1) |-> s[j] + s[j + 1]] \o <<2 * (s[1] - Margin), 2 * (s[Len(s)] + Margin)>>
  BY DEF Candidates, Sorted
<1> HIDE DEF S, c
<1>3. /\ m \in Nat /\ Len(s) = m
      /\ \A j \in 1..m : s[j] \in S /\ NoHigher(S, s[j]) = j
      /\ \A x \in S : NoHigher(S, x) \in 1..m /\ s[NoHigher(S, x)] = x
  BY <1>1, AscendingIs
<1>4. m > 0
  BY <1>1, <1>3, FS_EmptySet
<1>5. \A x, y \in S : x < y => NoHigher(S, x) < NoHigher(S, y)
  BY <1>1, Places
<1> HIDE DEF s, m
<1>6. /\ Len(c) = m + 1
      /\ \A j \in 1..(m - 1) : c[j] = s[j] + s[j + 1]
      /\ c[m] = 2 * (s[1] - Margin) /\ c[m + 1] = 2 * (s[m] + Margin)
  <2>1. \A j \in 1..m : s[j] \in Int
    BY <1>1, <1>3
  <2>2. QED  BY <1>2, <1>3, <1>4, <2>1, CandidatesOf
<1>7. ASSUME NEW x \in S, NEW y \in S, NoHigher(S, x) < NoHigher(S, y) PROVE x < y
  <2>1. x \in Int /\ y \in Int /\ ~(y < x) /\ x # y
    BY <1>1, <1>3, <1>5, <1>7
  <2>2. QED  BY <2>1
<1>8. Least(S, s[1]) /\ Greatest(S, s[m])
  <2>1. 1 \in 1..m /\ m \in 1..m
    BY <1>3, <1>4
  <2>2. ASSUME NEW v \in S PROVE s[1] <= v /\ v <= s[m]
    <3>1. NoHigher(S, v) \in 1..m /\ s[1] \in S /\ s[m] \in S
      BY <1>3, <2>1
    <3>2. ~(v < s[1]) /\ ~(s[m] < v)
      BY <1>3, <1>5, <2>1, <3>1
    <3>3. v \in Int /\ s[1] \in Int /\ s[m] \in Int
      BY <1>1, <3>1
    <3>4. QED  BY <3>2, <3>3
  <2>3. QED  BY <1>3, <2>1, <2>2 DEF Least, Greatest
<1>9. ASSUME NEW j \in 1..(m - 1) PROVE Neighbours(S, s[j], s[j + 1])
  <2>1. j \in 1..m /\ j + 1 \in 1..m /\ j \in Int
    BY <1>3
  <2>2. s[j] \in S /\ s[j + 1] \in S /\ NoHigher(S, s[j]) = j /\ NoHigher(S, s[j + 1]) = j + 1
    BY <1>3, <2>1
  <2>3. s[j] < s[j + 1]
    BY <1>7, <2>1, <2>2
  <2>4. ASSUME NEW v \in S PROVE v <= s[j] \/ s[j + 1] <= v
    <3>1. v \in Int /\ s[j] \in Int /\ s[j + 1] \in Int
      BY <1>0, <2>2
    <3>0. NoHigher(S, v) \in Int
      BY <1>3
    <3>2. CASE s[j] < v /\ v < s[j + 1]
      BY <1>5, <2>1, <2>2, <3>0, <3>2
    <3>3. QED  BY <3>1, <3>2
  <2>5. QED  BY <2>2, <2>3, <2>4 DEF Neighbours
<1>10. ASSUME NEW i \in 1..Len(c) PROVE IsCutoff(S, c[i]) /\ c[i] \in Int
  <2>0. Margin \in Int
    BY CalibrationAssumption
  <2>1. CASE i \in 1..(m - 1)
    <3>1. Neighbours(S, s[i], s[i + 1]) /\ c[i] = s[i] + s[i + 1]
      BY <1>6, <1>9, <2>1
    <3>2. s[i] \in S /\ s[i + 1] \in S
      BY <3>1 DEF Neighbours
    <3>3. c[i] \in Int
      BY <1>0, <3>1, <3>2
    <3>4. QED  BY <3>1, <3>2, <3>3 DEF IsCutoff
  <2>2. CASE i = m
    <3>1. c[i] = 2 * (s[1] - Margin) /\ s[1] \in S
      BY <1>6, <1>8, <2>2 DEF Least
    <3>2. c[i] \in Int
      BY <1>0, <2>0, <3>1
    <3>3. QED  BY <1>8, <3>1, <3>2 DEF IsCutoff
  <2>3. CASE i = m + 1
    <3>1. c[i] = 2 * (s[m] + Margin) /\ s[m] \in S
      BY <1>6, <1>8, <2>3 DEF Greatest
    <3>2. c[i] \in Int
      BY <1>0, <2>0, <3>1
    <3>3. QED  BY <1>8, <3>1, <3>2 DEF IsCutoff
  <2>4. i \in 1..(m - 1) \/ i = m \/ i = m + 1
    BY <1>3, <1>6
  <2>5. QED  BY <2>1, <2>2, <2>3, <2>4
<1>11. ASSUME NEW d, IsCutoff(S, d) PROVE \E i \in 1..Len(c) : c[i] = d
  <2>1. CASE \E a, b \in S : Neighbours(S, a, b) /\ d = a + b
    <3>1. PICK a, b \in S : Neighbours(S, a, b) /\ d = a + b
      BY <2>1
    <3> DEFINE j == NoHigher(S, a)
    <3>2. /\ j \in 1..m /\ NoHigher(S, b) \in 1..m /\ j < NoHigher(S, b)
          /\ s[j] = a
      BY <1>3, <1>5, <3>1 DEF Neighbours
    <3> HIDE DEF j
    <3>3. j \in 1..(m - 1) /\ j \in 1..Len(c)
      BY <1>3, <1>6, <3>2
    <3>4. Neighbours(S, s[j], s[j + 1]) /\ c[j] = s[j] + s[j + 1]
      BY <1>6, <1>9, <3>3
    <3>5. s[j + 1] = b
      <4>1. s[j + 1] \in Int /\ b \in Int /\ a \in Int
        BY <1>1, <3>1, <3>4 DEF Neighbours
      <4>2. a < b /\ a < s[j + 1] /\ (b <= a \/ s[j + 1] <= b) /\ (s[j + 1] <= a \/ b <= s[j + 1])
        BY <3>1, <3>2, <3>4 DEF Neighbours
      <4>3. QED  BY <4>1, <4>2
    <3>6. QED  BY <3>1, <3>2, <3>3, <3>4, <3>5
  <2>2. CASE \E a \in S : Least(S, a) /\ d = 2 * (a - Margin)
    <3>1. PICK a \in S : Least(S, a) /\ d = 2 * (a - Margin)
      BY <2>2
    <3>2. a \in Int /\ s[1] \in Int /\ a <= s[1] /\ s[1] <= a
      BY <1>1, <1>8, <3>1 DEF Least
    <3>3. a = s[1]
      BY <3>2
    <3>4. m \in 1..Len(c)
      BY <1>3, <1>4, <1>6
    <3>5. QED  BY <1>6, <3>1, <3>3, <3>4
  <2>3. CASE \E a \in S : Greatest(S, a) /\ d = 2 * (a + Margin)
    <3>1. PICK a \in S : Greatest(S, a) /\ d = 2 * (a + Margin)
      BY <2>3
    <3>2. a \in Int /\ s[m] \in Int /\ a <= s[m] /\ s[m] <= a
      BY <1>1, <1>8, <3>1 DEF Greatest
    <3>3. a = s[m]
      BY <3>2
    <3>4. m + 1 \in 1..Len(c)
      BY <1>3, <1>4, <1>6
    <3>5. QED  BY <1>6, <3>1, <3>3, <3>4
  <2>4. QED  BY <1>11, <2>1, <2>2, <2>3 DEF IsCutoff
<1>12. ASSUME NEW v \in S PROVE ~(2 * v >= c[Len(c)])
  <2>0. Margin \in Int /\ Margin > 0
    BY CalibrationAssumption
  <2>1. v \in Int /\ s[m] \in Int /\ v <= s[m]
    BY <1>0, <1>8 DEF Greatest
  <2>2. c[Len(c)] = 2 * (s[m] + Margin)
    BY <1>6
  <2>3. QED  BY <2>0, <2>1, <2>2
<1>13. Len(c) \in Nat /\ Len(c) > 1
  BY <1>3, <1>4, <1>6
<1>14. QED  BY <1>10, <1>11, <1>12, <1>13 DEF S, c

-----------------------------------------------------------------------------
(***************************************************************************)
(* Whatever a cutoff lets through, one worth trying lets through: a        *)
(* midpoint when scores are on both sides of it, else an extreme.          *)
(***************************************************************************)
LEMMA Covered ==
  ASSUME NEW S \in SUBSET Int, IsFiniteSet(S), S # {}, NEW c \in Int
  PROVE  \E d \in Int : IsCutoff(S, d) /\ \A v \in S : 2 * v >= c <=> 2 * v >= d
<1> DEFINE Below == {v \in S : 2 * v < c}
           Above == {v \in S : 2 * v >= c}
<1>0. Margin \in Nat /\ \A v \in S : v \in Int
  BY CalibrationAssumption
<1>1. Below \in SUBSET S /\ Above \in SUBSET S /\ \A v \in S : v \in Below \/ v \in Above
  BY <1>0
<1>2. \A v \in Below : v \in S /\ 2 * v < c
  OBVIOUS
<1>3. \A v \in Above : v \in S /\ 2 * v >= c
  OBVIOUS
<1> HIDE DEF Below, Above
<1>4. IsFiniteSet(Below) /\ IsFiniteSet(Above) /\ Below \in SUBSET Int /\ Above \in SUBSET Int
  BY <1>1, FS_Subset
<1>5. CASE Below = {}
  <2>1. PICK a \in S : \A v \in S : a <= v
    BY LeastAndGreatest
  <2>2. a \in Int /\ 2 * (a - Margin) \in Int
    BY <1>0
  <2>3. ASSUME NEW v \in S PROVE 2 * v >= c /\ 2 * v >= 2 * (a - Margin)
    <3>1. v \in Int /\ a <= v /\ v \in Above
      BY <1>0, <1>1, <1>5, <2>1
    <3>2. QED  BY <1>0, <1>3, <2>2, <3>1
  <2>4. IsCutoff(S, 2 * (a - Margin))
    BY <2>1 DEF IsCutoff, Least
  <2>5. QED  BY <2>2, <2>3, <2>4
<1>6. CASE Above = {}
  <2>1. PICK a \in S : \A v \in S : v <= a
    BY LeastAndGreatest
  <2>2. a \in Int /\ 2 * (a + Margin) \in Int
    BY <1>0
  <2>3. ASSUME NEW v \in S PROVE ~(2 * v >= c) /\ ~(2 * v >= 2 * (a + Margin))
    <3>1. v \in Int /\ v <= a /\ v \in Below
      BY <1>0, <1>1, <1>6, <2>1
    <3>2. Margin > 0
      BY CalibrationAssumption
    <3>3. QED  BY <1>0, <1>2, <2>2, <3>1, <3>2
  <2>4. IsCutoff(S, 2 * (a + Margin))
    BY <2>1 DEF IsCutoff, Greatest
  <2>5. QED  BY <2>2, <2>3, <2>4
<1>7. CASE Below # {} /\ Above # {}
  <2>1. PICK a \in Below : \A v \in Below : v <= a
    BY <1>4, <1>7, LeastAndGreatest
  <2>2. PICK b \in Above : \A v \in Above : b <= v
    BY <1>4, <1>7, LeastAndGreatest
  <2>3. a \in Int /\ b \in Int /\ a \in S /\ b \in S /\ 2 * a < c /\ 2 * b >= c
    BY <1>0, <1>2, <1>3
  <2>4. a < b /\ a + b \in Int
    BY <2>3
  <2>5. ASSUME NEW v \in S PROVE v <= a \/ b <= v
    BY <1>1, <2>1, <2>2
  <2>6. Neighbours(S, a, b)
    BY <2>3, <2>4, <2>5 DEF Neighbours
  <2>7. ASSUME NEW v \in S PROVE 2 * v >= c <=> 2 * v >= a + b
    <3>1. v \in Int
      BY <1>0
    <3>2. CASE v <= a
      BY <2>3, <2>4, <3>1, <3>2
    <3>3. CASE b <= v
      BY <2>3, <2>4, <3>1, <3>3
    <3>4. QED  BY <2>5, <3>2, <3>3
  <2>8. IsCutoff(S, a + b)
    BY <2>3, <2>6 DEF IsCutoff
  <2>9. QED  BY <2>4, <2>7, <2>8
<1>8. QED  BY <1>5, <1>6, <1>7

-----------------------------------------------------------------------------
\* e is no better an operating point than b: the cutoffs aside, Better's order.
NoBetter(e, b) == e.tp <= b.tp /\ (e.tp = b.tp => ~MorePrecise(e, b))

\* With recall the same, precision is a matter of the false positives: of any
\* of them when there are no true ones.
Fewer(a, b) == IF a.tp = 0 THEN a.fp = 0 /\ b.fp > 0 ELSE a.fp < b.fp

(***************************************************************************)
(* Of points of the same recall the more precise one has fewer false       *)
(* positives.                                                              *)
(***************************************************************************)
LEMMA PrecisionIs ==
  ASSUME NEW a \in Points, NEW b \in Points, a.tp = b.tp
  PROVE  MorePrecise(a, b) <=> Fewer(a, b)
<1> DEFINE t == a.tp  f == a.fp  g == b.fp
<1>1. t \in Nat /\ f \in Nat /\ g \in Nat
  BY DEF Points
<1>2. MorePrecise(a, b) <=>
        LET x == IF t + f = 0 THEN 1 ELSE t
            y == IF t + g = 0 THEN 1 ELSE t
        IN x * (y + g) > y * (x + f)
  BY DEF MorePrecise
<1>3. Fewer(a, b) <=> IF t = 0 THEN f = 0 /\ g > 0 ELSE f < g
  BY DEF Fewer
<1> HIDE DEF t, f, g
<1>4. CASE t = 0
  <2>1. CASE f = 0 /\ g = 0
    BY <1>1, <1>2, <1>3, <1>4, <2>1
  <2>2. CASE f = 0 /\ g > 0
    BY <1>1, <1>2, <1>3, <1>4, <2>2
  <2>3. CASE f > 0 /\ g = 0
    BY <1>1, <1>2, <1>3, <1>4, <2>3
  <2>4. CASE f > 0 /\ g > 0
    BY <1>1, <1>2, <1>3, <1>4, <2>4
  <2>5. QED  BY <1>1, <2>1, <2>2, <2>3, <2>4
<1>5. CASE t # 0
  <2>1. MorePrecise(a, b) <=> t * (t + g) > t * (t + f)
    BY <1>1, <1>2, <1>5
  <2>2. t * (t + g) > t * (t + f) <=> g > f
    <3>1. ASSUME NEW x \in Nat, NEW y \in Nat, x < y PROVE t * (t + x) < t * (t + y)
      <4>1. y - x \in Nat /\ y - x > 0 /\ t + y = (t + x) + (y - x)
        BY <1>1, <3>1
      <4>2. t * (y - x) > 0 /\ t * (t + x) \in Nat
        BY <1>1, <1>5, <4>1
      <4>3. t * (t + y) = t * (t + x) + t * (y - x)
        BY <1>1, <4>1
      <4>4. QED  BY <1>1, <4>2, <4>3
    <3>2. CASE f < g
      BY <1>1, <3>1, <3>2
    <3>3. CASE g < f
      BY <1>1, <3>1, <3>3
    <3>4. CASE f = g
      BY <1>1, <3>4
    <3>5. QED  BY <1>1, <3>2, <3>3, <3>4
  <2>3. QED  BY <1>1, <1>3, <1>5, <2>1, <2>2
<1>6. QED  BY <1>4, <1>5

(***************************************************************************)
(* A point is no better than one that is better, nor than what the better  *)
(* one was no worse than.                                                  *)
(***************************************************************************)
LEMMA BetterOrder ==
  ASSUME NEW a \in Points, NEW b \in Points
  PROVE  /\ ~Better(a, b) => NoBetter(a, b)
         /\ Better(a, b) => NoBetter(b, a)
         /\ NoBetter(a, a)
         /\ \A e \in Points : NoBetter(e, b) /\ Better(a, b) => NoBetter(e, a)
<1> DEFINE NoB(x, y) == x.tp <= y.tp /\ (x.tp = y.tp => ~Fewer(x, y))
<1>1. \A x \in Points : x.tp \in Nat /\ x.fp \in Nat
  BY DEF Points
<1>2. \A x, y \in Points : NoBetter(x, y) <=> NoB(x, y)
  BY PrecisionIs DEF NoBetter
<1>3. Better(a, b) <=> \/ a.tp > b.tp
                       \/ a.tp = b.tp /\ Fewer(a, b)
                       \/ a.tp = b.tp /\ ~Fewer(b, a) /\ a.thr > b.thr
  BY PrecisionIs DEF Better
<1>4. ~Better(a, b) => NoB(a, b)
  BY <1>1, <1>3
<1>5. Better(a, b) => NoB(b, a)
  BY <1>1, <1>3 DEF Fewer
<1>6. NoB(a, a)
  BY <1>1 DEF Fewer
<1>7. ASSUME NEW e \in Points, NoB(e, b), Better(a, b) PROVE NoB(e, a)
  BY <1>1, <1>3, <1>7 DEF Fewer
<1>8. QED  BY <1>2, <1>4, <1>5, <1>6, <1>7

-----------------------------------------------------------------------------
\* b is the operating point chooseThreshold promises.
BestOf(n, p, b) ==
  /\ b \in Points /\ Meets(b)
  /\ IsCutoff(Scores(n, p), b.thr) /\ b = PointAt(n, p, b.thr)
  /\ \A c \in Int : Meets(PointAt(n, p, c)) => NoBetter(PointAt(n, p, c), b)

\* b is the best of the candidates before the j-th, or there is none yet.
BestSoFar(n, p, b, j) ==
  /\ b # None => /\ b \in Points /\ Meets(b)
                 /\ \E i \in 1..(j - 1) : b = PointAt(n, p, Candidates(n, p)[i])
  /\ \A i \in 1..(j - 1) : LET pt == PointAt(n, p, Candidates(n, p)[i])
                           IN Meets(pt) => b # None /\ NoBetter(pt, b)

\* The inductive invariant under what calibration chooses.
Scanned ==
  /\ samples \in SampleSets /\ pair \in DOMAIN LangPairs /\ k \in Nat \ {0}
  /\ k > 1 => pass \in Passes /\ Population(pair, pass) # {}
  /\ pass \in Passes /\ Population(pair, pass) # {} =>
       k <= Len(Candidates(pair, pass)) + 1 /\ BestSoFar(pair, pass, best, k)
  /\ k = 1 => best = None
  /\ chosen \in [DOMAIN LangPairs -> [Passes -> Points \cup {None}]]

Best == \A n \in DOMAIN LangPairs : \A p \in Passes : chosen[n][p] # None => BestOf(n, p, chosen[n][p])

(***************************************************************************)
(* Samples that stay give the same candidates and the same best point.     *)
(***************************************************************************)
LEMMA SamplesStay ==
  ASSUME samples' = samples, NEW n, NEW p
  PROVE  /\ Scores(n, p)' = Scores(n, p) /\ Population(n, p)' = Population(n, p)
         /\ Candidates(n, p)' = Candidates(n, p)
         /\ \A c : PointAt(n, p, c)' = PointAt(n, p, c)
<1>1. Population(n, p)' = Population(n, p)
  BY DEF Population
<1>2. Scores(n, p)' = Scores(n, p)
  BY <1>1 DEF Scores
<1>3. Sorted(n, p)' = Sorted(n, p)
  BY <1>2 DEF Sorted
<1>4. Candidates(n, p)' = Candidates(n, p)
  BY <1>3 DEF Candidates
<1>5. \A c : PointAt(n, p, c)' = PointAt(n, p, c)
  BY DEF PointAt, AtLeast, Positives, Negatives, Population
<1>6. QED  BY <1>1, <1>2, <1>4, <1>5

(***************************************************************************)
(* A scan of all candidates has found the best operating point there is.   *)
(***************************************************************************)
LEMMA ScanFindsBest ==
  ASSUME samples \in SampleSets, NEW n \in DOMAIN LangPairs, NEW p \in Passes,
         Population(n, p) # {}, NEW b, BestSoFar(n, p, b, Len(Candidates(n, p)) + 1)
  PROVE  b # None /\ BestOf(n, p, b)
<1> DEFINE S == Scores(n, p)  c == Candidates(n, p)  m == Len(c)
<1>1. /\ m \in Nat /\ m > 1
      /\ \A i \in 1..m : IsCutoff(S, c[i]) /\ c[i] \in Int
      /\ \A d : IsCutoff(S, d) => \E i \in 1..m : c[i] = d
      /\ \A v \in S : ~(2 * v >= c[m])
  BY CandidatesAre
<1>2. S \in SUBSET Int /\ IsFiniteSet(S) /\ S # {}
  BY ScoresAre
<1>3. /\ b # None => b \in Points /\ Meets(b) /\ \E i \in 1..m : b = PointAt(n, p, c[i])
      /\ \A i \in 1..m : Meets(PointAt(n, p, c[i])) => b # None /\ NoBetter(PointAt(n, p, c[i]), b)
  <2>1. 1..((m + 1) - 1) = 1..m
    BY <1>1
  <2>2. QED  BY <2>1 DEF BestSoFar
<1>4. Meets(PointAt(n, p, c[m]))
  <2>1. \A x \in Population(n, p) : ~(2 * samples[n][x].score >= c[m])
    BY <1>1, ScoresAre
  <2>2. ASSUME NEW xs \in SUBSET Population(n, p) PROVE AtLeast(n, xs, c[m]) = 0
    <3>1. {x \in xs : 2 * samples[n][x].score >= c[m]} = {}
      BY <2>1
    <3>2. QED  BY <3>1, FS_EmptySet DEF AtLeast
  <2>3. Positives(n, p) \in SUBSET Population(n, p) /\ Negatives(n, p) \in SUBSET Population(n, p)
    BY DEF Positives, Negatives
  <2>4. AtLeast(n, Positives(n, p), c[m]) = 0 /\ AtLeast(n, Negatives(n, p), c[m]) = 0
    BY <2>2, <2>3
  <2>5. QED  BY <2>4 DEF PointAt, Meets
<1>5. m \in 1..m
  BY <1>1
<1>6. b # None
  BY <1>3, <1>4, <1>5
<1>7. ASSUME NEW e \in Int, Meets(PointAt(n, p, e)) PROVE NoBetter(PointAt(n, p, e), b)
  <2>1. PICK d \in Int : IsCutoff(S, d) /\ \A v \in S : 2 * v >= e <=> 2 * v >= d
    BY <1>2, Covered
  <2>2. PICK i \in 1..m : c[i] = d
    BY <1>1, <2>1
  <2> DEFINE x == PointAt(n, p, e)  y == PointAt(n, p, d)
  <2>3. x.tp = y.tp /\ x.fp = y.fp
    BY <2>1, SamePoint
  <2> HIDE DEF x, y
  <2>4. Meets(y)
    BY <1>7, <2>3 DEF Meets, x
  <2>5. NoBetter(y, b)
    BY <1>3, <2>2, <2>4 DEF y
  <2>6. NoBetter(x, b)
    BY <2>3, <2>5 DEF NoBetter, MorePrecise
  <2>7. QED  BY <2>6 DEF x
<1>8. IsCutoff(S, b.thr) /\ b = PointAt(n, p, b.thr)
  <2>1. PICK i \in 1..m : b = PointAt(n, p, c[i])
    BY <1>3, <1>6
  <2>2. b.thr = c[i]
    BY <2>1 DEF PointAt
  <2>3. QED  BY <1>1, <2>1, <2>2
<1>9. b \in Points /\ Meets(b)
  BY <1>3, <1>6
<1>10. QED  BY <1>6, <1>7, <1>8, <1>9 DEF BestOf

(***************************************************************************)
(* One more candidate.                                                     *)
(***************************************************************************)
LEMMA OneMore ==
  ASSUME samples \in SampleSets, NEW n \in DOMAIN LangPairs, NEW p \in Passes, Population(n, p) # {},
         NEW b, NEW j \in 1..Len(Candidates(n, p)), BestSoFar(n, p, b, j),
         NEW pt, pt = PointAt(n, p, Candidates(n, p)[j]),
         NEW d, d = IF Meets(pt) /\ (b = None \/ Better(pt, b)) THEN pt ELSE b
  PROVE  BestSoFar(n, p, d, j + 1)
<1> DEFINE At(i) == PointAt(n, p, Candidates(n, p)[i])
<1>1. \A i \in 1..Len(Candidates(n, p)) : At(i) \in Points
  BY CandidatesAre, PointIs
<1>2. Len(Candidates(n, p)) \in Nat
  BY CandidatesAre
<1>3. pt \in Points /\ pt = At(j) /\ pt # None
  BY <1>1, CalibrationAssumption DEF Points
<1>4. /\ b # None => b \in Points /\ Meets(b) /\ \E i \in 1..(j - 1) : b = At(i)
      /\ \A i \in 1..(j - 1) : At(i) \in Points /\ (Meets(At(i)) => b # None /\ NoBetter(At(i), b))
  <2>1. 1..(j - 1) \subseteq 1..Len(Candidates(n, p))
    BY <1>2
  <2>2. QED  BY <1>1, <2>1 DEF BestSoFar
<1>5. (j + 1) - 1 = j /\ j \in 1..j /\ \A i \in 1..j : i = j \/ i \in 1..(j - 1)
  BY <1>2
<1>6. 1..(j - 1) \subseteq 1..j
  BY <1>2
<1> HIDE DEF At
<1>7. CASE Meets(pt) /\ (b = None \/ Better(pt, b))
  <2>1. d = pt
    BY <1>7
  <2>2. ASSUME NEW i \in 1..j, Meets(At(i)) PROVE NoBetter(At(i), pt)
    <3>1. CASE i = j
      BY <1>3, <3>1, BetterOrder
    <3>2. CASE i \in 1..(j - 1)
      <4>1. b # None /\ NoBetter(At(i), b) /\ At(i) \in Points /\ b \in Points
        BY <1>4, <2>2, <3>2
      <4>2. Better(pt, b)
        BY <1>7, <4>1
      <4>3. QED  BY <1>3, <4>1, <4>2, BetterOrder
    <3>3. QED  BY <1>5, <3>1, <3>2
  <2>3. \E i \in 1..j : d = At(i)
    BY <1>3, <1>5, <2>1
  <2>4. /\ d # None /\ d \in Points /\ Meets(d)
        /\ \A i \in 1..j : Meets(At(i)) => NoBetter(At(i), d)
    BY <1>3, <1>7, <2>1, <2>2
  <2>5. QED  BY <1>5, <2>3, <2>4 DEF BestSoFar, At
<1>8. CASE ~(Meets(pt) /\ (b = None \/ Better(pt, b)))
  <2>1. d = b
    BY <1>8
  <2>2. ASSUME NEW i \in 1..j, Meets(At(i)) PROVE b # None /\ NoBetter(At(i), b)
    <3>1. CASE i = j
      <4>1. b # None /\ ~Better(pt, b)
        BY <1>3, <1>8, <2>2, <3>1
      <4>2. b \in Points
        BY <1>4, <4>1
      <4>3. QED  BY <1>3, <3>1, <4>1, <4>2, BetterOrder
    <3>2. CASE i \in 1..(j - 1)
      BY <1>4, <2>2, <3>2
    <3>3. QED  BY <1>5, <3>1, <3>2
  <2>3. b # None => b \in Points /\ Meets(b) /\ \E i \in 1..j : b = At(i)
    BY <1>4, <1>6
  <2>4. QED  BY <1>5, <2>1, <2>2, <2>3 DEF BestSoFar, At
<1>9. QED  BY <1>7, <1>8

(***************************************************************************)
(* A step of the scan, of the choice or of the table keeps the invariant.  *)
(***************************************************************************)
LEMMA ScanStep == Scanned /\ Best /\ [Next]_vars => Scanned' /\ Best'
<1> SUFFICES ASSUME Scanned, Best, [Next]_vars PROVE Scanned' /\ Best'
  OBVIOUS
<1>0. /\ samples \in SampleSets /\ pair \in DOMAIN LangPairs /\ k \in Nat \ {0}
      /\ chosen \in [DOMAIN LangPairs -> [Passes -> Points \cup {None}]]
      /\ LangPairs # <<>> /\ DOMAIN LangPairs = 1..Len(LangPairs) /\ Len(LangPairs) \in Nat
  BY CalibrationAssumption DEF Scanned
<1>1. ASSUME samples' = samples, NEW n \in DOMAIN LangPairs, NEW p \in Passes, NEW b, BestOf(n, p, b),
             chosen'[n][p] = b
      PROVE  BestOf(n, p, chosen[n][p])'
  BY <1>1, SamplesStay DEF BestOf
<1>2. ASSUME samples' = samples, chosen' = chosen PROVE Best'
  BY <1>1, <1>2 DEF Best
<1>3. ASSUME samples' = samples, NEW n \in DOMAIN LangPairs, NEW p \in Passes,
             pair' = n, pass' = p, k' = 1, best' = None,
             chosen' \in [DOMAIN LangPairs -> [Passes -> Points \cup {None}]]
      PROVE  Scanned'
  <2>1. Population(n, p) # {} => 1 <= Len(Candidates(n, p)) + 1 /\ 1 \in Nat
    BY <1>0, CandidatesAre
  <2>2. BestSoFar(n, p, None, 1)
    BY DEF BestSoFar
  <2>3. (Population(pair, pass) # {} => k <= Len(Candidates(pair, pass)) + 1)'
    BY <1>3, <2>1, SamplesStay
  <2>4. BestSoFar(pair, pass, best, k)'
    BY <1>3, <2>2, SamplesStay DEF BestSoFar
  <2>5. QED  BY <1>0, <1>3, <2>3, <2>4 DEF Scanned
<1>4. ASSUME samples' = samples, pair' \in DOMAIN LangPairs, pass' \notin Passes, k' = 1, best' = None,
             chosen' \in [DOMAIN LangPairs -> [Passes -> Points \cup {None}]]
      PROVE  Scanned'
  BY <1>0, <1>4 DEF Scanned
<1>5. ~(pass \in Passes) \/ Population(pair, pass) = {} => k = 1 /\ best = None
  BY <1>0 DEF Scanned
<1>6. CASE Panic
  <2>1. Scanned'
    BY <1>0, <1>4, <1>5, <1>6 DEF Panic, Passes
  <2>2. QED  BY <1>2, <1>6, <2>1 DEF Panic
<1>7. CASE Consider
  <2> DEFINE pt == PointAt(pair, pass, Candidates(pair, pass)[k])
  <2>1. /\ pass \in Passes /\ Population(pair, pass) # {} /\ k <= Len(Candidates(pair, pass))
        /\ best' = IF Meets(pt) /\ (best = None \/ Better(pt, best)) THEN pt ELSE best
        /\ k' = k + 1 /\ samples' = samples /\ pair' = pair /\ pass' = pass /\ chosen' = chosen
    BY <1>7 DEF Consider, Scanning
  <2>2. Len(Candidates(pair, pass)) \in Nat
    BY <1>0, <2>1, CandidatesAre
  <2>3. k \in 1..Len(Candidates(pair, pass)) /\ k' <= Len(Candidates(pair, pass)) + 1 /\ k' \in Nat /\ k' > 1
    BY <1>0, <2>1, <2>2
  <2>4. BestSoFar(pair, pass, best, k)
    BY <2>1 DEF Scanned
  <2> HIDE DEF pt
  <2>5. BestSoFar(pair, pass, best', k + 1)
    BY <1>0, <2>1, <2>3, <2>4, OneMore DEF pt
  <2>6. BestSoFar(pair, pass, best, k)'
    BY <2>1, <2>5, SamplesStay DEF BestSoFar
  <2>7. (Population(pair, pass) # {})' /\ (k <= Len(Candidates(pair, pass)) + 1)'
    BY <2>1, <2>3, SamplesStay
  <2>8. Scanned'
    BY <1>0, <2>1, <2>3, <2>6, <2>7 DEF Scanned
  <2>9. QED  BY <1>2, <2>1, <2>8
<1>8. CASE Choose
  <2>1. /\ pass \in Passes /\ Population(pair, pass) # {} /\ ~(k <= Len(Candidates(pair, pass)))
        /\ chosen' = [chosen EXCEPT ![pair][pass] = best]
        /\ pass' = NextPass /\ k' = 1 /\ best' = None /\ samples' = samples /\ pair' = pair
    BY <1>8 DEF Choose, Scanning
  <2>2. Len(Candidates(pair, pass)) \in Nat
    BY <1>0, <2>1, CandidatesAre
  <2>3. k = Len(Candidates(pair, pass)) + 1 /\ BestSoFar(pair, pass, best, k)
    BY <1>0, <2>1, <2>2 DEF Scanned
  <2>4. best # None /\ BestOf(pair, pass, best)
    BY <1>0, <2>1, <2>3, ScanFindsBest
  <2>5. best \in Points
    BY <2>4 DEF BestOf
  <2>6. chosen' \in [DOMAIN LangPairs -> [Passes -> Points \cup {None}]]
    BY <1>0, <2>1, <2>5
  <2>7. ASSUME NEW n \in DOMAIN LangPairs, NEW p \in Passes, chosen'[n][p] # None
        PROVE  BestOf(n, p, chosen[n][p])'
    <3>1. CASE n = pair /\ p = pass
      <4>1. chosen'[n][p] = best
        BY <1>0, <2>1, <3>1
      <4>2. QED  BY <1>1, <2>1, <2>4, <3>1, <4>1
    <3>2. CASE ~(n = pair /\ p = pass)
      <4>1. chosen'[n][p] = chosen[n][p]
        BY <1>0, <2>1, <3>2
      <4>2. BestOf(n, p, chosen[n][p])
        BY <2>7, <4>1 DEF Best
      <4>3. QED  BY <1>1, <2>1, <4>1, <4>2
    <3>3. QED  BY <3>1, <3>2
  <2>8. Scanned'
    <3>1. CASE pass = "all"
      BY <1>0, <1>3, <2>1, <2>6, <3>1 DEF NextPass, Passes
    <3>2. CASE pass # "all"
      BY <1>0, <1>4, <2>1, <2>6, <3>2 DEF NextPass, Passes
    <3>3. QED  BY <3>1, <3>2
  <2>9. QED  BY <2>7, <2>8 DEF Best
<1>9. CASE Ship
  <2>1. /\ pass = "ship" /\ samples' = samples /\ k' = k /\ best' = best /\ chosen' = chosen
        /\ IF pair < Len(LangPairs) THEN pass' = "all" /\ pair' = pair + 1
                                    ELSE pass' = "write" /\ pair' = pair
    BY <1>9 DEF Ship
  <2>2. k' = 1 /\ best' = None
    BY <1>5, <2>1 DEF Passes
  <2>3. Scanned'
    <3>1. CASE pair < Len(LangPairs)
      BY <1>0, <1>3, <2>1, <2>2, <3>1 DEF Passes
    <3>2. CASE ~(pair < Len(LangPairs))
      BY <1>0, <1>4, <2>1, <2>2, <3>2 DEF Passes
    <3>3. QED  BY <3>1, <3>2
  <2>4. QED  BY <1>2, <2>1, <2>3
<1>10. CASE WriteThresholds
  <2>1. Scanned'
    BY <1>0, <1>4, <1>5, <1>10 DEF WriteThresholds, Passes
  <2>2. QED  BY <1>2, <1>10, <2>1 DEF WriteThresholds
<1>11. CASE UNCHANGED vars
  <2>1. samples' = samples /\ pair' = pair /\ pass' = pass /\ k' = k /\ best' = best /\ chosen' = chosen
    BY <1>11 DEF vars
  <2>2. Scanned'
    <3>1. (pass \in Passes /\ Population(pair, pass) # {} => k <= Len(Candidates(pair, pass)) + 1)'
      BY <2>1, SamplesStay DEF Scanned
    <3>2. (pass \in Passes /\ Population(pair, pass) # {} => BestSoFar(pair, pass, best, k))'
      BY <2>1, SamplesStay DEF Scanned, BestSoFar
    <3>3. (k > 1 => pass \in Passes /\ Population(pair, pass) # {})'
      BY <2>1, SamplesStay DEF Scanned
    <3>4. QED  BY <1>0, <2>1, <3>1, <3>2, <3>3 DEF Scanned
  <2>3. QED  BY <1>2, <2>1, <2>2
<1>12. QED
  BY <1>6, <1>7, <1>8, <1>9, <1>10, <1>11 DEF Next, Stopped

(***************************************************************************)
(* Calibration starts with nothing scanned.                                *)
(***************************************************************************)
LEMMA ScanStart == Init => Scanned /\ Best
<1> SUFFICES ASSUME Init PROVE Scanned /\ Best
  OBVIOUS
<1>1. /\ samples \in SampleSets /\ pair = 1 /\ pass = "all" /\ k = 1 /\ best = None
      /\ chosen = [n \in DOMAIN LangPairs |-> [p \in Passes |-> None]]
  BY DEF Init
<1>2. pair \in DOMAIN LangPairs
  BY <1>1, CalibrationAssumption
<1>3. pass \in Passes /\ (Population(pair, pass) # {} => k <= Len(Candidates(pair, pass)) + 1)
  <2>1. pass \in Passes
    BY <1>1 DEF Passes
  <2>2. Population(pair, pass) # {} => Len(Candidates(pair, pass)) \in Nat
    BY <1>1, <1>2, <2>1, CandidatesAre
  <2>3. QED  BY <1>1, <2>1, <2>2
<1>4. BestSoFar(pair, pass, best, k)
  BY <1>1 DEF BestSoFar
<1>5. chosen \in [DOMAIN LangPairs -> [Passes -> Points \cup {None}]]
      /\ \A n \in DOMAIN LangPairs : \A p \in Passes : chosen[n][p] = None
  BY <1>1
<1>6. QED  BY <1>1, <1>2, <1>3, <1>4, <1>5 DEF Scanned, Best

(***************************************************************************)
(* In every state the points chosen so far are the best there are.         *)
(***************************************************************************)
LEMMA AlwaysBest == Spec => [](Scanned /\ Best)
  BY ScanStart, ScanStep, PTL DEF Spec

(***************************************************************************)
(* chooseThreshold keeps its promise for any samples: the operating point  *)
(* it returns meets the target, and no cutoff at all that meets it has     *)
(* more recall, or as much and more precision.                             *)
(***************************************************************************)
THEOREM ChoiceIsBest == Spec => []BestCutoff
<1>1. Scanned /\ Best => BestCutoff
  <2> SUFFICES ASSUME Scanned, Best, NEW p \in Passes, chosen[pair][p] # None
               PROVE  /\ Meets(chosen[pair][p])
                      /\ \A cutoff \in Axis(pair, p) :
                           LET pt == PointAt(pair, p, cutoff)
                           IN Meets(pt) => /\ pt.tp <= chosen[pair][p].tp
                                           /\ pt.tp = chosen[pair][p].tp => ~MorePrecise(pt, chosen[pair][p])
    BY DEF BestCutoff
  <2>1. BestOf(pair, p, chosen[pair][p])
    BY DEF Best, Scanned
  <2>2. \A cutoff \in Axis(pair, p) : cutoff \in Int
    BY DEF Axis
  <2>3. QED  BY <2>1, <2>2 DEF BestOf, NoBetter
<1>2. QED  BY <1>1, AlwaysBest, PTL

-----------------------------------------------------------------------------
KeyOf(n) == PairKey(LangPairs[n][1], LangPairs[n][2])

\* Pair n is done: its cutoff is in the table.
Shipped(n) ==
  /\ chosen[n]["servable"] # None
  /\ KeyOf(n) \in DOMAIN table /\ table[KeyOf(n)] = Round(chosen[n]["servable"].thr)

\* The inductive invariant under what calibration leaves: the passes come in
\* their order and the pairs in theirs.
InTurn ==
  /\ pass \in {"servable", "ship"} => chosen[pair]["all"] # None
  /\ pass = "ship" => chosen[pair]["servable"] # None
  /\ \A n \in DOMAIN LangPairs : chosen[n]["servable"] # None => chosen[n]["all"] # None
  /\ pass # "panic" =>
       \A n \in DOMAIN LangPairs : n < pair \/ pass \in {"write", "done"} => Shipped(n)

(***************************************************************************)
(* Two pairs have two keys, and a pair has one in either direction.        *)
(***************************************************************************)
LEMMA Keys ==
  ASSUME NEW m \in DOMAIN LangPairs, NEW n \in DOMAIN LangPairs
  PROVE  /\ KeyOf(m) = KeyOf(n) => m = n
         /\ PairKey(LangPairs[n][2], LangPairs[n][1]) = KeyOf(n)
<1>1. ASSUME NEW i \in DOMAIN LangPairs
      PROVE  \E a, b \in Range(Languages) : LangPairs[i] = <<a, b>>
  BY CalibrationAssumption
<1>2. PICK a \in Range(Languages), b \in Range(Languages) : LangPairs[m] = <<a, b>>
  BY <1>1
<1>3. PICK c \in Range(Languages), d \in Range(Languages) : LangPairs[n] = <<c, d>>
  BY <1>1
<1>4. ASSUME KeyOf(m) = KeyOf(n) PROVE m = n
  <2>1. Range(<<a, b>>) = {a, b} /\ Range(<<c, d>>) = {c, d}
    BY DEF Range
  <2>2. KeyOf(m) = <<a, b>> \/ KeyOf(m) = <<b, a>>
    BY <1>2 DEF KeyOf, PairKey
  <2>3. KeyOf(n) = <<c, d>> \/ KeyOf(n) = <<d, c>>
    BY <1>3 DEF KeyOf, PairKey
  <2>4. {a, b} = {c, d}
    BY <1>4, <2>2, <2>3
  <2>5. Range(LangPairs[m]) = Range(LangPairs[n])
    BY <1>2, <1>3, <2>1, <2>4
  <2>6. QED  BY <2>5, CalibrationAssumption
<1>5. PairKey(d, c) = PairKey(c, d)
  <2>1. ASSUME NEW l \in Range(Languages) PROVE Place(l) \in Int /\ Languages[Place(l)] = l
    <3>1. \E j \in DOMAIN Languages : Languages[j] = l
      BY DEF Range
    <3>2. Place(l) \in DOMAIN Languages /\ Languages[Place(l)] = l
      BY <3>1 DEF Place
    <3>3. DOMAIN Languages = 1..Len(Languages)
      BY CalibrationAssumption
    <3>4. QED  BY <3>2, <3>3
  <2>2. Place(c) \in Int /\ Place(d) \in Int /\ (Place(c) = Place(d) => c = d)
    BY <2>1
  <2>3. QED  BY <2>2 DEF PairKey
<1>6. QED  BY <1>3, <1>4, <1>5 DEF KeyOf

(***************************************************************************)
(* A step of the calibration keeps the order.                              *)
(***************************************************************************)
LEMMA TurnStep == Scanned /\ InTurn /\ [Next]_vars => InTurn'
<1> SUFFICES ASSUME Scanned, InTurn, [Next]_vars PROVE InTurn'
  OBVIOUS
<1>0. /\ samples \in SampleSets /\ pair \in DOMAIN LangPairs
      /\ chosen \in [DOMAIN LangPairs -> [Passes -> Points \cup {None}]]
      /\ DOMAIN LangPairs = 1..Len(LangPairs) /\ Len(LangPairs) \in Nat
  BY CalibrationAssumption DEF Scanned
<1>1. ASSUME chosen' = chosen, table' = table, NEW n, Shipped(n) PROVE Shipped(n)'
  BY <1>1 DEF Shipped
<1>2. CASE Panic
  BY <1>2 DEF Panic, InTurn
<1>3. CASE Consider
  <2>1. pass' = pass /\ pair' = pair /\ chosen' = chosen /\ table' = table
    BY <1>3 DEF Consider
  <2>2. QED  BY <1>1, <2>1 DEF InTurn
<1>4. CASE Choose
  <2>1. /\ pass \in Passes /\ Population(pair, pass) # {} /\ ~(k <= Len(Candidates(pair, pass)))
        /\ chosen' = [chosen EXCEPT ![pair][pass] = best]
        /\ pass' = NextPass /\ pair' = pair /\ table' = table
    BY <1>4 DEF Choose, Scanning
  <2>2. best # None
    <3>1. Len(Candidates(pair, pass)) \in Nat /\ k \in Nat
      BY <1>0, <2>1, CandidatesAre DEF Scanned
    <3>2. k = Len(Candidates(pair, pass)) + 1 /\ BestSoFar(pair, pass, best, k)
      BY <2>1, <3>1 DEF Scanned
    <3>3. QED  BY <1>0, <2>1, <3>2, ScanFindsBest
  <2>3. /\ chosen'[pair][pass] = best
        /\ \A n \in DOMAIN LangPairs : \A p \in Passes :
             ~(n = pair /\ p = pass) => chosen'[n][p] = chosen[n][p]
    BY <1>0, <2>1
  <2>4. (pass = "all" => pass' = "servable") /\ (pass # "all" => pass = "servable" /\ pass' = "ship")
    BY <2>1 DEF NextPass, Passes
  <2>5. "all" \in Passes /\ "servable" \in Passes
    BY DEF Passes
  <2>6. pass' \in {"servable", "ship"} => chosen'[pair']["all"] # None
    BY <1>0, <2>1, <2>2, <2>3, <2>4, <2>5 DEF InTurn
  <2>7. pass' = "ship" => chosen'[pair']["servable"] # None
    BY <2>1, <2>2, <2>3, <2>4
  <2>8. ASSUME NEW n \in DOMAIN LangPairs, chosen'[n]["servable"] # None PROVE chosen'[n]["all"] # None
    BY <1>0, <2>2, <2>3, <2>4, <2>5, <2>8 DEF InTurn
  <2>9. ASSUME NEW n \in DOMAIN LangPairs, n < pair' PROVE Shipped(n)'
    <3>1. Shipped(n) /\ n # pair
      BY <1>0, <2>1, <2>4, <2>9 DEF InTurn
    <3>2. chosen'[n]["servable"] = chosen[n]["servable"]
      BY <2>3, <2>5, <3>1
    <3>3. QED  BY <2>1, <3>1, <3>2 DEF Shipped
  <2>10. pass' \notin {"write", "done"}
    BY <2>4
  <2>11. QED  BY <2>6, <2>7, <2>8, <2>9, <2>10 DEF InTurn
<1>5. CASE Ship
  <2> DEFINE new == KeyOf(pair)
  <2>1. /\ pass = "ship" /\ chosen' = chosen
        /\ table' = [key \in DOMAIN table \cup {new} |->
                       IF key = new THEN Round(chosen[pair]["servable"].thr) ELSE table[key]]
        /\ IF pair < Len(LangPairs) THEN pass' = "all" /\ pair' = pair + 1
                                    ELSE pass' = "write" /\ pair' = pair
    BY <1>5 DEF Ship, KeyOf
  <2> HIDE DEF new
  <2>2. ASSUME NEW n \in DOMAIN LangPairs, n <= pair PROVE Shipped(n)'
    <3>1. CASE n = pair
      BY <2>1, <3>1 DEF InTurn, Shipped, new
    <3>2. CASE n < pair
      <4>1. Shipped(n)
        BY <2>1, <3>2 DEF InTurn
      <4>2. KeyOf(n) # new
        BY <1>0, <3>2, Keys DEF new
      <4>3. QED  BY <2>1, <4>1, <4>2 DEF Shipped
    <3>3. QED  BY <1>0, <2>2, <3>1, <3>2
  <2>3. \A n \in DOMAIN LangPairs : n < pair' \/ pass' \in {"write", "done"} => n <= pair
    BY <1>0, <2>1
  <2>4. pass' \notin {"servable", "ship"}
    BY <2>1
  <2>5. QED  BY <2>1, <2>2, <2>3, <2>4 DEF InTurn
<1>6. CASE WriteThresholds
  <2>1. pass = "write" /\ pass' = "done" /\ pair' = pair /\ chosen' = chosen /\ table' = table
    BY <1>6 DEF WriteThresholds
  <2>2. QED  BY <1>1, <2>1 DEF InTurn
<1>7. CASE UNCHANGED vars
  <2>1. pass' = pass /\ pair' = pair /\ chosen' = chosen /\ table' = table
    BY <1>7 DEF vars
  <2>2. QED  BY <1>1, <2>1 DEF InTurn
<1>8. QED  BY <1>2, <1>3, <1>4, <1>5, <1>6, <1>7 DEF Next, Stopped

(***************************************************************************)
(* In every state the passes are in turn.                                  *)
(***************************************************************************)
LEMMA AlwaysInTurn == Spec => []InTurn
<1>1. Init => InTurn
  <2> SUFFICES ASSUME Init PROVE InTurn
    OBVIOUS
  <2>1. pair = 1 /\ pass = "all" /\ \A n \in DOMAIN LangPairs : chosen[n]["servable"] = None
    BY DEF Init, Passes
  <2>2. \A n \in DOMAIN LangPairs : ~(n < 1)
    BY CalibrationAssumption
  <2>3. QED  BY <2>1, <2>2 DEF InTurn
<1>2. QED  BY <1>1, AlwaysBest, TurnStep, PTL DEF Spec

(***************************************************************************)
(* Knowing of the guard never costs recall where the guard rejects no true *)
(* positive: the cutoff chosen without it meets the target with it too.    *)
(***************************************************************************)
THEOREM GuardNeverCosts == Spec => []GuardOnlyHelps
<1>1. Scanned /\ Best /\ InTurn => GuardOnlyHelps
  <2> SUFFICES ASSUME Scanned, Best, InTurn, chosen[pair]["servable"] # None, NoFalseFires
               PROVE  chosen[pair]["servable"].tp >= chosen[pair]["all"].tp
    BY DEF GuardOnlyHelps
  <2> DEFINE a == chosen[pair]["all"]  b == chosen[pair]["servable"]
  <2>0. "all" \in Passes /\ "servable" \in Passes /\ pair \in DOMAIN LangPairs /\ samples \in SampleSets
    BY DEF Passes, Scanned
  <2>1. BestOf(pair, "all", a) /\ BestOf(pair, "servable", b)
    BY <2>0 DEF Best, InTurn
  <2> HIDE DEF a, b
  <2> DEFINE c == a.thr
  <2>2. a = PointAt(pair, "all", c) /\ c \in Int
    BY <2>1 DEF BestOf, Points
  <2> HIDE DEF c
  <2> DEFINE e == PointAt(pair, "servable", c)
             N == Negatives(pair, "all")  M == Negatives(pair, "servable")
  <2>3. Positives(pair, "servable") = Positives(pair, "all") /\ M \in SUBSET N
    BY DEF NoFalseFires, Positives, Negatives, Population
  <2>4. e.tp = a.tp
    BY <2>2, <2>3 DEF PointAt
  <2>5. e.fp <= a.fp
    <3> DEFINE m == {x \in M : 2 * samples[pair][x].score >= c}
               n == {x \in N : 2 * samples[pair][x].score >= c}
    <3>1. m \in SUBSET n /\ n \in SUBSET N
      BY <2>3
    <3>2. e.fp = Cardinality(m) /\ a.fp = Cardinality(n)
      BY <2>2 DEF PointAt, AtLeast
    <3>3. IsFiniteSet(N)
      BY <2>0, ScoresAre
    <3> HIDE DEF m, n, N, e
    <3>4. IsFiniteSet(n)
      BY <3>1, <3>3, FS_Subset
    <3>5. QED  BY <3>1, <3>2, <3>4, FS_Subset
  <2>6. a \in Points /\ e \in Points /\ Meets(a)
    BY <2>0, <2>1, <2>2, PointIs DEF BestOf
  <2> HIDE DEF e
  <2>7. Meets(e)
    <3> DEFINE t == a.tp  f == a.fp  g == e.fp
    <3>1. t \in Nat /\ f \in Nat /\ g \in Nat /\ Target \in Nat /\ g <= f
      BY <2>5, <2>6, CalibrationAssumption DEF Points
    <3>2. t + f = 0 \/ 100 * t >= Target * (t + f)
      BY <2>6 DEF Meets
    <3> HIDE DEF t, f, g
    <3>3. Target * (t + g) <= Target * (t + f)
      <4>1. f - g \in Nat /\ t + f = (t + g) + (f - g)
        BY <3>1
      <4>2. Target * (f - g) \in Nat
        BY <3>1, <4>1
      <4>3. Target * (t + f) = Target * (t + g) + Target * (f - g)
        BY <3>1, <4>1
      <4>4. Target * (t + g) \in Nat
        BY <3>1
      <4>5. QED  BY <4>2, <4>3, <4>4
    <3>4. Target * (t + g) \in Nat /\ Target * (t + f) \in Nat
      BY <3>1
    <3>5. t + g = 0 \/ 100 * t >= Target * (t + g)
      <4>1. CASE t + f = 0
        BY <3>1, <4>1
      <4>2. CASE 100 * t >= Target * (t + f)
        BY <3>1, <3>3, <3>4, <4>2
      <4>3. QED  BY <3>2, <4>1, <4>2
    <3>6. QED  BY <2>4, <3>5 DEF Meets, t, g
  <2>8. NoBetter(e, b)
    BY <2>1, <2>2, <2>7 DEF BestOf, e
  <2>9. b \in Points
    BY <2>1 DEF BestOf
  <2>10. QED  BY <2>4, <2>6, <2>8, <2>9 DEF NoBetter, Points, a, b
<1>2. QED  BY <1>1, AlwaysBest, AlwaysInTurn, PTL

(***************************************************************************)
(* Rounding moves a cutoff by at most the grain.                           *)
(***************************************************************************)
LEMMA RoundIs ==
  ASSUME NEW c \in Int
  PROVE  Round(c) \in Int /\ c - Grain < Round(c) /\ Round(c) <= c + Grain
<1> DEFINE g == 2 * Grain  x == c + Grain
<1>1. Grain \in Int /\ Grain > 0
  BY CalibrationAssumption
<1>2. g \in Int /\ g > 0 /\ x \in Int
  BY <1>1
<1>3. Round(c) = (x \div g) * g
  BY DEF Round
<1>0. g = Grain + Grain /\ x = c + Grain
  BY <1>1
<1> HIDE DEF g, x
<1>4. x \div g \in Int /\ x % g \in 0..(g - 1) /\ x = g * (x \div g) + (x % g)
  BY <1>2
<1>5. (x \div g) * g = g * (x \div g)
  BY <1>2, <1>4
<1>6. g * (x \div g) \in Int /\ g * (x \div g) <= x /\ x < g * (x \div g) + g
  BY <1>2, <1>4
<1>7. QED  BY <1>0, <1>1, <1>2, <1>3, <1>5, <1>6

(***************************************************************************)
(* A score further from a cutoff than the rounding stays on its side.      *)
(***************************************************************************)
LEMMA ClearOfRounding ==
  ASSUME NEW c \in Int, NEW v \in Int, Clear(v, c)
  PROVE  v >= Round(c) <=> v >= c
<1>1. Round(c) \in Int /\ c - Grain < Round(c) /\ Round(c) <= c + Grain
  BY RoundIs
<1>2. Grain \in Int /\ Grain > 0
  BY CalibrationAssumption
<1>3. v >= c + Grain \/ v <= c - Grain
  BY DEF Clear
<1>4. QED  BY ONLY <1>1, <1>2, <1>3, c \in Int, v \in Int

(***************************************************************************)
(* The greatest of a finite set of numbers.                                *)
(***************************************************************************)
LEMMA MaxIs ==
  ASSUME NEW S \in SUBSET Int, IsFiniteSet(S), S # {}
  PROVE  Max(S) \in S /\ \A y \in S : y <= Max(S)
<1>1. PICK x \in S : \A y \in S : y <= x
  BY LeastAndGreatest
<1>2. \A y \in S : x >= y
  BY <1>1
<1>3. QED  BY <1>2 DEF Max

\* The cutoffs of the table are finitely many numbers, and the default is the
\* highest of them.
Tabled ==
  /\ Range(table) \in SUBSET Int /\ IsFiniteSet(Range(table))
  /\ pass = "done" => default = Highest(Range(table))

(***************************************************************************)
(* A step of the calibration keeps the table so.                           *)
(***************************************************************************)
LEMMA TableStep == Scanned /\ InTurn /\ Tabled /\ [Next]_vars => Tabled'
<1> SUFFICES ASSUME Scanned, InTurn, Tabled, [Next]_vars PROVE Tabled'
  OBVIOUS
<1>1. CASE Panic \/ Consider \/ Choose
  <2>1. table' = table /\ (pass' = "done" => pass = "done" /\ default' = default)
    BY <1>1 DEF Panic, Consider, Choose, NextPass, Passes, Scanning
  <2>2. QED  BY <2>1 DEF Tabled
<1>2. CASE Ship
  <2> DEFINE new == KeyOf(pair)  r == Round(chosen[pair]["servable"].thr)
  <2>1. /\ pass = "ship" /\ pass' # "done"
        /\ table' = [key \in DOMAIN table \cup {new} |-> IF key = new THEN r ELSE table[key]]
    BY <1>2 DEF Ship, KeyOf
  <2>2. r \in Int
    <3>1. chosen[pair]["servable"] \in Points
      BY <2>1 DEF Scanned, InTurn, Passes
    <3>2. QED  BY <3>1, RoundIs DEF Points
  <2> HIDE DEF new, r
  <2>3. Range(table') \in SUBSET (Range(table) \cup {r})
    BY <2>1 DEF Range
  <2>4. IsFiniteSet(Range(table) \cup {r})
    BY FS_AddElement DEF Tabled
  <2>5. IsFiniteSet(Range(table'))
    BY ONLY <2>3, <2>4, FS_Subset
  <2>6. QED  BY <2>1, <2>2, <2>3, <2>5 DEF Tabled
<1>3. CASE WriteThresholds
  BY <1>3 DEF WriteThresholds, Tabled
<1>4. CASE UNCHANGED vars
  BY <1>4 DEF vars, Tabled
<1>5. QED  BY <1>1, <1>2, <1>3, <1>4 DEF Next, Stopped

(***************************************************************************)
(* In every state the table and its default are so.                        *)
(***************************************************************************)
LEMMA AlwaysTabled == Spec => []Tabled
<1>1. Init => Tabled
  <2> SUFFICES ASSUME Init PROVE Tabled
    OBVIOUS
  <2>1. Range(table) = {} /\ pass # "done"
    BY DEF Init, Range
  <2>2. QED  BY <2>1, FS_EmptySet DEF Tabled
<1>2. QED  BY <1>1, TableStep, AlwaysBest, AlwaysInTurn, PTL DEF Spec

(***************************************************************************)
(* What the engine looks up, in either direction, is what was calibrated:  *)
(* rounding the cutoff changes nothing for the scores further from it than *)
(* the rounding, and a pair that was not calibrated is looked up no lower  *)
(* than any that was.                                                      *)
(***************************************************************************)
THEOREM LookupsAreCalibrated == Spec => []LookupsServeAsChosen
<1>1. Scanned /\ Best /\ InTurn /\ Tabled => LookupsServeAsChosen
  <2> SUFFICES ASSUME Scanned, Best, InTurn, Tabled, pass = "done", NEW n \in DOMAIN LangPairs
               PROVE  LET a == LangPairs[n][1]  b == LangPairs[n][2]
                      IN /\ ServesAsChosen(n, a, b) /\ ServesAsChosen(n, b, a)
                         /\ \A x, y \in Range(Languages) :
                              PairKey(x, y) \notin DOMAIN table => For(x, y) >= For(a, b)
    BY DEF LookupsServeAsChosen
  <2> DEFINE a == LangPairs[n][1]  b == LangPairs[n][2]  c == chosen[n]["servable"].thr
  <2>1. Shipped(n)
    BY DEF InTurn
  <2>2. c \in Int
    BY <2>1 DEF Scanned, Shipped, Points, Passes
  <2>3. PairKey(a, b) = KeyOf(n) /\ PairKey(b, a) = KeyOf(n)
    BY Keys DEF KeyOf
  <2>4. For(a, b) = Round(c) /\ For(b, a) = Round(c)
    BY <2>1, <2>3 DEF For, Shipped
  <2>5. ASSUME NEW x \in Population(n, "servable")
        PROVE  2 * samples[n][x].score \in Int
    BY CalibrationAssumption DEF Scanned, Population
  <2> HIDE DEF a, b, c
  <2>6. ASSUME NEW x \in Population(n, "servable"), Clear(2 * samples[n][x].score, c)
        PROVE  2 * samples[n][x].score >= Round(c) <=> 2 * samples[n][x].score >= c
    BY <2>2, <2>5, <2>6, ClearOfRounding
  <2>7. ServesAsChosen(n, a, b) /\ ServesAsChosen(n, b, a)
    BY <2>4, <2>6 DEF ServesAsChosen, c
  <2>8. ASSUME NEW x, NEW y, PairKey(x, y) \notin DOMAIN table
        PROVE  For(x, y) >= For(a, b)
    <3> DEFINE R == Range(table)
    <3>1. Round(c) \in R /\ R \in SUBSET Int /\ IsFiniteSet(R)
      BY <2>1 DEF Shipped, Tabled, Range, c
    <3>2. default = Max({0} \cup R)
      BY DEF Tabled, Highest
    <3> HIDE DEF R
    <3>3. /\ {0} \cup R \in SUBSET Int /\ IsFiniteSet({0} \cup R) /\ {0} \cup R # {}
          /\ 0 \in {0} \cup R /\ Round(c) \in {0} \cup R
      <4>1. IsFiniteSet(R \cup {0}) /\ R \cup {0} = {0} \cup R
        BY <3>1, FS_AddElement
      <4>2. QED  BY <3>1, <4>1
    <3>4. default \in Int /\ default >= 0 /\ default >= Round(c)
      BY <3>2, <3>3, MaxIs
    <3>5. Fallback \in Nat /\ Round(c) \in Int
      BY <2>2, RoundIs, CalibrationAssumption
    <3>6. Default \in Int /\ Default >= Round(c)
      BY <3>4, <3>5 DEF Default
    <3>7. QED  BY <2>4, <2>8, <3>6 DEF For
  <2>9. QED  BY <2>7, <2>8 DEF a, b
<1>2. QED  BY <1>1, AlwaysBest, AlwaysInTurn, AlwaysTabled, PTL

-----------------------------------------------------------------------------
\* What Reading computes, up to the m-th stage.
Staged(f, m, s, label) ==
  /\ DOMAIN f = 0..m
  /\ f[0] = [rest |-> s, found |-> {}]
  /\ \A n \in 1..m : f[n] = Consume(AllStages[n], f[n-1], label)

(***************************************************************************)
(* A reading is defined for every text and label: after each stage it is   *)
(* what the stage makes of what it was before.                             *)
(***************************************************************************)
LEMMA ReadingIs ==
  ASSUME NEW s, NEW label, NEW N \in Nat, N = Len(AllStages)
  PROVE  Staged(Reading(s, label), N, s, label)
<1> DEFINE start == [rest |-> s, found |-> {}]
           Bad == {n \in 0..N : ~ \E f : Staged(f, n, s, label)}
<1>1. Bad = {}
  <2> SUFFICES ASSUME Bad # {} PROVE FALSE
    OBVIOUS
  <2>1. IsFiniteSet(0..N)
    <3>1. 0 \in Int /\ N \in Int
      OBVIOUS
    <3>2. QED  BY <3>1, FS_Interval
  <2>2. Bad \in SUBSET (0..N) /\ Bad \in SUBSET Int
    OBVIOUS
  <2>3. \A n \in Bad : n \in 0..N /\ ~ \E f : Staged(f, n, s, label)
    OBVIOUS
  <2>4. \A n \in 0..N : n \notin Bad => \E f : Staged(f, n, s, label)
    OBVIOUS
  <2> HIDE DEF Bad
  <2>5. IsFiniteSet(Bad)
    BY <2>1, <2>2, FS_Subset
  <2>6. PICK n \in Bad : \A m \in Bad : n <= m
    BY <2>2, <2>5, LeastAndGreatest
  <2>7. CASE n = 0
    <3> DEFINE f == [m \in 0..0 |-> start]
    <3>1. 0 \in 0..0 /\ 1..0 = {}
      OBVIOUS
    <3>2. Staged(f, 0, s, label)
      BY <3>1 DEF Staged
    <3>3. QED  BY <2>3, <2>7, <3>2
  <2>8. CASE n # 0
    <3>1. n - 1 \in 0..N /\ n \in Int /\ n \in Nat /\ n > 0
      BY <2>3, <2>8
    <3>2. n - 1 \notin Bad
      BY <2>6, <3>1
    <3>3. PICK f : Staged(f, n - 1, s, label)
      BY <2>4, <3>1, <3>2
    <3> DEFINE new == Consume(AllStages[n], f[n-1], label)
               g == [m \in 0..n |-> IF m = n THEN new ELSE f[m]]
    <3>4. DOMAIN g = 0..n /\ g[n] = new /\ \A m \in 0..(n-1) : g[m] = f[m]
      BY <3>1
    <3>5. g[0] = start
      <4>1. 0 \in 0..(n-1)
        BY <3>1
      <4>2. QED  BY <3>3, <3>4, <4>1 DEF Staged
    <3>6. ASSUME NEW m \in 1..n PROVE g[m] = Consume(AllStages[m], g[m-1], label)
      <4>1. m - 1 \in 0..(n-1) /\ g[m-1] = f[m-1]
        BY <3>1, <3>4
      <4>2. CASE m = n
        BY <3>4, <4>1, <4>2
      <4>3. CASE m # n
        <5>1. m \in 1..(n-1) /\ m \in 0..(n-1)
          BY <3>1, <4>3
        <5>2. QED  BY <3>3, <3>4, <4>1, <5>1 DEF Staged
      <4>4. QED  BY <4>2, <4>3
    <3> HIDE DEF g
    <3>7. Staged(g, n, s, label)
      BY <3>4, <3>5, <3>6 DEF Staged
    <3>8. QED  BY <2>3, <3>7
  <2>9. QED  BY <2>7, <2>8
<1>2. \E f : Staged(f, N, s, label)
  BY <1>1
<1> HIDE DEF Bad
<1>3. PICK f : Staged(f, N, s, label)
  BY <1>2
<1> DEFINE Body(h) == [n \in 0..N |-> IF n = 0 THEN start ELSE Consume(AllStages[n], h[n-1], label)]
<1>4. f = Body(f)
  <2>1. ASSUME NEW n \in 0..N PROVE f[n] = IF n = 0 THEN start ELSE Consume(AllStages[n], f[n-1], label)
    <3>1. n = 0 \/ n \in 1..N
      OBVIOUS
    <3>2. QED  BY <1>3, <3>1 DEF Staged
  <2>2. f = [n \in 0..N |-> f[n]]
    BY <1>3 DEF Staged
  <2>3. QED  BY <2>1, <2>2
<1>5. Reading(s, label) = CHOOSE h : h = Body(h)
  BY DEF Reading
<1> DEFINE r == Reading(s, label)
<1>6. r = Body(r)
  BY <1>4, <1>5
<1> HIDE DEF r
<1>7. DOMAIN r = 0..N /\ r[0] = start /\ \A n \in 1..N : r[n] = Consume(AllStages[n], r[n-1], label)
  <2>1. DOMAIN r = 0..N /\ \A n \in 0..N : r[n] = IF n = 0 THEN start ELSE Consume(AllStages[n], r[n-1], label)
    BY <1>6
  <2>2. 0 \in 0..N /\ \A n \in 1..N : n \in 0..N /\ n # 0
    OBVIOUS
  <2>3. QED  BY <2>1, <2>2
<1>8. QED  BY <1>7 DEF Staged, r

(***************************************************************************)
(* An amount without a lone separator before one group of three digits has *)
(* decimals under every label or under none.                               *)
(***************************************************************************)
LEMMA SameAmount ==
  ASSUME NEW m, NEW l1, NEW l2, ~LoneSeparator(m)
  PROVE  NormalizeNumber(AmountOf(m), l1) = NormalizeNumber(AmountOf(m), l2)
<1> DEFINE a == AmountOf(m)
<1>1. ~(Len(a.seps) = 1 /\ IsGrouped(a))
  BY DEF LoneSeparator
<1> HIDE DEF a
<1>2. HasDecimals(a, l1) = HasDecimals(a, l2)
  BY <1>1 DEF HasDecimals
<1>3. Spelled(a, l1) = Spelled(a, l2)
  BY <1>2 DEF Spelled
<1>4. NormalizeNumber(a, l1) = NormalizeNumber(a, l2)
  BY <1>3 DEF NormalizeNumber
<1>5. QED  BY <1>4 DEF a

(***************************************************************************)
(* A slashed date of which one component cannot be a month is a date under *)
(* every label or under none, and the same one.                            *)
(***************************************************************************)
LEMMA SameSlashDate ==
  ASSUME NEW a, NEW b, NEW y, NEW l1, NEW l2,
         ~(a \in 1..12 /\ b \in 1..12), IsDate(SlashDate(a, b, y, l1))
  PROVE  SlashDate(a, b, y, l2) = SlashDate(a, b, y, l1)
<1>1. CASE MonthFirst(a, b, l1)
  <2>1. SlashDate(a, b, y, l1) = [year |-> y, month |-> a, day |-> b]
    BY <1>1 DEF SlashDate, Date
  <2>2. a \in 1..12 /\ b \in 1..31
    BY <2>1 DEF IsDate
  <2>3. a <= 12 /\ b > 12
    BY <2>2
  <2>4. MonthFirst(a, b, l2)
    BY <2>3 DEF MonthFirst
  <2>5. QED  BY <1>1, <2>4 DEF SlashDate
<1>2. CASE ~MonthFirst(a, b, l1)
  <2>1. SlashDate(a, b, y, l1) = [year |-> y, month |-> b, day |-> a]
    BY <1>2 DEF SlashDate, Date
  <2>2. b \in 1..12 /\ a \in 1..31
    BY <2>1 DEF IsDate
  <2>3. ~(a <= 12)
    BY <2>2
  <2>4. ~MonthFirst(a, b, l2)
    BY <2>3 DEF MonthFirst
  <2>5. QED  BY <1>2, <2>4 DEF SlashDate
<1>3. QED  BY <1>1, <1>2

(***************************************************************************)
(* The same of a match of the pattern for slashed dates.                   *)
(***************************************************************************)
LEMMA SameDate ==
  ASSUME NEW m, NEW l1, NEW l2, ~EitherMonth(m), IsDate(DateOf("date slash", m, l1))
  PROVE  DateOf("date slash", m, l2) = DateOf("date slash", m, l1)
<1> DEFINE a == m[1].n
           b == m[3].n
           y == m[5].n
<1>1. \A l : DateOf("date slash", m, l) = SlashDate(a, b, y, l)
  BY DEF DateOf
<1>2. ~(a \in 1..12 /\ b \in 1..12)
  BY DEF EitherMonth
<1>3. IsDate(SlashDate(a, b, y, l1))
  BY <1>1
<1> HIDE DEF a, b, y
<1>4. SlashDate(a, b, y, l2) = SlashDate(a, b, y, l1)
  BY <1>2, <1>3, SameSlashDate
<1>5. QED  BY <1>1, <1>4

(***************************************************************************)
(* A match that does not depend on the label is taken under every label or *)
(* under none, and read as the same token.                                 *)
(***************************************************************************)
LEMMA SameMatch ==
  ASSUME NEW stage, NEW s, NEW span, NEW l1, NEW l2,
         ~DependsOnLabel(stage, SubSeq(s, span[1], span[2])),
         Taken(stage, s, span, l1)
  PROVE  /\ Taken(stage, s, span, l2)
         /\ TokensOf(stage, SubSeq(s, span[1], span[2]), l1)
              = TokensOf(stage, SubSeq(s, span[1], span[2]), l2)
<1> DEFINE m == SubSeq(s, span[1], span[2])
<1>1. CASE stage = "date slash"
  <2>1. ~EitherMonth(m) /\ IsDate(DateOf(stage, m, l1))
    BY <1>1 DEF DependsOnLabel, Taken
  <2>2. DateOf(stage, m, l2) = DateOf(stage, m, l1)
    BY <1>1, <2>1, SameDate
  <2> HIDE DEF m
  <2>3. TokensOf(stage, m, l1) = TokensOf(stage, m, l2)
    BY <1>1, <2>2 DEF TokensOf
  <2>4. Taken(stage, s, span, l2)
    BY <1>1, <2>1, <2>2 DEF Taken, m
  <2>5. QED  BY <2>3, <2>4 DEF m
<1>2. CASE stage = "number"
  <2>1. ~LoneSeparator(m)
    BY <1>2 DEF DependsOnLabel
  <2> HIDE DEF m
  <2>2. NormalizeNumber(AmountOf(m), l1) = NormalizeNumber(AmountOf(m), l2)
    BY <2>1, SameAmount
  <2>3. TokensOf(stage, m, l1) = TokensOf(stage, m, l2)
    BY <1>2, <2>2 DEF TokensOf
  <2>4. Taken(stage, s, span, l2)
    BY <1>2 DEF Taken
  <2>5. QED  BY <2>3, <2>4 DEF m
<1>3. CASE stage \notin {"date slash", "number"}
  <2>1. DateOf(stage, m, l1) = DateOf(stage, m, l2)
    BY <1>3 DEF DateOf
  <2>2. Taken(stage, s, span, l2)
    BY <1>3, <2>1 DEF Taken
  <2> HIDE DEF m
  <2>3. TokensOf(stage, m, l1) = TokensOf(stage, m, l2)
    BY <1>3, <2>1 DEF TokensOf
  <2>4. QED  BY <2>2, <2>3 DEF m
<1>4. QED  BY <1>1, <1>2, <1>3

(***************************************************************************)
(* A stage that meets no match that depends on the label leaves the same   *)
(* text and finds the same tokens under all labels.                        *)
(***************************************************************************)
LEMMA SameConsume ==
  ASSUME NEW stage, NEW acc, NEW l1, NEW l2,
         \A span \in Spans(stage, acc.rest) :
           ~DependsOnLabel(stage, SubSeq(acc.rest, span[1], span[2]))
  PROVE  Consume(stage, acc, l1) = Consume(stage, acc, l2)
<1> DEFINE s == acc.rest
           all == Spans(stage, s)
           taken(l) == {span \in all : Taken(stage, s, span, l)}
           read(span, l) == TokensOf(stage, SubSeq(s, span[1], span[2]), l)
<1>1. \A span \in all : /\ Taken(stage, s, span, l1) <=> Taken(stage, s, span, l2)
                        /\ Taken(stage, s, span, l1) => read(span, l1) = read(span, l2)
  BY SameMatch
<1> HIDE DEF s, all
<1>2. taken(l1) = taken(l2)
  BY <1>1
<1>3. \A span \in taken(l1) : read(span, l1) = read(span, l2)
  BY <1>1
<1>4. {read(span, l1) : span \in taken(l1)} = {read(span, l2) : span \in taken(l2)}
  BY <1>2, <1>3
<1>5. \A l : Consume(stage, acc, l)
               = [rest |-> Blank(s, taken(l)), found |-> acc.found \cup UNION {read(span, l) : span \in taken(l)}]
  BY DEF Consume, s, all
<1> HIDE DEF taken, read
<1>6. QED  BY <1>2, <1>4, <1>5

(***************************************************************************)
(* A text that is not ambiguous under one label is read alike under every  *)
(* other, stage by stage.                                                  *)
(***************************************************************************)
LEMMA SameReading ==
  ASSUME NEW s, NEW l1, NEW l2, ~Ambiguous(s, l1)
  PROVE  Extracted(s, l2) = Extracted(s, l1)
<1> DEFINE N == Len(AllStages)
           f == Reading(s, l1)
           g == Reading(s, l2)
           Bad == {n \in 0..N : g[n] # f[n]}
<1>1. N \in Nat
  BY DEF AllStages, Stages, Currencies
<1> HIDE DEF N
<1>2. Staged(f, N, s, l1) /\ Staged(g, N, s, l2)
  BY <1>1, ReadingIs DEF N
<1>3. \A n \in 1..N : \A span \in Spans(AllStages[n], f[n-1].rest) :
        ~DependsOnLabel(AllStages[n], SubSeq(f[n-1].rest, span[1], span[2]))
  BY DEF Ambiguous, N
<1> HIDE DEF f, g
<1>4. Bad = {}
  <2> SUFFICES ASSUME Bad # {} PROVE FALSE
    OBVIOUS
  <2>1. 0 \in Int /\ N \in Int
    BY <1>1
  <2>2. IsFiniteSet(0..N) /\ Bad \in SUBSET (0..N) /\ Bad \in SUBSET Int
    BY <2>1, FS_Interval
  <2>3. IsFiniteSet(Bad)
    BY <2>2, FS_Subset
  <2>4. PICK n \in Bad : \A m \in Bad : n <= m
    BY <2>2, <2>3, LeastAndGreatest
  <2>5. n # 0
    BY <1>2 DEF Staged
  <2>6. n \in 1..N /\ n - 1 \in 0..N /\ n - 1 < n
    BY <1>1, <2>5
  <2>7. n - 1 \notin Bad
    BY <2>4, <2>6
  <2>8. g[n-1] = f[n-1]
    BY <2>6, <2>7
  <2>9. Consume(AllStages[n], f[n-1], l1) = Consume(AllStages[n], f[n-1], l2)
    BY <1>3, <2>6, SameConsume
  <2>10. g[n] = f[n]
    BY <1>2, <2>6, <2>8, <2>9 DEF Staged
  <2>11. QED  BY <2>10
<1>5. g[N] = f[N]
  <2>1. N \in 0..N
    BY <1>1
  <2>2. QED  BY <1>4, <2>1
<1>6. QED  BY <1>5 DEF Extracted, f, g, N

\* The tokens are those of the text under its label.
Read == Done => lang # Nothing /\ tokens = Extracted(text.pieces, lang)

(***************************************************************************)
(* Whenever the guard is done, its tokens are those of the whole text      *)
(* under the label Detect gave it.                                         *)
(***************************************************************************)
LEMMA ReadAlways == ExtractionSpec => []Read
<1>1. ExtractionInit => Read
  BY DEF ExtractionInit, Read, Done
<1>2. Read /\ [ExtractionNext]_extractionVars => Read'
  <2> SUFFICES ASSUME Read, [ExtractionNext]_extractionVars PROVE Read'
    OBVIOUS
  <2> USE DEF Read, Done
  <2>1. CASE Mark
    BY <2>1 DEF Mark, InScan
  <2>2. CASE Pass
    BY <2>2 DEF Pass, InScan
  <2>3. CASE EndOfScan
    BY <2>3 DEF EndOfScan
  <2>4. CASE Extract
    BY <2>4 DEF Extract
  <2>5. CASE UNCHANGED extractionVars
    BY <2>5 DEF extractionVars
  <2>6. QED  BY <2>1, <2>2, <2>3, <2>4, <2>5 DEF ExtractionNext
<1>3. QED  BY <1>1, <1>2, PTL DEF ExtractionSpec

(***************************************************************************)
(* What a wrong label can do is narrow, for every text: Extract reads a    *)
(* text alike under all labels unless a stage of it meets a match whose    *)
(* reading depends on the label.                                           *)
(***************************************************************************)
THEOREM LabelsRarelyMatter == ExtractionSpec => []LabelRarelyMatters
<1>1. Read => LabelRarelyMatters
  <2> SUFFICES ASSUME Read, Done, ~Ambiguous(text.pieces, lang), NEW label \in Labels
               PROVE  Extracted(text.pieces, label) = tokens
    BY DEF LabelRarelyMatters
  <2>1. QED  BY SameReading DEF Read
<1>2. QED  BY <1>1, ReadAlways, PTL

-----------------------------------------------------------------------------
\* A[i] is what i pieces of a phrase leave in the accumulators.
Accumulates(A, start, phrase, m) ==
  A[0] = start /\ \A i \in 1..m : A[i] = ReadPiece(A[i-1], phrase[i])

(***************************************************************************)
(* Every phrase can be read up to any place.                               *)
(***************************************************************************)
LEMMA Accumulated ==
  ASSUME NEW start, NEW phrase, NEW N \in Nat
  PROVE  \E A : Accumulates(A, start, phrase, N)
<1> DEFINE Bad == {n \in 0..N : ~ \E A : Accumulates(A, start, phrase, n)}
<1>1. Bad = {}
  <2> SUFFICES ASSUME Bad # {} PROVE FALSE
    OBVIOUS
  <2>1. IsFiniteSet(0..N)
    <3>1. 0 \in Int /\ N \in Int
      OBVIOUS
    <3>2. QED  BY <3>1, FS_Interval
  <2>2. Bad \in SUBSET (0..N) /\ Bad \in SUBSET Int
    OBVIOUS
  <2>3. \A n \in Bad : n \in 0..N /\ ~ \E A : Accumulates(A, start, phrase, n)
    OBVIOUS
  <2>4. \A n \in 0..N : n \notin Bad => \E A : Accumulates(A, start, phrase, n)
    OBVIOUS
  <2> HIDE DEF Bad
  <2>5. IsFiniteSet(Bad)
    BY <2>1, <2>2, FS_Subset
  <2>6. PICK n \in Bad : \A m \in Bad : n <= m
    BY <2>2, <2>5, LeastAndGreatest
  <2>7. CASE n = 0
    <3> DEFINE A == [m \in 0..0 |-> start]
    <3>1. 0 \in 0..0 /\ 1..0 = {}
      OBVIOUS
    <3>2. Accumulates(A, start, phrase, 0)
      BY <3>1 DEF Accumulates
    <3>3. QED  BY <2>3, <2>7, <3>2
  <2>8. CASE n # 0
    <3>1. n - 1 \in 0..N /\ n \in Int /\ n \in Nat /\ n > 0
      BY <2>3, <2>8
    <3>2. n - 1 \notin Bad
      BY <2>6, <3>1
    <3>3. PICK A : Accumulates(A, start, phrase, n - 1)
      BY <2>4, <3>1, <3>2
    <3> DEFINE new == ReadPiece(A[n-1], phrase[n])
               B == [m \in 0..n |-> IF m = n THEN new ELSE A[m]]
    <3>4. B[n] = new /\ \A m \in 0..(n-1) : B[m] = A[m]
      BY <3>1
    <3>5. B[0] = start
      <4>1. 0 \in 0..(n-1)
        BY <3>1
      <4>2. QED  BY <3>3, <3>4, <4>1 DEF Accumulates
    <3>6. ASSUME NEW m \in 1..n PROVE B[m] = ReadPiece(B[m-1], phrase[m])
      <4>1. m - 1 \in 0..(n-1) /\ B[m-1] = A[m-1]
        BY <3>1, <3>4
      <4>2. CASE m = n
        BY <3>4, <4>1, <4>2
      <4>3. CASE m # n
        <5>1. m \in 1..(n-1) /\ m \in 0..(n-1)
          BY <3>1, <4>3
        <5>2. QED  BY <3>3, <3>4, <4>1, <5>1 DEF Accumulates
      <4>4. QED  BY <4>2, <4>3
    <3> HIDE DEF B
    <3>7. Accumulates(B, start, phrase, n)
      BY <3>5, <3>6 DEF Accumulates
    <3>8. QED  BY <2>3, <3>7
  <2>9. QED  BY <2>7, <2>8
<1>2. N \in 0..N
  OBVIOUS
<1>3. QED  BY <1>1, <1>2

(***************************************************************************)
(* A reading of a phrase, step by step, ends with what ReadFrom returns.   *)
(***************************************************************************)
LEMMA ReadIs ==
  ASSUME NEW start, NEW phrase, NEW N \in Nat, Len(phrase) = N,
         NEW A, Accumulates(A, start, phrase, N)
  PROVE  ReadFrom(start, phrase) = A[N]
<1> DEFINE Body(h) == [n \in 0..N |-> IF n = 0 THEN start ELSE ReadPiece(h[n-1], phrase[n])]
           f == [n \in 0..N |-> A[n]]
           r == CHOOSE h : h = Body(h)
<1>1. f = Body(f)
  <2>1. ASSUME NEW n \in 0..N PROVE f[n] = IF n = 0 THEN start ELSE ReadPiece(f[n-1], phrase[n])
    <3>1. CASE n = 0
      BY <3>1 DEF Accumulates
    <3>2. CASE n # 0
      <4>1. n \in 1..N /\ n - 1 \in 0..N
        BY <3>2
      <4>2. QED  BY <3>2, <4>1 DEF Accumulates
    <3>3. QED  BY <3>1, <3>2
  <2>2. f = [n \in 0..N |-> f[n]]
    OBVIOUS
  <2> HIDE DEF f
  <2>3. QED  BY <2>1, <2>2
<1>2. r = Body(r)
  BY <1>1
<1>3. ReadFrom(start, phrase) = r[N]
  BY DEF ReadFrom
<1> HIDE DEF r
<1>4. r[0] = start /\ \A n \in 1..N : r[n] = ReadPiece(r[n-1], phrase[n])
  <2>1. \A n \in 0..N : r[n] = IF n = 0 THEN start ELSE ReadPiece(r[n-1], phrase[n])
    BY <1>2
  <2>2. 0 \in 0..N /\ \A n \in 1..N : n \in 0..N /\ n # 0
    OBVIOUS
  <2>3. QED  BY <2>1, <2>2
<1> DEFINE Bad == {n \in 0..N : r[n] # A[n]}
<1>5. Bad = {}
  <2> SUFFICES ASSUME Bad # {} PROVE FALSE
    OBVIOUS
  <2>1. 0 \in Int /\ N \in Int
    OBVIOUS
  <2>2. IsFiniteSet(0..N) /\ Bad \in SUBSET (0..N) /\ Bad \in SUBSET Int
    BY <2>1, FS_Interval
  <2>3. IsFiniteSet(Bad)
    BY <2>2, FS_Subset
  <2>4. PICK n \in Bad : \A m \in Bad : n <= m
    BY <2>2, <2>3, LeastAndGreatest
  <2>5. n # 0
    BY <1>4 DEF Accumulates
  <2>6. n \in 1..N /\ n - 1 \in 0..N /\ n - 1 < n
    BY <2>5
  <2>7. n - 1 \notin Bad
    BY <2>4, <2>6
  <2>8. r[n-1] = A[n-1]
    BY <2>6, <2>7
  <2>9. r[n] = A[n]
    BY <1>4, <2>6, <2>8 DEF Accumulates
  <2>10. QED  BY <2>9
<1>6. N \in 0..N
  OBVIOUS
<1>7. QED  BY <1>3, <1>5, <1>6

(***************************************************************************)
(* Reading one phrase after another is reading them joined.                *)
(***************************************************************************)
LEMMA ReadJoined ==
  ASSUME NEW T, NEW s \in Seq(T), NEW t \in Seq(T), NEW start
  PROVE  ReadFrom(start, s \o t) = ReadFrom(ReadFrom(start, s), t)
<1> DEFINE m == Len(s)  n == Len(t)
<1>1. m \in Nat /\ n \in Nat /\ m + n \in Nat /\ Len(s \o t) = m + n
  OBVIOUS
<1>2. (\A i \in 1..m : (s \o t)[i] = s[i]) /\ (\A i \in 1..n : (s \o t)[m + i] = t[i])
  OBVIOUS
<1> DEFINE st == s \o t
<1> HIDE DEF m, n, st
<1>3. PICK A : Accumulates(A, start, s, m)
  BY <1>1, Accumulated
<1>4. PICK B : Accumulates(B, A[m], t, n)
  BY <1>1, Accumulated
<1>5. ReadFrom(start, s) = A[m] /\ ReadFrom(A[m], t) = B[n]
  BY <1>1, <1>3, <1>4, ReadIs DEF m, n
<1> DEFINE C == [i \in 0..(m + n) |-> IF i <= m THEN A[i] ELSE B[i - m]]
<1>6. ASSUME NEW i \in 1..(m + n) PROVE C[i] = ReadPiece(C[i-1], st[i])
  <2>1. CASE i <= m
    <3>1. i \in 1..m /\ i \in 0..(m+n) /\ i - 1 \in 0..(m+n) /\ i - 1 <= m
      BY <1>1, <2>1
    <3>2. st[i] = s[i]
      BY <1>2, <3>1 DEF st
    <3>3. C[i] = A[i] /\ C[i-1] = A[i-1]
      BY <2>1, <3>1
    <3>4. QED  BY <1>3, <3>1, <3>2, <3>3 DEF Accumulates
  <2>2. CASE ~(i <= m)
    <3> DEFINE j == i - m
    <3>1. j \in 1..n /\ i = m + j /\ i \in 0..(m+n) /\ i - 1 \in 0..(m+n)
      BY <1>1, <2>2
    <3>2. st[i] = t[j]
      BY <1>2, <3>1 DEF st
    <3>3. B[j] = ReadPiece(B[j-1], t[j])
      BY <1>4, <3>1 DEF Accumulates
    <3>4. C[i] = B[j]
      BY <2>2, <3>1
    <3>5. C[i-1] = B[j-1]
      <4>1. CASE i - 1 <= m
        <5>1. i - 1 = m /\ j - 1 = 0
          BY <1>1, <2>2, <4>1
        <5>2. C[i-1] = A[m]
          BY <3>1, <4>1, <5>1
        <5>3. QED  BY <1>4, <5>1, <5>2 DEF Accumulates
      <4>2. CASE ~(i - 1 <= m)
        <5>1. (i - 1) - m = j - 1
          BY <1>1, <3>1
        <5>2. QED  BY <3>1, <4>2, <5>1
      <4>3. QED  BY <4>1, <4>2
    <3>6. QED  BY <3>2, <3>3, <3>4, <3>5
  <2>3. QED  BY <2>1, <2>2
<1>7. C[0] = start
  <2>1. 0 \in 0..(m+n) /\ 0 <= m
    BY <1>1
  <2>2. QED  BY <1>3, <2>1 DEF Accumulates
<1>8. C[m+n] = B[n]
  <2>1. m + n \in 0..(m+n)
    BY <1>1
  <2>2. CASE n = 0
    <3>1. C[m+n] = A[m]
      BY <1>1, <2>1, <2>2
    <3>2. QED  BY <1>4, <2>2, <3>1 DEF Accumulates
  <2>3. CASE n # 0
    <3>1. ~(m + n <= m) /\ (m + n) - m = n
      BY <1>1, <2>3
    <3>2. QED  BY <2>1, <3>1
  <2>4. QED  BY <2>2, <2>3
<1> HIDE DEF C
<1>9. Accumulates(C, start, st, m + n)
  BY <1>6, <1>7 DEF Accumulates
<1>10. ReadFrom(start, st) = C[m+n]
  BY <1>1, <1>9, ReadIs DEF st
<1>11. QED  BY <1>5, <1>8, <1>10 DEF st

(***************************************************************************)
(* Reading nothing changes nothing.                                        *)
(***************************************************************************)
LEMMA ReadNothing == ASSUME NEW start PROVE ReadFrom(start, <<>>) = start
<1>1. PICK A : Accumulates(A, start, <<>>, 0)
  <2>1. 0 \in Nat
    OBVIOUS
  <2>2. QED  BY <2>1, Accumulated
<1>2. Len(<<>>) = 0 /\ 0 \in Nat
  OBVIOUS
<1>3. ReadFrom(start, <<>>) = A[0]
  BY <1>1, <1>2, ReadIs
<1>4. QED  BY <1>1, <1>3 DEF Accumulates

(***************************************************************************)
(* Reading one piece.                                                      *)
(***************************************************************************)
LEMMA ReadOne == ASSUME NEW start, NEW p PROVE ReadFrom(start, <<p>>) = ReadPiece(start, p)
<1>1. 1 \in Nat /\ Len(<<p>>) = 1 /\ <<p>>[1] = p
  OBVIOUS
<1>2. PICK A : Accumulates(A, start, <<p>>, 1)
  BY <1>1, Accumulated
<1>3. A[1] = ReadPiece(A[0], p) /\ A[0] = start
  <2>1. 1 \in 1..1 /\ 1 - 1 = 0
    OBVIOUS
  <2>2. QED  BY <1>1, <1>2, <2>1 DEF Accumulates
<1>4. QED  BY <1>1, <1>2, <1>3, ReadIs

-----------------------------------------------------------------------------
Acc(total, section, num) == [total |-> total, section |-> section, num |-> num]

(***************************************************************************)
(* A digit is appended to the digits before it.                            *)
(***************************************************************************)
LEMMA ReadDigit ==
  ASSUME NEW t \in Nat, NEW s \in Nat, NEW m \in Nat, NEW d \in Nat
  PROVE  ReadPiece(Acc(t, s, m), Han("digit", d)) = Acc(t, s, m * 10 + d)
BY DEF ReadPiece, Han, Acc

(***************************************************************************)
(* A small unit counts the digits before it, once where there are none.    *)
(***************************************************************************)
LEMMA ReadUnit ==
  ASSUME NEW t \in Nat, NEW s \in Nat, NEW m \in Nat, NEW u \in Nat
  PROVE  ReadPiece(Acc(t, s, m), Han("small", u)) = Acc(t, s + Count(m) * u, 0)
BY DEF ReadPiece, ReadSmall, Han, Acc

(***************************************************************************)
(* A big unit counts all that came since the last one.                     *)
(***************************************************************************)
LEMMA ReadBigUnit ==
  ASSUME NEW t \in Nat, NEW s \in Nat, NEW m \in Nat, NEW u \in Nat
  PROVE  ReadPiece(Acc(t, s, m), Han("big", u)) = Acc(t + Count(s + m) * u, 0, 0)
BY DEF ReadPiece, ReadBig, Han, Acc

\* The numeral runes, as pieces.
Runes == [kind : {"numeral"}, unit : {"digit", "small", "big"}, worth : Nat, class : {"han"}]

(***************************************************************************)
(* A Han numeral is a rune, and a phrase of one.                           *)
(***************************************************************************)
LEMMA HanIsRune ==
  ASSUME NEW unit \in {"digit", "small", "big"}, NEW w \in Nat
  PROVE  Han(unit, w) \in Runes /\ <<Han(unit, w)>> \in Seq(Runes)
<1>1. Han(unit, w) \in Runes
  BY DEF Han, Runes
<1>2. QED  BY <1>1

(***************************************************************************)
(* The four digits of a section make it up.                                *)
(***************************************************************************)
LEMMA DigitsAreSmall ==
  ASSUME NEW n \in Nat, n <= 9999
  PROVE  /\ DigitAt(n, 1) \in 0..9 /\ DigitAt(n, 10) \in 0..9
         /\ DigitAt(n, 100) \in 0..9 /\ DigitAt(n, 1000) \in 0..9
         /\ n = DigitAt(n, 1000) * 1000 + DigitAt(n, 100) * 100 + DigitAt(n, 10) * 10 + DigitAt(n, 1)
<1> DEFINE a == n \div 10  b == n \div 100  c == n \div 1000
<1>1. n \div 1 = n
  OBVIOUS
<1>2. n = a * 10 + (n % 10) /\ n % 10 \in 0..9 /\ a \in 0..999
  OBVIOUS
<1>3. a = b * 10 + (a % 10) /\ a % 10 \in 0..9 /\ b \in 0..99
  <2> DEFINE e == a \div 10
  <2>1. a = e * 10 + (a % 10) /\ a % 10 \in 0..9 /\ e \in 0..99
    BY <1>2
  <2>2. n = b * 100 + (n % 100) /\ n % 100 \in 0..99 /\ b \in 0..99
    OBVIOUS
  <2> HIDE DEF a, b, e
  <2>3. e = b
    BY <1>2, <2>1, <2>2
  <2>4. QED  BY <2>1, <2>2, <2>3
<1>4. b = c * 10 + (b % 10) /\ b % 10 \in 0..9 /\ c \in 0..9 /\ c % 10 = c
  <2> DEFINE e == b \div 10
  <2>1. b = e * 10 + (b % 10) /\ b % 10 \in 0..9 /\ e \in 0..9
    BY <1>3
  <2>2. n = b * 100 + (n % 100) /\ n % 100 \in 0..99
    OBVIOUS
  <2>3. n = c * 1000 + (n % 1000) /\ n % 1000 \in 0..999 /\ c \in Int
    OBVIOUS
  <2> HIDE DEF b, c, e
  <2>4. e = c
    <3>1. b \in Int /\ b % 10 \in Int /\ n % 100 \in Int /\ n % 1000 \in Int /\ e \in Int
      BY <1>3, <2>1, <2>2, <2>3
    <3> DEFINE x == b % 10  y == n % 100  z == n % 1000
    <3>2. b = e * 10 + x /\ n = b * 100 + y /\ n = c * 1000 + z /\ x \in 0..9 /\ y \in 0..99 /\ z \in 0..999
      BY <2>1, <2>2, <2>3
    <3> HIDE DEF x, y, z
    <3>3. QED  BY <2>3, <3>1, <3>2
  <2>5. c \in 0..9
    BY <2>1, <2>4
  <2>6. c % 10 = c
    BY <2>5
  <2>7. QED  BY <2>1, <2>4, <2>5, <2>6
<1>5. DigitAt(n, 1) = n % 10 /\ DigitAt(n, 10) = a % 10 /\ DigitAt(n, 100) = b % 10 /\ DigitAt(n, 1000) = c % 10
  BY <1>1 DEF DigitAt
<1> DEFINE x == n % 10  y == a % 10  z == b % 10
<1>6. DigitAt(n, 1) = x /\ DigitAt(n, 10) = y /\ DigitAt(n, 100) = z /\ DigitAt(n, 1000) = c
  BY <1>4, <1>5
<1>7. x \in 0..9 /\ y \in 0..9 /\ z \in 0..9 /\ c \in 0..9
      /\ n = a * 10 + x /\ a = b * 10 + y /\ b = c * 10 + z
  BY <1>2, <1>3, <1>4
<1>8. a \in Int /\ b \in Int
  BY <1>2, <1>3
<1> HIDE DEF a, b, c, x, y, z
<1>9. n = c * 1000 + z * 100 + y * 10 + x
  BY <1>7, <1>8
<1>10. DigitAt(n, 1) \in 0..9 /\ DigitAt(n, 10) \in 0..9 /\ DigitAt(n, 100) \in 0..9 /\ DigitAt(n, 1000) \in 0..9
  BY <1>6, <1>7
<1>11. DigitAt(n, 1000) * 1000 + DigitAt(n, 100) * 100 + DigitAt(n, 10) * 10 + DigitAt(n, 1)
         = c * 1000 + z * 100 + y * 10 + x
  BY <1>6
<1>12. QED  BY <1>9, <1>10, <1>11

(***************************************************************************)
(* What is spelled for a digit is read as so many units more, or as the    *)
(* digit itself where the unit is one.                                     *)
(***************************************************************************)
LEMMA ReadSpelledDigit ==
  ASSUME NEW n \in Nat, NEW u \in Nat, NEW t \in Nat, NEW r \in Nat,
         DigitAt(n, u) \in Nat,
         u # 10 \/ ~(n < 20) \/ DigitAt(n, u) \in {0, 1}
  PROVE  /\ SpellDigit(n, u) \in Seq(Runes)
         /\ ReadFrom(Acc(t, r, 0), SpellDigit(n, u))
              = IF u = 1 THEN Acc(t, r, DigitAt(n, u)) ELSE Acc(t, r + DigitAt(n, u) * u, 0)
<1> DEFINE d == DigitAt(n, u)
           skipped == n \div (10 * u) > 0 /\ DigitAt(n, 10 * u) = 0
           lead == IF skipped THEN <<Zero>> ELSE <<>>
           digit == IF u = 10 /\ n < 20 THEN <<>> ELSE <<Han("digit", d)>>
           unit == IF u = 1 THEN <<>> ELSE <<Han("small", u)>>
<1>1. SpellDigit(n, u) = IF d = 0 THEN <<>> ELSE (lead \o digit) \o unit
  BY DEF SpellDigit
<1> HIDE DEF d, skipped
<1>2. d \in Nat /\ (u = 10 /\ n < 20 => d \in {0, 1})
  BY DEF d
<1>3. lead \in Seq(Runes) /\ digit \in Seq(Runes) /\ unit \in Seq(Runes) /\ <<>> \in Seq(Runes)
  <2>1. /\ <<>> \in Seq(Runes) /\ <<Zero>> \in Seq(Runes)
        /\ <<Han("digit", d)>> \in Seq(Runes) /\ <<Han("small", u)>> \in Seq(Runes)
    BY <1>2, HanIsRune DEF Zero
  <2>2. QED  BY <2>1
<1>4. ReadFrom(Acc(t, r, 0), lead) = Acc(t, r, 0)
  <2>1. ReadFrom(Acc(t, r, 0), <<Zero>>) = Acc(t, r, 0 * 10 + 0)
    BY ReadOne, ReadDigit DEF Zero
  <2>2. 0 * 10 + 0 = 0
    OBVIOUS
  <2>3. QED  BY <2>1, <2>2, ReadNothing
<1> DEFINE m == IF u = 10 /\ n < 20 THEN 0 ELSE d
<1>5. m \in Nat
  BY <1>2
<1>6. ReadFrom(Acc(t, r, 0), digit) = Acc(t, r, m)
  <2>1. ReadFrom(Acc(t, r, 0), <<Han("digit", d)>>) = ReadPiece(Acc(t, r, 0), Han("digit", d))
    BY ReadOne
  <2>2. ReadPiece(Acc(t, r, 0), Han("digit", d)) = Acc(t, r, 0 * 10 + d)
    BY <1>2, ReadDigit
  <2>3. 0 * 10 + d = d
    BY <1>2
  <2>4. QED  BY <2>1, <2>2, <2>3, ReadNothing
<1>7. ReadFrom(Acc(t, r, m), unit) = IF u = 1 THEN Acc(t, r, m) ELSE Acc(t, r + Count(m) * u, 0)
  <2>1. ReadFrom(Acc(t, r, m), <<Han("small", u)>>) = ReadPiece(Acc(t, r, m), Han("small", u))
    BY ReadOne
  <2>2. ReadPiece(Acc(t, r, m), Han("small", u)) = Acc(t, r + Count(m) * u, 0)
    BY <1>5, ReadUnit
  <2>3. QED  BY <2>1, <2>2, ReadNothing
<1>8. CASE d = 0
  <2>1. r + d * u = r
    BY <1>8
  <2>2. QED  BY <1>1, <1>3, <1>8, <2>1, ReadNothing DEF d
<1>9. CASE d # 0
  <2>1. /\ u # 1 => Count(m) = d
        /\ u = 1 => m = d
    BY <1>2, <1>9 DEF Count
  <2> HIDE DEF lead, digit, unit, m, Runes
  <2>2. SpellDigit(n, u) = (lead \o digit) \o unit /\ lead \o digit \in Seq(Runes)
    BY <1>1, <1>3, <1>9
  <2>3. SpellDigit(n, u) \in Seq(Runes)
    BY <1>3, <2>2
  <2>4. ReadFrom(Acc(t, r, 0), lead \o digit) = Acc(t, r, m)
    BY <1>3, <1>4, <1>6, ReadJoined
  <2>5. ReadFrom(Acc(t, r, 0), (lead \o digit) \o unit) = ReadFrom(Acc(t, r, m), unit)
    <3>1. ReadFrom(Acc(t, r, 0), (lead \o digit) \o unit)
            = ReadFrom(ReadFrom(Acc(t, r, 0), lead \o digit), unit)
      BY <1>3, <2>2, ReadJoined
    <3>2. QED  BY <2>4, <3>1
  <2>6. QED  BY <1>7, <2>1, <2>2, <2>3, <2>5 DEF d
<1>10. QED  BY <1>8, <1>9

(***************************************************************************)
(* A spelled section is read as the number it spells.                      *)
(***************************************************************************)
LEMMA ReadSection ==
  ASSUME NEW n \in Nat, n <= 9999, NEW t \in Nat
  PROVE  /\ SpellSection(n) \in Seq(Runes)
         /\ \E s, m \in Nat : /\ s + m = n
                              /\ ReadFrom(Acc(t, 0, 0), SpellSection(n)) = Acc(t, s, m)
<1> DEFINE a == DigitAt(n, 1000)  b == DigitAt(n, 100)  c == DigitAt(n, 10)  d == DigitAt(n, 1)
           A == SpellDigit(n, 1000)  B == SpellDigit(n, 100)  C == SpellDigit(n, 10)  D == SpellDigit(n, 1)
<1>1. /\ a \in 0..9 /\ b \in 0..9 /\ c \in 0..9 /\ d \in 0..9
      /\ n = a * 1000 + b * 100 + c * 10 + d
  <2>1. DigitAt(n, 1) \in 0..9 /\ DigitAt(n, 10) \in 0..9 /\ DigitAt(n, 100) \in 0..9 /\ DigitAt(n, 1000) \in 0..9
    BY DigitsAreSmall
  <2>2. n = DigitAt(n, 1000) * 1000 + DigitAt(n, 100) * 100 + DigitAt(n, 10) * 10 + DigitAt(n, 1)
    BY DigitsAreSmall
  <2>3. QED  BY <2>1, <2>2
<1>2. n \in Nat /\ DigitAt(n, 1000) \in Nat /\ DigitAt(n, 100) \in Nat /\ DigitAt(n, 10) \in Nat
      /\ DigitAt(n, 1) \in Nat
  BY <1>1
<1>3. n < 20 => DigitAt(n, 10) \in {0, 1}
  <2> HIDE DEF a, b, c, d
  <2>1. n < 20 => c \in {0, 1}
    BY <1>1
  <2>2. QED  BY <2>1 DEF c
<1>4. A \in Seq(Runes) /\ ReadFrom(Acc(t, 0, 0), A) = Acc(t, a * 1000, 0)
  <2>1. 0 + a * 1000 = a * 1000 /\ 1000 \in Nat /\ 1000 # 1 /\ 1000 # 10 /\ 0 \in Nat
    BY <1>2
  <2>2. QED  BY <1>2, <2>1, ReadSpelledDigit
<1>5. B \in Seq(Runes) /\ ReadFrom(Acc(t, a * 1000, 0), B) = Acc(t, a * 1000 + b * 100, 0)
  <2>1. a * 1000 \in Nat /\ 100 \in Nat /\ 100 # 1 /\ 100 # 10
    BY <1>2
  <2>2. QED  BY <1>2, <2>1, ReadSpelledDigit
<1>6. C \in Seq(Runes)
      /\ ReadFrom(Acc(t, a * 1000 + b * 100, 0), C) = Acc(t, a * 1000 + b * 100 + c * 10, 0)
  <2> DEFINE r == a * 1000 + b * 100
  <2>1. r \in Nat /\ 10 \in Nat /\ 10 # 1
    BY <1>2
  <2> HIDE DEF r, a, b
  <2>2. C \in Seq(Runes) /\ ReadFrom(Acc(t, r, 0), C) = Acc(t, r + c * 10, 0)
    <3>1. 10 # 10 \/ ~(n < 20) \/ DigitAt(n, 10) \in {0, 1}
      BY <1>3
    <3>2. SpellDigit(n, 10) \in Seq(Runes)
      BY <1>2, <2>1, <3>1, ReadSpelledDigit
    <3>3. ReadFrom(Acc(t, r, 0), SpellDigit(n, 10)) = Acc(t, r + DigitAt(n, 10) * 10, 0)
      BY <1>2, <2>1, <3>1, ReadSpelledDigit
    <3>4. QED  BY <3>2, <3>3 DEF c
  <2>3. QED  BY <2>2 DEF r
<1>7. D \in Seq(Runes)
      /\ ReadFrom(Acc(t, a * 1000 + b * 100 + c * 10, 0), D) = Acc(t, a * 1000 + b * 100 + c * 10, d)
  <2> DEFINE r == a * 1000 + b * 100 + c * 10
  <2>1. r \in Nat /\ 1 \in Nat /\ 1 # 10
    BY <1>2
  <2> HIDE DEF r
  <2>2. D \in Seq(Runes) /\ ReadFrom(Acc(t, r, 0), D) = Acc(t, r, d)
    BY <1>2, <2>1, ReadSpelledDigit
  <2>3. QED  BY <2>2 DEF r
<1> DEFINE r == a * 1000 + b * 100 + c * 10
           AB == A \o B
           ABC == AB \o C
<1>8. SpellSection(n) = ABC \o D
  BY DEF SpellSection
<1>9. r \in Nat /\ d \in Nat /\ r + d = n
  BY <1>1
<1> HIDE DEF A, B, C, D, Runes, a, b, c, d
<1>10. AB \in Seq(Runes) /\ ReadFrom(Acc(t, 0, 0), AB) = Acc(t, a * 1000 + b * 100, 0)
  BY <1>4, <1>5, ReadJoined
<1> HIDE DEF AB
<1>11. ABC \in Seq(Runes) /\ ReadFrom(Acc(t, 0, 0), ABC) = Acc(t, r, 0)
  <2>1. ReadFrom(Acc(t, 0, 0), AB \o C) = ReadFrom(ReadFrom(Acc(t, 0, 0), AB), C)
    BY <1>6, <1>10, ReadJoined
  <2>2. QED  BY <1>6, <1>10, <2>1
<1> HIDE DEF ABC
<1>12. ABC \o D \in Seq(Runes) /\ ReadFrom(Acc(t, 0, 0), ABC \o D) = Acc(t, r, d)
  <2>1. ReadFrom(Acc(t, 0, 0), ABC \o D) = ReadFrom(ReadFrom(Acc(t, 0, 0), ABC), D)
    BY <1>7, <1>11, ReadJoined
  <2>2. QED  BY <1>7, <1>11, <2>1
<1> HIDE DEF r
<1>13. QED  BY <1>8, <1>9, <1>12, SMTT(30)
(***************************************************************************)
(* A spelled section with its big unit adds so many of it to the total,    *)
(* and the last section is what is left in the two lower accumulators.     *)
(***************************************************************************)
LEMMA ReadSpelledBig ==
  ASSUME NEW n \in Nat, n <= 9999, NEW above, NEW unit \in Nat, NEW t \in Nat
  PROVE  /\ SpellBig(n, above, unit) \in Seq(Runes)
         /\ \E s, m \in Nat :
              /\ ReadFrom(Acc(t, 0, 0), SpellBig(n, above, unit))
                   = IF unit = 1 THEN Acc(t, s, m) ELSE Acc(t + n * unit, 0, 0)
              /\ s + m = n
<1> DEFINE zero == IF above > 0 /\ (n < 1000 \/ above % Wan = 0) THEN <<Zero>> ELSE <<>>
           last == IF unit = 1 THEN <<>> ELSE <<Han("big", unit)>>
           S == SpellSection(n)
           zS == zero \o S
<1>1. SpellBig(n, above, unit) = IF n = 0 THEN <<>> ELSE zS \o last
  BY DEF SpellBig
<1>2. zero \in Seq(Runes) /\ last \in Seq(Runes) /\ <<>> \in Seq(Runes)
  <2>1. /\ <<>> \in Seq(Runes) /\ <<Zero>> \in Seq(Runes) /\ <<Han("big", unit)>> \in Seq(Runes)
    BY HanIsRune DEF Zero
  <2>2. QED  BY <2>1
<1>3. ReadFrom(Acc(t, 0, 0), zero) = Acc(t, 0, 0)
  <2>1. ReadFrom(Acc(t, 0, 0), <<Zero>>) = Acc(t, 0, 0 * 10 + 0)
    BY ReadOne, ReadDigit DEF Zero
  <2>2. 0 * 10 + 0 = 0
    OBVIOUS
  <2>3. QED  BY <2>1, <2>2, ReadNothing
<1>4. S \in Seq(Runes)
  BY ReadSection
<1>5. PICK s \in Nat, m \in Nat : s + m = n /\ ReadFrom(Acc(t, 0, 0), S) = Acc(t, s, m)
  BY ReadSection
<1>6. ReadFrom(Acc(t, s, m), last) = IF unit = 1 THEN Acc(t, s, m) ELSE Acc(t + Count(n) * unit, 0, 0)
  <2>1. ReadFrom(Acc(t, s, m), <<Han("big", unit)>>) = ReadPiece(Acc(t, s, m), Han("big", unit))
    BY ReadOne
  <2>2. ReadPiece(Acc(t, s, m), Han("big", unit)) = Acc(t + Count(s + m) * unit, 0, 0)
    BY <1>5, ReadBigUnit
  <2>3. QED  BY <1>5, <2>1, <2>2, ReadNothing
<1>7. CASE n = 0
  <2>1. SpellBig(n, above, unit) = <<>>
    BY <1>1, <1>7
  <2>2. ReadFrom(Acc(t, 0, 0), SpellBig(n, above, unit)) = Acc(t, 0, 0)
    BY <2>1, ReadNothing
  <2>3. t + n * unit = t /\ 0 + 0 = n
    BY <1>7
  <2>4. QED  BY <1>2, <2>1, <2>2, <2>3
<1>8. CASE n # 0
  <2> HIDE DEF zero, last, S, Runes
  <2>1. zS \in Seq(Runes) /\ ReadFrom(Acc(t, 0, 0), zS) = Acc(t, s, m)
    BY <1>2, <1>3, <1>4, <1>5, ReadJoined
  <2> HIDE DEF zS
  <2>2. zS \o last \in Seq(Runes)
    BY <1>2, <2>1
  <2>3. ReadFrom(Acc(t, 0, 0), zS \o last) = ReadFrom(ReadFrom(Acc(t, 0, 0), zS), last)
    BY <1>2, <2>1, ReadJoined
  <2>4. Count(n) = n
    BY <1>8 DEF Count
  <2>5. SpellBig(n, above, unit) = zS \o last
    BY <1>1, <1>8
  <2>6. ReadFrom(Acc(t, 0, 0), SpellBig(n, above, unit))
          = IF unit = 1 THEN Acc(t, s, m) ELSE Acc(t + n * unit, 0, 0)
    BY <1>6, <2>1, <2>3, <2>4, <2>5
  <2>7. QED  BY <1>5, <2>2, <2>5, <2>6
<1>9. QED  BY <1>7, <1>8

(***************************************************************************)
(* The three sections of a number below Wan * Yi, and the number itself.   *)
(***************************************************************************)
LEMMA SectionsOf ==
  ASSUME NEW n \in Nat, n < Wan * Yi
  PROVE  /\ n \div Yi \in Nat /\ n \div Yi <= 9999
         /\ (n \div Wan) % Wan \in Nat /\ (n \div Wan) % Wan <= 9999
         /\ n % Wan \in Nat /\ n % Wan <= 9999
         /\ n = (n \div Yi) * Yi + ((n \div Wan) % Wan) * Wan + (n % Wan)
<1> DEFINE w == n \div 10000  y == n \div 100000000  v == w \div 10000
           s == n % 10000  b == w % 10000  r == n % 100000000
           q == b * 10000 + s
<1>1. n = w * 10000 + s /\ s \in 0..9999 /\ w \in Nat
  BY SMT
<1>2. w = v * 10000 + b /\ b \in 0..9999 /\ v \in Nat
  <2> HIDE DEF w
  <2>1. QED  BY <1>1, SMTT(30)
<1>3. n = y * 100000000 + r /\ r \in Int /\ 0 <= r /\ r < 100000000 /\ y \in Nat
  <2>1. n = y * 100000000 + r
    BY SMT
  <2>2. r \in Int /\ 0 <= r /\ r < 100000000
    BY SMT
  <2>3. y \in Nat
    BY SMT
  <2>4. QED  BY <2>1, <2>2, <2>3, SMT
<1>4. n < 1000000000000
  BY SMT DEF Wan, Yi
<1>5. n \div Yi = y /\ (n \div Wan) % Wan = b /\ n % Wan = s
  BY SMT DEF Wan, Yi
<1> HIDE DEF w, y, v, s, b, r
<1>6. v = y
  <2>1. q \in Int /\ 0 <= q /\ q < 100000000
    <3>1. b \in Int /\ s \in Int /\ 0 <= b /\ b <= 9999 /\ 0 <= s /\ s <= 9999
      BY <1>1, <1>2, SMTT(30)
    <3>2. QED  BY <3>1, SMTT(30)
  <2>2. v * 100000000 + q = y * 100000000 + r
    BY <1>1, <1>2, <1>3, SMTT(30)
  <2> HIDE DEF q
  <2>3. v \in Int /\ y \in Int /\ r \in Int /\ 0 <= r /\ r < 100000000
    BY <1>2, <1>3, SMT
  <2>4. QED  BY <2>1, <2>2, <2>3, SMT
<1>7. y <= 9999
  BY <1>3, <1>4, SMT
<1>8. n = y * 100000000 + b * 10000 + s
  BY <1>1, <1>2, <1>6, SMTT(30)
<1>9. n = y * Yi + b * Wan + s
  BY <1>8, SMT DEF Wan, Yi
<1>10. /\ y \in Nat /\ y <= 9999 /\ b \in Nat /\ b <= 9999 /\ s \in Nat /\ s <= 9999
  BY <1>1, <1>2, <1>3, <1>7, SMT
<1>11. QED  BY <1>5, <1>9, <1>10

(***************************************************************************)
(* Every number below Wan * Yi (10^12), spelled in Chinese the way a       *)
(* writer would, is read as that number (parseZHNumber).                   *)
(***************************************************************************)
THEOREM NumeralsAreRead ==
  ASSUME NEW n \in Nat, n < Wan * Yi
  PROVE  ParseZHNumber(Spell(n)) = n
<1> DEFINE y == n \div Yi  w == (n \div Wan) % Wan  s == n % Wan
           Y == SpellBig(y, 0, Yi)  W == SpellBig(w, y, Wan)  S == SpellBig(s, n \div Wan, 1)
           YW == Y \o W
           zero == Acc(0, 0, 0)
<1>1. /\ y \in Nat /\ y <= 9999 /\ w \in Nat /\ w <= 9999 /\ s \in Nat /\ s <= 9999
      /\ n = y * Yi + w * Wan + s
  BY SectionsOf
<1>2. Yi \in Nat /\ Wan \in Nat /\ 1 \in Nat /\ Yi # 1 /\ Wan # 1 /\ 0 \in Nat
  BY SMT DEF Yi, Wan
<1>3. Spell(n) = YW \o S
  BY DEF Spell
<1> DEFINE a == y * Yi  b == y * Yi + w * Wan  above == n \div Wan
<1>4. a \in Nat /\ b \in Nat /\ 0 + y * Yi = a
  BY <1>1, <1>2
<1> HIDE DEF Runes, y, w, s, above
<1>5. Y \in Seq(Runes) /\ ReadFrom(zero, Y) = Acc(a, 0, 0)
  BY <1>1, <1>2, <1>4, ReadSpelledBig
<1>6. W \in Seq(Runes) /\ ReadFrom(Acc(a, 0, 0), W) = Acc(b, 0, 0)
  BY <1>1, <1>2, <1>4, ReadSpelledBig
<1>7. S \in Seq(Runes)
  <2>1. SpellBig(s, above, 1) \in Seq(Runes)
    BY <1>1, <1>2, <1>4, ReadSpelledBig
  <2>2. QED  BY <2>1 DEF above
<1>8. PICK p \in Nat, q \in Nat : p + q = s /\ ReadFrom(Acc(b, 0, 0), S) = Acc(b, p, q)
  <2>1. \E p, q \in Nat : ReadFrom(Acc(b, 0, 0), SpellBig(s, above, 1)) = Acc(b, p, q) /\ p + q = s
    BY <1>1, <1>2, <1>4, ReadSpelledBig
  <2>2. QED  BY <2>1 DEF above
<1> HIDE DEF Y, W, S, a, b
<1>9. YW \in Seq(Runes) /\ ReadFrom(zero, YW) = Acc(b, 0, 0)
  BY <1>5, <1>6, ReadJoined
<1> HIDE DEF YW
<1>10. ReadFrom(zero, YW \o S) = Acc(b, p, q)
  <2>1. ReadFrom(zero, YW \o S) = ReadFrom(ReadFrom(zero, YW), S)
    BY <1>7, <1>9, ReadJoined
  <2>2. QED  BY <1>8, <1>9, <2>1
<1>11. ParseZHNumber(Spell(n)) = b + p + q
  BY <1>3, <1>10 DEF ParseZHNumber, Acc
<1>12. b + s = n
  BY <1>1 DEF b
<1>13. QED  BY <1>4, <1>8, <1>11, <1>12
(***************************************************************************)
(* A coefficient of wan before yi (so many million million) is read as the *)
(* sum of the two units, and so as another number that is written in the   *)
(* usual order: the guard cannot tell the two amounts apart.               *)
(***************************************************************************)
THEOREM WanBeforeYiIsASum ==
  ASSUME NEW n \in Nat, 1 <= n, n <= 9999
  PROVE  LET phrase == SpellSection(n) \o <<Han("big", Wan)>> \o <<Han("big", Yi)>>
         IN /\ ParseZHNumber(phrase) = Yi + n * Wan
            /\ ParseZHNumber(phrase) = ParseZHNumber(Spell(Yi + n * Wan))
<1> DEFINE S == SpellSection(n)  W == <<Han("big", Wan)>>  Y == <<Han("big", Yi)>>
           SW == S \o W  zero == Acc(0, 0, 0)  a == n * Wan
<1>1. S \in Seq(Runes) /\ \E s, m \in Nat : s + m = n /\ ReadFrom(zero, S) = Acc(0, s, m)
  BY ReadSection
<1>2. PICK s \in Nat, m \in Nat : s + m = n /\ ReadFrom(zero, S) = Acc(0, s, m)
  BY <1>1
<1>3. Wan \in Nat /\ Yi \in Nat /\ a \in Nat /\ 0 + n * Wan = a
  BY SMT DEF Wan, Yi
<1>4. W \in Seq(Runes) /\ Y \in Seq(Runes)
  BY <1>3, HanIsRune
<1>5. ReadFrom(Acc(0, s, m), W) = Acc(a, 0, 0)
  <2>1. ReadFrom(Acc(0, s, m), W) = ReadPiece(Acc(0, s, m), Han("big", Wan))
    BY ReadOne
  <2>2. ReadPiece(Acc(0, s, m), Han("big", Wan)) = Acc(0 + Count(s + m) * Wan, 0, 0)
    BY <1>3, ReadBigUnit
  <2>3. Count(s + m) = n
    BY <1>2 DEF Count
  <2>4. QED  BY <1>3, <2>1, <2>2, <2>3
<1>6. ReadFrom(Acc(a, 0, 0), Y) = Acc(a + Yi, 0, 0)
  <2>1. ReadFrom(Acc(a, 0, 0), Y) = ReadPiece(Acc(a, 0, 0), Han("big", Yi))
    BY ReadOne
  <2>2. ReadPiece(Acc(a, 0, 0), Han("big", Yi)) = Acc(a + Count(0 + 0) * Yi, 0, 0)
    BY <1>3, ReadBigUnit
  <2>3. Count(0 + 0) * Yi = Yi
    BY <1>3 DEF Count
  <2>4. QED  BY <2>1, <2>2, <2>3
<1> HIDE DEF S, W, Y, a, Runes
<1>7. SW \in Seq(Runes) /\ ReadFrom(zero, SW) = Acc(a, 0, 0)
  BY <1>1, <1>2, <1>4, <1>5, ReadJoined
<1> HIDE DEF SW
<1>8. ReadFrom(zero, SW \o Y) = Acc(a + Yi, 0, 0)
  <2>1. ReadFrom(zero, SW \o Y) = ReadFrom(ReadFrom(zero, SW), Y)
    BY <1>4, <1>7, ReadJoined
  <2>2. QED  BY <1>6, <1>7, <2>1
<1>9. ParseZHNumber(SW \o Y) = a + Yi + 0 + 0
  BY <1>8 DEF ParseZHNumber, Acc
<1>10. a + Yi + 0 + 0 = Yi + n * Wan
  BY <1>3 DEF a
<1>11. ParseZHNumber(SW \o Y) = Yi + n * Wan
  BY <1>9, <1>10
<1>12. Yi + n * Wan \in Nat /\ Yi + n * Wan < Wan * Yi
  BY SMT DEF Wan, Yi
<1>13. ParseZHNumber(Spell(Yi + n * Wan)) = Yi + n * Wan
  BY <1>12, NumeralsAreRead
<1>14. QED  BY <1>11, <1>13 DEF SW, S, W, Y

-----------------------------------------------------------------------------
\* Where a text tells its language.
Marks(s) == {i \in 1..Len(s) : s[i].class \in {"han", "tr", "es"}}

HasLetters(s) == \E i \in 1..Len(s) : s[i].class = "letter"

(***************************************************************************)
(* The label is that of the first mark, whichever language's it is, and a  *)
(* text without a mark is English if it has a letter at all (Detect's one  *)
(* pass over the runes).                                                   *)
(***************************************************************************)
FirstMarkLabels ==
  lang # Nothing =>
    LET s == text.pieces
    IN \/ \E i \in Marks(s) : lang = MarkOf(s[i].class) /\ \A j \in Marks(s) : i <= j
       \/ Marks(s) = {} /\ lang = IF HasLetters(s) THEN "en" ELSE "und"

\* The scan has passed no mark, and knows whether it passed a letter.
Passed ==
  /\ Len(text.pieces) \in Nat /\ at \in Nat \ {0}
  /\ lang = Nothing =>
       /\ at <= Len(text.pieces) + 1
       /\ \A i \in 1..(at - 1) : text.pieces[i].class \in {"letter", "other"}
       /\ hasLetter = \E i \in 1..(at - 1) : text.pieces[i].class = "letter"

(***************************************************************************)
(* Every text is labelled by its first mark.                               *)
(***************************************************************************)
THEOREM LabelIsTheFirstMarks == ExtractionSpec => []FirstMarkLabels
<1> USE DEF Passed
<1>1. ExtractionInit => Passed /\ FirstMarkLabels
  <2> SUFFICES ASSUME ExtractionInit PROVE Passed /\ FirstMarkLabels
    OBVIOUS
  <2>1. Len(text.pieces) \in Nat /\ at = 1 /\ hasLetter = FALSE /\ lang = Nothing
    BY ExtractionAssumption DEF ExtractionInit
  <2>2. 1..(at - 1) = {}
    BY <2>1
  <2>3. \A c : ~ \E i \in 1..(at - 1) : text.pieces[i].class = c
    BY <2>2
  <2>4. /\ \A i \in 1..(at - 1) : text.pieces[i].class \in {"letter", "other"}
        /\ hasLetter = \E i \in 1..(at - 1) : text.pieces[i].class = "letter"
    BY <2>1, <2>2
  <2>5. Passed
    BY <2>1, <2>4
  <2>6. QED  BY <2>1, <2>5 DEF FirstMarkLabels
<1>2. Passed /\ FirstMarkLabels /\ [ExtractionNext]_extractionVars => Passed' /\ FirstMarkLabels'
  <2> SUFFICES ASSUME Passed, FirstMarkLabels, [ExtractionNext]_extractionVars
               PROVE  Passed' /\ FirstMarkLabels'
    OBVIOUS
  <2> DEFINE s == text.pieces
  <2>1. CASE Mark
    <3>1. /\ lang = Nothing /\ at \in 1..Len(s) /\ s[at].class \in {"han", "tr", "es"}
          /\ lang' = MarkOf(s[at].class) /\ lang' # Nothing /\ text' = text /\ at' = at
      BY <2>1, ExtractionAssumption DEF Mark, InScan, Class, MarkOf, Labels
    <3>2. at \in Marks(s)
      BY <3>1 DEF Marks
    <3>3. ASSUME NEW j \in Marks(s) PROVE at <= j
      <4>1. j \in 1..Len(s) /\ s[j].class \in {"han", "tr", "es"}
        BY DEF Marks
      <4>2. j \notin 1..(at - 1)
        BY <3>1, <4>1
      <4>3. QED  BY <3>1, <4>1, <4>2
    <3>4. FirstMarkLabels'
      BY <3>1, <3>2, <3>3 DEF FirstMarkLabels
    <3>5. QED  BY <3>1, <3>4
  <2>2. CASE Pass
    <3>1. /\ lang = Nothing /\ at \in 1..Len(s) /\ s[at].class \in {"letter", "other"}
          /\ hasLetter' = (hasLetter \/ s[at].class = "letter")
          /\ at' = at + 1 /\ text' = text /\ lang' = lang
      BY <2>2 DEF Pass, InScan, Class
    <3>2. 1..(at' - 1) = 1..(at - 1) \cup {at}
      BY <3>1
    <3>3. /\ \A i \in 1..(at' - 1) : s[i].class \in {"letter", "other"}
          /\ hasLetter' = \E i \in 1..(at' - 1) : s[i].class = "letter"
      BY <3>1, <3>2
    <3>4. at' \in Nat \ {0} /\ at' <= Len(s) + 1
      BY <3>1
    <3>5. Passed'
      BY <3>1, <3>3, <3>4
    <3>6. QED  BY <3>1, <3>5 DEF FirstMarkLabels
  <2>3. CASE EndOfScan
    <3>1. /\ lang = Nothing /\ at > Len(s) /\ text' = text /\ at' = at
          /\ lang' = IF hasLetter THEN "en" ELSE "und"
      BY <2>3 DEF EndOfScan
    <3>2. at - 1 = Len(s)
      BY <3>1
    <3>3. Marks(s) = {} /\ hasLetter = HasLetters(s)
      BY <3>1, <3>2 DEF Marks, HasLetters
    <3>4. lang' # Nothing
      BY <3>1, ExtractionAssumption DEF Labels
    <3>5. QED  BY <3>1, <3>3, <3>4 DEF FirstMarkLabels
  <2>4. CASE Extract
    BY <2>4 DEF Extract, FirstMarkLabels
  <2>5. CASE UNCHANGED extractionVars
    BY <2>5 DEF extractionVars, FirstMarkLabels
  <2>6. QED  BY <2>1, <2>2, <2>3, <2>4, <2>5 DEF ExtractionNext
<1>3. QED  BY <1>1, <1>2, PTL DEF ExtractionSpec

(***************************************************************************)
(* Where all marks are of one language their order does not matter: the    *)
(* text is labelled with it.                                               *)
(***************************************************************************)
THEOREM OneLanguageIsLabelled ==
  ASSUME NEW l
  PROVE  ExtractionSpec => [](/\ lang # Nothing /\ Marks(text.pieces) # {}
                              /\ \A i \in Marks(text.pieces) : MarkOf(text.pieces[i].class) = l
                              => lang = l)
<1> DEFINE Agrees == /\ lang # Nothing /\ Marks(text.pieces) # {}
                     /\ \A i \in Marks(text.pieces) : MarkOf(text.pieces[i].class) = l
                     => lang = l
<1>1. FirstMarkLabels => Agrees
  BY DEF FirstMarkLabels
<1>2. QED  BY <1>1, LabelIsTheFirstMarks, PTL

-----------------------------------------------------------------------------
\* Where matches of a stage that start at i may end.
Ends(stage, s, i) == {j \in i..Len(s) : Matches(stage, s, i, j)}

\* r[i] is what is matched from i on.
MatchedAt(r, stage, s, i) ==
  r[i] = IF Ends(stage, s, i) = {} THEN r[i+1]
         ELSE {<<i, Max(Ends(stage, s, i))>>} \cup r[Max(Ends(stage, s, i)) + 1]

MatchedFrom(r, stage, s, m) ==
  r[Len(s) + 1] = {} /\ \A i \in m..Len(s) : MatchedAt(r, stage, s, i)

(***************************************************************************)
(* A match ends where or after it starts, within the text.                 *)
(***************************************************************************)
LEMMA EndsWithin ==
  ASSUME NEW stage, NEW s, Len(s) \in Nat, NEW i \in 1..Len(s), Ends(stage, s, i) # {}
  PROVE  Max(Ends(stage, s, i)) \in i..Len(s) /\ \A j \in Ends(stage, s, i) : j <= Max(Ends(stage, s, i))
<1> DEFINE E == Ends(stage, s, i)
<1>1. E \subseteq i..Len(s) /\ E \in SUBSET Int
  BY DEF Ends
<1>2. IsFiniteSet(i..Len(s))
  <2>1. i \in Int /\ Len(s) \in Int
    OBVIOUS
  <2>2. QED  BY <2>1, FS_Interval
<1> HIDE DEF E
<1>3. IsFiniteSet(E)
  BY <1>1, <1>2, FS_Subset
<1>4. E # {}
  BY DEF E
<1>5. Max(E) \in E /\ \A y \in E : y <= Max(E)
  BY <1>1, <1>3, <1>4, MaxIs
<1>6. QED  BY <1>1, <1>5 DEF E

(***************************************************************************)
(* The matches of a stage from left to right are defined for every text.   *)
(***************************************************************************)
LEMMA MatchesExist ==
  ASSUME NEW stage, NEW s, NEW N \in Nat, N = Len(s)
  PROVE  \E r : MatchedFrom(r, stage, s, 1)
<1> DEFINE Bad == {m \in 0..N : ~ \E r : MatchedFrom(r, stage, s, N + 1 - m)}
<1>1. Bad = {}
  <2> SUFFICES ASSUME Bad # {} PROVE FALSE
    OBVIOUS
  <2>1. IsFiniteSet(0..N)
    <3>1. 0 \in Int /\ N \in Int
      OBVIOUS
    <3>2. QED  BY <3>1, FS_Interval
  <2>2. Bad \in SUBSET (0..N) /\ Bad \in SUBSET Int
    OBVIOUS
  <2>3. \A m \in Bad : m \in 0..N /\ ~ \E r : MatchedFrom(r, stage, s, N + 1 - m)
    OBVIOUS
  <2>4. \A m \in 0..N : m \notin Bad => \E r : MatchedFrom(r, stage, s, N + 1 - m)
    OBVIOUS
  <2> HIDE DEF Bad
  <2>5. IsFiniteSet(Bad)
    BY <2>1, <2>2, FS_Subset
  <2>6. PICK m \in Bad : \A n \in Bad : m <= n
    BY <2>2, <2>5, LeastAndGreatest
  <2>7. CASE m = 0
    <3> DEFINE r == [i \in 1..(N+1) |-> {}]
    <3>1. r[Len(s) + 1] = {} /\ (N + 1 - m)..Len(s) = {}
      BY <2>7
    <3>2. MatchedFrom(r, stage, s, N + 1 - m)
      BY <3>1 DEF MatchedFrom
    <3>3. QED  BY <2>3, <3>2
  <2>8. CASE m # 0
    <3>1. m - 1 \in 0..N /\ m \in 1..N
      BY <2>3, <2>8
    <3>2. m - 1 \notin Bad
      BY <2>6, <3>1
    <3>3. PICK r : MatchedFrom(r, stage, s, N + 1 - (m - 1))
      BY <2>4, <3>1, <3>2
    <3> DEFINE p == N + 1 - m
               new == IF Ends(stage, s, p) = {} THEN r[p+1]
                      ELSE {<<p, Max(Ends(stage, s, p))>>} \cup r[Max(Ends(stage, s, p)) + 1]
               g == [i \in 1..(N+1) |-> IF i = p THEN new ELSE r[i]]
    <3>4. p \in 1..N /\ N + 1 - (m - 1) = p + 1 /\ N + 1 - m = p
      BY <3>1
    <3> HIDE DEF p
    <3>5. g[p] = new /\ \A i \in (p+1)..(N+1) : g[i] = r[i]
      BY <3>4
    <3>6. \A i \in 1..N : Ends(stage, s, i) # {} => Max(Ends(stage, s, i)) \in i..N
      BY EndsWithin
    <3> HIDE DEF g
    <3>7. r[N + 1] = {} /\ \A i \in (p+1)..N : MatchedAt(r, stage, s, i)
      BY <3>3, <3>4 DEF MatchedFrom
    <3>8. g[Len(s) + 1] = {}
      <4>1. N + 1 \in (p+1)..(N+1)
        BY <3>4
      <4>2. QED  BY <3>5, <3>7, <4>1
    <3>9. ASSUME NEW i \in p..N PROVE MatchedAt(g, stage, s, i)
      <4>1. i \in 1..N /\ i + 1 \in (p+1)..(N+1)
        BY <3>4
      <4>2. g[i+1] = r[i+1]
        BY <3>5, <4>1
      <4>3. Ends(stage, s, i) # {} => g[Max(Ends(stage, s, i)) + 1] = r[Max(Ends(stage, s, i)) + 1]
        <5> SUFFICES ASSUME Ends(stage, s, i) # {}
                     PROVE  g[Max(Ends(stage, s, i)) + 1] = r[Max(Ends(stage, s, i)) + 1]
          OBVIOUS
        <5> DEFINE e == Max(Ends(stage, s, i))
        <5>1. e \in i..N
          BY <3>6, <4>1
        <5> HIDE DEF e
        <5>2. e + 1 \in (p+1)..(N+1)
          BY <3>4, <5>1
        <5>3. g[e+1] = r[e+1]
          BY <3>5, <5>2
        <5>4. QED  BY <5>3 DEF e
      <4>4. CASE i = p
        BY <3>5, <4>2, <4>3, <4>4 DEF MatchedAt
      <4>5. CASE i # p
        <5>1. i \in (p+1)..N /\ i \in (p+1)..(N+1)
          BY <3>4, <4>5
        <5>2. g[i] = r[i] /\ MatchedAt(r, stage, s, i)
          BY <3>5, <3>7, <5>1
        <5>3. QED  BY <4>2, <4>3, <5>2 DEF MatchedAt
      <4>6. QED  BY <4>4, <4>5
    <3>10. MatchedFrom(g, stage, s, N + 1 - m)
      BY <3>4, <3>8, <3>9 DEF MatchedFrom
    <3>11. QED  BY <2>3, <3>10
  <2>9. QED  BY <2>7, <2>8
<1>2. N \in 0..N /\ N + 1 - N = 1
  OBVIOUS
<1>3. QED  BY <1>1, <1>2

(***************************************************************************)
(* Spans computes them.                                                    *)
(***************************************************************************)
LEMMA SpansAre ==
  ASSUME NEW stage, NEW s, NEW N \in Nat, N = Len(s)
  PROVE  \E r : MatchedFrom(r, stage, s, 1) /\ Spans(stage, s) = r[1]
<1> DEFINE E(i) == {j \in i..Len(s) : Matches(stage, s, i, j)}
           Body(h) == [i \in 1..(Len(s) + 1) |->
                         IF i > Len(s) THEN {}
                         ELSE IF E(i) = {} THEN h[i+1]
                         ELSE {<<i, Max(E(i))>>} \cup h[Max(E(i)) + 1]]
<1>1. PICK r : MatchedFrom(r, stage, s, 1)
  BY MatchesExist
<1> DEFINE f == [i \in 1..(Len(s) + 1) |-> r[i]]
<1>2. \A i \in 1..N : Ends(stage, s, i) # {} => Max(Ends(stage, s, i)) \in i..N
  BY EndsWithin
<1>3. f = Body(f)
  <2>1. ASSUME NEW i \in 1..(Len(s) + 1) PROVE f[i] = Body(f)[i]
    <3>1. CASE i = Len(s) + 1
      <4>1. i > Len(s) /\ f[i] = r[Len(s) + 1]
        BY <3>1
      <4>2. f[i] = {}
        BY <1>1, <4>1 DEF MatchedFrom
      <4> HIDE DEF E, f
      <4>3. Body(f)[i] = {}
        BY <4>1
      <4>4. QED  BY <4>2, <4>3
    <3>2. CASE i # Len(s) + 1
      <4>1. i \in 1..N /\ ~(i > Len(s)) /\ i + 1 \in 1..(Len(s) + 1) /\ E(i) = Ends(stage, s, i)
        BY <3>2 DEF Ends
      <4>2. MatchedAt(r, stage, s, i)
        BY <1>1, <4>1 DEF MatchedFrom
      <4> HIDE DEF E
      <4>3. Body(f)[i] = IF E(i) = {} THEN f[i+1] ELSE {<<i, Max(E(i))>>} \cup f[Max(E(i)) + 1]
        BY <4>1
      <4>4. E(i) # {} => f[Max(E(i)) + 1] = r[Max(E(i)) + 1]
        <5> SUFFICES ASSUME E(i) # {} PROVE f[Max(E(i)) + 1] = r[Max(E(i)) + 1]
          OBVIOUS
        <5> DEFINE e == Max(E(i))
        <5>1. e \in i..N
          BY <1>2, <4>1
        <5> HIDE DEF e
        <5>2. e + 1 \in 1..(Len(s) + 1)
          BY <5>1
        <5>3. f[e + 1] = r[e + 1]
          BY <5>2
        <5>4. QED  BY <5>3 DEF e
      <4>5. f[i] = r[i] /\ f[i+1] = r[i+1]
        BY <4>1
      <4> HIDE DEF f, Body
      <4>6. QED  BY <4>1, <4>2, <4>3, <4>4, <4>5 DEF MatchedAt
    <3>3. QED  BY <3>1, <3>2
  <2>2. QED  BY <2>1
<1>4. Spans(stage, s) = (CHOOSE h : h = Body(h))[1]
  BY DEF Spans
<1> DEFINE q == CHOOSE h : h = Body(h)
<1>5. q = Body(q)
  <2> HIDE DEF f
  <2>1. QED  BY <1>3
<1> HIDE DEF q
<1>6. MatchedFrom(q, stage, s, 1)
  <2>1. q[Len(s) + 1] = {}
    BY <1>5
  <2>2. ASSUME NEW i \in 1..Len(s) PROVE MatchedAt(q, stage, s, i)
    <3>1. i \in 1..(Len(s) + 1) /\ ~(i > Len(s)) /\ E(i) = Ends(stage, s, i)
      BY DEF Ends
    <3> HIDE DEF E
    <3>2. q[i] = IF E(i) = {} THEN q[i+1] ELSE {<<i, Max(E(i))>>} \cup q[Max(E(i)) + 1]
      BY <1>5, <3>1
    <3>3. QED  BY <3>1, <3>2 DEF MatchedAt
  <2>3. QED  BY <2>1, <2>2 DEF MatchedFrom
<1>7. Spans(stage, s) = q[1]
  BY <1>4 DEF q
<1>8. QED  BY <1>6, <1>7

\* Spans P of the text from i on are stretches that match, apart from one
\* another, and wherever a match starts one of them is.
CoversMatches(P, stage, s, i) ==
  /\ \A p \in P : /\ p = <<p[1], p[2]>> /\ p[1] \in i..Len(s) /\ p[2] \in p[1]..Len(s)
                  /\ Matches(stage, s, p[1], p[2])
  /\ \A p, q \in P : p = q \/ p[2] < q[1] \/ q[2] < p[1]
  /\ \A a \in i..Len(s) : (\E b \in a..Len(s) : Matches(stage, s, a, b))
                          => \E p \in P : p[1] <= a /\ a <= p[2]

(***************************************************************************)
(* One more start of a match, or of none, before those that are covered.   *)
(***************************************************************************)
LEMMA CoversOneMore ==
  ASSUME NEW r, NEW stage, NEW s, Len(s) \in Nat, NEW i \in 1..Len(s), MatchedAt(r, stage, s, i),
         \A n \in (i+1)..(Len(s)+1) : CoversMatches(r[n], stage, s, n)
  PROVE  CoversMatches(r[i], stage, s, i)
<1> DEFINE N == Len(s)  e == Max(Ends(stage, s, i))
<1>1. CASE Ends(stage, s, i) = {}
  <2>1. r[i] = r[i+1]
    BY <1>1 DEF MatchedAt
  <2>2. CoversMatches(r[i+1], stage, s, i+1)
    OBVIOUS
  <2>3. \A b \in i..N : ~Matches(stage, s, i, b)
    BY <1>1 DEF Ends
  <2>4. \A a \in i..N : a = i \/ a \in (i+1)..N
    OBVIOUS
  <2>5. \A a \in (i+1)..N : a \in i..N
    OBVIOUS
  <2>6. QED  BY <2>1, <2>2, <2>3, <2>4, <2>5 DEF CoversMatches
<1>2. CASE Ends(stage, s, i) # {}
  <2>1. e \in i..N
    BY <1>2, EndsWithin
  <2>2. e \in Ends(stage, s, i)
    <3>1. Ends(stage, s, i) \in SUBSET Int
      BY DEF Ends
    <3>2. IsFiniteSet(i..N)
      <4>1. i \in Int /\ N \in Int
        OBVIOUS
      <4>2. QED  BY <4>1, FS_Interval
    <3>3. IsFiniteSet(Ends(stage, s, i))
      <4>1. Ends(stage, s, i) \in SUBSET (i..N)
        BY DEF Ends
      <4>2. QED  BY <3>2, <4>1, FS_Subset
    <3>4. QED  BY <1>2, <3>1, <3>3, MaxIs
  <2>3. Matches(stage, s, i, e)
    BY <2>2 DEF Ends
  <2>4. r[i] = {<<i, e>>} \cup r[e+1]
    BY <1>2 DEF MatchedAt
  <2> HIDE DEF e
  <2>5. CoversMatches(r[e+1], stage, s, e+1)
    <3>1. e + 1 \in (i+1)..(N+1)
      BY <2>1
    <3>2. QED  BY <3>1
  <2> DEFINE P == r[e+1]  first == <<i, e>>
  <2>6. first = <<first[1], first[2]>> /\ first[1] = i /\ first[2] = e
    OBVIOUS
  <2> HIDE DEF first
  <2>7. r[i] = {first} \cup P
    BY <2>4 DEF first
  <2>8. /\ \A p \in P : /\ p = <<p[1], p[2]>> /\ p[1] \in (e+1)..N /\ p[2] \in p[1]..N
                        /\ Matches(stage, s, p[1], p[2])
        /\ \A p, q \in P : p = q \/ p[2] < q[1] \/ q[2] < p[1]
        /\ \A a \in (e+1)..N : (\E b \in a..N : Matches(stage, s, a, b))
                                => \E p \in P : p[1] <= a /\ a <= p[2]
    BY <2>5 DEF CoversMatches
  <2> HIDE DEF P
  <2>9. \A p \in r[i] : /\ p = <<p[1], p[2]>> /\ p[1] \in i..N /\ p[2] \in p[1]..N
                        /\ Matches(stage, s, p[1], p[2])
    <3> SUFFICES ASSUME NEW p \in r[i]
                 PROVE  /\ p = <<p[1], p[2]>> /\ p[1] \in i..N /\ p[2] \in p[1]..N
                        /\ Matches(stage, s, p[1], p[2])
      OBVIOUS
    <3>1. CASE p = first
      <4>1. i \in i..N
        OBVIOUS
      <4>2. QED  BY <2>1, <2>3, <2>6, <3>1, <4>1
    <3>2. CASE p \in P
      <4>1. (e+1)..N \subseteq i..N
        BY <2>1
      <4>2. QED  BY <2>8, <3>2, <4>1
    <3>3. QED  BY <2>7, <3>1, <3>2
  <2>10. \A p, q \in r[i] : p = q \/ p[2] < q[1] \/ q[2] < p[1]
    <3>1. \A q \in P : first[2] < q[1]
      <4>1. \A m \in (e+1)..N : e < m
        BY <2>1
      <4>2. QED  BY <2>6, <2>8, <4>1
    <3>2. QED  BY <2>7, <2>8, <3>1
  <2>11. \A a \in i..N : (\E b \in a..N : Matches(stage, s, a, b))
                           => \E p \in r[i] : p[1] <= a /\ a <= p[2]
    <3> SUFFICES ASSUME NEW a \in i..N, NEW b \in a..N, Matches(stage, s, a, b)
                 PROVE  \E p \in r[i] : p[1] <= a /\ a <= p[2]
      OBVIOUS
    <3>1. CASE a <= e
      <4>1. first \in r[i] /\ first[1] <= a /\ a <= first[2]
        BY <2>6, <2>7, <3>1
      <4>2. QED  BY <4>1
    <3>2. CASE ~(a <= e)
      <4>1. a \in (e+1)..N
        BY <2>1, <3>2
      <4>2. QED  BY <2>7, <2>8, <4>1
    <3>3. QED  BY <3>1, <3>2
  <2>12. QED  BY <2>9, <2>10, <2>11 DEF CoversMatches
<1>3. QED  BY <1>1, <1>2

(***************************************************************************)
(* In every text and at every stage, what a stage looks at are stretches   *)
(* that its pattern matches and that do not overlap, so that it reads no   *)
(* part of the text twice, and none goes by: wherever a match starts, one  *)
(* of the stretches is (consume).                                          *)
(***************************************************************************)
LEMMA SpansCoverMatches ==
  ASSUME NEW stage, NEW s, NEW N \in Nat, N = Len(s)
  PROVE  CoversMatches(Spans(stage, s), stage, s, 1)
<1>1. PICK r : MatchedFrom(r, stage, s, 1) /\ Spans(stage, s) = r[1]
  BY SpansAre
<1> DEFINE Bad == {m \in 0..N : ~CoversMatches(r[N + 1 - m], stage, s, N + 1 - m)}
<1>2. Bad = {}
  <2> SUFFICES ASSUME Bad # {} PROVE FALSE
    OBVIOUS
  <2>1. 0 \in Int /\ N \in Int
    OBVIOUS
  <2>2. IsFiniteSet(0..N) /\ Bad \in SUBSET (0..N) /\ Bad \in SUBSET Int
    BY <2>1, FS_Interval
  <2>3. IsFiniteSet(Bad)
    BY <2>2, FS_Subset
  <2>4. PICK m \in Bad : \A n \in Bad : m <= n
    BY <2>2, <2>3, LeastAndGreatest
  <2>5. m \in 0..N /\ ~CoversMatches(r[N + 1 - m], stage, s, N + 1 - m)
    OBVIOUS
  <2>6. \A n \in 0..N : n < m => CoversMatches(r[N + 1 - n], stage, s, N + 1 - n)
    BY <2>4
  <2> HIDE DEF Bad
  <2>7. m # 0
    <3> SUFFICES ASSUME m = 0 PROVE FALSE
      OBVIOUS
    <3>1. N + 1 - m = N + 1 /\ (N + 1)..N = {} /\ r[N + 1] = {}
      BY <1>1 DEF MatchedFrom
    <3>2. CoversMatches({}, stage, s, N + 1)
      BY <3>1 DEF CoversMatches
    <3>3. QED  BY <2>5, <3>1, <3>2
  <2> DEFINE i == N + 1 - m
  <2>8. i \in 1..N
    BY <2>5, <2>7
  <2>9. ASSUME NEW n \in (i+1)..(N+1) PROVE CoversMatches(r[n], stage, s, n)
    <3>1. N + 1 - n \in 0..N /\ N + 1 - n < m /\ N + 1 - (N + 1 - n) = n
      BY <2>5
    <3>2. QED  BY <2>6, <3>1
  <2>10. MatchedAt(r, stage, s, i)
    BY <1>1, <2>8 DEF MatchedFrom
  <2> HIDE DEF i
  <2>11. CoversMatches(r[i], stage, s, i)
    BY <2>8, <2>9, <2>10, CoversOneMore
  <2>12. QED  BY <2>5, <2>11 DEF i
<1>3. N \in 0..N /\ N + 1 - N = 1
  OBVIOUS
<1>4. QED  BY <1>1, <1>2, <1>3

(***************************************************************************)
(* What flattening a list of texts gives, from left to right.              *)
(***************************************************************************)
LEMMA FlatIs ==
  ASSUME NEW h, NEW N \in Nat, N = Len(h), N >= 1,
         NEW A, A[1] = h[1], \A n \in 2..N : A[n] = A[n-1] \o h[n]
  PROVE  FlattenSeq(h) = A[N]
<1> DEFINE Body(g) == [n \in 1..N |-> IF n = 1 THEN h[n] ELSE g[n-1] \o h[n]]
           f == [n \in 1..N |-> A[n]]
           r == CHOOSE g : g = Body(g)
<1>1. f = Body(f)
  <2>1. ASSUME NEW n \in 1..N PROVE f[n] = IF n = 1 THEN h[n] ELSE f[n-1] \o h[n]
    <3>1. CASE n = 1
      BY <3>1
    <3>2. CASE n # 1
      <4>1. n \in 2..N /\ n - 1 \in 1..N
        BY <3>2
      <4>2. QED  BY <3>2, <4>1
    <3>3. QED  BY <3>1, <3>2
  <2>2. f = [n \in 1..N |-> f[n]]
    OBVIOUS
  <2> HIDE DEF f
  <2>3. QED  BY <2>1, <2>2
<1>2. r = Body(r)
  BY <1>1
<1>3. FlattenSeq(h) = r[N]
  BY DEF FlattenSeq
<1> HIDE DEF r
<1>4. r[1] = h[1] /\ \A n \in 2..N : r[n] = r[n-1] \o h[n]
  <2>1. \A n \in 1..N : r[n] = IF n = 1 THEN h[n] ELSE r[n-1] \o h[n]
    BY <1>2
  <2>2. 1 \in 1..N /\ \A n \in 2..N : n \in 1..N /\ n # 1
    OBVIOUS
  <2>3. QED  BY <2>1, <2>2
<1> DEFINE Bad == {n \in 1..N : r[n] # A[n]}
<1>5. Bad = {}
  <2> SUFFICES ASSUME Bad # {} PROVE FALSE
    OBVIOUS
  <2>1. 1 \in Int /\ N \in Int
    OBVIOUS
  <2>2. IsFiniteSet(1..N) /\ Bad \in SUBSET (1..N) /\ Bad \in SUBSET Int
    BY <2>1, FS_Interval
  <2>3. IsFiniteSet(Bad)
    BY <2>2, FS_Subset
  <2>4. PICK n \in Bad : \A m \in Bad : n <= m
    BY <2>2, <2>3, LeastAndGreatest
  <2>5. n # 1
    BY <1>4
  <2>6. n \in 2..N /\ n - 1 \in 1..N /\ n - 1 < n
    BY <2>5
  <2>7. r[n-1] = A[n-1]
    BY <2>4, <2>6
  <2>8. r[n] = A[n]
    BY <1>4, <2>6, <2>7
  <2>9. QED  BY <2>8
<1>6. N \in 1..N
  OBVIOUS
<1>7. QED  BY <1>3, <1>5, <1>6

(***************************************************************************)
(* The start of a list is a list.                                          *)
(***************************************************************************)
LEMMA Prefix ==
  ASSUME NEW S, NEW L \in Nat, NEW W \in [1..L -> S], NEW l \in 0..L
  PROVE  [m \in 1..l |-> W[m]] \in Seq(S) /\ Len([m \in 1..l |-> W[m]]) = l
<1> DEFINE a == [m \in 1..l |-> W[m]]
<1>1. \A m \in 1..l : m \in 1..L
  OBVIOUS
<1>2. a \in [1..l -> S]
  BY <1>1
<1>3. l \in Nat
  OBVIOUS
<1> HIDE DEF a
<1>4. a \in Seq(S) /\ Len(a) = l
  BY <1>2, <1>3
<1>5. QED  BY <1>4 DEF a

(***************************************************************************)
(* A list extended by its next element.                                    *)
(***************************************************************************)
LEMMA OneElementMore ==
  ASSUME NEW S, NEW L \in Nat, NEW W \in [1..L -> S], NEW l \in 0..(L-1)
  PROVE  [m \in 1..l |-> W[m]] \o <<W[l+1]>> = [m \in 1..(l+1) |-> W[m]]
<1> DEFINE a == [m \in 1..l |-> W[m]]
           w == a \o <<W[l+1]>>
<1>1. l \in Nat /\ l + 1 \in 1..L /\ W[l+1] \in S /\ l \in 0..L
  OBVIOUS
<1>2. a \in Seq(S) /\ Len(a) = l /\ \A m \in 1..l : a[m] = W[m]
  BY <1>1, Prefix
<1>3. <<W[l+1]>> \in Seq(S) /\ Len(<<W[l+1]>>) = 1 /\ <<W[l+1]>>[1] = W[l+1]
  BY <1>1
<1> HIDE DEF a
<1>4. w \in Seq(S) /\ Len(w) = l + 1 /\ (\A m \in 1..l : w[m] = a[m]) /\ w[l+1] = W[l+1]
  BY <1>1, <1>2, <1>3
<1>5. \A m \in 1..(l+1) : w[m] = W[m]
  BY <1>1, <1>2, <1>4
<1> HIDE DEF w
<1>6. w = [m \in 1..(l+1) |-> w[m]]
  BY <1>4
<1>7. w = [m \in 1..(l+1) |-> W[m]]
  BY <1>5, <1>6
<1>8. QED  BY <1>7 DEF w, a

(***************************************************************************)
(* A text from which nothing is taken stays as it is.                      *)
(***************************************************************************)
LEMMA BlankNothing ==
  ASSUME NEW S, NEW s \in Seq(S), Len(s) >= 1
  PROVE  Blank(s, {}) = s
<1> DEFINE N == Len(s)
           h == [m \in 1..N |-> <<s[m]>>]
           A == [n \in 1..N |-> [m \in 1..n |-> s[m]]]
<1>1. N \in Nat /\ N >= 1 /\ DOMAIN s = 1..N /\ s = [m \in 1..N |-> s[m]] /\ \A m \in 1..N : s[m] \in S
  OBVIOUS
<1>2. Blank(s, {}) = FlattenSeq(h)
  BY DEF Blank
<1> HIDE DEF N
<1>3. Len(h) = N /\ h[1] = <<s[1]>> /\ \A n \in 2..N : h[n] = <<s[n]>>
  BY <1>1
<1>4. A[1] = h[1]
  <2>1. 1 \in 1..N /\ 1..1 = {1}
    BY <1>1
  <2>2. A[1] = [m \in {1} |-> s[m]]
    BY <2>1
  <2>3. <<s[1]>> = [m \in {1} |-> s[m]]
    OBVIOUS
  <2>4. QED  BY <1>3, <2>2, <2>3
<1>5. ASSUME NEW n \in 2..N PROVE A[n] = A[n-1] \o h[n]
  <2>1. n - 1 \in 0..(N-1) /\ n - 1 \in 1..N /\ n \in 1..N /\ (n - 1) + 1 = n
    BY <1>1
  <2>2. s \in [1..N -> S]
    BY <1>1
  <2> DEFINE l == n - 1
  <2> HIDE DEF l
  <2>3. [m \in 1..l |-> s[m]] \o <<s[l+1]>> = [m \in 1..(l+1) |-> s[m]]
    BY <1>1, <2>1, <2>2, OneElementMore DEF l
  <2>4. A[n] = [m \in 1..n |-> s[m]] /\ A[n-1] = [m \in 1..(n-1) |-> s[m]] /\ h[n] = <<s[n]>>
    BY <1>3, <2>1
  <2> HIDE DEF A, h
  <2>5. QED  BY <2>1, <2>3, <2>4 DEF l
<1> HIDE DEF A, h
<1>6. FlattenSeq(h) = A[N]
  <2>1. \A n \in 2..N : A[n] = A[n-1] \o h[n]
    BY <1>5
  <2>2. N \in Nat /\ N >= 1 /\ N = Len(h)
    BY <1>1, <1>3
  <2> HIDE DEF N
  <2>3. QED  BY <1>4, <2>1, <2>2, FlatIs, ZenonT(60)
<1>7. A[N] = [m \in 1..N |-> s[m]]
  BY <1>1 DEF A
<1>8. QED  BY <1>1, <1>2, <1>6, <1>7

(***************************************************************************)
(* A stage that takes none of its matches neither changes the text nor     *)
(* finds anything in it.                                                   *)
(***************************************************************************)
LEMMA NothingTaken ==
  ASSUME NEW stage, NEW label, NEW S, NEW s \in Seq(S), Len(s) >= 1, NEW F,
         \A i \in 1..Len(s) : \A j \in i..Len(s) :
           Matches(stage, s, i, j) => ~Taken(stage, s, <<i, j>>, label)
  PROVE  Consume(stage, [rest |-> s, found |-> F], label) = [rest |-> s, found |-> F]
<1>1. Len(s) \in Nat
  OBVIOUS
<1>2. ASSUME NEW p \in Spans(stage, s) PROVE ~Taken(stage, s, p, label)
  <2>1. CoversMatches(Spans(stage, s), stage, s, 1)
    BY <1>1, SpansCoverMatches
  <2>2. p = <<p[1], p[2]>> /\ p[1] \in 1..Len(s) /\ p[2] \in p[1]..Len(s) /\ Matches(stage, s, p[1], p[2])
    BY <2>1 DEF CoversMatches
  <2>3. QED  BY <2>2
<1>3. Blank(s, {}) = s
  BY BlankNothing
<1> DEFINE acc == [rest |-> s, found |-> F]
<1>4. acc.rest = s /\ acc.found = F
  OBVIOUS
<1> HIDE DEF acc
<1>5. {p \in Spans(stage, acc.rest) : Taken(stage, acc.rest, p, label)} = {}
  BY <1>2, <1>4
<1>6. Consume(stage, acc, label) = [rest |-> Blank(s, {}), found |-> F \cup UNION {}]
  <2>1. UNION {TokensOf(stage, SubSeq(acc.rest, p[1], p[2]), label) : p \in {}} = UNION {}
    OBVIOUS
  <2>2. QED  BY <1>4, <1>5, <2>1 DEF Consume
<1>7. QED  BY <1>3, <1>6 DEF acc

(***************************************************************************)
(* What stands where in two lists that are joined.                         *)
(***************************************************************************)
LEMMA JoinedAt ==
  ASSUME NEW S, NEW s \in Seq(S), NEW t \in Seq(S)
  PROVE  /\ Len(s \o t) = Len(s) + Len(t)
         /\ \A n \in 1..Len(s) : (s \o t)[n] = s[n]
         /\ \A n \in (Len(s) + 1)..(Len(s) + Len(t)) : (s \o t)[n] = t[n - Len(s)]
<1> DEFINE w == s \o t
<1>1. Len(w) = Len(s) + Len(t)
  BY ConcatProperties
<1>2. \A n \in 1..(Len(s) + Len(t)) : w[n] = IF n <= Len(s) THEN s[n] ELSE t[n - Len(s)]
  BY ConcatProperties
<1> HIDE DEF w
<1>3. Len(s) \in Nat /\ Len(t) \in Nat
  OBVIOUS
<1>4. ASSUME NEW n \in 1..Len(s) PROVE w[n] = s[n]
  <2>1. n \in 1..(Len(s) + Len(t)) /\ n <= Len(s)
    BY <1>3
  <2>2. QED  BY <1>2, <2>1
<1>5. ASSUME NEW n \in (Len(s) + 1)..(Len(s) + Len(t)) PROVE w[n] = t[n - Len(s)]
  <2>1. n \in 1..(Len(s) + Len(t)) /\ ~(n <= Len(s))
    BY <1>3
  <2>2. QED  BY <1>2, <2>1
<1>6. QED  BY <1>1, <1>4, <1>5 DEF w

\* The stages for words, for dates and for currencies.
WordStages == {"apostrophe", "backtick", "dotted", "snake", "camel", "hash", "alnum"}
Codes == {"USD", "EUR", "GBP", "JPY", "TRY", "CNY"}

(***************************************************************************)
(* The order of the stages.                                                *)
(***************************************************************************)
LEMMA StageOrder ==
  /\ Len(AllStages) = 18
  /\ \A n \in 1..7 : AllStages[n] \in WordStages
  /\ AllStages[8] = "date zh" /\ AllStages[9] = "date ymd" /\ AllStages[10] = "date slash"
  /\ AllStages[11] = "zh" /\ AllStages[12] = "number"
  /\ \A n \in 13..18 : AllStages[n] \in Codes
<1> DEFINE Names == WordStages \cup {"date zh", "date ymd", "date slash", "zh", "number"} \cup Codes
<1>1. Stages \in Seq(Names) /\ Len(Stages) = 12 /\ Currencies \in Seq(Names) /\ Len(Currencies) = 6
  BY DEF Stages, Currencies, WordStages, Codes
<1> HIDE DEF Names
<1>2. /\ Len(AllStages) = 18
      /\ \A n \in 1..12 : AllStages[n] = Stages[n]
      /\ \A n \in 13..18 : AllStages[n] = Currencies[n - 12]
  <2>1. /\ Len(AllStages) = Len(Stages) + Len(Currencies)
        /\ \A n \in 1..Len(Stages) : AllStages[n] = Stages[n]
        /\ \A n \in (Len(Stages) + 1)..(Len(Stages) + Len(Currencies)) :
             AllStages[n] = Currencies[n - Len(Stages)]
    BY <1>1, JoinedAt DEF AllStages
  <2>2. 12 + 6 = 18 /\ 12 + 1 = 13
    OBVIOUS
  <2>3. QED  BY <1>1, <2>1, <2>2
<1>3. ASSUME NEW n \in 1..7 PROVE Stages[n] \in WordStages
  <2>1. n = 1 \/ n = 2 \/ n = 3 \/ n = 4 \/ n = 5 \/ n = 6 \/ n = 7
    OBVIOUS
  <2>2. /\ Stages[1] = "apostrophe" /\ Stages[2] = "backtick" /\ Stages[3] = "dotted"
        /\ Stages[4] = "snake" /\ Stages[5] = "camel" /\ Stages[6] = "hash" /\ Stages[7] = "alnum"
    BY DEF Stages
  <2>3. QED  BY <2>1, <2>2 DEF WordStages
<1>4. /\ Stages[8] = "date zh" /\ Stages[9] = "date ymd" /\ Stages[10] = "date slash"
      /\ Stages[11] = "zh" /\ Stages[12] = "number"
  BY DEF Stages
<1>5. \A n \in 1..6 : Currencies[n] \in Codes
  BY DEF Currencies, Codes
<1>6. ASSUME NEW n \in 13..18 PROVE AllStages[n] \in Codes
  <2>1. n - 12 \in 1..6
    OBVIOUS
  <2>2. QED  BY <1>2, <1>5, <2>1
<1>7. (\A n \in 1..7 : n \in 1..12) /\ 8 \in 1..12 /\ 9 \in 1..12 /\ 10 \in 1..12 /\ 11 \in 1..12 /\ 12 \in 1..12
  OBVIOUS
<1>8. QED  BY <1>2, <1>3, <1>4, <1>6, <1>7

(***************************************************************************)
(* A stage before another one is one of these.                             *)
(***************************************************************************)
LEMMA StageCases ==
  ASSUME NEW n \in 1..18
  PROVE  \/ n <= 7 /\ AllStages[n] \in WordStages
         \/ n \in {8, 9, 10} /\ AllStages[n] \in {"date zh", "date ymd", "date slash"}
         \/ n = 11 /\ AllStages[n] = "zh"
         \/ n = 12 /\ AllStages[n] = "number"
         \/ n > 12 /\ AllStages[n] \in Codes
<1>1. n \in 1..7 \/ n = 8 \/ n = 9 \/ n = 10 \/ n = 11 \/ n = 12 \/ n \in 13..18
  OBVIOUS
<1>2. CASE n \in 1..7
  <2>1. n <= 7
    BY <1>2
  <2>2. AllStages[n] \in WordStages
    BY <1>2, StageOrder
  <2>3. QED  BY <2>1, <2>2
<1>3. CASE n = 8 \/ n = 9 \/ n = 10
  BY <1>3, StageOrder
<1>4. CASE n = 11 \/ n = 12
  BY <1>4, StageOrder
<1>5. CASE n \in 13..18
  <2>1. n > 12
    BY <1>5
  <2>2. AllStages[n] \in Codes
    BY <1>5, StageOrder
  <2>3. QED  BY <2>1, <2>2
<1>6. QED  BY <1>1, <1>2, <1>3, <1>4, <1>5

(***************************************************************************)
(* Stages that leave a reading as it is, one after another.                *)
(***************************************************************************)
LEMMA Unchanged ==
  ASSUME NEW f, NEW a \in Nat, NEW b \in Nat, a <= b,
         \A n \in (a+1)..b : f[n-1] = f[a] => f[n] = f[a]
  PROVE  f[b] = f[a]
<1> DEFINE Bad == {n \in a..b : f[n] # f[a]}
<1>1. Bad = {}
  <2> SUFFICES ASSUME Bad # {} PROVE FALSE
    OBVIOUS
  <2>1. a \in Int /\ b \in Int
    OBVIOUS
  <2>2. IsFiniteSet(a..b) /\ Bad \in SUBSET (a..b) /\ Bad \in SUBSET Int
    BY <2>1, FS_Interval
  <2>3. IsFiniteSet(Bad)
    BY <2>2, FS_Subset
  <2>4. PICK n \in Bad : \A m \in Bad : n <= m
    BY <2>2, <2>3, LeastAndGreatest
  <2>5. n \in (a+1)..b /\ n - 1 \in a..b /\ n - 1 < n
    OBVIOUS
  <2>6. f[n-1] = f[a]
    BY <2>4, <2>5
  <2>7. f[n] = f[a]
    BY <2>5, <2>6
  <2>8. QED  BY <2>7
<1>2. b \in a..b
  OBVIOUS
<1>3. QED  BY <1>1, <1>2

-----------------------------------------------------------------------------
\* Pieces without words: numerals, runs of digits, and what stands in amounts
\* and dates.
DigitRuns == [kind : {"digits"}, n : Nat, length : Nat, class : {"other"}]
Plain == Runes \cup DigitRuns \cup {Sign("."), Sign(","), Sign("/")}

\* What the currencies start with, and the marks that make tokens of words
\* and numbers.
Heads == {form[1] : form \in UNION {Forms[code] : code \in Codes}}
Structural == {"'", "backtick", ".", ",", "_", "-", "#", "/"}

\* A word or mark that is no token and no part of one; a piece next to which a
\* numeral or a run of digits ends.
Calm(p) ==
  /\ p.kind \in {"word", "han", "mark"} /\ p.is \notin Heads
  /\ p.kind = "word" => p.case # "camel"
  /\ p.kind = "mark" => p.is \notin Structural

Gap(p) == Calm(p) /\ p.kind # "word" /\ ~Reads(p, "han", Classifiers)

\* s[b..e] has no words and all the rest of the text is calm.
Among(s, b, e) ==
  /\ b \in 1..Len(s) /\ e \in b..Len(s)
  /\ \A m \in b..e : s[m] \in Plain
  /\ \A m \in 1..Len(s) : m < b \/ e < m => Calm(s[m])
  /\ b > 1 => Gap(s[b-1])
  /\ e < Len(s) => Gap(s[e+1])

(***************************************************************************)
(* The kinds of pieces without words.                                      *)
(***************************************************************************)
LEMMA PlainPiece ==
  ASSUME NEW p \in Plain
  PROVE  p.kind \in {"numeral", "digits", "mark"} /\ (p.kind = "mark" => p.is \in {".", ",", "/"})
<1>1. CASE p \in Runes
  BY <1>1 DEF Runes
<1>2. CASE p \in DigitRuns
  BY <1>2 DEF DigitRuns
<1>3. CASE p \in {Sign("."), Sign(","), Sign("/")}
  <2>1. \A is : Sign(is).kind = "mark" /\ Sign(is).is = is
    BY DEF Sign
  <2>2. p = Sign(".") \/ p = Sign(",") \/ p = Sign("/")
    BY <1>3
  <2>3. QED  BY <2>1, <2>2
<1>4. p \in Runes \/ p \in DigitRuns \/ p \in {Sign("."), Sign(","), Sign("/")}
  BY DEF Plain
<1>5. QED  BY <1>1, <1>2, <1>3, <1>4

(***************************************************************************)
(* Which pieces are without words.                                         *)
(***************************************************************************)
LEMMA PlainParts ==
  /\ Runes \subseteq Plain /\ DigitRuns \subseteq Plain
  /\ \A is \in {".", ",", "/"} : Sign(is) \in Plain
<1>1. Runes \subseteq Plain /\ DigitRuns \subseteq Plain
  BY DEF Plain
<1>2. Sign(".") \in Plain /\ Sign(",") \in Plain /\ Sign("/") \in Plain
  BY DEF Plain
<1>3. QED  BY <1>1, <1>2

(***************************************************************************)
(* No currency starts with a space or with a mark of amounts and dates,    *)
(* and every form starts with one of the heads.                            *)
(***************************************************************************)
LEMMA HeadsAre ==
  /\ \A is \in {" ", ".", ",", "/"} : is \notin Heads
  /\ \A code \in Codes : \A form \in Forms[code] : form[1] \in Heads
<1> DEFINE Other(x) == x # " " /\ x # "." /\ x # "," /\ x # "/"
<1>0. /\ \A f, x : f = <<x>> => f[1] = x
      /\ \A f, x, y : f = <<x, y>> => f[1] = x
      /\ \A f, x, y, z : f = <<x, y, z>> => f[1] = x
  OBVIOUS
<1>1. ASSUME NEW code \in Codes, NEW form \in Forms[code] PROVE Other(form[1])
  <2>1. CASE code = "USD"
    <3>1. form \in Forms["USD"]
      BY ONLY <2>1, form \in Forms[code]
    <3>2. \/ form = <<"$">> \/ form = <<"usd">>
          \/ form = <<"dollar">> \/ form = <<"dolar">>
          \/ form = <<"mei", "yuan">> \/ form = <<"mei", "jin">>
      BY ONLY <3>1 DEF Forms
    <3>3. \/ form[1] = "$" \/ form[1] = "usd" \/ form[1] = "dollar"
          \/ form[1] = "dolar" \/ form[1] = "mei"
      BY ONLY <1>0, <3>2, Zenon
    <3>4. QED  BY ONLY <3>3
  <2>2. CASE code = "EUR"
    <3>1. form \in Forms["EUR"]
      BY ONLY <2>2, form \in Forms[code]
    <3>2. \/ form = <<"euro sign">> \/ form = <<"eur">>
          \/ form = <<"euro">> \/ form = <<"avro">>
          \/ form = <<"ou", "yuan">>
      BY ONLY <3>1 DEF Forms
    <3>3. \/ form[1] = "euro sign" \/ form[1] = "eur" \/ form[1] = "euro"
          \/ form[1] = "avro" \/ form[1] = "ou"
      BY ONLY <1>0, <3>2, Zenon
    <3>4. QED  BY ONLY <3>3
  <2>3. CASE code = "GBP"
    <3>1. form \in Forms["GBP"]
      BY ONLY <2>3, form \in Forms[code]
    <3>2. \/ form = <<"pound sign">> \/ form = <<"gbp">>
          \/ form = <<"pound">> \/ form = <<"sterlin">>
          \/ form = <<"libra">> \/ form = <<"ying", "bang">>
      BY ONLY <3>1 DEF Forms
    <3>3. \/ form[1] = "pound sign" \/ form[1] = "gbp" \/ form[1] = "pound"
          \/ form[1] = "sterlin" \/ form[1] = "libra" \/ form[1] = "ying"
      BY ONLY <1>0, <3>2, Zenon
    <3>4. QED  BY ONLY <3>3
  <2>4. CASE code = "JPY"
    <3>1. form \in Forms["JPY"]
      BY ONLY <2>4, form \in Forms[code]
    <3>2. \/ form = <<"jpy">> \/ form = <<"yen">>
          \/ form = <<"yen rune">> \/ form = <<"day", "yuan">>
      BY ONLY <3>1 DEF Forms
    <3>3. \/ form[1] = "jpy" \/ form[1] = "yen" \/ form[1] = "yen rune"
          \/ form[1] = "day"
      BY ONLY <1>0, <3>2, Zenon
    <3>4. QED  BY ONLY <3>3
  <2>5. CASE code = "TRY"
    <3>1. form \in Forms["TRY"]
      BY ONLY <2>5, form \in Forms[code]
    <3>2. \/ form = <<"lira sign">> \/ form = <<"tl">>
          \/ form = <<"lira">> \/ form = <<"li", "la">>
      BY ONLY <3>1 DEF Forms
    <3>3. \/ form[1] = "lira sign" \/ form[1] = "tl" \/ form[1] = "lira"
          \/ form[1] = "li"
      BY ONLY <1>0, <3>2, Zenon
    <3>4. QED  BY ONLY <3>3
  <2>6. CASE code = "CNY"
    <3>1. form \in Forms["CNY"]
      BY ONLY <2>6, form \in Forms[code]
    <3>2. \/ form = <<"yen sign">> \/ form = <<"cny">>
          \/ form = <<"rmb">> \/ form = <<"yuan word">>
          \/ form = <<"yuan">> \/ form = <<"ren", "min", "bi">>
      BY ONLY <3>1 DEF Forms
    <3>3. \/ form[1] = "yen sign" \/ form[1] = "cny" \/ form[1] = "rmb"
          \/ form[1] = "yuan word" \/ form[1] = "yuan" \/ form[1] = "ren"
      BY ONLY <1>0, <3>2, Zenon
    <3>4. QED  BY ONLY <3>3
  <2>7. \/ code = "USD" \/ code = "EUR" \/ code = "GBP"
        \/ code = "JPY" \/ code = "TRY" \/ code = "CNY"
    BY DEF Codes
  <2> HIDE DEF Other
  <2>8. QED  BY <2>1, <2>2, <2>3, <2>4, <2>5, <2>6, <2>7
<1>2. ASSUME NEW code \in Codes, NEW form \in Forms[code]
      PROVE  form[1] \in Heads
  BY DEF Heads
<1>3. ASSUME NEW is \in Heads PROVE Other(is)
  <2>1. PICK code \in Codes : \E form \in Forms[code] : is = form[1]
    BY DEF Heads
  <2> HIDE DEF Other
  <2>2. QED  BY <1>1, <2>1
<1>4. QED  BY <1>2, <1>3

(***************************************************************************)
(* What a calm piece is not.                                               *)
(***************************************************************************)
LEMMA CalmPiece ==
  ASSUME NEW p, Calm(p)
  PROVE  /\ p.kind # "digits" /\ p.kind # "numeral" /\ p.is \notin Heads
         /\ p.kind = "word" => p.case # "camel"
         /\ \A set : set \subseteq Structural => ~Reads(p, "mark", set)
         /\ IsName(p) => p.kind = "word"
         /\ Gap(p) => ~IsName(p)
<1>1. /\ p.kind \in {"word", "han", "mark"} /\ p.is \notin Heads
      /\ p.kind = "word" => p.case # "camel"
      /\ p.kind = "mark" => p.is \notin Structural
  BY DEF Calm
<1>2. p.kind # "digits" /\ p.kind # "numeral"
  BY <1>1
<1>3. \A set : set \subseteq Structural => ~Reads(p, "mark", set)
  BY <1>1 DEF Reads
<1>4. {"_"} \subseteq Structural /\ {"-"} \subseteq Structural
  BY DEF Structural
<1>5. ~Reads(p, "mark", {"_"}) /\ ~Reads(p, "mark", {"-"})
  BY <1>3, <1>4
<1>6. IsName(p) => p.kind = "word"
  BY <1>2, <1>5 DEF IsName, IsWord, IsAlnum
<1>7. QED  BY <1>1, <1>2, <1>3, <1>6 DEF Gap

(***************************************************************************)
(* A space is calm.                                                        *)
(***************************************************************************)
LEMMA SpaceIsCalm == Calm(Space)
<1>1. Space.kind = "mark" /\ Space.is = " "
  BY DEF Space, Sign
<1>2. " " \notin Structural
  BY DEF Structural
<1>3. QED  BY <1>1, <1>2, HeadsAre DEF Calm

(***************************************************************************)
(* No currency starts where none of its heads stands.                      *)
(***************************************************************************)
LEMMA NoForm ==
  ASSUME NEW code \in Codes, NEW s, NEW i \in Nat, NEW j \in Nat, i <= j, s[i].is \notin Heads
  PROVE  ~FormOf(code, s, i, j)
<1> SUFFICES ASSUME FormOf(code, s, i, j) PROVE FALSE
  OBVIOUS
<1> DEFINE f == [m \in 1..(j - i + 1) |-> s[i + m - 1].is]
<1>1. f \in Forms[code]
  BY DEF FormOf
<1>2. 1 \in 1..(j - i + 1) /\ i + 1 - 1 = i
  OBVIOUS
<1>3. f[1] = s[i].is
  BY <1>2
<1> HIDE DEF f
<1>4. f[1] \in Heads
  BY <1>1, HeadsAre
<1>5. QED  BY <1>3, <1>4

(***************************************************************************)
(* A stage matches nothing that starts at a calm piece and either stays    *)
(* among calm ones or meets a gap.                                         *)
(***************************************************************************)
LEMMA QuietMatch ==
  ASSUME NEW s, Len(s) \in Nat, NEW i \in 1..Len(s), NEW j \in i..Len(s), Calm(s[i]),
         (\A m \in i..j : Calm(s[m])) \/ (\E m \in i..j : Gap(s[m]))
  PROVE  \A n \in 1..18 : ~Matches(AllStages[n], s, i, j)
<1>1. i \in Nat /\ j \in Nat /\ i \in i..j /\ j \in i..j
  OBVIOUS
<1>2. /\ s[i].kind # "digits" /\ s[i].kind # "numeral" /\ s[i].is \notin Heads
      /\ s[i].kind = "word" => s[i].case # "camel"
      /\ \A set : set \subseteq Structural => ~Reads(s[i], "mark", set)
  BY CalmPiece
<1>3. /\ {"'"} \subseteq Structural /\ {"backtick"} \subseteq Structural /\ {"#"} \subseteq Structural
      /\ {"."} \subseteq Structural /\ {"_"} \subseteq Structural
  BY DEF Structural
<1>4. ~AposSuffix(s, i, j) /\ ~Backtick(s, i, j) /\ ~HashID(s, i, j)
  BY <1>2, <1>3 DEF AposSuffix, Backtick, HashID
<1>5. ~Camel(s, i, j)
  BY <1>2 DEF Camel
<1>6. \A m \in i..j : Gap(s[m]) => Calm(s[m]) /\ ~IsName(s[m]) /\ ~Reads(s[m], "mark", {"."})
  BY <1>3, CalmPiece DEF Gap
<1>7. \A m \in i..j : Calm(s[m]) => /\ ~Reads(s[m], "mark", {"."})
                                    /\ s[m].kind # "digits"
                                    /\ IsName(s[m]) => s[m].kind = "word"
  BY <1>3, CalmPiece
<1>8. \A m \in i..j : /\ IsWord(s[m]) => IsName(s[m])
                      /\ s[m].kind = "word" => IsAlnum(s[m])
  BY DEF IsName, IsWord, IsAlnum
<1>9. ~Dotted(s, i, j)
  BY <1>6, <1>7 DEF Dotted
<1>10. ~Snake(s, i, j)
  BY <1>6, <1>7, <1>8 DEF Snake
<1>11. ~AlnumID(s, i, j)
  <2> SUFFICES ASSUME j > i, \A m \in i..j : IsName(s[m]),
                      \/ s[i].kind = "word" /\ s[i+1].kind = "digits"
                      \/ s[i].kind = "word" /\ ~IsAlnum(s[i+1])
               PROVE  FALSE
    BY <1>2 DEF AlnumID
  <2>1. \A m \in i..j : Calm(s[m])
    BY <1>6
  <2>2. i + 1 \in i..j
    BY <1>1
  <2>3. s[i+1].kind = "word" /\ IsAlnum(s[i+1])
    BY <1>7, <1>8, <2>1, <2>2
  <2>4. QED  BY <2>3
<1>12. ~DateZH(s, i, j) /\ ~DateYMD(s, i, j) /\ ~DateSlash(s, i, j)
  BY <1>2 DEF DateZH, DateYMD, DateSlash, Day, Year
<1>13. ~ZHPhrase(s, i, j) /\ ~Amount(s, i, j)
  <2>1. (i - i) % 2 = 0
    BY <1>1
  <2>2. QED  BY <1>1, <1>2, <2>1 DEF ZHPhrase, Amount
<1>14. \A code \in Codes : ~FormOf(code, s, i, j)
  BY <1>1, <1>2, NoForm
<1>15. \A stage \in WordStages : ~Matches(stage, s, i, j)
  BY <1>4, <1>5, <1>9, <1>10, <1>11 DEF Matches, WordStages
<1>16. \A stage \in {"date zh", "date ymd", "date slash", "zh", "number"} : ~Matches(stage, s, i, j)
  BY <1>12, <1>13 DEF Matches
<1>17. \A stage \in Codes : ~Matches(stage, s, i, j)
  BY <1>14 DEF Matches, Codes
<1>18. QED  BY <1>15, <1>16, <1>17, StageCases

(***************************************************************************)
(* What the stages match from a piece without words on: those for words,   *)
(* Chinese dates and currencies nothing, the others nothing beyond the     *)
(* last one.                                                               *)
(***************************************************************************)
LEMMA PlainStart ==
  ASSUME NEW s, Len(s) \in Nat, NEW b, NEW e, Among(s, b, e), NEW i \in b..e, NEW j \in i..Len(s)
  PROVE  /\ \A stage \in WordStages \cup {"date zh"} \cup Codes : ~Matches(stage, s, i, j)
         /\ \A stage \in {"date ymd", "date slash", "zh", "number"} : Matches(stage, s, i, j) => j <= e
<1> DEFINE N == Len(s)
<1>1. /\ b \in 1..N /\ e \in b..N /\ N \in Nat
      /\ \A m \in b..e : s[m] \in Plain
      /\ \A m \in 1..N : m < b \/ e < m => Calm(s[m])
      /\ e < N => Gap(s[e+1])
  BY DEF Among
<1> HIDE DEF N
<1>2. /\ N \in Nat /\ b \in Nat /\ e \in Nat /\ i \in Nat /\ j \in Nat
      /\ 1 <= i /\ b <= i /\ i <= e /\ e <= N /\ i <= j /\ j <= N
      /\ i \in i..j /\ i \in 1..N /\ j \in 1..N
  BY <1>1 DEF N
<1>3. s[i].kind \in {"numeral", "digits", "mark"} /\ (s[i].kind = "mark" => s[i].is \in {".", ",", "/"})
  BY <1>1, PlainPiece
<1>4. /\ ~Reads(s[i], "mark", {"'"}) /\ ~Reads(s[i], "mark", {"backtick"})
      /\ ~Reads(s[i], "mark", {"#"}) /\ ~Reads(s[i], "mark", {"_"})
  BY <1>3 DEF Reads
<1>5. s[i].kind # "word" /\ s[i].kind # "han"
  BY <1>3
\* The piece after it.
<1>6. ASSUME j > i PROVE s[i+1].kind # "word" /\ (Reads(s[i+1], "han", {"year"}) => i = e)
  <2>1. i + 1 \in 1..N
    BY ONLY <1>2, <1>6
  <2>2. CASE i = e
    <3>1. e < N /\ Gap(s[i+1])
      BY <1>1, <1>2, <2>1, <2>2
    <3>2. QED  BY <2>2, <3>1 DEF Gap
  <2>3. CASE i # e
    <3>1. i + 1 \in b..e
      BY <1>2, <2>3
    <3>2. s[i+1].kind \in {"numeral", "digits", "mark"}
      BY <1>1, <3>1, PlainPiece
    <3>3. QED  BY <3>2 DEF Reads
  <2>4. QED  BY <2>2, <2>3
<1>7. ~AposSuffix(s, i, j) /\ ~Backtick(s, i, j) /\ ~HashID(s, i, j)
  BY <1>4 DEF AposSuffix, Backtick, HashID
<1>8. ~Dotted(s, i, j) /\ ~Snake(s, i, j) /\ ~Camel(s, i, j)
  BY <1>2, <1>4, <1>5 DEF Dotted, Snake, Camel
<1>9. ~AlnumID(s, i, j)
  BY <1>5, <1>6 DEF AlnumID
<1>10. ~DateZH(s, i, j)
  <2> SUFFICES ASSUME j = i + 5, Reads(s[i+1], "han", {"year"}) PROVE ~Day(s[i+2])
    BY DEF DateZH
  <2>1. i = e
    BY <1>2, <1>6
  <2>2. i + 2 \in 1..N /\ e < i + 2
    BY ONLY <1>2, <2>1, j = i + 5
  <2>3. s[i+2].kind # "digits"
    BY <1>1, <2>2, CalmPiece
  <2>4. QED  BY <2>3 DEF Day
<1>11. \A code \in Codes : ~FormOf(code, s, i, j)
  <2>1. CASE s[i].kind = "mark"
    <3>1. s[i].is \notin Heads
      BY <1>3, <2>1, HeadsAre
    <3>2. QED  BY <1>2, <3>1, NoForm
  <2>2. CASE s[i].kind # "mark"
    BY <1>2, <1>5, <2>2 DEF FormOf
  <2>3. QED  BY <2>1, <2>2
<1>12. ASSUME NEW stage \in WordStages \cup {"date zh"} \cup Codes PROVE ~Matches(stage, s, i, j)
  BY <1>7, <1>8, <1>9, <1>10, <1>11 DEF Matches, WordStages, Codes
\* What follows the last piece ends an amount, a numeral and a date.
<1>13. ASSUME j > e
       PROVE  /\ e + 1 \in i..j /\ s[e+1].kind # "digits" /\ s[e+1].kind # "numeral"
              /\ ~Reads(s[e+1], "mark", {".", ","}) /\ ~Reads(s[e+1], "mark", {"/", "."})
              /\ ~Reads(s[e+1], "mark", {"-", "/", "."})
  <2>1. e + 1 \in i..j /\ e + 1 \in 1..N /\ e < e + 1
    BY ONLY <1>2, <1>13
  <2>2. Calm(s[e+1])
    BY <1>1, <2>1
  <2>3. {".", ","} \subseteq Structural /\ {"/", "."} \subseteq Structural /\ {"-", "/", "."} \subseteq Structural
    BY DEF Structural
  <2>4. QED  BY <2>1, <2>2, <2>3, CalmPiece
<1>14. ASSUME j > e PROVE ~ZHPhrase(s, i, j) /\ ~Amount(s, i, j)
  BY <1>13, <1>14 DEF ZHPhrase, Amount
<1>15. ASSUME j > e PROVE ~DateYMD(s, i, j) /\ ~DateSlash(s, i, j)
  <2> SUFFICES ASSUME j = i + 4 PROVE ~DateYMD(s, i, j) /\ ~DateSlash(s, i, j)
    BY DEF DateYMD, DateSlash
  <2>1. e + 1 = i + 1 \/ e + 1 = i + 2 \/ e + 1 = i + 3 \/ e + 1 = j
    BY <1>2, <1>15
  <2>2. CASE e + 1 = i + 1 \/ e + 1 = i + 3
    BY <1>13, <1>15, <2>2 DEF DateYMD, DateSlash
  <2>3. CASE e + 1 = i + 2 \/ e + 1 = j
    BY <1>13, <1>15, <2>3 DEF DateYMD, DateSlash, Day, Year
  <2>4. QED  BY <2>1, <2>2, <2>3
<1>16. j > e \/ j <= e
  BY ONLY <1>2
<1>17. ASSUME NEW stage \in {"date ymd", "date slash", "zh", "number"}, Matches(stage, s, i, j) PROVE j <= e
  <2>1. ASSUME j > e PROVE FALSE
    BY <1>14, <1>15, <1>17, <2>1 DEF Matches
  <2>2. QED  BY ONLY <1>16, <2>1
<1>18. QED  BY <1>12, <1>17

(***************************************************************************)
(* A stage that matches s[b..e], nothing that starts elsewhere and nothing *)
(* longer there, matches that alone.                                       *)
(***************************************************************************)
LEMMA LoneSpan ==
  ASSUME NEW stage, NEW s, Len(s) \in Nat, NEW b \in 1..Len(s), NEW e \in b..Len(s),
         Matches(stage, s, b, e),
         \A i \in 1..Len(s) : \A j \in i..Len(s) : Matches(stage, s, i, j) => i \in b..e /\ j <= e
  PROVE  Spans(stage, s) = {<<b, e>>}
<1> DEFINE N == Len(s)  top == Max(Ends(stage, s, b))
<1>1. PICK r : MatchedFrom(r, stage, s, 1) /\ Spans(stage, s) = r[1]
  BY SpansAre
<1>2. r[N + 1] = {} /\ \A i \in 1..N : MatchedAt(r, stage, s, i)
  BY <1>1 DEF MatchedFrom
<1>3. b \in Nat /\ e \in Nat /\ N \in Nat /\ 1 <= b /\ b <= e /\ e <= N
  OBVIOUS
<1>4. top = e
  <2>1. e \in Ends(stage, s, b)
    BY DEF Ends
  <2>2. top \in b..N /\ e <= top
    BY <2>1, EndsWithin
  <2>3. top \in Ends(stage, s, b)
    <3>1. Ends(stage, s, b) \in SUBSET Int /\ Ends(stage, s, b) \subseteq b..N
      BY DEF Ends
    <3>2. b \in Int /\ N \in Int
      BY <1>3
    <3>3. IsFiniteSet(b..N)
      BY <3>2, FS_Interval
    <3>4. IsFiniteSet(Ends(stage, s, b))
      BY <3>1, <3>3, FS_Subset
    <3>5. QED  BY <2>1, <3>1, <3>4, MaxIs
  <2>4. top <= e
    BY <2>2, <2>3 DEF Ends
  <2> HIDE DEF top
  <2>5. QED  BY <1>3, <2>2, <2>4
<1>5. \A i \in 1..N : i \notin b..e => r[i] = r[i+1]
  <2> SUFFICES ASSUME NEW i \in 1..N, i \notin b..e PROVE r[i] = r[i+1]
    OBVIOUS
  <2>1. Ends(stage, s, i) = {}
    BY DEF Ends
  <2>2. QED  BY <1>2, <2>1 DEF MatchedAt
<1>6. r[b] = {<<b, e>>} \cup r[e + 1]
  <2>1. Ends(stage, s, b) # {}
    BY DEF Ends
  <2>2. QED  BY <1>2, <1>4, <2>1 DEF MatchedAt
<1> HIDE DEF N, top
<1>7. r[b] = r[1]
  <2>1. \A n \in (1+1)..b : n - 1 \in 1..N /\ n - 1 \notin b..e /\ (n - 1) + 1 = n
    BY <1>3
  <2>2. \A n \in (1+1)..b : r[n-1] = r[n]
    BY <1>5, <2>1
  <2>3. 1 \in Nat
    OBVIOUS
  <2>4. QED  BY <1>3, <2>2, <2>3, Unchanged
<1>8. r[N + 1] = r[e + 1]
  <2>1. \A n \in ((e+1)+1)..(N+1) : n - 1 \in 1..N /\ n - 1 \notin b..e /\ (n - 1) + 1 = n
    BY <1>3
  <2>2. \A n \in ((e+1)+1)..(N+1) : r[n-1] = r[n]
    BY <1>5, <2>1
  <2>3. e + 1 \in Nat /\ N + 1 \in Nat /\ e + 1 <= N + 1
    BY <1>3
  <2>4. QED  BY <2>2, <2>3, Unchanged
<1>9. QED  BY <1>1, <1>2, <1>6, <1>7, <1>8

\* What becomes of the m-th piece when s[b..e] becomes a space.
Piece(s, b, e, m) == IF m < b THEN s[m] ELSE IF m = b THEN Space ELSE s[m + (e - b)]

Blanked(s, b, e) == [m \in 1..(Len(s) - (e - b)) |-> Piece(s, b, e, m)]

(***************************************************************************)
(* A match that is consumed becomes one space, and the rest stays.         *)
(***************************************************************************)
LEMMA BlankIs ==
  ASSUME NEW S, NEW s \in Seq(S), NEW b \in 1..Len(s), NEW e \in b..Len(s)
  PROVE  Blank(s, {<<b, e>>}) = Blanked(s, b, e)
<1> DEFINE N == Len(s)
           L == N - (e - b)
           W == [m \in 1..L |-> Piece(s, b, e, m)]
           h == [m \in 1..N |-> IF m = b THEN <<Space>> ELSE IF m \in b..e THEN <<>> ELSE <<s[m]>>]
           To(n) == IF n < b THEN n ELSE IF n <= e THEN b ELSE n - (e - b)
           A == [n \in 1..N |-> [m \in 1..To(n) |-> W[m]]]
<1>1. /\ N \in Nat /\ b \in Nat /\ e \in Nat /\ 1 <= b /\ b <= e /\ e <= N /\ L \in Nat
      /\ \A m \in 1..N : s[m] \in S
  OBVIOUS
<1>2. Blank(s, {<<b, e>>}) = FlattenSeq(h)
  <2>1. \A span \in {<<b, e>>} : span[1] = b /\ span[2] = e
    OBVIOUS
  <2>2. \A m \in 1..N : /\ (\E span \in {<<b, e>>} : m = span[1]) <=> m = b
                        /\ (\E span \in {<<b, e>>} : m \in span[1]..span[2]) <=> m \in b..e
    BY <2>1
  <2>3. QED  BY <2>2 DEF Blank
<1>3. Len(h) = N /\ \A m \in 1..N : h[m] = IF m = b THEN <<Space>> ELSE IF m \in b..e THEN <<>> ELSE <<s[m]>>
  BY <1>1
<1>4. W \in [1..L -> S \cup {Space}]
  <2> SUFFICES ASSUME NEW m \in 1..L PROVE Piece(s, b, e, m) \in S \cup {Space}
    OBVIOUS
  <2>1. CASE m < b
    <3>1. m \in 1..N
      BY <1>1, <2>1
    <3>2. QED  BY <1>1, <2>1, <3>1 DEF Piece
  <2>2. CASE m = b
    BY <2>2 DEF Piece
  <2>3. CASE m > b
    <3>1. m + (e - b) \in 1..N /\ ~(m < b) /\ m # b
      BY <1>1, <2>3
    <3>2. QED  BY <1>1, <3>1 DEF Piece
  <2>4. QED  BY <1>1, <2>1, <2>2, <2>3
<1>5. \A m \in 1..L : W[m] = Piece(s, b, e, m)
  OBVIOUS
<1>6. \A n \in 1..N : A[n] = [m \in 1..To(n) |-> W[m]]
  OBVIOUS
<1> HIDE DEF N, L, W, h, A
<1>7. ASSUME NEW n \in 2..N PROVE A[n] = A[n-1] \o h[n]
  <2>1. n \in 1..N /\ n - 1 \in 1..N
    BY <1>1
  <2>2. CASE n \in (b+1)..e
    <3>1. To(n) = b /\ To(n-1) = b /\ n # b /\ n \in b..e
      BY <1>1, <2>2
    <3>2. h[n] = <<>>
      BY <1>3, <2>1, <3>1
    <3>3. A[n] = A[n-1]
      BY <1>6, <2>1, <3>1
    <3>4. A[n-1] \in Seq(S \cup {Space})
      <4>1. b \in 0..L
        BY <1>1 DEF L
      <4>2. [m \in 1..b |-> W[m]] \in Seq(S \cup {Space})
        BY <1>1, <1>4, <4>1, Prefix
      <4>3. QED  BY <1>6, <2>1, <3>1, <4>2
    <3>5. QED  BY <3>2, <3>3, <3>4
  <2>3. CASE n \notin (b+1)..e
    <3> DEFINE l == To(n-1)
    <3>1. l \in 0..(L-1) /\ To(n) = l + 1
      BY <1>1, <2>1, <2>3 DEF L
    <3>2. h[n] = <<Piece(s, b, e, To(n))>>
      <4>1. CASE n < b
        <5>1. n # b /\ n \notin b..e /\ To(n) = n
          BY <1>1, <4>1
        <5>2. QED  BY <1>3, <2>1, <4>1, <5>1 DEF Piece
      <4>2. CASE n = b
        <5>1. To(n) = b /\ ~(b < b)
          BY <1>1, <4>2
        <5>2. QED  BY <1>3, <2>1, <4>2, <5>1 DEF Piece
      <4>3. CASE n > e
        <5>1. n # b /\ n \notin b..e /\ To(n) + (e - b) = n /\ ~(To(n) < b) /\ To(n) # b
          BY <1>1, <2>1, <4>3
        <5>2. QED  BY <1>3, <2>1, <5>1 DEF Piece
      <4>4. QED  BY <1>1, <2>1, <2>3, <4>1, <4>2, <4>3
    <3> HIDE DEF l, To
    <3>3. l + 1 \in 1..L
      BY <1>1, <3>1
    <3>4. h[n] = <<W[l+1]>>
      BY <1>5, <3>1, <3>2, <3>3
    <3>5. [m \in 1..l |-> W[m]] \o <<W[l+1]>> = [m \in 1..(l+1) |-> W[m]]
      BY <1>1, <1>4, <3>1, OneMore
    <3>6. QED  BY <1>6, <2>1, <3>1, <3>4, <3>5 DEF l
  <2>4. QED  BY <2>2, <2>3
<1>8. A[1] = h[1]
  <2>1. 1 \in 1..N /\ To(1) = 1 /\ 1 \in 1..L
    BY <1>1 DEF L
  <2>2. A[1] = [m \in {1} |-> W[1]]
    <3>1. 1..1 = {1}
      OBVIOUS
    <3>2. A[1] = [m \in {1} |-> W[m]]
      BY <1>6, <2>1, <3>1
    <3>3. QED  BY <3>2
  <2>3. \A x : <<x>> = [m \in {1} |-> x]
    OBVIOUS
  <2>4. h[1] = <<W[1]>>
    <3>1. CASE b = 1
      BY <1>3, <1>5, <2>1, <3>1 DEF Piece
    <3>2. CASE b # 1
      <4>1. 1 \notin b..e /\ 1 < b
        BY <1>1, <3>2
      <4>2. QED  BY <1>3, <1>5, <2>1, <3>2, <4>1 DEF Piece
    <3>3. QED  BY <3>1, <3>2
  <2>5. QED  BY <2>2, <2>3, <2>4
<1>9. FlattenSeq(h) = A[N]
  <2>1. A[1] = h[1] /\ N \in Nat /\ N = Len(h) /\ N >= 1
    BY <1>1, <1>3, <1>8
  <2>2. \A n \in 2..N : A[n] = A[n-1] \o h[n]
    BY <1>7
  <2>3. QED  BY ONLY <2>1, <2>2, FlatIs, ZenonT(60)
<1>10. A[N] = [m \in 1..L |-> W[m]]
  <2>1. N \in 1..N /\ To(N) = L
    BY <1>1 DEF L
  <2>2. QED  BY <1>6, <2>1
<1>11. QED  BY <1>2, <1>5, <1>9, <1>10 DEF Blanked, L, N

(***************************************************************************)
(* A stage that matches s[b..e] alone and takes it leaves the rest of the  *)
(* text and a space, and finds what it reads there.                        *)
(***************************************************************************)
LEMMA LoneTaken ==
  ASSUME NEW stage, NEW label, NEW S, NEW s \in Seq(S), NEW b \in 1..Len(s), NEW e \in b..Len(s),
         Spans(stage, s) = {<<b, e>>}, Taken(stage, s, <<b, e>>, label)
  PROVE  Consume(stage, [rest |-> s, found |-> {}], label)
           = [rest |-> Blanked(s, b, e), found |-> TokensOf(stage, SubSeq(s, b, e), label)]
<1> DEFINE acc == [rest |-> s, found |-> {}]  span == <<b, e>>
<1>1. span[1] = b /\ span[2] = e
  OBVIOUS
<1>2. acc.rest = s /\ acc.found = {}
  OBVIOUS
<1>3. Blank(s, {span}) = Blanked(s, b, e)
  BY BlankIs
<1> HIDE DEF acc, span
<1>4. {p \in Spans(stage, acc.rest) : Taken(stage, acc.rest, p, label)} = {span}
  BY <1>2 DEF span
<1>5. Consume(stage, acc, label)
        = [rest |-> Blank(s, {span}), found |-> {} \cup UNION {TokensOf(stage, SubSeq(s, b, e), label)}]
  <2>1. {TokensOf(stage, SubSeq(acc.rest, p[1], p[2]), label) : p \in {span}} = {TokensOf(stage, SubSeq(s, b, e), label)}
    BY <1>1, <1>2
  <2>2. QED  BY <1>2, <1>4, <2>1 DEF Consume
<1>6. QED  BY <1>3, <1>5 DEF acc

(***************************************************************************)
(* What is left of a text when its part without words is consumed is calm. *)
(***************************************************************************)
LEMMA RestIsCalm ==
  ASSUME NEW S, NEW s \in Seq(S), NEW b, NEW e, Among(s, b, e)
  PROVE  LET w == Blanked(s, b, e)
         IN w \in Seq(S \cup {Space}) /\ Len(w) >= 1 /\ \A m \in 1..Len(w) : Calm(w[m])
<1> DEFINE N == Len(s)  L == N - (e - b)  w == Blanked(s, b, e)
<1>1. /\ b \in 1..N /\ e \in b..N /\ N \in Nat /\ (\A m \in 1..N : s[m] \in S)
      /\ \A m \in 1..N : m < b \/ e < m => Calm(s[m])
  BY DEF Among
<1>2. /\ L \in Nat /\ L >= 1 /\ b \in Nat /\ e \in Nat /\ b <= e /\ 1 <= b /\ e <= N
      /\ N \in Nat /\ L = N - (e - b)
  BY <1>1
<1>3. w = [m \in 1..L |-> Piece(s, b, e, m)]
  BY DEF Blanked
<1> HIDE DEF N, L, w
<1>4. ASSUME NEW m \in 1..L PROVE Piece(s, b, e, m) \in S \cup {Space} /\ Calm(Piece(s, b, e, m))
  <2>1. CASE m < b
    <3>1. m \in 1..N
      BY ONLY <1>2, <2>1, m \in 1..L
    <3>2. QED  BY <1>1, <2>1, <3>1 DEF Piece
  <2>2. CASE m = b
    <3>1. Piece(s, b, e, m) = Space
      BY <1>2, <2>2 DEF Piece
    <3>2. QED  BY <3>1, SpaceIsCalm
  <2>3. CASE m > b
    <3>1. m + (e - b) \in 1..N /\ e < m + (e - b) /\ ~(m < b) /\ m # b
      BY ONLY <1>2, <2>3, m \in 1..L
    <3>2. Piece(s, b, e, m) = s[m + (e - b)]
      BY <3>1 DEF Piece
    <3>3. QED  BY <1>1, <3>1, <3>2
  <2>4. QED  BY <1>2, <2>1, <2>2, <2>3
<1>5. w \in [1..L -> S \cup {Space}] /\ \A m \in 1..L : Calm(w[m])
  BY <1>3, <1>4
<1>6. w \in Seq(S \cup {Space}) /\ Len(w) = L
  BY <1>2, <1>3, <1>5
<1>7. QED  BY <1>2, <1>5, <1>6 DEF w

(***************************************************************************)
(* A text in which one stage takes all that has no words, and no earlier   *)
(* stage a part of it, is read as that stage reads it and as nothing else: *)
(* the words around it make no token, nor does what is left (Extract).     *)
(***************************************************************************)
LEMMA OneToken ==
  ASSUME NEW S, NEW s \in Seq(S), NEW b, NEW e, Among(s, b, e), NEW label,
         NEW n \in 9..12,
         \A m \in 9..(n-1) : \A i \in b..e : \A j \in i..e :
           Matches(AllStages[m], s, i, j) => ~Taken(AllStages[m], s, <<i, j>>, label),
         Matches(AllStages[n], s, b, e), Taken(AllStages[n], s, <<b, e>>, label)
  PROVE  Extracted(s, label) = TokensOf(AllStages[n], SubSeq(s, b, e), label)
<1> DEFINE N == Len(s)
           f == Reading(s, label)
           F == TokensOf(AllStages[n], SubSeq(s, b, e), label)
           w == Blanked(s, b, e)
           start == [rest |-> s, found |-> {}]
           end == [rest |-> w, found |-> F]
<1>1. /\ b \in 1..N /\ e \in b..N /\ N \in Nat
      /\ \A m \in 1..N : m < b \/ e < m => Calm(s[m])
      /\ b > 1 => Gap(s[b-1])
  BY DEF Among
<1>2. b \in Nat /\ e \in Nat /\ b <= e /\ 1 <= b /\ e <= N /\ N >= 1
  BY <1>1
<1> HIDE DEF N
<1>3. ASSUME NEW m \in 1..18, NEW i \in 1..N, NEW j \in i..N, i \notin b..e
      PROVE  ~Matches(AllStages[m], s, i, j)
  <2>1. i \in Nat /\ j \in Nat /\ i <= j /\ j <= N /\ 1 <= i /\ (i < b \/ e < i)
    BY <1>2, <1>3
  <2>2. Calm(s[i])
    BY <1>1, <2>1
  <2>3. (\A q \in i..j : Calm(s[q])) \/ (\E q \in i..j : Gap(s[q]))
    <3>1. CASE i < b /\ j >= b
      <4>1. b > 1 /\ b - 1 \in i..j
        BY <1>2, <2>1, <3>1
      <4>2. QED  BY <1>1, <4>1
    <3>2. CASE i > e \/ j < b
      <4>1. ASSUME NEW q \in i..j PROVE q \in 1..N /\ (q < b \/ e < q)
        BY ONLY <1>1, <1>2, <2>1, <3>2, q \in i..j
      <4>2. QED  BY <1>1, <4>1
    <3>3. QED  BY <1>2, <2>1, <3>1, <3>2
  <2>4. QED  BY <2>2, <2>3, QuietMatch, <1>1 DEF N
<1>4. ASSUME NEW m \in 1..(n-1), NEW i \in 1..N, NEW j \in i..N
      PROVE  Matches(AllStages[m], s, i, j) => ~Taken(AllStages[m], s, <<i, j>>, label)
  <2>1. m \in 1..18 /\ (m \in 1..8 \/ m \in 9..(n-1)) /\ m <= 11
    OBVIOUS
  <2>2. CASE i \notin b..e
    BY <1>3, <2>1, <2>2
  <2>3. CASE i \in b..e /\ m \in 1..8
    <3>1. AllStages[m] \in WordStages \cup {"date zh"}
      <4>1. m \in 1..7 \/ m = 8
        BY ONLY <2>3
      <4>2. QED  BY ONLY <4>1, StageOrder
    <3>2. QED  BY <1>1, <2>3, <3>1, PlainStart DEF N
  <2>4. CASE i \in b..e /\ m \in 9..(n-1)
    <3>1. AllStages[m] \in {"date ymd", "date slash", "zh", "number"}
      <4>1. m = 9 \/ m = 10 \/ m = 11
        BY ONLY <2>1, <2>4
      <4>2. QED  BY ONLY <4>1, StageOrder
    <3>2. Matches(AllStages[m], s, i, j) => j <= e
      BY <1>1, <2>4, <3>1, PlainStart DEF N
    <3>3. j <= e => j \in i..e
      BY <1>2, <2>4
    <3>4. QED  BY <2>4, <3>2, <3>3
  <2>5. QED  BY <2>1, <2>2, <2>3, <2>4
<1>5. \A m \in 1..(n-1) : Consume(AllStages[m], start, label) = start
  BY <1>2, <1>4, NothingTaken DEF N
<1>6. Consume(AllStages[n], start, label) = end
  <2>1. n \in 1..18 /\ AllStages[n] \in {"date ymd", "date slash", "zh", "number"}
    <3>1. n = 9 \/ n = 10 \/ n = 11 \/ n = 12
      OBVIOUS
    <3>2. AllStages[n] \in {"date ymd", "date slash", "zh", "number"}
      BY ONLY <3>1, StageOrder
    <3>3. n \in 1..18
      OBVIOUS
    <3>4. QED  BY <3>2, <3>3
  <2>2. ASSUME NEW i \in 1..N, NEW j \in i..N, Matches(AllStages[n], s, i, j)
        PROVE  i \in b..e /\ j <= e
    <3>1. i \in b..e
      BY <1>3, <2>1, <2>2
    <3>2. QED  BY <1>1, <2>1, <2>2, <3>1, PlainStart DEF N
  <2>3. Spans(AllStages[n], s) = {<<b, e>>}
    BY <1>1, <2>2, LoneSpan DEF N
  <2>4. /\ s \in Seq(S) /\ b \in 1..Len(s) /\ e \in b..Len(s)
        /\ Taken(AllStages[n], s, <<b, e>>, label)
    BY <1>1 DEF N
  <2>5. Consume(AllStages[n], [rest |-> s, found |-> {}], label)
          = [rest |-> Blanked(s, b, e), found |-> TokensOf(AllStages[n], SubSeq(s, b, e), label)]
    BY ONLY <2>3, <2>4, LoneTaken
  <2>6. QED  BY ONLY <2>5
<1>7. w \in Seq(S \cup {Space}) /\ Len(w) >= 1 /\ \A m \in 1..Len(w) : Calm(w[m])
  BY RestIsCalm
<1> HIDE DEF w, F
<1>8. \A m \in 1..18 : Consume(AllStages[m], end, label) = end
  <2> SUFFICES ASSUME NEW m \in 1..18 PROVE Consume(AllStages[m], end, label) = end
    OBVIOUS
  <2>1. ASSUME NEW i \in 1..Len(w), NEW j \in i..Len(w) PROVE ~Matches(AllStages[m], w, i, j)
    <3>1. Len(w) \in Nat /\ \A q \in i..j : q \in 1..Len(w)
      BY <1>7
    <3>2. QED  BY <1>7, <3>1, QuietMatch
  <2>2. QED  BY <1>7, <2>1, NothingTaken
<1>9. f[0] = start /\ \A m \in 1..18 : f[m] = Consume(AllStages[m], f[m-1], label)
  <2>1. Staged(f, 18, s, label)
    BY ReadingIs, StageOrder
  <2> HIDE DEF f
  <2>2. QED  BY <2>1 DEF Staged
<1> HIDE DEF f, start, end
<1>10. f[n-1] = start
  <2>1. \A m \in (0+1)..(n-1) : f[m-1] = f[0] => f[m] = f[0]
    <3>1. \A m \in (0+1)..(n-1) : m \in 1..(n-1) /\ m \in 1..18
      OBVIOUS
    <3>2. QED  BY <1>5, <1>9, <3>1
  <2>2. n - 1 \in Nat /\ 0 <= n - 1
    OBVIOUS
  <2>3. f[n-1] = f[0]
    BY <2>1, <2>2, Unchanged
  <2>4. QED  BY <1>9, <2>3
<1>11. f[n] = end
  <2>1. n \in 1..18
    OBVIOUS
  <2>2. f[n] = Consume(AllStages[n], f[n-1], label)
    BY <1>9, <2>1
  <2>3. QED  BY <1>6, <1>10, <2>2
<1>12. f[18] = end
  <2>1. \A m \in (n+1)..18 : f[m-1] = f[n] => f[m] = f[n]
    <3>1. \A m \in (n+1)..18 : m \in 1..18
      OBVIOUS
    <3>2. QED  BY <1>8, <1>9, <1>11, <3>1
  <2>2. n \in Nat /\ 18 \in Nat /\ n <= 18
    OBVIOUS
  <2>3. f[18] = f[n]
    BY ONLY <2>1, <2>2, Unchanged, Zenon
  <2>4. QED  BY <1>11, <2>3
<1>13. Extracted(s, label) = f[18].found
  BY StageOrder DEF Extracted, f
<1>14. QED  BY <1>12, <1>13 DEF end, F

\* The pieces p stand in the text s from o on, and the rest of it is calm.
Stands(s, o, p) ==
  Among(s, o, o + Len(p) - 1) /\ \A m \in 1..Len(p) : s[o + m - 1] = p[m]

(***************************************************************************)
(* Where the pieces stand.                                                 *)
(***************************************************************************)
LEMMA StandsAt ==
  ASSUME NEW S, NEW s \in Seq(S), NEW T, NEW p \in Seq(T), Len(p) >= 1, NEW o, Stands(s, o, p)
  PROVE  LET e == o + Len(p) - 1
         IN /\ o \in 1..Len(s) /\ e \in o..Len(s)
            /\ \A m \in o..e : m - o + 1 \in 1..Len(p) /\ s[m] = p[m - o + 1]
            /\ SubSeq(s, o, e) = p
<1> DEFINE N == Len(p)  e == o + N - 1
<1>1. o \in 1..Len(s) /\ e \in o..Len(s) /\ \A m \in 1..N : s[o + m - 1] = p[m]
  BY DEF Stands, Among
<1>2. o \in Nat /\ N \in Nat /\ N >= 1 /\ p = [m \in 1..N |-> p[m]]
  BY <1>1
<1>3. SubSeq(s, o, e) = [m \in 1..(e - o + 1) |-> s[o + m - 1]]
  BY <1>1
<1> HIDE DEF N
<1>4. ASSUME NEW m \in o..e PROVE m - o + 1 \in 1..N /\ s[m] = p[m - o + 1]
  <2> DEFINE q == m - o + 1
  <2>1. q \in 1..N /\ o + q - 1 = m
    BY <1>2
  <2> HIDE DEF q
  <2>2. s[m] = p[q]
    BY <1>1, <2>1
  <2>3. QED  BY <2>1, <2>2 DEF q
<1>5. e - o + 1 = N
  BY <1>2
<1>6. SubSeq(s, o, e) = p
  BY <1>1, <1>2, <1>3, <1>5
<1>7. QED  BY <1>1, <1>4, <1>6 DEF N

(***************************************************************************)
(* In a prompt with one Chinese numeral among words the guard reads one    *)
(* number, that of the numeral if float64 holds it, under every label: no  *)
(* earlier stage takes a part of it, and nothing of it is left to a later  *)
(* one (Extract).                                                          *)
(***************************************************************************)
THEOREM NumeralIsOneNumber ==
  ASSUME NEW S, NEW s \in Seq(S), NEW p \in Seq(Runes), Len(p) >= 1, ParseZHNumber(p) < Exact,
         NEW o, Stands(s, o, p), NEW label
  PROVE  Extracted(s, label) = {Token("number", Number(ParseZHNumber(p), 0))}
<1> DEFINE N == Len(p)  e == o + N - 1
<1>1. /\ o \in 1..Len(s) /\ e \in o..Len(s) /\ SubSeq(s, o, e) = p
      /\ \A m \in o..e : m - o + 1 \in 1..N /\ s[m] = p[m - o + 1]
  BY StandsAt
<1>2. Among(s, o, e)
  BY DEF Stands
<1>3. \A m \in 1..N : p[m].kind = "numeral"
  <2>1. \A m \in 1..N : p[m] \in Runes
    OBVIOUS
  <2>2. \A q \in Runes : q.kind = "numeral"
    BY DEF Runes
  <2>3. QED  BY <2>1, <2>2
<1> HIDE DEF N
<1>4. o \in Nat /\ e \in Nat /\ o <= e /\ N \in Nat /\ N >= 1
  BY <1>1 DEF N
<1> HIDE DEF e
<1>5. \A m \in o..e : s[m].kind = "numeral"
  BY <1>1, <1>3
<1>6. ASSUME NEW i \in o..e, NEW j \in i..e
      PROVE  ~Matches("date ymd", s, i, j) /\ ~Matches("date slash", s, i, j)
  <2>1. s[i].kind # "digits"
    BY <1>5
  <2>2. QED  BY <2>1 DEF Matches, DateYMD, DateSlash, Year, Day
<1>7. ASSUME NEW m \in 9..10, NEW i \in o..e, NEW j \in i..e PROVE ~Matches(AllStages[m], s, i, j)
  <2>1. m = 9 \/ m = 10
    OBVIOUS
  <2>2. AllStages[m] = "date ymd" \/ AllStages[m] = "date slash"
    BY ONLY <2>1, StageOrder
  <2>3. QED  BY <1>6, <2>2
<1>8. Matches("zh", s, o, e)
  BY <1>5 DEF Matches, ZHPhrase
<1>9. Taken("zh", s, <<o, e>>, label)
  <2>1. \E q \in Range(p) : q.kind = "numeral"
    <3>1. 1 \in DOMAIN p /\ p[1].kind = "numeral"
      BY <1>3, <1>4 DEF N
    <3>2. QED  BY <3>1 DEF Range
  <2>2. ~IsArticle(s, <<o, e>>)
    BY <1>2 DEF IsArticle, Among, Gap
  <2>3. QED  BY <1>1, <2>1, <2>2 DEF Taken
<1>10. Extracted(s, label) = TokensOf("zh", p, label)
  <2>1. AllStages[11] = "zh"
    BY ONLY StageOrder
  <2>2. 11 \in 9..12 /\ 11 - 1 = 10
    OBVIOUS
  <2>3. Extracted(s, label) = TokensOf(AllStages[11], SubSeq(s, o, e), label)
    BY <1>2, <1>7, <1>8, <1>9, <2>1, <2>2, OneToken
  <2>4. QED  BY <1>1, <2>1, <2>3
<1>11. QED  BY <1>10 DEF TokensOf, ZHValue

(***************************************************************************)
(* A slashed date is taken whole where the stage before it matches no      *)
(* part of it.                                                             *)
(***************************************************************************)
LEMMA OneSlashed ==
  ASSUME NEW S, NEW s \in Seq(S), NEW o, NEW e, Among(s, o, e), NEW label,
         \A i \in o..e : \A j \in i..e : ~Matches("date ymd", s, i, j),
         Matches("date slash", s, o, e), Taken("date slash", s, <<o, e>>, label)
  PROVE  Extracted(s, label) = TokensOf("date slash", SubSeq(s, o, e), label)
<1>1. AllStages[9] = "date ymd" /\ AllStages[10] = "date slash"
  BY ONLY StageOrder
<1>2. ASSUME NEW m \in 9..9, NEW i \in o..e, NEW j \in i..e PROVE ~Matches(AllStages[m], s, i, j)
  <2>1. m = 9
    BY ONLY m \in 9..9
  <2>2. QED  BY <1>1, <2>1
<1>3. 10 \in 9..12 /\ 10 - 1 = 9
  BY ONLY SMT
<1>4. /\ s \in Seq(S) /\ Among(s, o, e)
      /\ Matches(AllStages[10], s, o, e) /\ Taken(AllStages[10], s, <<o, e>>, label)
  BY <1>1
<1>5. Extracted(s, label) = TokensOf(AllStages[10], SubSeq(s, o, e), label)
  BY ONLY <1>2, <1>3, <1>4, OneToken
<1>6. QED  BY <1>1, <1>5

(***************************************************************************)
(* Five pieces that make a slashed date are read as it, and nothing else.  *)
(***************************************************************************)
LEMMA SlashedIsOneDate ==
  ASSUME NEW a, NEW b, NEW c, a \in DigitRuns, b \in DigitRuns, c \in DigitRuns,
         a.length <= 2, b.length <= 2, c.length = 4,
         NEW x, NEW y, x = "/" \/ x = ".", y = "/" \/ y = ".",
         NEW label, IsDate(SlashDate(a.n, b.n, c.n, label)),
         NEW S, NEW s \in Seq(S), NEW o, Stands(s, o, <<a, Sign(x), b, Sign(y), c>>)
  PROVE  Extracted(s, label) = {Token("date", SlashDate(a.n, b.n, c.n, label))}
<1> DEFINE p == <<a, Sign(x), b, Sign(y), c>>  e == o + 4
<1>1. a \in Plain /\ b \in Plain /\ c \in Plain /\ Sign(x) \in Plain /\ Sign(y) \in Plain
  BY PlainParts
<1>2. /\ p \in Seq(Plain) /\ Len(p) = 5
      /\ p[1] = a /\ p[2] = Sign(x) /\ p[3] = b /\ p[4] = Sign(y) /\ p[5] = c
  BY <1>1
<1>3. Stands(s, o, p)
  OBVIOUS
<1> HIDE DEF p
<1>4. /\ o \in 1..Len(s) /\ o + Len(p) - 1 \in o..Len(s) /\ SubSeq(s, o, o + Len(p) - 1) = p
      /\ Among(s, o, o + Len(p) - 1) /\ \A m \in 1..Len(p) : s[o + m - 1] = p[m]
  <2>1. Len(p) >= 1
    BY <1>2
  <2>2. Among(s, o, o + Len(p) - 1) /\ \A m \in 1..Len(p) : s[o + m - 1] = p[m]
    BY <1>3 DEF Stands
  <2>3. /\ o \in 1..Len(s) /\ o + Len(p) - 1 \in o..Len(s)
        /\ SubSeq(s, o, o + Len(p) - 1) = p
    BY <1>2, <1>3, <2>1, StandsAt
  <2>4. QED  BY ONLY <2>2, <2>3
<1>5. o + Len(p) - 1 = e /\ o \in Nat /\ e \in Nat
  BY <1>2, <1>4
<1>6. o \in 1..Len(s) /\ e \in o..Len(s) /\ SubSeq(s, o, e) = p /\ Among(s, o, e)
  BY <1>4, <1>5
<1>7. s[o] = a /\ s[o+1] = Sign(x) /\ s[o+2] = b /\ s[o+3] = Sign(y) /\ s[e] = c
  <2>1. 1 \in 1..5 /\ 2 \in 1..5 /\ 3 \in 1..5 /\ 4 \in 1..5 /\ 5 \in 1..5
    OBVIOUS
  <2>2. s[o + 1 - 1] = a /\ s[o + 2 - 1] = Sign(x) /\ s[o + 3 - 1] = b /\ s[o + 4 - 1] = Sign(y) /\ s[o + 5 - 1] = c
    BY <1>2, <1>4, <2>1
  <2>3. o + 1 - 1 = o /\ o + 2 - 1 = o + 1 /\ o + 3 - 1 = o + 2 /\ o + 4 - 1 = o + 3 /\ o + 5 - 1 = e
    BY <1>5
  <2>4. QED  BY <2>2, <2>3
<1>8. a.kind = "digits" /\ b.kind = "digits" /\ c.kind = "digits"
  BY DEF DigitRuns
<1>9. ASSUME NEW i \in o..e, NEW j \in i..e PROVE ~Matches("date ymd", s, i, j)
  <2> SUFFICES ASSUME j = i + 4 PROVE ~Year(s[i])
    BY DEF Matches, DateYMD
  <2>1. i = o
    BY <1>5
  <2>2. QED  BY <1>7, <2>1 DEF Year
<1>10. Matches("date slash", s, o, e)
  <2>1. Day(s[o]) /\ Day(s[o+2]) /\ Year(s[e])
    BY <1>7, <1>8 DEF Day, Year
  <2>2. Reads(s[o+1], "mark", {"/", "."}) /\ Reads(s[o+3], "mark", {"/", "."})
    BY <1>7 DEF Reads, Sign
  <2>3. \A q : Gap(q) => ~IsWord(q)
    BY CalmPiece DEF Gap, IsName
  <2>4. (o > 1 => Gap(s[o-1])) /\ (e < Len(s) => Gap(s[e+1]))
    BY <1>6 DEF Among
  <2>5. StartsWord(s, o)
    BY <1>6, <2>3, <2>4 DEF StartsWord
  <2>6. EndsWord(s, e)
    <3>1. IsWord(s[e])
      BY <1>7, <1>8 DEF IsWord, IsAlnum
    <3>2. QED  BY <1>6, <2>3, <2>4, <3>1 DEF EndsWord
  <2>7. DateSlash(s, o, e)
    BY <2>1, <2>2, <2>5, <2>6 DEF DateSlash
  <2>8. QED  BY <2>7 DEF Matches
<1>11. DateOf("date slash", p, label) = SlashDate(a.n, b.n, c.n, label)
  BY <1>2 DEF DateOf
<1>12. Taken("date slash", s, <<o, e>>, label)
  <2>1. Taken("date slash", s, <<o, e>>, label) <=> IsDate(DateOf("date slash", SubSeq(s, o, e), label))
    BY DEF Taken
  <2>2. QED  BY <1>6, <1>11, <2>1
<1>13. Extracted(s, label) = TokensOf("date slash", p, label)
  <2>1. Extracted(s, label) = TokensOf("date slash", SubSeq(s, o, e), label)
    BY <1>6, <1>9, <1>10, <1>12, OneSlashed
  <2>2. QED  BY <1>6, <2>1
<1>14. TokensOf("date slash", p, label) = {Token("date", DateOf("date slash", p, label))}
  BY DEF TokensOf
<1>15. QED  BY <1>11, <1>13, <1>14

\* A day the guard takes for one, and what divides its components.
Dated(year, month, day) == year \in 1900..2100 /\ month \in 1..12 /\ day \in 1..31
Divides(mark) == mark = "/" \/ mark = "."

\* A slashed date as the writers of a language put it: month first in English,
\* day first in every other one; a component has one digit or two.
WrittenDate(s, year, month, day, label) ==
  LET first  == IF label = "en" THEN month ELSE day
      second == IF label = "en" THEN day ELSE month
  IN \E len1, len2, mark1, mark2 :
       /\ len1 \in 1..2 /\ len2 \in 1..2 /\ Divides(mark1) /\ Divides(mark2)
       /\ s = <<Digits(first, len1), Sign(mark1), Digits(second, len2), Sign(mark2), Digits(year, 4)>>

(***************************************************************************)
(* In a prompt with one slashed date among words the guard reads one date  *)
(* under its writer's label, the one its writer meant, also where both     *)
(* components could be months (consumeDates, isoDate).                     *)
(***************************************************************************)
THEOREM DateIsOneDate ==
  ASSUME NEW S, NEW s \in Seq(S), NEW p, NEW label, NEW year, NEW month, NEW day,
         Dated(year, month, day), WrittenDate(p, year, month, day, label), NEW o, Stands(s, o, p)
  PROVE  Extracted(s, label) = {Token("date", Date(year, month, day))}
<1> DEFINE first  == IF label = "en" THEN month ELSE day
           second == IF label = "en" THEN day ELSE month
<1>1. PICK len1, len2, mark1, mark2 :
        /\ len1 \in 1..2 /\ len2 \in 1..2 /\ Divides(mark1) /\ Divides(mark2)
        /\ p = <<Digits(first, len1), Sign(mark1), Digits(second, len2), Sign(mark2), Digits(year, 4)>>
  BY DEF WrittenDate
<1> DEFINE a == Digits(first, len1)  b == Digits(second, len2)  c == Digits(year, 4)
<1>2. /\ first \in Nat /\ second \in Nat /\ year \in Nat
      /\ len1 \in Nat /\ len2 \in Nat /\ len1 <= 2 /\ len2 <= 2
  BY <1>1 DEF Dated
<1>3. SlashDate(first, second, year, label) = Date(year, month, day)
  <2>1. CASE label = "en"
    BY <2>1 DEF SlashDate, MonthFirst, Dated
  <2>2. CASE label # "en"
    BY <2>2 DEF SlashDate, MonthFirst, Dated
  <2>3. QED  BY <2>1, <2>2
<1>4. IsDate(Date(year, month, day))
  BY DEF IsDate, Date, Dated
<1> HIDE DEF first, second
<1>5. a \in DigitRuns /\ b \in DigitRuns /\ c \in DigitRuns
  BY <1>2 DEF DigitRuns, Digits
<1>6. a.length <= 2 /\ a.n = first /\ b.length <= 2 /\ b.n = second /\ c.length = 4 /\ c.n = year
  BY <1>2 DEF Digits
<1> HIDE DEF a, b, c
<1>7. p = <<a, Sign(mark1), b, Sign(mark2), c>>
  BY <1>1 DEF a, b, c
<1>8. (mark1 = "/" \/ mark1 = ".") /\ (mark2 = "/" \/ mark2 = ".")
  BY <1>1 DEF Divides
<1>9. QED  BY <1>3, <1>4, <1>5, <1>6, <1>7, <1>8, SlashedIsOneDate

\* The mark that is not the thousands separator.
DecimalMark(label) == IF Thousands(label) = "." THEN "," ELSE "."

\* An amount as the writers of a language put it: digits in one run, or in
\* groups of three from the right; and perhaps a fraction.
WrittenAmount(s, whole, fraction, label) ==
  /\ whole \in Seq(DigitRuns) /\ Len(whole) >= 1
  /\ Len(whole) > 1 => whole[1].length <= 3 /\ \A m \in 2..Len(whole) : whole[m].length = 3
  /\ fraction \in Seq(DigitRuns) /\ Len(fraction) <= 1
  /\ s \in Seq(Plain) /\ Len(s) = 2 * (Len(whole) + Len(fraction)) - 1
  /\ \A m \in 1..Len(whole) : s[2*m-1] = whole[m]
  /\ \A m \in 1..(Len(whole) - 1) : s[2*m] = Sign(Thousands(label))
  /\ Len(fraction) = 1 => /\ s[2*Len(whole)] = Sign(DecimalMark(label))
                          /\ s[2*Len(whole)+1] = fraction[1] /\ fraction[1].length <= 3

Value(whole, fraction) ==
  Number(Run(whole), IF Len(fraction) = 0 THEN 0 ELSE Fraction(fraction[1]))

(***************************************************************************)
(* How long an amount and its parts are.                                   *)
(***************************************************************************)
LEMMA AmountLengths ==
  ASSUME NEW s, NEW whole, NEW fraction, NEW label, WrittenAmount(s, whole, fraction, label)
  PROVE  /\ whole \in Seq(DigitRuns) /\ fraction \in Seq(DigitRuns) /\ s \in Seq(Plain)
         /\ Len(whole) \in Nat /\ Len(whole) >= 1
         /\ Len(fraction) \in Nat /\ (Len(fraction) = 0 \/ Len(fraction) = 1)
         /\ Len(s) \in Nat /\ Len(s) = 2 * (Len(whole) + Len(fraction)) - 1
<1>1. /\ whole \in Seq(DigitRuns) /\ fraction \in Seq(DigitRuns) /\ s \in Seq(Plain)
      /\ Len(whole) >= 1 /\ Len(fraction) <= 1
      /\ Len(s) = 2 * (Len(whole) + Len(fraction)) - 1
  BY DEF WrittenAmount
<1>2. Len(whole) \in Nat
  BY ONLY <1>1
<1>3. Len(fraction) \in Nat
  BY ONLY <1>1
<1>4. Len(s) \in Nat
  BY ONLY <1>1
<1>5. Len(fraction) = 0 \/ Len(fraction) = 1
  <2>1. \A x \in Nat : x <= 1 => x = 0 \/ x = 1
    OBVIOUS
  <2>2. QED  BY ONLY <1>1, <1>3, <2>1, Zenon
<1>6. QED  BY ONLY <1>1, <1>2, <1>3, <1>4, <1>5

(***************************************************************************)
(* The groups and separators of an amount.                                 *)
(***************************************************************************)
LEMMA AmountParts ==
  ASSUME NEW s, NEW n \in Nat, n >= 1, Len(s) = 2 * n - 1
  PROVE  /\ AmountOf(s).groups = [m \in 1..n |-> s[2*m-1]]
         /\ AmountOf(s).seps = [m \in 1..(n-1) |-> s[2*m].is]
<1>1. (Len(s) + 1) \div 2 = n /\ Len(s) \div 2 = n - 1
  OBVIOUS
<1>2. QED  BY <1>1 DEF AmountOf

(***************************************************************************)
(* An amount spells under its writer's label what its writer meant, with   *)
(* either convention (normalizeNumber, isGrouped).                         *)
(***************************************************************************)
LEMMA AmountIsItsValue ==
  ASSUME NEW s, NEW whole, NEW fraction, NEW label, WrittenAmount(s, whole, fraction, label)
  PROVE  Spelled(AmountOf(s), label) = Value(whole, fraction)
<1> DEFINE W == Len(whole)  F == Len(fraction)  n == W + F
           a == AmountOf(s)  g == a.groups  p == a.seps
           T == Thousands(label)  D == DecimalMark(label)
<1>1. /\ whole \in Seq(DigitRuns) /\ W \in Nat /\ W >= 1 /\ F \in Nat /\ (F = 0 \/ F = 1)
      /\ Len(s) = 2 * n - 1
  BY ONLY WrittenAmount(s, whole, fraction, label), AmountLengths
<1>2. n \in Nat /\ n >= 1
  BY <1>1
<1>3. W > 1 => whole[1].length <= 3 /\ \A m \in 2..W : whole[m].length = 3
  BY DEF WrittenAmount
<1>4. \A m \in 1..W : s[2*m-1] = whole[m]
  BY DEF WrittenAmount
<1>5. \A m \in 1..(W-1) : s[2*m].is = T
  <2>1. \A m \in 1..(W-1) : s[2*m] = Sign(T)
    BY DEF WrittenAmount
  <2>2. QED  BY <2>1 DEF Sign
<1>6. F = 1 => s[2*W].is = D /\ s[2*W+1] = fraction[1]
  BY DEF WrittenAmount, Sign
<1>7. D # T
  BY DEF DecimalMark, Thousands
<1>8. g = [m \in 1..n |-> s[2*m-1]] /\ p = [m \in 1..(n-1) |-> s[2*m].is]
  BY <1>1, <1>2, AmountParts
<1> HIDE DEF W, F, n, a, T, D
<1>9. /\ Len(g) = n /\ DOMAIN g = 1..n
      /\ Len(p) = n - 1 /\ DOMAIN p = 1..(n-1)
  BY <1>2, <1>8
<1>10. \A m \in 1..W : g[m] = whole[m]
  <2>1. \A m \in 1..W : m \in 1..n
    BY <1>1 DEF n
  <2>2. QED  BY <1>4, <1>8, <2>1
<1>11. \A m \in 1..(W-1) : p[m] = T
  <2>1. \A m \in 1..(W-1) : m \in 1..(n-1)
    BY <1>1 DEF n
  <2>2. QED  BY <1>5, <1>8, <2>1
<1>12. CASE F = 0
  <2>1. n = W
    BY <1>1, <1>12 DEF n
  <2>2. g = whole
    <3>1. whole = [m \in 1..W |-> whole[m]]
      BY <1>1 DEF W
    <3>2. g = [m \in 1..W |-> g[m]]
      BY <1>8, <2>1
    <3> HIDE DEF g
    <3>3. QED  BY <1>10, <3>1, <3>2
  <2>3. ~HasDecimals(a, label)
    <3>1. CASE W = 1
      <4>1. p = <<>>
        BY <1>8, <2>1, <3>1
      <4>2. QED  BY <4>1 DEF HasDecimals
    <3>2. CASE W # 1
      <4>1. W > 1 /\ 1 \in 1..(W-1)
        BY <1>1, <3>2
      <4>2. IsGrouped(a)
        <5>1. Len(g) > 1
          BY <1>9, <2>1, <4>1
        <5>2. g[1].length <= 3 /\ \A m \in 2..Len(g) : g[m].length = 3
          BY <1>3, <1>9, <2>1, <2>2, <4>1
        <5>3. QED  BY <5>1, <5>2 DEF IsGrouped
      <4>3. p[1] = T
        BY <1>11, <4>1
      <4>4. Range(p) = {T}
        BY <1>9, <1>11, <2>1, <4>1 DEF Range
      <4>5. Cardinality(Range(p)) = 1
        BY <4>4, FS_Singleton
      <4>6. QED  BY <4>2, <4>3, <4>5 DEF HasDecimals, T
    <3>3. QED  BY <3>1, <3>2
  <2>4. Spelled(a, label) = Number(Run(g), 0)
    BY <2>3 DEF Spelled
  <2>5. QED  BY <1>12, <2>2, <2>4 DEF Value, F, a
<1>13. CASE F = 1
  <2>1. n = W + 1 /\ n - 1 = W
    BY <1>1, <1>13 DEF n
  <2>2. p[W] = D
    <3>1. W \in 1..(n-1)
      BY <1>1, <2>1
    <3>2. QED  BY <1>6, <1>8, <1>13, <3>1
  <2>3. HasDecimals(a, label)
    <3>1. p # <<>>
      BY <1>1, <1>9, <2>1
    <3>2. CASE W = 1
      <4>1. Len(p) = 1 /\ p[1] # T
        BY <1>7, <1>9, <2>1, <2>2, <3>2
      <4>2. QED  BY <3>1, <4>1 DEF HasDecimals, T
    <3>3. CASE W # 1
      <4>1. 1 \in 1..(W-1) /\ 1 \in 1..W /\ W \in 1..W /\ \A m \in 1..W : m = W \/ m \in 1..(W-1)
        BY <1>1, <3>3
      <4>2. DOMAIN p = 1..W
        BY <1>9, <2>1
      <4>3. Range(p) = {T, D}
        BY <1>11, <2>2, <4>1, <4>2 DEF Range
      <4>4. Cardinality({T, D}) = 2
        <5>1. IsFiniteSet({T}) /\ Cardinality({T}) = 1
          BY FS_Singleton
        <5>2. Cardinality({T} \cup {D}) = Cardinality({T}) + 1
          BY <1>7, <5>1, FS_AddElement
        <5>3. {T, D} = {T} \cup {D}
          OBVIOUS
        <5>4. QED  BY <5>1, <5>2, <5>3
      <4>5. QED  BY <3>1, <4>3, <4>4 DEF HasDecimals
    <3>4. QED  BY <3>2, <3>3
  <2>4. Front(g) = whole
    <3>1. Front(g) = SubSeq(g, 1, W)
      BY <1>9, <2>1 DEF Front
    <3>2. SubSeq(g, 1, W) = [m \in 1..W |-> g[m]]
      BY <1>1
    <3>3. whole = [m \in 1..W |-> whole[m]]
      BY <1>1 DEF W
    <3> HIDE DEF g
    <3>4. QED  BY <1>10, <3>1, <3>2, <3>3
  <2>5. Last(g) = fraction[1]
    <3>1. Last(g) = g[W+1]
      BY <1>9, <2>1 DEF Last
    <3>2. W + 1 \in 1..n /\ 2 * (W + 1) - 1 = 2 * W + 1
      BY <1>1, <2>1
    <3>3. QED  BY <1>6, <1>8, <1>13, <3>1, <3>2
  <2>6. Spelled(a, label) = Number(Run(Front(g)), Fraction(Last(g)))
    BY <2>3 DEF Spelled
  <2>7. QED  BY <1>13, <2>4, <2>5, <2>6 DEF Value, F, a
<1>14. QED  BY <1>1, <1>12, <1>13

(***************************************************************************)
(* The pieces of an amount: runs of digits and single separators in turn,  *)
(* those within it three digits long.                                      *)
(***************************************************************************)
LEMMA AmountPieces ==
  ASSUME NEW s, NEW whole, NEW fraction, NEW label, WrittenAmount(s, whole, fraction, label)
  PROVE  /\ s \in Seq(Plain) /\ Len(s) >= 1 /\ Len(s) % 2 = 1
         /\ \A m \in 1..Len(s) : m % 2 = 1 => s[m] \in DigitRuns
         /\ \A m \in 1..Len(s) : m % 2 = 0 => s[m] = Sign(".") \/ s[m] = Sign(",")
         /\ \A m \in 1..Len(s) : m % 2 = 1 /\ 1 < m /\ m < Len(s) => s[m].length = 3
<1> DEFINE W == Len(whole)  F == Len(fraction)  n == W + F  N == Len(s)
<1>1. /\ whole \in Seq(DigitRuns) /\ fraction \in Seq(DigitRuns)
      /\ W \in Nat /\ W >= 1 /\ F \in Nat /\ (F = 0 \/ F = 1)
      /\ s \in Seq(Plain) /\ N = 2 * (W + F) - 1
  BY ONLY WrittenAmount(s, whole, fraction, label), AmountLengths
<1>2. W > 1 => whole[1].length <= 3 /\ \A m \in 2..W : whole[m].length = 3
  BY DEF WrittenAmount
<1>3. /\ \A m \in 1..W : s[2*m-1] = whole[m]
      /\ \A m \in 1..(W-1) : s[2*m] = Sign(Thousands(label))
      /\ F = 1 => s[2*W] = Sign(DecimalMark(label)) /\ s[2*W+1] = fraction[1]
  BY DEF WrittenAmount
<1>4. (\A m \in 1..W : whole[m] \in DigitRuns) /\ (F = 1 => fraction[1] \in DigitRuns)
  BY <1>1
<1>5. /\ Sign(Thousands(label)) = Sign(".") \/ Sign(Thousands(label)) = Sign(",")
      /\ Sign(DecimalMark(label)) = Sign(".") \/ Sign(DecimalMark(label)) = Sign(",")
  BY DEF DecimalMark, Thousands
<1> HIDE DEF W, F, N
<1>6. N >= 1 /\ N % 2 = 1
  BY <1>1
<1>7. ASSUME NEW m \in 1..N, m % 2 = 1
      PROVE  s[m] \in DigitRuns /\ (1 < m /\ m < N => s[m].length = 3)
  <2> DEFINE h == (m + 1) \div 2
  <2>1. h \in Nat /\ m = 2 * h - 1 /\ h >= 1
    BY <1>7
  <2> HIDE DEF h
  <2>2. CASE h <= W
    <3>1. h \in 1..W /\ (1 < m => h \in 2..W /\ W > 1)
      BY <1>1, <2>1, <2>2
    <3>2. QED  BY <1>2, <1>3, <1>4, <2>1, <3>1
  <2>3. CASE h > W
    <3>1. F = 1 /\ m = 2 * W + 1 /\ ~(m < N)
      BY <1>1, <2>1, <2>3
    <3>2. QED  BY <1>3, <1>4, <3>1
  <2>4. QED  BY <1>1, <2>1, <2>2, <2>3
<1>8. ASSUME NEW m \in 1..N, m % 2 = 0
      PROVE  s[m] = Sign(".") \/ s[m] = Sign(",")
  <2> DEFINE h == m \div 2
  <2>1. h \in Nat /\ m = 2 * h /\ h >= 1
    BY <1>8
  <2> HIDE DEF h
  <2>2. CASE h <= W - 1
    <3>1. h \in 1..(W-1)
      BY <1>1, <2>1, <2>2
    <3>2. QED  BY <1>3, <1>5, <2>1, <3>1
  <2>3. CASE h > W - 1
    <3>1. F = 1 /\ m = 2 * W
      BY ONLY <1>1, <2>1, <2>3, m \in 1..N
    <3>2. s[2*W] = Sign(DecimalMark(label))
      BY ONLY <1>3, <3>1
    <3>3. s[m] = Sign(DecimalMark(label))
      BY ONLY <3>1, <3>2
    <3>4. QED  BY ONLY <1>5, <3>3
  <2>4. h <= W - 1 \/ h > W - 1
    BY ONLY <1>1, <2>1
  <2>5. QED  BY ONLY <2>2, <2>3, <2>4
<1>9. QED  BY <1>1, <1>6, <1>7, <1>8 DEF N

(***************************************************************************)
(* An amount is taken whole where the stages before it take no part of it. *)
(***************************************************************************)
LEMMA OneAmount ==
  ASSUME NEW S, NEW s \in Seq(S), NEW o, NEW e, Among(s, o, e), NEW label,
         \A i \in o..e : \A j \in i..e :
           /\ ~Matches("date ymd", s, i, j) /\ ~Matches("date slash", s, i, j)
           /\ ~Taken("zh", s, <<i, j>>, label),
         Matches("number", s, o, e)
  PROVE  Extracted(s, label) = TokensOf("number", SubSeq(s, o, e), label)
<1>1. /\ AllStages[9] = "date ymd" /\ AllStages[10] = "date slash"
      /\ AllStages[11] = "zh" /\ AllStages[12] = "number"
  BY ONLY StageOrder
<1>2. ASSUME NEW m \in 9..11, NEW i \in o..e, NEW j \in i..e
      PROVE  Matches(AllStages[m], s, i, j) => ~Taken(AllStages[m], s, <<i, j>>, label)
  <2>1. m = 9 \/ m = 10 \/ m = 11
    BY ONLY m \in 9..11
  <2>2. QED  BY <1>1, <2>1
<1>3. 12 \in 9..12 /\ 12 - 1 = 11
  BY ONLY SMT
<1>4. Taken("number", s, <<o, e>>, label)
  BY DEF Taken
<1>5. /\ s \in Seq(S) /\ Among(s, o, e)
      /\ Matches(AllStages[12], s, o, e) /\ Taken(AllStages[12], s, <<o, e>>, label)
  BY <1>1, <1>4
<1>6. Extracted(s, label) = TokensOf(AllStages[12], SubSeq(s, o, e), label)
  BY ONLY <1>2, <1>3, <1>5, OneToken
<1>7. QED  BY <1>1, <1>6

(***************************************************************************)
(* In a prompt with one amount among words the guard reads one number      *)
(* under its writer's label, the one its writer meant if float64 holds it: *)
(* its groups are not a date and its separators split nothing (Extract,    *)
(* normalizeNumber).                                                       *)
(***************************************************************************)
THEOREM AmountIsOneNumber ==
  ASSUME NEW S, NEW s \in Seq(S), NEW p, NEW whole, NEW fraction, NEW label,
         WrittenAmount(p, whole, fraction, label), Run(whole) < Exact, NEW o, Stands(s, o, p)
  PROVE  Extracted(s, label) = {Token("number", Value(whole, fraction))}
<1> DEFINE N == Len(p)  e == o + N - 1
<1>1. p \in Seq(Plain) /\ N \in Nat /\ N >= 1 /\ N % 2 = 1
  <2>1. p \in Seq(Plain) /\ Len(p) \in Nat
    BY AmountLengths
  <2>2. Len(p) >= 1 /\ Len(p) % 2 = 1
    BY AmountPieces
  <2>3. QED  BY ONLY <2>1, <2>2
<1>2. /\ \A m \in 1..N : m % 2 = 1 => p[m] \in DigitRuns
      /\ \A m \in 1..N : m % 2 = 0 => p[m] = Sign(".") \/ p[m] = Sign(",")
      /\ \A m \in 1..N : m % 2 = 1 /\ 1 < m /\ m < N => p[m].length = 3
  BY AmountPieces
<1>3. /\ o \in 1..Len(s) /\ e \in o..Len(s) /\ SubSeq(s, o, e) = p
      /\ \A m \in o..e : m - o + 1 \in 1..N /\ s[m] = p[m - o + 1]
  BY <1>1, StandsAt
<1>4. Among(s, o, e)
  BY DEF Stands
<1>5. /\ \A q \in DigitRuns : q.kind = "digits"
      /\ Sign(".").kind = "mark" /\ Sign(",").kind = "mark" /\ Sign(".").is = "." /\ Sign(",").is = ","
  BY DEF DigitRuns, Sign
<1> HIDE DEF N
<1>6. o \in Nat /\ e \in Nat /\ N = e - o + 1
  <2>1. o \in Nat
    BY <1>3
  <2>2. QED  BY ONLY <1>1, <2>1
<1> HIDE DEF e
<1>7. ASSUME NEW m \in 1..N
      PROVE  /\ p[m].kind # "numeral"
             /\ m % 2 = 1 => p[m].kind = "digits"
             /\ m % 2 = 0 => p[m].kind = "mark" /\ (p[m].is = "." \/ p[m].is = ",")
  <2>1. m % 2 = 0 \/ m % 2 = 1
    BY ONLY m \in 1..N, <1>1
  <2>2. CASE m % 2 = 1
    <3>1. m % 2 # 0
      BY ONLY <2>2
    <3>2. QED  BY <1>2, <1>5, <2>2, <3>1
  <2>3. CASE m % 2 = 0
    <3>1. m % 2 # 1
      BY ONLY <2>3
    <3>2. p[m] = Sign(".") \/ p[m] = Sign(",")
      BY ONLY <1>2, <2>3, m \in 1..N
    <3>3. CASE p[m] = Sign(".")
      BY ONLY <1>5, <3>1, <3>3
    <3>4. CASE p[m] = Sign(",")
      BY ONLY <1>5, <3>1, <3>4
    <3>5. QED  BY ONLY <3>2, <3>3, <3>4
  <2>4. QED  BY ONLY <2>1, <2>2, <2>3
<1>8. ASSUME NEW i \in o..e, NEW j \in i..e
      PROVE  ~Matches("date ymd", s, i, j) /\ ~Matches("date slash", s, i, j)
  <2> DEFINE q == i - o + 1
  <2> SUFFICES ASSUME j = i + 4, s[i].kind = "digits" PROVE ~Day(s[i+2])
    BY DEF Matches, DateYMD, DateSlash, Day, Year
  <2>1. q \in 1..N /\ s[i] = p[q]
    BY <1>3
  <2>2. i + 2 \in o..e /\ (i + 2) - o + 1 = q + 2 /\ q + 2 < N /\ q + 2 \in 1..N /\ 1 < q + 2
    BY ONLY <1>1, <1>6, j = i + 4, i \in o..e, j \in i..e
  <2>3. s[i+2] = p[q+2]
    BY <1>3, <2>2
  <2> HIDE DEF q
  <2>4. q % 2 = 1 /\ (q + 2) % 2 = 1
    <3>1. q % 2 = 0 \/ q % 2 = 1
      BY ONLY <2>1, <1>1
    <3>2. q % 2 # 0
      BY <1>7, <2>1
    <3>3. QED  BY ONLY <1>1, <2>1, <3>1, <3>2
  <2>5. s[i+2].length = 3
    BY <1>2, <2>2, <2>3, <2>4
  <2>6. QED  BY <2>5 DEF Day
<1>9. ASSUME NEW i \in o..e, NEW j \in i..e PROVE ~Taken("zh", s, <<i, j>>, label)
  <2>1. \A q \in Range(SubSeq(s, i, j)) : q.kind # "numeral"
    <3>1. DOMAIN SubSeq(s, i, j) = 1..(j - i + 1) /\ \A m \in 1..(j - i + 1) : SubSeq(s, i, j)[m] = s[i + m - 1]
      BY <1>3
    <3>2. ASSUME NEW m \in 1..(j - i + 1) PROVE i + m - 1 \in o..e
      BY ONLY <1>6, i \in o..e, j \in i..e, m \in 1..(j - i + 1)
    <3>3. \A m \in o..e : s[m].kind # "numeral"
      BY <1>3, <1>7
    <3>4. QED  BY <3>1, <3>2, <3>3 DEF Range
  <2>2. QED  BY <2>1 DEF Taken
<1>10. Matches("number", s, o, e)
  <2>1. (e - o) % 2 = 0
    BY ONLY <1>1, <1>6
  <2>2. ASSUME NEW m \in o..e
        PROVE  IF (m - o) % 2 = 0 THEN s[m].kind = "digits" ELSE Reads(s[m], "mark", {".", ","})
    <3> DEFINE q == m - o + 1
    <3>1. q \in 1..N /\ s[m] = p[q]
      BY <1>3
    <3>2. ((m - o) % 2 = 0 /\ q % 2 = 1) \/ ((m - o) % 2 # 0 /\ q % 2 = 0)
      BY ONLY <1>6, m \in o..e
    <3> HIDE DEF q
    <3>3. CASE (m - o) % 2 = 0 /\ q % 2 = 1
      BY <1>7, <3>1, <3>3
    <3>4. CASE (m - o) % 2 # 0 /\ q % 2 = 0
      <4>1. s[m].kind = "mark" /\ (s[m].is = "." \/ s[m].is = ",")
        BY <1>7, <3>1, <3>4
      <4>2. QED  BY <3>4, <4>1 DEF Reads
    <3>5. QED  BY ONLY <3>2, <3>3, <3>4
  <2>3. Amount(s, o, e)
    BY <2>1, <2>2 DEF Amount
  <2>4. QED  BY <2>3 DEF Matches
<1>11. Extracted(s, label) = TokensOf("number", p, label)
  <2>1. \A i \in o..e : \A j \in i..e :
          /\ ~Matches("date ymd", s, i, j) /\ ~Matches("date slash", s, i, j)
          /\ ~Taken("zh", s, <<i, j>>, label)
    BY ONLY <1>8, <1>9
  <2>2. Extracted(s, label) = TokensOf("number", SubSeq(s, o, e), label)
    BY <1>4, <1>10, <2>1, OneAmount
  <2>3. QED  BY <1>3, <2>2
<1>12. NormalizeNumber(AmountOf(p), label) = {Value(whole, fraction)}
  <2>1. Value(whole, fraction).whole = Run(whole)
    BY DEF Value, Number
  <2>2. Spelled(AmountOf(p), label) = Value(whole, fraction)
    BY AmountIsItsValue
  <2>3. QED  BY <2>1, <2>2 DEF NormalizeNumber
<1>13. TokensOf("number", p, label) = {Token("number", v) : v \in NormalizeNumber(AmountOf(p), label)}
  BY DEF TokensOf
<1>14. QED  BY <1>11, <1>12, <1>13

(***************************************************************************)
(* A number that is spelled is a phrase of numerals, and not empty.        *)
(***************************************************************************)
LEMMA SpelledIsNumeral ==
  ASSUME NEW n \in Nat, n < Wan * Yi, n # 0
  PROVE  Spell(n) \in Seq(Runes) /\ Len(Spell(n)) >= 1
<1> DEFINE y == n \div Yi  w == (n \div Wan) % Wan  s == n % Wan
           Y == SpellBig(y, 0, Yi)  W == SpellBig(w, y, Wan)  S == SpellBig(s, n \div Wan, 1)
           P == Spell(n)
<1>1. y \in Nat /\ y <= 9999 /\ w \in Nat /\ w <= 9999 /\ s \in Nat /\ s <= 9999
  BY SectionsOf
<1>2. Yi \in Nat /\ Wan \in Nat /\ 1 \in Nat /\ 0 \in Nat
  BY SMT DEF Yi, Wan
<1>3. P = (Y \o W) \o S
  BY DEF Spell
<1> HIDE DEF y, w, s, P
<1>4. Y \in Seq(Runes)
  BY <1>1, <1>2, ReadSpelledBig
<1>5. W \in Seq(Runes)
  BY <1>1, <1>2, ReadSpelledBig
<1>6. S \in Seq(Runes)
  <2> DEFINE above == n \div Wan
  <2> HIDE DEF above
  <2>1. SpellBig(s, above, 1) \in Seq(Runes)
    BY <1>1, <1>2, ReadSpelledBig
  <2>2. QED  BY <2>1 DEF above
<1> HIDE DEF Y, W, S
<1>7. P \in Seq(Runes)
  BY <1>3, <1>4, <1>5, <1>6
<1>8. ParseZHNumber(P) = n
  BY NumeralsAreRead DEF P
<1>9. Len(P) # 0
  <2> SUFFICES ASSUME Len(P) = 0 PROVE FALSE
    OBVIOUS
  <2> DEFINE start == [total |-> 0, section |-> 0, num |-> 0]  A == [m \in 0..0 |-> start]
  <2>1. A[0] = start /\ 1..0 = {}
    OBVIOUS
  <2> HIDE DEF A
  <2>2. Accumulates(A, start, P, 0)
    BY <2>1 DEF Accumulates
  <2>3. ReadFrom(start, P) = start
    BY <2>1, <2>2, ReadIs
  <2>4. ParseZHNumber(P) = 0
    BY <2>3 DEF ParseZHNumber
  <2>5. QED  BY <1>8, <2>4
<1>10. Len(P) >= 1
  BY <1>7, <1>9
<1>11. QED  BY <1>7, <1>10 DEF P

\* A text that says one thing, the way its writer's language writes it and
\* among words that say none: a Chinese numeral, a slashed date, an amount,
\* of a size that float64 holds exactly.
SaysNumeral(t, p) ==
  \E n \in Nat : /\ n < Wan * Yi /\ n # 0 /\ n < Exact
                 /\ p = Spell(n)
                 /\ t.meant = {Token("number", Number(n, 0))}

SaysDate(t, p) ==
  \E year, month, day : /\ Dated(year, month, day)
                        /\ WrittenDate(p, year, month, day, t.writer)
                        /\ t.meant = {Token("date", Date(year, month, day))}

SaysAmount(t, p) ==
  \E whole, fraction : /\ WrittenAmount(p, whole, fraction, t.writer)
                       /\ Run(whole) < Exact
                       /\ t.meant = {Token("number", Value(whole, fraction))}

SaysOneThing(t) ==
  /\ t.pieces \in Seq(Range(t.pieces))
  /\ \E p, o : /\ Stands(t.pieces, o, p)
               /\ SaysNumeral(t, p) \/ SaysDate(t, p) \/ SaysAmount(t, p)

(***************************************************************************)
(* Such a text is read as it was meant under its writer's label.           *)
(***************************************************************************)
LEMMA OneThingIsRead ==
  ASSUME NEW t, SaysOneThing(t)
  PROVE  Extracted(t.pieces, t.writer) = t.meant
<1> DEFINE s == t.pieces  label == t.writer  S == Range(s)
<1>1. s \in Seq(S)
  BY DEF SaysOneThing
<1>2. PICK p, o : /\ Stands(s, o, p)
                  /\ SaysNumeral(t, p) \/ SaysDate(t, p) \/ SaysAmount(t, p)
  BY DEF SaysOneThing
<1> HIDE DEF s, label, S
<1>3. CASE SaysNumeral(t, p)
  <2>1. PICK n \in Nat : /\ n < Wan * Yi /\ n # 0 /\ n < Exact
                         /\ p = Spell(n)
                         /\ t.meant = {Token("number", Number(n, 0))}
    BY <1>3 DEF SaysNumeral
  <2>2. p \in Seq(Runes) /\ Len(p) >= 1
    BY <2>1, SpelledIsNumeral
  <2>3. ParseZHNumber(p) = n
    BY <2>1, NumeralsAreRead
  <2>4. Extracted(s, label) = {Token("number", Number(ParseZHNumber(p), 0))}
    BY ONLY <1>1, <1>2, <2>1, <2>2, <2>3, NumeralIsOneNumber
  <2>5. QED  BY ONLY <2>1, <2>3, <2>4 DEF s, label
<1>4. CASE SaysDate(t, p)
  <2>1. PICK year, month, day : /\ Dated(year, month, day)
                                /\ WrittenDate(p, year, month, day, label)
                                /\ t.meant = {Token("date", Date(year, month, day))}
    BY <1>4 DEF SaysDate, label
  <2>2. Extracted(s, label) = {Token("date", Date(year, month, day))}
    BY <1>1, <1>2, <2>1, DateIsOneDate
  <2>3. QED  BY <2>1, <2>2 DEF s, label
<1>5. CASE SaysAmount(t, p)
  <2>1. PICK whole, fraction : /\ WrittenAmount(p, whole, fraction, label)
                               /\ Run(whole) < Exact
                               /\ t.meant = {Token("number", Value(whole, fraction))}
    BY <1>5 DEF SaysAmount, label
  <2>2. Extracted(s, label) = {Token("number", Value(whole, fraction))}
    BY <1>1, <1>2, <2>1, AmountIsOneNumber
  <2>3. QED  BY <2>1, <2>2 DEF s, label
<1>6. QED  BY <1>2, <1>3, <1>4, <1>5

(***************************************************************************)
(* RightLabelReadsRight for the texts that say one thing: every Chinese    *)
(* numeral below 10^12, every slashed date, every amount of either         *)
(* convention below the numbers float64 rounds (Exact, 10^12 too), however *)
(* it is grouped and whatever words it stands among, is found by the guard *)
(* under its writer's label, with its meaning and nothing else             *)
(* (lang.Detect, Extract, Compare).                                        *)
(***************************************************************************)
THEOREM OneThingReadsRight ==
  ExtractionSpec => [](SaysOneThing(text) => RightLabelReadsRight)
<1> DEFINE Right == SaysOneThing(text) => RightLabelReadsRight
<1>1. Read => Right
  <2> SUFFICES ASSUME Read, SaysOneThing(text), Done, lang = text.writer
               PROVE  Compare(tokens, text.meant) = Nothing
    BY DEF RightLabelReadsRight
  <2>1. tokens = text.meant
    BY OneThingIsRead DEF Read
  <2>2. Compare(text.meant, text.meant) = Nothing
    BY DEF Compare
  <2>3. QED  BY <2>1, <2>2
<1>2. QED  BY <1>1, ReadAlways, PTL
=============================================================================
