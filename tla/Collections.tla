---------------------------- MODULE Collections -----------------------------
(***************************************************************************)
(* Facts about the data the models are built from: the lists that are kept *)
(* without repetition beside a map, and the sums that budgets are stated   *)
(* with, whose laws are proved by minimal counterexamples over the finite  *)
(* sets of indices.                                                        *)
(***************************************************************************)
EXTENDS SequencesExt, SequenceTheorems, FiniteSetTheorems, TLAPS

\* c is the list s with e pushed to its front.
Pushed(c, e, s) ==
  /\ Len(c) = Len(s) + 1
  /\ \A i \in 1..Len(s)+1 : c[i] = IF i = 1 THEN e ELSE s[i-1]

\* m is the list s with its element at i moved to the front.
Moved(m, s, i) ==
  /\ Len(m) = Len(s)
  /\ \A j \in 1..Len(s) : m[j] = IF j = 1 THEN s[i] ELSE IF j <= i THEN s[j-1] ELSE s[j]

(***************************************************************************)
(* What Cons does to a list.                                               *)
(***************************************************************************)
LEMMA ConsFacts ==
  ASSUME NEW S, NEW s \in Seq(S), NEW e \in S
  PROVE  Cons(e, s) \in Seq(S) /\ Pushed(Cons(e, s), e, s)
<1>1. <<e>> \in Seq(S) /\ Len(<<e>>) = 1 /\ <<e>>[1] = e
  OBVIOUS
<1>2. QED
  BY <1>1, ConcatProperties DEF Cons, Pushed

(***************************************************************************)
(* What RemoveAt does to a list.                                           *)
(***************************************************************************)
LEMMA RemoveAtFacts ==
  ASSUME NEW S, NEW s \in Seq(S), NEW i \in 1..Len(s)
  PROVE  /\ RemoveAt(s, i) \in Seq(S)
         /\ Len(RemoveAt(s, i)) = Len(s) - 1
         /\ \A j \in 1..Len(s)-1 : RemoveAt(s, i)[j] = IF j < i THEN s[j] ELSE s[j+1]
<1> DEFINE a == SubSeq(s, 1, i-1)
           b == SubSeq(s, i+1, Len(s))
<1>0. Len(s) \in Nat /\ \A j \in 1..Len(s) : s[j] \in S
  BY LenProperties, ElementOfSeq
<1>1. a \in Seq(S) /\ Len(a) = i-1 /\ \A j \in 1..i-1 : a[j] = s[j]
  <2>1. \A j \in 1..(i-1) : s[j] \in S
    BY <1>0
  <2>2. /\ a \in Seq(S)
        /\ Len(a) = IF 1 <= i-1 THEN (i-1)-1+1 ELSE 0
        /\ \A j \in 1..(i-1)-1+1 : a[j] = s[1+j-1]
    BY <2>1, SubSeqProperties, 1 \in Int, i-1 \in Int
  <2>3. QED  BY <1>0, <2>2
<1>2. b \in Seq(S) /\ Len(b) = Len(s)-i /\ \A j \in 1..Len(s)-i : b[j] = s[i+j]
  <2>1. \A j \in (i+1)..Len(s) : s[j] \in S
    BY <1>0
  <2>2. /\ b \in Seq(S)
        /\ Len(b) = IF i+1 <= Len(s) THEN Len(s)-(i+1)+1 ELSE 0
        /\ \A j \in 1..Len(s)-(i+1)+1 : b[j] = s[(i+1)+j-1]
    BY <2>1, <1>0, SubSeqProperties, i+1 \in Int
  <2>3. QED  BY <1>0, <2>2
<1> HIDE DEF a, b
<1>3. /\ a \o b \in Seq(S)
      /\ Len(a \o b) = Len(a) + Len(b)
      /\ \A j \in 1..Len(a)+Len(b) : (a \o b)[j] = IF j <= Len(a) THEN a[j] ELSE b[j-Len(a)]
  BY <1>1, <1>2, ConcatProperties
<1>4. RemoveAt(s, i) = a \o b
  BY DEF RemoveAt, a, b
<1>5. \A j \in 1..Len(s)-1 : (a \o b)[j] = IF j < i THEN s[j] ELSE s[j+1]
  <2>1. TAKE j \in 1..Len(s)-1
  <2>2. CASE j < i
    BY <2>2, <1>0, <1>1, <1>2, <1>3
  <2>3. CASE ~(j < i)
    <3>1. j - (i-1) \in 1..Len(s)-i /\ i + (j-(i-1)) = j+1
      BY <2>3, <1>0
    <3>2. (a \o b)[j] = b[j-(i-1)]
      BY <2>3, <1>0, <1>1, <1>2, <1>3
    <3>3. QED  BY <3>1, <3>2, <1>2, <2>3
  <2>4. QED  BY <2>2, <2>3
<1>6. QED  BY <1>0, <1>1, <1>2, <1>3, <1>4, <1>5

(***************************************************************************)
(* What moving an element to the front does to a list.                     *)
(***************************************************************************)
LEMMA MovedFacts ==
  ASSUME NEW S, NEW s \in Seq(S), NEW i \in 1..Len(s)
  PROVE  LET m == Cons(s[i], RemoveAt(s, i)) IN m \in Seq(S) /\ Moved(m, s, i)
<1> DEFINE r == RemoveAt(s, i)
           m == Cons(s[i], r)
<1>0. Len(s) \in Nat /\ s[i] \in S
  BY LenProperties, ElementOfSeq
<1>1. /\ r \in Seq(S)
      /\ Len(r) = Len(s) - 1
      /\ \A j \in 1..Len(s)-1 : r[j] = IF j < i THEN s[j] ELSE s[j+1]
  BY RemoveAtFacts
<1> HIDE DEF r
<1>2. m \in Seq(S) /\ Pushed(m, s[i], r)
  BY <1>0, <1>1, ConsFacts
<1> HIDE DEF m
<1>3. Moved(m, s, i)
  <2>1. Len(m) = Len(s)
    BY <1>0, <1>1, <1>2 DEF Pushed
  <2>2. ASSUME NEW j \in 1..Len(s)
        PROVE  m[j] = IF j = 1 THEN s[i] ELSE IF j <= i THEN s[j-1] ELSE s[j]
    <3>1. m[j] = IF j = 1 THEN s[i] ELSE r[j-1]
      BY <1>0, <1>1, <1>2 DEF Pushed
    <3>2. CASE j = 1
      BY <3>1, <3>2
    <3>3. CASE j # 1
      <4>1. j-1 \in 1..Len(s)-1
        BY <3>3, <1>0
      <4>2. r[j-1] = IF j-1 < i THEN s[j-1] ELSE s[(j-1)+1]
        BY <4>1, <1>1
      <4>3. QED  BY <3>1, <3>3, <4>1, <4>2
    <3>4. QED  BY <3>2, <3>3
  <2>3. QED  BY <2>1, <2>2 DEF Moved
<1>4. QED  BY <1>2, <1>3 DEF m, r

\* The list l has exactly one element for each key of the map m.
Agree(l, m) ==
  /\ \A i, j \in 1..Len(l) : l[i] = l[j] => i = j
  /\ \A k : k \in DOMAIN m <=> \E i \in 1..Len(l) : l[i] = k

(***************************************************************************)
(* Moving an element to the front keeps the list's keys and their number.  *)
(***************************************************************************)
LEMMA MovedAgrees ==
  ASSUME NEW S, NEW s \in Seq(S), NEW i \in 1..Len(s), NEW f, Agree(s, f),
         NEW m, m = Cons(s[i], RemoveAt(s, i))
  PROVE  m \in Seq(S) /\ Len(m) = Len(s) /\ Agree(m, f)
<1>1. /\ m \in Seq(S) /\ Len(m) = Len(s)
      /\ \A j \in 1..Len(s) : m[j] =
           IF j = 1 THEN s[i] ELSE IF j <= i THEN s[j-1] ELSE s[j]
  BY MovedFacts DEF Moved
<1>0. Len(s) \in Nat
  BY LenProperties
<1>2. \A a, b \in 1..Len(m) : m[a] = m[b] => a = b
  BY <1>0, <1>1 DEF Agree
<1>3. ASSUME NEW k PROVE k \in DOMAIN f <=> \E j \in 1..Len(m) : m[j] = k
  <2>1. ASSUME NEW j \in 1..Len(s), s[j] = k PROVE \E h \in 1..Len(m) : m[h] = k
    <3>1. CASE j = i  BY <3>1, <2>1, <1>0, <1>1
    <3>2. CASE j < i
      <4>1. j+1 \in 1..Len(m) /\ m[j+1] = k
        BY <3>2, <2>1, <1>0, <1>1
      <4>2. QED  BY <4>1
    <3>3. CASE j > i
      <4>1. j \in 1..Len(m) /\ m[j] = k
        BY <3>3, <2>1, <1>0, <1>1
      <4>2. QED  BY <4>1
    <3>4. QED  BY <3>1, <3>2, <3>3, <1>0
  <2>2. ASSUME NEW j \in 1..Len(m), m[j] = k PROVE \E h \in 1..Len(s) : s[h] = k
    BY <2>2, <1>0, <1>1
  <2>3. QED  BY <2>1, <2>2 DEF Agree
<1>4. QED  BY <1>1, <1>2, <1>3 DEF Agree

(***************************************************************************)
(* Pushing a key the map does not have adds it to both.                    *)
(***************************************************************************)
LEMMA PushedAgrees ==
  ASSUME NEW S, NEW s \in Seq(S), NEW k \in S, NEW f, Agree(s, f), k \notin DOMAIN f,
         NEW g, DOMAIN g = DOMAIN f \cup {k},
         NEW p, p = Cons(k, s)
  PROVE  p \in Seq(S) /\ Len(p) = Len(s) + 1 /\ Agree(p, g)
<1>0. Len(s) \in Nat
  BY LenProperties
<1>1. /\ p \in Seq(S) /\ Len(p) = Len(s) + 1
      /\ \A i \in 1..Len(s)+1 : p[i] = IF i = 1 THEN k ELSE s[i-1]
  <2>1. p \in Seq(S) /\ Pushed(p, k, s)
    BY ConsFacts
  <2>2. QED  BY <2>1 DEF Pushed
<1>2. ASSUME NEW a \in 1..Len(p), NEW b \in 1..Len(p), p[a] = p[b] PROVE a = b
  <2>1. \A h \in 1..Len(s) : s[h] # k
    BY DEF Agree
  <2>2. CASE a = 1 \/ b = 1
    BY <2>1, <2>2, <1>0, <1>1, <1>2
  <2>3. CASE a # 1 /\ b # 1
    <3>1. s[a-1] = s[b-1] /\ a-1 \in 1..Len(s) /\ b-1 \in 1..Len(s)
      BY <2>3, <1>0, <1>1, <1>2
    <3>2. QED  BY <3>1, <2>3, <1>0, <1>1 DEF Agree
  <2>4. QED  BY <2>2, <2>3
<1>3. ASSUME NEW x PROVE x \in DOMAIN g <=> \E j \in 1..Len(p) : p[j] = x
  <2>1. ASSUME NEW j \in 1..Len(s), s[j] = x PROVE \E h \in 1..Len(p) : p[h] = x
    <3>1. j+1 \in 1..Len(p) /\ p[j+1] = x
      BY <2>1, <1>0, <1>1
    <3>2. QED  BY <3>1
  <2>2. 1 \in 1..Len(p) /\ p[1] = k
    BY <1>0, <1>1
  <2>3. ASSUME NEW j \in 1..Len(p), p[j] = x, x # k PROVE \E h \in 1..Len(s) : s[h] = x
    BY <2>3, <1>0, <1>1
  <2>4. QED  BY <2>1, <2>2, <2>3 DEF Agree
<1>4. QED  BY <1>1, <1>2, <1>3 DEF Agree

(***************************************************************************)
(* The map has as many keys as the list has elements.                      *)
(***************************************************************************)
LEMMA AsManyKeys ==
  ASSUME NEW S, NEW s \in Seq(S), NEW f, Agree(s, f)
  PROVE  Cardinality(DOMAIN f) = Len(s)
<1> DEFINE D == DOMAIN f
<1>1. Len(s) \in Nat /\ \A i \in 1..Len(s) : s[i] \in D
  BY LenProperties DEF Agree
<1>2. s = [i \in 1..Len(s) |-> s[i]]
  BY LenProperties
<1>3. s \in [1..Len(s) -> D]
  BY <1>1, <1>2
<1>4. \A i, j \in 1..Len(s) : s[i] = s[j] => i = j
  BY DEF Agree
<1>5. \A k \in D : \E i \in 1..Len(s) : s[i] = k
  BY DEF Agree
<1> HIDE DEF D
<1>6. s \in Bijection(1..Len(s), D)
  BY <1>3, <1>4, <1>5 DEF Bijection, Injection, Surjection, IsInjective
<1>7. ExistsBijection(1..Len(s), D)
  BY <1>6 DEF ExistsBijection
<1>8. Cardinality(D) = Len(s)
  BY <1>1, <1>7, FS_CountingElements
<1>9. QED  BY <1>8 DEF D

-----------------------------------------------------------------------------

\* Whichever element a fold takes from a set.
Taken(s) == CHOOSE x \in s : TRUE

\* g adds up w over every subset of S, one taken element at a time.
AddsUp(g, w, S) ==
  g = [s \in SUBSET S |-> IF s = {} THEN 0 ELSE w[Taken(s)] + g[s \ {Taken(s)}]]

(***************************************************************************)
(* Among the subsets of a finite set that have some flaw one has no        *)
(* smaller flawed subset.                                                  *)
(***************************************************************************)
LEMMA LeastSet ==
  ASSUME NEW S, IsFiniteSet(S), NEW F, F \subseteq SUBSET S, F # {}
  PROVE  \E s \in F : \A t \in F : t \subseteq s => t = s
<1>1. PICK s \in F : \A t \in F : <<t, s>> \notin StrictSubsetOrdering(S)
  BY FS_StrictSubsetOrderingWellFounded, FS_FiniteSubsetsOfFinite, WFMin
<1>2. QED  BY <1>1 DEF StrictSubsetOrdering

(***************************************************************************)
(* What a fold takes is an element.                                        *)
(***************************************************************************)
LEMMA TakenIn == ASSUME NEW s, s # {} PROVE Taken(s) \in s
  BY DEF Taken

(***************************************************************************)
(* The value of a sum at a set.                                            *)
(***************************************************************************)
LEMMA AddsUpAt ==
  ASSUME NEW S, NEW w, NEW g, AddsUp(g, w, S), NEW s \in SUBSET S
  PROVE  g[s] = IF s = {} THEN 0 ELSE w[Taken(s)] + g[s \ {Taken(s)}]
  BY DEF AddsUp

(***************************************************************************)
(* Two sums of the same weights agree wherever both are defined.           *)
(***************************************************************************)
LEMMA SumsAgree ==
  ASSUME NEW S, NEW T, IsFiniteSet(S), NEW w, NEW g, NEW h, AddsUp(g, w, S), AddsUp(h, w, T)
  PROVE  \A s \in SUBSET (S \cap T) : g[s] = h[s]
<1> DEFINE F == {s \in SUBSET (S \cap T) : g[s] # h[s]}
<1>1. SUFFICES ASSUME F # {} PROVE FALSE
  OBVIOUS
<1>2. PICK s \in F : \A t \in F : t \subseteq s => t = s
  <2>1. F \subseteq SUBSET S
    OBVIOUS
  <2> HIDE DEF F
  <2>2. QED  BY <1>1, <2>1, LeastSet
<1>3. s \in SUBSET S /\ s \in SUBSET T
  BY <1>2
<1>4. g[s] = (IF s = {} THEN 0 ELSE w[Taken(s)] + g[s \ {Taken(s)}])
  BY <1>3, AddsUpAt
<1>5. h[s] = (IF s = {} THEN 0 ELSE w[Taken(s)] + h[s \ {Taken(s)}])
  BY ONLY <1>3, AddsUp(h, w, T), AddsUpAt
<1>6. s # {}
  BY <1>2, <1>4, <1>5
<1> DEFINE t == s \ {Taken(s)}
<1>7. t \in SUBSET (S \cap T) /\ t # s /\ t \subseteq s
  BY <1>3, <1>6, TakenIn
<1>8. g[t] = h[t]
  BY <1>2, <1>7
<1>9. QED  BY <1>2, <1>4, <1>5, <1>6, <1>8

(***************************************************************************)
(* Over a finite set there is a sum.                                       *)
(***************************************************************************)
LEMMA SumExists == ASSUME NEW S, IsFiniteSet(S), NEW w PROVE \E g : AddsUp(g, w, S)
<1> DEFINE F == {s \in SUBSET S : ~ \E g : AddsUp(g, w, s)}
<1>1. SUFFICES ASSUME F # {} PROVE FALSE
  OBVIOUS
<1>2. PICK s \in F : \A t \in F : t \subseteq s => t = s
  <2>1. F \subseteq SUBSET S
    OBVIOUS
  <2> HIDE DEF F
  <2>2. QED  BY <1>1, <2>1, LeastSet
<1> DEFINE of(u) == CHOOSE h : AddsUp(h, w, u)
           g == [t \in SUBSET s |-> IF t = {} THEN 0
                                    ELSE w[Taken(t)] + of(t \ {Taken(t)})[t \ {Taken(t)}]]
<1>3. ASSUME NEW u \in SUBSET s, u # s PROVE AddsUp(of(u), w, u) /\ IsFiniteSet(u)
  <2>1. u \in SUBSET S /\ u \notin F
    BY <1>2, <1>3
  <2>2. \E h : AddsUp(h, w, u)
    BY <2>1
  <2>3. QED  BY <2>1, <2>2, FS_Subset
<1> HIDE DEF of
<1>4. ASSUME NEW u \in SUBSET s, u # s PROVE g[u] = of(u)[u]
  <2>1. CASE u = {}
    BY <1>3, <1>4, <2>1, AddsUpAt
  <2>2. CASE u # {}
    <3> DEFINE v == u \ {Taken(u)}
    <3>1. Taken(u) \in u /\ v \in SUBSET s /\ v # s /\ v \in SUBSET (u \cap v)
      BY <1>4, <2>2, TakenIn
    <3>2. of(u)[v] = of(v)[v]
      BY <1>3, <1>4, <3>1, SumsAgree
    <3>3. of(u)[u] = w[Taken(u)] + of(u)[v]
      BY <1>3, <1>4, <2>2, AddsUpAt
    <3>4. g[u] = w[Taken(u)] + of(v)[v]
      BY <2>2
    <3>5. QED  BY <3>2, <3>3, <3>4
  <2>3. QED  BY <2>1, <2>2
<1>5. ASSUME NEW t \in SUBSET s
      PROVE  g[t] = IF t = {} THEN 0 ELSE w[Taken(t)] + g[t \ {Taken(t)}]
  <2>1. CASE t = {}
    BY <2>1
  <2>2. CASE t # {}
    <3> DEFINE v == t \ {Taken(t)}
    <3>1. v \in SUBSET s /\ v # s
      BY <2>2, TakenIn
    <3>2. g[v] = of(v)[v]
      BY <1>4, <3>1
    <3>3. QED  BY <2>2, <3>2
  <2>3. QED  BY <2>1, <2>2
<1>6. DOMAIN g = SUBSET s /\ g = [t \in SUBSET s |-> g[t]]
  OBVIOUS
<1> HIDE DEF g
<1>7. AddsUp(g, w, s)
  BY <1>5, <1>6, Zenon DEF AddsUp
<1>8. QED  BY <1>2, <1>7

-----------------------------------------------------------------------------
(***************************************************************************)
(* The library's sum is one of these.                                      *)
(***************************************************************************)
LEMMA SumIs ==
  ASSUME NEW S, IsFiniteSet(S), NEW w
  PROVE  \E g : AddsUp(g, w, S) /\ SumFunctionOnSet(w, S) = g[S]
<1> DEFINE g == CHOOSE h : AddsUp(h, w, S)
<1>1. AddsUp(g, w, S)
  BY SumExists
<1>2. SumFunctionOnSet(w, S) = g[S]
  BY DEF SumFunctionOnSet, FoldFunctionOnSet, MapThenFoldSet, AddsUp, Taken
<1>3. QED  BY <1>1, <1>2

(***************************************************************************)
(* A sum of nothing is zero.                                               *)
(***************************************************************************)
LEMMA SumOfNothing == ASSUME NEW w PROVE SumFunctionOnSet(w, {}) = 0
<1>1. PICK g : AddsUp(g, w, {}) /\ SumFunctionOnSet(w, {}) = g[{}]
  BY FS_EmptySet, SumIs
<1>2. QED  BY <1>1, AddsUpAt

(***************************************************************************)
(* A fold takes one element and sums up the rest.                          *)
(***************************************************************************)
LEMMA SumTakes ==
  ASSUME NEW S, IsFiniteSet(S), S # {}, NEW w
  PROVE  SumFunctionOnSet(w, S) = w[Taken(S)] + SumFunctionOnSet(w, S \ {Taken(S)})
<1> DEFINE T == S \ {Taken(S)}
<1>1. IsFiniteSet(T) /\ T \in SUBSET S
  BY FS_Subset
<1>2. PICK g : AddsUp(g, w, S) /\ SumFunctionOnSet(w, S) = g[S]
  BY SumIs
<1>3. g[S] = w[Taken(S)] + g[T]
  BY <1>2, AddsUpAt
<1> HIDE DEF T
<1>4. PICK h : AddsUp(h, w, T) /\ SumFunctionOnSet(w, T) = h[T]
  BY <1>1, SumIs
<1>5. g[T] = h[T]
  BY <1>1, <1>2, <1>4, SumsAgree
<1>6. QED  BY <1>2, <1>3, <1>4, <1>5 DEF T

(***************************************************************************)
(* A sum of whole numbers is one, and of natural ones a natural one.       *)
(***************************************************************************)
LEMMA SumType ==
  ASSUME NEW S, IsFiniteSet(S), NEW w, NEW N \in {Nat, Int}, \A x \in S : w[x] \in N
  PROVE  SumFunctionOnSet(w, S) \in N
<1> DEFINE F == {s \in SUBSET S : SumFunctionOnSet(w, s) \notin N}
<1>1. SUFFICES ASSUME F # {} PROVE FALSE
  OBVIOUS
<1>2. PICK s \in F : \A t \in F : t \subseteq s => t = s
  <2>1. F \subseteq SUBSET S
    OBVIOUS
  <2> HIDE DEF F
  <2>2. QED  BY <1>1, <2>1, LeastSet
<1>3. IsFiniteSet(s) /\ s \subseteq S
  BY <1>2, FS_Subset
<1>0. 0 \in N /\ \A x, y \in N : x + y \in N
  <2>1. N = Nat \/ N = Int
    OBVIOUS
  <2>2. QED  BY <2>1
<1>4. s # {}
  BY <1>0, <1>2, SumOfNothing
<1> DEFINE t == s \ {Taken(s)}
<1>5. t # s /\ t \subseteq s /\ Taken(s) \in S
  BY <1>3, <1>4, TakenIn
<1>6. SumFunctionOnSet(w, t) \in N
  BY <1>2, <1>3, <1>5
<1>7. SumFunctionOnSet(w, s) = w[Taken(s)] + SumFunctionOnSet(w, t)
  BY <1>3, <1>4, SumTakes
<1>8. w[Taken(s)] \in N /\ SumFunctionOnSet(w, s) \notin N
  BY <1>2, <1>5
<1> HIDE DEF t, F
<1>9. QED  BY <1>0, <1>6, <1>7, <1>8

(***************************************************************************)
(* Any element may be taken first.                                         *)
(***************************************************************************)
LEMMA SumWithout ==
  ASSUME NEW S, IsFiniteSet(S), NEW w, \A x \in S : w[x] \in Int, NEW y \in S
  PROVE  SumFunctionOnSet(w, S) = w[y] + SumFunctionOnSet(w, S \ {y})
<1> DEFINE Sum(s) == SumFunctionOnSet(w, s)
           F == {s \in SUBSET S : \E x \in s : Sum(s) # w[x] + Sum(s \ {x})}
<1>1. ASSUME NEW s \in SUBSET S PROVE Sum(s) \in Int /\ IsFiniteSet(s)
  BY FS_Subset, SumType, Int \in {Nat, Int}
<1>2. ASSUME NEW s \in SUBSET S, s # {} PROVE Taken(s) \in s /\ Sum(s) = w[Taken(s)] + Sum(s \ {Taken(s)})
  BY <1>1, <1>2, TakenIn, SumTakes
<1> HIDE DEF Sum
<1>3. F = {}
  <2>1. SUFFICES ASSUME F # {} PROVE FALSE
    OBVIOUS
  <2>2. PICK s \in F : \A t \in F : t \subseteq s => t = s
    <3>1. F \subseteq SUBSET S
      OBVIOUS
    <3> HIDE DEF F
    <3>2. QED  BY <2>1, <3>1, LeastSet
  <2>3. PICK x \in s : Sum(s) # w[x] + Sum(s \ {x})
    BY <2>2
  <2> DEFINE c == Taken(s)
             rest == s \ {c, x}
  <2>4. s \in SUBSET S /\ c \in s /\ Sum(s) = w[c] + Sum(s \ {c})
    BY <1>2, <2>2, <2>3
  <2>5. c # x
    BY <2>3, <2>4
  <2>6. Sum(s \ {c}) = w[x] + Sum(rest)
    <3>1. s \ {c} \notin F /\ x \in s \ {c} /\ (s \ {c}) \ {x} = rest
      BY <2>2, <2>4, <2>5
    <3>2. QED  BY <2>4, <3>1
  <2>7. Sum(s \ {x}) = w[c] + Sum(rest)
    <3>1. s \ {x} \notin F /\ c \in s \ {x} /\ (s \ {x}) \ {c} = rest
      BY <2>2, <2>3, <2>4, <2>5
    <3>2. QED  BY <2>4, <3>1
  <2>8. w[c] \in Int /\ w[x] \in Int /\ Sum(rest) \in Int
    BY <1>1, <2>4
  <2> HIDE DEF rest, c, F
  <2>9. QED  BY <2>3, <2>4, <2>6, <2>7, <2>8
<1>4. QED  BY <1>3 DEF Sum

(***************************************************************************)
(* An element that joins adds its weight.                                  *)
(***************************************************************************)
LEMMA SumWith ==
  ASSUME NEW S, IsFiniteSet(S), NEW w, NEW y, y \notin S, \A x \in S \cup {y} : w[x] \in Int
  PROVE  SumFunctionOnSet(w, S \cup {y}) = SumFunctionOnSet(w, S) + w[y]
<1> DEFINE T == S \cup {y}
<1>1. IsFiniteSet(T) /\ T \ {y} = S /\ y \in T /\ \A x \in T : w[x] \in Int
  BY FS_AddElement
<1>2. SumFunctionOnSet(w, S) \in Int
  BY SumType, Int \in {Nat, Int}
<1> HIDE DEF T
<1>3. SumFunctionOnSet(w, T) = w[y] + SumFunctionOnSet(w, S)
  BY <1>1, SumWithout
<1>4. w[y] \in Int
  BY <1>1
<1>5. QED  BY <1>2, <1>3, <1>4 DEF T

(***************************************************************************)
(* Only the weights of the elements summed up count.                       *)
(***************************************************************************)
LEMMA SumSame ==
  ASSUME NEW S, IsFiniteSet(S), NEW v, NEW w, \A x \in S : v[x] = w[x]
  PROVE  SumFunctionOnSet(v, S) = SumFunctionOnSet(w, S)
<1> DEFINE F == {s \in SUBSET S : SumFunctionOnSet(v, s) # SumFunctionOnSet(w, s)}
<1>1. SUFFICES ASSUME F # {} PROVE FALSE
  OBVIOUS
<1>2. PICK s \in F : \A t \in F : t \subseteq s => t = s
  <2>1. F \subseteq SUBSET S
    OBVIOUS
  <2> HIDE DEF F
  <2>2. QED  BY <1>1, <2>1, LeastSet
<1>3. IsFiniteSet(s) /\ s \subseteq S
  BY <1>2, FS_Subset
<1>4. s # {}
  BY <1>2, SumOfNothing
<1> DEFINE t == s \ {Taken(s)}
<1>5. t # s /\ t \subseteq s /\ Taken(s) \in S
  BY <1>3, <1>4, TakenIn
<1>6. SumFunctionOnSet(v, t) = SumFunctionOnSet(w, t)
  BY <1>2, <1>3, <1>5
<1>7. /\ SumFunctionOnSet(v, s) = v[Taken(s)] + SumFunctionOnSet(v, t)
      /\ SumFunctionOnSet(w, s) = w[Taken(s)] + SumFunctionOnSet(w, t)
  BY <1>3, <1>4, SumTakes
<1>8. QED  BY <1>2, <1>5, <1>6, <1>7

(***************************************************************************)
(* A function that gains one argument adds the value it has there.         *)
(***************************************************************************)
LEMMA SumExtended ==
  ASSUME NEW f, NEW g, NEW y, IsFiniteSet(DOMAIN f), y \notin DOMAIN f,
         DOMAIN g = DOMAIN f \cup {y}, g[y] \in Int,
         \A x \in DOMAIN f : g[x] = f[x] /\ f[x] \in Int
  PROVE  SumFunction(g) = SumFunction(f) + g[y]
<1> DEFINE S == DOMAIN f
<1>1. IsFiniteSet(S) /\ y \notin S /\ \A x \in S : g[x] = f[x]
  OBVIOUS
<1>2. \A x \in S \cup {y} : g[x] \in Int
  OBVIOUS
<1>3. SumFunction(g) = SumFunctionOnSet(g, S \cup {y}) /\ SumFunction(f) = SumFunctionOnSet(f, S)
  BY DEF SumFunction
<1> HIDE DEF S
<1>4. SumFunctionOnSet(g, S \cup {y}) = SumFunctionOnSet(g, S) + g[y]
  BY <1>1, <1>2, SumWith
<1>5. SumFunctionOnSet(g, S) = SumFunctionOnSet(f, S)
  BY <1>1, SumSame
<1>6. QED  BY <1>3, <1>4, <1>5

(***************************************************************************)
(* A finite set of numbers has a greatest and a least one.                 *)
(***************************************************************************)
LEMMA GreatestAndLeast ==
  ASSUME NEW S, S \in SUBSET Int, IsFiniteSet(S), S # {}
  PROVE  /\ \E x \in S : \A y \in S : y <= x
         /\ \E x \in S : \A y \in S : x <= y
<1> DEFINE Up(x) == {y \in S : x <= y}  Down(x) == {y \in S : y <= x}
           Ups == {Up(x) : x \in S}  Downs == {Down(x) : x \in S}
<1>0. \A U, F : IsFiniteSet(U) /\ F \subseteq SUBSET U /\ F # {}
                => \E s \in F : \A t \in F : t \subseteq s => t = s
  BY ONLY LeastSet
<1>1. IsFiniteSet(S)
  OBVIOUS
<1>2. PICK x \in S : \A t \in Ups : t \subseteq Up(x) => t = Up(x)
  <2>1. Ups \subseteq SUBSET S /\ Ups # {}
    OBVIOUS
  <2>2. \E s \in Ups : \A t \in Ups : t \subseteq s => t = s
    <3> HIDE DEF Ups
    <3>1. QED  BY ONLY <1>0, <1>1, <2>1
  <2> HIDE DEF Up
  <2>3. QED  BY <2>2
<1>3. PICK z \in S : \A t \in Downs : t \subseteq Down(z) => t = Down(z)
  <2>1. Downs \subseteq SUBSET S /\ Downs # {}
    OBVIOUS
  <2>2. \E s \in Downs : \A t \in Downs : t \subseteq s => t = s
    <3> HIDE DEF Downs
    <3>1. QED  BY ONLY <1>0, <1>1, <2>1
  <2> HIDE DEF Down
  <2>3. QED  BY <2>2
<1>4. ASSUME NEW y \in S PROVE y <= x
  <2> SUFFICES ASSUME x < y PROVE FALSE
    OBVIOUS
  <2>1. x \in Int /\ y \in Int
    OBVIOUS
  <2>2. \A v \in S : v \in Int /\ (y <= v => x <= v)
    BY <2>1
  <2>3. x <= x /\ ~(y <= x)
    BY <2>1
  <2>4. x \in Up(x) /\ x \notin Up(y)
    BY <2>3
  <2>5. Up(y) \subseteq Up(x)
    BY <2>2
  <2>6. QED  BY <1>2, <2>4, <2>5
<1>5. ASSUME NEW y \in S PROVE z <= y
  <2> SUFFICES ASSUME y < z PROVE FALSE
    OBVIOUS
  <2>1. z \in Int /\ y \in Int
    OBVIOUS
  <2>2. \A v \in S : v \in Int /\ (v <= y => v <= z)
    BY <2>1
  <2>3. z <= z /\ ~(z <= y)
    BY <2>1
  <2>4. z \in Down(z) /\ z \notin Down(y)
    BY <2>3
  <2>5. Down(y) \subseteq Down(z)
    BY <2>2
  <2>6. QED  BY <1>3, <2>4, <2>5
<1>6. QED  BY <1>4, <1>5
=============================================================================
