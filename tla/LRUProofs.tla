------------------------------ MODULE LRUProofs ------------------------------
(***************************************************************************)
(* Every behaviour of the L1 LRU keeps its list and its map in agreement,  *)
(* for any keys, values and capacity.                                      *)
(***************************************************************************)
EXTENDS LRU, Collections

-----------------------------------------------------------------------------
(***************************************************************************)
(* Agreement position by position is ListMatchesMap.                       *)
(***************************************************************************)
LEMMA AgreeIsMatch ==
  /\ ll \in Seq(Key) => (ListMatchesMap <=> Agree(ll, items))
  /\ ll' \in Seq(Key) => (ListMatchesMap' <=> Agree(ll', items'))
<1>1. ll \in Seq(Key) => DOMAIN ll = 1..Len(ll)
  BY LenProperties
<1>2. ll' \in Seq(Key) => DOMAIN ll' = 1..Len(ll')
  BY LenProperties
<1>3. ASSUME NEW l, NEW m, DOMAIN l = 1..Len(l)
      PROVE  (IsInjective(l) /\ Range(l) = DOMAIN m) <=> Agree(l, m)
  <2>1. IsInjective(l) <=> \A i, j \in 1..Len(l) : l[i] = l[j] => i = j
    BY <1>3 DEF IsInjective
  <2>2. Range(l) = DOMAIN m <=> \A k : k \in DOMAIN m <=> \E i \in 1..Len(l) : l[i] = k
    BY <1>3, Zenon DEF Range
  <2>3. QED  BY <2>1, <2>2 DEF Agree
<1>4. QED  BY <1>1, <1>2, <1>3 DEF ListMatchesMap

(***************************************************************************)
(* A key of the map has a list element, so PosOf finds it.                 *)
(***************************************************************************)
LEMMA PosOfFinds ==
  ASSUME ll \in Seq(Key), Agree(ll, items), NEW k, Holds(k)
  PROVE  PosOf(k) \in 1..Len(ll) /\ ll[PosOf(k)] = k
<1>1. \E i \in 1..Len(ll) : ll[i] = k
  BY DEF Agree, Holds
<1>2. QED  BY <1>1 DEF PosOf

(***************************************************************************)
(* removeElement takes one key from the list and the same key from the map.*)
(***************************************************************************)
LEMMA RemovedAgrees ==
  ASSUME NEW S, NEW s \in Seq(S), NEW i \in 1..Len(s), NEW f, Agree(s, f)
  PROVE  /\ RemoveAt(s, i) \in Seq(S)
         /\ Len(RemoveAt(s, i)) = Len(s) - 1
         /\ Agree(RemoveAt(s, i), MapWithout(f, s[i]))
<1> DEFINE r == RemoveAt(s, i)
           g == MapWithout(f, s[i])
<1>0. Len(s) \in Nat
  BY LenProperties
<1>1. /\ r \in Seq(S) /\ Len(r) = Len(s) - 1
      /\ \A j \in 1..Len(s)-1 : r[j] = IF j < i THEN s[j] ELSE s[j+1]
  BY RemoveAtFacts
<1>2. DOMAIN g = DOMAIN f \ {s[i]}
  BY DEF MapWithout
<1> HIDE DEF r, g
<1>3. ASSUME NEW a \in 1..Len(r), NEW b \in 1..Len(r), r[a] = r[b] PROVE a = b
  <2> DEFINE at(j) == IF j < i THEN j ELSE j+1
  <2>1. at(a) \in 1..Len(s) /\ at(b) \in 1..Len(s) /\ s[at(a)] = s[at(b)]
    BY <1>0, <1>1, <1>3
  <2>2. at(a) = at(b)
    BY <2>1 DEF Agree
  <2>3. QED  BY <2>2, <1>0, <1>1
<1>4. ASSUME NEW k PROVE k \in DOMAIN g <=> \E j \in 1..Len(r) : r[j] = k
  <2>1. ASSUME NEW j \in 1..Len(s), s[j] = k, k # s[i] PROVE \E h \in 1..Len(r) : r[h] = k
    <3>1. CASE j < i
      <4>1. j \in 1..Len(r) /\ r[j] = k
        BY <3>1, <2>1, <1>0, <1>1
      <4>2. QED  BY <4>1
    <3>2. CASE j > i
      <4>1. j-1 \in 1..Len(r) /\ r[j-1] = k
        BY <3>2, <2>1, <1>0, <1>1
      <4>2. QED  BY <4>1
    <3>3. QED  BY <3>1, <3>2, <2>1, <1>0
  <2>2. ASSUME NEW j \in 1..Len(r), r[j] = k
        PROVE  k # s[i] /\ \E h \in 1..Len(s) : s[h] = k
    BY <2>2, <1>0, <1>1 DEF Agree
  <2>3. QED  BY <2>1, <2>2, <1>2 DEF Agree
<1>5. Agree(r, g)
  BY <1>3, <1>4 DEF Agree
<1>6. QED  BY <1>1, <1>5 DEF r, g

-----------------------------------------------------------------------------
(***************************************************************************)
(* A new LRU is empty, so it starts in the invariant.                      *)
(***************************************************************************)
LEMMA InitInv == Init => Inv
<1> SUFFICES ASSUME Init PROVE Inv
  OBVIOUS
<1>1. ll = <<>> /\ ll \in Seq(Key) /\ Len(ll) = 0 /\ DOMAIN items = {}
  BY DEF Init
<1>2. TypeOK
  BY <1>1 DEF TypeOK
<1>3. Agree(ll, items)
  BY <1>1 DEF Agree
<1>4. ListMatchesMap
  BY <1>1, <1>3, AgreeIsMatch
<1>5. WithinCapacity
  BY <1>1, CapacityAssumption DEF WithinCapacity, LenOf
<1>6. QED  BY <1>2, <1>4, <1>5 DEF Inv

(***************************************************************************)
(* Get, Put and Remove each leave the list and the map in agreement, and   *)
(* Put's eviction keeps the list within the capacity.                      *)
(***************************************************************************)
LEMMA StepInv == Inv /\ [Next]_vars => Inv'
<1> SUFFICES ASSUME Inv, [Next]_vars PROVE Inv'
  OBVIOUS
<1>0. /\ TypeOK /\ ll \in Seq(Key) /\ Len(ll) \in Nat
      /\ Agree(ll, items)
      /\ Capacity \in Int /\ (Capacity > 0 => Len(ll) <= Capacity)
  BY AgreeIsMatch, LenProperties, CapacityAssumption
     DEF Inv, TypeOK, WithinCapacity, LenOf
<1>1. ASSUME ll' \in Seq(Key), Agree(ll', items'),
             \A x \in DOMAIN items' : x \in Key /\ items'[x] \in Value,
             Capacity > 0 => Len(ll') <= Capacity
      PROVE  Inv'
  <2>1. ListMatchesMap'
    BY <1>1, AgreeIsMatch
  <2>2. QED  BY <1>1, <2>1 DEF Inv, TypeOK, WithinCapacity, LenOf
<1>2. ASSUME NEW k \in Key, Holds(k), ll' = MovedToFront(PosOf(k)),
             DOMAIN items' = DOMAIN items, \A x \in DOMAIN items' : items'[x] \in Value
      PROVE  Inv'
  <2>1. PosOf(k) \in 1..Len(ll)
    BY <1>0, <1>2, PosOfFinds
  <2>2. ll' \in Seq(Key) /\ Len(ll') = Len(ll) /\ Agree(ll', items)
    BY <1>0, <1>2, <2>1, MovedAgrees DEF MovedToFront
  <2>3. Agree(ll', items')
    BY <1>2, <2>2 DEF Agree
  <2>4. QED  BY <1>0, <1>1, <1>2, <2>2, <2>3 DEF TypeOK
<1>3. ASSUME NEW k \in Key, Get(k) PROVE Inv'
  <2>1. CASE UNCHANGED vars
    BY <2>1, <1>0, <1>1 DEF vars, TypeOK
  <2>2. CASE Holds(k) /\ ll' = MovedToFront(PosOf(k)) /\ UNCHANGED items
    BY <2>2, <1>0, <1>2 DEF TypeOK
  <2>3. QED  BY <1>3, <2>1, <2>2 DEF Get
<1>4. ASSUME NEW k \in Key, RemoveKey(k) PROVE Inv'
  <2>1. CASE UNCHANGED vars
    BY <2>1, <1>0, <1>1 DEF vars, TypeOK
  <2>2. CASE Holds(k) /\ ll' = RemoveAt(ll, PosOf(k)) /\ items' = MapWithout(items, k)
    <3>1. PosOf(k) \in 1..Len(ll) /\ ll[PosOf(k)] = k
      BY <1>0, <2>2, PosOfFinds
    <3>2. ll' \in Seq(Key) /\ Len(ll') = Len(ll) - 1 /\ Agree(ll', items')
      BY <1>0, <2>2, <3>1, RemovedAgrees
    <3>3. \A x \in DOMAIN items' : x \in Key /\ items'[x] \in Value
      BY <1>0, <2>2 DEF MapWithout, TypeOK
    <3>4. QED  BY <1>0, <1>1, <3>2, <3>3
  <2>3. QED  BY <1>4, <2>1, <2>2 DEF RemoveKey
<1>5. ASSUME NEW k \in Key, NEW v \in Value, PutUpdate(k, v) PROVE Inv'
  <2>1. /\ Holds(k) /\ ll' = MovedToFront(PosOf(k))
        /\ items' = [items EXCEPT ![k] = v]
    BY <1>5 DEF PutUpdate
  <2>2. \A x \in DOMAIN items' : items'[x] \in Value
    BY <2>1, <1>0 DEF TypeOK
  <2>3. QED  BY <2>1, <2>2, <1>2
<1>6. ASSUME NEW k \in Key, NEW v \in Value, PutInsert(k, v) PROVE Inv'
  <2> DEFINE pushed == Cons(k, ll)
             added  == [x \in DOMAIN items \cup {k} |-> IF x = k THEN v ELSE items[x]]
             n      == Len(pushed)
  <2>1. pushed \in Seq(Key) /\ n = Len(ll) + 1 /\ Agree(pushed, added)
    <3>1. k \notin DOMAIN items /\ DOMAIN added = DOMAIN items \cup {k}
      BY <1>6 DEF PutInsert, Holds
    <3> HIDE DEF added
    <3>2. QED  BY <1>0, <3>1, PushedAgrees
  <2>2. \A x \in DOMAIN added : x \in Key /\ added[x] \in Value
    BY <1>0 DEF TypeOK
  <2>3. CASE Overflows
    <3>1. ll' = RemoveAt(pushed, n) /\ items' = MapWithout(added, pushed[n])
      BY <1>6, <2>3 DEF PutInsert
    <3> HIDE DEF pushed, added
    <3>2. n \in 1..Len(pushed) /\ n = Len(pushed)
      BY <2>1, <1>0
    <3>3. ll' \in Seq(Key) /\ Len(ll') = n - 1 /\ Agree(ll', items')
      BY <2>1, <3>1, <3>2, RemovedAgrees
    <3>4. \A x \in DOMAIN items' : x \in Key /\ items'[x] \in Value
      BY <2>2, <3>1 DEF MapWithout
    <3>5. Capacity > 0 => Len(ll') <= Capacity
      BY <1>0, <2>1, <3>3
    <3>6. QED  BY <1>1, <3>3, <3>4, <3>5
  <2>4. CASE ~Overflows
    <3>1. ll' = pushed /\ items' = added
      BY <1>6, <2>4 DEF PutInsert
    <3> HIDE DEF added
    <3>2. Capacity > 0 => Len(ll') <= Capacity
      BY <1>0, <2>1, <2>4, <3>1 DEF Overflows
    <3>3. QED  BY <1>1, <2>1, <2>2, <3>1, <3>2
  <2>5. QED  BY <2>3, <2>4
<1>7. CASE UNCHANGED vars
  BY <1>7, <1>0, <1>1 DEF vars, TypeOK
<1>8. CASE Next
  BY <1>8, <1>3, <1>4, <1>5, <1>6 DEF Next, Put
<1>9. QED  BY <1>7, <1>8

(***************************************************************************)
(* The list and the map of exact.LRU stay well typed.                      *)
(***************************************************************************)
THEOREM TypeCorrect == Spec => []TypeOK
<1>1. Inv => TypeOK
  BY DEF Inv
<1>2. QED  BY InitInv, StepInv, <1>1, PTL DEF Spec

(***************************************************************************)
(* Every key of the map has exactly one list element, and no list element  *)
(* outlives its key: removeElement and Put never leave one without the     *)
(* other.                                                                  *)
(***************************************************************************)
THEOREM ListAndMapAgree == Spec => []ListMatchesMap
<1>1. Inv => ListMatchesMap
  BY DEF Inv
<1>2. QED  BY InitInv, StepInv, <1>1, PTL DEF Spec

(***************************************************************************)
(* Len never exceeds a positive capacity, whatever sequence of operations. *)
(***************************************************************************)
THEOREM CapacityIsABound == Spec => []WithinCapacity
<1>1. Inv => WithinCapacity
  BY DEF Inv
<1>2. QED  BY InitInv, StepInv, <1>1, PTL DEF Spec

-----------------------------------------------------------------------------
\* The refinement.  The pairs of a list: the first used less recently.
OlderOf(s) == {p \in Key \X Key : \E i, j \in 1..Len(s) : i < j /\ p = <<s[j], s[i]>>}

Distinct(s) == \A i, j \in 1..Len(s) : s[i] = s[j] => i = j

(***************************************************************************)
(* A pair is older when its first stands further back.                     *)
(***************************************************************************)
LEMMA OlderIs ==
  ASSUME NEW s, NEW a \in Key, NEW b \in Key
  PROVE  <<a, b>> \in OlderOf(s) <=> \E i, j \in 1..Len(s) : i < j /\ s[j] = a /\ s[i] = b
  BY DEF OlderOf

(***************************************************************************)
(* Sets of pairs of keys are equal when they have the same pairs.          *)
(***************************************************************************)
LEMMA SamePairs ==
  ASSUME NEW A, NEW B, A \subseteq Key \X Key, B \subseteq Key \X Key,
         \A a, b \in Key : <<a, b>> \in A <=> <<a, b>> \in B
  PROVE  A = B
<1>1. ASSUME NEW p \in Key \X Key PROVE p \in A <=> p \in B
  <2>1. PICK a, b \in Key : p = <<a, b>>
    OBVIOUS
  <2>2. QED  BY <2>1
<1>2. QED  BY <1>1

(***************************************************************************)
(* Moving an element to the front makes it the most recent and keeps the   *)
(* order of the others.                                                    *)
(***************************************************************************)
LEMMA MovedOlder ==
  ASSUME NEW s \in Seq(Key), NEW i \in 1..Len(s), Distinct(s), NEW m, Moved(m, s, i),
         NEW a \in Key, NEW b \in Key
  PROVE  <<a, b>> \in OlderOf(m) <=>
           \/ <<a, b>> \in OlderOf(s) /\ a # s[i] /\ b # s[i]
           \/ b = s[i] /\ a # s[i] /\ \E h \in 1..Len(s) : s[h] = a
<1>0. Len(s) \in Nat /\ Len(m) = Len(s)
  BY LenProperties DEF Moved
<1>1. \A j \in 1..Len(s) : m[j] = IF j = 1 THEN s[i] ELSE IF j <= i THEN s[j-1] ELSE s[j]
  BY DEF Moved
<1>2. ASSUME <<a, b>> \in OlderOf(m)
      PROVE  \/ <<a, b>> \in OlderOf(s) /\ a # s[i] /\ b # s[i]
             \/ b = s[i] /\ a # s[i] /\ \E h \in 1..Len(s) : s[h] = a
  <2>1. PICK h, j \in 1..Len(m) : h < j /\ m[j] = a /\ m[h] = b
    BY <1>2, OlderIs
  <2> DEFINE src(x) == IF x <= i THEN x - 1 ELSE x
  <2>2. j # 1 /\ src(j) \in 1..Len(s) /\ src(j) # i /\ a = s[src(j)]
    BY <1>0, <1>1, <2>1
  <2>3. a # s[i]
    BY <2>2 DEF Distinct
  <2>4. CASE h = 1
    BY <1>0, <1>1, <2>1, <2>2, <2>3, <2>4
  <2>5. CASE h # 1
    <3>1. src(h) \in 1..Len(s) /\ src(h) # i /\ b = s[src(h)] /\ src(h) < src(j)
      BY <1>0, <1>1, <2>1, <2>5
    <3>2. b # s[i]
      BY <3>1 DEF Distinct
    <3> HIDE DEF src
    <3>3. <<a, b>> \in OlderOf(s)
      BY <2>2, <3>1, OlderIs
    <3>4. QED  BY <2>3, <3>2, <3>3
  <2>6. QED  BY <2>4, <2>5
<1> DEFINE dst(x) == IF x < i THEN x + 1 ELSE x
<1>3. ASSUME NEW x \in 1..Len(s), x # i
      PROVE  dst(x) \in 2..Len(s) /\ m[dst(x)] = s[x]
  BY <1>0, <1>1, <1>3
<1>4. ASSUME <<a, b>> \in OlderOf(s), a # s[i], b # s[i] PROVE <<a, b>> \in OlderOf(m)
  <2>1. PICK h, j \in 1..Len(s) : h < j /\ s[j] = a /\ s[h] = b
    BY <1>4, OlderIs
  <2>2. h # i /\ j # i /\ dst(h) < dst(j)
    BY <1>0, <1>4, <2>1
  <2>3. dst(h) \in 1..Len(m) /\ dst(j) \in 1..Len(m) /\ m[dst(h)] = b /\ m[dst(j)] = a
    BY <1>0, <1>3, <2>1, <2>2
  <2> HIDE DEF dst
  <2>4. QED  BY <2>2, <2>3, OlderIs
<1>5. ASSUME b = s[i], a # s[i], NEW h \in 1..Len(s), s[h] = a PROVE <<a, b>> \in OlderOf(m)
  <2>1. h # i /\ dst(h) \in 2..Len(s) /\ m[dst(h)] = a
    BY <1>3, <1>5
  <2>2. 1 \in 1..Len(m) /\ m[1] = b
    BY <1>0, <1>1, <1>5
  <2> HIDE DEF dst
  <2>3. dst(h) \in 1..Len(m) /\ 1 < dst(h)
    BY <1>0, <2>1
  <2>4. QED  BY <2>1, <2>2, <2>3, OlderIs
<1>6. QED  BY <1>2, <1>4, <1>5

(***************************************************************************)
(* A pushed element is more recent than every other.                       *)
(***************************************************************************)
LEMMA PushedOlder ==
  ASSUME NEW s \in Seq(Key), NEW k \in Key, NEW c, Pushed(c, k, s),
         NEW a \in Key, NEW b \in Key
  PROVE  <<a, b>> \in OlderOf(c) <=>
           <<a, b>> \in OlderOf(s) \/ (b = k /\ \E h \in 1..Len(s) : s[h] = a)
<1>0. Len(s) \in Nat /\ Len(c) = Len(s) + 1
  BY LenProperties DEF Pushed
<1>1. \A j \in 1..(Len(s) + 1) : c[j] = IF j = 1 THEN k ELSE s[j-1]
  BY DEF Pushed
<1>2. ASSUME <<a, b>> \in OlderOf(c)
      PROVE  <<a, b>> \in OlderOf(s) \/ (b = k /\ \E h \in 1..Len(s) : s[h] = a)
  <2>1. PICK h, j \in 1..Len(c) : h < j /\ c[j] = a /\ c[h] = b
    BY <1>2, OlderIs
  <2>2. j - 1 \in 1..Len(s) /\ a = s[j-1]
    BY <1>0, <1>1, <2>1
  <2>3. CASE h = 1
    BY <1>0, <1>1, <2>1, <2>2, <2>3
  <2>4. CASE h # 1
    <3>1. h - 1 \in 1..Len(s) /\ b = s[h-1] /\ h - 1 < j - 1
      BY <1>0, <1>1, <2>1, <2>4
    <3>2. QED  BY <2>2, <3>1, OlderIs
  <2>5. QED  BY <2>3, <2>4
<1>3. ASSUME <<a, b>> \in OlderOf(s) PROVE <<a, b>> \in OlderOf(c)
  <2>1. PICK h, j \in 1..Len(s) : h < j /\ s[j] = a /\ s[h] = b
    BY <1>3, OlderIs
  <2>2. /\ h + 1 \in 1..Len(c) /\ j + 1 \in 1..Len(c) /\ h + 1 < j + 1
        /\ c[h+1] = b /\ c[j+1] = a
    BY <1>0, <1>1, <2>1
  <2>3. QED  BY <2>2, OlderIs
<1>4. ASSUME b = k, NEW h \in 1..Len(s), s[h] = a PROVE <<a, b>> \in OlderOf(c)
  <2>1. 1 \in 1..Len(c) /\ c[1] = b /\ h + 1 \in 1..Len(c) /\ c[h+1] = a /\ 1 < h + 1
    BY <1>0, <1>1, <1>4
  <2>2. QED  BY <2>1, OlderIs
<1>5. QED  BY <1>2, <1>3, <1>4

(***************************************************************************)
(* Removing an element keeps the order of the others.                      *)
(***************************************************************************)
LEMMA RemovedOlder ==
  ASSUME NEW s \in Seq(Key), NEW i \in 1..Len(s), Distinct(s),
         NEW a \in Key, NEW b \in Key
  PROVE  <<a, b>> \in OlderOf(RemoveAt(s, i)) <=>
           <<a, b>> \in OlderOf(s) /\ a # s[i] /\ b # s[i]
<1> DEFINE r == RemoveAt(s, i)
<1>0. Len(s) \in Nat /\ Len(r) = Len(s) - 1
  BY LenProperties, RemoveAtFacts
<1>1. \A j \in 1..Len(s)-1 : r[j] = IF j < i THEN s[j] ELSE s[j+1]
  BY RemoveAtFacts
<1> HIDE DEF r
<1> DEFINE src(x) == IF x < i THEN x ELSE x + 1
           dst(x) == IF x < i THEN x ELSE x - 1
<1>2. ASSUME <<a, b>> \in OlderOf(r)
      PROVE  <<a, b>> \in OlderOf(s) /\ a # s[i] /\ b # s[i]
  <2>1. PICK h, j \in 1..Len(r) : h < j /\ r[j] = a /\ r[h] = b
    BY <1>2, OlderIs
  <2>2. /\ src(h) \in 1..Len(s) /\ src(j) \in 1..Len(s) /\ src(h) < src(j)
        /\ src(h) # i /\ src(j) # i /\ s[src(h)] = b /\ s[src(j)] = a
    BY <1>0, <1>1, <2>1
  <2> HIDE DEF src
  <2>3. a # s[i] /\ b # s[i]
    BY <2>2 DEF Distinct
  <2>4. QED  BY <2>2, <2>3, OlderIs
<1>3. ASSUME <<a, b>> \in OlderOf(s), a # s[i], b # s[i] PROVE <<a, b>> \in OlderOf(r)
  <2>1. PICK h, j \in 1..Len(s) : h < j /\ s[j] = a /\ s[h] = b
    BY <1>3, OlderIs
  <2>2. h # i /\ j # i
    BY <1>3, <2>1
  <2>3. /\ dst(h) \in 1..Len(r) /\ dst(j) \in 1..Len(r) /\ dst(h) < dst(j)
        /\ r[dst(h)] = b /\ r[dst(j)] = a
    BY <1>0, <1>1, <2>1, <2>2
  <2> HIDE DEF dst
  <2>4. QED  BY <2>3, OlderIs
<1>4. QED  BY <1>2, <1>3 DEF r

\* Recency's UsedLast, of any order o.
UsedLastOf(o, k, S) ==
  {p \in o : p[1] \in S \ {k} /\ p[2] \in S \ {k}} \cup {<<x, k>> : x \in S \ {k}}

(***************************************************************************)
(* The pairs after a use.                                                  *)
(***************************************************************************)
LEMMA UsedIs ==
  ASSUME NEW o, NEW k, NEW S, NEW a, NEW b
  PROVE  <<a, b>> \in UsedLastOf(o, k, S) <=>
           \/ <<a, b>> \in o /\ a \in S \ {k} /\ b \in S \ {k}
           \/ b = k /\ a \in S \ {k}
  BY DEF UsedLastOf

(***************************************************************************)
(* Orders are of keys, before and after a use.                             *)
(***************************************************************************)
LEMMA OrdersOfKeys ==
  ASSUME NEW s, NEW k \in Key, NEW S \in SUBSET Key
  PROVE  OlderOf(s) \subseteq Key \X Key /\ UsedLastOf(OlderOf(s), k, S) \subseteq Key \X Key
  BY DEF OlderOf, UsedLastOf

(***************************************************************************)
(* Only keys of the list are in its order.                                 *)
(***************************************************************************)
LEMMA OlderAreHeld ==
  ASSUME NEW s, NEW f, Agree(s, f), NEW a \in Key, NEW b \in Key, <<a, b>> \in OlderOf(s)
  PROVE  a \in DOMAIN f /\ b \in DOMAIN f
<1>1. PICK h, j \in 1..Len(s) : h < j /\ s[j] = a /\ s[h] = b
  BY OlderIs
<1>2. QED  BY <1>1 DEF Agree

(***************************************************************************)
(* A use of the key at i.                                                  *)
(***************************************************************************)
LEMMA MoveIsUse ==
  ASSUME NEW s \in Seq(Key), NEW f, Agree(s, f), DOMAIN f \subseteq Key, NEW i \in 1..Len(s)
  PROVE  OlderOf(Cons(s[i], RemoveAt(s, i))) = UsedLastOf(OlderOf(s), s[i], DOMAIN f)
<1> DEFINE m == Cons(s[i], RemoveAt(s, i))
           k == s[i]
<1>1. Moved(m, s, i) /\ Distinct(s) /\ k \in Key
  BY MovedFacts, ElementOfSeq DEF Agree, Distinct
<1> HIDE DEF m
<1>2. ASSUME NEW a \in Key, NEW b \in Key
      PROVE  <<a, b>> \in OlderOf(m) <=> <<a, b>> \in UsedLastOf(OlderOf(s), k, DOMAIN f)
  <2>1. <<a, b>> \in OlderOf(m) <=>
          \/ <<a, b>> \in OlderOf(s) /\ a # k /\ b # k
          \/ b = k /\ a # k /\ \E h \in 1..Len(s) : s[h] = a
    BY <1>1, MovedOlder
  <2>2. (\E h \in 1..Len(s) : s[h] = a) <=> a \in DOMAIN f
    BY DEF Agree
  <2>3. <<a, b>> \in OlderOf(s) => a \in DOMAIN f /\ b \in DOMAIN f
    BY OlderAreHeld
  <2> HIDE DEF k
  <2>4. QED  BY <2>1, <2>2, <2>3, UsedIs
<1>3. OlderOf(m) = UsedLastOf(OlderOf(s), k, DOMAIN f)
  <2> DEFINE A == OlderOf(m)
             B == UsedLastOf(OlderOf(s), k, DOMAIN f)
  <2>1. A \subseteq Key \X Key /\ B \subseteq Key \X Key
    BY <1>1, OrdersOfKeys
  <2>2. \A a, b \in Key : <<a, b>> \in A <=> <<a, b>> \in B
    BY <1>2
  <2> HIDE DEF A, B
  <2>3. A = B
    BY <2>1, <2>2, SamePairs
  <2>4. QED  BY <2>3 DEF A, B
<1>4. QED  BY <1>3 DEF m

(***************************************************************************)
(* A push of a new key, with room for it.                                  *)
(***************************************************************************)
LEMMA PushIsUse ==
  ASSUME NEW s \in Seq(Key), NEW f, Agree(s, f), DOMAIN f \subseteq Key,
         NEW k \in Key, k \notin DOMAIN f
  PROVE  OlderOf(Cons(k, s)) = UsedLastOf(OlderOf(s), k, DOMAIN f)
<1>1. ASSUME NEW a \in Key, NEW b \in Key
      PROVE  <<a, b>> \in OlderOf(Cons(k, s)) <=> <<a, b>> \in UsedLastOf(OlderOf(s), k, DOMAIN f)
  <2>1. <<a, b>> \in OlderOf(Cons(k, s)) <=>
          <<a, b>> \in OlderOf(s) \/ (b = k /\ \E h \in 1..Len(s) : s[h] = a)
    <3>1. Pushed(Cons(k, s), k, s)
      BY ConsFacts
    <3>2. QED  BY <3>1, PushedOlder
  <2>2. (\E h \in 1..Len(s) : s[h] = a) <=> a \in DOMAIN f
    BY DEF Agree
  <2>3. <<a, b>> \in OlderOf(s) => a \in DOMAIN f /\ b \in DOMAIN f
    BY OlderAreHeld
  <2>4. QED  BY <2>1, <2>2, <2>3, UsedIs
<1> DEFINE A == OlderOf(Cons(k, s))
           B == UsedLastOf(OlderOf(s), k, DOMAIN f)
<1>2. A \subseteq Key \X Key /\ B \subseteq Key \X Key
  BY OrdersOfKeys
<1>3. \A a, b \in Key : <<a, b>> \in A <=> <<a, b>> \in B
  BY <1>1
<1> HIDE DEF A, B
<1>4. A = B
  BY <1>2, <1>3, SamePairs
<1>5. QED  BY <1>4 DEF A, B

(***************************************************************************)
(* A push of a new key whose list then loses its last element.             *)
(***************************************************************************)
LEMMA EvictIsUse ==
  ASSUME NEW s \in Seq(Key), NEW f, Agree(s, f), DOMAIN f \subseteq Key,
         NEW k \in Key, k \notin DOMAIN f, NEW n, n = Len(s), n > 0
  PROVE  OlderOf(RemoveAt(Cons(k, s), n + 1)) = UsedLastOf(OlderOf(s), k, DOMAIN f \ {s[n]})
<1> DEFINE c == Cons(k, s)
           v == s[n]
<1>0. n \in Nat
  BY LenProperties
<1>1. c \in Seq(Key) /\ Pushed(c, k, s)
  BY ConsFacts
<1>2. n + 1 \in 1..Len(c) /\ c[n + 1] = v /\ n \in 1..Len(s)
  BY <1>0, <1>1 DEF Pushed
<1>3. v \in DOMAIN f
  BY <1>2 DEF Agree
<1>4. Distinct(c)
  <2> DEFINE g == [x \in DOMAIN f \cup {k} |-> x]
  <2>1. DOMAIN g = DOMAIN f \cup {k}
    OBVIOUS
  <2> HIDE DEF g
  <2>2. Agree(c, g)
    BY <2>1, PushedAgrees
  <2>3. QED  BY <2>2 DEF Agree, Distinct
<1> HIDE DEF c
<1>5. ASSUME NEW a \in Key, NEW b \in Key
      PROVE  <<a, b>> \in OlderOf(RemoveAt(c, n + 1)) <=>
               <<a, b>> \in UsedLastOf(OlderOf(s), k, DOMAIN f \ {v})
  <2>1. <<a, b>> \in OlderOf(RemoveAt(c, n + 1)) <=> <<a, b>> \in OlderOf(c) /\ a # v /\ b # v
    BY <1>1, <1>2, <1>4, RemovedOlder
  <2>2. <<a, b>> \in OlderOf(c) <=>
          <<a, b>> \in OlderOf(s) \/ (b = k /\ \E h \in 1..Len(s) : s[h] = a)
    BY <1>1, PushedOlder
  <2>3. (\E h \in 1..Len(s) : s[h] = a) <=> a \in DOMAIN f
    BY DEF Agree
  <2>4. <<a, b>> \in OlderOf(s) => a \in DOMAIN f /\ b \in DOMAIN f
    BY OlderAreHeld
  <2> HIDE DEF v
  <2>5. QED  BY <1>3, <2>1, <2>2, <2>3, <2>4, UsedIs
<1>6. OlderOf(RemoveAt(c, n + 1)) = UsedLastOf(OlderOf(s), k, DOMAIN f \ {v})
  <2> DEFINE A == OlderOf(RemoveAt(c, n + 1))
             B == UsedLastOf(OlderOf(s), k, DOMAIN f \ {v})
  <2>1. A \subseteq Key \X Key /\ B \subseteq Key \X Key
    <3>1. DOMAIN f \ {v} \in SUBSET Key
      OBVIOUS
    <3> HIDE DEF v
    <3>2. QED  BY <3>1, OrdersOfKeys
  <2>2. \A a, b \in Key : <<a, b>> \in A <=> <<a, b>> \in B
    BY <1>5
  <2> HIDE DEF A, B
  <2>3. A = B
    BY <2>1, <2>2, SamePairs
  <2>4. QED  BY <2>3 DEF A, B
<1>7. QED  BY <1>6 DEF c

(***************************************************************************)
(* The last element is the one every other was used after, and no other    *)
(* element is.                                                             *)
(***************************************************************************)
LEMMA LastIsVictim ==
  ASSUME ll \in Seq(Key), Agree(ll, items), DOMAIN items \subseteq Key, Len(ll) > 0
  PROVE  Promise!Victim = ll[Len(ll)]
<1> DEFINE n == Len(ll)
           P(x) == \A y \in DOMAIN items \ {x} : <<x, y>> \in OlderOf(ll)
<1>0. n \in Nat /\ n \in 1..Len(ll) /\ ll[n] \in DOMAIN items
  BY LenProperties DEF Agree
<1>1. P(ll[n])
  <2> SUFFICES ASSUME NEW y \in DOMAIN items \ {ll[n]} PROVE <<ll[n], y>> \in OlderOf(ll)
    OBVIOUS
  <2>1. PICK h \in 1..Len(ll) : ll[h] = y
    BY DEF Agree
  <2>2. h < n
    BY <1>0, <2>1
  <2>3. QED  BY <1>0, <2>1, <2>2, OlderIs
<1>2. ASSUME NEW x \in DOMAIN items, P(x) PROVE x = ll[n]
  <2> SUFFICES ASSUME x # ll[n] PROVE FALSE
    OBVIOUS
  <2>1. <<x, ll[n]>> \in OlderOf(ll)
    BY <1>0, <1>2
  <2>2. PICK h, j \in 1..Len(ll) : h < j /\ ll[j] = x /\ ll[h] = ll[n]
    BY <1>0, <2>1, OlderIs
  <2>3. h = n
    BY <1>0, <2>2 DEF Agree
  <2>4. QED  BY <1>0, <2>2, <2>3
<1>3. Promise!Victim = CHOOSE x \in DOMAIN items : P(x)
  BY DEF Promise!Victim, Promise!Cached, OlderOf
<1> HIDE DEF P
<1>4. QED  BY <1>0, <1>1, <1>2, <1>3

(***************************************************************************)
(* The order Recency has, and what its actions then say.                   *)
(***************************************************************************)
LEMMA InOrder ==
  /\ {p \in Key \X Key : \E i, j \in 1..Len(ll) : i < j /\ p = <<ll[j], ll[i]>>} = OlderOf(ll)
  /\ \A k, S : Promise!UsedLast(k, S) = UsedLastOf(OlderOf(ll), k, S)
  BY DEF OlderOf, UsedLastOf, Promise!UsedLast

(***************************************************************************)
(* A hit and an update are uses.                                           *)
(***************************************************************************)
LEMMA UseKeeps ==
  ASSUME Inv, NEW k \in Key, Holds(k), ll' = MovedToFront(PosOf(k))
  PROVE  OlderOf(ll') = Promise!UsedLast(k, DOMAIN items)
<1>1. ll \in Seq(Key) /\ Agree(ll, items) /\ DOMAIN items \subseteq Key
  BY AgreeIsMatch DEF Inv, TypeOK
<1>2. PosOf(k) \in 1..Len(ll) /\ ll[PosOf(k)] = k
  BY <1>1, PosOfFinds
<1>3. OlderOf(ll') = UsedLastOf(OlderOf(ll), ll[PosOf(k)], DOMAIN items)
  BY <1>1, <1>2, MoveIsUse DEF MovedToFront
<1>4. QED  BY <1>2, <1>3, InOrder

(***************************************************************************)
(* A removal is Recency's.                                                 *)
(***************************************************************************)
LEMMA RemoveKeeps ==
  ASSUME Inv, NEW k \in Key, Holds(k), ll' = RemoveAt(ll, PosOf(k)), items' = MapWithout(items, k)
  PROVE  Promise!Remove(k)
<1>1. ll \in Seq(Key) /\ Agree(ll, items) /\ Distinct(ll)
  BY AgreeIsMatch DEF Inv, TypeOK, Agree, Distinct
<1>2. PosOf(k) \in 1..Len(ll) /\ ll[PosOf(k)] = k
  BY <1>1, PosOfFinds
<1> DEFINE A == OlderOf(ll')
           B == {p \in OlderOf(ll) : k \notin {p[1], p[2]}}
<1>3. A \subseteq Key \X Key /\ B \subseteq Key \X Key
  BY DEF OlderOf
<1>4. \A a, b \in Key : <<a, b>> \in A <=> <<a, b>> \in B
  <2> SUFFICES ASSUME NEW a \in Key, NEW b \in Key PROVE <<a, b>> \in A <=> <<a, b>> \in B
    OBVIOUS
  <2>1. <<a, b>> \in A <=> <<a, b>> \in OlderOf(ll) /\ a # k /\ b # k
    BY <1>1, <1>2, RemovedOlder
  <2>2. QED  BY <2>1
<1> HIDE DEF A, B
<1>5. A = B
  BY <1>3, <1>4, SamePairs
<1>6. OlderOf(ll') = {p \in OlderOf(ll) : k \notin {p[1], p[2]}}
  BY <1>5 DEF A, B
<1>7. QED  BY <1>6 DEF Promise!Remove, Promise!Cached, OlderOf, MapWithout, Holds

(***************************************************************************)
(* An insertion evicts what Recency does, when Recency does.               *)
(***************************************************************************)
LEMMA InsertKeeps ==
  ASSUME Inv, NEW k \in Key, NEW v \in Value, PutInsert(k, v)
  PROVE  Promise!Insert(k, v)
<1> DEFINE pushed == Cons(k, ll)
           added  == [x \in DOMAIN items \cup {k} |-> IF x = k THEN v ELSE items[x]]
           n      == Len(ll)
           D      == DOMAIN items
<1>1. /\ ll \in Seq(Key) /\ Agree(ll, items) /\ D \subseteq Key /\ k \notin D /\ n \in Nat
      /\ (Capacity > 0 => n <= Capacity) /\ Capacity \in Int
  BY AgreeIsMatch, LenProperties, CapacityAssumption
     DEF Inv, TypeOK, PutInsert, Holds, WithinCapacity, LenOf
<1>2. Len(pushed) = n + 1 /\ pushed[n + 1] = IF n = 0 THEN k ELSE ll[n]
  <2>1. Pushed(pushed, k, ll)
    BY <1>1, ConsFacts
  <2>2. QED  BY <1>1, <2>1 DEF Pushed
<1>3. Promise!HasRoom <=> ~Overflows
  <2>1. Cardinality(DOMAIN items) = Len(ll)
    BY <1>1, AsManyKeys
  <2>2. Promise!HasRoom <=> Capacity <= 0 \/ Len(ll) < Capacity
    <3>1. Promise!HasRoom <=> Capacity <= 0 \/ Cardinality(DOMAIN items) < Capacity
      BY DEF Promise!HasRoom, Promise!Cached, Promise!Cardinality, Cardinality
    <3>2. QED  BY <2>1, <3>1
  <2>3. Overflows <=> ~(Capacity <= 0 \/ Len(ll) < Capacity)
    BY <1>1 DEF Overflows
  <2>4. QED  BY <2>2, <2>3
<1>4. CASE Overflows
  <2>1. ll' = RemoveAt(pushed, n + 1) /\ items' = MapWithout(added, pushed[n + 1])
    BY <1>2, <1>4 DEF PutInsert
  <2>2. n > 0
    BY <1>1, <1>4 DEF Overflows
  <2>3. Promise!Victim = ll[n] /\ pushed[n + 1] = ll[n]
    BY <1>1, <1>2, <2>2, LastIsVictim
  <2>4. ll[n] # k
    BY <1>1, <2>2 DEF Agree
  <2>5. items' = [x \in (D \ {ll[n]}) \cup {k} |-> IF x = k THEN v ELSE items[x]]
    BY <2>1, <2>3, <2>4 DEF MapWithout
  <2>6. OlderOf(ll') = UsedLastOf(OlderOf(ll), k, D \ {ll[n]})
    <3> HIDE DEF n
    <3>1. QED  BY <1>1, <2>1, <2>2, EvictIsUse DEF n
  <2>7. OlderOf(ll') = Promise!UsedLast(k, D \ {Promise!Victim})
    BY <2>3, <2>6, InOrder
  <2>8. ~Promise!HasRoom /\ k \notin Promise!Cached
    BY <1>1, <1>3, <1>4 DEF Promise!Cached
  <2>9. QED  BY <2>3, <2>5, <2>7, <2>8 DEF Promise!Insert, Promise!Cached, OlderOf
<1>5. CASE ~Overflows
  <2>1. ll' = pushed /\ items' = added
    BY <1>5 DEF PutInsert
  <2>2. OlderOf(ll') = UsedLastOf(OlderOf(ll), k, D)
    BY <1>1, <2>1, PushIsUse
  <2>3. OlderOf(ll') = Promise!UsedLast(k, D)
    BY <2>2, InOrder
  <2>4. Promise!HasRoom /\ k \notin Promise!Cached
    BY <1>1, <1>3, <1>5 DEF Promise!Cached
  <2>5. QED  BY <2>1, <2>3, <2>4 DEF Promise!Insert, Promise!Cached, OlderOf
<1>6. QED  BY <1>4, <1>5

\* The variables of Recency, as LRU maps them.
PromiseVars == <<items, OlderOf(ll)>>

(***************************************************************************)
(* Every step is one of Recency, or none.                                  *)
(***************************************************************************)
LEMMA StepKeeps == Inv /\ [Next]_vars => [Promise!Next]_PromiseVars
<1> SUFFICES ASSUME Inv, [Next]_vars PROVE [Promise!Next]_PromiseVars
  OBVIOUS
<1>1. CASE UNCHANGED vars
  BY <1>1 DEF vars, PromiseVars, OlderOf
<1>2. ASSUME NEW k \in Key, Get(k) PROVE Promise!Get(k) \/ UNCHANGED vars
  <2>1. CASE Holds(k) /\ ll' = MovedToFront(PosOf(k)) /\ UNCHANGED items
    <3>1. OlderOf(ll') = Promise!UsedLast(k, DOMAIN items)
      BY <2>1, UseKeeps
    <3>2. QED  BY <2>1, <3>1 DEF Promise!Get, Promise!Cached, OlderOf, Holds
  <2>2. QED  BY <1>2, <2>1 DEF Get
<1>3. ASSUME NEW k \in Key, NEW v \in Value, PutUpdate(k, v) PROVE Promise!Update(k, v)
  <2>1. OlderOf(ll') = Promise!UsedLast(k, DOMAIN items)
    BY <1>3, UseKeeps DEF PutUpdate
  <2>2. QED  BY <1>3, <2>1 DEF PutUpdate, Promise!Update, Promise!Cached, OlderOf, Holds
<1>4. ASSUME NEW k \in Key, RemoveKey(k) PROVE Promise!Remove(k) \/ UNCHANGED vars
  BY <1>4, RemoveKeeps DEF RemoveKey
<1>5. ASSUME NEW k \in Key, NEW v \in Value, PutInsert(k, v) PROVE Promise!Insert(k, v)
  BY <1>5, InsertKeeps
<1>6. QED  BY <1>1, <1>2, <1>3, <1>4, <1>5 DEF Next, Put, Promise!Next

(***************************************************************************)
(* The list implementation keeps exactly the abstract recency order: every *)
(* operation of exact.LRU is a step of Recency, so what is evicted is      *)
(* always the least recently used key, for every capacity.                 *)
(***************************************************************************)
THEOREM RecencyIsKept == Spec => ImplementsRecency
<1>1. Init => Promise!Init
  <2> SUFFICES ASSUME Init PROVE Promise!Init
    OBVIOUS
  <2>1. Len(ll) = 0 /\ items = [k \in {} |-> k]
    BY DEF Init
  <2>2. OlderOf(ll) = {}
    BY <2>1 DEF OlderOf
  <2>3. QED  BY <2>1, <2>2 DEF Promise!Init, OlderOf
<1>2. Inv /\ [Next]_vars
        => [Promise!Next]_<<items, {p \in Key \X Key :
                                     \E i, j \in 1..Len(ll) : i < j /\ p = <<ll[j], ll[i]>>}>>
  BY StepKeeps DEF PromiseVars, OlderOf
<1>3. QED  BY <1>1, <1>2, InitInv, StepInv, PTL
           DEF Spec, ImplementsRecency, Promise!Spec, Promise!vars
=============================================================================
