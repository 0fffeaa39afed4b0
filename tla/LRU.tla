-------------------------------- MODULE LRU --------------------------------
(***************************************************************************)
(* The L1 cache tier: internal/cache/exact, a fixed-capacity LRU made of a *)
(* doubly linked list and a map from a key to its list element.  The mutex *)
(* makes every operation one step.  A list element is identified with the  *)
(* key it holds: `ll` is the list, front first, and `items` gives the      *)
(* value stored in the element the map points to.                          *)
(***************************************************************************)
EXTENDS Integers, Sequences, SequencesExt

CONSTANTS Key, Value,
          Capacity     \* <= 0 disables eviction

ASSUME CapacityAssumption == Capacity \in Int

VARIABLES ll,          \* keys of the list elements, front = most recently used
          items        \* the map: a function from the keys it holds to values

vars == <<ll, items>>

Holds(k) == k \in DOMAIN items

\* Position of the element of key k in the list.
PosOf(k) == CHOOSE i \in 1..Len(ll) : ll[i] = k

MapUntouched(m, k) == m    \* a mutant: removeElement forgets the map

\* The map after removeElement deleted the key its element carried.
MapWithout(m, k) == [x \in DOMAIN m \ {k} |-> m[x]]

LeftInPlace(i) == ll       \* a mutant: a use does not move the element

MovedToFront(i) == Cons(ll[i], RemoveAt(ll, i))

Init == ll = <<>> /\ items = [k \in {} |-> k]

-----------------------------------------------------------------------------
\* Get: a hit moves the element to the front, a miss changes nothing.
Get(k) ==
  \/ /\ Holds(k)
     /\ ll' = MovedToFront(PosOf(k))
     /\ UNCHANGED items
  \/ ~Holds(k) /\ UNCHANGED vars

\* A mutant: the element is overwritten, not the value in it.
PutUpdateElement(k, v) ==
  /\ Holds(k)
  /\ ll' = MovedToFront(PosOf(k))
  /\ items' = [items EXCEPT ![k] = <<@, v>>]

\* Put on a key that is present: move to the front and overwrite.
PutUpdate(k, v) ==
  /\ Holds(k)
  /\ ll' = MovedToFront(PosOf(k))
  /\ items' = [items EXCEPT ![k] = v]

\* Put on a new key: push front, then drop the back element when the list has
\* become longer than a positive capacity.
OverflowsLate   == Capacity > 0 /\ Len(ll) > Capacity    \* a mutant: off by one

Overflows == Capacity > 0 /\ Len(ll) + 1 > Capacity

PutInsert(k, v) ==
  /\ ~Holds(k)
  /\ LET pushed == Cons(k, ll)
         added  == [x \in DOMAIN items \cup {k} |-> IF x = k THEN v ELSE items[x]]
         oldest == pushed[Len(pushed)]
     IN IF Overflows
        THEN ll' = RemoveAt(pushed, Len(pushed)) /\ items' = MapWithout(added, oldest)
        ELSE ll' = pushed /\ items' = added

Put(k, v) == PutUpdate(k, v) \/ PutInsert(k, v)

RemoveKey(k) ==
  \/ /\ Holds(k)
     /\ ll' = RemoveAt(ll, PosOf(k))
     /\ items' = MapWithout(items, k)
  \/ ~Holds(k) /\ UNCHANGED vars

\* Len reports the list's length, not the map's size.
LenOf == Len(ll)

Next == \E k \in Key : Get(k) \/ RemoveKey(k) \/ \E v \in Value : Put(k, v)

Spec == Init /\ [][Next]_vars

-----------------------------------------------------------------------------
(***************************************************************************)
(* The list is a list of distinct keys and the map a function into values. *)
(***************************************************************************)
TypeOK ==
  /\ ll \in Seq(Key)
  /\ DOMAIN items \subseteq Key
  /\ \A k \in DOMAIN items : items[k] \in Value

(***************************************************************************)
(* The two structures the mutex protects agree: each key of the map has    *)
(* exactly one list element, and no element is left in the list after its  *)
(* key left the map (removeElement, Put's two paths).                      *)
(***************************************************************************)
ListMatchesMap ==
  /\ IsInjective(ll)
  /\ Range(ll) = DOMAIN items

(***************************************************************************)
(* A positive capacity bounds what Len reports; zero or less never evicts  *)
(* (New's comment), so it bounds nothing.                                  *)
(***************************************************************************)
WithinCapacity == Capacity > 0 => LenOf <= Capacity

\* The inductive invariant: the bound alone is not one, since Put overwrites
\* without evicting when the map says the key has an element.
Inv == TypeOK /\ ListMatchesMap /\ WithinCapacity

-----------------------------------------------------------------------------
\* The promise: content is the map, and an element further back in the list is
\* one used less recently.
Promise == INSTANCE Recency WITH
  content <- items,
  older   <- {p \in Key \X Key : \E i, j \in 1..Len(ll) : i < j /\ p = <<ll[j], ll[i]>>}

(***************************************************************************)
(* The list implementation keeps exactly the abstract recency order: every *)
(* operation of exact.LRU is a step of Recency, so what is evicted is      *)
(* always the least recently used key.                                     *)
(***************************************************************************)
ImplementsRecency == Promise!Spec
=============================================================================
