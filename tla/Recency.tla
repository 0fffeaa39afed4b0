------------------------------- MODULE Recency -------------------------------
(***************************************************************************)
(* What a least-recently-used cache promises, without a list: a partial    *)
(* map, and for every two keys which of them was used less recently.       *)
(* Nothing here says how the order is kept; LRU is shown to implement it.  *)
(***************************************************************************)
EXTENDS Integers, FiniteSets

CONSTANTS Key, Value, Capacity

VARIABLES content,   \* the cached values, a function on a subset of Key
          older      \* <<a, b>> \in older: a was used less recently than b

vars == <<content, older>>

Cached == DOMAIN content

\* The order after k becomes the most recently used key of the set S.
UsedLast(k, S) ==
  {p \in older : p[1] \in S \ {k} /\ p[2] \in S \ {k}} \cup {<<x, k>> : x \in S \ {k}}

\* The key that every other cached key was used after.
Victim == CHOOSE k \in Cached : \A x \in Cached \ {k} : <<k, x>> \in older

Init == content = [k \in {} |-> k] /\ older = {}

Get(k) ==
  /\ k \in Cached
  /\ older' = UsedLast(k, Cached)
  /\ UNCHANGED content

Update(k, v) ==
  /\ k \in Cached
  /\ content' = [content EXCEPT ![k] = v]
  /\ older' = UsedLast(k, Cached)

\* Capacity <= 0 means unbounded.
HasRoom == Capacity <= 0 \/ Cardinality(Cached) < Capacity

Insert(k, v) ==
  /\ k \notin Cached
  /\ LET kept == IF HasRoom THEN Cached ELSE Cached \ {Victim}
     IN /\ content' = [x \in kept \cup {k} |-> IF x = k THEN v ELSE content[x]]
        /\ older' = UsedLast(k, kept)

Remove(k) ==
  /\ k \in Cached
  /\ content' = [x \in Cached \ {k} |-> content[x]]
  /\ older' = {p \in older : k \notin {p[1], p[2]}}

Next == \E k \in Key : \/ Get(k)
                       \/ Remove(k)
                       \/ \E v \in Value : Update(k, v) \/ Insert(k, v)

Spec == Init /\ [][Next]_vars
=============================================================================
