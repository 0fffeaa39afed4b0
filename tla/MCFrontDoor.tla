---------------------------- MODULE MCFrontDoor -----------------------------
(***************************************************************************)
(* FrontDoor for TLC.  The cap on a body is 2: lengths 1 and 2 are within  *)
(* it, 3 is one past it and 4 more than that.  The text "q" is like "p"    *)
(* and like "s", which are not like each other.                            *)
(***************************************************************************)
EXTENDS FrontDoor, TLC

Near(a, b) == a = b \/ "q" \in {a, b}

Post(tenant, text, length, optOut) ==
  [post |-> TRUE, length |-> length, breaks |-> FALSE, kind |-> "chat",
   text |-> text, tenant |-> tenant, optOut |-> optOut]

Small   == Post("a", "p", 1, FALSE)
AtCap   == Post("a", "s", 2, FALSE)
Other   == Post("b", "q", 1, FALSE)
Opted   == Post("a", "p", 1, TRUE)
OptedB  == Post("b", "p", 1, TRUE)
OnePast == Post("a", "p", 3, FALSE)
Large   == Post("a", "p", 4, FALSE)
Broken  == [AtCap EXCEPT !.breaks = TRUE]
Stream  == [AtCap EXCEPT !.kind = "stream"]
Listing == [Small EXCEPT !.post = FALSE]

Bodies == {Small, AtCap, OnePast, Large, Broken, Stream, Listing, Other, Opted, OptedB}

Symmetry == Permutations(Req)
=============================================================================
