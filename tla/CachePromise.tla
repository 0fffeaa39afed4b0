---------------------------- MODULE CachePromise -----------------------------
(***************************************************************************)
(* What the cache promises its clients, whatever it is built from: a       *)
(* request asks a query, perhaps has the upstream make an answer, and gets *)
(* one: what its own upstream call came to, or an answer that an allowed   *)
(* query's request had made before.  It gets at most one, and keeps it.    *)
(* Engine and FrontDoor each implement this.                               *)
(***************************************************************************)
CONSTANTS
  Req,
  Query,
  None,      \* nothing asked, nothing got
  Allowed    \* pairs <<q, m>>: what was made for m may answer q

VARIABLES
  asked,     \* the query of each request
  made,      \* the requests whose upstream call made an answer that may be kept
  got        \* whose upstream call each request's answer came from

Init ==
  /\ asked = [r \in Req |-> None]
  /\ made = {}
  /\ got = [r \in Req |-> None]

Ask(r, q) ==
  /\ asked[r] = None
  /\ asked' = [asked EXCEPT ![r] = q]

\* r gets what was made for another request, or failing that, or by choice, the
\* outcome of a call of its own.
Get(r, b) ==
  /\ got[r] = None
  /\ got' = [got EXCEPT ![r] = b]

Make(r) == made' = made \cup {r}

\* The query is asked, and perhaps answered at once with something kept.
Start(r) ==
  /\ \E q \in Query :
       /\ Ask(r, q)
       /\ \/ UNCHANGED got
          \/ \E b \in made : <<q, asked[b]>> \in Allowed /\ Get(r, b)
  /\ UNCHANGED made

FromKept(r) ==
  /\ asked[r] # None
  /\ \E b \in made : <<asked[r], asked[b]>> \in Allowed /\ Get(r, b)
  /\ UNCHANGED <<asked, made>>

\* The request's own call, kept or not, and its answer at once or later.
FromUpstream(r) ==
  /\ asked[r] # None /\ got[r] = None
  /\ Make(r) \/ UNCHANGED made
  /\ Get(r, r) \/ UNCHANGED got
  /\ UNCHANGED asked

Next == \E r \in Req : Start(r) \/ FromKept(r) \/ FromUpstream(r)

Spec == Init /\ [][Next]_<<asked, made, got>>
=============================================================================
