---------------------------- MODULE NearestIndex ----------------------------
(***************************************************************************)
(* What the L2 index promises the engine: an Add, a Search and a Len each  *)
(* happen at one moment between call and return.  A search answers with    *)
(* the nearest entry of its model and scopes, the oldest of equally near   *)
(* ones; nothing is ever removed.                                          *)
(***************************************************************************)
EXTENDS Integers, Sequences

CONSTANTS
  Call,           \* callers, each with one call
  Jobs,           \* what one may ask: [op, entry, query]
  Matches(_, _),  \* whether an entry is of a query's model and scopes
  Sim(_, _),      \* similarity of a query and an entry
  NoVector(_)     \* a query with no direction finds nothing

VARIABLES
  job,       \* what each caller asks
  entries,   \* oldest first
  result     \* of each call: a position, a length, 0 for nothing, -1 before

Init == job \in [Call -> Jobs] /\ entries = <<>> /\ result = [c \in Call |-> -1]

Returns(c, value) ==
  /\ result[c] = -1
  /\ result' = [result EXCEPT ![c] = value]
  /\ UNCHANGED job

Candidates(q) == IF NoVector(q) THEN {} ELSE {i \in 1..Len(entries) : Matches(q, entries[i])}

Nearer(q, i, j) ==
  \/ Sim(q, entries[i]) > Sim(q, entries[j])
  \/ Sim(q, entries[i]) = Sim(q, entries[j]) /\ i <= j

Add(c) ==
  /\ job[c].op = "add"
  /\ entries' = Append(entries, job[c].entry)
  /\ Returns(c, 0)

Search(c) ==
  LET q == job[c].query IN
  /\ job[c].op = "search"
  /\ \/ Candidates(q) = {} /\ Returns(c, 0)
     \/ \E i \in Candidates(q) : (\A j \in Candidates(q) : Nearer(q, i, j)) /\ Returns(c, i)
  /\ UNCHANGED entries

Count(c) ==
  /\ job[c].op = "len"
  /\ Returns(c, Len(entries))
  /\ UNCHANGED entries

Next == \E c \in Call : Add(c) \/ Search(c) \/ Count(c)

Spec == Init /\ [][Next]_<<job, entries, result>>
=============================================================================
