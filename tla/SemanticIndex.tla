--------------------------- MODULE SemanticIndex ----------------------------
(***************************************************************************)
(* internal/cache/semantic: MemoryIndex under its RWMutex.  A search scans *)
(* the entries one at a time under the read lock, an Add appends under the *)
(* write lock; PostgresIndex answers the same question with a query.       *)
(*                                                                         *)
(* A vector is a length and a direction; the zero vector has none.         *)
(***************************************************************************)
EXTENDS Integers, Sequences, FiniteSets

CONSTANTS
  Call,           \* callers, each with one call
  Jobs,           \* what a caller may ask: [op, entry, query]
  None,           \* no caller, no direction
  Cosine(_, _)    \* of two directions

ASSUME IndexAssumption ==
  /\ None \notin Call
  /\ \A j \in Jobs : j.op \in {"add", "search", "len"}

VARIABLES
  job,
  entries,
  readers,   \* callers that hold the read lock
  writer,    \* the caller that holds, or waits to hold, the write lock
  pc,        \* "call", "scan", "append", "unlock" or "done"
  at,        \* the next entry of a scan
  best       \* the best so far, 0 for none

vars == <<job, entries, readers, writer, pc, at, best>>

Init ==
  /\ job \in [Call -> Jobs]
  /\ entries = <<>>
  /\ readers = {} /\ writer = None
  /\ pc = [c \in Call |-> "call"]
  /\ at = [c \in Call |-> 1]
  /\ best = [c \in Call |-> 0]

Goto(c, label) == pc' = [pc EXCEPT ![c] = label]

-----------------------------------------------------------------------------
\* scopeAllowed, and a mutant of it: no scope at all means every scope.
ScopeListed(scope, allowed) == scope \in allowed

ScopeAllowed(scope, allowed) == allowed = {} \/ scope \in allowed

Matches(q, e) == e.model = q.model /\ ScopeAllowed(e.scope, q.scopes)

NoVector(q) == q.vec.dir = None

\* cosineWithQueryNorm: two lengths, or a zero candidate, are unlike anything.
Sim(q, e) == IF q.vec.length # e.vec.length \/ e.vec.dir = None THEN 0
             ELSE Cosine(q.vec.dir, e.vec.dir)

ASSUME SimAssumption ==
  \A j, k \in Jobs : j.op = "search" /\ ~NoVector(j.query) /\ k.op = "add"
                      => Sim(j.query, k.entry) \in Int

-----------------------------------------------------------------------------
\* sync.RWMutex: readers together, a writer alone; one that waits for the
\* readers to leave keeps new ones out.
RLock(c) ==
  /\ pc[c] = "call" /\ job[c].op # "add"
  /\ writer = None
  /\ readers' = readers \cup {c}
  /\ Goto(c, IF job[c].op = "search" THEN "scan" ELSE "unlock")
  /\ UNCHANGED <<job, entries, writer, at, best>>

Lock(c) ==
  /\ pc[c] = "call" /\ job[c].op = "add"
  /\ writer = None
  /\ writer' = c
  /\ Goto(c, "append")
  /\ UNCHANGED <<job, entries, readers, at, best>>

\* A mutant: the append does not wait for the scans.
AppendEarly(c) ==
  /\ pc[c] = "append"
  /\ entries' = Append(entries, job[c].entry)
  /\ Goto(c, "unlock")
  /\ UNCHANGED <<job, readers, writer, at, best>>

AppendEntry(c) ==
  /\ pc[c] = "append" /\ readers = {}
  /\ entries' = Append(entries, job[c].entry)
  /\ Goto(c, "unlock")
  /\ UNCHANGED <<job, readers, writer, at, best>>

\* Strictly better only, so that the first of equals stays.
Better(c, i) ==
  LET q == job[c].query IN
  /\ Matches(q, entries[i])
  /\ best[c] = 0 \/ Sim(q, entries[i]) > Sim(q, entries[best[c]])

Scan(c) ==
  /\ pc[c] = "scan" /\ ~NoVector(job[c].query) /\ at[c] <= Len(entries)
  /\ best' = [best EXCEPT ![c] = IF Better(c, at[c]) THEN at[c] ELSE @]
  /\ at' = [at EXCEPT ![c] = @ + 1]
  /\ UNCHANGED <<job, entries, readers, writer, pc>>

\* A mutant: the early return for a zero vector keeps the lock.
ScanEndsLocked(c) ==
  /\ pc[c] = "scan" /\ at[c] > Len(entries)
  /\ Goto(c, "unlock")
  /\ UNCHANGED <<job, entries, readers, writer, at, best>>

ScanEnds(c) ==
  /\ pc[c] = "scan" /\ (NoVector(job[c].query) \/ at[c] > Len(entries))
  /\ Goto(c, "unlock")
  /\ UNCHANGED <<job, entries, readers, writer, at, best>>

\* A mutant without the deferred RUnlock.
UnlockWriters(c) ==
  /\ pc[c] = "unlock"
  /\ writer' = IF writer = c THEN None ELSE writer
  /\ best' = [best EXCEPT ![c] = IF job[c].op = "len" THEN Len(entries) ELSE @]
  /\ Goto(c, "done")
  /\ UNCHANGED <<job, entries, readers, at>>

Unlock(c) ==
  /\ pc[c] = "unlock"
  /\ readers' = readers \ {c}
  /\ writer' = IF writer = c THEN None ELSE writer
  /\ best' = [best EXCEPT ![c] = IF job[c].op = "len" THEN Len(entries) ELSE @]
  /\ Goto(c, "done")
  /\ UNCHANGED <<job, entries, at>>

Step(c) == RLock(c) \/ Lock(c) \/ AppendEntry(c) \/ Scan(c) \/ ScanEnds(c) \/ Unlock(c)

Finished == (\A c \in Call : pc[c] = "done") /\ UNCHANGED vars

Next == (\E c \in Call : Step(c)) \/ Finished

Spec == Init /\ [][Next]_vars

\* Every caller goes on; the mutex admits whoever can enter.
FairSpec == Spec /\ \A c \in Call : WF_vars(Step(c))

-----------------------------------------------------------------------------
\* The query of the database: the scopes are a condition only where there are
\* any, and one row is taken by distance.  The distance of a zero vector is no
\* number and passes no threshold.  The table has an HNSW index, whose search is
\* approximate and filtered afterwards: what comes back is one of these rows,
\* not always the nearest, or none.
Row(q, e) == e.model = q.model /\ (q.scopes # {} => e.scope \in q.scopes)

QueryRows(q, seen) == {i \in seen : Row(q, entries[i]) /\ entries[i].vec.dir # None}

(***************************************************************************)
(* Every variable has its type, and whoever reads or writes the entries    *)
(* holds the lock for it.                                                  *)
(***************************************************************************)
TypeOK ==
  /\ job \in [Call -> Jobs]
  /\ \A i \in 1..Len(entries) : \E j \in Jobs : j.op = "add" /\ entries[i] = j.entry
  /\ pc \in [Call -> {"call", "scan", "append", "unlock", "done"}]
  /\ readers = {c \in Call : pc[c] \in {"scan", "unlock"} /\ job[c].op # "add"}
  /\ writer \in Call \cup {None}
  /\ \A c \in Call : /\ pc[c] = "scan" => job[c].op = "search"
                     /\ pc[c] = "append" => job[c].op = "add"
                     /\ pc[c] \in {"append", "unlock"} /\ job[c].op = "add" => writer = c
  /\ at \in [Call -> Nat] /\ best \in [Call -> Nat]

(***************************************************************************)
(* Each call takes effect at one moment: an Add when it appends, a search  *)
(* and a Len when they let go of the lock, although a search looks at one  *)
(* entry after another while others wait to append.                        *)
(***************************************************************************)
Returned(c) == pc[c] = "done" \/ (pc[c] = "unlock" /\ job[c].op = "add")

Promise ==
  INSTANCE NearestIndex WITH
    result <- [c \in Call |-> IF Returned(c) THEN best[c] ELSE -1]

ActsAtOnce == Promise!Spec

(***************************************************************************)
(* The backends ask for the same entries, and the database finds no more:  *)
(* where its query can return a row nearer than unlike, the scan of the    *)
(* same entries found one at least as near; and what the scan found so is  *)
(* a row the query can return (Search of both).  The converse is open, the *)
(* query may miss the nearest.                                             *)
(***************************************************************************)
ScanNeverWorse ==
  \A c \in Call : pc[c] = "done" /\ job[c].op = "search" /\ ~NoVector(job[c].query) =>
    LET q    == job[c].query
        rows == QueryRows(q, 1..(at[c] - 1))
    IN /\ \A i \in rows : Sim(q, entries[i]) > 0 =>
            best[c] # 0 /\ Sim(q, entries[i]) <= Sim(q, entries[best[c]])
       /\ best[c] # 0 /\ Sim(q, entries[best[c]]) > 0 => best[c] \in rows

(***************************************************************************)
(* Every call returns: no search waits for ever behind writers, nor a      *)
(* writer behind searches, nor either behind one that left early.          *)
(***************************************************************************)
EveryCallReturns == \A c \in Call : <>(pc[c] = "done")
=============================================================================
