------------------------ MODULE SemanticIndexProofs -------------------------
(***************************************************************************)
(* The in-memory index is atomic although a search looks at one entry      *)
(* after another, and a finished search found what the database would:     *)
(* for any number of callers, any jobs and any similarity.                 *)
(***************************************************************************)
EXTENDS SemanticIndex, SequenceTheorems, FiniteSetTheorems, TLAPS

Labels == {"call", "scan", "append", "unlock", "done"}

Reading(c) == pc[c] \in {"scan", "unlock"} /\ job[c].op # "add"

(***************************************************************************)
(* Where a caller goes next.                                               *)
(***************************************************************************)
LEMMA GotoFacts ==
  ASSUME TypeOK, NEW c \in Call, NEW l \in Labels, Goto(c, l)
  PROVE  /\ pc' \in [Call -> Labels] /\ pc'[c] = l
         /\ \A d \in Call : d # c => pc'[d] = pc[d]
  BY DEF TypeOK, Goto, Labels

(***************************************************************************)
(* The job of a caller is one of three.                                    *)
(***************************************************************************)
LEMMA JobFacts ==
  ASSUME TypeOK, NEW c \in Call
  PROVE  job[c] \in Jobs /\ job[c].op \in {"add", "search", "len"}
  BY IndexAssumption DEF TypeOK

\* The parts of TypeOK.
Locked ==
  /\ readers = {c \in Call : Reading(c)}
  /\ writer \in Call \cup {None}
  /\ \A c \in Call : /\ pc[c] = "scan" => job[c].op = "search"
                     /\ pc[c] = "append" => job[c].op = "add"
                     /\ pc[c] \in {"append", "unlock"} /\ job[c].op = "add" => writer = c

IsEntry(e) == \E j \in Jobs : j.op = "add" /\ e = j.entry

Typed ==
  /\ job \in [Call -> Jobs] /\ pc \in [Call -> Labels]
  /\ \A i \in 1..Len(entries) : IsEntry(entries[i])
  /\ at \in [Call -> Nat] /\ best \in [Call -> Nat]

(***************************************************************************)
(* TypeOK in these parts.                                                  *)
(***************************************************************************)
LEMMA TypeParts == TypeOK <=> Typed /\ Locked
  BY DEF TypeOK, Typed, Locked, Labels, Reading, IsEntry

\* What the type of the entries leaves out.
EntriesSeq == entries \in Seq({j.entry : j \in {k \in Jobs : k.op = "add"}})

(***************************************************************************)
(* Every step keeps the types.                                             *)
(***************************************************************************)
LEMMA NextTyped == TypeOK /\ EntriesSeq /\ [Next]_vars => Typed' /\ EntriesSeq'
<1> SUFFICES ASSUME TypeOK, EntriesSeq, [Next]_vars PROVE Typed' /\ EntriesSeq'
  OBVIOUS
<1> DEFINE Kind == {j.entry : j \in {k \in Jobs : k.op = "add"}}
<1>0. Typed /\ Len(entries) \in Nat /\ entries \in Seq(Kind)
  BY TypeParts, LenProperties DEF EntriesSeq
<1>1. ASSUME NEW c \in Call, RLock(c) \/ Lock(c) PROVE Typed' /\ EntriesSeq'
  <2>1. PICK l \in Labels : Goto(c, l)
    BY <1>1 DEF RLock, Lock, Labels
  <2>2. pc' \in [Call -> Labels]
    BY <2>1, GotoFacts
  <2>3. UNCHANGED <<job, entries, at, best>>
    BY <1>1 DEF RLock, Lock
  <2>4. QED  BY <1>0, <2>2, <2>3 DEF Typed, EntriesSeq
<1>2. ASSUME NEW c \in Call, AppendEntry(c) PROVE Typed' /\ EntriesSeq'
  <2>1. pc' \in [Call -> Labels]
    BY <1>2, GotoFacts DEF AppendEntry, Labels
  <2>2. job[c].op = "add" /\ job[c] \in Jobs
    BY <1>2, JobFacts DEF AppendEntry, TypeOK
  <2>3. entries' = Append(entries, job[c].entry) /\ job[c].entry \in Kind
    BY <1>2, <2>2 DEF AppendEntry
  <2> HIDE DEF Kind
  <2>4. entries' \in Seq(Kind)
    BY <1>0, <2>3, AppendProperties
  <2>5. \A i \in 1..Len(entries') : entries'[i] \in Kind
    BY <2>4, ElementOfSeq
  <2>6. \A i \in 1..Len(entries') : IsEntry(entries'[i])
    BY <2>5 DEF IsEntry, Kind
  <2>7. QED  BY <1>0, <1>2, <2>1, <2>4, <2>6 DEF AppendEntry, Typed, EntriesSeq, Kind
<1>3. ASSUME NEW c \in Call, Scan(c) PROVE Typed' /\ EntriesSeq'
  BY <1>0, <1>3 DEF Scan, Typed, EntriesSeq
<1>4. ASSUME NEW c \in Call, ScanEnds(c) PROVE Typed' /\ EntriesSeq'
  <2>1. pc' \in [Call -> Labels]
    BY <1>4, GotoFacts DEF ScanEnds, Labels
  <2>2. QED  BY <1>0, <1>4, <2>1 DEF ScanEnds, Typed, EntriesSeq
<1>5. ASSUME NEW c \in Call, Unlock(c) PROVE Typed' /\ EntriesSeq'
  <2>1. pc' \in [Call -> Labels]
    BY <1>5, GotoFacts DEF Unlock, Labels
  <2>2. QED  BY <1>0, <1>5, <2>1 DEF Unlock, Typed, EntriesSeq
<1>6. CASE UNCHANGED vars
  BY <1>0, <1>6 DEF vars, Typed, EntriesSeq
<1>7. QED  BY <1>1, <1>2, <1>3, <1>4, <1>5, <1>6 DEF Next, Step, Finished

(***************************************************************************)
(* And the discipline of the lock: whoever reads holds it, whoever writes  *)
(* holds it alone.                                                         *)
(***************************************************************************)
LEMMA NextLocked == TypeOK /\ [Next]_vars => Locked'
<1> SUFFICES ASSUME TypeOK, [Next]_vars PROVE Locked'
  OBVIOUS
<1>0. Locked /\ pc \in [Call -> Labels] /\ None \notin Call
  BY TypeParts, IndexAssumption DEF Typed
<1>1. ASSUME NEW c \in Call, RLock(c) PROVE Locked'
  <2>1. job[c].op \in {"search", "len"}
    BY <1>1, JobFacts DEF RLock
  <2>2. QED  BY <1>0, <1>1, <2>1 DEF RLock, Goto, Locked, Reading, Labels
<1>2. ASSUME NEW c \in Call, Lock(c) PROVE Locked'
  BY <1>0, <1>2 DEF Lock, Goto, Locked, Reading, Labels
<1>3. ASSUME NEW c \in Call, AppendEntry(c) PROVE Locked'
  <2>1. job[c].op = "add"
    BY <1>0, <1>3 DEF AppendEntry, Locked
  <2>2. QED  BY <1>0, <1>3, <2>1 DEF AppendEntry, Goto, Locked, Reading, Labels
<1>4. ASSUME NEW c \in Call, Scan(c) PROVE Locked'
  BY <1>0, <1>4 DEF Scan, Locked, Reading
<1>5. ASSUME NEW c \in Call, ScanEnds(c) PROVE Locked'
  <2>1. job[c].op # "add"
    BY <1>0, <1>5 DEF ScanEnds, Locked
  <2>2. QED  BY <1>0, <1>5, <2>1 DEF ScanEnds, Goto, Locked, Reading, Labels
<1>6. ASSUME NEW c \in Call, Unlock(c) PROVE Locked'
  BY <1>0, <1>6 DEF Unlock, Goto, Locked, Reading, Labels
<1>7. CASE UNCHANGED vars
  BY <1>0, <1>7 DEF vars, Locked, Reading
<1>8. QED  BY <1>1, <1>2, <1>3, <1>4, <1>5, <1>6, <1>7 DEF Next, Step, Finished

(***************************************************************************)
(* Every variable has its type, and whoever reads or writes the entries    *)
(* holds the lock for it.                                                  *)
(***************************************************************************)
LEMMA TypeStep == TypeOK /\ EntriesSeq /\ [Next]_vars => TypeOK' /\ EntriesSeq'
  BY NextTyped, NextLocked DEF TypeOK, Typed, Locked, Labels, Reading, IsEntry

(***************************************************************************)
(* It starts typed.                                                        *)
(***************************************************************************)
LEMMA InitType == Init => TypeOK /\ EntriesSeq
  BY IndexAssumption DEF Init, TypeOK, EntriesSeq

(***************************************************************************)
(* Every variable has its type, and whoever reads or writes the entries    *)
(* holds the lock for it.                                                  *)
(***************************************************************************)
THEOREM TypeCorrect == Spec => []TypeOK
  BY InitType, TypeStep, PTL DEF Spec

-----------------------------------------------------------------------------
\* b is the nearest of the first n entries, the oldest of equals; 0 if none.
Nearest(q, n, b) ==
  /\ b \in 0..n
  /\ b = 0 => \A j \in 1..n : ~Matches(q, entries[j])
  /\ b # 0 => /\ Matches(q, entries[b])
              /\ \A j \in 1..n : Matches(q, entries[j]) =>
                   \/ Sim(q, entries[b]) > Sim(q, entries[j])
                   \/ Sim(q, entries[b]) = Sim(q, entries[j]) /\ b <= j

\* The strengthening: what a search knows of the entries it has passed.
ScanSound(c) ==
  /\ pc[c] = "call" => at[c] = 1 /\ best[c] = 0
  /\ job[c].op = "add" => best[c] = 0
  /\ job[c].op = "search" /\ pc[c] \in {"scan", "unlock"} =>
       /\ at[c] \in 1..(Len(entries) + 1)
       /\ NoVector(job[c].query) => best[c] = 0
       /\ ~NoVector(job[c].query) => Nearest(job[c].query, at[c] - 1, best[c])
       /\ pc[c] = "unlock" => NoVector(job[c].query) \/ at[c] = Len(entries) + 1

Scans == \A c \in Call : ScanSound(c)

\* The next entry is strictly nearer.
Takes(q, n, b) == /\ Matches(q, entries[n + 1])
                  /\ b = 0 \/ Sim(q, entries[n + 1]) > Sim(q, entries[b])

(***************************************************************************)
(* One more entry: taken when it is strictly nearer,                       *)
(***************************************************************************)
LEMMA NearestTaken ==
  ASSUME NEW q, NEW n \in Nat, NEW b \in Nat, Nearest(q, n, b), Takes(q, n, b),
         \A i \in 1..(n + 1) : Sim(q, entries[i]) \in Int
  PROVE  Nearest(q, n + 1, n + 1)
<1>1. \A j \in 1..(n + 1) : j \in 1..n \/ j = n + 1
  OBVIOUS
<1>2. ASSUME NEW j \in 1..n, Matches(q, entries[j])
      PROVE  Sim(q, entries[n + 1]) > Sim(q, entries[j])
  <2>1. b # 0 /\ b \in 1..n
    BY <1>2 DEF Nearest
  <2>2. Sim(q, entries[b]) >= Sim(q, entries[j])
    BY <1>2, <2>1 DEF Nearest
  <2>3. Sim(q, entries[n + 1]) > Sim(q, entries[b])
    BY <2>1 DEF Takes
  <2>4. QED  BY <2>1, <2>2, <2>3
<1>3. QED  BY <1>1, <1>2 DEF Nearest, Takes

(***************************************************************************)
(* and passed over otherwise.                                              *)
(***************************************************************************)
LEMMA NearestPassed ==
  ASSUME NEW q, NEW n \in Nat, NEW b \in Nat, Nearest(q, n, b), ~Takes(q, n, b),
         \A i \in 1..(n + 1) : Sim(q, entries[i]) \in Int
  PROVE  Nearest(q, n + 1, b)
<1>1. \A j \in 1..(n + 1) : j \in 1..n \/ j = n + 1
  OBVIOUS
<1>2. CASE b = 0
  BY <1>1, <1>2 DEF Nearest, Takes
<1>3. CASE b # 0
  <2>1. b \in 1..n /\ Matches(q, entries[b])
    BY <1>3 DEF Nearest
  <2>2. Matches(q, entries[n + 1]) =>
          \/ Sim(q, entries[b]) > Sim(q, entries[n + 1])
          \/ Sim(q, entries[b]) = Sim(q, entries[n + 1]) /\ b <= n + 1
    BY <1>3, <2>1 DEF Takes
  <2>3. QED  BY <1>1, <1>3, <2>1, <2>2 DEF Nearest
<1>4. QED  BY <1>2, <1>3

(***************************************************************************)
(* Every step keeps what the searches know; an append waits for them.      *)
(***************************************************************************)
LEMMA NextScans == TypeOK /\ EntriesSeq /\ Scans /\ [Next]_vars => Scans'
<1> SUFFICES ASSUME TypeOK, EntriesSeq, Scans, [Next]_vars, NEW d \in Call PROVE ScanSound(d)'
  BY DEF Scans
<1>0. /\ ScanSound(d) /\ job[d].op \in {"add", "search", "len"} /\ Len(entries) \in Nat
      /\ Typed /\ Locked
  BY TypeParts, JobFacts, LenProperties DEF Scans, EntriesSeq
<1>1. ASSUME NEW c \in Call, c # d, UNCHANGED <<job, entries, at, best>>, pc'[d] = pc[d]
      PROVE  ScanSound(d)'
  BY <1>0, <1>1 DEF ScanSound, Nearest
<1>2. ASSUME NEW c \in Call, c # d, NEW l, Goto(c, l) PROVE pc'[d] = pc[d]
  BY <1>0, <1>2 DEF Goto, Typed
<1>3. ASSUME NEW c \in Call, RLock(c) PROVE ScanSound(d)'
  <2>1. CASE c # d
    BY <1>1, <1>2, <1>3, <2>1 DEF RLock
  <2>2. CASE c = d
    <3>1. /\ at[d] = 1 /\ best[d] = 0 /\ pc[d] = "call" /\ job[d].op # "add"
          /\ UNCHANGED <<job, entries, at, best>>
      BY <1>0, <1>3, <2>2 DEF RLock, ScanSound
    <3>2. pc'[d] = IF job[d].op = "search" THEN "scan" ELSE "unlock"
      BY <1>0, <1>3, <2>2 DEF RLock, Goto, Typed
    <3>3. Nearest(job[d].query, 0, 0)'
      BY DEF Nearest
    <3>4. QED  BY <1>0, <3>1, <3>2, <3>3 DEF ScanSound
  <2>3. QED  BY <2>1, <2>2
<1>4. ASSUME NEW c \in Call, Lock(c) PROVE ScanSound(d)'
  <2>1. CASE c # d
    BY <1>1, <1>2, <1>4, <2>1 DEF Lock
  <2>2. CASE c = d
    <3>1. pc'[d] = "append" /\ UNCHANGED <<job, at, best>>
      BY <1>0, <1>4, <2>2 DEF Lock, Goto, Typed
    <3>2. QED  BY <1>0, <3>1 DEF ScanSound
  <2>3. QED  BY <2>1, <2>2
<1>5. ASSUME NEW c \in Call, AppendEntry(c) PROVE ScanSound(d)'
  <2>1. ~Reading(d) /\ UNCHANGED <<job, at, best>>
    BY <1>0, <1>5 DEF AppendEntry, Locked
  <2>2. job[d].op = "search" => pc[d] \notin {"scan", "unlock"}
    BY <1>0, <2>1 DEF Reading
  <2>3. CASE c # d
    BY <1>0, <1>2, <1>5, <2>1, <2>2, <2>3 DEF AppendEntry, ScanSound
  <2>4. CASE c = d
    <3>1. pc'[d] = "unlock" /\ job[d].op = "add"
      BY <1>0, <1>5, <2>4 DEF AppendEntry, Goto, Typed, Locked
    <3>2. QED  BY <1>0, <2>1, <3>1 DEF ScanSound
  <2>5. QED  BY <2>3, <2>4
<1>6. ASSUME NEW c \in Call, Scan(c) PROVE ScanSound(d)'
  <2>0. UNCHANGED <<job, entries, pc>>
    BY <1>6 DEF Scan
  <2>1. CASE c # d
    <3>1. at'[d] = at[d] /\ best'[d] = best[d]
      BY <1>0, <1>6, <2>1 DEF Scan, Typed
    <3>2. QED  BY <1>0, <2>0, <3>1 DEF ScanSound, Nearest
  <2>2. CASE c = d
    <3> DEFINE q == job[d].query
    <3>1. /\ pc[d] = "scan" /\ job[d].op = "search" /\ ~NoVector(q)
          /\ at[d] \in 1..Len(entries) /\ best[d] \in Nat
          /\ Nearest(q, at[d] - 1, best[d])
      BY <1>0, <1>6, <2>2 DEF Scan, Locked, ScanSound, Typed
    <3>2. at'[d] = at[d] + 1 /\ best'[d] = IF Better(d, at[d]) THEN at[d] ELSE best[d]
      BY <1>0, <1>6, <2>2 DEF Scan, Typed
    <3>3. ASSUME NEW i \in 1..Len(entries) PROVE Sim(q, entries[i]) \in Int
      <4>1. PICK j \in Jobs : j.op = "add" /\ entries[i] = j.entry
        BY <1>0 DEF Typed, IsEntry
      <4>2. job[d] \in Jobs
        BY JobFacts
      <4>3. QED  BY <3>1, <4>1, <4>2, SimAssumption
    <3> DEFINE n == at[d] - 1
    <3>4. n \in Nat /\ n + 1 = at[d] /\ \A i \in 1..(n + 1) : i \in 1..Len(entries)
      BY <1>0, <3>1
    <3>5. Better(d, at[d]) <=> Takes(q, n, best[d])
      BY <3>4 DEF Better, Takes
    <3> HIDE DEF q, n
    <3>6. Nearest(q, n + 1, best'[d])
      <4>1. Nearest(q, n, best[d]) /\ best[d] \in Nat
        BY <3>1 DEF n
      <4>2. \A i \in 1..(n + 1) : Sim(q, entries[i]) \in Int
        BY <3>3, <3>4
      <4>3. CASE Takes(q, n, best[d])
        <5>1. best'[d] = n + 1
          BY <3>2, <3>4, <3>5, <4>3
        <5>2. Nearest(q, n + 1, n + 1)
          BY <3>4, <4>1, <4>2, <4>3, NearestTaken
        <5>3. QED  BY <5>1, <5>2
      <4>4. CASE ~Takes(q, n, best[d])
        <5>1. best'[d] = best[d]
          BY <3>2, <3>5, <4>4
        <5>2. Nearest(q, n + 1, best[d])
          BY <3>4, <4>1, <4>2, <4>4, NearestPassed
        <5>3. QED  BY <5>1, <5>2
      <4>5. QED  BY <4>3, <4>4
    <3>7. Nearest(q, at'[d] - 1, best'[d])
      BY <3>1, <3>2, <3>4, <3>6
    <3>8. Nearest(job[d].query, at[d] - 1, best[d])'
      BY <2>0, <3>7 DEF Nearest, q
    <3>9. at'[d] \in 1..(Len(entries) + 1)
      BY <1>0, <3>1, <3>2
    <3>10. QED  BY <2>0, <3>1, <3>8, <3>9 DEF ScanSound, q
  <2>3. QED  BY <2>1, <2>2
<1>7. ASSUME NEW c \in Call, ScanEnds(c) PROVE ScanSound(d)'
  <2>1. CASE c # d
    BY <1>1, <1>2, <1>7, <2>1 DEF ScanEnds
  <2>2. CASE c = d
    <3>1. /\ pc'[d] = "unlock" /\ pc[d] = "scan" /\ UNCHANGED <<job, entries, at, best>>
          /\ NoVector(job[d].query) \/ at[d] > Len(entries)
      BY <1>0, <1>7, <2>2 DEF ScanEnds, Goto, Typed
    <3>2. QED  BY <1>0, <3>1 DEF ScanSound, Nearest
  <2>3. QED  BY <2>1, <2>2
<1>8. ASSUME NEW c \in Call, Unlock(c) PROVE ScanSound(d)'
  <2>0. UNCHANGED <<job, entries, at>>
    BY <1>8 DEF Unlock
  <2>1. CASE c # d
    <3>1. best'[d] = best[d] /\ pc'[d] = pc[d]
      BY <1>0, <1>2, <1>8, <2>1 DEF Unlock, Typed
    <3>2. QED  BY <1>0, <2>0, <3>1 DEF ScanSound, Nearest
  <2>2. CASE c = d
    <3>1. pc'[d] = "done" /\ (job[d].op = "add" => best'[d] = best[d])
      BY <1>0, <1>8, <2>2 DEF Unlock, Goto, Typed
    <3>2. QED  BY <1>0, <2>0, <3>1 DEF ScanSound
  <2>3. QED  BY <2>1, <2>2
<1>9. CASE UNCHANGED vars
  BY <1>0, <1>9 DEF vars, ScanSound, Nearest
<1>10. QED
  BY <1>3, <1>4, <1>5, <1>6, <1>7, <1>8, <1>9 DEF Next, Step, Finished

-----------------------------------------------------------------------------
\* The results of the atomic index, as the locked one has them.
ResultOf == [c \in Call |-> IF Returned(c) THEN best[c] ELSE -1]

PromiseVars == <<job, entries, ResultOf>>

(***************************************************************************)
(* A step of one call changes no other's result.                           *)
(***************************************************************************)
LEMMA ResultOfOthers ==
  ASSUME TypeOK, NEW c \in Call, Step(c)
  PROVE  ResultOf' = [ResultOf EXCEPT ![c] = ResultOf'[c]]
<1>0. pc \in [Call -> Labels] /\ best \in [Call -> Nat]
  BY TypeParts DEF Typed
<1>1. ASSUME NEW d \in Call, d # c PROVE ResultOf'[d] = ResultOf[d]
  <2>1. ASSUME NEW l, Goto(c, l) PROVE pc'[d] = pc[d]
    BY <1>0, <1>1, <2>1 DEF Goto
  <2>2. pc'[d] = pc[d] /\ best'[d] = best[d] /\ job' = job
    BY <1>0, <1>1, <2>1 DEF Step, RLock, Lock, AppendEntry, Scan, ScanEnds, Unlock
  <2>3. QED  BY <2>2 DEF ResultOf, Returned
<1>2. QED  BY <1>1 DEF ResultOf

(***************************************************************************)
(* A step that leaves a call's result as it is leaves all as they are.     *)
(***************************************************************************)
LEMMA ResultStays ==
  ASSUME TypeOK, NEW c \in Call, Step(c), ResultOf'[c] = ResultOf[c]
  PROVE  ResultOf' = ResultOf
<1>1. ResultOf' = [ResultOf EXCEPT ![c] = ResultOf[c]]
  BY ResultOfOthers
<1>2. ASSUME NEW f, NEW g, f = [d \in Call |-> g[d]] PROVE [f EXCEPT ![c] = f[c]] = f
  BY <1>2
<1>3. ResultOf = [d \in Call |-> ResultOf[d]]
  BY DEF ResultOf
<1>4. QED  BY <1>1, <1>2, <1>3

(***************************************************************************)
(* Taking the lock, looking on and finding nothing more are no steps of    *)
(* the atomic index.                                                       *)
(***************************************************************************)
LEMMA WithinKeeps ==
  ASSUME TypeOK, NEW c \in Call, RLock(c) \/ Lock(c) \/ Scan(c) \/ ScanEnds(c)
  PROVE  UNCHANGED PromiseVars
<1>0. pc \in [Call -> Labels] /\ best \in [Call -> Nat] /\ Locked
  BY TypeParts DEF Typed
<1>1. UNCHANGED <<job, entries>> /\ Step(c)
  BY DEF RLock, Lock, Scan, ScanEnds, Step
<1>2. ~Returned(c) /\ ~Returned(c)'
  <2>1. CASE RLock(c)
    BY <1>0, <2>1 DEF RLock, Goto, Returned
  <2>2. CASE Lock(c)
    BY <1>0, <2>2 DEF Lock, Goto, Returned
  <2>3. CASE Scan(c)
    BY <2>3 DEF Scan, Returned
  <2>4. CASE ScanEnds(c)
    BY <1>0, <2>4 DEF ScanEnds, Goto, Returned, Locked
  <2>5. QED  BY <2>1, <2>2, <2>3, <2>4
<1>3. ResultOf'[c] = ResultOf[c]
  BY <1>2 DEF ResultOf
<1>4. QED  BY <1>1, <1>3, ResultStays DEF PromiseVars

(***************************************************************************)
(* An append is the moment of an Add.                                      *)
(***************************************************************************)
LEMMA AppendKeeps ==
  ASSUME TypeOK, Scans, NEW c \in Call, AppendEntry(c)
  PROVE  Promise!Add(c)
<1>0. pc \in [Call -> Labels] /\ best \in [Call -> Nat] /\ Locked
  BY TypeParts DEF Typed
<1>1. /\ pc[c] = "append" /\ pc'[c] = "unlock" /\ job[c].op = "add" /\ UNCHANGED <<job, best>>
      /\ entries' = Append(entries, job[c].entry) /\ best[c] = 0
  BY <1>0 DEF AppendEntry, Goto, Locked, Scans, ScanSound
<1>2. ResultOf[c] = -1 /\ ResultOf'[c] = 0
  BY <1>1 DEF ResultOf, Returned
<1>3. ResultOf' = [ResultOf EXCEPT ![c] = 0]
  BY <1>2, ResultOfOthers DEF Step
<1>4. QED  BY <1>1, <1>2, <1>3 DEF Promise!Add, Promise!Returns, ResultOf

(***************************************************************************)
(* The release of the lock is the moment of a search and of a Len: nobody  *)
(* has appended since it was taken.                                        *)
(***************************************************************************)
LEMMA UnlockKeeps ==
  ASSUME TypeOK, EntriesSeq, Scans, NEW c \in Call, Unlock(c)
  PROVE  Promise!Search(c) \/ Promise!Count(c) \/ UNCHANGED PromiseVars
<1>0. /\ pc \in [Call -> Labels] /\ best \in [Call -> Nat] /\ Locked
      /\ job[c].op \in {"add", "search", "len"} /\ ScanSound(c) /\ Len(entries) \in Nat
  BY TypeParts, JobFacts, LenProperties DEF Typed, Scans, EntriesSeq
<1>1. /\ pc[c] = "unlock" /\ pc'[c] = "done" /\ UNCHANGED <<job, entries>> /\ Step(c)
      /\ best'[c] = IF job[c].op = "len" THEN Len(entries) ELSE best[c]
  BY <1>0 DEF Unlock, Goto, Step
<1>2. ResultOf'[c] = best'[c] /\ (job[c].op # "add" => ResultOf[c] = -1)
                               /\ (job[c].op = "add" => ResultOf[c] = best[c])
  BY <1>1 DEF ResultOf, Returned
<1>3. CASE job[c].op = "add"
  BY <1>1, <1>2, <1>3, ResultStays DEF PromiseVars
<1>4. CASE job[c].op = "len"
  <2>1. ResultOf' = [ResultOf EXCEPT ![c] = Len(entries)]
    BY <1>1, <1>2, <1>4, ResultOfOthers
  <2>2. QED  BY <1>1, <1>2, <1>4, <2>1 DEF Promise!Count, Promise!Returns, ResultOf
<1>5. CASE job[c].op = "search"
  <2> DEFINE q == job[c].query
  <2>1. ResultOf' = [ResultOf EXCEPT ![c] = best[c]]
    BY <1>1, <1>2, <1>5, ResultOfOthers
  <2>2. CASE best[c] = 0
    <3>1. Promise!Candidates(q) = {}
      <4>1. CASE NoVector(q)
        BY <4>1 DEF Promise!Candidates
      <4>2. CASE ~NoVector(q)
        <5>1. at[c] - 1 = Len(entries) /\ Nearest(q, at[c] - 1, best[c])
          BY <1>0, <1>1, <1>5, <4>2 DEF ScanSound
        <5>2. \A j \in 1..Len(entries) : ~Matches(q, entries[j])
          BY <2>2, <5>1 DEF Nearest
        <5>3. QED  BY <4>2, <5>2 DEF Promise!Candidates
      <4>3. QED  BY <4>1, <4>2
    <3>2. QED  BY <1>1, <1>2, <1>5, <2>1, <2>2, <3>1
               DEF Promise!Search, Promise!Returns, ResultOf
  <2>3. CASE best[c] # 0
    <3>1. ~NoVector(q)
      BY <1>0, <1>1, <1>5, <2>3 DEF ScanSound
    <3>2. at[c] - 1 = Len(entries) /\ Nearest(q, at[c] - 1, best[c])
      BY <1>0, <1>1, <1>5, <3>1 DEF ScanSound
    <3>3. best[c] \in 1..Len(entries) /\ Matches(q, entries[best[c]])
      BY <1>0, <2>3, <3>2 DEF Nearest
    <3>4. best[c] \in Promise!Candidates(q)
      BY <3>1, <3>3 DEF Promise!Candidates
    <3>5. \A j \in Promise!Candidates(q) : Promise!Nearer(q, best[c], j)
      BY <2>3, <3>1, <3>2 DEF Nearest, Promise!Candidates, Promise!Nearer
    <3>6. QED  BY <1>1, <1>2, <1>5, <2>1, <3>4, <3>5
               DEF Promise!Search, Promise!Returns, ResultOf
  <2>4. QED  BY <2>2, <2>3
<1>6. QED  BY <1>0, <1>3, <1>4, <1>5

(***************************************************************************)
(* Every step is one of the atomic index, or none.                         *)
(***************************************************************************)
LEMMA StepKeeps ==
  TypeOK /\ EntriesSeq /\ Scans /\ [Next]_vars => [Promise!Next]_PromiseVars
<1> SUFFICES ASSUME TypeOK, EntriesSeq, Scans, [Next]_vars PROVE [Promise!Next]_PromiseVars
  OBVIOUS
<1>1. ASSUME NEW c \in Call, Step(c) PROVE [Promise!Next]_PromiseVars
  BY <1>1, WithinKeeps, AppendKeeps, UnlockKeeps DEF Step, Promise!Next
<1>2. CASE UNCHANGED vars
  BY <1>2 DEF vars, PromiseVars, ResultOf, Returned
<1>3. QED  BY <1>1, <1>2 DEF Next, Finished

(***************************************************************************)
(* Each call takes effect at one moment between call and return, whatever  *)
(* waits or scans beside it; a search answers with the nearest entry of    *)
(* its model and scopes, the oldest of equally near ones.                  *)
(***************************************************************************)
THEOREM IndexIsAtomic == Spec => ActsAtOnce
<1>1. Init => Scans
  BY DEF Init, Scans, ScanSound
<1>2. Init => Promise!Init
  BY DEF Init, Promise!Init, Returned
<1>3. TypeOK /\ EntriesSeq /\ Scans /\ [Next]_vars
        => [Promise!Next]_<<job, entries, [c \in Call |-> IF Returned(c) THEN best[c] ELSE -1]>>
  BY StepKeeps DEF PromiseVars, ResultOf
<1>4. QED  BY <1>1, <1>2, <1>3, InitType, TypeStep, NextScans, PTL
           DEF Spec, ActsAtOnce, Promise!Spec

-----------------------------------------------------------------------------
\* What a search that is done had found, of the entries there were.
FoundBy(c) ==
  pc[c] = "done" /\ job[c].op = "search" /\ ~NoVector(job[c].query) =>
    at[c] \in 1..(Len(entries) + 1) /\ Nearest(job[c].query, at[c] - 1, best[c])

Found == \A c \in Call : FoundBy(c)

\* The index before the step is the beginning of the index after it.
Prefix == Len(entries) <= Len(entries') /\ \A i \in 1..Len(entries) : entries'[i] = entries[i]

(***************************************************************************)
(* Entries are appended and never changed.                                 *)
(***************************************************************************)
LEMMA EntriesStay == ASSUME TypeOK, EntriesSeq, [Next]_vars PROVE Prefix /\ Len(entries') \in Nat
<1> DEFINE Kind == {j.entry : j \in {k \in Jobs : k.op = "add"}}
<1>1. entries \in Seq(Kind) /\ Len(entries) \in Nat
  BY LenProperties DEF EntriesSeq
<1>2. ASSUME NEW c \in Call, AppendEntry(c) PROVE Prefix /\ Len(entries') \in Nat
  <2>1. job[c].op = "add" /\ job[c] \in Jobs
    BY <1>2, JobFacts DEF AppendEntry, TypeOK
  <2>2. entries' = Append(entries, job[c].entry) /\ job[c].entry \in Kind
    BY <1>2, <2>1 DEF AppendEntry
  <2> HIDE DEF Kind
  <2>3. Len(entries') = Len(entries) + 1 /\ \A i \in 1..Len(entries) : entries'[i] = entries[i]
    BY <1>1, <2>2, AppendProperties
  <2>4. QED  BY <1>1, <2>3 DEF Prefix
<1>3. CASE UNCHANGED entries
  BY <1>1, <1>3 DEF Prefix
<1>4. QED  BY <1>2, <1>3 DEF Next, Step, RLock, Lock, Scan, ScanEnds, Unlock, Finished, vars

(***************************************************************************)
(* What is appended later is no matter to a search that is done.           *)
(***************************************************************************)
LEMMA FoundStays ==
  ASSUME Prefix, Len(entries) \in Nat, Len(entries') \in Nat, NEW c \in Call, FoundBy(c),
         pc[c] = "done", job'[c] = job[c], at'[c] = at[c], best'[c] = best[c], at[c] \in Nat
  PROVE  FoundBy(c)'
<1> DEFINE q == job[c].query  n == at[c] - 1  b == best[c]
<1>1. SUFFICES ASSUME job[c].op = "search", ~NoVector(q)
               PROVE  at'[c] \in 1..(Len(entries') + 1) /\ Nearest(job[c].query, at[c] - 1, best[c])'
  BY DEF FoundBy
<1>2. n \in 0..Len(entries) /\ Nearest(q, n, b)
  BY <1>1 DEF FoundBy
<1>3. \A j \in 1..n : entries'[j] = entries[j]
  BY <1>2 DEF Prefix
<1>4. at'[c] \in 1..(Len(entries') + 1)
  BY <1>2 DEF Prefix
<1>5. Nearest(job[c].query, at[c] - 1, best[c])'
  BY <1>2, <1>3 DEF Nearest
<1>6. QED  BY <1>4, <1>5

(***************************************************************************)
(* Every step keeps what was found.                                        *)
(***************************************************************************)
LEMMA NextFound == TypeOK /\ EntriesSeq /\ Scans /\ Found /\ [Next]_vars => Found'
<1> SUFFICES ASSUME TypeOK, EntriesSeq, Scans, Found, [Next]_vars, NEW d \in Call PROVE FoundBy(d)'
  BY DEF Found
<1>0. /\ FoundBy(d) /\ ScanSound(d) /\ Len(entries) \in Nat /\ Typed /\ Locked
      /\ Prefix /\ Len(entries') \in Nat /\ job[d].op \in {"add", "search", "len"}
  BY TypeParts, JobFacts, LenProperties, EntriesStay DEF Found, Scans, EntriesSeq
<1>1. CASE pc[d] = "done"
  <2>1. ASSUME NEW c \in Call, c # d, NEW l, Goto(c, l) PROVE pc'[d] = pc[d]
    BY <1>0, <2>1 DEF Goto, Typed
  <2>2. at'[d] = at[d] /\ best'[d] = best[d] /\ job'[d] = job[d]
    <3>1. ASSUME NEW c \in Call, Step(c) PROVE c # d
      BY <1>1, <3>1 DEF Step, RLock, Lock, AppendEntry, Scan, ScanEnds, Unlock
    <3>2. ASSUME NEW c \in Call, Step(c) PROVE at'[d] = at[d] /\ best'[d] = best[d] /\ job'[d] = job[d]
      BY <1>0, <3>1, <3>2 DEF Step, RLock, Lock, AppendEntry, Scan, ScanEnds, Unlock, Typed
    <3>3. QED  BY <3>2 DEF Next, Finished, vars
  <2>3. at[d] \in Nat
    BY <1>0 DEF Typed
  <2>4. QED  BY <1>0, <1>1, <2>2, <2>3, FoundStays
<1>2. CASE pc[d] # "done"
  <2>1. CASE Unlock(d)
    <3>1. SUFFICES ASSUME job[d].op = "search", ~NoVector(job[d].query)
                   PROVE  FoundBy(d)'
      BY <2>1 DEF FoundBy, Unlock
    <3>2. /\ pc[d] = "unlock" /\ UNCHANGED <<job, entries, at>> /\ best'[d] = best[d]
      BY <1>0, <2>1, <3>1 DEF Unlock, Typed
    <3>3. at[d] \in 1..(Len(entries) + 1) /\ Nearest(job[d].query, at[d] - 1, best[d])
      BY <1>0, <3>1, <3>2 DEF ScanSound
    <3>4. QED  BY <3>2, <3>3 DEF FoundBy, Nearest
  <2>2. CASE ~Unlock(d)
    <3>1. pc'[d] # "done"
      <4>1. ASSUME NEW c \in Call, NEW l \in {"scan", "unlock", "append"}, Goto(c, l)
            PROVE  pc'[d] # "done"
        BY <1>0, <1>2, <4>1 DEF Goto, Typed
      <4>2. ASSUME NEW c \in Call, c # d, Goto(c, "done") PROVE pc'[d] # "done"
        BY <1>0, <1>2, <4>2 DEF Goto, Typed
      <4>3. ASSUME NEW c \in Call, Step(c) PROVE pc'[d] # "done"
        <5>1. CASE RLock(c) \/ Lock(c) \/ AppendEntry(c) \/ ScanEnds(c)
          BY <4>1, <5>1 DEF RLock, Lock, AppendEntry, ScanEnds
        <5>2. CASE Scan(c)
          BY <1>2, <5>2 DEF Scan
        <5>3. CASE Unlock(c)
          BY <2>2, <4>2, <5>3 DEF Unlock
        <5>4. QED  BY <4>3, <5>1, <5>2, <5>3 DEF Step
      <4>4. QED  BY <1>2, <4>3 DEF Next, Finished, vars
    <3>2. QED  BY <3>1 DEF FoundBy
  <2>3. QED  BY <2>1, <2>2
<1>3. QED  BY <1>1, <1>2

(***************************************************************************)
(* No row the database's query can return is nearer than the entry the     *)
(* scan kept, and that is one of the rows, wherever it is nearer than      *)
(* unlike.                                                                 *)
(***************************************************************************)
LEMMA NoneNearer ==
  ASSUME NEW q, NEW n \in Nat, NEW b \in Nat, Nearest(q, n, b),
         \A i \in 1..n : Sim(q, entries[i]) \in Int
  PROVE  /\ \A i \in QueryRows(q, 1..n) : b # 0 /\ Sim(q, entries[i]) <= Sim(q, entries[b])
         /\ b # 0 /\ Sim(q, entries[b]) > 0 => b \in QueryRows(q, 1..n)
<1>1. ASSUME NEW i \in QueryRows(q, 1..n)
      PROVE  b # 0 /\ Sim(q, entries[i]) <= Sim(q, entries[b])
  <2>1. i \in 1..n /\ Matches(q, entries[i])
    BY DEF QueryRows, Row, Matches, ScopeAllowed
  <2>2. b # 0 /\ b \in 1..n
    BY <2>1 DEF Nearest
  <2>3. \/ Sim(q, entries[b]) > Sim(q, entries[i])
        \/ Sim(q, entries[b]) = Sim(q, entries[i])
    BY <2>1, <2>2 DEF Nearest
  <2>4. Sim(q, entries[b]) \in Int /\ Sim(q, entries[i]) \in Int
    BY <2>1, <2>2
  <2>5. QED  BY <2>2, <2>3, <2>4
<1>2. ASSUME b # 0, Sim(q, entries[b]) > 0 PROVE b \in QueryRows(q, 1..n)
  <2>1. b \in 1..n /\ Matches(q, entries[b])
    BY <1>2 DEF Nearest
  <2>2. entries[b].vec.dir # None
    BY <1>2 DEF Sim
  <2>3. QED  BY <2>1, <2>2 DEF QueryRows, Row, Matches, ScopeAllowed
<1>3. QED  BY <1>1, <1>2

(***************************************************************************)
(* For every set of jobs and every interleaving of the calls: a search had *)
(* found, among the entries it saw, one as near as any row the query could *)
(* return of them, and one the query could return, unless neither finds    *)
(* any that a cutoff can let through.                                      *)
(***************************************************************************)
THEOREM ScanIsNeverWorse == Spec => []ScanNeverWorse
<1>1. Init => Scans /\ Found
  BY DEF Init, Scans, ScanSound, Found, FoundBy
<1>2. TypeOK /\ EntriesSeq /\ Found => ScanNeverWorse
  <2> SUFFICES ASSUME TypeOK, EntriesSeq, Found, NEW c \in Call,
                      pc[c] = "done", job[c].op = "search", ~NoVector(job[c].query)
               PROVE  LET q    == job[c].query
                          rows == QueryRows(q, 1..(at[c] - 1))
                      IN /\ \A i \in rows : Sim(q, entries[i]) > 0 =>
                              best[c] # 0 /\ Sim(q, entries[i]) <= Sim(q, entries[best[c]])
                         /\ best[c] # 0 /\ Sim(q, entries[best[c]]) > 0 => best[c] \in rows
    BY DEF ScanNeverWorse
  <2> DEFINE q == job[c].query  n == at[c] - 1  b == best[c]
  <2>1. Len(entries) \in Nat /\ b \in Nat /\ job[c] \in Jobs
    BY LenProperties, JobFacts DEF EntriesSeq, TypeOK
  <2>2. n \in Nat /\ n <= Len(entries) /\ Nearest(q, n, b)
    BY <2>1 DEF Found, FoundBy
  <2>3. ASSUME NEW j \in 1..n PROVE Sim(q, entries[j]) \in Int
    <3>1. j \in 1..Len(entries)
      BY <2>1, <2>2
    <3>2. PICK k \in Jobs : k.op = "add" /\ entries[j] = k.entry
      BY <3>1 DEF TypeOK
    <3>3. QED  BY <2>1, <3>2, SimAssumption
  <2> HIDE DEF q, n, b
  <2>4. /\ \A i \in QueryRows(q, 1..n) : b # 0 /\ Sim(q, entries[i]) <= Sim(q, entries[b])
        /\ b # 0 /\ Sim(q, entries[b]) > 0 => b \in QueryRows(q, 1..n)
    BY <2>1, <2>2, <2>3, NoneNearer
  <2>5. QED  BY <2>4 DEF q, n, b
<1>3. QED  BY <1>1, <1>2, InitType, TypeStep, NextScans, NextFound, PTL DEF Spec

-----------------------------------------------------------------------------
\* The write lock is held, or waited for, by an Add that is not yet done.
HeldByCaller == writer # None => writer \in Call /\ job[writer].op = "add" /\ pc[writer] \in {"append", "unlock"}

\* The guards of a caller's steps together.
CanStep(c) ==
  \/ pc[c] = "call" /\ writer = None
  \/ pc[c] = "append" /\ readers = {}
  \/ pc[c] \in {"scan", "unlock"}

\* Some caller can go on as long as one is not done.
NeverStuck == (\A c \in Call : pc[c] = "done") \/ \E c \in Call : CanStep(c)

(***************************************************************************)
(* A caller that takes a step was one that can.                            *)
(***************************************************************************)
LEMMA CanStepIs == ASSUME NEW c \in Call, Step(c) PROVE CanStep(c)
  BY DEF Step, RLock, Lock, AppendEntry, Scan, ScanEnds, Unlock, CanStep

(***************************************************************************)
(* The lock is let go by the one that holds it.                            *)
(***************************************************************************)
LEMMA NextHeld == TypeOK /\ HeldByCaller /\ [Next]_vars => HeldByCaller'
<1> SUFFICES ASSUME TypeOK, HeldByCaller, [Next]_vars PROVE HeldByCaller'
  OBVIOUS
<1>0. pc \in [Call -> Labels] /\ None \notin Call /\ Locked
  BY TypeParts, IndexAssumption DEF Typed
<1>1. ASSUME NEW c \in Call, RLock(c) PROVE HeldByCaller'
  BY <1>0, <1>1 DEF RLock, Goto, HeldByCaller
<1>2. ASSUME NEW c \in Call, Lock(c) PROVE HeldByCaller'
  BY <1>0, <1>2 DEF Lock, Goto, HeldByCaller
<1>3. ASSUME NEW c \in Call, AppendEntry(c) PROVE HeldByCaller'
  BY <1>0, <1>3 DEF AppendEntry, Goto, HeldByCaller
<1>4. ASSUME NEW c \in Call, Scan(c) PROVE HeldByCaller'
  BY <1>0, <1>4 DEF Scan, HeldByCaller
<1>5. ASSUME NEW c \in Call, ScanEnds(c) PROVE HeldByCaller'
  BY <1>0, <1>5 DEF ScanEnds, Goto, HeldByCaller
<1>6. ASSUME NEW c \in Call, Unlock(c) PROVE HeldByCaller'
  BY <1>0, <1>6 DEF Unlock, Goto, HeldByCaller
<1>7. CASE UNCHANGED vars
  BY <1>7 DEF vars, HeldByCaller
<1>8. QED  BY <1>1, <1>2, <1>3, <1>4, <1>5, <1>6, <1>7 DEF Next, Step, Finished

(***************************************************************************)
(* No number of callers locks itself up: while one of them is not done,    *)
(* one can take a step, since a writer that waits waits for readers, and   *)
(* a reader waits for nobody once it is in.                                *)
(***************************************************************************)
THEOREM NobodyWaitsForEver == Spec => []NeverStuck
<1>1. Init => HeldByCaller
  BY DEF Init, HeldByCaller
<1>2. TypeOK /\ HeldByCaller => NeverStuck
  <2> SUFFICES ASSUME TypeOK, HeldByCaller, NEW c \in Call, pc[c] # "done"
               PROVE  \E d \in Call : CanStep(d)
    BY DEF NeverStuck
  <2>0. pc \in [Call -> Labels] /\ None \notin Call /\ Locked /\ job[c].op \in {"add", "search", "len"}
    BY TypeParts, IndexAssumption, JobFacts DEF Typed
  <2>1. CASE writer = None
    <3>1. pc[c] # "append"
      BY <2>0, <2>1 DEF Locked
    <3>2. QED  BY <2>0, <2>1, <3>1 DEF CanStep, Labels
  <2>2. CASE writer # None /\ pc[writer] = "unlock"
    BY <2>2 DEF HeldByCaller, CanStep
  <2>3. CASE writer # None /\ pc[writer] = "append" /\ readers = {}
    BY <2>3 DEF HeldByCaller, CanStep
  <2>4. CASE readers # {}
    BY <2>0, <2>4 DEF Locked, Reading, CanStep
  <2>5. QED  BY <2>1, <2>2, <2>3, <2>4 DEF HeldByCaller
<1>3. QED  BY <1>1, <1>2, InitType, TypeStep, NextHeld, PTL DEF Spec


-----------------------------------------------------------------------------
\* The Adds that have appended, as many as there are entries.
Appended == {c \in Call : job[c].op = "add" /\ pc[c] \in {"unlock", "done"}}

AsManyEntries == Len(entries) = Cardinality(Appended)

\* More steps than a caller has still to take: a search looks at no more
\* entries than there are callers.
Left(c) == CASE pc[c] = "call"   -> Cardinality(Call) + 3
             [] pc[c] = "scan"   -> Cardinality(Call) + 3 - at[c]
             [] pc[c] = "append" -> 2
             [] pc[c] = "unlock" -> 1
             [] pc[c] = "done"   -> 0

\* What is left is a number that only the one who steps changes, for less.
Progress == \E c \in Call : /\ Left(c) \in Nat /\ Left(c)' \in Nat /\ Left(c)' < Left(c)
                            /\ \A d \in Call \ {c} : Left(d)' = Left(d)

(***************************************************************************)
(* There are as many entries as Adds that have appended.                   *)
(***************************************************************************)
LEMMA NextAsMany ==
  ASSUME IsFiniteSet(Call), TypeOK, EntriesSeq, AsManyEntries, [Next]_vars
  PROVE  AsManyEntries'
<1>0. pc \in [Call -> Labels] /\ Locked /\ Len(entries) \in Nat
  BY TypeParts, LenProperties DEF Typed, EntriesSeq
<1>1. ASSUME NEW c \in Call, AppendEntry(c) PROVE AsManyEntries'
  <2>1. job[c].op = "add" /\ pc[c] = "append" /\ pc' = [pc EXCEPT ![c] = "unlock"] /\ job' = job
    BY <1>0, <1>1 DEF AppendEntry, Goto, Locked
  <2>2. c \notin Appended /\ Appended' = Appended \cup {c}
    BY <1>0, <2>1 DEF Appended
  <2>3. IsFiniteSet(Appended)
    BY FS_Subset DEF Appended
  <2>4. Cardinality(Appended') = Cardinality(Appended) + 1
    BY <2>2, <2>3, FS_AddElement
  <2>5. Len(entries') = Len(entries) + 1
    <3> DEFINE Kind == {j.entry : j \in {k \in Jobs : k.op = "add"}}
    <3>1. entries' = Append(entries, job[c].entry) /\ job[c].entry \in Kind /\ entries \in Seq(Kind)
      BY <1>1, <2>1, JobFacts DEF AppendEntry, EntriesSeq
    <3> HIDE DEF Kind
    <3>2. QED  BY <3>1, AppendProperties
  <2>6. QED  BY <2>4, <2>5 DEF AsManyEntries
<1>2. ASSUME Appended' = Appended, entries' = entries PROVE AsManyEntries'
  BY <1>2 DEF AsManyEntries
<1>3. ASSUME NEW c \in Call, RLock(c) \/ Lock(c) \/ Scan(c) \/ ScanEnds(c) \/ Unlock(c)
      PROVE Appended' = Appended /\ entries' = entries
  <2>1. entries' = entries /\ job' = job
    BY <1>3 DEF RLock, Lock, Scan, ScanEnds, Unlock
  <2>2. \A d \in Call : d \in Appended' <=> d \in Appended
    BY <1>0, <1>3, <2>1 DEF RLock, Lock, Scan, ScanEnds, Unlock, Goto, Appended, Locked, Labels
  <2>3. QED  BY <2>1, <2>2 DEF Appended
<1>4. CASE UNCHANGED vars
  BY <1>2, <1>4 DEF vars, Appended
<1>5. QED  BY <1>1, <1>2, <1>3, <1>4 DEF Next, Step, Finished

(***************************************************************************)
(* A caller that goes to a place with less left to do makes progress.      *)
(***************************************************************************)
LEMMA GotoIsProgress ==
  ASSUME TypeOK, NEW c \in Call, NEW l \in Labels, Goto(c, l), at' = at,
         Left(c) \in Nat, Left(c)' \in Nat, Left(c)' < Left(c)
  PROVE  Progress
<1>1. \A d \in Call \ {c} : pc'[d] = pc[d]
  BY GotoFacts
<1>2. \A d \in Call \ {c} : Left(d)' = Left(d)
  BY <1>1 DEF Left
<1>3. QED  BY <1>2 DEF Progress

(***************************************************************************)
(* Every step of a caller leaves it less to do and the others as much: a   *)
(* finite number of callers takes a finite number of steps, and by         *)
(* NobodyWaitsForEver they stop only when all are done.                    *)
(***************************************************************************)
THEOREM EveryStepIsProgress ==
  ASSUME IsFiniteSet(Call)
  PROVE  Spec => [][Progress]_vars
<1>1. Init => AsManyEntries
  <2> SUFFICES ASSUME Init PROVE AsManyEntries
    OBVIOUS
  <2>1. Appended = {}
    BY DEF Init, Appended
  <2>2. QED  BY <2>1, FS_EmptySet DEF Init, AsManyEntries
<1>2. TypeOK /\ EntriesSeq /\ AsManyEntries /\ [Next]_vars => AsManyEntries'
  BY NextAsMany
<1>3. TypeOK /\ EntriesSeq /\ Scans /\ AsManyEntries /\ [Next]_vars => [Progress]_vars
  <2> SUFFICES ASSUME TypeOK, EntriesSeq, Scans, AsManyEntries, [Next]_vars, vars' # vars PROVE Progress
    OBVIOUS
  <2> DEFINE K == Cardinality(Call)
  <2>0. /\ pc \in [Call -> Labels] /\ at \in [Call -> Nat] /\ Locked
        /\ Len(entries) \in Nat /\ K \in Nat /\ Len(entries) <= K
    <3>1. Len(entries) \in Nat
      BY LenProperties DEF EntriesSeq
    <3>2. Appended \in SUBSET Call
      BY DEF Appended
    <3>3. K \in Nat /\ Cardinality(Appended) <= K
      BY <3>2, FS_Subset, FS_CardinalityType
    <3>4. QED  BY <3>1, <3>3, TypeParts DEF Typed, AsManyEntries
  <2>1. \A c \in Call : /\ pc[c] = "call" => Left(c) = K + 3
                        /\ pc[c] = "scan" => Left(c) = K + 3 - at[c]
                        /\ pc[c] = "append" => Left(c) = 2
                        /\ pc[c] = "unlock" => Left(c) = 1
    BY DEF Left
  <2>2. \A c \in Call : /\ pc'[c] = "scan" => Left(c)' = K + 3 - at'[c]
                        /\ pc'[c] = "append" => Left(c)' = 2
                        /\ pc'[c] = "unlock" => Left(c)' = 1
                        /\ pc'[c] = "done" => Left(c)' = 0
    BY DEF Left
  <2>3. \A c \in Call : /\ pc[c] = "call" => at[c] = 1
                        /\ pc[c] = "scan" => at[c] \in 1..(Len(entries) + 1)
    BY <2>0 DEF Scans, ScanSound, Locked
  <2> HIDE DEF K
  <2>4. ASSUME NEW c \in Call, RLock(c) \/ Lock(c) \/ AppendEntry(c) \/ ScanEnds(c) \/ Unlock(c)
        PROVE  Progress
    <3>1. PICK l \in Labels : Goto(c, l)
      BY <2>4 DEF RLock, Lock, AppendEntry, ScanEnds, Unlock, Labels
    <3>2. pc'[c] = l /\ at' = at
      BY <2>4, <3>1, GotoFacts DEF RLock, Lock, AppendEntry, ScanEnds, Unlock
    <3>3. CASE RLock(c) \/ Lock(c)
      <4>1. pc[c] = "call" /\ pc'[c] \in {"scan", "unlock", "append"} /\ at'[c] = 1
        BY <2>0, <2>3, <3>2, <3>3 DEF RLock, Lock, Goto
      <4>2. Left(c) \in Nat /\ Left(c)' \in Nat /\ Left(c)' < Left(c)
        BY <2>0, <2>1, <2>2, <4>1
      <4>3. QED  BY <3>1, <3>2, <4>2, GotoIsProgress
    <3>4. CASE AppendEntry(c)
      <4>1. pc[c] = "append" /\ pc'[c] = "unlock"
        BY <2>0, <3>4 DEF AppendEntry, Goto
      <4>2. Left(c) \in Nat /\ Left(c)' \in Nat /\ Left(c)' < Left(c)
        BY <2>1, <2>2, <4>1
      <4>3. QED  BY <3>1, <3>2, <4>2, GotoIsProgress
    <3>5. CASE ScanEnds(c)
      <4>1. pc[c] = "scan" /\ pc'[c] = "unlock"
        BY <2>0, <3>5 DEF ScanEnds, Goto
      <4>2. Left(c) \in Nat /\ Left(c)' \in Nat /\ Left(c)' < Left(c)
        BY <2>0, <2>1, <2>2, <2>3, <4>1
      <4>3. QED  BY <3>1, <3>2, <4>2, GotoIsProgress
    <3>6. CASE Unlock(c)
      <4>1. pc[c] = "unlock" /\ pc'[c] = "done"
        BY <2>0, <3>6 DEF Unlock, Goto
      <4>2. Left(c) \in Nat /\ Left(c)' \in Nat /\ Left(c)' < Left(c)
        BY <2>1, <2>2, <4>1
      <4>3. QED  BY <3>1, <3>2, <4>2, GotoIsProgress
    <3>7. QED  BY <2>4, <3>3, <3>4, <3>5, <3>6
  <2>5. ASSUME NEW c \in Call, Scan(c) PROVE Progress
    <3>1. /\ pc[c] = "scan" /\ pc' = pc /\ at[c] <= Len(entries)
          /\ at'[c] = at[c] + 1 /\ \A d \in Call \ {c} : at'[d] = at[d]
      BY <2>0, <2>5 DEF Scan
    <3>2. Left(c) \in Nat /\ Left(c)' \in Nat /\ Left(c)' < Left(c)
      BY <2>0, <2>1, <2>2, <2>3, <3>1
    <3>3. \A d \in Call \ {c} : Left(d)' = Left(d)
      BY <3>1 DEF Left
    <3>4. QED  BY <3>2, <3>3 DEF Progress
  <2>6. QED  BY <2>4, <2>5 DEF Next, Step, Finished
<1>4. Init => Scans
  BY DEF Init, Scans, ScanSound
<1>5. QED  BY <1>1, <1>2, <1>3, <1>4, InitType, TypeStep, NextScans, PTL DEF Spec
====
