---------------------------- MODULE EngineProofs ----------------------------
(***************************************************************************)
(* Where a served answer came from, how old and how sealed it is, that the *)
(* engine keeps the promise of CachePromise, and what a tenant may store.  *)
(* All for every number of requests, queries, languages, thresholds, tiers *)
(* and restarts.                                                           *)
(***************************************************************************)
EXTENDS Engine, Collections

(***************************************************************************)
(* What LRU.Put does to the map, its list aside: each key it holds after a *)
(* Put has the value put, or the value it had.                             *)
(***************************************************************************)
LEMMA PutFacts ==
  ASSUME NEW k, NEW v, L1!Put(k, v)
  PROVE  \A x \in DOMAIN items' : \/ x = k /\ items'[x] = v
                                  \/ x \in DOMAIN items /\ items'[x] = items[x]
<1>1. CASE L1!PutUpdate(k, v)
  BY <1>1 DEF L1!PutUpdate
<1>2. CASE L1!PutInsert(k, v)
  <2> DEFINE added == [x \in DOMAIN items \cup {k} |-> IF x = k THEN v ELSE items[x]]
             pushed == L1!Cons(k, ll)
  <2>1. \/ items' = added
        \/ items' = L1!MapWithout(added, pushed[Len(pushed)])
    BY <1>2 DEF L1!PutInsert
  <2> HIDE DEF pushed
  <2>2. \A x \in DOMAIN added : (x = k /\ added[x] = v) \/ (x \in DOMAIN items /\ added[x] = items[x])
    OBVIOUS
  <2> HIDE DEF added
  <2>3. \/ items' = added
        \/ \E o : items' = [x \in DOMAIN added \ {o} |-> added[x]]
    BY <2>1 DEF L1!MapWithout
  <2>4. QED  BY <2>2, <2>3
<1>3. QED  BY <1>1, <1>2 DEF L1!Put

(***************************************************************************)
(* LRU.Get leaves the map alone.                                           *)
(***************************************************************************)
LEMMA GetFacts == ASSUME NEW k, L1!Get(k) PROVE items' = items
  BY DEF L1!Get, L1!vars

-----------------------------------------------------------------------------
(***************************************************************************)
-----------------------------------------------------------------------------
Tiers   == {"none", "L1", "L2", "MISS", "ERR"}
Results == [tier : Tiers, body : Bodies, boot : Nat]
Reads   == [judged : Nat, now : Nat]
Replies == [status : {"none", "ok", "bad", "err"}, at : Nat]

(***************************************************************************)
(* Moving on keeps pc well typed and answers nobody.                       *)
(***************************************************************************)
LEMMA GotoType ==
  ASSUME TypeOK, NEW r \in Req, NEW l \in Labels, Goto(r, l)
  PROVE  /\ pc' \in [Req -> Labels] /\ ans' = ans
         /\ pc' = [pc EXCEPT ![r] = l]
  BY DEF TypeOK, Goto

(***************************************************************************)
(* Returning keeps pc and ans well typed.                                  *)
(***************************************************************************)
LEMMA ReturnType ==
  ASSUME TypeOK, NEW r \in Req, NEW t \in {"L1", "L2", "MISS", "ERR"}, NEW b \in Bodies,
         Return(r, t, b)
  PROVE  /\ pc' \in [Req -> Labels]
         /\ pc' = [pc EXCEPT ![r] = "done"]
         /\ ans' \in [Req -> Results]
<1>1. [tier |-> t, body |-> b, boot |-> boots] \in Results
  BY DEF TypeOK, Results, Tiers
<1>2. "done" \in Labels
  BY DEF Labels
<1>3. ans \in [Req -> Results]
  BY DEF TypeOK, Results, Tiers
<1>4. QED  BY <1>1, <1>2, <1>3 DEF TypeOK, Return

(***************************************************************************)
(* An upstream body is a body, sealed or not, and so is what a cipher      *)
(* makes of one.                                                           *)
(***************************************************************************)
LEMMA BodyTypes ==
  ASSUME TypeOK, NEW r \in Req
  PROVE  Body(r) \in Bodies /\ Ciphertext(r) \in Bodies
  BY DEF TypeOK, Body, Ciphertext, Bodies

LEMMA PlainType == ASSUME NEW b \in Bodies PROVE Plaintext(b) \in Bodies
  BY DEF Plaintext, Body, Bodies

(***************************************************************************)
(* A reading of the clock is one.                                          *)
(***************************************************************************)
LEMMA ReadType ==
  ASSUME TypeOK, NEW r \in Req,
         \/ read' = [read EXCEPT ![r].judged = clock]
         \/ read' = [read EXCEPT ![r].now = clock]
  PROVE  read' \in [Req -> Reads]
<1>1. read \in [Req -> Reads] /\ read[r] \in Reads /\ clock \in Nat
  BY DEF TypeOK, Reads
<1>2. /\ [read[r] EXCEPT !.judged = clock] \in Reads
      /\ [read[r] EXCEPT !.now = clock] \in Reads
  BY <1>1 DEF Reads
<1>3. PICK a \in Reads : read' = [read EXCEPT ![r] = a]
  BY <1>2
<1>4. QED  BY <1>1, <1>3

(***************************************************************************)
(* A granted write leaves the bucket a bucket.                             *)
(***************************************************************************)
LEMMA SpendType ==
  ASSUME NEW b \in TB!Bucket, NEW t \in Nat, NEW n \in Nat, TB!Grants(b, t, n)
  PROVE  TB!Spend(b, t, n) \in TB!Bucket
<1>1. TB!TokensAt(b, t) \in Int
  <2>1. StoreRate * (t - b.last) \in Int
    BY EngineAssumption DEF TB!Bucket
  <2>2. QED  BY <2>1, EngineAssumption DEF TB!TokensAt, TB!Bucket
<1>2. QED  BY <1>1 DEF TB!Spend, TB!Grants, TB!Bucket

(***************************************************************************)
(* L1 after a Put of a record holds records.                               *)
(***************************************************************************)
LEMMA PutType ==
  ASSUME TypeOK, NEW k, NEW put \in Records, L1!Put(k, put)
  PROVE  \A x \in DOMAIN items' : items'[x] \in Records
<1>1. \A x \in DOMAIN items' : items'[x] = put \/ (x \in DOMAIN items /\ items'[x] = items[x])
  BY PutFacts
<1>2. QED  BY <1>1 DEF TypeOK

(***************************************************************************)
(* What concerns one request: its place, its query and what it holds.      *)
(***************************************************************************)
RequestsOK ==
  /\ pc \in [Req -> Labels]
  /\ query \in [Req -> Query \cup {None}]
  /\ \A r \in Req : pc[r] # "new" => query[r] \in Query
  /\ rec \in [Req -> Records \cup {None}]
  /\ \A r \in Req : pc[r] = "check" => rec[r] \in Records
  /\ vec \in [Req -> BOOLEAN]
  /\ cand \in [Req -> Entries \cup {None}]
  /\ \A r \in Req : pc[r] \in Deciding => cand[r] \in Entries
  /\ read \in [Req -> Reads]
  /\ reply \in [Req -> Replies]
  /\ ans \in [Req -> Results]

TiersOK ==
  /\ \A k \in DOMAIN items : items[k] \in Records
  /\ l2 \in Seq(Entries)
  /\ quota \in [{q.tenant : q \in Query} -> TB!Bucket]
  /\ rewound \in [{q.tenant : q \in Query} -> Nat]
  /\ ring \in Rings
  /\ clock \in Nat
  /\ boots \in Nat

LEMMA TypeParts == TypeOK <=> RequestsOK /\ TiersOK
  BY DEF TypeOK, RequestsOK, TiersOK, Reads, Replies, Results, Tiers

LEMMA TypePartsNext == ASSUME RequestsOK', TiersOK' PROVE TypeOK'
  BY DEF TypeOK, RequestsOK, TiersOK, Reads, Replies, Results, Tiers

(***************************************************************************)
(* A step that leaves the tiers, the quotas and the process alone, or only *)
(* puts a record into L1, keeps their types.                               *)
(***************************************************************************)
LEMMA TiersKept ==
  ASSUME TiersOK, UNCHANGED <<items, l2, quotas, process>> PROVE TiersOK'
  BY DEF TiersOK, quotas, process

LEMMA TiersPut ==
  ASSUME TypeOK, NEW k, NEW put \in Records, L1!Put(k, put), UNCHANGED <<l2, quotas, process>>
  PROVE  TiersOK'
<1>1. \A x \in DOMAIN items' : items'[x] \in Records
  BY PutType
<1>2. QED  BY <1>1, TypeParts DEF TiersOK, quotas, process

(***************************************************************************)
(* The start of a process is well typed.                                   *)
(***************************************************************************)
LEMMA InitType == Init => TypeOK
<1> SUFFICES ASSUME Init PROVE TypeOK
  OBVIOUS
<1>1. items = [k \in {} |-> k] /\ DOMAIN items = {}
  BY DEF Init, L1!Init
<1>2. TB!Full \in TB!Bucket
  BY EngineAssumption DEF TB!Full, TB!Bucket
<1>3. NotAnswered \in Results /\ NotRead \in Reads
  BY DEF NotAnswered, NotRead, Body, Bodies, Results, Reads, Tiers
<1>4. RequestsOK
  BY <1>3 DEF Init, RequestsOK, Labels, Deciding, Replies
<1>5. TiersOK
  BY <1>1, <1>2 DEF Init, TiersOK
<1>6. QED  BY <1>4, <1>5, TypeParts

(***************************************************************************)
(* Moving on or returning, with what one request holds at most replaced by *)
(* something of its type, keeps the requests well typed.                   *)
(***************************************************************************)
LEMMA MoveType ==
  ASSUME TypeOK, NEW r \in Req, NEW l \in Labels \ {"new", "check"},
         pc' = [pc EXCEPT ![r] = l], pc[r] # "new",
         l \in Deciding => pc[r] \in Deciding,
         UNCHANGED <<query, rec, cand>>,
         vec' \in [Req -> BOOLEAN], read' \in [Req -> Reads],
         reply' \in [Req -> Replies], ans' \in [Req -> Results]
  PROVE  RequestsOK'
  BY TypeParts DEF RequestsOK

LEMMA GotoMoves ==
  ASSUME TypeOK, NEW r \in Req, NEW l \in Labels \ {"new", "check"}, Goto(r, l), pc[r] # "new",
         l \in Deciding => pc[r] \in Deciding,
         UNCHANGED <<query, rec, cand>>,
         vec' \in [Req -> BOOLEAN], read' \in [Req -> Reads], reply' \in [Req -> Replies]
  PROVE  RequestsOK'
<1>1. pc' = [pc EXCEPT ![r] = l] /\ ans' \in [Req -> Results]
  BY TypeParts DEF Goto, RequestsOK
<1>2. QED  BY <1>1, MoveType

LEMMA ReturnMoves ==
  ASSUME TypeOK, NEW r \in Req, NEW t \in {"L1", "L2", "MISS", "ERR"}, NEW b \in Bodies,
         Return(r, t, b), pc[r] # "new", UNCHANGED <<query, rec, cand>>,
         vec' \in [Req -> BOOLEAN], read' \in [Req -> Reads], reply' \in [Req -> Replies]
  PROVE  RequestsOK'
<1>1. pc' = [pc EXCEPT ![r] = "done"] /\ ans' \in [Req -> Results]
  BY ReturnType
<1>2. "done" \in Labels \ {"new", "check"} /\ "done" \notin Deciding
  BY DEF Labels, Deciding
<1>3. QED  BY <1>1, <1>2, MoveType

LEMMA HeldTypes ==
  ASSUME TypeOK
  PROVE  /\ vec \in [Req -> BOOLEAN] /\ read \in [Req -> Reads] /\ reply \in [Req -> Replies]
         /\ ans \in [Req -> Results]
  BY TypeParts DEF RequestsOK

(***************************************************************************)
(* Reading L1 at the start of Serve is well typed.                         *)
(***************************************************************************)
LEMMA ServeType == ASSUME TypeOK, NEW r \in Req, NEW q \in Query, Serve(r, q) PROVE TypeOK'
<1>1. items' = items /\ TiersOK'
  BY GetFacts, TiersKept, TypeParts DEF Serve
<1>2. query' \in [Req -> Query \cup {None}] /\ query' = [query EXCEPT ![r] = q]
  BY DEF Serve, TypeOK
<1>3. CASE L1!Holds(KeyOf(q))
  <2>1. items[KeyOf(q)] \in Records
    BY <1>3 DEF L1!Holds, TypeOK
  <2>2. Goto(r, "check") /\ "check" \in Labels /\ rec' = [rec EXCEPT ![r] = items[KeyOf(q)]]
    BY <1>3 DEF Serve, Labels
  <2>3. RequestsOK'
    BY <1>2, <2>1, <2>2, TypeParts DEF Serve, RequestsOK, Goto, Deciding
  <2>4. QED  BY <1>1, <2>3, TypePartsNext
<1>4. CASE ~L1!Holds(KeyOf(q))
  <2>1. Goto(r, "embed") /\ "embed" \in Labels /\ rec' = rec
    BY <1>4 DEF Serve, Labels
  <2>2. RequestsOK'
    BY <1>2, <2>1, TypeParts DEF Serve, RequestsOK, Goto, Deciding
  <2>3. QED  BY <1>1, <2>2, TypePartsNext
<1>5. QED  BY <1>3, <1>4

(***************************************************************************)
(* Judging the record in hand is well typed.                               *)
(***************************************************************************)
LEMMA CheckType == ASSUME TypeOK, NEW r \in Req, Check(r) PROVE TypeOK'
<1>1. TiersOK'
  BY TiersKept, TypeParts DEF Check, shared, l1vars
<1>2. pc[r] = "check" /\ read' \in [Req -> Reads]
  BY ReadType DEF Check
<1>3. CASE Return(r, "L1", rec[r].body)
  <2>1. rec[r].body \in Bodies
    BY <1>2 DEF TypeOK, Records
  <2>2. RequestsOK'
    BY <1>2, <1>3, <2>1, ReturnMoves, HeldTypes DEF Check
  <2>3. QED  BY <1>1, <2>2, TypePartsNext
<1>4. CASE Goto(r, "embed")
  <2>1. "embed" \in Labels \ {"new", "check"} /\ "embed" \notin Deciding
    BY DEF Labels, Deciding
  <2>2. RequestsOK'
    BY <1>2, <1>4, <2>1, GotoMoves, HeldTypes DEF Check
  <2>3. QED  BY <1>1, <2>2, TypePartsNext
<1>5. QED  BY <1>3, <1>4 DEF Check

(***************************************************************************)
(* The embedding call is well typed.                                       *)
(***************************************************************************)
LEMMA EmbedType == ASSUME TypeOK, NEW r \in Req, Embed(r) PROVE TypeOK'
<1>1. PICK ok \in BOOLEAN : /\ vec' = [vec EXCEPT ![r] = ok]
                            /\ Goto(r, IF ok THEN "search" ELSE "upstream")
  BY DEF Embed
<1> DEFINE l == IF ok THEN "search" ELSE "upstream"
<1>2. l \in Labels \ {"new", "check"} /\ l \notin Deciding /\ vec' \in [Req -> BOOLEAN]
  BY <1>1, HeldTypes DEF Labels, Deciding
<1>3. pc[r] # "new" /\ Goto(r, l)
  BY <1>1 DEF Embed
<1> HIDE DEF l
<1>4. RequestsOK'
  BY <1>2, <1>3, GotoMoves, HeldTypes DEF Embed
<1>5. TiersOK'
  BY TiersKept, TypeParts DEF Embed, shared, l1vars
<1>6. QED  BY <1>4, <1>5, TypePartsNext

(***************************************************************************)
(* A search returns an entry of the index.                                 *)
(***************************************************************************)
LEMMA SearchType == ASSUME TypeOK, NEW r \in Req, Search(r) PROVE TypeOK'
<1>0. pc[r] = "search" /\ TiersOK'
  BY TiersKept, TypeParts DEF Search, shared, l1vars
<1>1. CASE Goto(r, "upstream") /\ UNCHANGED cand
  <2>1. "upstream" \in Labels \ {"new", "check"} /\ "upstream" \notin Deciding
    BY DEF Labels, Deciding
  <2>2. RequestsOK'
    BY <1>0, <1>1, <2>1, GotoMoves, HeldTypes DEF Search
  <2>3. QED  BY <1>0, <2>2, TypePartsNext
<1>2. ASSUME NEW i \in SearchResults(query[r]), cand' = [cand EXCEPT ![r] = l2[i]],
             Goto(r, "decide")
      PROVE  TypeOK'
  <2>1. i \in 1..Len(l2)
    BY <1>2 DEF SearchResults, Nearest, Candidates
  <2>2. l2[i] \in Entries
    BY <2>1, ElementOfSeq DEF TypeOK
  <2>3. "decide" \in Labels
    BY DEF Labels
  <2>4. RequestsOK'
    BY <1>0, <1>2, <2>2, <2>3, TypeParts DEF Search, Goto, RequestsOK
  <2>5. QED  BY <1>0, <2>4, TypePartsNext
<1>3. QED  BY <1>1, <1>2 DEF Search

(***************************************************************************)
(* Judging and stamping a candidate are well typed, and so is the record   *)
(* its promotion puts into L1.                                             *)
(***************************************************************************)
LEMMA DecideType == ASSUME TypeOK, NEW r \in Req, Decide(r) \/ Stamp(r) PROVE TypeOK'
<1>1. pc[r] \in Deciding /\ pc[r] # "new" /\ read' \in [Req -> Reads]
  BY ReadType DEF Decide, Stamp, Deciding
<1>2. PICK l \in {"stamp", "promote", "upstream"} : Goto(r, l)
  BY DEF Decide, Stamp
<1>3. l \in Labels \ {"new", "check"}
  BY DEF Labels
<1>4. UNCHANGED <<query, rec, cand, vec, reply, shared, process>>
  BY DEF Decide, Stamp
<1>5. RequestsOK'
  BY <1>1, <1>2, <1>3, <1>4, GotoMoves, HeldTypes
<1>6. TiersOK'
  BY <1>4, TiersKept, TypeParts DEF shared, l1vars
<1>7. QED  BY <1>5, <1>6, TypePartsNext

LEMMA PromoteType == ASSUME TypeOK, NEW r \in Req, Promote(r) PROVE TypeOK'
<1> DEFINE b == Plaintext(cand[r].response)
           put == Promoted(r)
<1>0. pc[r] = "promote" /\ cand[r] \in Entries /\ read[r].now \in Nat
  BY DEF Promote, Deciding, TypeOK
<1>1. b \in Bodies
  BY <1>0, PlainType DEF Entries
<1>2. put \in Records
  BY <1>0, <1>1 DEF Promoted, Records, Entries
<1>3. L1!Put(KeyOf(query[r]), put) /\ Return(r, "L2", b)
  BY DEF Promote
<1> HIDE DEF b, put
<1>4. TiersOK'
  BY <1>2, <1>3, TiersPut DEF Promote
<1>5. RequestsOK'
  BY <1>0, <1>1, <1>3, ReturnMoves, HeldTypes DEF Promote
<1>6. QED  BY <1>4, <1>5, TypePartsNext

(***************************************************************************)
(* What the upstream said is recorded well typed, whatever it said.        *)
(***************************************************************************)
LEMMA UpstreamType ==
  ASSUME TypeOK, NEW r \in Req, UpstreamFails(r) \/ UpstreamRefuses(r) \/ UpstreamAnswers(r)
  PROVE  TypeOK'
<1>1. /\ pc[r] = "upstream"
      /\ UNCHANGED <<query, rec, vec, cand, read, shared, process>>
  BY DEF UpstreamFails, UpstreamRefuses, UpstreamAnswers
<1>2. reply' \in [Req -> Replies]
  <2>1. PICK s \in {"ok", "bad", "err"} : reply' = [reply EXCEPT ![r] = [status |-> s, at |-> clock]]
    BY DEF UpstreamFails, UpstreamRefuses, UpstreamAnswers
  <2>2. [status |-> s, at |-> clock] \in Replies
    BY DEF TypeOK, Replies
  <2>3. QED  BY <2>1, <2>2, HeldTypes
<1>3. TiersOK'
  BY <1>1, TiersKept, TypeParts DEF shared, l1vars
<1>4. CASE UpstreamFails(r) \/ UpstreamRefuses(r)
  <2>1. PICK t \in {"MISS", "ERR"} : Return(r, t, Body(r))
    BY <1>4 DEF UpstreamFails, UpstreamRefuses
  <2>2. RequestsOK'
    BY <1>1, <1>2, <2>1, BodyTypes, ReturnMoves, HeldTypes
  <2>3. QED  BY <1>3, <2>2, TypePartsNext
<1>5. CASE UpstreamAnswers(r)
  <2>1. Goto(r, "keep") /\ "keep" \in Labels \ {"new", "check"} /\ "keep" \notin Deciding
    BY <1>5 DEF UpstreamAnswers, Labels, Deciding
  <2>2. RequestsOK'
    BY <1>1, <1>2, <2>1, GotoMoves, HeldTypes
  <2>3. QED  BY <1>3, <2>2, TypePartsNext
<1>6. QED  BY <1>4, <1>5

(***************************************************************************)
(* The answer put into L1 is a record.                                     *)
(***************************************************************************)
LEMMA KeepType == ASSUME TypeOK, NEW r \in Req, Keep(r) PROVE TypeOK'
<1> DEFINE put == Answered(r)
<1>0. pc[r] = "keep" /\ query[r] \in Query /\ reply[r].at \in Nat
  BY DEF Keep, TypeOK
<1>1. put \in Records
  BY <1>0, BodyTypes DEF Answered, Records, Langs
<1>2. L1!Put(KeyOf(query[r]), put)
  BY DEF Keep
<1> HIDE DEF put
<1>3. TiersOK'
  BY <1>1, <1>2, TiersPut DEF Keep
<1>4. CASE Goto(r, "charge")
  <2>1. "charge" \in Labels \ {"new", "check"} /\ "charge" \notin Deciding
    BY DEF Labels, Deciding
  <2>2. RequestsOK'
    BY <1>0, <1>4, <2>1, GotoMoves, HeldTypes DEF Keep
  <2>3. QED  BY <1>3, <2>2, TypePartsNext
<1>5. CASE Return(r, "MISS", Body(r))
  <2>1. RequestsOK'
    BY <1>0, <1>5, BodyTypes, ReturnMoves, HeldTypes DEF Keep
  <2>2. QED  BY <1>3, <2>1, TypePartsNext
<1>6. QED  BY <1>4, <1>5 DEF Keep

(***************************************************************************)
(* Asking for the quota, and its decision, are well typed.                 *)
(***************************************************************************)
LEMMA ChargeType == ASSUME TypeOK, NEW r \in Req, Charge(r) PROVE TypeOK'
<1>1. pc[r] = "charge" /\ read' \in [Req -> Reads]
  BY ReadType, HeldTypes DEF Charge
<1>2. PICK l \in {"add", "spend"} : Goto(r, l)
  BY DEF Charge
<1>3. l \in Labels \ {"new", "check"} /\ l \notin Deciding
  BY DEF Labels, Deciding
<1>4. RequestsOK'
  BY <1>1, <1>2, <1>3, GotoMoves, HeldTypes DEF Charge
<1>5. TiersOK'
  BY TiersKept, TypeParts DEF Charge, shared, l1vars
<1>6. QED  BY <1>4, <1>5, TypePartsNext

LEMMA GrantType ==
  ASSUME TypeOK, NEW t \in {q.tenant : q \in Query}, NEW n \in Nat, NEW now \in Nat,
         TB!Grants(quota[t], now, n), quota' = Spent(t, now, n),
         rewound' = [rewound EXCEPT ![t] = @ + Behind(t, now)]
  PROVE  /\ quota' \in [{q.tenant : q \in Query} -> TB!Bucket]
         /\ rewound' \in [{q.tenant : q \in Query} -> Nat]
<1>1. quota[t] \in TB!Bucket /\ quota[t].last \in Nat
  BY DEF TypeOK, TB!Bucket
<1>2. TB!Spend(quota[t], now, n) \in TB!Bucket
  BY <1>1, SpendType
<1>3. Behind(t, now) \in Nat
  BY <1>1 DEF Behind
<1>4. quota' = [quota EXCEPT ![t] = TB!Spend(quota[t], now, n)]
  BY DEF Spent
<1>5. /\ quota \in [{q.tenant : q \in Query} -> TB!Bucket]
      /\ rewound \in [{q.tenant : q \in Query} -> Nat]
  BY DEF TypeOK
<1>6. rewound[t] + Behind(t, now) \in Nat
  BY <1>3, <1>5
<1>7. QED  BY <1>2, <1>4, <1>5, <1>6

LEMMA SpentType ==
  ASSUME TypeOK, NEW r \in Req, Spend(r) PROVE TypeOK'
<1> DEFINE t == query[r].tenant
           n == BodyBytes(query[r])
           now == read[r].now
<1>0. pc[r] = "spend" /\ t \in {q.tenant : q \in Query} /\ n \in Nat /\ now \in Nat
  BY EngineAssumption DEF Spend, TypeOK
<1>1. CASE TB!Grants(quota[t], now, n)
  <2>1. quota' = Spent(t, now, n) /\ rewound' = [rewound EXCEPT ![t] = @ + Behind(t, now)]
    BY <1>1 DEF Spend
  <2>2. TiersOK'
    <3>1. /\ quota' \in [{q.tenant : q \in Query} -> TB!Bucket]
          /\ rewound' \in [{q.tenant : q \in Query} -> Nat]
      BY <1>0, <1>1, <2>1, GrantType
    <3>2. QED  BY <3>1, TypeParts DEF TiersOK, Spend, l1vars, process
  <2>3. Goto(r, "add") /\ "add" \in Labels \ {"new", "check"} /\ "add" \notin Deciding
    BY <1>1 DEF Spend, Labels, Deciding
  <2>4. UNCHANGED <<query, rec, vec, cand, read, reply>>
    BY <1>1 DEF Spend
  <2>5. RequestsOK'
    BY <1>0, <2>3, <2>4, GotoMoves, HeldTypes
  <2>6. QED  BY <2>2, <2>5, TypePartsNext
<1>2. CASE ~TB!Grants(quota[t], now, n)
  <2>1. /\ vec' = [vec EXCEPT ![r] = FALSE] /\ Return(r, "MISS", Body(r))
        /\ UNCHANGED <<query, rec, cand, read, reply, items, l2, quotas, process>>
    BY <1>2 DEF Spend, l1vars
  <2>2. vec' \in [Req -> BOOLEAN]
    BY <2>1, HeldTypes
  <2>3. RequestsOK'
    BY <1>0, <2>1, <2>2, BodyTypes, ReturnMoves, HeldTypes
  <2>4. QED  BY <2>1, <2>3, TiersKept, TypeParts, TypePartsNext
<1>3. QED  BY <1>1, <1>2

(***************************************************************************)
(* What is appended to L2 is an entry.                                     *)
(***************************************************************************)
LEMMA EntryType ==
  ASSUME TypeOK, NEW r \in Req, query[r] \in Query
  PROVE  Entry(r) \in Entries
<1>1. /\ KeyOf(query[r]) \in {KeyOf(q) : q \in Query}
      /\ query[r].scope \in {q.scope : q \in Query}
      /\ query[r].model \in {q.model : q \in Query}
      /\ query[r].embed \in {q.embed : q \in Query}
      /\ query[r].lang \in Langs
      /\ Tokens(query[r]) \in {Tokens(q) : q \in Query}
  BY DEF Langs
<1>2. Ciphertext(r) \in Bodies /\ reply[r].at \in Nat
  BY BodyTypes DEF TypeOK
<1>3. QED  BY <1>1, <1>2 DEF Entry, Entries

(***************************************************************************)
(* The store at the end of a miss is well typed.                           *)
(***************************************************************************)
LEMMA AddType == ASSUME TypeOK, NEW r \in Req, Add(r) PROVE TypeOK'
<1>0. pc[r] = "add" /\ query[r] \in Query
  BY DEF Add, TypeOK
<1>1. l2' \in Seq(Entries)
  <2>1. CASE l2' = Append(l2, Entry(r))
    BY <1>0, <2>1, EntryType, AppendProperties DEF TypeOK
  <2>2. CASE UNCHANGED l2
    BY <2>2 DEF TypeOK
  <2>3. QED  BY <2>1, <2>2 DEF Add, Added, SealFails, AddFails
<1>2. RequestsOK'
  BY <1>0, BodyTypes, ReturnMoves, HeldTypes DEF Add
<1>3. TiersOK'
  BY <1>1, TypeParts DEF Add, TiersOK, l1vars, quotas, process
<1>4. QED  BY <1>2, <1>3, TypePartsNext

(***************************************************************************)
(* A restart empties L1 and the limiters and may change the key.           *)
(***************************************************************************)
LEMMA RestartType == ASSUME TypeOK, Restart PROVE TypeOK'
<1>1. pc' = [r \in Req |-> IF InFlight(r) THEN "lost" ELSE pc[r]]
  BY DEF Restart
<1>2. pc' \in [Req -> Labels] /\ \A r \in Req : pc'[r] = "lost" \/ pc'[r] = pc[r]
  BY <1>1 DEF TypeOK, Labels
<1>3. \A r \in Req : pc'[r] # "new" => pc[r] # "new"
  BY <1>1 DEF InFlight, TypeOK
<1>4. RequestsOK'
  BY <1>2, <1>3, TypeParts DEF Restart, RequestsOK, Deciding
<1>5. DOMAIN items' = {}
  BY DEF Restart
<1>6. quota' \in [{q.tenant : q \in Query} -> TB!Bucket]
  <2>1. TB!Full \in TB!Bucket
    BY EngineAssumption DEF TB!Full, TB!Bucket
  <2>2. QED  BY <2>1 DEF Restart, TypeOK
<1>7. l2' \in Seq(Entries) /\ boots' \in Nat /\ ring' \in Rings
  BY DEF Restart, TypeOK
<1>8. TiersOK'
  BY <1>5, <1>6, <1>7, TypeParts DEF Restart, TiersOK
<1>9. QED  BY <1>4, <1>8, TypePartsNext

(***************************************************************************)
(* Every step keeps the types.                                             *)
(***************************************************************************)
LEMMA StepType == ASSUME TypeOK, NEW r \in Req, Step(r) PROVE TypeOK'
<1>1. CASE Check(r) \/ Embed(r) \/ Search(r)
  BY <1>1, CheckType, EmbedType, SearchType
<1>2. CASE Decide(r) \/ Stamp(r)
  BY <1>2, DecideType
<1>3. CASE UpstreamFails(r) \/ UpstreamRefuses(r) \/ UpstreamAnswers(r)
  BY <1>3, UpstreamType
<1>4. CASE Promote(r) \/ Keep(r) \/ Charge(r)
  BY <1>4, PromoteType, KeepType, ChargeType
<1>5. CASE Spend(r) \/ Add(r)
  BY <1>5, SpentType, AddType
<1>6. QED  BY <1>1, <1>2, <1>3, <1>4, <1>5 DEF Step

LEMMA NextType == TypeOK /\ [Next]_vars => TypeOK'
<1> SUFFICES ASSUME TypeOK, [Next]_vars PROVE TypeOK'
  OBVIOUS
<1>1. ASSUME NEW r \in Req, NEW q \in Query, Serve(r, q) PROVE TypeOK'
  BY <1>1, ServeType
<1>2. ASSUME NEW r \in Req, Step(r) PROVE TypeOK'
  BY <1>2, StepType
<1>3. CASE Tick
  BY <1>3 DEF Tick, TypeOK, shared, l1vars, quotas
<1>4. CASE Restart
  BY <1>4, RestartType
<1>5. CASE UNCHANGED vars
  BY <1>5 DEF vars, TypeOK
<1>6. QED  BY <1>1, <1>2, <1>3, <1>4, <1>5 DEF Next, Finished

(***************************************************************************)
(* Serve, its tiers, the quota and the restarts keep every variable in its *)
(* type.                                                                   *)
(***************************************************************************)
THEOREM TypeCorrect == Spec => []TypeOK
  BY InitType, NextType, PTL DEF Spec

-----------------------------------------------------------------------------
\* A step of request r, and what it leaves alone of the others.
StepOf(r) == Step(r) \/ \E q \in Query : Serve(r, q)

Untouched(s) ==
  /\ pc'[s] = pc[s] /\ query'[s] = query[s] /\ rec'[s] = rec[s] /\ cand'[s] = cand[s]
  /\ read'[s] = read[s] /\ reply'[s] = reply[s] /\ ans'[s] = ans[s]

\* A request that made an answer keeps its query and the upstream's reply.
Stays(b) == Made(b) => query'[b] = query[b] /\ reply'[b] = reply[b]

\* Made, Describes and Keyed after the step, of a request, an entry and a record
\* fixed before it.
MadeNext(b) == b \in Req /\ reply'[b].status = "ok"

DescribesNext(ent) ==
  LET b == ent.response.of
  IN /\ MadeNext(b)
     /\ ent.scope = query'[b].scope /\ ent.model = query'[b].model
     /\ ent.embed = query'[b].embed /\ ent.lang = query'[b].lang
     /\ ent.tokens = Tokens(query'[b])
     /\ ent.createdAt = reply'[b].at

KeyedNext(k, record) == MadeNext(record.body.of) /\ Answers(k, query'[record.body.of])

(***************************************************************************)
(* A request's step changes no other request.                              *)
(***************************************************************************)
LEMMA OthersUntouched ==
  ASSUME TypeOK, NEW r \in Req, StepOf(r), NEW s \in Req, s # r
  PROVE  Untouched(s)
<1>1. ASSUME NEW l, Goto(r, l) PROVE pc'[s] = pc[s] /\ ans'[s] = ans[s]
  BY <1>1 DEF Goto, TypeOK
<1>2. ASSUME NEW t, NEW b, Return(r, t, b) PROVE pc'[s] = pc[s] /\ ans'[s] = ans[s]
  BY <1>2 DEF Return, TypeOK
<1>3. CASE \E q \in Query : Serve(r, q)
  BY <1>1, <1>3 DEF Serve, Untouched, TypeOK
<1>4. CASE Check(r) \/ Decide(r) \/ Stamp(r)
  BY <1>1, <1>2, <1>4 DEF Check, Decide, Stamp, Untouched, TypeOK
<1>5. CASE Embed(r) \/ Search(r)
  BY <1>1, <1>5 DEF Embed, Search, Untouched, TypeOK
<1>6. CASE Promote(r) \/ Keep(r) \/ Add(r)
  BY <1>1, <1>2, <1>6 DEF Promote, Keep, Add, Untouched, TypeOK
<1>7. CASE UpstreamFails(r) \/ UpstreamRefuses(r) \/ UpstreamAnswers(r)
  BY <1>1, <1>2, <1>7 DEF UpstreamFails, UpstreamRefuses, UpstreamAnswers, Untouched, TypeOK
<1>8. CASE Charge(r) \/ Spend(r)
  BY <1>1, <1>2, <1>8 DEF Charge, Spend, Untouched, TypeOK
<1>9. QED  BY <1>3, <1>4, <1>5, <1>6, <1>7, <1>8 DEF StepOf, Step

(***************************************************************************)
(* A request that made an answer is past the steps that could change its   *)
(* query or the upstream's reply.                                          *)
(***************************************************************************)
LEMMA MakersStay ==
  ASSUME TypeOK, Provenance, NEW r \in Req, StepOf(r), NEW b
  PROVE  Stays(b)
<1> SUFFICES ASSUME Made(b) PROVE query'[b] = query[b] /\ reply'[b] = reply[b]
  BY DEF Stays
<1>1. b \in Req /\ reply[b].status = "ok" /\ pc[b] \notin Unheard
  BY DEF Made, Provenance, RequestSound
<1>2. CASE b # r
  BY <1>1, <1>2, OthersUntouched DEF Untouched, Made
<1>3. CASE b = r
  <2>1. pc[r] \notin Unheard
    BY <1>1, <1>3
  <2>2. Keep(r) \/ Charge(r) \/ Spend(r) \/ Add(r)
    BY <2>1 DEF StepOf, Step, Serve, Check, Embed, Search, Decide, Stamp, Promote, UpstreamFails,
                UpstreamRefuses, UpstreamAnswers, Unheard
  <2>3. query' = query /\ reply' = reply
    BY <2>2 DEF Keep, Charge, Spend, Add
  <2>4. QED  BY <1>1, <2>3 DEF Made
<1>4. QED  BY <1>2, <1>3

(***************************************************************************)
(* What describes its maker goes on describing it, and what may answer a   *)
(* key goes on answering it.                                               *)
(***************************************************************************)
LEMMA StillDescribes ==
  ASSUME \A b : Stays(b), NEW e, Describes(e)
  PROVE  DescribesNext(e)
<1>1. Stays(e.response.of)
  OBVIOUS
<1>2. QED  BY <1>1 DEF Describes, Stays, DescribesNext, Made, MadeNext

LEMMA StillKeyed ==
  ASSUME \A b : Stays(b), NEW k, NEW x, Keyed(k, x)
  PROVE  KeyedNext(k, x) /\ query'[x.body.of] = query[x.body.of]
<1>1. Stays(x.body.of)
  OBVIOUS
<1>2. QED  BY <1>1 DEF Keyed, Stays, KeyedNext, Made, MadeNext

(***************************************************************************)
(* What RequestSound asks after a step, clause by clause.                  *)
(***************************************************************************)
SoundNext(s) ==
  /\ pc'[s] \in Unheard => reply'[s].status = "none" /\ ans'[s].tier = "none"
  /\ pc'[s] \in Heard => MadeNext(s) /\ ans'[s].tier = "none"
  /\ pc'[s] = "check" => KeyedNext(KeyOf(query'[s]), rec'[s])
  /\ pc'[s] \in Deciding =>
       /\ DescribesNext(cand'[s])
       /\ cand'[s].scope = query'[s].scope /\ cand'[s].model = query'[s].model
  /\ pc'[s] \in {"stamp", "promote"} => Similar(query'[s], cand'[s])
  /\ ans'[s].tier \in {"L1", "L2"} =>
       MadeNext(ans'[s].body.of) /\ Answers(KeyOf(query'[s]), query'[ans'[s].body.of])

LEMMA SoundIsNext == ASSUME NEW s \in Req, SoundNext(s) PROVE RequestSound(s)'
  BY DEF SoundNext, RequestSound, FromCache, Maker, Made, MadeNext, Describes, DescribesNext, Keyed,
         KeyedNext

(***************************************************************************)
(* A request that is not touched stays sound.                              *)
(***************************************************************************)
LEMMA RequestKept ==
  ASSUME \A b : Stays(b), NEW s \in Req, RequestSound(s), Untouched(s)
  PROVE  RequestSound(s)'
<1>1. pc'[s] \in Unheard => reply'[s].status = "none" /\ ans'[s].tier = "none"
  BY DEF RequestSound, Untouched
<1>2. pc'[s] \in Heard => MadeNext(s) /\ ans'[s].tier = "none"
  <2>1. Stays(s)
    OBVIOUS
  <2>2. QED  BY <2>1 DEF RequestSound, Untouched, Stays, Made, MadeNext
<1>3. ASSUME pc'[s] = "check" PROVE KeyedNext(KeyOf(query'[s]), rec'[s])
  <2>1. Keyed(KeyOf(query[s]), rec[s]) /\ query'[s] = query[s] /\ rec'[s] = rec[s]
    BY <1>3 DEF RequestSound, Untouched
  <2>2. QED  BY <2>1, StillKeyed
<1>4. ASSUME pc'[s] \in Deciding
      PROVE  /\ DescribesNext(cand'[s])
             /\ cand'[s].scope = query'[s].scope /\ cand'[s].model = query'[s].model
  <2>1. Describes(cand[s]) /\ cand'[s] = cand[s]
    BY <1>4 DEF RequestSound, Untouched
  <2>2. DescribesNext(cand[s])
    BY <2>1, StillDescribes
  <2>3. QED  BY <1>4, <2>1, <2>2 DEF RequestSound, Untouched
<1>5. pc'[s] \in {"stamp", "promote"} => Similar(query'[s], cand'[s])
  BY DEF RequestSound, Untouched
<1>6. ASSUME ans'[s].tier \in {"L1", "L2"}
      PROVE  LET m == ans'[s].body.of
             IN MadeNext(m) /\ Answers(KeyOf(query'[s]), query'[m])
  <2> DEFINE m == ans[s].body.of
  <2>1. FromCache(s) /\ ans'[s].body.of = m
    BY <1>6 DEF FromCache, Untouched
  <2>2. Made(m) /\ Answers(KeyOf(query[s]), query[m])
    BY <2>1 DEF RequestSound, Maker
  <2>3. Stays(m)
    OBVIOUS
  <2>4. MadeNext(m) /\ query'[m] = query[m]
    BY <2>2, <2>3 DEF Stays, Made, MadeNext
  <2>5. QED  BY <2>1, <2>2, <2>4 DEF Untouched
<1>7. SoundNext(s)
  BY <1>1, <1>2, <1>3, <1>4, <1>5, <1>6 DEF SoundNext
<1>8. QED  BY <1>7, SoundIsNext

(***************************************************************************)
(* An L1 map that only lost keys stays sound.                              *)
(***************************************************************************)
LEMMA L1Kept ==
  ASSUME \A b : Stays(b), L1Sound,
         \A k \in DOMAIN items' : k \in DOMAIN items /\ items'[k] = items[k]
  PROVE  L1Sound'
<1>1. ASSUME NEW k \in DOMAIN items' PROVE KeyedNext(k, items'[k])
  BY StillKeyed DEF L1Sound
<1>2. QED  BY <1>1 DEF L1Sound, Keyed, KeyedNext, Made, MadeNext

(***************************************************************************)
(* Putting a record whose maker answers the key keeps L1 sound.            *)
(***************************************************************************)
LEMMA L1PutSound ==
  ASSUME \A b : Stays(b), L1Sound, NEW k, NEW put, L1!Put(k, put), KeyedNext(k, put)
  PROVE  L1Sound'
<1>1. \A x \in DOMAIN items' : \/ x = k /\ items'[x] = put
                               \/ x \in DOMAIN items /\ items'[x] = items[x]
  BY PutFacts
<1>2. ASSUME NEW x \in DOMAIN items' PROVE KeyedNext(x, items'[x])
  <2>1. CASE x = k /\ items'[x] = put
    BY <2>1
  <2>2. CASE x \in DOMAIN items /\ items'[x] = items[x]
    BY <2>2, StillKeyed DEF L1Sound
  <2>3. QED  BY <1>1, <2>1, <2>2
<1>3. QED  BY <1>2 DEF L1Sound, Keyed, KeyedNext, Made, MadeNext

(***************************************************************************)
(* An index that did not change stays sound.                               *)
(***************************************************************************)
LEMMA L2Kept ==
  ASSUME \A b : Stays(b), L2Sound, l2' = l2
  PROVE  L2Sound'
<1>1. ASSUME NEW i \in 1..Len(l2) PROVE DescribesNext(l2[i])
  BY StillDescribes DEF L2Sound
<1>2. QED  BY <1>1 DEF L2Sound, Describes, DescribesNext, Made, MadeNext

-----------------------------------------------------------------------------
(***************************************************************************)
(* What the step of one request must show: it keeps both tiers and itself  *)
(* sound, and then everything is.                                          *)
(***************************************************************************)
LEMMA StepSound ==
  ASSUME TypeOK, Provenance, NEW r \in Req, StepOf(r), L1Sound', L2Sound', SoundNext(r)
  PROVE  Provenance'
<1>1. \A b : Stays(b)
  BY MakersStay
<1>2. ASSUME NEW s \in Req, s # r PROVE RequestSound(s)'
  BY <1>1, <1>2, OthersUntouched, RequestKept DEF Provenance
<1>3. RequestSound(r)'
  BY SoundIsNext
<1>4. QED  BY <1>2, <1>3 DEF Provenance

(***************************************************************************)
(* A request that moves on without an answer, or is answered by its own    *)
(* upstream call, and leaves both tiers alone.                             *)
(***************************************************************************)
LEMMA TiersSound ==
  ASSUME TypeOK, Provenance, NEW r \in Req, StepOf(r), UNCHANGED <<items, l2>>
  PROVE  L1Sound' /\ L2Sound'
<1>1. \A b : Stays(b)
  BY MakersStay
<1>2. QED  BY <1>1, L1Kept, L2Kept DEF Provenance

LEMMA OwnAnswer ==
  ASSUME TypeOK, NEW r \in Req, NEW t \in {"MISS", "ERR"}, NEW b, Return(r, t, b)
  PROVE  SoundNext(r)
<1>1. pc'[r] = "done" /\ ans'[r].tier = t
  BY DEF Return, TypeOK
<1>2. t # "L1" /\ t # "L2"
  OBVIOUS
<1>3. QED  BY <1>1, <1>2 DEF SoundNext, Unheard, Heard, Deciding

LEMMA GoesOn ==
  ASSUME TypeOK, Provenance, NEW r \in Req, pc[r] \in Unheard,
         Goto(r, "embed") \/ Goto(r, "search") \/ Goto(r, "upstream"), reply' = reply
  PROVE  SoundNext(r)
<1>1. /\ pc'[r] \in {"embed", "search", "upstream"} /\ ans' = ans
      /\ reply[r].status = "none" /\ ans[r].tier = "none"
  BY DEF Goto, TypeOK, Provenance, RequestSound
<1>2. QED  BY <1>1 DEF SoundNext, Unheard, Heard, Deciding

(***************************************************************************)
(* The record L1 hands over may answer its key.                            *)
(***************************************************************************)
LEMMA ServeSound ==
  ASSUME TypeOK, Provenance, NEW r \in Req, NEW q \in Query, Serve(r, q) PROVE Provenance'
<1>0. StepOf(r)
  BY DEF StepOf
<1>1. \A b : Stays(b)
  BY <1>0, MakersStay
<1>2. items' = items /\ l2' = l2
  BY GetFacts DEF Serve
<1>3. L1Sound' /\ L2Sound'
  BY <1>0, <1>2, TiersSound
<1>4. /\ pc[r] = "new" /\ reply' = reply /\ query'[r] = q
      /\ reply[r].status = "none" /\ ans[r].tier = "none"
  BY DEF Serve, TypeOK, Provenance, RequestSound, Unheard
<1>5. CASE L1!Holds(KeyOf(q))
  <2>1. pc'[r] = "check" /\ ans' = ans /\ rec'[r] = items[KeyOf(q)]
    BY <1>5 DEF Serve, Goto, TypeOK
  <2>2. Keyed(KeyOf(q), items[KeyOf(q)])
    BY <1>5 DEF L1!Holds, Provenance, L1Sound
  <2>3. KeyedNext(KeyOf(q), items[KeyOf(q)])
    BY <1>1, <2>2, StillKeyed
  <2>4. SoundNext(r)
    BY <1>4, <2>1, <2>3 DEF SoundNext, Heard, Deciding
  <2>5. QED  BY <1>0, <1>3, <2>4, StepSound
<1>6. CASE ~L1!Holds(KeyOf(q))
  <2>1. Goto(r, "embed") /\ pc[r] \in Unheard
    BY <1>4, <1>6 DEF Serve, Unheard
  <2>2. QED  BY <1>0, <1>3, <1>4, <2>1, GoesOn, StepSound
<1>7. QED  BY <1>5, <1>6

(***************************************************************************)
(* An L1 hit answers with what its key may be answered with.               *)
(***************************************************************************)
LEMMA CheckSound ==
  ASSUME TypeOK, Provenance, NEW r \in Req, Check(r) PROVE Provenance'
<1>0. StepOf(r)
  BY DEF StepOf, Step
<1>1. L1Sound' /\ L2Sound'
  BY <1>0, TiersSound DEF Check, shared, l1vars
<1>2. pc[r] = "check" /\ query' = query /\ reply' = reply
  BY DEF Check
<1>3. CASE Return(r, "L1", rec[r].body)
  <2>1. pc'[r] = "done" /\ ans'[r].tier = "L1" /\ ans'[r].body = rec[r].body
    BY <1>3 DEF Return, TypeOK
  <2>2. Keyed(KeyOf(query[r]), rec[r])
    BY <1>2 DEF Provenance, RequestSound
  <2>3. SoundNext(r)
    BY <1>2, <2>1, <2>2 DEF SoundNext, Unheard, Heard, Deciding, Keyed, Made, MadeNext
  <2>4. QED  BY <1>0, <1>1, <2>3, StepSound
<1>4. CASE Goto(r, "embed")
  <2>1. pc[r] \in Unheard
    BY <1>2 DEF Unheard
  <2>2. QED  BY <1>0, <1>1, <1>2, <1>4, <2>1, GoesOn, StepSound
<1>5. QED  BY <1>3, <1>4 DEF Check

(***************************************************************************)
(* The embedding call stores and answers nothing.                          *)
(***************************************************************************)
LEMMA EmbedSound ==
  ASSUME TypeOK, Provenance, NEW r \in Req, Embed(r) PROVE Provenance'
<1>0. StepOf(r)
  BY DEF StepOf, Step
<1>1. L1Sound' /\ L2Sound'
  BY <1>0, TiersSound DEF Embed, shared, l1vars
<1>2. /\ pc[r] \in Unheard /\ reply' = reply
      /\ Goto(r, "search") \/ Goto(r, "upstream")
  BY DEF Embed, Unheard
<1>3. QED  BY <1>0, <1>1, <1>2, GoesOn, StepSound

(***************************************************************************)
(* A search hands over an entry of the right scope and model.              *)
(***************************************************************************)
LEMMA SearchSound ==
  ASSUME TypeOK, Provenance, NEW r \in Req, Search(r) PROVE Provenance'
<1>0. StepOf(r)
  BY DEF StepOf, Step
<1>1. \A b : Stays(b)
  BY <1>0, MakersStay
<1>2. L1Sound' /\ L2Sound'
  BY <1>0, TiersSound DEF Search, shared, l1vars
<1>3. /\ pc[r] \in Unheard /\ reply' = reply /\ query' = query
      /\ reply[r].status = "none" /\ ans[r].tier = "none"
  BY DEF Search, Provenance, RequestSound, Unheard
<1>4. CASE Goto(r, "upstream")
  BY <1>0, <1>2, <1>3, <1>4, GoesOn, StepSound
<1>5. ASSUME NEW i \in SearchResults(query[r]), cand' = [cand EXCEPT ![r] = l2[i]],
             Goto(r, "decide")
      PROVE  Provenance'
  <2>1. i \in Candidates(query[r])
    BY DEF SearchResults, Nearest
  <2>2. i \in 1..Len(l2) /\ l2[i].model = query[r].model /\ l2[i].scope = query[r].scope
    BY <2>1 DEF Candidates
  <2>3. pc'[r] = "decide" /\ cand'[r] = l2[i] /\ ans' = ans
    BY <1>5 DEF Goto, TypeOK
  <2>4. DescribesNext(cand'[r])
    <3>1. Describes(l2[i])
      BY <2>2 DEF Provenance, L2Sound
    <3>2. QED  BY <1>1, <2>3, <3>1, StillDescribes
  <2>5. SoundNext(r)
    BY <1>3, <2>2, <2>3, <2>4 DEF SoundNext, Heard
  <2>6. QED  BY <1>0, <1>2, <2>5, StepSound
<1>6. QED  BY <1>4, <1>5 DEF Search

(***************************************************************************)
(* A candidate that passed threshold and guard may answer the query, and   *)
(* so it may be promoted under the query's key: one hop, never two.        *)
(***************************************************************************)
LEMMA HitAnswers ==
  ASSUME TypeOK, NEW r \in Req, pc[r] = "promote", RequestSound(r)
  PROVE  LET m == cand[r].response.of
         IN Made(m) /\ Answers(KeyOf(query[r]), query[m])
<1> DEFINE m == cand[r].response.of
<1>1. query[r] \in Query /\ Similar(query[r], cand[r])
  BY DEF TypeOK, RequestSound
<1>2. /\ Made(m) /\ cand[r].embed = query[m].embed /\ cand[r].lang = query[m].lang
      /\ cand[r].tokens = Tokens(query[m])
      /\ query[m].scope = query[r].scope /\ query[m].model = query[r].model
  BY DEF RequestSound, Describes, Deciding
<1>3. Equivalent(query[r], query[m])
  BY <1>1, <1>2 DEF Similar, Equivalent
<1>4. KeyOf(query[r])[1] = query[r].scope /\ KeyOf(query[r])[2] = query[r].model
  BY DEF KeyOf
<1>5. QED  BY <1>1, <1>2, <1>3, <1>4 DEF Answers

(***************************************************************************)
(* Judging and stamping a candidate changes nothing but where the request  *)
(* is.                                                                     *)
(***************************************************************************)
LEMMA DecideSound ==
  ASSUME TypeOK, Provenance, NEW r \in Req, Decide(r) \/ Stamp(r) PROVE Provenance'
<1>0. StepOf(r)
  BY DEF StepOf, Step
<1>1. \A b : Stays(b)
  BY <1>0, MakersStay
<1>2. L1Sound' /\ L2Sound'
  BY <1>0, TiersSound DEF Decide, Stamp, shared, l1vars
<1>3. /\ pc[r] \in Deciding /\ pc[r] \in Unheard
      /\ reply' = reply /\ query' = query /\ cand' = cand
      /\ reply[r].status = "none" /\ ans[r].tier = "none"
      /\ Describes(cand[r]) /\ cand[r].scope = query[r].scope /\ cand[r].model = query[r].model
  BY DEF Decide, Stamp, Provenance, RequestSound, Unheard, Deciding
<1>4. CASE Goto(r, "upstream")
  BY <1>0, <1>2, <1>3, <1>4, GoesOn, StepSound
<1>5. ASSUME NEW l \in {"stamp", "promote"}, Goto(r, l), Similar(query[r], cand[r])
      PROVE  Provenance'
  <2>1. pc'[r] = l /\ ans' = ans
    BY <1>5 DEF Goto, TypeOK
  <2>2. DescribesNext(cand[r])
    BY <1>1, <1>3, StillDescribes
  <2>3. SoundNext(r)
    BY <1>3, <1>5, <2>1, <2>2 DEF SoundNext, Heard
  <2>4. QED  BY <1>0, <1>2, <2>3, StepSound
<1>6. CASE Decide(r)
  BY <1>4, <1>5, <1>6 DEF Decide, L2Hit
<1>7. CASE Stamp(r)
  <2>1. pc[r] = "stamp" /\ Goto(r, "promote") /\ Similar(query[r], cand[r])
    BY <1>7 DEF Stamp, Provenance, RequestSound
  <2>2. QED  BY <1>5, <2>1
<1>8. QED  BY <1>6, <1>7

(***************************************************************************)
(* An L2 hit, and its promotion into L1.                                   *)
(***************************************************************************)
LEMMA PromoteSound ==
  ASSUME TypeOK, Provenance, NEW r \in Req, Promote(r) PROVE Provenance'
<1> DEFINE m   == cand[r].response.of
           put == Promoted(r)
<1>0. StepOf(r)
  BY DEF StepOf, Step
<1>1. \A b : Stays(b)
  BY <1>0, MakersStay
<1>2. /\ L2Sound' /\ L1Sound /\ RequestSound(r)
      /\ pc[r] = "promote" /\ reply' = reply /\ query' = query
  BY <1>1, L2Kept DEF Promote, Provenance
<1>3. Made(m) /\ Answers(KeyOf(query[r]), query[m])
  BY <1>2, HitAnswers
<1>4. MadeNext(m) /\ query'[m] = query[m] /\ put.body.of = m
  BY <1>2, <1>3 DEF Made, MadeNext, Promoted, Plaintext, Body
<1>5. L1!Put(KeyOf(query[r]), put) /\ KeyedNext(KeyOf(query[r]), put)
  BY <1>3, <1>4 DEF Promote, KeyedNext
<1>6. pc'[r] = "done" /\ ans'[r].body.of = m
  BY DEF Promote, Return, Plaintext, Body, TypeOK
<1> HIDE DEF put, m
<1>7. L1Sound'
  BY <1>1, <1>2, <1>5, L1PutSound
<1>8. SoundNext(r)
  BY <1>2, <1>3, <1>4, <1>6 DEF SoundNext, Unheard, Heard, Deciding
<1>9. QED  BY <1>0, <1>2, <1>7, <1>8, StepSound

(***************************************************************************)
(* An upstream error, or another status than 200, stores nothing.          *)
(***************************************************************************)
LEMMA RefusedSound ==
  ASSUME TypeOK, Provenance, NEW r \in Req, UpstreamFails(r) \/ UpstreamRefuses(r)
  PROVE  Provenance'
<1>0. StepOf(r)
  BY DEF StepOf, Step
<1>1. L1Sound' /\ L2Sound'
  BY <1>0, TiersSound DEF UpstreamFails, UpstreamRefuses, shared, l1vars
<1>2. SoundNext(r)
  BY OwnAnswer DEF UpstreamFails, UpstreamRefuses
<1>3. QED  BY <1>0, <1>1, <1>2, StepSound

(***************************************************************************)
(* A 200 of the upstream makes the request the maker of its answer.        *)
(***************************************************************************)
LEMMA AnsweredSound ==
  ASSUME TypeOK, Provenance, NEW r \in Req, UpstreamAnswers(r) PROVE Provenance'
<1>0. StepOf(r)
  BY DEF StepOf, Step
<1>1. L1Sound' /\ L2Sound'
  BY <1>0, TiersSound DEF UpstreamAnswers, shared, l1vars
<1>2. pc'[r] = "keep" /\ ans' = ans /\ ans[r].tier = "none" /\ MadeNext(r)
  BY DEF UpstreamAnswers, Goto, MadeNext, TypeOK, Provenance, RequestSound, Unheard
<1>3. SoundNext(r)
  BY <1>2 DEF SoundNext, Unheard, Deciding
<1>4. QED  BY <1>0, <1>1, <1>3, StepSound

(***************************************************************************)
(* A request that has its answer and goes on storing it.                   *)
(***************************************************************************)
LEMMA StoresOn ==
  ASSUME TypeOK, Provenance, NEW r \in Req, pc[r] \in Heard,
         Goto(r, "charge") \/ Goto(r, "spend") \/ Goto(r, "add"), reply' = reply
  PROVE  SoundNext(r)
<1>1. pc'[r] \in Heard /\ pc'[r] \in {"charge", "spend", "add"} /\ ans' = ans
  BY DEF Goto, TypeOK, Heard
<1>2. Made(r) /\ ans[r].tier = "none"
  BY DEF Provenance, RequestSound
<1>3. QED  BY <1>1, <1>2 DEF SoundNext, Unheard, Deciding, Made, MadeNext

(***************************************************************************)
(* The answer goes into L1 under the key of the query it was asked for.    *)
(***************************************************************************)
LEMMA KeepSound ==
  ASSUME TypeOK, Provenance, NEW r \in Req, Keep(r) PROVE Provenance'
<1> DEFINE put == Answered(r)
<1>0. StepOf(r)
  BY DEF StepOf, Step
<1>1. \A b : Stays(b)
  BY <1>0, MakersStay
<1>2. /\ L2Sound' /\ L1Sound /\ pc[r] \in Heard /\ Made(r)
      /\ query' = query /\ reply' = reply
  BY <1>1, L2Kept DEF Keep, Provenance, RequestSound, Heard
<1>3. Answers(KeyOf(query[r]), query[r])
  BY DEF Answers, KeyOf
<1>4. L1!Put(KeyOf(query[r]), put) /\ put.body.of = r
  BY DEF Keep, Answered, Body
<1>5. KeyedNext(KeyOf(query[r]), put)
  BY <1>2, <1>3, <1>4 DEF KeyedNext, Made, MadeNext
<1> HIDE DEF put
<1>6. L1Sound'
  BY <1>1, <1>2, <1>4, <1>5, L1PutSound
<1>7. SoundNext(r)
  BY <1>2, StoresOn, OwnAnswer DEF Keep
<1>8. QED  BY <1>0, <1>2, <1>6, <1>7, StepSound

(***************************************************************************)
(* The quota stores nothing.                                               *)
(***************************************************************************)
LEMMA ChargeSound ==
  ASSUME TypeOK, Provenance, NEW r \in Req, Charge(r) \/ Spend(r) PROVE Provenance'
<1>0. StepOf(r)
  BY DEF StepOf, Step
<1>1. L1Sound' /\ L2Sound'
  BY <1>0, TiersSound DEF Charge, Spend, shared, l1vars
<1>2. pc[r] \in Heard /\ reply' = reply
  BY DEF Charge, Spend, Heard
<1>3. Goto(r, "spend") \/ Goto(r, "add") \/ Return(r, "MISS", Body(r))
  BY DEF Charge, Spend
<1>4. SoundNext(r)
  BY <1>2, <1>3, StoresOn, OwnAnswer
<1>5. QED  BY <1>0, <1>1, <1>4, StepSound

(***************************************************************************)
(* What a request stores in L2 describes that request.                     *)
(***************************************************************************)
LEMMA EntryDescribes ==
  ASSUME NEW r \in Req, MadeNext(r), query'[r] = query[r], reply'[r] = reply[r]
  PROVE  DescribesNext(Entry(r))
<1>1. Entry(r).response.of = r
  BY DEF Entry, Ciphertext
<1>2. /\ Entry(r).scope = query[r].scope /\ Entry(r).model = query[r].model
      /\ Entry(r).embed = query[r].embed /\ Entry(r).lang = query[r].lang
      /\ Entry(r).tokens = Tokens(query[r]) /\ Entry(r).createdAt = reply[r].at
  BY DEF Entry
<1>3. QED  BY <1>1, <1>2 DEF DescribesNext

(***************************************************************************)
(* The store at the end of a miss, whether it is skipped, fails or not.    *)
(***************************************************************************)
LEMMA AddSound ==
  ASSUME TypeOK, Provenance, NEW r \in Req, Add(r) PROVE Provenance'
<1>0. StepOf(r)
  BY DEF StepOf, Step
<1>1. \A b : Stays(b)
  BY <1>0, MakersStay
<1>2. L1Sound'
  BY <1>1, L1Kept DEF Add, l1vars, Provenance
<1>3. query' = query /\ reply' = reply /\ MadeNext(r) /\ query[r] \in Query
  BY DEF Add, Provenance, RequestSound, Heard, Made, MadeNext, TypeOK
<1>4. L2Sound'
  <2>1. CASE UNCHANGED l2
    BY <1>1, <2>1, L2Kept DEF Provenance
  <2>2. CASE l2' = Append(l2, Entry(r))
    <3> DEFINE e == Entry(r)
    <3>1. e \in Entries /\ DescribesNext(e)
      BY <1>3, EntryType, EntryDescribes
    <3> HIDE DEF e
    <3>2. /\ Len(l2') = Len(l2) + 1 /\ Len(l2) \in Nat
          /\ \A i \in 1..Len(l2) : l2'[i] = l2[i]
          /\ l2'[Len(l2) + 1] = e
      BY <2>2, <3>1, AppendProperties DEF TypeOK, e
    <3>3. ASSUME NEW i \in 1..Len(l2') PROVE DescribesNext(l2'[i])
      <4>1. CASE i = Len(l2) + 1
        BY <3>1, <3>2, <4>1
      <4>2. CASE i # Len(l2) + 1
        <5>1. i \in 1..Len(l2)
          BY <3>2, <4>2
        <5>2. Describes(l2[i]) /\ l2'[i] = l2[i]
          BY <3>2, <5>1 DEF Provenance, L2Sound
        <5>3. QED  BY <1>1, <5>2, StillDescribes
      <4>3. QED  BY <4>1, <4>2
    <3>4. QED  BY <3>3 DEF L2Sound, Describes, DescribesNext, Made, MadeNext
  <2>3. QED  BY <2>1, <2>2 DEF Add, Added, SealFails, AddFails
<1>5. SoundNext(r)
  BY OwnAnswer DEF Add
<1>6. QED  BY <1>0, <1>2, <1>4, <1>5, StepSound

-----------------------------------------------------------------------------
(***************************************************************************)
(* Time passing changes no answer and no entry.                            *)
(***************************************************************************)
LEMMA IdleSound ==
  ASSUME Provenance, UNCHANGED <<pc, query, rec, cand, read, reply, ans, items, l2>> PROVE Provenance'
<1>1. \A b : Stays(b)
  BY DEF Stays
<1>2. L1Sound' /\ L2Sound'
  BY <1>1, L1Kept, L2Kept DEF Provenance
<1>3. ASSUME NEW s \in Req PROVE RequestSound(s)'
  <2>1. Untouched(s) /\ RequestSound(s)
    BY DEF Untouched, Provenance
  <2>2. QED  BY <1>1, <2>1, RequestKept
<1>4. QED  BY <1>2, <1>3 DEF Provenance

(***************************************************************************)
(* A crash loses requests and the memory of the process; what the database *)
(* kept still describes its makers.                                        *)
(***************************************************************************)
LEMMA RestartSound ==
  ASSUME TypeOK, Provenance, Restart PROVE Provenance'
<1>0. UNCHANGED <<query, rec, cand, read, reply, ans>>
  BY DEF Restart
<1>1. \A b : Stays(b)
  BY <1>0 DEF Stays
<1>2. DOMAIN items' = {}
  BY DEF Restart
<1>3. L1Sound'
  BY <1>2 DEF L1Sound
<1>4. L2Sound'
  <2>1. CASE l2' = l2
    BY <1>1, <2>1, L2Kept DEF Provenance
  <2>2. CASE l2' = <<>>
    BY <2>2 DEF L2Sound
  <2>3. QED  BY <2>1, <2>2 DEF Restart
<1>5. ASSUME NEW s \in Req PROVE RequestSound(s)'
  <2>0. RequestSound(s)
    BY DEF Provenance
  <2>1. CASE pc'[s] = pc[s]
    <3>1. Untouched(s)
      BY <1>0, <2>1 DEF Untouched
    <3>2. QED  BY <1>1, <2>0, <3>1, RequestKept
  <2>2. CASE pc'[s] = "lost"
    <3>1. FromCache(s) => Made(Maker(s)) /\ Answers(KeyOf(query[s]), query[Maker(s)])
      BY <2>0 DEF RequestSound
    <3>2. QED  BY <1>0, <2>2, <3>1 DEF RequestSound, Unheard, Heard, Deciding, FromCache, Maker, Made
  <2>3. QED  BY <2>1, <2>2 DEF Restart
<1>6. QED  BY <1>3, <1>4, <1>5 DEF Provenance

(***************************************************************************)
(* A process starts with nothing stored and nobody answered.               *)
(***************************************************************************)
LEMMA InitSound == Init => Provenance
<1> SUFFICES ASSUME Init PROVE Provenance
  OBVIOUS
<1>1. L1Sound
  BY DEF Init, L1!Init, L1Sound
<1>2. L2Sound
  BY DEF Init, L2Sound
<1>3. ASSUME NEW r \in Req PROVE RequestSound(r)
  BY DEF Init, NotAnswered, RequestSound, FromCache, Heard, Deciding
<1>4. QED  BY <1>1, <1>2, <1>3 DEF Provenance

(***************************************************************************)
(* Every step keeps the provenance of every stored and served body.        *)
(***************************************************************************)
LEMMA NextSound == TypeOK /\ Provenance /\ [Next]_vars => Provenance'
<1> SUFFICES ASSUME TypeOK, Provenance, [Next]_vars PROVE Provenance'
  OBVIOUS
<1>1. ASSUME NEW r \in Req, NEW q \in Query, Serve(r, q) PROVE Provenance'
  BY <1>1, ServeSound
<1>2. ASSUME NEW r \in Req, Step(r) PROVE Provenance'
  <2>1. CASE Check(r) \/ Embed(r) \/ Search(r)
    BY <2>1, CheckSound, EmbedSound, SearchSound
  <2>2. CASE Decide(r) \/ Stamp(r)
    BY <2>2, DecideSound
  <2>3. CASE UpstreamFails(r) \/ UpstreamRefuses(r)
    BY <2>3, RefusedSound
  <2>4. CASE Charge(r) \/ Spend(r)
    BY <2>4, ChargeSound
  <2>5. CASE Promote(r) \/ UpstreamAnswers(r) \/ Keep(r) \/ Add(r)
    BY <2>5, PromoteSound, AnsweredSound, KeepSound, AddSound
  <2>6. QED  BY <1>2, <2>1, <2>2, <2>3, <2>4, <2>5 DEF Step
<1>3. CASE Tick
  BY <1>3, IdleSound DEF Tick, shared, l1vars
<1>4. CASE Restart
  BY <1>4, RestartSound
<1>5. CASE UNCHANGED vars
  BY <1>5, IdleSound DEF vars
<1>6. QED  BY <1>1, <1>2, <1>3, <1>4, <1>5 DEF Next, Finished

(***************************************************************************)
(* In every run of Serve every stored body can be traced to the upstream   *)
(* call that made it, and is stored only where it answers: the invariant   *)
(* the three theorems below follow from.                                   *)
(***************************************************************************)
THEOREM EveryBodyHasAMaker == Spec => []Provenance
  BY TypeCorrect, InitSound, NextSound, PTL DEF Spec

(***************************************************************************)
(* A cache never serves an upstream error or a status other than 200.      *)
(***************************************************************************)
THEOREM OnlyCleanSuccessIsServed == Spec => []OnlySuccessServed
<1>1. Provenance => OnlySuccessServed
  BY DEF Provenance, RequestSound, OnlySuccessServed, Made
<1>2. QED  BY <1>1, EveryBodyHasAMaker, PTL

(***************************************************************************)
(* A cache never crosses a tenant scope or a model.                        *)
(***************************************************************************)
THEOREM ScopesAreIsolated == Spec => []ScopeIsolation
<1>1. Provenance => ScopeIsolation
  BY DEF Provenance, RequestSound, ScopeIsolation, Answers, KeyOf
<1>2. QED  BY <1>1, EveryBodyHasAMaker, PTL

(***************************************************************************)
(* A cached answer is one hop from the query it is served to, whatever the *)
(* similarity, the thresholds and the guard are.                           *)
(***************************************************************************)
THEOREM NoAnswerDrifts == Spec => []NoDrift
<1>1. Provenance => NoDrift
  BY DEF Provenance, RequestSound, NoDrift, Answers
<1>2. QED  BY <1>1, EveryBodyHasAMaker, PTL

-----------------------------------------------------------------------------

(***************************************************************************)
(* A request that has not begun has asked nothing.                         *)
(***************************************************************************)
NewIsUnasked == \A r \in Req : pc[r] = "new" => query[r] = None

(***************************************************************************)
(* Before the first step no request has begun.                             *)
(***************************************************************************)
LEMMA InitUnasked == Init => NewIsUnasked
  BY DEF Init, NewIsUnasked

(***************************************************************************)
(* The query is set by the step that begins the request, and by none       *)
(* before it.                                                              *)
(***************************************************************************)
LEMMA NextUnasked == TypeOK /\ NewIsUnasked /\ [Next]_vars => NewIsUnasked'
<1> SUFFICES ASSUME TypeOK, NewIsUnasked, [Next]_vars, NEW s \in Req, pc'[s] = "new"
             PROVE  query'[s] = None
  BY DEF NewIsUnasked
<1>1. ASSUME NEW r \in Req, StepOf(r) PROVE query'[s] = None
  <2>1. CASE s # r
    BY <1>1, <2>1, OthersUntouched DEF Untouched, NewIsUnasked
  <2>2. ASSUME NEW l, Goto(r, l), l # "new" PROVE pc'[r] # "new"
    BY <2>2 DEF Goto, TypeOK
  <2>3. ASSUME NEW t, NEW b, Return(r, t, b) PROVE pc'[r] # "new"
    BY <2>3 DEF Return, TypeOK
  <2>4. pc'[r] # "new"
    <3>1. CASE \E q \in Query : Serve(r, q)
      BY <2>2, <2>3, <3>1 DEF Serve
    <3>2. CASE Check(r) \/ Embed(r) \/ Search(r) \/ Decide(r) \/ Stamp(r) \/ Promote(r)
      BY <2>2, <2>3, <3>2 DEF Check, Embed, Search, Decide, Stamp, Promote
    <3>3. CASE UpstreamFails(r) \/ UpstreamRefuses(r) \/ UpstreamAnswers(r)
      BY <2>2, <2>3, <3>3 DEF UpstreamFails, UpstreamRefuses, UpstreamAnswers
    <3>4. CASE Keep(r) \/ Charge(r) \/ Spend(r) \/ Add(r)
      BY <2>2, <2>3, <3>4 DEF Keep, Charge, Spend, Add
    <3>5. QED  BY <1>1, <3>1, <3>2, <3>3, <3>4 DEF StepOf, Step
  <2>5. QED  BY <2>1, <2>4
<1>2. CASE Tick \/ UNCHANGED vars
  BY <1>2 DEF Tick, vars, NewIsUnasked
<1>3. CASE Restart
  <2>1. pc[s] = "new" /\ query'[s] = query[s]
    BY <1>3 DEF Restart, InFlight
  <2>2. QED  BY <2>1 DEF NewIsUnasked
<1>4. QED  BY <1>1, <1>2, <1>3 DEF Next, Finished, StepOf

-----------------------------------------------------------------------------
(***************************************************************************)
(* The variables of CachePromise as the engine has them, read at the old   *)
(* and at the new state.                                                   *)
(***************************************************************************)
MadeSet == {r \in Req : Made(r)}
GotOf   == [r \in Req |-> IF ans[r].tier = "none" THEN None ELSE Maker(r)]

(***************************************************************************)
(* A step that moves on has answered nobody; one that returns gives r the  *)
(* answer it returns.                                                      *)
(***************************************************************************)
LEMMA GotStays == ASSUME ans' = ans PROVE GotOf' = GotOf
  BY DEF GotOf, Maker

(***************************************************************************)
(* A return records the maker of the body it returns, for its request      *)
(* alone.                                                                  *)
(***************************************************************************)
LEMMA GotReturned ==
  ASSUME TypeOK, NEW r \in Req, NEW t \in {"L1", "L2", "MISS", "ERR"}, NEW b, Return(r, t, b)
  PROVE  GotOf' = [GotOf EXCEPT ![r] = b.of]
<1>1. ans' = [ans EXCEPT ![r] = [tier |-> t, body |-> b, boot |-> boots]]
  BY DEF Return
<1>2. /\ ans'[r].tier # "none" /\ ans'[r].body.of = b.of
      /\ \A s \in Req : s # r => ans'[s] = ans[s]
  BY <1>1 DEF TypeOK
<1>3. QED  BY <1>2 DEF GotOf, Maker

(***************************************************************************)
(* Until its upstream call a request has made nothing; a step of another   *)
(* kind makes nothing.                                                     *)
(***************************************************************************)
LEMMA MadeStays == ASSUME reply' = reply PROVE MadeSet' = MadeSet
  BY DEF MadeSet, Made

(***************************************************************************)
(* Hearing from the upstream makes an answer exactly when it is a success. *)
(***************************************************************************)
LEMMA MadeHeard ==
  ASSUME TypeOK, Provenance, NEW r \in Req, pc[r] = "upstream", NEW s \in {"ok", "bad", "err"},
         reply' = [reply EXCEPT ![r] = [status |-> s, at |-> clock]]
  PROVE  MadeSet' = IF s = "ok" THEN MadeSet \cup {r} ELSE MadeSet
<1>1. reply[r].status = "none"
  BY DEF Provenance, RequestSound, Unheard
<1>2. reply'[r].status = s /\ \A x \in Req : x # r => reply'[x] = reply[x]
  BY DEF TypeOK
<1>3. QED  BY <1>1, <1>2 DEF MadeSet, Made

(***************************************************************************)
(* What Answers a key of the engine's is Allowed by the promise.           *)
(***************************************************************************)
LEMMA AllowedAnswer ==
  ASSUME NEW q \in Query, NEW m \in Query, Answers(KeyOf(q), m)
  PROVE  <<q, m>> \in {p \in Query \X Query : Answers(KeyOf(p[1]), p[2])}
  OBVIOUS

(***************************************************************************)
(* The steps of a request are steps of the promise, or none: it asks when  *)
(* it begins,                                                              *)
(***************************************************************************)
LEMMA ServeKeeps ==
  ASSUME TypeOK, Provenance, NewIsUnasked, NEW r \in Req, NEW q \in Query, Serve(r, q)
  PROVE  Promise!Start(r)
<1>1. /\ query[r] = None /\ query' = [query EXCEPT ![r] = q] /\ MadeSet' = MadeSet
      /\ ans[r].tier = "none" /\ GotOf[r] = None
  BY MadeStays DEF Serve, NewIsUnasked, Provenance, RequestSound, Unheard, GotOf
<1>2. GotOf' = GotOf
  BY GotStays DEF Serve, Goto
<1>3. QED  BY <1>1, <1>2 DEF Promise!Start, Promise!Ask, MadeSet, GotOf

(***************************************************************************)
(* it is given what was kept when what it holds, a record of L1 or a       *)
(* candidate of L2, is served,                                             *)
(***************************************************************************)
LEMMA KeptServed ==
  ASSUME TypeOK, Provenance, NEW r \in Req, pc[r] \in Unheard, query[r] \in Query,
         NEW m, Made(m), Answers(KeyOf(query[r]), query[m]),
         NEW t \in {"L1", "L2"}, NEW b, b.of = m, Return(r, t, b), UNCHANGED <<query, reply>>
  PROVE  Promise!FromKept(r)
<1>1. MadeSet' = MadeSet /\ GotOf[r] = None
  BY MadeStays DEF Provenance, RequestSound, GotOf
<1>2. m \in MadeSet /\ query[m] \in Query
  <2>1. m \in Req /\ pc[m] # "new"
    BY DEF Made, Provenance, RequestSound, Unheard
  <2>2. QED  BY <2>1 DEF MadeSet, TypeOK
<1>3. <<query[r], query[m]>> \in {p \in Query \X Query : Answers(KeyOf(p[1]), p[2])}
  BY <1>2, AllowedAnswer
<1>4. GotOf' = [GotOf EXCEPT ![r] = m]
  BY GotReturned
<1>5. query[r] # None
  BY EngineAssumption
<1>6. QED  BY <1>1, <1>2, <1>3, <1>4, <1>5 DEF Promise!FromKept, Promise!Get, MadeSet, GotOf

LEMMA HitKeeps ==
  ASSUME TypeOK, Provenance, NEW r \in Req,
         \/ Check(r) /\ Return(r, "L1", rec[r].body)
         \/ Promote(r)
  PROVE  Promise!FromKept(r)
<1>1. RequestSound(r) /\ pc[r] \in {"check", "promote"} /\ UNCHANGED <<query, reply>>
  BY DEF Provenance, Check, Promote
<1>2. query[r] \in Query /\ pc[r] \in Unheard
  BY <1>1 DEF TypeOK, Unheard
<1>3. CASE Check(r) /\ Return(r, "L1", rec[r].body)
  <2>1. Keyed(KeyOf(query[r]), rec[r])
    BY <1>1, <1>3 DEF Check, RequestSound
  <2>2. QED  BY <1>1, <1>2, <1>3, <2>1, KeptServed DEF Keyed
<1>4. CASE Promote(r)
  <2> DEFINE m == cand[r].response.of
             b == Plaintext(cand[r].response)
  <2>1. Made(m) /\ Answers(KeyOf(query[r]), query[m])
    BY <1>1, <1>4, HitAnswers DEF Promote
  <2>2. b.of = m /\ Return(r, "L2", b)
    BY <1>4 DEF Plaintext, Body, Promote
  <2> HIDE DEF b, m
  <2>3. QED  BY <1>1, <1>2, <2>1, <2>2, KeptServed
<1>5. QED  BY <1>3, <1>4

(***************************************************************************)
(* and each outcome of the upstream call is one of the promise's.          *)
(***************************************************************************)
LEMMA UpstreamKeeps ==
  ASSUME TypeOK, Provenance, NEW r \in Req, 
         UpstreamFails(r) \/ UpstreamRefuses(r) \/ UpstreamAnswers(r)
  PROVE  Promise!FromUpstream(r)
<1>1. /\ pc[r] = "upstream" /\ query[r] \in Query /\ query' = query /\ GotOf[r] = None
  BY DEF UpstreamFails, UpstreamRefuses, UpstreamAnswers, Provenance, RequestSound, Unheard,
         GotOf, TypeOK
<1>2. PICK s \in {"ok", "bad", "err"} : reply' = [reply EXCEPT ![r] = [status |-> s, at |-> clock]]
  BY DEF UpstreamFails, UpstreamRefuses, UpstreamAnswers
<1>3. MadeSet' = MadeSet \/ MadeSet' = MadeSet \cup {r}
  BY <1>1, <1>2, MadeHeard
<1>4. GotOf' = GotOf \/ GotOf' = [GotOf EXCEPT ![r] = r]
  <2>1. Body(r).of = r
    BY DEF Body
  <2>2. ans' = ans \/ Return(r, "MISS", Body(r)) \/ Return(r, "ERR", Body(r))
    BY DEF UpstreamFails, UpstreamRefuses, UpstreamAnswers, Goto
  <2>3. QED  BY <2>1, <2>2, GotStays, GotReturned
<1>5. query[r] # None
  BY <1>1, EngineAssumption
<1>6. QED  BY <1>1, <1>3, <1>4, <1>5
           DEF Promise!FromUpstream, Promise!Make, Promise!Get, MadeSet, GotOf

(***************************************************************************)
(* Keeping, charging and storing change nothing the promise speaks of, but *)
(* for the answer returned at their end.                                   *)
(***************************************************************************)
LEMMA StoreKeeps ==
  ASSUME TypeOK, Provenance, NEW r \in Req, Keep(r) \/ Charge(r) \/ Spend(r) \/ Add(r)
  PROVE  Promise!FromUpstream(r)
<1>1. /\ pc[r] \in Heard /\ query[r] \in Query /\ query' = query /\ GotOf[r] = None
      /\ MadeSet' = MadeSet
  BY MadeStays DEF Keep, Charge, Spend, Add, Provenance, RequestSound, Heard, GotOf, TypeOK
<1>2. GotOf' = GotOf \/ GotOf' = [GotOf EXCEPT ![r] = r]
  <2>1. Body(r).of = r
    BY DEF Body
  <2>2. ans' = ans \/ Return(r, "MISS", Body(r))
    BY DEF Keep, Charge, Spend, Add, Goto
  <2>3. QED  BY <2>1, <2>2, GotStays, GotReturned
<1>3. query[r] # None
  BY <1>1, EngineAssumption
<1>4. QED  BY <1>1, <1>2, <1>3 DEF Promise!FromUpstream, Promise!Get, MadeSet, GotOf

\* The variables of CachePromise, as Engine maps them.
PromiseVars == <<query, MadeSet, GotOf>>

(***************************************************************************)
(* Every step of the engine is one of the promise, or none.                *)
(***************************************************************************)
LEMMA StepKeeps ==
  ASSUME TypeOK, Provenance, NewIsUnasked, [Next]_vars
  PROVE  (\E r \in Req : Promise!Start(r) \/ Promise!FromKept(r) \/ Promise!FromUpstream(r))
         \/ UNCHANGED PromiseVars
<1>1. ASSUME NEW r \in Req, NEW q \in Query, Serve(r, q) PROVE Promise!Start(r)
  BY <1>1, ServeKeeps
<1>2. ASSUME query' = query, reply' = reply, ans' = ans PROVE UNCHANGED PromiseVars
  BY <1>2, GotStays, MadeStays DEF PromiseVars
<1>3. ASSUME NEW r \in Req, Embed(r) \/ Search(r) \/ Decide(r) \/ Stamp(r) PROVE UNCHANGED PromiseVars
  BY <1>2, <1>3 DEF Embed, Search, Decide, Stamp, Goto
<1>4. ASSUME NEW r \in Req, Check(r) PROVE Promise!FromKept(r) \/ UNCHANGED PromiseVars
  <2>1. CASE Return(r, "L1", rec[r].body)
    BY <1>4, <2>1, HitKeeps
  <2>2. CASE Goto(r, "embed")
    BY <1>2, <1>4, <2>2 DEF Check, Goto
  <2>3. QED  BY <1>4, <2>1, <2>2 DEF Check
<1>5. CASE Tick \/ Restart \/ UNCHANGED vars
  BY <1>2, <1>5 DEF Tick, Restart, vars
<1>6. ASSUME NEW r \in Req, Step(r)
      PROVE  Promise!FromKept(r) \/ Promise!FromUpstream(r) \/ UNCHANGED PromiseVars
  BY <1>3, <1>4, <1>6, HitKeeps, UpstreamKeeps, StoreKeeps DEF Step
<1>7. QED  BY <1>1, <1>5, <1>6 DEF Next, Finished

(***************************************************************************)
(* The engine implements the promise: over every interleaving, failure,    *)
(* promotion and restart, each request gets one answer, its own call's or  *)
(* one made before it for a query it allows.                               *)
(***************************************************************************)
THEOREM PromiseIsKept == Spec => KeepsThePromise
<1>1. Init => Promise!Init
  BY DEF Init, NotAnswered, Promise!Init, Made
<1>2. TypeOK /\ Provenance /\ NewIsUnasked /\ [Next]_vars
        => [Promise!Next]_<<query, {r \in Req : Made(r)},
                            [r \in Req |-> IF ans[r].tier = "none" THEN None ELSE Maker(r)]>>
  BY StepKeeps DEF Promise!Next, PromiseVars, MadeSet, GotOf
<1>3. QED  BY <1>1, <1>2, TypeCorrect, EveryBodyHasAMaker, InitUnasked, NextUnasked, PTL
           DEF Spec, KeepsThePromise, Promise!Spec
-----------------------------------------------------------------------------
(***************************************************************************)
(* Seals.  With a key in every process, what L2 gets is sealed and what L1 *)
(* and the clients get is not.                                             *)
(***************************************************************************)
EveryProcessHasAKey == NoCipher \notin Rings

(***************************************************************************)
(* An entry enters L2 only sealed, when every process has a key.           *)
(***************************************************************************)
LEMMA SealedStep == TypeOK /\ EveryProcessHasAKey /\ SealedAtRest /\ [Next]_vars => SealedAtRest'
<1> SUFFICES ASSUME TypeOK, EveryProcessHasAKey, SealedAtRest, [Next]_vars PROVE SealedAtRest'
  OBVIOUS
<1>1. \A i \in 1..Len(l2) : l2[i].response.by # NoCipher
  BY DEF SealedAtRest, EveryProcessHasAKey
<1>2. CASE UNCHANGED l2
  BY <1>1, <1>2 DEF SealedAtRest
<1>3. CASE l2' = <<>>
  BY <1>3 DEF SealedAtRest
<1>4. ASSUME NEW r \in Req, Add(r), l2' = Append(l2, Entry(r)) PROVE SealedAtRest'
  <2>1. Entry(r) \in Entries
    <3>1. query[r] \in Query
      BY <1>4 DEF Add, TypeOK
    <3>2. QED  BY <3>1, EntryType
  <2>2. Entry(r).response.by # NoCipher
    BY DEF Entry, Ciphertext, TypeOK, EveryProcessHasAKey
  <2> DEFINE e == Entry(r)
  <2> HIDE DEF e
  <2>3. /\ Len(l2') = Len(l2) + 1 /\ Len(l2) \in Nat
        /\ \A i \in 1..Len(l2) : l2'[i] = l2[i]
        /\ l2'[Len(l2) + 1] = e
    BY <1>4, <2>1, AppendProperties DEF TypeOK, e
  <2>4. ASSUME NEW i \in 1..Len(l2') PROVE l2'[i].response.by # NoCipher
    <3>1. i = Len(l2) + 1 \/ i \in 1..Len(l2)
      BY <2>3
    <3>2. QED  BY <1>1, <2>2, <2>3, <3>1 DEF e
  <2>5. QED  BY <2>4 DEF SealedAtRest
<1>5. ASSUME NEW r \in Req, Step(r) PROVE SealedAtRest'
  <2>1. Add(r) \/ UNCHANGED l2
    BY <1>5 DEF Step, Check, Embed, Search, Decide, Stamp, Promote, UpstreamFails, UpstreamRefuses,
                UpstreamAnswers, Keep, Charge, Spend, shared
  <2>2. QED  BY <1>2, <1>4, <2>1 DEF Add, Added, SealFails, AddFails
<1>6. CASE \E r \in Req, q \in Query : Serve(r, q)
  BY <1>2, <1>6 DEF Serve
<1>7. CASE Tick \/ Restart \/ UNCHANGED vars
  BY <1>2, <1>3, <1>7 DEF Tick, Restart, vars, shared
<1>8. QED  BY <1>5, <1>6, <1>7 DEF Next, Finished

(***************************************************************************)
(* Outside L2 every body is plain, and a candidate that is to be served    *)
(* was sealed by the key of the running process, so that it opens.         *)
(***************************************************************************)
Unsealed == \A k \in DOMAIN items : items[k].body.by = NoCipher

Plain(s) ==
  /\ pc[s] = "check" => rec[s].body.by = NoCipher
  /\ pc[s] \in {"stamp", "promote"} => cand[s].response.by = ring
  /\ ans[s].tier # "none" => ans[s].body.by = NoCipher

AllPlain == Unsealed /\ \A s \in Req : Plain(s)

(***************************************************************************)
(* A put of a plain body leaves L1 unsealed.                               *)
(***************************************************************************)
LEMMA UnsealedPut ==
  ASSUME Unsealed, NEW k, NEW put, L1!Put(k, put), put.body.by = NoCipher PROVE Unsealed'
  BY PutFacts DEF Unsealed

(***************************************************************************)
(* Moving on past a judgement, and returning a plain body, keep a request  *)
(* plain.                                                                  *)
(***************************************************************************)
LEMMA PlainGoto ==
  ASSUME TypeOK, NEW r \in Req, Plain(r), NEW l \in Labels \ {"check", "stamp", "promote"}, Goto(r, l)
  PROVE  Plain(r)'
<1>1. pc'[r] = l /\ ans' = ans
  BY DEF Goto, TypeOK
<1>2. QED  BY <1>1 DEF Plain

LEMMA PlainReturn ==
  ASSUME TypeOK, NEW r \in Req, NEW t, NEW b, Return(r, t, b), b.by = NoCipher
  PROVE  Plain(r)'
<1>1. pc'[r] = "done" /\ ans'[r].body = b
  BY DEF Return, TypeOK
<1>2. QED  BY <1>1 DEF Plain

(***************************************************************************)
(* The step of a request keeps L1 unsealed and the request plain.  Where a *)
(* key could not open a candidate, the request goes upstream: the only way *)
(* to "stamp" is past that test.                                           *)
(***************************************************************************)
LEMMA PlainStep ==
  ASSUME TypeOK, EveryProcessHasAKey, AllPlain, NEW r \in Req, StepOf(r)
  PROVE  Unsealed' /\ Plain(r)'
<1>0. /\ Unsealed /\ Plain(r) /\ ring # NoCipher
      /\ {"embed", "search", "decide", "upstream", "keep", "charge", "spend", "add"}
           \subseteq Labels \ {"check", "stamp", "promote"}
  BY DEF AllPlain, TypeOK, EveryProcessHasAKey, Labels
<1>1. Body(r).by = NoCipher
  BY DEF Body
<1>2. ASSUME UNCHANGED items PROVE Unsealed'
  BY <1>0, <1>2 DEF Unsealed
<1>3. ASSUME NEW q \in Query, Serve(r, q) PROVE Unsealed' /\ Plain(r)'
  <2>1. Unsealed'
    BY <1>2, <1>3, GetFacts DEF Serve
  <2>2. CASE L1!Holds(KeyOf(q))
    <3>1. items[KeyOf(q)].body.by = NoCipher
      BY <1>0, <2>2 DEF L1!Holds, Unsealed
    <3>2. pc'[r] = "check" /\ rec'[r] = items[KeyOf(q)] /\ ans' = ans
      BY <1>3, <2>2 DEF Serve, Goto, TypeOK
    <3>3. QED  BY <1>0, <2>1, <3>1, <3>2 DEF Plain
  <2>3. CASE ~L1!Holds(KeyOf(q))
    BY <1>0, <1>3, <2>1, <2>3, PlainGoto DEF Serve
  <2>4. QED  BY <2>2, <2>3
<1>4. CASE Check(r)
  <2>1. rec[r].body.by = NoCipher
    BY <1>0, <1>4 DEF Check, Plain
  <2>2. Unsealed'
    BY <1>2, <1>4 DEF Check, shared, l1vars
  <2>3. QED  BY <1>0, <1>4, <2>1, <2>2, PlainGoto, PlainReturn DEF Check
<1>5. CASE Embed(r) \/ Search(r)
  <2>1. Unsealed'
    BY <1>2, <1>5 DEF Embed, Search, shared, l1vars
  <2>2. Goto(r, "search") \/ Goto(r, "decide") \/ Goto(r, "upstream")
    BY <1>5 DEF Embed, Search
  <2>3. QED  BY <1>0, <2>1, <2>2, PlainGoto
<1>6. CASE Decide(r)
  <2>1. Unsealed'
    BY <1>2, <1>6 DEF Decide, shared, l1vars
  <2>2. CASE L2Hit(r)
    <3>1. cand[r].response.by = ring
      BY <1>0, <2>2 DEF L2Hit, Opens
    <3>2. pc'[r] = "stamp" /\ ans' = ans /\ cand' = cand /\ ring' = ring
      BY <1>6, <2>2 DEF Decide, Goto, TypeOK, process
    <3>3. QED  BY <1>0, <2>1, <3>1, <3>2 DEF Plain
  <2>3. CASE ~L2Hit(r)
    BY <1>0, <1>6, <2>1, <2>3, PlainGoto DEF Decide
  <2>4. QED  BY <2>2, <2>3
<1>7. CASE Stamp(r)
  <2>1. Unsealed'
    BY <1>2, <1>7 DEF Stamp, shared, l1vars
  <2>2. pc[r] = "stamp" /\ pc'[r] = "promote" /\ ans' = ans /\ cand' = cand /\ ring' = ring
    BY <1>7 DEF Stamp, Goto, TypeOK, process
  <2>3. QED  BY <1>0, <2>1, <2>2 DEF Plain
<1>8. CASE Promote(r)
  <2>1. cand[r].response.by = ring
    BY <1>0, <1>8 DEF Promote, Plain
  <2>2. Plaintext(cand[r].response).by = NoCipher /\ Promoted(r).body = Plaintext(cand[r].response)
    BY <1>0, <2>1 DEF Plaintext, Body, Promoted
  <2>3. L1!Put(KeyOf(query[r]), Promoted(r)) /\ Return(r, "L2", Plaintext(cand[r].response))
    BY <1>8 DEF Promote
  <2>4. QED  BY <1>0, <2>2, <2>3, UnsealedPut, PlainReturn
<1>9. CASE UpstreamFails(r) \/ UpstreamRefuses(r) \/ UpstreamAnswers(r)
  <2>1. Unsealed'
    BY <1>2, <1>9 DEF UpstreamFails, UpstreamRefuses, UpstreamAnswers, shared, l1vars
  <2>2. QED  BY <1>0, <1>1, <1>9, <2>1, PlainGoto, PlainReturn
             DEF UpstreamFails, UpstreamRefuses, UpstreamAnswers
<1>10. CASE Keep(r)
  <2>1. L1!Put(KeyOf(query[r]), Answered(r)) /\ Answered(r).body.by = NoCipher
    BY <1>1, <1>10 DEF Keep, Answered
  <2>2. Unsealed'
    BY <1>0, <2>1, UnsealedPut
  <2>3. QED  BY <1>0, <1>1, <1>10, <2>2, PlainGoto, PlainReturn DEF Keep
<1>11. CASE Charge(r) \/ Spend(r) \/ Add(r)
  <2>1. Unsealed'
    BY <1>2, <1>11 DEF Charge, Spend, Add, shared, l1vars
  <2>2. Goto(r, "spend") \/ Goto(r, "add") \/ Return(r, "MISS", Body(r))
    BY <1>11 DEF Charge, Spend, Add
  <2>3. QED  BY <1>0, <1>1, <2>1, <2>2, PlainGoto, PlainReturn
<1>12. QED  BY <1>3, <1>4, <1>5, <1>6, <1>7, <1>8, <1>9, <1>10, <1>11 DEF StepOf, Step

(***************************************************************************)
(* Every step keeps what is outside L2 plain: a restart, which may change  *)
(* the key, loses the requests that relied on the old one.                 *)
(***************************************************************************)
LEMMA PlainNext == TypeOK /\ EveryProcessHasAKey /\ AllPlain /\ [Next]_vars => AllPlain'
<1> SUFFICES ASSUME TypeOK, EveryProcessHasAKey, AllPlain, [Next]_vars PROVE AllPlain'
  OBVIOUS
<1>1. ASSUME NEW r \in Req, StepOf(r) PROVE AllPlain'
  <2>1. ASSUME NEW s \in Req, s # r PROVE Plain(s)'
    <3>1. Untouched(s) /\ Plain(s)
      BY <1>1, <2>1, OthersUntouched DEF AllPlain
    <3>2. ring' = ring
      BY <1>1 DEF StepOf, Step, Serve, Check, Embed, Search, Decide, Stamp, Promote, UpstreamFails,
                  UpstreamRefuses, UpstreamAnswers, Keep, Charge, Spend, Add, process
    <3>3. QED  BY <3>1, <3>2 DEF Plain, Untouched
  <2>2. Unsealed' /\ Plain(r)'
    BY <1>1, PlainStep
  <2>3. QED  BY <2>1, <2>2 DEF AllPlain
<1>2. CASE Tick \/ UNCHANGED vars
  BY <1>2 DEF Tick, vars, shared, l1vars, AllPlain, Unsealed, Plain
<1>3. CASE Restart
  <2>1. DOMAIN items' = {} /\ UNCHANGED <<rec, cand, ans>>
    BY <1>3 DEF Restart
  <2>2. ASSUME NEW s \in Req PROVE pc'[s] \notin {"check", "stamp", "promote"}
    BY <1>3 DEF Restart, InFlight
  <2>3. ASSUME NEW s \in Req PROVE Plain(s)'
    BY <2>1, <2>2 DEF AllPlain, Plain
  <2>4. QED  BY <2>1, <2>3 DEF AllPlain, Unsealed
<1>4. QED  BY <1>1, <1>2, <1>3 DEF Next, Finished, StepOf

(***************************************************************************)
(* With a key in every process, L2 holds no plaintext, whatever failed.    *)
(***************************************************************************)
THEOREM NoPlaintextAtRest == Spec => []SealedAtRest
<1>1. Init => SealedAtRest
  BY DEF Init, SealedAtRest
<1>2. TypeOK /\ SealedAtRest /\ [Next]_vars => SealedAtRest'
  <2>1. ~EveryProcessHasAKey => SealedAtRest'
    BY DEF EveryProcessHasAKey, SealedAtRest
  <2>2. QED  BY <2>1, SealedStep
<1>3. QED  BY <1>1, <1>2, TypeCorrect, PTL DEF Spec

(***************************************************************************)
(* And no client is served sealed bytes: an entry of another key, or one   *)
(* from before a change of keys, is opened or passed over.                 *)
(***************************************************************************)
THEOREM NoSealServed == ASSUME EveryProcessHasAKey PROVE Spec => []NothingSealedServed
<1>1. Init => AllPlain
  BY DEF Init, L1!Init, AllPlain, Unsealed, Plain, NotAnswered
<1>2. TypeOK /\ AllPlain /\ [Next]_vars => AllPlain'
  BY PlainNext
<1>3. AllPlain => NothingSealedServed
  BY DEF AllPlain, Plain, NothingSealedServed
<1>4. QED  BY <1>1, <1>2, <1>3, TypeCorrect, PTL DEF Spec

-----------------------------------------------------------------------------
(***************************************************************************)
(* Age.  A record in L1 was stamped with the time its answer was made, or  *)
(* by the one promotion that put it there, of an entry judged within its   *)
(* lifetime.  The same goes for a record a request has in hand.            *)
(***************************************************************************)
PromotedAs(p, k, m) == ans[p].tier = "L2" /\ ans[p].body.of = m /\ KeyOf(query[p]) = k

PromotedNext(p, k, m) == ans'[p].tier = "L2" /\ ans'[p].body.of = m /\ KeyOf(query'[p]) = k

Stamped(k, x) ==
  \/ x.createdAt = reply[x.body.of].at
  \/ \E p \in Req : PromotedAs(p, k, x.body.of) /\ x.createdAt = read[p].now

StampedNext(k, x) ==
  \/ x.createdAt = reply'[x.body.of].at
  \/ \E p \in Req : PromotedNext(p, k, x.body.of) /\ x.createdAt = read'[p].now

AllStamped == \A k \in DOMAIN items : Stamped(k, items[k])

Judged(s) == read[s].judged - reply[cand[s].response.of].at <= TTL

OldFor(s) == \E p \in Req : PromotedFor(p, s) /\ Age(s) <= 2 * TTL + Stall(p)

Timely(s) ==
  /\ pc[s] = "check" => Stamped(KeyOf(query[s]), rec[s])
  /\ pc[s] \in {"stamp", "promote"} => Judged(s)
  /\ ans[s].tier = "L2" => Age(s) <= TTL
  /\ ans[s].tier = "L1" => Age(s) <= TTL \/ OldFor(s)

AllTimely == AllStamped /\ \A s \in Req : Timely(s)

(***************************************************************************)
(* Whoever was served from a cache takes no more steps.                    *)
(***************************************************************************)
LEMMA ServedStays ==
  ASSUME TypeOK, Provenance, NEW r \in Req, StepOf(r), NEW p \in Req, ans[p].tier \in {"L1", "L2"}
  PROVE  p # r /\ Untouched(p)
<1>1. pc[r] \in Unheard \cup Heard
  BY DEF StepOf, Step, Serve, Check, Embed, Search, Decide, Stamp, Promote, UpstreamFails,
         UpstreamRefuses, UpstreamAnswers, Keep, Charge, Spend, Add, Unheard, Heard
<1>2. ans[r].tier = "none"
  BY <1>1 DEF Provenance, RequestSound
<1>3. p # r
  BY <1>2
<1>4. QED  BY <1>3, OthersUntouched

(***************************************************************************)
(* A record's stamp stays what it was.                                     *)
(***************************************************************************)
LEMMA StampedStays ==
  ASSUME TypeOK, Provenance, NEW r \in Req, StepOf(r), NEW k, NEW x, Keyed(k, x), Stamped(k, x)
  PROVE  StampedNext(k, x)
<1>1. reply'[x.body.of] = reply[x.body.of]
  <2>1. Stays(x.body.of)
    BY MakersStay
  <2>2. QED  BY <2>1 DEF Stays, Keyed
<1>2. ASSUME NEW p \in Req, PromotedAs(p, k, x.body.of), x.createdAt = read[p].now
      PROVE  PromotedNext(p, k, x.body.of) /\ x.createdAt = read'[p].now
  <2>1. Untouched(p)
    BY <1>2, ServedStays DEF PromotedAs
  <2>2. QED  BY <1>2, <2>1 DEF PromotedAs, PromotedNext, Untouched
<1>3. QED  BY <1>1, <1>2 DEF Stamped, StampedNext, PromotedAs, PromotedNext

(***************************************************************************)
(* A step that puts nothing into L1 leaves its records stamped, and so     *)
(* does one that puts a stamped record there.                              *)
(***************************************************************************)
LEMMA StampsKept ==
  ASSUME TypeOK, Provenance, AllStamped, NEW r \in Req, StepOf(r), UNCHANGED items
  PROVE  AllStamped'
<1>1. ASSUME NEW k \in DOMAIN items' PROVE StampedNext(k, items'[k])
  <2>1. Keyed(k, items[k]) /\ Stamped(k, items[k])
    BY DEF Provenance, L1Sound, AllStamped
  <2>2. QED  BY <2>1, StampedStays
<1>2. QED  BY <1>1 DEF AllStamped, Stamped, StampedNext, PromotedAs, PromotedNext

LEMMA StampedPut ==
  ASSUME TypeOK, Provenance, AllStamped, NEW r \in Req, StepOf(r), NEW k, NEW put,
         L1!Put(k, put), StampedNext(k, put)
  PROVE  AllStamped'
<1>1. ASSUME NEW x \in DOMAIN items' PROVE StampedNext(x, items'[x])
  <2>1. CASE x = k /\ items'[x] = put
    BY <2>1
  <2>2. CASE x \in DOMAIN items /\ items'[x] = items[x]
    <3>1. Keyed(x, items[x]) /\ Stamped(x, items[x])
      BY <2>2 DEF Provenance, L1Sound, AllStamped
    <3>2. QED  BY <2>2, <3>1, StampedStays
  <2>3. QED  BY <2>1, <2>2, PutFacts
<1>2. QED  BY <1>1 DEF AllStamped, Stamped, StampedNext, PromotedAs, PromotedNext

(***************************************************************************)
(* A request that takes no step stays timely.                              *)
(***************************************************************************)
LEMMA TimelyKept ==
  ASSUME TypeOK, Provenance, NEW r \in Req, StepOf(r), NEW s \in Req, s # r, Timely(s)
  PROVE  Timely(s)'
<1>1. Untouched(s) /\ RequestSound(s)
  BY OthersUntouched DEF Provenance
<1>2. ASSUME pc'[s] = "check" PROVE Stamped(KeyOf(query[s]), rec[s])'
  <2>1. Stamped(KeyOf(query[s]), rec[s]) /\ Keyed(KeyOf(query[s]), rec[s])
    BY <1>1, <1>2 DEF Timely, Untouched, RequestSound
  <2>2. StampedNext(KeyOf(query[s]), rec[s])
    BY <2>1, StampedStays
  <2>3. QED  BY <1>1, <2>2 DEF Untouched, Stamped, StampedNext, PromotedAs, PromotedNext
<1>3. ASSUME pc'[s] \in {"stamp", "promote"} PROVE Judged(s)'
  <2>1. Made(cand[s].response.of) /\ Judged(s)
    BY <1>1, <1>3 DEF Untouched, RequestSound, Describes, Deciding, Timely
  <2>2. reply'[cand[s].response.of] = reply[cand[s].response.of]
    BY <2>1, MakersStay DEF Stays
  <2>3. QED  BY <1>1, <2>1, <2>2 DEF Judged, Untouched
<1>4. ASSUME ans'[s].tier \in {"L1", "L2"} PROVE Age(s)' = Age(s)
  <2>1. Made(Maker(s))
    BY <1>1, <1>4 DEF Untouched, RequestSound, FromCache
  <2>2. reply'[Maker(s)] = reply[Maker(s)] /\ Maker(s)' = Maker(s)
    BY <1>1, <2>1, MakersStay DEF Stays, Untouched, Maker
  <2>3. QED  BY <1>1, <2>2 DEF Age, Untouched
<1>5. ASSUME ans'[s].tier = "L1", OldFor(s) PROVE OldFor(s)'
  <2>1. PICK p \in Req : PromotedFor(p, s) /\ Age(s) <= 2 * TTL + Stall(p)
    BY <1>5 DEF OldFor
  <2>2. Untouched(p)
    BY <2>1, ServedStays DEF PromotedFor
  <2>3. PromotedFor(p, s)' /\ Stall(p)' = Stall(p)
    BY <1>1, <2>1, <2>2 DEF PromotedFor, Maker, Stall, Untouched
  <2>4. (Age(s) <= 2 * TTL + Stall(p))'
    BY <1>4, <1>5, <2>1, <2>3
  <2>5. QED  BY <2>3, <2>4 DEF OldFor
<1>6. QED  BY <1>1, <1>2, <1>3, <1>4, <1>5 DEF Timely, Untouched

(***************************************************************************)
(* Going on without a judgement, and an answer of the request's own call,  *)
(* say nothing of age.                                                     *)
(***************************************************************************)
LEMMA NoAgeGoto ==
  ASSUME TypeOK, NEW r \in Req, ans[r].tier = "none",
         NEW l \in Labels \ {"check", "stamp", "promote"}, Goto(r, l)
  PROVE  Timely(r)'
<1>1. pc'[r] = l /\ ans' = ans
  BY DEF Goto, TypeOK
<1>2. QED  BY <1>1 DEF Timely

LEMMA NoAgeReturn ==
  ASSUME TypeOK, NEW r \in Req, NEW t \in {"MISS", "ERR"}, NEW b, Return(r, t, b)
  PROVE  Timely(r)'
<1>1. pc'[r] = "done" /\ ans'[r].tier = t /\ t # "L1" /\ t # "L2"
  BY DEF Return, TypeOK
<1>2. QED  BY <1>1 DEF Timely

(***************************************************************************)
(* What has not expired is at most a lifetime old; and an entry judged in  *)
(* time and stamped anew lives at most one lifetime more from its stamp.   *)
(***************************************************************************)
LEMMA NotExpired ==
  ASSUME TTL > 0, NEW c \in Nat, ~Expired(c), TypeOK PROVE clock - c <= TTL
  BY EngineAssumption DEF Expired, TypeOK

LEMMA TwoLives ==
  ASSUME NEW c \in Nat, NEW made \in Nat, NEW stamp \in Nat, NEW judged \in Nat,
         c - stamp <= TTL, judged - made <= TTL
  PROVE  c - made <= 2 * TTL + (stamp - judged)
  BY EngineAssumption

(***************************************************************************)
(* A hit in L1.                                                            *)
(***************************************************************************)
LEMMA CheckTimely ==
  ASSUME TypeOK, Provenance, TTL > 0, AllTimely, NEW r \in Req, Check(r), L1Hit(r)
  PROVE  Timely(r)'
<1> DEFINE x == rec[r]
           m == rec[r].body.of
           k == KeyOf(query[r])
<1>0. StepOf(r)
  BY DEF StepOf, Step
<1>1. /\ pc[r] = "check" /\ rec[r] \in Records /\ query' = query /\ reply' = reply
      /\ read' = [read EXCEPT ![r].judged = clock] /\ Return(r, "L1", x.body)
  BY DEF Check, TypeOK
<1>2. /\ pc'[r] = "done" /\ ans'[r].tier = "L1" /\ ans'[r].body = x.body
      /\ read'[r].judged = clock
  BY <1>1 DEF Return, TypeOK
<1>3. x.createdAt \in Nat /\ clock \in Nat /\ clock - x.createdAt <= TTL
  <2>1. x.createdAt \in Nat /\ ~Expired(x.createdAt)
    BY <1>1 DEF Records, L1Hit
  <2>2. QED  BY <2>1, NotExpired DEF TypeOK
<1>4. Keyed(k, x) /\ Stamped(k, x)
  BY <1>1 DEF AllTimely, Timely, Provenance, RequestSound
<1>5. m \in Req /\ reply[m].at \in Nat
  BY <1>4 DEF Keyed, Made, TypeOK
<1>6. Age(r)' = clock - reply[m].at
  BY <1>1, <1>2 DEF Age, Maker
<1> HIDE DEF x, m, k
<1>7. CASE x.createdAt = reply[m].at
  BY <1>2, <1>3, <1>6, <1>7 DEF Timely
<1>8. ASSUME NEW p \in Req, PromotedAs(p, k, m), x.createdAt = read[p].now
      PROVE  Timely(r)'
  <2>1. p # r /\ Untouched(p) /\ Timely(p)
    BY <1>0, <1>8, ServedStays DEF PromotedAs, AllTimely
  <2>2. read[p].judged \in Nat /\ read[p].now \in Nat
    BY DEF TypeOK
  <2>3. read[p].judged - reply[m].at <= TTL
    BY <1>8, <2>1 DEF PromotedAs, Timely, Age, Maker
  <2>4. clock - reply[m].at <= 2 * TTL + (read[p].now - read[p].judged)
    BY <1>3, <1>5, <1>8, <2>2, <2>3, TwoLives
  <2>5. Stall(p)' = read[p].now - read[p].judged
    BY <2>1 DEF Stall, Untouched
  <2>6. PromotedFor(p, r)'
    BY <1>1, <1>2, <1>8, <2>1 DEF PromotedFor, PromotedAs, Untouched, Maker, x, m, k
  <2>7. OldFor(r)'
    BY <1>6, <2>4, <2>5, <2>6 DEF OldFor
  <2>8. QED  BY <1>2, <2>7 DEF Timely
<1>9. QED  BY <1>4, <1>7, <1>8 DEF Stamped, x, m

(***************************************************************************)
(* A candidate that passes is judged in time; its stamp and its promotion  *)
(* leave that judgement as it is, and the promotion gives the record its   *)
(* stamp.                                                                  *)
(***************************************************************************)
LEMMA DecideTimely ==
  ASSUME TypeOK, Provenance, TTL > 0, NEW r \in Req, Decide(r), L2Hit(r)
  PROVE  Timely(r)'
<1>1. /\ pc[r] = "decide" /\ cand[r] \in Entries /\ ans[r].tier = "none" /\ Describes(cand[r])
      /\ UNCHANGED <<cand, reply>> /\ read' = [read EXCEPT ![r].judged = clock] /\ Goto(r, "stamp")
  BY DEF Decide, TypeOK, Deciding, Provenance, RequestSound, Unheard
<1>2. pc'[r] = "stamp" /\ ans' = ans /\ read'[r].judged = clock
  BY <1>1 DEF Goto, TypeOK
<1>3. clock - cand[r].createdAt <= TTL /\ cand[r].createdAt = reply[cand[r].response.of].at
  <2>1. cand[r].createdAt \in Nat /\ ~Expired(cand[r].createdAt)
    BY <1>1 DEF Entries, L2Hit
  <2>2. QED  BY <1>1, <2>1, NotExpired DEF Describes
<1>4. Judged(r)'
  BY <1>1, <1>2, <1>3 DEF Judged
<1>5. QED  BY <1>1, <1>2, <1>4 DEF Timely

LEMMA StampTimely ==
  ASSUME TypeOK, Provenance, NEW r \in Req, Timely(r), Stamp(r)
  PROVE  Timely(r)'
<1>1. /\ pc[r] = "stamp" /\ ans[r].tier = "none" /\ UNCHANGED <<cand, reply>>
      /\ read' = [read EXCEPT ![r].now = clock] /\ Goto(r, "promote")
  BY DEF Stamp, Provenance, RequestSound, Unheard
<1>2. pc'[r] = "promote" /\ ans' = ans /\ read'[r].judged = read[r].judged
  BY <1>1 DEF Goto, TypeOK
<1>3. Judged(r)'
  BY <1>1, <1>2 DEF Timely, Judged
<1>4. QED  BY <1>1, <1>2, <1>3 DEF Timely

LEMMA PromoteTimely ==
  ASSUME TypeOK, Provenance, AllTimely, NEW r \in Req, Promote(r)
  PROVE  Timely(r)' /\ AllStamped'
<1> DEFINE b   == Plaintext(cand[r].response)
           put == Promoted(r)
<1>0. StepOf(r) /\ pc[r] = "promote" /\ UNCHANGED <<query, read, reply>>
  BY DEF StepOf, Step, Promote
<1>1. b.of = cand[r].response.of /\ put.body.of = cand[r].response.of /\ put.createdAt = read[r].now
  BY DEF Plaintext, Body, Promoted
<1>2. L1!Put(KeyOf(query[r]), put) /\ Return(r, "L2", b)
  BY DEF Promote
<1>3. pc'[r] = "done" /\ ans'[r].tier = "L2" /\ ans'[r].body = b
  BY <1>2 DEF Return, TypeOK
<1> HIDE DEF b, put
<1>4. Judged(r)
  BY <1>0 DEF AllTimely, Timely
<1>5. Timely(r)'
  BY <1>0, <1>1, <1>3, <1>4 DEF Timely, Age, Maker, Judged
<1>6. StampedNext(KeyOf(query[r]), put)
  BY <1>0, <1>1, <1>3 DEF StampedNext, PromotedNext
<1>7. AllStamped'
  BY <1>0, <1>2, <1>6, StampedPut DEF AllTimely
<1>8. QED  BY <1>5, <1>7

(***************************************************************************)
(* The step of a request leaves it timely and every record stamped.        *)
(***************************************************************************)
LEMMA TimelyStep ==
  ASSUME TypeOK, Provenance, TTL > 0, AllTimely, NEW r \in Req, StepOf(r)
  PROVE  Timely(r)' /\ AllStamped'
<1>0. /\ AllStamped /\ Timely(r) /\ ans[r].tier = "none"
      /\ {"embed", "search", "decide", "upstream", "keep", "charge", "spend", "add"}
           \subseteq Labels \ {"check", "stamp", "promote"}
  <2>1. pc[r] \in Unheard \cup Heard
    BY DEF StepOf, Step, Serve, Check, Embed, Search, Decide, Stamp, Promote, UpstreamFails,
           UpstreamRefuses, UpstreamAnswers, Keep, Charge, Spend, Add, Unheard, Heard
  <2>2. QED  BY <2>1 DEF AllTimely, Provenance, RequestSound, Labels
<1>1. ASSUME UNCHANGED items PROVE AllStamped'
  BY <1>0, <1>1, StampsKept
<1>2. ASSUME NEW q \in Query, Serve(r, q) PROVE Timely(r)' /\ AllStamped'
  <2>1. AllStamped'
    BY <1>1, <1>2, GetFacts DEF Serve
  <2>2. CASE L1!Holds(KeyOf(q))
    <3>1. /\ pc'[r] = "check" /\ rec'[r] = items[KeyOf(q)] /\ query'[r] = q /\ ans' = ans
          /\ reply' = reply /\ read' = read
      BY <1>2, <2>2 DEF Serve, Goto, TypeOK
    <3>2. Keyed(KeyOf(q), items[KeyOf(q)]) /\ Stamped(KeyOf(q), items[KeyOf(q)])
      BY <1>0, <2>2 DEF L1!Holds, Provenance, L1Sound, AllStamped
    <3>3. StampedNext(KeyOf(q), items[KeyOf(q)])
      BY <3>2, StampedStays
    <3>4. Stamped(KeyOf(query[r]), rec[r])'
      BY <3>1, <3>3 DEF Stamped, StampedNext, PromotedAs, PromotedNext
    <3>5. QED  BY <1>0, <2>1, <3>1, <3>4 DEF Timely
  <2>3. CASE ~L1!Holds(KeyOf(q))
    BY <1>0, <1>2, <2>1, <2>3, NoAgeGoto DEF Serve
  <2>4. QED  BY <2>2, <2>3
<1>3. CASE Check(r)
  <2>1. AllStamped'
    BY <1>1, <1>3 DEF Check, shared, l1vars
  <2>2. QED  BY <1>0, <1>3, <2>1, CheckTimely, NoAgeGoto DEF Check
<1>4. CASE Embed(r) \/ Search(r)
  <2>1. AllStamped'
    BY <1>1, <1>4 DEF Embed, Search, shared, l1vars
  <2>2. Goto(r, "search") \/ Goto(r, "decide") \/ Goto(r, "upstream")
    BY <1>4 DEF Embed, Search
  <2>3. QED  BY <1>0, <2>1, <2>2, NoAgeGoto
<1>5. CASE Decide(r)
  <2>1. AllStamped'
    BY <1>1, <1>5 DEF Decide, shared, l1vars
  <2>2. L2Hit(r) \/ Goto(r, "upstream")
    BY <1>5 DEF Decide
  <2>3. QED  BY <1>0, <1>5, <2>1, <2>2, DecideTimely, NoAgeGoto
<1>6. CASE Stamp(r)
  BY <1>0, <1>1, <1>6, StampTimely DEF Stamp, shared, l1vars
<1>7. CASE Promote(r)
  BY <1>7, PromoteTimely
<1>8. CASE UpstreamFails(r) \/ UpstreamRefuses(r) \/ UpstreamAnswers(r)
  <2>1. AllStamped'
    BY <1>1, <1>8 DEF UpstreamFails, UpstreamRefuses, UpstreamAnswers, shared, l1vars
  <2>2. QED  BY <1>0, <1>8, <2>1, NoAgeGoto, NoAgeReturn
             DEF UpstreamFails, UpstreamRefuses, UpstreamAnswers
<1>9. CASE Keep(r)
  <2>1. L1!Put(KeyOf(query[r]), Answered(r)) /\ reply' = reply
    BY <1>9 DEF Keep
  <2>2. StampedNext(KeyOf(query[r]), Answered(r))
    BY <2>1 DEF StampedNext, Answered, Body
  <2>3. AllStamped'
    BY <1>0, <2>1, <2>2, StampedPut
  <2>4. QED  BY <1>0, <1>9, <2>3, NoAgeGoto, NoAgeReturn DEF Keep
<1>10. CASE Charge(r) \/ Spend(r) \/ Add(r)
  <2>1. AllStamped'
    BY <1>1, <1>10 DEF Charge, Spend, Add, shared, l1vars
  <2>2. Goto(r, "spend") \/ Goto(r, "add") \/ Return(r, "MISS", Body(r))
    BY <1>10 DEF Charge, Spend, Add
  <2>3. QED  BY <1>0, <2>1, <2>2, NoAgeGoto, NoAgeReturn
<1>11. QED  BY <1>2, <1>3, <1>4, <1>5, <1>6, <1>7, <1>8, <1>9, <1>10 DEF StepOf, Step

(***************************************************************************)
(* Every step keeps all requests timely.                                   *)
(***************************************************************************)
LEMMA TimelyNext ==
  ASSUME TypeOK, Provenance, TTL > 0, AllTimely, [Next]_vars PROVE AllTimely'
<1>1. ASSUME NEW r \in Req, StepOf(r) PROVE AllTimely'
  <2>1. Timely(r)' /\ AllStamped'
    BY <1>1, TimelyStep
  <2>2. ASSUME NEW s \in Req, s # r PROVE Timely(s)'
    BY <1>1, <2>2, TimelyKept DEF AllTimely
  <2>3. QED  BY <2>1, <2>2 DEF AllTimely
<1>2. CASE Tick \/ UNCHANGED vars
  <2>1. UNCHANGED <<pc, query, rec, cand, read, reply, ans, items>>
    BY <1>2 DEF Tick, vars, shared, l1vars
  <2>2. QED  BY <2>1 DEF AllTimely, AllStamped, Timely, Stamped, PromotedAs, Judged, OldFor,
                         PromotedFor, Age, Maker, Stall
<1>3. CASE Restart
  <2>1. DOMAIN items' = {} /\ UNCHANGED <<query, rec, cand, read, reply, ans>>
    BY <1>3 DEF Restart
  <2>2. ASSUME NEW s \in Req PROVE pc'[s] \notin {"check", "stamp", "promote"}
    BY <1>3 DEF Restart, InFlight
  <2>3. ASSUME NEW s \in Req PROVE Timely(s)'
    <3>1. Timely(s) /\ UNCHANGED <<query, read, reply, ans>>
      BY <2>1 DEF AllTimely
    <3>2. QED  BY <2>2, <3>1 DEF Timely, OldFor, PromotedFor, Age, Maker, Stall
  <2>4. QED  BY <2>1, <2>3 DEF AllTimely, AllStamped
<1>4. QED  BY <1>1, <1>2, <1>3 DEF Next, Finished, StepOf

(***************************************************************************)
(* A cached answer is judged at most one lifetime old, or two from L1 and  *)
(* the time its promoter lingered between its own two looks at the clock.  *)
(***************************************************************************)
Aged == TTL > 0 => AllTimely

THEOREM AgesAreBounded == Spec => []AgeIsBounded
<1>1. Init => Aged
  BY DEF Init, L1!Init, Aged, AllTimely, AllStamped, Timely, NotAnswered
<1>2. TypeOK /\ Provenance /\ Aged /\ [Next]_vars => Aged'
  BY TimelyNext DEF Aged
<1>3. Aged => AgeIsBounded
  BY DEF Aged, AllTimely, Timely, OldFor, AgeIsBounded
<1>4. QED  BY <1>1, <1>2, <1>3, TypeCorrect, EveryBodyHasAMaker, PTL DEF Spec

-----------------------------------------------------------------------------
(***************************************************************************)
(* The oldest of the nearest.  A request adds at most one entry, as the    *)
(* last thing it does; the entry a search found stays the first of the     *)
(* nearest to its query, since entries are only appended.                  *)
(***************************************************************************)
AddedOnce ==
  /\ \A i \in 1..Len(l2) : pc[l2[i].response.of] = "done"
  /\ \A i, j \in 1..Len(l2) : l2[i].response.of = l2[j].response.of => i = j

FirstAmong(q, entries, j) ==
  /\ entries[j].model = q.model /\ entries[j].scope = q.scope
  /\ \A i \in 1..Len(entries) : entries[i].model = q.model /\ entries[i].scope = q.scope /\ i < j
       => Cosine(q.embed, entries[i].embed) < Cosine(q.embed, entries[j].embed)

Finds(q, entries, maker) ==
  \E j \in 1..Len(entries) : FirstAmong(q, entries, j) /\ entries[j].response.of = maker

FoundFirst(s) ==
  /\ ans[s].boot <= boots
  /\ pc[s] \in Deciding => Finds(query[s], l2, cand[s].response.of)
  /\ ans[s].tier = "L2" /\ ans[s].boot = boots => Finds(query[s], l2, Maker(s))

\* The index before the step is the beginning of the index after it.
Grown ==
  /\ Len(l2) <= Len(l2') /\ Len(l2) \in Nat /\ Len(l2') \in Nat
  /\ \A i \in 1..Len(l2) : l2'[i] = l2[i]

(***************************************************************************)
(* No step of a request takes an entry away or changes one.                *)
(***************************************************************************)
LEMMA IndexGrows ==
  ASSUME TypeOK, NEW r \in Req, StepOf(r)
  PROVE  Grown /\ (l2' = l2 \/ (Add(r) /\ Added(r)))
<1>0. Len(l2) \in Nat
  BY LenProperties DEF TypeOK
<1>1. l2' = l2 \/ (Add(r) /\ Added(r))
  BY DEF StepOf, Step, Serve, Check, Embed, Search, Decide, Stamp, Promote, UpstreamFails, UpstreamRefuses,
           UpstreamAnswers, Keep, Charge, Spend, Add, SealFails, AddFails, shared, l1vars
<1>2. CASE l2' = l2
  BY <1>0, <1>2 DEF Grown
<1>3. CASE Add(r) /\ Added(r)
  <2> DEFINE e == Entry(r)
  <2>1. query[r] \in Query
    BY <1>3 DEF Add, TypeOK
  <2>2. e \in Entries
    BY <2>1, EntryType
  <2> HIDE DEF e
  <2>3. l2' = Append(l2, e)
    BY <1>3 DEF Added, e
  <2>4. Len(l2') = Len(l2) + 1 /\ \A i \in 1..Len(l2) : l2'[i] = l2[i]
    BY <2>2, <2>3, AppendProperties DEF TypeOK
  <2>5. Grown
    BY <1>0, <2>4 DEF Grown
  <2>6. QED  BY <1>3, <2>5
<1>4. QED  BY <1>1, <1>2, <1>3

(***************************************************************************)
(* The last entry of a store is the one of the request that stores it.     *)
(***************************************************************************)
LEMMA AddedLast ==
  ASSUME TypeOK, NEW r \in Req, Add(r), Added(r)
  PROVE  /\ Len(l2') = Len(l2) + 1 /\ Len(l2) \in Nat
         /\ \A i \in 1..Len(l2) : l2'[i] = l2[i]
         /\ l2'[Len(l2) + 1].response.of = r
<1> DEFINE e == Entry(r)
<1>1. query[r] \in Query
  BY DEF Add, TypeOK
<1>2. e \in Entries /\ e.response.of = r
  BY <1>1, EntryType DEF Entry, Ciphertext
<1> HIDE DEF e
<1>3. l2' = Append(l2, e)
  BY DEF Added, e
<1>4. QED  BY <1>2, <1>3, AppendProperties, LenProperties DEF TypeOK

(***************************************************************************)
(* A step of a request keeps entries and their makers one to one.          *)
(***************************************************************************)
LEMMA OnceStep ==
  ASSUME TypeOK, Provenance, AddedOnce, NEW r \in Req, StepOf(r)
  PROVE  AddedOnce'
<1>1. ASSUME NEW i \in 1..Len(l2) PROVE /\ l2[i].response.of \in Req /\ l2[i].response.of # r
                                        /\ pc'[l2[i].response.of] = "done"
  <2> DEFINE b == l2[i].response.of
  <2>1. b \in Req /\ pc[b] = "done"
    BY <1>1 DEF Provenance, L2Sound, Describes, Made, AddedOnce
  <2>2. pc[r] # "done"
    BY DEF StepOf, Step, Serve, Check, Embed, Search, Decide, Stamp, Promote, UpstreamFails, UpstreamRefuses,
           UpstreamAnswers, Keep, Charge, Spend, Add
  <2>3. b # r /\ Untouched(b)
    BY <2>1, <2>2, OthersUntouched
  <2>4. QED  BY <2>1, <2>3 DEF Untouched
<1>2. CASE l2' = l2
  BY <1>1, <1>2 DEF AddedOnce
<1>3. CASE Add(r) /\ Added(r)
  <2>1. /\ Len(l2') = Len(l2) + 1 /\ Len(l2) \in Nat
        /\ \A i \in 1..Len(l2) : l2'[i] = l2[i]
        /\ l2'[Len(l2) + 1].response.of = r
    BY <1>3, AddedLast
  <2>2. pc'[r] = "done"
    BY <1>3 DEF Add, Return, TypeOK
  <2>3. ASSUME NEW i \in 1..Len(l2')
        PROVE  \/ i \in 1..Len(l2) /\ l2'[i] = l2[i]
               \/ i = Len(l2) + 1 /\ l2'[i].response.of = r
    BY <2>1
  <2>4. ASSUME NEW i \in 1..Len(l2') PROVE pc'[l2'[i].response.of] = "done"
    BY <1>1, <2>2, <2>3
  <2>5. ASSUME NEW i \in 1..Len(l2'), NEW j \in 1..Len(l2'), l2'[i].response.of = l2'[j].response.of
        PROVE  i = j
    BY <1>1, <2>3, <2>5 DEF AddedOnce
  <2>6. QED  BY <2>4, <2>5 DEF AddedOnce
<1>4. QED  BY <1>2, <1>3, IndexGrows

(***************************************************************************)
(* What a query finds first it goes on finding first while the index       *)
(* grows.                                                                  *)
(***************************************************************************)
LEMMA FindsGrown ==
  ASSUME Grown, NEW q, NEW m, Finds(q, l2, m)
  PROVE  Finds(q, l2', m)
<1>1. PICK j \in 1..Len(l2) : FirstAmong(q, l2, j) /\ l2[j].response.of = m
  BY DEF Finds
<1>2. j \in 1..Len(l2') /\ l2'[j] = l2[j]
  BY <1>1 DEF Grown
<1>3. ASSUME NEW i \in 1..Len(l2'), l2'[i].model = q.model, l2'[i].scope = q.scope, i < j
      PROVE  Cosine(q.embed, l2'[i].embed) < Cosine(q.embed, l2'[j].embed)
  <2>1. i \in 1..Len(l2) /\ l2'[i] = l2[i]
    BY <1>1, <1>3 DEF Grown
  <2>2. QED  BY <1>1, <1>2, <1>3, <2>1 DEF FirstAmong
<1>4. FirstAmong(q, l2', j)
  BY <1>1, <1>2, <1>3 DEF FirstAmong
<1>5. QED  BY <1>1, <1>2, <1>4 DEF Finds

(***************************************************************************)
(* What MemoryIndex.Search returns is the first of the nearest.            *)
(***************************************************************************)
LEMMA SearchFindsFirst ==
  ASSUME TypeOK, ~Durable, NEW q \in Query, NEW j \in SearchResults(q)
  PROVE  Finds(q, l2, l2[j].response.of)
<1>0. Len(l2) \in Nat /\ Candidates(q) \subseteq 1..Len(l2)
  BY LenProperties DEF TypeOK, Candidates
<1>1. j \in Nearest(q) /\ \A i \in Nearest(q) : j <= i
  BY DEF SearchResults
<1>2. j \in Candidates(q) /\ \A i \in Candidates(q) : Cosine(q.embed, l2[i].embed) <= Cosine(q.embed, l2[j].embed)
  BY <1>1 DEF Nearest
<1>3. ASSUME NEW i \in Candidates(q) PROVE Cosine(q.embed, l2[i].embed) \in Int
  <2>1. l2[i] \in Entries
    BY <1>0, ElementOfSeq DEF TypeOK
  <2>2. PICK p \in Query : l2[i].embed = p.embed
    BY <2>1 DEF Entries
  <2>3. QED  BY <2>2, EngineAssumption
<1>4. ASSUME NEW i \in Candidates(q), i < j
      PROVE  Cosine(q.embed, l2[i].embed) < Cosine(q.embed, l2[j].embed)
  <2>1. i \notin Nearest(q)
    BY <1>0, <1>1, <1>2, <1>4
  <2>2. PICK x \in Candidates(q) : ~(Cosine(q.embed, l2[x].embed) <= Cosine(q.embed, l2[i].embed))
    BY <2>1 DEF Nearest
  <2>3. Cosine(q.embed, l2[x].embed) <= Cosine(q.embed, l2[j].embed)
    BY <1>2
  <2>4. QED  BY <1>2, <1>3, <2>2, <2>3
<1>5. FirstAmong(q, l2, j)
  BY <1>2, <1>4 DEF FirstAmong, Candidates
<1>6. QED  BY <1>0, <1>2, <1>5 DEF Finds

(***************************************************************************)
(* A request that a step leaves alone, in an index that only grows, keeps  *)
(* what it found.                                                          *)
(***************************************************************************)
LEMMA FoundKept ==
  ASSUME Grown, boots' = boots, NEW s \in Req, FoundFirst(s), Untouched(s)
  PROVE  FoundFirst(s)'
  BY FindsGrown DEF FoundFirst, Untouched, Maker

(***************************************************************************)
(* A request that is done with other than an L2 hit has found nothing that *)
(* could be disputed, nor has one that goes on unanswered.                 *)
(***************************************************************************)
LEMMA FoundOtherwise ==
  ASSUME TypeOK, Provenance, boots' = boots, NEW r \in Req, FoundFirst(r),
         pc[r] \notin {"done", "lost"},
         \/ \E t \in {"L1", "MISS", "ERR"} : \E b : Return(r, t, b)
         \/ \E l \in Labels \ Deciding : Goto(r, l)
  PROVE  FoundFirst(r)'
<1>1. ans[r].tier = "none" /\ boots \in Nat
  BY DEF TypeOK, Labels, Provenance, RequestSound, Unheard, Heard
<1>2. CASE \E t \in {"L1", "MISS", "ERR"} : \E b : Return(r, t, b)
  <2>1. pc'[r] = "done" /\ ans'[r].tier # "L2" /\ ans'[r].boot = boots
    BY <1>2 DEF Return, TypeOK
  <2>2. QED  BY <1>1, <2>1 DEF FoundFirst, Deciding
<1>3. CASE \E l \in Labels \ Deciding : Goto(r, l)
  <2>1. ans' = ans /\ pc'[r] \notin Deciding
    BY <1>3, GotoType DEF TypeOK
  <2>2. QED  BY <1>1, <2>1 DEF FoundFirst
<1>4. QED  BY <1>2, <1>3

(***************************************************************************)
(* A step of a request finds the first of the nearest, or nothing new.     *)
(***************************************************************************)
LEMMA FoundStep ==
  ASSUME TypeOK, Provenance, ~Durable, NEW r \in Req, StepOf(r), FoundFirst(r)
  PROVE  FoundFirst(r)'
<1>0. boots' = boots /\ boots \in Nat /\ query[r] \in Query \cup {None}
  BY DEF StepOf, Step, Serve, Check, Embed, Search, Decide, Stamp, Promote, UpstreamFails, UpstreamRefuses,
           UpstreamAnswers, Keep, Charge, Spend, Add, process, TypeOK
<1>1. ASSUME pc[r] \notin {"done", "lost"},
             \/ \E t \in {"L1", "MISS", "ERR"} : \E b : Return(r, t, b)
             \/ \E l \in Labels \ Deciding : Goto(r, l)
      PROVE  FoundFirst(r)'
  BY <1>0, <1>1, FoundOtherwise
<1>2. CASE \E q \in Query : Serve(r, q)
  <2>1. pc[r] = "new" /\ (Goto(r, "check") \/ Goto(r, "embed"))
    BY <1>2 DEF Serve
  <2>2. QED  BY <1>1, <2>1 DEF Labels, Deciding
<1>3. CASE Check(r) \/ Embed(r)
  <2>1. /\ pc[r] \in {"check", "embed"}
        /\ \/ Return(r, "L1", rec[r].body)
           \/ Goto(r, "embed") \/ Goto(r, "search") \/ Goto(r, "upstream")
    BY <1>3 DEF Check, Embed
  <2>2. QED  BY <1>1, <2>1 DEF Labels, Deciding
<1>4. CASE Search(r)
  <2>1. CASE Goto(r, "upstream")
    <3>1. pc[r] = "search"
      BY <1>4 DEF Search
    <3>2. QED  BY <1>1, <2>1, <3>1 DEF Labels, Deciding
  <2>2. CASE \E i \in SearchResults(query[r]) : cand' = [cand EXCEPT ![r] = l2[i]] /\ Goto(r, "decide")
    <3>1. PICK i \in SearchResults(query[r]) : cand' = [cand EXCEPT ![r] = l2[i]] /\ Goto(r, "decide")
      BY <2>2
    <3>2. /\ pc[r] = "search" /\ query[r] \in Query /\ query' = query /\ l2' = l2
          /\ ans[r].tier = "none"
      BY <1>4 DEF Search, TypeOK, shared, Provenance, RequestSound, Unheard
    <3>3. Finds(query[r], l2, l2[i].response.of)
      BY <3>1, <3>2, SearchFindsFirst
    <3>4. cand'[r] = l2[i] /\ ans' = ans
      BY <3>1 DEF TypeOK, Goto
    <3>5. QED  BY <1>0, <3>2, <3>3, <3>4 DEF FoundFirst
  <2>3. QED  BY <1>4, <2>1, <2>2 DEF Search
<1>5. CASE Decide(r) \/ Stamp(r)
  <2>1. /\ pc[r] \in Deciding /\ pc[r] \in Unheard /\ UNCHANGED <<query, cand, l2>>
        /\ Goto(r, "stamp") \/ Goto(r, "promote") \/ Goto(r, "upstream")
    BY <1>5 DEF Decide, Stamp, Deciding, Unheard, shared, l1vars
  <2>2. Finds(query[r], l2, cand[r].response.of) /\ ans' = ans /\ ans[r].tier = "none"
    BY <2>1 DEF FoundFirst, Goto, Provenance, RequestSound
  <2>3. QED  BY <1>0, <2>1, <2>2 DEF FoundFirst
<1>6. CASE Promote(r)
  <2> DEFINE m == cand[r].response.of
             b == Plaintext(cand[r].response)
  <2>1. pc[r] \in Deciding /\ query' = query /\ l2' = l2 /\ Return(r, "L2", b)
    BY <1>6 DEF Promote, Deciding
  <2>2. Finds(query[r], l2, m)
    BY <2>1 DEF FoundFirst
  <2>3. b.of = m
    BY DEF Plaintext, Body
  <2> HIDE DEF m, b
  <2>4. ans'[r].body.of = m /\ ans'[r].boot = boots /\ pc'[r] = "done"
    BY <2>1, <2>3 DEF Return, TypeOK
  <2>5. QED  BY <1>0, <2>1, <2>2, <2>4 DEF FoundFirst, Maker, Deciding
<1>7. CASE UpstreamFails(r) \/ UpstreamRefuses(r) \/ UpstreamAnswers(r)
  <2>1. pc[r] = "upstream"
    BY <1>7 DEF UpstreamFails, UpstreamRefuses, UpstreamAnswers
  <2>2. Return(r, "ERR", Body(r)) \/ Return(r, "MISS", Body(r)) \/ Goto(r, "keep")
    BY <1>7 DEF UpstreamFails, UpstreamRefuses, UpstreamAnswers
  <2>3. QED  BY <1>1, <2>1, <2>2 DEF Labels, Deciding
<1>8. CASE Keep(r) \/ Charge(r) \/ Spend(r) \/ Add(r)
  <2>1. /\ pc[r] \in Heard
        /\ Return(r, "MISS", Body(r)) \/ Goto(r, "charge") \/ Goto(r, "spend") \/ Goto(r, "add")
    BY <1>8 DEF Keep, Charge, Spend, Add, Heard
  <2>2. QED  BY <1>1, <2>1 DEF Labels, Deciding, Heard
<1>9. QED  BY <1>2, <1>3, <1>4, <1>5, <1>6, <1>7, <1>8 DEF StepOf, Step

\* The invariant under OldestOfTheNearest.
OldestFound == AddedOnce /\ (~Durable => \A s \in Req : FoundFirst(s))

(***************************************************************************)
(* Every step keeps it: a restart forgets the candidates and, in memory,   *)
(* the entries, and makes every answer one of an earlier process.          *)
(***************************************************************************)
LEMMA OldestNext ==
  ASSUME TypeOK, Provenance, OldestFound, [Next]_vars
  PROVE  OldestFound'
<1>1. ASSUME NEW r \in Req, StepOf(r) PROVE OldestFound'
  <2>1. AddedOnce'
    BY <1>1, OnceStep DEF OldestFound
  <2>2. ASSUME ~Durable, NEW s \in Req, s # r PROVE FoundFirst(s)'
    <3>1. Grown /\ Untouched(s)
      BY <1>1, <2>2, IndexGrows, OthersUntouched
    <3>2. boots' = boots
      BY <1>1 DEF StepOf, Step, Serve, Check, Embed, Search, Decide, Stamp, Promote, UpstreamFails, UpstreamRefuses,
           UpstreamAnswers, Keep, Charge, Spend, Add, process
    <3>3. QED  BY <2>2, <3>1, <3>2, FoundKept DEF OldestFound
  <2>3. ~Durable => FoundFirst(r)'
    BY <1>1, FoundStep DEF OldestFound
  <2>4. QED  BY <2>1, <2>2, <2>3 DEF OldestFound
<1>2. CASE Tick \/ UNCHANGED vars
  BY <1>2 DEF Tick, vars, shared, OldestFound, AddedOnce, FoundFirst, Maker
<1>3. CASE Restart
  <2>1. \A s \in Req : (pc[s] = "done" => pc'[s] = "done") /\ pc'[s] \notin Deciding
    BY <1>3 DEF Restart, InFlight, Deciding
  <2>2. l2' = l2 \/ l2' = <<>>
    BY <1>3 DEF Restart
  <2>3. \A i \in 1..Len(l2) : l2[i].response.of \in Req
    BY DEF Provenance, L2Sound, Describes, Made
  <2>4. AddedOnce'
    BY <2>1, <2>2, <2>3 DEF AddedOnce, OldestFound
  <2>5. ASSUME ~Durable, NEW s \in Req PROVE FoundFirst(s)'
    <3>1. ans'[s].boot <= boots /\ ans'[s].boot \in Nat /\ boots \in Nat /\ boots' = boots + 1
      BY <1>3, <2>5 DEF Restart, OldestFound, FoundFirst, TypeOK
    <3>2. QED  BY <2>1, <3>1 DEF FoundFirst
  <2>6. QED  BY <2>4, <2>5 DEF OldestFound
<1>4. QED  BY <1>1, <1>2, <1>3 DEF Next, Finished, StepOf

(***************************************************************************)
(* In memory, of equally near entries only the oldest ever serves, however *)
(* stale it has become: whatever L2 answered in the running process was,   *)
(* and still is, the first of the nearest.                                 *)
(***************************************************************************)
THEOREM OldestAloneServes == Spec => []OldestOfTheNearest
<1>1. Init => OldestFound
  BY DEF Init, OldestFound, AddedOnce, FoundFirst, NotAnswered, Deciding
<1>2. TypeOK /\ Provenance /\ OldestFound /\ [Next]_vars => OldestFound'
  BY OldestNext
<1>3. TypeOK /\ OldestFound => OldestOfTheNearest
  <2> SUFFICES ASSUME TypeOK, OldestFound, ~Durable, NEW r \in Req, ans[r].tier = "L2", ans[r].boot = boots,
                      NEW j \in Candidates(query[r]), l2[j].response.of = Maker(r),
                      NEW i \in Candidates(query[r]), i < j
               PROVE  Cosine(query[r].embed, l2[i].embed) < Cosine(query[r].embed, l2[j].embed)
    BY DEF OldestOfTheNearest
  <2>1. PICK x \in 1..Len(l2) : FirstAmong(query[r], l2, x) /\ l2[x].response.of = Maker(r)
    BY DEF OldestFound, FoundFirst, Finds
  <2>2. x = j
    BY <2>1 DEF OldestFound, AddedOnce, Candidates
  <2>3. QED  BY <2>1, <2>2 DEF FirstAmong, Candidates
<1>4. QED  BY <1>1, <1>2, <1>3, TypeCorrect, EveryBodyHasAMaker, PTL DEF Spec

-----------------------------------------------------------------------------
(***************************************************************************)
(* The store quota.  Besides what is in L2, a write that is charged and    *)
(* not yet added is on its way there, and the bucket holds what it could   *)
(* still grant: the three together keep within what the tenant ever had by *)
(* the last reading its limiter accepted.  A limiter no call has reached   *)
(* since the process started has accepted none; what can reach it are the  *)
(* readings the process has made.                                          *)
(***************************************************************************)
Pending(t) == {r \in Req : pc[r] = "add" /\ query[r].tenant = t}

PendingBytes(t) == SumFunction([r \in Pending(t) |-> BodyBytes(query[r])])

Tenants == {q.tenant : q \in Query}

Committed(t) == StoredBytes(t) + PendingBytes(t)

Fits(bytes, restarts, time) == bytes <= (restarts + 1) * StoreBurst + StoreRate * time

Spare(t, at) == Fits(Committed(t) + quota[t].tokens, boots, at + rewound[t])

Tapped(t) == quota[t].last <= clock /\ Spare(t, quota[t].last)

Untapped(t) ==
  /\ quota[t] = TB!Full /\ Spare(t, clock)
  /\ \A s \in Req : pc[s] = "spend" => Spare(t, read[s].now)

Budget(t) == IsFiniteSet(Pending(t)) /\ (Tapped(t) \/ Untapped(t))

ReadInTime == \A s \in Req : pc[s] = "spend" => read[s].now <= clock

InBudget == StoreRate > 0 => ReadInTime /\ \A t \in Tenants : Budget(t)

(***************************************************************************)
(* Who made an answer had asked something.                                 *)
(***************************************************************************)
LEMMA MakerAsked == ASSUME TypeOK, Provenance, NEW b, Made(b) PROVE query[b] \in Query
<1>1. b \in Req /\ pc[b] # "new"
  BY DEF Made, Provenance, RequestSound, Unheard
<1>2. QED  BY <1>1 DEF TypeOK

(***************************************************************************)
(* A tenant's entries are finitely many.                                   *)
(***************************************************************************)
LEMMA StoredFinite == ASSUME TypeOK, NEW t PROVE IsFiniteSet(StoredBy(t))
<1>1. 1 \in Int /\ Len(l2) \in Int
  BY LenProperties DEF TypeOK
<1>2. IsFiniteSet(1..Len(l2))
  BY <1>1, FS_Interval
<1>3. QED  BY <1>2, FS_Subset DEF StoredBy

(***************************************************************************)
(* What is stored and what is on its way are whole numbers of bytes.       *)
(***************************************************************************)
LEMMA BytesType ==
  ASSUME TypeOK, Provenance, NEW t, IsFiniteSet(Pending(t))
  PROVE  StoredBytes(t) \in Nat /\ PendingBytes(t) \in Nat
<1>1. StoredBy(t) \subseteq 1..Len(l2)
  BY DEF StoredBy
<1>2. IsFiniteSet(StoredBy(t))
  BY StoredFinite
<1>3. \A i \in StoredBy(t) : BodyBytes(query[l2[i].response.of]) \in Nat
  <2>1. ASSUME NEW i \in 1..Len(l2) PROVE query[l2[i].response.of] \in Query
    BY MakerAsked DEF Provenance, L2Sound, Describes
  <2>2. QED  BY <1>1, <2>1, EngineAssumption
<1>4. \A r \in Pending(t) : BodyBytes(query[r]) \in Nat
  BY EngineAssumption DEF Pending, TypeOK
<1> DEFINE f == [i \in StoredBy(t) |-> BodyBytes(query[l2[i].response.of])]
           g == [r \in Pending(t) |-> BodyBytes(query[r])]
<1>5. /\ DOMAIN f = StoredBy(t) /\ \A i \in StoredBy(t) : f[i] \in Nat
      /\ DOMAIN g = Pending(t) /\ \A r \in Pending(t) : g[r] \in Nat
  BY <1>3, <1>4
<1> HIDE DEF f, g
<1>6. SumFunctionOnSet(f, StoredBy(t)) \in Nat /\ SumFunctionOnSet(g, Pending(t)) \in Nat
  BY <1>2, <1>5, SumType, Nat \in {Nat, Int}
<1>7. QED  BY <1>2, <1>5, <1>6 DEF f, g, StoredBytes, PendingBytes, SumFunction

(***************************************************************************)
(* Entries that stay, made by requests that keep their queries, stay the   *)
(* same bytes of the same tenant.                                          *)
(***************************************************************************)
LEMMA StoredStays ==
  ASSUME Provenance, \A b : Stays(b), l2' = l2, NEW t
  PROVE  StoredBytes(t)' = StoredBytes(t)
<1>1. ASSUME NEW i \in 1..Len(l2) PROVE query'[l2[i].response.of] = query[l2[i].response.of]
  BY DEF Provenance, L2Sound, Describes, Stays
<1>2. StoredBy(t)' = StoredBy(t)
  BY <1>1 DEF StoredBy
<1>3. [i \in StoredBy(t) |-> BodyBytes(query[l2[i].response.of])]'
        = [i \in StoredBy(t) |-> BodyBytes(query[l2[i].response.of])]
  BY <1>1, <1>2 DEF StoredBy
<1>4. QED  BY <1>3 DEF StoredBytes

(***************************************************************************)
(* So do the writes on their way, when none sets out and none arrives.     *)
(***************************************************************************)
LEMMA PendingStays ==
  ASSUME NEW t, \A s \in Req : /\ pc'[s] = "add" <=> pc[s] = "add"
                               /\ pc[s] = "add" => query'[s] = query[s]
  PROVE  Pending(t)' = Pending(t) /\ PendingBytes(t)' = PendingBytes(t)
<1>1. Pending(t)' = Pending(t)
  BY DEF Pending
<1>2. [r \in Pending(t) |-> BodyBytes(query[r])]' = [r \in Pending(t) |-> BodyBytes(query[r])]
  BY <1>1 DEF Pending
<1>3. QED  BY <1>1, <1>2 DEF PendingBytes

(***************************************************************************)
(* A charged write sets out.                                               *)
(***************************************************************************)
LEMMA PendingGrows ==
  ASSUME TypeOK, NEW r \in Req, NEW t \in Tenants, pc[r] = "spend",
         pc' = [pc EXCEPT ![r] = "add"], query' = query, IsFiniteSet(Pending(t))
  PROVE  /\ IsFiniteSet(Pending(t)')
         /\ query[r].tenant = t => PendingBytes(t)' = PendingBytes(t) + BodyBytes(query[r])
         /\ query[r].tenant # t => PendingBytes(t)' = PendingBytes(t)
<1>1. query[r] \in Query /\ pc'[r] = "add" /\ \A s \in Req : s # r => pc'[s] = pc[s]
  BY DEF TypeOK
<1>2. CASE query[r].tenant # t
  <2>1. Pending(t)' = Pending(t)
    BY <1>1, <1>2 DEF Pending
  <2>2. [s \in Pending(t) |-> BodyBytes(query[s])]' = [s \in Pending(t) |-> BodyBytes(query[s])]
    BY <2>1
  <2>3. QED  BY <1>2, <2>1, <2>2 DEF PendingBytes
<1>3. CASE query[r].tenant = t
  <2>1. Pending(t)' = Pending(t) \cup {r} /\ r \notin Pending(t)
    BY <1>1, <1>3 DEF Pending
  <2> DEFINE f == [s \in Pending(t) |-> BodyBytes(query[s])]
             g == [s \in Pending(t) \cup {r} |-> BodyBytes(query[s])]
  <2>2. \A s \in Pending(t) : query[s] \in Query
    BY DEF Pending, TypeOK
  <2>3. /\ DOMAIN f = Pending(t) /\ DOMAIN g = Pending(t) \cup {r}
        /\ g[r] = BodyBytes(query[r]) /\ g[r] \in Int
        /\ \A s \in Pending(t) : g[s] = f[s] /\ f[s] \in Int
    BY <1>1, <2>2, EngineAssumption
  <2>4. PendingBytes(t) = SumFunction(f) /\ PendingBytes(t)' = SumFunction(g)
    BY <2>1 DEF PendingBytes
  <2> HIDE DEF f, g
  <2>5. SumFunction(g) = SumFunction(f) + g[r]
    BY <2>1, <2>3, SumExtended
  <2>6. QED  BY <1>3, <2>1, <2>3, <2>4, <2>5, FS_AddElement
<1>4. QED  BY <1>2, <1>3

(***************************************************************************)
(* A write that ends, stored or not, is no longer on its way.              *)
(***************************************************************************)
LEMMA PendingShrinks ==
  ASSUME TypeOK, Provenance, NEW r \in Req, NEW t \in Tenants, pc[r] = "add",
         pc' = [pc EXCEPT ![r] = "done"], query' = query, IsFiniteSet(Pending(t))
  PROVE  /\ IsFiniteSet(Pending(t)')
         /\ query[r].tenant = t => PendingBytes(t) = PendingBytes(t)' + BodyBytes(query[r])
         /\ query[r].tenant # t => PendingBytes(t)' = PendingBytes(t)
         /\ PendingBytes(t)' \in Nat
<1>1. query[r] \in Query /\ pc'[r] = "done" /\ \A s \in Req : s # r => pc'[s] = pc[s]
  BY DEF TypeOK
<1>2. CASE query[r].tenant # t
  <2>1. Pending(t)' = Pending(t)
    BY <1>1, <1>2 DEF Pending
  <2>2. [s \in Pending(t) |-> BodyBytes(query[s])]' = [s \in Pending(t) |-> BodyBytes(query[s])]
    BY <2>1
  <2>3. QED  BY <1>2, <2>1, <2>2, BytesType DEF PendingBytes
<1>3. CASE query[r].tenant = t
  <2> DEFINE rest == Pending(t) \ {r}
  <2>1. Pending(t)' = rest /\ Pending(t) = rest \cup {r} /\ r \notin rest
    BY <1>1, <1>3 DEF Pending
  <2> DEFINE f == [s \in rest |-> BodyBytes(query[s])]
             g == [s \in Pending(t) |-> BodyBytes(query[s])]
  <2>2. \A s \in Pending(t) : query[s] \in Query
    BY DEF Pending, TypeOK
  <2>3. /\ DOMAIN f = rest /\ DOMAIN g = rest \cup {r}
        /\ g[r] = BodyBytes(query[r]) /\ g[r] \in Int
        /\ \A s \in rest : g[s] = f[s] /\ f[s] \in Nat
    BY <1>1, <2>1, <2>2, EngineAssumption
  <2>4. PendingBytes(t)' = SumFunction(f) /\ PendingBytes(t) = SumFunction(g) /\ IsFiniteSet(rest)
    BY <2>1, FS_Subset DEF PendingBytes
  <2> HIDE DEF f, g, rest
  <2>5. SumFunction(g) = SumFunction(f) + g[r]
    BY <2>1, <2>3, <2>4, SumExtended
  <2>6. SumFunction(f) \in Nat
    BY <2>3, <2>4, SumType, Nat \in {Nat, Int} DEF SumFunction
  <2>7. QED  BY <1>3, <2>1, <2>3, <2>4, <2>5, <2>6
<1>4. QED  BY <1>2, <1>3

(***************************************************************************)
(* A write that arrives is stored bytes of its tenant.                     *)
(***************************************************************************)
LEMMA StoredGrows ==
  ASSUME TypeOK, Provenance, NEW r \in Req, NEW t \in Tenants, Add(r), Added(r)
  PROVE  /\ query[r].tenant = t => StoredBytes(t)' = StoredBytes(t) + BodyBytes(query[r])
         /\ query[r].tenant # t => StoredBytes(t)' = StoredBytes(t)
<1> DEFINE n == Len(l2) + 1
           W(i) == BodyBytes(query[l2[i].response.of])
<1>1. /\ Len(l2') = n /\ Len(l2) \in Nat /\ query' = query /\ query[r] \in Query
      /\ \A i \in 1..Len(l2) : l2'[i] = l2[i]
      /\ l2'[n].response.of = r
  BY AddedLast DEF Add, TypeOK
<1>2. CASE query[r].tenant # t
  <2>1. StoredBy(t)' = StoredBy(t)
    BY <1>1, <1>2 DEF StoredBy
  <2>2. [i \in StoredBy(t) |-> W(i)]' = [i \in StoredBy(t) |-> W(i)]
    BY <1>1, <2>1 DEF StoredBy
  <2>3. QED  BY <1>2, <2>2 DEF StoredBytes
<1>3. CASE query[r].tenant = t
  <2>1. StoredBy(t)' = StoredBy(t) \cup {n} /\ n \notin StoredBy(t)
    BY <1>1, <1>3 DEF StoredBy
  <2> DEFINE f == [i \in StoredBy(t) |-> W(i)]
             g == [i \in StoredBy(t) |-> W(i)]'
  <2>2. \A i \in StoredBy(t) : query[l2[i].response.of] \in Query
    BY MakerAsked DEF StoredBy, Provenance, L2Sound, Describes
  <2>3. DOMAIN f = StoredBy(t) /\ DOMAIN g = StoredBy(t) \cup {n}
    BY <2>1
  <2>4. g[n] = BodyBytes(query[r]) /\ g[n] \in Int
    BY <1>1, <2>1, EngineAssumption
  <2>5. ASSUME NEW i \in StoredBy(t) PROVE g[i] = f[i] /\ f[i] \in Int
    <3>1. i \in 1..Len(l2)
      BY DEF StoredBy
    <3>2. l2'[i].response.of = l2[i].response.of /\ query' = query
      BY <1>1, <3>1
    <3>3. g[i] = W(i)' /\ f[i] = W(i)
      BY <2>1
    <3>4. W(i) \in Int
      BY <2>2, EngineAssumption
    <3>5. QED  BY <3>2, <3>3, <3>4
  <2>6. StoredBytes(t) = SumFunction(f) /\ StoredBytes(t)' = SumFunction(g)
    BY DEF StoredBytes
  <2>7. IsFiniteSet(StoredBy(t))
    BY StoredFinite
  <2> HIDE DEF f, g
  <2>8. SumFunction(g) = SumFunction(f) + g[n]
    <3> HIDE DEF n
    <3>1. QED  BY <2>1, <2>3, <2>4, <2>5, <2>7, SumExtended
  <2>9. QED  BY <1>3, <2>4, <2>6, <2>8
<1>4. QED  BY <1>2, <1>3

(***************************************************************************)
(* What a tenant has had by some time fits in what it has had later, also  *)
(* with what it earned in between, and a restart is good for a burst more. *)
(***************************************************************************)
LEMMA FitsLater ==
  ASSUME StoreRate > 0, NEW x \in Nat, NEW y \in Nat, y <= x, NEW n \in Nat,
         NEW a \in Nat, NEW b \in Nat, a <= b, Fits(x, n, a)
  PROVE  Fits(y, n, b)
<1> DEFINE most == (n + 1) * StoreBurst
<1>1. StoreBurst \in Nat /\ StoreRate \in Nat
  BY EngineAssumption
<1>2. most \in Nat /\ StoreRate * a \in Nat /\ StoreRate * b \in Nat
  BY <1>1
<1>3. StoreRate * a <= StoreRate * b
  <2>1. PICK d \in Nat : b = a + d
    <3>1. b - a \in Nat /\ b = a + (b - a)
      OBVIOUS
    <3>2. QED  BY <3>1
  <2>2. StoreRate * b = StoreRate * a + StoreRate * d /\ StoreRate * d \in Nat
    BY <1>1, <2>1
  <2>3. QED  BY <1>2, <2>2
<1>4. x <= most + StoreRate * a
  BY DEF Fits
<1> HIDE DEF most
<1>5. y <= most + StoreRate * b
  BY <1>2, <1>3, <1>4
<1>6. QED  BY <1>5 DEF Fits, most

LEMMA FitsEarned ==
  ASSUME StoreRate > 0, NEW x \in Nat, NEW y \in Nat, NEW n \in Nat, NEW a \in Nat, NEW d \in Nat,
         y <= x + StoreRate * d, Fits(x, n, a)
  PROVE  Fits(y, n, a + d)
<1> DEFINE most == (n + 1) * StoreBurst
<1>1. StoreBurst \in Nat /\ StoreRate \in Nat
  BY EngineAssumption
<1>2. /\ most \in Nat /\ StoreRate * a \in Nat /\ StoreRate * d \in Nat
      /\ StoreRate * (a + d) = StoreRate * a + StoreRate * d
  BY <1>1
<1>3. x <= most + StoreRate * a
  BY DEF Fits
<1> HIDE DEF most
<1>4. y <= most + StoreRate * (a + d)
  BY <1>2, <1>3
<1>5. QED  BY <1>4 DEF Fits, most

LEMMA FitsReborn ==
  ASSUME NEW x \in Nat, NEW y \in Nat, y <= x, NEW n \in Nat, NEW a \in Nat, Fits(x, n, a)
  PROVE  Fits(y + StoreBurst, n + 1, a)
<1> DEFINE most == (n + 1) * StoreBurst
<1>1. StoreBurst \in Nat /\ StoreRate \in Int
  BY EngineAssumption
<1>2. most \in Nat /\ StoreRate * a \in Int /\ (n + 1 + 1) * StoreBurst = most + StoreBurst
  BY <1>1
<1>3. x <= most + StoreRate * a
  BY DEF Fits
<1> HIDE DEF most
<1>4. y + StoreBurst <= most + StoreBurst + StoreRate * a
  BY <1>1, <1>2, <1>3
<1>5. QED  BY <1>2, <1>4 DEF Fits

(***************************************************************************)
(* A granted write takes its bytes from what its reading finds, which is   *)
(* at most what was there and the refill since the last reading accepted:  *)
(* none, when that one is later.                                           *)
(***************************************************************************)
LEMMA TokensSpent ==
  ASSUME StoreRate > 0, NEW b \in TB!Bucket, NEW now \in Nat, NEW n \in Nat, TB!Grants(b, now, n)
  PROVE  /\ TB!Spend(b, now, n) \in TB!Bucket /\ TB!Spend(b, now, n).last = now
         /\ TB!Spend(b, now, n).tokens + n <= b.tokens + StoreRate * (IF now < b.last THEN 0 ELSE now - b.last)
         /\ TB!Spend(b, now, n).tokens + n <= StoreBurst
<1> DEFINE gone == IF now < b.last THEN 0 ELSE now - b.last
           had == b.tokens
           have == TB!TokensAt(b, now)
<1>1. gone \in Nat /\ had \in Nat /\ StoreRate \in Nat /\ StoreBurst \in Nat
  BY EngineAssumption DEF TB!Bucket
<1>2. have = IF had + StoreRate * gone > StoreBurst THEN StoreBurst ELSE had + StoreRate * gone
  BY DEF TB!TokensAt
<1>3. n <= have /\ TB!Spend(b, now, n) = [tokens |-> have - n, last |-> now]
  BY DEF TB!Spend, TB!Grants
<1>4. TB!Spend(b, now, n) \in TB!Bucket
  BY SpendType
<1> HIDE DEF gone, had, have
<1>5. StoreRate * gone \in Nat
  BY <1>1
<1>6. have \in Nat /\ have <= StoreBurst /\ have <= had + StoreRate * gone
  BY <1>1, <1>2, <1>5
<1>7. TB!Spend(b, now, n).tokens = have - n /\ TB!Spend(b, now, n).last = now
  BY <1>3
<1>8. have - n + n = have
  BY <1>6
<1>9. QED  BY <1>4, <1>6, <1>7, <1>8 DEF gone, had

-----------------------------------------------------------------------------
(***************************************************************************)
(* A step that charges nothing commits no more than there was.             *)
(***************************************************************************)
Unmoved(t) ==
  /\ IsFiniteSet(Pending(t)') /\ Committed(t)' \in Nat /\ Committed(t)' <= Committed(t)

LEMMA CommittedType ==
  ASSUME TypeOK, Provenance, NEW t, IsFiniteSet(Pending(t))
  PROVE  Committed(t) \in Nat /\ StoredBytes(t) \in Nat /\ PendingBytes(t) \in Nat
  BY BytesType DEF Committed

LEMMA NothingMoves ==
  ASSUME TypeOK, Provenance, NEW t \in Tenants, IsFiniteSet(Pending(t)),
         \A b : Stays(b), l2' = l2,
         \A s \in Req : (pc'[s] = "add" <=> pc[s] = "add") /\ (pc[s] = "add" => query'[s] = query[s])
  PROVE  Unmoved(t)
<1>1. StoredBytes(t)' = StoredBytes(t) /\ Pending(t)' = Pending(t)
      /\ PendingBytes(t)' = PendingBytes(t)
  BY StoredStays, PendingStays
<1>2. QED  BY <1>1, CommittedType DEF Unmoved, Committed

LEMMA CommittedAdded ==
  ASSUME TypeOK, Provenance, NEW r \in Req, StepOf(r), Add(r), NEW t \in Tenants, IsFiniteSet(Pending(t))
  PROVE  Unmoved(t)
<1> DEFINE n == BodyBytes(query[r])
<1>1. /\ pc[r] = "add" /\ query[r] \in Query /\ n \in Nat /\ query' = query
      /\ pc' = [pc EXCEPT ![r] = "done"]
  BY EngineAssumption DEF Add, TypeOK, Return
<1>2. StoredBytes(t) \in Nat /\ PendingBytes(t) \in Nat
  BY CommittedType
<1>3. \/ StoredBytes(t)' = StoredBytes(t)
      \/ query[r].tenant = t /\ StoredBytes(t)' = StoredBytes(t) + n
  <2>1. CASE Added(r)
    BY <2>1, StoredGrows
  <2>2. CASE UNCHANGED l2
    BY <2>2, MakersStay, StoredStays
  <2>3. QED  BY <2>1, <2>2 DEF Add, SealFails, AddFails
<1>4. /\ IsFiniteSet(Pending(t)')
      /\ query[r].tenant = t => PendingBytes(t) = PendingBytes(t)' + n
      /\ query[r].tenant # t => PendingBytes(t)' = PendingBytes(t)
      /\ PendingBytes(t)' \in Nat
  BY <1>1, PendingShrinks
<1> HIDE DEF n
<1>5. /\ StoredBytes(t)' + PendingBytes(t)' \in Nat
      /\ StoredBytes(t)' + PendingBytes(t)' <= StoredBytes(t) + PendingBytes(t)
  BY <1>1, <1>2, <1>3, <1>4
<1>6. QED  BY <1>4, <1>5 DEF Unmoved, Committed

(***************************************************************************)
(* What a tenant may spare stays so when nothing more is committed, and at *)
(* any later time.                                                         *)
(***************************************************************************)
LEMMA SpareKept ==
  ASSUME TypeOK, Provenance, StoreRate > 0, NEW t \in Tenants, IsFiniteSet(Pending(t)), Unmoved(t),
         quota'[t] = quota[t], rewound'[t] = rewound[t], boots' = boots,
         NEW a \in Nat, NEW b \in Nat, a <= b, Spare(t, a)
  PROVE  Fits(Committed(t)' + quota'[t].tokens, boots', b + rewound'[t])
<1>1. /\ Committed(t) \in Nat /\ quota[t].tokens \in Nat /\ rewound[t] \in Nat /\ boots \in Nat
      /\ Committed(t)' \in Nat /\ Committed(t)' <= Committed(t)
  BY CommittedType DEF TypeOK, Tenants, TB!Bucket, Unmoved
<1> DEFINE x == Committed(t) + quota[t].tokens
           y == Committed(t)' + quota[t].tokens
<1>2. x \in Nat /\ y \in Nat /\ y <= x /\ a + rewound[t] \in Nat /\ b + rewound[t] \in Nat
      /\ a + rewound[t] <= b + rewound[t]
  BY <1>1
<1>3. Fits(x, boots, a + rewound[t])
  BY DEF Spare
<1> HIDE DEF x, y
<1>4. Fits(y, boots, b + rewound[t])
  BY <1>1, <1>2, <1>3, FitsLater
<1>5. QED  BY <1>4 DEF y

(***************************************************************************)
(* A step that leaves a tenant's limiter alone keeps it within its budget: *)
(* whoever comes to ask with a reading made it before, or made it just now.*)
(***************************************************************************)
LEMMA BudgetKept ==
  ASSUME TypeOK, Provenance, StoreRate > 0, NEW t \in Tenants, Budget(t), Unmoved(t),
         quota'[t] = quota[t], rewound'[t] = rewound[t], boots' = boots,
         clock' \in Nat, clock <= clock',
         \A s \in Req : pc'[s] = "spend" =>
           \/ pc[s] = "spend" /\ read'[s].now = read[s].now
           \/ read'[s].now = clock
  PROVE  Budget(t)'
<1>0. /\ IsFiniteSet(Pending(t)) /\ IsFiniteSet(Pending(t)') /\ clock \in Nat
      /\ quota[t].last \in Nat
  BY DEF Budget, Unmoved, TypeOK, Tenants, TB!Bucket
<1>1. CASE Tapped(t)
  <2>1. Fits(Committed(t)' + quota'[t].tokens, boots', quota'[t].last + rewound'[t])
    BY <1>0, <1>1, SpareKept DEF Tapped
  <2>2. quota'[t].last <= clock'
    BY <1>0, <1>1 DEF Tapped
  <2>3. QED  BY <1>0, <2>1, <2>2 DEF Budget, Tapped, Spare
<1>2. CASE Untapped(t)
  <2>1. Fits(Committed(t)' + quota'[t].tokens, boots', clock' + rewound'[t])
    BY <1>0, <1>2, SpareKept DEF Untapped
  <2>2. ASSUME NEW s \in Req, pc'[s] = "spend"
        PROVE  Fits(Committed(t)' + quota'[t].tokens, boots', read'[s].now + rewound'[t])
    <3>1. read[s].now \in Nat
      BY DEF TypeOK
    <3>2. CASE pc[s] = "spend" /\ read'[s].now = read[s].now
      BY <1>0, <1>2, <3>1, <3>2, SpareKept DEF Untapped
    <3>3. CASE read'[s].now = clock
      BY <1>0, <1>2, <3>3, SpareKept DEF Untapped
    <3>4. QED  BY <2>2, <3>2, <3>3
  <2>3. QED  BY <1>0, <1>2, <2>1, <2>2 DEF Budget, Untapped, Spare
<1>3. QED  BY <1>1, <1>2 DEF Budget

(***************************************************************************)
(* A granted write moves its bytes from the bucket to those on their way,  *)
(* and a late reading pays for the time it counts again.                   *)
(***************************************************************************)
LEMMA BudgetSpent ==
  ASSUME TypeOK, Provenance, StoreRate > 0, ReadInTime, NEW r \in Req, StepOf(r), Spend(r),
         Goto(r, "add"), NEW t \in Tenants, t = query[r].tenant, Budget(t),
         TB!Grants(quota[t], read[r].now, BodyBytes(query[r])),
         quota' = Spent(t, read[r].now, BodyBytes(query[r])),
         rewound' = [rewound EXCEPT ![t] = @ + Behind(t, read[r].now)]
  PROVE  Budget(t)'
<1> DEFINE n == BodyBytes(query[r])
           now == read[r].now
           b == quota[t]
           c == TB!Spend(quota[t], now, n)
<1>1. /\ pc[r] = "spend" /\ query[r] \in Query /\ n \in Nat /\ now \in Nat /\ b \in TB!Bucket
      /\ clock \in Nat /\ now <= clock /\ rewound[t] \in Nat /\ boots \in Nat
      /\ query' = query /\ l2' = l2 /\ clock' = clock /\ boots' = boots
      /\ pc' = [pc EXCEPT ![r] = "add"]
  BY EngineAssumption DEF Spend, process, TypeOK, Goto, ReadInTime, Tenants
<1>2. quota'[t] = c /\ rewound'[t] = rewound[t] + Behind(t, now)
  BY DEF Spent, TypeOK, Tenants
<1>3. StoredBytes(t) \in Nat /\ PendingBytes(t) \in Nat /\ IsFiniteSet(Pending(t))
  BY CommittedType DEF Budget
<1>4. StoredBytes(t)' = StoredBytes(t)
  BY <1>1, MakersStay, StoredStays
<1>5. IsFiniteSet(Pending(t)') /\ PendingBytes(t)' = PendingBytes(t) + n
  BY <1>1, <1>3, PendingGrows
<1>6. Committed(t) \in Nat /\ Committed(t)' = Committed(t) + n
  <2> HIDE DEF n
  <2>1. QED  BY <1>1, <1>3, <1>4, <1>5 DEF Committed
<1>7. /\ c \in TB!Bucket /\ c.last = now /\ c.tokens \in Nat /\ b.tokens \in Nat /\ b.last \in Nat
      /\ c.tokens + n <= b.tokens + StoreRate * (IF now < b.last THEN 0 ELSE now - b.last)
      /\ c.tokens + n <= StoreBurst
  <2>1. c \in TB!Bucket
    BY <1>1, TokensSpent
  <2>2. QED  BY <1>1, <2>1, TokensSpent DEF TB!Bucket
<1> DEFINE x == Committed(t) + b.tokens
           y == Committed(t)' + c.tokens
<1>8. Behind(t, now) = IF now < b.last THEN b.last - now ELSE 0
  BY DEF Behind
<1> HIDE DEF n, now, b, c
<1>9. x \in Nat /\ y \in Nat /\ StoreRate \in Nat
  BY <1>1, <1>6, <1>7, EngineAssumption
<1>10. Fits(y, boots, now + rewound'[t])
  <2>1. CASE Tapped(t) /\ now < b.last
    <3>1. Fits(x, boots, b.last + rewound[t])
      BY <2>1 DEF Tapped, Spare, b
    <3>2. b.last + rewound[t] = now + rewound'[t] /\ b.last + rewound[t] \in Nat
      BY <1>1, <1>2, <1>7, <1>8, <2>1
    <3>3. y <= x
      BY <1>1, <1>6, <1>7, <1>9, <2>1
    <3>4. QED  BY <1>1, <1>9, <3>1, <3>2, <3>3, FitsLater
  <2>2. CASE Tapped(t) /\ ~(now < b.last)
    <3> DEFINE d == now - b.last
    <3>1. Fits(x, boots, b.last + rewound[t])
      BY <2>2 DEF Tapped, Spare, b
    <3>2. d \in Nat /\ now + rewound'[t] = b.last + rewound[t] + d /\ b.last + rewound[t] \in Nat
      BY <1>1, <1>2, <1>7, <1>8, <2>2
    <3>3. c.tokens + n <= b.tokens + StoreRate * d
      BY <1>7, <2>2
    <3> HIDE DEF d
    <3>4. StoreRate * d \in Nat
      BY <1>9, <3>2
    <3>5. y <= x + StoreRate * d
      BY <1>1, <1>6, <1>7, <3>3, <3>4
    <3>6. QED  BY <1>1, <1>9, <3>1, <3>2, <3>5, FitsEarned
  <2>3. CASE Untapped(t)
    <3>1. b.tokens = StoreBurst /\ b.last = 0
      BY <2>3 DEF Untapped, TB!Full, b
    <3>2. Fits(x, boots, now + rewound[t])
      BY <1>1, <2>3 DEF Untapped, Spare, b, now
    <3>3. y <= x
      BY <1>1, <1>6, <1>7, <3>1
    <3>4. rewound'[t] = rewound[t] /\ now + rewound[t] \in Nat
      BY <1>1, <1>2, <1>8, <3>1
    <3>5. QED  BY <1>1, <1>9, <3>2, <3>3, <3>4, FitsLater
  <2>4. QED  BY <2>1, <2>2, <2>3 DEF Budget
<1>11. Tapped(t)'
  BY <1>1, <1>2, <1>7, <1>10 DEF Tapped, Spare
<1>12. QED  BY <1>5, <1>11 DEF Budget

(***************************************************************************)
(* The step of a request keeps every tenant within its budget.             *)
(***************************************************************************)
LEMMA BudgetStep ==
  ASSUME TypeOK, Provenance, StoreRate > 0, ReadInTime, NEW r \in Req, StepOf(r),
         NEW t \in Tenants, Budget(t)
  PROVE  Budget(t)'
<1>0. /\ \A b : Stays(b) /\ IsFiniteSet(Pending(t)) /\ clock \in Nat
      /\ \A s \in Req : s # r => Untouched(s)
  BY MakersStay, OthersUntouched DEF Budget, TypeOK
<1>1. ASSUME l2' = l2, quotas' = quotas, process' = process, pc[r] # "add", pc'[r] # "add",
             pc'[r] = "spend" => read'[r].now = clock
      PROVE  Budget(t)'
  <2>1. Unmoved(t)
    BY <1>0, <1>1, NothingMoves DEF Untouched
  <2>2. \A s \in Req : pc'[s] = "spend" => \/ pc[s] = "spend" /\ read'[s].now = read[s].now
                                           \/ read'[s].now = clock
    BY <1>0, <1>1 DEF Untouched
  <2>3. quota' = quota /\ rewound' = rewound /\ boots' = boots /\ clock' = clock
    BY <1>1 DEF quotas, process
  <2>4. QED  BY <1>0, <2>1, <2>2, <2>3, BudgetKept
<1>2. ASSUME NEW l \in Labels \ {"add", "spend"}, Goto(r, l) PROVE pc'[r] # "add" /\ pc'[r] # "spend"
  BY <1>2 DEF Goto, TypeOK
<1>3. ASSUME NEW u, NEW b, Return(r, u, b) PROVE pc'[r] # "add" /\ pc'[r] # "spend"
  BY <1>3 DEF Return, TypeOK
<1>4. {"check", "embed", "search", "decide", "stamp", "promote", "upstream", "keep", "charge"}
        \subseteq Labels \ {"add", "spend"}
  BY DEF Labels
<1>5. CASE \E q \in Query : Serve(r, q)
  <2>1. pc'[r] # "add" /\ pc[r] # "add" /\ pc'[r] # "spend"
    BY <1>2, <1>4, <1>5 DEF Serve
  <2>2. QED  BY <1>1, <1>5, <2>1 DEF Serve
<1>6. CASE Check(r) \/ Embed(r) \/ Search(r)
  <2>1. pc'[r] # "add" /\ pc[r] # "add" /\ pc'[r] # "spend"
    BY <1>2, <1>3, <1>4, <1>6 DEF Check, Embed, Search
  <2>2. l2' = l2 /\ quotas' = quotas /\ process' = process
    BY <1>6 DEF Check, Embed, Search, shared
  <2>3. QED  BY <1>1, <2>1, <2>2
<1>7. CASE Decide(r) \/ Stamp(r) \/ Promote(r)
  <2>1. pc'[r] # "add" /\ pc[r] # "add" /\ pc'[r] # "spend"
    BY <1>2, <1>3, <1>4, <1>7 DEF Decide, Stamp, Promote
  <2>2. l2' = l2 /\ quotas' = quotas /\ process' = process
    BY <1>7 DEF Decide, Stamp, Promote, shared
  <2>3. QED  BY <1>1, <2>1, <2>2
<1>8. CASE UpstreamFails(r) \/ UpstreamRefuses(r) \/ UpstreamAnswers(r) \/ Keep(r)
  <2>1. pc'[r] # "add" /\ pc[r] # "add" /\ pc'[r] # "spend"
    BY <1>2, <1>3, <1>4, <1>8 DEF UpstreamFails, UpstreamRefuses, UpstreamAnswers, Keep
  <2>2. l2' = l2 /\ quotas' = quotas /\ process' = process
    BY <1>8 DEF UpstreamFails, UpstreamRefuses, UpstreamAnswers, Keep, shared
  <2>3. QED  BY <1>1, <2>1, <2>2
<1>9. CASE Charge(r)
  <2>1. pc[r] = "charge" /\ Goto(r, "spend") /\ read' = [read EXCEPT ![r].now = clock]
    BY <1>9, EngineAssumption DEF Charge
  <2>2. pc'[r] = "spend" /\ read'[r].now = clock
    BY <2>1 DEF Goto, TypeOK
  <2>3. l2' = l2 /\ quotas' = quotas /\ process' = process
    BY <1>9 DEF Charge, shared
  <2>4. QED  BY <1>1, <2>1, <2>2, <2>3
<1>10. CASE Spend(r)
  <2> DEFINE u == query[r].tenant
  <2>1. /\ pc[r] = "spend" /\ l2' = l2 /\ process' = process /\ query[r] \in Query
        /\ query' = query
    BY <1>10 DEF Spend, TypeOK
  <2>2. CASE /\ TB!Grants(quota[u], read[r].now, BodyBytes(query[r]))
             /\ quota' = Spent(u, read[r].now, BodyBytes(query[r]))
             /\ rewound' = [rewound EXCEPT ![u] = @ + Behind(u, read[r].now)]
             /\ Goto(r, "add")
    <3>1. CASE t = u
      BY <1>10, <2>2, <3>1, BudgetSpent
    <3>2. CASE t # u
      <4>1. quota'[t] = quota[t] /\ rewound'[t] = rewound[t]
        BY <2>2, <3>2 DEF Spent, TypeOK, Tenants
      <4>2. pc' = [pc EXCEPT ![r] = "add"] /\ pc'[r] = "add"
        BY <2>2 DEF Goto, TypeOK
      <4>3. Unmoved(t)
        <5>1. StoredBytes(t)' = StoredBytes(t)
          BY <1>0, <2>1, StoredStays
        <5>2. IsFiniteSet(Pending(t)') /\ PendingBytes(t)' = PendingBytes(t)
          BY <1>0, <2>1, <3>2, <4>2, PendingGrows
        <5>3. QED  BY <1>0, <5>1, <5>2, CommittedType DEF Unmoved, Committed
      <4>4. \A s \in Req : pc'[s] = "spend" => pc[s] = "spend" /\ read'[s].now = read[s].now
        BY <1>0, <4>2 DEF Untouched
      <4>5. boots' = boots /\ clock' = clock
        BY <2>1 DEF process
      <4>6. QED  BY <1>0, <4>1, <4>3, <4>4, <4>5, BudgetKept
    <3>3. QED  BY <3>1, <3>2
  <2>3. CASE Return(r, "MISS", Body(r)) /\ UNCHANGED quotas
    BY <1>1, <1>3, <2>1, <2>3
  <2>4. QED  BY <1>10, <2>2, <2>3 DEF Spend
<1>11. CASE Add(r)
  <2>1. Unmoved(t)
    BY <1>0, <1>11, CommittedAdded
  <2>2. pc'[r] = "done" /\ quota' = quota /\ rewound' = rewound /\ boots' = boots /\ clock' = clock
    BY <1>11 DEF Add, Return, TypeOK, quotas, process
  <2>3. \A s \in Req : pc'[s] = "spend" => pc[s] = "spend" /\ read'[s].now = read[s].now
    BY <1>0, <2>2 DEF Untouched
  <2>4. QED  BY <1>0, <2>1, <2>2, <2>3, BudgetKept
<1>12. QED  BY <1>5, <1>6, <1>7, <1>8, <1>9, <1>10, <1>11 DEF StepOf, Step

(***************************************************************************)
(* A restart fills the buckets again: one burst more.  What was on its way *)
(* is lost, in memory what was stored, and with it every reading made.     *)
(***************************************************************************)
LEMMA BudgetRestart ==
  ASSUME TypeOK, Provenance, StoreRate > 0, Restart, NEW t \in Tenants, Budget(t)
  PROVE  Budget(t)'
<1>1. /\ query' = query /\ reply' = reply /\ boots' = boots + 1 /\ clock' = clock
      /\ rewound' = rewound /\ quota'[t] = TB!Full
      /\ clock \in Nat /\ boots \in Nat /\ rewound[t] \in Nat /\ StoreBurst \in Nat
      /\ quota[t].tokens \in Nat /\ quota[t].last \in Nat
  BY EngineAssumption DEF Restart, TypeOK, Tenants, TB!Bucket
<1>2. StoredBytes(t) \in Nat /\ PendingBytes(t) \in Nat
  BY CommittedType DEF Budget
<1>3. StoredBytes(t)' = StoredBytes(t) \/ StoredBytes(t)' = 0
  <2>1. CASE l2' = l2
    BY <1>1, <2>1, StoredStays DEF Stays
  <2>2. CASE l2' = <<>>
    <3>1. StoredBy(t)' = {}
      BY <2>2 DEF StoredBy
    <3> DEFINE f == [i \in StoredBy(t) |-> BodyBytes(query[l2[i].response.of])]'
    <3>2. DOMAIN f = {}
      BY <3>1
    <3>3. StoredBytes(t)' = SumFunction(f)
      BY DEF StoredBytes
    <3> HIDE DEF f
    <3>4. QED  BY <3>2, <3>3, SumOfNothing DEF SumFunction
  <2>3. QED  BY <2>1, <2>2 DEF Restart
<1>4. Pending(t)' = {} /\ \A s \in Req : pc'[s] # "spend"
  BY DEF Restart, InFlight, Pending
<1>5. PendingBytes(t)' = 0
  <2> DEFINE f == [r \in Pending(t) |-> BodyBytes(query[r])]'
  <2>1. DOMAIN f = {}
    BY <1>4
  <2>2. PendingBytes(t)' = SumFunction(f)
    BY DEF PendingBytes
  <2> HIDE DEF f
  <2>3. QED  BY <2>1, <2>2, SumOfNothing DEF SumFunction
<1> DEFINE x == Committed(t) + quota[t].tokens
           y == StoredBytes(t)' + 0
<1>6. x \in Nat /\ y \in Nat /\ y <= x /\ clock + rewound[t] \in Nat
  BY <1>1, <1>2, <1>3 DEF Committed
<1>7. Fits(x, boots, clock + rewound[t])
  <2>1. CASE Tapped(t)
    <3>1. Fits(x, boots, quota[t].last + rewound[t]) /\ quota[t].last <= clock
      BY <2>1 DEF Tapped, Spare
    <3>2. /\ quota[t].last + rewound[t] \in Nat /\ clock + rewound[t] \in Nat
          /\ quota[t].last + rewound[t] <= clock + rewound[t] /\ x <= x /\ x \in Nat
      BY <1>1, <1>6, <3>1
    <3> HIDE DEF x
    <3>3. QED  BY <1>1, <3>1, <3>2, FitsLater
  <2>2. CASE Untapped(t)
    BY <2>2 DEF Untapped, Spare
  <2>3. QED  BY <2>1, <2>2 DEF Budget
<1>8. Fits(y + StoreBurst, boots + 1, clock + rewound[t])
  <2> HIDE DEF x, y
  <2>1. QED  BY <1>1, <1>6, <1>7, FitsReborn
<1>9. Committed(t)' + quota'[t].tokens = y + StoreBurst
  BY <1>1, <1>5 DEF Committed, TB!Full
<1> HIDE DEF y
<1>10. Spare(t, clock)'
  BY <1>1, <1>8, <1>9 DEF Spare
<1>11. Untapped(t)'
  BY <1>1, <1>4, <1>10 DEF Untapped
<1>12. QED  BY <1>4, <1>11, FS_EmptySet DEF Budget

(***************************************************************************)
(* No reading is from the future.                                          *)
(***************************************************************************)
LEMMA ReadingsStay == ASSUME TypeOK, ReadInTime, [Next]_vars PROVE ReadInTime'
<1>0. clock \in Nat /\ \A s \in Req : read[s].now \in Nat
  BY DEF TypeOK
<1>1. ASSUME NEW r \in Req, StepOf(r) PROVE ReadInTime'
  <2>1. clock' = clock
    BY <1>1 DEF StepOf, Step, Serve, Check, Embed, Search, Decide, Stamp, Promote, UpstreamFails,
                UpstreamRefuses, UpstreamAnswers, Keep, Charge, Spend, Add, process
  <2>2. ASSUME NEW s \in Req, s # r, pc'[s] = "spend" PROVE read'[s].now <= clock
    BY <1>1, <2>2, OthersUntouched DEF Untouched, ReadInTime
  <2>3. ASSUME pc'[r] = "spend" PROVE read'[r].now <= clock
    <3>1. ASSUME NEW l, Goto(r, l), l # "spend" PROVE FALSE
      BY <2>3, <3>1 DEF Goto, TypeOK
    <3>2. ASSUME NEW u, NEW b, Return(r, u, b) PROVE FALSE
      BY <2>3, <3>2 DEF Return, TypeOK
    <3>3. CASE Charge(r)
      <4>1. read' = [read EXCEPT ![r].now = clock]
        BY <3>1, <3>3 DEF Charge
      <4>2. QED  BY <1>0, <4>1 DEF TypeOK
    <3>4. CASE Check(r) \/ Embed(r) \/ Search(r) \/ Decide(r) \/ Stamp(r) \/ Promote(r)
      BY <3>1, <3>2, <3>4 DEF Check, Embed, Search, Decide, Stamp, Promote
    <3>5. CASE \/ UpstreamFails(r) \/ UpstreamRefuses(r) \/ UpstreamAnswers(r)
               \/ Keep(r) \/ Spend(r) \/ Add(r)
      BY <3>1, <3>2, <3>5 DEF UpstreamFails, UpstreamRefuses, UpstreamAnswers, Keep, Spend, Add
    <3>6. CASE \E q \in Query : Serve(r, q)
      BY <3>1, <3>6 DEF Serve
    <3>7. QED  BY <1>1, <3>3, <3>4, <3>5, <3>6 DEF StepOf, Step
  <2>4. QED  BY <2>1, <2>2, <2>3 DEF ReadInTime
<1>2. CASE Tick
  <2>1. /\ pc' = pc /\ read' = read /\ clock' = clock + 1
        /\ \A s \in Req : pc[s] = "spend" => read[s].now <= clock
    BY <1>2 DEF Tick, ReadInTime
  <2>2. QED  BY <1>0, <2>1 DEF ReadInTime
<1>3. CASE Restart
  BY <1>3 DEF Restart, InFlight, ReadInTime
<1>4. CASE UNCHANGED vars
  BY <1>4 DEF vars, ReadInTime
<1>5. QED  BY <1>1, <1>2, <1>3, <1>4 DEF Next, Finished, StepOf

(***************************************************************************)
(* The anti-flooding quota holds: however the requests of a tenant         *)
(* interleave, its bytes in L2 keep within a burst for each process and    *)
(* the refill, of the time that passed and the time counted twice.         *)
(***************************************************************************)
THEOREM QuotasHold == Spec => []QuotaHolds
<1>1. Init => InBudget
  <2> SUFFICES ASSUME Init, StoreRate > 0 PROVE ReadInTime /\ \A t \in Tenants : Budget(t)
    BY DEF InBudget
  <2>1. ReadInTime
    BY DEF Init, ReadInTime
  <2>2. ASSUME NEW t \in Tenants PROVE Budget(t)
    <3>1. Pending(t) = {} /\ StoredBy(t) = {}
      BY DEF Init, Pending, StoredBy
    <3>2. PendingBytes(t) = 0
      BY <3>1, SumOfNothing DEF PendingBytes, SumFunction
    <3>3. StoredBytes(t) = 0
      BY <3>1, SumOfNothing DEF StoredBytes, SumFunction
    <3>4. /\ quota[t].tokens = StoreBurst /\ quota[t].last = 0 /\ rewound[t] = 0
          /\ clock = 0 /\ boots = 0 /\ StoreBurst \in Nat /\ StoreRate \in Nat
      BY EngineAssumption DEF Init, Tenants, TB!Full
    <3>5. Fits(0 + 0 + StoreBurst, 0, 0 + 0)
      BY <3>4 DEF Fits
    <3>6. Tapped(t)
      BY <3>2, <3>3, <3>4, <3>5 DEF Tapped, Spare, Committed
    <3>7. QED  BY <3>1, <3>6, FS_EmptySet DEF Budget
  <2>3. QED  BY <2>1, <2>2
<1>2. TypeOK /\ Provenance /\ InBudget /\ [Next]_vars => InBudget'
  <2> SUFFICES ASSUME TypeOK, Provenance, InBudget, [Next]_vars, StoreRate > 0
               PROVE  ReadInTime' /\ \A t \in Tenants : Budget(t)'
    BY DEF InBudget
  <2>1. ReadInTime /\ \A t \in Tenants : Budget(t)
    BY DEF InBudget
  <2>2. ReadInTime'
    BY <2>1, ReadingsStay
  <2>3. ASSUME NEW t \in Tenants PROVE Budget(t)'
    <3>1. Budget(t) /\ clock \in Nat /\ IsFiniteSet(Pending(t))
      BY <2>1 DEF TypeOK, Budget
    <3>2. CASE Tick \/ UNCHANGED vars
      <4>1. /\ UNCHANGED <<pc, query, read, reply, l2, quota, rewound, boots>>
            /\ clock' \in Nat /\ clock <= clock'
        BY <3>1, <3>2 DEF Tick, vars, shared, quotas
      <4>2. Unmoved(t)
        BY <3>1, <4>1, NothingMoves DEF Stays
      <4>3. QED  BY <3>1, <4>1, <4>2, BudgetKept
    <3>3. QED  BY <2>1, <3>1, <3>2, BudgetStep, BudgetRestart DEF Next, Finished, StepOf
  <2>4. QED  BY <2>2, <2>3
<1>3. TypeOK /\ Provenance /\ InBudget => QuotaHolds
  <2> SUFFICES ASSUME TypeOK, Provenance, InBudget, StoreRate > 0, NEW t \in DOMAIN quota
               PROVE  StoredBytes(t) <= (boots + 1) * StoreBurst + StoreRate * (clock + rewound[t])
    BY DEF QuotaHolds
  <2>1. /\ t \in Tenants /\ Budget(t) /\ quota[t].tokens \in Nat /\ quota[t].last \in Nat
        /\ clock \in Nat /\ boots \in Nat /\ rewound[t] \in Nat
    BY DEF TypeOK, Tenants, InBudget, TB!Bucket
  <2>2. StoredBytes(t) \in Nat /\ PendingBytes(t) \in Nat
    BY <2>1, CommittedType DEF Budget
  <2> DEFINE x == Committed(t) + quota[t].tokens
  <2>3. x \in Nat /\ StoredBytes(t) <= x /\ clock + rewound[t] \in Nat
    BY <2>1, <2>2 DEF Committed
  <2>4. PICK a \in Nat : a <= clock /\ Fits(x, boots, a + rewound[t])
    BY <2>1 DEF Budget, Tapped, Untapped, Spare
  <2>5. a + rewound[t] \in Nat /\ a + rewound[t] <= clock + rewound[t]
    BY <2>1, <2>4
  <2> HIDE DEF x
  <2>6. Fits(StoredBytes(t), boots, clock + rewound[t])
    BY <2>1, <2>2, <2>3, <2>4, <2>5, FitsLater
  <2>7. QED  BY <2>6 DEF Fits
<1>4. QED  BY <1>1, <1>2, <1>3, TypeCorrect, EveryBodyHasAMaker, PTL DEF Spec

-----------------------------------------------------------------------------
(***************************************************************************)
(* What L1 remembers when it has room.  List and map hold the same keys of *)
(* queries: without that the list could overflow although the map is small.*)
(***************************************************************************)
Listed(l, m) == l \in Seq(Keys) /\ DOMAIN m \subseteq Keys /\ Agree(l, m)

(***************************************************************************)
(* With room for every key L1 evicts nothing.                              *)
(***************************************************************************)
LEMMA NothingEvicted ==
  ASSUME Listed(ll, items), L1HasRoom, NEW k \in Keys, k \notin DOMAIN items
  PROVE  ~L1!Overflows
<1>1. Len(ll) \in Nat /\ Cardinality(DOMAIN items) = Len(ll)
  BY AsManyKeys, LenProperties DEF Listed
<1>2. CASE IsFiniteSet(Keys) /\ Cardinality(Keys) <= L1Capacity
  <2>1. DOMAIN items \cup {k} \subseteq Keys /\ IsFiniteSet(DOMAIN items)
    BY <1>2, FS_Subset DEF Listed
  <2>2. Cardinality(DOMAIN items \cup {k}) = Cardinality(DOMAIN items) + 1
    BY <2>1, FS_AddElement
  <2>3. Cardinality(DOMAIN items \cup {k}) <= Cardinality(Keys) /\ Cardinality(Keys) \in Nat
    BY <1>2, <2>1, FS_Subset, FS_CardinalityType
  <2>4. QED  BY <1>1, <1>2, <2>2, <2>3, EngineAssumption DEF L1!Overflows
<1>3. CASE L1Capacity <= 0
  BY <1>3, EngineAssumption DEF L1!Overflows
<1>4. QED  BY <1>2, <1>3 DEF L1HasRoom

(***************************************************************************)
(* A use of a key moves its element and changes no key.                    *)
(***************************************************************************)
LEMMA UseListed ==
  ASSUME Listed(ll, items), NEW k, L1!Holds(k)
  PROVE  Listed(L1!MovedToFront(L1!PosOf(k)), items)
<1> DEFINE i == L1!PosOf(k)
<1>1. \E j \in 1..Len(ll) : ll[j] = k
  BY DEF Listed, Agree, L1!Holds
<1>2. i \in 1..Len(ll)
  BY <1>1 DEF L1!PosOf
<1> HIDE DEF i
<1>3. L1!MovedToFront(i) = Cons(ll[i], RemoveAt(ll, i))
  BY DEF L1!MovedToFront, L1!Cons, L1!RemoveAt, Cons, RemoveAt
<1>4. L1!MovedToFront(i) \in Seq(Keys) /\ Agree(L1!MovedToFront(i), items)
  BY <1>2, <1>3, MovedAgrees DEF Listed
<1>5. QED  BY <1>4 DEF Listed, i

(***************************************************************************)
(* So does a lookup.                                                       *)
(***************************************************************************)
LEMMA GetListed ==
  ASSUME Listed(ll, items), NEW k, L1!Get(k) PROVE Listed(ll', items')
<1>1. CASE L1!Holds(k) /\ ll' = L1!MovedToFront(L1!PosOf(k)) /\ UNCHANGED items
  BY <1>1, UseListed
<1>2. CASE UNCHANGED <<ll, items>>
  BY <1>2
<1>3. QED  BY <1>1, <1>2 DEF L1!Get, L1!vars

(***************************************************************************)
(* With room a put keeps what L1 held, and what it puts is there.          *)
(***************************************************************************)
LEMMA PutListed ==
  ASSUME Listed(ll, items), L1HasRoom, NEW k \in Keys, NEW v, L1!Put(k, v)
  PROVE  /\ Listed(ll', items')
         /\ DOMAIN items' = DOMAIN items \cup {k} /\ items'[k] = v
         /\ \A x \in DOMAIN items \ {k} : items'[x] = items[x]
<1>1. CASE L1!PutUpdate(k, v)
  <2>1. L1!Holds(k) /\ ll' = L1!MovedToFront(L1!PosOf(k)) /\ items' = [items EXCEPT ![k] = v]
    BY <1>1 DEF L1!PutUpdate
  <2>2. Listed(ll', items)
    BY <2>1, UseListed
  <2>3. Listed(ll', items')
    BY <2>1, <2>2 DEF Listed, Agree
  <2>4. QED  BY <2>1, <2>3 DEF L1!Holds
<1>2. CASE L1!PutInsert(k, v)
  <2>1. k \notin DOMAIN items
    BY <1>2 DEF L1!PutInsert, L1!Holds
  <2>2. /\ ll' = Cons(k, ll)
        /\ items' = [x \in DOMAIN items \cup {k} |-> IF x = k THEN v ELSE items[x]]
    BY <1>2, <2>1, NothingEvicted DEF L1!PutInsert, L1!Cons, Cons
  <2>3. DOMAIN items' = DOMAIN items \cup {k}
    BY <2>2
  <2>4. ll' \in Seq(Keys) /\ Agree(ll', items')
    <3> DEFINE f == items  g == items'  s == ll  p == ll'
    <3>1. /\ s \in Seq(Keys) /\ Agree(s, f) /\ k \notin DOMAIN f
          /\ DOMAIN g = DOMAIN f \cup {k} /\ p = Cons(k, s)
      BY <2>1, <2>2, <2>3 DEF Listed
    <3> HIDE DEF f, g, s, p
    <3>2. p \in Seq(Keys) /\ Agree(p, g)
      BY ONLY <3>1, k \in Keys, PushedAgrees
    <3>3. QED  BY <3>2 DEF p, g
  <2>5. QED  BY <2>1, <2>2, <2>3, <2>4 DEF Listed
<1>3. QED  BY <1>1, <1>2 DEF L1!Put

-----------------------------------------------------------------------------
\* A request that filled its key has a record there, and every record there,
\* or in a request's hand, carries the stamp of a request that filled its key.
Filler(a) == Missed(a) \/ Promoter(a)

Backed(k, x) == \E a \in Req : Filled(a, k) /\ x.createdAt = StampOf(a)

Recalled(a) ==
  /\ ans[a].boot <= boots
  /\ Filler(a) => KeyOf(query[a]) \in DOMAIN items
  /\ pc[a] = "check" => Backed(KeyOf(query[a]), rec[a])

AllBacked == \A k \in DOMAIN items : Backed(k, items[k])

Recall == Listed(ll, items) /\ AllBacked /\ \A a \in Req : Recalled(a)

\* The inductive invariant under RepeatsHitL1.
Memory == L1HasRoom => Recall

\* The same of the next state.
FillerNext(a) ==
  \/ pc'[a] \in {"charge", "spend", "add"}
  \/ ans'[a].tier = "MISS" /\ reply'[a].status = "ok" /\ ans'[a].boot = boots'
  \/ ans'[a].tier = "L2" /\ ans'[a].boot = boots'

FilledNext(a, k) == FillerNext(a) /\ KeyOf(query'[a]) = k

StampNext(a) == IF ans'[a].tier = "L2" /\ ans'[a].boot = boots' THEN read'[a].now ELSE reply'[a].at

BackedNext(k, x) == \E a \in Req : FilledNext(a, k) /\ x.createdAt = StampNext(a)

RecalledNext(a) ==
  /\ ans'[a].boot <= boots'
  /\ FillerNext(a) => KeyOf(query'[a]) \in DOMAIN items'
  /\ pc'[a] = "check" => BackedNext(KeyOf(query'[a]), rec'[a])

RecallNext ==
  /\ Listed(ll', items')
  /\ \A k \in DOMAIN items' : BackedNext(k, items'[k])
  /\ \A a \in Req : RecalledNext(a)

LEMMA RecallIsNext == ASSUME RecallNext PROVE Recall'
  BY DEF RecallNext, RecalledNext, BackedNext, FilledNext, FillerNext, StampNext, Recall, AllBacked,
         Recalled, Backed, Filled, Filler, Missed, Promoter, StampOf, Listed

(***************************************************************************)
(* The one who steps has had no answer, and no step restarts the process.  *)
(***************************************************************************)
LEMMA StepperUnserved ==
  ASSUME TypeOK, Provenance, NEW r \in Req, StepOf(r)
  PROVE  ans[r].tier = "none" /\ pc[r] \in Unheard \cup Heard /\ boots' = boots
<1>1. pc[r] \in Unheard \cup Heard
  BY DEF StepOf, Step, Serve, Check, Embed, Search, Decide, Stamp, Promote, UpstreamFails,
         UpstreamRefuses, UpstreamAnswers, Keep, Charge, Spend, Add, Unheard, Heard
<1>2. boots' = boots
  BY DEF StepOf, Step, Serve, Check, Embed, Search, Decide, Stamp, Promote, UpstreamFails,
         UpstreamRefuses, UpstreamAnswers, Keep, Charge, Spend, Add, process
<1>3. QED  BY <1>1, <1>2 DEF Provenance, RequestSound

(***************************************************************************)
(* Who has filled a key has done so for the life of the process, with one  *)
(* stamp.                                                                  *)
(***************************************************************************)
LEMMA FilledStays ==
  ASSUME TypeOK, Provenance, NEW r \in Req, StepOf(r), NEW a \in Req, NEW k, Filled(a, k)
  PROVE  FilledNext(a, k) /\ StampNext(a) = StampOf(a)
<1>1. CASE a # r
  <2>1. Untouched(a) /\ boots' = boots
    BY <1>1, OthersUntouched, StepperUnserved
  <2>2. QED  BY <2>1 DEF Untouched, Filled, Missed, Promoter, StampOf, FilledNext, FillerNext, StampNext
<1>2. CASE a = r
  <2>1. ans[r].tier = "none" /\ boots' = boots /\ pc[r] \in {"charge", "spend", "add"}
    BY <1>2, StepperUnserved DEF Filled, Missed, Promoter
  <2>2. reply[r].status = "ok"
    BY <2>1 DEF Heard, Provenance, RequestSound, Made
  <2>3. Charge(r) \/ Spend(r) \/ Add(r)
    BY <2>1 DEF StepOf, Step, Serve, Check, Embed, Search, Decide, Stamp, Promote, UpstreamFails,
                UpstreamRefuses, UpstreamAnswers, Keep
  <2>4. query' = query /\ reply' = reply
    BY <2>3 DEF Charge, Spend, Add
  <2>5. Goto(r, "spend") \/ Goto(r, "add") \/ Return(r, "MISS", Body(r))
    BY <2>3 DEF Charge, Spend, Add
  <2>6. /\ pc'[r] \in {"spend", "add"} \/ (ans'[r].tier = "MISS" /\ ans'[r].boot = boots)
        /\ ans'[r].tier # "L2"
    BY <2>1, <2>5 DEF Goto, Return, TypeOK
  <2>7. KeyOf(query[r]) = k /\ StampOf(r) = reply[r].at
    BY <1>2, <2>1 DEF Filled, StampOf, Promoter
  <2>8. FilledNext(r, k)
    BY <2>1, <2>2, <2>4, <2>6, <2>7 DEF FilledNext, FillerNext
  <2>9. StampNext(r) = reply[r].at
    BY <2>4, <2>6 DEF StampNext
  <2>10. QED  BY <1>2, <2>7, <2>8, <2>9
<1>3. QED  BY <1>1, <1>2

LEMMA BackedStays ==
  ASSUME TypeOK, Provenance, NEW r \in Req, StepOf(r), NEW k, NEW x, Backed(k, x)
  PROVE  BackedNext(k, x)
  BY FilledStays DEF Backed, BackedNext

(***************************************************************************)
(* A request that takes no step stays recalled while L1 loses no key.      *)
(***************************************************************************)
LEMMA RecalledKept ==
  ASSUME TypeOK, Provenance, NEW r \in Req, StepOf(r), NEW a \in Req, a # r, Recalled(a),
         DOMAIN items \subseteq DOMAIN items'
  PROVE  RecalledNext(a)
<1>1. Untouched(a) /\ boots' = boots
  BY OthersUntouched, StepperUnserved
<1>2. ans'[a].boot <= boots'
  BY <1>1 DEF Untouched, Recalled
<1>3. ASSUME FillerNext(a) PROVE KeyOf(query'[a]) \in DOMAIN items'
  <2>1. Filler(a) /\ query'[a] = query[a]
    BY <1>1, <1>3 DEF Untouched, FillerNext, Filler, Missed, Promoter
  <2>2. QED  BY <2>1 DEF Recalled
<1>4. ASSUME pc'[a] = "check" PROVE BackedNext(KeyOf(query'[a]), rec'[a])
  <2>1. Backed(KeyOf(query[a]), rec[a]) /\ query'[a] = query[a] /\ rec'[a] = rec[a]
    BY <1>1, <1>4 DEF Untouched, Recalled
  <2>2. BackedNext(KeyOf(query[a]), rec[a])
    BY <2>1, BackedStays
  <2>3. QED  BY <2>1, <2>2
<1>5. QED  BY <1>2, <1>3, <1>4 DEF RecalledNext

(***************************************************************************)
(* A step that puts nothing into L1, of a request that does not come to    *)
(* have filled its key by it.                                              *)
(***************************************************************************)
LEMMA RecallUnput ==
  ASSUME TypeOK, Provenance, Recall, NEW r \in Req, StepOf(r), items' = items, Listed(ll', items'),
         ans'[r] = ans[r] \/ ans'[r].boot = boots,
         FillerNext(r) => Filler(r) /\ query'[r] = query[r],
         pc'[r] = "check" => BackedNext(KeyOf(query'[r]), rec'[r])
  PROVE  RecallNext
<1>1. ASSUME NEW a \in Req, a # r PROVE RecalledNext(a)
  BY <1>1, RecalledKept DEF Recall
<1>2. RecalledNext(r)
  <2>1. Recalled(r) /\ boots' = boots /\ boots \in Nat
    BY StepperUnserved DEF Recall, TypeOK
  <2>2. ans'[r].boot <= boots'
    BY <2>1 DEF Recalled
  <2>3. QED  BY <2>1, <2>2 DEF Recalled, RecalledNext
<1>3. ASSUME NEW k \in DOMAIN items' PROVE BackedNext(k, items'[k])
  BY <1>3, BackedStays DEF Recall, AllBacked
<1>4. QED  BY <1>1, <1>2, <1>3 DEF RecallNext

(***************************************************************************)
(* A put under the key it fills.                                           *)
(***************************************************************************)
LEMMA RecallPut ==
  ASSUME TypeOK, Provenance, Recall, L1HasRoom, NEW r \in Req, StepOf(r), NEW k \in Keys, NEW v,
         L1!Put(k, v), FilledNext(r, k), v.createdAt = StampNext(r),
         ans'[r] = ans[r] \/ ans'[r].boot = boots, pc'[r] # "check"
  PROVE  RecallNext
<1>1. /\ Listed(ll', items')
      /\ DOMAIN items' = DOMAIN items \cup {k} /\ items'[k] = v
      /\ \A x \in DOMAIN items \ {k} : items'[x] = items[x]
  BY PutListed DEF Recall
<1>2. ASSUME NEW a \in Req, a # r PROVE RecalledNext(a)
  BY <1>1, <1>2, RecalledKept DEF Recall
<1>3. RecalledNext(r)
  <2>1. Recalled(r) /\ boots' = boots /\ boots \in Nat
    BY StepperUnserved DEF Recall, TypeOK
  <2>2. ans'[r].boot <= boots'
    BY <2>1 DEF Recalled
  <2>3. QED  BY <1>1, <2>2 DEF RecalledNext, FilledNext
<1>4. ASSUME NEW x \in DOMAIN items' PROVE BackedNext(x, items'[x])
  <2>1. CASE x = k
    BY <1>1, <2>1 DEF BackedNext
  <2>2. CASE x # k
    <3>1. x \in DOMAIN items /\ items'[x] = items[x] /\ Backed(x, items[x])
      BY <1>1, <1>4, <2>2 DEF Recall, AllBacked
    <3>2. QED  BY <3>1, BackedStays
  <2>3. QED  BY <2>1, <2>2
<1>5. QED  BY <1>1, <1>2, <1>3, <1>4 DEF RecallNext

(***************************************************************************)
(* Every step of a request.                                                *)
(***************************************************************************)
LEMMA RecallStep ==
  ASSUME TypeOK, Provenance, Recall, L1HasRoom, NEW r \in Req, StepOf(r)
  PROVE  RecallNext
<1>0. /\ ans[r].tier = "none" /\ boots' = boots /\ Listed(ll, items)
      /\ pc \in [Req -> Labels] /\ ans \in [Req -> Results]
  BY StepperUnserved DEF Recall, TypeOK, Results, Tiers
<1>1. ASSUME NEW l, Goto(r, l) PROVE pc'[r] = l /\ ans'[r] = ans[r]
  BY <1>0, <1>1 DEF Goto
<1>2. ASSUME NEW t, NEW b, Return(r, t, b)
      PROVE  pc'[r] = "done" /\ ans'[r].tier = t /\ ans'[r].boot = boots
  BY <1>0, <1>2 DEF Return
<1>3. ASSUME NEW q \in Query, Serve(r, q) PROVE RecallNext
  <2>1. items' = items /\ Listed(ll', items')
    BY <1>0, <1>3, GetListed, GetFacts DEF Serve
  <2>2. CASE L1!Holds(KeyOf(q))
    <3>1. Goto(r, "check") /\ query'[r] = q /\ rec'[r] = items[KeyOf(q)] /\ KeyOf(q) \in DOMAIN items
      BY <1>3, <2>2 DEF Serve, TypeOK, L1!Holds
    <3>2. pc'[r] = "check" /\ ans'[r] = ans[r]
      BY <1>1, <3>1
    <3>3. BackedNext(KeyOf(q), items[KeyOf(q)])
      BY <3>1, BackedStays DEF Recall, AllBacked
    <3>4. ~FillerNext(r)
      BY <1>0, <3>2 DEF FillerNext
    <3>5. QED  BY <2>1, <3>1, <3>2, <3>3, <3>4, RecallUnput
  <2>3. CASE ~L1!Holds(KeyOf(q))
    <3>1. pc'[r] = "embed" /\ ans'[r] = ans[r]
      BY <1>1, <1>3, <2>3 DEF Serve
    <3>2. ~FillerNext(r)
      BY <1>0, <3>1 DEF FillerNext
    <3>3. QED  BY <2>1, <3>1, <3>2, RecallUnput
  <2>4. QED  BY <2>2, <2>3
<1>4. CASE Check(r) \/ Embed(r) \/ Search(r) \/ Decide(r) \/ Stamp(r)
  <2>1. UNCHANGED <<ll, items>>
    BY <1>4 DEF Check, Embed, Search, Decide, Stamp, shared, l1vars
  <2>2. \/ \E l \in {"embed", "search", "decide", "stamp", "promote", "upstream"} : Goto(r, l)
        \/ Return(r, "L1", rec[r].body)
    BY <1>4 DEF Check, Embed, Search, Decide, Stamp
  <2>3. /\ pc'[r] \in {"embed", "search", "decide", "stamp", "promote", "upstream", "done"}
        /\ ans'[r] = ans[r] \/ (ans'[r].tier = "L1" /\ ans'[r].boot = boots)
    BY <1>1, <1>2, <2>2
  <2>4. ~FillerNext(r)
    BY <1>0, <2>3 DEF FillerNext
  <2>5. QED  BY <1>0, <2>1, <2>3, <2>4, RecallUnput
<1>5. CASE UpstreamFails(r) \/ UpstreamRefuses(r) \/ UpstreamAnswers(r)
  <2>1. UNCHANGED <<ll, items>>
    BY <1>5 DEF UpstreamFails, UpstreamRefuses, UpstreamAnswers, shared, l1vars
  <2>2. /\ pc'[r] \in {"keep", "done"}
        /\ \/ ans'[r] = ans[r]
           \/ ans'[r].boot = boots /\ ans'[r].tier \in {"MISS", "ERR"} /\ reply'[r].status # "ok"
    BY <1>1, <1>2, <1>5 DEF UpstreamFails, UpstreamRefuses, UpstreamAnswers, TypeOK
  <2>3. ~FillerNext(r)
    BY <1>0, <2>2 DEF FillerNext
  <2>4. QED  BY <1>0, <2>1, <2>2, <2>3, RecallUnput
<1>6. CASE Charge(r) \/ Spend(r) \/ Add(r)
  <2>1. UNCHANGED <<ll, items>> /\ query' = query
    BY <1>6 DEF Charge, Spend, Add, shared, l1vars
  <2>2. Goto(r, "spend") \/ Goto(r, "add") \/ Return(r, "MISS", Body(r))
    BY <1>6 DEF Charge, Spend, Add
  <2>3. pc'[r] # "check" /\ (ans'[r] = ans[r] \/ ans'[r].boot = boots)
    BY <1>1, <1>2, <2>2
  <2>4. Filler(r)
    BY <1>6 DEF Charge, Spend, Add, Filler, Missed
  <2>5. QED  BY <1>0, <2>1, <2>3, <2>4, RecallUnput
<1>7. CASE Promote(r)
  <2>1. /\ L1!Put(KeyOf(query[r]), Promoted(r)) /\ Return(r, "L2", Plaintext(cand[r].response))
        /\ query' = query /\ read' = read /\ query[r] \in Query
    BY <1>7 DEF Promote, TypeOK
  <2>2. pc'[r] = "done" /\ ans'[r].tier = "L2" /\ ans'[r].boot = boots
    BY <1>2, <2>1
  <2>3. Promoted(r).createdAt = StampNext(r)
    BY <1>0, <2>1, <2>2 DEF Promoted, StampNext
  <2>4. FilledNext(r, KeyOf(query[r])) /\ KeyOf(query[r]) \in Keys
    BY <1>0, <2>1, <2>2 DEF FilledNext, FillerNext, Keys
  <2>5. QED  BY <2>1, <2>2, <2>3, <2>4, RecallPut
<1>8. CASE Keep(r)
  <2>1. /\ L1!Put(KeyOf(query[r]), Answered(r)) /\ query' = query /\ reply' = reply
        /\ query[r] \in Query /\ reply[r].status = "ok"
        /\ Goto(r, "charge") \/ Return(r, "MISS", Body(r))
    BY <1>8 DEF Keep, TypeOK, Provenance, RequestSound, Heard, Made
  <2>2. \/ pc'[r] = "charge" /\ ans'[r] = ans[r]
        \/ pc'[r] = "done" /\ ans'[r].tier = "MISS" /\ ans'[r].boot = boots
    BY <1>1, <1>2, <2>1
  <2>3. Answered(r).createdAt = StampNext(r)
    BY <1>0, <2>1, <2>2 DEF Answered, StampNext
  <2>4. FilledNext(r, KeyOf(query[r])) /\ KeyOf(query[r]) \in Keys
    BY <1>0, <2>1, <2>2 DEF FilledNext, FillerNext, Keys
  <2>5. QED  BY <2>1, <2>2, <2>3, <2>4, RecallPut
<1>9. QED  BY <1>3, <1>4, <1>5, <1>6, <1>7, <1>8 DEF StepOf, Step

(***************************************************************************)
(* A restart forgets L1, whoever filled it and every record in hand.       *)
(***************************************************************************)
LEMMA MemoryNext == TypeOK /\ Provenance /\ Memory /\ [Next]_vars => Memory'
<1> SUFFICES ASSUME TypeOK, Provenance, Recall, L1HasRoom, [Next]_vars PROVE Recall'
  BY DEF Memory, L1HasRoom
<1>1. ASSUME NEW r \in Req, StepOf(r) PROVE Recall'
  BY <1>1, RecallStep, RecallIsNext
<1>2. CASE Tick \/ UNCHANGED vars
  <2>1. UNCHANGED <<pc, query, rec, read, reply, ans, ll, items, boots>>
    BY <1>2 DEF Tick, vars, shared, l1vars
  <2>2. QED  BY <2>1 DEF Recall, AllBacked, Recalled, Backed, Filled, Filler, Missed, Promoter, StampOf
<1>3. CASE Restart
  <2>1. /\ ll' = <<>> /\ items' = [k \in {} |-> k] /\ boots' = boots + 1 /\ boots \in Nat
        /\ UNCHANGED <<query, rec, read, reply, ans>>
    BY <1>3 DEF Restart, TypeOK
  <2>2. Listed(ll', items') /\ DOMAIN items' = {}
    BY <2>1 DEF Listed, Agree
  <2>3. ASSUME NEW a \in Req PROVE RecalledNext(a)
    <3>1. ans[a].boot \in Nat /\ ans[a].boot <= boots
      BY DEF TypeOK, Recall, Recalled
    <3>2. pc'[a] \notin {"check", "charge", "spend", "add"}
      BY <1>3 DEF Restart, InFlight
    <3>3. ans'[a].boot <= boots' /\ ans'[a].boot # boots'
      BY <2>1, <3>1
    <3>4. QED  BY <3>2, <3>3 DEF RecalledNext, FillerNext
  <2>4. RecallNext
    BY <2>2, <2>3 DEF RecallNext
  <2>5. QED  BY <2>4, RecallIsNext
<1>4. QED  BY <1>1, <1>2, <1>3 DEF Next, Finished, StepOf

(***************************************************************************)
(* Where a request finds a record, and the clock reading that serves it.   *)
(***************************************************************************)
LEMMA RepeatFound ==
  ASSUME TypeOK, Recall, NEW r \in Req, NEW q \in Query, Serve(r, q),
         NEW a \in Req, Filled(a, KeyOf(q))
  PROVE  pc'[r] = "check"
<1>1. L1!Holds(KeyOf(q))
  BY DEF Recall, Recalled, Filled, Filler, L1!Holds
<1>2. QED  BY <1>1 DEF Serve, Goto, TypeOK

LEMMA RepeatServed ==
  ASSUME TypeOK, Recall, NEW r \in Req, Check(r),
         \A a \in Req : Filled(a, KeyOf(query[r])) => TTL = 0 \/ clock - StampOf(a) <= TTL
  PROVE  ans'[r].tier = "L1"
<1>1. pc[r] = "check" /\ rec[r] \in Records /\ Backed(KeyOf(query[r]), rec[r])
  BY DEF Check, TypeOK, Recall, Recalled
<1>2. TTL = 0 \/ clock - rec[r].createdAt <= TTL
  BY <1>1 DEF Backed
<1>3. rec[r].createdAt \in Nat /\ clock \in Nat /\ TTL \in Nat
  BY <1>1, EngineAssumption DEF TypeOK, Records
<1>4. L1Hit(r)
  BY <1>2, <1>3 DEF L1Hit, Expired
<1>5. QED  BY <1>4 DEF Check, Return, TypeOK

(***************************************************************************)
(* Identical repeats are free while L1 has room: for any number of         *)
(* requests, any capacity and any lifetime, a key somebody filled in this  *)
(* process is found, and its record served if all its stamps are fresh.    *)
(***************************************************************************)
THEOREM RepeatsAreFree == Spec => RepeatsHitL1
<1>1. Init => Memory
  <2> SUFFICES ASSUME Init PROVE Recall
    BY DEF Memory
  <2>1. Listed(ll, items) /\ DOMAIN items = {}
    BY DEF Init, L1!Init, Listed, Agree
  <2>2. QED  BY <2>1 DEF Init, NotAnswered, Recall, AllBacked, Recalled, Filler, Missed, Promoter
<1>2. ASSUME TypeOK, Recall, L1HasRoom, Next, NEW r \in Req PROVE FindsRepeat(r)
  <2> SUFFICES ASSUME pc[r] = "new", pc'[r] # "new", NEW a \in Req, Filled(a, KeyOf(query'[r]))
               PROVE  pc'[r] = "check"
    BY DEF FindsRepeat
  <2>1. PICK s \in Req : StepOf(s)
    BY <1>2 DEF Next, Tick, Restart, InFlight, Finished, vars, StepOf
  <2>2. s = r
    BY <1>2, <2>1, OthersUntouched DEF Untouched
  <2>3. PICK q \in Query : Serve(r, q)
    BY <2>1, <2>2 DEF StepOf, Step, Check, Embed, Search, Decide, Stamp, Promote, UpstreamFails,
                      UpstreamRefuses, UpstreamAnswers, Keep, Charge, Spend, Add
  <2>4. query'[r] = q
    BY <1>2, <2>3 DEF Serve, TypeOK
  <2>5. Filled(a, KeyOf(q))
    BY <2>4 DEF Filled
  <2>6. QED  BY <1>2, <2>3, <2>5, RepeatFound
<1>3. ASSUME TypeOK, Recall, L1HasRoom, Next, NEW r \in Req PROVE ServesRepeat(r)
  <2> SUFFICES ASSUME pc[r] = "check", pc'[r] \notin {"check", "lost"},
                      \A a \in Req : Filled(a, KeyOf(query[r])) => TTL = 0 \/ clock - StampOf(a) <= TTL
               PROVE  ans'[r].tier = "L1"
    BY DEF ServesRepeat
  <2>1. PICK s \in Req : StepOf(s)
    BY <1>3 DEF Next, Tick, Restart, InFlight, Finished, vars, StepOf
  <2>2. s = r
    BY <1>3, <2>1, OthersUntouched DEF Untouched
  <2>3. Check(r)
    BY <2>1, <2>2 DEF StepOf, Step, Serve, Embed, Search, Decide, Stamp, Promote, UpstreamFails,
                      UpstreamRefuses, UpstreamAnswers, Keep, Charge, Spend, Add
  <2>4. QED  BY <1>3, <2>3, RepeatServed
<1>4. TypeOK /\ Memory /\ [Next]_vars =>
        [L1HasRoom => \A r \in Req : FindsRepeat(r) /\ ServesRepeat(r)]_vars
  BY <1>2, <1>3 DEF Memory
<1>5. QED  BY <1>1, <1>4, MemoryNext, TypeCorrect, EveryBodyHasAMaker, PTL DEF Spec, RepeatsHitL1

-----------------------------------------------------------------------------
\* What the engine asks of the index: entries of one model and one scope, by
\* their texts' similarity; a query that gets here has a vector.
InScope(q, ent)  == ent.model = q.model /\ ent.scope = q.scope
Likeness(q, ent) == Cosine(q.embed, ent.embed)
Undirected(q)    == FALSE

Index == INSTANCE NearestIndex WITH
  Call <- Req, Jobs <- Query, Matches <- InScope, Sim <- Likeness, NoVector <- Undirected,
  job <- query, entries <- l2, result <- cand

\* i is an answer that NearestIndex may give to q.
IsAnswer(q, i) ==
  i \in Index!Candidates(q) /\ \A j \in Index!Candidates(q) : Index!Nearer(q, i, j)

(***************************************************************************)
(* The similarity of a query and a stored entry is a number.               *)
(***************************************************************************)
LEMMA LikenessIsInt ==
  ASSUME TypeOK, NEW q \in Query, NEW i \in 1..Len(l2)
  PROVE  Likeness(q, l2[i]) \in Int
<1>1. l2[i] \in Entries
  BY ElementOfSeq DEF TypeOK
<1>2. PICK p \in Query : l2[i].embed = p.embed
  BY <1>1 DEF Entries
<1>3. QED  BY <1>2, EngineAssumption DEF Likeness

(***************************************************************************)
(* The engine's choice, the first of the nearest, is NearestIndex's.       *)
(***************************************************************************)
LEMMA SameAnswers ==
  ASSUME TypeOK, ~Durable, NEW q \in Query
  PROVE  /\ Candidates(q) = Index!Candidates(q)
         /\ \A i : i \in SearchResults(q) <=> IsAnswer(q, i)
<1>0. Len(l2) \in Nat
  BY LenProperties DEF TypeOK
<1>1. Candidates(q) = Index!Candidates(q) /\ Candidates(q) \subseteq 1..Len(l2)
  BY <1>0 DEF Candidates, Index!Candidates, InScope, Undirected
<1>2. \A i \in Candidates(q) : Cosine(q.embed, l2[i].embed) \in Int /\ i \in Int
  BY <1>0, <1>1, LikenessIsInt DEF Likeness
<1>3. \A i, j \in Candidates(q) :
        Index!Nearer(q, i, j) <=> \/ Cosine(q.embed, l2[i].embed) > Cosine(q.embed, l2[j].embed)
                                  \/ Cosine(q.embed, l2[i].embed) = Cosine(q.embed, l2[j].embed) /\ i <= j
  BY DEF Index!Nearer, Likeness
<1>4. ASSUME NEW i \in SearchResults(q) PROVE IsAnswer(q, i)
  <2>1. i \in Nearest(q) /\ i \in Candidates(q) /\ \A j \in Nearest(q) : i <= j
    BY DEF SearchResults, Nearest
  <2>2. ASSUME NEW j \in Candidates(q) PROVE Index!Nearer(q, i, j)
    <3>1. Cosine(q.embed, l2[j].embed) <= Cosine(q.embed, l2[i].embed)
      BY <2>1 DEF Nearest
    <3>2. CASE j \in Nearest(q)
      BY <1>2, <1>3, <2>1, <3>1, <3>2
    <3>3. CASE j \notin Nearest(q)
      <4>1. PICK x \in Candidates(q) : ~(Cosine(q.embed, l2[x].embed) <= Cosine(q.embed, l2[j].embed))
        BY <3>3 DEF Nearest
      <4>2. Cosine(q.embed, l2[x].embed) <= Cosine(q.embed, l2[i].embed)
        BY <2>1 DEF Nearest
      <4>3. QED  BY <1>2, <1>3, <2>1, <4>1, <4>2
    <3>4. QED  BY <3>2, <3>3
  <2>3. QED  BY <1>1, <2>1, <2>2 DEF IsAnswer
<1>5. ASSUME NEW i, IsAnswer(q, i) PROVE i \in SearchResults(q)
  <2>1. i \in Candidates(q) /\ \A j \in Candidates(q) : Index!Nearer(q, i, j)
    BY <1>1, <1>5 DEF IsAnswer
  <2>2. i \in Nearest(q)
    BY <1>2, <1>3, <2>1 DEF Nearest
  <2>3. ASSUME NEW j \in Nearest(q) PROVE i <= j
    <3>1. j \in Candidates(q) /\ Cosine(q.embed, l2[i].embed) <= Cosine(q.embed, l2[j].embed)
      BY <2>1 DEF Nearest
    <3>2. QED  BY <1>2, <1>3, <2>1, <3>1
  <2>4. QED  BY <2>2, <2>3 DEF SearchResults
<1>6. QED  BY <1>1, <1>4, <1>5

(***************************************************************************)
(* Where there is a candidate there is a nearest one, and a first of them. *)
(***************************************************************************)
LEMMA SearchAnswers ==
  ASSUME TypeOK, NEW q \in Query
  PROVE  SearchMayMiss(q) \/ SearchResults(q) # {}
<1> SUFFICES ASSUME ~Durable, Candidates(q) # {} PROVE SearchResults(q) # {}
  BY DEF SearchMayMiss
<1>0. Len(l2) \in Nat
  BY LenProperties DEF TypeOK
<1>1. Candidates(q) \subseteq 1..Len(l2) /\ Candidates(q) \in SUBSET Int
  BY <1>0 DEF Candidates
<1>2. IsFiniteSet(Candidates(q))
  <2>1. 1 \in Int /\ Len(l2) \in Int
    BY <1>0
  <2>2. IsFiniteSet(1..Len(l2))
    BY <2>1, FS_Interval
  <2>3. QED  BY <1>1, <2>2, FS_Subset
<1> DEFINE S == {Likeness(q, l2[i]) : i \in Candidates(q)}
<1>3. S \in SUBSET Int /\ S # {}
  BY <1>1, LikenessIsInt
<1> DEFINE f == [i \in Candidates(q) |-> Likeness(q, l2[i])]
<1>4. IsFiniteSet(S)
  <2>1. f \in Surjection(Candidates(q), S)
    BY DEF Surjection
  <2> HIDE DEF f, S
  <2>2. QED  BY <1>2, <2>1, FS_Surjection
<1> HIDE DEF S
<1>5. PICK x \in S : \A y \in S : y <= x
  BY <1>3, <1>4, GreatestAndLeast
<1>6. Nearest(q) # {}
  BY <1>5 DEF S, Nearest, Likeness
<1>7. Nearest(q) \in SUBSET Int /\ Nearest(q) \subseteq Candidates(q)
  BY <1>1 DEF Nearest
<1>8. IsFiniteSet(Nearest(q))
  BY <1>2, <1>7, FS_Subset
<1>9. \E i \in Nearest(q) : \A j \in Nearest(q) : i <= j
  BY <1>6, <1>7, <1>8, GreatestAndLeast
<1>10. QED  BY <1>9 DEF SearchResults

(***************************************************************************)
(* A search finds nothing where there is no candidate, otherwise the       *)
(* nearest of them, the oldest of equally near ones.                       *)
(***************************************************************************)
AsTheIndexDoes(r) ==
  \/ Index!Candidates(query[r]) = {} /\ pc'[r] = "upstream"
  \/ pc'[r] = "decide" /\ \E i : IsAnswer(query[r], i) /\ cand'[r] = l2[i]

SearchesTheIndex == \A r \in Req : Search(r) => AsTheIndexDoes(r)

(***************************************************************************)
(* The engine's search of the in-memory index answers as NearestIndex      *)
(* does, which MemoryIndex implements (IndexIsAtomic, SemanticIndexProofs).*)
(***************************************************************************)
THEOREM EngineSearchesTheIndex ==
  ASSUME ~Durable
  PROVE  Spec => [][SearchesTheIndex]_vars
<1>1. ASSUME TypeOK, NEW r \in Req, Search(r) PROVE AsTheIndexDoes(r)
  <2>1. query[r] \in Query /\ pc \in [Req -> Labels] /\ cand \in [Req -> Entries \cup {None}]
    BY <1>1 DEF Search, TypeOK
  <2>2. CASE SearchMayMiss(query[r]) /\ Goto(r, "upstream")
    BY <1>1, <2>1, <2>2, SameAnswers DEF SearchMayMiss, Goto, AsTheIndexDoes
  <2>3. ASSUME NEW i \in SearchResults(query[r]), cand' = [cand EXCEPT ![r] = l2[i]], Goto(r, "decide")
        PROVE  AsTheIndexDoes(r)
    <3>1. IsAnswer(query[r], i)
      BY <1>1, <2>1, <2>3, SameAnswers
    <3>2. cand'[r] = l2[i] /\ pc'[r] = "decide"
      BY <2>1, <2>3 DEF Goto
    <3>3. QED  BY <3>1, <3>2 DEF AsTheIndexDoes
  <2>4. QED  BY <1>1, <2>2, <2>3 DEF Search
<1>2. TypeOK => SearchesTheIndex
  BY <1>1 DEF SearchesTheIndex
<1>3. QED  BY <1>2, TypeCorrect, PTL

-----------------------------------------------------------------------------
\* The guards of a request's steps together, and how many are before it.
CanStep(r) ==
  \/ pc[r] \in {"check", "embed", "decide", "stamp", "promote", "upstream", "keep",
                "charge", "spend", "add"}
  \/ pc[r] = "search" /\ (SearchMayMiss(query[r]) \/ SearchResults(query[r]) # {})

Order == <<"new", "check", "embed", "search", "decide", "stamp", "promote", "upstream", "keep",
           "charge", "spend", "add", "done", "lost">>

Before(l, m) == \E i, j \in 1..14 : i < j /\ Order[i] = l /\ Order[j] = m

Waits(r) == InFlight(r) => CanStep(r)

\* Only the one who steps moves, onward; it is lost with the process.
Onward ==
  \/ \E r \in Req : Before(pc[r], pc'[r]) /\ \A s \in Req \ {r} : pc'[s] = pc[s]
  \/ clock' = clock + 1 /\ pc' = pc
  \/ boots' = boots + 1 /\ \A r \in Req : pc'[r] # pc[r] => pc'[r] = "lost"

(***************************************************************************)
(* A request in flight is never without a step to take (a search finds the *)
(* nearest candidate or may miss), and each of its steps takes it onward   *)
(* in the order of Serve, so that it takes one at most from each of them.  *)
(***************************************************************************)
THEOREM RequestsMoveOnward ==
  Spec => /\ [](\A r \in Req : Waits(r))
          /\ [][Onward]_vars
<1>1. TypeOK => \A r \in Req : Waits(r)
  <2> SUFFICES ASSUME TypeOK, NEW r \in Req, InFlight(r) PROVE CanStep(r)
    BY DEF Waits
  <2>1. pc[r] \in Labels /\ (pc[r] = "search" => query[r] \in Query)
    BY DEF TypeOK
  <2>2. QED  BY <2>1, SearchAnswers DEF InFlight, Labels, CanStep
<1>2. TypeOK /\ [Next]_vars => [Onward]_vars
  <2> SUFFICES ASSUME TypeOK, [Next]_vars, vars' # vars PROVE Onward
    OBVIOUS
  <2>0. pc \in [Req -> Labels]
    BY DEF TypeOK
  <2>1. /\ Before("new", "check") /\ Before("new", "embed")
        /\ Before("check", "embed") /\ Before("check", "done")
        /\ Before("embed", "search") /\ Before("embed", "upstream")
        /\ Before("search", "decide") /\ Before("search", "upstream")
        /\ Before("decide", "stamp") /\ Before("decide", "upstream")
        /\ Before("stamp", "promote") /\ Before("promote", "done")
        /\ Before("upstream", "keep") /\ Before("upstream", "done")
        /\ Before("keep", "charge") /\ Before("keep", "done")
        /\ Before("charge", "spend") /\ Before("charge", "add")
        /\ Before("spend", "add") /\ Before("spend", "done") /\ Before("add", "done")
    BY DEF Before, Order
  <2>2. ASSUME NEW r \in Req, NEW l, pc' = [pc EXCEPT ![r] = l], Before(pc[r], l)
        PROVE  Onward
    BY <2>0, <2>2 DEF Onward
  <2>3. ASSUME NEW r \in Req, Step(r) \/ \E q \in Query : Serve(r, q)
        PROVE  \E l : pc' = [pc EXCEPT ![r] = l] /\ Before(pc[r], l)
    <3>1. CASE \/ \E q \in Query : Serve(r, q)
               \/ Check(r) \/ Embed(r) \/ Search(r) \/ Decide(r) \/ Stamp(r) \/ Promote(r)
      BY <2>1, <3>1 DEF Serve, Check, Embed, Search, Decide, Stamp, Promote, Goto, Return
    <3>2. CASE \/ UpstreamFails(r) \/ UpstreamRefuses(r) \/ UpstreamAnswers(r)
               \/ Keep(r) \/ Charge(r) \/ Spend(r) \/ Add(r)
      BY <2>1, <3>2 DEF UpstreamFails, UpstreamRefuses, UpstreamAnswers, Keep, Charge, Spend, Add,
                        Goto, Return
    <3>3. QED  BY <2>3, <3>1, <3>2 DEF Step
  <2>4. CASE Tick
    BY <2>4 DEF Tick, Onward
  <2>5. CASE Restart
    BY <2>0, <2>5 DEF Restart, Onward
  <2>6. QED  BY <2>2, <2>3, <2>4, <2>5 DEF Next, Finished
<1>3. QED  BY <1>1, <1>2, TypeCorrect, PTL DEF Spec
=============================================================================
