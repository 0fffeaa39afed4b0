------------------------------- MODULE Engine -------------------------------
(***************************************************************************)
(* internal/cache/engine: Engine.Serve run by any number of requests at    *)
(* once over one L1 LRU, one L2 semantic index, one store quota and one    *)
(* cipher.  A request is a goroutine; each action is what it does between  *)
(* two points where another goroutine can run: a lock taken and released,  *)
(* a reading of the clock, or a call to the embedding sidecar, the         *)
(* database or the upstream model.  What is read from the clock is used    *)
(* later, when it may no longer be the time.  The process can crash and    *)
(* come back with another encryption key.                                  *)
(*                                                                         *)
(* A response body is abstracted to the request whose upstream call made   *)
(* it, so the properties can say where a served answer came from.          *)
(***************************************************************************)
EXTENDS Integers, Sequences, FiniteSets, Functions

CONSTANTS
  Req,                 \* requests; each is served once
  Query,               \* records [scope, tenant, model, exact, embed, lang]
  None,                \* no query, no entry
  L1Capacity,          \* <= 0: unbounded
  TTL,                 \* entry lifetime in ticks, 0 = no expiry
  Durable,             \* TRUE: L2 is PostgresIndex, FALSE: MemoryIndex
  NoCipher,            \* the key ring of a process without encryption
  Rings,               \* the key rings the process may start with
  StoreRate, StoreBurst,
  MaxClock, MaxBoots,  \* bounds for TLC on the clock and on restarts
  Cosine(_, _),        \* similarity of two embedded texts
  Cutoff(_, _),        \* threshold for a prompt and an entry language
  Extract(_, _),       \* structural tokens of a text in a language
  Compatible(_, _),    \* guard.Compare on two token sets
  BodyBytes(_)         \* size of the upstream's answer to a query

ASSUME EngineAssumption ==
  /\ None \notin Query /\ None \notin Req
  /\ L1Capacity \in Int
  /\ TTL \in Nat
  /\ Durable \in BOOLEAN
  /\ StoreRate \in Int /\ StoreBurst \in Nat
  /\ \A q \in Query : BodyBytes(q) \in Nat
  /\ \A q, p \in Query : Cosine(q.embed, p.embed) \in Int
  /\ MaxClock \in Nat /\ MaxBoots \in Nat

VARIABLES
  pc,        \* where each request is in Serve
  query,     \* its Query
  rec,       \* the record L1 held for it
  vec,       \* whether it holds an embedding
  cand,      \* the entry Search returned to it
  read,      \* its readings of the clock: the one an expiry was judged by, and
             \* the one a promotion was stamped or the quota asked with
  reply,     \* what upstream said to it, and when the answer was stamped
  ans,       \* what Serve returned to its client
  ll, items, \* L1
  l2,        \* L2 entries, oldest first
  quota,     \* one store limiter per tenant
  rewound,   \* history: how far late readings moved each of them back in all
  ring,      \* the running process's data key
  clock,
  boots      \* restarts so far

l1vars   == <<ll, items>>
quotas   == <<quota, rewound>>
shared   == <<l1vars, l2, quotas>>
process  == <<ring, clock, boots>>
vars     == <<pc, query, rec, vec, cand, read, reply, ans, ll, items, l2, quota, rewound,
              ring, clock, boots>>

L1 == INSTANCE LRU WITH Key <- {}, Value <- {}, Capacity <- L1Capacity
TB == INSTANCE TokenBucket WITH Rate <- StoreRate, Burst <- StoreBurst

-----------------------------------------------------------------------------
\* Query.key: the hash of scope, model and exact text; SHA-256 is taken to be
\* injective on them.
KeyOf(q) == <<q.scope, q.model, q.exact>>

Tokens(q) == Extract(q.embed, q.lang)

\* A mutant: an entry of exactly the lifetime is gone.
ExpiredEarly(createdAt) == TTL > 0 /\ clock - createdAt >= TTL

Expired(createdAt) == TTL > 0 /\ clock - createdAt > TTL

\* A body as the client must see it, and as Seal leaves it under a key ring.
Body(r) == [of |-> r, by |-> NoCipher]
Ciphertext(r) == [of |-> r, by |-> ring]

\* plaintext(): without a cipher the stored bytes pass unchanged; with one,
\* only what that key sealed opens, and any other bytes stay what they are.
Opens(stored) == ring = NoCipher \/ stored.by = ring
Plaintext(stored) == IF ring # NoCipher /\ stored.by = ring THEN Body(stored.of) ELSE stored

\* What L2.Search filters by, and two mutants that lose one of the filters.
CandidatesOfModel(q) == {i \in 1..Len(l2) : l2[i].model = q.model}
CandidatesOfScope(q) == {i \in 1..Len(l2) : l2[i].scope = q.scope}
Candidates(q) == {i \in 1..Len(l2) : l2[i].model = q.model /\ l2[i].scope = q.scope}

Nearest(q) == {i \in Candidates(q) :
                 \A j \in Candidates(q) : Cosine(q.embed, l2[j].embed) <= Cosine(q.embed, l2[i].embed)}

\* A mutant: the last of equally near entries, as >= would keep.
LatestResults(q) == IF Durable THEN Candidates(q)
                    ELSE {i \in Nearest(q) : \A j \in Nearest(q) : j <= i}

\* MemoryIndex keeps the first of equally near entries; the database's
\* approximate index may return any candidate.
SearchResults(q) == IF Durable THEN Candidates(q)
                    ELSE {i \in Nearest(q) : \A j \in Nearest(q) : i <= j}

SearchMayMiss(q) == Durable \/ Candidates(q) = {}

\* A candidate near enough and structurally the same.
Similar(q, ent) ==
  /\ Cosine(q.embed, ent.embed) >= Cutoff(q.lang, ent.lang)
  /\ Compatible(Tokens(q), ent.tokens)

Entry(r) == LET q == query[r] IN
  [key |-> KeyOf(q), scope |-> q.scope, model |-> q.model, embed |-> q.embed,
   lang |-> q.lang, tokens |-> Tokens(q), response |-> Ciphertext(r), createdAt |-> reply[r].at]

-----------------------------------------------------------------------------
NotAnswered == [tier |-> "none", body |-> Body(None), boot |-> 0]
NotRead     == [judged |-> 0, now |-> 0]

Init ==
  /\ pc = [r \in Req |-> "new"]
  /\ query = [r \in Req |-> None]
  /\ rec = [r \in Req |-> None]
  /\ vec = [r \in Req |-> FALSE]
  /\ cand = [r \in Req |-> None]
  /\ read = [r \in Req |-> NotRead]
  /\ reply = [r \in Req |-> [status |-> "none", at |-> 0]]
  /\ ans = [r \in Req |-> NotAnswered]
  /\ L1!Init
  /\ l2 = <<>>
  /\ quota = [t \in {q.tenant : q \in Query} |-> TB!Full]
  /\ rewound = [t \in {q.tenant : q \in Query} |-> 0]
  /\ ring \in Rings
  /\ clock = 0
  /\ boots = 0

\* Serve returns to the client.
Return(r, tier, body) ==
  /\ ans' = [ans EXCEPT ![r] = [tier |-> tier, body |-> body, boot |-> boots]]
  /\ pc' = [pc EXCEPT ![r] = "done"]

Goto(r, label) ==
  /\ pc' = [pc EXCEPT ![r] = label]
  /\ UNCHANGED ans

\* Entry of Serve: the L1 lookup.  An expired record still becomes the most
\* recently used one, because Get runs before the check.
Serve(r, q) ==
  /\ pc[r] = "new"
  /\ query' = [query EXCEPT ![r] = q]
  /\ L1!Get(KeyOf(q))
  /\ IF L1!Holds(KeyOf(q))
     THEN rec' = [rec EXCEPT ![r] = items[KeyOf(q)]] /\ Goto(r, "check")
     ELSE Goto(r, "embed") /\ UNCHANGED rec
  /\ UNCHANGED <<vec, cand, read, reply, l2, quotas, process>>

\* The clock is read to judge the record in hand, which is served unless it has
\* expired by then.
L1HitStale(r) == TRUE    \* a mutant without the expiry check

L1Hit(r) == ~Expired(rec[r].createdAt)

Check(r) ==
  /\ pc[r] = "check"
  /\ read' = [read EXCEPT ![r].judged = clock]
  /\ IF L1Hit(r) THEN Return(r, "L1", rec[r].body) ELSE Goto(r, "embed")
  /\ UNCHANGED <<query, rec, vec, cand, reply, shared, process>>

\* The sidecar call: an error, or no embedding in its answer, bypasses L2.
Embed(r) ==
  /\ pc[r] = "embed"
  /\ \E ok \in BOOLEAN :
       /\ vec' = [vec EXCEPT ![r] = ok]
       /\ Goto(r, IF ok THEN "search" ELSE "upstream")
  /\ UNCHANGED <<query, rec, cand, read, reply, shared, process>>

\* A mutant: a database error sends the request back to the sidecar.
SearchRetries(r) ==
  /\ pc[r] = "search"
  /\ \/ Durable /\ Goto(r, "embed") /\ UNCHANGED cand
     \/ SearchMayMiss(query[r]) /\ Goto(r, "upstream") /\ UNCHANGED cand
  /\ UNCHANGED <<query, rec, vec, read, reply, shared, process>>

\* l2.Search in the query's one scope; only the database can fail.
Search(r) ==
  /\ pc[r] = "search"
  /\ \/ /\ Durable \/ SearchMayMiss(query[r])
        /\ Goto(r, "upstream")
        /\ UNCHANGED cand
     \/ \E i \in SearchResults(query[r]) :
          /\ cand' = [cand EXCEPT ![r] = l2[i]]
          /\ Goto(r, "decide")
  /\ UNCHANGED <<query, rec, vec, read, reply, shared, process>>

\* A mutant that trusts the threshold alone.
L2HitUnguarded(r) ==
  /\ ~Expired(cand[r].createdAt)
  /\ Cosine(query[r].embed, cand[r].embed) >= Cutoff(query[r].lang, cand[r].lang)
  /\ Opens(cand[r].response)

\* A mutant that serves what the key did not open.
L2HitUnopened(r) == ~Expired(cand[r].createdAt) /\ Similar(query[r], cand[r])

\* Expiry, threshold, guard and decryption of the candidate.
L2Hit(r) ==
  /\ ~Expired(cand[r].createdAt)
  /\ Similar(query[r], cand[r])
  /\ Opens(cand[r].response)

Decide(r) ==
  /\ pc[r] = "decide"
  /\ read' = [read EXCEPT ![r].judged = clock]
  /\ Goto(r, IF L2Hit(r) THEN "stamp" ELSE "upstream")
  /\ UNCHANGED <<query, rec, vec, cand, reply, shared, process>>

\* The clock is read again: the promotion's creation time.
Stamp(r) ==
  /\ pc[r] = "stamp"
  /\ read' = [read EXCEPT ![r].now = clock]
  /\ Goto(r, "promote")
  /\ UNCHANGED <<query, rec, vec, cand, reply, shared, process>>

PromotedUnlabelled(r) ==    \* a mutant that loses the entry's language
  [body |-> Plaintext(cand[r].response), lang |-> None, createdAt |-> read[r].now]

Promoted(r) ==
  [body |-> Plaintext(cand[r].response), lang |-> cand[r].lang, createdAt |-> read[r].now]

\* A hit goes into L1 under the query's own key, and to the client.
Promote(r) ==
  /\ pc[r] = "promote"
  /\ L1!Put(KeyOf(query[r]), Promoted(r))
  /\ Return(r, "L2", Plaintext(cand[r].response))
  /\ UNCHANGED <<query, rec, vec, cand, read, reply, l2, quotas, process>>

-----------------------------------------------------------------------------
\* The upstream call fails: Serve returns the error and stores nothing.
UpstreamFails(r) ==
  /\ pc[r] = "upstream"
  /\ reply' = [reply EXCEPT ![r] = [status |-> "err", at |-> clock]]
  /\ Return(r, "ERR", Body(r))
  /\ UNCHANGED <<query, rec, vec, cand, read, shared, process>>

\* A mutant: whatever the upstream answers is on its way into L1.
RefusalCached(r) ==
  /\ pc[r] = "upstream"
  /\ reply' = [reply EXCEPT ![r] = [status |-> "bad", at |-> clock]]
  /\ Goto(r, "keep")
  /\ UNCHANGED <<query, rec, vec, cand, read, shared, process>>

\* The upstream answers with another status than 200: returned, not cached.
UpstreamRefuses(r) ==
  /\ pc[r] = "upstream"
  /\ reply' = [reply EXCEPT ![r] = [status |-> "bad", at |-> clock]]
  /\ Return(r, "MISS", Body(r))
  /\ UNCHANGED <<query, rec, vec, cand, read, shared, process>>

\* The upstream answers 200, and the answer is stamped.
UpstreamAnswers(r) ==
  /\ pc[r] = "upstream"
  /\ reply' = [reply EXCEPT ![r] = [status |-> "ok", at |-> clock]]
  /\ Goto(r, "keep")
  /\ UNCHANGED <<query, rec, vec, cand, read, shared, process>>

\* It goes into L1 under its stamp, over whatever was stored meanwhile, then on
\* to the quota if there is an embedding to store it under.
Answered(r) == [body |-> Body(r), lang |-> query[r].lang, createdAt |-> reply[r].at]

KeepIfStorable(r) ==    \* a mutant that leaves L1 to what L2 may have
  /\ pc[r] = "keep"
  /\ IF vec[r] THEN L1!Put(KeyOf(query[r]), Answered(r)) /\ Goto(r, "charge")
               ELSE UNCHANGED l1vars /\ Return(r, "MISS", Body(r))
  /\ UNCHANGED <<query, rec, vec, cand, read, reply, l2, quotas, process>>

Keep(r) ==
  /\ pc[r] = "keep"
  /\ L1!Put(KeyOf(query[r]), Answered(r))
  /\ IF vec[r] THEN Goto(r, "charge") ELSE Return(r, "MISS", Body(r))
  /\ UNCHANGED <<query, rec, vec, cand, read, reply, l2, quotas, process>>

\* AllowStore: a rate of zero or less disables the limit; otherwise the clock is
\* read, and later the limiter is asked under its lock.
Charge(r) ==
  /\ pc[r] = "charge"
  /\ \/ StoreRate <= 0 /\ Goto(r, "add") /\ UNCHANGED read
     \/ StoreRate > 0 /\ Goto(r, "spend") /\ read' = [read EXCEPT ![r].now = clock]
  /\ UNCHANGED <<query, rec, vec, cand, reply, shared, process>>

\* A mutant: the limiter is asked but not charged.
Unspent(t, now, n) == quota

Spent(t, now, n) == [quota EXCEPT ![t] = TB!Spend(@, now, n)]

\* How far a reading moves a limiter back.
Behind(t, now) == IF now < quota[t].last THEN quota[t].last - now ELSE 0

\* AllowN.  A denied write is skipped, the response still returned.
Spend(r) ==
  LET t   == query[r].tenant
      n   == BodyBytes(query[r])
      now == read[r].now
  IN /\ pc[r] = "spend"
     /\ IF TB!Grants(quota[t], now, n)
        THEN /\ quota' = Spent(t, now, n)
             /\ rewound' = [rewound EXCEPT ![t] = @ + Behind(t, now)]
             /\ Goto(r, "add")
             /\ UNCHANGED vec
        ELSE /\ vec' = [vec EXCEPT ![r] = FALSE]
             /\ Return(r, "MISS", Body(r))
             /\ UNCHANGED quotas
     /\ UNCHANGED <<query, rec, cand, read, reply, l1vars, l2, process>>

\* Seal, then l2.Add.  A seal failure skips the write.  Add can fail only in
\* the database, and there an error may also come back after the row was
\* committed.
AddedInTheClear(r) ==    \* a mutant: a failed seal stores the plain body
  \/ l2' = Append(l2, Entry(r))
  \/ ring # NoCipher /\ l2' = Append(l2, [Entry(r) EXCEPT !.response = Body(r)])

Added(r) == l2' = Append(l2, Entry(r))
SealFails == ring # NoCipher /\ UNCHANGED l2
AddFails  == Durable /\ UNCHANGED l2

Add(r) ==
  /\ pc[r] = "add"
  /\ Added(r) \/ SealFails \/ AddFails
  /\ Return(r, "MISS", Body(r))
  /\ UNCHANGED <<query, rec, vec, cand, read, reply, l1vars, quotas, process>>

-----------------------------------------------------------------------------
Tick ==
  /\ clock < MaxClock
  /\ clock' = clock + 1
  /\ UNCHANGED <<pc, query, rec, vec, cand, read, reply, ans, shared, ring, boots>>

\* The process stops and starts again: requests in flight are lost, L1 and the
\* limiters are empty, L2 survives only in the database, and the key may be
\* another one.
InFlight(r) == pc[r] \notin {"new", "done", "lost"}

Restart ==
  /\ boots < MaxBoots
  /\ boots' = boots + 1
  /\ pc' = [r \in Req |-> IF InFlight(r) THEN "lost" ELSE pc[r]]
  /\ ll' = <<>> /\ items' = [k \in {} |-> k]
  /\ l2' = IF Durable THEN l2 ELSE <<>>
  /\ quota' = [t \in DOMAIN quota |-> TB!Full]
  /\ ring' \in Rings
  /\ UNCHANGED <<query, rec, vec, cand, read, reply, ans, rewound, clock>>

Step(r) == \/ Check(r)
           \/ Embed(r)
           \/ Search(r)
           \/ Decide(r)
           \/ Stamp(r)
           \/ Promote(r)
           \/ UpstreamFails(r)
           \/ UpstreamRefuses(r)
           \/ UpstreamAnswers(r)
           \/ Keep(r)
           \/ Charge(r)
           \/ Spend(r)
           \/ Add(r)

\* Nothing is left to do once every request has been answered or lost.
Finished ==
  /\ \A r \in Req : pc[r] \in {"done", "lost"}
  /\ UNCHANGED vars

Next == \/ \E r \in Req : Step(r) \/ \E q \in Query : Serve(r, q)
        \/ Tick
        \/ Restart
        \/ Finished

Spec == Init /\ [][Next]_vars

\* Every call Serve blocks in comes back: the embedding client and the
\* upstream client have timeouts, and the rest is local or a database call.
FairSpec == Spec /\ \A r \in Req : WF_vars(Step(r))

-----------------------------------------------------------------------------
\* Everything the model can hold.
Bodies  == [of : Req \cup {None}, by : Rings \cup {NoCipher}]
Langs   == {q.lang : q \in Query}
Records == [body : Bodies, lang : Langs, createdAt : Nat]
Entries == [key : {KeyOf(q) : q \in Query}, scope : {q.scope : q \in Query},
            model : {q.model : q \in Query}, embed : {q.embed : q \in Query}, lang : Langs,
            tokens : {Tokens(q) : q \in Query}, response : Bodies, createdAt : Nat]
Deciding == {"decide", "stamp", "promote"}
Labels  == {"new", "check", "embed", "search", "decide", "stamp", "promote",
            "upstream", "keep", "charge", "spend", "add", "done", "lost"}

(***************************************************************************)
(* Every variable of Serve and of the tiers has its type; a request that   *)
(* has started has a query, one that judges a record has a record, and one *)
(* that judges or promotes a candidate has a candidate.                    *)
(***************************************************************************)
TypeOK ==
  /\ pc \in [Req -> Labels]
  /\ query \in [Req -> Query \cup {None}]
  /\ \A r \in Req : pc[r] # "new" => query[r] \in Query
  /\ rec \in [Req -> Records \cup {None}]
  /\ \A r \in Req : pc[r] = "check" => rec[r] \in Records
  /\ vec \in [Req -> BOOLEAN]
  /\ cand \in [Req -> Entries \cup {None}]
  /\ \A r \in Req : pc[r] \in Deciding => cand[r] \in Entries
  /\ read \in [Req -> [judged : Nat, now : Nat]]
  /\ reply \in [Req -> [status : {"none", "ok", "bad", "err"}, at : Nat]]
  /\ ans \in [Req -> [tier : {"none", "L1", "L2", "MISS", "ERR"}, body : Bodies, boot : Nat]]
  /\ \A k \in DOMAIN items : items[k] \in Records
  /\ l2 \in Seq(Entries)
  /\ quota \in [{q.tenant : q \in Query} -> TB!Bucket]
  /\ rewound \in [{q.tenant : q \in Query} -> Nat]
  /\ ring \in Rings
  /\ clock \in Nat
  /\ boots \in Nat

-----------------------------------------------------------------------------
FromCache(r) == ans[r].tier \in {"L1", "L2"}
Maker(r)     == ans[r].body.of      \* whose upstream call made the answer r got

-----------------------------------------------------------------------------
(***************************************************************************)
(* Where every stored body came from: the inductive invariant under the    *)
(* properties about served answers below.  An L1 record answers its key,   *)
(* an L2 entry describes the request that made it, a candidate is such an  *)
(* entry of the right scope and model, and a request that has not heard    *)
(* from the upstream has made nothing.                                     *)
(***************************************************************************)
\* A query q may be answered with what was made for query m: the same key, or
\* a text as near as the cutoff for their languages asks and with the same
\* structural tokens.
Equivalent(q, m) ==
  Similar(q, [embed |-> m.embed, lang |-> m.lang, tokens |-> Tokens(m)])

Answers(k, m) ==
  /\ m.scope = k[1] /\ m.model = k[2]
  /\ \/ KeyOf(m) = k
     \/ \E p \in Query : KeyOf(p) = k /\ Equivalent(p, m)

Made(b) == b \in Req /\ reply[b].status = "ok"

Describes(ent) ==
  LET b == ent.response.of
  IN /\ Made(b)
     /\ ent.scope = query[b].scope /\ ent.model = query[b].model
     /\ ent.embed = query[b].embed /\ ent.lang = query[b].lang
     /\ ent.tokens = Tokens(query[b])
     /\ ent.createdAt = reply[b].at

Unheard == {"new", "check", "embed", "search", "decide", "stamp", "promote", "upstream"}
Heard   == {"keep", "charge", "spend", "add"}

Keyed(k, record) == LET b == record.body.of IN Made(b) /\ Answers(k, query[b])

L1Sound == \A k \in DOMAIN items : Keyed(k, items[k])

L2Sound == \A i \in 1..Len(l2) : Describes(l2[i])

RequestSound(r) ==
  /\ pc[r] \in Unheard => reply[r].status = "none" /\ ans[r].tier = "none"
  /\ pc[r] \in Heard => Made(r) /\ ans[r].tier = "none"
  /\ pc[r] = "check" => Keyed(KeyOf(query[r]), rec[r])
  /\ pc[r] \in Deciding =>
       Describes(cand[r]) /\ cand[r].scope = query[r].scope /\ cand[r].model = query[r].model
  /\ pc[r] \in {"stamp", "promote"} => Similar(query[r], cand[r])
  /\ FromCache(r) => Made(Maker(r)) /\ Answers(KeyOf(query[r]), query[Maker(r)])

Provenance == L1Sound /\ L2Sound /\ \A r \in Req : RequestSound(r)

(***************************************************************************)
(* What is served from a cache was a 200 of the upstream: an error, or any *)
(* other status, is never stored by any path (Serve caches only a clean    *)
(* success).                                                               *)
(***************************************************************************)
OnlySuccessServed ==
  \A r \in Req : FromCache(r) => Maker(r) \in Req /\ reply[Maker(r)].status = "ok"

(***************************************************************************)
(* No request is served an answer made in another tenant scope or for      *)
(* another model, through L1, L2 or a promotion of one into the other.     *)
(***************************************************************************)
ScopeIsolation ==
  \A r \in Req : FromCache(r) =>
    /\ query[Maker(r)].scope = query[r].scope
    /\ query[Maker(r)].model = query[r].model

(***************************************************************************)
(* Similarity is not transitive and a cached answer does not drift: what   *)
(* is served was made for a query that itself passes threshold and guard   *)
(* against this one, however many promotions happened in between.  An      *)
(* answer promoted from L2 is never stored in L2 again.                    *)
(***************************************************************************)
NoDrift ==
  \A r \in Req : FromCache(r) =>
    \/ KeyOf(query[Maker(r)]) = KeyOf(query[r])
    \/ \E p \in Query : KeyOf(p) = KeyOf(query[r]) /\ Equivalent(p, query[Maker(r)])

(***************************************************************************)
(* How old an answer can be when a cache serves it, by the clock reading   *)
(* that judged it.  From L2, and from L1 as its own request left it, one   *)
(* lifetime.  From L1 as a promotion left it, one more from the moment the *)
(* promotion was stamped, which the promoter may have been slow to come to *)
(* after judging the entry; a promoted record is never promoted again.     *)
(***************************************************************************)
Age(r) == read[r].judged - reply[Maker(r)].at

\* How long a promoter took from judging its entry to stamping it.
Stall(p) == read[p].now - read[p].judged

PromotedFor(p, r) ==
  ans[p].tier = "L2" /\ Maker(p) = Maker(r) /\ KeyOf(query[p]) = KeyOf(query[r])

AgeIsBounded ==
  TTL > 0 => \A r \in Req :
    /\ ans[r].tier = "L2" => Age(r) <= TTL
    /\ ans[r].tier = "L1" => \/ Age(r) <= TTL
                             \/ \E p \in Req : PromotedFor(p, r) /\ Age(r) <= 2 * TTL + Stall(p)

(***************************************************************************)
(* "Entries expire (CACHE_TTL), bounding how long a poisoned entry can     *)
(* live": no answer is served from a cache for longer than its lifetime.   *)
(***************************************************************************)
AtMostOneLifetime == TTL > 0 => \A r \in Req : FromCache(r) => Age(r) <= TTL

(***************************************************************************)
(* Of the entries in memory that are equally near to a query the oldest    *)
(* alone can serve it.  It is never deleted and an expired one serves      *)
(* nobody, so a prompt asked again after a lifetime is stored again in     *)
(* vain: its paraphrases go upstream for as long as the process lives      *)
(* (MemoryIndex.Search's tie, Add's append, Serve's expiry check).         *)
(***************************************************************************)
OldestOfTheNearest ==
  ~Durable => \A r \in Req : ans[r].tier = "L2" /\ ans[r].boot = boots =>
    \A j \in Candidates(query[r]) : l2[j].response.of = Maker(r) =>
      \A i \in Candidates(query[r]) :
        i < j => Cosine(query[r].embed, l2[i].embed) < Cosine(query[r].embed, l2[j].embed)

(***************************************************************************)
(* A client never receives sealed bytes as its answer: a key that cannot   *)
(* open an entry skips it (the fail-closed branch of Serve).               *)
(***************************************************************************)
NothingSealedServed == \A r \in Req : ans[r].tier # "none" => ans[r].body.by = NoCipher

(***************************************************************************)
(* The engine keeps the cache's promise: each request gets one answer, its *)
(* own or one made before it for an allowed query, across evictions,       *)
(* promotions and restarts, and no answer is taken back or replaced.       *)
(***************************************************************************)
Promise ==
  INSTANCE CachePromise WITH
    Allowed <- {p \in Query \X Query : Answers(KeyOf(p[1]), p[2])},
    asked <- query,
    made <- {r \in Req : Made(r)},
    got <- [r \in Req |-> IF ans[r].tier = "none" THEN None ELSE Maker(r)]

KeepsThePromise == Promise!Spec

(***************************************************************************)
(* With encryption on in every process that ran, L2 holds no plaintext     *)
(* body, whatever failed on the way (Cipher: a failure is not stored       *)
(* rather than exposed).                                                   *)
(***************************************************************************)
SealedAtRest ==
  NoCipher \notin Rings => \A i \in 1..Len(l2) : l2[i].response.by # NoCipher

\* Bytes of the L2 entries a tenant's requests stored.
StoredBy(t) == {i \in 1..Len(l2) : query[l2[i].response.of].tenant = t}

StoredBytes(t) == SumFunction([i \in StoredBy(t) |-> BodyBytes(query[l2[i].response.of])])

(***************************************************************************)
(* The anti-flooding quota: a tenant's bytes in L2 never exceed the burst  *)
(* plus the refill of the time that passed and of the time its late        *)
(* readings made the limiter count twice, once per process since the       *)
(* limiters live in memory, however its concurrent requests interleave.    *)
(***************************************************************************)
QuotaHolds ==
  StoreRate > 0 => \A t \in DOMAIN quota :
    StoredBytes(t) <= (boots + 1) * StoreBurst + StoreRate * (clock + rewound[t])

(***************************************************************************)
(* Identical repeats are free: with room in L1 for every key, a request    *)
(* whose key this process has answered finds a record in L1, also when the *)
(* quota, the cipher, the sidecar or the database refused the L2 store, or *)
(* a promotion answered it (the comments of Serve's store path); and the   *)
(* record is served if every answer stored under the key was stamped       *)
(* within a lifetime.  One older stamp is enough to lose the hit: a slow   *)
(* request may put its record over a fresher one.                          *)
(***************************************************************************)
Keys == {KeyOf(q) : q \in Query}

L1HasRoom == L1Capacity <= 0 \/ (IsFiniteSet(Keys) /\ Cardinality(Keys) <= L1Capacity)

\* The requests that put a record under a key in this process, and its stamp.
Missed(a)   == \/ pc[a] \in {"charge", "spend", "add"}
               \/ ans[a].tier = "MISS" /\ reply[a].status = "ok" /\ ans[a].boot = boots
Promoter(a) == ans[a].tier = "L2" /\ ans[a].boot = boots

Filled(a, k) == (Missed(a) \/ Promoter(a)) /\ KeyOf(query[a]) = k

StampOf(a) == IF Promoter(a) THEN read[a].now ELSE reply[a].at

FindsRepeat(r) ==
  pc[r] = "new" /\ pc'[r] # "new" /\ (\E a \in Req : Filled(a, KeyOf(query'[r])))
    => pc'[r] = "check"

ServesRepeat(r) ==
  pc[r] = "check" /\ (\A a \in Req : Filled(a, KeyOf(query[r])) => TTL = 0 \/ clock - StampOf(a) <= TTL)
    => pc'[r] \in {"check", "lost"} \/ ans'[r].tier = "L1"

RepeatsHitL1 == [][L1HasRoom => \A r \in Req : FindsRepeat(r) /\ ServesRepeat(r)]_vars

(***************************************************************************)
(* Every request a live process accepted is answered: neither a failure of *)
(* the sidecar, the database, the cipher or the quota, nor other requests, *)
(* keep it from its answer.                                                *)
(***************************************************************************)
EveryRequestEnds == \A r \in Req : pc[r] # "new" ~> pc[r] \in {"done", "lost"}
=============================================================================
