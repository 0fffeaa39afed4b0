----------------------------- MODULE FrontDoor ------------------------------
(***************************************************************************)
(* internal/proxy: the chat handler in front of the cache.  A request's    *)
(* body is buffered up to a cap, charged to its tenant, and either served  *)
(* through the cache or handed to the reverse proxy.  A body is abstracted *)
(* to its length, a prompt to a text, and Engine.Serve to what one request *)
(* sees of it: a lookup that hits a record of its own text (L1) or an      *)
(* entry of a text like it (L2), or that comes to nothing for any reason;  *)
(* then one upstream call, whose success is kept.  The steps inside Serve  *)
(* are Engine's.                                                           *)
(***************************************************************************)
EXTENDS Integers, FiniteSets, Functions

CONSTANTS
  Req,
  Input,            \* records [post, length, breaks, kind, text, tenant, optOut]
  ReplyLengths,     \* lengths the upstream's reply may have
  None,
  MaxBody,          \* maxChatBody, for requests and for upstream replies
  IsolatedDefault,  \* TENANT_ISOLATION=isolated
  RequestRate, RequestBurst,
  Alike(_, _),      \* a text, and the text of an entry similar enough to answer it
  MaxClock          \* bound for TLC on the clock

ASSUME FrontDoorAssumption ==
  /\ None \notin Input /\ None \notin Req
  /\ MaxBody \in Nat
  /\ ReplyLengths \subseteq Nat
  /\ IsolatedDefault \in BOOLEAN
  /\ RequestRate \in Int /\ RequestBurst \in Nat
  /\ MaxClock \in Nat
  /\ \A in \in Input : in.length \in Nat

VARIABLES
  pc,        \* "new", "admit", "timed", "parse", "serve", "call", "forward" or "done"
  input,     \* the client's request
  buffered,  \* how much of its body the handler holds
  sent,      \* the body length the upstream was sent for it, None when it was not
  replied,   \* the length of the upstream's reply to it
  answer,    \* what the client got: [status, length, from]
  stored,    \* the cache: records [tier, scope, text, of, length]
  requests,  \* one request limiter per tenant
  now,       \* the clock reading a request asks its limiter with
  rewound,   \* history: how far late readings moved each limiter back in all
  clock

limiters == <<requests, now, rewound>>
vars == <<pc, input, buffered, sent, replied, answer, stored, requests, now, rewound, clock>>

RB == INSTANCE TokenBucket WITH Rate <- RequestRate, Burst <- RequestBurst

Least(a, b) == IF a < b THEN a ELSE b

-----------------------------------------------------------------------------
\* Tenant scope: the shared pool, or the tenant's own when the deployment or
\* this request opted out of sharing.
Shared == "shared"

SharedScope(in) == Shared    \* a mutant that forgets the opt-out

Scope(in) == IF IsolatedDefault \/ in.optOut THEN in.tenant ELSE Shared

Asked(in) == [scope |-> Scope(in), text |-> in.text]
Cacheable == {Asked(in) : in \in Input}

\* A tenant is a hash of 32 digits, or "anon".
ASSUME TenantAssumption ==
  /\ \A in \in Input : in.tenant # Shared
  /\ None \notin Cacheable

Init ==
  /\ pc = [r \in Req |-> "new"]
  /\ input = [r \in Req |-> None]
  /\ buffered = [r \in Req |-> 0]
  /\ sent = [r \in Req |-> None]
  /\ replied = [r \in Req |-> None]
  /\ answer = [r \in Req |-> None]
  /\ stored = {}
  /\ requests = [t \in {in.tenant : in \in Input} |-> RB!Full]
  /\ now = [r \in Req |-> 0]
  /\ rewound = [t \in {in.tenant : in \in Input} |-> 0]
  /\ clock = 0

Goto(r, label) == pc' = [pc EXCEPT ![r] = label]

Answer(r, status, length, from) ==
  /\ answer' = [answer EXCEPT ![r] = [status |-> status, length |-> length, from |-> from]]
  /\ Goto(r, "done")

\* A body is read one byte past the cap, and too large if that byte was there.
ReadOf(in) == Least(in.length, MaxBody + 1)

NeverTooLarge(in) == FALSE    \* a mutant without the length check

TooLarge(in) == ReadOf(in) > MaxBody

\* Only POSTs are buffered.  A body that breaks off is read as far as it came.
\* It goes to the reverse proxy, as a too large one does.
Receive(r, in) ==
  /\ pc[r] = "new"
  /\ input' = [input EXCEPT ![r] = in]
  /\ \/ /\ ~in.post
        /\ buffered' = [buffered EXCEPT ![r] = in.length]
        /\ Goto(r, "forward")
     \/ /\ in.post /\ in.breaks
        /\ \E n \in 0..ReadOf(in) : buffered' = [buffered EXCEPT ![r] = n]
        /\ Goto(r, "forward")
     \/ /\ in.post /\ ~in.breaks
        /\ buffered' = [buffered EXCEPT ![r] = ReadOf(in)]
        /\ Goto(r, IF TooLarge(in) THEN "forward" ELSE "admit")
  /\ UNCHANGED <<sent, replied, answer, stored, limiters, clock>>

\* AllowRequest reads the clock before the limiter's lock is taken; no limit,
\* no reading.
Admit(r) ==
  /\ pc[r] = "admit"
  /\ \/ RequestRate <= 0 /\ Goto(r, "parse") /\ UNCHANGED now
     \/ RequestRate > 0 /\ Goto(r, "timed") /\ now' = [now EXCEPT ![r] = clock]
  /\ UNCHANGED <<input, buffered, sent, replied, answer, stored, requests, rewound, clock>>

\* A mutant that asks the limiter without charging it.
ChargedNothing(r, t) == requests

Charged(r, t) == [requests EXCEPT ![t] = RB!Spend(@, now[r], buffered[r])]

\* How far a request's reading moves a limiter back.
Behind(r, t) == IF now[r] < requests[t].last THEN requests[t].last - now[r] ELSE 0

\* AllowN, before any other work; a denial is the 429.
Spend(r) ==
  LET t == input[r].tenant
  IN /\ pc[r] = "timed"
     /\ \/ /\ RB!Grants(requests[t], now[r], buffered[r])
           /\ requests' = Charged(r, t)
           /\ rewound' = [rewound EXCEPT ![t] = @ + Behind(r, t)]
           /\ Goto(r, "parse")
           /\ UNCHANGED answer
        \/ /\ ~RB!Grants(requests[t], now[r], buffered[r])
           /\ Answer(r, 429, 0, None)
           /\ UNCHANGED <<requests, rewound>>
     /\ UNCHANGED <<input, buffered, sent, replied, stored, now, clock>>

\* Streaming, malformed and empty requests are not cacheable.
Parse(r) ==
  /\ pc[r] = "parse"
  /\ Goto(r, IF input[r].kind = "chat" THEN "serve" ELSE "forward")
  /\ UNCHANGED <<input, buffered, sent, replied, answer, stored, limiters, clock>>

\* What is in a request's scope and answers it.
Exact(s, r)   == s.tier = "L1" /\ s.scope = Scope(input[r]) /\ s.text = input[r].text
Similar(s, r) == s.tier = "L2" /\ s.scope = Scope(input[r]) /\ Alike(input[r].text, s.text)

\* A hit in L2 is promoted: into L1, under the request's own text.
PromotedIntoL2(s, r) == [s EXCEPT !.text = input[r].text]    \* a mutant

Promoted(s, r) == [s EXCEPT !.tier = "L1", !.text = input[r].text]

\* Engine.Serve's lookup: a hit, or, as a record or an entry may have expired,
\* been evicted or be out of the embedding's or the database's reach, none.
Serve(r) ==
  /\ pc[r] = "serve"
  /\ \/ \E s \in stored :
          /\ Exact(s, r)
          /\ Answer(r, 200, s.length, s.of)
          /\ UNCHANGED stored
     \/ \E s \in stored :
          /\ Similar(s, r)
          /\ stored' = stored \cup {Promoted(s, r)}
          /\ Answer(r, 200, s.length, s.of)
     \/ Goto(r, "call") /\ UNCHANGED <<answer, stored>>
  /\ UNCHANGED <<input, buffered, sent, replied, limiters, clock>>

\* A mutant whose entry has the zero value for its scope.
StoredUnscoped(r, tier, length) ==
  [tier |-> tier, scope |-> None, text |-> input[r].text, of |-> r, length |-> length]

Stored(r, tier, length) ==
  [tier |-> tier, scope |-> Scope(input[r]), text |-> input[r].text, of |-> r, length |-> length]

\* callUpstream: the buffered body is sent once.  An error is the 502; a reply
\* is read up to the cap, and a 200 kept in L1, and in L2 unless the embedding,
\* the quota, the cipher or the database refuse it.
CallFails(r) ==
  /\ pc[r] = "call"
  /\ sent' = [sent EXCEPT ![r] = buffered[r]]
  /\ Answer(r, 502, 0, None)
  /\ UNCHANGED <<input, buffered, replied, stored, limiters, clock>>

CallUpstream(r) ==
  /\ pc[r] = "call"
  /\ sent' = [sent EXCEPT ![r] = buffered[r]]
  /\ \E n \in ReplyLengths :
       LET read == Least(n, MaxBody) IN
       /\ replied' = [replied EXCEPT ![r] = n]
       /\ \/ \E tiers \in {{"L1"}, {"L1", "L2"}} :
               /\ stored' = stored \cup {Stored(r, tier, read) : tier \in tiers}
               /\ Answer(r, 200, read, r)
          \/ Answer(r, 500, read, r) /\ UNCHANGED stored
  /\ UNCHANGED <<input, buffered, limiters, clock>>

\* The reverse proxy streams both bodies; its request is as long as what was
\* buffered.  Nothing bounds how long the upstream may take.
Forward(r) ==
  /\ pc[r] = "forward"
  /\ sent' = [sent EXCEPT ![r] = buffered[r]]
  /\ \E n \in ReplyLengths :
       /\ replied' = [replied EXCEPT ![r] = n]
       /\ Answer(r, 200, n, r)
  /\ UNCHANGED <<input, buffered, stored, limiters, clock>>

ForwardFails(r) ==
  /\ pc[r] = "forward"
  /\ sent' = [sent EXCEPT ![r] = buffered[r]]
  /\ Answer(r, 502, 0, None)
  /\ UNCHANGED <<input, buffered, replied, stored, limiters, clock>>

Tick ==
  /\ clock < MaxClock
  /\ clock' = clock + 1
  /\ UNCHANGED <<pc, input, buffered, sent, replied, answer, stored, limiters>>

Finished == (\A r \in Req : pc[r] = "done") /\ UNCHANGED vars

Next == \/ \E r \in Req : \/ \E in \in Input : Receive(r, in)
                          \/ Admit(r)
                          \/ Spend(r)
                          \/ Parse(r)
                          \/ Serve(r)
                          \/ CallFails(r)
                          \/ CallUpstream(r)
                          \/ Forward(r)
                          \/ ForwardFails(r)
        \/ Tick
        \/ Finished

Spec == Init /\ [][Next]_vars

-----------------------------------------------------------------------------
Scopes  == {in.tenant : in \in Input} \cup {Shared}

(***************************************************************************)
(* Every variable has its type, and a request past its start has an input. *)
(***************************************************************************)
TypeOK ==
  /\ pc \in [Req -> {"new", "admit", "timed", "parse", "serve", "call", "forward", "done"}]
  /\ input \in [Req -> Input \cup {None}]
  /\ \A r \in Req : pc[r] # "new" => input[r] \in Input
  /\ buffered \in [Req -> Nat]
  /\ sent \in [Req -> Nat \cup {None}]
  /\ replied \in [Req -> ReplyLengths \cup {None}]
  /\ answer \in [Req -> {None} \cup [status : {200, 429, 500, 502}, length : Nat, from : Req \cup {None}]]
  /\ stored \subseteq [tier : {"L1", "L2"}, scope : Scopes, text : {in.text : in \in Input},
                      of : Req, length : Nat]
  /\ requests \in [{in.tenant : in \in Input} -> RB!Bucket]
  /\ now \in [Req -> Nat]
  /\ rewound \in [{in.tenant : in \in Input} -> Nat]
  /\ clock \in Nat

Served(r) == pc[r] = "done" /\ answer[r].status = 200
Whole(in) == in.post /\ ~in.breaks /\ in.length <= MaxBody

(***************************************************************************)
(* Isolation: a request that opted out, by header or by deployment, is     *)
(* never served what a request of another tenant, or a request that did    *)
(* not opt out, had stored; and a sharing request never gets what one that *)
(* opted out had stored (tenant.Isolated; neither reads nor seeds).        *)
(***************************************************************************)
Private(in) == IsolatedDefault \/ in.optOut

OptOutIsRespected ==
  \A r \in Req : Served(r) /\ answer[r].from # r =>
    LET maker == input[answer[r].from]
    IN Private(input[r]) \/ Private(maker)
         => Private(input[r]) /\ Private(maker) /\ maker.tenant = input[r].tenant

(***************************************************************************)
(* The limit is taken before any cache or upstream work: what a tenant's   *)
(* whole requests had looked up or sent upstream is within its budget and  *)
(* what late readings of the clock added to it, however they interleave,   *)
(* and a refused request reached neither.                                  *)
(***************************************************************************)
Worked(t) == {r \in Req : /\ pc[r] \notin {"new", "admit", "timed"} /\ Whole(input[r])
                          /\ input[r].tenant = t
                          /\ pc[r] = "done" => answer[r].status # 429}

Earned(t) == RequestBurst + RequestRate * (clock + rewound[t])

WorkIsPaidFor ==
  RequestRate > 0 =>
    /\ \A t \in DOMAIN requests :
         SumFunction([r \in Worked(t) |-> input[r].length]) <= Earned(t)
    /\ \A r \in Req : pc[r] = "done" /\ answer[r].status = 429 => sent[r] = None

(***************************************************************************)
(* The tenant's identity "gates the byte-rate limit before any cache or    *)
(* upstream work is spent on the request": all that a tenant had sent      *)
(* upstream, whole or not, is within its budget.                           *)
(***************************************************************************)
SentFor(t) == {r \in Req : sent[r] # None /\ input[r].tenant = t}

AllWorkIsPaidFor ==
  RequestRate > 0 =>
    \A t \in DOMAIN requests : SumFunction([r \in SentFor(t) |-> sent[r]]) <= Earned(t)

(***************************************************************************)
(* A cached answer was asked for with the whole body of the request that   *)
(* made it, and a request answered from the cache asked nobody.            *)
(***************************************************************************)
CachedFromWholeRequests ==
  /\ \A s \in stored : sent[s.of] = input[s.of].length /\ Whole(input[s.of])
  /\ \A r \in Req : Served(r) /\ answer[r].from # r => sent[r] = None

(***************************************************************************)
(* Over the whole front door the cache keeps its promise: a cacheable      *)
(* request gets one answer, from its own upstream call or from a success   *)
(* an earlier request of the same scope had stored for the same text or    *)
(* for one it is itself alike to, whatever promotions happened in between. *)
(***************************************************************************)
MayAnswer(q, m) == q.scope = m.scope /\ (q.text = m.text \/ Alike(q.text, m.text))

AtTheCache(r) ==
  \/ pc[r] \in {"serve", "call"}
  \/ pc[r] = "done" /\ Whole(input[r]) /\ input[r].kind = "chat" /\ answer[r].status # 429

Promise ==
  INSTANCE CachePromise WITH
    Query <- Cacheable,
    Allowed <- {p \in Cacheable \X Cacheable : MayAnswer(p[1], p[2])},
    asked <- [r \in Req |-> IF AtTheCache(r) THEN Asked(input[r]) ELSE None],
    made <- {s.of : s \in stored},
    got <- [r \in Req |-> IF ~AtTheCache(r) \/ pc[r] # "done" THEN None
                          ELSE IF answer[r].from = None THEN r ELSE answer[r].from]

KeepsThePromise == Promise!Spec

(***************************************************************************)
(* callUpstream "buffers the full response so it can be cached": what is   *)
(* cached is as long as what the upstream sent.                            *)
(***************************************************************************)
CachedInFull == \A s \in stored : s.length = replied[s.of]
=============================================================================
