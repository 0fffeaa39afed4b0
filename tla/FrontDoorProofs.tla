-------------------------- MODULE FrontDoorProofs ---------------------------
(***************************************************************************)
(* The front door for any set of inputs, of requests and of reply lengths, *)
(* any cap, rate and burst: only whole requests fill the cache, an opt-out *)
(* holds in both directions, the cache keeps its promise, and no tenant    *)
(* has more done for it than it had earned.                                *)
(***************************************************************************)
EXTENDS FrontDoor, Collections

Tenants == {in.tenant : in \in Input}
Texts   == {in.text : in \in Input}

(***************************************************************************)
(* What a grant leaves is a bucket.                                        *)
(***************************************************************************)
LEMMA SpendType ==
  ASSUME NEW b \in RB!Bucket, NEW t \in Nat, NEW n \in Nat, RB!Grants(b, t, n)
  PROVE  RB!Spend(b, t, n) \in RB!Bucket
<1> DEFINE after == IF t < b.last THEN 0 ELSE t - b.last
<1>1. b.tokens \in Nat /\ b.last \in Nat
  BY DEF RB!Bucket
<1>2. after \in Nat
  BY <1>1
<1>3. RequestRate * after \in Int /\ RequestBurst \in Int
  BY <1>2, FrontDoorAssumption
<1>4. RB!TokensAt(b, t) \in Int
  BY <1>1, <1>3 DEF RB!TokensAt
<1>5. RB!TokensAt(b, t) - n \in Nat
  BY <1>4 DEF RB!Grants
<1>6. QED  BY <1>5 DEF RB!Spend, RB!Bucket

(***************************************************************************)
(* Where a request goes next, and what it is answered.                     *)
(***************************************************************************)
Labels  == {"new", "admit", "timed", "parse", "serve", "call", "forward", "done"}
Answers == [status : {200, 429, 500, 502}, length : Nat, from : Req \cup {None}]

(***************************************************************************)
(* A request that goes on moves itself and nobody else.                    *)
(***************************************************************************)
LEMMA GotoFacts ==
  ASSUME TypeOK, NEW r \in Req, NEW l \in Labels, Goto(r, l)
  PROVE  /\ pc' \in [Req -> Labels] /\ pc'[r] = l
         /\ \A s \in Req : s # r => pc'[s] = pc[s]
  BY DEF TypeOK, Goto, Labels

\* A step that answers r, whatever with.
Answered(r) ==
  \E status \in {200, 429, 500, 502}, length \in Nat, from \in Req \cup {None} :
    Answer(r, status, length, from)

MovedOn(r) == /\ pc' \in [Req -> Labels] /\ answer' \in [Req -> {None} \cup Answers]
            /\ \A s \in Req : s # r => pc'[s] = pc[s]

(***************************************************************************)
(* Its types hold after an answer as they did before.                      *)
(***************************************************************************)
LEMMA AnsweredMoves == ASSUME TypeOK, NEW r \in Req, Answered(r) PROVE MovedOn(r)
<1>1. PICK status \in {200, 429, 500, 502}, length \in Nat, from \in Req \cup {None} :
        Answer(r, status, length, from)
  BY DEF Answered
<1>2. Goto(r, "done") /\ [status |-> status, length |-> length, from |-> from] \in Answers
  BY <1>1 DEF Answer, Answers
<1>3. answer \in [Req -> {None} \cup Answers]
  BY DEF TypeOK, Answers
<1>4. answer' \in [Req -> {None} \cup Answers]
  BY <1>1, <1>2, <1>3 DEF Answer
<1>5. pc' \in [Req -> Labels] /\ \A s \in Req : s # r => pc'[s] = pc[s]
  BY <1>2, GotoFacts DEF Labels
<1>6. QED  BY <1>4, <1>5 DEF MovedOn

(***************************************************************************)
(* An answer with a status, a length and an origin is an answer.           *)
(***************************************************************************)
LEMMA AnswerMoves ==
  ASSUME TypeOK, NEW r \in Req, NEW status \in {200, 429, 500, 502}, NEW length \in Nat,
         NEW from \in Req \cup {None}, Answer(r, status, length, from)
  PROVE  MovedOn(r)
<1>1. Answered(r)
  BY DEF Answered
<1>2. QED  BY <1>1, AnsweredMoves

(***************************************************************************)
(* And after a step that only moves on.                                    *)
(***************************************************************************)
LEMMA GotoMoves ==
  ASSUME TypeOK, NEW r \in Req, NEW l \in Labels, Goto(r, l), UNCHANGED answer
  PROVE  MovedOn(r)
<1>1. answer \in [Req -> {None} \cup Answers]
  BY DEF TypeOK, Answers
<1>2. QED  BY <1>1, GotoFacts DEF MovedOn

(***************************************************************************)
(* What a body measures once it is read up to a cap.                       *)
(***************************************************************************)
LEMMA LeastFacts ==
  ASSUME NEW a \in Nat, NEW b \in Nat
  PROVE  Least(a, b) \in Nat /\ (a <= b => Least(a, b) = a)
  BY DEF Least

\* What the cache may hold.
Records == [tier : {"L1", "L2"}, scope : Scopes, text : Texts, of : Req, length : Nat]

(***************************************************************************)
(* What is stored has a scope and a text of some input.                    *)
(***************************************************************************)
LEMMA StoredType ==
  ASSUME TypeOK, NEW r \in Req, pc[r] # "new", NEW n \in Nat, NEW tier \in {"L1", "L2"}
  PROVE  Stored(r, tier, n) \in Records
<1>1. input[r] \in Input
  BY DEF TypeOK
<1>2. Scope(input[r]) \in Scopes
  BY <1>1 DEF Scope, Scopes
<1>3. QED  BY <1>1, <1>2 DEF Stored, Texts, Records

(***************************************************************************)
(* So has what is promoted.                                                *)
(***************************************************************************)
LEMMA PromotedType ==
  ASSUME TypeOK, NEW r \in Req, pc[r] # "new", NEW s \in stored
  PROVE  Promoted(s, r) \in Records
<1>1. input[r] \in Input /\ s \in Records
  BY DEF TypeOK, Records, Texts
<1>2. input[r].text \in Texts
  BY <1>1 DEF Texts
<1>3. QED  BY <1>1, <1>2 DEF Promoted, Records

\* How a call that reached the upstream ends, its reply read.
CallEnds(r, read) ==
  \/ \E tiers \in {{"L1"}, {"L1", "L2"}} :
       /\ stored' = stored \cup {Stored(r, tier, read) : tier \in tiers}
       /\ Answer(r, 200, read, r)
  \/ Answer(r, 500, read, r) /\ stored' = stored

(***************************************************************************)
(* Every step keeps every variable in its type.                            *)
(***************************************************************************)
LEMMA NextType == TypeOK /\ [Next]_vars => TypeOK'
<1> SUFFICES ASSUME TypeOK, [Next]_vars PROVE TypeOK'
  OBVIOUS
<1>0. /\ pc \in [Req -> Labels] /\ input \in [Req -> Input \cup {None}]
      /\ buffered \in [Req -> Nat] /\ sent \in [Req -> Nat \cup {None}]
      /\ replied \in [Req -> ReplyLengths \cup {None}]
      /\ stored \subseteq Records
      /\ requests \in [Tenants -> RB!Bucket] /\ clock \in Nat
      /\ now \in [Req -> Nat] /\ rewound \in [Tenants -> Nat]
      /\ answer \in [Req -> {None} \cup Answers]
  BY DEF TypeOK, Labels, Texts, Tenants, Answers, Records
<1> DEFINE
      Typed == /\ pc' \in [Req -> Labels] /\ input' \in [Req -> Input \cup {None}]
               /\ \A s \in Req : pc'[s] # "new" => input'[s] \in Input
               /\ buffered' \in [Req -> Nat] /\ sent' \in [Req -> Nat \cup {None}]
               /\ replied' \in [Req -> ReplyLengths \cup {None}]
               /\ stored' \subseteq Records
               /\ requests' \in [Tenants -> RB!Bucket] /\ clock' \in Nat
               /\ now' \in [Req -> Nat] /\ rewound' \in [Tenants -> Nat]
               /\ answer' \in [Req -> {None} \cup Answers]
<1>1. SUFFICES Typed
  BY DEF TypeOK, Labels, Texts, Tenants, Answers, Records
<1>2. \A s \in Req : pc[s] # "new" => input[s] \in Input
  BY DEF TypeOK
<1>3. MaxBody \in Nat /\ MaxBody + 1 \in Nat /\ ReplyLengths \subseteq Nat
  BY FrontDoorAssumption
<1>4. ASSUME NEW r \in Req, NEW in \in Input, Receive(r, in) PROVE Typed
  <2>1. in.length \in Nat
    BY FrontDoorAssumption
  <2>2. Least(in.length, MaxBody + 1) \in Nat
    BY <1>3, <2>1, LeastFacts
  <2>3. buffered' \in [Req -> Nat]
    <3>1. \E n \in Nat : buffered' = [buffered EXCEPT ![r] = n]
      BY <1>4, <2>1, <2>2 DEF Receive, ReadOf
    <3>2. QED  BY <1>0, <3>1
  <2>4. /\ pc' \in [Req -> Labels] /\ \A s \in Req : s # r => pc'[s] = pc[s]
    <3>1. Goto(r, "forward") \/ Goto(r, "admit")
      BY <1>4 DEF Receive
    <3>2. QED  BY <3>1, GotoFacts DEF Labels
  <2>5. input' = [input EXCEPT ![r] = in]
    BY <1>4 DEF Receive
  <2>6. input' \in [Req -> Input \cup {None}] /\ \A s \in Req : pc'[s] # "new" => input'[s] \in Input
    BY <1>0, <1>2, <2>4, <2>5
  <2>7. QED  BY <1>0, <1>4, <2>3, <2>4, <2>6 DEF Receive, limiters
<1>5. ASSUME NEW r \in Req, Admit(r) PROVE Typed
  <2>1. pc[r] # "new" /\ (Goto(r, "parse") \/ Goto(r, "timed"))
    BY <1>5 DEF Admit
  <2>2. pc' \in [Req -> Labels] /\ \A s \in Req : s # r => pc'[s] = pc[s]
    BY <2>1, GotoFacts DEF Labels
  <2>3. now' \in [Req -> Nat]
    BY <1>0, <1>5 DEF Admit
  <2>4. QED  BY <1>0, <1>2, <1>5, <2>1, <2>2, <2>3 DEF Admit
<1>5a. ASSUME NEW r \in Req, Spend(r) PROVE Typed
  <2> DEFINE t == input[r].tenant
  <2>1. /\ input[r] \in Input /\ t \in Tenants /\ pc[r] # "new"
        /\ buffered[r] \in Nat /\ now[r] \in Nat
    BY <1>0, <1>2, <1>5a DEF Spend, Tenants
  <2>2. requests' \in [Tenants -> RB!Bucket] /\ rewound' \in [Tenants -> Nat]
    <3>1. CASE requests' = requests /\ rewound' = rewound
      BY <1>0, <3>1
    <3>2. CASE /\ RB!Grants(requests[t], now[r], buffered[r])
               /\ requests' = Charged(r, t)
               /\ rewound' = [rewound EXCEPT ![t] = @ + Behind(r, t)]
      <4>2. RB!Spend(requests[t], now[r], buffered[r]) \in RB!Bucket
        BY <1>0, <2>1, <3>2, SpendType
      <4>3. requests[t].last \in Nat
        BY <1>0, <2>1 DEF RB!Bucket
      <4>4. Behind(r, t) \in Nat
        BY <2>1, <4>3 DEF Behind
      <4>5. QED  BY <1>0, <2>1, <3>2, <4>2, <4>4 DEF Charged
    <3>3. QED  BY <1>5a, <3>1, <3>2 DEF Spend
  <2>3. MovedOn(r)
    <3>1. CASE Goto(r, "parse") /\ UNCHANGED answer
      BY <3>1, GotoMoves DEF Labels
    <3>2. CASE Answer(r, 429, 0, None)
      BY <3>2, AnswerMoves
    <3>3. QED  BY <1>5a, <3>1, <3>2 DEF Spend
  <2>4. QED  BY <1>0, <1>2, <1>5a, <2>1, <2>2, <2>3 DEF Spend, MovedOn
<1>6. ASSUME NEW r \in Req, Parse(r) PROVE Typed
  <2>1. pc[r] # "new" /\ (Goto(r, "serve") \/ Goto(r, "forward"))
    BY <1>6 DEF Parse
  <2>2. pc' \in [Req -> Labels] /\ \A s \in Req : s # r => pc'[s] = pc[s]
    BY <2>1, GotoFacts DEF Labels
  <2>3. QED  BY <1>0, <1>2, <1>6, <2>1, <2>2 DEF Parse, limiters
<1>7. ASSUME NEW r \in Req, Serve(r) PROVE Typed
  <2>1. MovedOn(r)
    <3>1. CASE Goto(r, "call") /\ UNCHANGED answer
      BY <3>1, GotoMoves DEF Labels
    <3>2. ASSUME NEW s \in stored, Answer(r, 200, s.length, s.of) PROVE MovedOn(r)
      <4>1. s.length \in Nat /\ s.of \in Req
        BY <1>0 DEF Records
      <4>2. QED  BY <3>2, <4>1, AnswerMoves
    <3>3. QED  BY <1>7, <3>1, <3>2 DEF Serve
  <2>2. stored' \subseteq Records
    <3>1. pc[r] # "new"
      BY <1>7 DEF Serve
    <3>2. QED  BY <1>0, <1>7, <3>1, PromotedType DEF Serve
  <2>3. pc[r] # "new"
    BY <1>7 DEF Serve
  <2>4. QED  BY <1>0, <1>2, <1>7, <2>1, <2>2, <2>3 DEF Serve, MovedOn, limiters
<1>8. ASSUME NEW r \in Req, CallFails(r) \/ ForwardFails(r) PROVE Typed
  <2>1. Answer(r, 502, 0, None) /\ sent' = [sent EXCEPT ![r] = buffered[r]] /\ pc[r] # "new"
    BY <1>8 DEF CallFails, ForwardFails
  <2>2. MovedOn(r)
    BY <2>1, AnswerMoves
  <2>3. QED  BY <1>0, <1>2, <1>8, <2>1, <2>2 DEF CallFails, ForwardFails, MovedOn, limiters
<1>9. ASSUME NEW r \in Req, CallUpstream(r) PROVE Typed
  <2>1. PICK n \in ReplyLengths :
          /\ replied' = [replied EXCEPT ![r] = n]
          /\ CallEnds(r, Least(n, MaxBody))
    BY <1>9 DEF CallUpstream, CallEnds
  <2>2. Least(n, MaxBody) \in Nat /\ pc[r] # "new"
    BY <1>3, <1>9, LeastFacts DEF CallUpstream
  <2>3. stored' \subseteq Records
    BY <1>0, <2>1, <2>2, StoredType DEF CallEnds
  <2>4. MovedOn(r)
    BY <2>1, <2>2, AnswerMoves DEF CallEnds
  <2>5. sent' \in [Req -> Nat \cup {None}] /\ replied' \in [Req -> ReplyLengths \cup {None}]
    BY <1>0, <1>9, <2>1 DEF CallUpstream
  <2>6. QED  BY <1>0, <1>2, <1>9, <2>2, <2>3, <2>4, <2>5 DEF CallUpstream, MovedOn, limiters
<1>10. ASSUME NEW r \in Req, Forward(r) PROVE Typed
  <2>1. PICK n \in ReplyLengths : replied' = [replied EXCEPT ![r] = n] /\ Answer(r, 200, n, r)
    BY <1>10 DEF Forward
  <2>2. n \in Nat /\ MovedOn(r)
    BY <1>3, <2>1, AnswerMoves
  <2>3. sent' \in [Req -> Nat \cup {None}] /\ replied' \in [Req -> ReplyLengths \cup {None}]
    BY <1>0, <1>10, <2>1 DEF Forward
  <2>4. QED  BY <1>0, <1>2, <1>10, <2>2, <2>3 DEF Forward, MovedOn, limiters
<1>11. CASE Tick
  BY <1>0, <1>2, <1>11 DEF Tick, limiters
<1>12. CASE UNCHANGED vars
  BY <1>0, <1>2, <1>12 DEF vars, limiters
<1>13. QED
  BY <1>4, <1>5, <1>6, <1>7, <1>8, <1>9, <1>10, <1>11, <1>12, <1>5a DEF Next, Finished

(***************************************************************************)
(* Every variable has its type, and a request past its start has an input. *)
(***************************************************************************)
THEOREM TypeCorrect == Spec => []TypeOK
<1>1. Init => TypeOK
  BY FrontDoorAssumption DEF Init, TypeOK, RB!Full, RB!Bucket
<1>2. QED  BY <1>1, NextType, PTL DEF Spec

-----------------------------------------------------------------------------
\* What happens to one request.
StepOf(r) ==
  \/ \E in \in Input : Receive(r, in)
  \/ Admit(r) \/ Spend(r) \/ Parse(r) \/ Serve(r)
  \/ CallFails(r) \/ CallUpstream(r) \/ Forward(r) \/ ForwardFails(r)

Unchanged(s) == /\ pc'[s] = pc[s] /\ input'[s] = input[s] /\ buffered'[s] = buffered[s]
                /\ sent'[s] = sent[s] /\ answer'[s] = answer[s] /\ now'[s] = now[s]

(***************************************************************************)
(* A step of one request leaves the others alone.                          *)
(***************************************************************************)
LEMMA OthersUnchanged ==
  ASSUME TypeOK, NEW r \in Req, StepOf(r), NEW s \in Req, s # r
  PROVE  Unchanged(s)
<1>1. ASSUME NEW l, Goto(r, l) PROVE pc'[s] = pc[s]
  BY <1>1 DEF Goto, TypeOK
<1>2. ASSUME NEW status, NEW length, NEW from, Answer(r, status, length, from)
      PROVE  pc'[s] = pc[s] /\ answer'[s] = answer[s]
  BY <1>1, <1>2 DEF Answer, TypeOK
<1>3. ASSUME NEW in \in Input, Receive(r, in) PROVE Unchanged(s)
  BY <1>1, <1>3 DEF Receive, Unchanged, TypeOK, limiters
<1>4. CASE Admit(r) \/ Spend(r)
  BY <1>1, <1>2, <1>4 DEF Admit, Spend, Unchanged, TypeOK
<1>8. CASE Parse(r) \/ Serve(r)
  BY <1>1, <1>2, <1>8 DEF Parse, Serve, Unchanged, limiters
<1>5. CASE CallFails(r) \/ CallUpstream(r)
  BY <1>2, <1>5 DEF CallFails, CallUpstream, Unchanged, TypeOK, limiters
<1>6. CASE Forward(r) \/ ForwardFails(r)
  BY <1>2, <1>6 DEF Forward, ForwardFails, Unchanged, TypeOK, limiters
<1>7. QED  BY <1>3, <1>4, <1>5, <1>6, <1>8 DEF StepOf

(***************************************************************************)
(* A request that is answered stays as it is.                              *)
(***************************************************************************)
LEMMA DoneStays ==
  ASSUME TypeOK, NEW r \in Req, StepOf(r), NEW s \in Req, pc[s] = "done"
  PROVE  Unchanged(s)
<1>1. pc[r] # "done"
  BY DEF StepOf, Receive, Admit, Spend, Parse, Serve, CallFails, CallUpstream, Forward, ForwardFails
<1>2. QED  BY <1>1, OthersUnchanged

(***************************************************************************)
(* What an answer is made of.                                              *)
(***************************************************************************)
LEMMA AnswerIs ==
  ASSUME TypeOK, NEW r \in Req, NEW status, NEW length, NEW from, Answer(r, status, length, from)
  PROVE  pc'[r] = "done" /\ answer'[r].status = status /\ answer'[r].from = from
BY DEF Answer, Goto, TypeOK

\* The strengthening.  On the way to the cache a request is whole and fully
\* buffered; what is forwarded was not for the cache; an answer from the cache
\* came from an answered request that may answer this one.
FlowOf(r) ==
  /\ pc[r] # "done" => sent[r] = None
  /\ pc[r] \in {"admit", "timed", "parse", "serve", "call"} =>
       Whole(input[r]) /\ buffered[r] = input[r].length
  /\ pc[r] \in {"serve", "call"} => input[r].kind = "chat"
  /\ pc[r] = "forward" => ~(Whole(input[r]) /\ input[r].kind = "chat")
  /\ Served(r) /\ answer[r].from # r =>
       /\ sent[r] = None
       /\ answer[r].from \in Req /\ pc[answer[r].from] = "done"
       /\ MayAnswer(Asked(input[r]), Asked(input[answer[r].from]))

\* And what is stored was made by an answered request, for its own scope; an
\* entry has its text, a record its text or one it is alike to.
Kept(s) ==
  /\ s.of \in Req /\ pc[s.of] = "done" /\ answer[s.of].status = 200
  /\ Whole(input[s.of]) /\ input[s.of].kind = "chat" /\ sent[s.of] = input[s.of].length
  /\ s.scope = Scope(input[s.of])
  /\ s.text = input[s.of].text \/ (s.tier = "L1" /\ Alike(s.text, input[s.of].text))

Flow == (\A r \in Req : FlowOf(r)) /\ (\A s \in stored : Kept(s))

(***************************************************************************)
(* Requests and entries that a step does not touch stay sound.             *)
(***************************************************************************)
LEMMA OthersFlow ==
  ASSUME TypeOK, Flow, NEW r \in Req, StepOf(r), NEW s \in Req, s # r
  PROVE  FlowOf(s)'
<1>1. Unchanged(s) /\ FlowOf(s)
  BY OthersUnchanged DEF Flow
<1>2. CASE Served(s) /\ answer[s].from # s
  <2>1. answer[s].from \in Req /\ pc[answer[s].from] = "done"
    BY <1>1, <1>2 DEF FlowOf
  <2>2. Unchanged(answer[s].from)
    BY <2>1, DoneStays
  <2>3. QED  BY <1>1, <1>2, <2>1, <2>2 DEF Unchanged, FlowOf, Served
<1>3. CASE ~(Served(s) /\ answer[s].from # s)
  BY <1>1, <1>3 DEF Unchanged, FlowOf, Served
<1>4. QED  BY <1>2, <1>3

(***************************************************************************)
(* So do the entries.                                                      *)
(***************************************************************************)
LEMMA KeptStays ==
  ASSUME TypeOK, Flow, NEW r \in Req, StepOf(r), NEW s \in stored
  PROVE  Kept(s)'
<1>1. Kept(s)
  BY DEF Flow
<1>2. Unchanged(s.of)
  BY <1>1, DoneStays DEF Kept
<1>3. QED  BY <1>1, <1>2 DEF Unchanged, Kept

(***************************************************************************)
(* A body that is read to its end within the cap is buffered whole; what   *)
(* is not goes to the reverse proxy.                                       *)
(***************************************************************************)
LEMMA ReceiveFlow ==
  ASSUME TypeOK, Flow, NEW r \in Req, NEW in \in Input, Receive(r, in)
  PROVE  FlowOf(r)' /\ stored' = stored
<1>1. input'[r] = in /\ sent'[r] = None /\ answer' = answer /\ stored' = stored
  BY DEF Receive, TypeOK, Flow, FlowOf
<1>2. CASE Goto(r, "forward") /\ ~Whole(in)
  BY <1>1, <1>2 DEF Goto, TypeOK, FlowOf, Served
<1>3. CASE in.post /\ ~in.breaks
  <2>1. in.length \in Nat /\ MaxBody \in Nat
    BY FrontDoorAssumption
  <2>2. buffered'[r] = ReadOf(in)
    BY <1>3 DEF Receive, TypeOK
  <2>3. CASE TooLarge(in)
    <3>1. Goto(r, "forward") /\ ~Whole(in)
      BY <1>3, <2>1, <2>3 DEF Receive, TooLarge, ReadOf, Least, Whole
    <3>2. QED  BY <1>2, <3>1
  <2>4. CASE ~TooLarge(in)
    <3>1. Goto(r, "admit") /\ Whole(in)
      BY <1>3, <2>1, <2>4 DEF Receive, TooLarge, ReadOf, Least, Whole
    <3>2. buffered'[r] = in.length
      BY <2>1, <2>2, <2>4 DEF TooLarge, ReadOf, Least
    <3>3. QED  BY <1>1, <3>1, <3>2 DEF Goto, TypeOK, FlowOf, Served
  <2>5. QED  BY <2>3, <2>4
<1>4. QED  BY <1>1, <1>2, <1>3 DEF Receive, Whole

(***************************************************************************)
(* The limiter admits or refuses, and the parser sends on to the cache     *)
(* only what is a chat.                                                    *)
(***************************************************************************)
LEMMA AdmitFlow ==
  ASSUME TypeOK, Flow, NEW r \in Req, Admit(r) \/ Spend(r) \/ Parse(r)
  PROVE  FlowOf(r)' /\ stored' = stored
<1>1. /\ FlowOf(r) /\ pc[r] \in {"admit", "timed", "parse"}
      /\ input' = input /\ buffered' = buffered /\ sent' = sent /\ stored' = stored
  BY DEF Flow, Admit, Spend, Parse
<1>2. CASE Answer(r, 429, 0, None)
  BY <1>1, <1>2, AnswerIs DEF FlowOf, Served
<1>7. CASE Goto(r, "timed") /\ pc[r] = "admit"
  BY <1>1, <1>7 DEF Goto, TypeOK, FlowOf, Served
<1>3. CASE Goto(r, "parse") /\ pc[r] \in {"admit", "timed"}
  BY <1>1, <1>3 DEF Goto, TypeOK, FlowOf, Served
<1>4. CASE Goto(r, "serve") /\ input[r].kind = "chat"
  BY <1>1, <1>4 DEF Goto, TypeOK, FlowOf, Served
<1>5. CASE Goto(r, "forward") /\ input[r].kind # "chat"
  BY <1>1, <1>5 DEF Goto, TypeOK, FlowOf, Served
<1>6. QED  BY <1>1, <1>2, <1>3, <1>4, <1>5, <1>7 DEF Admit, Spend, Parse

\* A lookup of r that hits s.
Hits(r, s) ==
  /\ \/ Exact(s, r) /\ stored' = stored
     \/ Similar(s, r) /\ stored' = stored \cup {Promoted(s, r)}
  /\ Answer(r, 200, s.length, s.of)

(***************************************************************************)
(* A lookup hits, or comes to nothing.                                     *)
(***************************************************************************)
LEMMA ServeIs ==
  ASSUME NEW r \in Req, Serve(r)
  PROVE  (\E s \in stored : Hits(r, s)) \/ (Goto(r, "call") /\ stored' = stored)
BY DEF Serve, Hits

(***************************************************************************)
(* What a promotion changes.                                               *)
(***************************************************************************)
LEMMA PromotedIs ==
  ASSUME TypeOK, NEW r \in Req, NEW s \in stored
  PROVE  /\ Promoted(s, r).of = s.of /\ Promoted(s, r).scope = s.scope
         /\ Promoted(s, r).tier = "L1" /\ Promoted(s, r).text = input[r].text
<1>1. s \in Records
  BY DEF TypeOK, Records, Texts
<1>2. QED  BY <1>1 DEF Promoted, Records

(***************************************************************************)
(* What hits is kept, and its maker may answer the request.                *)
(***************************************************************************)
LEMMA HitFacts ==
  ASSUME TypeOK, Flow, NEW r \in Req, NEW s \in stored, Hits(r, s)
  PROVE  /\ Kept(s) /\ s.scope = Scope(input[r])
         /\ MayAnswer(Asked(input[r]), Asked(input[s.of]))
<1>1. Kept(s)
  BY DEF Flow
<1>2. CASE Exact(s, r)
  <2>1. s.text = input[r].text /\ s.scope = Scope(input[r])
    BY <1>2 DEF Exact
  <2>2. /\ s.scope = Scope(input[s.of])
        /\ s.text = input[s.of].text \/ Alike(s.text, input[s.of].text)
    BY <1>1 DEF Kept
  <2>3. /\ Scope(input[r]) = Scope(input[s.of])
        /\ input[r].text = input[s.of].text \/ Alike(input[r].text, input[s.of].text)
    BY ONLY <2>1, <2>2
  <2>4. QED  BY <1>1, <2>1, <2>3 DEF MayAnswer, Asked
<1>3. CASE Similar(s, r)
  <2>1. s.scope = Scope(input[r]) /\ Alike(input[r].text, s.text) /\ s.tier = "L2"
    BY <1>3 DEF Similar
  <2>2. s.scope = Scope(input[s.of]) /\ s.text = input[s.of].text
    BY <1>1, <2>1 DEF Kept
  <2>3. Scope(input[r]) = Scope(input[s.of]) /\ Alike(input[r].text, input[s.of].text)
    BY ONLY <2>1, <2>2
  <2>4. QED  BY <1>1, <2>1, <2>3 DEF MayAnswer, Asked
<1>4. QED  BY <1>2, <1>3 DEF Hits

(***************************************************************************)
(* What a hit leaves in the cache was made by whom the hit was.            *)
(***************************************************************************)
LEMMA HitLeaves ==
  ASSUME TypeOK, Flow, NEW r \in Req, NEW s \in stored, Hits(r, s), NEW e \in stored' \ stored
  PROVE  /\ e.of = s.of /\ e.scope = Scope(input[s.of])
         /\ e.text = input[s.of].text \/ (e.tier = "L1" /\ Alike(e.text, input[s.of].text))
<1>1. e = Promoted(s, r) /\ Similar(s, r)
  BY DEF Hits
<1>2. /\ e.of = s.of /\ e.scope = s.scope /\ e.tier = "L1" /\ e.text = input[r].text
  BY <1>1, PromotedIs
<1>3. s.scope = Scope(input[s.of]) /\ s.text = input[s.of].text
  BY <1>1 DEF Flow, Kept, Similar
<1>4. Alike(input[r].text, s.text)
  BY <1>1 DEF Similar
<1>5. QED  BY ONLY <1>2, <1>3, <1>4

(***************************************************************************)
(* The cache answers with what a request that may answer this one stored,  *)
(* and a promotion is such an answer too.                                  *)
(***************************************************************************)
LEMMA ServeFlow ==
  ASSUME TypeOK, Flow, NEW r \in Req, Serve(r)
  PROVE  FlowOf(r)' /\ (\A e \in stored' \ stored : Kept(e)')
<1>1. /\ FlowOf(r) /\ pc[r] = "serve" /\ StepOf(r)
      /\ input' = input /\ buffered' = buffered /\ sent' = sent
  BY DEF Flow, Serve, StepOf
<1>2. CASE Goto(r, "call") /\ stored' = stored
  BY <1>1, <1>2 DEF Goto, TypeOK, FlowOf, Served
<1>3. ASSUME NEW s \in stored, Hits(r, s)
      PROVE  FlowOf(r)' /\ (\A e \in stored' \ stored : Kept(e)')
  <2>1. /\ Kept(s) /\ s.scope = Scope(input[r])
        /\ MayAnswer(Asked(input[r]), Asked(input[s.of]))
    BY <1>3, HitFacts
  <2>2. pc'[r] = "done" /\ answer'[r].from = s.of
    BY <1>3, AnswerIs DEF Hits
  <2>3. Unchanged(s.of) /\ s.of \in Req /\ pc[s.of] = "done"
    BY <1>1, <2>1, DoneStays DEF Kept
  <2>4. FlowOf(r)'
    BY <1>1, <2>1, <2>2, <2>3 DEF FlowOf, Unchanged
  <2>5. ASSUME NEW e \in stored' \ stored PROVE Kept(e)'
    <3>1. /\ e.of = s.of /\ e.scope = Scope(input[s.of])
          /\ e.text = input[s.of].text \/ (e.tier = "L1" /\ Alike(e.text, input[s.of].text))
      BY <1>3, <2>5, HitLeaves
    <3>2. QED  BY <2>1, <2>3, <3>1 DEF Kept, Unchanged
  <2>6. QED  BY <2>4, <2>5
<1>4. QED  BY <1>2, <1>3, ServeIs

(***************************************************************************)
(* The upstream was sent the whole body of what its success is stored for. *)
(***************************************************************************)
LEMMA CallFlow ==
  ASSUME TypeOK, Flow, NEW r \in Req, CallUpstream(r)
  PROVE  FlowOf(r)' /\ (\A s \in stored' \ stored : Kept(s)' /\ s.of = r)
<1>1. /\ FlowOf(r) /\ pc[r] = "call" /\ input' = input /\ sent'[r] = buffered[r]
  BY DEF Flow, CallUpstream, TypeOK
<1>2. PICK n \in ReplyLengths : CallEnds(r, Least(n, MaxBody))
  BY DEF CallUpstream, CallEnds
<1>3. pc'[r] = "done" /\ answer'[r].from = r
  BY <1>2, AnswerIs DEF CallEnds
<1>4. FlowOf(r)'
  BY <1>1, <1>3 DEF FlowOf
<1>5. ASSUME NEW s \in stored' \ stored PROVE Kept(s)' /\ s.of = r
  <2>1. PICK tier \in {"L1", "L2"} : s = Stored(r, tier, Least(n, MaxBody))
    BY <1>2, <1>5 DEF CallEnds
  <2>2. answer'[r].status = 200
    BY <1>2, <1>5, AnswerIs DEF CallEnds
  <2>3. s.of = r /\ s.scope = Scope(input[r]) /\ s.text = input[r].text
    BY <2>1 DEF Stored
  <2>4. QED  BY <1>1, <1>3, <2>2, <2>3 DEF FlowOf, Kept
<1>6. QED  BY <1>4, <1>5

(***************************************************************************)
(* The other answers are the request's own.                                *)
(***************************************************************************)
LEMMA ForwardFlow ==
  ASSUME TypeOK, Flow, NEW r \in Req, CallFails(r) \/ Forward(r) \/ ForwardFails(r)
  PROVE  FlowOf(r)' /\ stored' = stored
<1>1. stored' = stored
  BY DEF CallFails, Forward, ForwardFails
<1>2. CASE CallFails(r) \/ ForwardFails(r)
  <2>1. pc'[r] = "done" /\ answer'[r].status = 502
    BY <1>2, AnswerIs DEF CallFails, ForwardFails
  <2>2. QED  BY <1>1, <2>1 DEF FlowOf, Served
<1>3. CASE Forward(r)
  <2>1. pc'[r] = "done" /\ answer'[r].from = r
    BY <1>3, AnswerIs DEF Forward
  <2>2. QED  BY <1>1, <2>1 DEF FlowOf, Served
<1>4. QED  BY <1>2, <1>3

(***************************************************************************)
(* Every step keeps requests and entries sound.                            *)
(***************************************************************************)
LEMMA NextFlow == TypeOK /\ Flow /\ [Next]_vars => Flow'
<1> SUFFICES ASSUME TypeOK, Flow, [Next]_vars PROVE Flow'
  OBVIOUS
<1>1. ASSUME NEW r \in Req, StepOf(r) PROVE Flow'
  <2>1. FlowOf(r)' /\ (stored' = stored \/ (\A s \in stored' \ stored : Kept(s)'))
    BY <1>1, ReceiveFlow, AdmitFlow, ServeFlow, CallFlow, ForwardFlow DEF StepOf
  <2>2. \A s \in Req : FlowOf(s)'
    BY <1>1, <2>1, OthersFlow
  <2>3. \A s \in stored' : Kept(s)'
    BY <1>1, <2>1, KeptStays
  <2>4. QED  BY <2>2, <2>3 DEF Flow
<1>2. CASE Tick \/ UNCHANGED vars
  BY <1>2 DEF Tick, vars, Flow, FlowOf, Kept, Served
<1>3. QED  BY <1>1, <1>2 DEF Next, StepOf, Finished

(***************************************************************************)
(* The invariant of the front door.                                        *)
(***************************************************************************)
LEMMA Invariant == Spec => []Flow
<1>1. Init => Flow
  BY DEF Init, Flow, FlowOf, Served
<1>2. QED  BY <1>1, NextFlow, TypeCorrect, PTL DEF Spec

(***************************************************************************)
(* A cached answer was asked for with the whole body of the request that   *)
(* made it, and a request answered from the cache asked nobody.            *)
(***************************************************************************)
THEOREM OnlyWholeRequestsFill == Spec => []CachedFromWholeRequests
<1>1. Flow => CachedFromWholeRequests
  BY DEF Flow, FlowOf, Kept, CachedFromWholeRequests
<1>2. QED  BY <1>1, Invariant, PTL

(***************************************************************************)
(* A request that opted out is served nothing another tenant, or a sharing *)
(* request, had stored; a sharing one nothing that an opted-out one had.   *)
(***************************************************************************)
THEOREM OptOutHolds == Spec => []OptOutIsRespected
<1>1. TypeOK /\ Flow => OptOutIsRespected
  <2> SUFFICES ASSUME TypeOK, Flow, NEW r \in Req, Served(r), answer[r].from # r,
                      Private(input[r]) \/ Private(input[answer[r].from])
               PROVE  /\ Private(input[r]) /\ Private(input[answer[r].from])
                      /\ input[answer[r].from].tenant = input[r].tenant
    BY DEF OptOutIsRespected
  <2> DEFINE m == answer[r].from
  <2>1. m \in Req /\ pc[m] = "done" /\ pc[r] = "done" /\ Scope(input[r]) = Scope(input[m])
    BY DEF Flow, FlowOf, Served, MayAnswer, Asked
  <2>2. input[r] \in Input /\ input[m] \in Input
    BY <2>1 DEF TypeOK
  <2>3. input[r].tenant # Shared /\ input[m].tenant # Shared
    BY <2>2, TenantAssumption
  <2> HIDE DEF m
  <2>4. /\ Private(input[r]) /\ Private(input[m])
        /\ input[m].tenant = input[r].tenant
    BY <2>1, <2>3 DEF Private, Scope, m
  <2>5. QED  BY <2>4 DEF m
<1>2. QED  BY <1>1, Invariant, TypeCorrect, PTL

-----------------------------------------------------------------------------
\* The variables of CachePromise, as the front door has them.
AskedOf == [r \in Req |-> IF AtTheCache(r) THEN Asked(input[r]) ELSE None]
MadeOf  == {s.of : s \in stored}
GotOf   == [r \in Req |-> IF ~AtTheCache(r) \/ pc[r] # "done" THEN None
                          ELSE IF answer[r].from = None THEN r ELSE answer[r].from]

(***************************************************************************)
(* The promise's view of a request changes with the request only.          *)
(***************************************************************************)
LEMMA ViewOfOthers ==
  ASSUME TypeOK, NEW r \in Req, StepOf(r)
  PROVE  /\ AskedOf' = [AskedOf EXCEPT ![r] = AskedOf'[r]]
         /\ GotOf' = [GotOf EXCEPT ![r] = GotOf'[r]]
<1>1. ASSUME NEW s \in Req, s # r PROVE AskedOf'[s] = AskedOf[s] /\ GotOf'[s] = GotOf[s]
  <2>1. Unchanged(s)
    BY <1>1, OthersUnchanged
  <2>2. AtTheCache(s)' = AtTheCache(s)
    BY <2>1 DEF Unchanged, AtTheCache
  <2>3. QED  BY <1>1, <2>1, <2>2 DEF Unchanged, AskedOf, GotOf
<1>2. QED  BY <1>1 DEF AskedOf, GotOf

\* The variables of CachePromise, as FrontDoor maps them.
PromiseVars == <<AskedOf, MadeOf, GotOf>>

(***************************************************************************)
(* A step that changes neither what r asked nor what it got, and stores    *)
(* nothing, is no step of the promise.                                     *)
(***************************************************************************)
LEMMA NoStep ==
  ASSUME TypeOK, NEW r \in Req, StepOf(r), stored' = stored,
         AskedOf'[r] = AskedOf[r], GotOf'[r] = GotOf[r]
  PROVE  UNCHANGED PromiseVars
<1>1. /\ AskedOf' = [AskedOf EXCEPT ![r] = AskedOf[r]]
      /\ GotOf' = [GotOf EXCEPT ![r] = GotOf[r]]
  BY ViewOfOthers
<1>2. ASSUME NEW f, NEW g, f = [s \in Req |-> g[s]] PROVE [f EXCEPT ![r] = f[r]] = f
  BY <1>2
<1>3. AskedOf = [s \in Req |-> AskedOf[s]] /\ GotOf = [s \in Req |-> GotOf[s]]
  BY DEF AskedOf, GotOf
<1>4. AskedOf' = AskedOf /\ GotOf' = GotOf
  BY <1>1, <1>2, <1>3
<1>5. QED  BY <1>4 DEF PromiseVars, MadeOf

(***************************************************************************)
(* Before the cache, and where there is none, the promise sees nothing.    *)
(***************************************************************************)
LEMMA Outside ==
  ASSUME NEW r \in Req, ~AtTheCache(r)
  PROVE  AskedOf[r] = None /\ GotOf[r] = None
BY DEF AskedOf, GotOf

(***************************************************************************)
(* A request that reaches the cache asks.                                  *)
(***************************************************************************)
LEMMA ParseKeeps ==
  ASSUME TypeOK, Flow, NEW r \in Req, Parse(r)
  PROVE  Promise!Start(r) \/ UNCHANGED PromiseVars
<1>1. /\ pc[r] = "parse" /\ stored' = stored /\ input' = input /\ StepOf(r)
      /\ input[r] \in Input /\ ~AtTheCache(r)
  BY DEF Parse, StepOf, TypeOK, AtTheCache
<1>2. CASE Goto(r, "forward")
  <2>1. ~AtTheCache(r)'
    BY <1>2 DEF Goto, TypeOK, AtTheCache
  <2>2. QED  BY <1>1, <2>1, Outside, NoStep DEF AskedOf, GotOf
<1>3. CASE Goto(r, "serve")
  <2>1. AtTheCache(r)' /\ pc'[r] = "serve"
    BY <1>3 DEF Goto, TypeOK, AtTheCache
  <2>2. AskedOf'[r] = Asked(input[r]) /\ GotOf'[r] = None
    BY <1>1, <2>1 DEF AskedOf, GotOf
  <2>3. AskedOf[r] = None /\ GotOf' = GotOf
    <3>1. AskedOf[r] = None /\ GotOf[r] = None
      BY <1>1, Outside
    <3>2. GotOf' = [GotOf EXCEPT ![r] = GotOf[r]]
      BY <1>1, <2>2, <3>1, ViewOfOthers
    <3>3. GotOf = [s \in Req |-> GotOf[s]]
      BY DEF GotOf
    <3>4. QED  BY <3>1, <3>2, <3>3
  <2>4. Asked(input[r]) \in Cacheable
    BY <1>1 DEF Cacheable
  <2>5. AskedOf' = [AskedOf EXCEPT ![r] = Asked(input[r])]
    BY <1>1, <2>2, ViewOfOthers
  <2>6. MadeOf' = MadeOf
    BY <1>1 DEF MadeOf
  <2>7. QED  BY <2>3, <2>4, <2>5, <2>6
             DEF Promise!Start, Promise!Ask, AskedOf, MadeOf, GotOf
<1>4. QED  BY <1>2, <1>3 DEF Parse

(***************************************************************************)
(* What stands before a request at the cache.                              *)
(***************************************************************************)
LEMMA AtCacheFacts ==
  ASSUME TypeOK, NEW r \in Req, pc[r] \in {"serve", "call"}
  PROVE  /\ AskedOf[r] = Asked(input[r]) /\ AskedOf[r] \in Cacheable /\ AskedOf[r] # None
         /\ GotOf[r] = None
<1>1. AtTheCache(r) /\ input[r] \in Input
  BY DEF AtTheCache, TypeOK
<1>2. QED  BY <1>1, TenantAssumption DEF AskedOf, GotOf, Cacheable

(***************************************************************************)
(* What a kept entry's maker asked for.                                    *)
(***************************************************************************)
LEMMA KeptAsked ==
  ASSUME TypeOK, Flow, NEW s \in stored
  PROVE  /\ s.of \in MadeOf /\ AskedOf[s.of] \in Cacheable
         /\ AskedOf[s.of] = Asked(input[s.of])
<1>1. Kept(s)
  BY DEF Flow
<1>2. AtTheCache(s.of) /\ input[s.of] \in Input
  BY <1>1 DEF Kept, AtTheCache, TypeOK
<1>3. QED  BY <1>1, <1>2 DEF Kept, AskedOf, MadeOf, Cacheable, Asked

(***************************************************************************)
(* An answer from the cache is one the promise allows, and promoting it    *)
(* makes nothing new.                                                      *)
(***************************************************************************)
LEMMA ServeKeeps ==
  ASSUME TypeOK, Flow, NEW r \in Req, Serve(r)
  PROVE  Promise!FromKept(r) \/ UNCHANGED PromiseVars
<1>1. /\ pc[r] = "serve" /\ input' = input /\ StepOf(r)
      /\ AskedOf[r] = Asked(input[r]) /\ AskedOf[r] \in Cacheable /\ AskedOf[r] # None
      /\ GotOf[r] = None /\ Whole(input[r]) /\ input[r].kind = "chat"
  BY AtCacheFacts DEF Serve, StepOf, Flow, FlowOf
<1>2. CASE Goto(r, "call") /\ stored' = stored
  <2>1. AtTheCache(r)' /\ pc'[r] = "call"
    BY <1>2 DEF Goto, TypeOK, AtTheCache
  <2>2. AskedOf'[r] = AskedOf[r] /\ GotOf'[r] = GotOf[r]
    BY <1>1, <2>1 DEF AskedOf, GotOf
  <2>3. QED  BY <1>1, <1>2, <2>2, NoStep
<1>3. ASSUME NEW s \in stored, Hits(r, s) PROVE Promise!FromKept(r)
  <2>1. pc'[r] = "done" /\ answer'[r].status = 200 /\ answer'[r].from = s.of
    BY <1>3, AnswerIs DEF Hits
  <2>2. AtTheCache(r)'
    BY <1>1, <2>1 DEF AtTheCache
  <2>3. s.of # None
    BY FrontDoorAssumption DEF Flow, Kept
  <2>4. AskedOf'[r] = AskedOf[r] /\ GotOf'[r] = s.of
    BY <1>1, <2>1, <2>2, <2>3 DEF AskedOf, GotOf
  <2>5. AskedOf' = AskedOf /\ GotOf' = [GotOf EXCEPT ![r] = s.of]
    BY <1>1, <2>4, ViewOfOthers DEF AskedOf
  <2>6. s.of \in MadeOf /\ AskedOf[s.of] \in Cacheable /\ MayAnswer(AskedOf[r], AskedOf[s.of])
    BY <1>1, <1>3, KeptAsked, HitFacts
  <2>7. <<AskedOf[r], AskedOf[s.of]>> \in {p \in Cacheable \X Cacheable : MayAnswer(p[1], p[2])}
    BY <1>1, <2>6
  <2>8. MadeOf' = MadeOf
    <3>1. CASE stored' = stored
      BY <3>1 DEF MadeOf
    <3>2. CASE stored' = stored \cup {Promoted(s, r)}
      BY <3>2, PromotedIs DEF MadeOf
    <3>3. QED  BY <1>3, <3>1, <3>2 DEF Hits
  <2> DEFINE b == s.of
  <2>9. b \in MadeOf /\ GotOf' = [GotOf EXCEPT ![r] = b]
        /\ <<AskedOf[r], AskedOf[b]>> \in {p \in Cacheable \X Cacheable : MayAnswer(p[1], p[2])}
    BY <2>5, <2>6, <2>7
  <2> HIDE DEF b
  <2>10. QED  BY <1>1, <2>5, <2>8, <2>9
              DEF Promise!FromKept, Promise!Get, AskedOf, MadeOf, GotOf
<1>4. QED  BY <1>2, <1>3, ServeIs

(***************************************************************************)
(* A call is the request's own, stored or not.                             *)
(***************************************************************************)
LEMMA CallKeeps ==
  ASSUME TypeOK, Flow, NEW r \in Req, CallFails(r) \/ CallUpstream(r)
  PROVE  Promise!FromUpstream(r)
<1>1. /\ pc[r] = "call" /\ input' = input /\ StepOf(r)
      /\ AskedOf[r] = Asked(input[r]) /\ AskedOf[r] # None /\ GotOf[r] = None
      /\ Whole(input[r]) /\ input[r].kind = "chat"
  BY AtCacheFacts DEF CallFails, CallUpstream, StepOf, Flow, FlowOf
<1>2. pc'[r] = "done" /\ answer'[r].status # 429 /\ answer'[r].from \in {None, r}
  <2>1. CASE CallFails(r)
    BY <2>1, AnswerIs DEF CallFails
  <2>2. CASE CallUpstream(r)
    <3>1. PICK n \in ReplyLengths : CallEnds(r, Least(n, MaxBody))
      BY <2>2 DEF CallUpstream, CallEnds
    <3>2. QED  BY <3>1, AnswerIs DEF CallEnds
  <2>3. QED  BY <2>1, <2>2
<1>3. AtTheCache(r)'
  BY <1>1, <1>2 DEF AtTheCache
<1>4. AskedOf'[r] = AskedOf[r] /\ GotOf'[r] = r
  BY <1>1, <1>2, <1>3 DEF AskedOf, GotOf
<1>5. AskedOf' = AskedOf /\ GotOf' = [GotOf EXCEPT ![r] = r]
  BY <1>1, <1>4, ViewOfOthers DEF AskedOf
<1>6. MadeOf' = MadeOf \/ MadeOf' = MadeOf \cup {r}
  <2>1. CASE stored' = stored
    BY <2>1 DEF MadeOf
  <2>2. ASSUME NEW n, NEW tiers, tiers # {}, stored' = stored \cup {Stored(r, tier, n) : tier \in tiers}
        PROVE  MadeOf' = MadeOf \cup {r}
    <3>1. \A tier \in tiers : Stored(r, tier, n).of = r
      BY DEF Stored
    <3> DEFINE new == {Stored(r, tier, n) : tier \in tiers}
    <3>2. new # {} /\ \A s \in new : s.of = r
      BY <2>2, <3>1
    <3> HIDE DEF new
    <3>3. stored' = stored \cup new
      BY <2>2 DEF new
    <3>4. QED  BY <3>2, <3>3 DEF MadeOf
  <2>3. CASE CallFails(r)
    BY <2>1, <2>3 DEF CallFails
  <2>4. CASE CallUpstream(r)
    <3>1. PICK n \in ReplyLengths : CallEnds(r, Least(n, MaxBody))
      BY <2>4 DEF CallUpstream, CallEnds
    <3>2. CASE stored' = stored
      BY <2>1, <3>2
    <3>3. CASE stored' # stored
      <4>1. PICK tiers \in {{"L1"}, {"L1", "L2"}} :
              stored' = stored \cup {Stored(r, tier, Least(n, MaxBody)) : tier \in tiers}
        BY <3>1, <3>3 DEF CallEnds
      <4>2. tiers # {}
        OBVIOUS
      <4>3. QED  BY <2>2, <4>1, <4>2
    <3>4. QED  BY <3>2, <3>3
  <2>5. QED  BY <2>3, <2>4
<1>7. QED  BY <1>1, <1>5, <1>6
           DEF Promise!FromUpstream, Promise!Make, Promise!Get, AskedOf, MadeOf, GotOf

(***************************************************************************)
(* The steps before the cache and past it are none of the promise's.       *)
(***************************************************************************)
LEMMA OutsideKeeps ==
  ASSUME TypeOK, Flow, NEW r \in Req,
         \/ \E in \in Input : Receive(r, in)
         \/ Admit(r) \/ Spend(r)
         \/ Forward(r) \/ ForwardFails(r)
  PROVE  UNCHANGED PromiseVars
<1>1. /\ pc[r] \in {"new", "admit", "timed", "forward"} /\ stored' = stored /\ StepOf(r)
  BY DEF Receive, Admit, Spend, Forward, ForwardFails, StepOf
<1>2. ~AtTheCache(r)
  BY <1>1 DEF AtTheCache
<1>3. ~AtTheCache(r)'
  <2>1. CASE \E in \in Input : Receive(r, in)
    BY <2>1 DEF Receive, Goto, TypeOK, AtTheCache
  <2>2. CASE Admit(r) \/ Spend(r)
    <3>1. Goto(r, "timed") \/ Goto(r, "parse") \/ Answer(r, 429, 0, None)
      BY <2>2 DEF Admit, Spend
    <3>2. pc'[r] \in {"timed", "parse"} \/ (pc'[r] = "done" /\ answer'[r].status = 429)
      BY <3>1, AnswerIs DEF Goto, TypeOK
    <3>3. QED  BY <3>2 DEF AtTheCache
  <2>3. CASE Forward(r) \/ ForwardFails(r)
    <3>1. input' = input /\ ~(Whole(input[r]) /\ input[r].kind = "chat")
      BY <2>3 DEF Forward, ForwardFails, Flow, FlowOf
    <3>2. pc'[r] = "done"
      BY <2>3, AnswerIs DEF Forward, ForwardFails
    <3>3. QED  BY <3>1, <3>2 DEF AtTheCache
  <2>4. QED  BY <2>1, <2>2, <2>3
<1>4. QED  BY <1>1, <1>2, <1>3, NoStep DEF AskedOf, GotOf

(***************************************************************************)
(* Every step is one of the promise, or none.                              *)
(***************************************************************************)
LEMMA StepKeeps ==
  ASSUME TypeOK, Flow, [Next]_vars
  PROVE  (\E r \in Req : Promise!Start(r) \/ Promise!FromKept(r) \/ Promise!FromUpstream(r))
         \/ UNCHANGED PromiseVars
<1>1. CASE Tick \/ UNCHANGED vars
  <2>1. UNCHANGED <<pc, input, answer, stored>>
    BY <1>1 DEF Tick, vars
  <2>2. QED  BY <2>1 DEF PromiseVars, AskedOf, MadeOf, GotOf, AtTheCache
<1>2. QED
  BY <1>1, ParseKeeps, ServeKeeps, CallKeeps, OutsideKeeps DEF Next, Finished

(***************************************************************************)
(* Over the whole front door the cache keeps its promise: a cacheable      *)
(* request gets one answer, from its own upstream call or from a success   *)
(* an earlier request of the same scope had stored for the same text or    *)
(* for one it is itself alike to, whatever promotions happened in between. *)
(***************************************************************************)
THEOREM PromiseIsKept == Spec => KeepsThePromise
<1>1. Init => Promise!Init
  BY DEF Init, Promise!Init, AtTheCache
<1>2. TypeOK /\ Flow /\ [Next]_vars => [Promise!Next]_PromiseVars
  BY StepKeeps DEF Promise!Next
<1>3. TypeOK /\ Flow /\ [Next]_vars
        => [Promise!Next]_<<[r \in Req |-> IF AtTheCache(r) THEN Asked(input[r]) ELSE None],
                            {s.of : s \in stored},
                            [r \in Req |-> IF ~AtTheCache(r) \/ pc[r] # "done" THEN None
                                           ELSE IF answer[r].from = None THEN r ELSE answer[r].from]>>
  BY <1>2 DEF PromiseVars, AskedOf, MadeOf, GotOf
<1>4. QED  BY <1>1, <1>3, TypeCorrect, Invariant, PTL DEF Spec, KeepsThePromise, Promise!Spec

-----------------------------------------------------------------------------
(***************************************************************************)
(* The budget.  What a tenant's whole requests had done for them, with     *)
(* what is left in its bucket, is within its burst, the refill up to the   *)
(* bucket's own date, and what late readings had it refill twice.          *)
(***************************************************************************)
WorkBytes(t) == SumFunction([r \in Worked(t) |-> input[r].length])

Balance(t) ==
  /\ IsFiniteSet(Worked(t))
  /\ requests[t].last <= clock
  /\ WorkBytes(t) + requests[t].tokens
       <= RequestBurst + RequestRate * (requests[t].last + rewound[t])

\* No request holds a reading the clock has not reached.
ReadInTime == \A r \in Req : pc[r] = "timed" => now[r] <= clock

RefusedUnsent == \A r \in Req : pc[r] = "done" /\ answer[r].status = 429 => sent[r] = None

InBudget ==
  RequestRate > 0 => (\A t \in Tenants : Balance(t)) /\ ReadInTime /\ RefusedUnsent

(***************************************************************************)
(* Products spread over sums.                                              *)
(***************************************************************************)
LEMMA Spreads ==
  ASSUME NEW r \in Int, NEW x \in Int, NEW y \in Int
  PROVE  r * (x + y) = r * x + r * y /\ r * x \in Int
  OBVIOUS

(***************************************************************************)
(* A later date has earned at least as much.                               *)
(***************************************************************************)
LEMMA LaterEarnsMore ==
  ASSUME NEW r \in Nat, NEW x \in Nat, NEW y \in Nat, x <= y
  PROVE  r * x <= r * y
<1>1. y - x \in Nat /\ y = x + (y - x)
  OBVIOUS
<1>2. r * (y - x) \in Nat
  BY <1>1
<1>3. r * y = r * x + r * (y - x) /\ r * x \in Int
  BY <1>1, Spreads
<1>4. QED  BY <1>2, <1>3

(***************************************************************************)
(* A grant leaves a bucket dated by its own reading, in which tokens and   *)
(* what was taken are covered by what was there, the refill between the    *)
(* two dates, and the time counted twice.                                  *)
(***************************************************************************)
LEMMA SpendBalance ==
  ASSUME RequestRate > 0, NEW b \in RB!Bucket, NEW t \in Nat, NEW n \in Nat, NEW back \in Nat,
         RB!Grants(b, t, n), back = IF t < b.last THEN b.last - t ELSE 0
  PROVE  /\ RB!Spend(b, t, n) \in RB!Bucket /\ RB!Spend(b, t, n).last = t
         /\ RB!Spend(b, t, n).tokens + n + RequestRate * b.last
              <= b.tokens + RequestRate * (t + back)
<1> DEFINE after == IF t < b.last THEN 0 ELSE t - b.last
           have == RB!TokensAt(b, t)
<1>1. /\ RequestRate \in Nat /\ RequestBurst \in Nat
      /\ b.tokens \in Nat /\ b.last \in Nat /\ after \in Nat /\ t + back = b.last + after
  BY FrontDoorAssumption DEF RB!Bucket
<1>2. have = IF b.tokens + RequestRate * after > RequestBurst THEN RequestBurst
             ELSE b.tokens + RequestRate * after
  BY DEF RB!TokensAt
<1>3. n <= have /\ RB!Spend(b, t, n) = [tokens |-> have - n, last |-> t]
  BY DEF RB!Grants, RB!Spend
<1> HIDE DEF after, have
<1>4. /\ RequestRate * (t + back) = RequestRate * b.last + RequestRate * after
      /\ RequestRate * b.last \in Int /\ RequestRate * after \in Nat
  <2>1. RequestRate * (b.last + after) = RequestRate * b.last + RequestRate * after
    BY <1>1, Spreads
  <2>2. RequestRate * b.last \in Int /\ RequestRate * after \in Nat
    BY <1>1
  <2>3. QED  BY <1>1, <2>1, <2>2
<1>5. have \in Nat /\ have <= b.tokens + RequestRate * after
  BY <1>1, <1>2, <1>4
<1>6. have - n \in Nat
  BY <1>3, <1>5
<1>7. /\ RB!Spend(b, t, n) \in RB!Bucket /\ RB!Spend(b, t, n).last = t
      /\ RB!Spend(b, t, n).tokens = have - n
  BY <1>3, <1>6 DEF RB!Bucket
<1>8. QED  BY <1>1, <1>4, <1>5, <1>7

(***************************************************************************)
(* From what a bucket gave up to what its tenant had done: s tokens are    *)
(* left of x after n were taken, and g were worth of work before.          *)
(***************************************************************************)
LEMMA Carried ==
  ASSUME NEW r \in Nat, NEW B \in Nat, NEW x \in Nat, NEW last \in Nat, NEW at \in Nat,
         NEW back \in Nat, NEW g \in Nat, NEW n \in Nat, NEW w \in Nat, NEW s \in Nat,
         s + n + r * last <= x + r * (at + back),
         g + x <= B + r * (last + w)
  PROVE  (g + n) + s <= B + r * (at + (w + back))
<1>1. /\ r * (at + back) = r * at + r * back
      /\ r * (last + w) = r * last + r * w
      /\ r * (at + (w + back)) = r * at + r * w + r * back
  OBVIOUS
<1>2. r * at \in Int /\ r * back \in Int /\ r * last \in Int /\ r * w \in Int
  OBVIOUS
<1>3. QED  BY <1>1, <1>2

-----------------------------------------------------------------------------
-----------------------------------------------------------------------------
(***************************************************************************)
(* Work done is a whole number of bytes.                                   *)
(***************************************************************************)
LEMMA WorkType ==
  ASSUME TypeOK, NEW t, IsFiniteSet(Worked(t))
  PROVE  WorkBytes(t) \in Nat
<1> DEFINE f == [r \in Worked(t) |-> input[r].length]
<1>1. DOMAIN f = Worked(t) /\ \A r \in Worked(t) : f[r] \in Nat
  BY FrontDoorAssumption DEF Worked, TypeOK
<1> HIDE DEF f
<1>2. SumFunctionOnSet(f, Worked(t)) \in Nat
  BY <1>1, SumType, Nat \in {Nat, Int}
<1>3. QED  BY <1>1, <1>2 DEF f, WorkBytes, SumFunction

\* Request s is among those a tenant had work done for.
AtWork(s) == /\ pc[s] \notin {"new", "admit", "timed"} /\ Whole(input[s])
             /\ pc[s] = "done" => answer[s].status # 429

(***************************************************************************)
(* A step after which the same requests are at work, with the same input,  *)
(* costs nothing.                                                          *)
(***************************************************************************)
LEMMA WorkStays ==
  ASSUME \A s \in Req : /\ AtWork(s)' <=> AtWork(s)
                        /\ AtWork(s) => input'[s] = input[s], NEW t
  PROVE  Worked(t)' = Worked(t) /\ WorkBytes(t)' = WorkBytes(t)
<1>1. Worked(t) = {s \in Req : AtWork(s) /\ input[s].tenant = t}
  BY DEF Worked, AtWork
<1>2. Worked(t)' = {s \in Req : AtWork(s)' /\ input'[s].tenant = t}
  BY DEF Worked, AtWork
<1>3. Worked(t)' = Worked(t) /\ \A s \in Worked(t) : input'[s] = input[s]
  BY <1>1, <1>2
<1>4. [r \in Worked(t) |-> input[r].length]' = [r \in Worked(t) |-> input[r].length]
  BY <1>3
<1>5. QED  BY <1>3, <1>4 DEF WorkBytes

(***************************************************************************)
(* A request that is admitted adds its length.                             *)
(***************************************************************************)
LEMMA WorkGrows ==
  ASSUME TypeOK, NEW r \in Req, NEW t \in Tenants, pc[r] = "timed", Whole(input[r]),
         pc' = [pc EXCEPT ![r] = "parse"], input' = input, answer' = answer,
         IsFiniteSet(Worked(t))
  PROVE  /\ IsFiniteSet(Worked(t)')
         /\ input[r].tenant = t => WorkBytes(t)' = WorkBytes(t) + input[r].length
         /\ input[r].tenant # t => WorkBytes(t)' = WorkBytes(t)
<1>1. /\ input[r] \in Input /\ pc'[r] = "parse" /\ \A s \in Req : s # r => pc'[s] = pc[s]
  BY DEF TypeOK
<1>2. CASE input[r].tenant # t
  <2>1. Worked(t)' = Worked(t)
    BY <1>1, <1>2 DEF Worked
  <2>2. [s \in Worked(t) |-> input[s].length]' = [s \in Worked(t) |-> input[s].length]
    BY <2>1
  <2>3. QED  BY <1>2, <2>1, <2>2 DEF WorkBytes
<1>3. CASE input[r].tenant = t
  <2>1. Worked(t)' = Worked(t) \cup {r} /\ r \notin Worked(t)
    BY <1>1, <1>3 DEF Worked
  <2> DEFINE f == [s \in Worked(t) |-> input[s].length]
             g == [s \in Worked(t) \cup {r} |-> input[s].length]
  <2>2. \A s \in Worked(t) : input[s] \in Input
    BY DEF Worked, TypeOK
  <2>3. /\ DOMAIN f = Worked(t) /\ DOMAIN g = Worked(t) \cup {r}
        /\ g[r] = input[r].length /\ g[r] \in Int
        /\ \A s \in Worked(t) : g[s] = f[s] /\ f[s] \in Int
    BY <1>1, <2>2, FrontDoorAssumption
  <2>4. WorkBytes(t) = SumFunction(f) /\ WorkBytes(t)' = SumFunction(g)
    BY <2>1 DEF WorkBytes
  <2> HIDE DEF f, g
  <2>5. SumFunction(g) = SumFunction(f) + g[r]
    BY <2>1, <2>3, SumExtended
  <2>6. QED  BY <1>3, <2>1, <2>3, <2>4, <2>5, FS_AddElement
<1>4. QED  BY <1>2, <1>3

(***************************************************************************)
(* An admitted request moves its bytes from the bucket to the work done.   *)
(***************************************************************************)
LEMMA AdmittedPays ==
  ASSUME TypeOK, Flow, RequestRate > 0, ReadInTime, NEW r \in Req, Spend(r), Goto(r, "parse"),
         NEW t \in Tenants, Balance(t)
  PROVE  Balance(t)'
<1> DEFINE n == buffered[r]  b == requests[t]  at == now[r]  back == Behind(r, t)
<1>1. /\ pc[r] = "timed" /\ input[r] \in Input /\ n \in Nat /\ at \in Nat /\ at <= clock
      /\ input' = input /\ clock' = clock /\ pc' = [pc EXCEPT ![r] = "parse"]
      /\ Whole(input[r]) /\ n = input[r].length
  BY DEF Spend, TypeOK, Goto, Flow, FlowOf, ReadInTime
<1>2. /\ requests \in [Tenants -> RB!Bucket] /\ rewound \in [Tenants -> Nat] /\ clock \in Nat
      /\ input[r].tenant \in Tenants
  BY <1>1 DEF TypeOK, Tenants
<1>3. pc'[r] = "parse"
  BY <1>1 DEF TypeOK
<1>4. /\ RB!Grants(requests[input[r].tenant], at, n)
      /\ requests' = Charged(r, input[r].tenant) /\ answer' = answer
      /\ rewound' = [rewound EXCEPT ![input[r].tenant] = @ + Behind(r, input[r].tenant)]
  <2>1. ~Answer(r, 429, 0, None)
    BY <1>3, AnswerIs
  <2>2. QED  BY <2>1 DEF Spend
<1>5. WorkBytes(t) \in Nat /\ IsFiniteSet(Worked(t))
  BY WorkType DEF Balance
<1>6. /\ IsFiniteSet(Worked(t)')
      /\ input[r].tenant = t => WorkBytes(t)' = WorkBytes(t) + n
      /\ input[r].tenant # t => WorkBytes(t)' = WorkBytes(t)
  BY <1>1, <1>4, <1>5, WorkGrows
<1>7. CASE input[r].tenant # t
  <2>1. requests'[t] = requests[t] /\ rewound'[t] = rewound[t]
    BY <1>2, <1>4, <1>7 DEF Charged
  <2>2. QED  BY <1>1, <1>6, <1>7, <2>1 DEF Balance
<1>8. CASE input[r].tenant = t
  <2>1. requests'[t] = RB!Spend(b, at, n) /\ rewound'[t] = rewound[t] + back
    BY <1>2, <1>4, <1>8 DEF Charged
  <2>2. /\ b \in RB!Bucket /\ b.last \in Nat /\ b.tokens \in Nat /\ RB!Grants(b, at, n)
        /\ RequestRate \in Nat /\ RequestBurst \in Nat /\ rewound[t] \in Nat
    BY <1>2, <1>4, <1>8, FrontDoorAssumption DEF RB!Bucket
  <2>3. back \in Nat /\ back = IF at < b.last THEN b.last - at ELSE 0
    BY <1>1, <2>2 DEF Behind
  <2> DEFINE s == RB!Spend(b, at, n)
  <2>4. b.last <= clock /\ WorkBytes(t) + b.tokens <= RequestBurst + RequestRate * (b.last + rewound[t])
    BY DEF Balance
  <2> HIDE DEF n, b, at, back
  <2>5. /\ s \in RB!Bucket /\ s.last = at
        /\ s.tokens + n + RequestRate * b.last <= b.tokens + RequestRate * (at + back)
    BY <1>1, <2>2, <2>3, SpendBalance
  <2>6. s.tokens \in Nat
    BY <2>5 DEF RB!Bucket
  <2> HIDE DEF s
  <2>7. (WorkBytes(t) + n) + s.tokens <= RequestBurst + RequestRate * (at + (rewound[t] + back))
    BY ONLY <1>1, <1>5, <2>2, <2>3, <2>4, <2>5, <2>6, Carried
  <2>8. requests'[t] = s /\ rewound'[t] = rewound[t] + back /\ WorkBytes(t)' = WorkBytes(t) + n
    BY <1>6, <1>8, <2>1 DEF s, n, b, at, back
  <2>9. QED  BY <1>1, <1>6, <2>5, <2>7, <2>8 DEF Balance
<1>9. QED  BY <1>7, <1>8

(***************************************************************************)
(* No other step puts a request to work, takes one off or refunds it.      *)
(***************************************************************************)
LEMMA NobodyElsePays ==
  ASSUME TypeOK, Flow, RequestRate > 0, NEW r \in Req, StepOf(r),
         ~(Spend(r) /\ Goto(r, "parse"))
  PROVE  /\ \A s \in Req : (AtWork(s)' <=> AtWork(s)) /\ (AtWork(s) => input'[s] = input[s])
         /\ requests' = requests /\ rewound' = rewound /\ clock' = clock
<1>1. ASSUME NEW s \in Req, s # r
      PROVE  (AtWork(s)' <=> AtWork(s)) /\ (AtWork(s) => input'[s] = input[s])
  BY <1>1, OthersUnchanged DEF AtWork, Unchanged
<1>2. ASSUME NEW in \in Input, Receive(r, in)
      PROVE  ~AtWork(r) /\ ~AtWork(r)' /\ requests' = requests /\ rewound' = rewound /\ clock' = clock
  <2>1. pc[r] = "new" /\ input'[r] = in /\ requests' = requests /\ rewound' = rewound /\ clock' = clock
    BY <1>2 DEF Receive, TypeOK, limiters
  <2>2. pc'[r] = "admit" \/ (pc'[r] = "forward" /\ ~Whole(in))
    <3>1. CASE Goto(r, "forward") /\ ~Whole(in)
      BY <3>1 DEF Goto, TypeOK
    <3>2. CASE in.post /\ ~in.breaks
      <4>1. in.length \in Nat /\ MaxBody \in Nat
        BY FrontDoorAssumption
      <4>2. Goto(r, "admit") \/ (Goto(r, "forward") /\ ~Whole(in))
        BY <1>2, <3>2, <4>1 DEF Receive, TooLarge, ReadOf, Least, Whole
      <4>3. QED  BY <3>1, <4>2 DEF Goto, TypeOK
    <3>3. QED  BY <1>2, <3>1, <3>2 DEF Receive, Whole
  <2>3. QED  BY <2>1, <2>2 DEF AtWork
<1>3. CASE Admit(r)
  <2>1. pc[r] = "admit" /\ Goto(r, "timed") /\ requests' = requests /\ rewound' = rewound /\ clock' = clock
    BY <1>3, FrontDoorAssumption DEF Admit
  <2>2. pc'[r] = "timed"
    BY <2>1 DEF Goto, TypeOK
  <2>3. QED  BY <1>1, <2>1, <2>2 DEF AtWork
<1>11. CASE Spend(r)
  <2>1. pc[r] = "timed" /\ Answer(r, 429, 0, None) /\ requests' = requests /\ rewound' = rewound /\ clock' = clock
    BY <1>11 DEF Spend
  <2>2. pc'[r] = "done" /\ answer'[r].status = 429
    BY <2>1, AnswerIs
  <2>3. QED  BY <1>1, <2>1, <2>2 DEF AtWork
<1>4. ASSUME pc[r] \in {"parse", "serve", "call", "forward"}, input' = input,
             requests' = requests, rewound' = rewound, clock' = clock,
             \/ \E l \in {"serve", "call", "forward"} : Goto(r, l)
             \/ \E status \in {200, 500, 502} : \E length, from : Answer(r, status, length, from)
      PROVE  /\ (AtWork(r)' <=> AtWork(r)) /\ (AtWork(r) => input'[r] = input[r])
             /\ requests' = requests /\ rewound' = rewound /\ clock' = clock
  <2>1. \/ pc'[r] \in {"serve", "call", "forward"}
        \/ pc'[r] = "done" /\ answer'[r].status # 429
    BY <1>4, AnswerIs DEF Goto, TypeOK
  <2>2. QED  BY <1>4, <2>1 DEF AtWork
<1>5. CASE Parse(r)
  BY <1>1, <1>4, <1>5 DEF Parse, limiters
<1>6. CASE Serve(r)
  BY <1>1, <1>4, <1>6 DEF Serve, limiters
<1>7. CASE CallFails(r) \/ ForwardFails(r)
  BY <1>1, <1>4, <1>7 DEF CallFails, ForwardFails, limiters
<1>8. CASE CallUpstream(r)
  BY <1>1, <1>4, <1>8 DEF CallUpstream, limiters
<1>9. CASE Forward(r)
  BY <1>1, <1>4, <1>9 DEF Forward, limiters
<1>10. QED  BY <1>1, <1>2, <1>3, <1>5, <1>6, <1>7, <1>8, <1>9, <1>11 DEF StepOf

(***************************************************************************)
(* What is refused was not sent on, and never is.                          *)
(***************************************************************************)
LEMMA RefusedStep ==
  ASSUME TypeOK, Flow, RefusedUnsent, NEW r \in Req, StepOf(r)
  PROVE  RefusedUnsent'
<1>1. ASSUME NEW s \in Req, s # r, pc'[s] = "done", answer'[s].status = 429 PROVE sent'[s] = None
  BY <1>1, OthersUnchanged DEF RefusedUnsent, Unchanged
<1>2. ASSUME NEW l, Goto(r, l), l # "done" PROVE pc'[r] # "done"
  BY <1>2 DEF Goto, TypeOK
<1>3. ASSUME pc'[r] = "done", answer'[r].status = 429 PROVE sent'[r] = None
  <2>1. ASSUME NEW status \in {200, 500, 502}, NEW length, NEW from, Answer(r, status, length, from)
        PROVE  FALSE
    BY <1>3, <2>1, AnswerIs
  <2>2. CASE \E in \in Input : Receive(r, in)
    BY <1>2, <1>3, <2>2 DEF Receive
  <2>3. CASE Admit(r) \/ Spend(r)
    BY <2>3 DEF Admit, Spend, Flow, FlowOf
  <2>4. CASE Parse(r) \/ Serve(r)
    BY <1>2, <1>3, <2>1, <2>4 DEF Parse, Serve
  <2>5. CASE CallFails(r) \/ CallUpstream(r)
    BY <2>1, <2>5 DEF CallFails, CallUpstream
  <2>6. CASE Forward(r) \/ ForwardFails(r)
    BY <2>1, <2>6 DEF Forward, ForwardFails
  <2>7. QED  BY <2>2, <2>3, <2>4, <2>5, <2>6 DEF StepOf
<1>4. QED  BY <1>1, <1>3 DEF RefusedUnsent

(***************************************************************************)
(* No step takes a reading from a clock that has not got there.            *)
(***************************************************************************)
LEMMA ReadStep ==
  ASSUME TypeOK, ReadInTime, NEW r \in Req, StepOf(r)
  PROVE  ReadInTime'
<1>1. clock' = clock
  BY DEF StepOf, Receive, Admit, Spend, Parse, Serve, CallFails, CallUpstream, Forward, ForwardFails
<1>2. ASSUME NEW s \in Req, s # r, pc'[s] = "timed" PROVE now'[s] <= clock
  BY <1>2, OthersUnchanged DEF ReadInTime, Unchanged
<1>3. ASSUME pc'[r] = "timed" PROVE now'[r] = clock
  <2>1. ASSUME NEW l, Goto(r, l) PROVE l = "timed"
    BY <1>3, <2>1 DEF Goto, TypeOK
  <2>2. ASSUME NEW status, NEW length, NEW from PROVE ~Answer(r, status, length, from)
    BY <1>3, AnswerIs
  <2>3. CASE Admit(r)
    BY <2>1, <2>3 DEF Admit, TypeOK
  <2>4. CASE ~Admit(r)
    BY <2>1, <2>2, <2>4
       DEF StepOf, Receive, Spend, Parse, Serve, CallFails, CallUpstream, Forward, ForwardFails
  <2>5. QED  BY <2>3, <2>4
<1>4. clock \in Nat
  BY DEF TypeOK
<1>5. QED  BY <1>1, <1>2, <1>3, <1>4 DEF ReadInTime

(***************************************************************************)
(* Time passing takes nothing from a balance.                              *)
(***************************************************************************)
LEMMA BalanceTick ==
  ASSUME TypeOK, Tick, NEW t \in Tenants, Balance(t)
  PROVE  Balance(t)'
<1>1. /\ pc' = pc /\ input' = input /\ answer' = answer /\ requests' = requests
      /\ rewound' = rewound /\ clock' = clock + 1 /\ clock \in Nat /\ requests[t] \in RB!Bucket
  BY DEF Tick, TypeOK, Tenants, limiters
<1>2. Worked(t)' = Worked(t) /\ WorkBytes(t)' = WorkBytes(t)
  BY <1>1, WorkStays DEF AtWork
<1>3. requests[t].last <= clock + 1
  BY <1>1 DEF Balance, RB!Bucket
<1>4. QED  BY <1>1, <1>2, <1>3 DEF Balance

(***************************************************************************)
(* Nothing is looked up or sent upstream for a tenant's whole requests     *)
(* beyond its burst, its refill and what late readings refilled twice, and *)
(* nothing at all for a refused request, for every set of inputs and       *)
(* however the requests interleave.                                        *)
(***************************************************************************)
THEOREM WorkIsPaid == Spec => []WorkIsPaidFor
<1>1. Init => InBudget
  <2> SUFFICES ASSUME Init, RequestRate > 0, NEW t \in Tenants
               PROVE  Balance(t) /\ ReadInTime /\ RefusedUnsent
    BY DEF InBudget, Init, ReadInTime, RefusedUnsent
  <2>1. Worked(t) = {} /\ RefusedUnsent /\ ReadInTime
    BY DEF Init, Worked, RefusedUnsent, ReadInTime
  <2>2. WorkBytes(t) = 0
    BY <2>1, SumOfNothing DEF WorkBytes, SumFunction
  <2>3. /\ requests[t].last = 0 /\ requests[t].tokens = RequestBurst /\ clock = 0 /\ rewound[t] = 0
        /\ RequestBurst \in Nat /\ RequestRate \in Int
    BY FrontDoorAssumption DEF Init, Tenants, RB!Full
  <2>4. QED  BY <2>1, <2>2, <2>3, FS_EmptySet DEF Balance
<1>2. TypeOK /\ Flow /\ InBudget /\ [Next]_vars => InBudget'
  <2> SUFFICES ASSUME TypeOK, Flow, InBudget, [Next]_vars, RequestRate > 0
               PROVE  (\A t \in Tenants : Balance(t)') /\ ReadInTime' /\ RefusedUnsent'
    BY DEF InBudget
  <2>1. RefusedUnsent /\ ReadInTime /\ \A t \in Tenants : Balance(t)
    BY DEF InBudget
  <2>2. CASE UNCHANGED vars
    BY <2>1, <2>2 DEF vars, Balance, Worked, WorkBytes, RefusedUnsent, ReadInTime
  <2>3. CASE Tick
    <3>1. RefusedUnsent'
      BY <2>1, <2>3 DEF Tick, RefusedUnsent
    <3>2. ReadInTime'
      BY <2>1, <2>3 DEF Tick, ReadInTime, TypeOK, limiters
    <3>3. QED  BY <2>1, <2>3, <3>1, <3>2, BalanceTick
  <2>4. ASSUME NEW r \in Req, StepOf(r), NEW t \in Tenants PROVE Balance(t)'
    <3>1. CASE Spend(r) /\ Goto(r, "parse")
      BY <2>1, <3>1, AdmittedPays
    <3>2. CASE ~(Spend(r) /\ Goto(r, "parse"))
      <4>1. /\ Worked(t)' = Worked(t) /\ WorkBytes(t)' = WorkBytes(t)
            /\ requests' = requests /\ rewound' = rewound /\ clock' = clock
        BY <2>4, <3>2, NobodyElsePays, WorkStays
      <4>2. QED  BY <2>1, <4>1 DEF Balance
    <3>3. QED  BY <3>1, <3>2
  <2>5. QED  BY <2>1, <2>2, <2>3, <2>4, ReadStep, RefusedStep DEF Next, StepOf, Finished
<1>3. TypeOK /\ InBudget => WorkIsPaidFor
  <2> SUFFICES ASSUME TypeOK, InBudget, RequestRate > 0 PROVE
        /\ \A t \in DOMAIN requests : WorkBytes(t) <= Earned(t)
        /\ RefusedUnsent
    BY DEF WorkIsPaidFor, WorkBytes, RefusedUnsent
  <2>1. ASSUME NEW t \in DOMAIN requests PROVE WorkBytes(t) <= Earned(t)
    <3> DEFINE then == requests[t].last + rewound[t]  today == clock + rewound[t]
    <3>1. /\ t \in Tenants /\ Balance(t) /\ requests[t] \in RB!Bucket
          /\ clock \in Nat /\ rewound[t] \in Nat
      BY DEF TypeOK, Tenants, InBudget
    <3>2. then \in Nat /\ today \in Nat /\ then <= today /\ requests[t].tokens \in Nat
      BY <3>1 DEF RB!Bucket, Balance
    <3>3. WorkBytes(t) + requests[t].tokens <= RequestBurst + RequestRate * then
      BY <3>1 DEF Balance
    <3>4. Earned(t) = RequestBurst + RequestRate * today
      BY DEF Earned
    <3>5. RequestRate \in Nat /\ RequestBurst \in Nat /\ WorkBytes(t) \in Nat
      BY <3>1, WorkType, FrontDoorAssumption DEF Balance
    <3> HIDE DEF then, today
    <3>6. /\ RequestRate * then <= RequestRate * today
          /\ RequestRate * then \in Int /\ RequestRate * today \in Int
      BY <3>2, <3>5, LaterEarnsMore
    <3>7. QED  BY <3>2, <3>3, <3>4, <3>5, <3>6
  <2>2. QED  BY <2>1 DEF InBudget
<1>4. QED  BY <1>1, <1>2, <1>3, TypeCorrect, Invariant, PTL DEF Spec
=============================================================================
