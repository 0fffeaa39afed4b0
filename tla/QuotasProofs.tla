---------------------------- MODULE QuotasProofs ----------------------------
(***************************************************************************)
(* The budget of internal/tenant.Quotas for every rate, burst, number of   *)
(* tenants, of calls in flight and of bytes, and for readings of the clock *)
(* that reach a limiter in any order.                                      *)
(***************************************************************************)
EXTENDS Quotas, SequenceTheorems, TLAPS

(***************************************************************************)
(* The arithmetic of a refill, kept apart so that the products below stay  *)
(* atoms for the provers.                                                  *)
(***************************************************************************)
LEMMA Distributes ==
  ASSUME NEW r \in Int, NEW x \in Int, NEW y \in Int
  PROVE  r * (x + y) = r * x + r * y /\ r * (x - y) = r * x - r * y
  OBVIOUS

(***************************************************************************)
(* A larger time has earned at least as much.                              *)
(***************************************************************************)
LEMMA Grows ==
  ASSUME NEW r \in Nat, NEW x \in Int, NEW y \in Int, x <= y
  PROVE  r * x <= r * y
<1>1. y - x \in Nat
  OBVIOUS
<1>2. r * (y - x) \in Nat
  BY <1>1
<1>3. r * y = r * x + r * (y - x)
  BY <1>1
<1>4. r * x \in Int /\ r * y \in Int
  OBVIOUS
<1>5. QED  BY <1>2, <1>3, <1>4

\* How far a reading t moves a bucket back.
Back(b, t) == IF t < b.last THEN b.last - t ELSE 0

(***************************************************************************)
(* A granted call leaves a bucket, dated by its own reading, in which      *)
(* tokens and what was taken are covered by what was there, the refill of  *)
(* the time between the two readings, and the time counted twice.          *)
(***************************************************************************)
LEMMA SpendBalance ==
  ASSUME NEW b \in Bucket, NEW t \in Nat, NEW n \in Nat, Grants(b, t, n)
  PROVE  /\ Spend(b, t, n) \in Bucket
         /\ Spend(b, t, n).last = t
         /\ Spend(b, t, n).tokens + n + Rate * b.last <= b.tokens + Rate * (t + Back(b, t))
<1>0. Rate \in Nat /\ Burst \in Nat /\ b.tokens \in Nat /\ b.last \in Nat
  BY BucketAssumption, QuotasAssumption DEF Bucket
<1> DEFINE after == IF t < b.last THEN 0 ELSE t - b.last
<1>1. after \in Nat /\ t + Back(b, t) = b.last + after /\ Rate * after \in Nat
  BY <1>0 DEF Back
<1>2. Rate * (t + Back(b, t)) = Rate * b.last + Rate * after
  BY <1>0, <1>1, Distributes
<1>3. TokensAt(b, t) \in Nat /\ TokensAt(b, t) <= b.tokens + Rate * after
  BY <1>0, <1>1 DEF TokensAt
<1>4. n <= TokensAt(b, t)
  BY DEF Grants
<1>5. TokensAt(b, t) - n \in Nat
  BY <1>3, <1>4
<1>6. Spend(b, t, n) = [tokens |-> TokensAt(b, t) - n, last |-> t]
  BY DEF Spend
<1>7. Rate * b.last \in Nat
  BY <1>0
<1> HIDE DEF after
<1>8. Spend(b, t, n).tokens + n + Rate * b.last <= b.tokens + Rate * (t + Back(b, t))
  BY <1>0, <1>1, <1>2, <1>3, <1>5, <1>6, <1>7
<1>9. QED  BY <1>5, <1>6, <1>8 DEF Bucket

(***************************************************************************)
(* The step from what a bucket gave up to what its tenant was granted: s   *)
(* tokens are left of x after n were taken, and g were granted before.     *)
(***************************************************************************)
LEMMA Carried ==
  ASSUME NEW r \in Nat, NEW B \in Nat, NEW x \in Nat, NEW last \in Nat, NEW at \in Nat,
         NEW back \in Nat, NEW g \in Nat, NEW n \in Nat, NEW w \in Nat, NEW s \in Nat,
         s + n + r * last <= x + r * (at + back),
         x + g <= B + r * (last + w)
  PROVE  s + (g + n) <= B + r * (at + (w + back))
<1>1. /\ r * (at + back) = r * at + r * back
      /\ r * (last + w) = r * last + r * w
      /\ r * (at + (w + back)) = r * at + r * w + r * back
  OBVIOUS
<1>2. r * at \in Int /\ r * back \in Int /\ r * last \in Int /\ r * w \in Int
  OBVIOUS
<1>3. QED  BY <1>1, <1>2

(***************************************************************************)
(* A new limiter is a full bucket.                                         *)
(***************************************************************************)
LEMMA FullFacts == Full \in Bucket /\ Full.last = 0 /\ Full.tokens = Burst
  BY BucketAssumption DEF Full, Bucket

-----------------------------------------------------------------------------
(***************************************************************************)
(* No limiter, no call, nothing granted.                                   *)
(***************************************************************************)
LEMMA InitInv == Init => Inv
<1> SUFFICES ASSUME Init PROVE Inv
  OBVIOUS
<1>1. TypeOK
  BY DEF Init, TypeOK
<1>2. OneLimiterEach
  BY DEF Init, OneLimiterEach
<1>3. \A t \in Tenant : Balance(t) /\ Unused(t)
  BY DEF Init, Balance, Unused
<1>4. QED  BY <1>1, <1>2, <1>3 DEF Inv

(***************************************************************************)
(* Finding a limiter changes none that exist, and gives a tenant that had  *)
(* none a full one of its own.                                             *)
(***************************************************************************)
LEMMA FindFacts ==
  ASSUME Inv, NEW t \in Tenant, Find(t)
  PROVE  /\ limiters' \in Seq(Bucket) /\ Len(limiters') \in Nat /\ Len(limiters) \in Nat
         /\ Len(limiters) <= Len(limiters')
         /\ \A i \in 1..Len(limiters) : limiters'[i] = limiters[i]
         /\ registry' \in [Tenant -> 0..Len(limiters')]
         /\ registry'[t] # 0
         /\ \A u \in Tenant : \/ registry'[u] = registry[u]
                              \/ /\ u = t /\ registry[u] = 0
                                 /\ registry'[u] = Len(limiters) + 1
                                 /\ limiters'[registry'[u]] = Full
<1>0. limiters \in Seq(Bucket) /\ registry \in [Tenant -> 0..Len(limiters)] /\ Len(limiters) \in Nat
  BY LenProperties DEF Inv, TypeOK
<1>1. CASE /\ registry[t] = 0 /\ limiters' = Append(limiters, Full)
           /\ registry' = [registry EXCEPT ![t] = Len(limiters) + 1]
  <2>1. /\ limiters' \in Seq(Bucket) /\ Len(limiters') = Len(limiters) + 1
        /\ \A i \in 1..Len(limiters) : limiters'[i] = limiters[i]
        /\ limiters'[Len(limiters) + 1] = Full
    BY <1>0, <1>1, FullFacts, AppendProperties
  <2>2. /\ \A u \in Tenant : registry'[u] = IF u = t THEN Len(limiters) + 1 ELSE registry[u]
        /\ registry' \in [Tenant -> 0..Len(limiters')]
    BY <1>0, <1>1, <2>1
  <2>3. QED  BY <1>0, <1>1, <2>1, <2>2
<1>2. CASE registry[t] # 0 /\ UNCHANGED <<limiters, registry>>
  BY <1>0, <1>2
<1>3. QED  BY <1>1, <1>2 DEF Find

(***************************************************************************)
(* The lookup of a call.                                                   *)
(***************************************************************************)
LEMMA AllowInv ==
  ASSUME Inv, NEW c \in Call, NEW t \in Tenant, NEW n \in Bytes, Allow(c, t, n)
  PROVE  Inv'
<1>0. Find(t)
  BY DEF Allow
<1>1. /\ limiters' \in Seq(Bucket) /\ Len(limiters') \in Nat /\ Len(limiters) \in Nat
      /\ Len(limiters) <= Len(limiters')
      /\ \A i \in 1..Len(limiters) : limiters'[i] = limiters[i]
      /\ registry' \in [Tenant -> 0..Len(limiters')]
      /\ registry'[t] # 0
  BY <1>0, FindFacts
<1>2. \A u \in Tenant : \/ registry'[u] = registry[u]
                        \/ /\ u = t /\ registry[u] = 0
                           /\ registry'[u] = Len(limiters) + 1
                           /\ limiters'[registry'[u]] = Full
  BY <1>0, FindFacts
<1>3. UNCHANGED <<clock, granted, rewound>> /\ clock \in Nat /\ n \in Nat
  BY QuotasAssumption DEF Allow, Inv, TypeOK
<1> DEFINE mine == [tenant |-> t, n |-> n, limiter |-> registry'[t], at |-> 0]
<1>4. call' = [call EXCEPT ![c] = mine] /\ pc' = [pc EXCEPT ![c] = "found"]
  BY DEF Allow
<1>5. mine \in Pending'
  BY <1>1, <1>3 DEF Pending
<1>6. ASSUME NEW p \in Pending PROVE p \in Pending'
  BY <1>1, <1>3 DEF Pending
<1>7. TypeOK'
  <2>1. call' \in [Call -> {None} \cup Pending']
    BY <1>4, <1>5, <1>6 DEF Inv, TypeOK
  <2>2. \A d \in Call : pc'[d] # "idle" => call'[d] \in Pending'
    BY <1>4, <1>5, <1>6 DEF Inv, TypeOK
  <2>3. pc' \in [Call -> {"idle", "found", "timed"}]
    BY <1>4 DEF Inv, TypeOK
  <2>4. QED  BY <1>1, <1>3, <2>1, <2>2, <2>3 DEF Inv, TypeOK, Pending
<1>8. OneLimiterEach'
  <2>1. ASSUME NEW d \in Call, pc'[d] # "idle" PROVE call'[d].limiter = registry'[call'[d].tenant]
    <3>1. CASE d = c
      BY <1>4, <3>1 DEF Inv, TypeOK
    <3>2. CASE d # c
      <4>1. call'[d] = call[d] /\ pc[d] # "idle" /\ call[d] \in Pending
        BY <1>4, <2>1, <3>2 DEF Inv, TypeOK
      <4>2. call[d].limiter = registry[call[d].tenant] /\ call[d].limiter # 0
            /\ call[d].tenant \in Tenant
        BY <4>1 DEF Inv, OneLimiterEach, Pending
      <4>3. QED  BY <1>2, <4>1, <4>2
    <3>3. QED  BY <3>1, <3>2
  <2>2. ASSUME NEW u \in Tenant, NEW w \in Tenant, registry'[u] = registry'[w], registry'[u] # 0
        PROVE  u = w
    <3>1. registry[u] \in 0..Len(limiters) /\ registry[w] \in 0..Len(limiters)
      BY DEF Inv, TypeOK
    <3>2. registry[u] = registry[w] /\ registry[u] # 0 => u = w
      BY DEF Inv, OneLimiterEach
    <3>3. QED  BY <1>1, <1>2, <2>2, <3>1, <3>2
  <2>3. QED  BY <2>1, <2>2 DEF OneLimiterEach
<1>9. ASSUME NEW u \in Tenant PROVE Balance(u)' /\ Unused(u)'
  <2>0. /\ Balance(u) /\ Unused(u) /\ granted[u] \in Nat /\ rewound[u] \in Nat
        /\ registry[u] \in 0..Len(limiters)
    BY DEF Inv, TypeOK
  <2>1. CASE registry'[u] = registry[u]
    <3>1. registry[u] # 0 => limiters'[registry'[u]] = limiters[registry[u]]
      BY <1>1, <2>0, <2>1
    <3>2. QED  BY <1>3, <2>0, <2>1, <3>1 DEF Balance, Unused
  <2>2. CASE /\ registry[u] = 0
             /\ registry'[u] = Len(limiters) + 1
             /\ limiters'[registry'[u]] = Full
    <3>1. granted[u] = 0
      BY <2>0, <2>2 DEF Unused
    <3>2. Rate * (0 + rewound[u]) \in Nat /\ Burst \in Nat
      BY <2>0, BucketAssumption, QuotasAssumption
    <3>3. QED  BY <1>1, <1>3, <2>2, <3>1, <3>2, FullFacts DEF Balance, Unused
  <2>3. QED  BY <1>2, <2>1, <2>2
<1>10. QED  BY <1>7, <1>8, <1>9 DEF Inv

(***************************************************************************)
(* The reading of a call's clock.                                          *)
(***************************************************************************)
LEMMA ReadClockInv == ASSUME Inv, NEW c \in Call, ReadClock(c) PROVE Inv'
<1>1. /\ pc[c] = "found" /\ call[c] \in Pending /\ clock \in Nat
      /\ call' = [call EXCEPT ![c].at = clock] /\ pc' = [pc EXCEPT ![c] = "timed"]
      /\ UNCHANGED <<limiters, registry, clock, granted, rewound>>
  BY DEF ReadClock, Inv, TypeOK
<1>2. [call[c] EXCEPT !.at = clock] \in Pending /\ Pending' = Pending
  BY <1>1 DEF Pending
<1>3. \A d \in Call : d # c => call'[d] = call[d] /\ pc'[d] = pc[d]
  BY <1>1 DEF Inv, TypeOK
<1>4. /\ call'[c] = [call[c] EXCEPT !.at = clock]
      /\ call'[c].tenant = call[c].tenant /\ call'[c].limiter = call[c].limiter
  BY <1>1 DEF Inv, TypeOK, Pending
<1>5. TypeOK'
  <2>1. call' \in [Call -> {None} \cup Pending]
    BY <1>1, <1>2 DEF Inv, TypeOK
  <2>2. QED  BY <1>1, <1>2, <1>3, <1>4, <2>1 DEF Inv, TypeOK
<1>6. OneLimiterEach'
  BY <1>1, <1>3, <1>4 DEF Inv, OneLimiterEach
<1>7. ASSUME NEW t \in Tenant PROVE Balance(t)' /\ Unused(t)'
  BY <1>1 DEF Inv, Balance, Unused
<1>8. QED  BY <1>5, <1>6, <1>7 DEF Inv

(***************************************************************************)
(* The end of a call frees it.                                             *)
(***************************************************************************)
LEMMA ReturnFacts ==
  ASSUME Inv, NEW c \in Call, Return(c), Pending' = Pending, registry' = registry
  PROVE  /\ call' \in [Call -> {None} \cup Pending']
         /\ pc' \in [Call -> {"idle", "found", "timed"}]
         /\ \A d \in Call : pc'[d] # "idle" => call'[d] \in Pending'
         /\ OneLimiterEach'
<1>1. /\ pc' = [pc EXCEPT ![c] = "idle"] /\ call' = [call EXCEPT ![c] = None]
      /\ \A d \in Call : pc'[d] # "idle" => d # c /\ call'[d] = call[d] /\ pc[d] = pc'[d]
  BY DEF Return, Inv, TypeOK
<1>2. QED  BY <1>1 DEF Inv, TypeOK, OneLimiterEach

(***************************************************************************)
(* A refused call costs nothing.                                           *)
(***************************************************************************)
LEMMA RefuseInv == ASSUME Inv, NEW c \in Call, Refuse(c) PROVE Inv'
<1>1. UNCHANGED <<limiters, registry, clock, granted, rewound>> /\ Return(c)
  BY DEF Refuse
<1>2. Pending' = Pending
  BY <1>1 DEF Pending
<1>3. TypeOK'
  BY <1>1, <1>2, ReturnFacts DEF Inv, TypeOK
<1>4. OneLimiterEach'
  BY <1>1, <1>2, ReturnFacts
<1>5. ASSUME NEW t \in Tenant PROVE Balance(t)' /\ Unused(t)'
  BY <1>1 DEF Inv, Balance, Unused
<1>6. QED  BY <1>3, <1>4, <1>5 DEF Inv

(***************************************************************************)
(* A granted call moves bytes from its tenant's bucket to its account.     *)
(***************************************************************************)
LEMMA GrantInv == ASSUME Inv, NEW c \in Call, Grant(c) PROVE Inv'
<1> DEFINE i == call[c].limiter
           t == call[c].tenant
           n == call[c].n
           at == call[c].at
           b == limiters[i]
<1>1. call[c] \in Pending /\ pc[c] = "timed"
  BY DEF Grant, Inv, TypeOK
<1>2. i \in 1..Len(limiters) /\ t \in Tenant /\ n \in Nat /\ at \in Nat /\ at <= clock
      /\ clock \in Nat
  BY <1>1 DEF Pending, Inv, TypeOK
<1>3. i = registry[t]
  BY <1>1 DEF Inv, OneLimiterEach
<1>4. b \in Bucket
  BY <1>2, ElementOfSeq DEF Inv, TypeOK
<1>5. /\ Grants(b, at, n) /\ Return(c) /\ UNCHANGED <<registry, clock>>
      /\ limiters' = [limiters EXCEPT ![i] = Spend(b, at, n)]
      /\ granted' = [granted EXCEPT ![t] = @ + n]
      /\ rewound' = [rewound EXCEPT ![t] = @ + Back(b, at)]
  BY DEF Grant, Back
<1>6. /\ Spend(b, at, n) \in Bucket
      /\ Spend(b, at, n).last = at
      /\ Spend(b, at, n).tokens + n + Rate * b.last <= b.tokens + Rate * (at + Back(b, at))
  BY <1>2, <1>4, <1>5, SpendBalance
<1>7. /\ limiters' \in Seq(Bucket) /\ Len(limiters') = Len(limiters)
      /\ limiters'[i] = Spend(b, at, n)
      /\ \A j \in 1..Len(limiters) : j # i => limiters'[j] = limiters[j]
  BY <1>2, <1>5, <1>6, ExceptSeq DEF Inv, TypeOK
<1>8. Pending' = Pending
  BY <1>5, <1>7 DEF Pending
<1>9. Back(b, at) \in Nat /\ b.last \in Nat /\ b.tokens \in Nat
  BY <1>2, <1>4 DEF Back, Bucket
<1>10. TypeOK'
  <2>1. granted' \in [Tenant -> Nat] /\ rewound' \in [Tenant -> Nat]
    <3>1. granted \in [Tenant -> Nat] /\ rewound \in [Tenant -> Nat]
      BY DEF Inv, TypeOK
    <3> HIDE DEF t, n, b, at
    <3>2. granted[t] \in Nat /\ rewound[t] \in Nat
      BY <1>2, <3>1
    <3>3. granted[t] + n \in Nat /\ rewound[t] + Back(b, at) \in Nat
      BY <1>2, <1>9, <3>2
    <3>4. granted' \in [Tenant -> Nat] /\ rewound' \in [Tenant -> Nat]
      BY <1>5, <3>1, <3>3
    <3>5. QED  BY <3>4
  <2>2. QED  BY <1>5, <1>7, <1>8, <2>1, ReturnFacts DEF Inv, TypeOK
<1>11. OneLimiterEach'
  BY <1>5, <1>8, ReturnFacts
<1>12. ASSUME NEW u \in Tenant PROVE Balance(u)' /\ Unused(u)'
  <2>0. Balance(u) /\ Unused(u) /\ registry[u] \in 0..Len(limiters)
        /\ granted[u] \in Nat /\ rewound[u] \in Nat
    BY DEF Inv, TypeOK
  <2>1. CASE u = t
    <3>1. granted'[u] = granted[u] + n /\ rewound'[u] = rewound[u] + Back(b, at)
      BY <1>2, <1>5, <2>1 DEF Inv, TypeOK
    <3>2. b.tokens + granted[u] <= Burst + Rate * (b.last + rewound[u])
      BY <1>2, <1>3, <2>0, <2>1 DEF Balance
    <3>3. Spend(b, at, n).tokens \in Nat /\ Rate \in Nat /\ Burst \in Nat
      BY <1>6, BucketAssumption, QuotasAssumption DEF Bucket
    <3> HIDE DEF b, n, at
    <3>6. Spend(b, at, n).tokens + (granted[u] + n)
            <= Burst + Rate * (at + (rewound[u] + Back(b, at)))
      BY <1>2, <1>6, <1>9, <2>0, <3>2, <3>3, Carried
    <3>7. registry'[u] = i /\ limiters'[registry'[u]] = Spend(b, at, n)
      BY <1>3, <1>5, <1>7, <2>1
    <3>8. QED  BY <1>2, <1>5, <1>6, <3>1, <3>6, <3>7 DEF Balance, Unused
  <2>2. CASE u # t
    <3>1. granted'[u] = granted[u] /\ rewound'[u] = rewound[u]
      BY <1>5, <2>2 DEF Inv, TypeOK
    <3>2. registry[u] # 0 => limiters'[registry[u]] = limiters[registry[u]]
      <4>1. registry[u] # 0 => registry[u] # i
        BY <1>2, <1>3, <2>2 DEF Inv, OneLimiterEach
      <4>2. QED  BY <1>7, <2>0, <4>1
    <3>3. QED  BY <1>5, <2>0, <3>1, <3>2 DEF Balance, Unused
  <2>3. QED  BY <2>1, <2>2
<1>13. QED  BY <1>10, <1>11, <1>12 DEF Inv

(***************************************************************************)
(* Time passes.                                                            *)
(***************************************************************************)
LEMMA TickInv == ASSUME Inv, Tick PROVE Inv'
<1>1. /\ clock' = clock + 1 /\ clock \in Nat
      /\ UNCHANGED <<limiters, registry, pc, call, granted, rewound>>
  BY DEF Tick, Inv, TypeOK
<1>2. \A p \in Pending : p \in Pending'
  BY <1>1 DEF Pending
<1>3. TypeOK'
  <2>1. call' \in [Call -> {None} \cup Pending']
    BY <1>1, <1>2 DEF Inv, TypeOK
  <2>2. QED  BY <1>1, <1>2, <2>1 DEF Inv, TypeOK
<1>4. OneLimiterEach'
  BY <1>1 DEF Inv, OneLimiterEach
<1>5. ASSUME NEW t \in Tenant PROVE Balance(t)' /\ Unused(t)'
  <2>1. Balance(t) /\ Unused(t)
    BY DEF Inv
  <2>2. ASSUME registry[t] # 0 PROVE limiters[registry[t]].last \in Nat
    <3>1. registry[t] \in 0..Len(limiters) /\ Len(limiters) \in Nat /\ limiters \in Seq(Bucket)
      BY LenProperties DEF Inv, TypeOK
    <3>2. registry[t] \in 1..Len(limiters)
      BY <2>2, <3>1
    <3>3. limiters[registry[t]] \in Bucket
      BY <3>1, <3>2, ElementOfSeq
    <3>4. QED  BY <3>3 DEF Bucket
  <2>3. QED  BY <1>1, <2>1, <2>2 DEF Balance, Unused
<1>6. QED  BY <1>3, <1>4, <1>5 DEF Inv

(***************************************************************************)
(* Every step keeps the balance of every limiter.                          *)
(***************************************************************************)
LEMMA NextInv == Inv /\ [Next]_vars => Inv'
<1> SUFFICES ASSUME Inv, [Next]_vars PROVE Inv'
  OBVIOUS
<1>1. ASSUME NEW c \in Call, NEW t \in Tenant, NEW n \in Bytes, Allow(c, t, n) PROVE Inv'
  BY <1>1, AllowInv
<1>2. ASSUME NEW c \in Call, ReadClock(c) \/ Grant(c) \/ Refuse(c) PROVE Inv'
  BY <1>2, ReadClockInv, GrantInv, RefuseInv
<1>3. CASE Tick
  BY <1>3, TickInv
<1>4. CASE UNCHANGED vars
  BY <1>4 DEF vars, Inv, TypeOK, Pending, OneLimiterEach, Balance, Unused
<1>5. QED  BY <1>1, <1>2, <1>3, <1>4 DEF Next

(***************************************************************************)
(* The invariant of the limiters.                                          *)
(***************************************************************************)
LEMMA Invariant == Spec => []Inv
  BY InitInv, NextInv, PTL DEF Spec

(***************************************************************************)
(* Every limiter, call and count is of the kind the code keeps: a call is  *)
(* only ever between the lookup and the grant with a limiter in hand.      *)
(***************************************************************************)
THEOREM TypeCorrect == Spec => []TypeOK
<1>1. Inv => TypeOK
  BY DEF Inv
<1>2. QED  BY <1>1, Invariant, PTL

(***************************************************************************)
(* A tenant has one limiter for good, and shares it with nobody.           *)
(***************************************************************************)
THEOREM LimitersAreTheTenants == Spec => []OneLimiterEach
<1>1. Inv => OneLimiterEach
  BY DEF Inv
<1>2. QED  BY <1>1, Invariant, PTL

(***************************************************************************)
(* No order of calls grants a tenant more than burst and refill, the time  *)
(* its late readings count twice included.                                 *)
(***************************************************************************)
THEOREM BudgetIsABound == Spec => []BudgetHolds
<1>1. Inv => BudgetHolds
  <2> SUFFICES ASSUME Inv, NEW t \in Tenant
               PROVE  granted[t] <= Burst + Rate * (clock + rewound[t])
    BY DEF BudgetHolds
  <2>0. /\ Balance(t) /\ Unused(t) /\ granted[t] \in Nat /\ rewound[t] \in Nat /\ clock \in Nat
        /\ Rate \in Nat /\ Burst \in Nat
    BY BucketAssumption, QuotasAssumption DEF Inv, TypeOK
  <2>1. CASE registry[t] = 0
    <3>1. Rate * (clock + rewound[t]) \in Nat
      BY <2>0
    <3>2. QED  BY <2>0, <2>1, <3>1 DEF Unused
  <2>2. CASE registry[t] # 0
    <3> DEFINE b == limiters[registry[t]]
    <3>1. registry[t] \in 1..Len(limiters)
      BY <2>2, LenProperties DEF Inv, TypeOK
    <3>2. b \in Bucket
      BY <3>1, ElementOfSeq DEF Inv, TypeOK
    <3>3. b.tokens \in Nat /\ b.last \in Nat
      BY <3>2 DEF Bucket
    <3>4. b.last <= clock /\ b.tokens + granted[t] <= Burst + Rate * (b.last + rewound[t])
      BY <2>0, <2>2 DEF Balance
    <3> HIDE DEF b
    <3>5. Rate * (b.last + rewound[t]) <= Rate * (clock + rewound[t])
      BY <2>0, <3>3, <3>4, Grows
    <3>6. Rate * (b.last + rewound[t]) \in Int /\ Rate * (clock + rewound[t]) \in Int
      BY <2>0, <3>3
    <3>7. QED  BY <2>0, <3>3, <3>4, <3>5, <3>6
  <2>3. QED  BY <2>1, <2>2
<1>2. QED  BY <1>1, Invariant, PTL
=============================================================================
