------------------------------- MODULE Quotas -------------------------------
(***************************************************************************)
(* internal/tenant.Quotas: the limiters of one kind (request or store),    *)
(* one per tenant, made on first use and kept.  AllowRequest and AllowStore*)
(* run on many goroutines; a call finds its limiter under the registry's   *)
(* mutex, then reads the clock, then asks the limiter under the limiter's  *)
(* own mutex, and other calls can run between any two of the three.        *)
(***************************************************************************)
EXTENDS TokenBucket, Sequences

CONSTANTS
  Call,        \* goroutines, each making one call after another
  Tenant,
  None,        \* no call
  Bytes,       \* sizes a call may ask for
  MaxClock     \* bound for TLC on the clock

\* Zero or negative rates disable the limit before a limiter is looked up.
ASSUME QuotasAssumption ==
  /\ Rate > 0
  /\ Bytes \subseteq Nat
  /\ MaxClock \in Nat
  /\ None \notin [tenant : Tenant, n : Nat, limiter : Nat, at : Nat]

VARIABLES
  limiters,    \* every limiter allocated
  registry,    \* the map: tenant -> index of its limiter, 0 when it has none
  pc,          \* each call: "idle", "found" or "timed"
  call,        \* what it asks: the tenant, the bytes, its limiter, its clock reading;
               \* None between calls
  clock,
  granted,     \* history: the bytes granted to each tenant
  rewound      \* history: how far late readings moved its limiter back in all

vars == <<limiters, registry, pc, call, clock, granted, rewound>>

Init ==
  /\ limiters = <<>>
  /\ registry = [t \in Tenant |-> 0]
  /\ pc = [c \in Call |-> "idle"]
  /\ call = [c \in Call |-> None]
  /\ clock = 0
  /\ granted = [t \in Tenant |-> 0]
  /\ rewound = [t \in Tenant |-> 0]

\* A mutant of limiter(): always a new one.
FindFresh(t) ==
  /\ limiters' = Append(limiters, Full)
  /\ registry' = [registry EXCEPT ![t] = Len(limiters) + 1]

\* limiter(), under the registry's mutex.
Find(t) ==
  \/ registry[t] = 0 /\ limiters' = Append(limiters, Full)
                     /\ registry' = [registry EXCEPT ![t] = Len(limiters) + 1]
  \/ registry[t] # 0 /\ UNCHANGED <<limiters, registry>>

Allow(c, t, n) ==
  /\ pc[c] = "idle"
  /\ Find(t)
  /\ call' = [call EXCEPT ![c] = [tenant |-> t, n |-> n, limiter |-> registry'[t], at |-> 0]]
  /\ pc' = [pc EXCEPT ![c] = "found"]
  /\ UNCHANGED <<clock, granted, rewound>>

\* time.Now(), the argument of AllowN.
ReadClock(c) ==
  /\ pc[c] = "found"
  /\ call' = [call EXCEPT ![c].at = clock]
  /\ pc' = [pc EXCEPT ![c] = "timed"]
  /\ UNCHANGED <<limiters, registry, clock, granted, rewound>>

\* A mutant that ends the call and not its step.
ReturnHalfway(c) == call' = [call EXCEPT ![c] = None] /\ UNCHANGED pc

Return(c) ==
  /\ pc' = [pc EXCEPT ![c] = "idle"]
  /\ call' = [call EXCEPT ![c] = None]

\* AllowN under the limiter's mutex: granted and charged, or refused.
Grant(c) ==
  LET t == call[c].tenant
      n == call[c].n
      b == limiters[call[c].limiter]
  IN /\ pc[c] = "timed"
     /\ Grants(b, call[c].at, n)
     /\ limiters' = [limiters EXCEPT ![call[c].limiter] = Spend(b, call[c].at, n)]
     /\ granted' = [granted EXCEPT ![t] = @ + n]
     /\ rewound' = [rewound EXCEPT ![t] = @ + IF call[c].at < b.last THEN b.last - call[c].at ELSE 0]
     /\ Return(c)
     /\ UNCHANGED <<registry, clock>>

Refuse(c) ==
  /\ pc[c] = "timed"
  /\ ~Grants(limiters[call[c].limiter], call[c].at, call[c].n)
  /\ Return(c)
  /\ UNCHANGED <<limiters, registry, clock, granted, rewound>>

Tick ==
  /\ clock < MaxClock
  /\ clock' = clock + 1
  /\ UNCHANGED <<limiters, registry, pc, call, granted, rewound>>

Next == \/ \E c \in Call : \/ \E t \in Tenant, n \in Bytes : Allow(c, t, n)
                           \/ ReadClock(c)
                           \/ Grant(c)
                           \/ Refuse(c)
        \/ Tick

Spec == Init /\ [][Next]_vars

-----------------------------------------------------------------------------
Pending == [tenant : Tenant, n : Nat, limiter : 1..Len(limiters), at : 0..clock]

(***************************************************************************)
(* Limiters are buckets, the registry points into them, and a call past    *)
(* its lookup holds one of them.                                           *)
(***************************************************************************)
TypeOK ==
  /\ limiters \in Seq(Bucket)
  /\ registry \in [Tenant -> 0..Len(limiters)]
  /\ pc \in [Call -> {"idle", "found", "timed"}]
  /\ call \in [Call -> {None} \cup Pending]
  /\ \A c \in Call : pc[c] # "idle" => call[c] \in Pending
  /\ clock \in Nat
  /\ granted \in [Tenant -> Nat]
  /\ rewound \in [Tenant -> Nat]

(***************************************************************************)
(* Two calls of one tenant never spend from different limiters, and two    *)
(* tenants never share one: a call in flight holds the limiter the         *)
(* registry has for its tenant, and no limiter is registered twice.        *)
(***************************************************************************)
OneLimiterEach ==
  /\ \A c \in Call : pc[c] # "idle" => call[c].limiter = registry[call[c].tenant]
  /\ \A t, u \in Tenant : registry[t] = registry[u] /\ registry[t] # 0 => t = u

(***************************************************************************)
(* The anti-flooding budget: what a tenant was granted is the burst plus   *)
(* the refill of the time that passed, and of the time its late readings   *)
(* made the limiter count twice, whatever the order of calls.              *)
(***************************************************************************)
BudgetHolds ==
  \A t \in Tenant : granted[t] <= Burst + Rate * (clock + rewound[t])

\* What the budget rests on: tokens in the bucket and bytes granted together.
Balance(t) ==
  LET b == limiters[registry[t]]
  IN registry[t] # 0 => /\ b.last <= clock
                        /\ b.tokens + granted[t] <= Burst + Rate * (b.last + rewound[t])

Unused(t) == registry[t] = 0 => granted[t] = 0

Inv == /\ TypeOK
       /\ OneLimiterEach
       /\ \A t \in Tenant : Balance(t) /\ Unused(t)
=============================================================================
