----------------------------- MODULE Lifecycle ------------------------------
(***************************************************************************)
(* cmd/proxy: the process from the environment it reads to its exit, over  *)
(* restarts with other environments.  Main opens the database or falls     *)
(* back to memory, takes the encryption key or refuses to start, launches  *)
(* the server, waits for a signal, drains for a grace period and closes    *)
(* the pool.  A request is reduced to what the life cycle can interrupt:   *)
(* its L2 search, its upstream call and its L2 store; Engine has the rest. *)
(***************************************************************************)
EXTENDS Integers, FiniteSets

CONSTANTS
  Req,
  Tenant, TenantOf,  \* the tenant of each request
  Keys,              \* usable data keys
  BadKey,            \* a key variable that is set and unusable
  None,              \* unset; no backend, no key
  Environments,      \* records [provider, cache, database, key, isolation]
  Grace,             \* ticks Shutdown waits
  MaxBoots,          \* bounds for TLC on starts
  MaxOutages         \* and on database outages

ASSUME LifecycleAssumption ==
  /\ TenantOf \in [Req -> Tenant]
  /\ BadKey \notin Keys /\ None \notin Keys \cup Tenant \cup {BadKey}
  /\ "shared" \notin Tenant /\ None \notin {"memory", "postgres"}
  /\ Grace \in Nat /\ MaxBoots \in Nat /\ MaxOutages \in Nat
  /\ \A e \in Environments : e.key \in Keys \cup {BadKey, None}

VARIABLES
  main,       \* where main is, "down" when there is no process
  cfg,        \* the configuration it runs under
  listener,   \* its server: "off", "starting", "open" or "closed"
  backend,    \* its L2: None, "memory" or "postgres"
  ring,       \* its data key, None without encryption
  memory,     \* entries of its in-memory index
  drained,    \* ticks since Shutdown began
  ending,     \* how the last process ended
  pc,         \* "new", "search", "upstream", "add", "done" or "cut"
  got,        \* the entry a request was answered from, and whether in isolation
  rows,       \* entries in the database
  dbUp, outages,
  boots

requests == <<pc, got>>
durable  == <<rows, dbUp, outages>>
process  == <<cfg, listener, backend, ring, memory, drained, ending>>
vars     == <<main, process, requests, durable, boots>>

-----------------------------------------------------------------------------
\* config.Load: an unset, empty or unparsable variable silently becomes its
\* default; any word but the exact one shares.
Env(raw, parsable, default) == IF raw \in parsable THEN raw ELSE default

Load(e) == [provider |-> e.provider,
            cacheEnabled |-> Env(e.cache, {"true", "false"}, "true") = "true",
            database |-> e.database,
            key |-> e.key,
            isolated |-> Env(e.isolation, {"isolated", "shared"}, "shared") = "isolated"]

\* An absolute URL, or unset and so the default one.
ProviderUsable(url) == url # "relative"

NoConfig == [provider |-> "absolute", cacheEnabled |-> FALSE, database |-> FALSE,
             key |-> None, isolated |-> FALSE]

Scope(r) == IF cfg.isolated THEN TenantOf[r] ELSE "shared"
InFlight(r) == pc[r] \in {"search", "upstream", "add"}
\* A call to the database holds one of the pool's connections until it returns;
\* a request counts from its acceptance on, though its embedding comes first.
Connected(r) == backend = "postgres" /\ pc[r] \in {"search", "add"}

Init ==
  /\ main = "down" /\ cfg = NoConfig /\ listener = "off" /\ backend = None /\ ring = None
  /\ memory = {} /\ drained = 0 /\ ending = "none"
  /\ pc = [r \in Req |-> "new"]
  /\ got = [r \in Req |-> None]
  /\ rows = {} /\ dbUp \in BOOLEAN /\ outages = 0
  /\ boots = 0

ExitStillOpen(how) ==    \* a mutant whose socket stays open
  /\ main' = "down" /\ ending' = how
  /\ backend' = None /\ ring' = None /\ memory' = {}
  /\ pc' = [r \in Req |-> IF InFlight(r) THEN "cut" ELSE pc[r]]
  /\ UNCHANGED <<cfg, listener, drained, got, durable, boots>>

\* The process is gone, and with it whatever it was doing.
Exit(how) ==
  /\ main' = "down" /\ ending' = how
  /\ listener' = "off" /\ backend' = None /\ ring' = None /\ memory' = {}
  /\ pc' = [r \in Req |-> IF InFlight(r) THEN "cut" ELSE pc[r]]
  /\ UNCHANGED <<cfg, drained, got, durable, boots>>

-----------------------------------------------------------------------------
\* A process starts under some environment.
Start(e) ==
  LET c == Load(e) IN
  /\ main = "down" /\ boots < MaxBoots
  /\ boots' = boots + 1
  /\ cfg' = c
  /\ drained' = 0
  /\ main' = IF ~ProviderUsable(c.provider) THEN "down"
             ELSE IF ~c.cacheEnabled THEN "launched"
             ELSE IF c.database THEN "opening" ELSE "keying"
  /\ listener' = IF main' = "launched" THEN "starting" ELSE "off"
  /\ ending' = IF main' = "down" THEN "refused" ELSE ending
  /\ backend' = IF main' = "keying" THEN "memory" ELSE None
  /\ UNCHANGED <<ring, memory, requests, durable>>

\* NewPostgresIndex: connect, ping and schema within its timeout, or the
\* in-memory index for the life of the process.
OpenDatabase ==
  /\ main = "opening"
  /\ main' = "keying"
  /\ \/ dbUp /\ backend' = "postgres"
     \/ backend' = "memory"
  /\ UNCHANGED <<cfg, listener, ring, memory, drained, ending, requests, durable, boots>>

\* A mutant: an unusable key is treated like no key.
TakeKeyOrNone ==
  /\ main = "keying"
  /\ main' = "launched" /\ listener' = "starting"
  /\ ring' = IF cfg.key \in Keys THEN cfg.key ELSE None
  /\ UNCHANGED <<cfg, backend, memory, drained, ending, requests, durable, boots>>

\* EnvKeyProvider.DataKey and NewEncryptor; without the variable, no cipher.
TakeKey ==
  /\ main = "keying" /\ cfg.key # BadKey
  /\ main' = "launched" /\ listener' = "starting"
  /\ ring' = cfg.key
  /\ UNCHANGED <<cfg, backend, memory, drained, ending, requests, durable, boots>>

RefuseKey == main = "keying" /\ cfg.key = BadKey /\ Exit("refused")

\* The goroutine of ListenAndServe, which exits the process if it cannot.
Listen ==
  /\ listener = "starting"
  /\ listener' = "open"
  /\ UNCHANGED <<main, cfg, backend, ring, memory, drained, ending, requests, durable, boots>>

ListenFails == listener = "starting" /\ Exit("refused")

\* signal.NotifyContext: from here on a signal is an orderly stop.
Wait ==
  /\ main = "launched"
  /\ main' = "waiting"
  /\ UNCHANGED <<process, requests, durable, boots>>

\* Shutdown closes the listener and waits for the handlers.
Stop ==
  /\ main = "waiting"
  /\ main' = "draining" /\ listener' = "closed"
  /\ UNCHANGED <<cfg, backend, ring, memory, drained, ending, requests, durable, boots>>

\* A signal before NotifyContext, a crash, or a kill.
Kill == main # "down" /\ Exit("killed")

DrainedAll == \A r \in Req : ~InFlight(r)    \* as a mutant, a stop without a deadline

Drained == DrainedAll \/ drained = Grace

CloseOrExit ==
  /\ main = "draining" /\ Drained
  /\ \/ /\ backend = "postgres"
        /\ main' = "closing"
        /\ UNCHANGED <<process, requests, durable, boots>>
     \/ backend # "postgres" /\ Exit("stopped")

\* pool.Close returns once every connection is back; then main does.
PoolCloses ==
  /\ main = "closing"
  /\ \A r \in Req : ~Connected(r)
  /\ Exit("stopped")

Tick ==
  /\ main = "draining" /\ drained < Grace
  /\ drained' = drained + 1
  /\ UNCHANGED <<main, cfg, listener, backend, ring, memory, ending, requests, durable, boots>>

-----------------------------------------------------------------------------
\* A request.  With the cache disabled it goes straight to the upstream.
Accept(r) ==
  /\ listener = "open" /\ pc[r] = "new"
  /\ pc' = [pc EXCEPT ![r] = IF cfg.cacheEnabled THEN "search" ELSE "upstream"]
  /\ UNCHANGED <<main, process, got, durable, boots>>

Stored == IF backend = "postgres" THEN rows ELSE memory

\* A mutant: the search is in every scope.
VisibleToAll(r) == Stored
Visible(r) == {e \in Stored : e.scope = Scope(r)}

\* A hit needs the database, and an entry this process can open: one under its
\* own key; without a key it takes every body as it is.
Hit(r) ==
  /\ pc[r] = "search" /\ (backend = "postgres" => dbUp)
  /\ \E e \in Visible(r) :
       /\ ring \in {None, e.by}
       /\ got' = [got EXCEPT ![r] = [entry |-> e, isolated |-> cfg.isolated]]
  /\ pc' = [pc EXCEPT ![r] = "done"]
  /\ UNCHANGED <<main, process, durable, boots>>

Miss(r) ==
  /\ pc[r] = "search"
  /\ pc' = [pc EXCEPT ![r] = "upstream"]
  /\ UNCHANGED <<main, process, got, durable, boots>>

\* The upstream answers.  An error, or a pool that is closed by now, ends the
\* request without a store.
UpstreamReturns(r) ==
  /\ pc[r] = "upstream"
  /\ \/ backend # None /\ main # "closing" /\ pc' = [pc EXCEPT ![r] = "add"]
     \/ pc' = [pc EXCEPT ![r] = "done"]
  /\ UNCHANGED <<main, process, got, durable, boots>>

NewEntry(r) == [of |-> r, by |-> ring, scope |-> Scope(r), wanted |-> cfg.key, isolated |-> cfg.isolated]

Written(r) ==
  \/ backend = "memory" /\ memory' = memory \cup {NewEntry(r)} /\ UNCHANGED rows
  \/ backend = "postgres" /\ dbUp /\ rows' = rows \cup {NewEntry(r)} /\ UNCHANGED memory

\* The store comes before the answer.
Add(r) ==
  /\ pc[r] = "add"
  /\ Written(r)
  /\ pc' = [pc EXCEPT ![r] = "done"]
  /\ UNCHANGED <<main, cfg, listener, backend, ring, drained, ending, got, dbUp, outages, boots>>

\* An error before the row is committed, or after it.
AddFails(r) ==
  /\ pc[r] = "add" /\ backend = "postgres"
  /\ rows' = rows \/ (dbUp /\ rows' = rows \cup {NewEntry(r)})
  /\ pc' = [pc EXCEPT ![r] = "done"]
  /\ UNCHANGED <<main, process, got, dbUp, outages, boots>>

-----------------------------------------------------------------------------
Outage ==
  /\ dbUp /\ outages < MaxOutages
  /\ dbUp' = FALSE /\ outages' = outages + 1
  /\ UNCHANGED <<main, process, requests, rows, boots>>

Recovery ==
  /\ ~dbUp /\ dbUp' = TRUE
  /\ UNCHANGED <<main, process, requests, rows, outages, boots>>

\* With no start left there may be nothing to do.
Over == main = "down" /\ boots = MaxBoots /\ UNCHANGED vars

StoreReturns(r) == Hit(r) \/ Miss(r) \/ Add(r) \/ AddFails(r)

Next == \/ \E e \in Environments : Start(e)
        \/ OpenDatabase \/ TakeKey \/ RefuseKey \/ Listen \/ ListenFails
        \/ Wait \/ Stop \/ Kill \/ CloseOrExit \/ PoolCloses \/ Tick
        \/ \E r \in Req : Accept(r) \/ StoreReturns(r) \/ UpstreamReturns(r)
        \/ Outage \/ Recovery \/ Over

Spec == Init /\ [][Next]_vars

\* Main goes on, time passes, and a call to L2 returns.  Nothing is assumed of
\* the upstream: its client waits up to eight times the grace period.
Fairness ==
  /\ WF_vars(OpenDatabase) /\ WF_vars(TakeKey \/ RefuseKey) /\ WF_vars(Wait)
  /\ WF_vars(CloseOrExit) /\ WF_vars(PoolCloses) /\ WF_vars(Tick)
  /\ \A r \in Req : WF_vars(StoreReturns(r))

FairSpec == Spec /\ Fairness

-----------------------------------------------------------------------------
Entries == [of : Req, by : Keys \cup {None}, scope : Tenant \cup {"shared"},
            wanted : Keys \cup {BadKey, None}, isolated : BOOLEAN]

(***************************************************************************)
(* Every variable has its type; a pool or a key is there only while a      *)
(* process is past taking it, and what is down holds nothing in memory.    *)
(***************************************************************************)
TypeOK ==
  /\ main \in {"down", "opening", "keying", "launched", "waiting", "draining", "closing"}
  /\ listener \in {"off", "starting", "open", "closed"}
  /\ cfg.key \in Keys \cup {BadKey, None} /\ cfg.isolated \in BOOLEAN
  /\ backend \in {None, "memory", "postgres"} /\ ring \in Keys \cup {None}
  /\ memory \subseteq Entries /\ rows \subseteq Entries
  /\ drained \in 0..Grace /\ boots \in 0..MaxBoots /\ outages \in 0..MaxOutages
  /\ ending \in {"none", "refused", "killed", "stopped"}
  /\ pc \in [Req -> {"new", "search", "upstream", "add", "done", "cut"}]
  /\ got \in [Req -> [entry : Entries, isolated : BOOLEAN] \cup {None}]
  /\ main = "down" => listener = "off" /\ memory = {} /\ \A r \in Req : ~InFlight(r)

(***************************************************************************)
(* "A configured-but-invalid key fails startup rather than running without *)
(* the encryption the operator asked for": whatever the key was over all   *)
(* restarts, no row is plaintext that a process with a key configured      *)
(* wrote, and each is under the key of its own process.                    *)
(***************************************************************************)
RowsAreSealed == \A e \in rows : e.by = e.wanted

(***************************************************************************)
(* Isolation outlives restarts: what a request of an isolated deployment   *)
(* had stored is served to its own tenant alone, also by later processes   *)
(* that share, and an isolated one serves nothing of another tenant.       *)
(***************************************************************************)
IsolationOutlivesRestarts ==
  \A r \in Req : got[r] # None =>
    LET e == got[r].entry IN
    e.isolated \/ got[r].isolated => e.isolated /\ got[r].isolated /\ TenantOf[r] = TenantOf[e.of]

(***************************************************************************)
(* An orderly stop ends, however long the upstream takes to answer what is *)
(* still running: the drain has a deadline, and the pool waits for         *)
(* database calls only.                                                    *)
(***************************************************************************)
EveryStopEnds == main = "draining" ~> main = "down"
=============================================================================
