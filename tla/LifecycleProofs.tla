-------------------------- MODULE LifecycleProofs ---------------------------
(***************************************************************************)
(* The two processes.  What outlives the proxy's, for every set of         *)
(* requests, tenants, keys and environments, every grace period and any    *)
(* number of starts and outages; and what the sidecar's holds, for any     *)
(* calls, any pool of threads and any number of restarts.                  *)
(***************************************************************************)
EXTENDS Lifecycle, Sidecar, FiniteSetTheorems, TLAPS

\* Main is past taking its key; only then is there a server.
Running == {"launched", "waiting", "draining", "closing"}

\* The inductive invariant under RowsAreSealed: a process that stores holds the
\* key its configuration names, and there are no requests before it does.
KeyTaken ==
  /\ main \notin Running => listener = "off" /\ \A r \in Req : ~InFlight(r)
  /\ main \in Running /\ backend # None => ring = cfg.key

\* The one under IsolationOutlivesRestarts: an entry is in its owner's scope if
\* it was stored in isolation, and else in the shared one.
Scoped(e) == e.scope = IF e.isolated THEN TenantOf[e.of] ELSE "shared"

InScope == \A e \in memory \cup rows : Scoped(e)

\* What the requests' steps and the process's leave alone.
ProcessKept == UNCHANGED <<main, cfg, listener, backend, ring, drained, ending, boots>>

-----------------------------------------------------------------------------
(***************************************************************************)
(* The system starts well typed.                                           *)
(***************************************************************************)
LEMMA InitType == Init => TypeOK
  BY LifecycleAssumption DEF Init, TypeOK, NoConfig, InFlight

(***************************************************************************)
(* An exit leaves nothing running.                                         *)
(***************************************************************************)
LEMMA ExitType ==
  ASSUME TypeOK, NEW how \in {"refused", "killed", "stopped"}, Exit(how)
  PROVE  TypeOK'
<1>1. pc' \in [Req -> {"new", "search", "upstream", "add", "done", "cut"}]
  BY DEF Exit, TypeOK
<1>2. \A r \in Req : pc'[r] \notin {"search", "upstream", "add"}
  BY DEF Exit, TypeOK, InFlight
<1>3. main' = "down" /\ listener' = "off" /\ memory' = {} /\ backend' = None /\ ring' = None
      /\ ending' = how
  BY DEF Exit
<1>4. UNCHANGED <<cfg, drained, got, rows, dbUp, outages, boots>>
  BY DEF Exit, durable
<1>5. QED  BY <1>1, <1>2, <1>3, <1>4 DEF TypeOK, InFlight

(***************************************************************************)
(* A start takes the configuration of its environment.                     *)
(***************************************************************************)
LEMMA StartType == ASSUME TypeOK, NEW e \in Environments, Start(e) PROVE TypeOK'
<1>1. cfg'.key \in Keys \cup {BadKey, None} /\ cfg'.isolated \in BOOLEAN
  <2>1. cfg' = Load(e) /\ e.key \in Keys \cup {BadKey, None}
    BY LifecycleAssumption DEF Start
  <2>2. QED  BY <2>1 DEF Load
<1>2. main' \in {"down", "launched", "opening", "keying"}
      /\ listener' = IF main' = "launched" THEN "starting" ELSE "off"
  BY DEF Start
<1>3. backend' \in {None, "memory"} /\ ending' \in {"refused", ending} /\ drained' = 0
      /\ boots' = boots + 1 /\ boots < MaxBoots /\ main = "down"
  BY DEF Start
<1>4. UNCHANGED <<ring, memory, pc, got, rows, dbUp, outages>>
  BY DEF Start, requests, durable
<1>5. QED  BY <1>1, <1>2, <1>3, <1>4, LifecycleAssumption DEF TypeOK, InFlight

(***************************************************************************)
(* The other steps of main and of its server.                              *)
(***************************************************************************)
LEMMA MainType ==
  ASSUME TypeOK,
         \/ OpenDatabase \/ TakeKey \/ RefuseKey \/ Listen \/ ListenFails \/ Wait \/ Stop
         \/ Kill \/ CloseOrExit \/ PoolCloses \/ Tick
  PROVE  TypeOK'
<1>1. CASE OpenDatabase
  BY <1>1 DEF OpenDatabase, TypeOK, requests, durable, InFlight
<1>2. CASE TakeKey
  BY <1>2 DEF TakeKey, TypeOK, requests, durable, InFlight
<1>3. CASE Listen
  BY <1>3 DEF Listen, TypeOK, requests, durable, InFlight
<1>4. CASE Wait
  BY <1>4 DEF Wait, TypeOK, process, requests, durable, InFlight
<1>5. CASE Stop
  BY <1>5 DEF Stop, TypeOK, requests, durable, InFlight
<1>6. CASE Tick
  BY <1>6, LifecycleAssumption DEF Tick, TypeOK, requests, durable, InFlight
<1>7. CASE CloseOrExit /\ main' = "closing"
  <2>1. main = "draining" /\ UNCHANGED <<process, requests, durable, boots>>
    BY <1>7 DEF CloseOrExit, Exit
  <2>2. QED  BY <1>7, <2>1 DEF TypeOK, process, requests, durable, InFlight
<1>8. ASSUME NEW how \in {"refused", "killed", "stopped"}, Exit(how) PROVE TypeOK'
  BY <1>8, ExitType
<1>9. CASE \E how \in {"refused", "killed", "stopped"} : Exit(how)
  BY <1>8, <1>9
<1>10. RefuseKey \/ ListenFails \/ Kill \/ PoolCloses \/ (CloseOrExit /\ main' # "closing")
         => \E how \in {"refused", "killed", "stopped"} : Exit(how)
  BY DEF RefuseKey, ListenFails, Kill, PoolCloses, CloseOrExit
<1>11. QED  BY <1>1, <1>2, <1>3, <1>4, <1>5, <1>6, <1>7, <1>9, <1>10

(***************************************************************************)
(* What a request would store is an entry.                                 *)
(***************************************************************************)
LEMMA EntryType == ASSUME TypeOK, NEW r \in Req PROVE NewEntry(r) \in Entries
<1>1. Scope(r) \in Tenant \cup {"shared"}
  BY LifecycleAssumption DEF Scope
<1>2. QED  BY <1>1 DEF NewEntry, Entries, TypeOK

(***************************************************************************)
(* The steps of a request.                                                 *)
(***************************************************************************)
LEMMA RequestType ==
  ASSUME TypeOK, NEW r \in Req, Accept(r) \/ StoreReturns(r) \/ UpstreamReturns(r)
  PROVE  TypeOK'
<1>0. main # "down"
  BY DEF TypeOK, Accept, StoreReturns, Hit, Miss, Add, AddFails, UpstreamReturns, InFlight
<1>1. CASE Accept(r)
  BY <1>0, <1>1 DEF Accept, TypeOK, process, durable
<1>2. CASE Hit(r)
  <2>1. PICK e \in Visible(r) : got' = [got EXCEPT ![r] = [entry |-> e, isolated |-> cfg.isolated]]
    BY <1>2 DEF Hit
  <2>2. e \in Entries
    BY <2>1 DEF Visible, Stored, TypeOK
  <2>3. [entry |-> e, isolated |-> cfg.isolated] \in [entry : Entries, isolated : BOOLEAN]
    BY <2>2 DEF TypeOK
  <2>4. QED  BY <1>0, <1>2, <2>1, <2>3 DEF Hit, TypeOK, process, durable
<1>3. CASE Miss(r)
  BY <1>0, <1>3 DEF Miss, TypeOK, process, durable
<1>4. CASE UpstreamReturns(r)
  BY <1>0, <1>4 DEF UpstreamReturns, TypeOK, process, durable
<1>5. CASE Add(r)
  <2>1. NewEntry(r) \in Entries
    BY EntryType
  <2>2. memory' \subseteq Entries /\ rows' \subseteq Entries
    BY <1>5, <2>1 DEF Add, Written, TypeOK
  <2>3. QED  BY <1>0, <1>5, <2>2 DEF Add, TypeOK
<1>6. CASE AddFails(r)
  <2>1. NewEntry(r) \in Entries
    BY EntryType
  <2>2. rows' \subseteq Entries
    BY <1>6, <2>1 DEF AddFails, TypeOK
  <2>3. QED  BY <1>0, <1>6, <2>2 DEF AddFails, TypeOK, process
<1>7. QED  BY <1>1, <1>2, <1>3, <1>4, <1>5, <1>6 DEF StoreReturns

(***************************************************************************)
(* Every step keeps the types.                                             *)
(***************************************************************************)
LEMMA NextType == TypeOK /\ [Next]_vars => TypeOK'
<1> SUFFICES ASSUME TypeOK, [Next]_vars PROVE TypeOK'
  OBVIOUS
<1>1. CASE \E e \in Environments : Start(e)
  BY <1>1, StartType
<1>2. CASE \E r \in Req : Accept(r) \/ StoreReturns(r) \/ UpstreamReturns(r)
  BY <1>2, RequestType
<1>3. CASE Outage \/ Recovery
  BY <1>3, LifecycleAssumption DEF Outage, Recovery, TypeOK, process, requests, InFlight
<1>4. CASE UNCHANGED vars
  BY <1>4 DEF vars, process, requests, durable, TypeOK, InFlight
<1>5. QED  BY <1>1, <1>2, <1>3, <1>4, MainType DEF Next, Over

(***************************************************************************)
(* The process, its requests and the database keep their types over every  *)
(* start, crash and outage.                                                *)
(***************************************************************************)
THEOREM TypeCorrect == Spec => []TypeOK
  BY InitType, NextType, PTL DEF Spec

-----------------------------------------------------------------------------
(***************************************************************************)
(* Before main has taken its key there is no server and no request; from   *)
(* then on the key is the configured one.                                  *)
(***************************************************************************)
LEMMA ExitKey == ASSUME TypeOK, NEW how, Exit(how) PROVE KeyTaken'
<1>1. main' = "down" /\ listener' = "off"
  BY DEF Exit
<1>2. \A r \in Req : pc'[r] \notin {"search", "upstream", "add"}
  BY DEF Exit, TypeOK, InFlight
<1>3. QED  BY <1>1, <1>2 DEF KeyTaken, Running, InFlight

(***************************************************************************)
(* Every step keeps a running server on the configured key.                *)
(***************************************************************************)
LEMMA NextKey == TypeOK /\ KeyTaken /\ [Next]_vars => KeyTaken'
<1> SUFFICES ASSUME TypeOK, KeyTaken, [Next]_vars PROVE KeyTaken'
  OBVIOUS
<1>1. ASSUME NEW e \in Environments, Start(e) PROVE KeyTaken'
  <2>1. \/ main' \notin Running /\ listener' = "off"
        \/ main' \in Running /\ backend' = None
    BY <1>1 DEF Start, Running
  <2>2. main = "down" /\ pc' = pc
    BY <1>1 DEF Start, requests
  <2>3. QED  BY <2>1, <2>2 DEF TypeOK, KeyTaken, InFlight
<1>2. CASE OpenDatabase
  BY <1>2 DEF OpenDatabase, KeyTaken, Running, requests, InFlight
<1>3. CASE TakeKey
  BY <1>3 DEF TakeKey, KeyTaken, Running
<1>4. CASE Listen
  BY <1>4 DEF Listen, KeyTaken, Running, requests, InFlight
<1>5. CASE Wait \/ Stop \/ Tick
  BY <1>5 DEF Wait, Stop, Tick, KeyTaken, Running, process
<1>6. CASE CloseOrExit /\ main' = "closing"
  BY <1>6 DEF CloseOrExit, Exit, KeyTaken, Running, process
<1>7. ASSUME NEW how, Exit(how) PROVE KeyTaken'
  BY <1>7, ExitKey
<1>8. RefuseKey \/ ListenFails \/ Kill \/ PoolCloses \/ (CloseOrExit /\ main' # "closing")
        => \E how \in {"refused", "killed", "stopped"} : Exit(how)
  BY DEF RefuseKey, ListenFails, Kill, PoolCloses, CloseOrExit
<1>9. ASSUME NEW r \in Req, Accept(r) \/ StoreReturns(r) \/ UpstreamReturns(r) PROVE KeyTaken'
  <2>1. main \in Running
    BY <1>9 DEF KeyTaken, Accept, StoreReturns, Hit, Miss, Add, AddFails, UpstreamReturns, InFlight
  <2>2. UNCHANGED <<main, backend, ring, cfg>>
    BY <1>9 DEF Accept, StoreReturns, Hit, Miss, Add, AddFails, UpstreamReturns, process
  <2>3. QED  BY <2>1, <2>2 DEF KeyTaken
<1>10. CASE Outage \/ Recovery
  BY <1>10 DEF Outage, Recovery, KeyTaken, process, requests, InFlight
<1>11. CASE UNCHANGED vars
  BY <1>11 DEF vars, process, requests, KeyTaken, InFlight
<1>12. QED  BY <1>1, <1>2, <1>3, <1>4, <1>5, <1>6, <1>7, <1>8, <1>9, <1>10, <1>11 DEF Next, Over

-----------------------------------------------------------------------------
(***************************************************************************)
(* How entries come about: a step adds at most the entry of one request,   *)
(* which is then adding it, and takes none from the database.              *)
(***************************************************************************)
Adds(r) == /\ pc[r] = "add" /\ NewEntry(r) \in Entries
           /\ memory' \cup rows' \subseteq memory \cup rows \cup {NewEntry(r)}
           /\ rows' \subseteq rows \cup (IF backend = "postgres" THEN {NewEntry(r)} ELSE {})

AddsNothing == memory' \subseteq memory /\ rows' = rows

(***************************************************************************)
(* Every step adds nothing or the entry of one request that is adding.     *)
(***************************************************************************)
LEMMA EntriesGrow ==
  ASSUME TypeOK, [Next]_vars
  PROVE  rows \subseteq rows' /\ (AddsNothing \/ \E r \in Req : Adds(r))
<1>1. ASSUME NEW e \in Environments, Start(e) PROVE AddsNothing
  BY <1>1 DEF Start, durable, AddsNothing
<1>2. CASE OpenDatabase \/ TakeKey \/ Listen \/ Wait \/ Stop \/ Tick \/ Outage \/ Recovery
  BY <1>2 DEF OpenDatabase, TakeKey, Listen, Wait, Stop, Tick, Outage, Recovery, process, durable,
              AddsNothing
<1>3. ASSUME NEW how, Exit(how) PROVE AddsNothing
  BY <1>3 DEF Exit, durable, AddsNothing
<1>4. RefuseKey \/ ListenFails \/ Kill \/ PoolCloses => \E how \in {"refused", "killed", "stopped"} : Exit(how)
  BY DEF RefuseKey, ListenFails, Kill, PoolCloses
<1>5. CASE CloseOrExit
  BY <1>3, <1>5 DEF CloseOrExit, process, durable, AddsNothing
<1>6. ASSUME NEW r \in Req, Accept(r) \/ Hit(r) \/ Miss(r) \/ UpstreamReturns(r) PROVE AddsNothing
  BY <1>6 DEF Accept, Hit, Miss, UpstreamReturns, process, durable, AddsNothing
<1>7. ASSUME NEW r \in Req, Add(r) \/ AddFails(r) PROVE Adds(r) /\ rows \subseteq rows'
  <2>1. NewEntry(r) \in Entries
    BY EntryType
  <2>2. CASE Add(r)
    BY <2>1, <2>2 DEF Add, Written, Adds
  <2>3. CASE AddFails(r)
    BY <2>1, <2>3 DEF AddFails, process, Adds
  <2>4. QED  BY <1>7, <2>2, <2>3
<1>8. CASE UNCHANGED vars
  BY <1>8 DEF vars, process, durable, AddsNothing
<1>9. AddsNothing => rows \subseteq rows'
  BY DEF AddsNothing
<1>10. QED  BY <1>1, <1>2, <1>3, <1>4, <1>5, <1>6, <1>7, <1>8, <1>9 DEF Next, StoreReturns, Over

(***************************************************************************)
(* An answer is recorded as served only by a search of its own scope.      *)
(***************************************************************************)
Served(r) == \E e \in Visible(r) : got' = [got EXCEPT ![r] = [entry |-> e, isolated |-> cfg.isolated]]

(***************************************************************************)
(* Only a hit records an answer as served.                                 *)
(***************************************************************************)
LEMMA OnlyHitsServe ==
  ASSUME TypeOK, [Next]_vars
  PROVE  got' = got \/ \E r \in Req : Served(r)
<1>1. ASSUME NEW r \in Req, Hit(r) PROVE Served(r)
  BY <1>1 DEF Hit, Served
<1>2. ASSUME NEW r \in Req, Accept(r) \/ Add(r) \/ Miss(r) \/ AddFails(r) \/ UpstreamReturns(r)
      PROVE  got' = got
  BY <1>2 DEF Accept, Add, Miss, AddFails, UpstreamReturns
<1>3. ASSUME NEW e \in Environments, Start(e) PROVE got' = got
  BY <1>3 DEF Start, requests
<1>4. CASE \/ OpenDatabase \/ TakeKey \/ RefuseKey \/ Listen \/ ListenFails \/ Wait \/ Stop
           \/ Kill \/ CloseOrExit \/ PoolCloses \/ Tick \/ Outage \/ Recovery \/ UNCHANGED vars
  BY <1>4 DEF OpenDatabase, TakeKey, RefuseKey, Listen, ListenFails, Wait, Stop, Kill, CloseOrExit,
              PoolCloses, Tick, Outage, Recovery, Exit, vars, requests
<1>5. QED  BY <1>1, <1>2, <1>3, <1>4 DEF Next, StoreReturns, Over

-----------------------------------------------------------------------------
(***************************************************************************)
(* A configured key that cannot be used stops the start, so whatever a     *)
(* process with a key stores is under that key, over all restarts.         *)
(***************************************************************************)
THEOREM RowsStaySealed == Spec => []RowsAreSealed
<1>1. Init => KeyTaken /\ RowsAreSealed
  BY DEF Init, KeyTaken, Running, RowsAreSealed, InFlight
<1>2. TypeOK /\ KeyTaken /\ RowsAreSealed /\ [Next]_vars => RowsAreSealed'
  <2> SUFFICES ASSUME TypeOK, KeyTaken, RowsAreSealed, [Next]_vars, NEW e \in rows'
               PROVE  e.by = e.wanted
    BY DEF RowsAreSealed
  <2>1. CASE e \in rows
    BY <2>1 DEF RowsAreSealed
  <2>2. ASSUME NEW r \in Req, Adds(r), e \notin rows PROVE e.by = e.wanted
    <3>1. e = NewEntry(r) /\ backend = "postgres" /\ InFlight(r)
      BY <2>2 DEF Adds, InFlight
    <3>2. main \in Running
      BY <3>1 DEF KeyTaken
    <3>3. ring = cfg.key
      BY <3>1, <3>2, LifecycleAssumption DEF KeyTaken, Adds, TypeOK
    <3>4. QED  BY <3>1, <3>3 DEF NewEntry
  <2>3. QED  BY <2>1, <2>2, EntriesGrow DEF AddsNothing
<1>3. QED  BY <1>1, <1>2, TypeCorrect, NextKey, PTL DEF Spec

(***************************************************************************)
(* Every entry stays in the scope its request asked for.                   *)
(***************************************************************************)
LEMMA NextScope == TypeOK /\ InScope /\ [Next]_vars => InScope'
<1> SUFFICES ASSUME TypeOK, InScope, [Next]_vars, NEW e \in memory' \cup rows' PROVE Scoped(e)
  BY DEF InScope, Scoped
<1>1. CASE e \in memory \cup rows
  BY <1>1 DEF InScope
<1>2. ASSUME NEW r \in Req, Adds(r), e \notin memory \cup rows PROVE Scoped(e)
  <2>1. e = NewEntry(r)
    BY <1>2 DEF Adds
  <2>2. QED  BY <2>1 DEF NewEntry, Scope, Scoped
<1>3. QED  BY <1>1, <1>2, EntriesGrow DEF AddsNothing

(***************************************************************************)
(* What an isolated request had stored is served to its own tenant alone,  *)
(* whatever words later processes are configured with.                     *)
(***************************************************************************)
THEOREM IsolationStays == Spec => []IsolationOutlivesRestarts
<1> DEFINE Own(g, r) == g.entry.isolated \/ g.isolated
                          => g.entry.isolated /\ g.isolated /\ TenantOf[r] = TenantOf[g.entry.of]
<1>1. Init => InScope /\ IsolationOutlivesRestarts
  BY DEF Init, InScope, IsolationOutlivesRestarts
<1>2. TypeOK /\ InScope /\ IsolationOutlivesRestarts /\ [Next]_vars => IsolationOutlivesRestarts'
  <2> SUFFICES ASSUME TypeOK, InScope, IsolationOutlivesRestarts, [Next]_vars,
                      NEW s \in Req, got'[s] # None
               PROVE  Own(got'[s], s)
    BY DEF IsolationOutlivesRestarts
  <2>1. CASE got'[s] = got[s]
    BY <2>1 DEF IsolationOutlivesRestarts
  <2>2. ASSUME NEW r \in Req, Served(r), got'[s] # got[s] PROVE Own(got'[s], s)
    <3>1. PICK e \in Visible(r) : got' = [got EXCEPT ![r] = [entry |-> e, isolated |-> cfg.isolated]]
      BY <2>2 DEF Served
    <3>2. s = r /\ got'[s] = [entry |-> e, isolated |-> cfg.isolated]
      BY <2>2, <3>1 DEF TypeOK
    <3>3. e \in memory \cup rows /\ e.scope = Scope(r) /\ e \in Entries
      BY <3>1 DEF Visible, Stored, TypeOK
    <3>4. Scoped(e) /\ e.of \in Req /\ e.isolated \in BOOLEAN
      BY <3>3 DEF InScope, Entries
    <3>5. TenantOf[r] # "shared" /\ TenantOf[e.of] # "shared"
      BY <3>4, LifecycleAssumption
    <3>6. e.isolated <=> cfg.isolated
      BY <3>3, <3>4, <3>5 DEF Scoped, Scope, TypeOK
    <3>7. QED  BY <3>2, <3>3, <3>4, <3>6 DEF Scoped, Scope
  <2>3. QED  BY <2>1, <2>2, OnlyHitsServe
<1>3. QED  BY <1>1, <1>2, TypeCorrect, NextScope, PTL DEF Spec

-----------------------------------------------------------------------------
(***************************************************************************)
(* Every variable keeps its type, and a thread that encodes has a model.   *)
(***************************************************************************)
LEMMA SidecarStep == SidecarTypeOK /\ [SidecarNext]_sidecarVars => SidecarTypeOK'
<1> SUFFICES ASSUME SidecarTypeOK, [SidecarNext]_sidecarVars PROVE SidecarTypeOK'
  OBVIOUS
<1> USE SidecarAssumption
<1>1. ASSUME NEW c \in Call, Embed(c) PROVE SidecarTypeOK'
  BY <1>1 DEF SidecarTypeOK, Embed, Become
<1>2. ASSUME NEW c \in Call, Unreachable(c) \/ TimeOut(c) PROVE SidecarTypeOK'
  BY <1>2 DEF SidecarTypeOK, Unreachable, TimeOut
<1>3. ASSUME NEW c \in Call, GetModel(c) PROVE SidecarTypeOK'
  BY <1>3 DEF SidecarTypeOK, GetModel, Become
<1>4. ASSUME NEW c \in Call, LoadModel(c) PROVE SidecarTypeOK'
  BY <1>4 DEF SidecarTypeOK, LoadModel, Become
<1>5. ASSUME NEW c \in Call, Raise(c) PROVE SidecarTypeOK'
  BY <1>5 DEF SidecarTypeOK, Raise, Become, Hear
<1>6. ASSUME NEW c \in Call, Encode(c) PROVE SidecarTypeOK'
  BY <1>6 DEF SidecarTypeOK, Encode, Become, Hear
<1>7. CASE Restart
  BY <1>7 DEF SidecarTypeOK, Restart
<1>8. CASE UNCHANGED sidecarVars
  BY <1>8 DEF SidecarTypeOK, sidecarVars
<1>9. QED
  BY <1>1, <1>2, <1>3, <1>4, <1>5, <1>6, <1>7, <1>8 DEF SidecarNext, Finished

(***************************************************************************)
(* States are those named; a running thread past the load has a model.     *)
(***************************************************************************)
THEOREM SidecarTyped == SidecarSpec => []SidecarTypeOK
<1>1. SidecarInit => SidecarTypeOK
  BY DEF SidecarInit, SidecarTypeOK
<1>2. SidecarTypeOK /\ [SidecarNext]_sidecarVars => SidecarTypeOK'
  BY SidecarStep
<1>3. QED  BY <1>1, <1>2, PTL DEF SidecarSpec

-----------------------------------------------------------------------------
Loading == {c \in Call : thread[c] = "loading"}

\* The strengthening: a thread that is loading counts as a model to come, and a
\* process without a model has built none, so the threads that may start to
\* load are within the pool.
Loads ==
  /\ IsFiniteSet(Busy)
  /\ copies + Cardinality(Loading) <= Workers
  /\ model = NoModel => copies = 0

(***************************************************************************)
(* The threads that load are among the running ones.                       *)
(***************************************************************************)
LEMMA LoadingFinite ==
  ASSUME IsFiniteSet(Busy)
  PROVE  /\ IsFiniteSet(Loading)
         /\ Cardinality(Loading) \in Nat
         /\ Cardinality(Busy) \in Nat
         /\ Cardinality(Loading) <= Cardinality(Busy)
<1>1. Loading \in SUBSET Busy
  BY DEF Loading, Busy
<1>2. QED  BY <1>1, FS_Subset, FS_CardinalityType

(***************************************************************************)
(* A start counts a load only while no model is there.                     *)
(***************************************************************************)
LEMMA StartLoads ==
  ASSUME SidecarTypeOK, Loads, NEW c \in Call, GetModel(c)
  PROVE  Loads'
<1> USE SidecarAssumption
<1>1. thread' = [thread EXCEPT ![c] = IF model = NoModel THEN "loading" ELSE "encoding"]
  BY DEF GetModel, Become
<1>2. Busy' = Busy \cup {c} /\ c \notin Busy
  BY <1>1 DEF GetModel, Busy, SidecarTypeOK
<1>3. IsFiniteSet(Busy')
  BY <1>2, FS_AddElement DEF Loads
<1>4. /\ IsFiniteSet(Loading) /\ Cardinality(Loading) \in Nat
      /\ Cardinality(Busy) \in Nat /\ Cardinality(Loading) <= Cardinality(Busy)
  BY LoadingFinite DEF Loads
<1>5. Cardinality(Busy) < Workers
  BY DEF GetModel
<1>6. CASE model = NoModel
  <2>1. Loading' = Loading \cup {c} /\ c \notin Loading
    BY <1>1, <1>6 DEF GetModel, Loading, SidecarTypeOK
  <2>2. Cardinality(Loading') = Cardinality(Loading) + 1
    BY <2>1, <1>4, FS_AddElement
  <2>3. QED  BY <1>3, <1>4, <1>5, <1>6, <2>2 DEF Loads, GetModel
<1>7. CASE model # NoModel
  <2>1. Loading' = Loading
    BY <1>1, <1>7 DEF GetModel, Loading, SidecarTypeOK
  <2>2. QED  BY <1>3, <1>7, <2>1 DEF Loads, GetModel
<1>8. QED  BY <1>6, <1>7

(***************************************************************************)
(* A thread that ends its load, or leaves, makes room for what it built.   *)
(***************************************************************************)
LEMMA LoadLoads ==
  ASSUME SidecarTypeOK, Loads, NEW c \in Call, LoadModel(c)
  PROVE  Loads'
<1> USE SidecarAssumption
<1>1. thread' = [thread EXCEPT ![c] = "encoding"] /\ thread[c] = "loading"
  BY DEF LoadModel, Become
<1>2. Busy' = Busy
  BY <1>1 DEF Busy, SidecarTypeOK
<1>3. Loading' = Loading \ {c} /\ c \in Loading
  BY <1>1 DEF Loading, SidecarTypeOK
<1>4. IsFiniteSet(Loading) /\ Cardinality(Loading) \in Nat
  BY LoadingFinite DEF Loads
<1>5. Cardinality(Loading') = Cardinality(Loading) - 1
  BY <1>3, <1>4, FS_RemoveElement
<1>6. QED  BY <1>2, <1>4, <1>5 DEF Loads, LoadModel, SidecarTypeOK

(***************************************************************************)
(* Whatever ends a thread, or never starts one, leaves fewer to load.      *)
(***************************************************************************)
LEMMA FewerLoads ==
  ASSUME Loads, Busy' \in SUBSET Busy, Loading' \in SUBSET Loading,
         UNCHANGED <<model, copies>>, SidecarTypeOK
  PROVE  Loads'
<1>1. IsFiniteSet(Loading) /\ Cardinality(Loading) \in Nat
  BY LoadingFinite DEF Loads
<1>2. IsFiniteSet(Busy') /\ Cardinality(Loading') <= Cardinality(Loading)
  BY <1>1, FS_Subset DEF Loads
<1>3. Cardinality(Loading') \in Nat
  BY <1>1, FS_Subset, FS_CardinalityType
<1>4. QED  BY <1>1, <1>2, <1>3, SidecarAssumption DEF Loads, SidecarTypeOK

(***************************************************************************)
(* Every step keeps the loads within the pool.                             *)
(***************************************************************************)
LEMMA NextLoads == SidecarTypeOK /\ Loads /\ [SidecarNext]_sidecarVars => Loads'
<1> SUFFICES ASSUME SidecarTypeOK, Loads, [SidecarNext]_sidecarVars PROVE Loads'
  OBVIOUS
<1>1. ASSUME NEW c \in Call, Embed(c) PROVE Loads'
  BY <1>1, FewerLoads DEF SidecarTypeOK, Embed, Become, Busy, Loading
<1>2. ASSUME NEW c \in Call, Unreachable(c) \/ TimeOut(c) PROVE Loads'
  BY <1>2, FewerLoads DEF Unreachable, TimeOut, Busy, Loading
<1>3. ASSUME NEW c \in Call, Raise(c) \/ Encode(c) PROVE Loads'
  BY <1>3, FewerLoads DEF SidecarTypeOK, Raise, Encode, Become, Busy, Loading
<1>4. CASE Restart
  <2>1. Busy' = {} /\ Loading' = {}
    BY <1>4 DEF Restart, Busy, Loading
  <2>2. QED  BY <1>4, <2>1, FS_EmptySet, SidecarAssumption DEF Restart, Loads
<1>5. CASE UNCHANGED sidecarVars
  BY <1>5 DEF sidecarVars, Loads, Busy, Loading
<1>6. QED
  BY <1>1, <1>2, <1>3, <1>4, <1>5, StartLoads, LoadLoads DEF SidecarNext, Finished

(***************************************************************************)
(* However many calls come before the first load ends, and however many    *)
(* their callers abandon, a process builds no more models than it has      *)
(* workers.                                                                *)
(***************************************************************************)
THEOREM CopiesStayBounded == SidecarSpec => []CopiesBounded
<1>1. SidecarInit => SidecarTypeOK
  BY DEF SidecarInit, SidecarTypeOK
<1>2. SidecarInit => Loads
  <2> SUFFICES ASSUME SidecarInit PROVE Loads
    OBVIOUS
  <2>1. Busy = {} /\ Loading = {}
    BY DEF SidecarInit, Busy, Loading
  <2>2. QED  BY <2>1, FS_EmptySet, SidecarAssumption DEF SidecarInit, Loads
<1>3. SidecarTypeOK /\ Loads => CopiesBounded
  <2> SUFFICES ASSUME SidecarTypeOK, Loads PROVE CopiesBounded
    OBVIOUS
  <2>1. Cardinality(Loading) \in Nat
    BY LoadingFinite DEF Loads
  <2>2. QED  BY <2>1, SidecarAssumption DEF Loads, SidecarTypeOK, CopiesBounded
<1>4. SidecarTypeOK /\ Loads /\ [SidecarNext]_sidecarVars => SidecarTypeOK' /\ Loads'
  BY SidecarStep, NextLoads
<1>5. QED  BY <1>1, <1>2, <1>3, <1>4, PTL DEF SidecarSpec

-----------------------------------------------------------------------------
Stopping == main \in {"draining", "closing"}

\* A process that stops listens no more, and never again.
Unheard == Stopping => listener = "closed"

\* What a stop waits for comes nearer: the drain's clock runs on, the pool
\* only gets connections back, and no request comes in meanwhile.
StopGoesOn ==
  /\ main = "draining" => main' \in {"draining", "closing", "down"} /\ drained' >= drained
  /\ main = "closing" => /\ main' \in {"closing", "down"}
                         /\ \A r \in Req : Connected(r)' => Connected(r)
  /\ Stopping => \A r \in Req : pc[r] = "new" => pc'[r] = "new"

(***************************************************************************)
(* Stop closes the listener whether or not it was open yet.                *)
(***************************************************************************)
LEMMA NextUnheard == TypeOK /\ Unheard /\ [Next]_vars => Unheard'
<1> SUFFICES ASSUME TypeOK, Unheard, [Next]_vars PROVE Unheard'
  OBVIOUS
<1> USE DEF Unheard, Stopping
<1>1. ASSUME NEW e \in Environments, Start(e) PROVE Unheard'
  BY <1>1 DEF Start
<1>2. CASE OpenDatabase \/ TakeKey \/ Wait \/ Stop
  BY <1>2 DEF OpenDatabase, TakeKey, Wait, Stop
<1>3. CASE RefuseKey \/ ListenFails \/ Kill \/ PoolCloses
  BY <1>3 DEF RefuseKey, ListenFails, Kill, PoolCloses, Exit
<1>4. CASE Listen \/ Tick
  BY <1>4 DEF Listen, Tick
<1>5. CASE CloseOrExit
  BY <1>5 DEF CloseOrExit, Exit, process
<1>6. ASSUME NEW r \in Req, Accept(r) \/ StoreReturns(r) \/ UpstreamReturns(r) PROVE Unheard'
  BY <1>6 DEF Accept, StoreReturns, Hit, Miss, Add, AddFails, UpstreamReturns, process
<1>7. CASE Outage \/ Recovery \/ Over \/ UNCHANGED vars
  BY <1>7 DEF Outage, Recovery, Over, vars, process
<1>8. QED  BY <1>1, <1>2, <1>3, <1>4, <1>5, <1>6, <1>7 DEF Next

(***************************************************************************)
(* An orderly stop is never undone or delayed from without: nothing is     *)
(* accepted any more, the deadline comes nearer, a pool that closes has    *)
(* only connections to get back.                                           *)
(***************************************************************************)
THEOREM StopsGoOn == Spec => [][StopGoesOn]_vars
<1>1. Init => Unheard
  BY DEF Init, Unheard, Stopping
<1>2. TypeOK /\ Unheard /\ [Next]_vars => [StopGoesOn]_vars
  <2> SUFFICES ASSUME TypeOK, Unheard, [Next]_vars PROVE [StopGoesOn]_vars
    OBVIOUS
  <2>0. drained \in Nat /\ pc \in [Req -> {"new", "search", "upstream", "add", "done", "cut"}]
    BY DEF TypeOK
  <2> USE DEF StopGoesOn, Stopping, Connected
  <2>1. ASSUME NEW e \in Environments, Start(e) PROVE StopGoesOn
    BY <2>1 DEF Start
  <2>2. CASE OpenDatabase \/ TakeKey \/ Wait \/ Stop
    BY <2>2 DEF OpenDatabase, TakeKey, Wait, Stop
  <2>3. CASE RefuseKey \/ ListenFails \/ Kill \/ PoolCloses
    <3>1. main' = "down" /\ drained' = drained /\ backend' = None
          /\ \A r \in Req : pc[r] = "new" => pc'[r] = "new"
      BY <2>0, <2>3 DEF RefuseKey, ListenFails, Kill, PoolCloses, Exit, InFlight
    <3>2. QED  BY <2>0, <3>1, LifecycleAssumption
  <2>4. CASE Listen
    BY <2>4 DEF Listen, Unheard
  <2>5. CASE Tick
    BY <2>0, <2>5 DEF Tick, requests
  <2>6. CASE CloseOrExit
    <3>1. CASE main' = "closing" /\ UNCHANGED <<process, requests, durable, boots>>
      BY <2>0, <2>6, <3>1 DEF CloseOrExit, process, requests
    <3>2. CASE Exit("stopped")
      <4>1. main' = "down" /\ drained' = drained /\ backend' = None
            /\ \A r \in Req : pc[r] = "new" => pc'[r] = "new"
        BY <2>0, <3>2 DEF Exit, InFlight
      <4>2. QED  BY <2>0, <4>1, LifecycleAssumption
    <3>3. QED  BY <2>6, <3>1, <3>2 DEF CloseOrExit
  <2>7. ASSUME NEW r \in Req, Accept(r) PROVE StopGoesOn
    BY <2>7 DEF Accept, Unheard
  <2>8. ASSUME NEW r \in Req, StoreReturns(r) PROVE StopGoesOn
    <3>1. /\ main' = main /\ drained' = drained /\ backend' = backend
          /\ pc[r] \in {"search", "add"} /\ pc'[r] \in {"done", "upstream"}
          /\ \A s \in Req \ {r} : pc'[s] = pc[s]
      BY <2>0, <2>8 DEF StoreReturns, Hit, Miss, Add, AddFails, process
    <3>2. QED  BY <2>0, <3>1
  <2>9. ASSUME NEW r \in Req, UpstreamReturns(r) PROVE StopGoesOn
    <3>1. /\ main' = main /\ drained' = drained /\ backend' = backend
          /\ pc[r] = "upstream" /\ (main = "closing" => pc'[r] = "done")
          /\ \A s \in Req \ {r} : pc'[s] = pc[s]
      BY <2>0, <2>9 DEF UpstreamReturns, process
    <3>2. QED  BY <2>0, <3>1
  <2>10. CASE Outage \/ Recovery \/ Over \/ UNCHANGED vars
    BY <2>0, <2>10 DEF Outage, Recovery, Over, vars, process, requests
  <2>11. QED  BY <2>1, <2>2, <2>3, <2>4, <2>5, <2>6, <2>7, <2>8, <2>9, <2>10 DEF Next
<1>3. QED  BY <1>1, <1>2, NextUnheard, TypeCorrect, PTL DEF Spec
=============================================================================
