------------------------------- MODULE Sidecar -------------------------------
(***************************************************************************)
(* The embedding call: internal/embed.Client on the proxy's side, and      *)
(* sidecar/app.py, whose endpoint runs on a pool of worker threads that    *)
(* share one lazily loaded model without a lock.  A caller that gives up   *)
(* leaves its thread running.  The usual names of a specification have the *)
(* module's before them, so that it can be extended along with Lifecycle.  *)
(***************************************************************************)
EXTENDS Integers, FiniteSets

CONSTANTS
  Call,       \* calls of Client.Embed
  Workers,    \* threads of the web framework's pool
  NoModel,    \* no model
  MaxDeaths   \* bound for TLC on restarts of the sidecar

ASSUME SidecarAssumption ==
  /\ Workers \in Nat \ {0}
  /\ NoModel \notin Call
  /\ MaxDeaths \in Nat

VARIABLES
  call,      \* the client: "idle", "waiting", "vectors" or "failed"
  thread,    \* the endpoint: "none", "queued", "loading" or "encoding"
  model,     \* _model: NoModel, or the call that loaded it
  copies,    \* models this process has built
  deaths     \* restarts of the sidecar

sidecarVars == <<call, thread, model, copies, deaths>>

SidecarInit ==
  /\ call = [c \in Call |-> "idle"]
  /\ thread = [c \in Call |-> "none"]
  /\ model = NoModel
  /\ copies = 0
  /\ deaths = 0

Busy == {c \in Call : thread[c] \in {"loading", "encoding"}}

\* What the client makes of an answer: it may have given up before.
Hear(c, outcome) == call' = [call EXCEPT ![c] = IF @ = "waiting" THEN outcome ELSE @]

Become(c, state) == thread' = [thread EXCEPT ![c] = state]

-----------------------------------------------------------------------------
Embed(c) ==
  /\ call[c] = "idle"
  /\ call' = [call EXCEPT ![c] = "waiting"]
  /\ Become(c, "queued")
  /\ UNCHANGED <<model, copies, deaths>>

\* Nobody listens.
Unreachable(c) ==
  /\ call[c] = "idle"
  /\ call' = [call EXCEPT ![c] = "failed"]
  /\ UNCHANGED <<thread, model, copies, deaths>>

\* The client's 30 seconds, or its request's context, are over.
TimeOut(c) ==
  /\ call[c] = "waiting"
  /\ call' = [call EXCEPT ![c] = "failed"]
  /\ UNCHANGED <<thread, model, copies, deaths>>

\* A mutant that does not look whether a model is there.
GetModelAnyway(c) ==
  /\ thread[c] = "queued"
  /\ Cardinality(Busy) < Workers
  /\ Become(c, "loading")
  /\ UNCHANGED <<call, model, copies, deaths>>

\* A worker takes the request and get_model() looks at the global.
GetModel(c) ==
  /\ thread[c] = "queued"
  /\ Cardinality(Busy) < Workers
  /\ Become(c, IF model = NoModel THEN "loading" ELSE "encoding")
  /\ UNCHANGED <<call, model, copies, deaths>>

LoadModel(c) ==
  /\ thread[c] = "loading"
  /\ model' = c
  /\ copies' = copies + 1
  /\ Become(c, "encoding")
  /\ UNCHANGED <<call, deaths>>

\* An exception while loading or encoding is the framework's 500.
Raise(c) ==
  /\ thread[c] \in {"loading", "encoding"}
  /\ Become(c, "none")
  /\ Hear(c, "failed")
  /\ UNCHANGED <<model, copies, deaths>>

\* The answer arrives; the client takes it only with one vector of the right
\* dimension for each text.
Encode(c) ==
  /\ thread[c] = "encoding"
  /\ Become(c, "none")
  /\ \E outcome \in {"vectors", "failed"} : Hear(c, outcome)
  /\ UNCHANGED <<model, copies, deaths>>

\* The sidecar dies and comes back without a model.
Restart ==
  /\ deaths < MaxDeaths
  /\ deaths' = deaths + 1
  /\ thread' = [c \in Call |-> "none"]
  /\ call' = [c \in Call |-> IF call[c] = "waiting" THEN "failed" ELSE call[c]]
  /\ model' = NoModel
  /\ copies' = 0

Finished ==
  /\ \A c \in Call : call[c] \in {"vectors", "failed"} /\ thread[c] = "none"
  /\ UNCHANGED sidecarVars

SidecarNext ==
  \/ \E c \in Call : \/ Embed(c)
                     \/ Unreachable(c)
                     \/ TimeOut(c)
                     \/ GetModel(c)
                     \/ LoadModel(c)
                     \/ Raise(c)
                     \/ Encode(c)
  \/ Restart
  \/ Finished

SidecarSpec == SidecarInit /\ [][SidecarNext]_sidecarVars

-----------------------------------------------------------------------------
(***************************************************************************)
(* States are those named; a running thread past the load has a model.     *)
(***************************************************************************)
SidecarTypeOK ==
  /\ call \in [Call -> {"idle", "waiting", "vectors", "failed"}]
  /\ thread \in [Call -> {"none", "queued", "loading", "encoding"}]
  /\ model \in Call \cup {NoModel}
  /\ copies \in Nat
  /\ deaths \in Nat
  /\ \A c \in Call : thread[c] = "encoding" => model # NoModel

(***************************************************************************)
(* However many calls come before the first load ends, and however many    *)
(* their callers abandon, a process builds no more models than it has      *)
(* workers (get_model; each is gigabytes).                                 *)
(***************************************************************************)
CopiesBounded == copies <= Workers
=============================================================================
