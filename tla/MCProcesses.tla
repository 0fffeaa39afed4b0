---------------------------- MODULE MCProcesses -----------------------------
(***************************************************************************)
(* Lifecycle and Sidecar for TLC: the two processes of a deployment.       *)
(* Neither reads what the other writes, so each moves while the other has  *)
(* not started.  The environments are those an operator may start the      *)
(* proxy under, typing errors included; the sidecar has more calls than    *)
(* workers.                                                                *)
(***************************************************************************)
EXTENDS Lifecycle, Sidecar

CONSTANTS ra, rb, ka, kb

MCTenantOf == [r \in Req |-> IF r = ra THEN "a" ELSE "b"]

Environment(database, key, isolation) ==
  [provider |-> "absolute", cache |-> "unset", database |-> database, key |-> key,
   isolation |-> isolation]

Durable == Environment(TRUE, ka, "isolated")

MCEnvironments == {
  Durable,
  [Durable EXCEPT !.isolation = "shared"],
  [Durable EXCEPT !.isolation = "Isolated"],
  [Durable EXCEPT !.key = kb],
  [Durable EXCEPT !.key = BadKey],
  Environment(TRUE, None, "shared"),
  Environment(FALSE, None, "unset"),
  [Durable EXCEPT !.cache = "off"],
  [Durable EXCEPT !.cache = "false", !.key = BadKey],
  [Durable EXCEPT !.provider = "relative"] }

-----------------------------------------------------------------------------
Proxy == SidecarInit /\ Next /\ UNCHANGED sidecarVars

Embedder == boots = 0 /\ outages = 0 /\ SidecarNext /\ UNCHANGED vars

MCInit == Init /\ SidecarInit

MCSpec ==
  /\ MCInit /\ [][Proxy \/ Embedder]_<<vars, sidecarVars>>
  /\ Fairness
=============================================================================
