------------------------------ MODULE MCEngine ------------------------------
(***************************************************************************)
(* Engine for TLC.  The texts form a chain en ~ tr ~ zh whose ends are not *)
(* near each other, plus a text as near to en as can be that differs from  *)
(* it in an amount only, so that threshold, guard and tie rule all matter. *)
(***************************************************************************)
EXTENDS Engine, TLC

Ask(scope, tenant, model, text, lang) ==
  [scope |-> scope, tenant |-> tenant, model |-> model,
   exact |-> text, embed |-> text, lang |-> lang]

En  == Ask("shared", "a", "m", "en", "en")
Tr  == Ask("shared", "b", "m", "tr", "tr")
Zh  == Ask("shared", "b", "m", "zh", "zh")
Fee == Ask("shared", "b", "m", "fee", "en")   \* En with another amount
Own == Ask("a", "a", "m", "tr", "tr")         \* Tr by a tenant that opted out
Alt == Ask("shared", "a", "n", "tr", "tr")    \* Tr for another model

Chain  == {En, Tr, Zh, Fee}
Faults == {Tr, Zh, Own, Alt}
Pair   == {En, Tr}

Near == {{"en", "tr"}, {"tr", "zh"}}

MCCosine(a, b) == IF a = b THEN 100
                  ELSE IF {a, b} = {"en", "fee"} THEN 98
                  ELSE IF {a, b} \in Near THEN 90
                  ELSE 70

MCCutoff(p, e) == IF p = e THEN 95 ELSE 85

MCExtract(text, lang) == IF text = "fee" THEN {"1000"} ELSE {"100"}
MCCompatible(a, b) == a = b

MCBodyBytes(q) == IF q.lang = "zh" THEN 2 ELSE 1

Symmetry == Permutations(Req)
=============================================================================
