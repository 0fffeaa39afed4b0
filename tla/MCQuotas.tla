------------------------------ MODULE MCQuotas ------------------------------
(* Quotas for TLC.                                                         *)
EXTENDS Quotas, TLC

Symmetry == Permutations(Call) \cup Permutations(Tenant)
=============================================================================
