------------------------------- MODULE MCLRU -------------------------------
(* LRU for TLC: four keys and two values, so that every capacity the configs  *)
(* choose is exceeded and an evicted key can return.                         *)
EXTENDS LRU

=============================================================================
