----------------------------- MODULE MCEngineering -----------------------------
(* Two drivers, one ticket, two allowed paths that are new and a tracked one that is not. *)
EXTENDS EngineeringDelivery, TLC

CONSTANTS d1, d2, t1, p, q, o, next, release

Alike == Permutations(Driver)
================================================================================
