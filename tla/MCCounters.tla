----------------------------- MODULE MCCounters -----------------------------
(* MapCounters with two CPUs and two keys for three elements: a hash map   *)
(* fills, an LRU map evicts, and an array has an element for each key.     *)
EXTENDS MapCounters, TLC

CONSTANTS c1, c2, a, b, e1, e2, e3

InArray  == a :> e1 @@ b :> e2
AtStart  == c1 :> e2 @@ c2 :> e3
=============================================================================
