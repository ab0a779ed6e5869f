---------------------------- MODULE MCPlayground -----------------------------
(* Two handler threads and two services, one of them with a port of its own. *)
EXTENDS Playground, TLC

CONSTANTS t1, t2

MCFixedPort == [s \in Services |-> IF s = "gateway" THEN 1 ELSE 0]
Symmetric == Permutations(Threads)
=============================================================================
