---------------------------- MODULE MCReplayGuard ----------------------------
(* Small instances of ReplayGuard for TLC: a1 and a2 are two windows on    *)
(* machine A, b1 one on machine B, which has a copy of the key.            *)
EXTENDS ReplayGuard, TLC

CONSTANTS a1, a2, b1, A, B, Calls

MCHome == [c \in Caller |-> IF c = b1 THEN B ELSE A]

(* One call of each window on A, Calls on B.                               *)
MCMaxCalls == [c \in Caller |-> IF c = b1 THEN Calls ELSE 1]

Symmetry == Permutations(Caller \ {b1})
==============================================================================
