---------------------------- MODULE MCKeyRotation ----------------------------
(* Small instances of KeyRotation for TLC.                                 *)
EXTENDS KeyRotation, TLC

CONSTANTS k0, k1, k2, Starts, Confirms, Stores

MCMaxCalls == ("start" :> Starts) @@ ("confirm" :> Confirms) @@ ("store" :> Stores)

Symmetry == Permutations(Slot)
==============================================================================
