---------------------------- MODULE MCSyncQueue ----------------------------
(* Small instances of SyncQueue for TLC.  One unit of time stands for a   *)
(* slice of a request's timeout; backoffs are scaled to it.               *)
EXTENDS SyncQueueOutbox, TLC

MCBackoff == [r \in 0..RetryCap |-> IF r = 0 THEN 1 ELSE 2]

Symmetry == Permutations(Process)
=============================================================================
