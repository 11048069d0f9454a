---------------------------- MODULE MCBlobStore ----------------------------
(* Two instances of BlobStore for TLC, chosen in the initial state:        *)
(* "account", several blobs and invocations at once, and "expiry", one     *)
(* blob deleted again and again around the sweep of its row.               *)
EXTENDS BlobStore, TLC

CONSTANTS b1, b2, Puts, Deletes, Restores,
  Once   \* bound of part "account": deletions of one blob

VARIABLE part

MCSize == [b \in Blob |-> IF b = b1 THEN 1 ELSE 2]
MCLimit == ("put" :> Puts) @@ ("delete" :> Deletes) @@ ("restore" :> Restores)

Account == \A b \in Blob : asked["delete"][b] <= Once

Expiry ==
  /\ \A o \in Op, b \in Blob \ {b1} : asked[o][b] = 0
  /\ asked["put"][b1] <= 2
  /\ Cardinality({h \in Slot : req[h].pc # "idle"}) <= 2

MCInit == Init /\ part \in {"account", "expiry"}

MCNext ==
  \/ part = "account" /\ Next /\ Account' /\ months' = 0 /\ UNCHANGED part
  \/ part = "expiry" /\ Next /\ Expiry' /\ UNCHANGED part

MCSpec == MCInit /\ [][MCNext]_<<vars, part>>

Symmetry == Permutations(Slot)
=============================================================================
