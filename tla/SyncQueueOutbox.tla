-------------------------- MODULE SyncQueueOutbox --------------------------
(* The refinement mapping from the table sync_queue to Outbox.            *)
EXTENDS SyncQueue

Operations(statuses) ==
  {<<queue[i].blob, queue[i].op>> :
     i \in {j \in DOMAIN queue : queue[j].status \in statuses}}

Promise == INSTANCE Outbox WITH
  asked <- syncStatus,
  todo  <- Operations({"pending", "processing"}),
  dead  <- Operations({"failed"})

(* Every step of the processes, the clock, crashes and the network is a    *)
(* step of the outbox or leaves it unchanged: nothing is dropped before    *)
(* the server has done it, nothing given up comes back, and the server is  *)
(* only asked to do what is still to do.                                   *)
ImplementsOutbox == Promise!Spec
=============================================================================
