------------------------------- MODULE Outbox -------------------------------
(***************************************************************************)
(* What the sync queue promises, without rows, claims, retries or clocks:  *)
(* an outbox of operations on blobs.  An operation that was asked for      *)
(* stays in the outbox until the server acknowledges it or it is given up  *)
(* for good; the server is changed only by operations that were asked for. *)
(***************************************************************************)
EXTENDS Naturals

CONSTANT Blob

VARIABLES asked,   \* the last thing asked of each blob
          todo,    \* operations waiting to be done
          dead,    \* operations given up
          server   \* what the server holds for each blob

vars == <<asked, todo, dead, server>>

Init ==
  /\ asked = [b \in Blob |-> "absent"]
  /\ todo = {} /\ dead = {}
  /\ server = [b \in Blob |-> "absent"]

AskUpload(b) ==
  /\ asked[b] = "absent"
  /\ asked' = [asked EXCEPT ![b] = "local_only"]
  /\ todo' = todo \cup {<<b, "upload">>}
  /\ UNCHANGED <<dead, server>>

AskDelete(b) ==
  /\ asked[b] # "absent"
  /\ asked' = [asked EXCEPT ![b] = "pending_delete"]
  /\ todo' = todo \cup {<<b, "delete">>}
  /\ UNCHANGED <<dead, server>>

Upload(b) ==
  /\ <<b, "upload">> \in todo /\ server[b] = "absent"
  /\ server' = [server EXCEPT ![b] = "live"]
  /\ UNCHANGED <<asked, todo, dead>>

Delete(b) ==
  /\ <<b, "delete">> \in todo /\ server[b] = "live"
  /\ server' = [server EXCEPT ![b] = "deleted"]
  /\ UNCHANGED <<asked, todo, dead>>

(* An operation leaves the outbox once the server has done it: an upload   *)
(* of a blob it has or had, a deletion of a blob that is deleted.          *)
Acknowledge(b, o) ==
  /\ <<b, o>> \in todo
  /\ server[b] \in IF o = "upload" THEN {"live", "deleted"} ELSE {"deleted"}
  /\ todo' = todo \ {<<b, o>>}
  /\ UNCHANGED <<asked, dead, server>>

(* An operation is given up; it may have been asked for again meanwhile.   *)
GiveUp(b, o) ==
  /\ <<b, o>> \in todo
  /\ dead' = dead \cup {<<b, o>>}
  /\ todo' \in {todo, todo \ {<<b, o>>}}
  /\ UNCHANGED <<asked, server>>

Next ==
  \E b \in Blob : \/ AskUpload(b) \/ AskDelete(b) \/ Upload(b) \/ Delete(b)
                  \/ \E o \in {"upload", "delete"} : Acknowledge(b, o) \/ GiveUp(b, o)

Spec == Init /\ [][Next]_vars
=============================================================================
