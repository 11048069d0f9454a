------------------------------- MODULE PullSync -------------------------------
(***************************************************************************)
(* The pull side of the sync service: incrementalSync and fullSync bring   *)
(* the sync_status rows up to date with the server's list of blobs, while  *)
(* tool calls of this machine and another device go on.  A pull yields at  *)
(* each call to the server; what it does between two calls is one step.    *)
(* Server and client clocks agree and count the changes of the tenant's    *)
(* records; PerDay of them fall on one day.                                *)
(***************************************************************************)
EXTENDS Naturals

CONSTANTS
  Blob,        \* blob ids
  Meta,        \* a record of the tenant that is no blob (META, WRAPPED_KEY)
  None,
  PerDay,      \* changes in a day
  MaxTime      \* bound: changes

Item == Blob \cup {Meta}

VARIABLES
  row,       \* the tenant's records and when they were last changed
  listable,  \* the records whose last change the updatedAt index shows
  status,    \* sync_status of each blob
  edited,    \* the last_attempt of a local_only one, which alone is read
  lastSync,  \* lastSyncTimestamp; None: never
  deletes,   \* the blobs whose deletion this device has queued
  pull,      \* the pull in progress; late: blobs changed behind its list
  skipped,   \* history: blobs a finished pull had not heard of, or passed over
  now

vars == <<row, listable, status, edited, lastSync, deletes, pull, skipped, now>>

NoPull == [pc |-> "rest", full |-> FALSE, blobs |-> {}, tombs |-> {},
           at |-> None, failed |-> {}, late |-> {}]

TypeOK ==
  /\ row \in [Item -> [is : {"none", "live", "deleted"}, at : 0..MaxTime]]
  /\ listable \subseteq Item
  /\ status \in [Blob -> {"none", "local_only", "synced", "pending_delete"}]
  /\ edited \in [Blob -> 0..MaxTime]
  /\ lastSync \in 0..MaxTime \cup {None}
  /\ pull.pc \in {"rest", "next", "download"}
  /\ pull.blobs \subseteq Item /\ pull.tombs \subseteq Blob
  /\ pull.failed \subseteq Item /\ pull.late \cup deletes \subseteq Blob
  /\ pull.pc = "rest" <=> pull = NoPull
  /\ pull.pc = "download" <=> pull.at # None
  /\ skipped \subseteq Blob /\ now \in 0..MaxTime

Init ==
  /\ row = [i \in Item |-> [is |-> IF i = Meta THEN "live" ELSE "none", at |-> 0]]
  /\ listable = Item
  /\ status = [b \in Blob |-> "none"] /\ edited = [b \in Blob |-> 0]
  /\ lastSync = None /\ deletes = {} /\ pull = NoPull /\ skipped = {} /\ now = 0

-----------------------------------------------------------------------------
(* Changes of the records, by this device's queue or by another device.     *)

Change(i, is) ==
  /\ now < MaxTime /\ now' = now + 1
  /\ row' = [row EXCEPT ![i] = [is |-> is, at |-> now + 1]]
  /\ listable' = listable \ {i}
  /\ pull' = IF pull = NoPull \/ i = Meta THEN pull
             ELSE [pull EXCEPT !.late = @ \cup {i}]

OtherDevice ==
  /\ \E i \in Item :
       \/ i # Meta /\ row[i].is = "none" /\ status[i] = "none" /\ Change(i, "live")
       \/ i # Meta /\ row[i].is = "live" /\ Change(i, "deleted")
       \/ i = Meta /\ Change(i, "live")
  /\ UNCHANGED <<status, edited, lastSync, deletes, skipped>>

Queue ==
  /\ \E b \in Blob :
       \/ row[b].is = "none" /\ status[b] # "none" /\ Change(b, "live")
       \/ row[b].is = "live" /\ b \in deletes /\ Change(b, "deleted")
  /\ UNCHANGED <<status, edited, lastSync, deletes, skipped>>

\* The index the incremental list reads follows the table.
IndexCatchesUp ==
  /\ listable # Item
  /\ \E i \in Item \ listable : listable' = listable \cup {i}
  /\ UNCHANGED <<row, status, edited, lastSync, deletes, pull, skipped, now>>

\* kb_ingest and kb_delete.
Edit ==
  /\ \E b \in Blob :
       \/ /\ status[b] = "none" /\ row[b].is = "none"
          /\ status' = [status EXCEPT ![b] = "local_only"]
          /\ edited' = [edited EXCEPT ![b] = now]
          /\ deletes' = deletes
       \/ /\ status[b] \in {"local_only", "synced"}
          /\ status' = [status EXCEPT ![b] = "pending_delete"]
          /\ edited' = [edited EXCEPT ![b] = 0]
          /\ deletes' = deletes \cup {b}
  /\ UNCHANGED <<row, listable, lastSync, pull, skipped, now>>

-----------------------------------------------------------------------------
(* The list.  Since a time, it is the tenant's records of any kind in the   *)
(* index; in full, it is the blobs of the table, in one page.               *)

Since(i) == row[i].is # "none" /\ (lastSync = None \/ row[i].at > lastSync)

List(full) ==
  LET all == IF full \/ lastSync = None
             THEN {b \in Blob : row[b].is # "none"}
             ELSE {i \in listable : Since(i)} IN
  /\ pull = NoPull
  /\ pull' = [NoPull EXCEPT !.pc = "next", !.full = full,
                !.blobs = {i \in all : row[i].is = "live"},
                !.tombs = {i \in all : row[i].is = "deleted"},
                !.late = {b \in Blob : Since(b)} \ all]
  /\ UNCHANGED <<row, listable, status, edited, lastSync, deletes, skipped, now>>

(* Of a blob with local changes the older version loses: SQLite's           *)
(* "YYYY-MM-DD HH:MM:SS" is compared as a string with the server's          *)
(* "YYYY-MM-DDTHH:MM:SS.sssZ", so on the same day the local one is "older". *)
Day(t) == t \div PerDay
LocalNewer(i) == i \in Blob /\ status[i] = "local_only"
                 /\ Day(edited[i]) > Day(row[i].at)

\* "existing" is read here; the download is awaited.
NextBlob ==
  /\ pull.pc = "next"
  /\ \E i \in pull.blobs :
       pull' = IF LocalNewer(i) /\ ~pull.full
               THEN [pull EXCEPT !.blobs = @ \ {i}]
               ELSE [pull EXCEPT !.pc = "download", !.at = i]
  /\ UNCHANGED <<row, listable, status, edited, lastSync, deletes, skipped, now>>

Downloaded ==
  /\ pull.pc = "download" /\ pull.at \in Blob /\ row[pull.at].is = "live"
  /\ status' = [status EXCEPT ![pull.at] = "synced"]
  /\ edited' = [edited EXCEPT ![pull.at] = 0]
  /\ pull' = [pull EXCEPT !.pc = "next", !.at = None, !.blobs = @ \ {pull.at}]
  /\ UNCHANGED <<row, listable, lastSync, deletes, skipped, now>>

\* Any call may fail; GET /v1/blobs/META always does.
NotDownloaded ==
  /\ pull.pc = "download"
  /\ pull' = [pull EXCEPT !.pc = "next", !.at = None, !.blobs = @ \ {pull.at},
                          !.failed = @ \cup {pull.at}]
  /\ UNCHANGED <<row, listable, status, edited, lastSync, deletes, skipped, now>>

\* A pull that dies leaves what it has written.
Abandon ==
  /\ pull # NoPull /\ pull' = NoPull
  /\ UNCHANGED <<row, listable, status, edited, lastSync, deletes, skipped, now>>

Done == pull.pc = "next" /\ pull.blobs = {} /\ pull' = NoPull

(* Tombstones come last, and spare what has local changes.  The time of the *)
(* pull is that of its end, if nothing failed.                              *)
Buried(b) == b \in pull.tombs /\ status[b] \notin {"none", "local_only"}

(* Mutant: failed downloads are passed over.                                *)
FinishAnyway ==
  /\ ~pull.full /\ Done
  /\ status' = [b \in Blob |-> IF Buried(b) THEN "pending_delete" ELSE status[b]]
  /\ lastSync' = now
  /\ skipped' = skipped \cup pull.late
  /\ UNCHANGED <<row, listable, edited, deletes, now>>

FinishIncremental ==
  /\ ~pull.full /\ Done
  /\ status' = [b \in Blob |-> IF Buried(b) THEN "pending_delete" ELSE status[b]]
  /\ IF pull.failed = {}
     THEN lastSync' = now /\ skipped' = skipped \cup pull.late
     ELSE UNCHANGED <<lastSync, skipped>>
  /\ UNCHANGED <<row, listable, edited, deletes, now>>

\* A full sync ends, and sets its time, whatever failed; it reads no
\* tombstones.
FinishFull ==
  /\ pull.full /\ Done
  /\ lastSync' = now
  /\ skipped' = skipped \cup pull.late \cup pull.failed \cup pull.tombs
  /\ UNCHANGED <<row, listable, status, edited, deletes, now>>

Next ==
  \/ OtherDevice \/ Queue \/ IndexCatchesUp \/ Edit
  \/ List(TRUE) \/ List(FALSE) \/ NextBlob \/ Downloaded \/ NotDownloaded
  \/ Abandon \/ FinishIncremental \/ FinishFull

Spec == Init /\ [][Next]_vars

-----------------------------------------------------------------------------
(* lastSyncTimestamp may be trusted: a blob last changed no later is known   *)
(* here if it is live, and not taken for synced if it is deleted.  Excepted  *)
(* are the blobs changed behind the list of a pull, for it stores the time   *)
(* of its end, and those a full sync passed over.                            *)
NothingSkipped ==
  lastSync # None =>
    \A b \in Blob \ skipped :
       row[b].at <= lastSync =>
         /\ row[b].is = "live" => status[b] # "none"
         /\ row[b].is = "deleted" => status[b] # "synced"
=============================================================================
