------------------------------ MODULE BlobStore ------------------------------
(***************************************************************************)
(* The server's blob handlers (server/lib/handler/routes/blobs.ts and      *)
(* restore.ts) for one tenant.  Each request runs in a Lambda invocation   *)
(* of its own; the invocations interleave between DynamoDB calls, each of  *)
(* which is atomic, and may die between two of them.  storageUsedBytes is  *)
(* a field of the tenant's META record, updated apart from the blob rows.  *)
(***************************************************************************)
EXTENDS Integers, FiniteSets, FiniteSetsExt, Functions

CONSTANTS
  Blob,       \* blob ids
  Size,       \* Size[b]: bytes of blob b
  Quota,      \* QUOTA_BYTES, 50 MB
  Slot,       \* invocations that may run at once
  Limit,      \* Limit[op]: bound on the requests per operation and blob
  MaxAborts,  \* bound: invocations that die half-way
  MaxMonths   \* bound: times 30 days pass

Op == {"put", "delete", "restore"}

ASSUME BlobStoreAssumption ==
  /\ IsFiniteSet(Blob) /\ Blob # {} /\ IsFiniteSet(Slot) /\ Slot # {}
  /\ Size \in [Blob -> Nat] /\ Quota \in Nat
  /\ Limit \in [Op -> Nat] /\ MaxAborts \in Nat /\ MaxMonths \in Nat

VARIABLES
  row,      \* the blob rows; "due": deleted, and expiresAt has passed
  data,     \* whether the row has data and size
  used,     \* META.storageUsedBytes
  req,      \* what each invocation is doing
  asked,    \* requests so far, per operation and blob
  marked,   \* history: the month of the last deletion or restore
  aborts, months

vars == <<row, data, used, req, asked, marked, aborts, months>>

Step == {"idle", "begun", "ready", "written"}

TypeOK ==
  /\ row \in [Blob -> {"absent", "live", "deleted", "due"}]
  /\ data \in [Blob -> BOOLEAN]
  /\ used \in Int
  /\ req \in [Slot -> [pc : Step, op : Op, blob : Blob, size : Nat]]
  /\ asked \in [Op -> [Blob -> Nat]]
  /\ \A h \in Slot : req[h].size \in {0, Size[req[h].blob]}
  /\ \A o \in Op, b \in Blob : asked[o][b] <= Limit[o]
  /\ marked \in [Blob -> 0..MaxMonths]
  /\ aborts \in 0..MaxAborts /\ months \in 0..MaxMonths

Init ==
  /\ row = [b \in Blob |-> "absent"]
  /\ data = [b \in Blob |-> FALSE]
  /\ used = 0
  /\ req \in [Slot -> {[pc |-> "idle", op |-> "put", blob |-> b, size |-> 0] :
                         b \in Blob}]
  /\ asked = [o \in Op |-> [b \in Blob |-> 0]]
  /\ marked = [b \in Blob |-> 0]
  /\ aborts = 0 /\ months = 0

-----------------------------------------------------------------------------
(* One request, from the end of authentication and rate limiting on.       *)

Begin(h, o, b) ==
  /\ req[h].pc = "idle" /\ asked[o][b] < Limit[o]
  /\ req' = [req EXCEPT ![h] = [pc |-> "begun", op |-> o, blob |-> b, size |-> 0]]
  /\ asked' = [asked EXCEPT ![o][b] = @ + 1]
  /\ UNCHANGED <<row, data, used, marked, aborts, months>>

Goto(h, step)  == req' = [req EXCEPT ![h].pc = step]
Ready(h, size) == req' = [req EXCEPT ![h].pc = "ready", ![h].size = size]

(* Seeded fault: the quota is compared without the blob's own size.        *)
CheckQuotaBefore(h) ==
  LET b == req[h].blob IN
  /\ req[h].pc = "begun" /\ req[h].op = "put"
  /\ IF used > Quota THEN Goto(h, "idle") ELSE Ready(h, Size[b])
  /\ UNCHANGED <<row, data, used, asked, marked, aborts, months>>

(* Seeded fault: the length of the encoded body, a third longer.           *)
CheckQuotaEncoded(h) ==
  LET b == req[h].blob IN
  /\ req[h].pc = "begun" /\ req[h].op = "put"
  /\ IF used + Size[b] > Quota THEN Goto(h, "idle") ELSE Ready(h, Size[b] + 1)
  /\ UNCHANGED <<row, data, used, asked, marked, aborts, months>>

(* handlePutBlob reads the quota before, and apart from, its write.        *)
CheckQuota(h) ==
  LET b == req[h].blob IN
  /\ req[h].pc = "begun" /\ req[h].op = "put"
  /\ IF used + Size[b] > Quota THEN Goto(h, "idle") ELSE Ready(h, Size[b])
  /\ UNCHANGED <<row, data, used, asked, marked, aborts, months>>

(* handleDeleteBlob and handleRestore read the row before they write it;   *)
(* only restore looks at deletedAt.                                        *)
ReadRow(h) ==
  LET b == req[h].blob IN
  /\ req[h].pc = "begun" /\ req[h].op # "put"
  /\ IF \/ row[b] = "absent"
        \/ req[h].op = "restore" /\ row[b] = "live"
     THEN Goto(h, "idle")
     ELSE Ready(h, IF data[b] THEN Size[b] ELSE 0)
  /\ UNCHANGED <<row, data, used, asked, marked, aborts, months>>

(* Seeded fault: PutItem without its condition.                            *)
PutAnyway(h) ==
  LET b == req[h].blob IN
  /\ req[h].pc = "ready" /\ req[h].op = "put"
  /\ row' = [row EXCEPT ![b] = "live"]
  /\ data' = [data EXCEPT ![b] = TRUE]
  /\ Goto(h, "written")
  /\ UNCHANGED <<used, asked, marked, aborts, months>>

(* PutItem, attribute_not_exists(SK): a soft-deleted row counts as there,  *)
(* and the answer is 409.                                                  *)
PutIfAbsent(h) ==
  LET b == req[h].blob IN
  /\ req[h].pc = "ready" /\ req[h].op = "put"
  /\ IF row[b] = "absent"
     THEN /\ row' = [row EXCEPT ![b] = "live"]
          /\ data' = [data EXCEPT ![b] = TRUE]
          /\ Goto(h, "written")
     ELSE Goto(h, "idle") /\ UNCHANGED <<row, data>>
  /\ UNCHANGED <<used, asked, marked, aborts, months>>

(* Seeded fault: a second deletion does not renew the expiry.              *)
MarkKeepingExpiry(h) ==
  LET b == req[h].blob IN
  /\ req[h].pc = "ready" /\ req[h].op # "put"
  /\ row' = [row EXCEPT ![b] = IF req[h].op = "restore" THEN "live"
                              ELSE IF @ = "due" THEN "due" ELSE "deleted"]
  /\ marked' = [marked EXCEPT ![b] = months]
  /\ Goto(h, "written")
  /\ UNCHANGED <<data, used, asked, aborts, months>>

(* UpdateItem has no condition: it renews the expiry of a deleted row, and *)
(* creates a row without data where the time-to-live sweep was faster.     *)
MarkRow(h) ==
  LET b == req[h].blob IN
  /\ req[h].pc = "ready" /\ req[h].op # "put"
  /\ row' = [row EXCEPT ![b] = IF req[h].op = "delete" THEN "deleted" ELSE "live"]
  /\ marked' = [marked EXCEPT ![b] = months]
  /\ Goto(h, "written")
  /\ UNCHANGED <<data, used, asked, aborts, months>>

(* Seeded fault: the other sign.                                           *)
DeltaUnsigned(r) == r.size

Delta(r) == IF r.op = "delete" THEN 0 - r.size ELSE r.size

CountBytes(h) ==
  /\ req[h].pc = "written"
  /\ used' = used + Delta(req[h])
  /\ Goto(h, "idle")
  /\ UNCHANGED <<row, data, asked, marked, aborts, months>>

(* The invocation dies: a timeout, a throttled or failed DynamoDB call.    *)
Abort(h) ==
  /\ req[h].pc # "idle" /\ aborts < MaxAborts
  /\ Goto(h, "idle")
  /\ aborts' = aborts + 1
  /\ UNCHANGED <<row, data, used, asked, marked, months>>

(* Thirty days pass; no invocation lives that long.                        *)
MonthPasses ==
  /\ months < MaxMonths
  /\ \A h \in Slot : req[h].pc = "idle"
  /\ row' = [b \in Blob |-> IF row[b] = "deleted" THEN "due" ELSE row[b]]
  /\ months' = months + 1
  /\ UNCHANGED <<data, used, req, asked, marked, aborts>>

(* DynamoDB sweeps an expired row, some time after it is due.              *)
Expire(b) ==
  /\ row[b] = "due"
  /\ row' = [row EXCEPT ![b] = "absent"]
  /\ data' = [data EXCEPT ![b] = FALSE]
  /\ UNCHANGED <<used, req, asked, marked, aborts, months>>

Next ==
  \/ \E h \in Slot : \/ \E o \in Op, b \in Blob : Begin(h, o, b)
                     \/ CheckQuota(h) \/ ReadRow(h) \/ PutIfAbsent(h)
                     \/ MarkRow(h) \/ CountBytes(h) \/ Abort(h)
  \/ \E b \in Blob : Expire(b)
  \/ MonthPasses

Spec == Init /\ [][Next]_vars

-----------------------------------------------------------------------------
(* Properties.                                                             *)

LiveBytes ==
  SumFunction([b \in Blob |-> IF row[b] = "live" /\ data[b] THEN Size[b] ELSE 0])

(* The account agrees with the blobs whenever no request is under way and  *)
(* none died: concurrent uploads of one id are counted once, a deletion    *)
(* that overtakes its upload's counting cancels it.                        *)
AccountAgrees ==
  (\A h \in Slot : req[h].pc = "idle") /\ aborts = 0 => used = LiveBytes

(* Uploads that passed the quota check together overshoot the quota by no  *)
(* more than the other invocations can carry, even counting what is still  *)
(* to be added; requests that die do not widen the margin.  Restores, which *)
(* do not look at the quota, come on top.                                  *)
Uploads(h) == req[h].op = "put" /\ req[h].pc \in {"ready", "written"}
Pending == SumFunction([h \in Slot |-> IF Uploads(h) THEN req[h].size ELSE 0])

RestoredBytes == SumFunction([b \in Blob |-> asked["restore"][b] * Size[b]])

OvershootBounded ==
  used + Pending
    <= Quota + (Cardinality(Slot) - 1) * Max({Size[b] : b \in Blob}) + RestoredBytes

(* It does as long as no blob is deleted or restored twice (the run        *)
(* BlobRedelete shows why) and no restore meets the sweep of its row; and  *)
(* however far it is off, it never exceeds the quota by more than that.    *)
AccountBalances ==
  /\ /\ \A b \in Blob : asked["delete"][b] <= 1 /\ asked["restore"][b] <= 1
     /\ months = 0
     => AccountAgrees
  /\ OvershootBounded

(* A soft-deleted blob comes back only by a restore: neither a late upload *)
(* nor its retry resurrects it before its time to live is over.            *)
OnlyRestoreRevives ==
  [][\A b \in Blob :
       row[b] \in {"deleted", "due"} /\ row'[b] = "live" =>
         \E h \in Slot : /\ req[h].op = "restore" /\ req[h].blob = b
                         /\ req[h].pc = "ready" /\ req'[h].pc = "written"]_vars

(* "users are promised at least 30 days" (api.md:118): a row is swept only *)
(* when 30 days have passed since the last time it was deleted, even if    *)
(* it was deleted twice or restored while it was due.                      *)
KeptForThirtyDays ==
  [][\A b \in Blob :
       row[b] # "absent" /\ row'[b] = "absent" => marked[b] < months]_vars
=============================================================================
