--------------------------- MODULE BlobStoreProofs ---------------------------
(***************************************************************************)
(* Theorems about BlobStore, for every set of blobs and invocations and    *)
(* every bound on the requests, the deaths and the months.                 *)
(***************************************************************************)
EXTENDS BlobStore, SumProofs

Request == [pc : Step, op : Op, blob : Blob, size : Nat]

(* What an invocation carries is the size of its blob, or nothing.         *)
Sized(r) == r.size \in {0, Size[r.blob]}

(* A row was marked in a month that has come, and is due only when that    *)
(* month is over.                                                          *)
Dated(b) ==
  /\ marked[b] <= months
  /\ row[b] = "due" => marked[b] < months

BlobInv == TypeOK /\ \A b \in Blob : Dated(b)

LEMMA Types ==
  ASSUME TypeOK
  PROVE  /\ req \in [Slot -> Request] /\ \A h \in Slot : Sized(req[h])
         /\ row \in [Blob -> {"absent", "live", "deleted", "due"}]
         /\ data \in [Blob -> BOOLEAN]
         /\ \A b \in Blob : Size[b] \in Nat
BY BlobStoreAssumption DEF TypeOK, Request, Sized

(* An invocation takes the record r.                                       *)
LEMMA Takes ==
  ASSUME TypeOK, NEW h \in Slot, NEW r \in Request, Sized(r), req' = [req EXCEPT ![h] = r]
  PROVE  /\ req' \in [Slot -> Request] /\ \A g \in Slot : Sized(req'[g])
         /\ req'[h] = r
BY Types DEF Request

LEMMA Goes ==
  ASSUME TypeOK, NEW h \in Slot, NEW step \in Step, Goto(h, step)
  PROVE  /\ req' \in [Slot -> Request] /\ \A g \in Slot : Sized(req'[g])
         /\ req'[h].pc = step
<1> DEFINE r == [req[h] EXCEPT !.pc = step]
<1>1. req[h] \in Request /\ Sized(req[h]) /\ req' = [req EXCEPT ![h] = r]
  BY Types DEF Goto
<1>2. r \in Request /\ r.pc = step /\ r.size = req[h].size /\ r.blob = req[h].blob
  BY <1>1 DEF Request
<1> HIDE DEF r
<1>3. Sized(r)
  BY <1>1, <1>2 DEF Sized
<1> QED BY <1>1, <1>2, <1>3, Takes

LEMMA Readies ==
  ASSUME TypeOK, NEW h \in Slot, NEW size \in Nat, size \in {0, Size[req[h].blob]},
         Ready(h, size)
  PROVE  req' \in [Slot -> Request] /\ \A g \in Slot : Sized(req'[g])
<1> DEFINE a == [req[h] EXCEPT !.pc = "ready"]
<1> DEFINE r == [a EXCEPT !.size = size]
<1>1. req[h] \in Request /\ req' = [req EXCEPT ![h] = r]
  BY Types DEF Ready
<1>2. a \in Request /\ a.blob = req[h].blob
  BY <1>1 DEF Request, Step
<1> HIDE DEF a
<1>3. r \in Request /\ r.size = size /\ r.blob = req[h].blob
  BY <1>2 DEF Request
<1> HIDE DEF r
<1> QED BY <1>1, <1>3, Takes DEF Sized

(* The invocations keep their type, whatever one of them does.             *)
LEMMA RequestsTyped ==
  ASSUME TypeOK, [Next]_vars
  PROVE  req' \in [Slot -> Request] /\ \A g \in Slot : Sized(req'[g])
<1>1. CASE UNCHANGED <<req>>
  BY <1>1, Types
<1>2. ASSUME NEW h \in Slot, NEW o \in Op, NEW b \in Blob, Begin(h, o, b)
      PROVE  req' \in [Slot -> Request] /\ \A g \in Slot : Sized(req'[g])
  <2> DEFINE r == [pc |-> "begun", op |-> o, blob |-> b, size |-> 0]
  <2>1. r \in Request /\ Sized(r)
    BY DEF Request, Step, Sized
  <2>2. req' = [req EXCEPT ![h] = r]
    BY <1>2 DEF Begin
  <2> HIDE DEF r
  <2> QED BY <2>1, <2>2, Takes
<1>3. ASSUME NEW h \in Slot,
             CheckQuota(h) \/ ReadRow(h) \/ PutIfAbsent(h) \/ MarkRow(h) \/ CountBytes(h)
               \/ Abort(h)
      PROVE  req' \in [Slot -> Request] /\ \A g \in Slot : Sized(req'[g])
  <2>1. Size[req[h].blob] \in Nat
    BY Types DEF Request
  <2>2. \/ \E step \in Step : Goto(h, step)
        \/ \E size \in {0, Size[req[h].blob]} : Ready(h, size)
    BY <1>3 DEF CheckQuota, ReadRow, PutIfAbsent, MarkRow, CountBytes, Abort, Step
  <2> QED BY <2>1, <2>2, Goes, Readies
<1>4. CASE (\E b \in Blob : Expire(b)) \/ MonthPasses \/ UNCHANGED vars
  BY <1>1, <1>4 DEF Expire, MonthPasses, vars
<1> QED BY <1>2, <1>3, <1>4 DEF Next

LEMMA BlobInit == Init => BlobInv
<1> SUFFICES ASSUME Init PROVE BlobInv
  OBVIOUS
<1>1. req \in [Slot -> Request] /\ \A h \in Slot : req[h].size = 0
  BY DEF Init, Request, Step, Op
<1> QED BY <1>1, BlobStoreAssumption DEF Init, BlobInv, TypeOK, Dated, Request, Op

LEMMA BlobStep ==
  ASSUME BlobInv, [Next]_vars PROVE BlobInv'
<1>1. TypeOK /\ \A b \in Blob : Dated(b)
  BY DEF BlobInv
<1>2. req' \in [Slot -> Request] /\ \A g \in Slot : Sized(req'[g])
  BY <1>1, RequestsTyped
<1> DEFINE Rows ==
      /\ row \in [Blob -> {"absent", "live", "deleted", "due"}]
      /\ data \in [Blob -> BOOLEAN] /\ used \in Int
      /\ marked \in [Blob -> 0..MaxMonths] /\ months \in 0..MaxMonths
      /\ \A b \in Blob : Dated(b)
<1> DEFINE Counts ==
      /\ asked \in [Op -> [Blob -> Nat]]
      /\ \A o \in Op, b \in Blob : asked[o][b] <= Limit[o]
      /\ aborts \in 0..MaxAborts
<1>3. Rows /\ Counts
  BY <1>1 DEF TypeOK
<1>4. CASE UNCHANGED vars
  BY <1>3, <1>2, <1>4 DEF vars, BlobInv, TypeOK, Dated, Request, Sized
<1>5. ASSUME NEW h \in Slot, NEW o \in Op, NEW b \in Blob, Begin(h, o, b)
      PROVE  Rows' /\ Counts'
  <2>1. Rows'
    BY <1>3, <1>5 DEF Begin, Dated
  <2>2. /\ asked \in [Op -> [Blob -> Nat]] /\ asked[o][b] < Limit[o]
        /\ asked' = [asked EXCEPT ![o] = [asked[o] EXCEPT ![b] = asked[o][b] + 1]]
        /\ aborts' = aborts
    BY <1>3, <1>5 DEF Begin
  <2>3. asked[o][b] + 1 \in Nat /\ asked[o][b] + 1 <= Limit[o]
    <3>1. asked[o] \in [Blob -> Nat] /\ Limit[o] \in Nat
      BY <2>2, BlobStoreAssumption
    <3>2. asked[o][b] \in Nat
      BY <3>1
    <3> QED BY <2>2, <3>1, <3>2
  <2>4. asked' \in [Op -> [Blob -> Nat]]
    BY <2>2, <2>3
  <2>5. \A p \in Op, c \in Blob : asked'[p][c] = IF p = o /\ c = b THEN asked[o][b] + 1
                                                ELSE asked[p][c]
    BY <2>2
  <2>6. \A p \in Op, c \in Blob : asked'[p][c] <= Limit[p]
    BY <1>3, <2>3, <2>5
  <2>7. Counts'
    BY <1>3, <2>2, <2>4, <2>6
  <2> QED BY <2>1, <2>7
<1>6. ASSUME NEW h \in Slot, CheckQuota(h) \/ ReadRow(h) PROVE Rows' /\ Counts'
  BY <1>3, <1>6 DEF CheckQuota, ReadRow, Dated
<1>7. ASSUME NEW h \in Slot, PutIfAbsent(h) PROVE Rows' /\ Counts'
  <2>1. req[h].blob \in Blob
    BY <1>1, Types DEF Request
  <2> QED BY <1>3, <1>7, <2>1 DEF PutIfAbsent, Dated
<1>8. ASSUME NEW h \in Slot, MarkRow(h) PROVE Rows' /\ Counts'
  <2>1. req[h].blob \in Blob
    BY <1>1, Types DEF Request
  <2> QED BY <1>3, <1>8, <2>1, BlobStoreAssumption DEF MarkRow, Dated
<1>9. ASSUME NEW h \in Slot, CountBytes(h) PROVE Rows' /\ Counts'
  <2>1. Delta(req[h]) \in Int
    BY <1>1, Types DEF Request, Delta
  <2> QED BY <1>3, <1>9, <2>1 DEF CountBytes, Dated
<1>10. ASSUME NEW h \in Slot, Abort(h) PROVE Rows' /\ Counts'
  BY <1>3, <1>10, BlobStoreAssumption DEF Abort, Dated
<1>11. ASSUME NEW b \in Blob, Expire(b) PROVE Rows' /\ Counts'
  BY <1>3, <1>11 DEF Expire, Dated
<1>12. ASSUME MonthPasses PROVE Rows' /\ Counts'
  <2>1. months' = months + 1 /\ months' \in 0..MaxMonths
    BY <1>3, <1>12, BlobStoreAssumption DEF MonthPasses
  <2>2. /\ row' = [b \in Blob |-> IF row[b] = "deleted" THEN "due" ELSE row[b]]
        /\ UNCHANGED <<data, used, asked, marked, aborts>>
    BY <1>12 DEF MonthPasses
  <2>3. row' \in [Blob -> {"absent", "live", "deleted", "due"}]
    BY <1>3, <2>2
  <2>4. ASSUME NEW b \in Blob PROVE Dated(b)'
    <3>1. marked[b] \in Nat /\ months \in Nat /\ marked[b] <= months
      BY <1>3, BlobStoreAssumption DEF Dated
    <3>2. marked'[b] < months'
      BY <2>1, <2>2, <3>1
    <3> QED BY <2>1, <2>2, <3>1, <3>2 DEF Dated
  <2> QED BY <1>3, <2>1, <2>2, <2>3, <2>4
<1> HIDE DEF Rows, Counts
<1>13. (Rows' /\ Counts') \/ UNCHANGED vars
  BY <1>5, <1>6, <1>7, <1>8, <1>9, <1>10, <1>11, <1>12 DEF Next
<1> QED BY <1>2, <1>4, <1>13 DEF BlobInv, TypeOK, Request, Sized, Rows, Counts

(* TypeOK: sizes carried by requests are those of their blobs.             *)
THEOREM TypeCorrect == Spec => []TypeOK
<1>1. BlobInv => TypeOK
  BY DEF BlobInv
<1>2. Init => BlobInv
  BY BlobInit
<1>3. BlobInv /\ [Next]_vars => BlobInv'
  BY BlobStep
<1> QED BY <1>1, <1>2, <1>3, PTL DEF Spec

(* OnlyRestoreRevives: PutItem's condition and an op that is one of three   *)
(* leave only restore, whatever interleaves with it.                       *)
THEOREM RestoreAloneRevives == Spec => OnlyRestoreRevives
<1> DEFINE Revives ==
      \A b \in Blob :
        row[b] \in {"deleted", "due"} /\ row'[b] = "live" =>
          \E h \in Slot : /\ req[h].op = "restore" /\ req[h].blob = b
                          /\ req[h].pc = "ready" /\ req'[h].pc = "written"
<1>1. ASSUME BlobInv, [Next]_vars PROVE [Revives]_vars
  <2> SUFFICES ASSUME Next, NEW b \in Blob, row[b] \in {"deleted", "due"}, row'[b] = "live"
               PROVE  \E h \in Slot : /\ req[h].op = "restore" /\ req[h].blob = b
                                      /\ req[h].pc = "ready" /\ req'[h].pc = "written"
    BY <1>1
  <2>1. TypeOK /\ row \in [Blob -> {"absent", "live", "deleted", "due"}]
    BY <1>1, Types DEF BlobInv
  <2>2. PICK h \in Slot : MarkRow(h)
    <3>1. ASSUME NEW h \in Slot, PutIfAbsent(h) PROVE FALSE
      BY <2>1, <3>1 DEF PutIfAbsent
    <3>2. ~(\E c \in Blob : Expire(c)) /\ ~MonthPasses
      BY <2>1 DEF Expire, MonthPasses
    <3> QED BY <3>1, <3>2 DEF Next, Begin, CheckQuota, ReadRow, CountBytes, Abort
  <2>3. req[h].blob = b /\ req[h].op \notin {"put", "delete"} /\ req[h].pc = "ready"
    BY <2>1, <2>2 DEF MarkRow
  <2>4. req[h].op = "restore"
    BY <2>1, <2>3, Types DEF Request, Op
  <2>5. req'[h].pc = "written"
    BY <2>1, <2>2, Goes DEF MarkRow, Step
  <2> QED BY <2>3, <2>4, <2>5
<1>2. Init => BlobInv
  BY BlobInit
<1>3. BlobInv /\ [Next]_vars => BlobInv'
  BY BlobStep
<1> HIDE DEF Revives
<1>4. Spec => [][Revives]_vars
  BY <1>1, <1>2, <1>3, PTL DEF Spec
<1> QED BY <1>4 DEF Revives, OnlyRestoreRevives

(* KeptForThirtyDays: the last mark on a row that is due is of a month      *)
(* that is over, also after a second deletion or a restore.                *)
THEOREM ThirtyDaysAreKept == Spec => KeptForThirtyDays
<1> DEFINE Kept ==
      \A b \in Blob : row[b] # "absent" /\ row'[b] = "absent" => marked[b] < months
<1>1. ASSUME BlobInv, [Next]_vars PROVE [Kept]_vars
  <2> SUFFICES ASSUME Next, NEW b \in Blob, row[b] # "absent", row'[b] = "absent"
               PROVE  marked[b] < months
    BY <1>1
  <2>1. TypeOK /\ Dated(b) /\ row \in [Blob -> {"absent", "live", "deleted", "due"}]
    BY <1>1, Types DEF BlobInv
  <2>2. row[b] = "due"
    <3>1. ASSUME NEW h \in Slot, PutIfAbsent(h) \/ MarkRow(h) PROVE FALSE
      BY <2>1, <3>1 DEF PutIfAbsent, MarkRow
    <3>2. ~MonthPasses
      BY <2>1 DEF MonthPasses
    <3>3. \E c \in Blob : Expire(c)
      BY <3>1, <3>2 DEF Next, Begin, CheckQuota, ReadRow, CountBytes, Abort
    <3> QED BY <2>1, <3>3 DEF Expire
  <2> QED BY <2>1, <2>2 DEF Dated
<1>2. Init => BlobInv
  BY BlobInit
<1>3. BlobInv /\ [Next]_vars => BlobInv'
  BY BlobStep
<1> HIDE DEF Kept
<1>4. Spec => [][Kept]_vars
  BY <1>1, <1>2, <1>3, PTL DEF Spec
<1> QED BY <1>4 DEF Kept, KeptForThirtyDays

-----------------------------------------------------------------------------
(* The account.                                                            *)

At(r, o, steps) == r.op = o /\ r.pc \in steps

(* What is still to be added to the account.                               *)
Owed(r) == IF r.pc = "written" THEN Delta(r) ELSE 0
Owing == SumFunction([h \in Slot |-> Owed(req[h])])

Few == /\ \A b \in Blob : asked["delete"][b] <= 1 /\ asked["restore"][b] <= 1
       /\ months = 0

RowInv(b) ==
  /\ row[b] # "due" /\ (row[b] # "absent" => data[b])
  /\ asked["delete"][b] = 0 => row[b] # "deleted"

(* A deletion that has read the row finds it live until it marks it, and a *)
(* restore finds it deleted.                                               *)
Fits(r) ==
  /\ r.pc # "idle" /\ r.op # "put" => asked[r.op][r.blob] = 1
  /\ r.pc = "ready" => r.size = Size[r.blob]
  /\ At(r, "delete", {"begun", "ready"}) => row[r.blob] # "deleted"
  /\ At(r, "delete", {"ready"}) => row[r.blob] = "live"
  /\ At(r, "restore", {"ready"}) => row[r.blob] = "deleted"

RequestInv(h) == Fits(req[h])

(* Of a blob's deletions and restores one of a kind is before its write.   *)
Alone(g, h) ==
  \A o \in {"delete", "restore"} :
     At(req[g], o, {"begun", "ready"}) /\ At(req[h], o, {"begun", "ready"})
       /\ req[g].blob = req[h].blob => g = h

Order ==
  /\ \A b \in Blob : RowInv(b)
  /\ \A h \in Slot : RequestInv(h)
  /\ \A g, h \in Slot : Alone(g, h)

Balanced == aborts = 0 => used + Owing = LiveBytes

AccountInv == BlobInv /\ (Few => Order /\ Balanced)

(* An invocation takes the record r, the others keep theirs.               *)
Becomes(h, r) ==
  /\ r \in Request /\ Sized(r) /\ req' = [req EXCEPT ![h] = r]

LEMMA BecomesIs ==
  ASSUME TypeOK, NEW h \in Slot, NEW r, Becomes(h, r)
  PROVE  req'[h] = r /\ \A g \in Slot \ {h} : req'[g] = req[g]
BY Types DEF Becomes

LEMMA GotoIs ==
  ASSUME TypeOK, NEW h \in Slot, NEW step \in Step, Goto(h, step)
  PROVE  \E r : /\ Becomes(h, r) /\ r.pc = step /\ r.op = req[h].op
                /\ r.blob = req[h].blob /\ r.size = req[h].size
<1> DEFINE r == [req[h] EXCEPT !.pc = step]
<1>1. req[h] \in Request /\ Sized(req[h]) /\ req' = [req EXCEPT ![h] = r]
  BY Types DEF Goto
<1>2. /\ r \in Request /\ r.pc = step /\ r.size = req[h].size /\ r.blob = req[h].blob
      /\ r.op = req[h].op
  BY <1>1 DEF Request
<1> HIDE DEF r
<1> QED
  BY <1>1, <1>2 DEF Sized, Becomes

LEMMA ReadyIs ==
  ASSUME TypeOK, NEW h \in Slot, NEW size \in Nat, size \in {0, Size[req[h].blob]},
         Ready(h, size)
  PROVE  \E r : /\ Becomes(h, r) /\ r.pc = "ready" /\ r.op = req[h].op
                /\ r.blob = req[h].blob /\ r.size = size
<1> DEFINE a == [req[h] EXCEPT !.pc = "ready"]
<1> DEFINE r == [a EXCEPT !.size = size]
<1>1. req[h] \in Request /\ req' = [req EXCEPT ![h] = r]
  BY Types DEF Ready
<1>2. a \in Request /\ a.blob = req[h].blob /\ a.op = req[h].op /\ a.pc = "ready"
  BY <1>1 DEF Request, Step
<1> HIDE DEF a
<1>3. /\ r \in Request /\ r.size = size /\ r.blob = req[h].blob /\ r.op = req[h].op
      /\ r.pc = "ready"
  BY <1>2 DEF Request
<1> HIDE DEF r
<1> QED
  BY <1>1, <1>3 DEF Sized, Becomes

LEMMA RequestIs ==
  ASSUME TypeOK, NEW h \in Slot
  PROVE  /\ req[h] \in Request /\ req[h].blob \in Blob /\ req[h].op \in Op
         /\ req[h].pc \in Step /\ req[h].size \in Nat /\ Size[req[h].blob] \in Nat
         /\ Sized(req[h])
BY Types DEF Request

(* What each step does to the record of its invocation.                    *)
LEMMA CheckQuotaIs ==
  ASSUME TypeOK, NEW h \in Slot, CheckQuota(h)
  PROVE  \E r : /\ Becomes(h, r) /\ r.op = "put" /\ r.blob = req[h].blob
                /\ req[h].op = "put" /\ req[h].pc = "begun"
                /\ \/ r.pc = "idle"
                   \/ /\ r.pc = "ready" /\ r.size = Size[r.blob]
                      /\ used + Size[r.blob] <= Quota
<1> USE RequestIs
<1>1. used \in Int /\ Quota \in Int
  BY BlobStoreAssumption DEF TypeOK
<1>2. CASE used + Size[req[h].blob] > Quota
  BY <1>2, GotoIs DEF CheckQuota, Step
<1>3. CASE ~(used + Size[req[h].blob] > Quota)
  <2>1. used + Size[req[h].blob] <= Quota
    BY <1>1, <1>3
  <2> QED
    BY <1>3, <2>1, ReadyIs DEF CheckQuota
<1> QED
  BY <1>2, <1>3

LEMMA ReadRowIs ==
  ASSUME TypeOK, NEW h \in Slot, ReadRow(h)
  PROVE  \E r : /\ Becomes(h, r) /\ r.op = req[h].op /\ r.blob = req[h].blob
                /\ req[h].op # "put" /\ req[h].pc = "begun"
                /\ \/ r.pc = "idle"
                   \/ /\ r.pc = "ready"
                      /\ row[r.blob] # "absent" /\ (r.op = "restore" => row[r.blob] # "live")
                      /\ data[r.blob] => r.size = Size[r.blob]
<1> USE RequestIs
<1>1. CASE row[req[h].blob] = "absent" \/ (req[h].op = "restore" /\ row[req[h].blob] = "live")
  BY <1>1, GotoIs DEF ReadRow, Step
<1>2. CASE ~(row[req[h].blob] = "absent" \/ (req[h].op = "restore" /\ row[req[h].blob] = "live"))
  <2> DEFINE size == IF data[req[h].blob] THEN Size[req[h].blob] ELSE 0
  <2>1. Ready(h, size) /\ req[h].op # "put" /\ req[h].pc = "begun"
    BY <1>2 DEF ReadRow
  <2>2. size \in Nat /\ size \in {0, Size[req[h].blob]}
    OBVIOUS
  <2>3. data[req[h].blob] => size = Size[req[h].blob]
    OBVIOUS
  <2> HIDE DEF size
  <2>4. PICK r : /\ Becomes(h, r) /\ r.pc = "ready" /\ r.op = req[h].op
                 /\ r.blob = req[h].blob /\ r.size = size
    BY <2>1, <2>2, ReadyIs
  <2> QED
    BY <1>2, <2>1, <2>3, <2>4
<1> QED
  BY <1>1, <1>2

LEMMA PutIs ==
  ASSUME TypeOK, NEW h \in Slot, PutIfAbsent(h)
  PROVE  \E r : /\ Becomes(h, r) /\ r.op = "put" /\ r.blob = req[h].blob
                /\ r.size = req[h].size /\ req[h].op = "put" /\ req[h].pc = "ready"
                /\ \/ r.pc = "idle" /\ UNCHANGED <<row, data>>
                   \/ /\ r.pc = "written" /\ row[r.blob] = "absent"
                      /\ row' = [row EXCEPT ![r.blob] = "live"]
                      /\ data' = [data EXCEPT ![r.blob] = TRUE]
<1> USE RequestIs
<1>1. CASE row[req[h].blob] = "absent"
  <2>1. PICK r : /\ Becomes(h, r) /\ r.pc = "written" /\ r.op = req[h].op
                 /\ r.blob = req[h].blob /\ r.size = req[h].size
    BY <1>1, GotoIs DEF PutIfAbsent, Step
  <2> QED
    BY <1>1, <2>1 DEF PutIfAbsent
<1>2. CASE row[req[h].blob] # "absent"
  <2>1. PICK r : /\ Becomes(h, r) /\ r.pc = "idle" /\ r.op = req[h].op
                 /\ r.blob = req[h].blob /\ r.size = req[h].size
    BY <1>2, GotoIs DEF PutIfAbsent, Step
  <2> QED
    BY <1>2, <2>1 DEF PutIfAbsent
<1> QED
  BY <1>1, <1>2

LEMMA MarkIs ==
  ASSUME TypeOK, NEW h \in Slot, MarkRow(h)
  PROVE  \E r : /\ Becomes(h, r) /\ r.op = req[h].op /\ r.blob = req[h].blob
                /\ r.size = req[h].size /\ r.pc = "written"
                /\ req[h].op # "put" /\ req[h].pc = "ready"
                /\ row' = [row EXCEPT ![r.blob] =
                             IF r.op = "delete" THEN "deleted" ELSE "live"]
                /\ UNCHANGED data
<1> USE RequestIs
<1>1. PICK r : /\ Becomes(h, r) /\ r.pc = "written" /\ r.op = req[h].op
               /\ r.blob = req[h].blob /\ r.size = req[h].size
  BY GotoIs DEF MarkRow, Step
<1> QED
  BY <1>1 DEF MarkRow

(* The sums over the invocations, when one of them moves.                  *)
LEMMA Amounts ==
  ASSUME TypeOK, NEW h \in Slot
  PROVE  Owed(req[h]) \in Int
BY RequestIs DEF Owed, Delta

LEMMA OwingIs == Owing = SumFunctionOnSet([h \in Slot |-> Owed(req[h])], Slot)
BY DEF Owing, SumFunction

LEMMA OwingMoves ==
  ASSUME TypeOK, NEW h \in Slot, NEW r, Becomes(h, r)
  PROVE  Owing' = Owing - Owed(req[h]) + Owed(r)
<1> DEFINE f == [g \in Slot |-> Owed(req[g])]
           e == [g \in Slot |-> Owed(req'[g])]
<1>1. Owing = SumFunctionOnSet(f, Slot) /\ Owing' = SumFunctionOnSet(e, Slot)
  BY DEF Owing, SumFunction
<1>2. r \in Request /\ Owed(r) \in Int
  <2>1. r \in Request /\ r.size \in Nat /\ r.op \in Op
    BY DEF Becomes, Request
  <2> QED
    BY <2>1 DEF Owed, Delta
<1>3. e[h] = Owed(r) /\ f[h] = Owed(req[h])
  BY BecomesIs
<1>4. \A g \in Slot \ {h} : e[g] = f[g]
  BY BecomesIs
<1>5. \A g \in Slot : f[g] \in Int
  BY Amounts
<1>6. \A g \in Slot : e[g] \in Int
  BY <1>2, <1>3, <1>4, <1>5
<1> HIDE DEF e, f
<1>7. SumFunctionOnSet(e, Slot) = SumFunctionOnSet(f, Slot) - f[h] + e[h]
  BY <1>4, <1>5, <1>6, BlobStoreAssumption, SumChanges
<1> QED
  BY <1>1, <1>3, <1>7

Bytes(b) == IF row[b] = "live" /\ data[b] THEN Size[b] ELSE 0

LEMMA LiveKept == UNCHANGED <<row, data>> => LiveBytes' = LiveBytes
BY DEF LiveBytes

LEMMA LiveMoves ==
  ASSUME TypeOK, NEW b \in Blob,
         \A c \in Blob \ {b} : row'[c] = row[c] /\ data'[c] = data[c]
  PROVE  LiveBytes' = LiveBytes - Bytes(b) + Bytes(b)'
<1> DEFINE f == [c \in Blob |-> Bytes(c)]
           e == [c \in Blob |-> Bytes(c)']
<1>1. LiveBytes = SumFunctionOnSet(f, Blob)
  BY DEF LiveBytes, Bytes, SumFunction
<1>2. LiveBytes' = SumFunctionOnSet(e, Blob)
  BY DEF LiveBytes, Bytes, SumFunction
<1>3. \A c \in Blob : f[c] \in Int /\ e[c] \in Int
  BY Types DEF Bytes
<1>4. \A c \in Blob \ {b} : e[c] = f[c]
  BY DEF Bytes
<1>5. e[b] = Bytes(b)' /\ f[b] = Bytes(b)
  OBVIOUS
<1> HIDE DEF e, f
<1>6. SumFunctionOnSet(e, Blob) = SumFunctionOnSet(f, Blob) - f[b] + e[b]
  BY <1>3, <1>4, BlobStoreAssumption, SumChanges
<1> QED
  BY <1>1, <1>2, <1>5, <1>6

LEMMA SumsTyped == ASSUME TypeOK PROVE Owing \in Int /\ LiveBytes \in Int
<1> DEFINE f == [h \in Slot |-> Owed(req[h])]
           e == [b \in Blob |-> Bytes(b)]
<1>1. Owing = SumFunctionOnSet(f, Slot) /\ LiveBytes = SumFunctionOnSet(e, Blob)
  BY DEF Owing, LiveBytes, Bytes, SumFunction
<1>2. \A h \in Slot : f[h] \in Int
  BY Amounts
<1>3. \A b \in Blob : e[b] \in Int
  BY Types DEF Bytes
<1> HIDE DEF e, f
<1>4. SumFunctionOnSet(f, Slot) \in Int
  BY <1>2, BlobStoreAssumption, SumTyped
<1>5. SumFunctionOnSet(e, Blob) \in Int
  BY <1>3, BlobStoreAssumption, SumTyped
<1> QED
  BY <1>1, <1>4, <1>5

(* The parts of Order for a step of the invocation h.                      *)
LEMMA AloneKept ==
  ASSUME TypeOK, Order, NEW h \in Slot, NEW r, Becomes(h, r), r.op = req[h].op,
         r.blob = req[h].blob,
         r.pc \in {"begun", "ready"} => req[h].pc \in {"begun", "ready"}
  PROVE  \A g, k \in Slot : Alone(g, k)'
<1> SUFFICES ASSUME NEW g \in Slot, NEW k \in Slot PROVE Alone(g, k)'
  OBVIOUS
<1>1. Alone(g, k)
  BY DEF Order, RequestInv
<1>2. \A i \in Slot : /\ req'[i].op = req[i].op /\ req'[i].blob = req[i].blob
                      /\ req'[i].pc \in {"begun", "ready"} => req[i].pc \in {"begun", "ready"}
  BY BecomesIs
<1> QED
  BY <1>1, <1>2 DEF Alone, At

(* Others find the row as it was where h leaves it to them.                *)
LEMMA OrderKept ==
  ASSUME TypeOK, Order, NEW h \in Slot, NEW r, Becomes(h, r), r.op = req[h].op,
         r.blob = req[h].blob,
         r.pc \in {"begun", "ready"} => req[h].pc \in {"begun", "ready"},
         UNCHANGED <<row, data, asked>>, Fits(r)
  PROVE  Order'
<1>1. \A b \in Blob : RowInv(b)'
  BY DEF Order, RowInv
<1>2. \A g \in Slot : RequestInv(g)'
  <2> SUFFICES ASSUME NEW g \in Slot PROVE RequestInv(g)'
    OBVIOUS
  <2>1. Fits(req'[g])
    BY BecomesIs DEF Order, RequestInv
  <2> QED
    BY <2>1 DEF RequestInv, Fits, At
<1> QED
  BY <1>1, <1>2, AloneKept DEF Order, RequestInv

LEMMA CheckQuotaBalances ==
  ASSUME TypeOK, Order, Balanced, NEW h \in Slot, CheckQuota(h)
  PROVE  Order' /\ Balanced'
<1>1. PICK r : /\ Becomes(h, r) /\ r.op = "put" /\ r.blob = req[h].blob
               /\ req[h].op = "put" /\ req[h].pc = "begun"
               /\ \/ r.pc = "idle"
                  \/ r.pc = "ready" /\ r.size = Size[r.blob]
  BY CheckQuotaIs
<1>2. UNCHANGED <<row, data, used, asked, aborts>>
  BY DEF CheckQuota
<1>3. Fits(r)
  BY <1>1 DEF RequestInv, Fits, At
<1>4. Order'
  BY <1>1, <1>2, <1>3, OrderKept
<1>5. Owing' = Owing
  <2>1. Owed(r) = 0 /\ Owed(req[h]) = 0
    BY <1>1 DEF Owed
  <2> QED
    BY <1>1, <2>1, OwingMoves, SumsTyped
<1> QED
  BY <1>2, <1>4, <1>5, LiveKept DEF Balanced

LEMMA ReadRowBalances ==
  ASSUME TypeOK, Order, Balanced, NEW h \in Slot, ReadRow(h)
  PROVE  Order' /\ Balanced'
<1>1. PICK r : /\ Becomes(h, r) /\ r.op = req[h].op /\ r.blob = req[h].blob
               /\ req[h].op # "put" /\ req[h].pc = "begun"
               /\ \/ r.pc = "idle"
                  \/ /\ r.pc = "ready"
                     /\ row[r.blob] # "absent" /\ (r.op = "restore" => row[r.blob] # "live")
                     /\ data[r.blob] => r.size = Size[r.blob]
  BY ReadRowIs
<1>2. UNCHANGED <<row, data, used, asked, aborts>>
  BY DEF ReadRow
<1>3. /\ RowInv(r.blob) /\ Fits(req[h]) /\ r.blob \in Blob /\ r.op \in Op
      /\ row[r.blob] \in {"absent", "live", "deleted", "due"}
  BY <1>1, RequestIs, Types DEF Order, RequestInv
<1>4. Fits(r)
  BY <1>1, <1>3 DEF RequestInv, Fits, At, RowInv, Op
<1>5. Order'
  BY <1>1, <1>2, <1>4, OrderKept
<1>6. Owing' = Owing
  <2>1. Owed(r) = 0 /\ Owed(req[h]) = 0
    BY <1>1 DEF Owed
  <2> QED
    BY <1>1, <2>1, OwingMoves, SumsTyped
<1> QED
  BY <1>2, <1>5, <1>6, LiveKept DEF Balanced

(* The row is new: nobody deletes or restores it yet.                      *)
LEMMA PutBalances ==
  ASSUME TypeOK, Order, Balanced, NEW h \in Slot, PutIfAbsent(h)
  PROVE  Order' /\ Balanced'
<1>1. PICK r : /\ Becomes(h, r) /\ r.op = "put" /\ r.blob = req[h].blob
               /\ r.size = req[h].size /\ req[h].op = "put" /\ req[h].pc = "ready"
               /\ \/ r.pc = "idle" /\ UNCHANGED <<row, data>>
                  \/ /\ r.pc = "written" /\ row[r.blob] = "absent"
                     /\ row' = [row EXCEPT ![r.blob] = "live"]
                     /\ data' = [data EXCEPT ![r.blob] = TRUE]
  BY PutIs
<1>2. UNCHANGED <<used, asked, aborts>>
  BY DEF PutIfAbsent
<1>3. r.blob \in Blob /\ r.size = Size[r.blob] /\ Size[r.blob] \in Nat
  BY <1>1, RequestIs DEF Order, RequestInv, Fits
<1>4. Owed(req[h]) = 0
  BY <1>1 DEF Owed
<1>5. CASE r.pc = "idle" /\ UNCHANGED <<row, data>>
  <2>1. Fits(r)
    BY <1>1, <1>5 DEF RequestInv, Fits, At
  <2>2. Order'
    BY <1>1, <1>2, <1>5, <2>1, OrderKept
  <2>3. Owed(r) = 0
    BY <1>5 DEF Owed
  <2>4. Owing' = Owing
    BY <1>1, <1>4, <2>3, OwingMoves, SumsTyped
  <2> QED
    BY <1>2, <1>5, <2>2, <2>4, LiveKept DEF Balanced
<1>6. CASE r.pc = "written"
  <2>1. /\ row[r.blob] = "absent" /\ row' = [row EXCEPT ![r.blob] = "live"]
        /\ data' = [data EXCEPT ![r.blob] = TRUE]
    BY <1>1, <1>6
  <2>2. /\ row'[r.blob] = "live" /\ data'[r.blob] = TRUE
        /\ \A c \in Blob \ {r.blob} : row'[c] = row[c] /\ data'[c] = data[c]
    BY <1>3, <2>1, Types
  <2>3. \A b \in Blob : RowInv(b)'
    BY <1>2, <2>2 DEF Order, RowInv
  <2>4. \A g \in Slot : RequestInv(g)'
    <3>1. ASSUME NEW g \in Slot \ {h} PROVE RequestInv(g)'
      <4>1. Fits(req[g]) /\ req'[g] = req[g] /\ req[g].blob \in Blob
        BY <1>1, BecomesIs, RequestIs DEF Order, RequestInv
      <4> QED
        BY <1>2, <2>1, <2>2, <4>1 DEF RequestInv, Fits, At
    <3>2. RequestInv(h)'
      BY <1>1, <1>6, BecomesIs DEF RequestInv, Fits, At
    <3> QED
      BY <3>1, <3>2
  <2>5. \A g, k \in Slot : Alone(g, k)'
    BY <1>1, <1>6, AloneKept
  <2>6. Order'
    BY <2>3, <2>4, <2>5 DEF Order, RequestInv
  <2>7. Owed(r) = Size[r.blob]
    BY <1>1, <1>3, <1>6 DEF Owed, Delta
  <2>8. Owing' = Owing + Size[r.blob]
    BY <1>1, <1>3, <1>4, <2>7, OwingMoves, SumsTyped
  <2>9. Bytes(r.blob) = 0 /\ Bytes(r.blob)' = Size[r.blob]
    BY <2>1, <2>2 DEF Bytes
  <2>10. LiveBytes' = LiveBytes + Size[r.blob]
    BY <1>3, <2>2, <2>9, LiveMoves, SumsTyped
  <2>11. used \in Int
    BY DEF TypeOK
  <2> QED
    BY <1>2, <1>3, <2>6, <2>8, <2>10, <2>11, SumsTyped DEF Balanced
<1> QED
  BY <1>1, <1>5, <1>6

LEMMA MarkBalances ==
  ASSUME TypeOK, Order, Balanced, NEW h \in Slot, MarkRow(h)
  PROVE  Order' /\ Balanced'
<1>1. PICK r : /\ Becomes(h, r) /\ r.op = req[h].op /\ r.blob = req[h].blob
               /\ r.size = req[h].size /\ r.pc = "written"
               /\ req[h].op # "put" /\ req[h].pc = "ready"
               /\ row' = [row EXCEPT ![r.blob] =
                            IF r.op = "delete" THEN "deleted" ELSE "live"]
               /\ UNCHANGED data
  BY MarkIs
<1>2. UNCHANGED <<used, asked, aborts>>
  BY DEF MarkRow
<1> DEFINE to == IF r.op = "delete" THEN "deleted" ELSE "live"
<1>3. /\ r.blob \in Blob /\ r.size = Size[r.blob] /\ Size[r.blob] \in Nat
      /\ r.op \in {"delete", "restore"} /\ Fits(req[h]) /\ RowInv(r.blob)
      /\ asked[r.op][r.blob] = 1
  BY <1>1, RequestIs DEF Order, RequestInv, Fits, Op
<1>4. /\ row'[r.blob] = to /\ \A c \in Blob \ {r.blob} : row'[c] = row[c]
  BY <1>1, <1>3, Types
<1>5. row[r.blob] = IF r.op = "delete" THEN "live" ELSE "deleted"
  BY <1>1, <1>3 DEF RequestInv, Fits, At
<1>6. data[r.blob] = TRUE
  BY <1>3, <1>5, Types DEF RowInv
<1>7. \A b \in Blob : RowInv(b)'
  <2> SUFFICES ASSUME NEW b \in Blob PROVE RowInv(b)'
    OBVIOUS
  <2>1. CASE b # r.blob
    BY <1>1, <1>2, <1>4, <2>1 DEF Order, RowInv
  <2>2. CASE b = r.blob
    <3>1. to = "deleted" => asked["delete"][b] = 1
      BY <1>3, <2>2
    <3> QED
      BY <1>1, <1>2, <1>4, <1>6, <2>2, <3>1 DEF RowInv
  <2> QED
    BY <2>1, <2>2
<1>8. \A g \in Slot : RequestInv(g)'
  <2>1. ASSUME NEW g \in Slot \ {h} PROVE RequestInv(g)'
    <3>1. /\ Fits(req[g]) /\ req'[g] = req[g] /\ req[g].blob \in Blob
          /\ req[g].op \in Op /\ Alone(g, h)
      BY <1>1, BecomesIs, RequestIs DEF Order, RequestInv
    <3>2. CASE req[g].blob # r.blob
      BY <1>2, <1>4, <3>1, <3>2 DEF RequestInv, Fits, At
    <3>3. CASE req[g].blob = r.blob
      <4>1. ~(At(req[g], r.op, {"begun", "ready"}))
        BY <1>1, <1>3, <2>1, <3>1, <3>3 DEF Alone, At
      <4> QED
        BY <1>2, <1>3, <1>4, <1>5, <3>1, <3>3, <4>1 DEF RequestInv, Fits, At, Op
    <3> QED
      BY <3>2, <3>3
  <2>2. RequestInv(h)'
    BY <1>1, <1>2, <1>3, BecomesIs DEF RequestInv, Fits, At
  <2> QED
    BY <2>1, <2>2
<1>9. Order'
  <2>1. \A g, k \in Slot : Alone(g, k)'
    BY <1>1, AloneKept
  <2> QED
    BY <1>7, <1>8, <2>1 DEF Order, RequestInv
<1> DEFINE d == IF r.op = "delete" THEN 0 - Size[r.blob] ELSE Size[r.blob]
<1>10. d \in Int /\ Owed(r) = d /\ Owed(req[h]) = 0
  BY <1>1, <1>3 DEF Owed, Delta
<1>11. Bytes(r.blob)' - Bytes(r.blob) = d
  BY <1>1, <1>3, <1>4, <1>5, <1>6 DEF Bytes
<1>12. Bytes(r.blob)' \in Int /\ Bytes(r.blob) \in Int
  BY <1>3 DEF Bytes
<1> HIDE DEF d, to
<1>13. Owing' = Owing + d
  BY <1>1, <1>10, OwingMoves, SumsTyped
<1>14. LiveBytes' = LiveBytes - Bytes(r.blob) + Bytes(r.blob)'
  BY <1>1, <1>3, <1>4, LiveMoves
<1>15. used \in Int
  BY DEF TypeOK
<1>16. LiveBytes' = LiveBytes + d
  BY <1>10, <1>11, <1>12, <1>14, SumsTyped
<1> QED
  BY <1>2, <1>9, <1>10, <1>13, <1>15, <1>16, SumsTyped DEF Balanced

LEMMA CountBalances ==
  ASSUME TypeOK, Order, Balanced, NEW h \in Slot, CountBytes(h)
  PROVE  Order' /\ Balanced'
<1>1. PICK r : /\ Becomes(h, r) /\ r.pc = "idle" /\ r.op = req[h].op
               /\ r.blob = req[h].blob /\ r.size = req[h].size
  BY GotoIs DEF CountBytes, Step
<1>2. /\ UNCHANGED <<row, data, asked, aborts>> /\ used' = used + Owed(req[h])
  BY DEF CountBytes, Owed
<1>3. Fits(r)
  BY <1>1 DEF Fits, At
<1>4. Order'
  BY <1>1, <1>2, <1>3, OrderKept
<1>5. Owed(r) = 0
  BY <1>1 DEF Owed
<1>6. Owing' = Owing - Owed(req[h]) + 0
  BY <1>1, <1>5, OwingMoves
<1>7. used \in Int /\ Owed(req[h]) \in Int
  BY Amounts DEF TypeOK
<1>8. used' + Owing' = used + Owing
  BY <1>2, <1>6, <1>7, SumsTyped
<1> QED
  BY <1>2, <1>4, <1>8, LiveKept DEF Balanced

LEMMA AbortBalances ==
  ASSUME TypeOK, Order, NEW h \in Slot, Abort(h)
  PROVE  Order' /\ Balanced'
<1>1. PICK r : /\ Becomes(h, r) /\ r.pc = "idle" /\ r.op = req[h].op
               /\ r.blob = req[h].blob /\ r.size = req[h].size
  BY GotoIs DEF Abort, Step
<1>2. UNCHANGED <<row, data, asked>>
  BY DEF Abort
<1>3. Fits(r)
  BY <1>1 DEF Fits, At
<1>4. Order'
  BY <1>1, <1>2, <1>3, OrderKept
<1>5. aborts \in Nat /\ aborts' = aborts + 1
  BY BlobStoreAssumption DEF TypeOK, Abort
<1>6. aborts' # 0
  BY <1>5
<1> QED
  BY <1>4, <1>6 DEF Balanced

(* A second deletion or restore of a blob ends the account's promise.      *)
LEMMA BeginBalances ==
  ASSUME TypeOK, Order, Balanced, NEW h \in Slot, NEW o \in Op, NEW b \in Blob,
         Begin(h, o, b), Few'
  PROVE  Order' /\ Balanced'
<1> DEFINE r == [pc |-> "begun", op |-> o, blob |-> b, size |-> 0]
<1>1. r \in Request /\ Sized(r) /\ r.pc = "begun" /\ r.op = o /\ r.blob = b
  BY DEF Request, Step, Sized
<1>2. req' = [req EXCEPT ![h] = r]
  BY DEF Begin
<1> HIDE DEF r
<1>3. Becomes(h, r) /\ req[h].pc = "idle"
  BY <1>1, <1>2 DEF Becomes, Begin
<1>4. UNCHANGED <<row, data, used, aborts>>
  BY DEF Begin
<1>5. /\ asked[o][b] \in Nat /\ asked'[o][b] = asked[o][b] + 1
      /\ \A p \in Op, c \in Blob : p # o \/ c # b => asked'[p][c] = asked[p][c]
  BY DEF Begin, TypeOK
<1>6. o # "put" => asked[o][b] = 0 /\ asked'[o][b] = 1
  <2>1. o # "put" => asked'[o][b] <= 1
    BY DEF Few, Op
  <2> QED
    BY <1>5, <2>1
<1>7. \A c \in Blob : RowInv(c)'
  <2> SUFFICES ASSUME NEW c \in Blob PROVE RowInv(c)'
    OBVIOUS
  <2>1. asked'["delete"][c] = 0 => asked["delete"][c] = 0
    <3>1. "delete" \in Op
      BY DEF Op
    <3>2. asked["delete"][c] \in Nat
      BY <3>1 DEF TypeOK
    <3>3. CASE o = "delete" /\ c = b
      BY <1>5, <3>3
    <3>4. CASE ~(o = "delete" /\ c = b)
      BY <1>5, <3>1, <3>4
    <3> QED
      BY <3>3, <3>4
  <2> QED
    BY <1>4, <2>1 DEF Order, RowInv
<1>8. ASSUME NEW g \in Slot, g # h PROVE RequestInv(g)'
  <2>1. RequestInv(g) /\ req'[g] = req[g] /\ req[g].blob \in Blob /\ req[g].op \in Op
    BY <1>3, <1>8, BecomesIs, RequestIs DEF Order
  <2>2. req[g].pc # "idle" /\ req[g].op # "put" => req[g].op # o \/ req[g].blob # b
    BY <1>6, <2>1 DEF RequestInv, Fits
  <2>3. req[g].pc # "idle" /\ req[g].op # "put" =>
           asked'[req[g].op][req[g].blob] = asked[req[g].op][req[g].blob]
    BY <1>5, <2>1, <2>2
  <2> QED
    BY <1>4, <2>1, <2>3 DEF RequestInv, Fits, At
<1>9. RequestInv(h)'
  <2>1. req'[h] = r
    BY <1>3, BecomesIs
  <2>2. o = "delete" => row[b] # "deleted"
    BY <1>6 DEF Order, RowInv
  <2>3. o # "put" => asked'[o][b] = 1
    BY <1>6
  <2> QED
    BY <1>1, <1>4, <2>1, <2>2, <2>3 DEF RequestInv, Fits, At
<1>10. ASSUME NEW g \in Slot, g # h, req[g].pc # "idle", req[g].op # "put"
       PROVE  req[g].op # o \/ req[g].blob # b
  BY <1>6, <1>10 DEF Order, RequestInv, Fits
<1>11. \A g, k \in Slot : Alone(g, k)'
  <2> SUFFICES ASSUME NEW g \in Slot, NEW k \in Slot PROVE Alone(g, k)'
    OBVIOUS
  <2>1. /\ Alone(g, k) /\ req'[h] = r
        /\ \A i \in Slot \ {h} : req'[i] = req[i]
    BY <1>3, BecomesIs DEF Order
  <2>2. CASE g # h /\ k # h
    BY <2>1, <2>2 DEF Alone, At
  <2>3. CASE g = h /\ k = h
    BY <2>3 DEF Alone
  <2>4. CASE g = h /\ k # h
    BY <1>1, <1>10, <2>1, <2>4 DEF Alone, At
  <2>5. CASE g # h /\ k = h
    BY <1>1, <1>10, <2>1, <2>5 DEF Alone, At
  <2> QED
    BY <2>2, <2>3, <2>4, <2>5
<1>12. Order'
  BY <1>7, <1>8, <1>9, <1>11 DEF Order
<1>13. Owing' = Owing
  <2>1. Owed(r) = 0 /\ Owed(req[h]) = 0
    BY <1>1, <1>3 DEF Owed
  <2> QED
    BY <1>3, <2>1, OwingMoves, SumsTyped
<1> QED
  BY <1>4, <1>12, <1>13, LiveKept DEF Balanced

(* A second one and the months that pass are not taken back.               *)
LEMMA FewBefore == ASSUME BlobInv, [Next]_vars, Few' PROVE Few
<1>1. TypeOK
  BY DEF BlobInv
<1>2. /\ "delete" \in Op /\ "restore" \in Op /\ asked \in [Op -> [Blob -> Nat]]
      /\ months \in Nat
  BY <1>1, BlobStoreAssumption DEF TypeOK, Op
<1>3. ASSUME NEW h \in Slot, NEW o \in Op, NEW b \in Blob, Begin(h, o, b) PROVE Few
  <2>1. asked' = [asked EXCEPT ![o][b] = @ + 1] /\ months' = months
    BY <1>3 DEF Begin
  <2>2. \A p \in Op, c \in Blob : asked[p][c] \in Nat /\ asked[p][c] <= asked'[p][c]
    BY <1>2, <2>1
  <2>4. \A p \in Op, c \in Blob : asked'[p][c] <= 1 => asked[p][c] <= 1
    <3>1. asked' \in [Op -> [Blob -> Nat]]
      BY <1>2, <2>1
    <3> QED
      BY <2>2, <3>1
  <2> QED
    BY <1>2, <2>1, <2>4 DEF Few
<1>4. ASSUME NEW h \in Slot,
             CheckQuota(h) \/ ReadRow(h) \/ PutIfAbsent(h) \/ MarkRow(h) \/ CountBytes(h)
               \/ Abort(h)
      PROVE  Few
  BY <1>4 DEF CheckQuota, ReadRow, PutIfAbsent, MarkRow, CountBytes, Abort, Few
<1>5. CASE (\E b \in Blob : Expire(b)) \/ UNCHANGED vars
  BY <1>5 DEF Expire, vars, Few
<1>6. CASE MonthPasses
  <2>1. months' = months + 1
    BY <1>6 DEF MonthPasses
  <2>2. months' # 0
    BY <1>2, <2>1
  <2> QED
    BY <2>2 DEF Few
<1> QED
  BY <1>3, <1>4, <1>5, <1>6 DEF Next

LEMMA AccountStep == ASSUME AccountInv, [Next]_vars PROVE AccountInv'
<1>1. BlobInv /\ BlobInv' /\ TypeOK
  BY BlobStep DEF AccountInv, BlobInv
<1> SUFFICES ASSUME Few' PROVE Order' /\ Balanced'
  BY <1>1 DEF AccountInv
<1>2. Few /\ Order /\ Balanced
  BY <1>1, FewBefore DEF AccountInv
<1>3. ASSUME NEW h \in Slot, NEW o \in Op, NEW b \in Blob, Begin(h, o, b)
      PROVE  Order' /\ Balanced'
  BY <1>1, <1>2, <1>3, BeginBalances
<1>4. ASSUME NEW h \in Slot,
             CheckQuota(h) \/ ReadRow(h) \/ PutIfAbsent(h) \/ MarkRow(h) \/ CountBytes(h)
               \/ Abort(h)
      PROVE  Order' /\ Balanced'
  BY <1>1, <1>2, <1>4, CheckQuotaBalances, ReadRowBalances, PutBalances, MarkBalances,
     CountBalances, AbortBalances
<1>5. CASE \E b \in Blob : Expire(b)
  BY <1>2, <1>5 DEF Expire, Order, RowInv
<1>6. CASE MonthPasses
  <2>1. months \in Nat /\ months' = months + 1
    BY <1>1, <1>6, BlobStoreAssumption DEF MonthPasses, TypeOK
  <2>2. months' # 0
    BY <2>1
  <2> QED
    BY <2>2 DEF Few
<1>7. CASE UNCHANGED vars
  <2> USE DEF vars
  <2>1. Order'
    BY <1>2, <1>7 DEF Order, RowInv, RequestInv, Fits, Alone, At
  <2>2. Owing' = Owing /\ LiveBytes' = LiveBytes
    BY <1>7 DEF Owing, LiveBytes
  <2> QED
    BY <1>2, <1>7, <2>1, <2>2 DEF Balanced
<1> QED
  BY <1>3, <1>4, <1>5, <1>6, <1>7 DEF Next

LEMMA AccountStarts == Init => AccountInv
<1> SUFFICES ASSUME Init PROVE AccountInv
  OBVIOUS
<1>1. BlobInv
  BY BlobInit
<1>2. TypeOK
  BY <1>1 DEF BlobInv
<1>3. \A h \in Slot : req[h].pc = "idle"
  BY DEF Init
<1>4. Order
  BY <1>3 DEF Init, Order, RowInv, RequestInv, Fits, Alone, At
<1>5. Owing = 0
  <2> DEFINE f == [h \in Slot |-> Owed(req[h])]
  <2>1. Owing = SumFunctionOnSet(f, Slot)
    BY DEF Owing, SumFunction
  <2>2. \A h \in Slot : f[h] = 0
    BY <1>3 DEF Owed
  <2> HIDE DEF f
  <2> QED
    BY <2>1, <2>2, BlobStoreAssumption, SumOfNothing
<1>6. LiveBytes = 0
  <2> DEFINE f == [b \in Blob |-> Bytes(b)]
  <2>1. LiveBytes = SumFunctionOnSet(f, Blob)
    BY DEF LiveBytes, Bytes, SumFunction
  <2>2. \A b \in Blob : f[b] = 0
    BY DEF Init, Bytes
  <2> HIDE DEF f
  <2> QED
    BY <2>1, <2>2, BlobStoreAssumption, SumOfNothing
<1> QED
  BY <1>1, <1>4, <1>5, <1>6 DEF Init, AccountInv, Balanced

(* The account agrees when nobody is at work.                              *)
LEMMA AccountIsRight ==
  ASSUME AccountInv, Few
  PROVE  AccountAgrees
<1> SUFFICES ASSUME \A h \in Slot : req[h].pc = "idle", aborts = 0
             PROVE  used = LiveBytes
  BY DEF AccountAgrees
<1>1. Owing = 0
  <2> DEFINE f == [h \in Slot |-> Owed(req[h])]
  <2>1. Owing = SumFunctionOnSet(f, Slot)
    BY DEF Owing, SumFunction
  <2>2. \A h \in Slot : f[h] = 0
    BY DEF Owed
  <2> HIDE DEF f
  <2> QED
    BY <2>1, <2>2, BlobStoreAssumption, SumOfNothing
<1>2. used \in Int
  BY DEF AccountInv, BlobInv, TypeOK
<1> QED
  BY <1>1, <1>2 DEF AccountInv, Balanced

-----------------------------------------------------------------------------
(* The quota.                                                              *)

(* What an invocation may still add: an upload what it has been let through *)
(* with, a restore what it has been asked for.                              *)
Load(r) == IF r.op = "put" /\ r.pc \in {"ready", "written"} THEN r.size
           ELSE IF r.op = "restore" /\ r.pc # "idle" THEN Size[r.blob] ELSE 0
Loads == SumFunction([h \in Slot |-> Load(req[h])])

Largest == Max({Size[b] : b \in Blob})

Margin == Quota + (Cardinality(Slot) - 1) * Largest

QuotaInv == used + Loads <= Margin + RestoredBytes

LEMMA LargestIs == Largest \in Nat /\ \A b \in Blob : Size[b] <= Largest
<1> DEFINE S == {Size[b] : b \in Blob}
           f == [b \in Blob |-> Size[b]]
<1>1. f \in Surjection(Blob, S)
  BY DEF Surjection
<1>2. IsFiniteSet(S)
  <2> HIDE DEF S, f
  <2> QED
    BY <1>1, BlobStoreAssumption, FS_Surjection
<1>3. S # {} /\ S \subseteq Nat /\ \A b \in Blob : Size[b] \in S
  BY BlobStoreAssumption
<1>4. Largest = Max(S)
  BY DEF Largest
<1> HIDE DEF S
<1>5. Largest \in S /\ \A y \in S : y <= Largest
  BY <1>2, <1>3, <1>4, MaxIs
<1> QED
  BY <1>3, <1>5

LEMMA MarginIs == Margin \in Nat /\ Margin \in Int /\ Cardinality(Slot) - 1 \in Nat
<1>1. Cardinality(Slot) \in Nat /\ Cardinality(Slot) # 0
  BY FS_CardinalityType, FS_EmptySet, BlobStoreAssumption
<1> DEFINE n == Cardinality(Slot) - 1
<1>2. n \in Nat
  BY <1>1
<1> HIDE DEF n
<1>3. n * Largest \in Nat
  BY <1>2, LargestIs
<1>4. Quota + n * Largest \in Nat
  BY <1>3, BlobStoreAssumption
<1> QED
  BY <1>2, <1>4 DEF n, Margin

LEMMA LoadIs ==
  ASSUME TypeOK, NEW r \in Request, Sized(r)
  PROVE  Load(r) \in Nat /\ Load(r) <= Largest /\ (r.pc = "idle" => Load(r) = 0)
<1>1. r.blob \in Blob /\ r.size \in Nat /\ Size[r.blob] \in Nat /\ r.size <= Size[r.blob]
  <2>1. r.blob \in Blob /\ r.size \in Nat
    BY DEF Request
  <2> QED
    BY <2>1, BlobStoreAssumption DEF Sized
<1> QED
  BY <1>1, LargestIs DEF Load

LEMMA LoadsMove ==
  ASSUME TypeOK, NEW h \in Slot, NEW r, Becomes(h, r)
  PROVE  Loads' = Loads - Load(req[h]) + Load(r) /\ Loads \in Nat
<1> DEFINE f == [g \in Slot |-> Load(req[g])]
           e == [g \in Slot |-> Load(req'[g])]
<1>1. Loads = SumFunctionOnSet(f, Slot) /\ Loads' = SumFunctionOnSet(e, Slot)
  BY DEF Loads, SumFunction
<1>2. Load(r) \in Nat
  BY LoadIs DEF Becomes
<1>3. e[h] = Load(r) /\ f[h] = Load(req[h])
  BY BecomesIs
<1>4. \A g \in Slot \ {h} : e[g] = f[g]
  BY BecomesIs
<1>5. \A g \in Slot : f[g] \in Nat
  BY LoadIs, RequestIs
<1>6. \A g \in Slot : e[g] \in Int /\ f[g] \in Int
  BY <1>2, <1>3, <1>4, <1>5
<1> HIDE DEF e, f
<1>7. SumFunctionOnSet(e, Slot) = SumFunctionOnSet(f, Slot) - f[h] + e[h]
  BY <1>4, <1>6, BlobStoreAssumption, SumChanges
<1>8. SumFunctionOnSet(f, Slot) \in Nat
  BY <1>5, BlobStoreAssumption, SumTyped
<1> QED
  BY <1>1, <1>3, <1>7, <1>8

(* What the others carry.                                                  *)
LEMMA LoadsBounded ==
  ASSUME TypeOK, NEW h \in Slot
  PROVE  Loads - Load(req[h]) <= (Cardinality(Slot) - 1) * Largest
<1> DEFINE f == [g \in Slot |-> Load(req[g])]
           others == Slot \ {h}
<1>1. Loads = SumFunctionOnSet(f, Slot)
  BY DEF Loads, SumFunction
<1>2. \A g \in Slot : f[g] \in Int /\ f[g] <= Largest
  BY LoadIs, RequestIs
<1>3. f[h] = Load(req[h])
  OBVIOUS
<1> HIDE DEF f
<1>4. IsFiniteSet(others) /\ Cardinality(others) = Cardinality(Slot) - 1
  BY FS_RemoveElement, BlobStoreAssumption
<1>5. SumFunctionOnSet(f, Slot) = f[h] + SumFunctionOnSet(f, others)
  BY <1>2, BlobStoreAssumption, SumWithout
<1>6. \A g \in others : f[g] \in Int /\ f[g] <= Largest
  BY <1>2
<1> HIDE DEF others
<1>7. SumFunctionOnSet(f, others) <= Cardinality(others) * Largest
  BY <1>4, <1>6, LargestIs, SumBounded
<1>8. SumFunctionOnSet(f, others) \in Int
  BY <1>4, <1>6, SumTyped
<1>9. Loads - Load(req[h]) = SumFunctionOnSet(f, others)
  BY <1>1, <1>2, <1>3, <1>5, <1>8
<1> QED
  BY <1>4, <1>7, <1>9

LEMMA RestoredKept == UNCHANGED asked => RestoredBytes' = RestoredBytes
BY DEF RestoredBytes

LEMMA RestoredIs == ASSUME TypeOK PROVE RestoredBytes \in Nat
<1> DEFINE f == [b \in Blob |-> asked["restore"][b] * Size[b]]
<1>1. RestoredBytes = SumFunctionOnSet(f, Blob)
  BY DEF RestoredBytes, SumFunction
<1>2. ASSUME NEW b \in Blob PROVE f[b] \in Nat
  <2>1. asked["restore"][b] \in Nat /\ Size[b] \in Nat
    BY BlobStoreAssumption DEF TypeOK, Op
  <2>2. asked["restore"][b] * Size[b] \in Nat
    BY <2>1
  <2> QED
    BY <2>2
<1> HIDE DEF f
<1> QED
  BY <1>1, <1>2, BlobStoreAssumption, SumTyped

LEMMA RestoreAsked ==
  ASSUME TypeOK, NEW h \in Slot, NEW b \in Blob, Begin(h, "restore", b)
  PROVE  RestoredBytes' = RestoredBytes + Size[b]
<1> DEFINE f == [c \in Blob |-> asked["restore"][c] * Size[c]]
           e == [c \in Blob |-> asked'["restore"][c] * Size[c]]
<1>1. RestoredBytes = SumFunctionOnSet(f, Blob) /\ RestoredBytes' = SumFunctionOnSet(e, Blob)
  BY DEF RestoredBytes, SumFunction
<1>2. /\ \A c \in Blob : asked["restore"][c] \in Nat
      /\ asked'["restore"][b] = asked["restore"][b] + 1
      /\ \A c \in Blob \ {b} : asked'["restore"][c] = asked["restore"][c]
  BY DEF TypeOK, Op, Begin
<1>3. \A c \in Blob : Size[c] \in Nat
  BY BlobStoreAssumption
<1>4. ASSUME NEW n \in Nat, NEW s \in Nat PROVE n * s \in Nat /\ (n + 1) * s = n * s + s
  BY <1>4
<1>5. f[b] \in Nat /\ e[b] = f[b] + Size[b]
  BY <1>2, <1>3, <1>4
<1>6. \A c \in Blob \ {b} : f[c] \in Nat /\ e[c] = f[c]
  BY <1>2, <1>3, <1>4
<1> HIDE DEF e, f
<1>7. \A c \in Blob : e[c] \in Int /\ f[c] \in Int
  BY <1>3, <1>5, <1>6
<1>8. SumFunctionOnSet(e, Blob) = SumFunctionOnSet(f, Blob) - f[b] + e[b]
  BY <1>6, <1>7, BlobStoreAssumption, SumChanges
<1>9. SumFunctionOnSet(f, Blob) \in Int
  BY <1>7, BlobStoreAssumption, SumTyped
<1> QED
  BY <1>1, <1>3, <1>5, <1>8, <1>9

LEMMA QuotaStep == ASSUME TypeOK, QuotaInv, [Next]_vars PROVE QuotaInv'
<1> USE MarginIs, RestoredIs
<1>0. used \in Int
  BY DEF TypeOK
<1>1. Margin' = Margin
  BY DEF Margin
<1>2. ASSUME NEW h \in Slot, NEW r, Becomes(h, r), Load(r) <= Load(req[h]),
             UNCHANGED <<used, asked>>
      PROVE  QuotaInv'
  <2>1. Load(r) \in Int /\ Load(req[h]) \in Int
    BY <1>2, LoadIs, RequestIs DEF Becomes
  <2>2. Loads' <= Loads /\ Loads \in Int /\ Loads' \in Int
    BY <1>2, <2>1, LoadsMove
  <2> QED
    BY <1>0, <1>1, <1>2, <2>2, RestoredKept DEF QuotaInv
<1>3. ASSUME NEW h \in Slot, NEW o \in Op, NEW b \in Blob, Begin(h, o, b) PROVE QuotaInv'
  <2> DEFINE r == [pc |-> "begun", op |-> o, blob |-> b, size |-> 0]
  <2>1. r \in Request /\ Sized(r) /\ r.pc = "begun" /\ r.op = o /\ r.blob = b
    BY DEF Request, Step, Sized
  <2>2. req' = [req EXCEPT ![h] = r] /\ used' = used /\ req[h].pc = "idle"
    BY <1>3 DEF Begin
  <2> HIDE DEF r
  <2>3. Becomes(h, r) /\ Load(req[h]) = 0
    BY <2>1, <2>2, LoadIs, RequestIs DEF Becomes
  <2>4. Load(r) = IF o = "restore" THEN Size[b] ELSE 0
    BY <2>1 DEF Load
  <2>5. CASE o = "restore"
    <3>1. RestoredBytes' = RestoredBytes + Size[b] /\ Size[b] \in Nat
      BY <1>3, <2>5, RestoreAsked, BlobStoreAssumption
    <3>2. Loads' = Loads + Size[b] /\ Loads \in Nat
      BY <2>3, <2>4, <2>5, <3>1, LoadsMove
    <3> QED
      BY <1>0, <1>1, <2>2, <3>1, <3>2 DEF QuotaInv
  <2>6. CASE o # "restore"
    <3>1. Loads' = Loads /\ Loads \in Nat
      BY <2>3, <2>4, <2>6, LoadsMove
    <3>2. RestoredBytes' = RestoredBytes
      BY <1>3, <2>6 DEF Begin, RestoredBytes
    <3> QED
      BY <1>0, <1>1, <2>2, <3>1, <3>2 DEF QuotaInv
  <2> QED
    BY <2>5, <2>6
<1>4. ASSUME NEW h \in Slot, CheckQuota(h) PROVE QuotaInv'
  <2>1. PICK r : /\ Becomes(h, r) /\ r.op = "put" /\ r.blob = req[h].blob
                 /\ req[h].op = "put" /\ req[h].pc = "begun"
                 /\ \/ r.pc = "idle"
                    \/ /\ r.pc = "ready" /\ r.size = Size[r.blob]
                       /\ used + Size[r.blob] <= Quota
    BY <1>4, CheckQuotaIs
  <2>2. UNCHANGED <<used, asked>> /\ Load(req[h]) = 0
    BY <1>4, <2>1 DEF CheckQuota, Load
  <2>3. CASE r.pc = "idle"
    <3>1. Load(r) = 0
      BY <2>3, LoadIs, <2>1 DEF Becomes
    <3> QED
      BY <1>2, <2>1, <2>2, <3>1
  <2>4. CASE r.pc = "ready"
    <3>1. /\ Load(r) = Size[r.blob] /\ Size[r.blob] \in Nat
          /\ used + Size[r.blob] <= Quota
      BY <2>1, <2>4, RequestIs DEF Load
    <3>2. Loads' = Loads - 0 + Size[r.blob] /\ Loads \in Nat
      BY <2>1, <2>2, <3>1, LoadsMove
    <3> DEFINE m == (Cardinality(Slot) - 1) * Largest
    <3>3. Loads <= m /\ m \in Int
      <4>1. Loads - 0 <= m
        BY <2>2, LoadsBounded
      <4>2. m \in Int
        BY LargestIs
      <4> HIDE DEF m
      <4> QED
        BY <3>2, <4>1, <4>2
    <3>4. Margin = Quota + m /\ Quota \in Int
      BY BlobStoreAssumption DEF Margin
    <3> HIDE DEF m
    <3>5. used + Loads' <= Margin
      BY <1>0, <3>1, <3>2, <3>3, <3>4
    <3>6. RestoredBytes' = RestoredBytes /\ RestoredBytes \in Nat /\ Loads' \in Int
      BY <2>2, <3>1, <3>2, RestoredKept
    <3>7. used + Loads' <= Margin + RestoredBytes
      <4> HIDE DEF Margin
      <4>1. Margin \in Int /\ RestoredBytes \in Nat /\ used + Loads' \in Int
        BY <1>0, <3>6
      <4> QED
        BY <3>5, <4>1
    <3> QED
      BY <1>1, <2>2, <3>6, <3>7 DEF QuotaInv
  <2> QED
    BY <2>1, <2>3, <2>4
<1>5. ASSUME NEW h \in Slot, ReadRow(h) PROVE QuotaInv'
  <2>1. PICK r : /\ Becomes(h, r) /\ r.op = req[h].op /\ r.blob = req[h].blob
                 /\ req[h].op # "put" /\ req[h].pc = "begun"
    BY <1>5, ReadRowIs
  <2>2. Load(r) <= Load(req[h])
    <3>1. Size[r.blob] \in Nat
      BY <2>1, RequestIs
    <3> QED
      BY <2>1, <3>1 DEF Load
  <2> QED
    BY <1>2, <1>5, <2>1, <2>2 DEF ReadRow
<1>6. ASSUME NEW h \in Slot, PutIfAbsent(h) PROVE QuotaInv'
  <2>1. PICK r : /\ Becomes(h, r) /\ r.op = "put" /\ r.size = req[h].size
                 /\ req[h].op = "put" /\ req[h].pc = "ready"
    BY <1>6, PutIs
  <2>2. Load(r) <= Load(req[h])
    <3>1. req[h].size \in Nat
      BY RequestIs
    <3> QED
      BY <2>1, <3>1 DEF Load
  <2> QED
    BY <1>2, <1>6, <2>1, <2>2 DEF PutIfAbsent
<1>7. ASSUME NEW h \in Slot, MarkRow(h) PROVE QuotaInv'
  <2>1. PICK r : /\ Becomes(h, r) /\ r.op = req[h].op /\ r.blob = req[h].blob
                 /\ r.pc = "written" /\ req[h].op # "put" /\ req[h].pc = "ready"
    BY <1>7, MarkIs
  <2>2. Load(r) <= Load(req[h])
    <3>1. Size[r.blob] \in Nat
      BY <2>1, RequestIs
    <3> QED
      BY <2>1, <3>1 DEF Load
  <2> QED
    BY <1>2, <1>7, <2>1, <2>2 DEF MarkRow
<1>8. ASSUME NEW h \in Slot, CountBytes(h) PROVE QuotaInv'
  <2>1. PICK r : Becomes(h, r) /\ r.pc = "idle"
    BY <1>8, GotoIs DEF CountBytes, Step
  <2>2. Load(r) = 0
    BY <2>1, LoadIs DEF Becomes
  <2>3. used' = used + Delta(req[h]) /\ asked' = asked /\ req[h].pc = "written"
    BY <1>8 DEF CountBytes
  <2>4. Delta(req[h]) \in Int /\ Load(req[h]) \in Int /\ Delta(req[h]) <= Load(req[h])
    <3>1. /\ req[h].op \in Op /\ req[h].size \in Nat /\ Size[req[h].blob] \in Nat
          /\ req[h].size <= Size[req[h].blob]
      BY RequestIs DEF Sized
    <3> QED
      BY <2>3, <3>1 DEF Delta, Load, Op
  <2>5. Loads' = Loads - Load(req[h]) + 0 /\ Loads \in Nat
    BY <2>1, <2>2, LoadsMove
  <2>6. used' + Loads' <= used + Loads /\ used' + Loads' \in Int
    BY <1>0, <2>3, <2>4, <2>5
  <2> QED
    BY <1>0, <1>1, <2>3, <2>5, <2>6, RestoredKept DEF QuotaInv
<1>9. ASSUME NEW h \in Slot, Abort(h) PROVE QuotaInv'
  <2>1. PICK r : Becomes(h, r) /\ r.pc = "idle"
    BY <1>9, GotoIs DEF Abort, Step
  <2>2. Load(r) <= Load(req[h])
    BY <2>1, LoadIs, RequestIs DEF Becomes
  <2> QED
    BY <1>2, <1>9, <2>1, <2>2 DEF Abort
<1>10. CASE (\E b \in Blob : Expire(b)) \/ MonthPasses \/ UNCHANGED vars
  <2>1. UNCHANGED <<used, req, asked>>
    BY <1>10 DEF Expire, MonthPasses, vars
  <2>2. Loads' = Loads
    BY <2>1 DEF Loads
  <2> QED
    BY <1>1, <2>1, <2>2, RestoredKept DEF QuotaInv
<1> QED
  BY <1>3, <1>4, <1>5, <1>6, <1>7, <1>8, <1>9, <1>10 DEF Next

LEMMA QuotaStarts == Init => QuotaInv
<1> SUFFICES ASSUME Init PROVE QuotaInv
  OBVIOUS
<1>1. TypeOK
  BY BlobInit DEF BlobInv
<1>2. Loads = 0
  <2> DEFINE f == [h \in Slot |-> Load(req[h])]
  <2>1. Loads = SumFunctionOnSet(f, Slot)
    BY DEF Loads, SumFunction
  <2>2. \A h \in Slot : f[h] = 0
    BY <1>1, LoadIs, RequestIs DEF Init
  <2> HIDE DEF f
  <2> QED
    BY <2>1, <2>2, BlobStoreAssumption, SumOfNothing
<1> QED
  BY <1>1, <1>2, MarginIs, RestoredIs DEF Init, QuotaInv

(* What uploads are about to write is part of what invocations carry.      *)
LEMMA QuotaHolds == ASSUME TypeOK, QuotaInv PROVE OvershootBounded
<1> DEFINE f == [h \in Slot |-> Load(req[h])]
           e == [h \in Slot |-> IF Uploads(h) THEN req[h].size ELSE 0]
<1>1. Loads = SumFunctionOnSet(f, Slot) /\ Pending = SumFunctionOnSet(e, Slot)
  BY DEF Loads, Pending, SumFunction
<1>2. \A h \in Slot : f[h] \in Int /\ e[h] \in Int /\ e[h] <= f[h]
  BY LoadIs, RequestIs DEF Load, Uploads
<1> HIDE DEF e, f
<1>3. SumFunctionOnSet(e, Slot) <= SumFunctionOnSet(f, Slot)
  BY <1>2, BlobStoreAssumption, SumGrows
<1>4. SumFunctionOnSet(e, Slot) \in Int /\ SumFunctionOnSet(f, Slot) \in Int
  BY <1>2, BlobStoreAssumption, SumTyped
<1>5. used \in Int
  BY DEF TypeOK
<1>6. used + Pending <= Margin + RestoredBytes
  BY <1>1, <1>3, <1>4, <1>5, MarginIs, RestoredIs DEF QuotaInv
<1> QED
  BY <1>6 DEF OvershootBounded, Margin, Largest

(* The account of a tenant (routes/blobs.ts, routes/restore.ts,            *)
(* sync/quota.ts) equals the bytes of the live blobs once no request is    *)
(* under way, while no blob was deleted or restored twice, no month passed *)
(* and no request died; and however uploads passed the quota check         *)
(* together, what is over the quota is at most what the other invocations  *)
(* carry and what was restored.  See AccountBalances of BlobStore.         *)
THEOREM AccountStaysBalanced == Spec => []AccountBalances
<1>1. Init => AccountInv /\ QuotaInv
  BY AccountStarts, QuotaStarts
<1>2. AccountInv /\ QuotaInv /\ [Next]_vars => (AccountInv /\ QuotaInv)'
  BY AccountStep, QuotaStep DEF AccountInv, BlobInv
<1>3. AccountInv /\ QuotaInv => AccountBalances
  BY AccountIsRight, QuotaHolds DEF AccountBalances, AccountInv, BlobInv, Few
<1> QED
  BY <1>1, <1>2, <1>3, PTL DEF Spec
=============================================================================
