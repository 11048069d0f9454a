-------------------------- MODULE SyncQueueProofs --------------------------
(***************************************************************************)
(* Theorems about SyncQueue, for every set of processes and blobs and      *)
(* every value of the limits.                                              *)
(***************************************************************************)
EXTENDS SyncQueueOutbox, TLAPS

(***************************************************************************)
(* Type correctness.  One lemma per operation that rewrites the table.     *)
(***************************************************************************)

(* The part of TypeOK that speaks of the table.                            *)
QueueOK(q) == /\ DOMAIN q \subseteq RowId
              /\ q \in [DOMAIN q -> Row]
              /\ \A i \in DOMAIN q : i < nextId

(* The updates of a row that the statements make.                          *)
Rec(r, s, k, g, v) == [blob |-> r.blob, op |-> r.op, status |-> s,
                       retry |-> k, age |-> g, wait |-> v]

LEMMA RecType ==
  ASSUME NEW r \in Row, NEW s \in {"pending", "processing", "failed"},
         NEW k \in 0..RetryCap, NEW g \in 0..Aged, NEW v \in Nat
  PROVE  Rec(r, s, k, g, v) \in Row
BY DEF Row, Rec

LEMMA RowFields ==
  ASSUME NEW r \in Row
  PROVE  /\ r.status \in {"pending", "processing", "failed"}
         /\ r.retry \in 0..RetryCap /\ r.age \in 0..Aged /\ r.wait \in Nat
         /\ 0 \in 0..Aged
BY SyncQueueAssumption DEF Row, Aged

LEMMA StatusIsRec ==
  ASSUME NEW r \in Row, NEW x
  PROVE  /\ x = [r EXCEPT !.status = "pending", !.age = 0, !.wait = 0]
              => x = Rec(r, "pending", r.retry, 0, 0)
         /\ x = [r EXCEPT !.status = "processing", !.age = 0]
              => x = Rec(r, "processing", r.retry, 0, r.wait)
         /\ x = [r EXCEPT !.status = "failed", !.age = 0]
              => x = Rec(r, "failed", r.retry, 0, r.wait)
BY DEF Row, Rec

LEMMA RetryIsRec ==
  ASSUME NEW r \in Row, NEW n, NEW w, NEW x,
         x = [r EXCEPT !.status = "pending", !.retry = n, !.age = 0, !.wait = w]
  PROVE  x = Rec(r, "pending", n, 0, w)
BY DEF Row, Rec

LEMMA OlderIsRec ==
  ASSUME NEW r \in Row, NEW a, NEW w, NEW x,
         x = [r EXCEPT !.age = a, !.wait = w]
  PROVE  x = Rec(r, r.status, r.retry, a, w)
BY DEF Row, Rec

(* What each statement does to the rows.                                   *)
LEMMA ReleaseStaleRows ==
  ASSUME TypeOK
  PROVE  /\ DOMAIN ReleaseStale = DOMAIN queue
         /\ \A i \in DOMAIN queue :
              ReleaseStale[i] = IF Stale(i) THEN Rec(queue[i], "pending", queue[i].retry, 0, 0)
                                ELSE queue[i]
BY StatusIsRec DEF TypeOK, ReleaseStale

LEMMA MarkProcessingRows ==
  ASSUME NEW q, QueueOK(q), NEW S
  PROVE  /\ DOMAIN MarkProcessing(q, S) = DOMAIN q
         /\ \A i \in DOMAIN q :
              MarkProcessing(q, S)[i] =
                IF i \in S THEN Rec(q[i], "processing", q[i].retry, 0, q[i].wait)
                ELSE q[i]
BY StatusIsRec DEF QueueOK, MarkProcessing

Again(r) == IF r.retry < RetryCap THEN r.retry + 1 ELSE r.retry

LEMMA FailRows ==
  ASSUME TypeOK, NEW i, Fail(i)
  PROVE  /\ DOMAIN queue' = DOMAIN queue
         /\ \A j \in DOMAIN queue : j # i => queue'[j] = queue[j]
         /\ i \in DOMAIN queue =>
              queue'[i] = Rec(queue[i], "pending", Again(queue[i]), 0,
                              Backoff[queue[i].retry])
<1>1. ASSUME i \in DOMAIN queue
      PROVE  queue'[i] = Rec(queue[i], "pending", Again(queue[i]), 0,
                             Backoff[queue[i].retry])
  <2>1. queue[i] \in Row
    BY <1>1 DEF TypeOK
  <2>2. queue'[i] = [queue[i] EXCEPT !.status = "pending", !.retry = Again(queue[i]),
                                     !.age = 0, !.wait = Backoff[queue[i].retry]]
    BY <1>1 DEF Fail, Again
  <2> QED BY <2>1, <2>2, RetryIsRec
<1> QED BY <1>1 DEF Fail

LEMMA PermanentFailRows ==
  ASSUME TypeOK, NEW i, PermanentFail(i)
  PROVE  /\ DOMAIN queue' = DOMAIN queue
         /\ \A j \in DOMAIN queue : j # i => queue'[j] = queue[j]
         /\ i \in DOMAIN queue =>
              queue'[i] = Rec(queue[i], "failed", queue[i].retry, 0, queue[i].wait)
BY StatusIsRec DEF TypeOK, PermanentFail

OlderAge(r)  == IF r.age < Aged /\ r.status = "processing" THEN r.age + 1 ELSE r.age
ShorterWait(r) == IF r.wait > 0 THEN r.wait - 1 ELSE 0

LEMMA TickRows ==
  ASSUME TypeOK, Tick
  PROVE  /\ DOMAIN queue' = DOMAIN queue
         /\ \A i \in DOMAIN queue :
              queue'[i] = Rec(queue[i], queue[i].status, queue[i].retry,
                              OlderAge(queue[i]), ShorterWait(queue[i]))
<1>1. DOMAIN queue' = DOMAIN queue
  BY DEF Tick
<1>2. ASSUME NEW i \in DOMAIN queue
      PROVE  queue'[i] = Rec(queue[i], queue[i].status, queue[i].retry,
                             OlderAge(queue[i]), ShorterWait(queue[i]))
  <2>1. queue[i] \in Row
    BY DEF TypeOK
  <2>2. queue'[i] = [queue[i] EXCEPT !.age = OlderAge(queue[i]),
                                     !.wait = ShorterWait(queue[i])]
    BY DEF Tick, OlderAge, ShorterWait
  <2> QED BY <2>1, <2>2, OlderIsRec
<1> QED BY <1>1, <1>2

LEMMA ReleaseStaleType ==
  ASSUME TypeOK
  PROVE  QueueOK(ReleaseStale)
<1>1. ASSUME NEW i \in DOMAIN queue PROVE ReleaseStale[i] \in Row
  <2>1. queue[i] \in Row
    BY DEF TypeOK
  <2> QED BY <2>1, ReleaseStaleRows, RecType, RowFields
<1> QED BY <1>1, ReleaseStaleRows DEF TypeOK, QueueOK, ReleaseStale

LEMMA MarkProcessingType ==
  ASSUME NEW q, QueueOK(q), NEW S
  PROVE  QueueOK(MarkProcessing(q, S))
<1>1. ASSUME NEW i \in DOMAIN q PROVE MarkProcessing(q, S)[i] \in Row
  <2>1. q[i] \in Row
    BY DEF QueueOK
  <2>2. Rec(q[i], "processing", q[i].retry, 0, q[i].wait) \in Row
    BY <2>1, RecType, RowFields
  <2> QED BY <2>1, <2>2, MarkProcessingRows
<1> QED BY <1>1, MarkProcessingRows DEF QueueOK, MarkProcessing

LEMMA ItemsOfType ==
  ASSUME NEW q, QueueOK(q), NEW S \in SUBSET Due(q)
  PROVE  /\ DOMAIN ItemsOf(q, S) = S /\ S \subseteq DOMAIN q
         /\ ItemsOf(q, S) \in [S -> Item]
BY DEF QueueOK, ItemsOf, Due, Row, Item

LEMMA SettleRowType ==
  ASSUME TypeOK, NEW i, NEW item,
         \/ Complete(i) \/ Fail(i) \/ FailItem(item, i)
  PROVE  /\ DOMAIN queue' \subseteq RowId
         /\ queue' \in [DOMAIN queue' -> Row]
         /\ \A j \in DOMAIN queue' : j < nextId
<1>1. CASE Complete(i)
  BY <1>1 DEF TypeOK, Complete, Restrict
<1>2. CASE Fail(i)
  <2>1. ASSUME i \in DOMAIN queue PROVE queue'[i] \in Row
    <3>1. queue[i] \in Row
      BY <2>1 DEF TypeOK
    <3>2. /\ Backoff[queue[i].retry] \in Nat /\ 0 \in 0..Aged
          /\ Again(queue[i]) \in 0..RetryCap
      BY <3>1, SyncQueueAssumption, RowFields DEF Again
    <3> QED BY <1>2, <2>1, <3>1, <3>2, FailRows, RecType
  <2> QED BY <1>2, <2>1, FailRows DEF TypeOK, Fail
<1>3. CASE FailItem(item, i)
  <2>1. Fail(i) \/ PermanentFail(i)
    BY <1>3 DEF FailItem
  <2>2. CASE PermanentFail(i)
    <3>1. ASSUME i \in DOMAIN queue PROVE queue'[i] \in Row
      <4>1. queue[i] \in Row
        BY <3>1 DEF TypeOK
      <4> QED BY <2>2, <3>1, <4>1, PermanentFailRows, RecType, RowFields
    <3> QED BY <2>2, <3>1, PermanentFailRows DEF TypeOK, PermanentFail
  <2> QED BY <1>2, <2>1, <2>2
<1> QED BY <1>1, <1>2, <1>3

(* What a step does to one process's batch, answer and clock.              *)
BatchOK(cl) == /\ DOMAIN cl \subseteq RowId
               /\ cl \in [DOMAIN cl -> Item]
               /\ \A i \in DOMAIN cl : i < nextId

LEMMA BatchType ==
  ASSUME TypeOK, NEW p \in Process, NEW cl, BatchOK(cl),
         NEW r \in {"none", "waiting"} \cup Answer, NEW t \in 0..BatchBudget,
         claimed' = [claimed EXCEPT ![p] = cl],
         reply' = [reply EXCEPT ![p] = r],
         held' = [held EXCEPT ![p] = t],
         nextId' = nextId
  PROVE  /\ DOMAIN claimed' = Process
         /\ \A q \in Process : /\ DOMAIN claimed'[q] \subseteq RowId
                               /\ claimed'[q] \in [DOMAIN claimed'[q] -> Item]
                               /\ \A i \in DOMAIN claimed'[q] : i < nextId'
         /\ reply' \in [Process -> {"none", "waiting"} \cup Answer]
         /\ held' \in [Process -> 0..BatchBudget]
<1>1. DOMAIN claimed' = Process
  BY DEF TypeOK
<1>2. ASSUME NEW q \in Process
      PROVE  /\ DOMAIN claimed'[q] \subseteq RowId
             /\ claimed'[q] \in [DOMAIN claimed'[q] -> Item]
             /\ \A i \in DOMAIN claimed'[q] : i < nextId'
  <2>1. CASE q = p
    <3>1. claimed'[q] = cl
      BY <2>1 DEF TypeOK
    <3> QED BY <3>1 DEF BatchOK
  <2>2. CASE q # p
    <3>1. claimed'[q] = claimed[q]
      BY <2>2 DEF TypeOK
    <3> QED BY <3>1 DEF TypeOK
  <2> QED BY <2>1, <2>2
<1>3. reply' \in [Process -> {"none", "waiting"} \cup Answer]
  BY DEF TypeOK
<1>4. held' \in [Process -> 0..BatchBudget]
  BY DEF TypeOK
<1> QED BY <1>1, <1>2, <1>3, <1>4

LEMMA TypeInit == Init => TypeOK
BY SyncQueueAssumption DEF Init, TypeOK, NoItems, Item, Row, RowId

LEMMA TypeNext == TypeOK /\ [Next]_vars => TypeOK'
<1> SUFFICES ASSUME TypeOK, [Next]_vars PROVE TypeOK'
  OBVIOUS
<1>1. ASSUME NEW b \in Blob, NEW o \in Operation, Enqueue(b, o)
      PROVE  /\ DOMAIN queue' \subseteq RowId
             /\ queue' \in [DOMAIN queue' -> Row]
             /\ nextId' \in 1..(MaxRow + 1)
             /\ \A i \in DOMAIN queue' : i < nextId'
             /\ \A p \in Process : \A i \in DOMAIN claimed[p] : i < nextId'
  <2>1. /\ nextId \in Nat /\ 1 <= nextId /\ nextId <= MaxRow
        /\ nextId' = nextId + 1 /\ MaxRow \in Nat
    <3>1. nextId \in 1..(MaxRow + 1) /\ nextId <= MaxRow /\ nextId' = nextId + 1
      BY <1>1 DEF TypeOK, Enqueue
    <3>2. MaxRow \in Nat
      BY SyncQueueAssumption
    <3> QED BY <3>1, <3>2
  <2>2. nextId \in 1..MaxRow /\ nextId' \in 1..(MaxRow + 1)
    BY <2>1
  <2>3. DOMAIN queue' \subseteq DOMAIN queue \cup {nextId}
    BY <1>1 DEF Enqueue
  <2>4. NewRow(b, o) \in Row
    BY SyncQueueAssumption DEF NewRow, Row, Aged
  <2>5. ASSUME NEW i \in DOMAIN queue' PROVE queue'[i] \in Row
    <3>1. queue'[i] = IF i = nextId THEN NewRow(b, o) ELSE queue[i]
      BY <1>1, <2>5 DEF Enqueue
    <3>2. i # nextId => queue[i] \in Row
      BY <2>3, <2>5 DEF TypeOK
    <3> QED
      BY <2>4, <3>1, <3>2
  <2>6. queue' \in [DOMAIN queue' -> Row]
    BY <1>1, <2>5 DEF Enqueue
  <2>7. \A i \in RowId : i < nextId => i < nextId'
    BY <2>1 DEF RowId
  <2>8. ASSUME NEW i \in DOMAIN queue' PROVE i \in RowId /\ i < nextId'
    <3>1. CASE i = nextId
      BY <2>1, <2>2, <3>1 DEF RowId
    <3>2. CASE i \in DOMAIN queue
      BY <2>7, <3>2 DEF TypeOK
    <3> QED
      BY <2>3, <2>8, <3>1, <3>2
  <2>9. ASSUME NEW p \in Process, NEW i \in DOMAIN claimed[p] PROVE i < nextId'
    BY <2>7 DEF TypeOK
  <2> QED
    BY <2>2, <2>6, <2>8, <2>9
<1>2. ASSUME NEW b \in Blob, StoreAndEnqueueUpload(b) PROVE TypeOK'
  BY <1>1, <1>2 DEF TypeOK, StoreAndEnqueueUpload, Operation
<1>3. ASSUME NEW b \in Blob, EnqueueDelete(b) PROVE TypeOK'
  BY <1>1, <1>3 DEF TypeOK, EnqueueDelete, Operation
<1>4. ASSUME NEW p \in Process, ProcessQueue(p) PROVE TypeOK'
  <2>1. PICK S \in Batches(ReleaseStale) :
          /\ queue' = MarkProcessing(ReleaseStale, S)
          /\ claimed' = [claimed EXCEPT ![p] = ItemsOf(ReleaseStale, S)]
          /\ reply' = [reply EXCEPT ![p] = IF S = {} THEN "none" ELSE "waiting"]
    BY <1>4 DEF ProcessQueue
  <2>2. S \in SUBSET Due(ReleaseStale)
    BY DEF Batches
  <2>3. QueueOK(queue')
    BY <2>1, ReleaseStaleType, MarkProcessingType
  <2>4. /\ DOMAIN ItemsOf(ReleaseStale, S) \subseteq DOMAIN queue
        /\ ItemsOf(ReleaseStale, S) \in [DOMAIN ItemsOf(ReleaseStale, S) -> Item]
    BY <2>2, ReleaseStaleType, ReleaseStaleRows, ItemsOfType
  <2>5. BatchOK(ItemsOf(ReleaseStale, S))
    BY <2>4 DEF BatchOK, TypeOK
  <2>6. 0 \in 0..BatchBudget
    BY SyncQueueAssumption
  <2>7. /\ held' = [held EXCEPT ![p] = 0]
        /\ UNCHANGED <<nextId, syncStatus, server, crashes, refusals>>
    BY <1>4 DEF ProcessQueue
  <2> QED
    BY <2>1, <2>3, <2>5, <2>6, <2>7, BatchType DEF TypeOK, QueueOK
<1>5. ASSUME NEW p \in Process, ServerHandles(p) PROVE TypeOK'
  BY <1>5 DEF TypeOK, ServerHandles, Handled, AnswerOf, Item, Answer
<1>6. ASSUME NEW p \in Process, RequestFails(p) PROVE TypeOK'
  BY <1>6 DEF TypeOK, RequestFails, Answer
<1>7. ASSUME NEW p \in Process, ServerRefuses(p) PROVE TypeOK'
  <2>1. refusals' \in 0..MaxRefusals
    <3>1. refusals \in 0..MaxRefusals /\ refusals < MaxRefusals
          /\ refusals' = refusals + 1
      BY <1>7 DEF TypeOK, ServerRefuses
    <3> QED BY <3>1, SyncQueueAssumption
  <2>2. reply' \in [Process -> {"none", "waiting"} \cup Answer]
    BY <1>7 DEF TypeOK, ServerRefuses, Answer
  <2> QED BY <1>7, <2>1, <2>2 DEF TypeOK, ServerRefuses
<1>8. ASSUME NEW p \in Process, Settle(p) PROVE TypeOK'
  <2>1. PICK i \in DOMAIN claimed[p] :
          /\ Complete(i) \/ Fail(i) \/ FailItem(claimed[p][i], i)
          /\ Advance(p, i, reply[p] = "quota")
    BY <1>8 DEF Settle, Answer
  <2>2. /\ DOMAIN queue' \subseteq RowId
        /\ queue' \in [DOMAIN queue' -> Row]
        /\ \A j \in DOMAIN queue' : j < nextId
    BY <2>1, SettleRowType
  <2> DEFINE rest == IF reply[p] = "quota" THEN {} ELSE DOMAIN claimed[p] \ {i}
             left == Restrict(claimed[p], rest)
  <2>3. BatchOK(left)
    BY DEF TypeOK, BatchOK, Restrict
  <2>4. (IF rest = {} THEN 0 ELSE held[p]) \in 0..BatchBudget
    BY SyncQueueAssumption DEF TypeOK
  <2>5. /\ claimed' = [claimed EXCEPT ![p] = left]
        /\ reply' = [reply EXCEPT ![p] = IF rest = {} THEN "none" ELSE "waiting"]
        /\ held' = [held EXCEPT ![p] = IF rest = {} THEN 0 ELSE held[p]]
    BY <2>1 DEF TypeOK, Advance
  <2>6. UNCHANGED <<nextId, syncStatus, server, crashes, refusals>>
    BY <1>8 DEF Settle
  <2> HIDE DEF rest, left
  <2> QED
    BY <2>2, <2>3, <2>4, <2>5, <2>6, BatchType DEF TypeOK
<1>9. ASSUME NEW p \in Process, Crash(p) PROVE TypeOK'
  <2>1. /\ claimed' = [claimed EXCEPT ![p] = NoItems]
        /\ reply' = [reply EXCEPT ![p] = "none"]
        /\ held' = [held EXCEPT ![p] = 0]
        /\ UNCHANGED <<queue, nextId, syncStatus, server, refusals>>
    BY <1>9 DEF Crash
  <2>2. BatchOK(NoItems) /\ 0 \in 0..BatchBudget
    BY SyncQueueAssumption DEF BatchOK, NoItems
  <2>3. crashes' \in 0..MaxCrashes
    <3>1. crashes \in 0..MaxCrashes /\ crashes < MaxCrashes /\ crashes' = crashes + 1
      BY <1>9 DEF TypeOK, Crash
    <3> QED BY <3>1, SyncQueueAssumption
  <2> QED BY <2>1, <2>2, <2>3, BatchType DEF TypeOK
<1>10. CASE Tick
  <2>1. DOMAIN queue' = DOMAIN queue /\ queue' \in [DOMAIN queue -> Row]
    <3>1. ASSUME NEW i \in DOMAIN queue PROVE queue'[i] \in Row
      <4>1. queue[i] \in Row
        BY DEF TypeOK
      <4>2. OlderAge(queue[i]) \in 0..Aged /\ ShorterWait(queue[i]) \in Nat
        BY <4>1, SyncQueueAssumption DEF Row, Aged, OlderAge, ShorterWait
      <4>3. queue'[i] = Rec(queue[i], queue[i].status, queue[i].retry,
                            OlderAge(queue[i]), ShorterWait(queue[i]))
        BY <1>10, TickRows
      <4>4. queue[i].status \in {"pending", "processing", "failed"}
            /\ queue[i].retry \in 0..RetryCap
        BY <4>1, RowFields
      <4> QED BY <4>1, <4>2, <4>3, <4>4, RecType
    <3> QED BY <1>10, <3>1 DEF Tick
  <2>2. held' \in [Process -> 0..BatchBudget]
    <3>1. ASSUME NEW p \in Process
          PROVE  (IF reply[p] # "none" THEN held[p] + 1 ELSE held[p]) \in 0..BatchBudget
      <4>1. held[p] \in 0..BatchBudget
        BY DEF TypeOK
      <4>2. reply[p] # "none" => held[p] < BatchBudget
        BY <1>10 DEF Tick
      <4> QED BY <4>1, <4>2, SyncQueueAssumption
    <3> QED BY <1>10, <3>1 DEF Tick
  <2> QED BY <1>10, <2>1, <2>2 DEF TypeOK, Tick
<1>11. CASE UNCHANGED vars
  BY <1>11 DEF TypeOK, vars
<1> QED
  BY <1>2, <1>3, <1>4, <1>5, <1>6, <1>7, <1>8, <1>9, <1>10, <1>11 DEF Next

(* Every reachable state is well typed.                                    *)
THEOREM TypeCorrect == Spec => []TypeOK
BY TypeInit, TypeNext, PTL DEF Spec

(***************************************************************************)
(* What was asked of a blob is never forgotten.  The invariant ties a      *)
(* process's copy to the row it will settle, its answer to what the server *)
(* holds, and every deletion in flight to a request of the user; it makes  *)
(* no assumption on time, so that it also covers a process that settles a  *)
(* row long after losing its claim.                                        *)
(***************************************************************************)

Acked(b, o) == /\ o = "upload" => server[b] # "absent"
               /\ o = "delete" => server[b] = "deleted"

ItemIsRow ==
  \A p \in Process : \A i \in DOMAIN claimed[p] :
    i \in DOMAIN queue => /\ claimed[p][i].blob = queue[i].blob
                         /\ claimed[p][i].op = queue[i].op
                         /\ claimed[p][i].retry <= queue[i].retry

AnswerIsTrue ==
  \A p \in Process : reply[p] \in {"done", "exists"} =>
    \A i \in DOMAIN claimed[p] :
      IsCurrent(p, i) => Acked(claimed[p][i].blob, claimed[p][i].op)

DeleteIsAsked ==
  /\ \A i \in DOMAIN queue :
       queue[i].op = "delete" => syncStatus[queue[i].blob] = "pending_delete"
  /\ \A p \in Process : \A i \in DOMAIN claimed[p] :
       claimed[p][i].op = "delete" =>
         syncStatus[claimed[p][i].blob] = "pending_delete"
  /\ \A b \in Blob :
       server[b] = "deleted" => syncStatus[b] = "pending_delete"

NothingForgottenInv ==
  /\ TypeOK /\ ItemIsRow /\ AnswerIsTrue /\ DeleteIsAsked
  /\ NothingForgotten /\ GivenUpAfterMaxRetries

(* Keeps(q, r): the rows of r are rows of q, for the same operations, with *)
(* no retry uncounted.                                                     *)
Keeps(q, r) ==
  /\ DOMAIN r \subseteq DOMAIN q
  /\ \A i \in DOMAIN r : /\ r[i].blob = q[i].blob /\ r[i].op = q[i].op
                         /\ q[i].retry <= r[i].retry

LEMMA RecFields ==
  ASSUME NEW r, NEW s, NEW k, NEW g, NEW v
  PROVE  /\ Rec(r, s, k, g, v).blob = r.blob /\ Rec(r, s, k, g, v).op = r.op
         /\ Rec(r, s, k, g, v).status = s /\ Rec(r, s, k, g, v).retry = k
         /\ Rec(r, s, k, g, v).age = g /\ Rec(r, s, k, g, v).wait = v
BY DEF Rec

LEMMA RetryIsNat == ASSUME NEW q, QueueOK(q), NEW i \in DOMAIN q
                    PROVE  q[i].retry \in Nat
BY SyncQueueAssumption DEF QueueOK, Row

(* processQueue's first two statements, together.                          *)
LEMMA ClaimKeeps ==
  ASSUME TypeOK, NEW S \in SUBSET Due(ReleaseStale),
         queue' = MarkProcessing(ReleaseStale, S)
  PROVE  /\ DOMAIN queue' = DOMAIN queue /\ Keeps(queue, queue')
         /\ \A i \in DOMAIN queue :
              /\ queue'[i].retry = queue[i].retry
              /\ queue'[i].status = "failed" => queue[i].status = "failed"
<1>1. QueueOK(queue) /\ QueueOK(ReleaseStale)
  BY ReleaseStaleType DEF TypeOK, QueueOK
<1>2. DOMAIN queue' = DOMAIN queue /\ DOMAIN ReleaseStale = DOMAIN queue
  BY <1>1, ReleaseStaleRows, MarkProcessingRows
<1>3. ASSUME NEW i \in DOMAIN queue
      PROVE  /\ queue'[i].blob = queue[i].blob /\ queue'[i].op = queue[i].op
             /\ queue'[i].retry = queue[i].retry
             /\ queue'[i].status = "failed" => queue[i].status = "failed"
  <2> DEFINE r == ReleaseStale[i]
  <2>1. r = IF Stale(i) THEN Rec(queue[i], "pending", queue[i].retry, 0, 0) ELSE queue[i]
    BY ReleaseStaleRows
  <2>2. queue'[i] = IF i \in S THEN Rec(r, "processing", r.retry, 0, r.wait) ELSE r
    BY <1>1, <1>2, MarkProcessingRows
  <2>3. /\ r.blob = queue[i].blob /\ r.op = queue[i].op /\ r.retry = queue[i].retry
        /\ r.status = "failed" => queue[i].status = "failed"
    BY <2>1, RecFields
  <2> HIDE DEF r
  <2> QED BY <2>2, <2>3, RecFields
<1>4. \A i \in DOMAIN queue : queue[i].retry \in Nat
  BY <1>1, RetryIsNat
<1> QED BY <1>2, <1>3, <1>4 DEF Keeps

LEMMA SettleKeeps ==
  ASSUME TypeOK, NEW i, NEW item, FailItem(item, i) \/ Fail(i)
  PROVE  /\ DOMAIN queue' = DOMAIN queue /\ Keeps(queue, queue')
         /\ \A j \in DOMAIN queue :
              queue'[j].status = "failed" =>
                queue[j].status = "failed" \/ (j = i /\ GivesUp(item))
<1>1. QueueOK(queue)
  BY DEF TypeOK, QueueOK
<1>2. \A j \in DOMAIN queue : queue[j].retry \in Nat
  BY <1>1, RetryIsNat
<1>3. CASE Fail(i)
  <2>1. ASSUME i \in DOMAIN queue
        PROVE  /\ queue'[i].blob = queue[i].blob /\ queue'[i].op = queue[i].op
               /\ queue[i].retry <= queue'[i].retry /\ queue'[i].status = "pending"
    <3>1. queue'[i] = Rec(queue[i], "pending", Again(queue[i]), 0, Backoff[queue[i].retry])
      BY <1>3, <2>1, FailRows
    <3>2. queue[i].retry <= Again(queue[i])
      BY <1>2, <2>1 DEF Again
    <3> QED BY <3>1, <3>2, RecFields
  <2> QED BY <1>2, <1>3, <2>1, FailRows DEF Keeps
<1>4. CASE PermanentFail(i) /\ GivesUp(item)
  <2>1. ASSUME i \in DOMAIN queue
        PROVE  /\ queue'[i].blob = queue[i].blob /\ queue'[i].op = queue[i].op
               /\ queue'[i].retry = queue[i].retry
    BY <1>4, <2>1, PermanentFailRows, RecFields
  <2> QED BY <1>2, <1>4, <2>1, PermanentFailRows DEF Keeps
<1> QED BY <1>3, <1>4 DEF FailItem

LEMMA TickKeeps ==
  ASSUME TypeOK, Tick
  PROVE  /\ DOMAIN queue' = DOMAIN queue /\ Keeps(queue, queue')
         /\ \A i \in DOMAIN queue : /\ queue'[i].retry = queue[i].retry
                                   /\ queue'[i].status = queue[i].status
<1>1. QueueOK(queue)
  BY DEF TypeOK, QueueOK
<1>2. \A i \in DOMAIN queue : queue[i].retry \in Nat
  BY <1>1, RetryIsNat
<1> QED BY <1>2, TickRows, RecFields DEF Keeps

LEMMA ForgetInit == Init => NothingForgottenInv
BY TypeInit DEF Init, NothingForgottenInv, NoItems, ItemIsRow, AnswerIsTrue,
                DeleteIsAsked, NothingForgotten, GivenUpAfterMaxRetries

(* Enqueueing: the new row stands for the operation, every other row that  *)
(* goes stood for the same one.                                            *)
LEMMA ForgetEnqueue ==
  ASSUME NothingForgottenInv, TypeOK', NEW b \in Blob, NEW o \in Operation,
         Enqueue(b, o),
         o = "upload" => syncStatus[b] = "absent",
         syncStatus' = [syncStatus EXCEPT ![b] =
                          IF o = "upload" THEN "local_only" ELSE "pending_delete"],
         UNCHANGED <<claimed, reply, server>>
  PROVE  NothingForgottenInv'
<1>1. o = "upload" \/ o = "delete"
  BY DEF Operation
<1>2. TypeOK /\ TypeOK'
  BY DEF NothingForgottenInv
<1>3. /\ nextId \notin DOMAIN queue
      /\ DOMAIN queue' = (DOMAIN queue \ Superseded(b, o)) \cup {nextId}
      /\ queue'[nextId] = NewRow(b, o)
      /\ \A i \in DOMAIN queue' : i # nextId => queue'[i] = queue[i]
      /\ \A p \in Process : \A i \in DOMAIN claimed[p] : i # nextId
  BY <1>1, <1>2 DEF TypeOK, Enqueue
<1>4. syncStatus' \in [Blob -> {"absent", "local_only", "pending_delete"}]
      /\ syncStatus \in [Blob -> {"absent", "local_only", "pending_delete"}]
  BY <1>2 DEF TypeOK
<1>5. ItemIsRow'
  BY <1>1, <1>3 DEF NothingForgottenInv, ItemIsRow
<1>6. AnswerIsTrue'
  BY <1>1 DEF NothingForgottenInv, AnswerIsTrue, IsCurrent, Acked
<1>7. \A c \in Blob : syncStatus[c] = "pending_delete" => syncStatus'[c] = "pending_delete"
  BY <1>1, <1>4
<1>8. DeleteIsAsked'
  <2>1. /\ \A i \in DOMAIN queue : queue[i].blob \in Blob
        /\ \A p \in Process : \A i \in DOMAIN claimed[p] : claimed[p][i].blob \in Blob
    BY <1>2 DEF TypeOK, Row, Item
  <2>2. ASSUME NEW i \in DOMAIN queue', queue'[i].op = "delete"
        PROVE  syncStatus'[queue'[i].blob] = "pending_delete"
    <3>1. CASE i = nextId
      BY <1>1, <1>3, <1>4, <2>2, <3>1 DEF NewRow
    <3>2. CASE i # nextId
      BY <1>3, <1>7, <2>1, <2>2, <3>2 DEF NothingForgottenInv, DeleteIsAsked
    <3> QED BY <3>1, <3>2
  <2> QED BY <1>1, <1>7, <2>1, <2>2 DEF NothingForgottenInv, DeleteIsAsked
<1>9. NothingForgotten'
  <2>1. ASSUME NEW c \in Blob, NEW q \in Operation, RowFor(c, q) PROVE RowFor(c, q)'
    <3>1. PICK i \in DOMAIN queue : queue[i].blob = c /\ queue[i].op = q
      BY <2>1 DEF RowFor
    <3>2. CASE i \in Superseded(b, o)
      BY <1>3, <3>1, <3>2 DEF Superseded, RowFor, NewRow
    <3>3. CASE i \notin Superseded(b, o)
      BY <1>3, <3>1, <3>3 DEF RowFor
    <3> QED BY <3>2, <3>3
  <2>2. RowFor(b, o)'
    BY <1>3 DEF RowFor, NewRow
  <2>3. ASSUME NEW c \in Blob
        PROVE  /\ syncStatus'[c] = "local_only" =>
                    server'[c] = "live" \/ RowFor(c, "upload")'
               /\ syncStatus'[c] = "pending_delete" =>
                    server'[c] = "deleted" \/ RowFor(c, "delete")'
    <3>1. CASE c = b
      BY <1>1, <1>4, <2>2, <3>1
    <3>2. CASE c # b
      BY <1>1, <1>4, <2>1, <3>2 DEF NothingForgottenInv, NothingForgotten, Operation
    <3> QED BY <3>1, <3>2
  <2> QED BY <2>3 DEF NothingForgotten
<1>10. GivenUpAfterMaxRetries'
  BY <1>3 DEF NothingForgottenInv, GivenUpAfterMaxRetries, NewRow
<1> QED BY <1>2, <1>5, <1>6, <1>8, <1>9, <1>10 DEF NothingForgottenInv

(* Steps that leave the set of rows as it is and claim nothing new: what   *)
(* is left to show is what they do to answers.                             *)
LEMMA ForgetKeeps ==
  ASSUME NothingForgottenInv, Keeps(queue, queue'), DOMAIN queue' = DOMAIN queue,
         TypeOK', UNCHANGED <<syncStatus, server>>,
         \A p \in Process : /\ DOMAIN claimed'[p] \subseteq DOMAIN claimed[p]
                           /\ \A i \in DOMAIN claimed'[p] : claimed'[p][i] = claimed[p][i]
  PROVE  ItemIsRow' /\ DeleteIsAsked' /\ NothingForgotten'
<1> USE DEF NothingForgottenInv
<1>1. ItemIsRow'
  <2> SUFFICES ASSUME NEW p \in Process, NEW i \in DOMAIN claimed'[p], i \in DOMAIN queue'
               PROVE  /\ claimed'[p][i].blob = queue'[i].blob
                      /\ claimed'[p][i].op = queue'[i].op
                      /\ claimed'[p][i].retry <= queue'[i].retry
    BY DEF ItemIsRow
  <2>1. /\ claimed'[p][i] = claimed[p][i] /\ i \in DOMAIN claimed[p]
        /\ claimed[p][i].retry <= queue[i].retry
    BY DEF ItemIsRow
  <2>2. /\ claimed[p][i].retry \in Nat /\ queue[i].retry \in Nat
        /\ claimed[p][i].blob = queue[i].blob /\ claimed[p][i].op = queue[i].op
    <3>1. claimed[p][i] \in Item /\ queue[i] \in Row
      BY <2>1 DEF TypeOK
    <3> QED BY <2>1, <3>1, SyncQueueAssumption DEF ItemIsRow, Row, Item
  <2>3. queue[i].retry <= queue'[i].retry
    BY DEF Keeps
  <2>4. queue'[i].retry \in Nat
    BY SyncQueueAssumption DEF TypeOK, Row
  <2> QED BY <2>1, <2>2, <2>3, <2>4 DEF Keeps
<1>2. DeleteIsAsked'
  BY DEF DeleteIsAsked, Keeps
<1>3. NothingForgotten'
  BY DEF NothingForgotten, RowFor, Keeps
<1> QED BY <1>1, <1>2, <1>3

LEMMA ForgetProcessQueue ==
  ASSUME NothingForgottenInv, NEW p \in Process, ProcessQueue(p)
  PROVE  NothingForgottenInv'
<1>1. TypeOK /\ TypeOK'
  BY TypeNext DEF NothingForgottenInv, Next
<1>2. PICK S \in SUBSET Due(ReleaseStale) :
        /\ queue' = MarkProcessing(ReleaseStale, S)
        /\ claimed' = [claimed EXCEPT ![p] = ItemsOf(ReleaseStale, S)]
        /\ reply' = [reply EXCEPT ![p] = IF S = {} THEN "none" ELSE "waiting"]
  BY DEF ProcessQueue, Batches
<1>3. /\ DOMAIN queue' = DOMAIN queue /\ Keeps(queue, queue')
      /\ \A i \in DOMAIN queue :
           /\ queue'[i].retry = queue[i].retry
           /\ queue'[i].status = "failed" => queue[i].status = "failed"
  BY <1>1, <1>2, ClaimKeeps
<1>4. DOMAIN ReleaseStale = DOMAIN queue /\ S \subseteq DOMAIN queue
  BY <1>1, <1>2, ReleaseStaleRows DEF Due
<1>5. ASSUME NEW i \in S
      PROVE  /\ claimed'[p][i].blob = queue'[i].blob
             /\ claimed'[p][i].op = queue'[i].op
             /\ claimed'[p][i].retry = queue'[i].retry
  <2>1. queue'[i] = Rec(ReleaseStale[i], "processing", ReleaseStale[i].retry, 0,
                        ReleaseStale[i].wait)
    BY <1>1, <1>2, <1>4, <1>5, ReleaseStaleType, MarkProcessingRows
  <2>2. claimed'[p] = ItemsOf(ReleaseStale, S)
    BY <1>1, <1>2 DEF TypeOK
  <2> QED BY <1>5, <2>1, <2>2, RecFields DEF ItemsOf
<1>6. DOMAIN claimed'[p] = S /\ \A q \in Process : q # p => claimed'[q] = claimed[q]
  BY <1>1, <1>2 DEF TypeOK, ItemsOf
<1>7. \A i \in DOMAIN queue' : queue'[i].retry \in Nat
  BY <1>1, SyncQueueAssumption DEF TypeOK, Row
<1>8. ItemIsRow'
  <2> SUFFICES ASSUME NEW q \in Process, NEW i \in DOMAIN claimed'[q], i \in DOMAIN queue'
               PROVE  /\ claimed'[q][i].blob = queue'[i].blob
                      /\ claimed'[q][i].op = queue'[i].op
                      /\ claimed'[q][i].retry <= queue'[i].retry
    BY DEF ItemIsRow
  <2>1. CASE q = p
    BY <1>5, <1>6, <1>7, <2>1
  <2>2. CASE q # p
    BY <1>3, <1>6, <2>2 DEF NothingForgottenInv, ItemIsRow, Keeps
  <2> QED BY <2>1, <2>2
<1>9. AnswerIsTrue'
  <2> SUFFICES ASSUME NEW q \in Process, reply'[q] \in {"done", "exists"},
                      NEW i \in DOMAIN claimed'[q],
                      \A j \in DOMAIN claimed'[q] : i <= j
               PROVE  /\ claimed'[q][i].op = "upload" =>
                           server'[claimed'[q][i].blob] # "absent"
                      /\ claimed'[q][i].op = "delete" =>
                           server'[claimed'[q][i].blob] = "deleted"
    BY DEF AnswerIsTrue, IsCurrent, Acked
  <2>1. q # p /\ reply'[q] = reply[q]
    BY <1>1, <1>2 DEF TypeOK
  <2>2. claimed'[q] = claimed[q] /\ server' = server
    BY <1>6, <2>1 DEF ProcessQueue
  <2> QED BY <2>1, <2>2 DEF NothingForgottenInv, AnswerIsTrue, IsCurrent, Acked
<1>10. DeleteIsAsked'
  <2>1. UNCHANGED <<syncStatus, server>>
    BY DEF ProcessQueue
  <2>2. \A i \in S : claimed'[p][i].op = "delete" =>
                       syncStatus[claimed'[p][i].blob] = "pending_delete"
    BY <1>3, <1>4, <1>5 DEF NothingForgottenInv, DeleteIsAsked, Keeps
  <2> QED BY <1>3, <1>6, <2>1, <2>2 DEF NothingForgottenInv, DeleteIsAsked, Keeps
<1>11. NothingForgotten'
  BY <1>3 DEF NothingForgottenInv, NothingForgotten, RowFor, Keeps, ProcessQueue
<1>12. GivenUpAfterMaxRetries'
  BY <1>3 DEF NothingForgottenInv, GivenUpAfterMaxRetries
<1> QED BY <1>1, <1>8, <1>9, <1>10, <1>11, <1>12 DEF NothingForgottenInv

LEMMA ForgetServerHandles ==
  ASSUME NothingForgottenInv, NEW p \in Process, ServerHandles(p)
  PROVE  NothingForgottenInv'
<1>1. TypeOK /\ TypeOK'
  BY TypeNext DEF NothingForgottenInv, Next
<1>2. PICK i \in DOMAIN claimed[p] :
        LET b == claimed[p][i].blob
            o == claimed[p][i].op
        IN  /\ IsCurrent(p, i)
            /\ server' = [server EXCEPT ![b] = Handled(b, o)]
            /\ \E r \in {AnswerOf(b, o), "error"} :
                 reply' = [reply EXCEPT ![p] = r]
  BY DEF ServerHandles
<1> DEFINE b == claimed[p][i].blob
           o == claimed[p][i].op
<1>3. b \in Blob /\ o \in Operation
  BY <1>1 DEF TypeOK, Item
<1>4. /\ server' = [server EXCEPT ![b] = Handled(b, o)]
      /\ reply' = [reply EXCEPT ![p] = "error"]
         \/ reply' = [reply EXCEPT ![p] = AnswerOf(b, o)]
      /\ IsCurrent(p, i)
  BY <1>2
<1>5. UNCHANGED <<queue, nextId, syncStatus, claimed, held>>
  BY DEF ServerHandles
<1>6. o = "delete" => syncStatus[b] = "pending_delete"
  BY DEF NothingForgottenInv, DeleteIsAsked
<1>7. \A c \in Blob : /\ c # b => server'[c] = server[c]
                      /\ server[c] = "deleted" => server'[c] = "deleted"
                      /\ server[c] # "absent" => server'[c] # "absent"
                      /\ server'[c] = "deleted" =>
                           server[c] = "deleted" \/ (c = b /\ o = "delete")
                      /\ server[c] = "live" /\ server'[c] # "live" => c = b /\ o = "delete"
  BY <1>1, <1>3, <1>4 DEF TypeOK, Handled, Operation
<1>8. /\ AnswerOf(b, o) \in {"done", "exists"} /\ o = "upload" => server'[b] # "absent"
      /\ AnswerOf(b, o) \in {"done", "exists"} /\ o = "delete" => server'[b] = "deleted"
  BY <1>1, <1>3, <1>4 DEF TypeOK, Handled, AnswerOf
<1> HIDE DEF b, o
<1>9. ItemIsRow' /\ GivenUpAfterMaxRetries'
  BY <1>5 DEF NothingForgottenInv, ItemIsRow, GivenUpAfterMaxRetries
<1>10. AnswerIsTrue'
  <2> SUFFICES ASSUME NEW q \in Process, reply'[q] \in {"done", "exists"},
                      NEW j \in DOMAIN claimed'[q],
                      \A k \in DOMAIN claimed'[q] : j <= k
               PROVE  /\ claimed'[q][j].op = "upload" =>
                           server'[claimed'[q][j].blob] # "absent"
                      /\ claimed'[q][j].op = "delete" =>
                           server'[claimed'[q][j].blob] = "deleted"
    BY DEF AnswerIsTrue, IsCurrent, Acked
  <2>1. CASE q = p
    <3>1. j = i
      <4>1. i \in Nat /\ j \in Nat
        <5>1. i \in RowId /\ j \in RowId
          BY <1>1, <1>5, <2>1 DEF TypeOK
        <5> QED BY <5>1, SyncQueueAssumption DEF RowId
      <4>2. i <= j /\ j <= i
        BY <1>4, <1>5, <2>1 DEF IsCurrent
      <4> QED BY <4>1, <4>2
    <3>2. reply'[p] = AnswerOf(b, o)
      BY <1>1, <1>4, <2>1 DEF TypeOK
    <3> QED BY <1>5, <1>8, <2>1, <3>1, <3>2 DEF b, o
  <2>2. CASE q # p
    <3>1. reply'[q] = reply[q]
      BY <1>1, <1>4, <2>2 DEF TypeOK
    <3>2. Acked(claimed[q][j].blob, claimed[q][j].op)
      BY <1>5, <3>1 DEF NothingForgottenInv, AnswerIsTrue, IsCurrent
    <3>3. claimed[q][j].blob \in Blob
      BY <1>1, <1>5 DEF TypeOK, Item
    <3> QED BY <1>5, <1>7, <3>2, <3>3 DEF Acked
  <2> QED BY <2>1, <2>2
<1>11. DeleteIsAsked'
  BY <1>5, <1>6, <1>7 DEF NothingForgottenInv, DeleteIsAsked
<1>12. NothingForgotten'
  <2>1. ASSUME NEW c \in Blob, syncStatus'[c] = "local_only"
        PROVE  server'[c] = "live" \/ RowFor(c, "upload")'
    BY <1>1, <1>5, <1>6, <1>7, <2>1 DEF NothingForgottenInv, NothingForgotten, RowFor
  <2>2. ASSUME NEW c \in Blob, syncStatus'[c] = "pending_delete"
        PROVE  server'[c] = "deleted" \/ RowFor(c, "delete")'
    BY <1>1, <1>5, <1>7, <2>2 DEF NothingForgottenInv, NothingForgotten, RowFor
  <2> QED BY <2>1, <2>2 DEF NothingForgotten
<1> QED BY <1>1, <1>9, <1>10, <1>11, <1>12 DEF NothingForgottenInv

LEMMA ForgetSettle ==
  ASSUME NothingForgottenInv, NEW p \in Process, Settle(p)
  PROVE  NothingForgottenInv'
<1>1. TypeOK /\ TypeOK'
  BY TypeNext DEF NothingForgottenInv, Next
<1>2. PICK i \in DOMAIN claimed[p] :
        /\ IsCurrent(p, i)
        /\ \/ reply[p] \in {"done", "exists"} /\ Complete(i)
           \/ Fail(i)
           \/ FailItem(claimed[p][i], i)
        /\ Advance(p, i, reply[p] = "quota")
  BY DEF Settle, Answer
<1>3. /\ UNCHANGED <<syncStatus, server>>
      /\ reply'[p] \in {"none", "waiting"}
      /\ \A q \in Process : q # p => reply'[q] = reply[q] /\ claimed'[q] = claimed[q]
      /\ \A q \in Process :
           /\ DOMAIN claimed'[q] \subseteq DOMAIN claimed[q]
           /\ \A j \in DOMAIN claimed'[q] : claimed'[q][j] = claimed[q][j]
  BY <1>1, <1>2 DEF TypeOK, Settle, Advance, Restrict
<1>4. AnswerIsTrue'
  <2> SUFFICES ASSUME NEW q \in Process, reply'[q] \in {"done", "exists"},
                      NEW j \in DOMAIN claimed'[q],
                      \A k \in DOMAIN claimed'[q] : j <= k
               PROVE  /\ claimed'[q][j].op = "upload" =>
                           server'[claimed'[q][j].blob] # "absent"
                      /\ claimed'[q][j].op = "delete" =>
                           server'[claimed'[q][j].blob] = "deleted"
    BY DEF AnswerIsTrue, IsCurrent, Acked
  <2>1. q # p /\ reply'[q] = reply[q] /\ claimed'[q] = claimed[q]
    BY <1>3
  <2> QED BY <1>3, <2>1 DEF NothingForgottenInv, AnswerIsTrue, IsCurrent, Acked
<1>5. CASE Fail(i) \/ FailItem(claimed[p][i], i)
  <2>1. /\ DOMAIN queue' = DOMAIN queue /\ Keeps(queue, queue')
        /\ \A j \in DOMAIN queue :
             queue'[j].status = "failed" =>
               queue[j].status = "failed" \/ (j = i /\ GivesUp(claimed[p][i]))
    BY <1>1, <1>5, SettleKeeps
  <2>2. ItemIsRow' /\ DeleteIsAsked' /\ NothingForgotten'
    BY <1>1, <1>3, <2>1, ForgetKeeps
  <2>3. GivenUpAfterMaxRetries'
    <3> SUFFICES ASSUME NEW j \in DOMAIN queue', queue'[j].status = "failed"
                 PROVE  queue'[j].retry + 1 >= MaxRetries
      BY DEF GivenUpAfterMaxRetries
    <3>1. /\ queue[j].retry \in Nat /\ queue'[j].retry \in Nat
          /\ queue[j].retry <= queue'[j].retry
      BY <1>1, <2>1, SyncQueueAssumption DEF TypeOK, Row, Keeps
    <3>2. CASE queue[j].status = "failed"
      BY <2>1, <3>1, <3>2, SyncQueueAssumption
         DEF NothingForgottenInv, GivenUpAfterMaxRetries
    <3>3. CASE j = i /\ GivesUp(claimed[p][i])
      <4>1. claimed[p][i].retry <= queue[i].retry
        BY <2>1, <3>3 DEF NothingForgottenInv, ItemIsRow
      <4>2. claimed[p][i].retry \in Nat
        BY <1>1, SyncQueueAssumption DEF TypeOK, Item
      <4> QED BY <3>1, <3>3, <4>1, <4>2, SyncQueueAssumption DEF GivesUp
    <3> QED BY <2>1, <3>2, <3>3
  <2> QED BY <1>1, <1>4, <2>2, <2>3 DEF NothingForgottenInv
<1>6. CASE reply[p] \in {"done", "exists"} /\ Complete(i)
  <2>1. /\ DOMAIN queue' = DOMAIN queue \ {i}
        /\ \A j \in DOMAIN queue' : queue'[j] = queue[j]
    BY <1>6 DEF Complete, Restrict
  <2>2. Acked(claimed[p][i].blob, claimed[p][i].op)
    BY <1>2, <1>6 DEF NothingForgottenInv, AnswerIsTrue
  <2>3. ItemIsRow' /\ DeleteIsAsked' /\ GivenUpAfterMaxRetries'
    BY <1>3, <2>1 DEF NothingForgottenInv, ItemIsRow, DeleteIsAsked, GivenUpAfterMaxRetries
  <2>4. i \in DOMAIN queue => Acked(queue[i].blob, queue[i].op)
    BY <2>2 DEF NothingForgottenInv, ItemIsRow
  <2>5. NothingForgotten'
    <3>1. ASSUME NEW c \in Blob, NEW o \in Operation, RowFor(c, o)
          PROVE  RowFor(c, o)' \/ Acked(c, o)
      BY <2>1, <2>4, <3>1 DEF RowFor
    <3>2. ASSUME NEW c \in Blob, syncStatus[c] = "local_only"
          PROVE  server[c] = "live" \/ RowFor(c, "upload")'
      <4>1. server[c] # "deleted" /\ server[c] \in {"absent", "live", "deleted"}
        BY <1>1, <3>2 DEF NothingForgottenInv, DeleteIsAsked, TypeOK
      <4>2. server[c] = "live" \/ RowFor(c, "upload")
        BY <3>2 DEF NothingForgottenInv, NothingForgotten
      <4> QED BY <3>1, <4>1, <4>2 DEF Acked, Operation
    <3>3. ASSUME NEW c \in Blob, syncStatus[c] = "pending_delete"
          PROVE  server[c] = "deleted" \/ RowFor(c, "delete")'
      <4>1. server[c] = "deleted" \/ RowFor(c, "delete")
        BY <3>3 DEF NothingForgottenInv, NothingForgotten
      <4> QED BY <3>1, <4>1 DEF Acked, Operation
    <3> QED BY <1>3, <3>2, <3>3 DEF NothingForgotten
  <2> QED BY <1>1, <1>4, <2>3, <2>5 DEF NothingForgottenInv
<1> QED BY <1>2, <1>5, <1>6

LEMMA ForgetNext == NothingForgottenInv /\ [Next]_vars => NothingForgottenInv'
<1> SUFFICES ASSUME NothingForgottenInv, [Next]_vars PROVE NothingForgottenInv'
  OBVIOUS
<1>1. TypeOK /\ TypeOK'
  BY TypeNext DEF NothingForgottenInv
<1>2. ASSUME NEW b \in Blob, StoreAndEnqueueUpload(b) PROVE NothingForgottenInv'
  BY <1>1, <1>2, ForgetEnqueue DEF StoreAndEnqueueUpload, Operation
<1>3. ASSUME NEW b \in Blob, EnqueueDelete(b) PROVE NothingForgottenInv'
  BY <1>1, <1>3, ForgetEnqueue DEF EnqueueDelete, Operation
<1>4. ASSUME NEW p \in Process, RequestFails(p) \/ ServerRefuses(p)
      PROVE  NothingForgottenInv'
  <2>1. /\ UNCHANGED <<queue, syncStatus, claimed, server>>
        /\ reply' \in {[reply EXCEPT ![p] = "error"], [reply EXCEPT ![p] = "quota"]}
    BY <1>4 DEF RequestFails, ServerRefuses
  <2>2. \A q \in Process : reply'[q] \in {"done", "exists"} => reply[q] = reply'[q]
    BY <1>1, <2>1 DEF TypeOK
  <2> QED BY <1>1, <2>1, <2>2
          DEF NothingForgottenInv, ItemIsRow, AnswerIsTrue, IsCurrent, Acked,
              DeleteIsAsked, NothingForgotten, RowFor, GivenUpAfterMaxRetries
<1>5. ASSUME NEW p \in Process, Crash(p) PROVE NothingForgottenInv'
  <2>1. /\ UNCHANGED <<queue, syncStatus, server>>
        /\ DOMAIN claimed'[p] = {}
        /\ \A q \in Process : q # p => claimed'[q] = claimed[q] /\ reply'[q] = reply[q]
    BY <1>1, <1>5 DEF TypeOK, Crash, NoItems
  <2> QED BY <1>1, <2>1
          DEF NothingForgottenInv, ItemIsRow, AnswerIsTrue, IsCurrent, Acked,
              DeleteIsAsked, NothingForgotten, RowFor, GivenUpAfterMaxRetries
<1>6. CASE Tick
  <2>1. /\ DOMAIN queue' = DOMAIN queue /\ Keeps(queue, queue')
        /\ \A i \in DOMAIN queue : /\ queue'[i].retry = queue[i].retry
                                  /\ queue'[i].status = queue[i].status
    BY <1>1, <1>6, TickKeeps
  <2>2. UNCHANGED <<syncStatus, claimed, reply, server>>
    BY <1>6 DEF Tick
  <2>3. ItemIsRow' /\ DeleteIsAsked' /\ NothingForgotten'
    BY <1>1, <2>1, <2>2, ForgetKeeps
  <2>4. AnswerIsTrue' /\ GivenUpAfterMaxRetries'
    BY <2>1, <2>2 DEF NothingForgottenInv, AnswerIsTrue, IsCurrent, Acked,
                      GivenUpAfterMaxRetries
  <2> QED BY <1>1, <2>3, <2>4 DEF NothingForgottenInv
<1>7. CASE UNCHANGED vars
  BY <1>1, <1>7 DEF vars, NothingForgottenInv, ItemIsRow, AnswerIsTrue, IsCurrent,
                    Acked, DeleteIsAsked, NothingForgotten, RowFor,
                    GivenUpAfterMaxRetries
<1> QED
  BY <1>2, <1>3, <1>4, <1>5, <1>6, <1>7, ForgetProcessQueue, ForgetServerHandles,
     ForgetSettle DEF Next

(* Until the server has stored or deleted a blob as asked, a row of the    *)
(* queue stands for the request: whatever crashes, whichever process       *)
(* settles a row after losing its claim to it, however long a batch takes. *)
THEOREM NothingIsForgotten == Spec => []NothingForgotten
<1>1. NothingForgottenInv => NothingForgotten
  BY DEF NothingForgottenInv
<1> QED BY <1>1, ForgetInit, ForgetNext, PTL DEF Spec

(* A row is 'failed' only after MaxRetries attempts, late ones included.   *)
THEOREM GivenUpOnlyAfterMaxRetries == Spec => []GivenUpAfterMaxRetries
<1>1. NothingForgottenInv => GivenUpAfterMaxRetries
  BY DEF NothingForgottenInv
<1> QED BY <1>1, ForgetInit, ForgetNext, PTL DEF Spec

(***************************************************************************)
(* Claims are exclusive when a batch ends within the stale threshold.  The *)
(* invariant reads the claim as a lease: the age of a claimed row is the   *)
(* time its holder has held it.                                            *)
(***************************************************************************)

Timely == BatchBudget <= StaleAfter

LeaseOf(p, i) ==
  /\ i \in DOMAIN queue
  /\ queue[i].status = "processing" /\ queue[i].age = held[p]
  /\ claimed[p][i].blob = queue[i].blob /\ claimed[p][i].op = queue[i].op
  /\ claimed[p][i].retry = queue[i].retry

Lease ==
  \A p \in Process : /\ reply[p] = "none" <=> DOMAIN claimed[p] = {}
                    /\ \A i \in DOMAIN claimed[p] : LeaseOf(p, i)

LeaseInv == TypeOK /\ Lease /\ ClaimExclusive

LEMMA LeaseInit == Init => LeaseInv
BY TypeInit DEF Init, LeaseInv, NoItems, Lease, ClaimExclusive

LEMMA LeaseEnqueue ==
  ASSUME LeaseInv, TypeOK', NEW b \in Blob, NEW o \in Operation,
         Enqueue(b, o), UNCHANGED <<claimed, reply, held>>
  PROVE  LeaseInv'
<1>1. \A p \in Process : \A i \in DOMAIN claimed[p] :
        i \in DOMAIN queue' /\ queue'[i] = queue[i]
  BY DEF LeaseInv, TypeOK, Lease, LeaseOf, Enqueue, Superseded
<1> QED BY <1>1 DEF LeaseInv, Lease, LeaseOf, ClaimExclusive

LEMMA LeaseProcessQueue ==
  ASSUME Timely, LeaseInv, NEW p \in Process, ProcessQueue(p)
  PROVE  /\ LeaseInv'
         /\ \A i \in DOMAIN queue : queue[i].status = "failed" =>
              i \in DOMAIN queue' /\ queue'[i].status = "failed"
<1>1. TypeOK /\ TypeOK'
  BY TypeNext DEF LeaseInv, Next
<1>2. PICK S \in SUBSET Due(ReleaseStale) :
        /\ queue' = MarkProcessing(ReleaseStale, S)
        /\ claimed' = [claimed EXCEPT ![p] = ItemsOf(ReleaseStale, S)]
        /\ reply' = [reply EXCEPT ![p] = IF S = {} THEN "none" ELSE "waiting"]
  BY DEF ProcessQueue, Batches
<1>3. /\ DOMAIN queue' = DOMAIN queue /\ DOMAIN ReleaseStale = DOMAIN queue
      /\ S \subseteq DOMAIN queue
      /\ \A i \in S : ReleaseStale[i].status = "pending"
      /\ \A i \in DOMAIN queue :
           queue'[i] = IF i \in S
                       THEN Rec(ReleaseStale[i], "processing", ReleaseStale[i].retry,
                                0, ReleaseStale[i].wait)
                       ELSE ReleaseStale[i]
  BY <1>1, <1>2, ReleaseStaleRows, ReleaseStaleType, MarkProcessingRows DEF Due
<1>4. /\ DOMAIN claimed'[p] = S /\ held'[p] = 0
      /\ reply'[p] = "none" <=> S = {}
      /\ claimed'[p] = ItemsOf(ReleaseStale, S)
      /\ \A q \in Process : q # p => /\ claimed'[q] = claimed[q]
                                   /\ reply'[q] = reply[q] /\ held'[q] = held[q]
  BY <1>1, <1>2 DEF TypeOK, ItemsOf, ProcessQueue
<1>5. ASSUME NEW q \in Process, NEW i \in DOMAIN claimed[q]
      PROVE  ReleaseStale[i] = queue[i] /\ queue[i].status = "processing" /\ i \notin S
  <2>1. /\ i \in DOMAIN queue /\ queue[i].age = held[q]
        /\ queue[i].status = "processing"
    BY DEF LeaseInv, Lease, LeaseOf
  <2>2. held[q] \in 0..BatchBudget
    BY <1>1 DEF TypeOK
  <2>3. ~Stale(i)
    BY <2>1, <2>2, SyncQueueAssumption DEF Timely, Stale
  <2> QED BY <1>1, <1>3, <2>1, <2>3, ReleaseStaleRows
<1>6. ASSUME NEW i \in S PROVE LeaseOf(p, i)'
  <2>1. claimed'[p][i] = [blob |-> ReleaseStale[i].blob, op |-> ReleaseStale[i].op,
                          retry |-> ReleaseStale[i].retry]
    BY <1>4, <1>6 DEF ItemsOf
  <2> QED BY <1>3, <1>4, <2>1, RecFields DEF LeaseOf
<1>7. Lease'
  <2>1. ASSUME NEW q \in Process, q # p
        PROVE  /\ reply'[q] = "none" <=> DOMAIN claimed'[q] = {}
               /\ \A i \in DOMAIN claimed'[q] : LeaseOf(q, i)'
    <3>1. \A i \in DOMAIN claimed[q] : queue'[i] = queue[i] /\ i \in DOMAIN queue
      BY <1>3, <1>5 DEF LeaseInv, Lease, LeaseOf
    <3> QED BY <1>3, <1>4, <2>1, <3>1 DEF LeaseInv, Lease, LeaseOf
  <2> QED BY <1>4, <1>6, <2>1 DEF Lease
<1>8. ClaimExclusive'
  BY <1>4, <1>5 DEF LeaseInv, ClaimExclusive
<1>9. ASSUME NEW i \in DOMAIN queue, queue[i].status = "failed"
      PROVE  i \in DOMAIN queue' /\ queue'[i].status = "failed"
  <2>1. ReleaseStale[i] = queue[i]
    BY <1>1, <1>9, ReleaseStaleRows DEF Stale
  <2>2. i \notin S
    BY <1>3, <1>9, <2>1
  <2> QED BY <1>3, <1>9, <2>1, <2>2
<1> QED BY <1>1, <1>7, <1>8, <1>9 DEF LeaseInv

LEMMA LeaseSettle ==
  ASSUME LeaseInv, NEW p \in Process, Settle(p)
  PROVE  /\ LeaseInv'
         /\ \A j \in DOMAIN queue : queue[j].status = "failed" =>
              j \in DOMAIN queue' /\ queue'[j].status = "failed"
<1>1. TypeOK /\ TypeOK'
  BY TypeNext DEF LeaseInv, Next
<1>2. PICK i \in DOMAIN claimed[p] :
        /\ IsCurrent(p, i)
        /\ \/ Complete(i) \/ Fail(i) \/ FailItem(claimed[p][i], i)
        /\ Advance(p, i, reply[p] = "quota")
  BY DEF Settle, Answer
<1>3. /\ \A j \in DOMAIN queue : j # i => j \in DOMAIN queue' /\ queue'[j] = queue[j]
      /\ queue[i].status = "processing"
  <2>1. \/ Complete(i) \/ Fail(i) \/ PermanentFail(i)
    BY <1>2 DEF FailItem
  <2>2. queue[i].status = "processing"
    BY DEF LeaseInv, Lease, LeaseOf
  <2> QED BY <1>1, <2>1, <2>2, FailRows, PermanentFailRows DEF Complete, Restrict
<1>4. /\ DOMAIN claimed'[p] \subseteq DOMAIN claimed[p] \ {i}
      /\ reply'[p] = "none" <=> DOMAIN claimed'[p] = {}
      /\ DOMAIN claimed'[p] # {} => held'[p] = held[p]
      /\ \A j \in DOMAIN claimed'[p] : claimed'[p][j] = claimed[p][j]
      /\ \A q \in Process : q # p => /\ claimed'[q] = claimed[q]
                                   /\ reply'[q] = reply[q] /\ held'[q] = held[q]
  BY <1>1, <1>2 DEF TypeOK, Advance, Restrict
<1>5. \A q \in Process : q # p => i \notin DOMAIN claimed[q]
  BY DEF LeaseInv, ClaimExclusive
<1>6. Lease'
  <2>1. ASSUME NEW q \in Process, NEW j \in DOMAIN claimed'[q]
        PROVE  LeaseOf(q, j)'
    <3>1. j # i /\ j \in DOMAIN claimed[q] /\ held'[q] = held[q]
          /\ claimed'[q][j] = claimed[q][j]
      BY <1>4, <1>5
    <3> QED BY <1>3, <3>1 DEF LeaseInv, Lease, LeaseOf
  <2>2. \A q \in Process : reply'[q] = "none" <=> DOMAIN claimed'[q] = {}
    BY <1>4 DEF LeaseInv, Lease
  <2> QED BY <2>1, <2>2 DEF Lease
<1>7. ClaimExclusive'
  BY <1>4 DEF LeaseInv, ClaimExclusive
<1>8. \A j \in DOMAIN queue : queue[j].status = "failed" =>
        j \in DOMAIN queue' /\ queue'[j].status = "failed"
  BY <1>3
<1> QED BY <1>1, <1>6, <1>7, <1>8 DEF LeaseInv

LEMMA LeaseTick ==
  ASSUME Timely, LeaseInv, Tick
  PROVE  LeaseInv'
<1>1. TypeOK /\ TypeOK'
  BY TypeNext DEF LeaseInv, Next
<1>2. /\ UNCHANGED <<claimed, reply>> /\ DOMAIN queue' = DOMAIN queue
      /\ \A i \in DOMAIN queue :
           queue'[i] = Rec(queue[i], queue[i].status, queue[i].retry,
                           OlderAge(queue[i]), ShorterWait(queue[i]))
  BY <1>1, TickRows DEF Tick
<1>3. ASSUME NEW p \in Process, NEW i \in DOMAIN claimed[p]
      PROVE  LeaseOf(p, i)'
  <2>1. LeaseOf(p, i) /\ reply[p] # "none"
    BY DEF LeaseInv, Lease
  <2>2. held'[p] = held[p] + 1 /\ held[p] \in 0..BatchBudget /\ held[p] < BatchBudget
    BY <1>1, <2>1 DEF TypeOK, Tick
  <2>3. OlderAge(queue[i]) = held[p] + 1
    BY <2>1, <2>2, SyncQueueAssumption DEF Timely, LeaseOf, OlderAge, Aged
  <2> QED BY <1>2, <2>1, <2>2, <2>3, RecFields DEF LeaseOf
<1>4. Lease'
  BY <1>2, <1>3 DEF LeaseInv, Lease
<1> QED BY <1>1, <1>2, <1>4 DEF LeaseInv, ClaimExclusive

LEMMA LeaseNext == ASSUME Timely PROVE LeaseInv /\ [Next]_vars => LeaseInv'
<1> SUFFICES ASSUME LeaseInv, [Next]_vars PROVE LeaseInv'
  OBVIOUS
<1>1. TypeOK /\ TypeOK'
  BY TypeNext DEF LeaseInv
<1>2. ASSUME NEW b \in Blob, StoreAndEnqueueUpload(b) \/ EnqueueDelete(b)
      PROVE  LeaseInv'
  BY <1>1, <1>2, LeaseEnqueue DEF StoreAndEnqueueUpload, EnqueueDelete, Operation
<1>3. ASSUME NEW p \in Process,
             ServerHandles(p) \/ RequestFails(p) \/ ServerRefuses(p)
      PROVE  LeaseInv'
  <2>1. /\ UNCHANGED <<queue, claimed, held>> /\ reply[p] # "none"
        /\ \E r \in Answer : reply' = [reply EXCEPT ![p] = r]
    BY <1>1, <1>3 DEF ServerHandles, RequestFails, ServerRefuses, AnswerOf, Answer
  <2>2. \A q \in Process : reply'[q] = "none" <=> reply[q] = "none"
    BY <1>1, <2>1 DEF TypeOK, Answer
  <2> QED BY <1>1, <2>1, <2>2 DEF LeaseInv, Lease, LeaseOf, ClaimExclusive
<1>4. ASSUME NEW p \in Process, Crash(p) PROVE LeaseInv'
  <2>1. /\ UNCHANGED queue /\ DOMAIN claimed'[p] = {} /\ reply'[p] = "none"
        /\ \A q \in Process : q # p => /\ claimed'[q] = claimed[q]
                                     /\ reply'[q] = reply[q] /\ held'[q] = held[q]
    BY <1>1, <1>4 DEF TypeOK, Crash, NoItems
  <2> QED BY <1>1, <2>1 DEF LeaseInv, Lease, LeaseOf, ClaimExclusive
<1>5. CASE UNCHANGED vars
  BY <1>1, <1>5 DEF vars, LeaseInv, Lease, LeaseOf, ClaimExclusive
<1> QED
  BY <1>2, <1>3, <1>4, <1>5, LeaseProcessQueue, LeaseSettle, LeaseTick DEF Next

(* If every batch ends within the stale threshold, no two processes ever   *)
(* work on one row.                                                        *)
THEOREM ClaimsAreExclusive == ASSUME Timely PROVE Spec => []ClaimExclusive
<1>1. LeaseInv => ClaimExclusive
  BY DEF LeaseInv
<1> QED BY <1>1, LeaseInit, LeaseNext, PTL DEF Spec

(* Under the same condition the row a process settles is the row it        *)
(* claimed, unchanged since.                                               *)
THEOREM ClaimsAreCurrent == ASSUME Timely PROVE Spec => []ClaimCurrent
<1>1. LeaseInv => ClaimCurrent
  <2> SUFFICES ASSUME LeaseInv, NEW p \in Process, NEW i \in DOMAIN claimed[p]
               PROVE  /\ i \in DOMAIN queue /\ queue[i].status = "processing"
                      /\ claimed[p][i] = [blob |-> queue[i].blob, op |-> queue[i].op,
                                          retry |-> queue[i].retry]
    BY DEF ClaimCurrent
  <2>1. claimed[p][i] \in Item
    BY DEF LeaseInv, TypeOK
  <2>2. claimed[p][i] = [blob |-> claimed[p][i].blob, op |-> claimed[p][i].op,
                         retry |-> claimed[p][i].retry]
    BY <2>1 DEF Item
  <2> QED BY <2>2 DEF LeaseInv, Lease, LeaseOf
<1> QED BY <1>1, LeaseInit, LeaseNext, PTL DEF Spec

StaysFailed ==
  \A i \in DOMAIN queue : queue[i].status = "failed" =>
    i \in DOMAIN queue' /\ queue'[i].status = "failed"

LEMMA FailedStep == ASSUME Timely, LeaseInv, [Next]_vars PROVE StaysFailed
<1>1. TypeOK
  BY DEF LeaseInv
<1>2. ASSUME NEW b \in Blob, NEW o, Enqueue(b, o) PROVE StaysFailed
  BY <1>1, <1>2 DEF TypeOK, Enqueue, Superseded, StaysFailed
<1>3. ASSUME UNCHANGED queue PROVE StaysFailed
  BY <1>3 DEF StaysFailed
<1>4. CASE Tick
  BY <1>1, <1>4, TickKeeps DEF StaysFailed
<1>5. ASSUME NEW p \in Process,
             \/ ServerHandles(p) \/ RequestFails(p) \/ ServerRefuses(p) \/ Crash(p)
      PROVE  StaysFailed
  BY <1>3, <1>5 DEF ServerHandles, RequestFails, ServerRefuses, Crash
<1>6. ASSUME NEW p \in Process, ProcessQueue(p) \/ Settle(p) PROVE StaysFailed
  BY <1>6, LeaseProcessQueue, LeaseSettle DEF StaysFailed
<1> QED
  BY <1>2, <1>3, <1>4, <1>5, <1>6
     DEF Next, vars, StoreAndEnqueueUpload, EnqueueDelete

(* Under the same condition a row that was given up stays given up.        *)
THEOREM FailedIsFinal == ASSUME Timely PROVE Spec => GivenUpIsFinal
<1>1. LeaseInv /\ [Next]_vars => [StaysFailed]_vars
  BY FailedStep
<1>2. Init /\ [][Next]_vars => [][StaysFailed]_vars
  BY <1>1, LeaseInit, LeaseNext, PTL
<1> QED BY <1>2 DEF Spec, GivenUpIsFinal, StaysFailed

(***************************************************************************)
(* The table sync_queue implements Outbox, when a batch ends within the    *)
(* stale threshold.  The steps are mapped under the two invariants above:  *)
(* by the lease the row a process settles is the row it claimed, and no    *)
(* answer it settles on is untrue.                                         *)
(***************************************************************************)

Todo == Operations({"pending", "processing"})
Dead == Operations({"failed"})

OutboxInv == LeaseInv /\ NothingForgottenInv

(* The operations of the table, spelled out row by row.                    *)
LEMMA OperationRows ==
  /\ \A x : x \in Todo <=>
       \E i \in DOMAIN queue : /\ queue[i].status \in {"pending", "processing"}
                               /\ x = <<queue[i].blob, queue[i].op>>
  /\ \A x : x \in Dead <=>
       \E i \in DOMAIN queue : /\ queue[i].status = "failed"
                               /\ x = <<queue[i].blob, queue[i].op>>
BY DEF Todo, Dead, Operations

LEMMA OperationRowsNext ==
  /\ \A x : x \in Todo' <=>
       \E i \in DOMAIN queue' : /\ queue'[i].status \in {"pending", "processing"}
                                /\ x = <<queue'[i].blob, queue'[i].op>>
  /\ \A x : x \in Dead' <=>
       \E i \in DOMAIN queue' : /\ queue'[i].status = "failed"
                                /\ x = <<queue'[i].blob, queue'[i].op>>
BY DEF Todo, Dead, Operations

LEMMA StatusOf ==
  ASSUME TypeOK, NEW i \in DOMAIN queue
  PROVE  queue[i].status \in {"pending", "processing", "failed"}
BY DEF TypeOK, Row

LEMMA StatusOfNext ==
  ASSUME TypeOK', NEW i \in DOMAIN queue'
  PROVE  queue'[i].status \in {"pending", "processing", "failed"}
BY DEF TypeOK, Row

(* A step that keeps the operation of every row and gives none up is none  *)
(* of the outbox's.                                                        *)
LEMMA RowsKept ==
  ASSUME TypeOK, TypeOK', DOMAIN queue' = DOMAIN queue,
         \A i \in DOMAIN queue :
           /\ queue'[i].blob = queue[i].blob /\ queue'[i].op = queue[i].op
           /\ queue'[i].status = "failed" <=> queue[i].status = "failed"
  PROVE  Todo' = Todo /\ Dead' = Dead
<1>1. \A i \in DOMAIN queue : queue'[i].status \in {"pending", "processing"}
                                <=> queue[i].status \in {"pending", "processing"}
  BY StatusOf, StatusOfNext
<1>2. \A x : x \in Todo' <=> x \in Todo
  BY <1>1, OperationRows, OperationRowsNext
<1>3. \A x : x \in Dead' <=> x \in Dead
  BY OperationRows, OperationRowsNext
<1> QED BY <1>2, <1>3

(* enqueue adds its operation, whether or not it replaced a pending row.   *)
LEMMA EnqueueAsks ==
  ASSUME TypeOK, TypeOK', NEW b \in Blob, NEW o \in Operation, Enqueue(b, o)
  PROVE  Todo' = Todo \cup {<<b, o>>} /\ Dead' = Dead
<1>1. /\ nextId \notin DOMAIN queue
      /\ DOMAIN queue' = (DOMAIN queue \ Superseded(b, o)) \cup {nextId}
      /\ queue'[nextId] = NewRow(b, o)
      /\ \A i \in DOMAIN queue' : i # nextId => queue'[i] = queue[i]
  BY DEF TypeOK, Enqueue
<1>2. /\ NewRow(b, o).blob = b /\ NewRow(b, o).op = o
      /\ NewRow(b, o).status = "pending"
  BY DEF NewRow
<1>3. \A i \in Superseded(b, o) : /\ <<queue[i].blob, queue[i].op>> = <<b, o>>
                                  /\ queue[i].status = "pending"
  BY DEF Superseded
<1>4. \A x : x \in Todo' <=> x \in Todo \cup {<<b, o>>}
  BY <1>1, <1>2, <1>3, OperationRows, OperationRowsNext
<1>5. \A x : x \in Dead' <=> x \in Dead
  BY <1>1, <1>2, <1>3, OperationRows, OperationRowsNext
<1> QED BY <1>4, <1>5

(* The row a process works on stands for an operation still to do.         *)
LEMMA ClaimedIsTodo ==
  ASSUME OutboxInv, NEW p \in Process, NEW i \in DOMAIN claimed[p]
  PROVE  /\ i \in DOMAIN queue /\ queue[i].status = "processing"
         /\ claimed[p][i].blob = queue[i].blob /\ claimed[p][i].op = queue[i].op
         /\ queue[i].blob \in Blob /\ queue[i].op \in {"upload", "delete"}
         /\ <<queue[i].blob, queue[i].op>> \in Todo
<1>1. LeaseOf(p, i) /\ TypeOK
  BY DEF OutboxInv, LeaseInv, Lease
<1>2. /\ i \in DOMAIN queue /\ queue[i].status = "processing"
      /\ claimed[p][i].blob = queue[i].blob /\ claimed[p][i].op = queue[i].op
  BY <1>1 DEF LeaseOf
<1>3. queue[i] \in Row
  BY <1>1, <1>2 DEF TypeOK
<1> QED BY <1>2, <1>3, OperationRows DEF Row, Operation

(***************************************************************************)
(* The mapping, one lemma per operation that is not a stutter for all.     *)
(***************************************************************************)

LEMMA MapsProcessQueue ==
  ASSUME Timely, OutboxInv, OutboxInv', NEW p \in Process, ProcessQueue(p)
  PROVE  UNCHANGED Promise!vars
<1>1. TypeOK /\ TypeOK'
  BY DEF OutboxInv, LeaseInv
<1>2. PICK S \in SUBSET Due(ReleaseStale) :
        queue' = MarkProcessing(ReleaseStale, S)
  BY DEF ProcessQueue, Batches
<1>3. /\ DOMAIN queue' = DOMAIN queue /\ Keeps(queue, queue')
      /\ \A i \in DOMAIN queue :
           queue'[i].status = "failed" => queue[i].status = "failed"
  BY <1>1, <1>2, ClaimKeeps
<1>4. \A i \in DOMAIN queue :
        queue[i].status = "failed" => queue'[i].status = "failed"
  BY LeaseProcessQueue DEF OutboxInv
<1>5. Todo' = Todo /\ Dead' = Dead
  BY <1>1, <1>3, <1>4, RowsKept DEF Keeps
<1> QED BY <1>5 DEF Promise!vars, ProcessQueue, Todo, Dead

LEMMA MapsTick ==
  ASSUME TypeOK, TypeOK', Tick
  PROVE  UNCHANGED Promise!vars
<1>1. Todo' = Todo /\ Dead' = Dead
  BY TickKeeps, RowsKept DEF Keeps
<1> QED BY <1>1 DEF Promise!vars, Tick, Todo, Dead

LEMMA MapsServerHandles ==
  ASSUME OutboxInv, NEW p \in Process, ServerHandles(p)
  PROVE  [Promise!Next]_(Promise!vars)
<1>1. PICK i \in DOMAIN claimed[p] :
        server' = [server EXCEPT ![claimed[p][i].blob] =
                     Handled(claimed[p][i].blob, claimed[p][i].op)]
  BY DEF ServerHandles
<1> DEFINE b == queue[i].blob
           o == queue[i].op
<1>2. /\ claimed[p][i].blob = b /\ claimed[p][i].op = o
      /\ b \in Blob /\ o \in {"upload", "delete"} /\ <<b, o>> \in Todo
  BY ClaimedIsTodo
<1>3. /\ server \in [Blob -> {"absent", "live", "deleted"}]
      /\ UNCHANGED <<queue, syncStatus>> /\ Todo' = Todo /\ Dead' = Dead
  BY DEF OutboxInv, LeaseInv, TypeOK, ServerHandles, Todo, Dead, Operations
<1>4. server' = [server EXCEPT ![b] = Handled(b, o)]
  BY <1>1, <1>2
<1> HIDE DEF b, o
<1>5. CASE o = "upload" /\ server[b] = "absent"
  <2>1. Promise!Upload(b)
    BY <1>2, <1>3, <1>4, <1>5 DEF Promise!Upload, Handled, Todo, Dead
  <2> QED BY <1>2, <2>1 DEF Promise!Next
<1>6. CASE o = "delete" /\ server[b] = "live"
  <2>1. Promise!Delete(b)
    BY <1>2, <1>3, <1>4, <1>6 DEF Promise!Delete, Handled, Todo, Dead
  <2> QED BY <1>2, <2>1 DEF Promise!Next
<1>7. CASE \/ o = "upload" /\ server[b] # "absent"
           \/ o = "delete" /\ server[b] # "live"
  <2>1. server' = server
    BY <1>2, <1>3, <1>4, <1>7 DEF Handled
  <2> QED BY <1>3, <2>1 DEF Promise!vars, Todo, Dead
<1> QED BY <1>2, <1>5, <1>6, <1>7

(* complete deletes the row of an operation the server has done.           *)
LEMMA MapsComplete ==
  ASSUME OutboxInv, NEW p \in Process, NEW i \in DOMAIN claimed[p],
         IsCurrent(p, i), reply[p] \in {"done", "exists"}, Complete(i),
         UNCHANGED <<syncStatus, server>>
  PROVE  [Promise!Next]_(Promise!vars)
<1> DEFINE b == queue[i].blob
           o == queue[i].op
<1>1. /\ i \in DOMAIN queue /\ queue[i].status = "processing"
      /\ claimed[p][i].blob = b /\ claimed[p][i].op = o
      /\ b \in Blob /\ o \in {"upload", "delete"} /\ <<b, o>> \in Todo
  BY ClaimedIsTodo
<1>2. server \in [Blob -> {"absent", "live", "deleted"}]
  BY DEF OutboxInv, LeaseInv, TypeOK
<1>3. server[b] \in IF o = "upload" THEN {"live", "deleted"} ELSE {"deleted"}
  <2>1. Acked(b, o)
    BY <1>1 DEF OutboxInv, NothingForgottenInv, AnswerIsTrue
  <2>2. server[b] \in {"absent", "live", "deleted"}
    BY <1>1, <1>2
  <2> QED BY <1>1, <2>1, <2>2 DEF Acked
<1>4. /\ DOMAIN queue' = DOMAIN queue \ {i}
      /\ \A j \in DOMAIN queue' : queue'[j] = queue[j]
  BY DEF Complete, Restrict
<1> HIDE DEF o
<1>5. Dead' = Dead
  <2>1. \A x : x \in Dead' <=> x \in Dead
    BY <1>1, <1>4, OperationRows, OperationRowsNext
  <2> QED BY <2>1
<1>6. \A x : x \in Todo' => x \in Todo
  BY <1>4, OperationRows, OperationRowsNext
<1>7. \A x : x \in Todo /\ x # <<b, o>> => x \in Todo'
  BY <1>1, <1>4, OperationRows, OperationRowsNext DEF o
<1>8. CASE <<b, o>> \in Todo'
  <2>1. Todo' = Todo
    BY <1>6, <1>7, <1>8
  <2> QED BY <1>5, <2>1 DEF Promise!vars, Todo, Dead
<1>9. CASE <<b, o>> \notin Todo'
  <2>1. Todo' = Todo \ {<<b, o>>}
    BY <1>6, <1>7, <1>9
  <2>2. Promise!Acknowledge(b, o)
    BY <1>1, <1>3, <1>5, <2>1 DEF Promise!Acknowledge, Todo, Dead
  <2> QED BY <1>1, <2>2 DEF Promise!Next
<1> QED BY <1>8, <1>9

(* fail puts the claimed row back.                                         *)
LEMMA MapsFail ==
  ASSUME OutboxInv, TypeOK', NEW p \in Process, NEW i \in DOMAIN claimed[p],
         Fail(i), UNCHANGED <<syncStatus, server>>
  PROVE  UNCHANGED Promise!vars
<1>1. TypeOK
  BY DEF OutboxInv, LeaseInv
<1>2. DOMAIN queue' = DOMAIN queue /\ Keeps(queue, queue')
  BY <1>1, SettleKeeps
<1>3. /\ i \in DOMAIN queue /\ queue[i].status = "processing"
      /\ \A j \in DOMAIN queue : j # i => queue'[j] = queue[j]
      /\ queue'[i].status = "pending"
  <2>1. i \in DOMAIN queue /\ queue[i].status = "processing"
    BY ClaimedIsTodo
  <2>2. /\ \A j \in DOMAIN queue : j # i => queue'[j] = queue[j]
        /\ queue'[i] = Rec(queue[i], "pending", Again(queue[i]), 0,
                          Backoff[queue[i].retry])
    BY <1>1, <2>1, FailRows
  <2> QED BY <2>1, <2>2, RecFields
<1>4. Todo' = Todo /\ Dead' = Dead
  BY <1>1, <1>2, <1>3, RowsKept DEF Keeps
<1> QED BY <1>4 DEF Promise!vars, Todo, Dead

(* permanentFail gives the operation of the claimed row up.                *)
LEMMA MapsPermanentFail ==
  ASSUME OutboxInv, NEW p \in Process, NEW i \in DOMAIN claimed[p],
         PermanentFail(i), UNCHANGED <<syncStatus, server>>
  PROVE  [Promise!Next]_(Promise!vars)
<1> DEFINE b == queue[i].blob
           o == queue[i].op
<1>1. /\ i \in DOMAIN queue /\ queue[i].status = "processing"
      /\ b \in Blob /\ o \in {"upload", "delete"} /\ <<b, o>> \in Todo
  BY ClaimedIsTodo
<1>2. TypeOK
  BY DEF OutboxInv, LeaseInv
<1>3. /\ DOMAIN queue' = DOMAIN queue
      /\ \A j \in DOMAIN queue : j # i => queue'[j] = queue[j]
      /\ queue'[i].blob = b /\ queue'[i].op = o /\ queue'[i].status = "failed"
  BY <1>1, <1>2, PermanentFailRows, RecFields
<1>4. Dead' = Dead \cup {<<b, o>>}
  <2>1. \A x : x \in Dead' <=> x \in Dead \cup {<<b, o>>}
    BY <1>1, <1>3, OperationRows, OperationRowsNext
  <2> QED BY <2>1
<1>5. \A x : x \in Todo' => x \in Todo
  BY <1>3, OperationRows, OperationRowsNext
<1>6. \A x : x \in Todo /\ x # <<b, o>> => x \in Todo'
  BY <1>1, <1>3, OperationRows, OperationRowsNext
<1> HIDE DEF b, o
<1>7. Todo' \in {Todo, Todo \ {<<b, o>>}}
  <2>1. CASE <<b, o>> \in Todo'
    BY <1>5, <1>6, <2>1
  <2>2. CASE <<b, o>> \notin Todo'
    BY <1>5, <1>6, <2>2
  <2> QED BY <2>1, <2>2
<1>8. Promise!GiveUp(b, o)
  BY <1>1, <1>4, <1>7 DEF Promise!GiveUp, Todo, Dead
<1> QED BY <1>1, <1>8 DEF Promise!Next

LEMMA MapsSettle ==
  ASSUME OutboxInv, TypeOK', NEW p \in Process, Settle(p)
  PROVE  [Promise!Next]_(Promise!vars)
<1>1. PICK i \in DOMAIN claimed[p] :
        /\ IsCurrent(p, i)
        /\ \/ reply[p] \in {"done", "exists"} /\ Complete(i)
           \/ Fail(i) \/ PermanentFail(i)
  BY DEF Settle, Answer, FailItem
<1>2. UNCHANGED <<syncStatus, server>>
  BY DEF Settle
<1> QED BY <1>1, <1>2, MapsComplete, MapsFail, MapsPermanentFail

LEMMA MapsNext ==
  ASSUME Timely, OutboxInv, OutboxInv', [Next]_vars
  PROVE  [Promise!Next]_(Promise!vars)
<1>1. TypeOK /\ TypeOK'
  BY DEF OutboxInv, LeaseInv
<1>2. ASSUME NEW b \in Blob, StoreAndEnqueueUpload(b)
      PROVE  Promise!Next
  <2>1. Todo' = Todo \cup {<<b, "upload">>} /\ Dead' = Dead
    BY <1>1, <1>2, EnqueueAsks DEF StoreAndEnqueueUpload, Operation
  <2>2. Promise!AskUpload(b)
    BY <1>2, <2>1 DEF StoreAndEnqueueUpload, Promise!AskUpload, Todo, Dead
  <2> QED BY <2>2 DEF Promise!Next
<1>3. ASSUME NEW b \in Blob, EnqueueDelete(b)
      PROVE  Promise!Next
  <2>1. Todo' = Todo \cup {<<b, "delete">>} /\ Dead' = Dead
    BY <1>1, <1>3, EnqueueAsks DEF EnqueueDelete, Operation
  <2>2. Promise!AskDelete(b)
    BY <1>3, <2>1 DEF EnqueueDelete, Promise!AskDelete, Todo, Dead
  <2> QED BY <2>2 DEF Promise!Next
<1>4. ASSUME UNCHANGED <<queue, syncStatus, server>>
      PROVE  UNCHANGED Promise!vars
  BY <1>4 DEF Promise!vars, Operations
<1>5. ASSUME NEW p \in Process, RequestFails(p) \/ ServerRefuses(p) \/ Crash(p)
      PROVE  UNCHANGED Promise!vars
  BY <1>4, <1>5 DEF RequestFails, ServerRefuses, Crash
<1>6. CASE UNCHANGED vars
  BY <1>4, <1>6 DEF vars
<1> QED
  BY <1>1, <1>2, <1>3, <1>5, <1>6, MapsProcessQueue, MapsServerHandles,
     MapsSettle, MapsTick DEF Next

LEMMA MapsInit == Init => Promise!Init
BY DEF Init, Promise!Init, Operations, NoItems

(* If every batch ends within the stale threshold, the table, with all its *)
(* rows, claims, retries, crashes and lost answers, is an outbox: see      *)
(* ImplementsOutbox.                                                       *)
THEOREM QueueIsOutbox == ASSUME Timely PROVE Spec => ImplementsOutbox
<1>1. Init => OutboxInv
  BY LeaseInit, ForgetInit DEF OutboxInv
<1>2. OutboxInv /\ [Next]_vars => OutboxInv'
  BY LeaseNext, ForgetNext DEF OutboxInv
<1>3. OutboxInv /\ OutboxInv' /\ [Next]_vars => [Promise!Next]_(Promise!vars)
  BY MapsNext
<1>4. Init /\ [][Next]_vars => Promise!Init /\ [][Promise!Next]_(Promise!vars)
  BY <1>1, <1>2, <1>3, MapsInit, PTL
<1> QED BY <1>4 DEF Spec, ImplementsOutbox, Promise!Spec
=============================================================================
