------------------------------ MODULE SyncQueue ------------------------------
(***************************************************************************)
(* The upload/delete queue of a chaoskb machine: the SQLite table          *)
(* sync_queue (src/storage/sync-queue-repo.ts), the processor that drains  *)
(* it (src/sync/queue-processor.ts) and the calls that fill it             *)
(* (KBDatabase.storeAndEnqueueUpload, KBDatabase.enqueueDelete).           *)
(*                                                                         *)
(* Several operating-system processes (one MCP server per editor window)   *)
(* share the table.  Each SQL statement is atomic; between two of them a   *)
(* process awaits an HTTP answer, and anything may happen.  The blob       *)
(* server is reduced to what its PUT and DELETE handlers answer.           *)
(***************************************************************************)
EXTENDS Naturals, FiniteSets, Functions

CONSTANTS
  Process,      \* processes that have the knowledge base open
  Blob,         \* blob ids, random UUIDs in the code
  MaxRow,       \* bound: AUTOINCREMENT ids ever given out
  MaxRetries,   \* max_retries column, 5
  RetryCap,     \* bound: retry_count saturates here
  Backoff,      \* Backoff[r]: delay after a failure of a row retried r times
  BatchSize,    \* DEFAULT_BATCH_SIZE, 10
  BatchBudget,  \* time in which the requests of one batch have all ended
  StaleAfter,   \* STALE_THRESHOLD_SECONDS, 300
  MaxCrashes,   \* bound: processes that die with a claimed batch
  MaxRefusals   \* bound: 413 answers of the server

ASSUME SyncQueueAssumption ==
  /\ MaxRow \in Nat /\ MaxCrashes \in Nat /\ MaxRefusals \in Nat
  /\ MaxRetries \in Nat \ {0}
  /\ RetryCap \in Nat /\ RetryCap >= MaxRetries
  /\ Backoff \in [0..RetryCap -> Nat]
  /\ BatchSize \in Nat \ {0}
  /\ BatchBudget \in Nat \ {0}
  /\ StaleAfter \in Nat

VARIABLES
  queue,       \* the rows of sync_queue, by id
  nextId,      \* the id the next INSERT takes
  syncStatus,  \* sync_status: what this machine last asked of each blob
  claimed,     \* per process, the rows of its batch still to process
  reply,       \* per process, the answer to its outstanding request
  held,        \* per process, time since its claimBatch
  server,      \* what the server holds for each blob
  crashes, refusals

vars == <<queue, nextId, syncStatus, claimed, reply, held, server,
          crashes, refusals>>

Operation == {"upload", "delete"}
RowId     == 1..MaxRow
Aged      == StaleAfter + 1     \* ages are told apart up to here

(* A row: age is the time since last_attempt, kept only while processing;  *)
(* wait is the time to next_attempt.                                       *)
Row == [blob : Blob, op : Operation,
        status : {"pending", "processing", "failed"},
        retry : 0..RetryCap, age : 0..Aged, wait : Nat]

(* What claimBatch hands to the processor: a copy, not the row itself.     *)
Item == [blob : Blob, op : Operation, retry : 0..RetryCap]

Answer == {"done", "exists", "quota", "error"}

NoItems == [i \in {} |-> {}]

TypeOK ==
  /\ DOMAIN queue \subseteq RowId
  /\ queue \in [DOMAIN queue -> Row]
  /\ nextId \in 1..(MaxRow + 1)
  /\ \A i \in DOMAIN queue : i < nextId
  /\ syncStatus \in [Blob -> {"absent", "local_only", "pending_delete"}]
  /\ DOMAIN claimed = Process
  /\ \A p \in Process : /\ DOMAIN claimed[p] \subseteq RowId
                        /\ claimed[p] \in [DOMAIN claimed[p] -> Item]
                        /\ \A i \in DOMAIN claimed[p] : i < nextId
  /\ reply \in [Process -> {"none", "waiting"} \cup Answer]
  /\ held \in [Process -> 0..BatchBudget]
  /\ server \in [Blob -> {"absent", "live", "deleted"}]
  /\ crashes \in 0..MaxCrashes
  /\ refusals \in 0..MaxRefusals

Init ==
  /\ queue = NoItems
  /\ nextId = 1
  /\ syncStatus = [b \in Blob |-> "absent"]
  /\ claimed = [p \in Process |-> NoItems]
  /\ reply = [p \in Process |-> "none"]
  /\ held = [p \in Process |-> 0]
  /\ server = [b \in Blob |-> "absent"]
  /\ crashes = 0 /\ refusals = 0

-----------------------------------------------------------------------------
(* Filling the queue.                                                      *)

NewRow(b, o) == [blob |-> b, op |-> o, status |-> "pending",
                 retry |-> 0, age |-> 0, wait |-> 0]

(* Seeded faults: rows in progress replaced too; the other operation too.  *)
SupersededProcessing(b, o) ==
  {i \in DOMAIN queue : queue[i].blob = b /\ queue[i].op = o}

SupersededAnyOp(b, o) ==
  {i \in DOMAIN queue : queue[i].blob = b /\ queue[i].status = "pending"}

Superseded(b, o) ==
  {i \in DOMAIN queue : /\ queue[i].blob = b /\ queue[i].op = o
                        /\ queue[i].status = "pending"}

(* Seeded fault: ids are reused, as without AUTOINCREMENT.                 *)
EnqueueReusingIds(b, o) ==
  /\ nextId <= MaxRow
  /\ queue' = [i \in (DOMAIN queue \ Superseded(b, o)) \cup {nextId} |->
                 IF i = nextId THEN NewRow(b, o) ELSE queue[i]]
  /\ nextId' = nextId

(* enqueue: in one transaction the pending row of the same blob and        *)
(* operation is replaced.                                                  *)
Enqueue(b, o) ==
  /\ nextId <= MaxRow
  /\ queue' = [i \in (DOMAIN queue \ Superseded(b, o)) \cup {nextId} |->
                 IF i = nextId THEN NewRow(b, o) ELSE queue[i]]
  /\ nextId' = nextId + 1

(* kb_ingest stores a blob under a fresh id.                               *)
StoreAndEnqueueUpload(b) ==
  /\ syncStatus[b] = "absent"
  /\ Enqueue(b, "upload")
  /\ syncStatus' = [syncStatus EXCEPT ![b] = "local_only"]
  /\ UNCHANGED <<claimed, reply, held, server, crashes, refusals>>

(* kb_delete; two windows may delete the same source.                      *)
EnqueueDelete(b) ==
  /\ syncStatus[b] # "absent"
  /\ Enqueue(b, "delete")
  /\ syncStatus' = [syncStatus EXCEPT ![b] = "pending_delete"]
  /\ UNCHANGED <<claimed, reply, held, server, crashes, refusals>>

-----------------------------------------------------------------------------
(* processQueue: release stale rows, claim a batch, then one request per   *)
(* claimed item, in the order of the ids.                                  *)

(* Seeded fault: a row is stale at the threshold already.                  *)
StaleAtThreshold(i) ==
  queue[i].status = "processing" /\ queue[i].age >= StaleAfter

Stale(i) == queue[i].status = "processing" /\ queue[i].age > StaleAfter

(* Seeded fault: no crash recovery.                                        *)
ReleaseNothing == queue

ReleaseStale ==
  [i \in DOMAIN queue |->
     IF Stale(i) THEN [queue[i] EXCEPT !.status = "pending", !.age = 0, !.wait = 0]
     ELSE queue[i]]

(* Seeded fault: rows that were given up are claimed again.                *)
DueOrFailed(q) ==
  {i \in DOMAIN q : q[i].status \in {"pending", "failed"} /\ q[i].wait = 0}

Due(q) == {i \in DOMAIN q : q[i].status = "pending" /\ q[i].wait = 0}

(* The rows claimBatch takes from q: the BatchSize oldest due ones.        *)
Batches(q) ==
  {S \in SUBSET Due(q) :
     /\ Cardinality(S) <= BatchSize
     /\ Cardinality(S) < BatchSize => S = Due(q)
     /\ \A i \in S, j \in Due(q) \ S : i < j}

MarkProcessing(q, S) ==
  [i \in DOMAIN q |->
     IF i \in S THEN [q[i] EXCEPT !.status = "processing", !.age = 0]
     ELSE q[i]]

ItemsOf(q, S) ==
  [i \in S |-> [blob |-> q[i].blob, op |-> q[i].op, retry |-> q[i].retry]]

ProcessQueue(p) ==
  /\ reply[p] = "none"
  /\ \E S \in Batches(ReleaseStale) :
       /\ queue' = MarkProcessing(ReleaseStale, S)
       /\ claimed' = [claimed EXCEPT ![p] = ItemsOf(ReleaseStale, S)]
       /\ reply' = [reply EXCEPT ![p] = IF S = {} THEN "none" ELSE "waiting"]
  /\ held' = [held EXCEPT ![p] = 0]
  /\ UNCHANGED <<nextId, syncStatus, server, crashes, refusals>>

IsCurrent(p, i) ==
  i \in DOMAIN claimed[p] /\ \A j \in DOMAIN claimed[p] : i <= j

(* The server's side of PUT and DELETE /v1/blobs/{id}.                     *)
Handled(b, o) ==
  IF o = "delete" THEN IF server[b] = "absent" THEN "absent" ELSE "deleted"
  ELSE IF server[b] = "absent" THEN "live" ELSE server[b]

(* Seeded fault: deleting what the server never had counts as done.        *)
AnswerOfMissing(b, o) ==
  IF o = "delete" THEN "done"
  ELSE IF server[b] = "absent" THEN "done" ELSE "exists"

AnswerOf(b, o) ==
  IF o = "delete" THEN IF server[b] = "absent" THEN "error" ELSE "done"
  ELSE IF server[b] = "absent" THEN "done" ELSE "exists"

(* The handler runs; its answer arrives, or is lost on the way back.       *)
ServerHandles(p) ==
  /\ reply[p] = "waiting"
  /\ \E i \in DOMAIN claimed[p] :
       LET b == claimed[p][i].blob
           o == claimed[p][i].op
       IN  /\ IsCurrent(p, i)
           /\ server' = [server EXCEPT ![b] = Handled(b, o)]
           /\ \E r \in {AnswerOf(b, o), "error"} :
                reply' = [reply EXCEPT ![p] = r]
  /\ UNCHANGED <<queue, nextId, syncStatus, claimed, held, crashes, refusals>>

(* No network, a rate limit, a rejected signature, a 5xx, a timeout.       *)
RequestFails(p) ==
  /\ reply[p] = "waiting"
  /\ reply' = [reply EXCEPT ![p] = "error"]
  /\ UNCHANGED <<queue, nextId, syncStatus, claimed, held, server,
                 crashes, refusals>>

(* An upload over the storage quota: the handler refuses it with 413.      *)
ServerRefuses(p) ==
  /\ reply[p] = "waiting"
  /\ refusals < MaxRefusals
  /\ \E i \in DOMAIN claimed[p] :
       IsCurrent(p, i) /\ claimed[p][i].op = "upload"
  /\ reply' = [reply EXCEPT ![p] = "quota"]
  /\ refusals' = refusals + 1
  /\ UNCHANGED <<queue, nextId, syncStatus, claimed, held, server, crashes>>

(* The statements that settle a row, by id alone: the row may have been    *)
(* released, claimed again or deleted by another process in the meantime.  *)
Complete(i) == queue' = Restrict(queue, DOMAIN queue \ {i})

Fail(i) ==
  queue' = [j \in DOMAIN queue |->
    IF j # i THEN queue[j]
    ELSE [queue[i] EXCEPT
            !.status = "pending",
            !.retry = IF @ < RetryCap THEN @ + 1 ELSE @,
            !.age = 0,
            !.wait = Backoff[queue[i].retry]]]

PermanentFail(i) ==
  queue' = [j \in DOMAIN queue |->
    IF j # i THEN queue[j]
    ELSE [queue[i] EXCEPT !.status = "failed", !.age = 0]]

(* Seeded fault: one attempt short.                                        *)
GivesUpEarly(item) == item.retry + 2 >= MaxRetries

GivesUp(item) == item.retry + 1 >= MaxRetries

(* Seeded fault: every failure is retried.                                 *)
FailItemForever(item, i) == Fail(i)

FailItem(item, i) == IF GivesUp(item) THEN PermanentFail(i) ELSE Fail(i)

(* The processor goes on with the next item, or leaves the loop.           *)
Advance(p, i, stop) ==
  LET rest == IF stop THEN {} ELSE DOMAIN claimed[p] \ {i}
  IN  /\ claimed' = [claimed EXCEPT ![p] = Restrict(@, rest)]
      /\ reply' = [reply EXCEPT ![p] =
                     IF rest = {} THEN "none" ELSE "waiting"]
      /\ held' = [held EXCEPT ![p] = IF rest = {} THEN 0 ELSE @]

Settle(p) ==
  /\ reply[p] \in Answer
  /\ \E i \in DOMAIN claimed[p] :
       /\ IsCurrent(p, i)
       /\ CASE reply[p] \in {"done", "exists"} -> Complete(i)
            [] reply[p] = "quota"              -> Fail(i)
            [] reply[p] = "error"              -> FailItem(claimed[p][i], i)
       /\ Advance(p, i, reply[p] = "quota")
  /\ UNCHANGED <<nextId, syncStatus, server, crashes, refusals>>

(* The process ends while it holds a batch: its rows stay 'processing'.    *)
Crash(p) ==
  /\ crashes < MaxCrashes
  /\ reply[p] # "none"
  /\ claimed' = [claimed EXCEPT ![p] = NoItems]
  /\ reply' = [reply EXCEPT ![p] = "none"]
  /\ held' = [held EXCEPT ![p] = 0]
  /\ crashes' = crashes + 1
  /\ UNCHANGED <<queue, nextId, syncStatus, server, refusals>>

(* Time passes.  A batch never outlives its budget.                        *)
Tick ==
  /\ \A p \in Process : reply[p] # "none" => held[p] < BatchBudget
  /\ held' = [p \in Process |->
                IF reply[p] # "none" THEN held[p] + 1 ELSE held[p]]
  /\ queue' = [i \in DOMAIN queue |->
       [queue[i] EXCEPT !.age = IF @ < Aged /\ queue[i].status = "processing"
                                THEN @ + 1 ELSE @,
                        !.wait = IF @ > 0 THEN @ - 1 ELSE 0]]
  /\ UNCHANGED <<nextId, syncStatus, claimed, reply, server, crashes, refusals>>

Next ==
  \/ \E b \in Blob : StoreAndEnqueueUpload(b) \/ EnqueueDelete(b)
  \/ \E p \in Process : \/ ProcessQueue(p) \/ ServerHandles(p)
                        \/ RequestFails(p) \/ ServerRefuses(p)
                        \/ Settle(p) \/ Crash(p)
  \/ Tick

Spec == Init /\ [][Next]_vars

(* Time passes, requests end, and some window keeps draining the queue     *)
(* (the MCP server does so after each kb_ingest and kb_delete).            *)
Answered(p) == ServerHandles(p) \/ RequestFails(p) \/ ServerRefuses(p)

Fairness == /\ WF_vars(Tick)
            /\ WF_vars(\E p \in Process : ProcessQueue(p))
            /\ \A p \in Process : WF_vars(Answered(p)) /\ WF_vars(Settle(p))

FairSpec == Spec /\ Fairness

-----------------------------------------------------------------------------
(* Properties.                                                             *)

(* No two processes work on one row: "concurrent processes never           *)
(* double-process an item" (queue-processor.ts:21-22).  It holds when a    *)
(* batch ends within the stale threshold, and only then.                   *)
ClaimExclusive ==
  \A p, q \in Process : p # q => DOMAIN claimed[p] \cap DOMAIN claimed[q] = {}

(* The copy a process works from still agrees with the row it will settle  *)
(* by id: complete, fail and permanentFail never hit a row that another    *)
(* process has released, settled or counted a retry on.                    *)
ClaimCurrent ==
  \A p \in Process : \A i \in DOMAIN claimed[p] :
    /\ i \in DOMAIN queue
    /\ queue[i].status = "processing"
    /\ claimed[p][i] = [blob |-> queue[i].blob, op |-> queue[i].op,
                        retry |-> queue[i].retry]

(* What was asked of a blob is never forgotten: until the server has done  *)
(* it a row of the queue stands for it, through crashes, replaced rows,    *)
(* stale releases and late answers of a process that lost its claim.       *)
RowFor(b, o) == \E i \in DOMAIN queue : queue[i].blob = b /\ queue[i].op = o

NothingForgotten ==
  \A b \in Blob :
    /\ syncStatus[b] = "local_only" => server[b] = "live" \/ RowFor(b, "upload")
    /\ syncStatus[b] = "pending_delete" =>
         server[b] = "deleted" \/ RowFor(b, "delete")

(* A row is given up only after MaxRetries failed attempts: the ones       *)
(* counted on the row and the one that gave it up.                         *)
GivenUpAfterMaxRetries ==
  \A i \in DOMAIN queue :
    queue[i].status = "failed" => queue[i].retry + 1 >= MaxRetries

(* A row that was given up stays so: no late fail() of another process     *)
(* puts it back in the queue.                                              *)
GivenUpIsFinal ==
  [][\A i \in DOMAIN queue :
       queue[i].status = "failed" =>
         i \in DOMAIN queue' /\ queue'[i].status = "failed"]_vars

(* Every enqueued operation is eventually settled: done, replaced by a     *)
(* newer request, or given up.                                             *)
EveryRowSettles ==
  \A i \in RowId :
    (i \in DOMAIN queue)
      ~> (i \notin DOMAIN queue \/ queue[i].status = "failed")
=============================================================================
