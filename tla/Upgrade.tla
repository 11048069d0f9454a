------------------------------ MODULE Upgrade ------------------------------
(***************************************************************************)
(* What an older version keeps in flat files - the counter of requests     *)
(* (sync/sequence.ts), the upload queue (sync/upload-queue.ts) and the     *)
(* state of the sync - and how the current one takes it over into SQLite   *)
(* when it opens the database (storage/schema.ts).  The older version runs *)
(* in one process; several of the current one may open the database at     *)
(* once.  Migrations are separate statements, not a transaction, and every *)
(* process may die between two of them.                                    *)
(***************************************************************************)
EXTENDS Naturals, Sequences

CONSTANTS
  Blob,        \* bound: blobs uploaded
  Opener,      \* bound: processes that open the database after the upgrade
  MaxRetries,  \* MAX_RETRIES, as max_retries of the rows
  MaxCalls,    \* bound: calls of enqueue
  MaxNumber,   \* bound: sequence numbers
  MaxDeaths,   \* bound: processes that die
  None

Item == [blob : Blob, call : 1..MaxCalls, tries : 0..MaxRetries]
ItemOf(b, n) == [blob |-> b, call |-> n, tries |-> 0]

VARIABLES
  old,       \* the process of the older version: items, a batch, the counter
  upgraded,  \* the older version no longer runs
  queueFile, \* upload-queue.json: its items, and whether it is torn
  counterFile, \* sequence: the number in it, 0 if there is no file
  stateFile, \* sync-state.json exists
  version,   \* of the schema: 1 and 2 are the older version's, 0 is none
  counter,   \* sync_sequence.value, None before the table exists
  rows,      \* sync_queue
  state,     \* sync_state has the values of stateFile
  backfills, \* times the chunks were put into chunks_fts
  open,      \* what each process of the current version does
  uploaded,  \* blobs on the server
  asked,     \* ghost: blobs the older version was asked to upload
  issued,    \* ghost: the highest number a request was sent with
  calls, deaths,
  gap        \* ghost: what is known to be lost, see UpgradeKeeps

oldvars == <<old, upgraded>>
files == <<queueFile, counterFile, stateFile>>
tables == <<version, counter, rows, state, backfills>>
rest == <<uploaded, asked, issued, calls, deaths, gap>>
vars == <<oldvars, files, tables, open, rest>>

NoQueue == [torn |-> FALSE, items |-> <<>>]
NoBatch == [list |-> <<>>, at |-> 0, remaining |-> <<>>]
Stopped == [up |-> FALSE, items |-> <<>>, batch |-> NoBatch, current |-> 0]
Closed == [pc |-> "closed", from |-> 0, items |-> <<>>, at |-> 0, number |-> 0]

TypeOK ==
  /\ old.up \in BOOLEAN /\ old.items \in Seq(Item) /\ old.current \in 0..MaxNumber
  /\ old.batch.list \in Seq(Item) /\ old.batch.at \in 0..(Len(old.batch.list) + 1)
  /\ old.batch.remaining \in Seq(Item)
  /\ upgraded \in BOOLEAN
  /\ queueFile.torn \in BOOLEAN /\ queueFile.items \in Seq(Item)
  /\ counterFile \in 0..MaxNumber /\ stateFile \in BOOLEAN
  /\ version \in {0, 1, 2, 4}
  /\ counter \in 0..MaxNumber \cup {None}
  /\ \A n \in DOMAIN rows :
        rows[n] \in [blob : Blob, tries : 0..MaxRetries]
  /\ state \in BOOLEAN /\ backfills \in 0..2
  /\ \A p \in Opener :
        /\ open[p].pc \in {"closed", "create", "fts", "tables", "readCounter", "setCounter",
             "renameCounter", "readQueue", "insert", "state", "renameState",
             "retries", "version", "ready"}
        /\ open[p].items \in Seq(Item) /\ open[p].at \in 0..(Len(open[p].items) + 1)
        /\ open[p].number \in 0..MaxNumber /\ open[p].from \in {0, 1, 2}
  /\ uploaded \subseteq Blob /\ asked \subseteq Blob /\ issued \in 0..MaxNumber
  /\ calls \in 0..MaxCalls /\ deaths \in 0..MaxDeaths
  /\ gap \subseteq Blob \cup {"torn", "overlap"}

Init ==
  /\ old = Stopped /\ upgraded = FALSE
  /\ queueFile = NoQueue /\ counterFile = 0
  /\ version \in {0, 1, 2}
  /\ stateFile = (version = 2)
  /\ counter = None /\ rows = <<>> /\ state = FALSE
  /\ backfills = IF version = 2 THEN 1 ELSE 0
  /\ open = [p \in Opener |-> Closed]
  /\ uploaded = {} /\ asked = {} /\ issued = 0 /\ calls = 0 /\ deaths = 0 /\ gap = {}

-----------------------------------------------------------------------------
(* The older version.                                                       *)

\* A file that cannot be parsed counts as none; one without items is as none.
Load ==
  /\ ~old.up /\ ~upgraded /\ version # 0
  /\ old' = [Stopped EXCEPT !.up = TRUE, !.current = counterFile,
       !.items = queueFile.items]
  /\ UNCHANGED <<upgraded, files, tables, open, rest>>

Whole(items) == [torn |-> FALSE, items |-> items]

\* saveToDisk writes over the file: a process that dies leaves it torn.
Save(items) ==
  \/ /\ queueFile' = Whole(items) /\ old' = [old EXCEPT !.items = items, !.batch = NoBatch]
     /\ UNCHANGED <<deaths, gap>>
  \/ /\ deaths < MaxDeaths /\ deaths' = deaths + 1
     /\ queueFile' = [torn |-> TRUE, items |-> <<>>] /\ gap' = gap \cup {"torn"} /\ old' = Stopped

Without(items, b) ==
  LET kept[n \in 0..Len(items)] ==
        IF n = 0 THEN <<>>
        ELSE IF items[n].blob = b THEN kept[n - 1] ELSE Append(kept[n - 1], items[n])
  IN  kept[Len(items)]

\* A batch under way does not know of the item and drops it when it ends.
Enqueue(b) ==
  /\ old.up /\ calls < MaxCalls /\ calls' = calls + 1
  /\ asked' = asked \cup {b}
  /\ LET items == Append(Without(old.items, b), ItemOf(b, calls + 1)) IN
       \/ old.batch = NoBatch /\ Save(items)
       \/ /\ old.batch # NoBatch
          /\ queueFile' = Whole(items) /\ old' = [old EXCEPT !.items = items]
          /\ gap' = gap \cup {b}
          /\ UNCHANGED deaths
  /\ UNCHANGED <<upgraded, counterFile, stateFile, tables, open, uploaded, issued>>

NextNumber ==
  /\ old.up /\ old.current < MaxNumber
  /\ old' = [old EXCEPT !.current = @ + 1]
  /\ counterFile' = old.current + 1
  /\ issued' = IF old.current + 1 > issued THEN old.current + 1 ELSE issued
  /\ UNCHANGED <<upgraded, queueFile, stateFile, tables, open, uploaded, asked, calls, deaths, gap>>

Begin ==
  /\ old.up /\ old.batch = NoBatch /\ old.items # <<>>
  /\ old' = [old EXCEPT !.batch = [list |-> old.items, at |-> 1, remaining |-> <<>>]]
  /\ UNCHANGED <<upgraded, files, tables, open, rest>>

Keep(item) == old' = [old EXCEPT !.batch.at = @ + 1,
                                 !.batch.remaining = Append(@, item)]

\* One item: given up before, stored (201 or 409), or refused in another way.
ProcessItem ==
  LET batch == old.batch  item == batch.list[batch.at] IN
  /\ old.up /\ batch # NoBatch /\ batch.at <= Len(batch.list)
  /\ \/ item.tries >= MaxRetries /\ Keep(item) /\ UNCHANGED uploaded
     \/ /\ item.tries < MaxRetries
        /\ \/ /\ uploaded' = uploaded \cup {item.blob}
              /\ old' = [old EXCEPT !.batch.at = @ + 1]
           \/ Keep([item EXCEPT !.tries = @ + 1]) /\ UNCHANGED uploaded
  /\ UNCHANGED <<upgraded, files, tables, open, issued, asked, calls, deaths, gap>>

\* What follows an item in this.items, which is not the batch's list any more
\* once something was enqueued; without the item it is all of it.  Items that
\* look the same hold the same upload: the first of them stands for all.
After(item, items) ==
  LET found == {n \in DOMAIN items : items[n] = item} IN
  SubSeq(items, IF found = {} THEN 1 ELSE (CHOOSE n \in found : \A m \in found : n <= m) + 1, Len(items))

\* 413: the batch ends with this item and all that follow it.
QuotaExceeded ==
  LET batch == old.batch  item == batch.list[batch.at] IN
  /\ old.up /\ batch # NoBatch /\ batch.at <= Len(batch.list)
  /\ item.tries < MaxRetries
  /\ Save(batch.remaining \o <<item>> \o After(item, old.items))
  /\ UNCHANGED <<upgraded, counterFile, stateFile, tables, open, uploaded, issued, asked, calls>>

EndBatch ==
  /\ old.up /\ old.batch # NoBatch /\ old.batch.at > Len(old.batch.list)
  /\ Save(old.batch.remaining)
  /\ UNCHANGED <<upgraded, counterFile, stateFile, tables, open, uploaded, issued, asked, calls>>

OldDies ==
  /\ old.up /\ deaths < MaxDeaths
  /\ old' = Stopped /\ deaths' = deaths + 1
  /\ UNCHANGED <<upgraded, files, tables, open, uploaded, issued, asked, calls, gap>>

\* The older version ends, between two calls, and is not started again.
Replace ==
  /\ ~upgraded /\ old.batch = NoBatch
  /\ upgraded' = TRUE /\ old' = Stopped
  /\ UNCHANGED <<files, tables, open, rest>>

-----------------------------------------------------------------------------
(* The current version opens the database.                                  *)

Goto(p, pc) == open' = [open EXCEPT ![p].pc = pc]

Migrating(p) == open[p].pc \notin {"closed", "ready"}

\* initializeSchema, migrateSchema: nothing is done for a current version.
Open(p) ==
  /\ upgraded /\ open[p].pc = "closed"
  /\ open' = [open EXCEPT ![p] = [Closed EXCEPT !.pc =
        CASE version = 0 -> "create" [] version = 1 -> "fts"
          [] version = 2 -> "tables" [] version = 4 -> "ready"]]
  /\ gap' = IF version # 4 /\ \E q \in Opener \ {p} : Migrating(q)
            THEN gap \cup {"overlap"} ELSE gap
  /\ UNCHANGED <<oldvars, files, tables, uploaded, issued, asked, calls, deaths>>

\* A new database is made in one transaction.
Create(p) ==
  /\ open[p].pc = "create"
  /\ version' = 4 /\ counter' = IF counter = None THEN 0 ELSE counter
  /\ Goto(p, "ready")
  /\ UNCHANGED <<oldvars, files, rows, state, backfills, rest>>

\* Version 2: the table and its triggers are made if missing, but the chunks
\* are put into it in any case.
AddFts(p) ==
  /\ open[p].pc = "fts"
  /\ backfills' = IF backfills < 2 THEN backfills + 1 ELSE 2
  /\ Goto(p, "tables")
  /\ UNCHANGED <<oldvars, files, version, counter, rows, state, rest>>

AddTables(p) ==
  /\ open[p].pc = "tables"
  /\ counter' = IF counter = None THEN 0 ELSE counter
  /\ Goto(p, "readCounter")
  /\ UNCHANGED <<oldvars, files, version, rows, state, backfills, rest>>

(* Mutant: the file is renamed before its number is in the table.           *)
ReadAndRename(p) ==
  /\ open[p].pc = "readCounter"
  /\ open' = [open EXCEPT ![p].number = counterFile, ![p].pc =
       IF counterFile = 0 THEN "readQueue" ELSE "setCounter"]
  /\ counterFile' = 0
  /\ UNCHANGED <<oldvars, queueFile, stateFile, tables, rest>>

ReadCounter(p) ==
  /\ open[p].pc = "readCounter"
  /\ open' = [open EXCEPT ![p].number = counterFile, ![p].pc =
       IF counterFile = 0 THEN "readQueue" ELSE "setCounter"]
  /\ UNCHANGED <<oldvars, files, tables, rest>>

SetCounter(p) ==
  /\ open[p].pc = "setCounter"
  /\ counter' = open[p].number
  /\ Goto(p, "renameCounter")
  /\ UNCHANGED <<oldvars, files, version, rows, state, backfills, rest>>

RenameCounter(p) ==
  /\ open[p].pc = "renameCounter"
  /\ counterFile' = 0
  /\ Goto(p, "readQueue")
  /\ UNCHANGED <<oldvars, queueFile, stateFile, tables, rest>>

ReadQueue(p) ==
  /\ open[p].pc = "readQueue"
  /\ open' = [open EXCEPT ![p] =
       IF queueFile.torn THEN [@ EXCEPT !.pc = "state"]
       ELSE [@ EXCEPT !.pc = "insert", !.items = queueFile.items, !.at = 1]]
  /\ UNCHANGED <<oldvars, files, tables, rest>>

\* No column but the number is unique: the row is inserted in any case.
InsertItem(p) ==
  LET o == open[p] IN
  /\ o.pc = "insert" /\ o.at <= Len(o.items)
  /\ rows' = Append(rows, [blob |-> o.items[o.at].blob, tries |-> o.items[o.at].tries])
  /\ open' = [open EXCEPT ![p].at = @ + 1]
  /\ UNCHANGED <<oldvars, files, version, counter, state, backfills, rest>>

RenameQueue(p) ==
  /\ open[p].pc = "insert" /\ open[p].at > Len(open[p].items)
  /\ queueFile' = NoQueue
  /\ open' = [open EXCEPT ![p] = [@ EXCEPT !.pc = "state", !.items = <<>>, !.at = 0]]
  /\ UNCHANGED <<oldvars, counterFile, stateFile, tables, rest>>

ImportState(p) ==
  /\ open[p].pc = "state"
  /\ state' = (state \/ stateFile)
  /\ Goto(p, IF stateFile THEN "renameState" ELSE "retries")
  /\ UNCHANGED <<oldvars, files, version, counter, rows, backfills, rest>>

RenameState(p) ==
  /\ open[p].pc = "renameState"
  /\ stateFile' = FALSE /\ Goto(p, "retries")
  /\ UNCHANGED <<oldvars, queueFile, counterFile, tables, rest>>

\* Version 4: what was tried before starts afresh.
ResetRetries(p) ==
  /\ open[p].pc = "retries"
  /\ rows' = [n \in DOMAIN rows |-> [rows[n] EXCEPT !.tries = 0]]
  /\ Goto(p, "version")
  /\ UNCHANGED <<oldvars, files, version, counter, state, backfills, rest>>

SetVersion(p) ==
  /\ open[p].pc = "version"
  /\ version' = 4 /\ Goto(p, "ready")
  /\ UNCHANGED <<oldvars, files, counter, rows, state, backfills, rest>>

OpenerDies(p) ==
  /\ Migrating(p) /\ deaths < MaxDeaths
  /\ open' = [open EXCEPT ![p] = Closed] /\ deaths' = deaths + 1
  /\ UNCHANGED <<oldvars, files, tables, uploaded, issued, asked, calls, gap>>

\* An open database: a number for a request, or an upload from the queue.
NumberFromTable(p) ==
  /\ open[p].pc = "ready" /\ counter < MaxNumber
  /\ counter' = counter + 1
  /\ issued' = IF counter + 1 > issued THEN counter + 1 ELSE issued
  /\ UNCHANGED <<oldvars, files, version, rows, state, backfills, open, uploaded,
                 asked, calls, deaths, gap>>

\* One row after the other: see SyncQueue for what may go wrong.
Drain(p) ==
  /\ open[p].pc = "ready" /\ rows # <<>>
  /\ uploaded' = uploaded \cup {Head(rows).blob}
  /\ rows' = Tail(rows)
  /\ UNCHANGED <<oldvars, files, version, counter, state, backfills, open, issued,
                 asked, calls, deaths, gap>>

Next ==
  \/ Load \/ \E b \in Blob : Enqueue(b)
  \/ NextNumber \/ Begin \/ ProcessItem \/ QuotaExceeded \/ EndBatch
  \/ OldDies \/ Replace
  \/ \E p \in Opener :
       \/ Open(p) \/ Create(p) \/ AddFts(p) \/ AddTables(p)
       \/ ReadCounter(p) \/ SetCounter(p) \/ RenameCounter(p)
       \/ ReadQueue(p) \/ InsertItem(p) \/ RenameQueue(p)
       \/ ImportState(p) \/ RenameState(p) \/ ResetRetries(p) \/ SetVersion(p)
       \/ OpenerDies(p) \/ NumberFromTable(p) \/ Drain(p)

Spec == Init /\ [][Next]_vars

-----------------------------------------------------------------------------
Held(items) == {items[n].blob : n \in DOMAIN items}

(* Nothing of the flat files is lost on the way.  What the older version    *)
(* was asked to upload is on the server, in its file, or in the table,      *)
(* wherever a process died; what is lost is a blob enqueued while a batch   *)
(* was under way, and all of a file torn by a death.  And no sequence       *)
(* number comes twice: some counter is always as high as the last number    *)
(* used, and it is the table's once the database is open - unless two       *)
(* processes migrated at once: the slower one puts the old number back.     *)
UpgradeKeeps ==
  /\ "torn" \notin gap => asked \ gap \subseteq uploaded \cup Held(queueFile.items) \cup Held(rows)
  /\ "overlap" \notin gap =>
        \/ issued <= counterFile /\ version # 4
        \/ counter # None /\ issued <= counter
=============================================================================
