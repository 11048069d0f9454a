------------------------------- MODULE LocalKB -------------------------------
(***************************************************************************)
(* The local knowledge base of one machine: MCP server processes (one per  *)
(* editor window) and the import command share the SQLite tables and the   *)
(* outbox, and each server keeps an embedding index of its own in memory.  *)
(* A tool call runs without yielding once its text is embedded, so inside  *)
(* a process calls interleave only at that await; the processes interleave *)
(* between any two SQL statements.  All sources have one URL and title:    *)
(* two of them are a duplicate for the import.  The outbox is drained in   *)
(* its order by calls that succeed; SyncQueue models the rest of it.       *)
(***************************************************************************)
EXTENDS Naturals, Sequences, FiniteSets

CONSTANTS
  Proc,        \* MCP server processes
  Source,      \* source ids, fresh at each ingestion or import
  Chunks,      \* chunks of a source
  Limit,       \* "limit" of kb_query
  None,
  MaxRare      \* bound: hybrid queries and processes that end; none if named

ASSUME LocalAssumption ==
  /\ Chunks \in Nat /\ Limit \in Nat /\ MaxRare \in Nat
  /\ \A X \in SUBSET Source : None # X

VARIABLES
  source,   \* the sources table: "none", "live", "deleted" (deleted_at set)
  stored,   \* the sources whose rows are in the chunks table
  outbox,   \* sync_queue, oldest first
  server,   \* blobs stored on the server
  index,    \* each process's embedding index; None: it is not running
  work,     \* the synchronous part of the call each process is in
  import,   \* the import command
  query,    \* the hybrid kb_query whose embedding each process awaits
  named,    \* whether several named knowledge bases exist, all empty
  removed,  \* history: sources whose kb_delete ended
  stale,    \* history: sources shown, though deleted before the query began
  missing,  \* history: live sources an answer did not show
  rare

vars == <<source, stored, outbox, server, index, work, import, query, named,
          removed, stale, missing, rare>>

\* A blob of the source has the id generated for its upload; a row of the
\* chunks table gets another one when it is inserted.
Uploaded(s, i) == <<"blob", s, i>>
Row(s, i) == <<"row", s, i>>
BlobsOf(s) == {Uploaded(s, i) : i \in 0..Chunks}
Id == UNION {BlobsOf(s) \cup {Row(s, i) : i \in 1..Chunks} : s \in Source}

Blobs == UNION {BlobsOf(s) : s \in Source}
Order == [op : {"upload"}, id : Blobs] \cup [op : {"delete"}, id : Id]

Rest == [pc |-> "rest", src |-> None, next |-> 0]
Work == [pc : {"chunks", "upload", "delete", "rows"}, src : Source, next : 0..Chunks]
Import == [pc : {"purge", "chunks"}, src : Source, next : {0}]
            \cup [pc : {"insert"}, src : {None}, next : {0}]

NoQuery == [asked |-> FALSE, early |-> {}, gone |-> {}]
Query == [asked : {TRUE}, early : SUBSET Source, gone : SUBSET Source]

TypeOK ==
  /\ source \in [Source -> {"none", "live", "deleted"}]
  /\ stored \subseteq Source /\ removed \subseteq Source
  /\ outbox \in Seq(Order)
  /\ server \subseteq Blobs
  /\ index \in [Proc -> (SUBSET Source) \cup {None}]
  /\ work \in [Proc -> Work \cup {Rest}]
  /\ query \in [Proc -> Query \cup {NoQuery}]
  /\ \A p \in Proc : index[p] = None => work[p] = Rest /\ query[p] = NoQuery
  /\ import \in Import \cup {Rest}
  /\ named \in BOOLEAN /\ rare \in 0..MaxRare

Init ==
  /\ source = [s \in Source |-> "none"] /\ stored = {} /\ outbox = <<>>
  /\ server = {} /\ index = [p \in Proc |-> None]
  /\ work = [p \in Proc |-> Rest] /\ import = Rest
  /\ query = [p \in Proc |-> NoQuery] /\ named \in BOOLEAN
  /\ removed = {} /\ stale = {} /\ missing = {}
  /\ rare = IF named THEN MaxRare ELSE 0

tables == <<source, stored>>
answers == <<stale, missing>>
history == <<removed, rare>>

-----------------------------------------------------------------------------
(* A server starts and loads every embedding there is, those of deleted     *)
(* sources too; it ends, in the middle of a call or not.                    *)

Loaded == stored

Start(p) ==
  /\ index[p] = None
  /\ index' = [index EXCEPT ![p] = Loaded]
  /\ UNCHANGED <<tables, outbox, server, work, import, query, answers, named,
                 history>>

Crash(p) ==
  /\ index[p] # None /\ rare < MaxRare
  /\ index' = [index EXCEPT ![p] = None]
  /\ work' = [work EXCEPT ![p] = Rest]
  /\ query' = [query EXCEPT ![p] = NoQuery]
  /\ rare' = rare + 1
  /\ UNCHANGED <<tables, outbox, server, import, named, answers, removed>>

Free(p) == index[p] # None /\ work[p] = Rest

Go(p, pc, s, next) ==
  work' = [work EXCEPT ![p] =
             IF pc = "rest" THEN Rest ELSE [pc |-> pc, src |-> s, next |-> next]]

-----------------------------------------------------------------------------
(* kb_ingest, once the chunks are embedded.                                 *)

NewSource(s) == source[s] = "none" /\ source' = [source EXCEPT ![s] = "live"]

Enqueue(op, id) == outbox' = Append(outbox, [op |-> op, id |-> id])

(* Mutant: the source's blob is enqueued before its chunks are stored.      *)
EnqueueFirst(p) ==
  /\ Free(p)
  /\ \E s \in Source :
        NewSource(s) /\ Go(p, "chunks", s, 0) /\ Enqueue("upload", Uploaded(s, 0))
  /\ UNCHANGED <<stored, server, index, import, query, answers, named, history>>

InsertSource(p) ==
  /\ Free(p)
  /\ \E s \in Source : NewSource(s) /\ Go(p, "chunks", s, 0)
  /\ UNCHANGED <<stored, outbox, server, index, import, query, answers, named,
                 history>>

StoreChunks(s) == stored' = stored \cup {s}

InsertChunks(p) ==
  /\ work[p].pc = "chunks"
  /\ StoreChunks(work[p].src)
  /\ index' = [index EXCEPT ![p] = @ \cup {work[p].src}]
  /\ Go(p, "upload", work[p].src, 0)
  /\ UNCHANGED <<source, outbox, server, import, query, answers, named, history>>

(* Mutant: one blob too many.                                               *)
EnqueueOneMore(p) ==
  LET w == work[p] IN
  /\ w.pc = "upload"
  /\ Enqueue("upload", Uploaded(w.src, w.next))
  /\ IF w.next <= Chunks THEN Go(p, "upload", w.src, w.next + 1)
                         ELSE Go(p, "rest", None, 0)
  /\ UNCHANGED <<tables, server, index, import, query, answers, named, history>>

EnqueueUpload(p) ==
  LET w == work[p] IN
  /\ w.pc = "upload"
  /\ Enqueue("upload", Uploaded(w.src, w.next))
  /\ IF w.next < Chunks THEN Go(p, "upload", w.src, w.next + 1)
                        ELSE Go(p, "rest", None, 0)
  /\ UNCHANGED <<tables, server, index, import, query, answers, named, history>>

-----------------------------------------------------------------------------
(* kb_delete: look the source up, mark it deleted and forget its vectors,   *)
(* then enqueue the deletion of its id and of the ids of its chunk rows.    *)

FindSource(p) ==
  /\ Free(p)
  /\ \E s \in Source : source[s] = "live" /\ Go(p, "delete", s, 0)
  /\ UNCHANGED <<tables, outbox, server, index, import, query, answers, named,
                 history>>

Mark(s) == source' = [source EXCEPT ![s] = IF @ = "live" THEN "deleted" ELSE @]

SoftDelete(p) ==
  LET s == work[p].src IN
  /\ work[p].pc = "delete"
  /\ Mark(s)
  /\ IF source[s] = "live"
     THEN index' = [index EXCEPT ![p] = @ \ {s}] /\ Go(p, "rows", s, 0)
     ELSE index' = index /\ Go(p, "rest", None, 0)   \* "Failed to delete"
  /\ UNCHANGED <<stored, outbox, server, import, query, answers, named, history>>

\* The source's own blob first; the rows are read before it is enqueued.
EnqueueDelete(p) ==
  LET w == work[p]
      last == IF w.next > 0 \/ w.src \in stored THEN Chunks ELSE 0 IN
  /\ w.pc = "rows"
  /\ Enqueue("delete", IF w.next = 0 THEN Uploaded(w.src, 0) ELSE Row(w.src, w.next))
  /\ IF w.next < last
     THEN Go(p, "rows", w.src, w.next + 1) /\ removed' = removed
     ELSE Go(p, "rest", None, 0) /\ removed' = removed \cup {w.src}
  /\ UNCHANGED <<tables, server, index, import, query, answers, named, rare>>

-----------------------------------------------------------------------------
(* kb_query without "kb".  Every search takes the best matches of what it    *)
(* searches and drops the deleted sources only then.  The semantic one looks *)
(* at nothing before its query is embedded; the hybrid one has run its       *)
(* keyword search by then.  With named knowledge bases only those are        *)
(* searched, and they are empty.                                             *)

Best(matches, n) ==
  {b \in SUBSET matches :
     Cardinality(b) = IF Cardinality(matches) < n THEN Cardinality(matches)
                                                  ELSE n}

Gone == {s \in Source : source[s] = "deleted"}

(* Mutant: whoever has its chunks is shown.                                 *)
HasChunks(s) == s \in stored

StillThere(s) == source[s] = "live" /\ s \in stored

KeywordHits(n) == {b \ Gone : b \in Best(stored, n)}
SemanticHits(p, n) == {{s \in b : StillThere(s)} : b \in Best(index[p], n)}

\* An answer without an error; gone: deleted when the query began; due: what
\* it should show if there is room.
Answer(hits, gone, due) ==
  /\ stale' = stale \cup (hits \cap gone)
  /\ missing' = missing \cup
       (IF Chunks * Cardinality(Source) <= Limit THEN due \ hits ELSE {})

Keyword(p) ==
  /\ Free(p)
  /\ \E hits \in IF named THEN {{}} ELSE KeywordHits(Limit) :
        Answer(hits, Gone, {})
  /\ UNCHANGED <<tables, outbox, server, index, work, import, query, named,
                 history>>

Semantic(p) ==
  /\ Free(p) /\ ~named
  /\ \E hits \in SemanticHits(p, Limit) :
        Answer(hits, Gone, {s \in index[p] : StillThere(s)})
  /\ UNCHANGED <<tables, outbox, server, index, work, import, query, named,
                 history>>

\* With no keyword match the hybrid search is the semantic one.
AskHybrid(p) ==
  /\ Free(p) /\ ~named /\ query[p] = NoQuery
  /\ rare < MaxRare /\ rare' = rare + 1
  /\ \E early \in KeywordHits(2 * Limit) \ {{}} :
        query' = [query EXCEPT ![p] =
                    [asked |-> TRUE, early |-> early, gone |-> Gone]]
  /\ UNCHANGED <<tables, outbox, server, index, work, import, named, answers,
                 removed>>

AnswerHybrid(p) ==
  LET q == query[p] IN
  /\ Free(p) /\ q.asked
  /\ \E hits \in SemanticHits(p, 2 * Limit) :
       \E top \in Best(hits \cup q.early, Limit) : Answer(top, q.gone, {})
  /\ query' = [query EXCEPT ![p] = NoQuery]
  /\ UNCHANGED <<tables, outbox, server, index, work, import, named, history>>

\* The dependencies of a named base are copied from a proxy with no keys of
\* its own: they hold no pipeline, and the search throws.  The error of one
\* base is the call's; of several, each is caught and counts as no result.
SemanticNamed(p) ==
  /\ Free(p) /\ named
  /\ Answer({}, Gone, {s \in index[p] : StillThere(s)})
  /\ UNCHANGED <<tables, outbox, server, index, work, import, query, named,
                 history>>

-----------------------------------------------------------------------------
(* The import command with --overwrite, for one record of the file: the     *)
(* duplicate found is marked deleted, its chunk rows are removed, and the   *)
(* record is inserted under a new id.  Nothing is enqueued.                 *)

ImportAt(pc, s) == import' = [pc |-> pc, src |-> s, next |-> 0]

ImportMark ==
  /\ import = Rest
  /\ \E d \in Source : source[d] = "live" /\ Mark(d) /\ ImportAt("purge", d)
  /\ UNCHANGED <<stored, outbox, server, index, work, query, answers, named,
                 history>>

ImportPurge ==
  /\ import.pc = "purge"
  /\ stored' = stored \ {import.src}
  /\ ImportAt("insert", None)
  /\ UNCHANGED <<source, outbox, server, index, work, query, answers, named,
                 history>>

ImportInsert ==
  /\ import.pc = "insert" \/ (import = Rest /\ \A d \in Source : source[d] # "live")
  /\ \E s \in Source : NewSource(s) /\ ImportAt("chunks", s)
  /\ UNCHANGED <<stored, outbox, server, index, work, query, answers, named,
                 history>>

ImportChunks ==
  /\ import.pc = "chunks"
  /\ StoreChunks(import.src)
  /\ import' = Rest
  /\ UNCHANGED <<source, outbox, server, index, work, query, answers, named,
                 removed, rare>>

ImportCrash ==
  /\ import # Rest /\ rare < MaxRare
  /\ import' = Rest /\ rare' = rare + 1
  /\ UNCHANGED <<tables, outbox, server, index, work, query, answers, named,
                 removed>>

\* The DELETE of an id the server never had is answered 404 and given up.
Drain ==
  LET head == Head(outbox) IN
  /\ outbox # <<>>
  /\ outbox' = Tail(outbox)
  /\ server' = IF head.op = "upload" THEN server \cup {head.id}
                                     ELSE server \ {head.id}
  /\ UNCHANGED <<tables, index, work, import, query, answers, named, history>>

Next ==
  \/ \E p \in Proc :
       \/ Start(p) \/ Crash(p)
       \/ InsertSource(p) \/ InsertChunks(p) \/ EnqueueUpload(p)
       \/ FindSource(p) \/ SoftDelete(p) \/ EnqueueDelete(p)
       \/ Keyword(p) \/ Semantic(p) \/ SemanticNamed(p)
       \/ AskHybrid(p) \/ AnswerHybrid(p)
  \/ Drain
  \/ ImportMark \/ ImportPurge \/ ImportInsert \/ ImportChunks \/ ImportCrash

Spec == Init /\ [][Next]_vars

-----------------------------------------------------------------------------
(* No answer shows a source that was already deleted when its query began,  *)
(* whichever process or import deleted it and whatever the answering        *)
(* process still has in its index.                                          *)
AnswersLive == stale = {}

(* What the outbox holds for upload, and what the server got, belongs to a  *)
(* source whose chunk rows were all stored first: a crash leaves local      *)
(* records that are not uploaded, never the reverse.                        *)
UploadsAreStored ==
  \A s \in Source, i \in 0..Chunks :
     \/ Uploaded(s, i) \in server
     \/ \E n \in DOMAIN outbox : outbox[n] = [op |-> "upload", id |-> Uploaded(s, i)]
     => s \in stored \/ source[s] = "deleted"

-----------------------------------------------------------------------------
(* "Enqueue blob deletions for sync (queue processor handles server delete)"*)
(* (cli/tools/kb-delete.ts:37): when nothing is running or queued, the      *)
(* server has no blob of a source kb_delete has deleted.                    *)
DeleteReachesServer ==
  (outbox = <<>> /\ \A p \in Proc : work[p] = Rest) =>
     \A s \in removed : server \cap BlobsOf(s) = {}

(* "Without a kb parameter, searches all KBs and merges results"            *)
(* (cli/mcp-server.ts:84): an answer given without an error shows every     *)
(* source that was live, and in the index, from its query to the answer,    *)
(* when the limit leaves room for all of them.                              *)
AllKBsSearched == missing = {}
=============================================================================
