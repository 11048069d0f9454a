---------------------------- MODULE LocalKBProofs ----------------------------
(***************************************************************************)
(* Proofs about LocalKB, for any number of server processes, sources and   *)
(* chunks and any limit of the queries, and about PullSync, Models,        *)
(* Upgrade and Chunker as MCLocal puts them together, for any number of    *)
(* blobs, processes, files and versions, and any texts.                    *)
(***************************************************************************)
EXTENDS MCLocal, SumProofs, SequenceTheorems

-----------------------------------------------------------------------------
(* What typing says of a process in a call and of one that is free.        *)
LEMMA Working ==
  ASSUME TypeOK, NEW p \in Proc, work[p].pc # "rest"
  PROVE  /\ work[p] \in Work /\ work[p].src \in Source /\ work[p].next \in 0..Chunks
         /\ index[p] \in SUBSET Source
<1>1. work[p] # Rest
  BY DEF Rest
<1>2. work[p] \in Work /\ index[p] \in SUBSET Source
  BY <1>1 DEF TypeOK
<1> QED
  BY <1>2 DEF Work

LEMMA FreeProcess ==
  ASSUME TypeOK, NEW p \in Proc, Free(p)
  PROVE  work[p] = Rest /\ index[p] \in SUBSET Source
BY DEF TypeOK, Free

LEMMA Importing ==
  ASSUME TypeOK, import.pc \in {"purge", "chunks"}
  PROVE  import.src \in Source
<1>1. import # Rest
  BY DEF Rest
<1> QED
  BY <1>1 DEF TypeOK, Import

(* The next statement of a call, or its end.                               *)
LEMMA GoOn ==
  ASSUME TypeOK, NEW p \in Proc, NEW s \in Source, NEW n \in 0..Chunks,
         NEW pc \in {"chunks", "upload", "delete", "rows"}, Go(p, pc, s, n)
  PROVE  /\ work' = [work EXCEPT ![p] = [pc |-> pc, src |-> s, next |-> n]]
         /\ work' \in [Proc -> Work \cup {Rest}]
         /\ work'[p] = [pc |-> pc, src |-> s, next |-> n]
         /\ \A o \in Proc \ {p} : work'[o] = work[o]
<1> DEFINE w == [pc |-> pc, src |-> s, next |-> n]
<1>1. work' = [work EXCEPT ![p] = w]
  BY DEF Go
<1>2. w \in Work
  BY DEF Work
<1> HIDE DEF w
<1>3. /\ work' \in [Proc -> Work \cup {Rest}] /\ work'[p] = w
      /\ \A o \in Proc \ {p} : work'[o] = work[o]
  BY <1>1, <1>2 DEF TypeOK
<1> QED
  BY <1>1, <1>3 DEF w

LEMMA GoRest ==
  ASSUME TypeOK, NEW p \in Proc, Go(p, "rest", None, 0)
  PROVE  /\ work' \in [Proc -> Work \cup {Rest}]
         /\ work'[p] = Rest
         /\ \A o \in Proc \ {p} : work'[o] = work[o]
<1>1. work' = [work EXCEPT ![p] = Rest]
  BY DEF Go
<1> QED
  BY <1>1 DEF TypeOK

(* Ids of the outbox.                                                      *)
LEMMA IdsAreTyped ==
  ASSUME NEW s \in Source
  PROVE  /\ \A i \in 0..Chunks : Uploaded(s, i) \in Id
         /\ \A i \in 1..Chunks : Row(s, i) \in Id
         /\ \A i \in 0..Chunks : Uploaded(s, i) \in Blobs
<1>1. \A i \in 0..Chunks : Uploaded(s, i) \in BlobsOf(s)
  BY DEF BlobsOf
<1>2. BlobsOf(s) \cup {Row(s, i) : i \in 1..Chunks} \subseteq Id
  BY DEF Id
<1> QED
  BY <1>1, <1>2 DEF Blobs

LEMMA EnqueueTyped ==
  ASSUME TypeOK, NEW op, NEW id, Enqueue(op, id),
         \/ op = "upload" /\ id \in Blobs
         \/ op = "delete" /\ id \in Id
  PROVE  outbox' \in Seq(Order)
<1>1. [op |-> op, id |-> id] \in Order
  BY DEF Order
<1> QED
  BY <1>1 DEF TypeOK, Enqueue

LEMMA MarkTyped ==
  ASSUME TypeOK, NEW s \in Source, Mark(s)
  PROVE  /\ source' \in [Source -> {"none", "live", "deleted"}]
         /\ source[s] = "live" => source'[s] = "deleted"
         /\ source[s] = "deleted" => source'[s] = "deleted"
         /\ \A t \in Source \ {s} : source'[t] = source[t]
BY DEF TypeOK, Mark

LEMMA NewSourceTyped ==
  ASSUME TypeOK, NEW s \in Source, NewSource(s)
  PROVE  /\ source' \in [Source -> {"none", "live", "deleted"}]
         /\ source[s] = "none" /\ source'[s] = "live"
         /\ \A t \in Source \ {s} : source'[t] = source[t]
BY DEF TypeOK, NewSource

LEMMA BestMatches == \A S : \A n : \A b \in Best(S, n) : b \subseteq S
BY DEF Best

LEMMA HitsTyped ==
  ASSUME TypeOK, NEW p \in Proc, Free(p), NEW n
  PROVE  /\ \A hits \in KeywordHits(n) : hits \subseteq Source /\ hits \cap Gone = {}
         /\ \A hits \in SemanticHits(p, n) :
               hits \subseteq Source /\ hits \cap Gone = {}
<1>1. stored \subseteq Source /\ index[p] \subseteq Source
  BY FreeProcess DEF TypeOK
<1>2. ASSUME NEW hits \in KeywordHits(n)
      PROVE  hits \subseteq Source /\ hits \cap Gone = {}
  <2>1. PICK b \in Best(stored, n) : hits = b \ Gone
    BY DEF KeywordHits
  <2>2. b \subseteq stored
    BY BestMatches
  <2> QED
    BY <1>1, <2>1, <2>2
<1>3. ASSUME NEW hits \in SemanticHits(p, n)
      PROVE  hits \subseteq Source /\ hits \cap Gone = {}
  <2>1. PICK b \in Best(index[p], n) : hits = {s \in b : StillThere(s)}
    BY DEF SemanticHits
  <2>2. b \subseteq index[p]
    BY BestMatches
  <2> QED
    BY <1>1, <2>1, <2>2 DEF StillThere, Gone
<1> QED
  BY <1>2, <1>3

-----------------------------------------------------------------------------
(* The type invariant.                                                     *)

LEMMA InitTypes == Init => TypeOK
BY LocalAssumption DEF Init, TypeOK

LEMMA NextTypes ==
  ASSUME TypeOK, [Next]_vars
  PROVE  TypeOK'
<1> USE LocalAssumption
<1>1. ASSUME NEW p \in Proc, Start(p) PROVE TypeOK'
  <2>1. index[p] = None /\ work[p] = Rest /\ query[p] = NoQuery
    BY <1>1 DEF Start, TypeOK
  <2>2. /\ index' \in [Proc -> (SUBSET Source) \cup {None}]
        /\ \A o \in Proc \ {p} : index'[o] = index[o]
    BY <1>1 DEF Start, Loaded, TypeOK
  <2>3. \A o \in Proc : index'[o] = None => work'[o] = Rest /\ query'[o] = NoQuery
    BY <1>1, <2>1, <2>2 DEF Start, TypeOK
  <2> QED
    BY <1>1, <2>2, <2>3 DEF Start, TypeOK, tables, answers, history
<1>2. ASSUME NEW p \in Proc, Crash(p) PROVE TypeOK'
  <2>1. /\ index' \in [Proc -> (SUBSET Source) \cup {None}]
        /\ work' \in [Proc -> Work \cup {Rest}]
        /\ query' \in [Proc -> Query \cup {NoQuery}]
        /\ work'[p] = Rest /\ query'[p] = NoQuery
        /\ \A o \in Proc \ {p} : /\ index'[o] = index[o] /\ work'[o] = work[o]
                                 /\ query'[o] = query[o]
    BY <1>2 DEF Crash, TypeOK
  <2>2. \A o \in Proc : index'[o] = None => work'[o] = Rest /\ query'[o] = NoQuery
    BY <2>1 DEF TypeOK
  <2>3. rare' \in 0..MaxRare
    BY <1>2 DEF Crash, TypeOK
  <2> QED
    BY <1>2, <2>1, <2>2, <2>3 DEF Crash, TypeOK, tables, answers
<1>3. ASSUME NEW p \in Proc, InsertSource(p) PROVE TypeOK'
  <2>1. PICK s \in Source : NewSource(s) /\ Go(p, "chunks", s, 0)
    BY <1>3 DEF InsertSource
  <2>2. index[p] # None /\ 0 \in 0..Chunks
    BY <1>3 DEF InsertSource, Free
  <2>3. /\ work' \in [Proc -> Work \cup {Rest}]
        /\ \A o \in Proc \ {p} : work'[o] = work[o]
    BY <2>1, <2>2, GoOn
  <2> QED
    BY <1>3, <2>1, <2>2, <2>3, NewSourceTyped DEF InsertSource, TypeOK, answers, history
<1>4. ASSUME NEW p \in Proc, InsertChunks(p) PROVE TypeOK'
  <2>1. work[p].src \in Source /\ index[p] \in SUBSET Source /\ 0 \in 0..Chunks
    BY <1>4, Working DEF InsertChunks
  <2>2. Go(p, "upload", work[p].src, 0) /\ stored' \subseteq Source
    BY <1>4, <2>1 DEF InsertChunks, StoreChunks, TypeOK
  <2>3. /\ index' \in [Proc -> (SUBSET Source) \cup {None}]
        /\ index'[p] \in SUBSET Source
        /\ \A o \in Proc \ {p} : index'[o] = index[o]
    BY <1>4, <2>1 DEF InsertChunks, TypeOK
  <2>4. /\ work' \in [Proc -> Work \cup {Rest}]
        /\ \A o \in Proc \ {p} : work'[o] = work[o]
    BY <2>1, <2>2, GoOn
  <2>5. \A o \in Proc : index'[o] = None => work'[o] = Rest /\ query'[o] = NoQuery
    BY <1>4, <2>3, <2>4 DEF InsertChunks, TypeOK
  <2> QED
    BY <1>4, <2>2, <2>3, <2>4, <2>5 DEF InsertChunks, TypeOK, answers, history
<1>5. ASSUME NEW p \in Proc, EnqueueUpload(p) PROVE TypeOK'
  <2>1. work[p].src \in Source /\ work[p].next \in 0..Chunks
    BY <1>5, Working DEF EnqueueUpload
  <2>2. index[p] # None
    BY <1>5 DEF EnqueueUpload, TypeOK, Rest
  <2>3. outbox' \in Seq(Order)
    BY <1>5, <2>1, IdsAreTyped, EnqueueTyped DEF EnqueueUpload
  <2>4. /\ work' \in [Proc -> Work \cup {Rest}]
        /\ \A o \in Proc \ {p} : work'[o] = work[o]
    <3>1. CASE work[p].next < Chunks
      <4>1. Go(p, "upload", work[p].src, work[p].next + 1)
        BY <1>5, <3>1 DEF EnqueueUpload
      <4>2. work[p].next + 1 \in 0..Chunks
        BY <2>1, <3>1
      <4> QED
        BY <2>1, <4>1, <4>2, GoOn
    <3>2. CASE ~(work[p].next < Chunks)
      BY <1>5, <3>2, GoRest DEF EnqueueUpload
    <3> QED
      BY <3>1, <3>2
  <2> QED
    BY <1>5, <2>2, <2>3, <2>4 DEF EnqueueUpload, TypeOK, tables, answers, history
<1>6. ASSUME NEW p \in Proc, FindSource(p) PROVE TypeOK'
  <2>1. PICK s \in Source : Go(p, "delete", s, 0)
    BY <1>6 DEF FindSource
  <2>2. index[p] # None /\ 0 \in 0..Chunks
    BY <1>6 DEF FindSource, Free
  <2>3. /\ work' \in [Proc -> Work \cup {Rest}]
        /\ \A o \in Proc \ {p} : work'[o] = work[o]
    BY <2>1, <2>2, GoOn
  <2> QED
    BY <1>6, <2>2, <2>3 DEF FindSource, TypeOK, tables, answers, history
<1>7. ASSUME NEW p \in Proc, SoftDelete(p) PROVE TypeOK'
  <2>1. work[p].src \in Source /\ index[p] \in SUBSET Source /\ 0 \in 0..Chunks
    BY <1>7, Working DEF SoftDelete
  <2>2. source' \in [Source -> {"none", "live", "deleted"}]
    BY <1>7, <2>1, MarkTyped DEF SoftDelete
  <2>3. /\ index' \in [Proc -> (SUBSET Source) \cup {None}]
        /\ index'[p] \in SUBSET Source
        /\ \A o \in Proc \ {p} : index'[o] = index[o]
    BY <1>7, <2>1 DEF SoftDelete, TypeOK
  <2>4. /\ work' \in [Proc -> Work \cup {Rest}]
        /\ \A o \in Proc \ {p} : work'[o] = work[o]
    BY <1>7, <2>1, GoOn, GoRest DEF SoftDelete
  <2>5. \A o \in Proc : index'[o] = None => work'[o] = Rest /\ query'[o] = NoQuery
    BY <1>7, <2>3, <2>4 DEF SoftDelete, TypeOK
  <2> QED
    BY <1>7, <2>2, <2>3, <2>4, <2>5 DEF SoftDelete, TypeOK, answers, history
<1>8. ASSUME NEW p \in Proc, EnqueueDelete(p) PROVE TypeOK'
  <2> DEFINE w == work[p]
             last == IF w.next > 0 \/ w.src \in stored THEN Chunks ELSE 0
  <2>1. w.src \in Source /\ w.next \in 0..Chunks
    BY <1>8, Working DEF EnqueueDelete
  <2>2. index[p] # None
    BY <1>8 DEF EnqueueDelete, TypeOK, Rest
  <2>3. outbox' \in Seq(Order)
    <3>1. (IF w.next = 0 THEN Uploaded(w.src, 0) ELSE Row(w.src, w.next)) \in Id
      BY <2>1, IdsAreTyped
    <3> QED
      BY <1>8, <3>1, EnqueueTyped DEF EnqueueDelete
  <2>4. /\ work' \in [Proc -> Work \cup {Rest}]
        /\ \A o \in Proc \ {p} : work'[o] = work[o]
        /\ removed' \subseteq Source
    <3>1. CASE w.next < last
      <4>1. Go(p, "rows", w.src, w.next + 1) /\ removed' = removed
        BY <1>8, <3>1 DEF EnqueueDelete
      <4>2. w.next + 1 \in 0..Chunks
        BY <2>1, <3>1
      <4> QED
        BY <2>1, <4>1, <4>2, GoOn DEF TypeOK
    <3>2. CASE ~(w.next < last)
      BY <1>8, <2>1, <3>2, GoRest DEF EnqueueDelete, TypeOK
    <3> QED
      BY <3>1, <3>2
  <2> HIDE DEF w, last
  <2> QED
    BY <1>8, <2>2, <2>3, <2>4 DEF EnqueueDelete, TypeOK, tables, answers
<1>9. ASSUME NEW p \in Proc, Keyword(p) \/ Semantic(p) \/ SemanticNamed(p) PROVE TypeOK'
  BY <1>9 DEF Keyword, Semantic, SemanticNamed, TypeOK, tables, history
<1>10. ASSUME NEW p \in Proc, AskHybrid(p) PROVE TypeOK'
  <2>1. PICK early \in KeywordHits(2 * Limit) :
          query' = [query EXCEPT ![p] =
                      [asked |-> TRUE, early |-> early, gone |-> Gone]]
    BY <1>10 DEF AskHybrid
  <2>2. early \subseteq Source /\ Gone \subseteq Source /\ index[p] # None
    BY <1>10, HitsTyped DEF AskHybrid, Gone, Free
  <2>3. [asked |-> TRUE, early |-> early, gone |-> Gone] \in Query
    BY <2>2 DEF Query
  <2>4. query' \in [Proc -> Query \cup {NoQuery}]
    BY <2>1, <2>3 DEF TypeOK
  <2>5. \A o \in Proc \ {p} : query'[o] = query[o]
    BY <2>1 DEF TypeOK
  <2>6. rare' \in 0..MaxRare
    BY <1>10 DEF AskHybrid, TypeOK
  <2> QED
    BY <1>10, <2>2, <2>4, <2>5, <2>6 DEF AskHybrid, TypeOK, tables, answers
<1>11. ASSUME NEW p \in Proc, AnswerHybrid(p) PROVE TypeOK'
  <2>1. /\ query' \in [Proc -> Query \cup {NoQuery}] /\ query'[p] = NoQuery
        /\ \A o \in Proc \ {p} : query'[o] = query[o]
    BY <1>11 DEF AnswerHybrid, TypeOK
  <2> QED
    BY <1>11, <2>1 DEF AnswerHybrid, TypeOK, tables, history
<1>12. ASSUME Drain PROVE TypeOK'
  <2>1. outbox' \in Seq(Order) /\ Head(outbox) \in Order
    BY <1>12 DEF Drain, TypeOK
  <2>2. Head(outbox).op = "upload" => Head(outbox).id \in Blobs
    BY <2>1 DEF Order
  <2> QED
    BY <1>12, <2>1, <2>2 DEF Drain, TypeOK, tables, answers, history
<1>13. ASSUME ImportMark PROVE TypeOK'
  <2>1. PICK d \in Source : Mark(d) /\ ImportAt("purge", d)
    BY <1>13 DEF ImportMark
  <2>2. import' \in Import
    BY <2>1 DEF ImportAt, Import
  <2> QED
    BY <1>13, <2>1, <2>2, MarkTyped DEF ImportMark, TypeOK, answers, history
<1>14. ASSUME ImportPurge PROVE TypeOK'
  <2>1. import' \in Import
    BY <1>14 DEF ImportPurge, ImportAt, Import
  <2> QED
    BY <1>14, <2>1 DEF ImportPurge, TypeOK, answers, history
<1>15. ASSUME ImportInsert PROVE TypeOK'
  <2>1. PICK s \in Source : NewSource(s) /\ ImportAt("chunks", s)
    BY <1>15 DEF ImportInsert
  <2>2. import' \in Import
    BY <2>1 DEF ImportAt, Import
  <2> QED
    BY <1>15, <2>1, <2>2, NewSourceTyped DEF ImportInsert, TypeOK, answers, history
<1>16. ASSUME ImportChunks PROVE TypeOK'
  BY <1>16, Importing DEF ImportChunks, StoreChunks, TypeOK, answers, history
<1>17. ASSUME ImportCrash PROVE TypeOK'
  BY <1>17 DEF ImportCrash, TypeOK, tables, answers
<1>18. CASE UNCHANGED vars
  BY <1>18 DEF vars, TypeOK
<1> QED
  BY <1>1, <1>2, <1>3, <1>4, <1>5, <1>6, <1>7, <1>8, <1>9, <1>10, <1>11, <1>12,
     <1>13, <1>14, <1>15, <1>16, <1>17, <1>18 DEF Next

(* Every order of the outbox names a blob, or a row, of some source, and a *)
(* process that is not running is in no call and awaits no answer.         *)
THEOREM TypeCorrect == Spec => []TypeOK
<1> QED
  BY InitTypes, NextTypes, PTL DEF Spec

-----------------------------------------------------------------------------
(* Deletion is for good: no statement makes a source live again.           *)

Dead(s) == source[s] = "deleted"

LEMMA DeletionIsFinal ==
  ASSUME TypeOK, [Next]_vars, NEW s \in Source, Dead(s)
  PROVE  Dead(s)'
<1>1. ASSUME NEW p \in Proc, SoftDelete(p) PROVE Dead(s)'
  BY <1>1, Working, MarkTyped DEF SoftDelete, Dead
<1>2. ASSUME NEW t \in Source, NewSource(t) PROVE Dead(s)'
  BY <1>2, NewSourceTyped DEF Dead
<1>3. ASSUME NEW t \in Source, Mark(t) PROVE Dead(s)'
  BY <1>3, MarkTyped DEF Dead
<1>4. CASE UNCHANGED source
  BY <1>4 DEF Dead
<1> QED
  BY <1>1, <1>2, <1>3, <1>4
  DEF Next, vars, Start, Crash, InsertSource, InsertChunks, EnqueueUpload, FindSource,
      EnqueueDelete, Keyword, Semantic, SemanticNamed, AskHybrid, AnswerHybrid, Drain,
      ImportMark, ImportPurge, ImportInsert, ImportChunks, ImportCrash, tables

(* What a hybrid query found by keyword was not deleted when it began; what *)
(* was deleted then still is when the answer is put together.               *)
Remembers(p) == /\ query[p].early \cap query[p].gone = {}
                /\ \A s \in query[p].gone : s \in Source /\ Dead(s)

AnswerInv == /\ TypeOK
             /\ \A p \in Proc : Remembers(p)
             /\ AnswersLive

LEMMA RemembersNothing ==
  ASSUME NEW p \in Proc, query[p] = NoQuery
  PROVE  Remembers(p)
BY DEF Remembers, NoQuery

LEMMA InitAnswers == Init => AnswerInv
<1> SUFFICES ASSUME Init PROVE AnswerInv
  OBVIOUS
<1>1. \A p \in Proc : Remembers(p)
  BY RemembersNothing DEF Init
<1> QED
  BY <1>1, InitTypes DEF Init, AnswerInv, AnswersLive

(* The query of a process changes only when it asks, is answered or ends.  *)
LEMMA QueryKept ==
  ASSUME AnswerInv, [Next]_vars, NEW p \in Proc, query'[p] = query[p]
  PROVE  Remembers(p)'
BY DeletionIsFinal DEF AnswerInv, Remembers

LEMMA NextRemembers ==
  ASSUME AnswerInv, [Next]_vars, NEW p \in Proc
  PROVE  Remembers(p)'
<1> USE DEF AnswerInv
<1>1. ASSUME NEW o \in Proc, Crash(o) PROVE Remembers(p)'
  <2>1. query'[p] = query[p] \/ query'[p] = NoQuery
    BY <1>1 DEF Crash, TypeOK
  <2> QED
    BY <2>1, QueryKept DEF Remembers, NoQuery
<1>2. ASSUME NEW o \in Proc, AnswerHybrid(o) PROVE Remembers(p)'
  <2>1. query'[p] = query[p] \/ query'[p] = NoQuery
    BY <1>2 DEF AnswerHybrid, TypeOK
  <2> QED
    BY <2>1, QueryKept DEF Remembers, NoQuery
<1>3. ASSUME NEW o \in Proc, AskHybrid(o) PROVE Remembers(p)'
  <2>1. PICK early \in KeywordHits(2 * Limit) :
          query' = [query EXCEPT ![o] =
                      [asked |-> TRUE, early |-> early, gone |-> Gone]]
    BY <1>3 DEF AskHybrid
  <2>2. /\ p # o => query'[p] = query[p]
        /\ query'[o] = [asked |-> TRUE, early |-> early, gone |-> Gone]
    BY <2>1 DEF TypeOK
  <2>3. early \cap Gone = {}
    BY <1>3, <2>1, HitsTyped DEF AskHybrid
  <2>4. \A s \in Gone : s \in Source /\ Dead(s)'
    BY DeletionIsFinal DEF Gone, Dead
  <2>5. CASE p = o
    BY <2>2, <2>3, <2>4, <2>5 DEF Remembers
  <2> QED
    BY <2>2, <2>5, QueryKept
<1>4. CASE UNCHANGED query
  BY <1>4, QueryKept
<1> QED
  BY <1>1, <1>2, <1>3, <1>4
  DEF Next, vars, Start, InsertSource, InsertChunks, EnqueueUpload, FindSource,
      SoftDelete, EnqueueDelete, Keyword, Semantic, SemanticNamed, Drain,
      ImportMark, ImportPurge, ImportInsert, ImportChunks, ImportCrash

LEMMA NextAnswersLive ==
  ASSUME AnswerInv, [Next]_vars
  PROVE  AnswersLive'
<1> USE DEF AnswerInv, AnswersLive
<1>1. ASSUME NEW p \in Proc, Keyword(p) PROVE stale' = {}
  <2>1. PICK hits \in IF named THEN {{}} ELSE KeywordHits(Limit) :
          Answer(hits, Gone, {})
    BY <1>1 DEF Keyword
  <2>2. hits \cap Gone = {}
    BY <1>1, <2>1, HitsTyped DEF Keyword
  <2> QED
    BY <2>1, <2>2 DEF Answer
<1>2. ASSUME NEW p \in Proc, Semantic(p) PROVE stale' = {}
  <2>1. PICK hits \in SemanticHits(p, Limit) :
          Answer(hits, Gone, {s \in index[p] : StillThere(s)})
    BY <1>2 DEF Semantic
  <2>2. hits \cap Gone = {}
    BY <1>2, <2>1, HitsTyped DEF Semantic
  <2> QED
    BY <2>1, <2>2 DEF Answer
<1>3. ASSUME NEW p \in Proc, SemanticNamed(p) PROVE stale' = {}
  BY <1>3 DEF SemanticNamed, Answer
<1>4. ASSUME NEW p \in Proc, AnswerHybrid(p) PROVE stale' = {}
  <2>1. PICK hits \in SemanticHits(p, 2 * Limit) :
          \E top \in Best(hits \cup query[p].early, Limit) :
             Answer(top, query[p].gone, {})
    BY <1>4 DEF AnswerHybrid
  <2>2. PICK top \in Best(hits \cup query[p].early, Limit) :
          Answer(top, query[p].gone, {})
    BY <2>1
  <2>3. top \subseteq hits \cup query[p].early
    BY BestMatches
  <2>4. hits \cap Gone = {}
    BY <1>4, <2>1, HitsTyped DEF AnswerHybrid
  <2>5. query[p].gone \subseteq Gone /\ query[p].early \cap query[p].gone = {}
    BY DEF Remembers, Dead, Gone
  <2>6. top \cap query[p].gone = {}
    BY <2>3, <2>4, <2>5
  <2> QED
    BY <2>2, <2>6 DEF Answer
<1>5. CASE UNCHANGED stale
  BY <1>5
<1> QED
  BY <1>1, <1>2, <1>3, <1>4, <1>5
  DEF Next, vars, Start, Crash, InsertSource, InsertChunks, EnqueueUpload, FindSource,
      SoftDelete, EnqueueDelete, AskHybrid, Drain, ImportMark, ImportPurge,
      ImportInsert, ImportChunks, ImportCrash, answers

(* No answer shows a source that was deleted when its query began, however *)
(* many processes and imports delete and insert while the query waits for  *)
(* its embedding, and however old the index of the process is.             *)
THEOREM AnswersShowTheLiving == Spec => []AnswersLive
<1>1. Init => AnswerInv
  BY InitAnswers
<1>2. AnswerInv /\ [Next]_vars => AnswerInv'
  BY NextTypes, NextRemembers, NextAnswersLive DEF AnswerInv
<1>3. AnswerInv => AnswersLive
  BY DEF AnswerInv
<1> QED
  BY <1>1, <1>2, <1>3, PTL DEF Spec

-----------------------------------------------------------------------------
(* Only what is stored goes to the server.                                 *)

Safe(s) == s \in stored \/ Dead(s)

Sent(b) == \/ b \in server
           \/ \E n \in DOMAIN outbox : outbox[n] = [op |-> "upload", id |-> b]

(* The process that enqueues the uploads of a source has stored its rows,  *)
(* and the import takes away rows of deleted sources only.                 *)
StoredInv ==
  /\ TypeOK
  /\ \A p \in Proc : work[p].pc = "upload" => Safe(work[p].src)
  /\ import.pc = "purge" => Dead(import.src)
  /\ \A s \in Source, i \in 0..Chunks : Sent(Uploaded(s, i)) => Safe(s)

LEMMA InitStored == Init => StoredInv
<1> SUFFICES ASSUME Init PROVE StoredInv
  OBVIOUS
<1>1. \A b : ~Sent(b)
  BY DEF Init, Sent
<1> QED
  BY <1>1, InitTypes DEF Init, StoredInv, Rest

(* A source that is stored or deleted stays so: rows are taken away only   *)
(* from the source the import has marked.                                  *)
LEMMA SafeStays ==
  ASSUME StoredInv, [Next]_vars, NEW s \in Source, Safe(s)
  PROVE  Safe(s)'
<1>1. ASSUME ImportPurge PROVE Safe(s)'
  <2>1. CASE s = import.src
    BY <1>1, <2>1, DeletionIsFinal DEF ImportPurge, StoredInv, Safe
  <2>2. CASE s # import.src
    BY <1>1, <2>2, DeletionIsFinal DEF ImportPurge, StoredInv, Safe
  <2> QED
    BY <2>1, <2>2
<1>2. ASSUME ~ImportPurge PROVE stored \subseteq stored'
  BY <1>2
  DEF Next, vars, Start, Crash, InsertSource, InsertChunks, EnqueueUpload, FindSource,
      SoftDelete, EnqueueDelete, Keyword, Semantic, SemanticNamed, AskHybrid,
      AnswerHybrid, Drain, ImportMark, ImportInsert, ImportChunks, ImportCrash,
      StoreChunks, tables
<1> QED
  BY <1>1, <1>2, DeletionIsFinal DEF Safe, StoredInv

(* What is sent after a step was sent before it, or is what a process just *)
(* enqueued for a source whose rows it had stored.                         *)
LEMMA AppendSends ==
  ASSUME TypeOK, NEW op, NEW id, Enqueue(op, id), UNCHANGED server,
         NEW b, Sent(b)'
  PROVE  Sent(b) \/ (op = "upload" /\ b = id)
<1>1. CASE b \in server
  BY <1>1 DEF Sent
<1>2. CASE b \notin server
  <2>1. PICK n \in DOMAIN outbox' : outbox'[n] = [op |-> "upload", id |-> b]
    BY <1>2 DEF Sent
  <2>2. outbox' = Append(outbox, [op |-> op, id |-> id]) /\ outbox \in Seq(Order)
    BY DEF Enqueue, TypeOK
  <2>3. CASE n \in DOMAIN outbox
    BY <2>1, <2>2, <2>3 DEF Sent
  <2>4. CASE n \notin DOMAIN outbox
    <3>1. outbox'[n] = [op |-> op, id |-> id]
      BY <2>1, <2>2, <2>4
    <3>2. [op |-> op, id |-> id].op = "upload" /\ [op |-> op, id |-> id].id = b
      BY <2>1, <3>1
    <3> QED
      BY <3>2
  <2> QED
    BY <2>3, <2>4
<1> QED
  BY <1>1, <1>2

LEMMA DrainSends ==
  ASSUME TypeOK, Drain, NEW b, Sent(b)'
  PROVE  Sent(b)
<1>1. outbox \in Seq(Order) /\ outbox # <<>> /\ outbox' = Tail(outbox)
  BY DEF Drain, TypeOK
<1>2. CASE b \in server'
  <2>1. CASE b \in server
    BY <2>1 DEF Sent
  <2>2. CASE b \notin server
    <3>1. Head(outbox).op = "upload" /\ Head(outbox).id = b
      BY <1>2, <2>2 DEF Drain
    <3>2. Head(outbox) \in Order /\ 1 \in DOMAIN outbox /\ Head(outbox) = outbox[1]
      BY <1>1
    <3>3. Head(outbox) = [op |-> "upload", id |-> b]
      BY <3>1, <3>2 DEF Order
    <3> QED
      BY <3>2, <3>3 DEF Sent
  <2> QED
    BY <2>1, <2>2
<1>3. CASE b \notin server'
  <2>1. PICK n \in DOMAIN outbox' : outbox'[n] = [op |-> "upload", id |-> b]
    BY <1>3 DEF Sent
  <2>2. n + 1 \in DOMAIN outbox /\ outbox'[n] = outbox[n + 1]
    BY <1>1, <2>1
  <2> QED
    BY <2>1, <2>2 DEF Sent
<1> QED
  BY <1>2, <1>3

LEMMA NewlySent ==
  ASSUME StoredInv, [Next]_vars, NEW s \in Source, NEW i \in 0..Chunks,
         Sent(Uploaded(s, i))'
  PROVE  Safe(s)
<1>1. TypeOK /\ (Sent(Uploaded(s, i)) => Safe(s))
  BY DEF StoredInv
<1>2. ASSUME NEW p \in Proc, EnqueueUpload(p) PROVE Safe(s)
  <2>1. \/ Sent(Uploaded(s, i))
        \/ Uploaded(s, i) = Uploaded(work[p].src, work[p].next)
    BY <1>1, <1>2, AppendSends DEF EnqueueUpload
  <2>2. Uploaded(s, i) = Uploaded(work[p].src, work[p].next) => s = work[p].src
    BY DEF Uploaded
  <2>3. Safe(work[p].src)
    BY <1>2 DEF EnqueueUpload, StoredInv
  <2> QED
    BY <1>1, <2>1, <2>2, <2>3
<1>3. ASSUME NEW p \in Proc, EnqueueDelete(p) PROVE Safe(s)
  BY <1>1, <1>3, AppendSends DEF EnqueueDelete
<1>4. ASSUME Drain PROVE Safe(s)
  BY <1>1, <1>4, DrainSends
<1>5. CASE UNCHANGED <<outbox, server>>
  BY <1>1, <1>5 DEF Sent
<1> QED
  BY <1>2, <1>3, <1>4, <1>5
  DEF Next, vars, Start, Crash, InsertSource, InsertChunks, FindSource, SoftDelete,
      Keyword, Semantic, SemanticNamed, AskHybrid, AnswerHybrid, ImportMark,
      ImportPurge, ImportInsert, ImportChunks, ImportCrash

(* A process comes to enqueue uploads only by storing the rows first.      *)
LEMMA UploadsStart ==
  ASSUME StoredInv, [Next]_vars, NEW p \in Proc, NEW s \in Source,
         work'[p].pc = "upload", work'[p].src = s
  PROVE  Safe(s)'
<1>1. TypeOK
  BY DEF StoredInv
<1>2. CASE work'[p] = work[p]
  <2>1. work[p].src \in Source /\ Safe(work[p].src)
    BY <1>1, <1>2, Working DEF StoredInv
  <2> QED
    BY <1>2, <2>1, SafeStays
<1>3. ASSUME InsertChunks(p) PROVE Safe(s)'
  <2>1. work[p].src \in Source /\ 0 \in 0..Chunks
    BY <1>1, <1>3, Working, LocalAssumption DEF InsertChunks
  <2>2. work'[p] = [pc |-> "upload", src |-> work[p].src, next |-> 0]
    BY <1>1, <1>3 DEF InsertChunks, Go, TypeOK
  <2> QED
    BY <1>3, <2>2 DEF InsertChunks, StoreChunks, Safe
<1>4. ASSUME EnqueueUpload(p) PROVE Safe(s)'
  <2>1. work[p].src \in Source /\ work[p].next \in 0..Chunks /\ Safe(work[p].src)
    BY <1>1, <1>4, Working DEF EnqueueUpload, StoredInv
  <2>2. work'[p].src = work[p].src
    <3>1. work[p].next < Chunks
      BY <1>1, <1>4, GoRest DEF EnqueueUpload, Rest
    <3>2. Go(p, "upload", work[p].src, work[p].next + 1)
      BY <1>4, <3>1 DEF EnqueueUpload
    <3>3. work'[p] = [pc |-> "upload", src |-> work[p].src, next |-> work[p].next + 1]
      BY <1>1, <3>2 DEF Go, TypeOK
    <3> QED
      BY <3>3
  <2> QED
    BY <2>1, <2>2, SafeStays
<1>5. ASSUME ~InsertChunks(p), ~EnqueueUpload(p) PROVE work'[p] = work[p]
  <2>1. ASSUME NEW o \in Proc, NEW pc, NEW t, NEW n, Go(o, pc, t, n), o # p
        PROVE  work'[p] = work[p]
    BY <1>1, <2>1 DEF Go, TypeOK
  <2>2. ASSUME NEW pc \in {"chunks", "delete", "rows", "rest"}, NEW t, NEW n,
               Go(p, pc, t, n)
        PROVE  FALSE
    BY <1>1, <2>2 DEF Go, TypeOK, Rest
  <2>3. ASSUME NEW o \in Proc, Crash(o) PROVE work'[p] = work[p]
    BY <1>1, <2>3 DEF Crash, TypeOK, Rest
  <2>4. ASSUME NEW o \in Proc, InsertChunks(o) PROVE work'[p] = work[p]
    BY <1>5, <2>1, <2>4 DEF InsertChunks
  <2>5. ASSUME NEW o \in Proc, EnqueueUpload(o) PROVE work'[p] = work[p]
    BY <1>5, <2>1, <2>5 DEF EnqueueUpload
  <2>6. ASSUME NEW o \in Proc, InsertSource(o) PROVE work'[p] = work[p]
    BY <2>1, <2>2, <2>6 DEF InsertSource
  <2>7. ASSUME NEW o \in Proc, FindSource(o) PROVE work'[p] = work[p]
    BY <2>1, <2>2, <2>7 DEF FindSource
  <2>8. ASSUME NEW o \in Proc, SoftDelete(o) PROVE work'[p] = work[p]
    BY <2>1, <2>2, <2>8 DEF SoftDelete
  <2>9. ASSUME NEW o \in Proc, EnqueueDelete(o) PROVE work'[p] = work[p]
    BY <2>1, <2>2, <2>9 DEF EnqueueDelete
  <2>10. CASE UNCHANGED work
    BY <2>10
  <2> QED
    BY <2>3, <2>4, <2>5, <2>6, <2>7, <2>8, <2>9, <2>10
    DEF Next, vars, Start, Keyword, Semantic, SemanticNamed, AskHybrid, AnswerHybrid,
        Drain, ImportMark, ImportPurge, ImportInsert, ImportChunks, ImportCrash
<1> QED
  BY <1>2, <1>3, <1>4, <1>5

(* The import purges the source it has just marked.                        *)
LEMMA PurgesTheDead ==
  ASSUME StoredInv, [Next]_vars, NEW s \in Source,
         import'.pc = "purge", import'.src = s
  PROVE  Dead(s)'
<1>1. TypeOK
  BY DEF StoredInv
<1>2. ASSUME ImportMark PROVE Dead(s)'
  <2>1. PICK d \in Source : source[d] = "live" /\ Mark(d) /\ ImportAt("purge", d)
    BY <1>2 DEF ImportMark
  <2> QED
    BY <1>1, <2>1, MarkTyped DEF ImportAt, Dead
<1>3. CASE UNCHANGED import
  BY <1>1, <1>3, Importing, DeletionIsFinal DEF StoredInv
<1>4. ASSUME ImportPurge \/ ImportInsert \/ ImportChunks \/ ImportCrash PROVE FALSE
  BY <1>4 DEF ImportPurge, ImportInsert, ImportChunks, ImportCrash, ImportAt, Rest
<1> QED
  BY <1>2, <1>3, <1>4
  DEF Next, vars, Start, Crash, InsertSource, InsertChunks, EnqueueUpload, FindSource,
      SoftDelete, EnqueueDelete, Keyword, Semantic, SemanticNamed, AskHybrid,
      AnswerHybrid, Drain

(* Whatever the outbox holds for upload or the server was sent belongs to  *)
(* a source whose chunk rows were all stored first, wherever processes     *)
(* died and whatever an import replaced meanwhile.                         *)
THEOREM UploadsFollowStorage == Spec => []UploadsAreStored
<1>1. Init => StoredInv
  BY InitStored
<1>2. StoredInv /\ [Next]_vars => StoredInv'
  <2> SUFFICES ASSUME StoredInv, [Next]_vars PROVE StoredInv'
    OBVIOUS
  <2>1. TypeOK'
    BY NextTypes DEF StoredInv
  <2>2. \A s \in Source, i \in 0..Chunks : Sent(Uploaded(s, i))' => Safe(s)'
    BY NewlySent, SafeStays
  <2>3. \A p \in Proc : (work[p].pc = "upload" => Safe(work[p].src))'
    <3> SUFFICES ASSUME NEW p \in Proc, NEW s, work'[p].pc = "upload", work'[p].src = s
                 PROVE  Safe(s)'
      BY DEF Safe, Dead
    <3>1. s \in Source
      BY <2>1 DEF TypeOK, Work, Rest
    <3> QED
      BY <3>1, UploadsStart
  <2>4. (import.pc = "purge" => Dead(import.src))'
    <3> SUFFICES ASSUME NEW s, import'.pc = "purge", import'.src = s
                 PROVE  Dead(s)'
      BY DEF Dead
    <3>1. s \in Source
      BY <2>1 DEF TypeOK, Import, Rest
    <3> QED
      BY <3>1, PurgesTheDead
  <2> QED
    BY <2>1, <2>2, <2>3, <2>4 DEF StoredInv
<1>3. StoredInv => UploadsAreStored
  BY DEF StoredInv, UploadsAreStored, Sent, Safe, Dead
<1> QED
  BY <1>1, <1>2, <1>3, PTL DEF Spec

-----------------------------------------------------------------------------
(***************************************************************************)
(* Pulls.                                                                  *)
(***************************************************************************)

Pull == [pc : {"rest", "next", "download"}, full : BOOLEAN, blobs : SUBSET P!Item,
         tombs : SUBSET Source, at : P!Item \cup {None}, failed : SUBSET P!Item,
         late : SUBSET Source]

PullTypes ==
  /\ row \in [P!Item -> [is : {"none", "live", "deleted"}, at : 0..MaxTime]]
  /\ row[Meta].is = "live"
  /\ listable \subseteq P!Item
  /\ status \in [Source -> {"none", "local_only", "synced", "pending_delete"}]
  /\ edited \in [Source -> 0..MaxTime]
  /\ lastSync \in 0..MaxTime \cup {None}
  /\ pull \in Pull /\ deletes \subseteq Source
  /\ pull.at # None => pull.at \in pull.blobs
  /\ pull.full => pull.blobs \cup pull.failed \subseteq Source
  /\ pull.pc = "rest" <=> pull = P!NoPull
  /\ pull.pc = "download" <=> pull.at # None
  /\ skipped \subseteq Source /\ now \in 0..MaxTime

(* Nothing was changed, and no pull has ended, later than now.             *)
Past ==
  /\ \A b \in Source : row[b].at <= now
  /\ lastSync # None => lastSync <= now

(* What a pull's list showed is known already, or on its way, or failed.   *)
Listed == pull # P!NoPull =>
  \A b \in Source \ (skipped \cup pull.late) :
    /\ row[b].is = "live" => status[b] # "none" \/ b \in pull.blobs \cup pull.failed
    /\ row[b].is = "deleted" => status[b] # "synced" \/ b \in pull.tombs

PullInv == PullTypes /\ Past /\ Listed /\ P!NothingSkipped

LEMMA NoPullIs ==
  /\ P!NoPull \in Pull /\ P!NoPull.pc = "rest" /\ P!NoPull.at = None
  /\ P!NoPull.full = FALSE
BY PartsAssumption DEF P!NoPull, Pull

LEMMA ItemsAre ==
  /\ Meta \notin Source /\ None \notin Source /\ None # Meta /\ None \notin Nat
  /\ Source \subseteq P!Item /\ P!Item = Source \cup {Meta} /\ None \notin P!Item
  /\ MaxTime \in Nat
BY PartsAssumption DEF P!Item

LEMMA PullStarts == P!Init => PullInv
BY NoPullIs, ItemsAre DEF P!Init, PullInv, PullTypes, Past, Listed, P!NothingSkipped

(* A change of a record: it is the newest one, and behind the list of a    *)
(* pull.                                                                   *)
LEMMA ChangeKeeps ==
  ASSUME PullInv, NEW i \in P!Item, NEW is \in {"none", "live", "deleted"},
         i = Meta => is = "live", P!Change(i, is),
         UNCHANGED <<status, edited, lastSync, deletes, skipped>>
  PROVE  PullInv'
<1> USE ItemsAre, NoPullIs
<1>1. /\ now < MaxTime /\ now' = now + 1
      /\ row' = [row EXCEPT ![i] = [is |-> is, at |-> now + 1]]
      /\ listable' = listable \ {i}
  BY DEF P!Change
<1>2. now \in 0..MaxTime /\ now' \in 0..MaxTime
  BY <1>1 DEF PullInv, PullTypes
<1>3. /\ row' \in [P!Item -> [is : {"none", "live", "deleted"}, at : 0..MaxTime]]
      /\ row'[i] = [is |-> is, at |-> now']
      /\ \A j \in P!Item \ {i} : row'[j] = row[j]
  BY <1>1, <1>2 DEF PullInv, PullTypes
<1>4. /\ pull' \in Pull /\ pull'.pc = pull.pc /\ pull'.at = pull.at
      /\ pull'.blobs = pull.blobs /\ pull'.tombs = pull.tombs /\ pull'.failed = pull.failed
      /\ pull'.full = pull.full
      /\ pull'.late = IF pull = P!NoPull \/ i = Meta THEN pull.late ELSE pull.late \cup {i}
      /\ pull' = P!NoPull <=> pull = P!NoPull
  <2>1. CASE pull = P!NoPull \/ i = Meta
    BY <2>1 DEF P!Change, PullInv, PullTypes
  <2>2. CASE ~(pull = P!NoPull \/ i = Meta)
    <3>1. pull' = [pull EXCEPT !.late = pull.late \cup {i}] /\ pull \in Pull /\ i \in Source
      BY <2>2 DEF P!Change, PullInv, PullTypes
    <3>2. pull'.pc = pull.pc /\ pull.pc # "rest"
      BY <2>2, <3>1 DEF Pull, PullInv, PullTypes
    <3> QED
      BY <2>2, <3>1, <3>2 DEF Pull
  <2> QED
    BY <2>1, <2>2
<1>5. PullTypes'
  BY <1>1, <1>2, <1>3, <1>4 DEF PullInv, PullTypes
<1>6. Past'
  BY <1>1, <1>2, <1>3 DEF PullInv, Past, PullTypes
<1>7. Listed'
  BY <1>3, <1>4 DEF PullInv, Listed
<1>8. P!NothingSkipped'
  <2> SUFFICES ASSUME lastSync # None, NEW b \in Source \ skipped, row'[b].at <= lastSync
               PROVE  /\ row'[b].is = "live" => status[b] # "none"
                      /\ row'[b].is = "deleted" => status[b] # "synced"
    BY DEF P!NothingSkipped
  <2>1. b # i
    BY <1>1, <1>2, <1>3 DEF PullInv, Past, PullTypes
  <2> QED
    BY <2>1, <1>3 DEF PullInv, P!NothingSkipped
<1> QED
  BY <1>5, <1>6, <1>7, <1>8 DEF PullInv

LEMMA EditKeeps == ASSUME PullInv, P!Edit PROVE PullInv'
<1> USE ItemsAre, NoPullIs
<1>1. UNCHANGED <<row, listable, lastSync, pull, skipped, now>>
  BY DEF P!Edit
<1>2. PICK b \in Source :
         \/ /\ status[b] = "none" /\ row[b].is = "none"
            /\ status' = [status EXCEPT ![b] = "local_only"]
            /\ edited' = [edited EXCEPT ![b] = now] /\ deletes' = deletes
         \/ /\ status' = [status EXCEPT ![b] = "pending_delete"]
            /\ edited' = [edited EXCEPT ![b] = 0] /\ deletes' = deletes \cup {b}
  BY DEF P!Edit
<1>3. /\ status' \in [Source -> {"none", "local_only", "synced", "pending_delete"}]
      /\ \A c \in Source : /\ status[c] # "none" => status'[c] # "none"
                           /\ status'[c] = "synced" => status[c] = "synced"
  BY <1>2 DEF PullInv, PullTypes
<1>4. PullTypes'
  BY <1>1, <1>2, <1>3 DEF PullInv, PullTypes
<1>5. Past' /\ Listed' /\ P!NothingSkipped'
  BY <1>1, <1>3 DEF PullInv, Past, Listed, P!NothingSkipped
<1> QED
  BY <1>4, <1>5 DEF PullInv

LEMMA ListKeeps == ASSUME PullInv, NEW full \in BOOLEAN, P!List(full) PROVE PullInv'
<1> USE ItemsAre, NoPullIs
<1> DEFINE all == IF full \/ lastSync = None
                  THEN {b \in Source : row[b].is # "none"}
                  ELSE {i \in listable : P!Since(i)}
           blobs == {i \in all : row[i].is = "live"}
           tombs == {i \in all : row[i].is = "deleted"}
           late == {b \in Source : P!Since(b)} \ all
<1>1. /\ pull = P!NoPull
      /\ pull' = [P!NoPull EXCEPT !.pc = "next", !.full = full, !.blobs = blobs,
                                  !.tombs = tombs, !.late = late]
      /\ UNCHANGED <<row, listable, status, edited, lastSync, deletes, skipped, now>>
  BY DEF P!List
<1>2. all \subseteq P!Item
  BY DEF PullInv, PullTypes
<1>3. /\ tombs \subseteq Source /\ blobs \subseteq P!Item /\ late \subseteq Source
      /\ full => blobs \subseteq Source
  BY <1>2 DEF PullInv, PullTypes
<1> HIDE DEF blobs, tombs, late
<1>4. /\ pull' \in Pull /\ pull'.pc = "next" /\ pull'.at = None /\ pull'.blobs = blobs
      /\ pull'.tombs = tombs /\ pull'.late = late /\ pull'.failed = {} /\ pull'.full = full
  BY <1>1, <1>3 DEF P!NoPull, Pull
<1>5. PullTypes'
  BY <1>1, <1>3, <1>4 DEF PullInv, PullTypes
<1>6. Listed'
  <2> SUFFICES ASSUME NEW b \in Source \ (skipped \cup late)
               PROVE  /\ row[b].is = "live" => status[b] # "none" \/ b \in blobs
                      /\ row[b].is = "deleted" => status[b] # "synced" \/ b \in tombs
    BY <1>1, <1>4 DEF Listed
  <2>1. CASE b \in all
    BY <2>1 DEF blobs, tombs
  <2>2. CASE b \notin all
    <3>1. row[b].is # "none" => lastSync # None /\ ~P!Since(b)
      BY <2>2 DEF late, P!Since
    <3>2. row[b].is # "none" => row[b].at <= lastSync
      BY <3>1 DEF P!Since, PullInv, PullTypes
    <3> QED
      BY <3>1, <3>2 DEF PullInv, P!NothingSkipped
  <2> QED
    BY <2>1, <2>2
<1>7. Past' /\ P!NothingSkipped'
  BY <1>1 DEF PullInv, Past, P!NothingSkipped
<1> QED
  BY <1>5, <1>6, <1>7 DEF PullInv

LEMMA NextBlobKeeps == ASSUME PullInv, P!NextBlob PROVE PullInv'
<1> USE ItemsAre, NoPullIs
<1>1. /\ pull.pc = "next" /\ pull \in Pull
      /\ UNCHANGED <<row, listable, status, edited, lastSync, deletes, skipped, now>>
  BY DEF P!NextBlob, PullInv, PullTypes
<1>2. PICK i \in pull.blobs :
        \/ P!LocalNewer(i) /\ pull' = [pull EXCEPT !.blobs = pull.blobs \ {i}]
        \/ pull' = [pull EXCEPT !.pc = "download", !.at = i]
  BY DEF P!NextBlob
<1>3. i \in P!Item
  BY <1>1 DEF Pull
<1>4. /\ pull' \in Pull /\ pull'.pc # "rest" /\ pull'.tombs = pull.tombs
      /\ pull'.late = pull.late /\ pull'.failed = pull.failed /\ pull'.full = pull.full
      /\ pull'.pc = "download" <=> pull'.at # None
      /\ pull'.at # None => pull'.at \in pull'.blobs
      /\ pull'.blobs \subseteq pull.blobs
      /\ pull.blobs \ pull'.blobs \subseteq {i}
      /\ i \in pull.blobs \ pull'.blobs => P!LocalNewer(i)
  <2>1. CASE P!LocalNewer(i) /\ pull' = [pull EXCEPT !.blobs = pull.blobs \ {i}]
    <3>1. pull.at = None
      BY <1>1 DEF PullInv, PullTypes
    <3> QED
      BY <2>1, <3>1, <1>1 DEF Pull
  <2>2. CASE pull' = [pull EXCEPT !.pc = "download", !.at = i]
    BY <2>2, <1>1, <1>3 DEF Pull
  <2> QED
    BY <1>2, <2>1, <2>2
<1>5. PullTypes'
  BY <1>1, <1>4 DEF PullInv, PullTypes
<1>6. Listed'
  BY <1>1, <1>4 DEF PullInv, Listed, P!LocalNewer
<1>7. Past' /\ P!NothingSkipped'
  BY <1>1 DEF PullInv, Past, P!NothingSkipped
<1> QED
  BY <1>5, <1>6, <1>7 DEF PullInv

(* A download ends, with the blob or without it.                           *)
LEMMA DownloadEnds ==
  ASSUME PullInv, P!Downloaded \/ P!NotDownloaded
  PROVE  /\ pull # P!NoPull /\ pull.at \in P!Item /\ pull' \in Pull /\ pull'.pc = "next" /\ pull'.at = None
         /\ pull'.blobs = pull.blobs \ {pull.at}
         /\ pull'.tombs = pull.tombs /\ pull'.late = pull.late /\ pull'.full = pull.full
         /\ pull'.failed \in {pull.failed, pull.failed \cup {pull.at}}
         /\ pull.full => pull.at \in Source
<1> USE ItemsAre, NoPullIs
<1>1. /\ pull.pc = "download" /\ pull \in Pull /\ pull.at # None /\ pull.at \in P!Item
      /\ pull # P!NoPull /\ (pull.full => pull.at \in Source)
  BY DEF P!Downloaded, P!NotDownloaded, PullInv, PullTypes, Pull
<1>2. PICK failed \in {pull.failed, pull.failed \cup {pull.at}} :
         pull' = [pull EXCEPT !.pc = "next", !.at = None, !.blobs = pull.blobs \ {pull.at},
                              !.failed = failed]
  <2>1. CASE P!Downloaded
    <3>1. pull' = [pull EXCEPT !.pc = "next", !.at = None, !.blobs = pull.blobs \ {pull.at}]
      BY <2>1 DEF P!Downloaded
    <3>2. pull' = [pull EXCEPT !.pc = "next", !.at = None, !.blobs = pull.blobs \ {pull.at},
                               !.failed = pull.failed]
      BY <3>1, <1>1 DEF Pull
    <3> QED
      BY <3>2
  <2>2. CASE P!NotDownloaded
    BY <2>2 DEF P!NotDownloaded
  <2> QED
    BY <2>1, <2>2
<1>3. failed \subseteq P!Item
  BY <1>1, <1>2 DEF Pull
<1> QED
  BY <1>1, <1>2, <1>3 DEF Pull

LEMMA DownloadedKeeps == ASSUME PullInv, P!Downloaded PROVE PullInv'
<1> USE ItemsAre, NoPullIs
<1>1. /\ pull.at \in Source /\ row[pull.at].is = "live"
      /\ status' = [status EXCEPT ![pull.at] = "synced"]
      /\ edited' = [edited EXCEPT ![pull.at] = 0]
      /\ UNCHANGED <<row, listable, lastSync, deletes, skipped, now>>
  BY DEF P!Downloaded
<1>2. /\ status' \in [Source -> {"none", "local_only", "synced", "pending_delete"}]
      /\ status'[pull.at] = "synced"
      /\ \A c \in Source \ {pull.at} : status'[c] = status[c]
  BY <1>1 DEF PullInv, PullTypes
<1>3. PullTypes'
  BY <1>1, <1>2, DownloadEnds DEF PullInv, PullTypes
<1>4. Listed'
  BY <1>1, <1>2, DownloadEnds DEF PullInv, Listed
<1>5. Past' /\ P!NothingSkipped'
  BY <1>1, <1>2 DEF PullInv, Past, P!NothingSkipped
<1> QED
  BY <1>3, <1>4, <1>5 DEF PullInv

LEMMA NotDownloadedKeeps == ASSUME PullInv, P!NotDownloaded PROVE PullInv'
<1> USE ItemsAre, NoPullIs
<1>1. UNCHANGED <<row, listable, status, edited, lastSync, deletes, skipped, now>>
  BY DEF P!NotDownloaded
<1>2. pull'.failed = pull.failed \cup {pull.at}
  BY DEF P!NotDownloaded, PullInv, PullTypes, Pull
<1>3. PullTypes'
  BY <1>1, DownloadEnds DEF PullInv, PullTypes
<1>4. Listed'
  BY <1>1, <1>2, DownloadEnds DEF PullInv, Listed
<1>5. Past' /\ P!NothingSkipped'
  BY <1>1 DEF PullInv, Past, P!NothingSkipped
<1> QED
  BY <1>3, <1>4, <1>5 DEF PullInv

LEMMA FinishIncrementalKeeps == ASSUME PullInv, P!FinishIncremental PROVE PullInv'
<1> USE ItemsAre, NoPullIs
<1>1. /\ pull.pc = "next" /\ pull # P!NoPull /\ pull.blobs = {} /\ pull' = P!NoPull /\ pull \in Pull
      /\ status' = [b \in Source |-> IF P!Buried(b) THEN "pending_delete" ELSE status[b]]
      /\ \/ pull.failed = {} /\ lastSync' = now /\ skipped' = skipped \cup pull.late
         \/ UNCHANGED <<lastSync, skipped>>
      /\ UNCHANGED <<row, listable, edited, deletes, now>>
  BY DEF P!FinishIncremental, P!Done, PullInv, PullTypes
<1>2. /\ status' \in [Source -> {"none", "local_only", "synced", "pending_delete"}]
      /\ \A b \in Source : /\ status[b] # "none" => status'[b] # "none"
                           /\ status'[b] = "synced" => status[b] = "synced" /\ b \notin pull.tombs
  BY <1>1 DEF PullInv, PullTypes, P!Buried
<1>3. PullTypes'
  BY <1>1, <1>2 DEF PullInv, PullTypes, Pull
<1>4. Past'
  BY <1>1 DEF PullInv, PullTypes, Past
<1>5. P!NothingSkipped'
  <2>1. CASE UNCHANGED <<lastSync, skipped>>
    BY <2>1, <1>1, <1>2 DEF PullInv, P!NothingSkipped
  <2>2. CASE pull.failed = {} /\ skipped' = skipped \cup pull.late
    BY <2>2, <1>1, <1>2 DEF PullInv, Listed, P!NothingSkipped
  <2> QED
    BY <1>1, <2>1, <2>2
<1> QED
  BY <1>1, <1>3, <1>4, <1>5 DEF PullInv, Listed

LEMMA FinishFullKeeps == ASSUME PullInv, P!FinishFull PROVE PullInv'
<1> USE ItemsAre, NoPullIs
<1>1. /\ pull.pc = "next" /\ pull # P!NoPull /\ pull.blobs = {} /\ pull' = P!NoPull /\ pull \in Pull
      /\ lastSync' = now
      /\ skipped' = skipped \cup pull.late \cup pull.failed \cup pull.tombs
      /\ UNCHANGED <<row, listable, status, edited, deletes, now>>
  BY DEF P!FinishFull, P!Done, PullInv, PullTypes
<1>2. pull.failed \subseteq Source /\ pull.late \subseteq Source /\ pull.tombs \subseteq Source
  BY DEF P!FinishFull, PullInv, PullTypes, Pull
<1>3. PullTypes'
  BY <1>1, <1>2 DEF PullInv, PullTypes
<1>4. Past'
  BY <1>1 DEF PullInv, PullTypes, Past
<1>5. P!NothingSkipped'
  BY <1>1 DEF PullInv, Listed, P!NothingSkipped
<1> QED
  BY <1>1, <1>3, <1>4, <1>5 DEF PullInv, Listed

LEMMA PullStep == ASSUME PullInv, P!Next PROVE PullInv'
<1> USE ItemsAre, NoPullIs
<1>1. CASE P!OtherDevice
  <2>1. PICK i \in P!Item, is \in {"live", "deleted"} : (i = Meta => is = "live") /\ P!Change(i, is)
    BY <1>1 DEF P!OtherDevice
  <2> QED
    BY <1>1, <2>1, ChangeKeeps DEF P!OtherDevice
<1>2. CASE P!Queue
  <2>1. PICK i \in Source, is \in {"live", "deleted"} : P!Change(i, is)
    BY <1>2 DEF P!Queue
  <2> QED
    BY <1>2, <2>1, ChangeKeeps DEF P!Queue
<1>3. CASE P!IndexCatchesUp
  BY <1>3 DEF P!IndexCatchesUp, PullInv, PullTypes, Past, Listed, P!NothingSkipped
<1>4. CASE P!Abandon
  BY <1>4 DEF P!Abandon, PullInv, PullTypes, Past, Listed, P!NothingSkipped
<1> QED
  BY <1>1, <1>2, <1>3, <1>4, EditKeeps, ListKeeps, NextBlobKeeps, DownloadedKeeps,
    NotDownloadedKeeps, FinishIncrementalKeeps, FinishFullKeeps DEF P!Next

-----------------------------------------------------------------------------
(***************************************************************************)
(* Model files.                                                            *)
(***************************************************************************)

Loader == [pc : {"idle", "check", "fetch", "write", "rename", "record", "done"},
           kind : M!Kind, to : M!Inode \cup {None}, append : BOOLEAN,
           version : 1..MaxVersion, next : 1..(Parts + 1), sum : M!Content]

(* The first n parts of a version.                                         *)
First(v, n) == [i \in 1..n |-> <<v, i>>]

Complete(contents, k) == \E v \in 1..MaxVersion : contents = First(v, M!Length(k))

(* Files that something refers to for a kind.                              *)
Uses(k) == {i \in M!Inode : \/ temp[k] = i \/ file[k] = i
                            \/ \E p \in Proc : loader[p].kind = k /\ loader[p].to = i}

ApartInv == \A k, l \in M!Kind : k # l => Uses(k) \cap Uses(l) = {}

ToInv == \A p \in Proc : loader[p].to # None <=> loader[p].pc = "write"

(* A download that no other met goes on from what is there, to the file    *)
(* of the temporary name, if that is still there.                          *)
Download(p) ==
  /\ temp[loader[p].kind] \in {None, loader[p].to}
  /\ loader[p].next <= M!Length(loader[p].kind) + 1
  /\ data[loader[p].to] = First(loader[p].version, loader[p].next - 1)

KindInv(k) ==
  /\ \A p, q \in M!Writers(k) : p = q
  /\ \A p \in M!Writers(k) : Download(p)
  /\ temp[k] # None =>
        \E v \in 1..MaxVersion, n \in 0..M!Length(k) : data[temp[k]] = First(v, n)
  /\ hash[k] # None => Complete(hash[k], k)
  /\ \A p \in Proc : loader[p].pc \in {"rename", "record"} /\ loader[p].kind = k =>
        Complete(loader[p].sum, k)

ModelInv == M!TypeOK /\ ToInv /\ ApartInv /\ \A k \in M!Kind \ shared : KindInv(k)

LEMMA Sizes ==
  /\ Inodes \in Nat \ {0} /\ Parts \in Nat \ {0} /\ MaxVersion \in Nat \ {0} /\ MaxCuts \in Nat
  /\ None \notin M!Inode /\ 1 \in 1..MaxVersion /\ 1 \in 1..(Parts + 1)
  /\ M!Kind = {"vocab", "model"}
  /\ \A k \in M!Kind : M!Length(k) \in 1..Parts
BY PartsAssumption DEF M!Inode, M!Kind, M!Length

LEMMA FirstIs ==
  ASSUME NEW v \in 1..MaxVersion, NEW n \in 0..Parts
  PROVE  First(v, n) \in M!Content /\ Len(First(v, n)) = n
<1> USE Sizes
<1>1. \A i \in 1..n : <<v, i>> \in M!Part
  BY DEF M!Part
<1> QED
  BY <1>1 DEF First, M!Content

LEMMA NothingIs ==
  /\ <<>> \in M!Content /\ \A v : First(v, 0) = <<>>
BY DEF First, M!Content

LEMMA LoaderIdle ==
  /\ M!Idle \in Loader /\ M!Idle.pc = "idle" /\ M!Idle.to = None
BY Sizes, NothingIs DEF M!Idle, Loader, M!Kind

LEMMA ModelsStart == M!Init => ModelInv
<1> SUFFICES ASSUME M!Init PROVE ModelInv
  OBVIOUS
<1> USE Sizes, NothingIs, LoaderIdle
<1>1. M!TypeOK
  BY DEF M!Init, M!TypeOK, Loader
<1>2. ToInv
  BY DEF M!Init, ToInv
<1>3. ApartInv
  BY DEF M!Init, ApartInv, Uses
<1>4. \A k \in M!Kind : KindInv(k)
  BY DEF M!Init, KindInv, M!Writers
<1> QED
  BY <1>1, <1>2, <1>3, <1>4 DEF ModelInv

(***************************************************************************)
(* What a step does not touch.                                             *)
(***************************************************************************)

OthersLoad(p) == loader' \in [Proc -> Loader] /\ \A q \in Proc \ {p} : loader'[q] = loader[q]

LEMMA LoaderIs == ASSUME ModelInv PROVE loader \in [Proc -> Loader]
BY DEF ModelInv, M!TypeOK, Loader

LEMMA LoaderMoves ==
  ASSUME ModelInv, NEW p \in Proc, NEW c \in Loader, loader' = [loader EXCEPT ![p] = c]
  PROVE  OthersLoad(p) /\ loader'[p] = c
BY LoaderIs DEF OthersLoad

(* A process that does not write, rename or record.                        *)
Waits(c) == c.pc \notin {"write", "rename", "record"} /\ c.to = None

LEMMA KindKept ==
  ASSUME ModelInv, NEW k \in M!Kind, k \notin shared,
         temp'[k] \in {None, temp[k]}, hash'[k] = hash[k],
         \A p \in Proc : loader'[p] = loader[p] \/ Waits(loader'[p]) \/ loader'[p].kind # k,
         temp'[k] # None => data'[temp'[k]] = data[temp'[k]],
         \A p \in Proc : loader[p].pc = "write" /\ loader'[p] = loader[p] /\ loader[p].kind = k
            => data'[loader[p].to] = data[loader[p].to]
  PROVE  KindInv(k)'
<1>1. KindInv(k)
  BY DEF ModelInv
<1>2. \A p \in Proc : p \in M!Writers(k)' => p \in M!Writers(k) /\ loader'[p] = loader[p]
  BY DEF M!Writers, Waits
<1>3. \A p \in M!Writers(k)' : Download(p)'
  BY <1>1, <1>2 DEF KindInv, Download, M!Writers
<1>4. temp'[k] # None =>
        \E v \in 1..MaxVersion, n \in 0..M!Length(k) : data'[temp'[k]] = First(v, n)
  BY <1>1 DEF KindInv
<1>5. \A p \in Proc : loader'[p].pc \in {"rename", "record"} /\ loader'[p].kind = k =>
        Complete(loader'[p].sum, k)
  BY <1>1 DEF KindInv, Waits
<1>6. \A p, q \in M!Writers(k)' : p = q
  BY <1>1, <1>2 DEF KindInv, M!Writers
<1> QED
  BY <1>1, <1>3, <1>4, <1>5, <1>6 DEF KindInv, Complete

(* Files that lose their name and have no writer go, the others stay.      *)
LEMMA StoredKeeps ==
  ASSUME ModelInv, M!Stored(data),
         temp' \in [M!Kind -> M!Inode \cup {None}], file' \in [M!Kind -> M!Inode \cup {None}],
         loader' \in [Proc -> Loader]
  PROVE  /\ data' \in [M!Inode -> M!Content]
         /\ \A k \in M!Kind : temp'[k] # None => data'[temp'[k]] = data[temp'[k]]
         /\ \A p \in Proc : loader'[p].to # None => data'[loader'[p].to] = data[loader'[p].to]
<1>1. data' = [i \in M!Inode |-> IF i \in M!InUse' THEN data[i] ELSE <<>>]
  BY DEF M!Stored
<1>2. data \in [M!Inode -> M!Content]
  BY DEF ModelInv, M!TypeOK
<1>3. \A k \in M!Kind : temp'[k] \in M!InUse'
  BY DEF M!InUse
<1>4. \A p \in Proc : loader'[p].to \in M!InUse'
  BY DEF M!InUse
<1>5. \A p \in Proc : loader'[p].to \in M!Inode \cup {None}
  BY DEF Loader
<1> QED
  BY <1>1, <1>2, <1>3, <1>4, <1>5, NothingIs

(* The types, and which kind uses which file, when a process moves on      *)
(* without a new file.                                                     *)
LEMMA ApartKept ==
  ASSUME ModelInv, loader' \in [Proc -> Loader],
         \A k \in M!Kind : temp'[k] \in {None, temp[k]} /\ file'[k] \in {file[k], temp[k]},
         \A p \in Proc : loader'[p].to = None \/ loader'[p] = loader[p]
                           \/ (loader'[p].to = loader[p].to /\ loader'[p].kind = loader[p].kind)
  PROVE  ApartInv'
<1>1. \A k \in M!Kind : Uses(k)' \subseteq Uses(k)
  BY Sizes DEF Uses
<1> QED
  BY <1>1 DEF ModelInv, ApartInv

(***************************************************************************)
(* The steps.                                                              *)
(***************************************************************************)

LEMMA GoesOn ==
  ASSUME ModelInv, NEW p \in Proc, OthersLoad(p),
         loader[p].pc # "write", Waits(loader'[p]),
         UNCHANGED <<data, temp, file, published, cuts, shared>>,
         hash' \in [M!Kind -> M!Content \cup {None}],
         \A k \in M!Kind \ shared : hash'[k] = hash[k] \/ Complete(hash'[k], k)
  PROVE  ModelInv'
<1>1. M!TypeOK'
  BY DEF ModelInv, M!TypeOK, OthersLoad, Loader
<1>2. ToInv'
  BY DEF ModelInv, ToInv, OthersLoad, Waits
<1>3. ApartInv'
  BY ApartKept DEF OthersLoad, Waits
<1>4. ASSUME NEW k \in M!Kind \ shared PROVE KindInv(k)'
  <2>1. KindInv(k)
    BY DEF ModelInv
  <2>2. M!Writers(k)' = M!Writers(k) /\ \A q \in M!Writers(k) : loader'[q] = loader[q] /\ q \in Proc
    BY DEF OthersLoad, Waits, M!Writers
  <2>3. \A q \in M!Writers(k)' : Download(q)'
    BY <2>1, <2>2 DEF KindInv, Download
  <2>4. \A q \in Proc : loader'[q].pc \in {"rename", "record"} /\ loader'[q].kind = k =>
          Complete(loader'[q].sum, k)
    BY <2>1 DEF KindInv, OthersLoad, Waits
  <2>5. hash'[k] # None => Complete(hash'[k], k)
    BY <2>1 DEF KindInv
  <2> QED
    BY <2>1, <2>2, <2>3, <2>4, <2>5 DEF KindInv, Complete
<1> QED
  BY <1>1, <1>2, <1>3, <1>4 DEF ModelInv

LEMMA AdvanceIs ==
  ASSUME ModelInv, NEW p \in Proc, M!Advance(p)
  PROVE  OthersLoad(p) /\ Waits(loader'[p])
<1> DEFINE c == IF loader[p].kind = "vocab" THEN [M!Idle EXCEPT !.pc = "check", !.kind = "model"]
                                            ELSE [M!Idle EXCEPT !.pc = "done"]
<1>1. loader' = [loader EXCEPT ![p] = c]
  BY DEF M!Advance
<1>2. c \in Loader /\ Waits(c)
  BY LoaderIdle, Sizes DEF Loader, Waits
<1> QED
  BY <1>1, <1>2, LoaderMoves

LEMMA EnsureKeeps == ASSUME ModelInv, NEW p \in Proc, M!EnsureModel(p) PROVE ModelInv'
<1> DEFINE c == [loader[p] EXCEPT !.pc = "check"]
<1>1. loader[p].pc = "idle" /\ loader' = [loader EXCEPT ![p] = c]
      /\ UNCHANGED <<data, temp, file, hash, published, cuts, shared>>
  BY DEF M!EnsureModel, M!Go
<1>2. c \in Loader /\ Waits(c)
  BY <1>1, LoaderIs DEF Loader, Waits, ModelInv, ToInv
<1>3. hash \in [M!Kind -> M!Content \cup {None}]
  BY DEF ModelInv, M!TypeOK
<1> QED
  BY <1>1, <1>2, <1>3, LoaderMoves, GoesOn

LEMMA CheckKeeps == ASSUME ModelInv, NEW p \in Proc, M!Check(p) PROVE ModelInv'
<1> DEFINE k == loader[p].kind
           n == IF M!Size(k) > M!Length(k) THEN M!Length(k) + 1 ELSE M!Size(k) + 1
           c == [loader[p] EXCEPT !.pc = "fetch", !.next = n]
<1>0. hash \in [M!Kind -> M!Content \cup {None}]
  BY DEF ModelInv, M!TypeOK
<1>1. loader[p].pc = "check" /\ UNCHANGED <<data, temp, file, hash, published, cuts, shared>>
      /\ k \in M!Kind /\ loader[p] \in Loader
  BY LoaderIs DEF M!Check, Loader
<1>2. CASE M!Advance(p)
  BY <1>0, <1>1, <1>2, AdvanceIs, GoesOn
<1>3. CASE loader' = [loader EXCEPT ![p].pc = "fetch", ![p].next = n]
  <2>1. M!Size(k) \in Nat
    BY <1>1 DEF M!Size, ModelInv, M!TypeOK, M!Content
  <2>2. n \in 1..(Parts + 1)
    BY <1>1, <2>1, Sizes
  <2> HIDE DEF n
  <2>3. c \in Loader /\ Waits(c)
    BY <1>1, <2>2 DEF Loader, Waits, ModelInv, ToInv
  <2>4. loader' = [loader EXCEPT ![p] = c]
    BY <1>3, LoaderIs
  <2> QED
    BY <1>0, <1>1, <2>3, <2>4, LoaderMoves, GoesOn
<1> QED
  BY <1>2, <1>3 DEF M!Check

LEMMA RecordKeeps == ASSUME ModelInv, NEW p \in Proc, M!Record(p) PROVE ModelInv'
<1>1. /\ loader[p].pc = "record" /\ M!Advance(p) /\ loader[p] \in Loader
      /\ hash' = [hash EXCEPT ![loader[p].kind] = loader[p].sum]
      /\ UNCHANGED <<data, temp, file, published, cuts, shared>>
  BY LoaderIs DEF M!Record
<1>2. hash' \in [M!Kind -> M!Content \cup {None}]
      /\ \A k \in M!Kind : hash'[k] = IF k = loader[p].kind THEN loader[p].sum ELSE hash[k]
  BY <1>1 DEF ModelInv, M!TypeOK, Loader
<1>3. \A k \in M!Kind \ shared : hash'[k] = hash[k] \/ Complete(hash'[k], k)
  BY <1>1, <1>2 DEF ModelInv, KindInv
<1> QED
  BY <1>1, <1>2, <1>3, AdvanceIs, GoesOn

(* A process writes: only its kind is touched.                             *)
LEMMA WriterKeeps ==
  ASSUME ModelInv, NEW p \in Proc, OthersLoad(p),
         NEW k \in M!Kind, k = loader[p].kind, loader'[p].kind = k,
         NEW i \in M!Inode, loader'[p].pc = "write", loader'[p].to = i,
         i \in Uses(k) \/ \A l \in M!Kind : i \notin Uses(l),
         temp' \in [M!Kind -> M!Inode \cup {None}], temp'[k] \in {temp[k], i},
         \A l \in M!Kind \ {k} : temp'[l] = temp[l],
         data' \in [M!Inode -> M!Content], \A j \in M!Inode \ {i} : data'[j] = data[j],
         UNCHANGED <<file, hash, published, cuts>>,
         shared' \in {shared, shared \cup {k}},
         k \notin shared' =>
            /\ \A q \in M!Writers(k) : q = p
            /\ Download(p)'
            /\ temp'[k] = None \/ temp'[k] = i
  PROVE  ModelInv'
<1>1. M!TypeOK'
  BY DEF ModelInv, M!TypeOK, OthersLoad, Loader
<1>2. ToInv'
  BY Sizes DEF ModelInv, ToInv, OthersLoad
<1>3. ApartInv'
  <2>1. Uses(k)' \subseteq Uses(k) \cup {i}
    BY DEF Uses, OthersLoad
  <2>2. \A l \in M!Kind \ {k} : Uses(l)' \subseteq Uses(l)
    BY DEF Uses, OthersLoad
  <2>3. \A l \in M!Kind \ {k} : i \notin Uses(l)
    BY DEF ModelInv, ApartInv
  <2> QED
    BY <2>1, <2>2, <2>3 DEF ModelInv, ApartInv
<1>4. ASSUME NEW l \in M!Kind \ {k}, l \notin shared PROVE KindInv(l)'
  <2>1. i \notin Uses(l)
    BY DEF ModelInv, ApartInv
  <2>2. temp[l] # None => data'[temp[l]] = data[temp[l]]
    BY <2>1 DEF Uses, ModelInv, M!TypeOK
  <2>3. \A q \in Proc : loader[q].pc = "write" /\ loader[q].kind = l =>
           data'[loader[q].to] = data[loader[q].to]
    <3> SUFFICES ASSUME NEW q \in Proc, loader[q].pc = "write", loader[q].kind = l
                 PROVE  data'[loader[q].to] = data[loader[q].to]
      OBVIOUS
    <3>1. loader[q].to \in M!Inode
      BY LoaderIs DEF ModelInv, ToInv, Loader
    <3> QED
      BY <2>1, <3>1 DEF Uses
  <2>4. \A q \in Proc : loader'[q] = loader[q] \/ Waits(loader'[q]) \/ loader'[q].kind # l
    BY DEF OthersLoad
  <2>5. temp'[l] = temp[l] /\ hash'[l] = hash[l]
    OBVIOUS
  <2> QED
    BY <1>4, <2>2, <2>3, <2>4, <2>5, KindKept
<1>5. ASSUME k \notin shared' PROVE KindInv(k)'
  <2>1. KindInv(k) /\ k \notin shared
    BY <1>5 DEF ModelInv
  <2>2. M!Writers(k)' \subseteq {p}
    BY <1>5 DEF OthersLoad, M!Writers
  <2>3. Download(p)'
    BY <1>5
  <2>4. temp'[k] # None =>
          \E v \in 1..MaxVersion, n \in 0..M!Length(k) : data'[temp'[k]] = First(v, n)
    <3> SUFFICES ASSUME temp'[k] # None
                 PROVE  \E v \in 1..MaxVersion, n \in 0..M!Length(k) : data'[temp'[k]] = First(v, n)
      OBVIOUS
    <3>1. temp'[k] = i
      BY <1>5
    <3>2. /\ data'[i] = First(loader'[p].version, loader'[p].next - 1)
          /\ loader'[p].next <= M!Length(k) + 1
      BY <2>3 DEF Download
    <3>3. loader'[p].version \in 1..MaxVersion /\ loader'[p].next \in 1..(Parts + 1)
      BY DEF OthersLoad, Loader
    <3>4. loader'[p].next - 1 \in 0..M!Length(k)
      BY <3>2, <3>3, Sizes
    <3> QED
      BY <3>1, <3>2, <3>3, <3>4
  <2>5. \A q \in Proc : loader'[q].pc \in {"rename", "record"} /\ loader'[q].kind = k =>
          Complete(loader'[q].sum, k)
    BY <2>1 DEF KindInv, OthersLoad
  <2> QED
    BY <2>1, <2>2, <2>3, <2>4, <2>5 DEF KindInv, Complete
<1>6. \A l \in M!Kind \ shared' : KindInv(l)'
  BY <1>4, <1>5
<1> QED
  BY <1>1, <1>2, <1>3, <1>6 DEF ModelInv

LEMMA FetchKeeps == ASSUME ModelInv, NEW p \in Proc, M!Fetch(p) PROVE ModelInv'
<1> USE Sizes
<1> DEFINE k == loader[p].kind
<1>1. /\ loader[p].pc = "fetch" /\ loader[p] \in Loader /\ k \in M!Kind /\ p \notin M!Writers(k)
      /\ temp[k] \in M!Inode \cup {None} /\ temp \in [M!Kind -> M!Inode \cup {None}]
      /\ data \in [M!Inode -> M!Content]
      /\ UNCHANGED <<file, hash, published, cuts>>
      /\ published \in 1..MaxVersion
  BY LoaderIs DEF M!Fetch, M!Writers, Loader, ModelInv, M!TypeOK
<1>2. ASSUME NEW i, IF temp[k] = None THEN M!Free(i) ELSE i = temp[k], i \in M!Inode
      PROVE  i \in Uses(k) \/ \A l \in M!Kind : i \notin Uses(l)
  <2>1. CASE temp[k] = None
    BY <1>2, <2>1 DEF M!Free, M!InUse, Uses
  <2>2. CASE temp[k] # None
    BY <1>1, <1>2, <2>2 DEF Uses
  <2> QED
    BY <2>1, <2>2
<1>3. CASE M!Whole(p) /\ shared' = IF M!Writers(k) = {} THEN shared ELSE shared \cup {k}
  <2>1. PICK i \in M!Inode :
          /\ IF temp[k] = None THEN M!Free(i) ELSE i = temp[k]
          /\ temp' = [temp EXCEPT ![k] = i]
          /\ data' = [data EXCEPT ![i] = <<>>]
          /\ loader' = [loader EXCEPT ![p] =
               [loader[p] EXCEPT !.pc = "write", !.to = i, !.version = published, !.next = 1]]
    BY <1>3 DEF M!Whole
  <2> DEFINE c == [loader[p] EXCEPT !.pc = "write", !.to = i, !.version = published, !.next = 1]
  <2>2. /\ c \in Loader /\ c.pc = "write" /\ c.to = i /\ c.kind = k
        /\ c.version = published /\ c.next = 1
    BY <1>1 DEF Loader
  <2>3. OthersLoad(p) /\ loader'[p] = c
    BY <2>1, <2>2, LoaderMoves
  <2> HIDE DEF c
  <2>4. /\ temp' \in [M!Kind -> M!Inode \cup {None}] /\ temp'[k] = i
        /\ \A l \in M!Kind \ {k} : temp'[l] = temp[l]
        /\ data' \in [M!Inode -> M!Content] /\ data'[i] = <<>>
        /\ \A j \in M!Inode \ {i} : data'[j] = data[j]
    BY <1>1, <2>1, NothingIs
  <2>5. Download(p)'
    BY <2>2, <2>3, <2>4, <1>1, NothingIs DEF Download
  <2>6. i \in Uses(k) \/ \A l \in M!Kind : i \notin Uses(l)
    BY <1>2, <2>1
  <2>7. k \notin shared' => M!Writers(k) = {}
    BY <1>3
  <2> QED
    BY <1>1, <1>3, <2>2, <2>3, <2>4, <2>5, <2>6, <2>7, WriterKeeps
<1>4. CASE M!Rest(p) /\ shared' = IF M!Writers(k) = {} /\ ~M!Misfit(p)
                                  THEN shared ELSE shared \cup {k}
  <2>1. PICK i \in M!Inode :
          /\ IF temp[k] = None THEN M!Free(i) ELSE i = temp[k]
          /\ temp' = [temp EXCEPT ![k] = i]
          /\ data' = data \/ (temp[k] = None /\ data' = [data EXCEPT ![i] = <<>>])
          /\ loader' = [loader EXCEPT ![p] = [loader[p] EXCEPT
               !.pc = "write", !.to = i, !.version = published, !.append = TRUE]]
    BY <1>4 DEF M!Rest
  <2> DEFINE c == [loader[p] EXCEPT
               !.pc = "write", !.to = i, !.version = published, !.append = TRUE]
  <2>2. /\ c \in Loader /\ c.pc = "write" /\ c.to = i /\ c.kind = k
        /\ c.version = published /\ c.next = loader[p].next
    BY <1>1 DEF Loader
  <2>3. OthersLoad(p) /\ loader'[p] = c
    BY <2>1, <2>2, LoaderMoves
  <2> HIDE DEF c
  <2>4. /\ temp' \in [M!Kind -> M!Inode \cup {None}] /\ temp'[k] = i
        /\ \A l \in M!Kind \ {k} : temp'[l] = temp[l]
        /\ data' \in [M!Inode -> M!Content]
        /\ \A j \in M!Inode \ {i} : data'[j] = data[j]
    BY <1>1, <2>1, NothingIs
  <2>5. ASSUME k \notin shared' PROVE M!Writers(k) = {} /\ Download(p)'
    <3>1. M!Writers(k) = {} /\ ~M!Misfit(p) /\ KindInv(k)
      BY <1>1, <1>4, <2>5 DEF ModelInv
    <3>2. loader[p].next \in 2..M!Length(k)
      BY <1>4 DEF M!Rest
    <3>3. /\ M!Size(k) + 1 = loader[p].next
          /\ \A n \in 1..M!Size(k) : data[temp[k]][n][1] = published
      BY <3>1, <3>2 DEF M!Misfit
    <3>4. temp[k] # None
      BY <3>2, <3>3 DEF M!Size
    <3>5. PICK v \in 1..MaxVersion, n \in 0..M!Length(k) : data[temp[k]] = First(v, n)
      BY <3>1, <3>4 DEF KindInv
    <3>6. Len(First(v, n)) = n
      BY <1>1, FirstIs
    <3>7. n = loader[p].next - 1 /\ M!Size(k) = n /\ 1 \in 1..n
      BY <3>2, <3>3, <3>4, <3>5, <3>6 DEF M!Size
    <3>8. First(v, n)[1][1] = v
      BY <3>7 DEF First
    <3>9. v = published
      BY <3>3, <3>5, <3>7, <3>8
    <3>10. data'[i] = data[temp[k]] /\ i = temp[k]
      BY <2>1, <3>4
    <3>11. loader[p].next <= M!Length(k) + 1 /\ M!Length(k) \in Nat
      BY <1>1, <3>2
    <3>12. data'[i] = First(published, loader[p].next - 1)
      BY <3>5, <3>7, <3>9, <3>10
    <3> QED
      BY <3>1, <3>11, <3>12, <2>2, <2>3, <2>4 DEF Download
  <2>6. i \in Uses(k) \/ \A l \in M!Kind : i \notin Uses(l)
    BY <1>2, <2>1
  <2> QED
    BY <1>1, <1>4, <2>2, <2>3, <2>4, <2>5, <2>6, WriterKeeps
<1> QED
  BY <1>3, <1>4 DEF M!Fetch

LEMMA WriteKeeps == ASSUME ModelInv, NEW p \in Proc, M!Write(p) PROVE ModelInv'
<1> USE Sizes
<1> DEFINE l == loader[p]
           k == l.kind
           old_ == data[l.to]
           place == IF l.append THEN Len(old_) + 1 ELSE l.next
           new == [n \in 1..(IF place > Len(old_) THEN place ELSE Len(old_)) |->
                     IF n = place THEN <<l.version, l.next>>
                     ELSE IF n \in DOMAIN old_ THEN old_[n] ELSE M!Zeros]
           c == [l EXCEPT !.next = l.next + 1]
<1>1. /\ l.pc = "write" /\ l.next <= M!Length(k) /\ place <= 2 * Parts
      /\ data' = [data EXCEPT ![l.to] = new]
      /\ loader' = [loader EXCEPT ![p].next = @ + 1]
      /\ UNCHANGED <<temp, file, hash, published, cuts, shared>>
  BY DEF M!Write
<1>2. l \in Loader /\ k \in M!Kind /\ l.to \in M!Inode /\ p \in M!Writers(k)
      /\ l.version \in 1..MaxVersion /\ l.next \in 1..Parts
  BY <1>1, LoaderIs DEF Loader, ModelInv, ToInv, M!Writers
<1>3. data \in [M!Inode -> M!Content] /\ old_ \in M!Content /\ Len(old_) \in Nat
      /\ temp \in [M!Kind -> M!Inode \cup {None}]
  BY <1>2 DEF ModelInv, M!TypeOK, M!Content
<1>4. place \in Nat \ {0} /\ <<l.version, l.next>> \in M!Part /\ M!Zeros \in M!Part
  <2>1. M!Zeros \in M!Part /\ <<l.version, l.next>> \in M!Part
    BY <1>2 DEF M!Part
  <2>2. place \in {Len(old_) + 1, l.next} /\ l.next \in Nat \ {0}
    BY <1>2
  <2> HIDE DEF place
  <2> QED
    BY <2>1, <2>2, <1>3
<1>5. new \in M!Content
  <2>1. \A n \in DOMAIN old_ : old_[n] \in M!Part
    BY <1>3 DEF M!Content
  <2> HIDE DEF place, old_
  <2> QED
    BY <1>3, <1>4, <2>1 DEF M!Content
<1>6. c \in Loader /\ c.pc = "write" /\ c.to = l.to /\ c.kind = k /\ c.version = l.version
      /\ c.next = l.next + 1
  <2>1. l.next + 1 \in 1..(Parts + 1)
    BY <1>2
  <2> QED
    BY <1>1, <1>2, <2>1 DEF Loader
<1>7. loader' = [loader EXCEPT ![p] = c]
  BY <1>1, LoaderIs
<1>8. OthersLoad(p) /\ loader'[p] = c
  BY <1>6, <1>7, LoaderMoves
<1>9. k \notin shared => old_ = First(l.version, l.next - 1) /\ temp[k] \in {None, l.to}
                         /\ \A q \in M!Writers(k) : q = p
  BY <1>2 DEF ModelInv, KindInv, Download
<1>10. k \notin shared => new = First(l.version, l.next)
  <2> SUFFICES ASSUME k \notin shared PROVE new = First(l.version, l.next)
    OBVIOUS
  <2>0. l.next - 1 \in 0..Parts
    BY <1>2
  <2>1. Len(old_) = l.next - 1
    BY <2>0, <1>2, <1>9, FirstIs
  <2>2. place = l.next /\ DOMAIN old_ = 1..(l.next - 1)
    BY <2>1, <1>2, <1>3 DEF M!Content
  <2>3. \A n \in 1..(l.next - 1) : old_[n] = <<l.version, n>>
    BY <1>9, <1>2 DEF First
  <2> HIDE DEF place, old_
  <2> QED
    BY <2>1, <2>2, <2>3, <1>2 DEF First
<1> HIDE DEF new, c, place
<1>11. /\ data' \in [M!Inode -> M!Content] /\ data'[l.to] = new
       /\ \A j \in M!Inode \ {l.to} : data'[j] = data[j]
  BY <1>1, <1>2, <1>3, <1>5
<1>12. k \notin shared => Download(p)'
  BY <1>1, <1>2, <1>6, <1>8, <1>9, <1>10, <1>11 DEF Download
<1>13. l.to \in Uses(k)
  BY <1>2 DEF Uses
<1> QED
  BY <1>1, <1>2, <1>3, <1>6, <1>8, <1>9, <1>11, <1>12, <1>13, WriterKeeps

(* A process leaves its file: it goes on without one, or ends.             *)
LEMMA Leaves ==
  ASSUME ModelInv, NEW p \in Proc, OthersLoad(p), loader'[p].to = None, loader'[p].pc # "write",
         temp' \in [M!Kind -> M!Inode \cup {None}], file' \in [M!Kind -> M!Inode \cup {None}],
         \A k \in M!Kind : temp'[k] \in {None, temp[k]} /\ file'[k] \in {file[k], temp[k]},
         M!Stored(data), UNCHANGED <<hash, published, shared>>, cuts' \in 0..MaxCuts,
         \A k \in M!Kind \ shared :
           loader'[p].pc \in {"rename", "record"} /\ loader'[p].kind = k => Complete(loader'[p].sum, k)
  PROVE  ModelInv'
<1> USE Sizes
<1>1. /\ data' \in [M!Inode -> M!Content]
      /\ \A k \in M!Kind : temp'[k] # None => data'[temp'[k]] = data[temp'[k]]
      /\ \A q \in Proc : loader'[q].to # None => data'[loader'[q].to] = data[loader'[q].to]
  BY StoredKeeps DEF OthersLoad
<1>2. M!TypeOK'
  BY <1>1 DEF ModelInv, M!TypeOK, OthersLoad, Loader
<1>3. ToInv'
  BY DEF ModelInv, ToInv, OthersLoad
<1>4. ApartInv'
  BY ApartKept DEF OthersLoad
<1>5. ASSUME NEW k \in M!Kind \ shared PROVE KindInv(k)'
  <2>1. KindInv(k)
    BY DEF ModelInv
  <2>2. \A q \in M!Writers(k)' : q \in M!Writers(k) /\ loader'[q] = loader[q] /\ q \in Proc
                                 /\ loader[q].kind = k /\ loader[q].to # None
    BY DEF M!Writers, OthersLoad, ModelInv, ToInv
  <2>3. \A q \in M!Writers(k)' : Download(q)'
    BY <1>1, <2>1, <2>2 DEF KindInv, Download
  <2>4. \A q \in Proc : loader'[q].pc \in {"rename", "record"} /\ loader'[q].kind = k =>
          Complete(loader'[q].sum, k)
    BY <2>1 DEF KindInv, OthersLoad
  <2>5. temp'[k] # None =>
          \E v \in 1..MaxVersion, n \in 0..M!Length(k) : data'[temp'[k]] = First(v, n)
    BY <1>1, <2>1 DEF KindInv
  <2>6. \A q, r \in M!Writers(k)' : q = r
    BY <2>1, <2>2 DEF KindInv
  <2> QED
    BY <2>1, <2>3, <2>4, <2>5, <2>6 DEF KindInv, Complete
<1> QED
  BY <1>2, <1>3, <1>4, <1>5 DEF ModelInv

LEMMA FilesHave == ASSUME ModelInv
  PROVE  /\ temp \in [M!Kind -> M!Inode \cup {None}] /\ file \in [M!Kind -> M!Inode \cup {None}]
         /\ cuts \in 0..MaxCuts /\ data \in [M!Inode -> M!Content]
BY DEF ModelInv, M!TypeOK

LEMMA HashKeeps == ASSUME ModelInv, NEW p \in Proc, M!Hash(p) PROVE ModelInv'
<1> USE Sizes
<1> DEFINE k == loader[p].kind
           c == IF temp[k] = None THEN M!Idle
                ELSE [loader[p] EXCEPT !.pc = "rename", !.to = None, !.sum = data[temp[k]]]
<1>1. /\ loader[p].pc = "write" /\ loader[p].next = M!Length(k) + 1
      /\ loader' = [loader EXCEPT ![p] = c]
      /\ UNCHANGED <<temp, file, hash, published, cuts, shared>> /\ M!Stored(data)
  BY DEF M!Hash
<1>2. loader[p] \in Loader /\ k \in M!Kind /\ p \in M!Writers(k)
      /\ loader[p].version \in 1..MaxVersion
  BY <1>1, LoaderIs DEF Loader, M!Writers
<1>3. c \in Loader /\ c.to = None /\ c.pc # "write"
      /\ (c.pc \in {"rename", "record"} =>
            temp[k] # None /\ c.kind = k /\ c.sum = data[temp[k]])
  <2>1. CASE temp[k] = None
    BY <2>1, LoaderIdle
  <2>2. CASE temp[k] # None
    <3>1. data[temp[k]] \in M!Content
      BY <1>2, <2>2, FilesHave
    <3> QED
      BY <1>2, <2>2, <3>1 DEF Loader
  <2> QED
    BY <2>1, <2>2
<1> HIDE DEF c
<1>4. OthersLoad(p) /\ loader'[p] = c
  BY <1>1, <1>3, LoaderMoves
<1>5. ASSUME k \notin shared, c.pc \in {"rename", "record"} PROVE Complete(c.sum, k)
  <2>1. Download(p)
    BY <1>2, <1>5 DEF ModelInv, KindInv
  <2>2. temp[k] = loader[p].to
    BY <1>3, <1>5, <2>1 DEF Download
  <2>3. c.sum = First(loader[p].version, M!Length(k))
    BY <1>1, <1>2, <1>3, <1>5, <2>1, <2>2 DEF Download
  <2> QED
    BY <1>2, <2>3 DEF Complete
<1> QED
  BY <1>1, <1>3, <1>4, <1>5, FilesHave, Leaves

LEMMA RenameKeeps == ASSUME ModelInv, NEW p \in Proc, M!Rename(p) PROVE ModelInv'
<1> USE Sizes
<1> DEFINE k == loader[p].kind
           c == IF temp[k] = None THEN M!Idle ELSE [loader[p] EXCEPT !.pc = "record"]
<1>1. /\ loader[p].pc = "rename" /\ loader' = [loader EXCEPT ![p] = c]
      /\ UNCHANGED <<hash, published, cuts, shared>> /\ M!Stored(data)
      /\ \/ UNCHANGED <<temp, file>>
         \/ file' = [file EXCEPT ![k] = temp[k]] /\ temp' = [temp EXCEPT ![k] = None]
  BY DEF M!Rename, M!Go
<1>2. loader[p] \in Loader /\ k \in M!Kind /\ loader[p].to = None
  BY <1>1, LoaderIs DEF Loader, ModelInv, ToInv
<1>3. c \in Loader /\ c.to = None /\ c.pc # "write"
      /\ (c.pc \in {"rename", "record"} => c.kind = k /\ c.sum = loader[p].sum)
  BY <1>2, LoaderIdle DEF Loader
<1> HIDE DEF c
<1>4. OthersLoad(p) /\ loader'[p] = c
  BY <1>1, <1>3, LoaderMoves
<1>5. /\ temp' \in [M!Kind -> M!Inode \cup {None}] /\ file' \in [M!Kind -> M!Inode \cup {None}]
      /\ \A l \in M!Kind : temp'[l] \in {None, temp[l]} /\ file'[l] \in {file[l], temp[l]}
  BY <1>1, <1>2, FilesHave
<1>6. k \notin shared => Complete(loader[p].sum, k)
  BY <1>1, <1>2 DEF ModelInv, KindInv
<1> QED
  BY <1>1, <1>3, <1>4, <1>5, <1>6, FilesHave, Leaves

LEMMA FailKeeps == ASSUME ModelInv, NEW p \in Proc, M!Fail(p) \/ M!Die(p) PROVE ModelInv'
<1> USE Sizes
<1>1. /\ loader' = [loader EXCEPT ![p] = M!Idle]
      /\ UNCHANGED <<file, hash, published, shared>> /\ M!Stored(data)
      /\ temp' \in {temp, [temp EXCEPT ![loader[p].kind] = None]}
      /\ cuts < MaxCuts /\ cuts' = cuts + 1
  BY DEF M!Fail, M!Die
<1>2. OthersLoad(p) /\ loader'[p] = M!Idle
  BY <1>1, LoaderIdle, LoaderMoves
<1>3. /\ temp' \in [M!Kind -> M!Inode \cup {None}]
      /\ \A l \in M!Kind : temp'[l] \in {None, temp[l]}
  BY <1>1, FilesHave
<1>4. cuts' \in 0..MaxCuts
  BY <1>1, FilesHave
<1> QED
  BY <1>1, <1>2, <1>3, <1>4, LoaderIdle, FilesHave, Leaves

LEMMA PublishKeeps == ASSUME ModelInv, M!Publish PROVE ModelInv'
<1>1. UNCHANGED <<data, temp, file, hash, loader, cuts, shared>> /\ published' \in 1..MaxVersion
  BY Sizes DEF M!Publish, ModelInv, M!TypeOK
<1> QED
  BY <1>1 DEF ModelInv, M!TypeOK, ToInv, ApartInv, Uses, KindInv, Download, M!Writers, Complete

LEMMA ModelsStep == ASSUME ModelInv, M!Next PROVE ModelInv'
BY EnsureKeeps, CheckKeeps, FetchKeeps, WriteKeeps, HashKeeps, RenameKeeps, RecordKeeps,
  FailKeeps, PublishKeeps DEF M!Next

LEMMA ModelsWhole == ModelInv => M!ReadyIsWhole
<1> SUFFICES ASSUME ModelInv, NEW k \in M!Kind, M!Ready(k), k \notin shared
             PROVE  \E v \in 1..MaxVersion :
                       data[file[k]] = [n \in 1..M!Length(k) |-> <<v, n>>]
  BY DEF M!ReadyIsWhole
<1> QED
  BY DEF M!Ready, ModelInv, KindInv, Complete, First

-----------------------------------------------------------------------------
Kept(g, items, b, m) ==
  g = [n \in 0..m |-> IF n = 0 THEN <<>>
                      ELSE IF items[n].blob = b THEN g[n - 1]
                      ELSE Append(g[n - 1], items[n])]

LEMMA KeptExists ==
  ASSUME NEW items, NEW b, NEW m \in Nat
  PROVE  \E g : Kept(g, items, b, m)
<1> DEFINE T == {n \in Nat : ~ \E g : Kept(g, items, b, n)}
<1>1. CASE T = {}
  BY <1>1
<1>2. CASE T # {}
  <2>1. PICK x \in T : \A y \in T : x <= y
    BY <1>2, Least
  <2>2. x # 0
    <3>1. Kept([n \in 0..0 |-> <<>>], items, b, 0)
      BY DEF Kept
    <3> QED
      BY <3>1, <2>1
  <2>3. x - 1 \in Nat /\ x - 1 \notin T
    BY <2>1, <2>2
  <2>4. PICK g : Kept(g, items, b, x - 1)
    BY <2>3
  <2> DEFINE h == [n \in 0..x |-> IF n < x THEN g[n]
                      ELSE IF items[n].blob = b THEN g[n - 1]
                      ELSE Append(g[n - 1], items[n])]
  <2>5. \A n \in 0..x : h[n] = IF n = 0 THEN <<>>
                      ELSE IF items[n].blob = b THEN h[n - 1]
                      ELSE Append(h[n - 1], items[n])
    <3> SUFFICES ASSUME NEW n \in 0..x
                 PROVE  h[n] = IF n = 0 THEN <<>>
                      ELSE IF items[n].blob = b THEN h[n - 1]
                      ELSE Append(h[n - 1], items[n])
      OBVIOUS
    <3>1. CASE n < x
      <4>1. n \in 0..(x - 1) /\ (n # 0 => n - 1 \in 0..x /\ n - 1 < x)
        BY <3>1, <2>1
      <4> QED
        BY <4>1, <2>4, <3>1 DEF Kept
    <3>2. CASE n = x
      BY <3>2, <2>1, <2>2
    <3> QED
      BY <3>1, <3>2, <2>1
  <2>6. Kept(h, items, b, x)
    BY <2>5 DEF Kept
  <2> QED
    BY <2>6, <2>1
<1> QED
  BY <1>1, <1>2

(* What filter leaves of a list: in their order, all items but b's.         *)
Filtered(kept, items, b, n) ==
  /\ kept \in Seq(U!Item)
  /\ \A k \in DOMAIN kept : kept[k].blob # b /\ \E i \in 1..n : items[i] = kept[k]
  /\ \A i \in 1..n : items[i].blob # b => \E k \in DOMAIN kept : kept[k] = items[i]
  /\ \A i, j \in 1..n : i < j /\ items[i].blob # b /\ items[j].blob # b =>
        \E k, l \in DOMAIN kept : k < l /\ kept[k] = items[i] /\ kept[l] = items[j]

LEMMA FilterOne ==
  ASSUME NEW items \in Seq(U!Item), NEW b, NEW n \in 0..Len(items), n + 1 \in 1..Len(items),
         NEW kept, Filtered(kept, items, b, n)
  PROVE  Filtered(IF items[n + 1].blob = b THEN kept ELSE Append(kept, items[n + 1]),
                  items, b, n + 1)
<1>1. CASE items[n + 1].blob = b
  <2>1. \A i \in 1..(n + 1) : items[i].blob # b => i \in 1..n
    BY <1>1
  <2> QED
    BY <1>1, <2>1 DEF Filtered
<1>2. CASE items[n + 1].blob # b
  <2> DEFINE next == Append(kept, items[n + 1])
  <2>1. /\ items[n + 1] \in U!Item /\ kept \in Seq(U!Item) /\ Len(kept) \in Nat
        /\ DOMAIN kept = 1..Len(kept)
    BY DEF Filtered
  <2>2. /\ next \in Seq(U!Item) /\ DOMAIN next = 1..(Len(kept) + 1)
        /\ \A k \in DOMAIN kept : next[k] = kept[k]
        /\ next[Len(kept) + 1] = items[n + 1]
    BY <2>1
  <2> HIDE DEF next
  <2>3. \A k \in DOMAIN next : next[k].blob # b /\ \E i \in 1..(n + 1) : items[i] = next[k]
    <3> SUFFICES ASSUME NEW k \in DOMAIN next
                 PROVE  next[k].blob # b /\ \E i \in 1..(n + 1) : items[i] = next[k]
      OBVIOUS
    <3>1. CASE k \in DOMAIN kept
      <4>1. PICK i \in 1..n : items[i] = kept[k]
        BY <3>1 DEF Filtered
      <4> QED
        BY <3>1, <4>1, <2>2 DEF Filtered
    <3>2. CASE k = Len(kept) + 1
      BY <3>2, <2>2, <1>2
    <3> QED
      BY <3>1, <3>2, <2>1, <2>2
  <2>4. \A i \in 1..(n + 1) : items[i].blob # b => \E k \in DOMAIN next : next[k] = items[i]
    <3> SUFFICES ASSUME NEW i \in 1..(n + 1), items[i].blob # b
                 PROVE  \E k \in DOMAIN next : next[k] = items[i]
      OBVIOUS
    <3>1. CASE i = n + 1
      BY <3>1, <2>1, <2>2
    <3>2. CASE i \in 1..n
      <4>1. PICK k \in DOMAIN kept : kept[k] = items[i]
        BY <3>2 DEF Filtered
      <4> QED
        BY <4>1, <2>1, <2>2
    <3> QED
      BY <3>1, <3>2
  <2>5. \A i, j \in 1..(n + 1) : i < j /\ items[i].blob # b /\ items[j].blob # b =>
          \E k, l \in DOMAIN next : k < l /\ next[k] = items[i] /\ next[l] = items[j]
    <3> SUFFICES ASSUME NEW i \in 1..(n + 1), NEW j \in 1..(n + 1), i < j,
                        items[i].blob # b, items[j].blob # b
                 PROVE  \E k, l \in DOMAIN next : k < l /\ next[k] = items[i] /\ next[l] = items[j]
      OBVIOUS
    <3>1. CASE j = n + 1
      <4>1. i \in 1..n
        BY <3>1
      <4>2. PICK k \in DOMAIN kept : kept[k] = items[i]
        BY <4>1 DEF Filtered
      <4>3. /\ k \in DOMAIN next /\ next[k] = items[i] /\ k < Len(kept) + 1
            /\ Len(kept) + 1 \in DOMAIN next /\ next[Len(kept) + 1] = items[j]
        BY <4>2, <2>1, <2>2, <3>1
      <4> QED
        BY <4>3
    <3>2. CASE j \in 1..n
      <4>1. i \in 1..n
        BY <3>2
      <4>2. PICK k \in DOMAIN kept, l \in DOMAIN kept :
              k < l /\ kept[k] = items[i] /\ kept[l] = items[j]
        BY <4>1, <3>2 DEF Filtered
      <4>3. /\ k \in DOMAIN next /\ next[k] = items[i]
            /\ l \in DOMAIN next /\ next[l] = items[j]
        BY <4>2, <2>1, <2>2
      <4> QED
        BY <4>2, <4>3
    <3> QED
      BY <3>1, <3>2
  <2>6. Filtered(next, items, b, n + 1)
    BY <2>2, <2>3, <2>4, <2>5 DEF Filtered
  <2> QED
    BY <2>6, <1>2 DEF next
<1> QED
  BY <1>1, <1>2

LEMMA WithoutIs ==
  ASSUME NEW items \in Seq(U!Item), NEW b
  PROVE  Filtered(U!Without(items, b), items, b, Len(items))
<1> DEFINE g == CHOOSE f : Kept(f, items, b, Len(items))
<1>1. Len(items) \in Nat
  OBVIOUS
<1>2. Kept(g, items, b, Len(items))
  BY <1>1, KeptExists
<1>3. U!Without(items, b) = g[Len(items)]
  BY DEF U!Without, Kept
<1> HIDE DEF g
<1>4. \A n \in 0..Len(items) : Filtered(g[n], items, b, n)
  <2> DEFINE T == {n \in 0..Len(items) : ~Filtered(g[n], items, b, n)}
  <2>1. CASE T = {}
    BY <2>1
  <2>2. CASE T # {}
    <3>1. T \subseteq Nat
      BY <1>1
    <3>2. PICK x \in T : \A y \in T : x <= y
      BY <2>2, <3>1, Least
    <3>3. x # 0
      <4>1. g[0] = <<>>
        BY <1>1, <1>2 DEF Kept
      <4>2. Filtered(g[0], items, b, 0)
        BY <4>1 DEF Filtered
      <4> QED
        BY <4>2, <3>2
    <3>4. x - 1 \in 0..Len(items) /\ x - 1 \notin T /\ x \in 1..Len(items)
      BY <1>1, <3>2, <3>3
    <3>5. Filtered(g[x - 1], items, b, x - 1)
      BY <3>4
    <3>6. g[x] = IF items[x].blob = b THEN g[x - 1] ELSE Append(g[x - 1], items[x])
      <4>1. x \in 0..Len(items) /\ x # 0
        BY <1>1, <3>4
      <4> QED
        BY <1>2, <4>1 DEF Kept
    <3>7. (x - 1) + 1 = x
      BY <3>4
    <3> HIDE DEF T
    <3>8. Filtered(g[x], items, b, x)
      BY <3>4, <3>5, <3>6, <3>7, FilterOne
    <3> QED
      BY <3>2, <3>8 DEF T
  <2> QED
    BY <2>1, <2>2
<1> QED
  BY <1>1, <1>3, <1>4

-----------------------------------------------------------------------------
(***************************************************************************)
(* The upgrade.                                                            *)
(***************************************************************************)

Batch == [list : Seq(U!Item), at : Nat, remaining : Seq(U!Item)]
OldVersion == [up : BOOLEAN, items : Seq(U!Item), batch : Batch, current : 0..MaxNumber]
Opening == [pc : {"closed", "create", "fts", "tables", "readCounter", "setCounter",
                  "renameCounter", "readQueue", "insert", "state", "renameState",
                  "retries", "version", "ready"},
            from : {0, 1, 2}, items : Seq(U!Item), at : Nat, number : 0..MaxNumber]

UpgradeTypes ==
  /\ old \in OldVersion /\ old.batch.at \in 0..(Len(old.batch.list) + 1)
  /\ upgraded \in BOOLEAN
  /\ queueFile \in [torn : BOOLEAN, items : Seq(U!Item)]
  /\ counterFile \in 0..MaxNumber /\ stateFile \in BOOLEAN
  /\ version \in {0, 1, 2, 4} /\ counter \in 0..MaxNumber \cup {None}
  /\ rows \in Seq([blob : Source, tries : 0..MaxRetries])
  /\ state \in BOOLEAN /\ backfills \in 0..2
  /\ open \in [Proc -> Opening]
  /\ \A p \in Proc : open[p].at \in 0..(Len(open[p].items) + 1)
  /\ uploaded \subseteq Source /\ asked \subseteq Source /\ issued \in 0..MaxNumber
  /\ calls \in 0..MaxCalls /\ deaths \in 0..MaxDeaths
  /\ gap \subseteq Source \cup {"torn", "overlap"}

(* Enqueued by now.                                                        *)
Early(items) == \A n \in DOMAIN items : items[n].call <= calls

AllEarly == /\ Early(queueFile.items) /\ Early(old.items)
            /\ Early(old.batch.list) /\ Early(old.batch.remaining)

(* The older version runs before the current one does, a batch while the   *)
(* older version runs, and the table of the counter is there once it is    *)
(* needed.                                                                 *)
Phases ==
  /\ old.up => ~upgraded /\ version # 0 /\ old.current = counterFile
  /\ old.batch # U!NoBatch => old.up /\ old.batch.at # 0
  /\ ~upgraded => /\ version # 4 /\ rows = <<>> /\ counter = None
                  /\ \A p \in Proc : open[p] = U!Closed
  /\ version = 4 => counter # None
  /\ \A p \in Proc :
       /\ open[p].pc = "ready" => version = 4
       /\ open[p].pc \notin {"closed", "create", "fts", "tables"} => counter # None
       /\ open[p].pc = "insert" => open[p].at # 0

UpgradeBase == UpgradeTypes /\ AllEarly /\ Phases

(* Migrations, one at a time: the number is in the file until it is in the *)
(* table.                                                                  *)
OneMigrates ==
  \A p, q \in Proc : U!Migrating(p) /\ U!Migrating(q) => p = q

At(p) ==
  /\ U!Migrating(p) => version # 4
  /\ open[p].pc = "create" => version = 0
  /\ open[p].pc = "setCounter" => counterFile # 0 /\ open[p].number = counterFile
  /\ open[p].pc = "renameCounter" => counter = counterFile
  /\ open[p].pc \in {"readQueue", "insert", "state", "renameState", "retries", "version"} =>
       counterFile = 0

Numbers ==
  /\ version \in {0, 4} => counterFile = 0
  /\ version = 0 => issued = 0
  /\ counterFile # 0 => issued <= counterFile
  /\ counterFile = 0 => issued = 0 \/ (counter # None /\ issued <= counter)

NumberInv == "overlap" \notin gap => OneMigrates /\ Numbers /\ \A p \in Proc : At(p)

(* What is left of a list keeps its order, but for blobs enqueued since.   *)
Ordered(list, items, i) ==
  /\ \E j \in DOMAIN items : items[j] = list[i]
  /\ \A k \in 1..(i - 1) : (\E n \in DOMAIN items : items[n] = list[k]) =>
        \E n, j \in DOMAIN items : n < j /\ items[n] = list[k] /\ items[j] = list[i]

InOrder(list, items) ==
  \A i \in DOMAIN list : list[i].blob \notin gap => Ordered(list, items, i)

InBatch ==
  /\ asked \ gap \subseteq uploaded \cup U!Held(old.batch.remaining)
       \cup {old.batch.list[i].blob : i \in old.batch.at..Len(old.batch.list)}
  /\ InOrder(old.batch.list, old.items)

Inserting(p) ==
  /\ queueFile.items \in {<<>>, open[p].items}
  /\ \A n \in DOMAIN open[p].items : n < open[p].at =>
        open[p].items[n].blob \in uploaded \cup U!Held(rows)

UploadInv ==
  "torn" \notin gap =>
    /\ ~queueFile.torn
    /\ old.up => queueFile.items = old.items
    /\ asked \ gap \subseteq uploaded \cup U!Held(queueFile.items) \cup U!Held(rows)
    /\ old.batch # U!NoBatch => InBatch
    /\ \A p \in Proc : open[p].pc = "insert" => Inserting(p)

UpgradeInv == UpgradeBase /\ NumberInv /\ UploadInv

LEMMA UpSizes ==
  /\ None \notin Nat /\ MaxNumber \in Nat /\ MaxCalls \in Nat \ {0} /\ MaxDeaths \in Nat
  /\ MaxRetries \in Nat \ {0}
BY PartsAssumption

LEMMA StoppedIs ==
  /\ U!NoBatch \in Batch /\ U!NoBatch.list = <<>> /\ U!NoBatch.remaining = <<>>
  /\ U!NoBatch.at = 0
  /\ U!Stopped \in OldVersion /\ U!Stopped.up = FALSE /\ U!Stopped.batch = U!NoBatch
  /\ U!Stopped.items = <<>> /\ U!Stopped.current = 0
BY UpSizes DEF U!NoBatch, U!Stopped, Batch, OldVersion

LEMMA ClosedIs ==
  /\ U!Closed \in Opening /\ U!Closed.pc = "closed" /\ U!Closed.items = <<>>
  /\ U!Closed.at = 0 /\ U!Closed.number = 0 /\ U!Closed.from = 0
BY UpSizes DEF U!Closed, Opening

LEMMA UpgradeStarts == U!Init => UpgradeInv
<1> SUFFICES ASSUME U!Init PROVE UpgradeInv
  OBVIOUS
<1> USE UpSizes, StoppedIs, ClosedIs
<1>1. UpgradeTypes
  <2>1. old \in OldVersion /\ old.batch.at \in 0..(Len(old.batch.list) + 1)
    BY DEF U!Init
  <2>2. queueFile \in [torn : BOOLEAN, items : Seq(U!Item)]
    BY DEF U!Init, U!NoQueue
  <2>3. /\ open \in [Proc -> Opening]
        /\ \A p \in Proc : open[p].at \in 0..(Len(open[p].items) + 1)
    BY DEF U!Init
  <2>4. rows \in Seq([blob : Source, tries : 0..MaxRetries])
    BY DEF U!Init
  <2>7. stateFile \in BOOLEAN
    <3>1. stateFile = (version = 2)
      BY DEF U!Init
    <3> QED
      BY <3>1, Zenon
  <2>5. /\ upgraded \in BOOLEAN /\ state \in BOOLEAN
        /\ counterFile \in 0..MaxNumber /\ issued \in 0..MaxNumber
        /\ calls \in 0..MaxCalls /\ deaths \in 0..MaxDeaths
    <3>1. /\ upgraded = FALSE /\ state = FALSE
          /\ counterFile = 0 /\ issued = 0 /\ calls = 0 /\ deaths = 0
      BY Zenon DEF U!Init
    <3>2. upgraded \in BOOLEAN /\ state \in BOOLEAN
      BY <3>1, Zenon
    <3> QED
      BY <3>1, <3>2
  <2>8. version \in {0, 1, 2, 4} /\ counter \in 0..MaxNumber \cup {None}
    BY DEF U!Init
  <2>9. backfills \in 0..2
    BY DEF U!Init
  <2>6. /\ uploaded \subseteq Source /\ asked \subseteq Source
        /\ gap \subseteq Source \cup {"torn", "overlap"}
    BY DEF U!Init
  <2> QED
    BY <2>1, <2>2, <2>3, <2>4, <2>5, <2>6, <2>7, <2>8, <2>9 DEF UpgradeTypes
<1>2. AllEarly
  BY DEF U!Init, AllEarly, Early, U!NoQueue
<1>3. Phases
  BY DEF U!Init, Phases
<1>4. NumberInv
  BY DEF U!Init, NumberInv, OneMigrates, Numbers, At, U!Migrating
<1>5. UploadInv
  BY DEF U!Init, UploadInv, U!NoQueue
<1> QED
  BY <1>1, <1>2, <1>3, <1>4, <1>5 DEF UpgradeInv, UpgradeBase

(* The records of a state.                                                 *)
LEMMA Records ==
  ASSUME UpgradeTypes
  PROVE  /\ old \in OldVersion /\ old.up \in BOOLEAN /\ old.items \in Seq(U!Item)
         /\ old.batch \in Batch /\ old.current \in 0..MaxNumber
         /\ old.batch.list \in Seq(U!Item) /\ old.batch.at \in Nat
         /\ old.batch.remaining \in Seq(U!Item)
         /\ queueFile.items \in Seq(U!Item) /\ queueFile.torn \in BOOLEAN
         /\ open \in [Proc -> Opening]
         /\ \A p \in Proc : /\ open[p] \in Opening /\ open[p].items \in Seq(U!Item)
                            /\ open[p].at \in Nat /\ open[p].number \in 0..MaxNumber
BY DEF UpgradeTypes, OldVersion, Batch, Opening

LEMMA ItemsHave ==
  ASSUME NEW items \in Seq(U!Item), NEW n \in DOMAIN items
  PROVE  /\ items[n] \in U!Item /\ items[n].blob \in Source
         /\ items[n].call \in 1..MaxCalls /\ items[n].call \in Nat
         /\ items[n].tries \in 0..MaxRetries
<1>1. n \in 1..Len(items)
  OBVIOUS
<1>2. items[n] \in U!Item
  BY <1>1
<1> QED
  BY <1>2, UpSizes DEF U!Item

LEMMA Appended ==
  ASSUME NEW S, NEW s \in Seq(S), NEW e \in S
  PROVE  /\ Append(s, e) \in Seq(S) /\ DOMAIN s = 1..Len(s) /\ Len(s) \in Nat
         /\ DOMAIN Append(s, e) = 1..(Len(s) + 1) /\ Len(Append(s, e)) = Len(s) + 1
         /\ \A n \in 1..Len(s) : Append(s, e)[n] = s[n]
         /\ Append(s, e)[Len(s) + 1] = e
OBVIOUS

(***************************************************************************)
(* The older version.                                                      *)
(***************************************************************************)

(* Nothing but the files and the process of the older version changes.     *)
Untouched == UNCHANGED <<upgraded, stateFile, version, counter, rows, state, backfills, open>>

LEMMA OldBase ==
  ASSUME UpgradeBase, Untouched, ~upgraded, version # 0,
         old' \in OldVersion, old'.batch.at \in 0..(Len(old'.batch.list) + 1),
         old'.up => old'.current = counterFile',
         old'.batch # U!NoBatch => old'.up /\ old'.batch.at # 0,
         queueFile' \in [torn : BOOLEAN, items : Seq(U!Item)],
         counterFile' \in 0..MaxNumber, issued' \in 0..MaxNumber,
         uploaded' \subseteq Source, asked' \subseteq Source,
         calls' \in 0..MaxCalls, deaths' \in 0..MaxDeaths,
         gap' \subseteq Source \cup {"torn", "overlap"},
         AllEarly'
  PROVE  UpgradeBase'
<1>1. UpgradeTypes'
  BY DEF UpgradeBase, UpgradeTypes, Untouched
<1>2. Phases'
  BY DEF UpgradeBase, Phases, Untouched
<1> QED
  BY <1>1, <1>2 DEF UpgradeBase

LEMMA LoadBase == ASSUME UpgradeBase, U!Load PROVE UpgradeBase'
<1> USE UpSizes, StoppedIs
<1>1. /\ ~upgraded /\ version # 0 /\ Untouched
      /\ old' = [U!Stopped EXCEPT !.up = TRUE, !.current = counterFile, !.items = queueFile.items]
      /\ UNCHANGED <<queueFile, counterFile, uploaded, asked, issued, calls, deaths, gap>>
  BY DEF U!Load, U!files, U!tables, U!rest, Untouched
<1>2. UpgradeTypes
  BY DEF UpgradeBase
<1>3. /\ old' \in OldVersion /\ old'.up /\ old'.current = counterFile
      /\ old'.items = queueFile.items /\ old'.batch = U!NoBatch
  BY <1>1, <1>2, Records DEF OldVersion, UpgradeTypes
<1>4. AllEarly'
  BY <1>1, <1>3 DEF UpgradeBase, AllEarly, Early
<1> QED
  BY <1>1, <1>2, <1>3, <1>4, OldBase DEF UpgradeTypes

LEMMA SaveBase ==
  ASSUME UpgradeBase, Untouched, old.up, NEW items \in Seq(U!Item), U!Save(items),
         UNCHANGED <<counterFile, uploaded, issued>>,
         asked' \subseteq Source, calls' \in 0..MaxCalls, calls <= calls',
         \A n \in DOMAIN items : items[n].call <= calls'
  PROVE  UpgradeBase'
<1> USE UpSizes, StoppedIs
<1>1. ~upgraded /\ version # 0 /\ old.current = counterFile
  BY DEF UpgradeBase, Phases
<1>2. UpgradeTypes
  BY DEF UpgradeBase
<1>3. CASE /\ queueFile' = U!Whole(items) /\ UNCHANGED <<deaths, gap>>
           /\ old' = [old EXCEPT !.items = items, !.batch = U!NoBatch]
  <2>1. /\ old' \in OldVersion /\ old'.items = items /\ old'.batch = U!NoBatch
        /\ old'.current = old.current
    BY <1>2, <1>3, Records DEF OldVersion
  <2>2. queueFile' \in [torn : BOOLEAN, items : Seq(U!Item)] /\ queueFile'.items = items
    BY <1>3 DEF U!Whole
  <2>3. AllEarly'
    BY <2>1, <2>2 DEF AllEarly, Early
  <2>4. /\ counterFile' \in 0..MaxNumber /\ issued' \in 0..MaxNumber
        /\ uploaded' \subseteq Source /\ deaths' \in 0..MaxDeaths
        /\ gap' \subseteq Source \cup {"torn", "overlap"}
    BY <1>2, <1>3 DEF UpgradeTypes
  <2>5. old'.batch.at \in 0..(Len(old'.batch.list) + 1)
    BY <2>1
  <2>6. old'.current = counterFile'
    BY <1>1, <2>1
  <2> QED
    BY <1>1, <2>1, <2>2, <2>3, <2>4, <2>5, <2>6, OldBase
<1>4. CASE /\ deaths < MaxDeaths /\ deaths' = deaths + 1
           /\ queueFile' = [torn |-> TRUE, items |-> <<>>]
           /\ gap' = gap \cup {"torn"} /\ old' = U!Stopped
  <2>1. queueFile' \in [torn : BOOLEAN, items : Seq(U!Item)] /\ queueFile'.items = <<>>
    BY <1>4
  <2>2. AllEarly'
    BY <2>1, <1>4 DEF AllEarly, Early
  <2>3. deaths' \in 0..MaxDeaths
    BY <1>2, <1>4 DEF UpgradeTypes
  <2> QED
    BY <1>1, <1>2, <1>4, <2>1, <2>2, <2>3, OldBase DEF UpgradeTypes
<1> QED
  BY <1>3, <1>4 DEF U!Save

(* What enqueue makes of the list.                                         *)
LEMMA Enqueued ==
  ASSUME UpgradeBase, NEW b \in Source, calls < MaxCalls,
         NEW items, items = Append(U!Without(old.items, b), U!ItemOf(b, calls + 1))
  PROVE  /\ items \in Seq(U!Item) /\ U!ItemOf(b, calls + 1) \in U!Item
         /\ U!Without(old.items, b) \in Seq(U!Item)
         /\ \A n \in DOMAIN items : items[n].call <= calls + 1
         /\ calls + 1 \in 0..MaxCalls /\ calls <= calls + 1
<1> DEFINE kept == U!Without(old.items, b)
<1>1. old.items \in Seq(U!Item) /\ calls \in 0..MaxCalls
  BY Records DEF UpgradeBase, UpgradeTypes
<1>2. Filtered(kept, old.items, b, Len(old.items))
  BY <1>1, WithoutIs
<1> HIDE DEF kept
<1>3. kept \in Seq(U!Item)
  BY <1>2 DEF Filtered
<1>4. U!ItemOf(b, calls + 1) \in U!Item /\ U!ItemOf(b, calls + 1).call = calls + 1
  BY <1>1, UpSizes DEF U!ItemOf, U!Item
<1>5. \A k \in DOMAIN kept : kept[k].call <= calls
  <2> SUFFICES ASSUME NEW k \in DOMAIN kept PROVE kept[k].call <= calls
    OBVIOUS
  <2>1. PICK i \in 1..Len(old.items) : old.items[i] = kept[k]
    BY <1>2 DEF Filtered
  <2> QED
    BY <1>1, <2>1 DEF UpgradeBase, AllEarly, Early
<1>6. \A k \in DOMAIN kept : kept[k].call \in Nat
  BY <1>3, ItemsHave
<1>7. items = Append(kept, U!ItemOf(b, calls + 1))
  BY DEF kept
<1>8. /\ items \in Seq(U!Item) /\ DOMAIN items = 1..(Len(kept) + 1)
      /\ \A n \in 1..Len(kept) : items[n] = kept[n]
      /\ items[Len(kept) + 1] = U!ItemOf(b, calls + 1)
  <2>1. /\ Append(kept, U!ItemOf(b, calls + 1)) \in Seq(U!Item)
        /\ DOMAIN Append(kept, U!ItemOf(b, calls + 1)) = 1..(Len(kept) + 1)
        /\ \A n \in 1..Len(kept) : Append(kept, U!ItemOf(b, calls + 1))[n] = kept[n]
        /\ Append(kept, U!ItemOf(b, calls + 1))[Len(kept) + 1] = U!ItemOf(b, calls + 1)
    BY <1>3, <1>4, Appended
  <2> QED
    BY <2>1, <1>7, Zenon
<1>9. \A n \in DOMAIN items : items[n].call <= calls + 1
  <2> SUFFICES ASSUME NEW n \in DOMAIN items PROVE items[n].call <= calls + 1
    OBVIOUS
  <2>1. n = Len(kept) + 1 \/ n \in DOMAIN kept
    BY <1>3, <1>8
  <2> QED
    BY <2>1, <1>1, <1>3, <1>4, <1>5, <1>6, <1>8
<1>10. calls + 1 \in 0..MaxCalls /\ calls <= calls + 1
  BY <1>1, UpSizes
<1>11. U!Without(old.items, b) \in Seq(U!Item)
  BY <1>3 DEF kept
<1> QED
  BY <1>4, <1>8, <1>9, <1>10, <1>11

LEMMA EnqueueBase == ASSUME UpgradeBase, NEW b \in Source, U!Enqueue(b) PROVE UpgradeBase'
<1> USE UpSizes, StoppedIs
<1> DEFINE items == Append(U!Without(old.items, b), U!ItemOf(b, calls + 1))
<1>1. /\ old.up /\ calls < MaxCalls /\ calls' = calls + 1 /\ asked' = asked \cup {b}
      /\ Untouched /\ UNCHANGED <<counterFile, uploaded, issued>>
  BY DEF U!Enqueue, U!tables, Untouched
<1>2. UpgradeTypes
  BY DEF UpgradeBase
<1>3. /\ items \in Seq(U!Item) /\ \A n \in DOMAIN items : items[n].call <= calls'
      /\ calls' \in 0..MaxCalls /\ calls <= calls'
  BY <1>1, Enqueued
<1>4. asked' \subseteq Source
  BY <1>1, <1>2 DEF UpgradeTypes
<1>5. \/ U!Save(items)
      \/ /\ old.batch # U!NoBatch /\ queueFile' = U!Whole(items)
         /\ old' = [old EXCEPT !.items = items] /\ gap' = gap \cup {b} /\ deaths' = deaths
  BY DEF U!Enqueue
<1> HIDE DEF items
<1>6. CASE U!Save(items)
  BY <1>1, <1>3, <1>4, <1>6, SaveBase
<1>7. CASE /\ old.batch # U!NoBatch /\ queueFile' = U!Whole(items)
           /\ old' = [old EXCEPT !.items = items] /\ gap' = gap \cup {b} /\ deaths' = deaths
  <2>1. /\ old' \in OldVersion /\ old'.items = items /\ old'.batch = old.batch
        /\ old'.current = old.current /\ old'.up
    BY <1>1, <1>2, <1>3, <1>7, Records DEF OldVersion
  <2>2. queueFile' \in [torn : BOOLEAN, items : Seq(U!Item)] /\ queueFile'.items = items
    BY <1>3, <1>7 DEF U!Whole
  <2>3. AllEarly'
    <3>1. Early(old.batch.list) /\ Early(old.batch.remaining)
      BY DEF UpgradeBase, AllEarly
    <3>2. /\ \A n \in DOMAIN old.batch.list : old.batch.list[n].call \in Nat
          /\ \A n \in DOMAIN old.batch.remaining : old.batch.remaining[n].call \in Nat
          /\ calls \in Nat
      BY <1>2, Records, ItemsHave DEF UpgradeTypes
    <3>3. Early(old.batch.list)' /\ Early(old.batch.remaining)'
      BY <1>1, <3>1, <3>2, <2>1 DEF Early
    <3> QED
      BY <1>3, <2>1, <2>2, <3>3 DEF AllEarly, Early
  <2>4. ~upgraded /\ version # 0 /\ old.current = counterFile /\ old.batch.at # 0
    BY <1>1, <1>7 DEF UpgradeBase, Phases
  <2>5. old.batch.at \in 0..(Len(old.batch.list) + 1)
    BY <1>2 DEF UpgradeTypes
  <2> QED
    BY <1>1, <1>2, <1>3, <1>4, <1>7, <2>1, <2>2, <2>3, <2>4, <2>5, OldBase DEF UpgradeTypes
<1> QED
  BY <1>5, <1>6, <1>7

LEMMA NextNumberBase == ASSUME UpgradeBase, U!NextNumber PROVE UpgradeBase'
<1> USE UpSizes, StoppedIs
<1>1. /\ old.up /\ old.current < MaxNumber /\ old' = [old EXCEPT !.current = old.current + 1]
      /\ counterFile' = old.current + 1
      /\ issued' = IF old.current + 1 > issued THEN old.current + 1 ELSE issued
      /\ Untouched /\ UNCHANGED <<queueFile, uploaded, asked, calls, deaths, gap>>
  BY DEF U!NextNumber, U!tables, Untouched
<1>2. UpgradeTypes
  BY DEF UpgradeBase
<1>3. old.current + 1 \in 0..MaxNumber /\ issued' \in 0..MaxNumber
  <2>1. old.current \in 0..MaxNumber /\ issued \in 0..MaxNumber
    BY <1>2, Records DEF UpgradeTypes
  <2>2. old.current + 1 \in 0..MaxNumber
    BY <1>1, <2>1
  <2>3. CASE old.current + 1 > issued
    BY <1>1, <2>2, <2>3
  <2>4. CASE ~(old.current + 1 > issued)
    BY <1>1, <2>1, <2>4
  <2> QED
    BY <2>2, <2>3, <2>4
<1>4. /\ old' \in OldVersion /\ old'.items = old.items /\ old'.batch = old.batch
      /\ old'.current = old.current + 1 /\ old'.up
  BY <1>1, <1>2, <1>3, Records DEF OldVersion
<1>5. AllEarly'
  BY <1>1, <1>4 DEF UpgradeBase, AllEarly, Early
<1>6. ~upgraded /\ version # 0 /\ (old.batch # U!NoBatch => old.batch.at # 0)
  BY <1>1 DEF UpgradeBase, Phases
<1>7. old.batch.at \in 0..(Len(old.batch.list) + 1)
  BY <1>2 DEF UpgradeTypes
<1> QED
  BY <1>1, <1>2, <1>3, <1>4, <1>5, <1>6, <1>7, OldBase DEF UpgradeTypes

(* The batch of the older version moves on.                                *)
LEMMA BatchBase ==
  ASSUME UpgradeBase, Untouched, old.up, NEW batch \in Batch,
         old' = [old EXCEPT !.batch = batch],
         batch.at \in 1..(Len(batch.list) + 1), Early(batch.list), Early(batch.remaining),
         uploaded' \subseteq Source,
         UNCHANGED <<queueFile, counterFile, asked, issued, calls, deaths, gap>>
  PROVE  UpgradeBase'
<1>2. UpgradeTypes
  BY DEF UpgradeBase
<1>4. /\ old' \in OldVersion /\ old'.items = old.items /\ old'.batch = batch
      /\ old'.current = old.current /\ old'.up
  BY <1>2, Records DEF OldVersion
<1>5. AllEarly'
  BY <1>4 DEF UpgradeBase, AllEarly, Early
<1>6. ~upgraded /\ version # 0 /\ old.current = counterFile
  BY DEF UpgradeBase, Phases
<1>7. batch.at # 0 /\ batch.at \in 0..(Len(batch.list) + 1)
  OBVIOUS
<1> QED
  BY <1>2, <1>4, <1>5, <1>6, <1>7, OldBase DEF UpgradeTypes

LEMMA BeginIs ==
  ASSUME UpgradeBase, U!Begin
  PROVE  /\ old.up /\ old.batch = U!NoBatch /\ Untouched
         /\ [list |-> old.items, at |-> 1, remaining |-> <<>>] \in Batch
         /\ old' = [old EXCEPT !.batch = [list |-> old.items, at |-> 1, remaining |-> <<>>]]
         /\ UNCHANGED <<queueFile, counterFile, uploaded, asked, issued, calls, deaths, gap>>
BY Records DEF U!Begin, UpgradeBase, U!files, U!tables, U!rest, Untouched, Batch

LEMMA BeginBase == ASSUME UpgradeBase, U!Begin PROVE UpgradeBase'
<1> DEFINE batch == [list |-> old.items, at |-> 1, remaining |-> <<>>]
<1>1. batch.list = old.items /\ batch.at = 1 /\ batch.remaining = <<>>
  OBVIOUS
<1>2. batch.at \in 1..(Len(batch.list) + 1)
  BY <1>1, Records DEF UpgradeBase
<1>3. Early(batch.list) /\ Early(batch.remaining)
  BY <1>1 DEF UpgradeBase, AllEarly, Early
<1>4. uploaded' \subseteq Source
  BY BeginIs DEF UpgradeBase, UpgradeTypes
<1> HIDE DEF batch
<1> QED
  BY <1>2, <1>3, <1>4, BeginIs, BatchBase DEF batch

(* What becomes of the item: it is kept, or it is on the server.           *)
LEMMA ProcessItemIs ==
  ASSUME UpgradeBase, U!ProcessItem
  PROVE  LET batch == old.batch  item == batch.list[batch.at] IN
         /\ old.up /\ batch # U!NoBatch /\ Untouched
         /\ batch.at \in 1..Len(batch.list) /\ item \in U!Item
         /\ UNCHANGED <<queueFile, counterFile, asked, issued, calls, deaths, gap>>
         /\ \E kept \in Seq(U!Item) :
              /\ old' = [old EXCEPT !.batch = [list |-> batch.list, at |-> batch.at + 1,
                                              remaining |-> kept]]
              /\ \/ kept = batch.remaining /\ uploaded' = uploaded \cup {item.blob}
                 \/ /\ uploaded' = uploaded
                    /\ \E i \in U!Item : /\ i.blob = item.blob /\ i.call = item.call
                                        /\ kept = Append(batch.remaining, i)
<1> DEFINE batch == old.batch
           item == batch.list[batch.at]
<1>1. UpgradeTypes
  BY DEF UpgradeBase
<1>2. /\ old.up /\ batch # U!NoBatch /\ Untouched /\ batch.at <= Len(batch.list)
      /\ UNCHANGED <<queueFile, counterFile, asked, issued, calls, deaths, gap>>
  BY DEF U!ProcessItem, U!files, U!tables, Untouched
<1>3. /\ old \in OldVersion /\ batch \in Batch /\ batch.list \in Seq(U!Item) /\ batch.at \in Nat
      /\ batch.remaining \in Seq(U!Item)
  BY <1>1, Records
<1>4. batch.at # 0
  BY <1>2 DEF UpgradeBase, Phases
<1>5. batch.at \in 1..Len(batch.list) /\ item \in U!Item
  BY <1>2, <1>3, <1>4
<1>6. \/ item.tries >= MaxRetries /\ U!Keep(item) /\ UNCHANGED uploaded
      \/ /\ item.tries < MaxRetries
         /\ \/ /\ uploaded' = uploaded \cup {item.blob}
               /\ old' = [old EXCEPT !.batch.at = @ + 1]
            \/ U!Keep([item EXCEPT !.tries = item.tries + 1]) /\ UNCHANGED uploaded
  BY DEF U!ProcessItem
<1> HIDE DEF item
<1>7. ASSUME NEW i \in U!Item, i.blob = item.blob, i.call = item.call, U!Keep(i), uploaded' = uploaded
      PROVE  \E kept \in Seq(U!Item) :
              /\ old' = [old EXCEPT !.batch = [list |-> batch.list, at |-> batch.at + 1,
                                              remaining |-> kept]]
              /\ \/ kept = batch.remaining /\ uploaded' = uploaded \cup {item.blob}
                 \/ /\ uploaded' = uploaded
                    /\ \E j \in U!Item : /\ j.blob = item.blob /\ j.call = item.call
                                        /\ kept = Append(batch.remaining, j)
  <2>1. Append(batch.remaining, i) \in Seq(U!Item)
    BY <1>3
  <2> DEFINE more == Append(batch.remaining, i)
  <2>3. old' = [old EXCEPT !.batch.at = @ + 1, !.batch.remaining = more]
    BY <1>7 DEF U!Keep
  <2> HIDE DEF more
  <2> DEFINE mid == [old EXCEPT !.batch.at = @ + 1]
  <2>5. mid = [old EXCEPT !.batch = [list |-> batch.list, at |-> batch.at + 1,
                                     remaining |-> batch.remaining]]
    BY <1>3 DEF OldVersion, Batch
  <2>6. old' = [mid EXCEPT !.batch.remaining = more]
    BY <2>3
  <2> HIDE DEF mid
  <2>4. old' = [old EXCEPT !.batch = [list |-> batch.list, at |-> batch.at + 1,
                                      remaining |-> more]]
    <3>1. old' = [mid EXCEPT !.batch = [mid.batch EXCEPT !.remaining = more]]
      BY <2>6
    <3>2. mid.batch = [list |-> batch.list, at |-> batch.at + 1,
                       remaining |-> batch.remaining]
      BY <1>3, <2>5 DEF OldVersion
    <3>3. [mid.batch EXCEPT !.remaining = more] = [list |-> batch.list, at |-> batch.at + 1,
                                                   remaining |-> more]
      BY <3>2
    <3> QED
      BY <1>3, <2>5, <3>1, <3>3 DEF OldVersion
  <2>2. old' = [old EXCEPT !.batch = [list |-> batch.list, at |-> batch.at + 1,
                                      remaining |-> Append(batch.remaining, i)]]
    BY <2>4 DEF more
  <2> QED
    BY <1>7, <2>1, <2>2
<1>8. CASE item.tries >= MaxRetries /\ U!Keep(item) /\ UNCHANGED uploaded
  BY <1>2, <1>5, <1>7, <1>8 DEF item
<1>9. CASE /\ item.tries < MaxRetries
           /\ U!Keep([item EXCEPT !.tries = item.tries + 1]) /\ UNCHANGED uploaded
  <2>1. /\ [item EXCEPT !.tries = item.tries + 1] \in U!Item
        /\ [item EXCEPT !.tries = item.tries + 1].blob = item.blob
        /\ [item EXCEPT !.tries = item.tries + 1].call = item.call
    BY <1>5, <1>9, UpSizes DEF U!Item
  <2> QED
    BY <1>2, <1>5, <1>7, <1>9, <2>1 DEF item
<1>10. CASE uploaded' = uploaded \cup {item.blob} /\ old' = [old EXCEPT !.batch.at = @ + 1]
  <2>1. old' = [old EXCEPT !.batch = [list |-> batch.list, at |-> batch.at + 1,
                                      remaining |-> batch.remaining]]
    BY <1>3, <1>10 DEF OldVersion, Batch
  <2> QED
    BY <1>2, <1>3, <1>5, <1>10, <2>1 DEF item
<1> QED
  BY <1>6, <1>8, <1>9, <1>10

LEMMA ProcessItemBase == ASSUME UpgradeBase, U!ProcessItem PROVE UpgradeBase'
<1> DEFINE item == old.batch.list[old.batch.at]
<1>1. /\ old.up /\ Untouched
      /\ old.batch.at \in 1..Len(old.batch.list) /\ item \in U!Item
      /\ UNCHANGED <<queueFile, counterFile, asked, issued, calls, deaths, gap>>
  BY ProcessItemIs
<1>2. PICK kept \in Seq(U!Item) :
        /\ old' = [old EXCEPT !.batch = [list |-> old.batch.list, at |-> old.batch.at + 1,
                                         remaining |-> kept]]
        /\ \/ kept = old.batch.remaining /\ uploaded' = uploaded \cup {item.blob}
           \/ /\ uploaded' = uploaded
              /\ \E i \in U!Item : /\ i.blob = item.blob /\ i.call = item.call
                                   /\ kept = Append(old.batch.remaining, i)
  BY ProcessItemIs
<1>3. UpgradeTypes
  BY DEF UpgradeBase
<1>4. old.batch.list \in Seq(U!Item) /\ old.batch.remaining \in Seq(U!Item)
  BY <1>3, Records
<1>5. Early(old.batch.list) /\ Early(old.batch.remaining)
  BY DEF UpgradeBase, AllEarly
<1>6. item.call <= calls /\ item.blob \in Source
  <2>1. old.batch.at \in DOMAIN old.batch.list
    BY <1>1, <1>4
  <2> QED
    BY <2>1, <1>4, <1>5, ItemsHave DEF Early
<1> HIDE DEF item
<1>7. Early(kept)
  <2>1. CASE kept = old.batch.remaining
    BY <1>5, <2>1
  <2>2. CASE \E i \in U!Item : /\ i.blob = item.blob /\ i.call = item.call
                               /\ kept = Append(old.batch.remaining, i)
    <3>1. PICK i \in U!Item : /\ i.call = item.call
                              /\ kept = Append(old.batch.remaining, i)
      BY <2>2
    <3>2. /\ DOMAIN kept = 1..(Len(old.batch.remaining) + 1)
          /\ DOMAIN old.batch.remaining = 1..Len(old.batch.remaining)
          /\ Len(old.batch.remaining) \in Nat
          /\ \A n \in 1..Len(old.batch.remaining) : kept[n] = old.batch.remaining[n]
          /\ kept[Len(old.batch.remaining) + 1] = i
      BY <1>4, <3>1, Appended
    <3>3. \A n \in DOMAIN kept : \/ n \in DOMAIN old.batch.remaining
                                 \/ n = Len(old.batch.remaining) + 1
      BY <3>2
    <3> QED
      BY <1>5, <1>6, <3>1, <3>2, <3>3 DEF Early
  <2> QED
    BY <1>2, <2>1, <2>2
<1> DEFINE batch == [list |-> old.batch.list, at |-> old.batch.at + 1, remaining |-> kept]
<1>8. /\ batch \in Batch /\ batch.list = old.batch.list /\ batch.remaining = kept
      /\ batch.at \in 1..(Len(batch.list) + 1)
  BY <1>1, <1>4 DEF Batch
<1>9. old' = [old EXCEPT !.batch = batch]
  BY <1>2
<1>10. uploaded' \subseteq Source
  BY <1>2, <1>3, <1>6 DEF UpgradeTypes
<1> HIDE DEF batch
<1> QED
  BY <1>1, <1>5, <1>7, <1>8, <1>9, <1>10, BatchBase

(* What follows the first occurrence of an item, or all of the list.       *)
LEMMA AfterIs ==
  ASSUME NEW items \in Seq(U!Item), NEW item
  PROVE  \E m \in 0..Len(items) :
           /\ \A n \in DOMAIN items : items[n] = item => m <= n
           /\ m # 0 => items[m] = item
           /\ U!After(item, items) = SubSeq(items, m + 1, Len(items))
           /\ U!After(item, items) \in Seq(U!Item)
           /\ Len(U!After(item, items)) = Len(items) - m
           /\ \A i \in 1..(Len(items) - m) : U!After(item, items)[i] = items[m + i]
<1> DEFINE found == {n \in DOMAIN items : items[n] = item}
           first == CHOOSE n \in found : \A m \in found : n <= m
           m == IF found = {} THEN 0 ELSE first
<1>1. Len(items) \in Nat /\ DOMAIN items = 1..Len(items)
  OBVIOUS
<1>2. found # {} => first \in found /\ \A n \in found : first <= n
  <2> SUFFICES ASSUME found # {} PROVE first \in found /\ \A n \in found : first <= n
    OBVIOUS
  <2>1. found \subseteq Nat
    BY <1>1
  <2>2. \E n \in found : \A k \in found : n <= k
    BY <2>1, Least
  <2> QED
    BY <2>2, Zenon
<1>3. U!After(item, items) = SubSeq(items, IF found = {} THEN 1 ELSE first + 1, Len(items))
  BY DEF U!After
<1> HIDE DEF first
<1>4. /\ m \in 0..Len(items)
      /\ \A n \in DOMAIN items : items[n] = item => m <= n
      /\ m # 0 => items[m] = item
      /\ U!After(item, items) = SubSeq(items, m + 1, Len(items))
  <2>1. CASE found = {}
    BY <1>1, <1>3, <2>1
  <2>2. CASE found # {}
    <3>1. m = first /\ first \in found /\ first \in DOMAIN items /\ items[first] = item
      BY <1>2, <2>2
    <3>2. \A n \in DOMAIN items : items[n] = item => first <= n
      BY <1>2, <2>2
    <3>3. U!After(item, items) = SubSeq(items, first + 1, Len(items))
      BY <1>3, <2>2
    <3> HIDE DEF m, found
    <3> QED
      BY <1>1, <3>1, <3>2, <3>3
  <2> QED
    BY <2>1, <2>2
<1> HIDE DEF m
<1>5. \A i \in (m + 1)..Len(items) : items[i] \in U!Item
  BY <1>1, <1>4
<1>6. m + 1 \in Int /\ Len(items) \in Int /\ m \in Nat /\ m <= Len(items)
  BY <1>1, <1>4
<1>7. /\ SubSeq(items, m + 1, Len(items)) \in Seq(U!Item)
      /\ Len(SubSeq(items, m + 1, Len(items)))
           = IF m + 1 <= Len(items) THEN Len(items) - (m + 1) + 1 ELSE 0
      /\ \A i \in 1..(Len(items) - (m + 1) + 1) :
            SubSeq(items, m + 1, Len(items))[i] = items[(m + 1) + i - 1]
  BY <1>5, <1>6, SubSeqProperties
<1>8. /\ Len(items) - (m + 1) + 1 = Len(items) - m
      /\ \A i \in 1..(Len(items) - m) : (m + 1) + i - 1 = m + i
      /\ ~(m + 1 <= Len(items)) => Len(items) - m = 0
  <2> DEFINE l == Len(items)
  <2>1. l \in Nat /\ m \in Nat /\ m <= l
    BY <1>1, <1>6
  <2> HIDE DEF l
  <2>2. l - (m + 1) + 1 = l - m
    BY <2>1
  <2>3. \A i \in 1..(l - m) : (m + 1) + i - 1 = m + i
    BY <2>1
  <2>4. ~(m + 1 <= l) => l - m = 0
    BY <2>1
  <2> QED
    BY <2>2, <2>3, <2>4 DEF l
<1> QED
  BY <1>4, <1>7, <1>8

(* The list that is saved when the quota is exceeded.                      *)
LeftOver(batch, items) ==
  batch.remaining \o <<batch.list[batch.at]>> \o U!After(batch.list[batch.at], items)

LEMMA RestIs ==
  ASSUME UpgradeTypes, old.batch.at \in 1..Len(old.batch.list)
  PROVE  LET batch == old.batch  items == old.items IN
         /\ LeftOver(batch, items) \in Seq(U!Item)
         /\ \A n \in DOMAIN LeftOver(batch, items) :
              \/ \E k \in DOMAIN batch.remaining : LeftOver(batch, items)[n] = batch.remaining[k]
              \/ LeftOver(batch, items)[n] = batch.list[batch.at]
              \/ \E k \in DOMAIN items : LeftOver(batch, items)[n] = items[k]
         /\ \A k \in DOMAIN batch.remaining :
              \E n \in DOMAIN LeftOver(batch, items) : LeftOver(batch, items)[n] = batch.remaining[k]
         /\ \E n \in DOMAIN LeftOver(batch, items) : LeftOver(batch, items)[n] = batch.list[batch.at]
         /\ \A j \in DOMAIN items :
              \/ (\E k \in DOMAIN items : items[k] = batch.list[batch.at])
                   /\ \A k \in DOMAIN items : items[k] = batch.list[batch.at] => j <= k
              \/ \E n \in DOMAIN LeftOver(batch, items) : LeftOver(batch, items)[n] = items[j]
<1> DEFINE batch == old.batch
           items == old.items
           item == batch.list[batch.at]
           kept == batch.remaining
           after == U!After(item, items)
           r == LeftOver(batch, items)
<1>1. /\ kept \in Seq(U!Item) /\ item \in U!Item /\ items \in Seq(U!Item)
  BY Records
<1>2. PICK m \in 0..Len(items) :
        /\ \A n \in DOMAIN items : items[n] = item => m <= n
        /\ m # 0 => items[m] = item
        /\ after \in Seq(U!Item) /\ Len(after) = Len(items) - m
        /\ \A i \in 1..(Len(items) - m) : after[i] = items[m + i]
  BY <1>1, AfterIs
<1>3. r = kept \o <<item>> \o after
  BY DEF LeftOver
<1> HIDE DEF r, after, kept, item, items, batch
<1>4. /\ Len(kept) \in Nat /\ Len(items) \in Nat /\ m \in Nat /\ m <= Len(items)
      /\ DOMAIN kept = 1..Len(kept) /\ DOMAIN items = 1..Len(items)
      /\ DOMAIN after = 1..(Len(items) - m)
  BY <1>1, <1>2
<1>5. /\ kept \o <<item>> \in Seq(U!Item) /\ Len(kept \o <<item>>) = Len(kept) + 1
      /\ \A i \in 1..Len(kept) : (kept \o <<item>>)[i] = kept[i]
      /\ (kept \o <<item>>)[Len(kept) + 1] = item
  BY <1>1, <1>4
<1> DEFINE front == kept \o <<item>>
<1> HIDE DEF front
<1>6. /\ front \o after \in Seq(U!Item)
      /\ Len(front \o after) = Len(front) + Len(after)
      /\ \A i \in 1..(Len(front) + Len(after)) :
            (front \o after)[i] = IF i <= Len(front) THEN front[i] ELSE after[i - Len(front)]
  <2>1. front \in Seq(U!Item) /\ after \in Seq(U!Item)
    BY <1>2, <1>5 DEF front
  <2> QED
    BY <2>1, ConcatProperties
<1>7. r = front \o after /\ Len(front) = Len(kept) + 1
  BY <1>3, <1>5 DEF front
<1>8. /\ r \in Seq(U!Item) /\ DOMAIN r = 1..(Len(kept) + 1 + (Len(items) - m))
      /\ \A i \in 1..Len(kept) : r[i] = kept[i]
      /\ r[Len(kept) + 1] = item
      /\ \A i \in 1..(Len(items) - m) : r[Len(kept) + 1 + i] = items[m + i]
  <2>1. r \in Seq(U!Item) /\ DOMAIN r = 1..(Len(kept) + 1 + (Len(items) - m))
    BY <1>2, <1>4, <1>6, <1>7
  <2>2. \A i \in 1..(Len(kept) + 1) : r[i] = front[i]
    BY <1>2, <1>4, <1>6, <1>7
  <2>3. \A i \in 1..(Len(items) - m) : r[Len(kept) + 1 + i] = after[i]
    <3> SUFFICES ASSUME NEW i \in 1..(Len(items) - m)
                 PROVE  r[Len(kept) + 1 + i] = after[i]
      OBVIOUS
    <3>1. /\ Len(kept) + 1 + i \in 1..(Len(front) + Len(after))
          /\ ~(Len(kept) + 1 + i <= Len(front)) /\ Len(kept) + 1 + i - Len(front) = i
      BY <1>2, <1>4, <1>7
    <3> QED
      BY <1>6, <1>7, <3>1
  <2>4. \A i \in 1..Len(kept) : r[i] = kept[i]
    <3>1. \A i \in 1..Len(kept) : i \in 1..(Len(kept) + 1)
      BY <1>4
    <3> QED
      BY <1>5, <2>2, <3>1 DEF front
  <2>5. r[Len(kept) + 1] = item
    <3>1. Len(kept) + 1 \in 1..(Len(kept) + 1)
      BY <1>4
    <3> QED
      BY <1>5, <2>2, <3>1 DEF front
  <2>6. \A i \in 1..(Len(items) - m) : r[Len(kept) + 1 + i] = items[m + i]
    BY <1>2, <2>3
  <2> QED
    BY <2>1, <2>4, <2>5, <2>6
<1>9. \A n \in DOMAIN r : \/ \E k \in DOMAIN kept : r[n] = kept[k]
                          \/ r[n] = item
                          \/ \E k \in DOMAIN items : r[n] = items[k]
  <2> SUFFICES ASSUME NEW n \in DOMAIN r
               PROVE  \/ \E k \in DOMAIN kept : r[n] = kept[k]
                      \/ r[n] = item
                      \/ \E k \in DOMAIN items : r[n] = items[k]
    OBVIOUS
  <2>1. CASE n \in 1..Len(kept)
    BY <1>4, <1>8, <2>1
  <2>2. CASE n = Len(kept) + 1
    BY <1>8, <2>2
  <2>3. CASE n > Len(kept) + 1
    <3> DEFINE i == n - (Len(kept) + 1)
    <3>1. i \in 1..(Len(items) - m) /\ n = Len(kept) + 1 + i /\ m + i \in DOMAIN items
      BY <1>4, <1>8, <2>3
    <3> HIDE DEF i
    <3> QED
      BY <1>8, <3>1
  <2> QED
    BY <1>4, <1>8, <2>1, <2>2, <2>3
<1>10. \A k \in DOMAIN kept : \E n \in DOMAIN r : r[n] = kept[k]
  <2>1. \A k \in DOMAIN kept : k \in DOMAIN r
    BY <1>4, <1>8
  <2> QED
    BY <1>4, <1>8, <2>1
<1>11. \E n \in DOMAIN r : r[n] = item
  <2>1. Len(kept) + 1 \in DOMAIN r
    BY <1>4, <1>8
  <2> QED
    BY <1>8, <2>1
<1>12. \A j \in DOMAIN items :
         \/ (\E k \in DOMAIN items : items[k] = item)
              /\ \A k \in DOMAIN items : items[k] = item => j <= k
         \/ \E n \in DOMAIN r : r[n] = items[j]
  <2> SUFFICES ASSUME NEW j \in DOMAIN items
               PROVE  \/ (\E k \in DOMAIN items : items[k] = item)
                          /\ \A k \in DOMAIN items : items[k] = item => j <= k
                      \/ \E n \in DOMAIN r : r[n] = items[j]
    OBVIOUS
  <2>1. CASE j <= m
    <3>1. m \in DOMAIN items /\ items[m] = item
      BY <1>2, <1>4, <2>1
    <3>2. \A k \in DOMAIN items : items[k] = item => j <= k
      BY <1>2, <1>4, <2>1
    <3> QED
      BY <3>1, <3>2
  <2>2. CASE j > m
    <3> DEFINE i == j - m
    <3>1. /\ i \in 1..(Len(items) - m) /\ j = m + i
          /\ Len(kept) + 1 + i \in DOMAIN r
      BY <1>4, <1>8, <2>2
    <3> HIDE DEF i
    <3> QED
      BY <1>8, <3>1
  <2> QED
    BY <1>4, <2>1, <2>2
<1> QED
  BY <1>8, <1>9, <1>10, <1>11, <1>12 DEF r, kept, item, items, batch

LEMMA QuotaIs ==
  ASSUME UpgradeBase, U!QuotaExceeded
  PROVE  /\ old.up /\ old.batch # U!NoBatch /\ Untouched
         /\ old.batch.at \in 1..Len(old.batch.list)
         /\ U!Save(LeftOver(old.batch, old.items))
         /\ UNCHANGED <<counterFile, uploaded, issued, asked, calls>>
<1>1. /\ old.up /\ old.batch # U!NoBatch /\ old.batch.at <= Len(old.batch.list)
      /\ UNCHANGED <<counterFile, uploaded, issued, asked, calls>> /\ Untouched
  BY DEF U!QuotaExceeded, U!tables, Untouched
<1>2. U!Save(LeftOver(old.batch, old.items))
  BY DEF U!QuotaExceeded, LeftOver
<1>3. old.batch.at \in Nat /\ old.batch.at # 0 /\ old.batch.list \in Seq(U!Item)
  BY <1>1, Records DEF UpgradeBase, Phases
<1> QED
  BY <1>1, <1>2, <1>3

LEMMA QuotaBase == ASSUME UpgradeBase, U!QuotaExceeded PROVE UpgradeBase'
<1> DEFINE items == LeftOver(old.batch, old.items)
<1>1. UpgradeTypes
  BY DEF UpgradeBase
<1>2. /\ old.up /\ Untouched /\ old.batch.at \in 1..Len(old.batch.list) /\ U!Save(items)
      /\ UNCHANGED <<counterFile, uploaded, issued, asked, calls>>
  BY QuotaIs
<1>3. /\ items \in Seq(U!Item)
      /\ \A n \in DOMAIN items :
           \/ \E k \in DOMAIN old.batch.remaining : items[n] = old.batch.remaining[k]
           \/ items[n] = old.batch.list[old.batch.at]
           \/ \E k \in DOMAIN old.items : items[n] = old.items[k]
  BY <1>1, <1>2, RestIs
<1> HIDE DEF items
<1>4. old.batch.at \in DOMAIN old.batch.list
  BY <1>1, <1>2, Records
<1>5. \A n \in DOMAIN items : items[n].call <= calls'
  BY <1>2, <1>3, <1>4 DEF UpgradeBase, AllEarly, Early
<1>6. /\ asked' \subseteq Source /\ calls' \in 0..MaxCalls /\ calls <= calls'
  BY <1>1, <1>2, UpSizes DEF UpgradeTypes
<1> QED
  BY <1>2, <1>3, <1>5, <1>6, SaveBase

LEMMA EndBatchBase == ASSUME UpgradeBase, U!EndBatch PROVE UpgradeBase'
<1>1. UpgradeTypes
  BY DEF UpgradeBase
<1>2. /\ old.up /\ Untouched /\ U!Save(old.batch.remaining)
      /\ UNCHANGED <<counterFile, uploaded, issued, asked, calls>>
  BY DEF U!EndBatch, U!tables, Untouched
<1>3. old.batch.remaining \in Seq(U!Item)
  BY <1>1, Records
<1>5. \A n \in DOMAIN old.batch.remaining : old.batch.remaining[n].call <= calls'
  BY <1>2 DEF UpgradeBase, AllEarly, Early
<1>6. /\ asked' \subseteq Source /\ calls' \in 0..MaxCalls /\ calls <= calls'
  BY <1>1, <1>2, UpSizes DEF UpgradeTypes
<1> QED
  BY <1>2, <1>3, <1>5, <1>6, SaveBase

LEMMA OldDiesBase == ASSUME UpgradeBase, U!OldDies PROVE UpgradeBase'
<1> USE UpSizes, StoppedIs
<1>1. /\ old.up /\ old' = U!Stopped /\ deaths < MaxDeaths /\ deaths' = deaths + 1 /\ Untouched
      /\ UNCHANGED <<queueFile, counterFile, uploaded, asked, issued, calls, gap>>
  BY DEF U!OldDies, U!files, U!tables, Untouched
<1>2. UpgradeTypes
  BY DEF UpgradeBase
<1>3. deaths' \in 0..MaxDeaths
  BY <1>1, <1>2 DEF UpgradeTypes
<1>4. AllEarly'
  BY <1>1 DEF UpgradeBase, AllEarly, Early
<1>5. ~upgraded /\ version # 0
  BY <1>1 DEF UpgradeBase, Phases
<1> QED
  BY <1>1, <1>2, <1>3, <1>4, <1>5, OldBase DEF UpgradeTypes

LEMMA ReplaceBase == ASSUME UpgradeBase, U!Replace PROVE UpgradeBase'
<1> USE UpSizes, StoppedIs, ClosedIs
<1>1. /\ ~upgraded /\ old' = U!Stopped /\ upgraded' = TRUE
      /\ UNCHANGED <<queueFile, counterFile, stateFile, version, counter, rows, state,
                     backfills, open, uploaded, asked, issued, calls, deaths, gap>>
  BY DEF U!Replace, U!files, U!tables, U!rest
<1>2. UpgradeTypes'
  BY <1>1 DEF UpgradeBase, UpgradeTypes
<1>3. AllEarly'
  BY <1>1 DEF UpgradeBase, AllEarly, Early
<1>4. Phases'
  BY <1>1 DEF UpgradeBase, Phases
<1> QED
  BY <1>2, <1>3, <1>4 DEF UpgradeBase

(***************************************************************************)
(* The current version.                                                    *)
(***************************************************************************)

(* A step of one process of the current version.                           *)
OthersWait(p) == open' \in [Proc -> Opening] /\ \A q \in Proc \ {p} : open'[q] = open[q]

LEMMA OpenMoves ==
  ASSUME UpgradeTypes, NEW p \in Proc, NEW o \in Opening, open' = [open EXCEPT ![p] = o]
  PROVE  OthersWait(p) /\ open'[p] = o
BY Records DEF OthersWait

PCs == {"closed", "create", "fts", "tables", "readCounter", "setCounter",
        "renameCounter", "readQueue", "insert", "state", "renameState",
        "retries", "version", "ready"}

(* The process with another value of one field.                            *)
LEMMA GoesTo ==
  ASSUME UpgradeTypes, NEW p \in Proc, NEW pc \in PCs, U!Goto(p, pc)
  PROVE  /\ OthersWait(p) /\ open'[p] \in Opening /\ open'[p].pc = pc
         /\ open'[p].items = open[p].items /\ open'[p].at = open[p].at
         /\ open'[p].number = open[p].number
<1>1. open' = [open EXCEPT ![p].pc = pc]
  BY DEF U!Goto
<1>2. open' = [open EXCEPT ![p] = [open[p] EXCEPT !.pc = pc]]
  BY <1>1
<1>3. open[p] \in Opening
  BY Records
<1>4. [open[p] EXCEPT !.pc = pc] \in Opening
  BY <1>3 DEF Opening, PCs
<1>5. /\ [open[p] EXCEPT !.pc = pc].pc = pc
      /\ [open[p] EXCEPT !.pc = pc].items = open[p].items
      /\ [open[p] EXCEPT !.pc = pc].at = open[p].at
      /\ [open[p] EXCEPT !.pc = pc].number = open[p].number
  BY <1>3 DEF Opening
<1> QED
  BY <1>2, <1>4, <1>5, OpenMoves

LEMMA OpenBase ==
  ASSUME UpgradeBase, UNCHANGED <<old, upgraded, asked, issued, calls>>, upgraded, ~old.up,
         NEW p \in Proc, OthersWait(p), open'[p].at \in 0..(Len(open'[p].items) + 1),
         open'[p].pc = "insert" => open'[p].at # 0,
         open'[p].pc \notin {"closed", "create", "fts", "tables"} => counter' # None,
         open'[p].pc = "ready" => version' = 4,
         version' \in {version, 4}, version' = 4 => counter' # None,
         counter # None => counter' # None,
         queueFile' \in {queueFile, U!NoQueue}, counterFile' \in 0..MaxNumber,
         stateFile' \in BOOLEAN, counter' \in 0..MaxNumber \cup {None},
         rows' \in Seq([blob : Source, tries : 0..MaxRetries]),
         state' \in BOOLEAN, backfills' \in 0..2, uploaded' \subseteq Source,
         deaths' \in 0..MaxDeaths, gap' \subseteq Source \cup {"torn", "overlap"}
  PROVE  UpgradeBase'
<1>1. /\ UpgradeTypes /\ AllEarly /\ Phases
  BY DEF UpgradeBase
<1>2. queueFile' \in [torn : BOOLEAN, items : Seq(U!Item)]
  <2>1. U!NoQueue \in [torn : BOOLEAN, items : Seq(U!Item)]
    BY DEF U!NoQueue
  <2> QED
    BY <1>1, <2>1 DEF UpgradeTypes
<1>3. open' \in [Proc -> Opening] /\ \A q \in Proc : q # p => open'[q] = open[q]
  BY DEF OthersWait
<1>4. \A q \in Proc : open'[q].at \in 0..(Len(open'[q].items) + 1)
  BY <1>1, <1>3 DEF UpgradeTypes
<1>5. UpgradeTypes'
  BY <1>1, <1>2, <1>3, <1>4 DEF UpgradeTypes
<1>6. AllEarly'
  BY <1>1 DEF AllEarly, Early, U!NoQueue
<1>7. version = 4 => version' = 4
  OBVIOUS
<1>8. ASSUME NEW q \in Proc
      PROVE  /\ open'[q].pc = "ready" => version' = 4
             /\ open'[q].pc \notin {"closed", "create", "fts", "tables"} => counter' # None
             /\ open'[q].pc = "insert" => open'[q].at # 0
  BY <1>1, <1>3, <1>7, <1>8 DEF Phases
<1>9. /\ ~(old.up)' /\ upgraded' /\ old'.batch = old.batch
      /\ (old.batch # U!NoBatch => old.up)
  BY <1>1 DEF Phases
<1>10. Phases'
  BY <1>8, <1>9 DEF Phases
<1> QED
  BY <1>5, <1>6, <1>10 DEF UpgradeBase

(* A process that is not closed is one of the current version.             *)
LEMMA Upgraded ==
  ASSUME UpgradeBase, NEW p \in Proc, open[p].pc # "closed"
  PROVE  upgraded /\ ~old.up
BY ClosedIs DEF UpgradeBase, Phases, UpgradeTypes

LEMMA OpensBase == ASSUME UpgradeBase, NEW p \in Proc, U!Open(p) PROVE UpgradeBase'
<1> USE UpSizes, ClosedIs
<1> DEFINE pc == CASE version = 0 -> "create" [] version = 1 -> "fts"
                   [] version = 2 -> "tables" [] version = 4 -> "ready"
           o == [U!Closed EXCEPT !.pc = pc]
<1>1. /\ upgraded /\ open' = [open EXCEPT ![p] = o]
      /\ UNCHANGED <<old, upgraded, queueFile, counterFile, stateFile, version, counter, rows,
                     state, backfills, uploaded, issued, asked, calls, deaths>>
      /\ gap' \subseteq gap \cup {"overlap"}
  BY DEF U!Open, U!oldvars, U!files, U!tables
<1>2. UpgradeTypes /\ Phases
  BY DEF UpgradeBase
<1>3. /\ version \in {0, 1, 2, 4}
      /\ pc \in {"create", "fts", "tables", "ready"} /\ (pc = "ready" => version = 4)
  BY <1>2 DEF UpgradeTypes
<1> HIDE DEF pc
<1>4. /\ o \in Opening /\ o.pc = pc /\ o.items = <<>> /\ o.at = 0
  BY <1>3 DEF Opening
<1> HIDE DEF o
<1>5. OthersWait(p) /\ open'[p] = o
  BY <1>1, <1>2, <1>4, OpenMoves
<1>6. ~old.up
  BY <1>1, <1>2 DEF Phases
<1>7. /\ open'[p].at \in 0..(Len(open'[p].items) + 1)
      /\ open'[p].pc # "insert"
      /\ open'[p].pc = "ready" => version' = 4
      /\ open'[p].pc \notin {"closed", "create", "fts", "tables"} => counter' # None
  BY <1>1, <1>2, <1>3, <1>4, <1>5 DEF Phases
<1>8. /\ version' \in {version, 4} /\ (version' = 4 => counter' # None)
  BY <1>1, <1>2 DEF Phases
<1> QED
  BY <1>1, <1>2, <1>5, <1>6, <1>7, <1>8, OpenBase DEF UpgradeTypes

(* A step that only goes from one statement to the next.                   *)
LEMMA GoesBase ==
  ASSUME UpgradeBase, UNCHANGED <<old, upgraded, queueFile, uploaded, asked, issued, calls, deaths, gap>>,
         NEW p \in Proc, open[p].pc # "closed", NEW pc \in PCs, U!Goto(p, pc),
         pc # "insert",
         pc \notin {"closed", "create", "fts", "tables"} => counter' # None,
         pc = "ready" => version' = 4,
         version' \in {version, 4}, version' = 4 => counter' # None,
         counter # None => counter' # None, counterFile' \in {counterFile, 0},
         stateFile' \in BOOLEAN, counter' \in 0..MaxNumber \cup {None},
         rows' \in Seq([blob : Source, tries : 0..MaxRetries]),
         state' \in BOOLEAN, backfills' \in 0..2
  PROVE  UpgradeBase'
<1>1. UpgradeTypes
  BY DEF UpgradeBase
<1>2. /\ OthersWait(p) /\ open'[p].pc = pc
      /\ open'[p].items = open[p].items /\ open'[p].at = open[p].at
  BY <1>1, GoesTo
<1>3. upgraded /\ ~old.up
  BY Upgraded
<1>4. open'[p].at \in 0..(Len(open'[p].items) + 1)
  BY <1>1, <1>2 DEF UpgradeTypes
<1>5. counterFile' \in 0..MaxNumber
  BY <1>1, UpSizes DEF UpgradeTypes
<1> QED
  BY <1>1, <1>2, <1>3, <1>4, <1>5, OpenBase DEF UpgradeTypes

LEMMA CreateBase == ASSUME UpgradeBase, NEW p \in Proc, U!Create(p) PROVE UpgradeBase'
<1> USE UpSizes
<1>1. /\ open[p].pc = "create" /\ version' = 4 /\ counter' = (IF counter = None THEN 0 ELSE counter)
      /\ U!Goto(p, "ready")
      /\ UNCHANGED <<old, upgraded, queueFile, uploaded, asked, issued, calls, deaths, gap, counterFile, stateFile, rows, state, backfills>>
  BY DEF U!Create, U!oldvars, U!files, U!rest
<1>2. UpgradeTypes /\ Phases
  BY DEF UpgradeBase
<1>3. "ready" \in PCs /\ "ready" \notin {"insert", "closed"}
  BY DEF PCs
<1>4. counter' # None /\ counter' \in 0..MaxNumber \cup {None}
  BY <1>1, <1>2 DEF UpgradeTypes
<1> QED
  BY <1>1, <1>2, <1>3, <1>4, GoesBase DEF UpgradeTypes, Phases

LEMMA AddFtsBase == ASSUME UpgradeBase, NEW p \in Proc, U!AddFts(p) PROVE UpgradeBase'
<1> USE UpSizes
<1>1. /\ open[p].pc = "fts" /\ backfills' = (IF backfills < 2 THEN backfills + 1 ELSE 2)
      /\ U!Goto(p, "tables")
      /\ UNCHANGED <<old, upgraded, queueFile, uploaded, asked, issued, calls, deaths, gap, counterFile, stateFile, version, counter, rows, state>>
  BY DEF U!AddFts, U!oldvars, U!files, U!rest
<1>2. UpgradeTypes /\ Phases
  BY DEF UpgradeBase
<1>3. "tables" \in PCs /\ "tables" \notin {"insert", "closed"}
  BY DEF PCs
<1>4. backfills' \in 0..2
  BY <1>1, <1>2 DEF UpgradeTypes
<1> QED
  BY <1>1, <1>2, <1>3, <1>4, GoesBase DEF UpgradeTypes, Phases

LEMMA AddTablesBase == ASSUME UpgradeBase, NEW p \in Proc, U!AddTables(p) PROVE UpgradeBase'
<1> USE UpSizes
<1>1. /\ open[p].pc = "tables" /\ counter' = (IF counter = None THEN 0 ELSE counter)
      /\ U!Goto(p, "readCounter")
      /\ UNCHANGED <<old, upgraded, queueFile, uploaded, asked, issued, calls, deaths, gap, counterFile, stateFile, version, rows, state, backfills>>
  BY DEF U!AddTables, U!oldvars, U!files, U!rest
<1>2. UpgradeTypes /\ Phases
  BY DEF UpgradeBase
<1>3. "readCounter" \in PCs /\ "readCounter" \notin {"insert", "closed"}
  BY DEF PCs
<1>4. counter' # None /\ counter' \in 0..MaxNumber \cup {None}
  BY <1>1, <1>2 DEF UpgradeTypes
<1> QED
  BY <1>1, <1>2, <1>3, <1>4, GoesBase DEF UpgradeTypes, Phases

LEMMA SetCounterBase == ASSUME UpgradeBase, NEW p \in Proc, U!SetCounter(p) PROVE UpgradeBase'
<1> USE UpSizes
<1>1. /\ open[p].pc = "setCounter" /\ counter' = open[p].number
      /\ U!Goto(p, "renameCounter")
      /\ UNCHANGED <<old, upgraded, queueFile, uploaded, asked, issued, calls, deaths, gap, counterFile, stateFile, version, rows, state, backfills>>
  BY DEF U!SetCounter, U!oldvars, U!files, U!rest
<1>2. UpgradeTypes /\ Phases
  BY DEF UpgradeBase
<1>3. "renameCounter" \in PCs /\ "renameCounter" \notin {"insert", "closed"}
  BY DEF PCs
<1>4. counter' # None /\ counter' \in 0..MaxNumber \cup {None}
  BY <1>1, <1>2, Records DEF UpgradeTypes
<1> QED
  BY <1>1, <1>2, <1>3, <1>4, GoesBase DEF UpgradeTypes, Phases

LEMMA RenameCounterBase == ASSUME UpgradeBase, NEW p \in Proc, U!RenameCounter(p) PROVE UpgradeBase'
<1> USE UpSizes
<1>1. /\ open[p].pc = "renameCounter" /\ counterFile' = 0
      /\ U!Goto(p, "readQueue")
      /\ UNCHANGED <<old, upgraded, queueFile, uploaded, asked, issued, calls, deaths, gap, stateFile, version, counter, rows, state, backfills>>
  BY DEF U!RenameCounter, U!oldvars, U!files, U!tables, U!rest
<1>2. UpgradeTypes /\ Phases
  BY DEF UpgradeBase
<1>3. "readQueue" \in PCs /\ "readQueue" \notin {"insert", "closed"}
  BY DEF PCs
<1>4. counter # None
  BY <1>1, <1>2 DEF Phases
<1> QED
  BY <1>1, <1>2, <1>3, <1>4, GoesBase DEF UpgradeTypes, Phases

LEMMA RenameStateBase == ASSUME UpgradeBase, NEW p \in Proc, U!RenameState(p) PROVE UpgradeBase'
<1> USE UpSizes
<1>1. /\ open[p].pc = "renameState" /\ stateFile' = FALSE
      /\ U!Goto(p, "retries")
      /\ UNCHANGED <<old, upgraded, queueFile, uploaded, asked, issued, calls, deaths, gap, counterFile, version, counter, rows, state, backfills>>
  BY DEF U!RenameState, U!oldvars, U!files, U!tables, U!rest
<1>2. UpgradeTypes /\ Phases
  BY DEF UpgradeBase
<1>3. "retries" \in PCs /\ "retries" \notin {"insert", "closed"}
  BY DEF PCs
<1>4. counter # None
  BY <1>1, <1>2 DEF Phases
<1> QED
  BY <1>1, <1>2, <1>3, <1>4, GoesBase DEF UpgradeTypes, Phases

LEMMA SetVersionBase == ASSUME UpgradeBase, NEW p \in Proc, U!SetVersion(p) PROVE UpgradeBase'
<1> USE UpSizes
<1>1. /\ open[p].pc = "version" /\ version' = 4
      /\ U!Goto(p, "ready")
      /\ UNCHANGED <<old, upgraded, queueFile, uploaded, asked, issued, calls, deaths, gap, counterFile, stateFile, counter, rows, state, backfills>>
  BY DEF U!SetVersion, U!oldvars, U!files, U!rest
<1>2. UpgradeTypes /\ Phases
  BY DEF UpgradeBase
<1>3. "ready" \in PCs /\ "ready" \notin {"insert", "closed"}
  BY DEF PCs
<1>4. counter # None
  BY <1>1, <1>2 DEF Phases
<1> QED
  BY <1>1, <1>2, <1>3, <1>4, GoesBase DEF UpgradeTypes, Phases

LEMMA ImportStateBase == ASSUME UpgradeBase, NEW p \in Proc, U!ImportState(p) PROVE UpgradeBase'
<1> USE UpSizes
<1>1. /\ open[p].pc = "state" /\ state' = (state \/ stateFile)
      /\ U!Goto(p, IF stateFile THEN "renameState" ELSE "retries")
      /\ UNCHANGED <<old, upgraded, queueFile, uploaded, asked, issued, calls, deaths, gap, counterFile, stateFile, version, counter, rows, backfills>>
  BY DEF U!ImportState, U!oldvars, U!files, U!rest
<1>2. UpgradeTypes /\ Phases
  BY DEF UpgradeBase
<1>3. (IF stateFile THEN "renameState" ELSE "retries") \in PCs /\ (IF stateFile THEN "renameState" ELSE "retries") \notin {"insert", "closed"}
  BY DEF PCs
<1>4. counter # None /\ state' \in BOOLEAN
  BY <1>1, <1>2 DEF Phases, UpgradeTypes
<1> QED
  BY <1>1, <1>2, <1>3, <1>4, GoesBase DEF UpgradeTypes, Phases

LEMMA ResetRetriesBase == ASSUME UpgradeBase, NEW p \in Proc, U!ResetRetries(p) PROVE UpgradeBase'
<1> USE UpSizes
<1>1. /\ open[p].pc = "retries" /\ rows' = [n \in DOMAIN rows |-> [rows[n] EXCEPT !.tries = 0]]
      /\ U!Goto(p, "version")
      /\ UNCHANGED <<old, upgraded, queueFile, uploaded, asked, issued, calls, deaths, gap, counterFile, stateFile, version, counter, state, backfills>>
  BY DEF U!ResetRetries, U!oldvars, U!files, U!rest
<1>2. UpgradeTypes /\ Phases
  BY DEF UpgradeBase
<1>3. "version" \in PCs /\ "version" \notin {"insert", "closed"}
  BY DEF PCs
<1>4. counter # None /\ rows' \in Seq([blob : Source, tries : 0..MaxRetries])
  <2>1. counter # None
    BY <1>1, <1>2 DEF Phases
  <2>2. /\ rows \in Seq([blob : Source, tries : 0..MaxRetries])
        /\ Len(rows) \in Nat /\ DOMAIN rows = 1..Len(rows)
    BY <1>2 DEF UpgradeTypes
  <2>3. \A n \in 1..Len(rows) :
           [rows[n] EXCEPT !.tries = 0] \in [blob : Source, tries : 0..MaxRetries]
    <3>1. 0 \in 0..MaxRetries
      OBVIOUS
    <3>2. \A n \in 1..Len(rows) : rows[n] \in [blob : Source, tries : 0..MaxRetries]
      BY <2>2, ElementOfSeq
    <3>3. \A r \in [blob : Source, tries : 0..MaxRetries] :
             [r EXCEPT !.tries = 0] \in [blob : Source, tries : 0..MaxRetries]
      BY <3>1
    <3> QED
      BY <3>2, <3>3
  <2>4. rows' = [n \in 1..Len(rows) |-> [rows[n] EXCEPT !.tries = 0]]
    BY <1>1, <2>2
  <2> QED
    BY <2>1, <2>2, <2>3, <2>4
<1> QED
  BY <1>1, <1>2, <1>3, <1>4, GoesBase DEF UpgradeTypes, Phases

LEMMA ReadCounterBase == ASSUME UpgradeBase, NEW p \in Proc, U!ReadCounter(p) PROVE UpgradeBase'
<1> USE UpSizes
<1> DEFINE pc == IF counterFile = 0 THEN "readQueue" ELSE "setCounter"
<1>1. /\ open[p].pc = "readCounter"
      /\ open' = [open EXCEPT ![p].number = counterFile, ![p].pc = pc]
      /\ UNCHANGED <<old, upgraded, queueFile, counterFile, stateFile, version, counter, rows,
                     state, backfills, uploaded, asked, issued, calls, deaths, gap>>
  BY DEF U!ReadCounter, U!oldvars, U!files, U!tables, U!rest
<1>2. UpgradeTypes /\ Phases /\ upgraded /\ ~old.up
  BY <1>1, Upgraded DEF UpgradeBase
<1>3. /\ pc \in PCs /\ pc \notin {"insert", "closed", "ready"}
  BY DEF PCs
<1> HIDE DEF pc
<1>4. /\ OthersWait(p) /\ open'[p] = [open[p] EXCEPT !.number = counterFile, !.pc = pc]
  <2>1. open[p] \in Opening /\ counterFile \in 0..MaxNumber
    BY <1>2, Records DEF UpgradeTypes
  <2>2. [open[p] EXCEPT !.number = counterFile, !.pc = pc] \in Opening
    BY <1>3, <2>1 DEF Opening, PCs
  <2>3. open' = [open EXCEPT ![p] = [open[p] EXCEPT !.number = counterFile, !.pc = pc]]
    BY <1>1, <1>2, Records
  <2> QED
    BY <1>2, <2>2, <2>3, OpenMoves
<1>5. /\ open'[p].pc = pc /\ open'[p].items = open[p].items /\ open'[p].at = open[p].at
  <2>1. open[p] \in Opening
    BY <1>2, Records
  <2> QED
    BY <1>4, <2>1 DEF Opening
<1>6. counter # None
  BY <1>1, <1>2 DEF Phases
<1>7. open'[p].at \in 0..(Len(open'[p].items) + 1)
  BY <1>2, <1>5 DEF UpgradeTypes
<1> QED
  BY <1>1, <1>2, <1>3, <1>4, <1>5, <1>6, <1>7, OpenBase DEF UpgradeTypes, Phases

(* What the process reads, or that it goes past a torn file.               *)
LEMMA ReadQueueIs ==
  ASSUME UpgradeBase, NEW p \in Proc, U!ReadQueue(p)
  PROVE  /\ open[p].pc = "readQueue" /\ OthersWait(p) /\ open'[p] \in Opening
         /\ UNCHANGED <<old, upgraded, queueFile, counterFile, stateFile, version, counter, rows,
                        state, backfills, uploaded, asked, issued, calls, deaths, gap>>
         /\ open'[p].number = open[p].number
         /\ \/ /\ queueFile.torn /\ open'[p].pc = "state"
               /\ open'[p].items = open[p].items /\ open'[p].at = open[p].at
            \/ /\ ~queueFile.torn /\ open'[p].pc = "insert"
               /\ open'[p].items = queueFile.items /\ open'[p].at = 1
<1>1. /\ open[p].pc = "readQueue"
      /\ open' = [open EXCEPT ![p] =
            IF queueFile.torn THEN [open[p] EXCEPT !.pc = "state"]
            ELSE [open[p] EXCEPT !.pc = "insert", !.items = queueFile.items, !.at = 1]]
      /\ UNCHANGED <<old, upgraded, queueFile, counterFile, stateFile, version, counter, rows,
                     state, backfills, uploaded, asked, issued, calls, deaths, gap>>
  BY DEF U!ReadQueue, U!oldvars, U!files, U!tables, U!rest
<1>2. UpgradeTypes /\ open[p] \in Opening /\ queueFile.items \in Seq(U!Item)
  BY Records DEF UpgradeBase
<1>3. CASE queueFile.torn
  <2> DEFINE o == [open[p] EXCEPT !.pc = "state"]
  <2>1. /\ o \in Opening /\ o.pc = "state" /\ o.items = open[p].items
        /\ o.at = open[p].at /\ o.number = open[p].number
    BY <1>2 DEF Opening
  <2>2. open' = [open EXCEPT ![p] = o]
    BY <1>1, <1>3
  <2> HIDE DEF o
  <2> QED
    BY <1>1, <1>2, <1>3, <2>1, <2>2, OpenMoves
<1>4. CASE ~queueFile.torn
  <2> DEFINE o == [open[p] EXCEPT !.pc = "insert", !.items = queueFile.items, !.at = 1]
  <2>1. /\ o \in Opening /\ o.pc = "insert" /\ o.items = queueFile.items
        /\ o.at = 1 /\ o.number = open[p].number
    BY <1>2 DEF Opening
  <2>2. open' = [open EXCEPT ![p] = o]
    BY <1>1, <1>4
  <2> HIDE DEF o
  <2> QED
    BY <1>1, <1>2, <1>4, <2>1, <2>2, OpenMoves
<1> QED
  BY <1>3, <1>4

LEMMA ReadQueueBase == ASSUME UpgradeBase, NEW p \in Proc, U!ReadQueue(p) PROVE UpgradeBase'
<1> USE UpSizes
<1>1. UpgradeTypes /\ Phases /\ upgraded /\ ~old.up /\ counter # None
  BY ReadQueueIs, Upgraded DEF UpgradeBase, Phases
<1>2. /\ open'[p].at \in 0..(Len(open'[p].items) + 1)
      /\ open'[p].pc = "insert" => open'[p].at # 0
      /\ open'[p].pc # "ready"
  <2>1. open[p].at \in 0..(Len(open[p].items) + 1) /\ Len(queueFile.items) \in Nat
    BY <1>1, Records DEF UpgradeTypes
  <2>2. 1 \in 0..(Len(queueFile.items) + 1)
    BY <2>1
  <2> QED
    BY <2>1, <2>2, ReadQueueIs
<1>3. /\ OthersWait(p)
      /\ UNCHANGED <<old, upgraded, queueFile, counterFile, stateFile, version, counter, rows,
                     state, backfills, uploaded, asked, issued, calls, deaths, gap>>
  BY ReadQueueIs
<1>4. version = 4 => counter # None
  BY <1>1
<1> QED
  BY <1>1, <1>2, <1>3, <1>4, OpenBase DEF UpgradeTypes

(* The row of the next item.                                               *)
LEMMA InsertItemIs ==
  ASSUME UpgradeBase, NEW p \in Proc, U!InsertItem(p)
  PROVE  LET o == open[p] IN
         /\ o.pc = "insert" /\ o.at \in 1..Len(o.items) /\ o.items[o.at].blob \in Source
         /\ OthersWait(p) /\ open'[p] \in Opening
         /\ open'[p].pc = o.pc /\ open'[p].items = o.items /\ open'[p].at = o.at + 1
         /\ open'[p].number = o.number
         /\ [blob |-> o.items[o.at].blob, tries |-> o.items[o.at].tries]
              \in [blob : Source, tries : 0..MaxRetries]
         /\ rows' = Append(rows, [blob |-> o.items[o.at].blob, tries |-> o.items[o.at].tries])
         /\ UNCHANGED <<old, upgraded, queueFile, counterFile, stateFile, version, counter,
                        state, backfills, uploaded, asked, issued, calls, deaths, gap>>
<1> DEFINE o == open[p]
           item == o.items[o.at]
<1>1. /\ o.pc = "insert" /\ o.at <= Len(o.items)
      /\ open' = [open EXCEPT ![p].at = o.at + 1]
      /\ rows' = Append(rows, [blob |-> item.blob, tries |-> item.tries])
      /\ UNCHANGED <<old, upgraded, queueFile, counterFile, stateFile, version, counter,
                     state, backfills, uploaded, asked, issued, calls, deaths, gap>>
  BY DEF U!InsertItem, U!oldvars, U!files, U!rest
<1>2. UpgradeTypes /\ o \in Opening /\ o.items \in Seq(U!Item) /\ o.at \in Nat
  BY Records DEF UpgradeBase
<1>3. o.at # 0
  BY <1>1 DEF UpgradeBase, Phases
<1>4. o.at \in 1..Len(o.items) /\ o.at \in DOMAIN o.items
  BY <1>1, <1>2, <1>3
<1>5. item.blob \in Source /\ item.tries \in 0..MaxRetries
  BY <1>2, <1>4, ItemsHave
<1>6. open' = [open EXCEPT ![p] = [o EXCEPT !.at = o.at + 1]]
  BY <1>1
<1>7. /\ [o EXCEPT !.at = o.at + 1] \in Opening
      /\ [o EXCEPT !.at = o.at + 1].pc = o.pc
      /\ [o EXCEPT !.at = o.at + 1].items = o.items
      /\ [o EXCEPT !.at = o.at + 1].at = o.at + 1
      /\ [o EXCEPT !.at = o.at + 1].number = o.number
  <2> HIDE DEF o
  <2> QED
    BY <1>2 DEF Opening
<1>8. OthersWait(p) /\ open'[p] = [o EXCEPT !.at = o.at + 1]
  BY <1>2, <1>6, <1>7, OpenMoves
<1> HIDE DEF o, item
<1> QED
  BY <1>1, <1>4, <1>5, <1>7, <1>8 DEF o, item

LEMMA InsertItemBase == ASSUME UpgradeBase, NEW p \in Proc, U!InsertItem(p) PROVE UpgradeBase'
<1> USE UpSizes
<1>1. UpgradeTypes /\ Phases /\ upgraded /\ ~old.up /\ counter # None
  BY InsertItemIs, Upgraded DEF UpgradeBase, Phases
<1>2. /\ open'[p].at \in 0..(Len(open'[p].items) + 1)
      /\ open'[p].at # 0 /\ open'[p].pc = "insert"
  <2>1. /\ open[p].at \in 1..Len(open[p].items) /\ Len(open[p].items) \in Nat
        /\ open'[p].items = open[p].items /\ open'[p].at = open[p].at + 1
        /\ open'[p].pc = "insert"
    <3>1. /\ open[p].at \in 1..Len(open[p].items) /\ open'[p].pc = "insert"
          /\ open'[p].items = open[p].items /\ open'[p].at = open[p].at + 1
      BY InsertItemIs
    <3>2. Len(open[p].items) \in Nat
      BY <1>1, Records
    <3> QED
      BY <3>1, <3>2
  <2> QED
    BY <2>1
<1>3. rows' \in Seq([blob : Source, tries : 0..MaxRetries])
  <2> DEFINE new == [blob |-> open[p].items[open[p].at].blob,
                     tries |-> open[p].items[open[p].at].tries]
  <2>1. new \in [blob : Source, tries : 0..MaxRetries] /\ rows' = Append(rows, new)
    BY InsertItemIs
  <2>2. rows \in Seq([blob : Source, tries : 0..MaxRetries])
    BY <1>1 DEF UpgradeTypes
  <2> HIDE DEF new
  <2> QED
    BY <2>1, <2>2, Appended
<1> QED
  BY <1>1, <1>2, <1>3, InsertItemIs, OpenBase DEF UpgradeTypes, Phases

LEMMA RenameQueueIs ==
  ASSUME UpgradeBase, NEW p \in Proc, U!RenameQueue(p)
  PROVE  /\ open[p].pc = "insert" /\ open[p].at > Len(open[p].items)
         /\ OthersWait(p) /\ open'[p] \in Opening
         /\ open'[p].pc = "state" /\ open'[p].items = <<>> /\ open'[p].at = 0
         /\ queueFile' = U!NoQueue
         /\ UNCHANGED <<old, upgraded, counterFile, stateFile, version, counter, rows,
                        state, backfills, uploaded, asked, issued, calls, deaths, gap>>
<1> DEFINE o == [open[p] EXCEPT !.pc = "state", !.items = <<>>, !.at = 0]
<1>1. UpgradeTypes /\ open[p] \in Opening
  BY Records DEF UpgradeBase
<1>2. /\ open[p].pc = "insert" /\ open[p].at > Len(open[p].items)
      /\ queueFile' = U!NoQueue /\ open' = [open EXCEPT ![p] = o]
      /\ UNCHANGED <<old, upgraded, counterFile, stateFile, version, counter, rows,
                     state, backfills, uploaded, asked, issued, calls, deaths, gap>>
  BY DEF U!RenameQueue, U!oldvars, U!tables, U!rest
<1>3. o \in Opening /\ o.pc = "state" /\ o.items = <<>> /\ o.at = 0
  <2>1. <<>> \in Seq(U!Item) /\ 0 \in Nat /\ "state" \in PCs
    BY DEF PCs
  <2> QED
    BY <1>1, <2>1 DEF Opening
<1> HIDE DEF o
<1> QED
  BY <1>1, <1>2, <1>3, OpenMoves

LEMMA RenameQueueBase == ASSUME UpgradeBase, NEW p \in Proc, U!RenameQueue(p) PROVE UpgradeBase'
<1> USE UpSizes
<1>1. UpgradeTypes /\ Phases /\ upgraded /\ ~old.up /\ counter # None
  BY RenameQueueIs, Upgraded DEF UpgradeBase, Phases
<1>2. /\ open'[p].at \in 0..(Len(open'[p].items) + 1)
  BY RenameQueueIs
<1>3. /\ OthersWait(p) /\ open'[p].pc = "state" /\ queueFile' = U!NoQueue
      /\ UNCHANGED <<old, upgraded, counterFile, stateFile, version, counter, rows,
                     state, backfills, uploaded, asked, issued, calls, deaths, gap>>
  BY RenameQueueIs
<1> QED
  BY <1>1, <1>2, <1>3, OpenBase DEF UpgradeTypes

LEMMA OpenerDiesBase == ASSUME UpgradeBase, NEW p \in Proc, U!OpenerDies(p) PROVE UpgradeBase'
<1> USE UpSizes, ClosedIs
<1>1. /\ open[p].pc # "closed" /\ open' = [open EXCEPT ![p] = U!Closed]
      /\ deaths < MaxDeaths /\ deaths' = deaths + 1
      /\ UNCHANGED <<old, upgraded, queueFile, counterFile, stateFile, version, counter, rows,
                     state, backfills, uploaded, asked, issued, calls, gap>>
  BY DEF U!OpenerDies, U!Migrating, U!oldvars, U!files, U!tables
<1>2. UpgradeTypes /\ Phases /\ upgraded /\ ~old.up
  BY <1>1, Upgraded DEF UpgradeBase
<1>3. OthersWait(p) /\ open'[p] = U!Closed
  BY <1>1, <1>2, OpenMoves
<1>4. open'[p].at \in 0..(Len(open'[p].items) + 1) /\ open'[p].pc = "closed"
  BY <1>3
<1>5. deaths' \in 0..MaxDeaths
  BY <1>1, <1>2 DEF UpgradeTypes
<1> QED
  BY <1>1, <1>2, <1>3, <1>4, <1>5, OpenBase DEF UpgradeTypes, Phases

(* What an open database has: its counter.                                 *)
LEMMA ReadyHas ==
  ASSUME UpgradeBase, NEW p \in Proc, open[p].pc = "ready"
  PROVE  version = 4 /\ counter \in 0..MaxNumber /\ upgraded /\ ~old.up
BY Upgraded DEF UpgradeBase, Phases, UpgradeTypes

LEMMA ReadyBase ==
  ASSUME UpgradeBase, NEW p \in Proc, U!NumberFromTable(p) \/ U!Drain(p)
  PROVE  UpgradeBase'
<1> USE UpSizes
<1>1. UpgradeTypes /\ Phases /\ open[p].pc = "ready"
  BY DEF UpgradeBase, U!NumberFromTable, U!Drain
<1>2. version = 4 /\ counter \in 0..MaxNumber /\ upgraded /\ ~old.up
  BY <1>1, ReadyHas
<1>3. /\ UNCHANGED <<old, upgraded, queueFile, counterFile, stateFile, version, state, backfills,
                     open, asked, calls, deaths, gap>>
  BY DEF U!NumberFromTable, U!Drain, U!oldvars, U!files
<1>4. CASE U!NumberFromTable(p)
  <2>1. /\ counter < MaxNumber /\ counter' = counter + 1 /\ UNCHANGED <<rows, uploaded>>
        /\ issued' = IF counter + 1 > issued THEN counter + 1 ELSE issued
    BY <1>4 DEF U!NumberFromTable
  <2>2. issued \in 0..MaxNumber
    BY <1>1 DEF UpgradeTypes
  <2>3. counter' \in 0..MaxNumber /\ counter' # None
    BY <1>2, <2>1
  <2>4. issued' \in 0..MaxNumber
    <3>1. CASE counter + 1 > issued
      BY <1>2, <2>1, <3>1
    <3>2. CASE ~(counter + 1 > issued)
      BY <2>1, <2>2, <3>2
    <3> QED
      BY <3>1, <3>2
  <2>5. UpgradeTypes'
    BY <1>1, <1>3, <2>1, <2>3, <2>4 DEF UpgradeTypes
  <2>6. AllEarly'
    BY <1>3 DEF UpgradeBase, AllEarly, Early
  <2>7. Phases'
    BY <1>1, <1>2, <1>3, <2>1, <2>3 DEF Phases
  <2> QED
    BY <2>5, <2>6, <2>7 DEF UpgradeBase
<1>5. CASE U!Drain(p)
  <2>1. /\ rows # <<>> /\ rows' = Tail(rows) /\ uploaded' = uploaded \cup {Head(rows).blob}
        /\ UNCHANGED <<counter, issued>>
    BY <1>5 DEF U!Drain
  <2>2. rows \in Seq([blob : Source, tries : 0..MaxRetries])
    BY <1>1 DEF UpgradeTypes
  <2>3. /\ Head(rows) \in [blob : Source, tries : 0..MaxRetries]
        /\ Tail(rows) \in Seq([blob : Source, tries : 0..MaxRetries])
    BY <2>1, <2>2, HeadTailProperties
  <2>4. Head(rows).blob \in Source
    BY <2>3
  <2>5. UpgradeTypes'
    BY <1>1, <1>3, <2>1, <2>3, <2>4 DEF UpgradeTypes
  <2>6. AllEarly'
    BY <1>3 DEF UpgradeBase, AllEarly, Early
  <2>7. Phases'
    BY <1>1, <1>2, <1>3, <2>1 DEF Phases
  <2> QED
    BY <2>5, <2>6, <2>7 DEF UpgradeBase
<1> QED
  BY <1>4, <1>5

LEMMA BaseStep == ASSUME UpgradeBase, U!Next PROVE UpgradeBase'
BY LoadBase, EnqueueBase, NextNumberBase, BeginBase, ProcessItemBase, QuotaBase, EndBatchBase,
  OldDiesBase, ReplaceBase, OpensBase, CreateBase, AddFtsBase, AddTablesBase, ReadCounterBase,
  SetCounterBase, RenameCounterBase, ReadQueueBase, InsertItemBase, RenameQueueBase,
  ImportStateBase, RenameStateBase, ResetRetriesBase, SetVersionBase, OpenerDiesBase, ReadyBase
  DEF U!Next

(***************************************************************************)
(* The counter.                                                            *)
(***************************************************************************)

LEMMA SameNumbers ==
  ASSUME NumberInv, UNCHANGED <<open, counterFile, version, counter, issued>>, gap \subseteq gap'
  PROVE  NumberInv'
<1> SUFFICES ASSUME "overlap" \notin gap'
             PROVE  OneMigrates' /\ Numbers' /\ \A p \in Proc : At(p)'
  BY DEF NumberInv
<1>1. OneMigrates /\ Numbers /\ \A p \in Proc : At(p)
  BY DEF NumberInv
<1>2. OneMigrates'
  BY <1>1 DEF OneMigrates, U!Migrating
<1>3. Numbers'
  BY <1>1 DEF Numbers
<1>4. \A p \in Proc : At(p)'
  BY <1>1 DEF At, U!Migrating
<1> QED
  BY <1>2, <1>3, <1>4

LEMMA OthersDoNotMigrate ==
  ASSUME UpgradeBase, NumberInv, "overlap" \notin gap, NEW p \in Proc, NEW q \in Proc, q # p,
         U!Migrating(p) \/ version = 4
  PROVE  ~U!Migrating(q)
BY DEF NumberInv, OneMigrates, At

LEMMA NumbersGoOn ==
  ASSUME NEW p \in Proc, OthersWait(p),
         \A q \in Proc : q # p => ~U!Migrating(q), Numbers', At(p)'
  PROVE  NumberInv'
<1>1. \A q \in Proc : q # p => open'[q] = open[q] /\ ~U!Migrating(q)'
  BY DEF OthersWait, U!Migrating
<1>2. OneMigrates'
  BY <1>1 DEF OneMigrates
<1>3. \A q \in Proc : At(q)'
  <2> SUFFICES ASSUME NEW q \in Proc PROVE At(q)'
    OBVIOUS
  <2>1. CASE q = p
    BY <2>1
  <2>2. CASE q # p
    BY <1>1, <2>2 DEF At, U!Migrating
  <2> QED
    BY <2>1, <2>2
<1> QED
  BY <1>2, <1>3 DEF NumberInv

LEMMA NextNumberNumbers ==
  ASSUME UpgradeBase, NumberInv, U!NextNumber
  PROVE  NumberInv'
<1> USE UpSizes
<1>1. /\ old.up /\ old.current < MaxNumber /\ counterFile' = old.current + 1
      /\ issued' = IF old.current + 1 > issued THEN old.current + 1 ELSE issued
      /\ UNCHANGED <<open, version, counter, gap>>
  BY DEF U!NextNumber, U!tables
<1>2. /\ old.current = counterFile /\ version \notin {0, 4} /\ counter = None
      /\ \A p \in Proc : open[p].pc = "closed"
  BY <1>1, ClosedIs DEF UpgradeBase, Phases
<1>3. counterFile \in Nat /\ issued \in Nat
  BY DEF UpgradeBase, UpgradeTypes
<1> SUFFICES ASSUME "overlap" \notin gap'
             PROVE  OneMigrates' /\ Numbers' /\ \A p \in Proc : At(p)'
  BY DEF NumberInv
<1>4. counterFile' # 0 /\ issued' <= counterFile'
  <2>1. Numbers
    BY <1>1 DEF NumberInv
  <2>2. issued <= counterFile
    BY <1>2, <1>3, <2>1 DEF Numbers
  <2> QED
    BY <1>1, <1>2, <1>3, <2>2
<1>5. Numbers'
  BY <1>1, <1>2, <1>4 DEF Numbers
<1>6. \A p \in Proc : ~U!Migrating(p)' /\ open'[p].pc = "closed"
  BY <1>1, <1>2 DEF U!Migrating
<1> QED
  BY <1>5, <1>6 DEF OneMigrates, At

LEMMA OpenNumbers ==
  ASSUME UpgradeBase, NumberInv, NEW p \in Proc, U!Open(p)
  PROVE  NumberInv'
<1> USE UpSizes, ClosedIs
<1> DEFINE pc == CASE version = 0 -> "create" [] version = 1 -> "fts"
                   [] version = 2 -> "tables" [] version = 4 -> "ready"
           o == [U!Closed EXCEPT !.pc = pc]
<1>1. /\ open' = [open EXCEPT ![p] = o]
      /\ UNCHANGED <<counterFile, version, counter, issued>>
      /\ gap' = IF version # 4 /\ \E q \in Proc \ {p} : U!Migrating(q)
                THEN gap \cup {"overlap"} ELSE gap
  BY DEF U!Open, U!files, U!tables
<1>2. UpgradeTypes
  BY DEF UpgradeBase
<1>3. /\ version \in {0, 1, 2, 4}
      /\ pc \in {"create", "fts", "tables", "ready"} /\ (pc = "ready" <=> version = 4)
      /\ pc = "create" <=> version = 0
  BY <1>2 DEF UpgradeTypes
<1> HIDE DEF pc
<1>4. /\ o \in Opening /\ o.pc = pc
  BY <1>3 DEF Opening
<1> HIDE DEF o
<1>5. OthersWait(p) /\ open'[p] = o
  BY <1>1, <1>2, <1>4, OpenMoves
<1>6. CASE "overlap" \in gap'
  BY <1>6 DEF NumberInv
<1>7. CASE "overlap" \notin gap'
  <2>1. "overlap" \notin gap
    BY <1>1, <1>7
  <2>2. \A q \in Proc : q # p => ~U!Migrating(q)
    <3>1. CASE version = 4
      BY <2>1, <3>1, OthersDoNotMigrate
    <3>2. CASE version # 4
      BY <1>1, <1>7, <3>2
    <3> QED
      BY <3>1, <3>2
  <2>3. Numbers'
    BY <1>1, <2>1 DEF NumberInv, Numbers
  <2>4. At(p)'
    BY <1>1, <1>3, <1>4, <1>5 DEF At, U!Migrating
  <2> QED
    BY <1>5, <2>2, <2>3, <2>4, NumbersGoOn
<1> QED
  BY <1>6, <1>7

(* A step of a migration.                                                  *)
LEMMA MigrationNumbers ==
  ASSUME UpgradeBase, NumberInv, NEW p \in Proc, U!Migrating(p), OthersWait(p), gap' = gap,
         "overlap" \notin gap /\ Numbers /\ At(p) => Numbers' /\ At(p)'
  PROVE  NumberInv'
<1>1. CASE "overlap" \in gap
  BY <1>1 DEF NumberInv
<1>2. CASE "overlap" \notin gap
  <2>1. Numbers /\ At(p)
    BY <1>2 DEF NumberInv
  <2>2. \A q \in Proc : q # p => ~U!Migrating(q)
    BY <1>2, OthersDoNotMigrate
  <2> QED
    BY <1>2, <2>1, <2>2, NumbersGoOn
<1> QED
  BY <1>1, <1>2

LEMMA GoNumbers ==
  ASSUME UpgradeBase, NumberInv, NEW p \in Proc,
         U!AddFts(p) \/ U!ImportState(p) \/ U!RenameState(p) \/ U!ResetRetries(p)
  PROVE  NumberInv'
<1>1. /\ U!Migrating(p) /\ UNCHANGED <<counterFile, version, counter, issued, gap>>
  BY DEF U!AddFts, U!ImportState, U!RenameState, U!ResetRetries, U!Migrating, U!files, U!tables, U!rest
<1>2. PICK pc \in PCs : /\ U!Goto(p, pc)
                        /\ pc \in {"tables", "renameState", "retries", "version"}
                        /\ pc # "tables" => open[p].pc \in {"state", "renameState", "retries"}
  BY DEF U!AddFts, U!ImportState, U!RenameState, U!ResetRetries, PCs
<1>3. OthersWait(p) /\ open'[p].pc = pc
  BY <1>2, GoesTo DEF UpgradeBase
<1>4. Numbers => Numbers'
  BY <1>1 DEF Numbers
<1>5. At(p) => At(p)'
  BY <1>1, <1>2, <1>3 DEF At, U!Migrating
<1> QED
  BY <1>1, <1>3, <1>4, <1>5, MigrationNumbers

LEMMA CreateNumbers ==
  ASSUME UpgradeBase, NumberInv, NEW p \in Proc, U!Create(p)
  PROVE  NumberInv'
<1>1. /\ open[p].pc = "create" /\ version' = 4 /\ U!Goto(p, "ready")
      /\ counter' = (IF counter = None THEN 0 ELSE counter)
      /\ UNCHANGED <<counterFile, issued, gap>>
  BY DEF U!Create, U!files, U!rest
<1>2. OthersWait(p) /\ open'[p].pc = "ready" /\ U!Migrating(p)
  BY <1>1, GoesTo DEF UpgradeBase, PCs, U!Migrating
<1>3. At(p) => At(p)'
  BY <1>1, <1>2 DEF At, U!Migrating
<1>4. Numbers /\ At(p) => Numbers'
  BY <1>1, <1>2 DEF At, Numbers
<1> QED
  BY <1>1, <1>2, <1>3, <1>4, MigrationNumbers

LEMMA AddTablesNumbers ==
  ASSUME UpgradeBase, NumberInv, NEW p \in Proc, U!AddTables(p)
  PROVE  NumberInv'
<1>1. /\ open[p].pc = "tables" /\ U!Goto(p, "readCounter")
      /\ counter' = (IF counter = None THEN 0 ELSE counter)
      /\ UNCHANGED <<counterFile, version, issued, gap>>
  BY DEF U!AddTables, U!files, U!rest
<1>2. OthersWait(p) /\ open'[p].pc = "readCounter" /\ U!Migrating(p)
  BY <1>1, GoesTo DEF UpgradeBase, PCs, U!Migrating
<1>3. At(p) => At(p)'
  BY <1>1, <1>2 DEF At, U!Migrating
<1>4. Numbers => Numbers'
  BY <1>1, UpSizes DEF Numbers
<1> QED
  BY <1>1, <1>2, <1>3, <1>4, MigrationNumbers

LEMMA ReadCounterNumbers ==
  ASSUME UpgradeBase, NumberInv, NEW p \in Proc, U!ReadCounter(p)
  PROVE  NumberInv'
<1> DEFINE pc == IF counterFile = 0 THEN "readQueue" ELSE "setCounter"
           o == [open[p] EXCEPT !.number = counterFile, !.pc = pc]
<1>1. /\ open[p].pc = "readCounter" /\ open' = [open EXCEPT ![p] = o]
      /\ UNCHANGED <<counterFile, version, counter, issued, gap>>
  BY DEF U!ReadCounter, U!oldvars, U!files, U!tables, U!rest
<1>2. UpgradeTypes /\ open[p] \in Opening /\ counterFile \in 0..MaxNumber
  BY Records DEF UpgradeBase, UpgradeTypes
<1>3. pc \in PCs /\ pc = (IF counterFile = 0 THEN "readQueue" ELSE "setCounter")
  BY DEF PCs
<1> HIDE DEF pc
<1>4. o \in Opening /\ o.pc = pc /\ o.number = counterFile
  BY <1>2, <1>3 DEF Opening, PCs
<1> HIDE DEF o
<1>5. OthersWait(p) /\ open'[p] = o /\ U!Migrating(p)
  BY <1>1, <1>2, <1>4, OpenMoves DEF U!Migrating
<1>6. At(p) => At(p)'
  BY <1>1, <1>3, <1>4, <1>5 DEF At, U!Migrating
<1>7. Numbers => Numbers'
  BY <1>1 DEF Numbers
<1> QED
  BY <1>1, <1>5, <1>6, <1>7, MigrationNumbers

LEMMA SetCounterNumbers ==
  ASSUME UpgradeBase, NumberInv, NEW p \in Proc, U!SetCounter(p)
  PROVE  NumberInv'
<1>1. /\ open[p].pc = "setCounter" /\ U!Goto(p, "renameCounter") /\ counter' = open[p].number
      /\ UNCHANGED <<counterFile, version, issued, gap>>
  BY DEF U!SetCounter, U!files, U!rest
<1>2. OthersWait(p) /\ open'[p].pc = "renameCounter" /\ U!Migrating(p)
  BY <1>1, GoesTo DEF UpgradeBase, PCs, U!Migrating
<1>3. At(p) => At(p)'
  BY <1>1, <1>2 DEF At, U!Migrating
<1>4. Numbers /\ At(p) => Numbers'
  BY <1>1, <1>2 DEF At, Numbers
<1> QED
  BY <1>1, <1>2, <1>3, <1>4, MigrationNumbers

LEMMA RenameCounterNumbers ==
  ASSUME UpgradeBase, NumberInv, NEW p \in Proc, U!RenameCounter(p)
  PROVE  NumberInv'
<1>1. /\ open[p].pc = "renameCounter" /\ U!Goto(p, "readQueue") /\ counterFile' = 0
      /\ UNCHANGED <<counter, version, issued, gap>>
  BY DEF U!RenameCounter, U!tables, U!rest
<1>2. OthersWait(p) /\ open'[p].pc = "readQueue" /\ U!Migrating(p)
  BY <1>1, GoesTo DEF UpgradeBase, PCs, U!Migrating
<1>3. At(p) => At(p)'
  BY <1>1, <1>2 DEF At, U!Migrating
<1>4. counter # None /\ counterFile \in Nat
  <2>1. counter # None
    BY <1>1 DEF UpgradeBase, Phases
  <2>2. counterFile \in 0..MaxNumber
    BY DEF UpgradeBase, UpgradeTypes
  <2> QED
    BY <2>1, <2>2
<1>5. Numbers /\ At(p) => Numbers'
  BY <1>1, <1>2, <1>4 DEF At, Numbers
<1> QED
  BY <1>1, <1>2, <1>3, <1>5, MigrationNumbers

LEMMA ReadQueueNumbers ==
  ASSUME UpgradeBase, NumberInv, NEW p \in Proc, U!ReadQueue(p)
  PROVE  NumberInv'
<1>1. /\ open[p].pc = "readQueue" /\ OthersWait(p) /\ open'[p].pc \in {"state", "insert"}
      /\ UNCHANGED <<counterFile, counter, version, issued, gap>>
  BY ReadQueueIs
<1>2. U!Migrating(p)
  BY <1>1 DEF U!Migrating
<1>3. At(p) => At(p)'
  BY <1>1, <1>2 DEF At, U!Migrating
<1>4. Numbers => Numbers'
  BY <1>1 DEF Numbers
<1> QED
  BY <1>1, <1>2, <1>3, <1>4, MigrationNumbers

LEMMA InsertItemNumbers ==
  ASSUME UpgradeBase, NumberInv, NEW p \in Proc, U!InsertItem(p)
  PROVE  NumberInv'
<1>1. /\ open[p].pc = "insert" /\ OthersWait(p) /\ open'[p].pc = "insert"
      /\ UNCHANGED <<counterFile, counter, version, issued, gap>>
  BY InsertItemIs
<1>2. U!Migrating(p)
  BY <1>1 DEF U!Migrating
<1>3. At(p) => At(p)'
  BY <1>1, <1>2 DEF At, U!Migrating
<1>4. Numbers => Numbers'
  BY <1>1 DEF Numbers
<1> QED
  BY <1>1, <1>2, <1>3, <1>4, MigrationNumbers

LEMMA RenameQueueNumbers ==
  ASSUME UpgradeBase, NumberInv, NEW p \in Proc, U!RenameQueue(p)
  PROVE  NumberInv'
<1>1. /\ open[p].pc = "insert" /\ OthersWait(p) /\ open'[p].pc = "state"
      /\ UNCHANGED <<counterFile, counter, version, issued, gap>>
  BY RenameQueueIs
<1>2. U!Migrating(p)
  BY <1>1 DEF U!Migrating
<1>3. At(p) => At(p)'
  BY <1>1, <1>2 DEF At, U!Migrating
<1>4. Numbers => Numbers'
  BY <1>1 DEF Numbers
<1> QED
  BY <1>1, <1>2, <1>3, <1>4, MigrationNumbers

LEMMA SetVersionNumbers ==
  ASSUME UpgradeBase, NumberInv, NEW p \in Proc, U!SetVersion(p)
  PROVE  NumberInv'
<1>1. /\ open[p].pc = "version" /\ U!Goto(p, "ready") /\ version' = 4
      /\ UNCHANGED <<counterFile, counter, issued, gap>>
  BY DEF U!SetVersion, U!files, U!rest
<1>2. OthersWait(p) /\ open'[p].pc = "ready" /\ U!Migrating(p)
  BY <1>1, GoesTo DEF UpgradeBase, PCs, U!Migrating
<1>3. At(p) => At(p)'
  BY <1>1, <1>2 DEF At, U!Migrating
<1>4. Numbers /\ At(p) => Numbers'
  BY <1>1, <1>2 DEF At, Numbers
<1> QED
  BY <1>1, <1>2, <1>3, <1>4, MigrationNumbers

LEMMA OpenerDiesNumbers ==
  ASSUME UpgradeBase, NumberInv, NEW p \in Proc, U!OpenerDies(p)
  PROVE  NumberInv'
<1>1. /\ U!Migrating(p) /\ open' = [open EXCEPT ![p] = U!Closed]
      /\ UNCHANGED <<counterFile, counter, version, issued, gap>>
  BY DEF U!OpenerDies, U!files, U!tables
<1>2. OthersWait(p) /\ open'[p].pc = "closed"
  BY <1>1, ClosedIs, OpenMoves DEF UpgradeBase
<1>3. At(p) => At(p)'
  BY <1>1, <1>2 DEF At, U!Migrating
<1>4. Numbers => Numbers'
  BY <1>1 DEF Numbers
<1> QED
  BY <1>1, <1>2, <1>3, <1>4, MigrationNumbers

LEMMA NumberFromTableNumbers ==
  ASSUME UpgradeBase, NumberInv, NEW p \in Proc, U!NumberFromTable(p)
  PROVE  NumberInv'
<1>1. /\ open[p].pc = "ready" /\ counter' = counter + 1
      /\ issued' = IF counter + 1 > issued THEN counter + 1 ELSE issued
      /\ UNCHANGED <<open, counterFile, version, gap>>
  BY DEF U!NumberFromTable, U!files
<1>2. /\ version = 4 /\ counter \in Nat /\ issued \in Nat
  BY <1>1, ReadyHas DEF UpgradeBase, UpgradeTypes
<1> SUFFICES ASSUME "overlap" \notin gap
             PROVE  OneMigrates' /\ Numbers' /\ \A q \in Proc : At(q)'
  BY <1>1 DEF NumberInv
<1>3. OneMigrates /\ Numbers /\ \A q \in Proc : At(q)
  BY DEF NumberInv
<1>4. OneMigrates'
  BY <1>1, <1>3 DEF OneMigrates, U!Migrating
<1>5. counter' # None /\ issued' <= counter'
  <2>1. counter' \in Nat
    BY <1>1, <1>2
  <2>2. CASE counter + 1 > issued
    BY <1>1, <1>2, <2>1, <2>2, UpSizes
  <2>3. CASE ~(counter + 1 > issued)
    BY <1>1, <1>2, <1>3, <2>1, <2>3, UpSizes DEF Numbers
  <2> QED
    BY <2>2, <2>3
<1>6. Numbers'
  BY <1>1, <1>2, <1>3, <1>5 DEF Numbers
<1>7. \A q \in Proc : At(q)'
  <2> SUFFICES ASSUME NEW q \in Proc PROVE At(q)'
    OBVIOUS
  <2>1. ~U!Migrating(q)
    BY <1>2, <1>3 DEF At
  <2> QED
    BY <1>1, <2>1 DEF At, U!Migrating
<1> QED
  BY <1>4, <1>6, <1>7

LEMMA SaveNumbers ==
  ASSUME NumberInv, NEW items, U!Save(items), UNCHANGED <<open, counterFile, version, counter, issued>>
  PROVE  NumberInv'
BY SameNumbers DEF U!Save

LEMMA StillNumbers ==
  ASSUME UpgradeBase, NumberInv,
         \/ U!Load \/ (\E b \in Source : U!Enqueue(b)) \/ U!Begin \/ U!ProcessItem
         \/ U!QuotaExceeded \/ U!EndBatch \/ U!OldDies \/ U!Replace
         \/ \E p \in Proc : U!Drain(p)
  PROVE  NumberInv'
<1>1. CASE U!Load \/ U!Begin \/ U!ProcessItem \/ U!OldDies \/ U!Replace
  BY <1>1, SameNumbers DEF U!Load, U!Begin, U!ProcessItem, U!OldDies, U!Replace,
    U!files, U!tables, U!rest
<1>2. CASE U!QuotaExceeded \/ U!EndBatch
  <2>1. /\ \E items : U!Save(items)
        /\ UNCHANGED <<open, counterFile, version, counter, issued>>
    BY <1>2 DEF U!QuotaExceeded, U!EndBatch, U!tables
  <2> QED
    BY <2>1, SaveNumbers
<1>3. CASE \E b \in Source : U!Enqueue(b)
  <2>1. PICK b \in Source : U!Enqueue(b)
    BY <1>3
  <2>2. /\ (\E items : U!Save(items)) \/ gap' = gap \cup {b}
        /\ UNCHANGED <<open, counterFile, version, counter, issued>>
    BY <2>1 DEF U!Enqueue, U!tables
  <2> QED
    BY <2>2, SaveNumbers, SameNumbers
<1>4. CASE \E p \in Proc : U!Drain(p)
  BY <1>4, SameNumbers DEF U!Drain, U!files
<1> QED
  BY <1>1, <1>2, <1>3, <1>4

LEMMA NumberStep == ASSUME UpgradeBase, NumberInv, U!Next PROVE NumberInv'
BY GoNumbers, CreateNumbers, AddTablesNumbers, ReadCounterNumbers, SetCounterNumbers,
  RenameCounterNumbers, ReadQueueNumbers, InsertItemNumbers, RenameQueueNumbers,
  SetVersionNumbers, OpenerDiesNumbers, NumberFromTableNumbers, StillNumbers,
  NextNumberNumbers, OpenNumbers DEF U!Next

-----------------------------------------------------------------------------
(***************************************************************************)
(* The uploads.                                                            *)
(***************************************************************************)

LEMMA OldUploads ==
  ASSUME UpgradeBase, UploadInv, ~upgraded, UNCHANGED <<rows, open>>, gap \subseteq gap',
         "torn" \notin gap' => ~queueFile'.torn,
         "torn" \notin gap' => (old'.up => queueFile'.items = old'.items),
         "torn" \notin gap' => asked' \ gap' \subseteq uploaded' \cup U!Held(queueFile'.items),
         "torn" \notin gap' => (old'.batch # U!NoBatch => InBatch')
  PROVE  UploadInv'
<1>1. \A p \in Proc : open'[p].pc = "closed"
  BY ClosedIs DEF UpgradeBase, Phases
<1>2. U!Held(queueFile.items)' = U!Held(queueFile'.items)
  BY DEF U!Held
<1> QED
  BY <1>1, <1>2 DEF UploadInv

(* In a state of the older version all is in the file or on the server.    *)
LEMMA FileHolds ==
  ASSUME UpgradeBase, UploadInv, ~upgraded, "torn" \notin gap
  PROVE  asked \ gap \subseteq uploaded \cup U!Held(queueFile.items)
<1>1. rows = <<>>
  BY DEF UpgradeBase, Phases
<1>2. U!Held(rows) = {}
  BY <1>1 DEF U!Held
<1> QED
  BY <1>2 DEF UploadInv

LEMMA LoadUploads ==
  ASSUME UpgradeBase, UploadInv, U!Load
  PROVE  UploadInv'
<1>1. /\ ~upgraded
      /\ old' = [U!Stopped EXCEPT !.up = TRUE, !.current = counterFile, !.items = queueFile.items]
      /\ UNCHANGED <<queueFile, rows, open, uploaded, asked, gap>>
  BY DEF U!Load, U!files, U!tables, U!rest
<1>2. old'.items = queueFile.items /\ old'.batch = U!NoBatch
  BY <1>1, StoppedIs DEF OldVersion
<1> QED
  BY <1>1, <1>2, FileHolds, OldUploads DEF UploadInv

LEMMA SaveUploads ==
  ASSUME UpgradeBase, UploadInv, Untouched, old.up, NEW items \in Seq(U!Item), U!Save(items),
         uploaded' = uploaded,
         "torn" \notin gap => asked' \ gap \subseteq uploaded \cup U!Held(items)
  PROVE  UploadInv'
<1>1. ~upgraded /\ UNCHANGED <<rows, open>>
  BY DEF UpgradeBase, Phases, Untouched
<1>2. UpgradeTypes
  BY DEF UpgradeBase
<1>3. CASE /\ queueFile' = U!Whole(items) /\ UNCHANGED <<deaths, gap>>
           /\ old' = [old EXCEPT !.items = items, !.batch = U!NoBatch]
  <2>1. old'.items = items /\ old'.batch = U!NoBatch
    BY <1>2, <1>3, Records DEF OldVersion
  <2>2. queueFile'.items = items /\ ~queueFile'.torn
    BY <1>3 DEF U!Whole
  <2> QED
    BY <1>1, <1>3, <2>1, <2>2, OldUploads
<1>4. CASE gap' = gap \cup {"torn"}
  BY <1>1, <1>4, OldUploads
<1> QED
  BY <1>3, <1>4 DEF U!Save

(* An enqueue leaves the other blobs where they were.                      *)
LEMMA EnqueueHolds ==
  ASSUME UpgradeBase, NEW b \in Source, calls < MaxCalls,
         NEW items, items = Append(U!Without(old.items, b), U!ItemOf(b, calls + 1))
  PROVE  /\ b \in U!Held(items)
         /\ U!Held(old.items) \ {b} \subseteq U!Held(items)
<1> DEFINE kept == U!Without(old.items, b)
           new == U!ItemOf(b, calls + 1)
<1>1. old.items \in Seq(U!Item)
  BY Records DEF UpgradeBase
<1>2. Filtered(kept, old.items, b, Len(old.items))
  BY <1>1, WithoutIs
<1>3. new \in U!Item /\ new.blob = b
  BY Enqueued DEF U!ItemOf
<1>4. items = Append(kept, new)
  OBVIOUS
<1> HIDE DEF kept, new
<1>5. kept \in Seq(U!Item)
  BY <1>2 DEF Filtered
<1>6. /\ DOMAIN kept = 1..Len(kept) /\ Len(kept) \in Nat
      /\ DOMAIN items = 1..(Len(kept) + 1)
      /\ \A n \in 1..Len(kept) : items[n] = kept[n]
      /\ items[Len(kept) + 1] = new
  BY <1>3, <1>4, <1>5, Appended
<1>7. b \in U!Held(items)
  <2>1. Len(kept) + 1 \in DOMAIN items
    BY <1>6
  <2> QED
    BY <1>3, <1>6, <2>1 DEF U!Held
<1>8. ASSUME NEW x \in U!Held(old.items), x # b PROVE x \in U!Held(items)
  <2>1. PICK n \in DOMAIN old.items : old.items[n].blob = x
    BY <1>8 DEF U!Held
  <2>2. n \in 1..Len(old.items)
    BY <1>1
  <2>3. PICK k \in DOMAIN kept : kept[k] = old.items[n]
    BY <1>2, <1>8, <2>1, <2>2 DEF Filtered
  <2>4. k \in DOMAIN items /\ items[k] = old.items[n]
    BY <1>6, <2>3
  <2> QED
    BY <2>1, <2>4 DEF U!Held
<1> QED
  BY <1>7, <1>8

(* An enqueue during a batch leaves the order of the others.               *)
LEMMA EnqueueOrders ==
  ASSUME UpgradeBase, NEW b \in Source, calls < MaxCalls, InOrder(old.batch.list, old.items),
         NEW items, items = Append(U!Without(old.items, b), U!ItemOf(b, calls + 1)),
         NEW i \in DOMAIN old.batch.list, old.batch.list[i].blob \notin gap \cup {b}
  PROVE  Ordered(old.batch.list, items, i)
<1> DEFINE kept == U!Without(old.items, b)
           new == U!ItemOf(b, calls + 1)
           list == old.batch.list
<1>1. old.items \in Seq(U!Item) /\ list \in Seq(U!Item) /\ calls \in Nat
  <2>1. calls \in 0..MaxCalls
    BY DEF UpgradeBase, UpgradeTypes
  <2> QED
    BY <2>1, Records DEF UpgradeBase
<1>2. Filtered(kept, old.items, b, Len(old.items))
  BY <1>1, WithoutIs
<1>3. new \in U!Item /\ new.call = calls + 1
  BY Enqueued DEF U!ItemOf
<1>4. items = Append(kept, new)
  OBVIOUS
<1>5. \A k \in DOMAIN list : list[k] # new
  <2> SUFFICES ASSUME NEW k \in DOMAIN list PROVE list[k] # new
    OBVIOUS
  <2>1. list[k].call <= calls
    BY DEF UpgradeBase, AllEarly, Early
  <2>2. list[k].call \in Nat
    BY <1>1, ItemsHave
  <2> HIDE DEF new
  <2> QED
    BY <1>1, <1>3, <2>1, <2>2
<1> HIDE DEF kept, new
<1>6. kept \in Seq(U!Item)
  BY <1>2 DEF Filtered
<1>7. /\ DOMAIN kept = 1..Len(kept) /\ Len(kept) \in Nat
      /\ DOMAIN items = 1..(Len(kept) + 1)
      /\ \A n \in 1..Len(kept) : items[n] = kept[n]
      /\ items[Len(kept) + 1] = new
  BY <1>3, <1>4, <1>6, Appended
<1>8. /\ \E j \in DOMAIN old.items : old.items[j] = list[i]
      /\ \A k \in 1..(i - 1) : (\E n \in DOMAIN old.items : old.items[n] = list[k]) =>
            \E n, j \in DOMAIN old.items :
               n < j /\ old.items[n] = list[k] /\ old.items[j] = list[i]
  BY DEF InOrder, Ordered
<1>9. \A k \in 1..(i - 1) : k \in DOMAIN list
  <2>1. i \in 1..Len(list) /\ DOMAIN list = 1..Len(list) /\ Len(list) \in Nat
    BY <1>1
  <2> QED
    BY <2>1
<1>10. \E j \in DOMAIN items : items[j] = list[i]
  <2>1. PICK j \in DOMAIN old.items : old.items[j] = list[i]
    BY <1>8
  <2>2. j \in 1..Len(old.items) /\ old.items[j].blob # b
    BY <1>1, <2>1
  <2>3. PICK l \in DOMAIN kept : kept[l] = old.items[j]
    BY <1>2, <2>2 DEF Filtered
  <2>4. l \in DOMAIN items /\ items[l] = kept[l]
    BY <1>7, <2>3
  <2> QED
    BY <2>1, <2>3, <2>4
<1>11. ASSUME NEW k \in 1..(i - 1), NEW n \in DOMAIN items, items[n] = list[k]
       PROVE  \E m, j \in DOMAIN items : m < j /\ items[m] = list[k] /\ items[j] = list[i]
  <2>1. n \in DOMAIN kept /\ kept[n] = list[k]
    <3>1. list[k] # new
      BY <1>5, <1>9
    <3>2. n \in 1..Len(kept) \/ n = Len(kept) + 1
      BY <1>7
    <3> QED
      BY <1>7, <1>11, <3>1, <3>2
  <2>2. PICK m0 \in 1..Len(old.items) : old.items[m0] = kept[n]
    BY <1>2, <2>1 DEF Filtered
  <2>3. m0 \in DOMAIN old.items /\ old.items[m0] = list[k] /\ list[k].blob # b
    <3>1. kept[n].blob # b
      BY <1>2, <2>1 DEF Filtered
    <3>2. m0 \in DOMAIN old.items
      BY <1>1
    <3> QED
      BY <2>1, <2>2, <3>1, <3>2
  <2>4. PICK m \in DOMAIN old.items, j \in DOMAIN old.items :
           m < j /\ old.items[m] = list[k] /\ old.items[j] = list[i]
    BY <1>8, <2>3
  <2>5. /\ m \in 1..Len(old.items) /\ old.items[m].blob # b
        /\ j \in 1..Len(old.items) /\ old.items[j].blob # b
    <3>1. DOMAIN old.items = 1..Len(old.items) /\ list[i].blob # b
      BY <1>1
    <3> QED
      BY <2>3, <2>4, <3>1
  <2>6. PICK x \in DOMAIN kept, y \in DOMAIN kept :
           x < y /\ kept[x] = old.items[m] /\ kept[y] = old.items[j]
    BY <1>2, <2>4, <2>5 DEF Filtered
  <2>7. x \in DOMAIN items /\ items[x] = kept[x] /\ y \in DOMAIN items /\ items[y] = kept[y]
    BY <1>7, <2>6
  <2> QED
    BY <2>4, <2>6, <2>7
<1> QED
  BY <1>10, <1>11 DEF Ordered

LEMMA EnqueueUploads ==
  ASSUME UpgradeBase, UploadInv, NEW b \in Source, U!Enqueue(b)
  PROVE  UploadInv'
<1> DEFINE items == Append(U!Without(old.items, b), U!ItemOf(b, calls + 1))
<1>1. /\ old.up /\ calls < MaxCalls /\ calls' = calls + 1 /\ asked' = asked \cup {b}
      /\ Untouched /\ UNCHANGED <<counterFile, uploaded, issued>>
  BY DEF U!Enqueue, U!tables, Untouched
<1>2. UpgradeTypes /\ ~upgraded /\ UNCHANGED <<rows, open>>
  BY <1>1 DEF UpgradeBase, Phases, Untouched
<1>3. items \in Seq(U!Item)
  BY <1>1, Enqueued
<1>4. \/ U!Save(items)
      \/ /\ old.batch # U!NoBatch /\ queueFile' = U!Whole(items)
         /\ old' = [old EXCEPT !.items = items] /\ gap' = gap \cup {b} /\ deaths' = deaths
  BY DEF U!Enqueue
<1>5. b \in U!Held(items) /\ U!Held(old.items) \ {b} \subseteq U!Held(items)
  BY <1>1, EnqueueHolds
<1>6. "torn" \notin gap => asked' \ gap \subseteq uploaded \cup U!Held(items)
  BY <1>1, <1>2, <1>5, FileHolds DEF UploadInv
<1>10. items = Append(U!Without(old.items, b), U!ItemOf(b, calls + 1))
  OBVIOUS
<1> HIDE DEF items
<1>7. ASSUME InOrder(old.batch.list, old.items),
             NEW i \in DOMAIN old.batch.list, old.batch.list[i].blob \notin gap \cup {b}
      PROVE  Ordered(old.batch.list, items, i)
  BY <1>1, <1>7, <1>10, EnqueueOrders
<1>8. CASE U!Save(items)
  BY <1>1, <1>3, <1>6, <1>8, SaveUploads
<1>9. CASE /\ old.batch # U!NoBatch /\ queueFile' = U!Whole(items)
           /\ old' = [old EXCEPT !.items = items] /\ gap' = gap \cup {b} /\ deaths' = deaths
  <2>1. old'.items = items /\ old'.batch = old.batch
    BY <1>2, <1>3, <1>9, Records DEF OldVersion
  <2>2. queueFile'.items = items /\ ~queueFile'.torn
    BY <1>9 DEF U!Whole
  <2>3. "torn" \notin gap' => asked' \ gap' \subseteq uploaded' \cup U!Held(queueFile'.items)
    BY <1>1, <1>6, <1>9, <2>2
  <2>4. ASSUME "torn" \notin gap' PROVE InBatch'
    <3>1. InBatch
      BY <1>9, <2>4 DEF UploadInv
    <3>2. /\ U!Held(old.batch.remaining)' = U!Held(old.batch.remaining)
          /\ old'.batch.list = old.batch.list /\ old'.batch.at = old.batch.at
      BY <2>1 DEF U!Held
    <3>3. asked' \ gap' \subseteq asked \ gap
      BY <1>1, <1>9
    <3>4. InOrder(old.batch.list, old.items)'
      BY <1>7, <1>9, <2>1, <3>1, <3>2 DEF InBatch, InOrder, Ordered
    <3> QED
      BY <1>1, <3>1, <3>2, <3>3, <3>4 DEF InBatch
  <2> QED
    BY <1>2, <1>9, <2>1, <2>2, <2>3, <2>4, OldUploads
<1> QED
  BY <1>4, <1>8, <1>9

LEMMA NextNumberUploads ==
  ASSUME UpgradeBase, UploadInv, U!NextNumber
  PROVE  UploadInv'
<1>1. /\ old.up /\ old' = [old EXCEPT !.current = old.current + 1] /\ Untouched
      /\ UNCHANGED <<queueFile, uploaded, asked, gap>>
  BY DEF U!NextNumber, U!tables, Untouched
<1>2. UpgradeTypes /\ ~upgraded /\ UNCHANGED <<rows, open>>
  BY <1>1 DEF UpgradeBase, Phases, Untouched
<1>3. old'.items = old.items /\ old'.batch = old.batch
  BY <1>1, <1>2, Records DEF OldVersion
<1>4. InBatch => InBatch'
  BY <1>1, <1>3 DEF InBatch, InOrder, Ordered, U!Held
<1> QED
  BY <1>1, <1>2, <1>3, <1>4, FileHolds, OldUploads DEF UploadInv

LEMMA BeginUploads ==
  ASSUME UpgradeBase, UploadInv, U!Begin
  PROVE  UploadInv'
<1>1. /\ old.up /\ Untouched
      /\ old' = [old EXCEPT !.batch = [list |-> old.items, at |-> 1, remaining |-> <<>>]]
      /\ UNCHANGED <<queueFile, uploaded, asked, gap>>
  BY BeginIs
<1>2. UpgradeTypes /\ ~upgraded /\ UNCHANGED <<rows, open>>
  BY <1>1 DEF UpgradeBase, Phases, Untouched
<1>3. /\ old'.items = old.items /\ old'.batch.list = old.items /\ old'.batch.at = 1
      /\ old'.batch.remaining = <<>>
  BY <1>1, <1>2, Records DEF OldVersion
<1>4. DOMAIN old.items = 1..Len(old.items) /\ Len(old.items) \in Nat
  BY <1>2, Records
<1>5. ASSUME "torn" \notin gap PROVE InBatch'
  <2>1. asked \ gap \subseteq uploaded \cup U!Held(old.items)
    BY <1>1, <1>2, <1>5, FileHolds DEF UploadInv
  <2>2. U!Held(old.items) = {old.items[i].blob : i \in 1..Len(old.items)}
    BY <1>4 DEF U!Held
  <2>3. InOrder(old.items, old.items)
    <3>1. ASSUME NEW i \in DOMAIN old.items, NEW k \in 1..(i - 1)
          PROVE  k \in DOMAIN old.items /\ k < i
      BY <1>4, <3>1
    <3> QED
      BY <3>1 DEF InOrder, Ordered
  <2>4. InOrder(old.batch.list, old.items)'
    BY <1>1, <1>3, <2>3 DEF InOrder, Ordered
  <2> QED
    BY <1>1, <1>3, <2>1, <2>2, <2>4 DEF InBatch
<1> QED
  BY <1>1, <1>2, <1>3, <1>5, FileHolds, OldUploads DEF UploadInv

LEMMA ProcessItemUploads ==
  ASSUME UpgradeBase, UploadInv, U!ProcessItem
  PROVE  UploadInv'
<1> DEFINE item == old.batch.list[old.batch.at]
<1>1. /\ old.up /\ old.batch # U!NoBatch /\ Untouched
      /\ old.batch.at \in 1..Len(old.batch.list) /\ item \in U!Item
      /\ UNCHANGED <<queueFile, asked, gap>>
  BY ProcessItemIs
<1>2. PICK kept \in Seq(U!Item) :
        /\ old' = [old EXCEPT !.batch = [list |-> old.batch.list, at |-> old.batch.at + 1,
                                         remaining |-> kept]]
        /\ \/ kept = old.batch.remaining /\ uploaded' = uploaded \cup {item.blob}
           \/ /\ uploaded' = uploaded
              /\ \E i \in U!Item : /\ i.blob = item.blob /\ i.call = item.call
                                   /\ kept = Append(old.batch.remaining, i)
  BY ProcessItemIs
<1>3. UpgradeTypes /\ ~upgraded /\ UNCHANGED <<rows, open>>
  BY <1>1 DEF UpgradeBase, Phases, Untouched
<1>4. /\ old.batch.list \in Seq(U!Item) /\ old.batch.remaining \in Seq(U!Item)
      /\ old'.items = old.items /\ old'.batch.list = old.batch.list
      /\ old'.batch.at = old.batch.at + 1 /\ old'.batch.remaining = kept
  BY <1>2, <1>3, Records DEF OldVersion
<1> HIDE DEF item
<1>5. /\ U!Held(old.batch.remaining) \subseteq U!Held(kept)
      /\ uploaded \subseteq uploaded' /\ item.blob \in uploaded' \cup U!Held(kept)
  <2>1. CASE kept = old.batch.remaining /\ uploaded' = uploaded \cup {item.blob}
    BY <2>1
  <2>2. CASE /\ uploaded' = uploaded
             /\ \E i \in U!Item : /\ i.blob = item.blob /\ i.call = item.call
                                  /\ kept = Append(old.batch.remaining, i)
    <3>1. PICK i \in U!Item : i.blob = item.blob /\ kept = Append(old.batch.remaining, i)
      BY <2>2
    <3>2. /\ DOMAIN kept = 1..(Len(old.batch.remaining) + 1)
          /\ DOMAIN old.batch.remaining = 1..Len(old.batch.remaining)
          /\ Len(old.batch.remaining) \in Nat
          /\ \A n \in 1..Len(old.batch.remaining) : kept[n] = old.batch.remaining[n]
          /\ kept[Len(old.batch.remaining) + 1] = i
      BY <1>4, <3>1, Appended
    <3>3. Len(old.batch.remaining) + 1 \in DOMAIN kept
      BY <3>2
    <3>4. \A n \in DOMAIN old.batch.remaining : n \in DOMAIN kept /\ kept[n] = old.batch.remaining[n]
      BY <3>2
    <3> QED
      BY <2>2, <3>1, <3>2, <3>3, <3>4 DEF U!Held
  <2> QED
    BY <1>2, <2>1, <2>2
<1>6. ASSUME "torn" \notin gap PROVE InBatch'
  <2>1. InBatch
    BY <1>1, <1>6 DEF UploadInv
  <2>2. ASSUME NEW x \in asked \ gap
        PROVE  x \in uploaded' \cup U!Held(kept)
                     \cup {old.batch.list[i].blob : i \in (old.batch.at + 1)..Len(old.batch.list)}
    <3>1. CASE x \in uploaded \cup U!Held(old.batch.remaining)
      BY <1>5, <3>1
    <3>2. CASE x \in {old.batch.list[i].blob : i \in old.batch.at..Len(old.batch.list)}
      <4>1. PICK i \in old.batch.at..Len(old.batch.list) : x = old.batch.list[i].blob
        BY <3>2
      <4>2. i = old.batch.at \/ i \in (old.batch.at + 1)..Len(old.batch.list)
        BY <1>1, <1>4
      <4> QED
        BY <1>5, <4>1, <4>2 DEF item
    <3> QED
      BY <2>1, <2>2, <3>1, <3>2 DEF InBatch
  <2>3. InOrder(old.batch.list, old.items)'
    BY <1>1, <1>4, <2>1 DEF InBatch, InOrder, Ordered
  <2> QED
    BY <1>1, <1>4, <2>2, <2>3 DEF InBatch
<1>7. ASSUME "torn" \notin gap
      PROVE  asked' \ gap' \subseteq uploaded' \cup U!Held(queueFile'.items)
  BY <1>1, <1>3, <1>5, <1>7, FileHolds
<1> QED
  BY <1>1, <1>3, <1>4, <1>6, <1>7, OldUploads DEF UploadInv

LEMMA QuotaUploads ==
  ASSUME UpgradeBase, UploadInv, U!QuotaExceeded
  PROVE  UploadInv'
<1> DEFINE list == old.batch.list
           items == LeftOver(old.batch, old.items)
<1>1. /\ old.up /\ old.batch # U!NoBatch /\ Untouched /\ old.batch.at \in 1..Len(list)
      /\ U!Save(items) /\ UNCHANGED <<uploaded, asked>>
  BY QuotaIs
<1>2. UpgradeTypes /\ list \in Seq(U!Item)
  BY Records DEF UpgradeBase
<1>3. /\ items \in Seq(U!Item)
      /\ \A k \in DOMAIN old.batch.remaining :
           \E n \in DOMAIN items : items[n] = old.batch.remaining[k]
      /\ \E n \in DOMAIN items : items[n] = list[old.batch.at]
      /\ \A j \in DOMAIN old.items :
           \/ (\E k \in DOMAIN old.items : old.items[k] = list[old.batch.at])
                /\ \A k \in DOMAIN old.items : old.items[k] = list[old.batch.at] => j <= k
           \/ \E n \in DOMAIN items : items[n] = old.items[j]
  BY <1>1, <1>2, RestIs
<1> HIDE DEF items
<1>4. ASSUME "torn" \notin gap, NEW x \in asked \ gap
      PROVE  x \in uploaded \cup U!Held(items)
  <2>1. InBatch
    BY <1>1, <1>4 DEF UploadInv
  <2>2. CASE x \in uploaded \cup U!Held(old.batch.remaining)
    BY <1>3, <2>2 DEF U!Held
  <2>3. CASE x \in {list[i].blob : i \in old.batch.at..Len(list)}
    <3>1. PICK i \in old.batch.at..Len(list) : x = list[i].blob
      BY <2>3
    <3>2. CASE i = old.batch.at
      BY <1>3, <3>1, <3>2 DEF U!Held
    <3>3. CASE i # old.batch.at
      <4>1. i \in DOMAIN list /\ old.batch.at \in 1..(i - 1)
        BY <1>1, <1>2, <3>3
      <4>2. Ordered(list, old.items, i)
        BY <1>4, <2>1, <3>1, <4>1 DEF InBatch, InOrder
      <4>3. CASE \E k \in DOMAIN old.items : old.items[k] = list[old.batch.at]
        <5>1. PICK n \in DOMAIN old.items, j \in DOMAIN old.items :
                n < j /\ old.items[n] = list[old.batch.at] /\ old.items[j] = list[i]
          BY <4>1, <4>2, <4>3 DEF Ordered
        <5>2. ~(j <= n)
          <6>1. DOMAIN old.items = 1..Len(old.items)
            BY <1>2, Records
          <6> QED
            BY <5>1, <6>1
        <5>3. \E m \in DOMAIN items : items[m] = old.items[j]
          BY <1>3, <5>1, <5>2
        <5> QED
          BY <3>1, <5>1, <5>3 DEF U!Held
      <4>4. CASE ~ \E k \in DOMAIN old.items : old.items[k] = list[old.batch.at]
        <5>1. PICK j \in DOMAIN old.items : old.items[j] = list[i]
          BY <4>2 DEF Ordered
        <5>2. \E m \in DOMAIN items : items[m] = old.items[j]
          BY <1>3, <4>4, <5>1
        <5> QED
          BY <3>1, <5>1, <5>2 DEF U!Held
      <4> QED
        BY <4>3, <4>4
    <3> QED
      BY <3>2, <3>3
  <2> QED
    BY <2>1, <2>2, <2>3, <1>4 DEF InBatch
<1> QED
  BY <1>1, <1>3, <1>4, SaveUploads

LEMMA EndBatchUploads ==
  ASSUME UpgradeBase, UploadInv, U!EndBatch
  PROVE  UploadInv'
<1>1. /\ old.up /\ old.batch # U!NoBatch /\ Untouched /\ U!Save(old.batch.remaining)
      /\ old.batch.at > Len(old.batch.list) /\ UNCHANGED <<uploaded, asked>>
  BY DEF U!EndBatch, U!tables, Untouched
<1>2. /\ old.batch.remaining \in Seq(U!Item) /\ old.batch.list \in Seq(U!Item)
      /\ old.batch.at \in Nat
  BY Records DEF UpgradeBase
<1>3. old.batch.at..Len(old.batch.list) = {}
  BY <1>1, <1>2
<1>4. "torn" \notin gap => asked \ gap \subseteq uploaded \cup U!Held(old.batch.remaining)
  BY <1>1, <1>3 DEF UploadInv, InBatch
<1> QED
  BY <1>1, <1>2, <1>4, SaveUploads

LEMMA OldEndsUploads ==
  ASSUME UpgradeBase, UploadInv, U!OldDies \/ U!Replace
  PROVE  UploadInv'
<1>1. /\ ~upgraded /\ old' = U!Stopped
      /\ UNCHANGED <<queueFile, rows, open, uploaded, asked, gap>>
  BY DEF U!OldDies, U!Replace, U!files, U!tables, U!rest, UpgradeBase, Phases
<1> QED
  BY <1>1, StoppedIs, FileHolds, OldUploads DEF UploadInv

(***************************************************************************)
(* A step of the current version: what the table held is still held or on  *)
(* the server, and a file that goes was copied.                            *)
LEMMA NewUploads ==
  ASSUME UpgradeBase, UploadInv, ~old.up, UNCHANGED <<old, asked>>, gap \subseteq gap',
         NEW p \in Proc, OthersWait(p), queueFile' \in {queueFile, U!NoQueue},
         uploaded \cup U!Held(rows) \subseteq uploaded' \cup U!Held(rows'),
         "torn" \notin gap =>
            \/ queueFile' = queueFile
            \/ U!Held(queueFile.items) \subseteq uploaded' \cup U!Held(rows'),
         "torn" \notin gap => (open'[p].pc = "insert" => Inserting(p)')
  PROVE  UploadInv'
<1> SUFFICES ASSUME "torn" \notin gap'
             PROVE  /\ ~queueFile'.torn
                    /\ old'.up => queueFile'.items = old'.items
                    /\ asked' \ gap' \subseteq uploaded' \cup U!Held(queueFile.items)' \cup U!Held(rows)'
                    /\ old'.batch # U!NoBatch => InBatch'
                    /\ \A q \in Proc : open'[q].pc = "insert" => Inserting(q)'
  BY DEF UploadInv
<1>1. /\ "torn" \notin gap
      /\ U!Held(rows)' = U!Held(rows') /\ U!Held(queueFile.items)' = U!Held(queueFile'.items)
  BY DEF U!Held
<1>2. ~queueFile.torn /\ U!NoQueue.torn = FALSE /\ U!NoQueue.items = <<>>
  BY <1>1 DEF UploadInv, U!NoQueue
<1>3. ~queueFile'.torn /\ queueFile'.items \in {queueFile.items, <<>>}
  BY <1>2
<1>4. old'.batch = U!NoBatch
  BY DEF UpgradeBase, Phases
<1>5. asked' \ gap' \subseteq uploaded' \cup U!Held(queueFile.items)' \cup U!Held(rows)'
  <2>1. asked \ gap' \subseteq uploaded \cup U!Held(queueFile.items) \cup U!Held(rows)
    BY <1>1 DEF UploadInv
  <2>2. U!Held(queueFile.items) \subseteq uploaded' \cup U!Held(queueFile'.items) \cup U!Held(rows')
    BY <1>1
  <2> QED
    BY <1>1, <2>1, <2>2
<1>6. ASSUME NEW q \in Proc, open'[q].pc = "insert" PROVE Inserting(q)'
  <2>1. CASE q = p
    BY <1>1, <1>6, <2>1
  <2>2. CASE q # p
    <3>1. open'[q] = open[q]
      BY <2>2 DEF OthersWait
    <3>2. Inserting(q)
      BY <1>1, <1>6, <3>1 DEF UploadInv
    <3> QED
      BY <1>1, <1>3, <3>1, <3>2 DEF Inserting
  <2> QED
    BY <2>1, <2>2
<1> QED
  BY <1>3, <1>4, <1>5, <1>6

LEMMA GoUploads ==
  ASSUME UpgradeBase, UploadInv, NEW p \in Proc,
         \/ U!Create(p) \/ U!AddFts(p) \/ U!AddTables(p) \/ U!SetCounter(p) \/ U!RenameCounter(p)
         \/ U!ImportState(p) \/ U!RenameState(p) \/ U!SetVersion(p)
  PROVE  UploadInv'
<1>1. /\ open[p].pc # "closed" /\ UNCHANGED <<old, asked, gap, queueFile, uploaded, rows>>
  BY DEF U!Create, U!AddFts, U!AddTables, U!SetCounter, U!RenameCounter, U!ImportState,
    U!RenameState, U!SetVersion, U!oldvars, U!files, U!tables, U!rest
<1>2. PICK pc \in PCs \ {"insert"} : U!Goto(p, pc)
  BY DEF U!Create, U!AddFts, U!AddTables, U!SetCounter, U!RenameCounter, U!ImportState,
    U!RenameState, U!SetVersion, PCs
<1>3. OthersWait(p) /\ open'[p].pc # "insert"
  BY <1>2, GoesTo DEF UpgradeBase
<1>4. ~old.up
  BY <1>1, Upgraded
<1> QED
  BY <1>1, <1>3, <1>4, NewUploads

LEMMA OpenUploads ==
  ASSUME UpgradeBase, UploadInv, NEW p \in Proc, U!Open(p)
  PROVE  UploadInv'
<1> USE ClosedIs
<1> DEFINE pc == CASE version = 0 -> "create" [] version = 1 -> "fts"
                   [] version = 2 -> "tables" [] version = 4 -> "ready"
           o == [U!Closed EXCEPT !.pc = pc]
<1>1. /\ upgraded /\ open' = [open EXCEPT ![p] = o] /\ gap \subseteq gap'
      /\ UNCHANGED <<old, asked, queueFile, uploaded, rows>>
  BY DEF U!Open, U!oldvars, U!files, U!tables
<1>2. UpgradeTypes
  BY DEF UpgradeBase
<1>3. pc \in {"create", "fts", "tables", "ready"}
  BY <1>2 DEF UpgradeTypes
<1> HIDE DEF pc
<1>4. o \in Opening /\ o.pc = pc
  BY <1>3 DEF Opening
<1> HIDE DEF o
<1>5. OthersWait(p) /\ open'[p].pc # "insert"
  BY <1>1, <1>2, <1>3, <1>4, OpenMoves
<1>6. ~old.up
  BY <1>1 DEF UpgradeBase, Phases
<1> QED
  BY <1>1, <1>5, <1>6, NewUploads

LEMMA ReadCounterUploads ==
  ASSUME UpgradeBase, UploadInv, NEW p \in Proc, U!ReadCounter(p)
  PROVE  UploadInv'
<1> DEFINE pc == IF counterFile = 0 THEN "readQueue" ELSE "setCounter"
           o == [open[p] EXCEPT !.number = counterFile, !.pc = pc]
<1>1. /\ open[p].pc = "readCounter" /\ open' = [open EXCEPT ![p] = o]
      /\ UNCHANGED <<old, asked, gap, queueFile, uploaded, rows>>
  BY DEF U!ReadCounter, U!oldvars, U!files, U!tables, U!rest
<1>2. UpgradeTypes /\ open[p] \in Opening /\ counterFile \in 0..MaxNumber
  BY Records DEF UpgradeBase, UpgradeTypes
<1>3. pc \in PCs /\ pc # "insert"
  BY DEF PCs
<1> HIDE DEF pc
<1>4. o \in Opening /\ o.pc = pc
  BY <1>2, <1>3 DEF Opening, PCs
<1> HIDE DEF o
<1>5. OthersWait(p) /\ open'[p].pc # "insert"
  BY <1>1, <1>2, <1>3, <1>4, OpenMoves
<1>6. ~old.up
  BY <1>1, Upgraded
<1> QED
  BY <1>1, <1>5, <1>6, NewUploads

LEMMA OpenerDiesUploads ==
  ASSUME UpgradeBase, UploadInv, NEW p \in Proc, U!OpenerDies(p)
  PROVE  UploadInv'
<1>1. /\ open[p].pc # "closed" /\ open' = [open EXCEPT ![p] = U!Closed]
      /\ UNCHANGED <<old, asked, gap, queueFile, uploaded, rows>>
  BY DEF U!OpenerDies, U!Migrating, U!oldvars, U!files, U!tables
<1>2. OthersWait(p) /\ open'[p].pc # "insert"
  BY <1>1, ClosedIs, OpenMoves DEF UpgradeBase
<1>3. ~old.up
  BY <1>1, Upgraded
<1> QED
  BY <1>1, <1>2, <1>3, NewUploads

LEMMA ReadQueueUploads ==
  ASSUME UpgradeBase, UploadInv, NEW p \in Proc, U!ReadQueue(p)
  PROVE  UploadInv'
<1>1. /\ open[p].pc # "closed" /\ OthersWait(p)
      /\ UNCHANGED <<old, asked, gap, queueFile, uploaded, rows>>
      /\ open'[p].pc = "insert" => open'[p].items = queueFile.items /\ open'[p].at = 1
  BY ReadQueueIs
<1>2. ASSUME open'[p].pc = "insert" PROVE Inserting(p)'
  <2>1. \A n \in DOMAIN open'[p].items : ~(n < open'[p].at)
    <3>1. DOMAIN queueFile.items = 1..Len(queueFile.items)
      BY Records DEF UpgradeBase
    <3> QED
      BY <1>1, <1>2, <3>1
  <2> QED
    BY <1>1, <1>2, <2>1 DEF Inserting
<1>3. ~old.up
  BY <1>1, Upgraded
<1> QED
  BY <1>1, <1>2, <1>3, NewUploads

LEMMA InsertItemUploads ==
  ASSUME UpgradeBase, UploadInv, NEW p \in Proc, U!InsertItem(p)
  PROVE  UploadInv'
<1> DEFINE o == open[p]
           new == [blob |-> o.items[o.at].blob, tries |-> o.items[o.at].tries]
<1>1. /\ o.pc = "insert" /\ o.at \in 1..Len(o.items) /\ OthersWait(p)
      /\ open'[p].items = o.items /\ open'[p].at = o.at + 1
      /\ new \in [blob : Source, tries : 0..MaxRetries] /\ rows' = Append(rows, new)
      /\ UNCHANGED <<old, asked, gap, queueFile, uploaded>>
  BY InsertItemIs
<1>2. new.blob = o.items[o.at].blob
  OBVIOUS
<1>3. /\ rows \in Seq([blob : Source, tries : 0..MaxRetries])
      /\ DOMAIN o.items = 1..Len(o.items) /\ Len(o.items) \in Nat
  BY Records DEF UpgradeBase, UpgradeTypes
<1> HIDE DEF new
<1>4. /\ DOMAIN rows = 1..Len(rows) /\ Len(rows) \in Nat
      /\ DOMAIN rows' = 1..(Len(rows) + 1)
      /\ \A n \in 1..Len(rows) : rows'[n] = rows[n]
      /\ rows'[Len(rows) + 1] = new
  BY <1>1, <1>3, Appended
<1>5. U!Held(rows) \subseteq U!Held(rows') /\ o.items[o.at].blob \in U!Held(rows')
  <2>1. Len(rows) + 1 \in DOMAIN rows' /\ \A n \in DOMAIN rows : n \in DOMAIN rows'
    BY <1>4
  <2> QED
    BY <1>2, <1>4, <2>1 DEF U!Held
<1>6. ASSUME "torn" \notin gap PROVE Inserting(p)'
  <2>1. Inserting(p)
    BY <1>1, <1>6 DEF UploadInv
  <2>2. ASSUME NEW n \in DOMAIN o.items, n < o.at + 1
        PROVE  o.items[n].blob \in uploaded \cup U!Held(rows')
    <3>1. n = o.at \/ n < o.at
      BY <1>1, <1>3, <2>2
    <3> QED
      BY <1>5, <2>1, <2>2, <3>1 DEF Inserting
  <2>3. U!Held(rows)' = U!Held(rows')
    BY DEF U!Held
  <2> QED
    BY <1>1, <2>1, <2>2, <2>3 DEF Inserting
<1>7. ~old.up
  BY <1>1, Upgraded
<1> QED
  BY <1>1, <1>5, <1>6, <1>7, NewUploads

LEMMA RenameQueueUploads ==
  ASSUME UpgradeBase, UploadInv, NEW p \in Proc, U!RenameQueue(p)
  PROVE  UploadInv'
<1> DEFINE o == open[p]
<1>1. /\ o.pc = "insert" /\ o.at > Len(o.items) /\ OthersWait(p)
      /\ open'[p].pc = "state" /\ queueFile' = U!NoQueue
      /\ UNCHANGED <<old, asked, gap, uploaded, rows>>
  BY RenameQueueIs
<1>2. DOMAIN o.items = 1..Len(o.items) /\ Len(o.items) \in Nat /\ o.at \in Nat
  BY Records DEF UpgradeBase
<1>3. ASSUME "torn" \notin gap
      PROVE  U!Held(queueFile.items) \subseteq uploaded' \cup U!Held(rows')
  <2>1. Inserting(p)
    BY <1>1, <1>3 DEF UploadInv
  <2>2. \A n \in DOMAIN o.items : n < o.at
    BY <1>1, <1>2
  <2> QED
    BY <1>1, <2>1, <2>2 DEF Inserting, U!Held
<1>4. ~old.up
  BY <1>1, Upgraded
<1> QED
  BY <1>1, <1>3, <1>4, NewUploads

LEMMA ResetRetriesUploads ==
  ASSUME UpgradeBase, UploadInv, NEW p \in Proc, U!ResetRetries(p)
  PROVE  UploadInv'
<1>1. /\ open[p].pc = "retries" /\ U!Goto(p, "version")
      /\ rows' = [n \in DOMAIN rows |-> [rows[n] EXCEPT !.tries = 0]]
      /\ UNCHANGED <<old, asked, gap, queueFile, uploaded>>
  BY DEF U!ResetRetries, U!oldvars, U!files, U!rest
<1>2. OthersWait(p) /\ open'[p].pc = "version"
  BY <1>1, GoesTo DEF UpgradeBase, PCs
<1>3. U!Held(rows) \subseteq U!Held(rows')
  <2>1. \A n \in DOMAIN rows : rows[n] \in [blob : Source, tries : 0..MaxRetries]
    <3>1. /\ rows \in Seq([blob : Source, tries : 0..MaxRetries])
          /\ DOMAIN rows = 1..Len(rows)
      BY DEF UpgradeBase, UpgradeTypes
    <3> QED
      BY <3>1, ElementOfSeq
  <2>2. \A n \in DOMAIN rows : n \in DOMAIN rows' /\ rows'[n].blob = rows[n].blob
    BY <1>1, <2>1
  <2> QED
    BY <2>2 DEF U!Held
<1>4. ~old.up
  BY <1>1, Upgraded
<1> QED
  BY <1>1, <1>2, <1>3, <1>4, NewUploads

LEMMA ReadyUploads ==
  ASSUME UpgradeBase, UploadInv, NEW p \in Proc, U!NumberFromTable(p) \/ U!Drain(p)
  PROVE  UploadInv'
<1>1. /\ open[p].pc = "ready" /\ UNCHANGED <<old, open, asked, gap, queueFile>>
  BY DEF U!NumberFromTable, U!Drain, U!oldvars, U!files
<1>2. OthersWait(p) /\ open'[p].pc = "ready" /\ ~old.up
  BY <1>1, Records, Upgraded DEF UpgradeBase, OthersWait
<1>3. uploaded \cup U!Held(rows) \subseteq uploaded' \cup U!Held(rows')
  <2>1. CASE U!NumberFromTable(p)
    BY <2>1 DEF U!NumberFromTable
  <2>2. CASE U!Drain(p)
    <3>1. /\ rows # <<>> /\ rows' = Tail(rows) /\ uploaded' = uploaded \cup {Head(rows).blob}
      BY <2>2 DEF U!Drain
    <3>2. rows \in Seq([blob : Source, tries : 0..MaxRetries])
      BY DEF UpgradeBase, UpgradeTypes
    <3>3. /\ DOMAIN rows = 1..Len(rows) /\ Len(rows) \in Nat /\ Head(rows) = rows[1]
          /\ DOMAIN Tail(rows) = 1..(Len(rows) - 1)
          /\ \A n \in 1..(Len(rows) - 1) : Tail(rows)[n] = rows[n + 1]
      BY <3>1, <3>2
    <3>4. ASSUME NEW n \in DOMAIN rows PROVE rows[n].blob \in uploaded' \cup U!Held(rows')
      <4>1. CASE n = 1
        BY <3>1, <3>3, <4>1
      <4>2. CASE n # 1
        <5>1. n - 1 \in 1..(Len(rows) - 1) /\ (n - 1) + 1 = n
          BY <3>3, <4>2
        <5> QED
          BY <3>1, <3>3, <5>1 DEF U!Held
      <4> QED
        BY <4>1, <4>2
    <3> QED
      BY <3>1, <3>4 DEF U!Held
  <2> QED
    BY <2>1, <2>2
<1> QED
  BY <1>1, <1>2, <1>3, NewUploads

LEMMA UploadStep == ASSUME UpgradeBase, UploadInv, U!Next PROVE UploadInv'
BY LoadUploads, EnqueueUploads, NextNumberUploads, BeginUploads, ProcessItemUploads, QuotaUploads,
  EndBatchUploads, OldEndsUploads, GoUploads, OpenUploads, ReadCounterUploads, OpenerDiesUploads,
  ReadQueueUploads, InsertItemUploads, RenameQueueUploads, ResetRetriesUploads, ReadyUploads
  DEF U!Next

LEMMA UpgradeStep == ASSUME UpgradeInv, U!Next PROVE UpgradeInv'
BY BaseStep, NumberStep, UploadStep DEF UpgradeInv

LEMMA UpgradeLosesNothing == UpgradeInv => U!UpgradeKeeps
<1> SUFFICES ASSUME UpgradeInv PROVE U!UpgradeKeeps
  OBVIOUS
<1>1. /\ issued \in Nat /\ counterFile \in Nat /\ counter \in Nat \cup {None}
      /\ version = 4 => counter # None
  <2>1. /\ issued \in 0..MaxNumber /\ counterFile \in 0..MaxNumber
        /\ counter \in 0..MaxNumber \cup {None}
    BY DEF UpgradeInv, UpgradeBase, UpgradeTypes
  <2>2. version = 4 => counter # None
    BY DEF UpgradeInv, UpgradeBase, Phases
  <2> QED
    BY <2>1, <2>2
<1>2. "torn" \notin gap => asked \ gap \subseteq uploaded \cup U!Held(queueFile.items) \cup U!Held(rows)
  BY DEF UpgradeInv, UploadInv
<1>3. "overlap" \notin gap => \/ issued <= counterFile /\ version # 4
                              \/ counter # None /\ issued <= counter
  <2> SUFFICES ASSUME "overlap" \notin gap
               PROVE  \/ issued <= counterFile /\ version # 4
                      \/ counter # None /\ issued <= counter
    OBVIOUS
  <2>1. Numbers
    BY DEF UpgradeInv, NumberInv
  <2>2. CASE counterFile # 0
    BY <1>1, <2>1, <2>2 DEF Numbers
  <2>3. CASE counterFile = 0
    BY <1>1, <2>1, <2>3 DEF Numbers
  <2> QED
    BY <2>2, <2>3
<1> QED
  BY <1>2, <1>3 DEF U!UpgradeKeeps

LEMMA UpgradeTyped == UpgradeInv => U!TypeOK
<1> SUFFICES ASSUME UpgradeInv PROVE U!TypeOK
  OBVIOUS
<1>1. UpgradeTypes
  BY DEF UpgradeInv, UpgradeBase
<1>2. \A n \in DOMAIN rows : rows[n] \in [blob : Source, tries : 0..MaxRetries]
  <2>1. rows \in Seq([blob : Source, tries : 0..MaxRetries]) /\ DOMAIN rows = 1..Len(rows)
    BY <1>1 DEF UpgradeTypes
  <2> QED
    BY <2>1, ElementOfSeq
<1>3. ASSUME NEW p \in Proc
      PROVE  /\ open[p].pc \in {"closed", "create", "fts", "tables", "readCounter", "setCounter",
                  "renameCounter", "readQueue", "insert", "state", "renameState",
                  "retries", "version", "ready"}
             /\ open[p].items \in Seq(U!Item) /\ open[p].at \in 0..(Len(open[p].items) + 1)
             /\ open[p].number \in 0..MaxNumber /\ open[p].from \in {0, 1, 2}
  <2>1. open[p] \in Opening
    BY <1>1, Records
  <2> QED
    BY <1>1, <2>1 DEF Opening, UpgradeTypes
<1>4. /\ old.up \in BOOLEAN /\ old.items \in Seq(U!Item) /\ old.current \in 0..MaxNumber
      /\ old.batch.list \in Seq(U!Item) /\ old.batch.remaining \in Seq(U!Item)
      /\ queueFile.torn \in BOOLEAN /\ queueFile.items \in Seq(U!Item)
  BY <1>1, Records
<1> QED
  BY <1>1, <1>2, <1>3, <1>4 DEF U!TypeOK, UpgradeTypes

(* The types of a pull, as its module states them.                         *)
LEMMA PullTyped == PullTypes => P!TypeOK
<1> SUFFICES ASSUME PullTypes PROVE P!TypeOK
  OBVIOUS
<1>1. /\ pull.pc \in {"rest", "next", "download"}
      /\ pull.blobs \subseteq P!Item /\ pull.tombs \subseteq Source
      /\ pull.failed \subseteq P!Item /\ pull.late \cup deletes \subseteq Source
  BY DEF PullTypes, Pull
<1> QED
  BY <1>1 DEF PullTypes, P!TypeOK

-----------------------------------------------------------------------------
(* The tokens of a text.  An instance has operators of the community        *)
(* modules of its own; they are the same.                                   *)
LEMMA MaxSame == ASSUME NEW S PROVE C!Max(S) = Max(S)
BY DEF C!Max, Max

LEMMA CardinalitySame == ASSUME NEW S PROVE C!Cardinality(S) = Cardinality(S)
BY DEF C!Cardinality, Cardinality

LEMMA SumSame == ASSUME NEW f PROVE C!SumFunction(f) = SumFunctionOnSet(f, DOMAIN f)
<1>1. C!SumFunction(f) = C!SumFunctionOnSet(f, DOMAIN f)
  BY DEF C!SumFunction
<1> DEFINE S == DOMAIN f
<1>2. C!SumFunctionOnSet(f, S) = SumFunctionOnSet(f, S)
  BY DEF C!SumFunctionOnSet, C!FoldFunctionOnSet, C!MapThenFoldSet, SumFunctionOnSet, FoldFunctionOnSet, MapThenFoldSet
<1> QED BY <1>1, <1>2

(* How many tokens a text has is a number, whatever it consists of.        *)
LEMMA CountedIs == ASSUME NEW text \in Seq(STRING) PROVE C!Counted(text) \in Nat
<1> DEFINE words == {n \in DOMAIN text : ~C!Splits(text, n) /\ C!Splits(text, n - 1)}
<1>1. IsFiniteSet(words)
  <2>1. words \in SUBSET (1..Len(text)) /\ Len(text) \in Nat
    <3>1. DOMAIN text = 1..Len(text) /\ Len(text) \in Nat
      OBVIOUS
    <3> QED
      BY <3>1
  <2> HIDE DEF words
  <2>2. IsFiniteSet(1..Len(text))
    BY <2>1, FS_Interval
  <2> HIDE DEF words
  <2> QED
    BY <2>1, <2>2, FS_Subset
<1>2. Cardinality(words) \in Nat
  BY <1>1, FS_CardinalityType
<1>3. C!Counted(text) = (13 * Cardinality(words) + 9) \div 10
  BY CardinalitySame DEF C!Counted
<1> DEFINE k == Cardinality(words)
<1> HIDE DEF k
<1>4. k \in Nat => (13 * k + 9) \div 10 \in Nat
  OBVIOUS
<1> QED
  BY <1>2, <1>3, <1>4 DEF k

(* f is what is left of a word from its i-th character on, in pieces.      *)
Cuts(f, word, i) ==
  f = [k \in i..(Len(word) + 1) |->
         IF k = Len(word) + 1 THEN 0
         ELSE IF C!Ends(word, k) = {} THEN Len(word) + 1
         ELSE 1 + f[C!Max(C!Ends(word, k)) + 1]]

LEMMA EndsAre ==
  ASSUME NEW word \in Seq(STRING), NEW k \in 1..Len(word), C!Ends(word, k) # {}
  PROVE  C!Max(C!Ends(word, k)) \in k..Len(word)
<1>1. C!Ends(word, k) \subseteq k..Len(word) /\ k..Len(word) \subseteq Nat
  BY DEF C!Ends
<1>2. IsFiniteSet(k..Len(word))
  BY FS_Interval
<1>3. IsFiniteSet(C!Ends(word, k))
  BY <1>1, <1>2, FS_Subset
<1>4. C!Ends(word, k) \subseteq Nat
  BY <1>1
<1> QED
  BY <1>1, <1>3, <1>4, MaxIs, MaxSame

LEMMA CutsExist ==
  ASSUME NEW word \in Seq(STRING)
  PROVE  \E f : Cuts(f, word, 1)
<1> DEFINE l == Len(word)
           T == {n \in 0..l : ~ \E f : Cuts(f, word, l + 1 - n)}
<1>0. l \in Nat
  OBVIOUS
<1>1. SUFFICES ASSUME T # {} PROVE FALSE
  <2>1. l \notin T
    BY <1>1
  <2>2. \E f : Cuts(f, word, l + 1 - l)
    BY <1>0, <2>1
  <2>3. l + 1 - l = 1
    BY <1>0
  <2> QED
    BY <2>2, <2>3
<1>2. PICK n \in T : \A m \in T : n <= m
  <2>1. T \subseteq Nat
    OBVIOUS
  <2> HIDE DEF T
  <2> QED
    BY <1>1, <2>1, Least
<1>3. CASE n = 0
  <2> DEFINE f == [k \in (l + 1)..(l + 1) |-> 0]
  <2>1. Cuts(f, word, l + 1)
    BY <1>0 DEF Cuts
  <2>2. l + 1 - n = l + 1
    BY <1>0, <1>3
  <2> QED
    BY <1>2, <2>1, <2>2
<1>4. CASE n # 0
  <2>1. n \in Nat /\ n - 1 \in 0..l /\ l + 1 - n \in 1..l /\ l + 1 - (n - 1) = (l + 1 - n) + 1
    BY <1>0, <1>4
  <2>2. n - 1 \notin T
    BY <1>2, <2>1
  <2> DEFINE i == l + 1 - n
  <2>3. PICK g : Cuts(g, word, i + 1)
    BY <2>1, <2>2
  <2>4. i \in 1..l
    BY <2>1
  <2> HIDE DEF i
  <2> DEFINE f == [k \in i..(l + 1) |->
                     IF k = l + 1 THEN 0
                     ELSE IF C!Ends(word, k) = {} THEN l + 1
                     ELSE 1 + g[C!Max(C!Ends(word, k)) + 1]]
  <2>5. ASSUME NEW k \in (i + 1)..(l + 1) PROVE f[k] = g[k]
    <3>1. k \in i..(l + 1)
      BY <1>0, <2>4
    <3> QED
      BY <2>3, <3>1 DEF Cuts
  <2>6. ASSUME NEW k \in i..l, C!Ends(word, k) # {}
        PROVE  C!Max(C!Ends(word, k)) + 1 \in (i + 1)..(l + 1)
    <3>1. k \in 1..l
      BY <1>0, <2>4
    <3>2. C!Max(C!Ends(word, k)) \in k..l
      BY <2>6, <3>1, EndsAre
    <3> QED
      BY <1>0, <2>4, <3>1, <3>2
  <2>7. f = [k \in i..(l + 1) |->
               IF k = l + 1 THEN 0
               ELSE IF C!Ends(word, k) = {} THEN l + 1
               ELSE 1 + f[C!Max(C!Ends(word, k)) + 1]]
    <3>1. ASSUME NEW k \in i..(l + 1)
          PROVE  f[k] = IF k = l + 1 THEN 0
                        ELSE IF C!Ends(word, k) = {} THEN l + 1
                        ELSE 1 + f[C!Max(C!Ends(word, k)) + 1]
      <4>1. f[k] = IF k = l + 1 THEN 0
                   ELSE IF C!Ends(word, k) = {} THEN l + 1
                   ELSE 1 + g[C!Max(C!Ends(word, k)) + 1]
        OBVIOUS
      <4> HIDE DEF f
      <4>2. CASE k = l + 1
        BY <4>1, <4>2
      <4>3. CASE k # l + 1
        <5>1. k \in i..l
          BY <1>0, <2>4, <4>3
        <5> QED
          BY <2>5, <2>6, <4>1, <5>1
      <4> QED
        BY <4>2, <4>3
    <3>2. f = [k \in i..(l + 1) |-> f[k]]
      OBVIOUS
    <3> HIDE DEF f
    <3> QED
      BY <3>1, <3>2
  <2>8. Cuts(f, word, i)
    <3> HIDE DEF f
    <3> QED
      BY <2>7 DEF Cuts
  <2> QED
    BY <1>2, <2>8 DEF i
<1> QED
  BY <1>3, <1>4

LEMMA CutsTyped ==
  ASSUME NEW word \in Seq(STRING), NEW f, Cuts(f, word, 1)
  PROVE  \A k \in 1..(Len(word) + 1) : f[k] \in Nat
<1> DEFINE l == Len(word)
           T == {n \in 0..l : f[l + 1 - n] \notin Nat}
<1>0. l \in Nat
  OBVIOUS
<1>1. SUFFICES ASSUME T # {} PROVE FALSE
  <2>1. ASSUME NEW k \in 1..(l + 1) PROVE f[k] \in Nat
    <3>1. l + 1 - k \in 0..l /\ l + 1 - (l + 1 - k) = k
      BY <1>0
    <3> QED
      BY <1>1, <3>1
  <2> QED
    BY <2>1
<1>2. PICK n \in T : \A m \in T : n <= m
  <2>1. T \subseteq Nat
    OBVIOUS
  <2> HIDE DEF T
  <2> QED
    BY <1>1, <2>1, Least
<1> DEFINE k == l + 1 - n
<1>3. k \in 1..(l + 1) /\ n \in Nat
  BY <1>0
<1>4. f[k] = IF k = l + 1 THEN 0
             ELSE IF C!Ends(word, k) = {} THEN l + 1
             ELSE 1 + f[C!Max(C!Ends(word, k)) + 1]
  BY <1>3 DEF Cuts
<1>5. k # l + 1 /\ C!Ends(word, k) # {}
  BY <1>0, <1>2, <1>4
<1> DEFINE j == C!Max(C!Ends(word, k)) + 1
<1>6. j \in (k + 1)..(l + 1)
  <2>1. k \in 1..l
    BY <1>0, <1>3, <1>5
  <2> HIDE DEF k
  <2>2. C!Max(C!Ends(word, k)) \in k..l
    BY <1>5, <2>1, EndsAre
  <2> QED
    BY <1>0, <2>1, <2>2
<1> HIDE DEF j
<1>7. l + 1 - j \in 0..l /\ l + 1 - (l + 1 - j) = j /\ ~(n <= l + 1 - j)
  BY <1>0, <1>3, <1>6
<1>8. f[j] \in Nat
  BY <1>2, <1>7
<1> QED
  BY <1>2, <1>4, <1>5, <1>8 DEF j

LEMMA PiecesAre == ASSUME NEW word \in Seq(STRING) PROVE C!Pieces(word) \in Nat
<1> DEFINE R(f) == Cuts(f, word, 1)
           h == CHOOSE f : R(f)
<1>1. C!Pieces(word) = IF Len(word) > 4 \/ h[1] > Len(word) THEN 1 ELSE h[1]
  BY DEF C!Pieces, Cuts
<1>2. R(h)
  BY CutsExist
<1> HIDE DEF h
<1>3. h[1] \in Nat
  BY <1>2, CutsTyped
<1> QED
  BY <1>1, <1>3

LEMMA EndOfIs ==
  ASSUME NEW text \in Seq(STRING), NEW n \in 1..Len(text)
  PROVE  C!EndOf(text, n) \in n..Len(text)
<1> DEFINE S == {m \in n..Len(text) :
                   \A k \in (n + 1)..m : text[k] # " " /\ k \notin C!BasicTokens(text)}
<1>1. C!EndOf(text, n) = Max(S)
  BY MaxSame DEF C!EndOf
<1>2. S \subseteq n..Len(text) /\ n..Len(text) \subseteq Nat
  <2>1. n \in Nat /\ Len(text) \in Nat
    OBVIOUS
  <2>2. S \subseteq n..Len(text)
    OBVIOUS
  <2>3. n..Len(text) \subseteq Nat
    BY <2>1
  <2> QED
    BY <2>2, <2>3
<1>3. n \in S
  <2>1. (n + 1)..n = {} /\ n \in n..Len(text)
    OBVIOUS
  <2> QED
    BY <2>1
<1>4. IsFiniteSet(n..Len(text))
  BY FS_Interval
<1> HIDE DEF S
<1>5. IsFiniteSet(S) /\ S \subseteq Nat
  BY <1>2, <1>4, FS_Subset
<1>6. Max(S) \in S
  BY <1>3, <1>5, MaxIs
<1> QED
  BY <1>1, <1>2, <1>6

(* The tokenizer's count of a text is a number.                             *)
LEMMA RealIs == ASSUME NEW text \in Seq(STRING) PROVE C!Real(text) \in Nat
<1> DEFINE f == [n \in C!BasicTokens(text) |-> C!Pieces(C!BasicToken(text, n))]
<1>1. C!Real(text) = SumFunctionOnSet(f, DOMAIN f)
  BY SumSame DEF C!Real
<1>2. DOMAIN f = C!BasicTokens(text)
  OBVIOUS
<1>3. C!BasicTokens(text) \subseteq 1..Len(text) /\ Len(text) \in Nat
  <2>1. C!BasicTokens(text) \subseteq DOMAIN text
    BY DEF C!BasicTokens
  <2> QED
    BY <2>1
<1>4. IsFiniteSet(C!BasicTokens(text))
  <2>1. IsFiniteSet(1..Len(text))
    BY <1>3, FS_Interval
  <2> QED
    BY <1>3, <2>1, FS_Subset
<1>5. ASSUME NEW n \in C!BasicTokens(text) PROVE f[n] \in Nat
  <2>1. n \in 1..Len(text)
    BY <1>3
  <2>2. C!EndOf(text, n) \in n..Len(text)
    BY <2>1, EndOfIs
  <2>3. C!BasicToken(text, n) \in Seq(STRING)
    <3> DEFINE m == C!EndOf(text, n)
    <3>1. n \in Int /\ m \in Int
      BY <2>1, <2>2
    <3>2. \A i \in n..m : text[i] \in STRING
      <4>1. ASSUME NEW i \in n..m PROVE i \in 1..Len(text)
        BY <2>1, <2>2
      <4> QED
        BY <4>1
    <3> HIDE DEF m
    <3>3. SubSeq(text, n, m) \in Seq(STRING)
      BY <3>1, <3>2, SubSeqProperties
    <3> QED
      BY <3>3 DEF C!BasicToken, m
  <2> QED
    BY <2>3, PiecesAre
<1> HIDE DEF f
<1> QED
  BY <1>1, <1>2, <1>4, <1>5, SumTyped

LEMMA TokensAre ==
  ASSUME NEW i, NEW j
  PROVE  C!Tokens(i, j) = SumFunctionOnSet([n \in i..j |-> C!Counted(sentence[n])], i..j)
BY SumSame DEF C!Tokens, C!Sum

LEMMA EmbeddedIs ==
  ASSUME NEW c, NEW s
  PROVE  C!Embedded(c, s) <=>
           /\ s \in c.first..c.last
           /\ SumFunctionOnSet([n \in c.first..s |-> C!Real(sentence[n])], c.first..s) <= Window
BY SumSame DEF C!Embedded, C!Sum

(* What countTokens holds within maxTokens, the window holds as well where  *)
(* no sentence has more tokens than it estimates; a sentence alone needs    *)
(* to be within the window itself.                                          *)
LEMMA Holds ==
  ASSUME NEW c, NEW i \in Nat, NEW s \in Nat, i <= s, c.first = i, s \in c.first..c.last,
         \A n \in i..s : sentence[n] \in Seq(STRING),
         i # s => C!Tokens(i, s) <= MaxTokens,
         C!Real(sentence[s]) <= Window,
         \A d \in i..s : ~C!Dense(d)
  PROVE  C!Embedded(c, s)
<1> DEFINE S == i..s
           e == [n \in i..s |-> C!Real(sentence[n])]
           f == [n \in i..s |-> C!Counted(sentence[n])]
<1>1. ASSUME NEW n \in S
      PROVE  e[n] = C!Real(sentence[n]) /\ f[n] = C!Counted(sentence[n])
  OBVIOUS
<1>2. ASSUME NEW n \in S PROVE sentence[n] \in Seq(STRING)
  OBVIOUS
<1>3. ASSUME NEW n \in S PROVE e[n] \in Nat /\ f[n] \in Nat
  BY <1>1, <1>2, RealIs, CountedIs
<1>4. ASSUME NEW n \in S PROVE e[n] <= f[n]
  <2>1. ~(C!Real(sentence[n]) > C!Counted(sentence[n]))
    BY DEF C!Dense
  <2>2. ~(e[n] > f[n])
    BY <1>1, <2>1
  <2>3. e[n] \in Nat /\ f[n] \in Nat
    BY <1>3
  <2> HIDE DEF e, f
  <2> QED
    BY <2>2, <2>3
<1>5. IsFiniteSet(S)
  BY FS_Interval
<1>6. C!Tokens(i, s) = SumFunctionOnSet(f, S)
  BY TokensAre
<1>7. SumFunctionOnSet(e, S) <= Window => C!Embedded(c, s)
  BY EmbeddedIs
<1> HIDE DEF e, f
<1>8. CASE i = s
  <2>1. S = {s}
    BY <1>8
  <2>0. Some({s}) \in {s} /\ {s} # {} /\ {s} \ {s} = {}
    BY SomeIs
  <2>2. SumFunctionOnSet(e, {s}) = e[s] + SumFunctionOnSet(e, {})
    <3>1. IsFiniteSet({s}) /\ Some({s}) = s
      BY <2>0, FS_Singleton
    <3>2. SumFunctionOnSet(e, {s}) =
            IF {s} = {} THEN 0 ELSE e[Some({s})] + SumFunctionOnSet(e, {s} \ {Some({s})})
      BY <3>1, SumStep
    <3> QED
      BY <2>0, <3>1, <3>2
  <2>3. SumFunctionOnSet(e, {}) = 0
    BY FS_EmptySet, SumOfNothing
  <2>4. e[s] \in Nat /\ e[s] <= Window
    BY <1>1, <1>3, <2>1
  <2>5. SumFunctionOnSet(e, S) = e[s]
    <3>1. SumFunctionOnSet(e, S) = SumFunctionOnSet(e, {s})
      BY <2>1
    <3> HIDE DEF S
    <3> QED
      BY <2>2, <2>3, <2>4, <3>1
  <2> QED
    BY <1>7, <2>4, <2>5
<1>9. CASE i # s
  <2>2. C!Tokens(i, s) <= MaxTokens
    BY <1>9
  <2>3. SumFunctionOnSet(e, S) <= SumFunctionOnSet(f, S)
    <3>1. \A n \in S : e[n] \in Int /\ f[n] \in Int /\ e[n] <= f[n]
      BY <1>3, <1>4
    <3> HIDE DEF S
    <3> QED
      BY <1>5, <3>1, SumGrows
  <2>4. SumFunctionOnSet(e, S) \in Nat /\ SumFunctionOnSet(f, S) \in Nat
    <3>1. \A n \in S : e[n] \in Nat /\ f[n] \in Nat
      BY <1>3
    <3> HIDE DEF S
    <3> QED
      BY <1>5, <3>1, SumTyped
  <2>5. MaxTokens \in Nat /\ Window \in Nat /\ MaxTokens <= Window
    BY PartsAssumption
  <2>6. SumFunctionOnSet(f, S) <= MaxTokens
    BY <1>6, <2>2
  <2> HIDE DEF S
  <2>7. SumFunctionOnSet(e, S) <= Window
    BY <2>3, <2>4, <2>5, <2>6
  <2> QED
    BY <1>7, <2>7 DEF S
<1> QED
  BY <1>8, <1>9

-----------------------------------------------------------------------------
(* The chunks of a text.                                                   *)

(* A chunk of several sentences is within maxTokens by the count of         *)
(* countTokens, up to each of them but the first.                           *)
Within == \A c \in DOMAIN chunk : \A k \in (chunk[c].first + 1)..chunk[c].last :
            C!Tokens(chunk[c].first, k) <= MaxTokens

(* What the chunker has gone past is in some chunk.                         *)
Covered == \A s \in 1..(at - 1) : \E c \in DOMAIN chunk :
             s \in chunk[c].first..chunk[c].last

ChunkTypes == C!TypeOK /\ chunk \in Seq([first : Nat, last : Nat])
ChunkInv == ChunkTypes /\ Within /\ Covered

LEMMA TextIs ==
  ASSUME C!TypeOK
  PROVE  \E n \in 1..MaxText : /\ sentence \in [1..n -> Sentence] /\ Len(sentence) = n
                               /\ DOMAIN sentence = 1..n /\ n \in Nat \ {0}
<1> USE PartsAssumption
<1>1. PICK n \in 1..MaxText : sentence \in [1..n -> Sentence]
  BY DEF C!TypeOK
<1>2. n \in Nat \ {0}
  OBVIOUS
<1>3. DOMAIN sentence = 1..n
  BY <1>1
<1>5. sentence \in Seq(Sentence) 
  BY <1>1, <1>2
<1>4. Len(sentence) = n
  BY <1>2, <1>3, <1>5
<1> QED
  BY <1>1, <1>2, <1>3, <1>4

LEMMA ChunkStarts == C!Init => ChunkInv
<1> SUFFICES ASSUME C!Init PROVE ChunkInv
  OBVIOUS
<1> USE PartsAssumption
<1>1. PICK n \in 1..MaxText : sentence \in [1..n -> Sentence]
  BY DEF C!Init
<1>2. sentence \in Seq(Sentence) /\ Len(sentence) = n
  BY <1>1
<1>3. at \in 1..(Len(sentence) + 1)
  BY <1>2 DEF C!Init
<1>4. Within /\ Covered
  <2>1. DOMAIN chunk = {} /\ 1..(at - 1) = {}
    BY DEF C!Init
  <2> QED
    BY <2>1 DEF Within, Covered
<1> QED
  BY <1>3, <1>4 DEF C!Init, C!TypeOK, ChunkInv, ChunkTypes

(* A chunk ends no earlier than it begins, with a sentence of the text.    *)
LEMMA ChunkStep == ChunkInv /\ C!NextChunk => ChunkInv'
<1> SUFFICES ASSUME ChunkInv, C!NextChunk PROVE ChunkInv'
  OBVIOUS
<1>1. PICK n \in 1..MaxText : /\ sentence \in [1..n -> Sentence] /\ Len(sentence) = n
                              /\ DOMAIN sentence = 1..n /\ n \in Nat \ {0}
  BY TextIs DEF ChunkInv, ChunkTypes
<1>2. at \in 1..n
  <2>1. at \in 1..(n + 1) /\ at <= n
    BY <1>1 DEF ChunkInv, ChunkTypes, C!TypeOK, C!NextChunk
  <2> QED
    BY <1>1, <2>1
<1>3. PICK j \in at..n :
        /\ C!IsEnd(at, j)
        /\ chunk' = Append(chunk, [first |-> at, last |-> j])
        /\ IF j = n THEN at' = j + 1
                    ELSE \E k \in at..(j + 1) : C!IsNext(at, j, k) /\ at' = k
  BY <1>1, Zenon DEF C!NextChunk
<1>4. sentence' = sentence
  BY DEF C!NextChunk
<1>5. at \in 1..j /\ j \in 1..n /\ n \in Nat
  BY <1>1, <1>2, <1>3
<1>6. at' \in 1..(n + 1) /\ at' <= j + 1
  <2>1. CASE j = n
    BY <1>3, <1>5, <2>1
  <2>2. CASE j # n
    <3>1. PICK k \in at..(j + 1) : at' = k
      BY <1>3, <2>2, Zenon
    <3> QED
      BY <1>5, <3>1
  <2> QED
    BY <2>1, <2>2
<1>7. chunk' \in Seq([first : Nat, last : Nat])
  BY <1>3, <1>5 DEF ChunkInv, ChunkTypes
<1>8. ASSUME NEW c \in DOMAIN chunk'
      PROVE  chunk'[c].first \in 1..chunk'[c].last /\ chunk'[c].last \in 1..n
  <2>1. CASE c \in DOMAIN chunk
    <3>1. chunk'[c] = chunk[c]
      BY <1>3, <2>1 DEF ChunkInv, ChunkTypes
    <3>2. chunk[c].first \in 1..chunk[c].last /\ chunk[c].last \in 1..n
      BY <1>1, <2>1 DEF ChunkInv, ChunkTypes, C!TypeOK
    <3> QED
      BY <3>1, <3>2
  <2>2. CASE c \notin DOMAIN chunk
    <3>1. chunk'[c] = [first |-> at, last |-> j]
      BY <1>3, <1>8, <2>2 DEF ChunkInv, ChunkTypes
    <3> QED
      BY <1>5, <3>1
  <2> QED
    BY <2>1, <2>2
<1>9. ASSUME NEW c \in DOMAIN chunk'
      PROVE  \/ c \in DOMAIN chunk /\ chunk'[c] = chunk[c]
             \/ chunk'[c] = [first |-> at, last |-> j]
  BY <1>3 DEF ChunkInv, ChunkTypes
<1>10. /\ DOMAIN chunk \subseteq DOMAIN chunk' /\ Len(chunk) + 1 \in DOMAIN chunk'
       /\ \A c \in DOMAIN chunk : chunk'[c] = chunk[c]
       /\ chunk'[Len(chunk) + 1] = [first |-> at, last |-> j]
  BY <1>3 DEF ChunkInv, ChunkTypes
<1>11. Within'
  <2> DEFINE T(i, k) == C!SumFunction([m \in i..k |-> C!Counted(sentence[m])])
  <2>1. ASSUME NEW i, NEW k PROVE C!Tokens(i, k) = T(i, k)
    BY DEF C!Tokens, C!Sum
  <2>2. ASSUME NEW c \in DOMAIN chunk', NEW k \in (chunk'[c].first + 1)..chunk'[c].last
        PROVE  T(chunk'[c].first, k) <= MaxTokens
    <3> HIDE DEF T
    <3>1. CASE c \in DOMAIN chunk /\ chunk'[c] = chunk[c]
      BY <2>1, <2>2, <3>1 DEF ChunkInv, Within
    <3>2. CASE chunk'[c] = [first |-> at, last |-> j]
      <4>1. k \in (at + 1)..j /\ chunk'[c].first = at
        BY <2>2, <3>2
      <4>2. C!Tokens(at, k) <= MaxTokens
        BY <1>3, <4>1 DEF C!IsEnd
      <4> QED
        BY <2>1, <4>1, <4>2
    <3> QED
      BY <1>9, <3>1, <3>2
  <2> QED
    BY <1>4, <2>2 DEF Within, C!Tokens, C!Sum
<1>12. Covered'
  <2>1. PICK b \in Nat : at' = b /\ b <= j + 1
    BY <1>5, <1>6
  <2>2. ASSUME NEW s \in 1..(b - 1)
        PROVE  \E c \in DOMAIN chunk' : s \in chunk'[c].first..chunk'[c].last
    <3>1. CASE s \in 1..(at - 1)
      <4>1. PICK c \in DOMAIN chunk : s \in chunk[c].first..chunk[c].last
        BY <3>1 DEF ChunkInv, Covered
      <4> QED
        BY <1>10, <4>1
    <3>2. CASE s \notin 1..(at - 1)
      <4>1. s \in at..j
        BY <1>5, <2>1, <3>2
      <4> QED
        BY <1>10, <4>1
    <3> QED
      BY <3>1, <3>2
  <2> QED
    BY <2>1, <2>2, Zenon DEF Covered
<1> QED
  <2>1. at' \in 1..(Len(sentence') + 1) /\ DOMAIN sentence' = 1..n
    BY <1>1, <1>4, <1>6
  <2>2. sentence' \in UNION {[1..m -> Sentence] : m \in 1..MaxText}
    BY <1>1, <1>4
  <2> QED
    BY <1>7, <1>8, <1>11, <1>12, <2>1, <2>2 DEF ChunkInv, ChunkTypes, C!TypeOK


(* A chunked text is in the chunks, and what is in them is embedded.        *)
LEMMA ChunksEmbedded == ChunkInv => C!EverySentenceEmbedded
<1> SUFFICES ASSUME ChunkInv, at > Len(sentence), NEW s \in DOMAIN sentence,
                    C!Real(sentence[s]) <= Window
             PROVE  \E c \in DOMAIN chunk :
                      /\ s \in chunk[c].first..chunk[c].last
                      /\ \/ C!Embedded(chunk[c], s)
                         \/ \E d \in chunk[c].first..s : C!Dense(d)
  BY DEF C!EverySentenceEmbedded
<1>1. PICK n \in 1..MaxText : /\ sentence \in [1..n -> Sentence] /\ Len(sentence) = n
                              /\ DOMAIN sentence = 1..n /\ n \in Nat \ {0}
  BY TextIs DEF ChunkInv, ChunkTypes
<1>2. s \in 1..(at - 1)
  <2>1. at \in 1..(n + 1) /\ at > n /\ s \in 1..n
    BY <1>1 DEF ChunkInv, ChunkTypes, C!TypeOK
  <2> QED
    BY <1>1, <2>1
<1>3. PICK c \in DOMAIN chunk : s \in chunk[c].first..chunk[c].last
  BY <1>2 DEF ChunkInv, Covered
<1> DEFINE i == chunk[c].first
<1>4. i \in Nat /\ i \in 1..chunk[c].last /\ chunk[c].last \in 1..n
  BY <1>1 DEF ChunkInv, ChunkTypes, C!TypeOK
<1>5. i # s => C!Tokens(i, s) <= MaxTokens
  <2> SUFFICES ASSUME i # s PROVE C!Tokens(i, s) <= MaxTokens
    OBVIOUS
  <2>1. s \in (i + 1)..chunk[c].last
    BY <1>1, <1>3, <1>4
  <2> QED
    BY <2>1 DEF ChunkInv, Within
<1>6. \A m \in i..s : sentence[m] \in Seq(STRING)
  <2>1. ASSUME NEW m \in i..s PROVE m \in 1..n
    BY <1>1, <1>3, <1>4
  <2> QED
    BY <1>1, <2>1, PartsAssumption
<1>7. s \in Nat /\ i <= s
  BY <1>1, <1>3, <1>4
<1> HIDE DEF i
<1>8. CASE \A d \in i..s : ~C!Dense(d)
  <2>1. i = chunk[c].first
    BY DEF i
  <2>2. C!Embedded(chunk[c], s)
    BY <1>3, <1>4, <1>5, <1>6, <1>7, <1>8, <2>1, Holds
  <2> QED
    BY <1>3, <2>2
<1> QED
  BY <1>3, <1>8 DEF i

-----------------------------------------------------------------------------
(* The parts as MCLocal puts them together: every part but the one that     *)
(* the initial state picks stands still.                                    *)
PartsInv == /\ part = "local" => TypeOK
            /\ part = "chunker" => ChunkInv
            /\ part = "pull" => PullInv
            /\ part = "models" => ModelInv
            /\ part = "upgrade" => UpgradeInv

LEMMA UpgradeRests == UpgradeInv /\ UNCHANGED uvars => UpgradeInv'
<1> SUFFICES ASSUME UpgradeInv, UNCHANGED uvars PROVE UpgradeInv'
  OBVIOUS
<1> USE DEF uvars
<1>1. UpgradeTypes'
  BY DEF UpgradeInv, UpgradeBase, UpgradeTypes
<1>2. AllEarly'
  BY DEF UpgradeInv, UpgradeBase, AllEarly, Early
<1>3. Phases'
  BY DEF UpgradeInv, UpgradeBase, Phases
<1>4. NumberInv'
  BY DEF UpgradeInv, NumberInv, OneMigrates, Numbers, At, U!Migrating
<1>5. UploadInv'
  BY DEF UpgradeInv, UploadInv, InBatch, InOrder, Ordered, Inserting, U!Held
<1> QED
  BY <1>1, <1>2, <1>3, <1>4, <1>5 DEF UpgradeInv, UpgradeBase

LEMMA PartsAlways == MCSpec => []PartsInv
<1>1. MCInit => PartsInv
  BY InitTypes, ChunkStarts, PullStarts, ModelsStart, UpgradeStarts DEF MCInit, PartsInv
<1>2. PartsInv /\ [MCNext]_allvars => PartsInv'
  <2> SUFFICES ASSUME PartsInv, [MCNext]_allvars PROVE PartsInv'
    OBVIOUS
  <2>1. CASE PullSync
    BY <2>1, PullStep DEF PartsInv, PullSync
  <2>2. CASE Models
    BY <2>2, ModelsStep DEF PartsInv, Models
  <2>3. CASE Upgrade
    BY <2>3, UpgradeStep DEF PartsInv, Upgrade
  <2>5. CASE Local
    BY <2>5, NextTypes DEF PartsInv, Local
  <2>6. CASE Chunker
    BY <2>6, ChunkStep DEF PartsInv, Chunker
  <2>4. CASE UNCHANGED allvars
    <3>1. part' = part /\ UNCHANGED <<vars, pvars, cvars, mvars, uvars>>
      BY <2>4 DEF allvars
    <3>2. UNCHANGED pvars /\ PullInv => PullInv'
      BY DEF pvars, PullInv, PullTypes, Past, Listed, P!NothingSkipped
    <3>3. UNCHANGED mvars /\ ModelInv => ModelInv'
      BY DEF mvars, ModelInv, M!TypeOK, ToInv, ApartInv, Uses, KindInv, Download,
             M!Writers, Complete
    <3>4. UNCHANGED cvars /\ ChunkInv => ChunkInv'
      BY DEF cvars, ChunkInv, ChunkTypes, Within, Covered, C!TypeOK, C!Tokens, C!Sum
    <3> QED
      BY <3>1, <3>2, <3>3, <3>4, NextTypes, UpgradeRests DEF PartsInv
  <2> QED
    BY <2>1, <2>2, <2>3, <2>4, <2>5, <2>6 DEF MCNext
<1> QED
  BY <1>1, <1>2, PTL DEF MCSpec

(* Every part keeps its types: the records of storage (source-repository.ts *)
(* and the rest), of a pull, of the chunker, of the models and of the       *)
(* upgrade.                                                                 *)
THEOREM PartsTyped == MCSpec => []TypesOK
<1>1. PartsInv => TypesOK
  BY PullTyped, UpgradeTyped DEF PartsInv, PullInv, ModelInv, ChunkInv, ChunkTypes, TypesOK
<1> QED
  BY <1>1, PartsAlways, PTL

(* The time of the last sync (incremental-sync.ts, full-sync.ts) may be     *)
(* trusted: whatever changed on the server no later than it is known here,  *)
(* live or deleted, except for what changed behind the list of a pull and   *)
(* what a full sync passed over; see NothingSkipped of PullSync.            *)
THEOREM NothingIsSkipped == MCSpec => []NothingSkipped
<1>1. PartsInv => NothingSkipped
  BY DEF PartsInv, PullInv, NothingSkipped
<1> QED
  BY <1>1, PartsAlways, PTL

(* Every sentence that fits the window of the model is embedded whole by    *)
(* some chunk (chunker.ts, tokenizer-wordpiece.ts), however the chunks      *)
(* overlap, unless it or one before it in its chunk has more tokens than    *)
(* countTokens estimates.  See EverySentenceEmbedded of Chunker.            *)
THEOREM SentencesAreEmbedded == MCSpec => []EverySentenceEmbedded
<1>1. PartsInv => EverySentenceEmbedded
  BY ChunksEmbedded DEF PartsInv, EverySentenceEmbedded
<1> QED
  BY <1>1, PartsAlways, PTL

(* A model file that passes for ready (model-manager.ts) is one version     *)
(* from its first part to its last, wherever a download was cut, died or    *)
(* was taken over by the next one; excepted are a kind that two processes   *)
(* downloaded at once and one resumed after the file at the URL had         *)
(* changed.  See ReadyIsWhole of Models.                                    *)
THEOREM ReadyFilesAreWhole == MCSpec => []ReadyIsWhole
<1>1. PartsInv => ReadyIsWhole
  BY ModelsWhole DEF PartsInv, ReadyIsWhole
<1> QED
  BY <1>1, PartsAlways, PTL

(* Nothing of the flat files is lost on the way into the database           *)
(* (storage/schema.ts), though processes of both versions open it at once   *)
(* and die between any two statements: an enqueued upload is done, waits in *)
(* the old file or is a row of sync_queue, and no sequence number           *)
(* (sync/sequence.ts) is given out twice; excepted are the losses that gap  *)
(* names.  See UpgradeKeeps of Upgrade.                                     *)
THEOREM UpgradeKeepsAll == MCSpec => []UpgradeKeeps
<1>1. PartsInv => UpgradeKeeps
  BY UpgradeLosesNothing DEF PartsInv, UpgradeKeeps
<1> QED
  BY <1>1, PartsAlways, PTL
=============================================================================
