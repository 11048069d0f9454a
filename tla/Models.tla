------------------------------- MODULE Models -------------------------------
(***************************************************************************)
(* ModelManager.ensureModel: every process that starts the pipeline wants  *)
(* the vocabulary and the model, and fetches what is not there or does not *)
(* match its hash.  A file is downloaded beside its place, resumed if      *)
(* something is there already, hashed, renamed, and its hash written; the  *)
(* process may die and others may do the same in between.  The contents of *)
(* files stand for their hashes.                                           *)
(***************************************************************************)
EXTENDS Naturals, Sequences

CONSTANTS
  Process,   \* bound: processes that start the pipeline
  Inodes,    \* bound: files on the disk
  Parts,     \* bound: parts of the model; the vocabulary is a single one
  MaxVersion, MaxCuts,  \* bounds: versions published; connections cut, deaths
  None

Inode == 1..Inodes
Kind == {"vocab", "model"}
Length(k) == IF k = "vocab" THEN 1 ELSE Parts
Zeros == <<0, 0>>
Part == {Zeros} \cup ((1..MaxVersion) \X (1..Parts))
Content == Seq(Part)

VARIABLES
  data,      \* what an inode holds
  temp,      \* <name>.download: an inode or None
  file,      \* the file itself
  hash,      \* the sidecar <name>.sha256: what was hashed, or None
  published, \* the version at the URL
  loader,    \* what each process does
  cuts,
  shared     \* ghost: kinds downloaded beside another writer or across versions

vars == <<data, temp, file, hash, published, loader, cuts, shared>>

Idle == [pc |-> "idle", kind |-> "vocab", to |-> None, append |-> FALSE,
         version |-> 1, next |-> 1, sum |-> <<>>]

TypeOK ==
  /\ data \in [Inode -> Content]
  /\ temp \in [Kind -> Inode \cup {None}]
  /\ file \in [Kind -> Inode \cup {None}]
  /\ hash \in [Kind -> Content \cup {None}]
  /\ published \in 1..MaxVersion
  /\ loader \in [Process ->
       [pc : {"idle", "check", "fetch", "write", "rename", "record", "done"},
        kind : Kind, to : Inode \cup {None}, append : BOOLEAN,
        version : 1..MaxVersion, next : 1..(Parts + 1), sum : Content]]
  /\ cuts \in 0..MaxCuts
  /\ shared \subseteq Kind

Init ==
  /\ data = [i \in Inode |-> <<>>]
  /\ temp = [k \in Kind |-> None] /\ file = [k \in Kind |-> None]
  /\ hash = [k \in Kind |-> None]
  /\ published = 1
  /\ loader = [p \in Process |-> Idle]
  /\ cuts = 0 /\ shared = {}

\* isVocabReady, isModelReady.
Ready(k) == file[k] # None /\ hash[k] # None /\ data[file[k]] = hash[k]

Size(k) == IF temp[k] = None THEN 0 ELSE Len(data[temp[k]])
Go(p, pc) == loader' = [loader EXCEPT ![p].pc = pc]
InUse == {temp[k] : k \in Kind} \cup {file[k] : k \in Kind}
           \cup {loader[p].to : p \in Process}
\* A new file gets the lowest inode that is free.
Free(i) == i \notin InUse /\ 1..(i - 1) \subseteq InUse
\* A file without a name, that nobody writes to any more, is gone.
Stored(new) == data' = [i \in Inode |-> IF i \in InUse' THEN new[i] ELSE <<>>]
Writers(k) == {p \in Process : loader[p].pc = "write" /\ loader[p].kind = k}

EnsureModel(p) ==
  /\ loader[p].pc = "idle"
  /\ Go(p, "check")
  /\ UNCHANGED <<data, temp, file, hash, published, cuts, shared>>

\* The vocabulary comes first, then the model.
Advance(p) ==
  loader' = [loader EXCEPT ![p] =
    IF @.kind = "vocab" THEN [Idle EXCEPT !.pc = "check", !.kind = "model"]
                        ELSE [Idle EXCEPT !.pc = "done"]]

Check(p) ==
  LET k == loader[p].kind IN
  /\ loader[p].pc = "check"
  /\ IF Ready(k) THEN Advance(p)
       \* What is there of the file is measured before the request is sent.
       ELSE loader' = [loader EXCEPT ![p].pc = "fetch", ![p].next =
              IF Size(k) > Length(k) THEN Length(k) + 1 ELSE Size(k) + 1]
  /\ UNCHANGED <<data, temp, file, hash, published, cuts, shared>>

(* Mutant: an answer 200 is appended as well.                               *)
WholeAppended(p) ==
  LET k == loader[p].kind IN
  \E i \in Inode :
    /\ IF temp[k] = None THEN Free(i) ELSE i = temp[k]
    /\ temp' = [temp EXCEPT ![k] = i]
    /\ loader' = [loader EXCEPT ![p] =
         [@ EXCEPT !.pc = "write", !.to = i, !.version = published, !.next = 1,
                   !.append = TRUE]]
    /\ UNCHANGED data

\* An answer 200 carries the whole file; the download starts again.
Whole(p) ==
  LET k == loader[p].kind IN
  \E i \in Inode :
    /\ IF temp[k] = None THEN Free(i) ELSE i = temp[k]
    /\ temp' = [temp EXCEPT ![k] = i]
    /\ data' = [data EXCEPT ![i] = <<>>]
    /\ loader' = [loader EXCEPT ![p] =
         [@ EXCEPT !.pc = "write", !.to = i, !.version = published, !.next = 1]]

\* An answer 206 carries what is missing; it is appended.  Beyond the end of
\* the file there is only 416, and the download fails.
Rest(p) ==
  LET k == loader[p].kind IN
  /\ loader[p].next \in 2..Length(k)
  /\ \E i \in Inode :
       /\ IF temp[k] = None THEN Free(i) /\ data' = [data EXCEPT ![i] = <<>>]
                            ELSE i = temp[k] /\ UNCHANGED data
       /\ temp' = [temp EXCEPT ![k] = i]
       /\ loader' = [loader EXCEPT ![p] = [@ EXCEPT
            !.pc = "write", !.to = i, !.version = published, !.append = TRUE]]

\* The download of p goes on from another version or from another length
\* than p measured.
Misfit(p) ==
  LET k == loader[p].kind IN
  /\ loader[p].next > 1
  /\ \/ Size(k) + 1 # loader[p].next
     \/ \E n \in 1..Size(k) : data[temp[k]][n][1] # published

Fetch(p) ==
  LET k == loader[p].kind IN
  /\ loader[p].pc = "fetch"
  /\ \/ Whole(p) /\ shared' = IF Writers(k) = {} THEN shared ELSE shared \cup {k}
     \/ Rest(p) /\ shared' = IF Writers(k) = {} /\ ~Misfit(p)
                             THEN shared ELSE shared \cup {k}
  /\ UNCHANGED <<file, hash, published, cuts>>

\* The next part goes to the end, or to its place: a gap is filled by zeros.
Write(p) ==
  LET l == loader[p]
      old == data[l.to]
      at == IF l.append THEN Len(old) + 1 ELSE l.next
      part == <<l.version, l.next>> IN
  /\ l.pc = "write" /\ l.next <= Length(l.kind) /\ at <= 2 * Parts
  /\ data' = [data EXCEPT ![l.to] =
       [n \in 1..(IF at > Len(old) THEN at ELSE Len(old)) |->
          IF n = at THEN part ELSE IF n \in DOMAIN old THEN old[n] ELSE Zeros]]
  /\ loader' = [loader EXCEPT ![p].next = @ + 1]
  /\ UNCHANGED <<temp, file, hash, published, cuts, shared>>

\* The body has ended; whatever has the temporary name now is hashed.
Hash(p) ==
  LET l == loader[p] IN
  /\ l.pc = "write" /\ l.next = Length(l.kind) + 1
  /\ loader' = [loader EXCEPT ![p] =
       IF temp[l.kind] = None THEN Idle
       ELSE [@ EXCEPT !.pc = "rename", !.to = None, !.sum = data[temp[l.kind]]]]
  /\ UNCHANGED <<temp, file, hash, published, cuts, shared>>
  /\ Stored(data)

Rename(p) ==
  LET k == loader[p].kind IN
  /\ loader[p].pc = "rename"
  /\ IF temp[k] = None
     THEN loader' = [loader EXCEPT ![p] = Idle] /\ UNCHANGED <<temp, file>>
     ELSE /\ file' = [file EXCEPT ![k] = temp[k]]
          /\ temp' = [temp EXCEPT ![k] = None]
          /\ Go(p, "record")
  /\ UNCHANGED <<hash, published, cuts, shared>>
  /\ Stored(data)

Record(p) ==
  /\ loader[p].pc = "record"
  /\ hash' = [hash EXCEPT ![loader[p].kind] = loader[p].sum]
  /\ Advance(p)
  /\ UNCHANGED <<data, temp, file, published, cuts, shared>>

\* The request is refused or the connection breaks: a download that has
\* begun is removed, by its name.
Fail(p) ==
  LET l == loader[p] IN
  /\ l.pc \in {"fetch", "write"} /\ cuts < MaxCuts
  /\ temp' = IF l.pc = "write" THEN [temp EXCEPT ![l.kind] = None] ELSE temp
  /\ loader' = [loader EXCEPT ![p] = Idle]
  /\ cuts' = cuts + 1
  /\ UNCHANGED <<file, hash, published, shared>>
  /\ Stored(data)

Die(p) ==
  /\ loader[p].pc \notin {"idle", "done"} /\ cuts < MaxCuts
  /\ loader' = [loader EXCEPT ![p] = Idle]
  /\ cuts' = cuts + 1
  /\ UNCHANGED <<temp, file, hash, published, shared>>
  /\ Stored(data)

Publish ==
  /\ published < MaxVersion
  /\ published' = published + 1
  /\ UNCHANGED <<data, temp, file, hash, loader, cuts, shared>>

Next ==
  \/ \E p \in Process :
       \/ EnsureModel(p) \/ Check(p) \/ Fetch(p) \/ Write(p) \/ Hash(p)
       \/ Rename(p) \/ Record(p) \/ Fail(p) \/ Die(p)
  \/ Publish

Spec == Init /\ [][Next]_vars

-----------------------------------------------------------------------------
(* The hash beside a file is computed from the file, so it vouches for no   *)
(* more than that nobody touched it since.  A file that passes for ready is *)
(* whole nevertheless, whichever processes died or were cut off while they  *)
(* fetched it, one after the other, each taking over what was there -       *)
(* unless two downloads of it overlapped, or one was resumed after the file *)
(* at the URL had changed: neither is noticed, then or ever after.          *)
ReadyIsWhole ==
  \A k \in Kind :
    Ready(k) /\ k \notin shared =>
      \E v \in 1..MaxVersion : data[file[k]] = [n \in 1..Length(k) |-> <<v, n>>]
=============================================================================
