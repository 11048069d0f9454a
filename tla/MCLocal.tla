------------------------------- MODULE MCLocal -------------------------------
(* Machines of the client that share no state, in one run: the initial      *)
(* state picks one of them and every step is a step of that one.  They      *)
(* share names of processes and of data, for the sake of the symmetry.      *)
(* The names of LocalKB are the module's own; the others are instances.     *)
EXTENDS LocalKB, TLC

CONSTANTS Meta, PerDay, MaxTime,
          Sentence, Vocabulary, MaxTokens, Overlap, Window, MaxText,
          Inodes, Parts, MaxVersion, MaxCuts,
          MaxRetries, MaxCalls, MaxNumber, MaxDeaths

(* The names and bounds of the parts.                                       *)
ASSUME PartsAssumption ==
  /\ Meta \notin Source /\ None \notin Source \cup {Meta} \cup Nat
  /\ {PerDay, Inodes, Parts, MaxVersion, MaxRetries, MaxCalls, MaxTokens, Overlap,
      Window, MaxText} \subseteq Nat \ {0}
  /\ {MaxTime, MaxCuts, MaxNumber, MaxDeaths} \subseteq Nat
  /\ \A text \in Sentence : text \in Seq(STRING)
  /\ MaxTokens <= Window

VARIABLES part,
  row, listable, status, edited, lastSync, deletes, pull, skipped, now,
  sentence, at, chunk,
  data, temp, file, hash, published, loader, cuts, shared,
  old, upgraded, queueFile, counterFile, stateFile, version, counter, rows,
  state, backfills, open, uploaded, asked, issued, calls, deaths, gap

(* Sentences: plain words, a word of two pieces, one too long to be cut,    *)
(* a dense run of symbols, and punctuation alone.                           *)
Texts == { <<".">>, <<"a">>, <<"a", " ", "a">>, <<"a", ".", "a", "a">>,
           <<"a", " ", "a", " ", "u", "a">>, <<"a", "a", "a", "a", "a">>,
           <<"a", " ", "a", " ", "a", " ", "a">>, <<"s", "s", "a", "s">> }
Pieces == { <<"a">>, <<"a", "a">>, <<"##", "a">>, <<"s">>, <<".">> }

P == INSTANCE PullSync WITH Blob <- Source
C == INSTANCE Chunker WITH Space <- " ", Punctuation <- {"."}, Symbol <- {"s"}, MaxWord <- 4
M == INSTANCE Models WITH Process <- Proc
U == INSTANCE Upgrade WITH Blob <- Source, Opener <- Proc

pvars == <<row, listable, status, edited, lastSync, deletes, pull, skipped, now>>
cvars == <<sentence, at, chunk>>
mvars == <<data, temp, file, hash, published, loader, cuts, shared>>
uvars == <<old, upgraded, queueFile, counterFile, stateFile, version, counter, rows,
           state, backfills, open, uploaded, asked, issued, calls, deaths, gap>>
allvars == <<part, vars, pvars, cvars, mvars, uvars>>

(* The variables of a part that was not picked do not matter: 0 is quick.   *)
NoPullSync == /\ row = 0 /\ listable = 0 /\ status = 0 /\ edited = 0 /\ lastSync = 0
              /\ deletes = 0 /\ pull = 0 /\ skipped = 0 /\ now = 0
NoChunker == sentence = 0 /\ at = 0 /\ chunk = 0
NoModels == /\ data = 0 /\ temp = 0 /\ file = 0 /\ hash = 0 /\ published = 0
            /\ loader = 0 /\ cuts = 0 /\ shared = 0
NoUpgrade == /\ old = 0 /\ upgraded = 0 /\ queueFile = 0 /\ counterFile = 0
             /\ stateFile = 0 /\ version = 0 /\ counter = 0 /\ rows = 0 /\ state = 0
             /\ backfills = 0 /\ open = 0 /\ uploaded = 0 /\ asked = 0 /\ issued = 0
             /\ calls = 0 /\ deaths = 0 /\ gap = 0

MCInit ==
  /\ part \in {"local", "pull", "chunker", "models", "upgrade"}
  /\ Init /\ (part # "local" => ~named)
  /\ IF part = "pull" THEN P!Init ELSE NoPullSync
  /\ IF part = "chunker" THEN C!Init ELSE NoChunker
  /\ IF part = "models" THEN M!Init ELSE NoModels
  /\ IF part = "upgrade" THEN U!Init ELSE NoUpgrade

Local == part = "local" /\ Next /\ UNCHANGED <<part, pvars, cvars, mvars, uvars>>
PullSync == part = "pull" /\ P!Next /\ UNCHANGED <<part, vars, cvars, mvars, uvars>>
Chunker == part = "chunker" /\ C!NextChunk /\ UNCHANGED <<part, vars, pvars, mvars, uvars>>
Models == part = "models" /\ M!Next /\ UNCHANGED <<part, vars, pvars, cvars, uvars>>
Upgrade == part = "upgrade" /\ U!Next /\ UNCHANGED <<part, vars, pvars, cvars, mvars>>

MCNext == Local \/ PullSync \/ Chunker \/ Models \/ Upgrade

MCSpec == MCInit /\ [][MCNext]_allvars

Symmetry == Permutations(Proc) \cup Permutations(Source)

(* Every part keeps its types: see TypeOK of the modules.                   *)
TypesOK ==
  /\ part = "local" => TypeOK
  /\ part = "pull" => P!TypeOK
  /\ part = "chunker" => C!TypeOK
  /\ part = "models" => M!TypeOK
  /\ part = "upgrade" => U!TypeOK

(* See the properties of the same names in the modules; those of LocalKB    *)
(* are used as they are.                                                    *)
NothingSkipped == part = "pull" => P!NothingSkipped
EverySentenceEmbedded == part = "chunker" => C!EverySentenceEmbedded
ReadyIsWhole == part = "models" => M!ReadyIsWhole
UpgradeKeeps == part = "upgrade" => U!UpgradeKeeps
=============================================================================
