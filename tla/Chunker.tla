------------------------------- MODULE Chunker -------------------------------
(***************************************************************************)
(* The content pipeline from sentences to what the model embeds: chunkText *)
(* gathers sentences into overlapping chunks by a count of their tokens,   *)
(* and the WordPiece tokenizer cuts each chunk at the model's window.  The *)
(* two do not count alike: setTokenizerVocab, which would give countTokens *)
(* the vocabulary, has no caller, so countTokens estimates from words.     *)
(* A text is a sequence of characters, of which only the kind matters.     *)
(***************************************************************************)
EXTENDS Naturals, Sequences, FiniteSetsExt, Functions

CONSTANTS
  Sentence,   \* bound: the texts a sentence may be
  Space, Punctuation,  \* characters at which countTokens and the tokenizer split
  Symbol,     \* characters that are tokens of their own for the tokenizer only
  Vocabulary, \* pieces, as sequences; those that go on a word start with "##"
  MaxWord,    \* MAX_WORD_LENGTH (200)
  MaxTokens,  \* maxTokens of a chunk (500)
  Overlap,    \* overlapTokens (50)
  Window,     \* tokens embedded: 512 less [CLS] and [SEP]
  MaxText     \* bound: sentences

VARIABLES
  sentence,  \* the sentences of the text
  at,        \* sentenceIdx, from 1
  chunk      \* the chunks: their first and last sentences

vars == <<sentence, at, chunk>>

-----------------------------------------------------------------------------
(* How many tokens a sentence has, estimated and in fact.                   *)

Splits(text, n) == n = 0 \/ text[n] \in Punctuation \cup {Space}

\* The words, times 1.3, rounded up.
Counted(text) ==
  LET words == {n \in DOMAIN text : ~Splits(text, n) /\ Splits(text, n - 1)}
  IN (13 * Cardinality(words) + 9) \div 10

\* Where the tokenizer starts a word: punctuation, symbols and ideographs
\* (Symbol) are words of their own.
BasicTokens(text) ==
  LET Single(c) == c \in Punctuation \cup Symbol
      Starts(n) == \/ n = 1 \/ text[n - 1] = Space
                   \/ Single(text[n]) \/ Single(text[n - 1])
  IN {n \in DOMAIN text : text[n] # Space /\ Starts(n)}

\* The word that starts there ends before a space or another word.
EndOf(text, n) ==
  Max({m \in n..Len(text) :
         \A k \in (n + 1)..m : text[k] # Space /\ k \notin BasicTokens(text)})
BasicToken(text, n) == SubSeq(text, n, EndOf(text, n))

\* A word is cut into the longest pieces from the left; a word that cannot
\* be, or is too long, is one unknown token.
Piece(word, i, j) == IF i = 1 THEN SubSeq(word, i, j)
                              ELSE <<"##">> \o SubSeq(word, i, j)
Ends(word, i) == {j \in i..Len(word) : Piece(word, i, j) \in Vocabulary}
Pieces(word) ==
  LET unknown == Len(word) + 1
      from[i \in 1..unknown] ==
        IF i = unknown THEN 0
        ELSE IF Ends(word, i) = {} THEN unknown ELSE 1 + from[Max(Ends(word, i)) + 1]
  IN IF Len(word) > MaxWord \/ from[1] > Len(word) THEN 1 ELSE from[1]

Real(text) == SumFunction([n \in BasicTokens(text) |-> Pieces(BasicToken(text, n))])

\* Tokens of the sentences from i to j; they are joined by spaces.
Sum(Count(_), i, j) == SumFunction([n \in i..j |-> Count(sentence[n])])
Tokens(i, j) == Sum(Counted, i, j)

-----------------------------------------------------------------------------
TypeOK ==
  /\ sentence \in UNION {[1..n -> Sentence] : n \in 1..MaxText}
  /\ at \in 1..(Len(sentence) + 1)
  /\ \A c \in DOMAIN chunk :
        chunk[c].first \in 1..chunk[c].last /\ chunk[c].last \in DOMAIN sentence

Init ==
  /\ sentence \in UNION {[1..n -> Sentence] : n \in 1..MaxText}
  /\ at = 1 /\ chunk = <<>>

(* Mutant: the sentence that exceeds maxTokens is still taken.              *)
IsEndBeyond(i, j) ==
  /\ \A k \in (i + 1)..j : Tokens(i, k - 1) <= MaxTokens
  /\ j < Len(sentence) => Tokens(i, j) > MaxTokens

\* The chunk that starts with sentence i ends with the last one that leaves
\* it within maxTokens; it has one sentence at least.
IsEnd(i, j) ==
  /\ \A k \in (i + 1)..j : Tokens(i, k) <= MaxTokens
  /\ j < Len(sentence) => Tokens(i, j + 1) > MaxTokens

\* After the chunk from i to j the next starts with the last sentence from
\* which overlapTokens are repeated, but always beyond i.
IsNext(i, j, k) ==
  /\ k \in (i + 1)..(j + 1)
  /\ k > i + 1 => Tokens(k, j) >= Overlap
  /\ \A l \in (k + 1)..(j + 1) : Tokens(l, j) < Overlap

NextChunk ==
  /\ at <= Len(sentence)
  /\ \E j \in at..Len(sentence) :
       /\ IsEnd(at, j)
       /\ chunk' = Append(chunk, [first |-> at, last |-> j])
       /\ IF j = Len(sentence) THEN at' = j + 1
                               ELSE \E k \in at..(j + 1) : IsNext(at, j, k) /\ at' = k
  /\ UNCHANGED sentence

\* The tokenizer stops before the [SEP] it has kept room for.
Embedded(c, s) ==
  /\ s \in c.first..c.last
  /\ Sum(Real, c.first, s) <= Window

Spec == Init /\ [][NextChunk]_vars

-----------------------------------------------------------------------------
Dense(s) == Real(sentence[s]) > Counted(sentence[s])

(* The chunks lose nothing on the way to the index: once the text is        *)
(* chunked, every sentence that fits the model's window is embedded whole,  *)
(* as part of some chunk, however the sentences before it were grouped and  *)
(* repeated - unless it, or one in front of it in its chunk, has more       *)
(* tokens than countTokens estimates, as ideographs, numbers, addresses and *)
(* code have; then the end of the chunk is silently left out.  (A sentence  *)
(* longer than the window is a chunk of its own and is cut.)                *)
EverySentenceEmbedded ==
  at > Len(sentence) =>
    \A s \in DOMAIN sentence :
      Real(sentence[s]) <= Window =>
        \E c \in DOMAIN chunk :
          /\ s \in chunk[c].first..chunk[c].last
          /\ Embedded(chunk[c], s) \/ \E d \in chunk[c].first..s : Dense(d)
=============================================================================
