----------------------------- MODULE ReplayGuard -----------------------------
(***************************************************************************)
(* Replay protection of signed requests: the client's sequence counter     *)
(* (src/storage/sync-sequence-repo.ts), the HTTP client that numbers,      *)
(* signs, sends and once retries a request (src/sync/http-client.ts) and   *)
(* the server's authenticateRequest (server/.../middleware/ssh-auth.ts).   *)
(*                                                                         *)
(* All callers use one SSH key.  Callers of one machine share its counter; *)
(* machines to which the same key was copied do not.  The network delays,  *)
(* reorders, loses and repeats requests, and loses answers.                *)
(***************************************************************************)
EXTENDS Naturals, Sequences

CONSTANTS
  Machine,    \* installations with a counter of their own
  Caller,     \* flows that await one request at a time
  Home,       \* Home[c]: the machine caller c runs on
  Target,     \* request targets in use: a "path", or a path with a "query"
  Bump,       \* numbers skipped after a replay answer, 100
  UsedSeq,    \* highestSeq left by a former installation with this key
  MaxCalls,   \* bound: MaxCalls[c] calls of caller c
  MaxRepeats  \* bound: requests the network delivers once more

ASSUME ReplayGuardAssumption ==
  /\ Home \in [Caller -> Machine]
  /\ Target \subseteq {"path", "query"}
  /\ Bump \in Nat /\ UsedSeq \in Nat
  /\ MaxCalls \in [Caller -> Nat] /\ MaxRepeats \in Nat

VARIABLES
  counter,    \* sync_sequence.value of each machine
  call,       \* what each caller is doing
  wire,       \* requests under way
  highest,    \* SEQUENCE#<fingerprint>.highestSeq, 0 when there is no record
  admitted,   \* history: the requests handed to a handler, in order
  behind,     \* history: how far the counter was behind as the call began
  overtaken,  \* history: another caller was admitted during the call
  repeats

vars == <<counter, call, wire, highest, admitted, behind, overtaken, repeats>>

Request == [from : Caller, call : Nat, retry : BOOLEAN, seq : Nat,
            target : Target]

Verdicts == {"ok", "replay", "invalid", "expired"}

Call == [phase : {"idle", "waiting", "answered", "bumping"},
         call : Nat, retry : BOOLEAN, seq : Nat, target : Target,
         left : Nat, answer : Verdicts \cup {"none"}]

TypeOK ==
  /\ counter \in [Machine -> Nat]
  /\ call \in [Caller -> Call]
  /\ wire \subseteq Request
  /\ highest \in Nat
  /\ admitted \in Seq(Request)
  /\ behind \in [Caller -> Nat]
  /\ overtaken \in [Caller -> BOOLEAN]
  /\ repeats \in 0..MaxRepeats
  /\ \A c \in Caller : call[c].seq <= counter[Home[c]]

Init ==
  /\ counter = [m \in Machine |-> 0]
  /\ call \in [Caller -> {[phase |-> "idle", call |-> 0, retry |-> FALSE,
                           seq |-> 0, target |-> t, left |-> 0,
                           answer |-> "none"] : t \in Target}]
  /\ wire = {}
  /\ highest = UsedSeq
  /\ admitted = <<>>
  /\ behind = [c \in Caller |-> 0]
  /\ overtaken = [c \in Caller |-> FALSE]
  /\ repeats = 0

-----------------------------------------------------------------------------
(* The client.                                                             *)

(* SyncSequenceRepository.next: one UPDATE ... RETURNING.                  *)
NextNumber(c) == counter[Home[c]] + 1

(* Seeded fault: the new value is not written.                             *)
TakeUnsaved(c) == counter' = counter

Take(c) == counter' = [counter EXCEPT ![Home[c]] = NextNumber(c)]

(* Number, sign and send.  Between next() and fetch the client awaits the  *)
(* signer; the delay is part of the request's time on the wire.            *)
Send(c, n, again, t) ==
  /\ Take(c)
  /\ wire' = wire \cup {[from |-> c, call |-> n, retry |-> again,
                         seq |-> NextNumber(c), target |-> t]}
  /\ call' = [call EXCEPT ![c] =
                [phase |-> "waiting", call |-> n, retry |-> again,
                 seq |-> NextNumber(c), target |-> t, left |-> 0,
                 answer |-> "none"]]

StartCall(c, t) ==
  /\ call[c].phase = "idle" /\ call[c].call < MaxCalls[c]
  /\ Send(c, call[c].call + 1, FALSE, t)
  /\ behind' = [behind EXCEPT ![c] =
       IF highest > counter[Home[c]] THEN highest - counter[Home[c]] ELSE 0]
  /\ overtaken' = [overtaken EXCEPT ![c] = FALSE]
  /\ UNCHANGED <<highest, admitted, repeats>>

(* Seeded fault: one number short.                                         *)
SkippedShort == IF Bump > 0 THEN Bump - 1 ELSE 0

Skipped == Bump

(* The answer arrives.  Only a replay answer to the first attempt leads to *)
(* a retry; every other answer, good or bad, ends the call.                *)
Receive(c) ==
  /\ call[c].phase = "answered"
  /\ call' = [call EXCEPT ![c] =
       IF @.answer = "replay" /\ ~@.retry
       THEN [@ EXCEPT !.phase = "bumping", !.left = Skipped]
       ELSE [@ EXCEPT !.phase = "idle"]]
  /\ UNCHANGED <<counter, wire, highest, admitted, behind, overtaken, repeats>>

(* for (let i = 0; i < 100; i++) this.sequence.next(): other processes of  *)
(* the machine take numbers in between.                                    *)
SkipNumber(c) ==
  /\ call[c].phase = "bumping" /\ call[c].left > 0
  /\ Take(c)
  /\ call' = [call EXCEPT ![c].left = @ - 1]
  /\ UNCHANGED <<wire, highest, admitted, behind, overtaken, repeats>>

Retry(c) ==
  /\ call[c].phase = "bumping" /\ call[c].left = 0
  /\ Send(c, call[c].call, TRUE, call[c].target)
  /\ UNCHANGED <<highest, admitted, behind, overtaken, repeats>>

(* Seeded fault: a request that timed out is sent again within the call.   *)
TimeoutRetries(c) ==
  /\ call[c].phase = "waiting"
  /\ IF call[c].retry
     THEN /\ call' = [call EXCEPT ![c].phase = "idle"]
          /\ UNCHANGED <<counter, wire>>
     ELSE Send(c, call[c].call, TRUE, call[c].target)
  /\ UNCHANGED <<highest, admitted, behind, overtaken, repeats>>

(* The 30 s timer aborts the fetch, or the network fails: request throws.  *)
(* The request itself may still be on its way to the server.               *)
Timeout(c) ==
  /\ call[c].phase = "waiting"
  /\ call' = [call EXCEPT ![c].phase = "idle"]
  /\ UNCHANGED <<counter, wire, highest, admitted, behind, overtaken, repeats>>

-----------------------------------------------------------------------------
(* The server.                                                             *)

(* The client signs the target it was given; the server verifies over      *)
(* requestContext.http.path, which has no query.                           *)
SignedTarget(r)   == r.target
VerifiedTarget(r) == "path"

(* Seeded fault: only the very last number is refused.                     *)
NewNumberUnequal(r) == r.seq # highest

(* ConditionExpression of checkSequence.                                   *)
NewNumber(r) == highest < r.seq

(* authenticateRequest, in its order; the number is used up only by a      *)
(* request that passed everything before.                                  *)
Verdict(r, fresh) ==
  IF ~fresh THEN "expired"
  ELSE IF SignedTarget(r) # VerifiedTarget(r) THEN "invalid"
  ELSE IF NewNumber(r) THEN "ok" ELSE "replay"

Admit(r) ==
  /\ highest' = r.seq
  /\ admitted' = Append(admitted, r)
  /\ overtaken' = [c \in Caller |-> overtaken[c] \/ c # r.from]

Awaits(r) == call[r.from].phase = "waiting" /\ call[r.from].seq = r.seq

(* Seeded fault: the handler runs before the number is looked at.          *)
DeliverThenCheck(r) ==
  \E fresh \in BOOLEAN :
    LET v == Verdict(r, fresh) IN
    /\ IF v = "ok" THEN Admit(r)
       ELSE /\ admitted' = IF v = "replay" THEN Append(admitted, r) ELSE admitted
            /\ UNCHANGED <<highest, overtaken>>
    /\ call' = IF ~Awaits(r) THEN call
               ELSE [call EXCEPT ![r.from].phase = "answered",
                                 ![r.from].answer = v]
    /\ wire' = wire \ {r}
    /\ UNCHANGED <<counter, behind, repeats>>

(* A request reaches the server, within the timestamp tolerance or not;    *)
(* its answer reaches the caller if it still waits, or is lost; the        *)
(* network may keep a copy.  A lost request is one never delivered.        *)
Deliver(r) ==
  \E fresh, lost, copied \in BOOLEAN :
    LET v == Verdict(r, fresh) IN
    /\ IF v = "ok" THEN Admit(r) ELSE UNCHANGED <<highest, admitted, overtaken>>
    /\ call' = IF lost \/ ~Awaits(r) THEN call
               ELSE [call EXCEPT ![r.from].phase = "answered",
                                 ![r.from].answer = v]
    /\ copied => repeats < MaxRepeats
    /\ wire' = IF copied THEN wire ELSE wire \ {r}
    /\ repeats' = IF copied THEN repeats + 1 ELSE repeats
    /\ UNCHANGED <<counter, behind>>

Next ==
  \/ \E c \in Caller : \/ \E t \in Target : StartCall(c, t)
                       \/ Receive(c) \/ SkipNumber(c) \/ Retry(c) \/ Timeout(c)
  \/ \E r \in wire : Deliver(r)

Spec == Init /\ [][Next]_vars

-----------------------------------------------------------------------------
(* Properties.                                                             *)

Attempt(r) == 2 * r.call + (IF r.retry THEN 1 ELSE 0)

(* What a caller gave up on cannot take effect after what it did next: of  *)
(* two requests of one caller the server admits the earlier one first, or  *)
(* not at all, and none twice, however the network delays and repeats      *)
(* them.  The sync queue relies on it (a late PUT, then a DELETE).         *)
AdmittedInProgramOrder ==
  \A i, j \in DOMAIN admitted :
    i < j /\ admitted[i].from = admitted[j].from
      => Attempt(admitted[i]) < Attempt(admitted[j])

(* One call of the HTTP client is one execution at most: the retry after a *)
(* replay answer never repeats what was done, as long as the network does  *)
(* not repeat a request by itself.                                         *)
OncePerCall == repeats = 0 =>
  \A i, j \in DOMAIN admitted :
    admitted[i].from = admitted[j].from /\ admitted[i].call = admitted[j].call
      => i = j

(* A call refused for its number, retry included, has had no effect: the   *)
(* caller may safely repeat it, unless the network repeated something.     *)
RefusedHadNoEffect == repeats = 0 =>
  \A c \in Caller :
    call[c].phase = "idle" /\ call[c].answer = "replay" =>
      \A i \in DOMAIN admitted :
        ~(admitted[i].from = c /\ admitted[i].call = call[c].call)

(* One retry is enough to get past highestSeq, unless another caller was   *)
(* admitted meanwhile or the counter was more than Bump + 1 behind.        *)
OneRetryIsEnough == repeats = 0 =>
  \A c \in Caller :
    call[c].phase = "idle" /\ call[c].answer = "replay" /\ ~overtaken[c]
      => behind[c] > Bump + 1
=============================================================================
