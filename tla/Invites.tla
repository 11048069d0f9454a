------------------------------ MODULE Invites ------------------------------
(***************************************************************************)
(* Invitations to a project (server routes/invites.ts): a sender's         *)
(* creations, counted per hour and per day and refused while the recipient *)
(* has too many pending ones; the recipient's answers; the sweep of        *)
(* expired records.  Handlers interleave between their DynamoDB calls.     *)
(* Blocking writes a BLOCK# record that nothing reads: it is left out.     *)
(***************************************************************************)
EXTENDS Naturals, FiniteSets

CONSTANTS
  Invite,     \* bound: invitation ids ever drawn
  Person,     \* fingerprints, senders and recipients
  Slot,       \* bound: handler invocations at once
  None,
  HourlyLimit, DailyLimit, MaxPending,
  MaxCount    \* bound: creations a sender tries in an hour

VARIABLES
  invite,     \* INVITE#<id> META
  indexed,    \* ids that GSI-RecipientFingerprint shows as pending
  aged,        \* of an id: "new", "fresh", "past" its expiresAt
  hour, day,  \* RATE#INVITE#<sender> counters of the current windows
  creation,     \* invocations of POST /v1/invites
  respond     \* invocations of POST /v1/invites/{id}/accept and /decline

vars == <<invite, indexed, aged, hour, day, creation, respond>>

NoInvite == [status |-> "none", to |-> None]
NoCreate == [pc |-> "idle", from |-> None, to |-> None]
NoAnswer == [pc |-> "idle", op |-> "decline", id |-> None, answer |-> "none"]

TypeOK ==
  /\ invite \in [Invite -> [status : {"none", "pending", "accepted", "declined"},
                            to : Person \cup {None}]]
  /\ indexed \subseteq Invite
  /\ aged \in [Invite -> {"new", "fresh", "past"}]
  /\ hour \in [Person -> 0..MaxCount] /\ day \in [Person -> 0..MaxCount]
  /\ creation \in [Slot -> [pc : {"idle", "hour", "day", "pending", "put"},
                          from : Person \cup {None}, to : Person \cup {None}]]
  /\ respond \in [Slot -> [pc : {"idle", "read", "update", "answered"},
                           op : {"accept", "decline"}, id : Invite \cup {None},
                           answer : {"none", "ok", "not found", "conflict",
                                     "expired", "refused"}]]

Init ==
  /\ invite = [i \in Invite |-> NoInvite]
  /\ indexed = {}
  /\ aged = [i \in Invite |-> "new"]
  /\ hour = [p \in Person |-> 0] /\ day = [p \in Person |-> 0]
  /\ creation = [s \in Slot |-> NoCreate]
  /\ respond = [s \in Slot |-> NoAnswer]

Free(s) == creation[s].pc = "idle" /\ respond[s].pc = "idle"

-----------------------------------------------------------------------------
(* handleCreateInvite.                                                     *)

Create(s, p, r) ==
  /\ Free(s)
  /\ LET counting == {t \in Slot : creation[t].from = p
                                  /\ creation[t].pc \in {"hour", "day"}}
     IN \A count \in {hour[p], day[p]} : count + Cardinality(counting) < MaxCount
  /\ creation' = [creation EXCEPT ![s] = [pc |-> "hour", from |-> p, to |-> r]]
  /\ UNCHANGED <<invite, indexed, aged, hour, day, respond>>

(* Each counter is added to and compared in one call; a refused creation   *)
(* (429) has been counted all the same.                                    *)
CountHour(s) ==
  LET p == creation[s].from IN
  /\ creation[s].pc = "hour"
  /\ hour' = [hour EXCEPT ![p] = @ + 1]
  /\ creation' = [creation EXCEPT ![s] =
       IF hour'[p] > HourlyLimit THEN NoCreate ELSE [@ EXCEPT !.pc = "day"]]
  /\ UNCHANGED <<invite, indexed, aged, day, respond>>

CountDay(s) ==
  LET p == creation[s].from IN
  /\ creation[s].pc = "day"
  /\ day' = [day EXCEPT ![p] = @ + 1]
  /\ creation' = [creation EXCEPT ![s] =
       IF day'[p] > DailyLimit THEN NoCreate ELSE [@ EXCEPT !.pc = "pending"]]
  /\ UNCHANGED <<invite, indexed, aged, hour, respond>>

(* checkRecipientPendingCount asks an index that lags behind.              *)
CheckPending(s) ==
  /\ creation[s].pc = "pending"
  /\ creation' = [creation EXCEPT ![s] =
       IF Cardinality({i \in indexed : invite[i].to = @.to}) < MaxPending
       THEN [@ EXCEPT !.pc = "put"] ELSE NoCreate]
  /\ UNCHANGED <<invite, indexed, aged, hour, day, respond>>

PutInvite(s, i) ==
  /\ creation[s].pc = "put" /\ aged[i] = "new"
  /\ invite' = [invite EXCEPT ![i] = [status |-> "pending", to |-> creation[s].to]]
  /\ aged' = [aged EXCEPT ![i] = "fresh"]
  /\ creation' = [creation EXCEPT ![s] = NoCreate]
  /\ UNCHANGED <<indexed, hour, day, respond>>

-----------------------------------------------------------------------------
(* handleAcceptInvite and handleDeclineInvite by the recipient.            *)

Respond(s, i, op) ==
  /\ Free(s) /\ aged[i] # "new"
  /\ respond' = [respond EXCEPT ![s] = [NoAnswer EXCEPT !.pc = "read",
                                                        !.op = op, !.id = i]]
  /\ UNCHANGED <<invite, indexed, aged, hour, day, creation>>

(* Seeded fault: the expiry is read in its own unit.                       *)
PastExpiry(i) == aged[i] = "past"

(* expiresAt is written in seconds and read as milliseconds since 1970:    *)
(* every invitation is before now.                                         *)
TakenForExpired(i) == aged[i] \in {"fresh", "past"}

(* What the read finds: an answer, or "none" to go on to the update.  A    *)
(* record that a late decline brought back has no recipient to compare.    *)
Verdict(op, i) ==
  LET status == invite[i].status IN
  IF status = "none" THEN "not found"
  ELSE IF invite[i].to = None THEN "refused"
  ELSE IF op = "accept" /\ status = "accepted" THEN "ok"
  ELSE IF status # "pending" THEN "conflict"
  ELSE IF op = "accept" /\ TakenForExpired(i) THEN "expired"
  ELSE "none"

ReadInvite(s) ==
  /\ respond[s].pc = "read"
  /\ LET verdict == Verdict(respond[s].op, respond[s].id) IN
     respond' = [respond EXCEPT ![s].answer = verdict,
       ![s].pc = IF verdict = "none" THEN "update" ELSE "answered"]
  /\ UNCHANGED <<invite, indexed, aged, hour, day, creation>>

(* The update has no condition: it also brings a swept record back.        *)
UpdateInvite(s) ==
  /\ respond[s].pc = "update"
  /\ invite' = [invite EXCEPT ![respond[s].id].status =
       IF respond[s].op = "accept" THEN "accepted" ELSE "declined"]
  /\ respond' = [respond EXCEPT ![s].pc = "answered", ![s].answer = "ok"]
  /\ UNCHANGED <<indexed, aged, hour, day, creation>>

Answered(s) ==
  /\ respond[s].pc = "answered"
  /\ respond' = [respond EXCEPT ![s] = NoAnswer]
  /\ UNCHANGED <<invite, indexed, aged, hour, day, creation>>

-----------------------------------------------------------------------------
(* A Lambda that ends, the index, and time.                                *)

Die(s) ==
  /\ creation[s].pc # "idle" \/ respond[s].pc \in {"read", "update"}
  /\ creation' = [creation EXCEPT ![s] = NoCreate]
  /\ respond' = [respond EXCEPT ![s] = NoAnswer]
  /\ UNCHANGED <<invite, indexed, aged, hour, day>>

Pending == {i \in Invite : invite[i].status = "pending"}

Index(i) ==
  /\ (i \in indexed) # (i \in Pending)
  /\ indexed' = IF i \in indexed THEN indexed \ {i} ELSE indexed \cup {i}
  /\ UNCHANGED <<invite, aged, hour, day, creation, respond>>

Expire(i) ==
  /\ aged[i] = "fresh"
  /\ aged' = [aged EXCEPT ![i] = "past"]
  /\ UNCHANGED <<invite, indexed, hour, day, creation, respond>>

Sweep(i) ==
  /\ aged[i] = "past" /\ invite[i].status # "none" /\ invite[i].to # None
  /\ invite' = [invite EXCEPT ![i] = NoInvite]
  /\ UNCHANGED <<indexed, aged, hour, day, creation, respond>>

HourPasses(p) ==
  /\ hour' = [hour EXCEPT ![p] = 0]
  /\ UNCHANGED <<invite, indexed, aged, day, creation, respond>>

DayPasses(p) ==
  /\ hour' = [hour EXCEPT ![p] = 0] /\ day' = [day EXCEPT ![p] = 0]
  /\ UNCHANGED <<invite, indexed, aged, creation, respond>>

Next ==
  \/ \E s \in Slot :
       \/ \E p, r \in Person : Create(s, p, r)
       \/ CountHour(s) \/ CountDay(s) \/ CheckPending(s)
       \/ \E i \in Invite : PutInvite(s, i)
       \/ \E i \in Invite, op \in {"accept", "decline"} : Respond(s, i, op)
       \/ ReadInvite(s) \/ UpdateInvite(s) \/ Answered(s) \/ Die(s)
  \/ \E i \in Invite : Index(i) \/ Expire(i) \/ Sweep(i)
  \/ \E p \in Person : HourPasses(p) \/ DayPasses(p)

Spec == Init /\ [][Next]_vars

-----------------------------------------------------------------------------
(* Properties.                                                             *)

(* A declined invitation is never pending or accepted again, although both *)
(* answers read first and write later without a condition.                 *)
DeclineIsFinal ==
  [][\A i \in Invite : invite[i].status = "declined"
       => invite'[i].status \in {"declined", "none"}]_vars
=============================================================================
