----------------------------- MODULE DeviceLink -----------------------------
(***************************************************************************)
(* Linking a new device by code: the command `devices add` and the tool    *)
(* device_link_start on the existing device, the confirmation from a new   *)
(* device, and the server's handlers (routes/devices.ts,                   *)
(* routes/wrapped-key.ts).  A handler makes one DynamoDB call per step and *)
(* may die between two; DynamoDB sweeps expired records one by one.        *)
(***************************************************************************)
EXTENDS Naturals

CONSTANTS
  Code,       \* bound: link codes ever generated
  Owner,      \* the device that is registered
  Newcomer,   \* devices to link
  Slot,       \* bound: confirmations handled at once
  None

Party == {Owner} \cup Newcomer

VARIABLES
  link,     \* TENANT#/LINK#<hash> by code
  lookup,   \* codes with a LINK_CODE#<hash> record
  age,      \* of a code: "fresh", "expired" after 5 min, "swept" after 10
  create,   \* the invocation of POST /v1/link-code for a code
  add,      \* the command that generated a code
  confirm,  \* invocations of POST /v1/link-confirm
  wrapped   \* WRAPPED_KEY#<device>: the device the stored envelope is for

vars == <<link, lookup, age, create, add, confirm, wrapped>>

NoLink == [there |-> FALSE, dated |-> FALSE, key |-> None]
NoConfirm == [pc |-> "idle", code |-> None, key |-> None]

TypeOK ==
  /\ link \in [Code -> [there : BOOLEAN, dated : BOOLEAN, key : Newcomer \cup {None}]]
  /\ lookup \subseteq Code
  /\ age \in [Code -> {"new", "fresh", "expired", "swept"}]
  /\ create \in [Code -> {"none", "link", "lookup", "created", "dead"}]
  /\ add \in [Code -> [pc : {"none", "sent", "polling", "wrapping", "linked", "over"},
                       key : Newcomer \cup {None}]]
  /\ confirm \in [Slot -> [pc : {"idle", "lookup", "link", "put"},
                           code : Code \cup {None}, key : Newcomer \cup {None}]]
  /\ wrapped \in [Party -> Party \cup {None}]

Init ==
  /\ link = [c \in Code |-> NoLink]
  /\ lookup = {}
  /\ age = [c \in Code |-> "new"]
  /\ create = [c \in Code |-> "none"]
  /\ add = [c \in Code |-> [pc |-> "none", key |-> None]]
  /\ confirm = [s \in Slot |-> NoConfirm]
  /\ wrapped = [d \in Party |-> IF d = Owner THEN Owner ELSE None]

-----------------------------------------------------------------------------
(* The existing device.                                                    *)

(* A new code; its hash goes to POST /v1/link-code.                        *)
GenerateLinkCode(c) ==
  /\ add[c].pc = "none"
  /\ add' = [add EXCEPT ![c].pc = "sent"]
  /\ create' = [create EXCEPT ![c] = "link"]
  /\ UNCHANGED <<link, lookup, age, confirm, wrapped>>

(* 201: `devices add` shows the code and polls; the tool only shows it.    *)
ShowCode(c) ==
  /\ add[c].pc = "sent" /\ create[c] = "created"
  /\ add' = [add EXCEPT ![c].pc = "polling"]
  /\ UNCHANGED <<link, lookup, age, create, confirm, wrapped>>

(* handleGetLinkCodeStatus: a key that is there is ready, however old the  *)
(* code; 404 and "waiting" mean another poll.                              *)
Poll(c) ==
  /\ add[c].pc = "polling"
  /\ link[c].there /\ link[c].key # None
  /\ add' = [add EXCEPT ![c] = [pc |-> "wrapping", key |-> link[c].key]]
  /\ UNCHANGED <<link, lookup, age, create, confirm, wrapped>>

(* Five minutes without a key, a failed request, or the tool's return.     *)
Leave(c) ==
  /\ add[c].pc \in {"sent", "polling", "wrapping"}
  /\ add' = [add EXCEPT ![c].pc = "over"]
  /\ UNCHANGED <<link, lookup, age, create, confirm, wrapped>>

(* The envelope for the new device goes to PUT /v1/wrapped-key, which      *)
(* stores it under the fingerprint of the caller.                          *)
UploadEnvelope(c) ==
  /\ add[c].pc = "wrapping"
  /\ wrapped' = [wrapped EXCEPT ![Owner] = add[c].key]
  /\ add' = [add EXCEPT ![c].pc = "linked"]
  /\ UNCHANGED <<link, lookup, age, create, confirm>>

(* handleDeleteDevice; KEY# records are never written, so only the         *)
(* envelope goes.                                                          *)
DeleteDevice(d) ==
  /\ wrapped' = [wrapped EXCEPT ![d] = None]
  /\ UNCHANGED <<link, lookup, age, create, add, confirm>>

-----------------------------------------------------------------------------
(* handleCreateLinkCodeFull: the link first, then the way to find it.      *)

PutLink(c) ==
  /\ create[c] = "link"
  /\ link' = [link EXCEPT ![c] = [there |-> TRUE, dated |-> TRUE, key |-> None]]
  /\ age' = [age EXCEPT ![c] = "fresh"]
  /\ create' = [create EXCEPT ![c] = "lookup"]
  /\ UNCHANGED <<lookup, add, confirm, wrapped>>

PutLookup(c) ==
  /\ create[c] = "lookup"
  /\ lookup' = lookup \cup {c}
  /\ create' = [create EXCEPT ![c] = "created"]
  /\ UNCHANGED <<link, age, add, confirm, wrapped>>

CreateDies(c) ==
  /\ create[c] \in {"link", "lookup"}
  /\ create' = [create EXCEPT ![c] = "dead"]
  /\ UNCHANGED <<link, lookup, age, add, confirm, wrapped>>

-----------------------------------------------------------------------------
(* handleLinkConfirm.  failureCount is compared with 3 and never counted.  *)

(* A new device has read the code off the other screen.                    *)
LinkConfirm(s, c, k) ==
  /\ confirm[s].pc = "idle" /\ add[c].pc \notin {"none", "sent"}
  /\ create[c] = "created"
  /\ confirm' = [confirm EXCEPT ![s] = [pc |-> "lookup", code |-> c, key |-> k]]
  /\ UNCHANGED <<link, lookup, age, create, add, wrapped>>

(* 404 without a lookup record.                                            *)
FindLookup(s) ==
  /\ confirm[s].pc = "lookup"
  /\ confirm' = [confirm EXCEPT ![s] =
       IF @.code \in lookup THEN [@ EXCEPT !.pc = "link"] ELSE NoConfirm]
  /\ UNCHANGED <<link, lookup, age, create, add, wrapped>>

(* 404 without a link, 410 when it has expired.                            *)
ReadLink(s) ==
  /\ confirm[s].pc = "link"
  /\ confirm' = [confirm EXCEPT ![s] =
       IF link[@.code].there /\ age[@.code] = "fresh"
       THEN [@ EXCEPT !.pc = "put"] ELSE NoConfirm]
  /\ UNCHANGED <<link, lookup, age, create, add, wrapped>>

(* Seeded fault: the update without attribute_exists(PK).                  *)
SetNewKey(s) ==
  /\ confirm[s].pc = "put"
  /\ link' = [link EXCEPT ![confirm[s].code] =
       [@ EXCEPT !.there = TRUE, !.key = confirm[s].key]]
  /\ confirm' = [confirm EXCEPT ![s] = NoConfirm]
  /\ UNCHANGED <<lookup, age, create, add, wrapped>>

(* The conditional update; a key of an earlier confirmation is replaced.   *)
PutNewKey(s) ==
  /\ confirm[s].pc = "put"
  /\ link' = [link EXCEPT ![confirm[s].code] =
       IF @.there THEN [@ EXCEPT !.key = confirm[s].key] ELSE @]
  /\ confirm' = [confirm EXCEPT ![s] = NoConfirm]
  /\ UNCHANGED <<lookup, age, create, add, wrapped>>

-----------------------------------------------------------------------------
(* Time.                                                                   *)

Grow(c) ==
  /\ age[c] \in {"fresh", "expired"}
  /\ age' = [age EXCEPT ![c] = IF @ = "fresh" THEN "expired" ELSE "swept"]
  /\ UNCHANGED <<link, lookup, create, add, confirm, wrapped>>

(* The TTL of ten minutes has passed: each record goes when its turn comes. *)
Sweep(c) ==
  /\ age[c] = "swept"
  /\ \/ link[c].dated /\ link' = [link EXCEPT ![c] = NoLink] /\ UNCHANGED lookup
     \/ c \in lookup /\ lookup' = lookup \ {c} /\ UNCHANGED link
  /\ UNCHANGED <<age, create, add, confirm, wrapped>>

Next ==
  \/ \E c \in Code :
       \/ GenerateLinkCode(c) \/ ShowCode(c) \/ Poll(c) \/ Leave(c)
       \/ UploadEnvelope(c) \/ PutLink(c) \/ PutLookup(c) \/ CreateDies(c)
       \/ Grow(c) \/ Sweep(c)
       \/ \E s \in Slot, k \in Newcomer : LinkConfirm(s, c, k)
  \/ \E d \in Party : DeleteDevice(d)
  \/ \E s \in Slot : FindLookup(s) \/ ReadLink(s) \/ PutNewKey(s)

Spec == Init /\ [][Next]_vars

-----------------------------------------------------------------------------
(* Properties.                                                             *)

(* "ensures both the tenant-scoped LINK# record and the top-level          *)
(* LINK_CODE# lookup record are created" (devices.ts:257): until the       *)
(* sweeper comes, a code that can be looked up has its link, whichever     *)
(* invocation died in between; and a confirmation that the sweeper has     *)
(* overtaken leaves no record that has no expiry and would stay for good.  *)
LinkRecordsWhole ==
  /\ \A c \in lookup : age[c] # "swept" => link[c].there
  /\ \A c \in Code : link[c].there => link[c].dated
=============================================================================
