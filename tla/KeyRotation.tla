----------------------------- MODULE KeyRotation -----------------------------
(***************************************************************************)
(* Key rotation on the server (server/lib/handler/routes/rotation.ts) and  *)
(* the lookup that decides which keys are accepted meanwhile               *)
(* (middleware/ssh-auth.ts), for one tenant.  rotate-start writes four     *)
(* records and completeRotation changes four, one DynamoDB call each;      *)
(* invocations interleave between the calls and may die there.             *)
(*                                                                         *)
(* A tenant's id is a hash of the key it registered with, so the tenant is *)
(* found directly only by FirstKey; other keys need a KEY_ALIAS record.    *)
(***************************************************************************)
EXTENDS Naturals, FiniteSets

CONSTANTS
  Key,         \* SSH public keys
  FirstKey,    \* the key the tenant was registered with
  NoKey,       \* no value
  Confirmer,   \* keys with which rotate-confirm is called
  Slot,        \* invocations that may run at once
  Overlap,     \* whether a rotate-start may run beside another one or a confirmation
  MaxCalls,    \* bound: requests of each kind
  MaxAborts    \* bound: invocations that die half-way

ASSUME KeyRotationAssumption ==
  /\ FirstKey \in Key /\ NoKey \notin Key /\ Confirmer \subseteq Key
  /\ Overlap \in BOOLEAN
  /\ MaxCalls \in [{"start", "confirm", "store"} -> Nat] /\ MaxAborts \in Nat

VARIABLES
  publicKey,     \* META.publicKey
  newPublicKey,  \* META.newPublicKey; set while rotationState is started
  rotation,      \* the ROTATION record
  alias,         \* keys with a KEY_ALIAS record that names this tenant
  wrapped,       \* keys with a WRAPPED_KEY# record: the master key for them
  req,           \* what each invocation is doing
  calls,         \* requests so far, of each kind
  aborts

vars == <<publicKey, newPublicKey, rotation, alias, wrapped, req, calls, aborts>>

(* late: more than 48 hours have passed since startedAt.  A record written *)
(* by a confirmation alone has neither keys nor startedAt.                 *)
Rotation == [there : BOOLEAN, newKey : Key \cup {NoKey}, oldKey : Key \cup {NoKey},
             confirmations : SUBSET Key, late : BOOLEAN]

NoRotation == [there |-> FALSE, newKey |-> NoKey, oldKey |-> NoKey,
               confirmations |-> {}, late |-> FALSE]

Step == {"idle", "start", "put rotation", "set meta", "put wrapped", "put alias",
         "confirm", "record", "count", "swap key", "drop wrapped",
         "drop rotation", "drop alias", "store"}

Starting == {"start", "put rotation", "set meta", "put wrapped", "put alias"}

Idle == [pc |-> "idle", by |-> NoKey, newKey |-> NoKey, seen |-> NoRotation]

TypeOK ==
  /\ publicKey \in Key /\ newPublicKey \in Key \cup {NoKey}
  /\ rotation \in Rotation
  /\ alias \subseteq Key /\ wrapped \subseteq Key
  /\ req \in [Slot -> [pc : Step, by : Key \cup {NoKey}, newKey : Key \cup {NoKey},
                       seen : Rotation]]
  /\ calls \in [{"start", "confirm", "store"} -> Nat]
  /\ aborts \in 0..MaxAborts

(* Registration stored the tenant; the upload of its wrapped key followed, *)
(* or failed (bootstrap.ts:530 does not look at the answer).               *)
Init ==
  /\ publicKey = FirstKey /\ newPublicKey = NoKey
  /\ rotation = NoRotation
  /\ alias = {}
  /\ wrapped \in {{}, {FirstKey}}
  /\ req = [h \in Slot |-> Idle]
  /\ calls = [c \in {"start", "confirm", "store"} |-> 0]
  /\ aborts = 0

-----------------------------------------------------------------------------
(* authenticateRequest, the lookup of the key.                             *)

(* Seeded fault: the pending key is accepted before its alias exists.      *)
AcceptedAtOnce(k) == publicKey = k \/ newPublicKey = k

Accepted(k) ==
  IF k = FirstKey THEN publicKey = k \/ newPublicKey = k
  ELSE k \in alias /\ newPublicKey = k

(* A request of key k is accepted and its handler begins.                  *)
Arrive(h, kind, k, newKey) ==
  /\ req[h].pc = "idle" /\ calls[kind] < MaxCalls[kind]
  /\ Accepted(k)
  /\ req' = [req EXCEPT ![h] = [Idle EXCEPT !.pc = kind, !.by = k, !.newKey = newKey]]
  /\ calls' = [calls EXCEPT ![kind] = @ + 1]
  /\ UNCHANGED <<publicKey, newPublicKey, rotation, alias, wrapped, aborts>>

(* The command refuses to rotate to the key in use (rotate-key.ts:63).     *)
RotateStart(h, k, n) ==
  /\ n \notin {k, FirstKey}
  /\ Overlap \/ \A g \in Slot : req[g].pc \in {"idle", "store"}
  /\ Arrive(h, "start", k, n)

RotateConfirm(h, k) ==
  /\ k \in Confirmer
  /\ Overlap \/ \A g \in Slot : req[g].pc \notin Starting
  /\ Arrive(h, "confirm", k, NoKey)

PutWrappedKey(h, k) == Arrive(h, "store", k, NoKey)

Goto(h, step) == req' = [req EXCEPT ![h].pc = step]
End(h)        == req' = [req EXCEPT ![h] = Idle]

StoreWrapped(h) ==
  /\ req[h].pc = "store"
  /\ wrapped' = wrapped \cup {req[h].by}
  /\ End(h)
  /\ UNCHANGED <<publicKey, newPublicKey, rotation, alias, calls, aborts>>

-----------------------------------------------------------------------------
(* handleRotateStart.                                                      *)

CheckRotation(h) ==
  /\ req[h].pc = "start"
  /\ IF rotation.there THEN End(h) ELSE Goto(h, "put rotation")
  /\ UNCHANGED <<publicKey, newPublicKey, rotation, alias, wrapped, calls, aborts>>

PutRotation(h) ==
  /\ req[h].pc = "put rotation"
  /\ rotation' = [there |-> TRUE, newKey |-> req[h].newKey, oldKey |-> req[h].by,
                  confirmations |-> {}, late |-> FALSE]
  /\ Goto(h, "set meta")
  /\ UNCHANGED <<publicKey, newPublicKey, alias, wrapped, calls, aborts>>

(* Seeded fault: the alias is written before the wrapped key.              *)
SetMetaAndAlias(h) ==
  /\ req[h].pc = "set meta"
  /\ newPublicKey' = req[h].newKey
  /\ alias' = alias \cup {req[h].newKey}
  /\ Goto(h, "put wrapped")
  /\ UNCHANGED <<publicKey, rotation, wrapped, calls, aborts>>

SetMeta(h) ==
  /\ req[h].pc = "set meta"
  /\ newPublicKey' = req[h].newKey
  /\ Goto(h, "put wrapped")
  /\ UNCHANGED <<publicKey, rotation, alias, wrapped, calls, aborts>>

PutWrapped(h) ==
  /\ req[h].pc = "put wrapped"
  /\ wrapped' = wrapped \cup {req[h].newKey}
  /\ Goto(h, "put alias")
  /\ UNCHANGED <<publicKey, newPublicKey, rotation, alias, calls, aborts>>

PutAlias(h) ==
  /\ req[h].pc = "put alias"
  /\ alias' = alias \cup {req[h].newKey}
  /\ End(h)
  /\ UNCHANGED <<publicKey, newPublicKey, rotation, wrapped, calls, aborts>>

-----------------------------------------------------------------------------
(* handleRotateConfirm and completeRotation.                               *)

ReadRotation(h) ==
  LET confirmed == [rotation EXCEPT !.confirmations = @ \cup {req[h].by}] IN
  /\ req[h].pc = "confirm"
  /\ IF ~rotation.there THEN End(h)
     ELSE req' = [req EXCEPT
            ![h].seen = confirmed,
            ![h].pc = IF req[h].by \in rotation.confirmations THEN "count" ELSE "record"]
  /\ UNCHANGED <<publicKey, newPublicKey, rotation, alias, wrapped, calls, aborts>>

(* The list as read is written back: a confirmation recorded in between is *)
(* lost, and a record deleted in between comes back without its keys.      *)
RecordConfirmation(h) ==
  /\ req[h].pc = "record"
  /\ rotation' = [rotation EXCEPT !.there = TRUE,
                                  !.confirmations = req[h].seen.confirmations]
  /\ Goto(h, "count")
  /\ UNCHANGED <<publicKey, newPublicKey, alias, wrapped, calls, aborts>>

(* Seeded fault: one confirmation is enough.                               *)
OneConfirmed(seen) == seen.confirmations # {}

Confirmed(seen) == Cardinality(seen.confirmations) >= Cardinality(wrapped)

CountDevices(h) ==
  /\ req[h].pc = "count"
  /\ IF Confirmed(req[h].seen) \/ req[h].seen.late THEN Goto(h, "swap key") ELSE End(h)
  /\ UNCHANGED <<publicKey, newPublicKey, rotation, alias, wrapped, calls, aborts>>

(* Without a new key in the record the UpdateItem fails.                   *)
SwapKey(h) ==
  /\ req[h].pc = "swap key"
  /\ IF req[h].seen.newKey = NoKey
     THEN End(h) /\ UNCHANGED <<publicKey, newPublicKey>>
     ELSE /\ publicKey' = req[h].seen.newKey
          /\ newPublicKey' = NoKey
          /\ Goto(h, "drop wrapped")
  /\ UNCHANGED <<rotation, alias, wrapped, calls, aborts>>

DropWrapped(h) ==
  /\ req[h].pc = "drop wrapped"
  /\ wrapped' = wrapped \ {req[h].seen.oldKey}
  /\ Goto(h, "drop rotation")
  /\ UNCHANGED <<publicKey, newPublicKey, rotation, alias, calls, aborts>>

DropRotation(h) ==
  /\ req[h].pc = "drop rotation"
  /\ rotation' = NoRotation
  /\ Goto(h, "drop alias")
  /\ UNCHANGED <<publicKey, newPublicKey, alias, wrapped, calls, aborts>>

DropAlias(h) ==
  /\ req[h].pc = "drop alias"
  /\ alias' = alias \ {req[h].seen.newKey}
  /\ End(h)
  /\ UNCHANGED <<publicKey, newPublicKey, rotation, wrapped, calls, aborts>>

-----------------------------------------------------------------------------
(* An invocation dies between two calls; 48 hours pass.                    *)
Abort(h) ==
  /\ req[h].pc # "idle" /\ aborts < MaxAborts
  /\ End(h)
  /\ aborts' = aborts + 1
  /\ UNCHANGED <<publicKey, newPublicKey, rotation, alias, wrapped, calls>>

TwoDaysPass ==
  /\ \A h \in Slot : req[h].pc = "idle"
  /\ rotation.there /\ rotation.newKey # NoKey
  /\ rotation' = [rotation EXCEPT !.late = TRUE]
  /\ UNCHANGED <<publicKey, newPublicKey, alias, wrapped, req, calls, aborts>>

Next ==
  \/ \E h \in Slot :
       \/ \E k \in Key : \/ \E n \in Key : RotateStart(h, k, n)
                         \/ RotateConfirm(h, k) \/ PutWrappedKey(h, k)
       \/ StoreWrapped(h)
       \/ CheckRotation(h) \/ PutRotation(h) \/ SetMeta(h) \/ PutWrapped(h) \/ PutAlias(h)
       \/ ReadRotation(h) \/ RecordConfirmation(h) \/ CountDevices(h)
       \/ SwapKey(h) \/ DropWrapped(h) \/ DropRotation(h) \/ DropAlias(h)
       \/ Abort(h)
  \/ TwoDaysPass

Spec == Init /\ [][Next]_vars

-----------------------------------------------------------------------------
(* Properties.                                                             *)

(* The tenant's primary key is replaced only by one that confirmed, while  *)
(* the master key is stored for it.                                        *)
OnlyConfirmedKeysTakeOver ==
  [][publicKey' # publicKey =>
       /\ publicKey' \in wrapped
       /\ \E h \in Slot : publicKey' \in req[h].seen.confirmations]_vars

(* "When all registered devices have confirmed (or the 48h timeout has     *)
(* elapsed)" (rotation.ts:196): comparing the numbers of confirmations and *)
(* wrapped keys, as the code does, compares the devices, also when the     *)
(* list of confirmations was written back late.                            *)
CompletesWhenAllConfirmed ==
  [][\A h \in Slot :
       req[h].pc = "count" /\ req'[h].pc = "swap key" =>
         wrapped \subseteq req[h].seen.confirmations \/ req[h].seen.late]_vars

(* The wrapped master key is never lost: once stored on the server for     *)
(* some key it always is for one, and whoever is let in with a new key     *)
(* finds it wrapped for that key, at whatever point rotate-start and the   *)
(* completion were interrupted.                                            *)
MasterKeyKept ==
  [][/\ wrapped # {} => wrapped' # {}
     /\ \A k \in Key \ {FirstKey} : Accepted(k)' => k \in wrapped']_vars

(* "completes the rotation by removing the old key" (rotation.ts:197):     *)
(* some key always gets in.                                                *)
SomeKeyAccepted == \E k \in Key : Accepted(k)
=============================================================================
