--------------------------- MODULE AccountsProofs ---------------------------
(***************************************************************************)
(* Theorems about the machines MCAccounts puts together: key rotation,     *)
(* registration, device links and invitations, for every set of keys,      *)
(* devices, names, codes, persons and invocations and every bound on what  *)
(* users do and on the invocations that die half-way.                      *)
(***************************************************************************)
EXTENDS MCAccounts, FiniteSetTheorems, TLAPS

(***************************************************************************)
(* Key rotation.                                                           *)
(***************************************************************************)

Request == [pc : Step, by : Key \cup {NoKey}, newKey : Key \cup {NoKey}, seen : Rotation]

(***************************************************************************)
(* Type correctness.                                                       *)
(***************************************************************************)

LEMMA RecordTypes == NoRotation \in Rotation /\ Idle \in Request
BY DEF NoRotation, Rotation, Idle, Request, Step

(* The update of a request that reads the record, field by field.          *)
LEMMA ReadingIsRecord ==
  ASSUME NEW r \in Request, NEW p, NEW s, NEW x,
         x = [[r EXCEPT !.seen = s] EXCEPT !.pc = p]
  PROVE  x = [pc |-> p, by |-> r.by, newKey |-> r.newKey, seen |-> s]
BY DEF Request

(* What Goto and End do to the invocations.                                *)
LEMMA GotoReq ==
  ASSUME TypeOK, NEW h \in Slot, NEW step \in Step, Goto(h, step)
  PROVE  /\ req' \in [Slot -> Request]
         /\ req'[h].pc = step
         /\ req'[h].by = req[h].by /\ req'[h].newKey = req[h].newKey
         /\ req'[h].seen = req[h].seen
         /\ \A g \in Slot : g # h => req'[g] = req[g]
<1>1. req \in [Slot -> Request] /\ req' = [req EXCEPT ![h] = [req[h] EXCEPT !.pc = step]]
  BY DEF TypeOK, Goto, Request
<1>2. [req[h] EXCEPT !.pc = step] \in Request
  BY <1>1 DEF Request
<1> QED BY <1>1, <1>2 DEF Request

LEMMA EndReq ==
  ASSUME TypeOK, NEW h \in Slot, End(h)
  PROVE  /\ req' \in [Slot -> Request]
         /\ req'[h] = Idle /\ req'[h].pc = "idle"
         /\ \A g \in Slot : g # h => req'[g] = req[g]
<1>1. req \in [Slot -> Request] /\ req' = [req EXCEPT ![h] = Idle]
  BY DEF TypeOK, End, Request
<1> QED BY <1>1, RecordTypes DEF Idle

(* A request that arrives.                                                 *)
LEMMA ArriveReq ==
  ASSUME TypeOK, NEW h \in Slot, NEW kind \in {"start", "confirm", "store"},
         NEW k \in Key, NEW n \in Key \cup {NoKey}, Arrive(h, kind, k, n)
  PROVE  /\ req' \in [Slot -> Request] /\ req[h].pc = "idle"
         /\ req'[h].pc = kind /\ req'[h].by = k /\ req'[h].newKey = n
         /\ \A g \in Slot : g # h => req'[g] = req[g]
<1> DEFINE r == [Idle EXCEPT !.pc = kind, !.by = k, !.newKey = n]
<1>1. req \in [Slot -> Request] /\ req' = [req EXCEPT ![h] = r]
  BY DEF TypeOK, Arrive, Request
<1>2. r = [pc |-> kind, by |-> k, newKey |-> n, seen |-> Idle.seen]
  <2>1. r = [Idle EXCEPT !.pc = kind, !.by = k, !.newKey = n]
    OBVIOUS
  <2>2. PICK i \in Request : i = Idle
    BY RecordTypes
  <2>3. r = [i EXCEPT !.pc = kind, !.by = k, !.newKey = n]
    BY <2>1, <2>2
  <2> HIDE DEF r
  <2>4. r = [pc |-> kind, by |-> k, newKey |-> n, seen |-> i.seen]
    BY <2>3 DEF Request
  <2> QED BY <2>2, <2>4
<1>3. r \in Request
  BY <1>2, RecordTypes DEF Request, Step
<1> HIDE DEF r
<1> QED BY <1>1, <1>2, <1>3 DEF Arrive

(* The answer handleRotateConfirm works with.                              *)
Read(h) == [rotation EXCEPT !.confirmations = @ \cup {req[h].by}]

LEMMA ReadRotationReq ==
  ASSUME TypeOK, NEW h \in Slot, req[h].by \in Key, ReadRotation(h), rotation.there
  PROVE  /\ req' \in [Slot -> Request]
         /\ req'[h].pc \in {"count", "record"} /\ req'[h].by = req[h].by
         /\ req'[h].seen = Read(h)
         /\ \A g \in Slot : g # h => req'[g] = req[g]
<1> DEFINE pc == IF req[h].by \in rotation.confirmations THEN "count" ELSE "record"
<1>1. /\ req \in [Slot -> Request]
      /\ req' = [req EXCEPT ![h] = [[req[h] EXCEPT !.seen = Read(h)] EXCEPT !.pc = pc]]
  BY DEF TypeOK, ReadRotation, Read, Request
<1>2. Read(h) \in Rotation /\ pc \in {"count", "record"}
  BY DEF TypeOK, Read, Rotation
<1> HIDE DEF pc
<1>3. [[req[h] EXCEPT !.seen = Read(h)] EXCEPT !.pc = pc]
        = [pc |-> pc, by |-> req[h].by, newKey |-> req[h].newKey, seen |-> Read(h)]
  BY <1>1, ReadingIsRecord
<1> QED BY <1>1, <1>2, <1>3 DEF Request, Step

LEMMA ReqType == TypeOK <=> /\ publicKey \in Key /\ newPublicKey \in Key \cup {NoKey}
                            /\ rotation \in Rotation /\ alias \subseteq Key /\ wrapped \subseteq Key
                            /\ req \in [Slot -> Request]
                            /\ calls \in [{"start", "confirm", "store"} -> Nat]
                            /\ aborts \in 0..MaxAborts
BY DEF TypeOK, Request

LEMMA ReqTypeNext == TypeOK' <=> /\ publicKey' \in Key /\ newPublicKey' \in Key \cup {NoKey}
                                 /\ rotation' \in Rotation /\ alias' \subseteq Key
                                 /\ wrapped' \subseteq Key
                                 /\ req' \in [Slot -> Request]
                                 /\ calls' \in [{"start", "confirm", "store"} -> Nat]
                                 /\ aborts' \in 0..MaxAborts
BY DEF TypeOK, Request

LEMMA TypeInit == Init => TypeOK
BY KeyRotationAssumption, RecordTypes, ReqType DEF Init

(* Whatever a request holds are keys and a record read.                    *)
LEMMA ReqFields ==
  ASSUME TypeOK, NEW h \in Slot
  PROVE  /\ req[h] \in Request
         /\ req[h].by \in Key \cup {NoKey} /\ req[h].newKey \in Key \cup {NoKey}
         /\ req[h].seen \in Rotation /\ req[h].pc \in Step
         /\ req[h].seen.newKey \in Key \cup {NoKey}
         /\ req[h].seen.oldKey \in Key \cup {NoKey}
         /\ req[h].seen.confirmations \subseteq Key
BY ReqType DEF Request, Rotation

LEMMA RotationFields ==
  ASSUME TypeOK
  PROVE  /\ rotation.there \in BOOLEAN /\ rotation.confirmations \subseteq Key
         /\ rotation.newKey \in Key \cup {NoKey} /\ rotation.oldKey \in Key \cup {NoKey}
BY DEF TypeOK, Rotation

(* TypeOK is not inductive by itself: the key a request is about must be   *)
(* one by the time it is stored.                                           *)
Confirming == {"confirm", "record", "count", "swap key", "drop wrapped",
               "drop rotation", "drop alias"}

Named(h) ==
  /\ req[h].pc \in Starting => req[h].newKey \in Key
  /\ req[h].pc # "idle" => req[h].by \in Key

TypeInv == TypeOK /\ \A h \in Slot : Named(h)

LEMMA StepNames ==
  /\ Starting \subseteq Step /\ Confirming \subseteq Step
  /\ {"idle", "store"} \subseteq Step
  /\ Starting \cap Confirming = {}
  /\ "idle" \notin Starting \cup Confirming
  /\ "store" \notin Starting \cup Confirming
BY DEF Starting, Confirming, Step

LEMMA OthersNamed ==
  ASSUME TypeInv, NEW h \in Slot, Named(h)',
         \A g \in Slot : g # h => req'[g] = req[g]
  PROVE  \A g \in Slot : Named(g)'
BY DEF TypeInv, Named

LEMMA TypeGoto ==
  ASSUME TypeInv, NEW h \in Slot, NEW step \in Step, Goto(h, step),
         req[h].pc # "idle", step \in Starting => req[h].pc \in Starting
  PROVE  req' \in [Slot -> Request] /\ \A g \in Slot : Named(g)'
<1>1. /\ req' \in [Slot -> Request] /\ req'[h].pc = step
      /\ req'[h].by = req[h].by /\ req'[h].newKey = req[h].newKey
      /\ \A g \in Slot : g # h => req'[g] = req[g]
  BY GotoReq DEF TypeInv
<1>2. Named(h)'
  BY <1>1 DEF TypeInv, Named
<1> QED BY <1>1, <1>2, OthersNamed

LEMMA TypeEnd ==
  ASSUME TypeInv, NEW h \in Slot, End(h)
  PROVE  req' \in [Slot -> Request] /\ \A g \in Slot : Named(g)'
<1>1. /\ req' \in [Slot -> Request] /\ req'[h].pc = "idle"
      /\ \A g \in Slot : g # h => req'[g] = req[g]
  BY EndReq DEF TypeInv
<1>2. Named(h)'
  BY <1>1 DEF Named, Starting
<1> QED BY <1>1, <1>2, OthersNamed

LEMMA TypeArrive ==
  ASSUME TypeInv, NEW h \in Slot, NEW kind \in {"start", "confirm", "store"},
         NEW k \in Key, NEW n \in Key \cup {NoKey}, Arrive(h, kind, k, n),
         kind = "start" => n \in Key
  PROVE  TypeInv'
<1>1. /\ req' \in [Slot -> Request]
      /\ req'[h].pc = kind /\ req'[h].by = k /\ req'[h].newKey = n
      /\ \A g \in Slot : g # h => req'[g] = req[g]
  BY ArriveReq DEF TypeInv
<1>2. Named(h)'
  BY <1>1 DEF Named, Starting
<1>3. calls' \in [{"start", "confirm", "store"} -> Nat]
  BY DEF TypeInv, TypeOK, Arrive
<1>4. TypeOK'
  BY <1>1, <1>3, ReqType, ReqTypeNext DEF TypeInv, Arrive
<1> QED BY <1>1, <1>2, <1>4, OthersNamed DEF TypeInv

LEMMA TypeRotation ==
  ASSUME TypeOK
  PROVE  /\ \A k, l \in Key :
              [there |-> TRUE, newKey |-> k, oldKey |-> l, confirmations |-> {},
               late |-> FALSE] \in Rotation
         /\ \A C \in SUBSET Key :
              [rotation EXCEPT !.there = TRUE, !.confirmations = C] \in Rotation
         /\ [rotation EXCEPT !.late = TRUE] \in Rotation
BY DEF TypeOK, Rotation

LEMMA TypeNext == TypeInv /\ [Next]_vars => TypeInv'
<1> SUFFICES ASSUME TypeInv, [Next]_vars PROVE TypeInv'
  OBVIOUS
<1>1. TypeOK
  BY DEF TypeInv
<1>2. ASSUME NEW h \in Slot, NEW k \in Key,
             \/ \E n \in Key : RotateStart(h, k, n)
             \/ RotateConfirm(h, k) \/ PutWrappedKey(h, k)
      PROVE  TypeInv'
  BY <1>2, TypeArrive DEF RotateStart, RotateConfirm, PutWrappedKey
<1>3. ASSUME NEW h \in Slot, StoreWrapped(h) PROVE TypeInv'
  BY <1>1, <1>3, TypeEnd, ReqType, ReqTypeNext DEF StoreWrapped, TypeInv, Named
<1>4. ASSUME NEW h \in Slot, CheckRotation(h) PROVE TypeInv'
  <2>1. req' \in [Slot -> Request] /\ \A g \in Slot : Named(g)'
    BY <1>4, TypeEnd, TypeGoto DEF CheckRotation, Starting, Step
  <2> QED BY <1>1, <1>4, <2>1, ReqType, ReqTypeNext DEF CheckRotation, TypeInv
<1>5. ASSUME NEW h \in Slot, PutRotation(h) PROVE TypeInv'
  <2>1. req' \in [Slot -> Request] /\ \A g \in Slot : Named(g)'
    BY <1>5, TypeGoto DEF PutRotation, Starting, Step
  <2>2. rotation' \in Rotation
    BY <1>1, <1>5, TypeRotation DEF PutRotation, TypeInv, Named, Starting
  <2> QED BY <1>1, <1>5, <2>1, <2>2, ReqType, ReqTypeNext DEF PutRotation, TypeInv
<1>6. ASSUME NEW h \in Slot, SetMeta(h) \/ PutWrapped(h) PROVE TypeInv'
  <2>1. req' \in [Slot -> Request] /\ \A g \in Slot : Named(g)'
    BY <1>6, TypeGoto DEF SetMeta, PutWrapped, Starting, Step
  <2>2. req[h].newKey \in Key
    BY <1>6 DEF SetMeta, PutWrapped, TypeInv, Named, Starting
  <2> QED BY <1>1, <1>6, <2>1, <2>2, ReqType, ReqTypeNext DEF SetMeta, PutWrapped, TypeInv
<1>7. ASSUME NEW h \in Slot, PutAlias(h) PROVE TypeInv'
  <2>1. req' \in [Slot -> Request] /\ \A g \in Slot : Named(g)'
    BY <1>7, TypeEnd DEF PutAlias
  <2>2. req[h].newKey \in Key
    BY <1>7 DEF PutAlias, TypeInv, Named, Starting
  <2> QED BY <1>1, <1>7, <2>1, <2>2, ReqType, ReqTypeNext DEF PutAlias, TypeInv
<1>8. ASSUME NEW h \in Slot, ReadRotation(h) PROVE TypeInv'
  <2>1. req' \in [Slot -> Request] /\ \A g \in Slot : Named(g)'
    <3>1. CASE ~rotation.there
      BY <1>8, <3>1, TypeEnd DEF ReadRotation
    <3>2. CASE rotation.there
      <4>1. req[h].by \in Key
        BY <1>8 DEF ReadRotation, TypeInv, Named
      <4>2. /\ req' \in [Slot -> Request] /\ req'[h].pc \in {"count", "record"}
            /\ req'[h].by = req[h].by
            /\ \A g \in Slot : g # h => req'[g] = req[g]
        BY <1>1, <1>8, <3>2, <4>1, ReadRotationReq
      <4>3. Named(h)'
        BY <4>1, <4>2 DEF Named, Starting
      <4> QED BY <4>2, <4>3, OthersNamed
    <3> QED BY <3>1, <3>2
  <2> QED BY <1>1, <1>8, <2>1, ReqType, ReqTypeNext DEF ReadRotation, TypeInv
<1>9. ASSUME NEW h \in Slot, RecordConfirmation(h) PROVE TypeInv'
  <2>1. req' \in [Slot -> Request] /\ \A g \in Slot : Named(g)'
    BY <1>9, TypeGoto DEF RecordConfirmation, Starting, Step
  <2>2. rotation' \in Rotation
    BY <1>1, <1>9, TypeRotation, ReqFields DEF RecordConfirmation
  <2> QED BY <1>1, <1>9, <2>1, <2>2, ReqType, ReqTypeNext DEF RecordConfirmation, TypeInv
<1>10. ASSUME NEW h \in Slot, CountDevices(h) PROVE TypeInv'
  <2>1. req' \in [Slot -> Request] /\ \A g \in Slot : Named(g)'
    BY <1>10, TypeEnd, TypeGoto DEF CountDevices, Starting, Step
  <2> QED BY <1>1, <1>10, <2>1, ReqType, ReqTypeNext DEF CountDevices, TypeInv
<1>11. ASSUME NEW h \in Slot, SwapKey(h) PROVE TypeInv'
  <2>1. req' \in [Slot -> Request] /\ \A g \in Slot : Named(g)'
    BY <1>11, TypeEnd, TypeGoto DEF SwapKey, Starting, Step
  <2>2. publicKey' \in Key /\ newPublicKey' \in Key \cup {NoKey}
    BY <1>1, <1>11, ReqFields DEF SwapKey, TypeOK
  <2> QED BY <1>1, <1>11, <2>1, <2>2, ReqType, ReqTypeNext DEF SwapKey, TypeInv
<1>12. ASSUME NEW h \in Slot, DropWrapped(h) \/ DropRotation(h) PROVE TypeInv'
  <2>1. req' \in [Slot -> Request] /\ \A g \in Slot : Named(g)'
    BY <1>12, TypeGoto DEF DropWrapped, DropRotation, Starting, Step
  <2> QED BY <1>1, <1>12, <2>1, RecordTypes, ReqType, ReqTypeNext
          DEF DropWrapped, DropRotation, TypeInv
<1>13. ASSUME NEW h \in Slot, DropAlias(h) PROVE TypeInv'
  <2>1. req' \in [Slot -> Request] /\ \A g \in Slot : Named(g)'
    BY <1>13, TypeEnd DEF DropAlias
  <2> QED BY <1>1, <1>13, <2>1, ReqType, ReqTypeNext DEF DropAlias, TypeInv
<1>14. ASSUME NEW h \in Slot, Abort(h) PROVE TypeInv'
  <2>1. req' \in [Slot -> Request] /\ \A g \in Slot : Named(g)'
    BY <1>14, TypeEnd DEF Abort
  <2>2. aborts' \in 0..MaxAborts
    BY <1>1, <1>14, KeyRotationAssumption DEF Abort, TypeOK
  <2> QED BY <1>1, <1>14, <2>1, <2>2, ReqType, ReqTypeNext DEF Abort, TypeInv
<1>15. CASE TwoDaysPass
  <2>1. rotation' \in Rotation
    BY <1>1, <1>15, TypeRotation DEF TwoDaysPass
  <2> QED BY <1>1, <1>15, <2>1, ReqType, ReqTypeNext DEF TwoDaysPass, TypeInv, Named
<1>16. CASE UNCHANGED vars
  BY <1>1, <1>16, ReqType, ReqTypeNext DEF vars, TypeInv, Named
<1> QED
  BY <1>2, <1>3, <1>4, <1>5, <1>6, <1>7, <1>8, <1>9, <1>10, <1>11, <1>12, <1>13,
     <1>14, <1>15, <1>16 DEF Next

LEMMA TypeInvInit == Init => TypeInv
<1> SUFFICES ASSUME Init, NEW h \in Slot PROVE Named(h)
  BY TypeInit DEF TypeInv
<1>1. req[h] = Idle
  BY DEF Init
<1>2. Idle.pc = "idle"
  BY DEF Idle
<1> QED BY <1>1, <1>2, StepNames DEF Named

(* The records of a rotation keep their types, however its requests        *)
(* interleave and wherever they die.                                       *)
THEOREM TypeCorrect == Spec => []TypeOK
<1>1. TypeInv => TypeOK
  BY DEF TypeInv
<1> QED BY <1>1, TypeInvInit, TypeNext, PTL DEF Spec

(***************************************************************************)
(* The rotation itself, when a rotate-start runs beside no other request   *)
(* of a rotation and only new keys confirm (rotation.ts:195).  Before the  *)
(* key is swapped there is one rotation, to one key, and that key alone    *)
(* confirms; afterwards no key is accepted and the confirmations still     *)
(* under way are the new key's.                                            *)
(***************************************************************************)

Serialised == ~Overlap /\ FirstKey \notin Confirmer

Decided == Confirming \ {"confirm"}
Swapped == {"drop wrapped", "drop rotation", "drop alias"}

OneAtATime ==
  \A g, h \in Slot :
    /\ req[g].pc \in Starting => req[h].pc \notin Confirming
    /\ req[g].pc \in Starting /\ req[h].pc \in Starting => g = h

NoneYet == rotation = NoRotation /\ newPublicKey = NoKey /\ alias = {}

UnderWay ==
  /\ rotation.newKey \in Key \ {FirstKey, rotation.oldKey}
  /\ newPublicKey \in {NoKey, rotation.newKey}
  /\ alias \subseteq {rotation.newKey}
  /\ alias # {} => newPublicKey = rotation.newKey /\ rotation.newKey \in wrapped
  /\ rotation.confirmations \subseteq alias

BeforeSwap ==
  publicKey = FirstKey =>
    /\ ~rotation.there => NoneYet
    /\ rotation.there => UnderWay

AfterSwap ==
  publicKey # FirstKey =>
    /\ newPublicKey = NoKey
    /\ publicKey \in wrapped
    /\ rotation.newKey \in {publicKey, NoKey}
    /\ rotation.oldKey # publicKey
    /\ rotation.confirmations \subseteq {publicKey}
    /\ \A h \in Slot : req[h].pc \notin Starting

StartStep(h) ==
  /\ req[h].pc \in Starting =>
       req[h].newKey \in Key \ {FirstKey, req[h].by}
  /\ req[h].pc = "put rotation" => ~rotation.there
  /\ req[h].pc \in {"set meta", "put wrapped", "put alias"} =>
       /\ rotation.there /\ rotation.newKey = req[h].newKey
       /\ alias = {}
  /\ req[h].pc \in {"put wrapped", "put alias"} => newPublicKey = req[h].newKey
  /\ req[h].pc = "put alias" => req[h].newKey \in wrapped

ConfirmStep(h) ==
  req[h].pc \in Confirming =>
    /\ req[h].by \in wrapped
    /\ publicKey = FirstKey =>
         rotation.there /\ req[h].by = rotation.newKey /\ req[h].by \in alias
    /\ publicKey # FirstKey => req[h].by = publicKey
    /\ req[h].pc \in Decided =>
         /\ req[h].seen.confirmations = {req[h].by}
         /\ req[h].seen.newKey \in {req[h].by, NoKey}
         /\ req[h].seen.oldKey # req[h].by
         /\ publicKey = FirstKey => req[h].seen.newKey = req[h].by
    /\ req[h].pc \in Swapped => publicKey # FirstKey

RotationInv ==
  /\ TypeInv /\ IsFiniteSet(wrapped)
  /\ OneAtATime /\ BeforeSwap /\ AfterSwap
  /\ \A h \in Slot : StartStep(h) /\ ConfirmStep(h)

(* The key a request arrives with: the first one until the swap, or the    *)
(* new one, for which the master key is stored by then.                    *)
LEMMA AcceptedKey ==
  ASSUME RotationInv, NEW k \in Key, Accepted(k)
  PROVE  /\ publicKey = FirstKey
         /\ k # FirstKey => /\ rotation.there /\ k = rotation.newKey
                            /\ k \in alias /\ k \in wrapped
<1>1. FirstKey \in Key /\ NoKey \notin Key
  BY KeyRotationAssumption
<1>2. publicKey = FirstKey
  BY <1>1 DEF RotationInv, AfterSwap, Accepted
<1>3. ASSUME k # FirstKey
      PROVE  rotation.there /\ k = rotation.newKey /\ k \in alias /\ k \in wrapped
  <2>1. k \in alias /\ newPublicKey = k
    BY <1>3 DEF Accepted
  <2>2. rotation.there /\ UnderWay
    BY <1>2, <2>1, RotationFields DEF RotationInv, TypeInv, BeforeSwap, NoneYet
  <2> QED BY <2>1, <2>2 DEF UnderWay
<1> QED BY <1>2, <1>3

(* What the other invocations know of the records stays true while these   *)
(* stay, and while a key is only added to the wrapped ones.                *)
LEMMA StepsKept ==
  ASSUME NEW g \in Slot, StartStep(g), ConfirmStep(g), req'[g] = req[g],
         UNCHANGED <<publicKey, newPublicKey, rotation, alias>>,
         wrapped \subseteq wrapped'
  PROVE  StartStep(g)' /\ ConfirmStep(g)'
<1>1. StartStep(g)'
  BY DEF StartStep
<1>2. ConfirmStep(g)'
  BY DEF ConfirmStep
<1> QED BY <1>1, <1>2

(* A step of one invocation that leaves the records alone.                 *)
LEMMA RecordsKept ==
  ASSUME RotationInv, TypeInv', NEW h \in Slot,
         UNCHANGED <<publicKey, newPublicKey, rotation, alias, wrapped>>,
         \A g \in Slot : g # h => req'[g] = req[g],
         req'[h].pc \in Starting => req[h].pc \in Starting,
         req'[h].pc \in Confirming => req[h].pc \in Confirming,
         StartStep(h)', ConfirmStep(h)'
  PROVE  RotationInv'
<1>1. OneAtATime'
  BY DEF RotationInv, OneAtATime
<1>2. BeforeSwap'
  BY DEF RotationInv, BeforeSwap, NoneYet, UnderWay
<1>3. AfterSwap'
  BY DEF RotationInv, AfterSwap
<1>4. ASSUME NEW g \in Slot, g # h PROVE StartStep(g)' /\ ConfirmStep(g)'
  BY <1>4, StepsKept DEF RotationInv
<1> QED BY <1>1, <1>2, <1>3, <1>4 DEF RotationInv

LEMMA EndKeeps ==
  ASSUME RotationInv, TypeInv', NEW h \in Slot, End(h),
         UNCHANGED <<publicKey, newPublicKey, rotation, alias, wrapped>>
  PROVE  RotationInv'
<1>1. req'[h].pc = "idle" /\ \A g \in Slot : g # h => req'[g] = req[g]
  BY EndReq DEF RotationInv, TypeInv
<1>2. StartStep(h)' /\ ConfirmStep(h)'
  BY <1>1 DEF StartStep, ConfirmStep, Starting, Confirming
<1> QED BY <1>1, <1>2, StepNames, RecordsKept

LEMMA StartArrives ==
  ASSUME Serialised, RotationInv, TypeInv', NEW h \in Slot, NEW k \in Key,
         NEW n \in Key, RotateStart(h, k, n)
  PROVE  RotationInv'
<1>1. /\ req'[h].pc = "start" /\ req'[h].by = k /\ req'[h].newKey = n
      /\ \A g \in Slot : g # h => req'[g] = req[g]
  BY ArriveReq DEF RotationInv, TypeInv, RotateStart
<1>2. /\ \A g \in Slot : req[g].pc \in {"idle", "store"}
      /\ n \notin {k, FirstKey} /\ Accepted(k)
      /\ UNCHANGED <<publicKey, newPublicKey, rotation, alias, wrapped>>
  BY DEF Serialised, RotateStart, Arrive
<1>3. publicKey = FirstKey
  BY <1>2, AcceptedKey
<1>4. OneAtATime'
  BY <1>1, <1>2, StepNames DEF OneAtATime
<1>5. BeforeSwap' /\ AfterSwap'
  BY <1>2, <1>3 DEF RotationInv, BeforeSwap, NoneYet, UnderWay, AfterSwap
<1>6. StartStep(h)' /\ ConfirmStep(h)'
  BY <1>1, <1>2 DEF StartStep, ConfirmStep, Confirming
<1>7. ASSUME NEW g \in Slot, g # h PROVE StartStep(g)' /\ ConfirmStep(g)'
  BY <1>1, <1>2, <1>7, StepNames DEF StartStep, ConfirmStep, Starting
<1> QED BY <1>2, <1>4, <1>5, <1>6, <1>7 DEF RotationInv

LEMMA ConfirmArrives ==
  ASSUME Serialised, RotationInv, TypeInv', NEW h \in Slot, NEW k \in Key,
         RotateConfirm(h, k)
  PROVE  RotationInv'
<1>1. /\ req'[h].pc = "confirm" /\ req'[h].by = k
      /\ \A g \in Slot : g # h => req'[g] = req[g]
  BY ArriveReq DEF RotationInv, TypeInv, RotateConfirm
<1>2. /\ \A g \in Slot : req[g].pc \notin Starting
      /\ k # FirstKey /\ Accepted(k)
      /\ UNCHANGED <<publicKey, newPublicKey, rotation, alias, wrapped>>
  BY DEF Serialised, RotateConfirm, Arrive
<1>3. /\ publicKey = FirstKey /\ rotation.there /\ k = rotation.newKey
      /\ k \in alias /\ k \in wrapped
  BY <1>2, AcceptedKey
<1>4. OneAtATime'
  BY <1>1, <1>2, StepNames DEF OneAtATime, Confirming, Starting
<1>5. BeforeSwap' /\ AfterSwap'
  BY <1>2, <1>3 DEF RotationInv, BeforeSwap, NoneYet, UnderWay, AfterSwap
<1>6. StartStep(h)' /\ ConfirmStep(h)'
  BY <1>1, <1>2, <1>3 DEF StartStep, ConfirmStep, Starting, Confirming, Decided, Swapped
<1>7. ASSUME NEW g \in Slot, g # h PROVE StartStep(g)' /\ ConfirmStep(g)'
  BY <1>1, <1>2, <1>7, StepsKept DEF RotationInv
<1> QED BY <1>2, <1>4, <1>5, <1>6, <1>7 DEF RotationInv

LEMMA StoreArrives ==
  ASSUME RotationInv, TypeInv', NEW h \in Slot, NEW k \in Key, PutWrappedKey(h, k)
  PROVE  RotationInv'
<1>1. /\ req'[h].pc = "store" /\ \A g \in Slot : g # h => req'[g] = req[g]
  BY ArriveReq DEF RotationInv, TypeInv, PutWrappedKey
<1>2. StartStep(h)' /\ ConfirmStep(h)'
  BY <1>1 DEF StartStep, ConfirmStep, Starting, Confirming
<1> QED BY <1>1, <1>2, StepNames, RecordsKept DEF PutWrappedKey, Arrive

LEMMA StoreKeeps ==
  ASSUME RotationInv, TypeInv', NEW h \in Slot, StoreWrapped(h)
  PROVE  RotationInv'
<1>1. /\ req'[h].pc = "idle" /\ \A g \in Slot : g # h => req'[g] = req[g]
      /\ UNCHANGED <<publicKey, newPublicKey, rotation, alias>>
      /\ wrapped' = wrapped \cup {req[h].by}
  BY EndReq DEF RotationInv, TypeInv, StoreWrapped
<1>2. IsFiniteSet(wrapped')
  BY <1>1, FS_AddElement DEF RotationInv
<1>3. OneAtATime'
  BY <1>1, StepNames DEF RotationInv, OneAtATime
<1>4. BeforeSwap' /\ AfterSwap'
  BY <1>1, StepNames DEF RotationInv, BeforeSwap, NoneYet, UnderWay, AfterSwap
<1>5. ASSUME NEW g \in Slot, g # h PROVE StartStep(g)' /\ ConfirmStep(g)'
  BY <1>1, <1>5, StepsKept DEF RotationInv
<1>6. StartStep(h)' /\ ConfirmStep(h)'
  BY <1>1 DEF StartStep, ConfirmStep, Starting, Confirming
<1> QED BY <1>2, <1>3, <1>4, <1>5, <1>6 DEF RotationInv

(* rotate-start has the records to itself.                                 *)
LEMMA StartAlone ==
  ASSUME RotationInv, NEW h \in Slot, req[h].pc \in Starting
  PROVE  /\ publicKey = FirstKey
         /\ req[h].newKey \in Key \ {FirstKey, req[h].by} /\ req[h].by \in Key
         /\ \A g \in Slot : g # h => req[g].pc \notin Starting \cup Confirming
<1>1. StartStep(h) /\ Named(h)
  BY DEF RotationInv, TypeInv
<1>2. req[h].pc # "idle"
  BY StepNames
<1> QED BY <1>1, <1>2 DEF RotationInv, AfterSwap, OneAtATime, StartStep, Named

LEMMA StartStepKeeps ==
  ASSUME RotationInv, TypeInv', NEW h \in Slot, req[h].pc \in Starting,
         UNCHANGED publicKey,
         \A g \in Slot : g # h => req'[g] = req[g],
         req'[h].pc \notin Confirming,
         IsFiniteSet(wrapped'), BeforeSwap', StartStep(h)'
  PROVE  RotationInv'
<1>1. /\ publicKey' = FirstKey
      /\ \A g \in Slot : g # h => req'[g].pc \notin Starting \cup Confirming
  BY StartAlone
<1>2. OneAtATime' /\ AfterSwap'
  BY <1>1, StepNames DEF OneAtATime, AfterSwap
<1>3. ASSUME NEW g \in Slot PROVE ConfirmStep(g)'
  BY <1>1 DEF ConfirmStep
<1>4. ASSUME NEW g \in Slot PROVE StartStep(g)'
  BY <1>1 DEF StartStep, Starting
<1> QED BY <1>2, <1>3, <1>4 DEF RotationInv

LEMMA CheckKeeps ==
  ASSUME RotationInv, TypeInv', NEW h \in Slot, CheckRotation(h)
  PROVE  RotationInv'
<1>1. CASE rotation.there
  BY <1>1, EndKeeps DEF CheckRotation
<1>2. CASE ~rotation.there
  <2>1. /\ req'[h].pc = "put rotation" /\ req'[h].newKey = req[h].newKey
        /\ req'[h].by = req[h].by /\ req[h].pc \in Starting
        /\ \A g \in Slot : g # h => req'[g] = req[g]
    BY <1>2, GotoReq DEF CheckRotation, RotationInv, TypeInv, Step, Starting
  <2>2. StartStep(h)' /\ ConfirmStep(h)'
    BY <1>2, <2>1, StartAlone DEF CheckRotation, StartStep, ConfirmStep, Confirming
  <2> QED BY <2>1, <2>2, RecordsKept DEF CheckRotation, Confirming
<1> QED BY <1>1, <1>2

LEMMA PutRotationKeeps ==
  ASSUME RotationInv, TypeInv', NEW h \in Slot, PutRotation(h)
  PROVE  RotationInv'
<1>1. /\ req'[h].pc = "set meta" /\ req'[h].newKey = req[h].newKey
      /\ req'[h].by = req[h].by /\ req[h].pc \in Starting
      /\ \A g \in Slot : g # h => req'[g] = req[g]
  BY GotoReq DEF PutRotation, RotationInv, TypeInv, Step, Starting
<1>2. /\ rotation'.there /\ rotation'.newKey = req[h].newKey
      /\ rotation'.oldKey = req[h].by /\ rotation'.confirmations = {}
      /\ UNCHANGED <<publicKey, newPublicKey, alias, wrapped>>
  BY DEF PutRotation
<1>3. newPublicKey = NoKey /\ alias = {} /\ publicKey = FirstKey
  BY <1>1, StartAlone DEF PutRotation, RotationInv, StartStep, BeforeSwap, NoneYet
<1>4. BeforeSwap'
  BY <1>1, <1>2, <1>3, StartAlone DEF BeforeSwap, UnderWay
<1>5. StartStep(h)'
  BY <1>1, <1>2, <1>3, StartAlone DEF StartStep
<1> QED BY <1>1, <1>2, <1>4, <1>5, StartStepKeeps DEF RotationInv, Confirming

LEMMA SetMetaKeeps ==
  ASSUME RotationInv, TypeInv', NEW h \in Slot, SetMeta(h)
  PROVE  RotationInv'
<1>1. /\ req'[h].pc = "put wrapped" /\ req'[h].newKey = req[h].newKey
      /\ req'[h].by = req[h].by /\ req[h].pc \in Starting
      /\ \A g \in Slot : g # h => req'[g] = req[g]
  BY GotoReq DEF SetMeta, RotationInv, TypeInv, Step, Starting
<1>2. rotation.there /\ rotation.newKey = req[h].newKey /\ alias = {}
  BY DEF SetMeta, RotationInv, StartStep
<1>3. /\ newPublicKey' = req[h].newKey
      /\ UNCHANGED <<publicKey, rotation, alias, wrapped>>
  BY DEF SetMeta
<1>4. BeforeSwap'
  BY <1>1, <1>2, <1>3, StartAlone DEF RotationInv, BeforeSwap, UnderWay
<1>5. StartStep(h)'
  BY <1>1, <1>2, <1>3, StartAlone DEF StartStep
<1> QED BY <1>1, <1>3, <1>4, <1>5, StartStepKeeps DEF RotationInv, Confirming

LEMMA PutWrappedKeeps ==
  ASSUME RotationInv, TypeInv', NEW h \in Slot, PutWrapped(h)
  PROVE  RotationInv'
<1>1. /\ req'[h].pc = "put alias" /\ req'[h].newKey = req[h].newKey
      /\ req'[h].by = req[h].by /\ req[h].pc \in Starting
      /\ \A g \in Slot : g # h => req'[g] = req[g]
  BY GotoReq DEF PutWrapped, RotationInv, TypeInv, Step, Starting
<1>2. /\ rotation.there /\ rotation.newKey = req[h].newKey /\ alias = {}
      /\ newPublicKey = req[h].newKey
  BY DEF PutWrapped, RotationInv, StartStep
<1>3. /\ wrapped' = wrapped \cup {req[h].newKey}
      /\ UNCHANGED <<publicKey, newPublicKey, rotation, alias>>
  BY DEF PutWrapped
<1>4. IsFiniteSet(wrapped')
  BY <1>3, FS_AddElement DEF RotationInv
<1>5. BeforeSwap'
  BY <1>1, <1>2, <1>3, StartAlone DEF RotationInv, BeforeSwap, UnderWay
<1>6. StartStep(h)'
  BY <1>1, <1>2, <1>3, StartAlone DEF StartStep
<1> QED BY <1>1, <1>3, <1>4, <1>5, <1>6, StartStepKeeps DEF RotationInv, Confirming

LEMMA PutAliasKeeps ==
  ASSUME RotationInv, TypeInv', NEW h \in Slot, PutAlias(h)
  PROVE  RotationInv'
<1>1. /\ req'[h].pc = "idle" /\ req[h].pc \in Starting
      /\ \A g \in Slot : g # h => req'[g] = req[g]
  BY EndReq DEF PutAlias, RotationInv, TypeInv, Starting
<1>2. /\ rotation.there /\ rotation.newKey = req[h].newKey /\ alias = {}
      /\ newPublicKey = req[h].newKey /\ req[h].newKey \in wrapped
  BY DEF PutAlias, RotationInv, StartStep
<1>3. /\ alias' = alias \cup {req[h].newKey}
      /\ UNCHANGED <<publicKey, newPublicKey, rotation, wrapped>>
  BY DEF PutAlias
<1>4. BeforeSwap'
  BY <1>1, <1>2, <1>3, StartAlone DEF RotationInv, BeforeSwap, UnderWay
<1>5. StartStep(h)'
  BY <1>1 DEF StartStep, Starting
<1> QED BY <1>1, <1>3, <1>4, <1>5, StartStepKeeps DEF RotationInv, Confirming

(* The confirmations under way are all of one key, and nobody starts.      *)
LEMMA ConfirmOne ==
  ASSUME RotationInv, NEW h \in Slot, req[h].pc \in Confirming
  PROVE  /\ req[h].by \in Key \ {FirstKey} /\ req[h].by \in wrapped
         /\ \A g \in Slot : req[g].pc \notin Starting
         /\ \A g \in Slot : req[g].pc \in Confirming => req[g].by = req[h].by
         /\ publicKey \in {FirstKey, req[h].by}
         /\ rotation.newKey \in {req[h].by, NoKey} /\ rotation.oldKey # req[h].by
         /\ rotation.confirmations \subseteq {req[h].by}
<1>1. TypeInv /\ ConfirmStep(h) /\ BeforeSwap /\ AfterSwap
  BY DEF RotationInv
<1>2. req[h].by \in Key
  BY <1>1, StepNames DEF TypeInv, Named
<1>3. CASE publicKey = FirstKey
  <2>1. rotation.there /\ req[h].by = rotation.newKey /\ UnderWay
    BY <1>1, <1>3 DEF ConfirmStep, BeforeSwap
  <2>2. \A g \in Slot : req[g].pc \in Confirming => req[g].by = req[h].by
    BY <1>3, <2>1 DEF RotationInv, ConfirmStep
  <2> QED BY <1>1, <1>2, <1>3, <2>1, <2>2
          DEF RotationInv, OneAtATime, ConfirmStep, UnderWay
<1>4. CASE publicKey # FirstKey
  <2>1. req[h].by = publicKey
    BY <1>1, <1>4 DEF ConfirmStep
  <2>2. \A g \in Slot : req[g].pc \in Confirming => req[g].by = req[h].by
    BY <1>4, <2>1 DEF RotationInv, ConfirmStep
  <2> QED BY <1>1, <1>2, <1>4, <2>1, <2>2 DEF AfterSwap, ConfirmStep
<1> QED BY <1>3, <1>4

LEMMA ReadKeeps ==
  ASSUME RotationInv, TypeInv', NEW h \in Slot, ReadRotation(h)
  PROVE  RotationInv'
<1>1. CASE ~rotation.there
  BY <1>1, EndKeeps DEF ReadRotation
<1>2. CASE rotation.there
  <2>1. req[h].pc \in Confirming /\ TypeOK /\ UNCHANGED <<publicKey, newPublicKey, rotation, alias, wrapped>>
    BY DEF ReadRotation, Confirming, RotationInv, TypeInv
  <2>2. /\ req'[h].pc \in {"count", "record"} /\ req'[h].by = req[h].by
        /\ req'[h].seen = Read(h)
        /\ \A g \in Slot : g # h => req'[g] = req[g]
    BY <1>2, <2>1, ConfirmOne, ReadRotationReq
  <2>3. /\ Read(h).newKey = rotation.newKey /\ Read(h).oldKey = rotation.oldKey
        /\ Read(h).confirmations = rotation.confirmations \cup {req[h].by}
    BY <2>1 DEF Read, TypeOK, Rotation
  <2>4. ConfirmStep(h)
    BY DEF RotationInv
  <2>5. StartStep(h)'
    BY <2>2 DEF StartStep, Starting
  <2>6. /\ rotation.newKey \in {req[h].by, NoKey} /\ rotation.oldKey # req[h].by
        /\ rotation.confirmations \cup {req[h].by} = {req[h].by}
    BY <2>1, ConfirmOne
  <2>7. ConfirmStep(h)'
    BY <2>1, <2>2, <2>3, <2>4, <2>6 DEF ConfirmStep, Swapped
  <2> QED BY <2>1, <2>2, <2>5, <2>7, RecordsKept DEF Starting
<1> QED BY <1>1, <1>2

LEMMA CountKeeps ==
  ASSUME RotationInv, TypeInv', NEW h \in Slot, CountDevices(h)
  PROVE  RotationInv'
<1>1. CASE End(h)
  BY <1>1, EndKeeps DEF CountDevices
<1>2. CASE Goto(h, "swap key")
  <2>1. /\ req[h].pc = "count" /\ req'[h].pc = "swap key" /\ req'[h].by = req[h].by
        /\ req'[h].seen = req[h].seen
        /\ \A g \in Slot : g # h => req'[g] = req[g]
        /\ UNCHANGED <<publicKey, newPublicKey, rotation, alias, wrapped>>
    BY <1>2, GotoReq DEF CountDevices, RotationInv, TypeInv, Step
  <2>2. StartStep(h)'
    BY <2>1 DEF StartStep, Starting
  <2>3. ConfirmStep(h)
    BY DEF RotationInv
  <2>4. ConfirmStep(h)'
    BY <2>1, <2>3 DEF ConfirmStep, Confirming, Decided, Swapped
  <2> QED BY <2>1, <2>2, <2>4, RecordsKept DEF Starting, Confirming
<1> QED BY <1>1, <1>2 DEF CountDevices

(* The steps of a confirmation that change the records: what is left to    *)
(* show when the key may be swapped and a record of the old key dropped.   *)
LEMMA ConfirmStepKeeps ==
  ASSUME RotationInv, TypeInv', NEW h \in Slot, req[h].pc \in Confirming,
         \A g \in Slot : g # h => req'[g] = req[g],
         req'[h].pc \notin Starting, IsFiniteSet(wrapped'),
         BeforeSwap', AfterSwap', \A g \in Slot : ConfirmStep(g)'
  PROVE  RotationInv'
<1>1. \A g \in Slot : req'[g].pc \notin Starting
  BY ConfirmOne
<1>2. OneAtATime'
  BY <1>1 DEF OneAtATime
<1>3. ASSUME NEW g \in Slot PROVE StartStep(g)'
  BY <1>1 DEF StartStep, Starting
<1> QED BY <1>2, <1>3 DEF RotationInv

LEMMA RecordKeeps ==
  ASSUME RotationInv, TypeInv', NEW h \in Slot, RecordConfirmation(h)
  PROVE  RotationInv'
<1>1. /\ req[h].pc = "record" /\ req'[h].pc = "count" /\ req'[h].by = req[h].by
      /\ req'[h].seen = req[h].seen /\ req[h].pc \in Confirming
      /\ \A g \in Slot : g # h => req'[g] = req[g]
      /\ UNCHANGED <<publicKey, newPublicKey, alias, wrapped>>
  BY GotoReq DEF RecordConfirmation, RotationInv, TypeInv, Step, Confirming
<1>2. /\ rotation'.there /\ rotation'.newKey = rotation.newKey
      /\ rotation'.oldKey = rotation.oldKey
      /\ rotation'.confirmations = req[h].seen.confirmations
  BY DEF RecordConfirmation, RotationInv, TypeInv, TypeOK, Rotation
<1>3. ConfirmStep(h)
  BY DEF RotationInv
<1>4. req[h].seen.confirmations = {req[h].by}
  BY <1>1, <1>3 DEF ConfirmStep, Decided
<1>5. BeforeSwap'
  <2> SUFFICES ASSUME publicKey = FirstKey PROVE UnderWay'
    BY <1>1, <1>2 DEF BeforeSwap
  <2>1. rotation.there /\ req[h].by \in alias /\ UnderWay
    BY <1>1, <1>3 DEF RotationInv, BeforeSwap, ConfirmStep
  <2> QED BY <1>1, <1>2, <1>4, <2>1 DEF UnderWay
<1>6. AfterSwap'
  <2> SUFFICES ASSUME publicKey # FirstKey PROVE AfterSwap'
    BY <1>1 DEF AfterSwap
  <2>1. req[h].by = publicKey
    BY <1>1, <1>3 DEF ConfirmStep
  <2>2. \A g \in Slot : req'[g].pc \notin Starting
    BY <1>1, ConfirmOne DEF Starting
  <2> QED BY <1>1, <1>2, <1>4, <2>1, <2>2 DEF RotationInv, AfterSwap
<1>7. ASSUME NEW g \in Slot PROVE ConfirmStep(g)'
  <2>1. ConfirmStep(g)
    BY DEF RotationInv
  <2>2. CASE g = h
    BY <1>1, <1>2, <1>3, <2>2 DEF ConfirmStep, Decided, Swapped
  <2>3. CASE g # h
    BY <1>1, <1>2, <2>1, <2>3 DEF ConfirmStep
  <2> QED BY <2>2, <2>3
<1> QED BY <1>1, <1>5, <1>6, <1>7, ConfirmStepKeeps DEF RotationInv, Starting

LEMMA SwapKeeps ==
  ASSUME RotationInv, TypeInv', NEW h \in Slot, SwapKey(h)
  PROVE  RotationInv'
<1>1. CASE req[h].seen.newKey = NoKey
  BY <1>1, EndKeeps DEF SwapKey
<1>2. CASE req[h].seen.newKey # NoKey
  <2>1. /\ req[h].pc = "swap key" /\ req'[h].pc = "drop wrapped"
        /\ req'[h].by = req[h].by
        /\ req'[h].seen = req[h].seen /\ req[h].pc \in Confirming
        /\ \A g \in Slot : g # h => req'[g] = req[g]
        /\ UNCHANGED <<rotation, alias, wrapped>>
        /\ publicKey' = req[h].seen.newKey /\ newPublicKey' = NoKey
    BY <1>2, GotoReq DEF SwapKey, RotationInv, TypeInv, Step, Confirming
  <2>2. ConfirmStep(h)
    BY DEF RotationInv
  <2>3. publicKey' = req[h].by /\ publicKey' # FirstKey
    BY <1>2, <2>1, <2>2, ConfirmOne DEF ConfirmStep, Decided
  <2>4. BeforeSwap'
    BY <2>3 DEF BeforeSwap
  <2>5. AfterSwap'
    <3>1. \A g \in Slot : req'[g].pc \notin Starting
      BY <2>1, ConfirmOne DEF Starting
    <3> QED BY <2>1, <2>3, <3>1, ConfirmOne DEF AfterSwap
  <2>6. ASSUME NEW g \in Slot PROVE ConfirmStep(g)'
    <3>1. ConfirmStep(g) /\ (req[g].pc \in Confirming => req[g].by = req[h].by)
      BY <2>1, ConfirmOne DEF RotationInv
    <3>2. CASE g = h
      BY <2>1, <2>2, <2>3, <3>2 DEF ConfirmStep, Decided
    <3>3. CASE g # h
      BY <2>1, <2>3, <3>1, <3>3 DEF ConfirmStep
    <3> QED BY <3>2, <3>3
  <2> QED BY <2>1, <2>4, <2>5, <2>6, ConfirmStepKeeps DEF RotationInv, Starting
<1> QED BY <1>1, <1>2

(* completeRotation after the swap.                                        *)
LEMMA SwappedKeeps ==
  ASSUME RotationInv, TypeInv', NEW h \in Slot, req[h].pc \in Swapped,
         \A g \in Slot : g # h => req'[g] = req[g],
         \/ req'[h].pc = "idle"
         \/ /\ req'[h].pc \in Swapped
            /\ req'[h].by = req[h].by /\ req'[h].seen = req[h].seen,
         UNCHANGED <<publicKey, newPublicKey>>,
         rotation' \in {rotation, NoRotation},
         wrapped' \in {wrapped, wrapped \ {req[h].seen.oldKey}}
  PROVE  RotationInv'
<1>1. req[h].pc \in Confirming /\ req[h].pc \in Decided
  BY DEF Confirming, Decided, Swapped
<1>2. ConfirmStep(h)
  BY DEF RotationInv
<1>3. publicKey # FirstKey /\ req[h].by = publicKey /\ req[h].seen.oldKey # publicKey
  BY <1>1, <1>2 DEF ConfirmStep
<1>4. IsFiniteSet(wrapped')
  BY FS_RemoveElement DEF RotationInv
<1>5. BeforeSwap'
  BY <1>3 DEF BeforeSwap
<1>6. AfterSwap'
  <2>1. \A g \in Slot : req'[g].pc \notin Starting
    BY <1>1, ConfirmOne DEF Starting, Swapped
  <2>2. publicKey \in Key /\ NoKey \notin Key
    BY KeyRotationAssumption DEF RotationInv, TypeInv, TypeOK
  <2>3. /\ rotation'.newKey \in {publicKey, NoKey} /\ rotation'.oldKey # publicKey
        /\ rotation'.confirmations \subseteq {publicKey}
    BY <1>3, <2>2 DEF NoRotation, RotationInv, AfterSwap
  <2> QED BY <1>3, <2>1, <2>3 DEF RotationInv, AfterSwap
<1>7. ASSUME NEW g \in Slot PROVE ConfirmStep(g)'
  <2>1. ConfirmStep(g) /\ (req[g].pc \in Confirming => req[g].by = publicKey)
    BY <1>1, <1>3, ConfirmOne DEF RotationInv
  <2>2. CASE g = h /\ req'[h].pc = "idle"
    BY <2>2 DEF ConfirmStep, Confirming
  <2>3. CASE /\ g = h /\ req'[h].pc \in Swapped
             /\ req'[h].by = req[h].by /\ req'[h].seen = req[h].seen
    BY <1>1, <1>2, <1>3, <2>3 DEF ConfirmStep
  <2>4. CASE g # h
    BY <1>3, <2>1, <2>4 DEF ConfirmStep
  <2> QED BY <2>2, <2>3, <2>4
<1> QED BY <1>1, <1>4, <1>5, <1>6, <1>7, ConfirmStepKeeps DEF Starting, Swapped

LEMMA CompletionKeeps ==
  ASSUME RotationInv, TypeInv', NEW h \in Slot,
         DropWrapped(h) \/ DropRotation(h) \/ DropAlias(h)
  PROVE  RotationInv'
<1> USE DEF RotationInv, TypeInv, Step, Swapped
<1>1. CASE DropWrapped(h)
  BY <1>1, GotoReq, SwappedKeeps DEF DropWrapped
<1>2. CASE DropRotation(h)
  BY <1>2, GotoReq, SwappedKeeps DEF DropRotation
<1>3. CASE DropAlias(h)
  BY <1>3, EndReq, SwappedKeeps DEF DropAlias
<1> QED BY <1>1, <1>2, <1>3

LEMMA TimePassesKeeps ==
  ASSUME RotationInv, TypeInv', TwoDaysPass
  PROVE  RotationInv'
<1>1. /\ rotation'.there /\ rotation.there /\ rotation'.newKey = rotation.newKey
      /\ rotation'.oldKey = rotation.oldKey
      /\ rotation'.confirmations = rotation.confirmations
      /\ UNCHANGED <<publicKey, newPublicKey, alias, wrapped, req>>
  BY DEF TwoDaysPass, RotationInv, TypeInv, TypeOK, Rotation
<1>2. \A g \in Slot : req[g].pc \notin Starting \cup Confirming
  BY StepNames DEF TwoDaysPass
<1>3. BeforeSwap' /\ AfterSwap'
  BY <1>1 DEF RotationInv, BeforeSwap, AfterSwap, UnderWay
<1>4. ASSUME NEW g \in Slot PROVE StartStep(g)' /\ ConfirmStep(g)'
  BY <1>1, <1>2 DEF StartStep, ConfirmStep, Starting
<1> QED BY <1>1, <1>3, <1>4 DEF RotationInv, OneAtATime

LEMMA RotationInit == Init => RotationInv
<1> SUFFICES ASSUME Init PROVE RotationInv
  OBVIOUS
<1>1. TypeInv
  BY TypeInvInit
<1>2. IsFiniteSet(wrapped)
  BY FS_EmptySet, FS_Singleton DEF Init
<1>3. \A h \in Slot : req[h].pc = "idle"
  BY DEF Init, Idle
<1>4. NoRotation.there = FALSE
  BY DEF NoRotation
<1>5. BeforeSwap /\ AfterSwap
  BY <1>4 DEF Init, BeforeSwap, NoneYet, AfterSwap
<1>6. \A h \in Slot : StartStep(h) /\ ConfirmStep(h)
  BY <1>3, StepNames DEF StartStep, ConfirmStep
<1> QED BY <1>1, <1>2, <1>3, <1>5, <1>6, StepNames DEF RotationInv, OneAtATime

LEMMA RotationNext ==
  ASSUME Serialised PROVE RotationInv /\ [Next]_vars => RotationInv'
<1> SUFFICES ASSUME RotationInv, [Next]_vars PROVE RotationInv'
  OBVIOUS
<1>1. TypeInv'
  BY TypeNext DEF RotationInv
<1>2. ASSUME NEW h \in Slot, NEW k \in Key,
             \/ \E n \in Key : RotateStart(h, k, n)
             \/ RotateConfirm(h, k) \/ PutWrappedKey(h, k)
      PROVE  RotationInv'
  BY <1>1, <1>2, StartArrives, ConfirmArrives, StoreArrives
<1>3. ASSUME NEW h \in Slot,
             \/ StoreWrapped(h) \/ CheckRotation(h) \/ PutRotation(h) \/ SetMeta(h)
             \/ PutWrapped(h) \/ PutAlias(h)
      PROVE  RotationInv'
  BY <1>1, <1>3, StoreKeeps, CheckKeeps, PutRotationKeeps, SetMetaKeeps,
     PutWrappedKeeps, PutAliasKeeps
<1>4. ASSUME NEW h \in Slot,
             \/ ReadRotation(h) \/ RecordConfirmation(h) \/ CountDevices(h) \/ SwapKey(h)
             \/ DropWrapped(h) \/ DropRotation(h) \/ DropAlias(h)
      PROVE  RotationInv'
  BY <1>1, <1>4, ReadKeeps, RecordKeeps, CountKeeps, SwapKeeps, CompletionKeeps
<1>5. ASSUME NEW h \in Slot, Abort(h) PROVE RotationInv'
  BY <1>1, <1>5, EndKeeps DEF Abort
<1>6. CASE UNCHANGED vars
  BY <1>1, <1>6, StepsKept
     DEF vars, RotationInv, OneAtATime, BeforeSwap, NoneYet, UnderWay, AfterSwap
<1> QED BY <1>1, <1>2, <1>3, <1>4, <1>5, <1>6, TimePassesKeeps DEF Next

(* The primary key changes in the swap alone.                              *)
LEMMA SwapStep ==
  ASSUME RotationInv, [Next]_vars, publicKey' # publicKey
  PROVE  /\ publicKey' \in wrapped
         /\ \E h \in Slot : publicKey' \in req[h].seen.confirmations
<1>1. PICK h \in Slot : SwapKey(h)
  BY DEF Next, vars, RotateStart, RotateConfirm, PutWrappedKey, Arrive, StoreWrapped,
         CheckRotation, PutRotation, SetMeta, PutWrapped, PutAlias, ReadRotation,
         RecordConfirmation, CountDevices, DropWrapped, DropRotation, DropAlias, Abort,
         TwoDaysPass
<1>2. /\ req[h].pc = "swap key" /\ publicKey' = req[h].seen.newKey
      /\ req[h].seen.newKey # NoKey
  BY <1>1 DEF SwapKey
<1>3. ConfirmStep(h) /\ req[h].pc \in Confirming /\ req[h].pc \in Decided
  BY <1>2 DEF RotationInv, Confirming, Decided
<1> QED BY <1>2, <1>3 DEF ConfirmStep

(* With one rotate-start at a time and confirmations by new keys, the      *)
(* primary key is replaced only by one that confirmed and for which the    *)
(* master key is stored.                                                   *)
THEOREM ConfirmedKeysTakeOver ==
  ASSUME Serialised PROVE Spec => OnlyConfirmedKeysTakeOver
<1> DEFINE Takes == publicKey' # publicKey =>
             /\ publicKey' \in wrapped
             /\ \E h \in Slot : publicKey' \in req[h].seen.confirmations
<1>1. RotationInv /\ [Next]_vars => [Takes]_vars
  BY SwapStep
<1> HIDE DEF Takes
<1>2. Init /\ [][Next]_vars => [][Takes]_vars
  BY <1>1, RotationInit, RotationNext, PTL
<1> QED BY <1>2 DEF Spec, OnlyConfirmedKeysTakeOver, Takes

LEMMA OneElement ==
  ASSUME NEW S, IsFiniteSet(S), NEW x \in S, Cardinality(S) <= 1
  PROVE  S = {x}
<1>1. Cardinality(S) \in Nat
  BY FS_CardinalityType
<1>2. Cardinality(S) # 0
  BY FS_EmptySet
<1>3. Cardinality(S) = 1
  BY <1>1, <1>2
<1>4. PICK y : S = {y}
  BY <1>3, FS_Singleton
<1> QED BY <1>4

(* The code compares numbers; the only key that can confirm is the new     *)
(* one, so that one confirmation equals one wrapped key only when it is    *)
(* the new key's.                                                          *)
LEMMA CountStep ==
  ASSUME RotationInv, [Next]_vars, NEW h \in Slot,
         req[h].pc = "count", req'[h].pc = "swap key"
  PROVE  wrapped \subseteq req[h].seen.confirmations \/ req[h].seen.late
<1>1. TypeOK /\ IsFiniteSet(wrapped)
  BY DEF RotationInv, TypeInv
<1>2. ASSUME NEW g \in Slot, g # h,
             \/ \E s \in Step : Goto(g, s)
             \/ End(g)
      PROVE  FALSE
  BY <1>1, <1>2, GotoReq, EndReq
<1>3. ASSUME NEW g \in Slot, NEW k \in Key,
             \/ \E n \in Key : RotateStart(g, k, n)
             \/ RotateConfirm(g, k) \/ PutWrappedKey(g, k)
      PROVE  FALSE
  BY <1>1, <1>3, ArriveReq DEF RotateStart, RotateConfirm, PutWrappedKey
<1>4. ASSUME NEW g \in Slot,
             \/ StoreWrapped(g) \/ CheckRotation(g) \/ PutRotation(g) \/ SetMeta(g)
             \/ PutWrapped(g) \/ PutAlias(g) \/ RecordConfirmation(g) \/ SwapKey(g)
             \/ DropWrapped(g) \/ DropRotation(g) \/ DropAlias(g)
      PROVE  FALSE
  <2>1. req[g].pc # "count" /\ ((\E s \in Step : Goto(g, s)) \/ End(g))
    BY <1>4 DEF StoreWrapped, CheckRotation, PutRotation, SetMeta, PutWrapped, PutAlias,
                RecordConfirmation, SwapKey, DropWrapped, DropRotation, DropAlias, Step
  <2> QED BY <1>2, <2>1
<1>5. ASSUME NEW g \in Slot, Abort(g) PROVE FALSE
  BY <1>1, <1>2, <1>5, EndReq DEF Abort
<1>6. ASSUME NEW g \in Slot, ReadRotation(g) PROVE FALSE
  BY <1>1, <1>6 DEF ReadRotation, End, TypeOK
<1>7. CASE CountDevices(h)
  <2>1. Confirmed(req[h].seen) \/ req[h].seen.late
    BY <1>1, <1>7, EndReq DEF CountDevices
  <2>2. CASE Confirmed(req[h].seen)
    <3>1. /\ req[h].seen.confirmations = {req[h].by} /\ req[h].by \in wrapped
      BY DEF RotationInv, ConfirmStep, Confirming, Decided
    <3>2. Cardinality(wrapped) <= 1
      BY <1>1, <2>2, <3>1, FS_Singleton, FS_CardinalityType DEF Confirmed
    <3>3. wrapped = {req[h].by}
      BY <1>1, <3>1, <3>2, OneElement
    <3> QED BY <3>1, <3>3
  <2> QED BY <2>1, <2>2
<1>8. ASSUME NEW g \in Slot, g # h, CountDevices(g) PROVE FALSE
  BY <1>2, <1>8 DEF CountDevices, Step
<1>9. ~TwoDaysPass /\ ~UNCHANGED vars
  BY DEF TwoDaysPass, vars
<1> QED
  BY <1>3, <1>4, <1>5, <1>6, <1>7, <1>8, <1>9 DEF Next

(* Under the same conditions a rotation is completed only when every       *)
(* device with a wrapped key has confirmed, or after 48 hours.             *)
THEOREM AllConfirmBeforeCompletion ==
  ASSUME Serialised PROVE Spec => CompletesWhenAllConfirmed
<1> DEFINE Waits == \A h \in Slot :
             req[h].pc = "count" /\ req'[h].pc = "swap key" =>
               wrapped \subseteq req[h].seen.confirmations \/ req[h].seen.late
<1>1. RotationInv /\ [Next]_vars => [Waits]_vars
  BY CountStep
<1> HIDE DEF Waits
<1>2. Init /\ [][Next]_vars => [][Waits]_vars
  BY <1>1, RotationInit, RotationNext, PTL
<1> QED BY <1>2 DEF Spec, CompletesWhenAllConfirmed, Waits

LEMMA WrappedStep ==
  ASSUME RotationInv, [Next]_vars, wrapped # {}
  PROVE  wrapped' # {}
<1>1. CASE wrapped \subseteq wrapped'
  BY <1>1
<1>2. ASSUME NEW h \in Slot, DropWrapped(h) PROVE wrapped' # {}
  <2>1. req[h].by \in wrapped /\ req[h].seen.oldKey # req[h].by
    BY <1>2 DEF DropWrapped, RotationInv, ConfirmStep, Confirming, Decided
  <2> QED BY <1>2, <2>1 DEF DropWrapped
<1>3. wrapped \subseteq wrapped' \/ \E h \in Slot : DropWrapped(h)
  BY DEF Next, vars, RotateStart, RotateConfirm, PutWrappedKey, Arrive, StoreWrapped,
         CheckRotation, PutRotation, SetMeta, PutWrapped, PutAlias, ReadRotation,
         RecordConfirmation, CountDevices, SwapKey, DropRotation, DropAlias, Abort,
         TwoDaysPass
<1> QED BY <1>1, <1>2, <1>3

(* Under the same conditions the wrapped master key is never lost: see     *)
(* MasterKeyKept.                                                          *)
THEOREM MasterKeyIsKept == ASSUME Serialised PROVE Spec => MasterKeyKept
<1> DEFINE Opens == \A k \in Key \ {FirstKey} : Accepted(k) => k \in wrapped
           Stays == wrapped # {} => wrapped' # {}
           Kept  == /\ wrapped # {} => wrapped' # {}
                    /\ \A k \in Key \ {FirstKey} : Accepted(k)' => k \in wrapped'
<1>1. RotationInv => Opens
  BY AcceptedKey
<1>2. RotationInv /\ [Next]_vars => [Stays]_vars
  BY WrappedStep
<1>3. Stays /\ Opens' => Kept
  OBVIOUS
<1> HIDE DEF Opens, Stays, Kept
<1>4. Init /\ [][Next]_vars => [][Kept]_vars
  BY <1>1, <1>2, <1>3, RotationInit, RotationNext, PTL
<1> QED BY <1>4 DEF Spec, MasterKeyKept, Kept

-----------------------------------------------------------------------------
(***************************************************************************)
(* Registration: the types of its records.                                 *)
(***************************************************************************)

Registering == [pc : R!Handler, key : Device \cup {None},
                nonce : Id \cup {None}, github : Name \cup {None}]

Running == [pc : {"idle", "challenged", "waiting", "answered", "saving"},
            answer : R!Answers, nonce : Id \cup {None}, github : Name \cup {None},
            slot : Slot \cup {None}, retried : BOOLEAN]

LEMMA RegistrationRecords == R!NoRequest \in Registering /\ R!Idle \in Running
BY DEF R!NoRequest, R!Idle, Registering, Running, R!Handler, R!Answers

LEMMA RegistrationTypes ==
  R!TypeOK <=>
    /\ challenge \in [Id -> {"unissued", "open", "expired", "used"}]
    /\ tenant \subseteq Device
    /\ claim \in [Name -> Device \cup {None}]
    /\ listed \in [Name -> SUBSET Device]
    /\ cache \in [Name -> (SUBSET Device) \cup {None}]
    /\ post \in [Slot -> Registering]
    /\ setup \in [Device -> Running]
    /\ config \in [Device -> {"local"} \cup Name \cup {None}]
    /\ linked \subseteq Device \X Name
    /\ fresh \in [Slot -> SUBSET Device]
    /\ edits \in 0..MaxEdits /\ deaths \in 0..MaxAborts
BY DEF R!TypeOK, Registering, Running

(* What Goto does to the invocations.                                      *)
LEMMA GotoPost ==
  ASSUME R!TypeOK, NEW h \in Slot, NEW step \in R!Handler, R!Goto(h, step)
  PROVE  /\ post' \in [Slot -> Registering]
         /\ post'[h] = [pc |-> step, key |-> post[h].key,
                        nonce |-> post[h].nonce, github |-> post[h].github]
         /\ \A g \in Slot : g # h => post'[g] = post[g]
         /\ setup' = setup /\ fresh' = fresh
<1>1. post \in [Slot -> Registering] /\ post[h] \in Registering
  BY RegistrationTypes
<1>2. /\ post' = [post EXCEPT ![h] = [post[h] EXCEPT !.pc = step]]
      /\ setup' = setup /\ fresh' = fresh
  BY <1>1 DEF R!Goto
<1>3. [post[h] EXCEPT !.pc = step]
        = [pc |-> step, key |-> post[h].key,
           nonce |-> post[h].nonce, github |-> post[h].github]
  BY <1>1 DEF Registering
<1>4. [post[h] EXCEPT !.pc = step] \in Registering
  BY <1>1, <1>3 DEF Registering
<1> QED BY <1>1, <1>2, <1>3, <1>4

LEMMA ToldIsRecord ==
  ASSUME NEW r \in Running, NEW a, NEW s, NEW x,
         x = [r EXCEPT !.pc = "answered", !.answer = a, !.slot = s]
  PROVE  x = [pc |-> "answered", answer |-> a, nonce |-> r.nonce,
              github |-> r.github, slot |-> s, retried |-> r.retried]
BY DEF Running

(* A device that waits for the invocation of an answer gets it.            *)
LEMMA ReplySetup ==
  ASSUME R!TypeOK, NEW h \in Slot, NEW answer \in R!Answers, R!Reply(h, answer)
  PROVE  /\ setup' \in [Device -> Running]
         /\ \A d \in Device :
              \/ /\ setup[d].pc = "waiting" /\ setup[d].slot = h
                 /\ setup'[d].pc = "answered" /\ setup'[d].answer = answer
                 /\ setup'[d].github = setup[d].github
              \/ /\ ~(setup[d].pc = "waiting" /\ setup[d].slot = h)
                 /\ setup'[d] = setup[d]
<1> DEFINE told(d) == [setup[d] EXCEPT !.pc = "answered", !.answer = answer,
                                       !.slot = None]
<1>1. setup \in [Device -> Running]
  BY RegistrationTypes
<1>2. setup' = [d \in Device |-> IF d \in R!Waits(h) THEN told(d) ELSE setup[d]]
  BY DEF R!Reply
<1>3. ASSUME NEW d \in Device
      PROVE  told(d) = [pc |-> "answered", answer |-> answer,
                        nonce |-> setup[d].nonce, github |-> setup[d].github,
                        slot |-> None, retried |-> setup[d].retried]
  <2>1. setup[d] \in Running
    BY <1>1
  <2> QED BY <2>1, ToldIsRecord
<1>4. \A d \in Device : told(d) \in Running
  BY <1>1, <1>3 DEF Running
<1>5. \A d \in Device : d \in R!Waits(h)
        <=> setup[d].pc = "waiting" /\ setup[d].slot = h
  BY DEF R!Waits
<1>6. \A d \in Device : told(d).pc = "answered" /\ told(d).answer = answer
                        /\ told(d).github = setup[d].github
  BY <1>3
<1> HIDE DEF told
<1> QED BY <1>1, <1>2, <1>4, <1>5, <1>6

LEMMA ReplyPost ==
  ASSUME R!TypeOK, NEW h \in Slot, NEW answer, R!Reply(h, answer)
  PROVE  /\ post' \in [Slot -> Registering]
         /\ post'[h] = R!NoRequest
         /\ \A g \in Slot : g # h => post'[g] = post[g]
         /\ fresh' \in [Slot -> SUBSET Device]
         /\ \A g \in Slot : g # h => fresh'[g] = fresh[g]
<1>1. post \in [Slot -> Registering] /\ fresh \in [Slot -> SUBSET Device]
  BY RegistrationTypes
<1>2. /\ post' = [post EXCEPT ![h] = R!NoRequest]
      /\ fresh' = [fresh EXCEPT ![h] = {}]
  BY DEF R!Reply
<1> QED BY <1>1, <1>2, RegistrationRecords

(* A request that is sent.                                                 *)
LEMMA SentPost ==
  ASSUME R!TypeOK, NEW d \in Device, NEW h \in Slot, NEW g \in Name \cup {None},
         R!SendRegister(d, h, g)
  PROVE  /\ post' \in [Slot -> Registering]
         /\ post[h].pc = "idle"
         /\ post'[h].pc = "challenge" /\ post'[h].key = d /\ post'[h].github = g
         /\ fresh' \in [Slot -> SUBSET Device]
         /\ g \in Name => listed[g] \subseteq fresh'[h]
         /\ \A i \in Slot : i # h => post'[i] = post[i] /\ fresh'[i] = fresh[i]
<1> DEFINE request == [pc |-> "challenge", key |-> d,
                       nonce |-> setup[d].nonce, github |-> g]
           keys == IF g = None THEN {} ELSE listed[g]
<1>1. /\ post \in [Slot -> Registering] /\ fresh \in [Slot -> SUBSET Device]
      /\ setup \in [Device -> Running] /\ listed \in [Name -> SUBSET Device]
  BY RegistrationTypes
<1>2. /\ post[h].pc = "idle" /\ post' = [post EXCEPT ![h] = request]
      /\ fresh' = [fresh EXCEPT ![h] = keys]
  BY DEF R!SendRegister
<1>3. request \in Registering
  <2>1. setup[d].nonce \in Id \cup {None}
    BY <1>1 DEF Running
  <2> QED BY <2>1 DEF Registering, R!Handler
<1>4. keys \in SUBSET Device /\ (g \in Name => keys = listed[g])
  BY <1>1, AccountsAssumption
<1>5. request.pc = "challenge" /\ request.key = d /\ request.github = g
  OBVIOUS
<1> HIDE DEF request, keys
<1> QED BY <1>1, <1>2, <1>3, <1>4, <1>5

-----------------------------------------------------------------------------
(***************************************************************************)
(* Registration: what a device was told is so on the server.  A device     *)
(* that waits is the one its invocation works for, an invocation that has  *)
(* the name has its claim, and what has been granted stays granted, since  *)
(* tenants and links are only added and a claimed name changes no hands.   *)
(***************************************************************************)

Granted(d, g) ==
  IF g = None THEN d \in tenant ELSE claim[g] = d \/ <<d, g>> \in linked

AnsweredTruly(d) ==
  /\ setup[d].pc = "waiting" =>
       /\ setup[d].slot \in Slot
       /\ post[setup[d].slot].pc # "idle"
       /\ post[setup[d].slot].key = d
       /\ post[setup[d].slot].github = setup[d].github
  /\ setup[d].pc = "answered" /\ setup[d].answer \in {"created", "linked"}
       => Granted(d, setup[d].github)
  /\ setup[d].pc = "saving" => Granted(d, setup[d].github)

WithName == {"verify", "lookup", "fresh", "notify", "claim", "associate"}

Handled(h) ==
  /\ post[h].pc # "idle" => post[h].key \in Device
  /\ post[h].pc \in WithName => post[h].github \in Name
  /\ post[h].pc = "associate" => claim[post[h].github] = post[h].key
  /\ post[h].github \in Name => listed[post[h].github] \subseteq fresh[h]
  /\ post[h].pc = "notify" => post[h].key \in fresh[h]

Truthful == (\A d \in Device : AnsweredTruly(d)) /\ (\A h \in Slot : Handled(h))

RegistrationInv == R!TypeOK /\ Truthful /\ R!ConfigIsTrue

(* What the server's records do in every step.                             *)
Grows ==
  /\ tenant \subseteq tenant' /\ linked \subseteq linked'
  /\ \A g \in Name : claim[g] # None => claim'[g] = claim[g]

LEMMA GrantedStays ==
  ASSUME Grows, NEW d \in Device, NEW g \in Name \cup {None}, Granted(d, g)
  PROVE  Granted(d, g)'
BY AccountsAssumption DEF Grows, Granted

LEMMA RegistrationInit == R!Init => RegistrationInv
<1> SUFFICES ASSUME R!Init PROVE RegistrationInv
  OBVIOUS
<1>1. R!TypeOK
  <2>1. post \in [Slot -> Registering] /\ setup \in [Device -> Running]
    BY RegistrationRecords DEF R!Init
  <2>2. /\ challenge \in [Id -> {"unissued", "open", "expired", "used"}]
        /\ tenant \subseteq Device /\ linked \subseteq Device \X Name
        /\ claim \in [Name -> Device \cup {None}]
        /\ config \in [Device -> {"local"} \cup Name \cup {None}]
    BY DEF R!Init
  <2>3. cache \in [Name -> (SUBSET Device) \cup {None}]
    BY DEF R!Init
  <2>4. listed \in [Name -> SUBSET Device] /\ fresh \in [Slot -> SUBSET Device]
    BY DEF R!Init
  <2>5. edits \in 0..MaxEdits /\ deaths \in 0..MaxAborts
    BY AccountsAssumption DEF R!Init
  <2> QED BY <2>1, <2>2, <2>3, <2>4, <2>5, RegistrationTypes
<1>2. Truthful
  BY AccountsAssumption
     DEF R!Init, R!Idle, R!NoRequest, Truthful, AnsweredTruly, Handled, WithName
<1>3. R!ConfigIsTrue
  BY AccountsAssumption DEF R!Init, R!ConfigIsTrue
<1> QED BY <1>1, <1>2, <1>3 DEF RegistrationInv

(* An answer keeps it so when it grants nothing or what it says.           *)
LEMMA ReplyKeeps ==
  ASSUME RegistrationInv, Grows, listed' = listed,
         NEW h \in Slot, NEW answer \in R!Answers, R!Reply(h, answer),
         answer \in {"created", "linked"} =>
           \A d \in Device, g \in Name \cup {None} :
             d = post[h].key /\ g = post[h].github => Granted(d, g)'
  PROVE  Truthful'
<1>1. R!TypeOK /\ Truthful
  BY DEF RegistrationInv
<1>2. /\ post'[h] = R!NoRequest
      /\ \A g \in Slot : g # h => post'[g] = post[g] /\ fresh'[g] = fresh[g]
  BY <1>1, ReplyPost
<1>3. ASSUME NEW i \in Slot PROVE Handled(i)'
  <2>1. CASE i = h
    BY <1>2, <2>1, AccountsAssumption DEF Handled, R!NoRequest, WithName
  <2>2. CASE i # h
    <3>1. Handled(i) /\ post'[i] = post[i] /\ fresh'[i] = fresh[i]
      BY <1>1, <1>2, <2>2 DEF Truthful
    <3>2. post[i].pc = "associate" => claim'[post[i].github] = claim[post[i].github]
      BY <3>1, AccountsAssumption DEF Handled, Grows, WithName
    <3> QED BY <3>1, <3>2 DEF Handled
  <2> QED BY <2>1, <2>2
<1>4. ASSUME NEW d \in Device PROVE AnsweredTruly(d)'
  <2>1. AnsweredTruly(d) /\ setup[d].github \in Name \cup {None}
    BY <1>1, RegistrationTypes DEF Truthful, Running
  <2>2. CASE /\ setup[d].pc = "waiting" /\ setup[d].slot = h
             /\ setup'[d].pc = "answered" /\ setup'[d].answer = answer
             /\ setup'[d].github = setup[d].github
    <3>1. post[h].key = d /\ post[h].github = setup[d].github
      BY <2>1, <2>2 DEF AnsweredTruly
    <3>2. answer \in {"created", "linked"} =>
            \A g \in Name \cup {None} : g = setup[d].github => Granted(d, g)'
      BY <3>1
    <3> QED BY <2>1, <2>2, <3>2 DEF AnsweredTruly, Granted
  <2>3. CASE /\ ~(setup[d].pc = "waiting" /\ setup[d].slot = h)
             /\ setup'[d] = setup[d]
    <3>1. \A g \in Name \cup {None} : Granted(d, g) => Granted(d, g)'
      BY GrantedStays
    <3>2. setup[d].pc = "waiting" => post'[setup[d].slot] = post[setup[d].slot]
      BY <1>2, <2>1, <2>3 DEF AnsweredTruly
    <3> QED BY <2>1, <2>3, <3>1, <3>2 DEF AnsweredTruly, Granted
  <2> QED BY <1>1, <2>2, <2>3, ReplySetup
<1> QED BY <1>3, <1>4 DEF Truthful

(* A step of an invocation that does not answer yet.                       *)
LEMMA GotoKeeps ==
  ASSUME RegistrationInv, Grows, listed' = listed,
         NEW h \in Slot, NEW step \in R!Handler \ {"idle"}, R!Goto(h, step),
         post[h].pc # "idle",
         step \in WithName => post[h].github \in Name,
         step = "associate" => claim'[post[h].github] = post[h].key,
         step = "notify" => post[h].key \in fresh[h]
  PROVE  Truthful'
<1>1. R!TypeOK /\ Truthful
  BY DEF RegistrationInv
<1>2. /\ post'[h].pc = step /\ post'[h].key = post[h].key
      /\ post'[h].github = post[h].github
      /\ \A g \in Slot : g # h => post'[g] = post[g]
      /\ setup' = setup /\ fresh' = fresh
  <2>1. step \in R!Handler
    OBVIOUS
  <2>2. /\ post'[h] = [pc |-> step, key |-> post[h].key,
                       nonce |-> post[h].nonce, github |-> post[h].github]
        /\ \A g \in Slot : g # h => post'[g] = post[g]
        /\ setup' = setup /\ fresh' = fresh
    BY <1>1, <2>1, GotoPost
  <2> QED BY <2>2
<1>3. ASSUME NEW i \in Slot PROVE Handled(i)'
  <2>0. Handled(i)
    BY <1>1 DEF Truthful
  <2>1. CASE i = h
    BY <1>2, <2>0, <2>1 DEF Handled
  <2>2. CASE i # h
    <3>1. post'[i] = post[i]
      BY <1>2, <2>2
    <3>2. post[i].pc = "associate" => claim'[post[i].github] = claim[post[i].github]
      BY <2>0, AccountsAssumption DEF Handled, Grows, WithName
    <3> QED BY <1>2, <2>0, <3>1, <3>2 DEF Handled
  <2> QED BY <2>1, <2>2
<1>4. ASSUME NEW d \in Device PROVE AnsweredTruly(d)'
  <2>1. AnsweredTruly(d) /\ setup[d].github \in Name \cup {None}
    BY <1>1, RegistrationTypes DEF Truthful, Running
  <2>2. \A g \in Name \cup {None} : Granted(d, g) => Granted(d, g)'
    BY GrantedStays
  <2>3. setup[d].pc = "waiting" =>
          /\ post'[setup[d].slot].pc # "idle"
          /\ post'[setup[d].slot].key = d
          /\ post'[setup[d].slot].github = setup[d].github
    BY <1>2, <2>1 DEF AnsweredTruly
  <2> QED BY <1>2, <2>1, <2>2, <2>3 DEF AnsweredTruly, Granted
<1> QED BY <1>3, <1>4 DEF Truthful

(* A step of the command on one device leaves the others as they are.      *)
LEMMA ClientKeeps ==
  ASSUME RegistrationInv, UNCHANGED <<tenant, claim, linked, listed>>,
         NEW d \in Device, AnsweredTruly(d)',
         \A e \in Device : e # d => setup'[e] = setup[e],
         \A i \in Slot : post[i].pc # "idle" => post'[i] = post[i],
         \A i \in Slot : Handled(i)'
  PROVE  Truthful'
<1> SUFFICES ASSUME NEW e \in Device, e # d PROVE AnsweredTruly(e)'
  BY DEF Truthful
<1>1. AnsweredTruly(e) /\ setup'[e] = setup[e]
  BY DEF RegistrationInv, Truthful
<1>2. setup[e].pc = "waiting" => post'[setup[e].slot] = post[setup[e].slot]
  BY <1>1 DEF AnsweredTruly
<1> QED BY <1>1, <1>2 DEF AnsweredTruly, Granted

LEMMA HandledStays ==
  ASSUME NEW i \in Slot, Handled(i), post'[i] = post[i], fresh'[i] = fresh[i],
         claim' = claim, listed' = listed
  PROVE  Handled(i)'
BY DEF Handled

LEMMA ChallengedIsRecord ==
  ASSUME NEW n, NEW g, NEW p, NEW x,
         x = [R!Idle EXCEPT !.pc = p, !.nonce = n, !.github = g]
  PROVE  x = [pc |-> p, answer |-> "error", nonce |-> n, github |-> g,
              slot |-> None, retried |-> FALSE]
<1>1. PICK i \in Running : i = R!Idle
  BY RegistrationRecords
<1>2. x = [i EXCEPT !.pc = p, !.nonce = n, !.github = g]
  BY <1>1
<1>3. x = [pc |-> p, answer |-> i.answer, nonce |-> n, github |-> g,
           slot |-> i.slot, retried |-> i.retried]
  BY <1>2 DEF Running
<1> QED BY <1>1, <1>3 DEF R!Idle

(* What the command does when it sends a request.                          *)
LEMMA SendingIsRecord ==
  ASSUME NEW r \in Running, NEW h, NEW x,
         x = [r EXCEPT !.pc = "waiting", !.slot = h]
  PROVE  x = [pc |-> "waiting", answer |-> r.answer, nonce |-> r.nonce,
              github |-> r.github, slot |-> h, retried |-> r.retried]
BY DEF Running

LEMMA ResendingIsRecord ==
  ASSUME NEW r \in Running, NEW h, NEW b, NEW g, NEW x,
         x = [r EXCEPT !.pc = "waiting", !.slot = h, !.retried = b, !.github = g]
  PROVE  x = [pc |-> "waiting", answer |-> r.answer, nonce |-> r.nonce,
              github |-> g, slot |-> h, retried |-> b]
BY DEF Running

LEMMA GetChallengeStep ==
  ASSUME RegistrationInv, NEW d \in Device, NEW n \in Id, NEW g \in Name \cup {None},
         R!GetChallenge(d, n, g)
  PROVE  R!TypeOK' /\ Truthful'
<1> DEFINE running == [R!Idle EXCEPT !.pc = "challenged", !.nonce = n, !.github = g]
<1>1. R!TypeOK
  BY DEF RegistrationInv
<1>2. /\ challenge' = [challenge EXCEPT ![n] = "open"]
      /\ setup' = [setup EXCEPT ![d] = running]
      /\ UNCHANGED <<post, config, fresh, tenant, claim, listed, cache, linked,
                     edits, deaths>>
  BY DEF R!GetChallenge, R!server
<1>3. running = [pc |-> "challenged", answer |-> "error", nonce |-> n, github |-> g,
                 slot |-> None, retried |-> FALSE]
  BY ChallengedIsRecord
<1>4. running \in Running /\ running.pc = "challenged"
  BY <1>3 DEF Running, R!Answers
<1> HIDE DEF running
<1>5. setup \in [Device -> Running]
  BY <1>1, RegistrationTypes
<1>6. R!TypeOK'
  <2>1. setup' \in [Device -> Running]
    BY <1>2, <1>4, <1>5
  <2>2. challenge' \in [Id -> {"unissued", "open", "expired", "used"}]
    BY <1>1, <1>2, RegistrationTypes
  <2> QED BY <1>1, <1>2, <2>1, <2>2 DEF R!TypeOK, Registering, Running
<1>7. AnsweredTruly(d)'
  BY <1>2, <1>4, <1>5 DEF AnsweredTruly
<1>8. \A i \in Slot : Handled(i)'
  BY <1>2, HandledStays DEF RegistrationInv, Truthful
<1>9. \A e \in Device : e # d => setup'[e] = setup[e]
  BY <1>2, <1>5
<1> QED BY <1>2, <1>6, <1>7, <1>8, <1>9, ClientKeeps

(* A request goes out, with the account's name or without.                 *)
LEMMA WaitingIsRecord ==
  ASSUME NEW r \in Running, NEW h \in Slot, NEW b \in BOOLEAN,
         NEW g \in Name \cup {None}, NEW x,
         x = [pc |-> "waiting", answer |-> r.answer, nonce |-> r.nonce,
              github |-> g, slot |-> h, retried |-> b]
  PROVE  x \in Running
BY DEF Running

LEMMA SentKeeps ==
  ASSUME RegistrationInv, NEW d \in Device, NEW h \in Slot,
         NEW g \in Name \cup {None}, R!SendRegister(d, h, g),
         NEW running \in Running, setup' = [setup EXCEPT ![d] = running],
         running.pc = "waiting", running.slot = h, running.github = g,
         UNCHANGED <<challenge, config, tenant, claim, listed, cache, linked,
                     edits, deaths>>
  PROVE  R!TypeOK' /\ Truthful'
<1>1. R!TypeOK /\ Truthful
  BY DEF RegistrationInv
<1>2. /\ post' \in [Slot -> Registering]
      /\ post[h].pc = "idle"
      /\ post'[h].pc = "challenge" /\ post'[h].key = d /\ post'[h].github = g
      /\ fresh' \in [Slot -> SUBSET Device]
      /\ g \in Name => listed[g] \subseteq fresh'[h]
      /\ \A i \in Slot : i # h => post'[i] = post[i] /\ fresh'[i] = fresh[i]
  BY <1>1, SentPost
<1>3. setup \in [Device -> Running]
  BY <1>1, RegistrationTypes
<1>4. R!TypeOK'
  <2>1. setup' \in [Device -> Running]
    BY <1>3
  <2> QED BY <1>1, <1>2, <2>1 DEF R!TypeOK, Registering, Running
<1>5. AnsweredTruly(d)'
  BY <1>2, <1>3 DEF AnsweredTruly
<1>6. ASSUME NEW i \in Slot PROVE Handled(i)'
  <2>1. CASE i = h
    BY <1>2, <2>1 DEF Handled, WithName
  <2>2. CASE i # h
    BY <1>1, <1>2, <2>2, HandledStays DEF Truthful
  <2> QED BY <2>1, <2>2
<1>7. \A i \in Slot : post[i].pc # "idle" => post'[i] = post[i]
  BY <1>2
<1>8. \A e \in Device : e # d => setup'[e] = setup[e]
  BY <1>3
<1> QED BY <1>4, <1>5, <1>6, <1>7, <1>8, ClientKeeps

LEMMA RegisterStep ==
  ASSUME RegistrationInv, NEW d \in Device, NEW h \in Slot, R!Register(d, h)
  PROVE  R!TypeOK' /\ Truthful'
<1> DEFINE r == setup[d]
           running == [r EXCEPT !.pc = "waiting", !.slot = h]
<1>1. setup \in [Device -> Running] /\ r \in Running
  BY RegistrationTypes DEF RegistrationInv
<1>2. /\ R!SendRegister(d, h, r.github) /\ setup' = [setup EXCEPT ![d] = running]
      /\ UNCHANGED <<challenge, config, tenant, claim, listed, cache, linked,
                     edits, deaths>>
  BY <1>1 DEF R!Register, R!server
<1>3. running = [pc |-> "waiting", answer |-> r.answer, nonce |-> r.nonce,
                 github |-> r.github, slot |-> h, retried |-> r.retried]
  BY <1>1, SendingIsRecord
<1>4. r.github \in Name \cup {None} /\ r.retried \in BOOLEAN
  BY <1>1 DEF Running
<1>5. /\ running \in Running /\ running.pc = "waiting"
      /\ running.slot = h /\ running.github = r.github
  BY <1>1, <1>3, <1>4, WaitingIsRecord
<1> HIDE DEF running, r
<1> QED BY <1>2, <1>4, <1>5, SentKeeps

LEMMA RetryStep ==
  ASSUME RegistrationInv, NEW d \in Device, NEW h \in Slot,
         R!RetryWithoutGitHub(d, h)
  PROVE  R!TypeOK' /\ Truthful'
<1> DEFINE r == setup[d]
           running == [r EXCEPT !.pc = "waiting", !.slot = h, !.retried = TRUE,
                                !.github = None]
<1>1. setup \in [Device -> Running] /\ r \in Running
  BY RegistrationTypes DEF RegistrationInv
<1>2. /\ R!SendRegister(d, h, None) /\ setup' = [setup EXCEPT ![d] = running]
      /\ UNCHANGED <<challenge, config, tenant, claim, listed, cache, linked,
                     edits, deaths>>
  BY <1>1 DEF R!RetryWithoutGitHub, R!server
<1>3. running = [pc |-> "waiting", answer |-> r.answer, nonce |-> r.nonce,
                 github |-> None, slot |-> h, retried |-> TRUE]
  BY <1>1, ResendingIsRecord
<1>4. /\ running \in Running /\ running.pc = "waiting"
      /\ running.slot = h /\ running.github = None
  BY <1>1, <1>3, WaitingIsRecord
<1> HIDE DEF running, r
<1> QED BY <1>2, <1>4, SentKeeps

LEMMA SavingIsRecord ==
  ASSUME NEW g, NEW p, NEW x, x = [R!Idle EXCEPT !.pc = p, !.github = g]
  PROVE  x = [pc |-> p, answer |-> "error", nonce |-> None, github |-> g,
              slot |-> None, retried |-> FALSE]
<1>1. PICK i \in Running : i = R!Idle
  BY RegistrationRecords
<1>2. x = [i EXCEPT !.pc = p, !.github = g]
  BY <1>1
<1>3. x = [pc |-> p, answer |-> i.answer, nonce |-> i.nonce, github |-> g,
           slot |-> i.slot, retried |-> i.retried]
  BY <1>2 DEF Running
<1> QED BY <1>1, <1>3 DEF R!Idle

(* An answer that is good is written down next; any other ends the command. *)
LEMMA ReadAnswerStep ==
  ASSUME RegistrationInv, NEW d \in Device, R!ReadAnswer(d)
  PROVE  R!TypeOK' /\ Truthful'
<1> DEFINE saves == [R!Idle EXCEPT !.pc = "saving", !.github = setup[d].github]
           running == IF setup[d].answer \in {"created", "linked"}
                      THEN saves ELSE R!Idle
<1>1. R!TypeOK /\ setup \in [Device -> Running] /\ setup[d] \in Running
  BY RegistrationTypes DEF RegistrationInv
<1>2. /\ setup[d].pc = "answered" /\ setup' = [setup EXCEPT ![d] = running]
      /\ UNCHANGED <<challenge, post, config, fresh, tenant, claim, listed, cache,
                     linked, edits, deaths>>
  BY <1>1 DEF R!ReadAnswer, R!server
<1>3. saves = [pc |-> "saving", answer |-> "error", nonce |-> None,
               github |-> setup[d].github, slot |-> None, retried |-> FALSE]
  BY SavingIsRecord
<1>4. saves \in Running
  BY <1>1, <1>3 DEF Running, R!Answers
<1>5. /\ saves.pc = "saving" /\ saves.github = setup[d].github
      /\ R!Idle \in Running /\ R!Idle.pc = "idle"
  BY <1>3, RegistrationRecords DEF R!Idle
<1> HIDE DEF saves
<1>6. running \in Running /\ (running.pc = "idle" \/ running = saves)
  BY <1>4, <1>5
<1>7. running = saves => setup[d].answer \in {"created", "linked"} \/ saves = R!Idle
  OBVIOUS
<1> HIDE DEF running
<1>8. R!TypeOK'
  <2>1. setup' \in [Device -> Running]
    BY <1>1, <1>2, <1>6
  <2> QED BY <1>1, <1>2, <2>1 DEF R!TypeOK, Registering, Running
<1>9. AnsweredTruly(d)'
  <2>1. AnsweredTruly(d) /\ setup'[d] = running
    BY <1>1, <1>2 DEF RegistrationInv, Truthful
  <2>2. CASE running.pc = "idle"
    BY <2>1, <2>2 DEF AnsweredTruly
  <2>3. CASE running = saves /\ running.pc # "idle"
    <3>1. Granted(d, setup[d].github)
      BY <1>2, <1>5, <1>7, <2>1, <2>3 DEF AnsweredTruly
    <3>2. setup'[d].pc = "saving" /\ setup'[d].github = setup[d].github
      BY <1>5, <2>1, <2>3
    <3> QED BY <1>2, <3>1, <3>2 DEF AnsweredTruly, Granted
  <2> QED BY <1>6, <2>2, <2>3
<1>10. \A i \in Slot : Handled(i)'
  BY <1>2, HandledStays DEF RegistrationInv, Truthful
<1>11. \A e \in Device : e # d => setup'[e] = setup[e]
  BY <1>1, <1>2
<1> QED BY <1>2, <1>8, <1>9, <1>10, <1>11, ClientKeeps

(* The command ends.                                                       *)
LEMMA LeavesKeeps ==
  ASSUME RegistrationInv, NEW d \in Device, setup' = [setup EXCEPT ![d] = R!Idle],
         UNCHANGED <<post, fresh, tenant, claim, linked, listed>>
  PROVE  setup' \in [Device -> Running] /\ Truthful'
<1>1. setup \in [Device -> Running]
  BY RegistrationTypes DEF RegistrationInv
<1>2. AnsweredTruly(d)'
  BY <1>1 DEF AnsweredTruly, R!Idle
<1>3. \A i \in Slot : Handled(i)'
  BY HandledStays DEF RegistrationInv, Truthful
<1>4. setup' \in [Device -> Running] /\ \A e \in Device : e # d => setup'[e] = setup[e]
  BY <1>1, RegistrationRecords
<1> QED BY <1>2, <1>3, <1>4, ClientKeeps

LEMMA GiveUpStep ==
  ASSUME RegistrationInv, NEW d \in Device, R!GiveUp(d)
  PROVE  R!TypeOK' /\ Truthful'
<1>1. /\ setup' = [setup EXCEPT ![d] = R!Idle]
      /\ UNCHANGED <<challenge, post, config, fresh, tenant, claim, listed, cache,
                     linked, edits, deaths>>
  BY DEF R!GiveUp, R!server
<1>2. setup' \in [Device -> Running] /\ Truthful'
  BY <1>1, LeavesKeeps
<1> QED BY <1>1, <1>2 DEF RegistrationInv, R!TypeOK, Registering, Running

LEMMA SaveConfigStep ==
  ASSUME RegistrationInv, NEW d \in Device, R!SaveConfig(d)
  PROVE  R!TypeOK' /\ Truthful' /\ R!ConfigIsTrue'
<1> DEFINE saved == IF setup[d].github = None /\ config[d] \in Name
                    THEN config[d] ELSE setup[d].github
<1>1. /\ config \in [Device -> {"local"} \cup Name \cup {None}]
      /\ setup \in [Device -> Running] /\ setup[d].github \in Name \cup {None}
  BY RegistrationTypes DEF RegistrationInv, Running
<1>2. /\ setup[d].pc = "saving" /\ setup' = [setup EXCEPT ![d] = R!Idle]
      /\ config' = [config EXCEPT ![d] = saved]
      /\ UNCHANGED <<challenge, post, fresh, tenant, claim, listed, cache, linked,
                     edits, deaths>>
  BY <1>1 DEF R!SaveConfig, R!server
<1>3. setup' \in [Device -> Running] /\ Truthful'
  BY <1>2, LeavesKeeps
<1>4. Granted(d, setup[d].github)
  BY <1>2 DEF RegistrationInv, Truthful, AnsweredTruly
<1>5. saved \in Name \cup {None}
  BY <1>1
<1>6. /\ saved = None => d \in tenant
      /\ saved \in Name => claim[saved] = d \/ <<d, saved>> \in linked
  BY <1>1, <1>4, AccountsAssumption DEF Granted, RegistrationInv, R!ConfigIsTrue
<1> HIDE DEF saved
<1>7. R!TypeOK'
  <2>1. config' \in [Device -> {"local"} \cup Name \cup {None}]
    BY <1>1, <1>2, <1>5
  <2> QED BY <1>2, <1>3, <2>1 DEF RegistrationInv, R!TypeOK, Registering, Running
<1>8. ASSUME NEW e \in Device
      PROVE  /\ config'[e] = None => e \in tenant
             /\ config'[e] \in Name =>
                  claim[config'[e]] = e \/ <<e, config'[e]>> \in linked
  <2>1. CASE e = d
    BY <1>1, <1>2, <1>6, <2>1
  <2>2. CASE e # d
    BY <1>1, <1>2, <2>2 DEF RegistrationInv, R!ConfigIsTrue
  <2> QED BY <2>1, <2>2
<1>9. R!ConfigIsTrue'
  BY <1>2, <1>8 DEF R!ConfigIsTrue
<1> QED BY <1>3, <1>7, <1>9

-----------------------------------------------------------------------------
(* The handler.                                                            *)

LEMMA ConfigStays ==
  ASSUME RegistrationInv, Grows, config' = config PROVE R!ConfigIsTrue'
<1> SUFFICES ASSUME NEW d \in Device
             PROVE  /\ config[d] = None => d \in tenant'
                    /\ config[d] \in Name =>
                         claim'[config[d]] = d \/ <<d, config[d]>> \in linked'
  BY DEF R!ConfigIsTrue
<1> QED BY AccountsAssumption DEF RegistrationInv, R!ConfigIsTrue, Grows

ServerTypes ==
  /\ challenge \in [Id -> {"unissued", "open", "expired", "used"}]
  /\ tenant \subseteq Device /\ linked \subseteq Device \X Name
  /\ claim \in [Name -> Device \cup {None}]
  /\ cache \in [Name -> (SUBSET Device) \cup {None}]
  /\ deaths \in 0..MaxAborts

(* The step after an answer, and the step to another call.                 *)
LEMMA AnswerStep ==
  ASSUME RegistrationInv, Grows, UNCHANGED <<listed, edits, config>>,
         NEW h \in Slot, NEW answer \in R!Answers, R!Reply(h, answer),
         answer \in {"created", "linked"} =>
           \A d \in Device, g \in Name \cup {None} :
             d = post[h].key /\ g = post[h].github => Granted(d, g)',
         ServerTypes'
  PROVE  RegistrationInv'
<1>1. R!TypeOK
  BY DEF RegistrationInv
<1>2. R!TypeOK'
  <2>1. post' \in [Slot -> Registering] /\ fresh' \in [Slot -> SUBSET Device]
    BY <1>1, ReplyPost
  <2>2. setup' \in [Device -> Running]
    BY <1>1, ReplySetup
  <2> QED BY <1>1, <2>1, <2>2 DEF R!TypeOK, Registering, Running, ServerTypes
<1> QED BY <1>2, ReplyKeeps, ConfigStays DEF RegistrationInv

LEMMA CallStep ==
  ASSUME RegistrationInv, Grows, UNCHANGED <<listed, edits, config>>,
         NEW h \in Slot, NEW step \in R!Handler \ {"idle"}, R!Goto(h, step),
         post[h].pc # "idle",
         step \in WithName => post[h].github \in Name,
         step = "associate" => claim'[post[h].github] = post[h].key,
         step = "notify" => post[h].key \in fresh[h],
         ServerTypes'
  PROVE  RegistrationInv'
<1>1. R!TypeOK /\ step \in R!Handler
  BY DEF RegistrationInv
<1>2. R!TypeOK'
  <2>1. post' \in [Slot -> Registering] /\ setup' = setup /\ fresh' = fresh
    BY <1>1, GotoPost
  <2> QED BY <1>1, <2>1 DEF R!TypeOK, Registering, Running, ServerTypes
<1> QED BY <1>2, GotoKeeps, ConfigStays DEF RegistrationInv

LEMMA ConsumeChallengeStep ==
  ASSUME RegistrationInv, NEW h \in Slot, R!ConsumeChallenge(h)
  PROVE  RegistrationInv'
<1> DEFINE step == IF post[h].github = None THEN "tenant" ELSE "verify"
<1>1. R!TypeOK /\ Handled(h)
  BY DEF RegistrationInv, Truthful
<1>2. /\ post[h].pc = "challenge"
      /\ challenge' = [challenge EXCEPT ![post[h].nonce] = "used"]
      /\ UNCHANGED <<tenant, claim, cache, linked, deaths, config, listed, edits>>
  BY DEF R!ConsumeChallenge, R!client
<1>3. ServerTypes'
  BY <1>1, <1>2 DEF R!TypeOK, ServerTypes
<1>4. Grows
  BY <1>2 DEF Grows
<1>5. post[h].github \in Name \cup {None}
  BY <1>1, RegistrationTypes DEF Registering
<1>6. step \in {"tenant", "verify"} /\ (step = "verify" => post[h].github \in Name)
  BY <1>5
<1>7. R!Goto(h, step) \/ R!Reply(h, "bad challenge")
  BY DEF R!ConsumeChallenge
<1> HIDE DEF step
<1>8. CASE R!Goto(h, step)
  <2>1. step \in R!Handler \ {"idle"} /\ step # "associate" /\ step # "notify"
    BY <1>6 DEF R!Handler
  <2>2. step \in WithName => post[h].github \in Name
    BY <1>6 DEF WithName
  <2> QED BY <1>2, <1>3, <1>4, <1>8, <2>1, <2>2, CallStep
<1>9. CASE R!Reply(h, "bad challenge")
  <2>1. "bad challenge" \in R!Answers
    BY DEF R!Answers
  <2> QED BY <1>2, <1>3, <1>4, <1>9, <2>1, AnswerStep
<1> QED BY <1>7, <1>8, <1>9

LEMMA VerifyStep ==
  ASSUME RegistrationInv, NEW h \in Slot, R!VerifyOnGitHub(h)
  PROVE  RegistrationInv'
<1>1. R!TypeOK /\ Handled(h)
  BY DEF RegistrationInv, Truthful
<1>2. PICK reachable \in BOOLEAN :
        /\ post[h].pc = "verify"
        /\ cache' = [cache EXCEPT ![post[h].github] =
             IF cache[post[h].github] = None /\ reachable
             THEN listed[post[h].github] ELSE cache[post[h].github]]
        /\ R!Goto(h, "lookup") \/ R!Reply(h, "unverified")
        /\ UNCHANGED <<challenge, tenant, claim, linked, deaths, config, listed, edits>>
  BY <1>1, RegistrationTypes DEF R!VerifyOnGitHub, R!client, Handled, WithName
<1>3. post[h].github \in Name
  BY <1>1, <1>2 DEF Handled, WithName
<1>4. ServerTypes'
  <2>1. cache' \in [Name -> (SUBSET Device) \cup {None}]
    <3> DEFINE keys == IF cache[post[h].github] = None /\ reachable
                       THEN listed[post[h].github] ELSE cache[post[h].github]
    <3>1. cache \in [Name -> (SUBSET Device) \cup {None}]
      BY <1>1, RegistrationTypes
    <3>2. keys \in (SUBSET Device) \cup {None}
      BY <1>1, <1>3, RegistrationTypes
    <3>3. cache' = [cache EXCEPT ![post[h].github] = keys]
      BY <1>2
    <3> HIDE DEF keys
    <3> QED BY <1>3, <3>1, <3>2, <3>3
  <2> QED BY <1>1, <1>2, <2>1 DEF R!TypeOK, ServerTypes
<1>5. Grows
  BY <1>2 DEF Grows
<1>6. CASE R!Goto(h, "lookup")
  <2>1. "lookup" \in R!Handler \ {"idle"}
    BY DEF R!Handler
  <2> QED BY <1>2, <1>3, <1>4, <1>5, <1>6, <2>1, CallStep
<1>7. CASE R!Reply(h, "unverified")
  <2>1. "unverified" \in R!Answers
    BY DEF R!Answers
  <2> QED BY <1>2, <1>4, <1>5, <1>7, <2>1, AnswerStep
<1> QED BY <1>2, <1>6, <1>7

LEMMA FindTenantStep ==
  ASSUME RegistrationInv, NEW h \in Slot, R!FindTenantByGitHub(h)
  PROVE  RegistrationInv'
<1> DEFINE step == IF claim[post[h].github] = None THEN "tenant" ELSE "fresh"
<1>1. R!TypeOK /\ Handled(h)
  BY DEF RegistrationInv, Truthful
<1>2. /\ post[h].pc = "lookup" /\ R!Goto(h, step)
      /\ UNCHANGED <<challenge, tenant, claim, cache, linked, deaths, config,
                     listed, edits>>
  BY DEF R!FindTenantByGitHub, R!client
<1>3. step \in {"tenant", "fresh"}
  OBVIOUS
<1> HIDE DEF step
<1>4. step \in R!Handler \ {"idle"} /\ step # "associate" /\ step # "notify"
  BY <1>3 DEF R!Handler
<1>5. post[h].github \in Name
  BY <1>1, <1>2 DEF Handled, WithName
<1>6. ServerTypes' /\ Grows
  BY <1>1, <1>2 DEF R!TypeOK, ServerTypes, Grows
<1> QED BY <1>2, <1>4, <1>5, <1>6, CallStep

(* The list that lets a key through is the one GitHub shows at that moment. *)
LEMMA CheckFreshStep ==
  ASSUME RegistrationInv, NEW h \in Slot, R!CheckFreshKeys(h)
  PROVE  RegistrationInv'
<1>1. R!TypeOK /\ Handled(h)
  BY DEF RegistrationInv, Truthful
<1>2. PICK reachable \in BOOLEAN :
        /\ post[h].pc = "fresh"
        /\ cache' = [cache EXCEPT ![post[h].github] =
             IF reachable THEN listed[post[h].github] ELSE None]
        /\ \/ R!Goto(h, "tenant")
           \/ post[h].key \in R!FreshKeys(post[h].github, reachable)
              /\ R!Goto(h, "notify")
           \/ R!Reply(h, "unverified")
        /\ UNCHANGED <<challenge, tenant, claim, linked, deaths, config, listed, edits>>
  BY DEF R!CheckFreshKeys, R!client
<1>3. post[h].github \in Name
  BY <1>1, <1>2 DEF Handled, WithName
<1>4. ServerTypes'
  <2>1. cache' \in [Name -> (SUBSET Device) \cup {None}]
    <3> DEFINE keys == IF reachable THEN listed[post[h].github] ELSE None
    <3>1. cache \in [Name -> (SUBSET Device) \cup {None}]
      BY <1>1, RegistrationTypes
    <3>2. keys \in (SUBSET Device) \cup {None}
      BY <1>1, <1>3, RegistrationTypes
    <3>3. cache' = [cache EXCEPT ![post[h].github] = keys]
      BY <1>2
    <3> HIDE DEF keys
    <3> QED BY <1>3, <3>1, <3>2, <3>3
  <2> QED BY <1>1, <1>2, <2>1 DEF R!TypeOK, ServerTypes
<1>5. Grows
  BY <1>2 DEF Grows
<1>6. CASE R!Goto(h, "tenant")
  <2>1. "tenant" \in R!Handler \ {"idle"}
    BY DEF R!Handler
  <2> QED BY <1>2, <1>3, <1>4, <1>5, <1>6, <2>1, CallStep
<1>7. CASE /\ post[h].key \in R!FreshKeys(post[h].github, reachable)
           /\ R!Goto(h, "notify")
  <2>1. "notify" \in R!Handler \ {"idle"}
    BY DEF R!Handler
  <2>2. post[h].key \in fresh[h]
    BY <1>1, <1>3, <1>7 DEF R!FreshKeys, Handled
  <2> QED BY <1>2, <1>3, <1>4, <1>5, <1>7, <2>1, <2>2, CallStep
<1>8. CASE R!Reply(h, "unverified")
  <2>1. "unverified" \in R!Answers
    BY DEF R!Answers
  <2> QED BY <1>2, <1>4, <1>5, <1>8, <2>1, AnswerStep
<1> QED BY <1>2, <1>6, <1>7, <1>8

LEMMA NotifyStep ==
  ASSUME RegistrationInv, NEW h \in Slot, R!NotifyAndLink(h)
  PROVE  RegistrationInv'
<1>1. R!TypeOK /\ Handled(h)
  BY DEF RegistrationInv, Truthful
<1>2. /\ post[h].pc = "notify" /\ R!Reply(h, "linked")
      /\ linked' = linked \cup {<<post[h].key, post[h].github>>}
      /\ UNCHANGED <<challenge, tenant, claim, cache, deaths, config, listed, edits>>
  BY DEF R!NotifyAndLink, R!client
<1>3. post[h].github \in Name /\ post[h].key \in Device
  BY <1>1, <1>2 DEF Handled, WithName
<1>4. ServerTypes' /\ Grows
  BY <1>1, <1>2, <1>3 DEF R!TypeOK, ServerTypes, Grows
<1>5. \A d \in Device, g \in Name \cup {None} :
        d = post[h].key /\ g = post[h].github => Granted(d, g)'
  BY <1>2, <1>3, AccountsAssumption DEF Granted
<1>6. "linked" \in R!Answers
  BY DEF R!Answers
<1> QED BY <1>2, <1>4, <1>5, <1>6, AnswerStep

LEMMA PutTenantStep ==
  ASSUME RegistrationInv, NEW h \in Slot, R!PutTenant(h)
  PROVE  RegistrationInv'
<1>1. R!TypeOK /\ Handled(h)
  BY DEF RegistrationInv, Truthful
<1>2. /\ post[h].pc = "tenant"
      /\ UNCHANGED <<challenge, claim, cache, linked, deaths, config, listed, edits>>
  BY DEF R!PutTenant, R!client
<1>3. /\ post[h].key \in Device /\ post[h].github \in Name \cup {None}
  BY <1>1, <1>2, RegistrationTypes DEF Handled, Registering
<1>4. CASE R!Reply(h, "exists") /\ UNCHANGED tenant
  <2>1. "exists" \in R!Answers
    BY DEF R!Answers
  <2>2. ServerTypes' /\ Grows
    BY <1>1, <1>2, <1>4 DEF R!TypeOK, ServerTypes, Grows
  <2> QED BY <1>2, <1>4, <2>1, <2>2, AnswerStep
<1>5. CASE tenant' = tenant \cup {post[h].key}
  <2>1. ServerTypes' /\ Grows
    BY <1>1, <1>2, <1>3, <1>5 DEF R!TypeOK, ServerTypes, Grows
  <2>2. CASE post[h].github = None /\ R!Reply(h, "created")
    <3>1. \A d \in Device, g \in Name \cup {None} :
            d = post[h].key /\ g = post[h].github => Granted(d, g)'
      BY <1>5, <2>2 DEF Granted
    <3>2. "created" \in R!Answers
      BY DEF R!Answers
    <3> QED BY <1>2, <2>1, <2>2, <3>1, <3>2, AnswerStep
  <2>3. CASE post[h].github # None /\ R!Goto(h, "claim")
    <3>1. "claim" \in R!Handler \ {"idle"}
      BY DEF R!Handler
    <3> QED BY <1>2, <1>3, <2>1, <2>3, <3>1, CallStep
  <2> QED BY <1>4, <1>5, <2>2, <2>3 DEF R!PutTenant
<1> QED BY <1>4, <1>5 DEF R!PutTenant

(* The condition of the write: nobody has the name, or the same tenant.    *)
LEMMA ClaimNameStep ==
  ASSUME RegistrationInv, NEW h \in Slot, R!ClaimName(h)
  PROVE  RegistrationInv'
<1>1. R!TypeOK /\ Handled(h)
  BY DEF RegistrationInv, Truthful
<1>2. /\ post[h].pc = "claim"
      /\ UNCHANGED <<challenge, tenant, cache, linked, deaths, config, listed, edits>>
  BY DEF R!ClaimName, R!client
<1>3. post[h].github \in Name /\ post[h].key \in Device
  BY <1>1, <1>2 DEF Handled, WithName
<1>4. CASE /\ claim[post[h].github] \in {None, post[h].key}
           /\ claim' = [claim EXCEPT ![post[h].github] = post[h].key]
           /\ R!Goto(h, "associate")
  <2>1. claim \in [Name -> Device \cup {None}]
    BY <1>1, RegistrationTypes
  <2>2. claim' \in [Name -> Device \cup {None}]
    BY <1>3, <1>4, <2>1
  <2>3. ServerTypes'
    BY <1>1, <1>2, <2>2 DEF R!TypeOK, ServerTypes
  <2>4. Grows
    BY <1>2, <1>3, <1>4, <2>1 DEF Grows
  <2>5. claim'[post[h].github] = post[h].key
    BY <1>3, <1>4, <2>1
  <2>6. "associate" \in R!Handler \ {"idle"}
    BY DEF R!Handler
  <2> QED BY <1>2, <1>3, <1>4, <2>3, <2>4, <2>5, <2>6, CallStep
<1>5. CASE R!Reply(h, "unverified") /\ UNCHANGED claim
  <2>1. "unverified" \in R!Answers
    BY DEF R!Answers
  <2>2. ServerTypes' /\ Grows
    BY <1>1, <1>2, <1>5 DEF R!TypeOK, ServerTypes, Grows
  <2> QED BY <1>2, <1>5, <2>1, <2>2, AnswerStep
<1> QED BY <1>4, <1>5 DEF R!ClaimName

LEMMA AssociateStep ==
  ASSUME RegistrationInv, NEW h \in Slot, R!Associate(h)
  PROVE  RegistrationInv'
<1>1. R!TypeOK /\ Handled(h)
  BY DEF RegistrationInv, Truthful
<1>2. /\ post[h].pc = "associate" /\ R!Reply(h, "created")
      /\ UNCHANGED <<challenge, tenant, claim, cache, linked, deaths, config,
                     listed, edits>>
  BY DEF R!Associate, R!client
<1>3. ServerTypes' /\ Grows
  BY <1>1, <1>2 DEF R!TypeOK, ServerTypes, Grows
<1>4. \A d \in Device, g \in Name \cup {None} :
        d = post[h].key /\ g = post[h].github => Granted(d, g)'
  BY <1>1, <1>2, AccountsAssumption DEF Handled, WithName, Granted
<1>5. "created" \in R!Answers
  BY DEF R!Answers
<1> QED BY <1>2, <1>3, <1>4, <1>5, AnswerStep

LEMMA AbortStep ==
  ASSUME RegistrationInv, NEW h \in Slot, R!Abort(h)
  PROVE  RegistrationInv'
<1>1. R!TypeOK
  BY DEF RegistrationInv
<1>2. /\ R!Reply(h, "error") /\ deaths < MaxAborts /\ deaths' = deaths + 1
      /\ UNCHANGED <<challenge, tenant, claim, cache, linked, config, listed, edits>>
  BY DEF R!Abort, R!client
<1>3. deaths' \in 0..MaxAborts
  BY <1>1, <1>2, RegistrationTypes, AccountsAssumption
<1>4. ServerTypes' /\ Grows
  BY <1>1, <1>2, <1>3 DEF R!TypeOK, ServerTypes, Grows
<1>5. "error" \in R!Answers
  BY DEF R!Answers
<1> QED BY <1>2, <1>4, <1>5, AnswerStep

-----------------------------------------------------------------------------
(* Time passes, keys are edited on GitHub.                                 *)

LEMMA ExpiryStep ==
  ASSUME RegistrationInv,
         \/ \E n \in Id : R!ChallengeExpires(n)
         \/ \E g \in Name : R!CacheExpires(g)
  PROVE  RegistrationInv'
<1>1. R!TypeOK
  BY DEF RegistrationInv
<1>2. /\ challenge' \in [Id -> {"unissued", "open", "expired", "used"}]
      /\ cache' \in [Name -> (SUBSET Device) \cup {None}]
  <2>1. CASE \E n \in Id : R!ChallengeExpires(n)
    BY <1>1, <2>1, RegistrationTypes DEF R!ChallengeExpires
  <2>2. CASE \E g \in Name : R!CacheExpires(g)
    <3>1. PICK g \in Name : R!CacheExpires(g)
      BY <2>2
    <3>2. None \in (SUBSET Device) \cup {None}
      OBVIOUS
    <3> QED BY <1>1, <3>1, <3>2, RegistrationTypes DEF R!CacheExpires
  <2> QED BY <2>1, <2>2
<1>3. UNCHANGED <<tenant, claim, linked, listed, post, setup, config, fresh, edits,
                  deaths>>
  BY DEF R!ChallengeExpires, R!CacheExpires, R!client
<1>4. R!TypeOK'
  BY <1>1, <1>2, <1>3 DEF R!TypeOK
<1>5. Truthful'
  BY <1>3 DEF RegistrationInv, Truthful, AnsweredTruly, Granted, Handled
<1>6. R!ConfigIsTrue'
  BY <1>3 DEF RegistrationInv, R!ConfigIsTrue
<1> QED BY <1>4, <1>5, <1>6 DEF RegistrationInv

LEMMA EditKeysStep ==
  ASSUME RegistrationInv, NEW g \in Name, NEW d \in Device, R!EditKeys(g, d)
  PROVE  RegistrationInv'
<1> DEFINE keys == IF d \in listed[g] THEN listed[g] \ {d} ELSE listed[g] \cup {d}
<1>1. R!TypeOK /\ Truthful
  BY DEF RegistrationInv
<1>2. /\ listed \in [Name -> SUBSET Device] /\ fresh \in [Slot -> SUBSET Device]
      /\ edits \in 0..MaxEdits
  BY <1>1, RegistrationTypes
<1>3. /\ edits < MaxEdits /\ edits' = edits + 1
      /\ listed' = [listed EXCEPT ![g] = keys]
      /\ fresh' = [h \in Slot |-> IF post[h].github = g THEN fresh[h] \cup listed'[g]
                                  ELSE fresh[h]]
      /\ UNCHANGED <<challenge, tenant, claim, cache, post, setup, config, linked,
                     deaths>>
  BY <1>2 DEF R!EditKeys
<1>4. keys \subseteq Device
  BY <1>2
<1> HIDE DEF keys
<1>5. listed' \in [Name -> SUBSET Device] /\ listed'[g] = keys
  BY <1>2, <1>3, <1>4
<1>6. fresh' \in [Slot -> SUBSET Device]
  BY <1>2, <1>3, <1>4, <1>5
<1>7. edits' \in 0..MaxEdits
  BY <1>2, <1>3, AccountsAssumption
<1>8. R!TypeOK'
  BY <1>1, <1>3, <1>5, <1>6, <1>7 DEF R!TypeOK
<1>9. ASSUME NEW h \in Slot PROVE Handled(h)'
  <2>1. Handled(h)
    BY <1>1 DEF Truthful
  <2>2. post[h].github \in Name => listed'[post[h].github] \subseteq fresh'[h]
    <3>1. CASE post[h].github = g
      BY <1>3, <3>1
    <3>2. CASE post[h].github # g
      BY <1>2, <1>3, <2>1, <3>2 DEF Handled
    <3> QED BY <3>1, <3>2
  <2>3. fresh[h] \subseteq fresh'[h]
    BY <1>3
  <2> QED BY <1>3, <2>1, <2>2, <2>3 DEF Handled
<1>10. \A e \in Device : AnsweredTruly(e)'
  BY <1>1, <1>3 DEF Truthful, AnsweredTruly, Granted
<1>11. R!ConfigIsTrue'
  BY <1>3 DEF RegistrationInv, R!ConfigIsTrue
<1> QED BY <1>8, <1>9, <1>10, <1>11 DEF RegistrationInv, Truthful

LEMMA RegistrationNext ==
  ASSUME RegistrationInv, [R!Next]_(rvars) PROVE RegistrationInv'
<1>1. CASE UNCHANGED rvars
  BY <1>1 DEF rvars, RegistrationInv, Truthful, AnsweredTruly, Granted, Handled,
              R!TypeOK, R!ConfigIsTrue
<1>2. ASSUME NEW d \in Device, NEW n \in Id, NEW g \in Name \cup {None},
             R!GetChallenge(d, n, g)
      PROVE  RegistrationInv'
  <2>1. R!TypeOK' /\ Truthful'
    BY <1>2, GetChallengeStep
  <2>2. Grows /\ config' = config
    BY <1>2 DEF R!GetChallenge, R!server, Grows
  <2> QED BY <2>1, <2>2, ConfigStays DEF RegistrationInv
<1>3. ASSUME NEW d \in Device, NEW h \in Slot,
             R!Register(d, h) \/ R!RetryWithoutGitHub(d, h)
      PROVE  RegistrationInv'
  <2>1. R!TypeOK' /\ Truthful'
    BY <1>3, RegisterStep, RetryStep
  <2>2. Grows /\ config' = config
    BY <1>3 DEF R!Register, R!RetryWithoutGitHub, R!server, Grows
  <2> QED BY <2>1, <2>2, ConfigStays DEF RegistrationInv
<1>4. ASSUME NEW d \in Device, R!ReadAnswer(d) \/ R!GiveUp(d)
      PROVE  RegistrationInv'
  <2>1. R!TypeOK' /\ Truthful'
    BY <1>4, ReadAnswerStep, GiveUpStep
  <2>2. Grows /\ config' = config
    BY <1>4 DEF R!ReadAnswer, R!GiveUp, R!server, Grows
  <2> QED BY <2>1, <2>2, ConfigStays DEF RegistrationInv
<1>5. ASSUME NEW d \in Device, R!SaveConfig(d) PROVE RegistrationInv'
  BY <1>5, SaveConfigStep DEF RegistrationInv
<1>6. ASSUME NEW h \in Slot,
             \/ R!ConsumeChallenge(h) \/ R!VerifyOnGitHub(h)
             \/ R!FindTenantByGitHub(h) \/ R!CheckFreshKeys(h)
             \/ R!NotifyAndLink(h) \/ R!PutTenant(h)
             \/ R!ClaimName(h) \/ R!Associate(h) \/ R!Abort(h)
      PROVE  RegistrationInv'
  BY <1>6, ConsumeChallengeStep, VerifyStep, FindTenantStep, CheckFreshStep,
     NotifyStep, PutTenantStep, ClaimNameStep, AssociateStep, AbortStep
<1> QED BY <1>1, <1>2, <1>3, <1>4, <1>5, <1>6, ExpiryStep, EditKeysStep DEF R!Next

-----------------------------------------------------------------------------
(***************************************************************************)
(* Device links.  The link is written before its lookup record, and only   *)
(* the sweeper takes one away.                                             *)
(***************************************************************************)

Link == [there : BOOLEAN, dated : BOOLEAN, key : Device \cup {None}]
Adding == [pc : {"none", "sent", "polling", "wrapping", "linked", "over"},
           key : Device \cup {None}]
Linking == [pc : {"idle", "lookup", "link", "put"},
               code : Code \cup {None}, key : Device \cup {None}]

LinkInv ==
  /\ D!TypeOK /\ D!LinkRecordsWhole
  /\ \A c \in Code : create[c] = "lookup" /\ age[c] # "swept" => link[c].there

LEMMA LinkRecords == D!NoLink \in Link /\ D!NoConfirm \in Linking
BY DEF D!NoLink, D!NoConfirm, Link, Linking

LEMMA LinkTypes ==
  D!TypeOK => /\ link \in [Code -> Link] /\ add \in [Code -> Adding]
              /\ confirm \in [Slot -> Linking]
BY DEF D!TypeOK, Link, Adding, Linking

LEMMA LinkInit == D!Init => LinkInv
<1> SUFFICES ASSUME D!Init PROVE LinkInv
  OBVIOUS
<1>1. D!TypeOK
  <2>1. /\ link \in [Code -> Link] /\ confirm \in [Slot -> Linking]
    BY LinkRecords DEF D!Init
  <2>2. add \in [Code -> Adding]
    BY DEF D!Init, Adding
  <2>3. envelope \in [D!Party -> D!Party \cup {None}]
    BY DEF D!Init, D!Party
  <2> QED BY <2>1, <2>2, <2>3 DEF D!Init, D!TypeOK, Link, Adding, Linking
<1> QED BY <1>1 DEF D!Init, D!NoLink, D!LinkRecordsWhole, LinkInv

(* The command on the existing device.                                     *)
LEMMA AddStep ==
  ASSUME LinkInv, NEW c \in Code,
         \/ D!GenerateLinkCode(c) \/ D!ShowCode(c) \/ D!Poll(c) \/ D!Leave(c)
         \/ D!UploadEnvelope(c)
  PROVE  LinkInv'
<1>1. D!TypeOK /\ link \in [Code -> Link] /\ add \in [Code -> Adding]
  BY LinkTypes DEF LinkInv
<1>2. UNCHANGED <<link, lookup, age, confirm>>
  BY DEF D!GenerateLinkCode, D!ShowCode, D!Poll, D!Leave, D!UploadEnvelope
<1>3. create' = create \/ create' = [create EXCEPT ![c] = "link"]
  BY DEF D!GenerateLinkCode, D!ShowCode, D!Poll, D!Leave, D!UploadEnvelope
<1>4. add' \in [Code -> Adding]
  <2>1. PICK pc \in {"sent", "polling", "over", "linked"} :
          \/ add' = [add EXCEPT ![c] = [add[c] EXCEPT !.pc = pc]]
          \/ add' = [add EXCEPT ![c] = [pc |-> "wrapping", key |-> link[c].key]]
    BY <1>1 DEF D!GenerateLinkCode, D!ShowCode, D!Poll, D!Leave, D!UploadEnvelope
  <2>2. [add[c] EXCEPT !.pc = pc] \in Adding
    BY <1>1 DEF Adding
  <2>3. [pc |-> "wrapping", key |-> link[c].key] \in Adding
    BY <1>1 DEF Adding, Link
  <2> QED BY <1>1, <2>1, <2>2, <2>3
<1>5. envelope' \in [D!Party -> D!Party \cup {None}]
  <2>1. envelope' = envelope \/ envelope' = [envelope EXCEPT ![Owner] = add[c].key]
    BY DEF D!GenerateLinkCode, D!ShowCode, D!Poll, D!Leave, D!UploadEnvelope
  <2>2. add[c].key \in D!Party \cup {None}
    BY <1>1 DEF Adding, D!Party
  <2> QED BY <1>1, <2>1, <2>2 DEF D!TypeOK, D!Party
<1>6. create' \in [Code -> {"none", "link", "lookup", "created", "dead"}]
  BY <1>1, <1>3 DEF D!TypeOK
<1>7. D!TypeOK'
  BY <1>1, <1>2, <1>4, <1>5, <1>6 DEF D!TypeOK, Adding
<1>8. \A b \in Code : create'[b] = "lookup" => create[b] = "lookup"
  BY <1>1, <1>3 DEF D!TypeOK
<1> QED BY <1>2, <1>7, <1>8 DEF LinkInv, D!LinkRecordsWhole

(* The handler that makes a code.                                          *)
LEMMA CreateStep ==
  ASSUME LinkInv, NEW c \in Code,
         D!PutLink(c) \/ D!PutLookup(c) \/ D!CreateDies(c)
  PROVE  LinkInv'
<1>1. /\ D!TypeOK /\ link \in [Code -> Link]
      /\ age \in [Code -> {"new", "fresh", "expired", "swept"}]
      /\ create \in [Code -> {"none", "link", "lookup", "created", "dead"}]
      /\ lookup \subseteq Code
  BY LinkTypes DEF LinkInv, D!TypeOK
<1>2. CASE D!PutLink(c)
  <2> DEFINE put == [there |-> TRUE, dated |-> TRUE, key |-> None]
  <2>1. /\ link' = [link EXCEPT ![c] = put] /\ age' = [age EXCEPT ![c] = "fresh"]
        /\ create' = [create EXCEPT ![c] = "lookup"]
        /\ UNCHANGED <<lookup, add, confirm, envelope>>
    BY <1>2 DEF D!PutLink
  <2>2. put \in Link /\ put.there /\ put.dated
    BY DEF Link
  <2> HIDE DEF put
  <2>3. /\ link' \in [Code -> Link] /\ link'[c] = put
        /\ \A b \in Code : b # c => link'[b] = link[b] /\ age'[b] = age[b]
                                    /\ create'[b] = create[b]
    BY <1>1, <2>1, <2>2
  <2>4. /\ age' \in [Code -> {"new", "fresh", "expired", "swept"}]
        /\ create' \in [Code -> {"none", "link", "lookup", "created", "dead"}]
    BY <1>1, <2>1
  <2>5. D!TypeOK'
    BY <1>1, <2>1, <2>3, <2>4 DEF D!TypeOK, Link
  <2> QED BY <1>1, <2>1, <2>2, <2>3, <2>5 DEF LinkInv, D!LinkRecordsWhole
<1>3. CASE D!PutLookup(c)
  <2>1. D!TypeOK'
    BY <1>1, <1>3 DEF D!PutLookup, D!TypeOK
  <2>2. \A b \in Code : create'[b] = "lookup" => create[b] = "lookup"
    BY <1>1, <1>3 DEF D!PutLookup
  <2> QED BY <1>1, <1>3, <2>1, <2>2 DEF D!PutLookup, LinkInv, D!LinkRecordsWhole
<1>4. CASE D!CreateDies(c)
  <2>1. D!TypeOK'
    BY <1>1, <1>4 DEF D!CreateDies, D!TypeOK
  <2>2. \A b \in Code : create'[b] = "lookup" => create[b] = "lookup"
    BY <1>1, <1>4 DEF D!CreateDies
  <2> QED BY <1>1, <1>4, <2>1, <2>2 DEF D!CreateDies, LinkInv, D!LinkRecordsWhole
<1> QED BY <1>2, <1>3, <1>4

(* Confirmations: a link that is gone stays gone.                          *)
LEMMA ConfirmationStep ==
  ASSUME LinkInv, NEW s \in Slot,
         \/ \E c \in Code, k \in Device : D!LinkConfirm(s, c, k)
         \/ D!FindLookup(s) \/ D!ReadLink(s) \/ D!PutNewKey(s)
  PROVE  LinkInv'
<1>1. D!TypeOK /\ link \in [Code -> Link] /\ confirm \in [Slot -> Linking]
      /\ confirm[s] \in Linking
  BY LinkTypes DEF LinkInv
<1>2. UNCHANGED <<lookup, age, create, add, envelope>>
  BY DEF D!LinkConfirm, D!FindLookup, D!ReadLink, D!PutNewKey
<1>3. confirm' \in [Slot -> Linking]
  <2>1. CASE \E c \in Code, k \in Device : D!LinkConfirm(s, c, k)
    <3>1. PICK c \in Code, k \in Device :
            confirm' = [confirm EXCEPT ![s] = [pc |-> "lookup", code |-> c, key |-> k]]
      BY <2>1 DEF D!LinkConfirm
    <3>2. [pc |-> "lookup", code |-> c, key |-> k] \in Linking
      BY DEF Linking
    <3> QED BY <1>1, <3>1, <3>2
  <2>2. CASE D!FindLookup(s) \/ D!ReadLink(s) \/ D!PutNewKey(s)
    <3>1. \/ confirm' = [confirm EXCEPT ![s] = [confirm[s] EXCEPT !.pc = "link"]]
          \/ confirm' = [confirm EXCEPT ![s] = [confirm[s] EXCEPT !.pc = "put"]]
          \/ confirm' = [confirm EXCEPT ![s] = D!NoConfirm]
      BY <1>1, <2>2 DEF D!FindLookup, D!ReadLink, D!PutNewKey
    <3>2. /\ [confirm[s] EXCEPT !.pc = "link"] \in Linking
          /\ [confirm[s] EXCEPT !.pc = "put"] \in Linking
      BY <1>1 DEF Linking
    <3> QED BY <1>1, <3>1, <3>2, LinkRecords
  <2> QED BY <2>1, <2>2
<1>4. /\ link' \in [Code -> Link]
      /\ \A c \in Code : link'[c].there = link[c].there
                         /\ link'[c].dated = link[c].dated
  <2>1. CASE UNCHANGED link
    BY <1>1, <2>1
  <2>2. CASE D!PutNewKey(s)
    <3> DEFINE c == confirm[s].code
               l == link[c]
               k == confirm[s].key
               new == IF l.there THEN [l EXCEPT !.key = k] ELSE l
    <3>1. link' = [link EXCEPT ![c] = new]
      BY <1>1, <2>2 DEF D!PutNewKey
    <3>2. c \in Code => new \in Link /\ new.there = l.there /\ new.dated = l.dated
      <4> SUFFICES ASSUME c \in Code
                   PROVE  new \in Link /\ new.there = l.there /\ new.dated = l.dated
        OBVIOUS
      <4>1. l \in Link /\ k \in Device \cup {None}
        BY <1>1 DEF Linking
      <4> HIDE DEF l, k
      <4>2. [l EXCEPT !.key = k] = [there |-> l.there, dated |-> l.dated, key |-> k]
        BY <4>1 DEF Link
      <4> QED BY <4>1, <4>2 DEF Link
    <3> HIDE DEF new
    <3> QED BY <1>1, <3>1, <3>2
  <2> QED BY <2>1, <2>2 DEF D!LinkConfirm, D!FindLookup, D!ReadLink
<1>5. D!TypeOK'
  BY <1>1, <1>2, <1>3, <1>4 DEF D!TypeOK, Link, Linking
<1>6. lookup \subseteq Code
  BY <1>1 DEF D!TypeOK
<1> QED BY <1>2, <1>4, <1>5, <1>6 DEF LinkInv, D!LinkRecordsWhole

LEMMA LinkAgesStep ==
  ASSUME LinkInv, NEW c \in Code, D!Grow(c) \/ D!Sweep(c)
  PROVE  LinkInv'
<1>1. /\ D!TypeOK /\ link \in [Code -> Link]
      /\ age \in [Code -> {"new", "fresh", "expired", "swept"}]
      /\ lookup \subseteq Code
  BY LinkTypes DEF LinkInv, D!TypeOK
<1>2. CASE D!Grow(c)
  <2>1. /\ age' \in [Code -> {"new", "fresh", "expired", "swept"}]
        /\ \A b \in Code : age[b] = "swept" => age'[b] = "swept"
        /\ UNCHANGED <<link, lookup, create, add, confirm, envelope>>
    BY <1>1, <1>2 DEF D!Grow
  <2>2. D!TypeOK'
    BY <1>1, <2>1 DEF D!TypeOK
  <2> QED BY <1>1, <2>1, <2>2 DEF LinkInv, D!LinkRecordsWhole
<1>3. CASE D!Sweep(c)
  <2>1. /\ age[c] = "swept" /\ UNCHANGED <<age, create, add, confirm, envelope>>
        /\ lookup' \subseteq lookup
        /\ link' = link \/ link' = [link EXCEPT ![c] = D!NoLink]
    BY <1>3 DEF D!Sweep
  <2>2. /\ link' \in [Code -> Link]
        /\ link'[c].there => link'[c].dated
        /\ \A b \in Code : b # c => link'[b] = link[b]
    <3>1. D!NoLink \in Link /\ ~D!NoLink.there
      BY LinkRecords DEF D!NoLink
    <3>2. link[c].there => link[c].dated
      BY DEF LinkInv, D!LinkRecordsWhole
    <3> QED BY <1>1, <2>1, <3>1, <3>2
  <2>3. D!TypeOK'
    BY <1>1, <2>1, <2>2 DEF D!TypeOK, Link
  <2> QED BY <1>1, <2>1, <2>2, <2>3 DEF LinkInv, D!LinkRecordsWhole
<1> QED BY <1>2, <1>3

LEMMA LinkNext ==
  ASSUME LinkInv, [D!Next]_(dvars) PROVE LinkInv'
<1>1. CASE UNCHANGED dvars
  BY <1>1 DEF dvars, LinkInv, D!TypeOK, D!LinkRecordsWhole
<1>2. ASSUME NEW d \in D!Party, D!DeleteDevice(d) PROVE LinkInv'
  BY <1>2 DEF D!DeleteDevice, LinkInv, D!TypeOK, D!LinkRecordsWhole
<1>3. ASSUME NEW c \in Code,
             \/ D!GenerateLinkCode(c) \/ D!ShowCode(c) \/ D!Poll(c) \/ D!Leave(c)
             \/ D!UploadEnvelope(c) \/ D!PutLink(c) \/ D!PutLookup(c)
             \/ D!CreateDies(c) \/ D!Grow(c) \/ D!Sweep(c)
      PROVE  LinkInv'
  BY <1>3, AddStep, CreateStep, LinkAgesStep
<1>4. ASSUME NEW c \in Code, NEW s \in Slot, NEW k \in Device, D!LinkConfirm(s, c, k)
      PROVE  LinkInv'
  BY <1>4, ConfirmationStep
<1>5. ASSUME NEW s \in Slot, D!FindLookup(s) \/ D!ReadLink(s) \/ D!PutNewKey(s)
      PROVE  LinkInv'
  BY <1>5, ConfirmationStep
<1> QED BY <1>1, <1>2, <1>3, <1>4, <1>5 DEF D!Next

-----------------------------------------------------------------------------
(***************************************************************************)
(* Invitations.  An acceptance never gets as far as its update, since      *)
(* every invitation there is is taken for expired; a new invitation takes  *)
(* an id that none had.  A creation that will count leaves room for itself *)
(* in the windows it has still to count in.                                *)
(***************************************************************************)

Invitation == [status : {"none", "pending", "accepted", "declined"},
               to : Person \cup {None}]
Creating == [pc : {"idle", "hour", "day", "pending", "put"},
             from : Person \cup {None}, to : Person \cup {None}]
Answering == [pc : {"idle", "read", "update", "answered"},
              op : {"accept", "decline"}, id : Id \cup {None},
              answer : {"none", "ok", "not found", "conflict", "expired", "refused"}]

Counting(p, pcs) == {s \in Slot : creation[s].from = p /\ creation[s].pc \in pcs}

RoomLeft(p) ==
  /\ hour[p] + Cardinality(Counting(p, {"hour"})) <= MaxCount
  /\ day[p] + Cardinality(Counting(p, {"hour", "day"})) <= MaxCount

Drawn ==
  /\ \A i \in Id : aged[i] = "new" => invite[i].status = "none"
  /\ \A s \in Slot :
       /\ respond[s].pc \in {"read", "update"} =>
            respond[s].id \in Id /\ aged[respond[s].id] # "new"
       /\ respond[s].pc = "update" => respond[s].op = "decline"

InvitesInv == I!TypeOK /\ (\A p \in Person : RoomLeft(p)) /\ Drawn

LEMMA InviteRecords ==
  /\ I!NoInvite \in Invitation /\ I!NoCreate \in Creating /\ I!NoAnswer \in Answering
  /\ I!NoInvite.status = "none" /\ I!NoCreate.pc = "idle" /\ I!NoAnswer.pc = "idle"
BY DEF I!NoInvite, I!NoCreate, I!NoAnswer, Invitation, Creating, Answering

LEMMA InviteTypes ==
  I!TypeOK <=>
    /\ invite \in [Id -> Invitation] /\ indexed \subseteq Id
    /\ aged \in [Id -> {"new", "fresh", "past"}]
    /\ hour \in [Person -> 0..MaxCount] /\ day \in [Person -> 0..MaxCount]
    /\ creation \in [Slot -> Creating] /\ respond \in [Slot -> Answering]
BY DEF I!TypeOK, Invitation, Creating, Answering

(* The instance has its own name for the operator of FiniteSets.           *)
LEMMA SameCardinality == \A S : I!Cardinality(S) = Cardinality(S)
BY DEF I!Cardinality, Cardinality

LEMMA CountingIsFinite ==
  ASSUME NEW p, NEW pcs
  PROVE  IsFiniteSet(Counting(p, pcs)) /\ Cardinality(Counting(p, pcs)) \in Nat
<1>1. Counting(p, pcs) \subseteq Slot
  BY DEF Counting
<1> QED BY <1>1, AccountsAssumption, FS_Subset, FS_CardinalityType

(* A creation that ends, or goes on to what it has less to count for.      *)
LEMMA CountingShrinks ==
  ASSUME NEW p, NEW pcs, NEW s \in Slot,
         \A t \in Slot : t # s => creation'[t] = creation[t],
         s \notin Counting(p, pcs)'
  PROVE  /\ Cardinality(Counting(p, pcs)') <= Cardinality(Counting(p, pcs))
         /\ Cardinality(Counting(p, pcs)') \in Nat
         /\ s \in Counting(p, pcs) =>
              Cardinality(Counting(p, pcs)') = Cardinality(Counting(p, pcs)) - 1
<1>1. IsFiniteSet(Counting(p, pcs)) /\ Cardinality(Counting(p, pcs)) \in Nat
  BY CountingIsFinite
<1>2. Counting(p, pcs)' = Counting(p, pcs) \ {s}
  BY DEF Counting
<1> DEFINE before == Counting(p, pcs)
<1>3. /\ IsFiniteSet(before \ {s})
      /\ Cardinality(before \ {s})
           = IF s \in before THEN Cardinality(before) - 1 ELSE Cardinality(before)
  BY <1>1, FS_RemoveElement
<1>4. Cardinality(before \ {s}) \in Nat
  BY <1>3, FS_CardinalityType
<1>5. Cardinality(before) \in Nat
  BY <1>1
<1>6. Counting(p, pcs)' = before \ {s}
  BY <1>2
<1> HIDE DEF before
<1>7. /\ Cardinality(before \ {s}) <= Cardinality(before)
      /\ s \in before => Cardinality(before \ {s}) = Cardinality(before) - 1
  BY <1>3, <1>5
<1> QED BY <1>4, <1>6, <1>7 DEF before

LEMMA InvitesInit == I!Init => InvitesInv
<1> SUFFICES ASSUME I!Init PROVE InvitesInv
  OBVIOUS
<1>1. I!TypeOK
  BY InviteTypes, InviteRecords, AccountsAssumption DEF I!Init
<1>2. ASSUME NEW p \in Person PROVE RoomLeft(p)
  <2>1. Counting(p, {"hour"}) = {} /\ Counting(p, {"hour", "day"}) = {}
    BY InviteRecords DEF I!Init, Counting
  <2> QED BY <2>1, FS_EmptySet, AccountsAssumption DEF I!Init, RoomLeft
<1>3. Drawn
  BY InviteRecords DEF I!Init, Drawn
<1> QED BY <1>1, <1>2, <1>3 DEF InvitesInv

(* Only the counters and the creation of one invocation change: what is    *)
(* left for the others is enough.                                          *)
LEMMA CreationEnds ==
  ASSUME InvitesInv, UNCHANGED <<hour, day>>, NEW s \in Slot,
         creation'[s].pc \notin {"hour", "day"},
         \A t \in Slot : t # s => creation'[t] = creation[t]
  PROVE  \A p \in Person : RoomLeft(p)'
<1> TAKE p \in Person
<1>1. hour[p] \in 0..MaxCount /\ day[p] \in 0..MaxCount /\ RoomLeft(p)
  BY InviteTypes DEF InvitesInv
<1>2. s \notin Counting(p, {"hour"})' /\ s \notin Counting(p, {"hour", "day"})'
  BY DEF Counting
<1>3. \A pcs \in {{"hour"}, {"hour", "day"}} :
        /\ Cardinality(Counting(p, pcs)') <= Cardinality(Counting(p, pcs))
        /\ Cardinality(Counting(p, pcs)') \in Nat
        /\ Cardinality(Counting(p, pcs)) \in Nat
  BY <1>2, CountingShrinks, CountingIsFinite
<1>4. /\ Cardinality(Counting(p, {"hour"})') <= Cardinality(Counting(p, {"hour"}))
      /\ Cardinality(Counting(p, {"hour", "day"})')
           <= Cardinality(Counting(p, {"hour", "day"}))
      /\ Cardinality(Counting(p, {"hour"})') \in Nat
      /\ Cardinality(Counting(p, {"hour", "day"})') \in Nat
      /\ Cardinality(Counting(p, {"hour"})) \in Nat
      /\ Cardinality(Counting(p, {"hour", "day"})) \in Nat
  BY <1>3
<1>5. hour'[p] = hour[p] /\ day'[p] = day[p]
  OBVIOUS
<1> QED BY <1>1, <1>4, <1>5, AccountsAssumption DEF RoomLeft

LEMMA CreateInviteStep ==
  ASSUME InvitesInv, NEW s \in Slot, NEW p \in Person, NEW r \in Person,
         I!Create(s, p, r)
  PROVE  InvitesInv'
<1> DEFINE new == [pc |-> "hour", from |-> p, to |-> r]
<1>1. /\ I!TypeOK /\ creation \in [Slot -> Creating]
      /\ hour \in [Person -> 0..MaxCount] /\ day \in [Person -> 0..MaxCount]
  BY InviteTypes DEF InvitesInv
<1>2. /\ creation[s].pc = "idle" /\ creation' = [creation EXCEPT ![s] = new]
      /\ UNCHANGED <<invite, indexed, aged, hour, day, respond>>
  BY DEF I!Create, I!Free
<1>3. new \in Creating /\ new.pc = "hour" /\ new.from = p
  BY DEF Creating
<1> HIDE DEF new
<1>4. /\ creation' \in [Slot -> Creating] /\ creation'[s] = new
      /\ \A t \in Slot : t # s => creation'[t] = creation[t]
  BY <1>1, <1>2, <1>3
<1>5. I!TypeOK'
  BY <1>1, <1>2, <1>4 DEF I!TypeOK, Creating
<1>6. Drawn'
  BY <1>2 DEF InvitesInv, Drawn
<1>7. ASSUME NEW q \in Person PROVE RoomLeft(q)'
  <2>1. RoomLeft(q) /\ hour[q] \in 0..MaxCount /\ day[q] \in 0..MaxCount
    BY <1>1 DEF InvitesInv
  <2>2. CASE q # p
    <3>1. /\ Counting(q, {"hour"})' = Counting(q, {"hour"})
          /\ Counting(q, {"hour", "day"})' = Counting(q, {"hour", "day"})
      BY <1>2, <1>3, <1>4, <2>2 DEF Counting
    <3> QED BY <1>2, <2>1, <3>1 DEF RoomLeft
  <2>3. CASE q = p
    <3> DEFINE both == Counting(p, {"hour", "day"})
               one == Counting(p, {"hour"})
    <3>1. one' = one \cup {s} /\ both' = both \cup {s} /\ s \notin one /\ s \notin both
      BY <1>2, <1>3, <1>4 DEF Counting
    <3>2. /\ hour[p] + Cardinality(both) < MaxCount
          /\ day[p] + Cardinality(both) < MaxCount
      <4>1. both = {t \in Slot : creation[t].from = p
                                 /\ creation[t].pc \in {"hour", "day"}}
        BY DEF Counting
      <4>2. \A count \in {hour[p], day[p]} :
              count + Cardinality({t \in Slot : creation[t].from = p
                                   /\ creation[t].pc \in {"hour", "day"}}) < MaxCount
        BY SameCardinality DEF I!Create
      <4> HIDE DEF both
      <4>3. \A count \in {hour[p], day[p]} : count + Cardinality(both) < MaxCount
        BY <4>1, <4>2
      <4> QED BY <4>3
    <3>3. /\ IsFiniteSet(one) /\ IsFiniteSet(both)
          /\ Cardinality(one) \in Nat /\ Cardinality(both) \in Nat
      BY CountingIsFinite
    <3>4. one \subseteq both
      BY DEF Counting
    <3> HIDE DEF one, both
    <3>5. Cardinality(one) <= Cardinality(both)
      BY <3>3, <3>4, FS_Subset
    <3>6. /\ Cardinality(one \cup {s}) = Cardinality(one) + 1
          /\ Cardinality(both \cup {s}) = Cardinality(both) + 1
      BY <3>1, <3>3, FS_AddElement
    <3>7. Cardinality(one') = Cardinality(one) + 1
          /\ Cardinality(both') = Cardinality(both) + 1
      BY <3>1, <3>6
    <3>8. /\ hour'[p] + Cardinality(one') <= MaxCount
          /\ day'[p] + Cardinality(both') <= MaxCount
      BY <1>2, <2>1, <2>3, <3>2, <3>3, <3>5, <3>7, AccountsAssumption
    <3> QED BY <2>3, <3>8 DEF RoomLeft, one, both
  <2> QED BY <2>2, <2>3
<1> QED BY <1>5, <1>6, <1>7 DEF InvitesInv

(* A window's counter goes up as the creation leaves what counts for it.   *)
LEMMA CountHourStep ==
  ASSUME InvitesInv, NEW s \in Slot, I!CountHour(s)
  PROVE  InvitesInv'
<1> DEFINE p == creation[s].from
           new == IF hour'[p] > HourlyLimit THEN I!NoCreate
                  ELSE [creation[s] EXCEPT !.pc = "day"]
<1>1. /\ I!TypeOK /\ creation \in [Slot -> Creating] /\ creation[s] \in Creating
      /\ hour \in [Person -> 0..MaxCount] /\ day \in [Person -> 0..MaxCount]
  BY InviteTypes DEF InvitesInv
<1>2. /\ creation[s].pc = "hour" /\ hour' = [hour EXCEPT ![p] = hour[p] + 1]
      /\ creation' = [creation EXCEPT ![s] = new]
      /\ UNCHANGED <<invite, indexed, aged, day, respond>>
  BY <1>1 DEF I!CountHour
<1>3. /\ new \in Creating /\ new.pc \in {"idle", "day"}
      /\ new.pc = "day" => new.from = p
  BY <1>1, InviteRecords DEF Creating
<1> HIDE DEF new
<1>4. /\ creation' \in [Slot -> Creating] /\ creation'[s] = new
      /\ \A t \in Slot : t # s => creation'[t] = creation[t]
  BY <1>1, <1>2, <1>3
<1>5. ASSUME NEW q \in Person
      PROVE  /\ Cardinality(Counting(q, {"hour"})') <= Cardinality(Counting(q, {"hour"}))
             /\ Cardinality(Counting(q, {"hour"})') \in Nat
             /\ Cardinality(Counting(q, {"hour"})) \in Nat
             /\ q = p => Cardinality(Counting(q, {"hour"})')
                           = Cardinality(Counting(q, {"hour"})) - 1
             /\ Cardinality(Counting(q, {"hour", "day"})')
                  <= Cardinality(Counting(q, {"hour", "day"}))
             /\ Cardinality(Counting(q, {"hour", "day"})') \in Nat
             /\ Cardinality(Counting(q, {"hour", "day"})) \in Nat
  <2>1. s \notin Counting(q, {"hour"})' /\ (q = p => s \in Counting(q, {"hour"}))
    BY <1>2, <1>3, <1>4 DEF Counting
  <2>2. /\ Counting(q, {"hour", "day"})' \subseteq Counting(q, {"hour", "day"})
    BY <1>2, <1>3, <1>4 DEF Counting
  <2>3. /\ Cardinality(Counting(q, {"hour"})') <= Cardinality(Counting(q, {"hour"}))
        /\ Cardinality(Counting(q, {"hour"})') \in Nat
        /\ q = p => Cardinality(Counting(q, {"hour"})')
                      = Cardinality(Counting(q, {"hour"})) - 1
    BY <1>4, <2>1, CountingShrinks
  <2>4. /\ IsFiniteSet(Counting(q, {"hour", "day"}))
        /\ Cardinality(Counting(q, {"hour", "day"})) \in Nat
        /\ Cardinality(Counting(q, {"hour"})) \in Nat
    BY CountingIsFinite
  <2>5. /\ Cardinality(Counting(q, {"hour", "day"})')
             <= Cardinality(Counting(q, {"hour", "day"}))
        /\ Cardinality(Counting(q, {"hour", "day"})') \in Nat
    BY <2>2, <2>4, FS_Subset, FS_CardinalityType
  <2> QED BY <2>3, <2>4, <2>5
<1>6. ASSUME NEW q \in Person
      PROVE  /\ hour'[q] = IF q = p THEN hour[q] + 1 ELSE hour[q]
             /\ day'[q] = day[q]
             /\ hour[q] \in 0..MaxCount /\ day[q] \in 0..MaxCount /\ RoomLeft(q)
  BY <1>1, <1>2 DEF InvitesInv
<1>7. ASSUME NEW q \in Person PROVE RoomLeft(q)'
  BY <1>5, <1>6, AccountsAssumption DEF RoomLeft
<1>8. hour' \in [Person -> 0..MaxCount]
  <2>1. \A q \in Person : hour'[q] \in 0..MaxCount
    BY <1>5, <1>6, <1>7, AccountsAssumption DEF RoomLeft
  <2> QED BY <1>1, <1>2, <2>1
<1>9. I!TypeOK'
  BY <1>1, <1>2, <1>4, <1>8 DEF I!TypeOK, Creating
<1>10. Drawn'
  BY <1>2 DEF InvitesInv, Drawn
<1> QED BY <1>7, <1>9, <1>10 DEF InvitesInv

LEMMA CountDayStep ==
  ASSUME InvitesInv, NEW s \in Slot, I!CountDay(s)
  PROVE  InvitesInv'
<1> DEFINE p == creation[s].from
           new == IF day'[p] > DailyLimit THEN I!NoCreate
                  ELSE [creation[s] EXCEPT !.pc = "pending"]
<1>1. /\ I!TypeOK /\ creation \in [Slot -> Creating] /\ creation[s] \in Creating
      /\ hour \in [Person -> 0..MaxCount] /\ day \in [Person -> 0..MaxCount]
  BY InviteTypes DEF InvitesInv
<1>2. /\ creation[s].pc = "day" /\ day' = [day EXCEPT ![p] = day[p] + 1]
      /\ creation' = [creation EXCEPT ![s] = new]
      /\ UNCHANGED <<invite, indexed, aged, hour, respond>>
  BY <1>1 DEF I!CountDay
<1>3. new \in Creating /\ new.pc \in {"idle", "pending"}
  BY <1>1, InviteRecords DEF Creating
<1> HIDE DEF new
<1>4. /\ creation' \in [Slot -> Creating] /\ creation'[s] = new
      /\ \A t \in Slot : t # s => creation'[t] = creation[t]
  BY <1>1, <1>2, <1>3
<1>5. ASSUME NEW q \in Person
      PROVE  /\ Cardinality(Counting(q, {"hour"})') <= Cardinality(Counting(q, {"hour"}))
             /\ Cardinality(Counting(q, {"hour"})') \in Nat
             /\ Cardinality(Counting(q, {"hour"})) \in Nat
             /\ Cardinality(Counting(q, {"hour", "day"})')
                  <= Cardinality(Counting(q, {"hour", "day"}))
             /\ Cardinality(Counting(q, {"hour", "day"})') \in Nat
             /\ Cardinality(Counting(q, {"hour", "day"})) \in Nat
             /\ q = p => Cardinality(Counting(q, {"hour", "day"})')
                           = Cardinality(Counting(q, {"hour", "day"})) - 1
  <2>1. /\ s \notin Counting(q, {"hour"})' /\ s \notin Counting(q, {"hour", "day"})'
        /\ q = p => s \in Counting(q, {"hour", "day"})
    BY <1>2, <1>3, <1>4 DEF Counting
  <2>2. /\ Cardinality(Counting(q, {"hour"})') <= Cardinality(Counting(q, {"hour"}))
        /\ Cardinality(Counting(q, {"hour"})') \in Nat
    BY <1>4, <2>1, CountingShrinks
  <2>3. /\ Cardinality(Counting(q, {"hour", "day"})')
             <= Cardinality(Counting(q, {"hour", "day"}))
        /\ Cardinality(Counting(q, {"hour", "day"})') \in Nat
        /\ q = p => Cardinality(Counting(q, {"hour", "day"})')
                      = Cardinality(Counting(q, {"hour", "day"})) - 1
    BY <1>4, <2>1, CountingShrinks
  <2>4. /\ Cardinality(Counting(q, {"hour", "day"})) \in Nat
        /\ Cardinality(Counting(q, {"hour"})) \in Nat
    BY CountingIsFinite
  <2> QED BY <2>2, <2>3, <2>4
<1>6. ASSUME NEW q \in Person
      PROVE  /\ day'[q] = IF q = p THEN day[q] + 1 ELSE day[q]
             /\ hour'[q] = hour[q]
             /\ hour[q] \in 0..MaxCount /\ day[q] \in 0..MaxCount /\ RoomLeft(q)
  BY <1>1, <1>2 DEF InvitesInv
<1>7. ASSUME NEW q \in Person PROVE RoomLeft(q)'
  BY <1>5, <1>6, AccountsAssumption DEF RoomLeft
<1>8. day' \in [Person -> 0..MaxCount]
  <2>1. \A q \in Person : day'[q] \in 0..MaxCount
    BY <1>5, <1>6, <1>7, AccountsAssumption DEF RoomLeft
  <2> QED BY <1>1, <1>2, <2>1
<1>9. I!TypeOK'
  BY <1>1, <1>2, <1>4, <1>8 DEF I!TypeOK, Creating
<1>10. Drawn'
  BY <1>2 DEF InvitesInv, Drawn
<1> QED BY <1>7, <1>9, <1>10 DEF InvitesInv

LEMMA CheckPendingStep ==
  ASSUME InvitesInv, NEW s \in Slot, I!CheckPending(s)
  PROVE  InvitesInv'
<1>1. I!TypeOK /\ creation \in [Slot -> Creating] /\ creation[s] \in Creating
  BY InviteTypes DEF InvitesInv
<1>2. /\ \/ creation' = [creation EXCEPT ![s] = [creation[s] EXCEPT !.pc = "put"]]
         \/ creation' = [creation EXCEPT ![s] = I!NoCreate]
      /\ UNCHANGED <<invite, indexed, aged, hour, day, respond>>
  BY <1>1 DEF I!CheckPending
<1>3. /\ creation' \in [Slot -> Creating]
      /\ creation'[s].pc \notin {"hour", "day"}
      /\ \A t \in Slot : t # s => creation'[t] = creation[t]
  <2>1. /\ [creation[s] EXCEPT !.pc = "put"] \in Creating
        /\ [creation[s] EXCEPT !.pc = "put"].pc = "put"
    BY <1>1 DEF Creating
  <2> QED BY <1>1, <1>2, <2>1, InviteRecords
<1>4. \A p \in Person : RoomLeft(p)'
  BY <1>2, <1>3, CreationEnds
<1>5. I!TypeOK'
  BY <1>1, <1>2, <1>3 DEF I!TypeOK, Creating
<1> QED BY <1>2, <1>4, <1>5 DEF InvitesInv, Drawn

LEMMA PutInviteStep ==
  ASSUME InvitesInv, NEW s \in Slot, NEW i \in Id, I!PutInvite(s, i)
  PROVE  InvitesInv'
<1> DEFINE new == [status |-> "pending", to |-> creation[s].to]
<1>1. /\ I!TypeOK /\ creation \in [Slot -> Creating] /\ creation[s] \in Creating
      /\ invite \in [Id -> Invitation] /\ aged \in [Id -> {"new", "fresh", "past"}]
  BY InviteTypes DEF InvitesInv
<1>2. /\ aged[i] = "new" /\ invite' = [invite EXCEPT ![i] = new]
      /\ aged' = [aged EXCEPT ![i] = "fresh"]
      /\ creation' = [creation EXCEPT ![s] = I!NoCreate]
      /\ UNCHANGED <<indexed, hour, day, respond>>
  BY DEF I!PutInvite
<1>3. new \in Invitation
  BY <1>1 DEF Creating, Invitation
<1> HIDE DEF new
<1>4. /\ creation' \in [Slot -> Creating]
      /\ creation'[s].pc \notin {"hour", "day"}
      /\ \A t \in Slot : t # s => creation'[t] = creation[t]
  BY <1>1, <1>2, InviteRecords
<1>5. \A p \in Person : RoomLeft(p)'
  BY <1>2, <1>4, CreationEnds
<1>6. /\ invite' \in [Id -> Invitation] /\ aged' \in [Id -> {"new", "fresh", "past"}]
      /\ aged'[i] = "fresh"
      /\ \A j \in Id : j # i => invite'[j] = invite[j] /\ aged'[j] = aged[j]
  BY <1>1, <1>2, <1>3
<1>7. I!TypeOK'
  BY <1>1, <1>2, <1>4, <1>6 DEF I!TypeOK, Creating, Invitation
<1>8. Drawn'
  BY <1>2, <1>6 DEF InvitesInv, Drawn
<1> QED BY <1>5, <1>7, <1>8 DEF InvitesInv

(* The recipient's answers: the counters and the creations are untouched.  *)
LEMMA RoomStays ==
  ASSUME InvitesInv, UNCHANGED <<hour, day, creation>>
  PROVE  \A p \in Person : RoomLeft(p)'
BY DEF InvitesInv, RoomLeft, Counting

LEMMA AskedIsRecord ==
  ASSUME NEW r \in Answering, NEW p, NEW o, NEW i, NEW x,
         x = [r EXCEPT !.pc = p, !.op = o, !.id = i]
  PROVE  x = [pc |-> p, op |-> o, id |-> i, answer |-> r.answer]
BY DEF Answering

LEMMA VerdictIsRecord ==
  ASSUME NEW r \in Answering, NEW a, NEW p, NEW x,
         x = [r EXCEPT !.answer = a, !.pc = p]
  PROVE  x = [pc |-> p, op |-> r.op, id |-> r.id, answer |-> a]
BY DEF Answering

LEMMA RespondStep ==
  ASSUME InvitesInv, NEW s \in Slot, NEW i \in Id, NEW op \in {"accept", "decline"},
         I!Respond(s, i, op)
  PROVE  InvitesInv'
<1> DEFINE new == [I!NoAnswer EXCEPT !.pc = "read", !.op = op, !.id = i]
<1>1. I!TypeOK /\ respond \in [Slot -> Answering]
  BY InviteTypes DEF InvitesInv
<1>2. /\ aged[i] # "new" /\ respond' = [respond EXCEPT ![s] = new]
      /\ UNCHANGED <<invite, indexed, aged, hour, day, creation>>
  BY DEF I!Respond
<1>3. new \in Answering /\ new.pc = "read" /\ new.id = i
  <2>1. PICK a \in Answering : a = I!NoAnswer
    BY InviteRecords
  <2>2. new = [a EXCEPT !.pc = "read", !.op = op, !.id = i]
    BY <2>1
  <2>3. new = [pc |-> "read", op |-> op, id |-> i, answer |-> a.answer]
    BY <2>2, AskedIsRecord
  <2> QED BY <2>3 DEF Answering
<1> HIDE DEF new
<1>4. /\ respond' \in [Slot -> Answering] /\ respond'[s] = new
      /\ \A t \in Slot : t # s => respond'[t] = respond[t]
  BY <1>1, <1>2, <1>3
<1>5. I!TypeOK'
  BY <1>1, <1>2, <1>4 DEF I!TypeOK, Answering
<1>6. Drawn'
  BY <1>2, <1>3, <1>4 DEF InvitesInv, Drawn
<1> QED BY <1>2, <1>5, <1>6, RoomStays DEF InvitesInv

(* Nothing is left to update for an acceptance.                            *)
LEMMA AcceptanceFails ==
  ASSUME InvitesInv, NEW i \in Id, aged[i] # "new"
  PROVE  /\ I!Verdict("accept", i) # "none"
         /\ \A op \in {"accept", "decline"} :
              I!Verdict(op, i) \in {"none", "ok", "not found", "conflict", "expired",
                                    "refused"}
<1>1. aged[i] \in {"fresh", "past"}
  BY InviteTypes DEF InvitesInv
<1> QED BY <1>1 DEF I!Verdict, I!TakenForExpired

LEMMA ReadInviteStep ==
  ASSUME InvitesInv, NEW s \in Slot, I!ReadInvite(s)
  PROVE  InvitesInv'
<1> DEFINE i == respond[s].id
           verdict == I!Verdict(respond[s].op, i)
           next == IF verdict = "none" THEN "update" ELSE "answered"
           new == [respond[s] EXCEPT !.answer = verdict, !.pc = next]
<1>1. /\ I!TypeOK /\ respond \in [Slot -> Answering] /\ respond[s] \in Answering
      /\ respond[s].op \in {"accept", "decline"}
  BY InviteTypes DEF InvitesInv, Answering
<1>2. /\ respond[s].pc = "read" /\ respond' = [respond EXCEPT ![s] = new]
      /\ UNCHANGED <<invite, indexed, aged, hour, day, creation>>
  BY <1>1 DEF I!ReadInvite
<1>3. i \in Id /\ aged[i] # "new"
  BY <1>2 DEF InvitesInv, Drawn
<1>4. /\ verdict \in {"none", "ok", "not found", "conflict", "expired", "refused"}
      /\ verdict = "none" => respond[s].op = "decline"
  BY <1>1, <1>3, AcceptanceFails
<1> HIDE DEF verdict
<1>5. /\ next \in {"update", "answered"}
      /\ next = "update" => respond[s].op = "decline"
  BY <1>4
<1> HIDE DEF next
<1>6. new = [pc |-> next, op |-> respond[s].op, id |-> i, answer |-> verdict]
  BY <1>1, VerdictIsRecord
<1>7. /\ new \in Answering /\ new.pc = next /\ new.op = respond[s].op /\ new.id = i
  BY <1>1, <1>4, <1>5, <1>6 DEF Answering
<1> HIDE DEF new, i
<1>8. /\ respond' \in [Slot -> Answering] /\ respond'[s] = new
      /\ \A t \in Slot : t # s => respond'[t] = respond[t]
  BY <1>1, <1>2, <1>7
<1>9. I!TypeOK'
  BY <1>1, <1>2, <1>8 DEF I!TypeOK, Answering
<1>10. Drawn'
  BY <1>2, <1>3, <1>5, <1>7, <1>8 DEF InvitesInv, Drawn
<1> QED BY <1>2, <1>9, <1>10, RoomStays DEF InvitesInv

LEMMA UpdateInviteStep ==
  ASSUME InvitesInv, NEW s \in Slot, I!UpdateInvite(s)
  PROVE  /\ InvitesInv'
         /\ \A i \in Id : invite'[i] = invite[i] \/ invite'[i].status = "declined"
<1> DEFINE i == respond[s].id
           declined == [invite[i] EXCEPT !.status = "declined"]
           new == [respond[s] EXCEPT !.pc = "answered", !.answer = "ok"]
<1>1. /\ I!TypeOK /\ respond \in [Slot -> Answering] /\ respond[s] \in Answering
      /\ invite \in [Id -> Invitation]
  BY InviteTypes DEF InvitesInv
<1>2. /\ respond[s].pc = "update" /\ respond[s].op = "decline" /\ i \in Id
      /\ aged[i] # "new"
  BY DEF I!UpdateInvite, InvitesInv, Drawn
<1>3. /\ invite' = [invite EXCEPT ![i] = declined]
      /\ respond' = [respond EXCEPT ![s] = new]
      /\ UNCHANGED <<indexed, aged, hour, day, creation>>
  BY <1>1, <1>2 DEF I!UpdateInvite
<1>4. declined \in Invitation /\ declined.status = "declined"
  <2>1. invite[i] \in Invitation
    BY <1>1, <1>2
  <2> QED BY <2>1 DEF Invitation
<1>5. new \in Answering /\ new.pc = "answered"
  BY <1>1 DEF Answering
<1> HIDE DEF declined, new, i
<1>6. /\ invite' \in [Id -> Invitation] /\ respond' \in [Slot -> Answering]
      /\ \A j \in Id : j # i => invite'[j] = invite[j]
      /\ \A t \in Slot : t # s => respond'[t] = respond[t]
      /\ invite'[i] = declined /\ respond'[s] = new
  BY <1>1, <1>2, <1>3, <1>4, <1>5
<1>7. I!TypeOK'
  BY <1>1, <1>3, <1>6 DEF I!TypeOK, Answering, Invitation
<1>8. Drawn'
  BY <1>2, <1>3, <1>5, <1>6 DEF InvitesInv, Drawn
<1>9. InvitesInv'
  BY <1>3, <1>7, <1>8, RoomStays DEF InvitesInv
<1> QED BY <1>4, <1>6, <1>9

(* An invocation ends, by its answer or before.                            *)
LEMMA InvocationEnds ==
  ASSUME InvitesInv, NEW s \in Slot, I!Answered(s) \/ I!Die(s)
  PROVE  InvitesInv'
<1>1. /\ I!TypeOK /\ respond \in [Slot -> Answering] /\ creation \in [Slot -> Creating]
  BY InviteTypes DEF InvitesInv
<1>2. /\ respond' = [respond EXCEPT ![s] = I!NoAnswer]
      /\ creation' = creation \/ creation' = [creation EXCEPT ![s] = I!NoCreate]
      /\ UNCHANGED <<invite, indexed, aged, hour, day>>
  BY DEF I!Answered, I!Die
<1>3. /\ respond' \in [Slot -> Answering] /\ creation' \in [Slot -> Creating]
      /\ respond'[s].pc = "idle"
      /\ \A t \in Slot : t # s => respond'[t] = respond[t] /\ creation'[t] = creation[t]
  BY <1>1, <1>2, InviteRecords
<1>4. \A p \in Person : RoomLeft(p)'
  <2>1. CASE creation' = creation
    BY <1>2, <2>1, RoomStays
  <2>2. CASE creation' = [creation EXCEPT ![s] = I!NoCreate]
    <3>1. creation'[s].pc \notin {"hour", "day"}
      BY <1>1, <2>2, InviteRecords
    <3> QED BY <1>2, <1>3, <3>1, CreationEnds
  <2> QED BY <1>2, <2>1, <2>2
<1>5. I!TypeOK'
  BY <1>1, <1>2, <1>3 DEF I!TypeOK, Answering, Creating
<1>6. Drawn'
  BY <1>2, <1>3 DEF InvitesInv, Drawn
<1> QED BY <1>4, <1>5, <1>6 DEF InvitesInv

LEMMA InviteAges ==
  ASSUME InvitesInv, NEW i \in Id, I!Index(i) \/ I!Expire(i) \/ I!Sweep(i)
  PROVE  InvitesInv'
<1>1. /\ I!TypeOK /\ invite \in [Id -> Invitation]
      /\ aged \in [Id -> {"new", "fresh", "past"}] /\ indexed \subseteq Id
  BY InviteTypes DEF InvitesInv
<1>2. /\ indexed' \subseteq Id
      /\ aged' = aged \/ (aged[i] = "fresh" /\ aged' = [aged EXCEPT ![i] = "past"])
      /\ invite' = invite \/ invite' = [invite EXCEPT ![i] = I!NoInvite]
      /\ UNCHANGED <<hour, day, creation, respond>>
  BY <1>1 DEF I!Index, I!Expire, I!Sweep
<1>3. /\ invite' \in [Id -> Invitation] /\ aged' \in [Id -> {"new", "fresh", "past"}]
      /\ \A j \in Id : aged'[j] = "new" <=> aged[j] = "new"
      /\ \A j \in Id : invite'[j] = invite[j] \/ invite'[j].status = "none"
  BY <1>1, <1>2, InviteRecords
<1>4. I!TypeOK'
  BY <1>1, <1>2, <1>3 DEF I!TypeOK, Invitation
<1>5. Drawn'
  BY <1>2, <1>3 DEF InvitesInv, Drawn
<1> QED BY <1>2, <1>4, <1>5, RoomStays DEF InvitesInv

LEMMA WindowPasses ==
  ASSUME InvitesInv, NEW p \in Person, I!HourPasses(p) \/ I!DayPasses(p)
  PROVE  InvitesInv'
<1>1. /\ I!TypeOK
      /\ hour \in [Person -> 0..MaxCount] /\ day \in [Person -> 0..MaxCount]
  BY InviteTypes DEF InvitesInv
<1>2. /\ hour' = [hour EXCEPT ![p] = 0]
      /\ day' = day \/ day' = [day EXCEPT ![p] = 0]
      /\ UNCHANGED <<invite, indexed, aged, creation, respond>>
  BY DEF I!HourPasses, I!DayPasses
<1>3. /\ hour' \in [Person -> 0..MaxCount] /\ day' \in [Person -> 0..MaxCount]
      /\ \A q \in Person : hour'[q] <= hour[q] /\ day'[q] <= day[q]
  BY <1>1, <1>2, AccountsAssumption
<1>4. ASSUME NEW q \in Person PROVE RoomLeft(q)'
  <2>1. /\ Cardinality(Counting(q, {"hour"})) \in Nat
        /\ Cardinality(Counting(q, {"hour", "day"})) \in Nat
    BY CountingIsFinite
  <2>2. /\ Counting(q, {"hour"})' = Counting(q, {"hour"})
        /\ Counting(q, {"hour", "day"})' = Counting(q, {"hour", "day"})
    BY <1>2 DEF Counting
  <2>3. /\ hour'[q] <= hour[q] /\ day'[q] <= day[q]
        /\ hour'[q] \in Int /\ day'[q] \in Int /\ hour[q] \in Int /\ day[q] \in Int
    BY <1>1, <1>3, AccountsAssumption
  <2> QED BY <2>1, <2>2, <2>3, AccountsAssumption DEF InvitesInv, RoomLeft
<1>5. I!TypeOK'
  BY <1>1, <1>2, <1>3 DEF I!TypeOK
<1> QED BY <1>2, <1>4, <1>5 DEF InvitesInv, Drawn

LEMMA InvitesNext ==
  ASSUME InvitesInv, [I!Next]_(ivars) PROVE InvitesInv'
<1>1. CASE UNCHANGED ivars
  BY <1>1 DEF ivars, InvitesInv, I!TypeOK, RoomLeft, Counting, Drawn
<1>2. ASSUME NEW s \in Slot, NEW p \in Person, NEW r \in Person, I!Create(s, p, r)
      PROVE  InvitesInv'
  BY <1>2, CreateInviteStep
<1>3. ASSUME NEW s \in Slot, NEW i \in Id,
             \/ I!PutInvite(s, i)
             \/ \E op \in {"accept", "decline"} : I!Respond(s, i, op)
      PROVE  InvitesInv'
  BY <1>3, PutInviteStep, RespondStep
<1>4. ASSUME NEW s \in Slot,
             \/ I!CountHour(s) \/ I!CountDay(s) \/ I!CheckPending(s)
             \/ I!ReadInvite(s) \/ I!UpdateInvite(s) \/ I!Answered(s) \/ I!Die(s)
      PROVE  InvitesInv'
  BY <1>4, CountHourStep, CountDayStep, CheckPendingStep, ReadInviteStep,
     UpdateInviteStep, InvocationEnds
<1>5. ASSUME NEW i \in Id, I!Index(i) \/ I!Expire(i) \/ I!Sweep(i)
      PROVE  InvitesInv'
  BY <1>5, InviteAges
<1>6. ASSUME NEW p \in Person, I!HourPasses(p) \/ I!DayPasses(p)
      PROVE  InvitesInv'
  BY <1>6, WindowPasses
<1> QED BY <1>1, <1>2, <1>3, <1>4, <1>5, <1>6 DEF I!Next

LEMMA DeclineStep ==
  ASSUME InvitesInv, [I!Next]_(ivars), NEW i \in Id, invite[i].status = "declined"
  PROVE  invite'[i].status \in {"declined", "none"}
<1>1. aged[i] # "new" /\ invite \in [Id -> Invitation]
  BY InviteTypes DEF InvitesInv, Drawn
<1>2. CASE UNCHANGED ivars
  BY <1>2 DEF ivars
<1>3. ASSUME NEW s \in Slot, NEW p \in Person, NEW r \in Person, I!Create(s, p, r)
      PROVE  invite' = invite
  BY <1>3 DEF I!Create
<1>4. ASSUME NEW s \in Slot, NEW j \in Id,
             \/ I!PutInvite(s, j)
             \/ \E op \in {"accept", "decline"} : I!Respond(s, j, op)
      PROVE  invite'[i] = invite[i]
  BY <1>1, <1>4 DEF I!PutInvite, I!Respond
<1>5. ASSUME NEW s \in Slot,
             \/ I!CountHour(s) \/ I!CountDay(s) \/ I!CheckPending(s)
             \/ I!ReadInvite(s) \/ I!Answered(s) \/ I!Die(s)
      PROVE  invite' = invite
  BY <1>5 DEF I!CountHour, I!CountDay, I!CheckPending, I!ReadInvite, I!Answered, I!Die
<1>6. ASSUME NEW s \in Slot, I!UpdateInvite(s)
      PROVE  invite'[i] = invite[i] \/ invite'[i].status = "declined"
  BY <1>6, UpdateInviteStep
<1>7. ASSUME NEW j \in Id, I!Index(j) \/ I!Expire(j) \/ I!Sweep(j)
      PROVE  invite'[i] = invite[i] \/ invite'[i].status = "none"
  BY <1>1, <1>7, InviteRecords DEF I!Index, I!Expire, I!Sweep
<1>8. ASSUME NEW p \in Person, I!HourPasses(p) \/ I!DayPasses(p)
      PROVE  invite' = invite
  BY <1>8 DEF I!HourPasses, I!DayPasses
<1> QED BY <1>2, <1>3, <1>4, <1>5, <1>6, <1>7, <1>8 DEF I!Next

-----------------------------------------------------------------------------
(***************************************************************************)
(* The machines together.  Each step is one of one machine and leaves the  *)
(* variables of the others as they are, so that the whole is a behaviour   *)
(* of every part.                                                          *)
(***************************************************************************)

LEMMA PartsInit == MCInit => R!Init /\ D!Init /\ I!Init /\ Init
BY DEF MCInit

LEMMA PartsNext ==
  ASSUME [MCNext]_allvars
  PROVE  /\ [R!Next]_(rvars) /\ [D!Next]_(dvars) /\ [I!Next]_(ivars) /\ [Next]_vars
<1>1. CASE UNCHANGED allvars
  BY <1>1 DEF allvars, kvars
<1>2. CASE Registration
  BY <1>2 DEF Registration, kvars
<1>3. CASE DeviceLink
  BY <1>3 DEF DeviceLink, kvars
<1>4. CASE Invites
  BY <1>4 DEF Invites, kvars
<1>5. CASE KeyRotation
  BY <1>5 DEF KeyRotation
<1> QED BY <1>1, <1>2, <1>3, <1>4, <1>5 DEF MCNext

(* Each part's invariant is one of the whole.                              *)
LEMMA AllInvariants ==
  MCSpec => [](RegistrationInv /\ LinkInv /\ InvitesInv /\ TypeInv)
<1> DEFINE Inv == RegistrationInv /\ LinkInv /\ InvitesInv /\ TypeInv
<1>1. MCInit => Inv
  BY PartsInit, RegistrationInit, LinkInit, InvitesInit, TypeInvInit
<1>2. Inv /\ [MCNext]_allvars => Inv'
  BY PartsNext, RegistrationNext, LinkNext, InvitesNext, TypeNext
<1> QED BY <1>1, <1>2, PTL DEF MCSpec

(* Every part keeps its types, the counters of invitations among them: no  *)
(* window counts more creations than the bound lets a sender try, however  *)
(* many are between the check and the count.                               *)
THEOREM AccountTypes == MCSpec => []TypesOK
<1>1. RegistrationInv /\ LinkInv /\ InvitesInv /\ TypeInv => TypesOK
  BY DEF RegistrationInv, LinkInv, InvitesInv, TypeInv, TypesOK
<1> QED BY <1>1, AllInvariants, PTL

(* A device's config says of its account what the server's records say     *)
(* (setup-sync.ts, register.ts): whatever answers are lost or come late.   *)
THEOREM ConfigAgreesWithServer == MCSpec => []ConfigIsTrue
<1>1. RegistrationInv => ConfigIsTrue
  BY DEF RegistrationInv, ConfigIsTrue
<1> QED BY <1>1, AllInvariants, PTL

(* No device is linked by a key that the account no longer listed when the *)
(* request began (register.ts, the fresh fetch before auto-linking).       *)
THEOREM OnlyListedKeysLink == MCSpec => []RemovedKeyNotLinked
<1>1. RegistrationInv => RemovedKeyNotLinked
  BY DEF RegistrationInv, Truthful, Handled, R!RemovedKeyNotLinked,
         RemovedKeyNotLinked
<1> QED BY <1>1, AllInvariants, PTL

(* A link code that can be looked up leads to a link, and no confirmation  *)
(* brings a swept link back without an expiry (devices.ts).                *)
THEOREM LinksAreWhole == MCSpec => []LinkRecordsWhole
<1>1. LinkInv => LinkRecordsWhole
  BY DEF LinkInv, LinkRecordsWhole
<1> QED BY <1>1, AllInvariants, PTL

(* A declined invitation is never pending or accepted again (invites.ts):  *)
(* of two answers that have read it pending, only a decline can write.     *)
THEOREM DeclinesStand == MCSpec => DeclineIsFinal
<1> DEFINE Final == \A i \in Id : invite[i].status = "declined"
                      => invite'[i].status \in {"declined", "none"}
<1>1. InvitesInv /\ [MCNext]_allvars => [Final]_(ivars)
  BY PartsNext, DeclineStep
<1> HIDE DEF Final
<1>2. MCSpec => [][Final]_(ivars)
  BY <1>1, AllInvariants, PTL DEF MCSpec
<1> QED BY <1>2 DEF Final, DeclineIsFinal, I!DeclineIsFinal, I!vars, ivars
=============================================================================
