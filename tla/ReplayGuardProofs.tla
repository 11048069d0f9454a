-------------------------- MODULE ReplayGuardProofs --------------------------
(***************************************************************************)
(* Proofs about ReplayGuard, for any number of machines, callers, calls    *)
(* and repeated deliveries.                                                *)
(***************************************************************************)
EXTENDS ReplayGuard, TLAPS

(* Every request that still exists, under way or admitted.                 *)
Seen == wire \cup {admitted[i] : i \in DOMAIN admitted}

Current(c) == 2 * call[c].call + (IF call[c].retry THEN 1 ELSE 0)

(* What a caller sent is no later than what it is doing now.               *)
NoneFromTheFuture ==
  \A r \in Seen : r.seq <= call[r.from].seq /\ Attempt(r) <= Current(r.from)

(* The numbers of one caller's requests follow its attempts.               *)
NumbersFollowAttempts ==
  \A r, s \in Seen :
    r.from = s.from /\ r.seq < s.seq => Attempt(r) < Attempt(s)

(* Requests are admitted in the order of their numbers.                    *)
AdmittedByNumber ==
  /\ \A i \in DOMAIN admitted : admitted[i].seq <= highest
  /\ \A i, j \in DOMAIN admitted : i < j => admitted[i].seq < admitted[j].seq

FirstAttemptBumps ==
  \A c \in Caller : call[c].phase = "bumping" => ~call[c].retry

IInv == /\ TypeOK /\ FirstAttemptBumps /\ NoneFromTheFuture
        /\ NumbersFollowAttempts /\ AdmittedByNumber

-----------------------------------------------------------------------------
LEMMA InitIInv == Init => IInv
<1> SUFFICES ASSUME Init PROVE IInv
  OBVIOUS
<1> USE ReplayGuardAssumption
<1>1. TypeOK
  <2>1. ASSUME NEW c \in Caller
        PROVE  call[c] \in Call /\ call[c].seq = 0
    <3>1. call[c] \in {[phase |-> "idle", call |-> 0, retry |-> FALSE,
                        seq |-> 0, target |-> t, left |-> 0,
                        answer |-> "none"] : t \in Target}
      BY DEF Init
    <3>2. PICK t \in Target : call[c] = [phase |-> "idle", call |-> 0, retry |-> FALSE,
                                        seq |-> 0, target |-> t, left |-> 0,
                                        answer |-> "none"]
      BY <3>1
    <3> QED
      BY <3>2 DEF Call
  <2>2. call \in [Caller -> Call]
    BY <2>1 DEF Init
  <2>3. counter \in [Machine -> Nat] /\ admitted \in Seq(Request) /\ highest \in Nat
    BY DEF Init
  <2>4. \A c \in Caller : call[c].seq <= counter[Home[c]]
    BY <2>1, <2>3
  <2> QED
    BY <2>2, <2>3, <2>4 DEF Init, TypeOK
<1>2. Seen = {}
  BY DEF Init, Seen
<1>3. FirstAttemptBumps
  BY DEF Init, FirstAttemptBumps
<1>4. NoneFromTheFuture /\ NumbersFollowAttempts
  BY <1>2 DEF NoneFromTheFuture, NumbersFollowAttempts
<1>5. AdmittedByNumber
  BY DEF Init, AdmittedByNumber
<1> QED
  BY <1>1, <1>3, <1>4, <1>5 DEF IInv

(* What typing says of one caller and of one request that exists.          *)
LEMMA CallFacts ==
  ASSUME TypeOK, NEW c \in Caller
  PROVE  /\ Home[c] \in Machine /\ counter[Home[c]] \in Nat
         /\ call[c] \in Call /\ call[c].call \in Nat /\ call[c].seq \in Nat
         /\ call[c].retry \in BOOLEAN /\ call[c].target \in Target
         /\ call[c].left \in Nat /\ call[c].answer \in Verdicts \cup {"none"}
         /\ call[c].phase \in {"idle", "waiting", "answered", "bumping"}
         /\ call[c].seq <= counter[Home[c]] /\ Current(c) \in Nat
BY ReplayGuardAssumption DEF TypeOK, Call, Current

LEMMA SeenFacts ==
  ASSUME TypeOK, NEW r \in Seen
  PROVE  r \in Request /\ r.from \in Caller /\ r.seq \in Nat /\ Attempt(r) \in Nat
<1>1. r \in Request
  BY DEF Seen, TypeOK
<1> QED
  BY <1>1 DEF Request, Attempt

-----------------------------------------------------------------------------
(* Sending: the new request has the highest number and the latest attempt  *)
(* of its caller.                                                          *)
LEMMA SendPreserves ==
  ASSUME IInv, NEW c \in Caller, NEW n \in Nat, NEW again \in BOOLEAN,
         NEW t \in Target, Send(c, n, again, t),
         2 * n + (IF again THEN 1 ELSE 0) > Current(c),
         UNCHANGED <<highest, admitted, repeats>>,
         overtaken' \in [Caller -> BOOLEAN], behind' \in [Caller -> Nat]
  PROVE  IInv'
<1> DEFINE new == [from |-> c, call |-> n, retry |-> again,
                   seq |-> NextNumber(c), target |-> t]
           doing == [phase |-> "waiting", call |-> n, retry |-> again,
                     seq |-> NextNumber(c), target |-> t, left |-> 0,
                     answer |-> "none"]
<1>1. TypeOK
  BY DEF IInv
<1>2. /\ Home[c] \in Machine /\ NextNumber(c) \in Nat
      /\ NextNumber(c) > call[c].seq /\ NextNumber(c) = counter[Home[c]] + 1
  BY <1>1, CallFacts DEF NextNumber
<1>3. /\ counter' = [counter EXCEPT ![Home[c]] = NextNumber(c)]
      /\ wire' = wire \cup {new} /\ call' = [call EXCEPT ![c] = doing]
  BY DEF Send, Take
<1>4. new \in Request /\ doing \in Call
  BY <1>2 DEF Request, Call
<1>5. Seen' = Seen \cup {new}
  BY <1>3 DEF Seen
<1>6. /\ \A d \in Caller : d # c => call'[d] = call[d]
      /\ call'[c] = doing
  BY <1>1, <1>3 DEF TypeOK
<1>7. Attempt(new) = 2 * n + (IF again THEN 1 ELSE 0) /\ Current(c)' = Attempt(new)
  BY <1>6 DEF Attempt, Current
<1>8. Attempt(new) \in Nat /\ Attempt(new) > Current(c)
  BY <1>7
<1>9. TypeOK'
  <2>1. counter' \in [Machine -> Nat] /\ call' \in [Caller -> Call] /\ wire' \subseteq Request
    BY <1>1, <1>2, <1>3, <1>4 DEF TypeOK
  <2>2. ASSUME NEW d \in Caller
        PROVE  call'[d].seq <= counter'[Home[d]]
    <3>0. counter \in [Machine -> Nat] /\ Home[d] \in Machine
      BY <1>1, CallFacts DEF TypeOK
    <3>1. counter'[Home[d]] >= counter[Home[d]] /\ counter[Home[d]] \in Nat
          /\ counter'[Home[c]] = NextNumber(c) /\ counter'[Home[d]] \in Nat
      BY <3>0, <1>2, <1>3
    <3>2. CASE d = c
      BY <3>1, <3>2, <1>6, <1>2
    <3>3. CASE d # c
      BY <3>1, <3>3, <1>6, <1>1, CallFacts
    <3> QED
      BY <3>2, <3>3
  <2> QED
    BY <1>1, <2>1, <2>2 DEF TypeOK
<1>10. FirstAttemptBumps'
  BY <1>6 DEF IInv, FirstAttemptBumps
<1>11. NoneFromTheFuture'
  <2> SUFFICES ASSUME NEW r \in Seen'
               PROVE  r.seq <= call'[r.from].seq /\ Attempt(r) <= Current(r.from)'
    BY DEF NoneFromTheFuture, Attempt
  <2>1. CASE r = new
    BY <2>1, <1>2, <1>6, <1>7, <1>8
  <2>2. CASE r \in Seen
    <3>1. r.seq <= call[r.from].seq /\ Attempt(r) <= Current(r.from)
      BY <2>2 DEF IInv, NoneFromTheFuture
    <3>2. CASE r.from = c
      BY <3>1, <3>2, <2>2, <1>1, <1>2, <1>6, <1>7, <1>8, SeenFacts, CallFacts
    <3>3. CASE r.from # c
      BY <3>1, <3>3, <2>2, <1>1, <1>6, SeenFacts DEF Current
    <3> QED
      BY <3>2, <3>3
  <2> QED
    BY <2>1, <2>2, <1>5
<1>12. NumbersFollowAttempts'
  <2> SUFFICES ASSUME NEW r \in Seen', NEW s \in Seen',
                      r.from = s.from, r.seq < s.seq
               PROVE  Attempt(r) < Attempt(s)
    BY DEF NumbersFollowAttempts, Attempt
  <2>1. \A q \in Seen : q.from = c => q.seq < new.seq /\ Attempt(q) < Attempt(new)
    BY <1>1, <1>2, <1>8, SeenFacts, CallFacts DEF IInv, NoneFromTheFuture
  <2>2. CASE r = new /\ s = new
    BY <2>2, <1>2
  <2>3. CASE r = new /\ s \in Seen
    BY <2>1, <2>3, <1>1, <1>2, SeenFacts
  <2>4. CASE r \in Seen /\ s = new
    BY <2>1, <2>4
  <2>5. CASE r \in Seen /\ s \in Seen
    BY <2>5 DEF IInv, NumbersFollowAttempts
  <2> QED
    BY <2>2, <2>3, <2>4, <2>5, <1>5
<1>13. AdmittedByNumber'
  BY DEF IInv, AdmittedByNumber
<1> QED
  BY <1>9, <1>10, <1>11, <1>12, <1>13 DEF IInv

-----------------------------------------------------------------------------
(* Steps of a caller that send nothing: its attempt and number stand, and  *)
(* counters only grow.                                                     *)
LEMMA CallerStepPreserves ==
  ASSUME IInv, call' \in [Caller -> Call],
         \A d \in Caller : /\ call'[d].call = call[d].call
                           /\ call'[d].retry = call[d].retry
                           /\ call'[d].seq = call[d].seq
                           /\ call'[d].phase = "bumping" => ~call[d].retry,
         counter' \in [Machine -> Nat],
         \A m \in Machine : counter'[m] >= counter[m],
         UNCHANGED <<wire, highest, admitted, behind, overtaken, repeats>>
  PROVE  IInv'
<1>1. TypeOK'
  <2>1. ASSUME NEW d \in Caller
        PROVE  call'[d].seq <= counter'[Home[d]]
    <3>1. call[d].seq <= counter[Home[d]] /\ Home[d] \in Machine
          /\ call[d].seq \in Nat /\ counter[Home[d]] \in Nat
      BY CallFacts DEF IInv
    <3> QED
      BY <3>1
  <2> QED
    BY <2>1 DEF IInv, TypeOK
<1>2. FirstAttemptBumps'
  BY DEF FirstAttemptBumps
<1>3. Seen' = Seen
  BY DEF Seen
<1>4. \A r \in Seen : r.from \in Caller
  BY SeenFacts DEF IInv
<1>5. \A c \in Caller : Current(c)' = Current(c)
  BY DEF Current
<1>6. NoneFromTheFuture'
  BY <1>3, <1>4, <1>5 DEF IInv, NoneFromTheFuture, Attempt
<1>7. NumbersFollowAttempts'
  BY <1>3 DEF IInv, NumbersFollowAttempts, Attempt
<1>8. AdmittedByNumber'
  BY DEF IInv, AdmittedByNumber
<1> QED
  BY <1>1, <1>2, <1>6, <1>7, <1>8 DEF IInv

LEMMA StartCallPreserves ==
  ASSUME IInv, NEW c \in Caller, NEW t \in Target, StartCall(c, t)
  PROVE  IInv'
<1>1. TypeOK
  BY DEF IInv
<1>2. /\ call[c].call \in Nat /\ call[c].retry \in BOOLEAN
      /\ counter[Home[c]] \in Nat /\ highest \in Nat
  BY <1>1, CallFacts DEF TypeOK
<1>3. 2 * (call[c].call + 1) + (IF FALSE THEN 1 ELSE 0) > Current(c)
  BY <1>2 DEF Current
<1>4. behind' \in [Caller -> Nat] /\ overtaken' \in [Caller -> BOOLEAN]
  BY <1>1, <1>2 DEF StartCall, TypeOK
<1>5. call[c].call + 1 \in Nat
  BY <1>2
<1> QED
  BY <1>3, <1>4, <1>5, SendPreserves DEF StartCall

LEMMA RetryPreserves ==
  ASSUME IInv, NEW c \in Caller, Retry(c)
  PROVE  IInv'
<1>1. TypeOK
  BY DEF IInv
<1>2. call[c].call \in Nat /\ ~call[c].retry /\ call[c].target \in Target
  BY <1>1, CallFacts DEF IInv, FirstAttemptBumps, Retry
<1>3. 2 * call[c].call + (IF TRUE THEN 1 ELSE 0) > Current(c)
  BY <1>2 DEF Current
<1>4. behind' \in [Caller -> Nat] /\ overtaken' \in [Caller -> BOOLEAN]
  BY <1>1 DEF Retry, TypeOK
<1> QED
  BY <1>2, <1>3, <1>4, SendPreserves DEF Retry

LEMMA ReceivePreserves ==
  ASSUME IInv, NEW c \in Caller, Receive(c)
  PROVE  IInv'
<1>1. TypeOK
  BY DEF IInv
<1>2. call[c] \in Call /\ Skipped \in Nat
  BY <1>1, CallFacts, ReplayGuardAssumption DEF Skipped
<1> DEFINE bumping == [call[c] EXCEPT !.phase = "bumping", !.left = Skipped]
           over == [call[c] EXCEPT !.phase = "idle"]
           is == IF call[c].answer = "replay" /\ ~call[c].retry THEN bumping ELSE over
<1>3. /\ bumping \in Call /\ bumping.call = call[c].call /\ bumping.retry = call[c].retry
      /\ bumping.seq = call[c].seq
  BY <1>2 DEF Call
<1>4. /\ over \in Call /\ over.call = call[c].call /\ over.retry = call[c].retry
      /\ over.seq = call[c].seq /\ over.phase = "idle"
  BY <1>2 DEF Call
<1>5. call' = [call EXCEPT ![c] = is]
  BY DEF Receive
<1>6. /\ is \in Call /\ is.call = call[c].call /\ is.retry = call[c].retry
      /\ is.seq = call[c].seq /\ (is.phase = "bumping" => ~call[c].retry)
  BY <1>3, <1>4
<1> HIDE DEF is
<1>7. call' \in [Caller -> Call]
  BY <1>1, <1>5, <1>6 DEF TypeOK
<1>8. /\ call'[c] = is
      /\ \A d \in Caller : d # c => call'[d] = call[d]
  BY <1>1, <1>5 DEF TypeOK
<1>9. counter \in [Machine -> Nat] /\ \A m \in Machine : counter[m] >= counter[m]
  BY <1>1 DEF TypeOK
<1>10. \A d \in Caller : /\ call'[d].call = call[d].call
                         /\ call'[d].retry = call[d].retry
                         /\ call'[d].seq = call[d].seq
                         /\ call'[d].phase = "bumping" => ~call[d].retry
  BY <1>6, <1>8 DEF IInv, FirstAttemptBumps
<1> QED
  BY <1>7, <1>9, <1>10, CallerStepPreserves DEF Receive

LEMMA SkipNumberPreserves ==
  ASSUME IInv, NEW c \in Caller, SkipNumber(c)
  PROVE  IInv'
<1>1. TypeOK
  BY DEF IInv
<1>2. /\ call[c] \in Call /\ call[c].left - 1 \in Nat
      /\ Home[c] \in Machine /\ counter[Home[c]] \in Nat
      /\ NextNumber(c) = counter[Home[c]] + 1
  BY <1>1, CallFacts DEF SkipNumber, NextNumber
<1> DEFINE is == [call[c] EXCEPT !.left = call[c].left - 1]
<1>3. /\ is \in Call /\ is.call = call[c].call /\ is.retry = call[c].retry
      /\ is.seq = call[c].seq /\ is.phase = call[c].phase
  BY <1>2 DEF Call
<1>4. call' = [call EXCEPT ![c] = is]
  BY DEF SkipNumber
<1> HIDE DEF is
<1>5. call' \in [Caller -> Call]
  BY <1>1, <1>3, <1>4 DEF TypeOK
<1>6. /\ call'[c] = is
      /\ \A d \in Caller : d # c => call'[d] = call[d]
  BY <1>1, <1>4 DEF TypeOK
<1>7. counter \in [Machine -> Nat] /\ counter' = [counter EXCEPT ![Home[c]] = NextNumber(c)]
  BY <1>1 DEF TypeOK, SkipNumber, Take
<1>8. /\ counter' \in [Machine -> Nat]
      /\ \A m \in Machine : counter'[m] >= counter[m]
  BY <1>2, <1>7
<1>9. \A d \in Caller : /\ call'[d].call = call[d].call
                        /\ call'[d].retry = call[d].retry
                        /\ call'[d].seq = call[d].seq
                        /\ call'[d].phase = "bumping" => ~call[d].retry
  BY <1>3, <1>6 DEF IInv, FirstAttemptBumps
<1> QED
  BY <1>5, <1>8, <1>9, CallerStepPreserves DEF SkipNumber

LEMMA TimeoutPreserves ==
  ASSUME IInv, NEW c \in Caller, Timeout(c)
  PROVE  IInv'
<1>1. TypeOK
  BY DEF IInv
<1>2. call[c] \in Call
  BY <1>1, CallFacts
<1> DEFINE is == [call[c] EXCEPT !.phase = "idle"]
<1>3. /\ is \in Call /\ is.call = call[c].call /\ is.retry = call[c].retry
      /\ is.seq = call[c].seq /\ is.phase = "idle"
  BY <1>2 DEF Call
<1>4. call' = [call EXCEPT ![c] = is]
  BY DEF Timeout
<1> HIDE DEF is
<1>5. call' \in [Caller -> Call]
  BY <1>1, <1>3, <1>4 DEF TypeOK
<1>6. /\ call'[c] = is
      /\ \A d \in Caller : d # c => call'[d] = call[d]
  BY <1>1, <1>4 DEF TypeOK
<1>7. /\ counter' \in [Machine -> Nat]
      /\ \A m \in Machine : counter'[m] >= counter[m]
  BY <1>1 DEF TypeOK, Timeout
<1>8. \A d \in Caller : /\ call'[d].call = call[d].call
                        /\ call'[d].retry = call[d].retry
                        /\ call'[d].seq = call[d].seq
                        /\ call'[d].phase = "bumping" => ~call[d].retry
  BY <1>3, <1>6 DEF IInv, FirstAttemptBumps
<1> QED
  BY <1>5, <1>7, <1>8, CallerStepPreserves DEF Timeout

-----------------------------------------------------------------------------
(* Delivery: nothing new comes to exist, and what is admitted carries a    *)
(* higher number than all that was.                                        *)
LEMMA AdmissionsInOrder ==
  ASSUME IInv, NEW r \in wire,
         \/ highest < r.seq /\ highest' = r.seq /\ admitted' = Append(admitted, r)
         \/ UNCHANGED <<highest, admitted>>
  PROVE  /\ AdmittedByNumber' /\ highest' \in Nat /\ admitted' \in Seq(Request)
         /\ {admitted'[i] : i \in DOMAIN admitted'} \subseteq Seen
<1>1. TypeOK /\ AdmittedByNumber
  BY DEF IInv
<1>2. /\ highest \in Nat /\ admitted \in Seq(Request) /\ r \in Request /\ r.seq \in Nat
      /\ \A i \in DOMAIN admitted : admitted[i].seq \in Nat
  <2>1. r \in Request /\ admitted \in Seq(Request)
    BY <1>1 DEF TypeOK
  <2>2. \A i \in DOMAIN admitted : admitted[i] \in Request
    BY <2>1
  <2> QED
    BY <1>1, <2>1, <2>2 DEF TypeOK, Request
<1>3. CASE UNCHANGED <<highest, admitted>>
  BY <1>1, <1>2, <1>3 DEF AdmittedByNumber, Seen
<1>4. CASE highest < r.seq /\ highest' = r.seq /\ admitted' = Append(admitted, r)
  <2>1. /\ DOMAIN admitted' = 1..(Len(admitted) + 1) /\ DOMAIN admitted = 1..Len(admitted)
        /\ Len(admitted) \in Nat /\ admitted'[Len(admitted) + 1] = r
        /\ \A i \in 1..Len(admitted) : admitted'[i] = admitted[i]
    BY <1>2, <1>4
  <2>2. \A i \in 1..Len(admitted) : admitted[i].seq <= highest /\ admitted[i].seq \in Nat
    BY <1>1, <1>2, <2>1 DEF AdmittedByNumber
  <2>6. highest \in Nat /\ r.seq \in Nat /\ highest < r.seq
    BY <1>2, <1>4
  <2>7. \A i \in 1..Len(admitted) : admitted'[i].seq < r.seq
    BY <2>1, <2>2, <2>6
  <2>3. \A i \in DOMAIN admitted' : admitted'[i].seq <= highest'
    <3> SUFFICES ASSUME NEW i \in 1..(Len(admitted) + 1)
                 PROVE  admitted'[i].seq <= r.seq
      BY <2>1, <1>4
    <3>1. CASE i = Len(admitted) + 1
      BY <3>1, <2>1, <1>2
    <3>2. CASE i \in 1..Len(admitted)
      <4>1. admitted'[i].seq < r.seq /\ admitted'[i].seq \in Nat
        BY <3>2, <2>1, <2>2, <2>7
      <4> QED
        BY <4>1, <2>6
    <3> QED
      BY <3>1, <3>2, <2>1
  <2>4. \A i, j \in DOMAIN admitted' : i < j => admitted'[i].seq < admitted'[j].seq
    <3> SUFFICES ASSUME NEW i \in 1..(Len(admitted) + 1),
                        NEW j \in 1..(Len(admitted) + 1), i < j
                 PROVE  admitted'[i].seq < admitted'[j].seq
      BY <2>1
    <3>1. i \in 1..Len(admitted) /\ admitted'[i] = admitted[i]
      BY <2>1
    <3>2. CASE j = Len(admitted) + 1
      BY <3>1, <3>2, <2>1, <2>7
    <3>3. CASE j \in 1..Len(admitted)
      BY <3>1, <3>3, <2>1, <1>1 DEF AdmittedByNumber
    <3> QED
      BY <3>2, <3>3, <2>1
  <2>5. {admitted'[i] : i \in DOMAIN admitted'} \subseteq Seen
    <3> SUFFICES ASSUME NEW i \in 1..(Len(admitted) + 1)
                 PROVE  admitted'[i] \in Seen
      BY <2>1
    <3>1. CASE i = Len(admitted) + 1
      BY <3>1, <2>1 DEF Seen
    <3>2. CASE i \in 1..Len(admitted)
      BY <3>2, <2>1 DEF Seen
    <3> QED
      BY <3>1, <3>2, <2>1
  <2> QED
    BY <1>2, <1>4, <2>3, <2>4, <2>5 DEF AdmittedByNumber
<1> QED
  BY <1>3, <1>4

LEMMA DeliverPreserves ==
  ASSUME IInv, NEW r \in wire, Deliver(r)
  PROVE  IInv'
<1>1. TypeOK
  BY DEF IInv
<1>2. PICK fresh \in BOOLEAN, lost \in BOOLEAN, copied \in BOOLEAN :
        /\ IF Verdict(r, fresh) = "ok" THEN Admit(r)
           ELSE UNCHANGED <<highest, admitted, overtaken>>
        /\ call' = IF lost \/ ~Awaits(r) THEN call
                   ELSE [call EXCEPT ![r.from].phase = "answered",
                                     ![r.from].answer = Verdict(r, fresh)]
        /\ copied => repeats < MaxRepeats
        /\ wire' = IF copied THEN wire ELSE wire \ {r}
        /\ repeats' = IF copied THEN repeats + 1 ELSE repeats
        /\ UNCHANGED <<counter, behind>>
  BY DEF Deliver
<1>3. r.from \in Caller /\ call[r.from] \in Call /\ Verdict(r, fresh) \in Verdicts
  <2>1. r.from \in Caller
    BY <1>1 DEF TypeOK, Request
  <2> QED
    BY <2>1, <1>1, CallFacts DEF Verdict, Verdicts
<1>4. \/ highest < r.seq /\ highest' = r.seq /\ admitted' = Append(admitted, r)
      \/ UNCHANGED <<highest, admitted>>
  BY <1>2 DEF Admit, Verdict, NewNumber
<1>5. /\ AdmittedByNumber' /\ highest' \in Nat /\ admitted' \in Seq(Request)
      /\ {admitted'[i] : i \in DOMAIN admitted'} \subseteq Seen
  BY <1>4, AdmissionsInOrder
<1>6. Seen' \subseteq Seen
  BY <1>2, <1>5 DEF Seen
<1> DEFINE is == [call[r.from] EXCEPT !.phase = "answered", !.answer = Verdict(r, fresh)]
<1>7. /\ is \in Call /\ is.call = call[r.from].call /\ is.retry = call[r.from].retry
      /\ is.seq = call[r.from].seq /\ is.phase = "answered"
  BY <1>3 DEF Call
<1>8. call' = call \/ call' = [call EXCEPT ![r.from] = is]
  BY <1>2
<1> HIDE DEF is
<1>9. /\ call' \in [Caller -> Call]
      /\ \A d \in Caller : /\ call'[d].call = call[d].call
                           /\ call'[d].retry = call[d].retry
                           /\ call'[d].seq = call[d].seq
                           /\ call'[d].phase = "bumping" => call[d].phase = "bumping"
  BY <1>1, <1>3, <1>7, <1>8 DEF TypeOK
<1>10. TypeOK'
  <2>1. repeats' \in 0..MaxRepeats
    BY <1>1, <1>2, ReplayGuardAssumption DEF TypeOK
  <2>2. overtaken' \in [Caller -> BOOLEAN]
    BY <1>1, <1>2 DEF TypeOK, Admit
  <2>3. \A c \in Caller : call'[c].seq <= counter'[Home[c]]
    BY <1>1, <1>2, <1>9 DEF TypeOK
  <2> QED
    BY <1>1, <1>2, <1>5, <1>9, <2>1, <2>2, <2>3 DEF TypeOK
<1>11. FirstAttemptBumps'
  BY <1>9 DEF IInv, FirstAttemptBumps
<1>12. \A c \in Caller : Current(c)' = Current(c)
  BY <1>9 DEF Current
<1>13. \A q \in Seen : q.from \in Caller
  BY <1>1, SeenFacts
<1>14. NoneFromTheFuture'
  BY <1>6, <1>9, <1>12, <1>13 DEF IInv, NoneFromTheFuture, Attempt
<1>15. NumbersFollowAttempts'
  BY <1>6 DEF IInv, NumbersFollowAttempts, Attempt
<1> QED
  BY <1>5, <1>10, <1>11, <1>14, <1>15 DEF IInv

LEMMA NextIInv == IInv /\ [Next]_vars => IInv'
<1> SUFFICES ASSUME IInv, [Next]_vars PROVE IInv'
  OBVIOUS
<1>1. ASSUME NEW c \in Caller, NEW t \in Target, StartCall(c, t) PROVE IInv'
  BY <1>1, StartCallPreserves
<1>2. ASSUME NEW c \in Caller, Receive(c) PROVE IInv'
  BY <1>2, ReceivePreserves
<1>3. ASSUME NEW c \in Caller, SkipNumber(c) PROVE IInv'
  BY <1>3, SkipNumberPreserves
<1>4. ASSUME NEW c \in Caller, Retry(c) PROVE IInv'
  BY <1>4, RetryPreserves
<1>5. ASSUME NEW c \in Caller, Timeout(c) PROVE IInv'
  BY <1>5, TimeoutPreserves
<1>6. ASSUME NEW r \in wire, Deliver(r) PROVE IInv'
  BY <1>6, DeliverPreserves
<1>7. CASE UNCHANGED vars
  BY <1>7 DEF vars, IInv, TypeOK, FirstAttemptBumps, NoneFromTheFuture,
              NumbersFollowAttempts, AdmittedByNumber, Seen, Current, Attempt
<1> QED
  BY <1>1, <1>2, <1>3, <1>4, <1>5, <1>6, <1>7 DEF Next

LEMMA Invariance == Spec => []IInv
BY InitIInv, NextIInv, PTL DEF Spec

(* Numbers in use were handed out by their machine's counter, and the      *)
(* state is of the right types.                                            *)
THEOREM NumbersAreHandedOut == Spec => []TypeOK
<1>1. IInv => TypeOK
  BY DEF IInv
<1> QED
  BY <1>1, Invariance, PTL

(* Requests of one caller are admitted in the order it sent them, none     *)
(* twice, whatever the network delays or repeats.                          *)
THEOREM AdmissionFollowsProgramOrder == Spec => []AdmittedInProgramOrder
<1>1. IInv => AdmittedInProgramOrder
  <2> SUFFICES ASSUME IInv, NEW i \in DOMAIN admitted, NEW j \in DOMAIN admitted,
                      i < j, admitted[i].from = admitted[j].from
               PROVE  Attempt(admitted[i]) < Attempt(admitted[j])
    BY DEF AdmittedInProgramOrder
  <2>1. admitted[i] \in Seen /\ admitted[j] \in Seen
    BY DEF Seen
  <2>2. admitted[i].seq < admitted[j].seq
    BY DEF IInv, AdmittedByNumber
  <2> QED
    BY <2>1, <2>2 DEF IInv, NumbersFollowAttempts
<1> QED
  BY <1>1, Invariance, PTL

-----------------------------------------------------------------------------
(* As long as the network has not repeated a request by itself: one call,  *)
(* one execution.                                                          *)

(* There is at most one live or admitted request of a call: the retry      *)
(* exists only once the first attempt is gone without effect.              *)
OneRequestPerCall ==
  \A r, s \in Seen : r.from = s.from /\ r.call = s.call => r = s

(* No request is both under way and admitted.                              *)
Apart == \A i \in DOMAIN admitted : admitted[i] \notin wire

AnswerBelongs ==
  \A r \in Seen : r.seq = call[r.from].seq => r.call = call[r.from].call

WaitingUnanswered ==
  \A c \in Caller : call[c].phase = "waiting" => call[c].answer = "none"

Refused(c) == \/ call[c].phase = "bumping"
              \/ call[c].phase \in {"answered", "idle"} /\ call[c].answer = "replay"

RefusedIsGone ==
  \A c \in Caller : Refused(c) =>
    \A r \in Seen : ~(r.from = c /\ r.call = call[c].call)

JInv == /\ OneRequestPerCall /\ Apart /\ AnswerBelongs
        /\ WaitingUnanswered /\ RefusedIsGone

LEMMA InitJInv == Init => JInv
<1> SUFFICES ASSUME Init PROVE JInv
  OBVIOUS
<1>1. Seen = {} /\ DOMAIN admitted = {}
  BY DEF Init, Seen
<1>2. ASSUME NEW c \in Caller
      PROVE  call[c].phase = "idle" /\ call[c].answer = "none"
  <2>1. call[c] \in {[phase |-> "idle", call |-> 0, retry |-> FALSE,
                      seq |-> 0, target |-> t, left |-> 0,
                      answer |-> "none"] : t \in Target}
    BY DEF Init
  <2>2. PICK t \in Target : call[c] = [phase |-> "idle", call |-> 0, retry |-> FALSE,
                                      seq |-> 0, target |-> t, left |-> 0,
                                      answer |-> "none"]
    BY <2>1
  <2> QED
    BY <2>2
<1> QED
  BY <1>1, <1>2 DEF JInv, OneRequestPerCall, Apart, AnswerBelongs,
                    WaitingUnanswered, RefusedIsGone, Refused

(* Sending the first request of a call, or the retry of a refused one.     *)
LEMMA SendKeepsOne ==
  ASSUME IInv, JInv, NEW c \in Caller, NEW n \in Nat, NEW again \in BOOLEAN,
         NEW t \in Target, Send(c, n, again, t), UNCHANGED admitted,
         \A r \in Seen : ~(r.from = c /\ r.call = n)
  PROVE  JInv'
<1> DEFINE new == [from |-> c, call |-> n, retry |-> again,
                   seq |-> NextNumber(c), target |-> t]
           doing == [phase |-> "waiting", call |-> n, retry |-> again,
                     seq |-> NextNumber(c), target |-> t, left |-> 0,
                     answer |-> "none"]
<1>1. TypeOK
  BY DEF IInv
<1>2. NextNumber(c) \in Nat /\ NextNumber(c) > call[c].seq
  BY <1>1, CallFacts DEF NextNumber
<1>3. wire' = wire \cup {new} /\ call' = [call EXCEPT ![c] = doing]
  BY DEF Send
<1>4. /\ \A d \in Caller : d # c => call'[d] = call[d]
      /\ call'[c] = doing
  BY <1>1, <1>3 DEF TypeOK
<1>5. Seen' = Seen \cup {new}
  BY <1>3 DEF Seen
<1>6. /\ \A r \in Seen : r.from = c => r.seq < NextNumber(c)
      /\ new \notin Seen
  <2>1. \A r \in Seen : r.from = c => r.seq <= call[c].seq /\ r.seq \in Nat
    BY <1>1, SeenFacts DEF IInv, NoneFromTheFuture
  <2>2. call[c].seq \in Nat
    BY <1>1, CallFacts
  <2> QED
    BY <2>1, <2>2, <1>2
<1>7. OneRequestPerCall'
  <2> SUFFICES ASSUME NEW r \in Seen', NEW s \in Seen', r.from = s.from, r.call = s.call
               PROVE  r = s
    BY DEF OneRequestPerCall
  <2> QED
    BY <1>5 DEF JInv, OneRequestPerCall
<1>8. Apart'
  BY <1>3, <1>6 DEF JInv, Apart, Seen
<1>9. AnswerBelongs'
  <2> SUFFICES ASSUME NEW r \in Seen', r.seq = call'[r.from].seq
               PROVE  r.call = call'[r.from].call
    BY DEF AnswerBelongs
  <2>1. CASE r = new
    BY <2>1, <1>4
  <2>2. CASE r \in Seen /\ r.from = c
    <3>1. r.seq < NextNumber(c) /\ r.seq \in Nat
      BY <2>2, <1>6, <1>1, SeenFacts
    <3> QED
      BY <3>1, <2>2, <1>2, <1>4
  <2>3. CASE r \in Seen /\ r.from # c
    BY <2>3, <1>1, <1>4, SeenFacts DEF JInv, AnswerBelongs
  <2> QED
    BY <2>1, <2>2, <2>3, <1>5
<1>10. WaitingUnanswered'
  BY <1>4 DEF JInv, WaitingUnanswered
<1>11. RefusedIsGone'
  <2> SUFFICES ASSUME NEW d \in Caller, Refused(d)', NEW r \in Seen'
               PROVE  ~(r.from = d /\ r.call = call'[d].call)
    BY DEF RefusedIsGone
  <2>1. d # c
    BY <1>4 DEF Refused
  <2>2. Refused(d) /\ call'[d] = call[d]
    BY <2>1, <1>4 DEF Refused
  <2> QED
    BY <2>1, <2>2, <1>5 DEF JInv, RefusedIsGone
<1> QED
  BY <1>7, <1>8, <1>9, <1>10, <1>11 DEF JInv

(* Steps of a caller that send nothing.                                    *)
LEMMA CallerKeepsOne ==
  ASSUME IInv, JInv, UNCHANGED <<wire, admitted>>,
         \A d \in Caller : /\ call'[d].call = call[d].call
                           /\ call'[d].seq = call[d].seq
                           /\ call'[d].phase = "waiting" => call[d].phase = "waiting"
                           /\ call'[d].answer = call[d].answer
                           /\ Refused(d)' => Refused(d)
  PROVE  JInv'
<1>1. Seen' = Seen
  BY DEF Seen
<1>2. \A r \in Seen : r.from \in Caller
  BY SeenFacts DEF IInv
<1> QED
  BY <1>1, <1>2 DEF JInv, OneRequestPerCall, Apart, AnswerBelongs,
                    WaitingUnanswered, RefusedIsGone

LEMMA DeliverKeepsOne ==
  ASSUME IInv, JInv, repeats' = 0, NEW r \in wire, Deliver(r)
  PROVE  JInv'
<1>1. TypeOK
  BY DEF IInv
<1>2. PICK fresh \in BOOLEAN, lost \in BOOLEAN, copied \in BOOLEAN :
        /\ IF Verdict(r, fresh) = "ok" THEN Admit(r)
           ELSE UNCHANGED <<highest, admitted, overtaken>>
        /\ call' = IF lost \/ ~Awaits(r) THEN call
                   ELSE [call EXCEPT ![r.from].phase = "answered",
                                     ![r.from].answer = Verdict(r, fresh)]
        /\ wire' = IF copied THEN wire ELSE wire \ {r}
        /\ repeats' = IF copied THEN repeats + 1 ELSE repeats
  BY DEF Deliver
<1>3. r.from \in Caller /\ call[r.from] \in Call /\ r \in Seen
  <2>1. r.from \in Caller
    BY <1>1 DEF TypeOK, Request
  <2> QED
    BY <2>1, <1>1, CallFacts DEF Seen
<1>4. wire' = wire \ {r}
  <2>1. ~copied
    BY <1>1, <1>2, ReplayGuardAssumption DEF TypeOK
  <2> QED
    BY <2>1, <1>2
<1>5. \/ /\ highest < r.seq /\ highest' = r.seq
         /\ admitted' = Append(admitted, r) /\ Verdict(r, fresh) = "ok"
      \/ UNCHANGED <<highest, admitted>> /\ Verdict(r, fresh) # "ok"
  BY <1>2 DEF Admit, Verdict, NewNumber
<1>6. Seen' \subseteq Seen
  BY <1>4, <1>5, AdmissionsInOrder DEF Seen
<1>7. Verdict(r, fresh) # "ok" => r \notin Seen'
  BY <1>4, <1>5 DEF JInv, Apart, Seen
<1> DEFINE is == [call[r.from] EXCEPT !.phase = "answered", !.answer = Verdict(r, fresh)]
<1>8. /\ is.call = call[r.from].call /\ is.seq = call[r.from].seq
      /\ is.phase = "answered" /\ is.answer = Verdict(r, fresh)
  BY <1>3 DEF Call
<1>9. call' = call \/ (Awaits(r) /\ call' = [call EXCEPT ![r.from] = is])
  BY <1>2
<1> HIDE DEF is
<1>10. /\ \A d \in Caller : call'[d].call = call[d].call /\ call'[d].seq = call[d].seq
       /\ \A d \in Caller : \/ call'[d] = call[d]
                            \/ d = r.from /\ Awaits(r) /\ call'[d] = is
  BY <1>1, <1>8, <1>9 DEF TypeOK
<1>11. OneRequestPerCall'
  BY <1>6 DEF JInv, OneRequestPerCall
<1>12. Apart'
  <2>1. CASE UNCHANGED admitted
    BY <2>1, <1>4 DEF JInv, Apart
  <2>2. CASE admitted' = Append(admitted, r)
    <3>1. /\ DOMAIN admitted' = 1..(Len(admitted) + 1) /\ DOMAIN admitted = 1..Len(admitted)
          /\ Len(admitted) \in Nat /\ admitted'[Len(admitted) + 1] = r
          /\ \A i \in 1..Len(admitted) : admitted'[i] = admitted[i]
      <4>1. admitted \in Seq(Request)
        BY <1>1 DEF TypeOK
      <4> QED
        BY <4>1, <2>2
    <3> SUFFICES ASSUME NEW i \in 1..(Len(admitted) + 1)
                 PROVE  admitted'[i] \notin wire'
      BY <3>1 DEF Apart
    <3>2. CASE i = Len(admitted) + 1
      BY <3>1, <3>2, <1>4
    <3>3. CASE i \in 1..Len(admitted)
      BY <3>1, <3>3, <1>4 DEF JInv, Apart
    <3> QED
      BY <3>1, <3>2, <3>3
  <2> QED
    BY <2>1, <2>2, <1>5
<1>13. \A q \in Seen : q.from \in Caller
  BY <1>1, SeenFacts
<1>14. AnswerBelongs'
  BY <1>6, <1>10, <1>13 DEF JInv, AnswerBelongs
<1>15. WaitingUnanswered'
  BY <1>8, <1>10 DEF JInv, WaitingUnanswered
<1>16. RefusedIsGone'
  <2> SUFFICES ASSUME NEW d \in Caller, Refused(d)', NEW q \in Seen',
                      q.from = d, q.call = call'[d].call
               PROVE  FALSE
    BY DEF RefusedIsGone
  <2>1. CASE call'[d] = call[d]
    BY <2>1, <1>6 DEF JInv, RefusedIsGone, Refused
  <2>2. CASE d = r.from /\ Awaits(r) /\ call'[d] = is
    <3>1. Verdict(r, fresh) # "ok"
      BY <2>2, <1>8 DEF Refused
    <3>2. r.call = call[d].call
      BY <2>2, <1>3 DEF JInv, AnswerBelongs, Awaits
    <3>3. q = r
      BY <3>2, <2>2, <1>3, <1>6, <1>10 DEF JInv, OneRequestPerCall
    <3> QED
      BY <3>1, <3>3, <1>7
  <2> QED
    BY <2>1, <2>2, <1>10
<1> QED
  BY <1>11, <1>12, <1>14, <1>15, <1>16 DEF JInv

LEMMA NextJInv ==
  ASSUME IInv, JInv, repeats' = 0, [Next]_vars
  PROVE  JInv'
<1>1. TypeOK
  BY DEF IInv
<1>2. ASSUME NEW c \in Caller, NEW t \in Target, StartCall(c, t) PROVE JInv'
  <2>1. call[c].call \in Nat
    BY <1>1, CallFacts
  <2>2. \A r \in Seen : ~(r.from = c /\ r.call = call[c].call + 1)
    <3> SUFFICES ASSUME NEW r \in Seen, r.from = c, r.call = call[c].call + 1
                 PROVE  FALSE
      OBVIOUS
    <3>1. Attempt(r) <= Current(c)
      BY DEF IInv, NoneFromTheFuture
    <3>2. r.call \in Nat /\ r.retry \in BOOLEAN /\ call[c].retry \in BOOLEAN
      BY <1>1, SeenFacts, CallFacts DEF Request
    <3> QED
      BY <3>1, <3>2, <2>1 DEF Attempt, Current
  <2>3. call[c].call + 1 \in Nat
    BY <2>1
  <2> QED
    BY <1>2, <2>2, <2>3, SendKeepsOne DEF StartCall
<1>3. ASSUME NEW c \in Caller, Retry(c) PROVE JInv'
  <2>1. call[c].call \in Nat /\ call[c].target \in Target
    BY <1>1, CallFacts
  <2>2. \A r \in Seen : ~(r.from = c /\ r.call = call[c].call)
    BY <1>3 DEF JInv, RefusedIsGone, Refused, Retry
  <2> QED
    BY <1>3, <2>1, <2>2, SendKeepsOne DEF Retry
<1>4. ASSUME NEW c \in Caller, Receive(c) PROVE JInv'
  <2> DEFINE bumping == [call[c] EXCEPT !.phase = "bumping", !.left = Skipped]
             over == [call[c] EXCEPT !.phase = "idle"]
             is == IF call[c].answer = "replay" /\ ~call[c].retry THEN bumping ELSE over
  <2>1. call[c] \in Call /\ call[c].phase = "answered"
    BY <1>1, <1>4, CallFacts DEF Receive
  <2>2. /\ is.call = call[c].call /\ is.seq = call[c].seq
        /\ is.answer = call[c].answer /\ is.phase \in {"bumping", "idle"}
        /\ is.phase = "bumping" => call[c].answer = "replay"
    BY <2>1 DEF Call
  <2>3. call' = [call EXCEPT ![c] = is]
    BY <1>4 DEF Receive
  <2> HIDE DEF is
  <2>4. /\ call'[c] = is
        /\ \A d \in Caller : d # c => call'[d] = call[d]
    BY <2>3, <1>1 DEF TypeOK
  <2> QED
    BY <1>4, <2>1, <2>2, <2>4, CallerKeepsOne DEF Receive, Refused
<1>5. ASSUME NEW c \in Caller, SkipNumber(c) PROVE JInv'
  <2> DEFINE is == [call[c] EXCEPT !.left = call[c].left - 1]
  <2>1. call[c] \in Call /\ call' = [call EXCEPT ![c] = is]
    BY <1>1, <1>5, CallFacts DEF SkipNumber
  <2>2. /\ is.call = call[c].call /\ is.seq = call[c].seq
        /\ is.answer = call[c].answer /\ is.phase = call[c].phase
    BY <2>1 DEF Call
  <2> HIDE DEF is
  <2>3. /\ call'[c] = is
        /\ \A d \in Caller : d # c => call'[d] = call[d]
    BY <2>1, <1>1 DEF TypeOK
  <2> QED
    BY <1>5, <2>2, <2>3, CallerKeepsOne DEF SkipNumber, Refused
<1>6. ASSUME NEW c \in Caller, Timeout(c) PROVE JInv'
  <2> DEFINE is == [call[c] EXCEPT !.phase = "idle"]
  <2>1. /\ call[c] \in Call /\ call' = [call EXCEPT ![c] = is]
        /\ call[c].answer = "none"
    BY <1>1, <1>6, CallFacts DEF Timeout, JInv, WaitingUnanswered
  <2>2. /\ is.call = call[c].call /\ is.seq = call[c].seq
        /\ is.answer = "none" /\ is.phase = "idle"
    BY <2>1 DEF Call
  <2> HIDE DEF is
  <2>3. /\ call'[c] = is
        /\ \A d \in Caller : d # c => call'[d] = call[d]
    BY <2>1, <1>1 DEF TypeOK
  <2> QED
    BY <1>6, <2>1, <2>2, <2>3, CallerKeepsOne DEF Timeout, Refused
<1>7. ASSUME NEW r \in wire, Deliver(r) PROVE JInv'
  BY <1>7, DeliverKeepsOne
<1>8. CASE UNCHANGED vars
  BY <1>8 DEF vars, JInv, OneRequestPerCall, Apart, AnswerBelongs,
              WaitingUnanswered, RefusedIsGone, Refused, Seen
<1> QED
  BY <1>2, <1>3, <1>4, <1>5, <1>6, <1>7, <1>8 DEF Next

(* A copy kept by the network stays on record.                             *)
LEMMA RepeatsGrow ==
  ASSUME TypeOK, [Next]_vars, repeats' = 0
  PROVE  repeats = 0
<1>1. ASSUME NEW r \in wire, Deliver(r) PROVE repeats = 0
  <2>1. repeats' = repeats \/ repeats' = repeats + 1
    BY <1>1 DEF Deliver
  <2>2. repeats \in Nat
    BY ReplayGuardAssumption DEF TypeOK
  <2> QED
    BY <2>1, <2>2
<1>2. ASSUME NEW c \in Caller, NEW t \in Target, StartCall(c, t) PROVE repeats = 0
  BY <1>2 DEF StartCall
<1>3. ASSUME NEW c \in Caller,
             Receive(c) \/ SkipNumber(c) \/ Retry(c) \/ Timeout(c)
      PROVE  repeats = 0
  BY <1>3 DEF Receive, SkipNumber, Retry, Timeout
<1>4. CASE UNCHANGED vars
  BY <1>4 DEF vars
<1> QED
  BY <1>1, <1>2, <1>3, <1>4 DEF Next

LEMMA OneInvariance == Spec => [](IInv /\ (repeats = 0 => JInv))
<1>1. Init => IInv /\ (repeats = 0 => JInv)
  BY InitIInv, InitJInv
<1>2. IInv /\ (repeats = 0 => JInv) /\ [Next]_vars
        => (IInv /\ (repeats = 0 => JInv))'
  BY NextIInv, NextJInv, RepeatsGrow DEF IInv
<1> QED
  BY <1>1, <1>2, PTL DEF Spec

(* As long as the network repeats no request by itself, a call of the HTTP *)
(* client, its retry included, is handed to a handler at most once.        *)
THEOREM CallsRunOnce == Spec => []OncePerCall
<1>1. IInv /\ (repeats = 0 => JInv) => OncePerCall
  <2> SUFFICES ASSUME IInv, JInv, NEW i \in DOMAIN admitted, NEW j \in DOMAIN admitted,
                      admitted[i].from = admitted[j].from,
                      admitted[i].call = admitted[j].call
               PROVE  i = j
    BY DEF OncePerCall
  <2>1. admitted[i] = admitted[j]
    BY DEF JInv, OneRequestPerCall, Seen
  <2>2. admitted[i] \in Seen /\ TypeOK
    BY DEF Seen, IInv
  <2>3. admitted[i].seq \in Nat
    BY <2>2, SeenFacts
  <2>4. i \in Nat /\ j \in Nat
    BY <2>2 DEF TypeOK
  <2>5. ~(i < j) /\ ~(j < i)
    BY <2>1, <2>3 DEF IInv, AdmittedByNumber
  <2> QED
    BY <2>4, <2>5
<1> QED
  BY <1>1, OneInvariance, PTL

(* As long as the network repeats no request by itself, a call that ends   *)
(* with a replay answer was never handed to a handler.                     *)
THEOREM RefusalsHaveNoEffect == Spec => []RefusedHadNoEffect
<1>1. (repeats = 0 => JInv) => RefusedHadNoEffect
  BY DEF JInv, RefusedIsGone, RefusedHadNoEffect, Refused, Seen
<1> QED
  BY <1>1, OneInvariance, PTL

-----------------------------------------------------------------------------
(* One retry is enough.                                                    *)

Done(c) == \E i \in DOMAIN admitted :
             admitted[i].from = c /\ admitted[i].call = call[c].call

(* While no other caller is admitted, highest stays as far ahead of a      *)
(* call's first number as it was when the call began; the retry's number   *)
(* is Bump + 1 further on.                                                 *)
InReach(c) ==
  LET s == call[c] IN
  ~overtaken[c] =>
    /\ s.phase \in {"waiting", "answered"} /\ ~s.retry /\ ~Done(c)
         => highest < s.seq + behind[c]
    /\ s.phase = "bumping" => highest < s.seq + behind[c]
    /\ s.phase = "waiting" /\ s.retry /\ ~Done(c)
         => highest + Bump + 1 < s.seq + behind[c]
    /\ s.phase \in {"answered", "idle"} /\ s.retry /\ s.answer = "replay"
         => behind[c] > Bump + 1

(* The numbers skipped so far, and how far the requests of earlier calls   *)
(* are behind the retry.                                                   *)
Skips(c) ==
  LET s == call[c] IN
  /\ s.phase = "bumping" => s.seq + Bump <= counter[Home[c]] + s.left
  /\ s.phase = "waiting" /\ s.retry =>
       \A r \in Seen : r.from = c /\ r.call # s.call => r.seq + Bump + 1 < s.seq
  /\ s.phase = "idle" /\ s.answer = "replay" => s.retry

KInv == \A c \in Caller : InReach(c) /\ Skips(c)

LEMMA InitKInv == Init => KInv
<1> SUFFICES ASSUME Init, NEW c \in Caller PROVE InReach(c) /\ Skips(c)
  BY DEF KInv
<1>1. call[c] \in {[phase |-> "idle", call |-> 0, retry |-> FALSE,
                    seq |-> 0, target |-> t, left |-> 0,
                    answer |-> "none"] : t \in Target}
  BY DEF Init
<1>2. call[c].phase = "idle" /\ call[c].answer = "none" /\ ~call[c].retry
  <2>1. PICK t \in Target : call[c] = [phase |-> "idle", call |-> 0, retry |-> FALSE,
                                      seq |-> 0, target |-> t, left |-> 0,
                                      answer |-> "none"]
    BY <1>1
  <2> QED
    BY <2>1
<1> QED
  BY <1>2 DEF InReach, Skips

LEMMA ReachFacts ==
  ASSUME TypeOK, NEW c \in Caller
  PROVE  /\ highest \in Nat /\ behind[c] \in Nat /\ Bump \in Nat
         /\ overtaken[c] \in BOOLEAN
BY ReplayGuardAssumption DEF TypeOK

(* A step of others that admits nothing leaves a caller where it is.       *)
LEMMA Bystander ==
  ASSUME TypeOK, NEW c \in Caller, InReach(c), Skips(c),
         call'[c] = call[c], behind'[c] = behind[c], overtaken'[c] = overtaken[c],
         UNCHANGED <<highest, admitted>>,
         counter'[Home[c]] \in Nat, counter'[Home[c]] >= counter[Home[c]],
         \A r \in Seen' : r.from = c => r \in Seen
  PROVE  InReach(c)' /\ Skips(c)'
<1>1. Done(c)' = Done(c)
  BY DEF Done
<1>2. InReach(c)'
  BY <1>1 DEF InReach
<1>3. call[c].seq \in Nat /\ call[c].left \in Nat /\ counter[Home[c]] \in Nat
  BY CallFacts
<1>4. Skips(c)'
  BY <1>3, ReachFacts DEF Skips
<1> QED
  BY <1>2, <1>4

LEMMA SendFacts ==
  ASSUME TypeOK, NEW c \in Caller, NEW n \in Nat, NEW again \in BOOLEAN,
         NEW t \in Target, Send(c, n, again, t), UNCHANGED admitted
  PROVE  /\ call'[c] = [phase |-> "waiting", call |-> n, retry |-> again,
                        seq |-> counter[Home[c]] + 1, target |-> t, left |-> 0,
                        answer |-> "none"]
         /\ \A d \in Caller : d # c => call'[d] = call[d]
         /\ \A d \in Caller : /\ counter'[Home[d]] \in Nat
                              /\ counter'[Home[d]] >= counter[Home[d]]
         /\ \A r \in Seen' : r \in Seen \/ (r.from = c /\ r.call = n)
<1>1. call' = [call EXCEPT ![c] =
                [phase |-> "waiting", call |-> n, retry |-> again,
                 seq |-> counter[Home[c]] + 1, target |-> t, left |-> 0,
                 answer |-> "none"]]
  BY DEF Send, NextNumber
<1>2. counter' = [counter EXCEPT ![Home[c]] = counter[Home[c]] + 1]
  BY DEF Send, Take, NextNumber
<1>3. \A d \in Caller : Home[d] \in Machine /\ counter[Home[d]] \in Nat
  BY CallFacts
<1>4. \A d \in Caller : /\ counter'[Home[d]] \in Nat
                        /\ counter'[Home[d]] >= counter[Home[d]]
  BY <1>2, <1>3 DEF TypeOK
<1>5. Seen' = Seen \cup {[from |-> c, call |-> n, retry |-> again,
                          seq |-> counter[Home[c]] + 1, target |-> t]}
  BY DEF Seen, Send, NextNumber
<1>6. \A r \in Seen' : r \in Seen \/ (r.from = c /\ r.call = n)
  BY <1>5
<1> QED
  BY <1>1, <1>4, <1>6 DEF TypeOK

LEMMA StartCallReach ==
  ASSUME IInv, KInv, NEW d \in Caller, NEW t \in Target, StartCall(d, t),
         NEW c \in Caller
  PROVE  InReach(c)' /\ Skips(c)'
<1>1. TypeOK /\ UNCHANGED <<highest, admitted>>
  BY DEF IInv, StartCall
<1>2. Send(d, call[d].call + 1, FALSE, t)
  BY DEF StartCall
<1>3. call[d].call + 1 \in Nat
  <2>1. call[d].call \in Nat
    BY <1>1, CallFacts
  <2> QED
    BY <2>1
<1>4. /\ \A o \in Caller : o # d => call'[o] = call[o]
      /\ \A o \in Caller : /\ counter'[Home[o]] \in Nat
                           /\ counter'[Home[o]] >= counter[Home[o]]
      /\ \A r \in Seen' : r \in Seen \/ (r.from = d /\ r.call = call[d].call + 1)
  BY <1>1, <1>2, <1>3, SendFacts
<1>5. CASE c # d
  <2>1. behind'[c] = behind[c] /\ overtaken'[c] = overtaken[c]
    BY <1>1, <1>5 DEF StartCall, TypeOK
  <2>2. /\ call'[c] = call[c]
        /\ counter'[Home[c]] \in Nat /\ counter'[Home[c]] >= counter[Home[c]]
        /\ \A r \in Seen' : r.from = c => r \in Seen
    BY <1>5, <1>4
  <2> QED
    BY <1>1, <2>1, <2>2, Bystander DEF KInv
<1>6. CASE c = d
  <2>1. counter[Home[c]] \in Nat /\ highest \in Nat
    BY <1>1, CallFacts, ReachFacts
  <2>2. behind'[c] = IF highest > counter[Home[c]] THEN highest - counter[Home[c]] ELSE 0
    BY <1>1, <1>6 DEF StartCall, TypeOK
  <2>3. call'[c] = [phase |-> "waiting", call |-> call[d].call + 1, retry |-> FALSE,
                    seq |-> counter[Home[c]] + 1, target |-> t, left |-> 0,
                    answer |-> "none"]
    BY <1>1, <1>2, <1>6, <1>3, SendFacts
  <2>4. /\ call'[c].phase = "waiting" /\ ~call'[c].retry
        /\ call'[c].seq = counter[Home[c]] + 1
    BY <2>3
  <2>5. highest' < call'[c].seq + behind'[c]
    BY <1>1, <2>1, <2>2, <2>4
  <2> QED
    BY <2>4, <2>5 DEF InReach, Skips
<1> QED
  BY <1>5, <1>6

(* Every request of a caller that bumps or retries is of an earlier call.  *)
LEMMA RetryReach ==
  ASSUME IInv, JInv, KInv, NEW d \in Caller, Retry(d), NEW c \in Caller
  PROVE  InReach(c)' /\ Skips(c)'
<1>1. TypeOK /\ UNCHANGED <<highest, admitted, behind, overtaken>>
  BY DEF IInv, Retry
<1>2. /\ Send(d, call[d].call, TRUE, call[d].target)
      /\ call[d].call \in Nat /\ call[d].target \in Target
  BY <1>1, CallFacts DEF Retry
<1>3. /\ \A o \in Caller : o # d => call'[o] = call[o]
      /\ \A o \in Caller : /\ counter'[Home[o]] \in Nat
                           /\ counter'[Home[o]] >= counter[Home[o]]
      /\ \A r \in Seen' : r \in Seen \/ (r.from = d /\ r.call = call[d].call)
  BY <1>1, <1>2, SendFacts
<1>4. CASE c # d
  <2>1. /\ call'[c] = call[c]
        /\ counter'[Home[c]] \in Nat /\ counter'[Home[c]] >= counter[Home[c]]
        /\ \A r \in Seen' : r.from = c => r \in Seen
    BY <1>4, <1>3
  <2> QED
    BY <1>1, <2>1, Bystander DEF KInv
<1>5. CASE c = d
  <2>1. /\ counter[Home[c]] \in Nat /\ highest \in Nat /\ Bump \in Nat
        /\ behind[c] \in Nat /\ call[c].seq \in Nat
    BY <1>1, CallFacts, ReachFacts
  <2>2. call[c].phase = "bumping" /\ call[c].left = 0
    BY <1>5 DEF Retry
  <2>3. call[c].seq + Bump <= counter[Home[c]]
    BY <2>1, <2>2 DEF KInv, Skips
  <2>4. ~overtaken[c] => highest < call[c].seq + behind[c]
    BY <2>2 DEF KInv, InReach
  <2>5. call'[c] = [phase |-> "waiting", call |-> call[d].call, retry |-> TRUE,
                    seq |-> counter[Home[c]] + 1, target |-> call[d].target, left |-> 0,
                    answer |-> "none"]
    BY <1>1, <1>2, <1>5, SendFacts
  <2>6. /\ call'[c].phase = "waiting" /\ call'[c].retry
        /\ call'[c].seq = counter[Home[c]] + 1 /\ call'[c].call = call[c].call
    BY <1>5, <2>5
  <2>7. InReach(c)'
    <3>1. ~overtaken'[c] => highest' + Bump + 1 < call'[c].seq + behind'[c]
      BY <1>1, <2>1, <2>3, <2>4, <2>6
    <3> QED
      BY <2>6, <3>1 DEF InReach
  <2>8. Skips(c)'
    <3>1. ASSUME NEW r \in Seen', r.from = c, r.call # call[c].call
          PROVE  r.seq + Bump + 1 < counter[Home[c]] + 1
      <4>1. r \in Seen
        BY <1>5, <1>3, <3>1
      <4>2. r.seq \in Nat /\ r.seq <= call[c].seq
        BY <1>1, <3>1, <4>1, SeenFacts DEF IInv, NoneFromTheFuture
      <4>3. r.seq # call[c].seq
        BY <3>1, <4>1 DEF JInv, AnswerBelongs
      <4> QED
        BY <2>1, <2>3, <4>2, <4>3
    <3> QED
      BY <2>6, <3>1 DEF Skips
  <2> QED
    BY <2>7, <2>8
<1> QED
  BY <1>4, <1>5

LEMMA ReceiveReach ==
  ASSUME IInv, JInv, KInv, NEW d \in Caller, Receive(d), NEW c \in Caller
  PROVE  InReach(c)' /\ Skips(c)'
<1>1. /\ TypeOK /\ UNCHANGED <<counter, highest, admitted, behind, overtaken>>
      /\ Seen' = Seen
  BY DEF IInv, Receive, Seen
<1> DEFINE bumping == [call[d] EXCEPT !.phase = "bumping", !.left = Skipped]
           over == [call[d] EXCEPT !.phase = "idle"]
           again == call[d].answer = "replay" /\ ~call[d].retry
<1>2. call[d] \in Call /\ call[d].phase = "answered"
  BY <1>1, CallFacts DEF Receive
<1>3. /\ again => call'[d] = bumping
      /\ ~again => call'[d] = over
      /\ \A o \in Caller : o # d => call'[o] = call[o]
  BY <1>1 DEF Receive, TypeOK
<1>4. /\ counter[Home[c]] \in Nat /\ highest \in Nat /\ Bump \in Nat
      /\ behind[c] \in Nat /\ call[c].seq \in Nat /\ call[c].seq <= counter[Home[c]]
  BY <1>1, CallFacts, ReachFacts
<1>5. CASE c # d
  <2>1. call'[c] = call[c] /\ counter'[Home[c]] \in Nat
    BY <1>1, <1>3, <1>4, <1>5
  <2>2. counter'[Home[c]] >= counter[Home[c]]
    BY <1>1, <1>4
  <2> QED
    BY <1>1, <2>1, <2>2, Bystander DEF KInv
<1>6. CASE c = d /\ again
  <2>1. /\ call'[c].phase = "bumping" /\ call'[c].seq = call[c].seq
        /\ call'[c].left = Bump
    BY <1>2, <1>3, <1>6 DEF Call, Skipped
  <2>2. ~Done(c)
    BY <1>2, <1>6 DEF JInv, RefusedIsGone, Refused, Done, Seen
  <2>3. ~overtaken[c] => highest < call[c].seq + behind[c]
    BY <1>2, <1>6, <2>2 DEF KInv, InReach
  <2>4. InReach(c)'
    BY <1>1, <2>1, <2>3 DEF InReach
  <2>5. Skips(c)'
    BY <1>1, <1>4, <2>1 DEF Skips
  <2> QED
    BY <2>4, <2>5
<1>7. CASE c = d /\ ~again
  <2>1. /\ call'[c].phase = "idle" /\ call'[c].retry = call[c].retry
        /\ call'[c].answer = call[c].answer
    BY <1>2, <1>3, <1>7 DEF Call
  <2>2. InReach(c)'
    BY <1>1, <1>2, <1>7, <2>1 DEF KInv, InReach
  <2>3. Skips(c)'
    BY <1>7, <2>1 DEF Skips
  <2> QED
    BY <2>2, <2>3
<1> QED
  BY <1>5, <1>6, <1>7

LEMMA SkipNumberReach ==
  ASSUME IInv, KInv, NEW d \in Caller, SkipNumber(d), NEW c \in Caller
  PROVE  InReach(c)' /\ Skips(c)'
<1>1. /\ TypeOK /\ UNCHANGED <<highest, admitted, behind, overtaken>>
      /\ Seen' = Seen
  BY DEF IInv, SkipNumber, Seen
<1> DEFINE is == [call[d] EXCEPT !.left = call[d].left - 1]
<1>2. call[d] \in Call /\ call[d].phase = "bumping" /\ call[d].left > 0
  BY <1>1, CallFacts DEF SkipNumber
<1>3. /\ call'[d] = is
      /\ \A o \in Caller : o # d => call'[o] = call[o]
  BY <1>1 DEF SkipNumber, TypeOK
<1>4. \A o \in Caller : /\ Home[o] \in Machine /\ counter[Home[o]] \in Nat
                        /\ call[o].seq \in Nat /\ call[o].left \in Nat
  BY <1>1, CallFacts
<1>5. counter' = [counter EXCEPT ![Home[d]] = counter[Home[d]] + 1]
  BY DEF SkipNumber, Take, NextNumber
<1>6. /\ counter'[Home[d]] = counter[Home[d]] + 1
      /\ \A o \in Caller : /\ counter'[Home[o]] \in Nat
                           /\ counter'[Home[o]] >= counter[Home[o]]
  BY <1>1, <1>4, <1>5 DEF TypeOK
<1>7. CASE c # d
  BY <1>1, <1>3, <1>6, <1>7, Bystander DEF KInv
<1>8. CASE c = d
  <2>1. /\ call'[c].phase = "bumping" /\ call'[c].seq = call[c].seq
        /\ call'[c].left = call[c].left - 1
    BY <1>2, <1>3, <1>8 DEF Call
  <2>2. InReach(c)'
    BY <1>1, <1>2, <1>8, <2>1 DEF KInv, InReach
  <2>3. Skips(c)'
    <3>1. call[c].seq + Bump <= counter[Home[c]] + call[c].left
      BY <1>2, <1>8 DEF KInv, Skips
    <3>2. call'[c].seq + Bump <= counter'[Home[c]] + call'[c].left
      BY <1>2, <1>4, <1>6, <1>8, <2>1, <3>1, ReplayGuardAssumption
    <3> QED
      BY <2>1, <3>2 DEF Skips
  <2> QED
    BY <2>2, <2>3
<1> QED
  BY <1>7, <1>8

LEMMA TimeoutReach ==
  ASSUME IInv, JInv, KInv, NEW d \in Caller, Timeout(d), NEW c \in Caller
  PROVE  InReach(c)' /\ Skips(c)'
<1>1. /\ TypeOK /\ UNCHANGED <<counter, highest, admitted, behind, overtaken>>
      /\ Seen' = Seen
  BY DEF IInv, Timeout, Seen
<1>2. call[d] \in Call /\ call[d].answer = "none"
  BY <1>1, CallFacts DEF Timeout, JInv, WaitingUnanswered
<1>3. /\ call'[d] = [call[d] EXCEPT !.phase = "idle"]
      /\ \A o \in Caller : o # d => call'[o] = call[o]
  BY <1>1 DEF Timeout, TypeOK
<1>4. CASE c # d
  <2>1. counter'[Home[c]] \in Nat /\ counter'[Home[c]] >= counter[Home[c]]
    BY <1>1, CallFacts
  <2> QED
    BY <1>1, <1>3, <1>4, <2>1, Bystander DEF KInv
<1>5. CASE c = d
  <2>1. call'[c].phase = "idle" /\ call'[c].answer = "none"
    BY <1>2, <1>3, <1>5 DEF Call
  <2> QED
    BY <2>1 DEF InReach, Skips
<1> QED
  BY <1>4, <1>5

(* A request is delivered. Admitting another caller's puts the call out of *)
(* the statement; admitting an earlier one of the caller's own moves       *)
(* highest to a number below the call's; and admitting the call's own is   *)
(* the end of its retries.                                                 *)
LEMMA DeliverReach ==
  ASSUME IInv, JInv, KInv, repeats' = 0, NEW r \in wire, Deliver(r), NEW c \in Caller
  PROVE  InReach(c)' /\ Skips(c)'
<1>1. TypeOK
  BY DEF IInv
<1>2. PICK fresh \in BOOLEAN, lost \in BOOLEAN, copied \in BOOLEAN :
        /\ IF Verdict(r, fresh) = "ok" THEN Admit(r)
           ELSE UNCHANGED <<highest, admitted, overtaken>>
        /\ call' = IF lost \/ ~Awaits(r) THEN call
                   ELSE [call EXCEPT ![r.from].phase = "answered",
                                     ![r.from].answer = Verdict(r, fresh)]
        /\ wire' = IF copied THEN wire ELSE wire \ {r}
        /\ UNCHANGED <<counter, behind>>
  BY DEF Deliver
<1> DEFINE v == Verdict(r, fresh)
           is == [call[r.from] EXCEPT !.phase = "answered", !.answer = v]
<1>3. r \in Seen /\ r.from \in Caller /\ r.seq \in Nat /\ call[r.from] \in Call
  BY <1>1, SeenFacts, CallFacts DEF Seen
<1>4. /\ is.call = call[r.from].call /\ is.seq = call[r.from].seq
      /\ is.retry = call[r.from].retry /\ is.phase = "answered" /\ is.answer = v
  BY <1>3 DEF Call
<1>5. call'[c] = call[c] \/ (c = r.from /\ Awaits(r) /\ call'[c] = is)
  BY <1>1, <1>2 DEF TypeOK
<1>6. call'[c].call = call[c].call /\ call'[c].seq = call[c].seq
      /\ call'[c].retry = call[c].retry
  BY <1>4, <1>5
<1>7. \/ /\ v = "ok" /\ highest < r.seq /\ highest' = r.seq
         /\ admitted' = Append(admitted, r)
         /\ overtaken'[c] = (overtaken[c] \/ c # r.from)
      \/ v # "ok" /\ UNCHANGED <<highest, admitted, overtaken>>
  BY <1>2 DEF Admit, Verdict, NewNumber
<1>8. v = "replay" => r.seq <= highest
  BY <1>1, <1>3 DEF Verdict, NewNumber, TypeOK
<1>9. Seen' \subseteq Seen
  <2>1. {admitted'[i] : i \in DOMAIN admitted'} \subseteq Seen
    BY <1>7, AdmissionsInOrder
  <2> QED
    BY <1>2, <2>1 DEF Seen
<1>10. /\ highest \in Nat /\ behind[c] \in Nat /\ Bump \in Nat
       /\ overtaken[c] \in BOOLEAN /\ call[c].seq \in Nat
  BY <1>1, ReachFacts, CallFacts
<1> HIDE DEF v, is
<1>11. Skips(c)'
  BY <1>2, <1>4, <1>5, <1>9 DEF KInv, Skips
<1>12. Done(c) => Done(c)'
  <2>1. admitted \in Seq(Request)
    BY <1>1 DEF TypeOK
  <2>2. \A i \in DOMAIN admitted : i \in DOMAIN admitted' /\ admitted'[i] = admitted[i]
    BY <1>7, <2>1
  <2> QED
    BY <1>6, <2>2 DEF Done
<1>13. CASE v # "ok" /\ call'[c] = call[c]
  <2>1. UNCHANGED <<highest, admitted, overtaken>> /\ UNCHANGED behind
    BY <1>2, <1>7, <1>13
  <2> QED
    BY <1>11, <1>12, <1>13, <2>1 DEF KInv, InReach
<1>14. CASE v # "ok" /\ c = r.from /\ Awaits(r) /\ call'[c] = is
  <2>1. UNCHANGED <<highest, admitted, overtaken>> /\ UNCHANGED behind
    BY <1>2, <1>7, <1>14
  <2>2. call[c].phase = "waiting" /\ r.seq = call[c].seq /\ r.call = call[c].call
    BY <1>3, <1>14 DEF Awaits, JInv, AnswerBelongs
  <2>3. ~Done(c)
    <3> SUFFICES ASSUME NEW i \in DOMAIN admitted,
                        admitted[i].from = c, admitted[i].call = call[c].call
                 PROVE  FALSE
      BY DEF Done
    <3>1. admitted[i] \in Seen
      BY DEF Seen
    <3>2. admitted[i] = r
      BY <1>3, <1>14, <2>2, <3>1 DEF JInv, OneRequestPerCall
    <3> QED
      BY <3>2 DEF JInv, Apart
  <2>4. /\ call'[c].phase = "answered" /\ call'[c].answer = v
        /\ call'[c].retry = call[c].retry /\ call'[c].seq = call[c].seq
    BY <1>4, <1>14
  <2>5. ASSUME ~overtaken[c], ~call[c].retry
        PROVE  highest < call[c].seq + behind[c]
    BY <2>2, <2>3, <2>5 DEF KInv, InReach
  <2>6. ASSUME ~overtaken[c], call[c].retry, v = "replay"
        PROVE  behind[c] > Bump + 1
    <3>1. highest + Bump + 1 < call[c].seq + behind[c]
      BY <2>2, <2>3, <2>6 DEF KInv, InReach
    <3> QED
      BY <1>8, <1>10, <2>2, <2>6, <3>1
  <2> QED
    BY <1>11, <2>1, <2>4, <2>5, <2>6 DEF InReach
<1>15. CASE v = "ok" /\ c # r.from
  BY <1>7, <1>11, <1>15 DEF InReach
<1>16. CASE v = "ok" /\ c = r.from /\ r.call = call[c].call
  <2>1. Done(c)'
    <3>1. admitted \in Seq(Request) /\ admitted' = Append(admitted, r)
      BY <1>1, <1>7, <1>16 DEF TypeOK
    <3>2. Len(admitted) + 1 \in DOMAIN admitted' /\ admitted'[Len(admitted) + 1] = r
      BY <3>1
    <3> QED
      BY <1>6, <1>16, <3>2 DEF Done
  <2>2. call[c].phase # "bumping"
    BY <1>3, <1>16 DEF JInv, RefusedIsGone, Refused
  <2>3. ~(call[c].phase \in {"answered", "idle"} /\ call[c].answer = "replay")
    BY <1>3, <1>16 DEF JInv, RefusedIsGone, Refused
  <2>4. call'[c].phase # "bumping"
    BY <1>4, <1>5, <2>2
  <2>5. ~(call'[c].phase \in {"answered", "idle"} /\ call'[c].answer = "replay")
    BY <1>4, <1>5, <1>16, <2>3
  <2> QED
    BY <1>11, <2>1, <2>4, <2>5 DEF InReach
<1>17. CASE v = "ok" /\ c = r.from /\ r.call # call[c].call
  <2>1. r.seq # call[c].seq
    BY <1>3, <1>17 DEF JInv, AnswerBelongs
  <2>2. r.seq < call[c].seq
    BY <1>3, <1>10, <1>17, <2>1 DEF IInv, NoneFromTheFuture
  <2>3. call'[c] = call[c]
    BY <1>5, <1>17, <2>1 DEF Awaits
  <2>4. /\ highest' = r.seq /\ behind'[c] = behind[c]
        /\ ~overtaken'[c] => ~overtaken[c]
    BY <1>2, <1>7, <1>17
  <2>5. highest' < call[c].seq + behind[c]
    BY <1>3, <1>10, <2>2, <2>4
  <2>6. call[c].phase = "waiting" /\ call[c].retry
          => highest' + Bump + 1 < call[c].seq + behind[c]
    <3>1. call[c].phase = "waiting" /\ call[c].retry => r.seq + Bump + 1 < call[c].seq
      BY <1>3, <1>17 DEF KInv, Skips
    <3> QED
      BY <1>3, <1>10, <2>4, <3>1
  <2> QED
    BY <1>11, <2>3, <2>4, <2>5, <2>6 DEF KInv, InReach
<1> QED
  BY <1>5, <1>13, <1>14, <1>15, <1>16, <1>17

LEMMA NextKInv ==
  ASSUME IInv, JInv, KInv, repeats' = 0, [Next]_vars
  PROVE  KInv'
<1> SUFFICES ASSUME NEW c \in Caller PROVE InReach(c)' /\ Skips(c)'
  BY DEF KInv
<1>1. ASSUME NEW d \in Caller, NEW t \in Target, StartCall(d, t)
      PROVE  InReach(c)' /\ Skips(c)'
  BY <1>1, StartCallReach
<1>2. ASSUME NEW d \in Caller, Receive(d) PROVE InReach(c)' /\ Skips(c)'
  BY <1>2, ReceiveReach
<1>3. ASSUME NEW d \in Caller, SkipNumber(d) PROVE InReach(c)' /\ Skips(c)'
  BY <1>3, SkipNumberReach
<1>4. ASSUME NEW d \in Caller, Retry(d) PROVE InReach(c)' /\ Skips(c)'
  BY <1>4, RetryReach
<1>5. ASSUME NEW d \in Caller, Timeout(d) PROVE InReach(c)' /\ Skips(c)'
  BY <1>5, TimeoutReach
<1>6. ASSUME NEW r \in wire, Deliver(r) PROVE InReach(c)' /\ Skips(c)'
  BY <1>6, DeliverReach
<1>7. CASE UNCHANGED vars
  BY <1>7 DEF vars, KInv, InReach, Skips, Done, Seen
<1> QED
  BY <1>1, <1>2, <1>3, <1>4, <1>5, <1>6, <1>7 DEF Next

(* As long as the network repeats no request by itself, a call whose retry *)
(* is refused for its number too was overtaken by another caller, or began *)
(* with the counter more than Bump + 1 behind.                             *)
THEOREM OneRetrySuffices == Spec => []OneRetryIsEnough
<1> DEFINE Inv == IInv /\ (repeats = 0 => JInv /\ KInv)
<1>1. Init => Inv
  BY InitIInv, InitJInv, InitKInv
<1>2. Inv /\ [Next]_vars => Inv'
  BY NextIInv, NextJInv, NextKInv, RepeatsGrow DEF IInv
<1>3. Inv => OneRetryIsEnough
  BY DEF KInv, InReach, Skips, OneRetryIsEnough
<1> HIDE DEF Inv
<1> QED
  BY <1>1, <1>2, <1>3, PTL DEF Spec
=============================================================================
