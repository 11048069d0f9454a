----------------------------- MODULE HomeProofs -----------------------------
(***************************************************************************)
(* Theorems about the parts of MCStartup: what keeps files in the user's   *)
(* home, for any commands at once, names, entries and bounds.              *)
(***************************************************************************)
EXTENDS MCStartup, StartupProofs

(***************************************************************************)
(* Signing.                                                                *)
(***************************************************************************)

(* What the agent's answer and the key file's are while the files stay.    *)
ByAgent(s) == pub # None /\ s = [by |-> pub, form |-> S!FormOf(pub.type)]
ByFile(s) == private # None /\ s = [by |-> private, form |-> "good"]

(* The files are those the operation began with.                           *)
Steady == signed > 0 /\ began # None

(* An operation under way names, asks for and got a signature by the key   *)
(* it found when it began.                                                 *)
OneKey(r) ==
  /\ r.pc # "idle" /\ r.op = "request" => pub # None /\ r.named = pub
  /\ r.pc = "name" => r.op = "challenge" /\ (ByAgent(r.reply) \/ ByFile(r.reply))
  /\ r.pc \in {"connect", "answer"} => pub # None /\ r.blob = pub
  /\ r.pc = "answer" => r.reply = S!Failure \/ ByAgent(r.reply)

(* A request under way names a key, and a signature is one when the key is *)
(* named after it.                                                         *)
Signs ==
  /\ signer.pc # "idle" => signed > 0 /\ (signer.op = "request" => signer.named # None)
  /\ signer.pc = "name" => signer.reply # S!Failure

Signer == [pc : {"idle", "blob", "connect", "answer", "file", "name"},
           op : {"request", "challenge"}, named : S!MaybeKey, blob : S!MaybeKey,
           got : 0..2, reply : S!Signature \cup {S!Failure}]

SigningInv ==
  /\ S!TypeOK
  /\ Signs
  /\ Steady => began = [pub |-> pub, private |-> private] /\ OneKey(signer)
  /\ SignedIsAccepted

LEMMA NoneIsNoKey ==
  /\ None \notin SshKey /\ None \notin S!Files
  /\ None \notin [key : SshKey, signature : S!Signature]
BY HomeAssumption

LEMMA FormIsOne ==
  ASSUME NEW k \in SshKey
  PROVE  S!FormOf(k.type) \in {"good", "sha1", "mpints"}
BY DEF SshKey, S!FormOf

LEMMA IdleSigner == S!Idle \in Signer
BY DEF S!Idle, Signer, S!MaybeKey

LEMMA SignatureIs ==
  ASSUME NEW k \in SshKey, NEW form \in {"good", "sha1", "mpints", "cut"}
  PROVE  [by |-> k, form |-> form] \in S!Signature
BY DEF S!Signature

(* What the steps make of the process.                                     *)
SignerPc == {"idle", "blob", "connect", "answer", "file", "name"}

LEMMA SignerGoes ==
  ASSUME NEW r \in Signer, NEW pc \in SignerPc PROVE [r EXCEPT !.pc = pc] \in Signer
BY DEF Signer, S!MaybeKey, SignerPc

LEMMA SignerAnswered ==
  ASSUME NEW r \in Signer, NEW pc \in SignerPc, NEW reply \in S!Signature \cup {S!Failure}
  PROVE  [r EXCEPT !.pc = pc, !.reply = reply] \in Signer
BY DEF Signer, S!MaybeKey, SignerPc

LEMMA SignerDrops ==
  ASSUME NEW r \in Signer PROVE [r EXCEPT !.pc = "file", !.got = 0, !.reply = S!Failure] \in Signer
<1>1. 0 \in 0..2
  OBVIOUS
<1>2. [r EXCEPT !.got = 0] \in Signer
  BY <1>1 DEF Signer
<1>3. [r EXCEPT !.pc = "file", !.got = 0, !.reply = S!Failure]
         = [[r EXCEPT !.got = 0] EXCEPT !.pc = "file", !.reply = S!Failure]
  BY DEF Signer
<1> QED
  BY <1>2, <1>3, SignerAnswered DEF SignerPc

LEMMA Sends ==
  ASSUME signer \in Signer, NEW s \in S!Signature, S!Send(s), signer.pc # "idle",
         signer.op = "request" => signer.named # None,
         sent \in {None} \cup [key : SshKey, signature : S!Signature]
  PROVE  /\ signer' \in Signer
         /\ sent' \in {None} \cup [key : SshKey, signature : S!Signature]
         /\ signer'.pc # "idle" => signer.op = "challenge" /\ signer'.pc = "name" /\ signer'.reply = s
                                   /\ signer'.op = "challenge" /\ sent' = sent
         /\ signer'.pc = "idle" => signer.op = "request" /\ sent' = [key |-> signer.named, signature |-> s]
<1>1. CASE signer.op = "challenge"
  <2>1. signer' = [signer EXCEPT !.pc = "name", !.reply = s] /\ sent' = sent
    BY <1>1 DEF S!Send
  <2>2. signer' \in Signer
    BY <2>1, SignerAnswered DEF SignerPc
  <2> QED
    BY <1>1, <2>1, <2>2 DEF Signer
<1>2. CASE signer.op # "challenge"
  <2>1. signer' = S!Idle /\ sent' = [key |-> signer.named, signature |-> s] /\ signer.op = "request"
    BY <1>2 DEF S!Send, Signer
  <2>2. signer.named \in SshKey
    BY <2>1 DEF Signer, S!MaybeKey
  <2> QED
    BY <2>1, <2>2, IdleSigner DEF S!Idle
<1> QED
  BY <1>1, <1>2

LEMMA SigningStarts == S!Init => SigningInv
<1> SUFFICES ASSUME S!Init PROVE SigningInv
  OBVIOUS
<1>1. S!TypeOK
  BY HomeAssumption DEF S!Init, S!TypeOK, S!MaybeKey, S!Files, S!Idle, S!Failure, S!Signature
<1> QED
  BY <1>1 DEF S!Init, SigningInv, Signs, Steady, S!Idle, SignedIsAccepted, S!SignedIsAccepted

(* The types, the process of the signer apart.                             *)
LEMMA SigningTypes ==
  ASSUME SigningInv, [S!Next]_svars, signer' \in Signer,
         sent' \in {None} \cup [key : SshKey, signature : S!Signature]
  PROVE  S!TypeOK'
<1>1. (pub \in S!MaybeKey /\ private \in S!MaybeKey /\ agent \in (SUBSET SshKey) \cup {None})'
  BY DEF SigningInv, S!TypeOK, svars, S!Next, S!SignRequest, S!SignChallenge, S!Begin,
    S!ReadBlob, S!Connect, S!Data, S!AgentSigned, S!AgentFails, S!SignWithKeyFile,
    S!NameKey, S!Change, S!kept, S!MaybeKey
<1>2. (began \in S!Files \cup {None})'
  BY DEF SigningInv, S!TypeOK, svars, S!Next, S!SignRequest, S!SignChallenge, S!Begin,
    S!ReadBlob, S!Connect, S!Data, S!AgentSigned, S!AgentFails, S!SignWithKeyFile,
    S!NameKey, S!Change, S!kept, S!Files
<1>3. (signed \in 0..MaxSigned /\ changes \in 0..MaxChanges)'
  BY HomeAssumption DEF SigningInv, S!TypeOK, svars, S!Next, S!SignRequest, S!SignChallenge, S!Begin,
    S!ReadBlob, S!Connect, S!Data, S!AgentSigned, S!AgentFails, S!SignWithKeyFile,
    S!NameKey, S!Change, S!kept
<1> QED
  BY <1>1, <1>2, <1>3 DEF S!TypeOK, Signer

(* A signature by the key that the files hold, sent or kept until it is    *)
(* named.                                                                  *)
LEMMA SendSigned ==
  ASSUME SigningInv, NEW s \in S!Signature, S!Send(s), signer.pc \in {"answer", "file"},
         UNCHANGED <<S!kept, began, signed>>, [S!Next]_svars,
         Steady => ByAgent(s) \/ ByFile(s)
  PROVE  SigningInv'
<1>0. signer \in Signer
  BY DEF SigningInv, S!TypeOK, Signer
<1>1. signer.op = "request" => signer.named # None
  BY DEF SigningInv, Signs
<1>2. sent \in {None} \cup [key : SshKey, signature : S!Signature]
  BY DEF SigningInv, S!TypeOK
<1>3. /\ signer' \in Signer
      /\ sent' \in {None} \cup [key : SshKey, signature : S!Signature]
      /\ signer'.pc # "idle" => /\ signer.op = "challenge" /\ signer'.pc = "name"
                                /\ signer'.reply = s /\ signer'.op = "challenge" /\ sent' = sent
      /\ signer'.pc = "idle" => /\ signer.op = "request"
                                /\ sent' = [key |-> signer.named, signature |-> s]
  BY <1>0, <1>1, <1>2, Sends
<1>4. S!TypeOK'
  BY <1>3, SigningTypes
<1>5. Signs'
  BY <1>3, NoneIsNoKey DEF SigningInv, Signs, S!Failure, S!Signature
<1>6. (Steady => began = [pub |-> pub, private |-> private] /\ OneKey(signer))'
  BY <1>3 DEF SigningInv, Steady, OneKey, ByAgent, ByFile, S!kept
<1>7. SignedIsAccepted'
  <2> SUFFICES ASSUME signer'.pc = "idle", signed' > 0, began' # None,
                      began'.private \in {began'.pub, None}
               PROVE  sent' # None /\ (\/ S!Verifies(sent')
                                      \/ sent'.signature = [by |-> sent'.key, form |-> S!FormOf(sent'.key.type)])
    BY DEF SignedIsAccepted, S!SignedIsAccepted, S!Verifies
  <2>1. Steady /\ signer.pc # "idle" /\ began = [pub |-> pub, private |-> private]
    BY DEF Steady, SigningInv
  <2>2. sent' = [key |-> signer.named, signature |-> s] /\ signer.named = pub /\ pub # None
    BY <2>1, <1>3 DEF SigningInv, OneKey
  <2>5. sent' # None
    <3>1. signer.named \in SshKey
      BY <2>2, <1>0 DEF Signer, S!MaybeKey
    <3>2. sent' \in [key : SshKey, signature : S!Signature]
      BY <2>2, <3>1
    <3> QED
      BY <3>2, NoneIsNoKey
  <2>3. CASE ByAgent(s)
    BY <2>2, <2>3, <2>5 DEF ByAgent
  <2>4. CASE ByFile(s)
    <3>1. private = pub
      BY <2>1, <2>4 DEF ByFile
    <3> QED
      BY <2>2, <2>4, <2>5, <3>1 DEF ByFile, S!Verifies
  <2> QED
    BY <2>1, <2>3, <2>4
<1> QED
  BY <1>4, <1>5, <1>6, <1>7 DEF SigningInv

LEMMA SigningStep ==
  ASSUME SigningInv, [S!Next]_svars PROVE SigningInv'
<1> USE NoneIsNoKey
<1>0. signer \in Signer
  BY DEF SigningInv, S!TypeOK, Signer
<1>1. CASE UNCHANGED svars
  BY <1>1 DEF svars, Signs, SigningInv, S!TypeOK, Steady, OneKey, ByAgent, ByFile,
    SignedIsAccepted, S!SignedIsAccepted, S!Verifies
<1>2. CASE S!SignRequest
  <2>1. signer' \in Signer
    BY <1>0, <1>2, IdleSigner DEF SigningInv, S!TypeOK, Signer, S!MaybeKey, S!SignRequest, S!Begin, S!First
  <2>6. sent' \in {None} \cup [key : SshKey, signature : S!Signature]
    BY <1>0, <1>2 DEF SigningInv, S!TypeOK, Signer, S!MaybeKey, S!kept, S!SignRequest, S!Begin, S!First
  <2>2. S!TypeOK'
    BY <2>1, <2>6, SigningTypes
  <2>3. Signs'
    BY <1>2 DEF Signs, S!Failure, SigningInv, S!TypeOK, S!Idle, S!kept, S!SignRequest, S!Begin, S!First
  <2>4. (Steady => began = [pub |-> pub, private |-> private] /\ OneKey(signer))'
    BY <1>2 DEF SigningInv, Steady, OneKey, ByAgent, ByFile, S!TypeOK, S!MaybeKey, S!Files,
      S!Idle, S!Failure, S!Signature, S!kept, S!SignRequest, S!Begin, S!First
  <2>5. SignedIsAccepted'
    BY <1>2 DEF SigningInv, Steady, OneKey, ByAgent, ByFile, S!TypeOK, SignedIsAccepted,
      S!SignedIsAccepted, S!Verifies, S!MaybeKey, S!Files, S!Idle, S!Failure,
      S!Signature, S!kept, S!SignRequest, S!Begin, S!First
  <2> QED
    BY <2>2, <2>3, <2>4, <2>5 DEF SigningInv
<1>3. CASE S!SignChallenge
  <2>1. signer' \in Signer
    BY <1>0, <1>3, IdleSigner DEF SigningInv, S!TypeOK, Signer, S!MaybeKey, S!SignChallenge, S!Begin, S!First
  <2>6. sent' \in {None} \cup [key : SshKey, signature : S!Signature]
    BY <1>0, <1>3 DEF SigningInv, S!TypeOK, Signer, S!MaybeKey, S!kept, S!SignChallenge, S!Begin, S!First
  <2>2. S!TypeOK'
    BY <2>1, <2>6, SigningTypes
  <2>3. Signs'
    BY <1>3 DEF Signs, S!Failure, SigningInv, S!TypeOK, S!Idle, S!kept, S!SignChallenge, S!Begin, S!First
  <2>4. (Steady => began = [pub |-> pub, private |-> private] /\ OneKey(signer))'
    BY <1>3 DEF SigningInv, Steady, OneKey, ByAgent, ByFile, S!TypeOK, S!MaybeKey, S!Files,
      S!Idle, S!Failure, S!Signature, S!kept, S!SignChallenge, S!Begin, S!First
  <2>5. SignedIsAccepted'
    BY <1>3 DEF SigningInv, Steady, OneKey, ByAgent, ByFile, S!TypeOK, SignedIsAccepted,
      S!SignedIsAccepted, S!Verifies, S!MaybeKey, S!Files, S!Idle, S!Failure,
      S!Signature, S!kept, S!SignChallenge, S!Begin, S!First
  <2> QED
    BY <2>2, <2>3, <2>4, <2>5 DEF SigningInv
<1>4. CASE S!ReadBlob
  <2>1. signer' \in Signer
    BY <1>0, <1>4, IdleSigner DEF SigningInv, S!TypeOK, Signer, S!MaybeKey, S!ReadBlob
  <2>6. sent' \in {None} \cup [key : SshKey, signature : S!Signature]
    BY <1>0, <1>4 DEF SigningInv, S!TypeOK, Signer, S!MaybeKey, S!kept, S!ReadBlob
  <2>2. S!TypeOK'
    BY <2>1, <2>6, SigningTypes
  <2>3. Signs'
    BY <1>4 DEF Signs, S!Failure, SigningInv, S!TypeOK, S!Idle, S!kept, S!ReadBlob
  <2>4. (Steady => began = [pub |-> pub, private |-> private] /\ OneKey(signer))'
    BY <1>4 DEF SigningInv, Steady, OneKey, ByAgent, ByFile, S!TypeOK, S!MaybeKey, S!Files,
      S!Idle, S!Failure, S!Signature, S!kept, S!ReadBlob
  <2>5. SignedIsAccepted'
    BY <1>4 DEF SigningInv, Steady, OneKey, ByAgent, ByFile, S!TypeOK, SignedIsAccepted,
      S!SignedIsAccepted, S!Verifies, S!MaybeKey, S!Files, S!Idle, S!Failure,
      S!Signature, S!kept, S!ReadBlob
  <2> QED
    BY <2>2, <2>3, <2>4, <2>5 DEF SigningInv
<1>5. CASE S!Connect
  <2>1. /\ signer.pc = "connect" /\ UNCHANGED <<S!kept, sent, began, signed>>
        /\ \E reply \in S!Signature \cup {S!Failure} :
              /\ signer' = [signer EXCEPT !.pc = "answer", !.reply = reply]
              /\ reply = S!Failure \/ reply = [by |-> signer.blob, form |-> S!FormOf(signer.blob.type)]
    <3>1. CASE signer' = [signer EXCEPT !.pc = "answer", !.reply = S!Failure]
      BY <3>1, <1>5 DEF S!Connect
    <3>2. CASE /\ signer.blob \in agent
               /\ signer' = [signer EXCEPT !.pc = "answer",
                    !.reply = [by |-> signer.blob, form |-> S!FormOf(signer.blob.type)]]
      <4>1. signer.blob \in SshKey
        BY <3>2, <1>5 DEF S!Connect, SigningInv, S!TypeOK
      <4>2. [by |-> signer.blob, form |-> S!FormOf(signer.blob.type)] \in S!Signature
        BY <4>1, FormIsOne, SignatureIs
      <4> QED
        BY <3>2, <4>2, <1>5 DEF S!Connect
    <3> QED
      BY <3>1, <3>2, <1>5 DEF S!Connect
  <2>2. PICK reply \in S!Signature \cup {S!Failure} :
              /\ signer' = [signer EXCEPT !.pc = "answer", !.reply = reply]
              /\ reply = S!Failure \/ reply = [by |-> signer.blob, form |-> S!FormOf(signer.blob.type)]
    BY <2>1
  <2>3. signer' \in Signer
    BY <2>2, <1>0, SignerAnswered DEF SignerPc
  <2>4. S!TypeOK'
    BY <2>1, <2>3, <1>5, SigningTypes DEF SigningInv, S!TypeOK, S!Next
  <2>5. /\ signer'.pc = "answer" /\ signer'.op = signer.op /\ signer'.named = signer.named
        /\ signer'.blob = signer.blob /\ signer'.reply = reply
    BY <2>2, <1>0 DEF Signer
  <2> HIDE DEF S!FormOf
  <2>6. (Steady => began = [pub |-> pub, private |-> private] /\ OneKey(signer))'
    BY <2>1, <2>2, <2>5 DEF SigningInv, Steady, OneKey, ByAgent, ByFile, S!kept, S!Failure
  <2> QED
    BY <2>1, <2>4, <2>5, <2>6 DEF SigningInv, Signs, SignedIsAccepted, S!SignedIsAccepted, S!Failure
<1>6. CASE S!Data
  <2>1. signer' \in Signer
    BY <1>0, <1>6, IdleSigner DEF SigningInv, S!TypeOK, Signer, S!MaybeKey, S!Data
  <2>6. sent' \in {None} \cup [key : SshKey, signature : S!Signature]
    BY <1>0, <1>6 DEF SigningInv, S!TypeOK, Signer, S!MaybeKey, S!kept, S!Data
  <2>2. S!TypeOK'
    BY <2>1, <2>6, SigningTypes
  <2>3. Signs'
    BY <1>6 DEF Signs, S!Failure, SigningInv, S!TypeOK, S!Idle, S!kept, S!Data
  <2>4. (Steady => began = [pub |-> pub, private |-> private] /\ OneKey(signer))'
    BY <1>6 DEF SigningInv, Steady, OneKey, ByAgent, ByFile, S!TypeOK, S!MaybeKey, S!Files,
      S!Idle, S!Failure, S!Signature, S!kept, S!Data
  <2>5. SignedIsAccepted'
    BY <1>6 DEF SigningInv, Steady, OneKey, ByAgent, ByFile, S!TypeOK, SignedIsAccepted,
      S!SignedIsAccepted, S!Verifies, S!MaybeKey, S!Files, S!Idle, S!Failure,
      S!Signature, S!kept, S!Data
  <2> QED
    BY <2>2, <2>3, <2>4, <2>5 DEF SigningInv
<1>7. CASE S!AgentSigned
  <2>1. signer.pc = "answer" /\ UNCHANGED <<S!kept, began, signed>>
    BY <1>7 DEF S!AgentSigned
  <2>2. CASE signer.reply = S!Failure
    <3>1. signer' = [signer EXCEPT !.pc = "file"] /\ sent' = sent
      BY <2>2, <1>7 DEF S!AgentSigned, S!Goto
    <3>2. S!TypeOK'
      BY <3>1, <1>0, SignerGoes, SigningTypes DEF SigningInv, S!TypeOK, S!Next, SignerPc
    <3>3. signer'.pc = "file" /\ signer'.op = signer.op /\ signer'.named = signer.named
      BY <3>1, <1>0 DEF Signer
    <3> QED
      BY <2>1, <3>1, <3>2, <3>3 DEF SigningInv, Signs, Steady, OneKey, S!kept,
        SignedIsAccepted, S!SignedIsAccepted
  <2>3. CASE signer.reply # S!Failure
    <3>1. S!Send(signer.reply)
      BY <2>3, <1>7 DEF S!AgentSigned, S!Whole, S!Parsed
    <3>2. signer.reply \in S!Signature
      BY <2>3, <1>0 DEF Signer
    <3>3. Steady => ByAgent(signer.reply)
      BY <2>1, <2>3 DEF SigningInv, OneKey
    <3> QED
      BY <2>1, <3>1, <3>2, <3>3, SendSigned
  <2> QED
    BY <2>2, <2>3
<1>8. CASE S!AgentFails
  <2>1. /\ signer.pc \in {"connect", "answer"} /\ UNCHANGED <<S!kept, sent, began, signed>>
        /\ signer' = [signer EXCEPT !.pc = "file", !.got = 0, !.reply = S!Failure]
    BY <1>8 DEF S!AgentFails
  <2>2. S!TypeOK'
    BY <2>1, <1>0, SignerDrops, SigningTypes DEF SigningInv, S!TypeOK, S!Next
  <2>3. signer'.pc = "file" /\ signer'.op = signer.op /\ signer'.named = signer.named
    BY <2>1, <1>0 DEF Signer
  <2> QED
    BY <2>1, <2>2, <2>3 DEF SigningInv, Signs, Steady, OneKey, S!kept,
      SignedIsAccepted, S!SignedIsAccepted
<1>9. CASE S!SignWithKeyFile
  <2>1. signer.pc = "file" /\ UNCHANGED <<S!kept, began, signed>>
    BY <1>9 DEF S!SignWithKeyFile
  <2>2. CASE S!Throw /\ (private = None \/ private.type = "ecdsa")
    <3>1. signer' = S!Idle /\ sent' = None
      BY <2>2 DEF S!Throw
    <3>2. S!TypeOK'
      BY <3>1, <1>9, IdleSigner, SigningTypes DEF S!Next
    <3> QED
      BY <2>1, <2>2, <3>1, <3>2 DEF SigningInv, Signs, Steady, OneKey, S!kept, S!Idle,
        SignedIsAccepted, S!SignedIsAccepted
  <2>3. CASE private # None /\ S!Send([by |-> private, form |-> "good"])
    <3>1. private \in SshKey
      BY <2>3 DEF SigningInv, S!TypeOK, S!MaybeKey
    <3>2. [by |-> private, form |-> "good"] \in S!Signature
      BY <3>1, SignatureIs
    <3>3. ByFile([by |-> private, form |-> "good"])
      BY <2>3 DEF ByFile
    <3> QED
      BY <2>1, <2>3, <3>2, <3>3, SendSigned
  <2> QED
    BY <2>2, <2>3, <1>9 DEF S!SignWithKeyFile
<1>10. CASE S!NameKey
  <2>1. signer' \in Signer
    BY <1>0, <1>10, IdleSigner DEF SigningInv, S!TypeOK, Signer, S!MaybeKey, S!NameKey, S!Throw
  <2>6. sent' \in {None} \cup [key : SshKey, signature : S!Signature]
    <3>1. CASE pub = None
      BY <3>1, <1>10 DEF S!NameKey, S!Throw
    <3>2. CASE pub # None
      <4>1. pub \in SshKey /\ signer.reply \in S!Signature
        BY <3>2, <1>0, <1>10 DEF SigningInv, Signs, S!TypeOK, S!MaybeKey, Signer, S!NameKey
      <4> QED
        BY <3>2, <4>1, <1>10 DEF S!NameKey
    <3> QED
      BY <3>1, <3>2
  <2>2. S!TypeOK'
    BY <2>1, <2>6, SigningTypes
  <2>3. Signs'
    BY <1>10 DEF Signs, S!Failure, SigningInv, S!TypeOK, S!Idle, S!kept, S!NameKey, S!Throw
  <2>4. (Steady => began = [pub |-> pub, private |-> private] /\ OneKey(signer))'
    BY <1>10 DEF SigningInv, Steady, OneKey, ByAgent, ByFile, S!TypeOK, S!MaybeKey, S!Files,
      S!Idle, S!Failure, S!Signature, S!kept, S!NameKey, S!Throw
  <2>5. SignedIsAccepted'
    BY <1>10 DEF SigningInv, Steady, OneKey, ByAgent, ByFile, S!TypeOK, SignedIsAccepted,
      S!SignedIsAccepted, S!Verifies, S!MaybeKey, S!Files, S!Idle, S!Failure,
      S!Signature, S!kept, S!NameKey, S!Throw
  <2> QED
    BY <2>2, <2>3, <2>4, <2>5 DEF SigningInv
<1>11. CASE S!Change
  <2>1. signer' \in Signer
    BY <1>0, <1>11, IdleSigner DEF SigningInv, S!TypeOK, Signer, S!MaybeKey, S!Change
  <2>6. sent' \in {None} \cup [key : SshKey, signature : S!Signature]
    BY <1>0, <1>11 DEF SigningInv, S!TypeOK, Signer, S!MaybeKey, S!kept, S!Change
  <2>2. S!TypeOK'
    BY <2>1, <2>6, SigningTypes
  <2>3. Signs'
    BY <1>11 DEF Signs, S!Failure, SigningInv, S!TypeOK, S!Idle, S!kept, S!Change
  <2>4. (Steady => began = [pub |-> pub, private |-> private] /\ OneKey(signer))'
    BY <1>11 DEF SigningInv, Steady, OneKey, ByAgent, ByFile, S!TypeOK, S!MaybeKey, S!Files,
      S!Idle, S!Failure, S!Signature, S!kept, S!Change
  <2>5. SignedIsAccepted'
    BY <1>11 DEF SigningInv, Steady, OneKey, ByAgent, ByFile, S!TypeOK, SignedIsAccepted,
      S!SignedIsAccepted, S!Verifies, S!MaybeKey, S!Files, S!Idle, S!Failure,
      S!Signature, S!kept, S!Change
  <2> QED
    BY <2>2, <2>3, <2>4, <2>5 DEF SigningInv
<1> QED
  BY <1>1, <1>2, <1>3, <1>4, <1>5, <1>6, <1>7, <1>8, <1>9, <1>10, <1>11 DEF S!Next

(***************************************************************************)
(* The configuration files of editors.                                     *)
(***************************************************************************)

Call == [kind : {"none", "install", "unregister", "uninstall"},
         pc : {"idle", "prompt", "read", "write", "remove"},
         todo : SUBSET A!File, seen : [A!File -> A!Contents],
         at : A!File \cup {None}, read : A!Contents]

(* A.TypeOK without the deaths, which other parts count as well.           *)
AgentsTypes ==
  /\ installed \subseteq {"cursor"} /\ allowed \subseteq {"cursor"}
  /\ editorFile \in [A!File -> A!Contents]
  /\ caller \in [Caller -> Call]
  /\ data \in BOOLEAN
  /\ wanted \in [A!File -> SUBSET Other] /\ lost \subseteq A!File
  /\ edits \in 0..MaxEdits /\ runs \in 0..MaxRuns

(* Between its read and its write a command holds the entries as the user  *)
(* last left them; a file that is not there has none.                      *)
EntriesInv ==
  /\ AgentsTypes
  /\ \A f \in A!File : editorFile[f].text = "none" => editorFile[f].others = {}
  /\ \A p \in Caller :
        /\ caller[p].pc = "write" <=> caller[p].at # None
        /\ caller[p].pc = "write" /\ caller[p].at \notin lost =>
              caller[p].read.others = wanted[caller[p].at]
  /\ EntriesKept

LEMMA ContentsAre ==
  /\ A!Absent \in A!Contents /\ A!Absent.others = {}
  /\ \A c \in A!Contents : A!ReadConfig(c) \in A!Contents
BY DEF A!Absent, A!Contents, A!ReadConfig

LEMMA FilesAre == None \notin A!File /\ A!File = {"cursor", ".mcp.json"}
BY HomeAssumption DEF A!File

(* What the steps make of a command.                                       *)
LEMMA CallIdle == A!Idle \in Call /\ A!Idle.pc = "idle" /\ A!Idle.at = None
BY ContentsAre DEF A!Idle, Call

LEMMA CallGoes ==
  ASSUME NEW r \in Call, NEW c, c = [r EXCEPT !.pc = "read"]
  PROVE  c \in Call /\ c.pc = "read" /\ c.at = r.at
BY DEF Call

LEMMA CallWrote ==
  ASSUME NEW r \in Call,
         NEW c, c = [r EXCEPT !.pc = "read", !.todo = @ \ {r.at}, !.at = None, !.read = A!Absent]
  PROVE  c \in Call /\ c.pc = "read" /\ c.at = None
BY ContentsAre DEF Call

LEMMA EntriesStart == A!Init => EntriesInv
<1> SUFFICES ASSUME A!Init PROVE EntriesInv
  OBVIOUS
<1>1. editorFile \in [A!File -> A!Contents]
  <2>1. [text |-> "odd", ours |-> FALSE, others |-> Other] \in A!Contents
    BY DEF A!Contents
  <2> QED
    BY <2>1, ContentsAre DEF A!Init
<1>2. AgentsTypes
  <2>1. wanted \in [A!File -> SUBSET Other]
    BY <1>1 DEF A!Init, A!Contents
  <2> QED
    BY <1>1, <2>1, CallIdle, HomeAssumption DEF A!Init, AgentsTypes
<1>3. \A f \in A!File : editorFile[f].text = "none" => editorFile[f].others = {}
  BY DEF A!Init, A!Absent
<1>4. \A p \in Caller : caller[p].pc = "idle" /\ caller[p].at = None
  BY CallIdle DEF A!Init
<1> QED
  BY <1>2, <1>3, <1>4 DEF EntriesInv, EntriesKept, A!EntriesKept, A!Init

(* A step of a command that leaves the files alone.                        *)
Turns(p, c) ==
  /\ caller' = [caller EXCEPT ![p] = c]
  /\ UNCHANGED <<installed, allowed, editorFile, wanted, edits>> /\ lost \subseteq lost'

Counted == data \in BOOLEAN /\ runs \in 0..MaxRuns /\ lost \subseteq A!File

LEMMA CallMoves ==
  ASSUME EntriesInv, NEW p \in Caller, NEW c \in Call, Turns(p, c), Counted',
         c.pc = "write" <=> c.at # None,
         c.pc = "write" /\ c.at \notin lost' => c.read.others = wanted[c.at]
  PROVE  EntriesInv'
<1>1. AgentsTypes'
  BY DEF EntriesInv, AgentsTypes, Turns, Counted
<1>2. \A q \in Caller : caller'[q] = IF q = p THEN c ELSE caller[q]
  BY DEF EntriesInv, AgentsTypes, Turns, Counted
<1>3. (\A q \in Caller :
        /\ caller[q].pc = "write" <=> caller[q].at # None
        /\ caller[q].pc = "write" /\ caller[q].at \notin lost =>
              caller[q].read.others = wanted[caller[q].at])'
  BY <1>2 DEF EntriesInv, Turns
<1> QED
  BY <1>1, <1>3 DEF EntriesInv, EntriesKept, A!EntriesKept, Turns

LEMMA EntriesStep ==
  ASSUME EntriesInv, [A!Next]_avars PROVE EntriesInv'
<1>0. /\ AgentsTypes /\ MaxRuns \in Nat /\ MaxEdits \in Nat
      /\ \A p \in Caller : caller[p] \in Call
  BY HomeAssumption DEF EntriesInv, AgentsTypes
<1>1. CASE UNCHANGED avars
  BY <1>1 DEF avars, EntriesInv, AgentsTypes, EntriesKept, A!EntriesKept
<1>2. ASSUME NEW p \in Caller, NEW kind \in {"install", "unregister", "uninstall"},
             A!Detect(p, kind)
      PROVE  EntriesInv'
  <2>1. PICK vscode \in BOOLEAN :
          caller' = [caller EXCEPT ![p] = [A!Idle EXCEPT !.kind = kind,
              !.todo = IF kind = "install" THEN A!ToInstall(vscode) ELSE A!Registered(editorFile),
              !.seen = editorFile, !.pc = IF kind = "uninstall" THEN "prompt" ELSE "read"]]
    BY <1>2 DEF A!Detect
  <2> DEFINE todo == IF kind = "install" THEN A!ToInstall(vscode) ELSE A!Registered(editorFile)
             pc == IF kind = "uninstall" THEN "prompt" ELSE "read"
             c == [A!Idle EXCEPT !.kind = kind, !.todo = todo, !.seen = editorFile, !.pc = pc]
  <2>2. todo \in SUBSET A!File /\ pc \in {"prompt", "read"}
    BY <1>0 DEF A!ToInstall, A!Registered, A!File, AgentsTypes
  <2>3. c \in Call /\ c.pc = pc /\ c.at = None
    BY <2>2, <1>0, ContentsAre DEF A!Idle, Call, AgentsTypes
  <2>4. runs' \in 0..MaxRuns /\ data' \in BOOLEAN
    BY <1>2, <1>0 DEF A!Detect, AgentsTypes
  <2>5. UNCHANGED <<installed, allowed, editorFile, wanted, lost, edits>>
    BY <1>2 DEF A!Detect, A!fixed
  <2>6. Turns(p, c) /\ Counted'
    BY <2>1, <2>4, <2>5, <1>0 DEF Turns, Counted, AgentsTypes
  <2> HIDE DEF c, pc
  <2> QED
    BY <2>2, <2>3, <2>6, CallMoves
<1>3. ASSUME NEW p \in Caller, A!Confirm(p) PROVE EntriesInv'
  <2>1. UNCHANGED <<installed, allowed, editorFile, data, wanted, lost, edits, runs>>
    BY <1>3 DEF A!Confirm, A!fixed, A!ghosts
  <2>2. caller[p].pc = "prompt" /\ caller[p].at = None
    BY <1>3 DEF A!Confirm, EntriesInv
  <2>3. CASE caller' = [caller EXCEPT ![p].pc = "read"]
    <3> DEFINE c == [caller[p] EXCEPT !.pc = "read"]
    <3>1. c \in Call /\ c.pc = "read" /\ c.at = None
      BY <1>0, <2>2, CallGoes
    <3>2. Turns(p, c) /\ Counted'
      BY <2>3, <2>1, <1>0 DEF Turns, Counted, AgentsTypes
    <3> HIDE DEF c
    <3> QED
      BY <3>1, <3>2, CallMoves
  <2>4. CASE caller' = [caller EXCEPT ![p] = A!Idle]
    <3>1. Turns(p, A!Idle) /\ Counted'
      BY <2>4, <2>1, <1>0 DEF Turns, Counted, AgentsTypes
    <3> QED
      BY <3>1, CallIdle, CallMoves
  <2> QED
    BY <2>3, <2>4, <1>3 DEF A!Confirm
<1>4. ASSUME NEW p \in Caller, A!Read(p) PROVE EntriesInv'
  <2>1. UNCHANGED <<installed, allowed, editorFile, data, wanted, edits, runs>>
    BY <1>4 DEF A!Read, A!fixed
  <2>2. caller[p].pc = "read" /\ caller[p].at = None
    BY <1>4 DEF A!Read, EntriesInv
  <2>3. PICK f \in caller[p].todo :
          \/ caller' = [caller EXCEPT ![p].todo = @ \ {f}] /\ lost' = lost
          \/ /\ caller' = [caller EXCEPT ![p] =
                  [@ EXCEPT !.pc = "write", !.at = f, !.read = A!ReadConfig(editorFile[f])]]
             /\ lost' = IF editorFile[f].text = "odd" THEN lost \cup {f} ELSE lost
    BY <1>4 DEF A!Read
  <2>4. f \in A!File
    BY <1>0 DEF Call
  <2>5. CASE caller' = [caller EXCEPT ![p].todo = @ \ {f}] /\ lost' = lost
    <3> DEFINE c == [caller[p] EXCEPT !.todo = @ \ {f}]
    <3>1. c \in Call /\ c.pc = "read" /\ c.at = None
      BY <1>0, <2>2 DEF Call
    <3>2. Turns(p, c) /\ Counted'
      BY <2>5, <2>1, <1>0 DEF Turns, Counted, AgentsTypes
    <3> HIDE DEF c
    <3> QED
      BY <3>1, <3>2, CallMoves
  <2>6. CASE /\ caller' = [caller EXCEPT ![p] =
                  [@ EXCEPT !.pc = "write", !.at = f, !.read = A!ReadConfig(editorFile[f])]]
             /\ lost' = IF editorFile[f].text = "odd" THEN lost \cup {f} ELSE lost
    <3> DEFINE now == A!ReadConfig(editorFile[f])
               c == [caller[p] EXCEPT !.pc = "write", !.at = f, !.read = now]
    <3>1. editorFile[f] \in A!Contents
      BY <1>0, <2>4 DEF AgentsTypes
    <3>2. c \in Call /\ c.pc = "write" /\ c.at = f /\ c.read = now
      BY <1>0, <2>4, <3>1, ContentsAre DEF Call
    <3>4. f \notin lost' => now.others = wanted[f]
      <4> SUFFICES ASSUME f \notin lost' PROVE now.others = wanted[f]
        OBVIOUS
      <4>1. editorFile[f].text # "odd" /\ f \notin lost
        BY <2>6
      <4>2. editorFile[f].others = wanted[f]
        BY <4>1, <2>4 DEF EntriesInv, EntriesKept, A!EntriesKept
      <4>3. CASE editorFile[f].text = "json"
        BY <4>2, <4>3 DEF A!ReadConfig
      <4>4. CASE editorFile[f].text = "none"
        BY <4>2, <4>4, <2>4, ContentsAre DEF EntriesInv, A!ReadConfig
      <4> QED
        BY <4>1, <4>3, <4>4, <3>1 DEF A!Contents
    <3>5. lost \subseteq lost' /\ lost' \subseteq A!File
      BY <2>6, <2>4, <1>0 DEF AgentsTypes
    <3>3. Turns(p, c) /\ Counted'
      BY <2>6, <3>5, <2>1, <1>0 DEF Turns, Counted, AgentsTypes
    <3> HIDE DEF c, now
    <3> QED
      BY <3>2, <3>3, <3>4, <2>4, FilesAre, CallMoves
  <2> QED
    BY <2>3, <2>5, <2>6
<1>5. ASSUME NEW p \in Caller, A!Write(p) PROVE EntriesInv'
  <2> DEFINE f == caller[p].at
             text == [text |-> "json", ours |-> caller[p].kind = "install",
                      others |-> caller[p].read.others]
             c == [caller[p] EXCEPT !.pc = "read", !.todo = @ \ {caller[p].at}, !.at = None,
                                    !.read = A!Absent]
  <2>1. /\ caller[p].pc = "write" /\ editorFile' = [editorFile EXCEPT ![f] = text]
        /\ caller' = [caller EXCEPT ![p] = c]
        /\ UNCHANGED <<installed, allowed, data, wanted, lost, edits, runs>>
    BY <1>5 DEF A!Write, A!fixed, A!ghosts
  <2>2. f \in A!File /\ text \in A!Contents
    BY <2>1, <1>0 DEF EntriesInv, Call, A!Contents
  <2>3. c \in Call /\ c.pc = "read" /\ c.at = None
    BY <1>0, CallWrote
  <2> HIDE DEF f, text, c
  <2>4. AgentsTypes'
    BY <2>1, <2>2, <2>3, <1>0 DEF AgentsTypes
  <2>5. \A q \in Caller : caller'[q] = IF q = p THEN c ELSE caller[q]
    BY <2>1, <1>0 DEF AgentsTypes
  <2>6. \A g \in A!File : editorFile'[g] = IF g = f THEN text ELSE editorFile[g]
    BY <2>1, <1>0 DEF AgentsTypes
  <2>7. text.text = "json" /\ (f \notin lost => text.others = wanted[f])
    BY <2>1 DEF EntriesInv, text, f
  <2>8. (\A q \in Caller :
          /\ caller[q].pc = "write" <=> caller[q].at # None
          /\ caller[q].pc = "write" /\ caller[q].at \notin lost =>
                caller[q].read.others = wanted[caller[q].at])'
    BY <2>1, <2>3, <2>5 DEF EntriesInv
  <2>9. (\A g \in A!File : editorFile[g].text = "none" => editorFile[g].others = {})'
    BY <2>6, <2>7 DEF EntriesInv
  <2>10. EntriesKept'
    BY <2>1, <2>6, <2>7 DEF EntriesInv, EntriesKept, A!EntriesKept
  <2> QED
    BY <2>4, <2>8, <2>9, <2>10 DEF EntriesInv
<1>6. ASSUME NEW p \in Caller, A!Finish(p) PROVE EntriesInv'
  <2>1. UNCHANGED <<installed, allowed, editorFile, wanted, lost, edits, runs>>
    BY <1>6 DEF A!Finish, A!fixed, A!ghosts
  <2>2. caller' = [caller EXCEPT ![p] = A!Idle] /\ data' \in BOOLEAN
    BY <1>6, <1>0 DEF A!Finish, AgentsTypes
  <2> QED
    <3>1. Turns(p, A!Idle) /\ Counted'
      BY <2>2, <2>1, <1>0 DEF Turns, Counted, AgentsTypes
    <3> QED
      BY <3>1, CallIdle, CallMoves
<1>7. ASSUME NEW p \in Caller, A!Die(p) PROVE EntriesInv'
  <2>1. /\ UNCHANGED <<installed, allowed, data, wanted, edits, runs>>
        /\ caller' = [caller EXCEPT ![p] = A!Idle]
    BY <1>7 DEF A!Die, A!fixed
  <2>2. CASE caller[p].pc # "write"
    <3>1. UNCHANGED <<editorFile, lost>>
      BY <2>2, <1>7 DEF A!Die
    <3>2. Turns(p, A!Idle) /\ Counted'
      BY <2>1, <3>1, <1>0 DEF Turns, Counted, AgentsTypes
    <3> QED
      BY <3>2, CallIdle, CallMoves
  <2>3. CASE caller[p].pc = "write"
    <3> DEFINE f == caller[p].at
               text == [text |-> "odd", ours |-> FALSE, others |-> {}]
    <3>1. editorFile' = [editorFile EXCEPT ![f] = text] /\ lost' = lost \cup {f}
      BY <2>3, <1>7 DEF A!Die
    <3>2. f \in A!File /\ text \in A!Contents
      BY <2>3, <1>0 DEF EntriesInv, Call, A!Contents
    <3>3. text.text = "odd"
      OBVIOUS
    <3> HIDE DEF f, text
    <3>4. AgentsTypes'
      BY <2>1, <3>1, <3>2, <1>0, CallIdle DEF AgentsTypes
    <3>5. \A q \in Caller : caller'[q] = IF q = p THEN A!Idle ELSE caller[q]
      BY <2>1, <1>0 DEF AgentsTypes
    <3>6. \A g \in A!File : editorFile'[g] = IF g = f THEN text ELSE editorFile[g]
      BY <3>1, <1>0 DEF AgentsTypes
    <3>7. (\A q \in Caller :
            /\ caller[q].pc = "write" <=> caller[q].at # None
            /\ caller[q].pc = "write" /\ caller[q].at \notin lost =>
                  caller[q].read.others = wanted[caller[q].at])'
      BY <2>1, <3>1, <3>5, CallIdle DEF EntriesInv
    <3>8. (\A g \in A!File : editorFile[g].text = "none" => editorFile[g].others = {})'
      BY <3>6, <3>3 DEF EntriesInv
    <3>9. EntriesKept'
      BY <2>1, <3>1, <3>6 DEF EntriesInv, EntriesKept, A!EntriesKept
    <3> QED
      BY <3>4, <3>7, <3>8, <3>9 DEF EntriesInv
  <2> QED
    BY <2>2, <2>3
<1>8. ASSUME NEW f \in A!File, A!Edit(f) PROVE EntriesInv'
  <2>1. PICK others \in SUBSET Other :
          /\ editorFile' = [editorFile EXCEPT ![f].text = "json", ![f].others = others]
          /\ wanted' = [wanted EXCEPT ![f] = others]
    BY <1>8 DEF A!Edit
  <2>2. /\ edits < MaxEdits /\ edits' = edits + 1
        /\ lost' = IF \E p \in Caller : caller[p].at = f THEN lost \cup {f} ELSE lost
        /\ UNCHANGED <<installed, allowed, caller, data, runs>>
    BY <1>8 DEF A!Edit, A!fixed
  <2>3. /\ editorFile' \in [A!File -> A!Contents]
        /\ editorFile'[f].text = "json" /\ editorFile'[f].others = others
        /\ \A g \in A!File \ {f} : editorFile'[g] = editorFile[g]
    BY <2>1, <1>0 DEF AgentsTypes, A!Contents
  <2>4. wanted'[f] = others /\ \A g \in A!File \ {f} : wanted'[g] = wanted[g]
    BY <2>1, <1>0 DEF AgentsTypes
  <2>5. AgentsTypes'
    BY <2>1, <2>2, <2>3, <1>0 DEF AgentsTypes
  <2>6. ASSUME NEW q \in Caller, caller'[q].pc = "write", caller'[q].at \notin lost'
        PROVE  caller'[q].read.others = wanted'[caller'[q].at]
    <3>1. caller[q].at # f /\ caller[q].at \notin lost /\ caller[q].pc = "write"
      BY <2>2, <2>6
    <3>2. caller[q].at \in A!File
      BY <3>1, <1>0 DEF EntriesInv, Call
    <3> QED
      BY <3>1, <3>2, <2>2, <2>4 DEF EntriesInv
  <2>7. (\A q \in Caller : caller[q].pc = "write" <=> caller[q].at # None)'
    BY <2>2 DEF EntriesInv
  <2>8. (\A g \in A!File : editorFile[g].text = "none" => editorFile[g].others = {})'
    BY <2>3 DEF EntriesInv
  <2>9. EntriesKept'
    BY <2>2, <2>3, <2>4 DEF EntriesInv, EntriesKept, A!EntriesKept
  <2> QED
    BY <2>5, <2>6, <2>7, <2>8, <2>9 DEF EntriesInv
<1> QED
  BY <1>1, <1>2, <1>3, <1>4, <1>5, <1>6, <1>7, <1>8 DEF A!Next

(***************************************************************************)
(* Projects and named bases.                                               *)
(***************************************************************************)

ProjectPc == {"open", "mkdir", "putKey", "add", "prompt", "rm", "rmEnabled",
              "dropKey", "remove"}
BasePc == {"kbDir", "kbKey", "kbConfig", "kbRm"}

ErrandPc == {"idle", "list"} \cup ProjectPc \cup BasePc

Errand == [pc : ErrandPc,
           name : Name \cup Base \cup {None}, config : SUBSET Name,
           todo : SUBSET Name, alone : BOOLEAN]

BasesTypes ==
  /\ listed \subseteq Name /\ key \subseteq Name
  /\ dir \in [Name -> B!Place]
  /\ sources \in [Db -> SUBSET (1..MaxSources)]
  /\ order \in [Caller -> Errand]
  /\ base \in [Base -> SUBSET {"dir", "keys", "key", "config"}]
  /\ server \in [Name -> {None} \cup Db]
  /\ databases \in 0..Cardinality(Db)
  /\ told \in [Name -> SUBSET (1..MaxSources)]
  /\ gap \subseteq Name \cup Base /\ cut \subseteq Name
  /\ ingested \in 0..MaxSources /\ orders \in 0..MaxOfOne

(* What a command is about.                                                *)
About(c) ==
  /\ c.pc \in ProjectPc => c.name \in Name
  /\ c.pc \in BasePc => c.name \in Base
  /\ c.pc \in {"idle", "list"} => c.name = None

(* Commands that have made or removed a directory and not yet saved.       *)
Begun(c) == c.pc \in {"putKey", "add", "dropKey", "remove"}

(* A command that is alone with its name leaves, and finds, what it made.  *)
Undisturbed(c) ==
  c.alone =>
    /\ c.pc \in {"putKey", "add"} => dir[c.name] # None
    /\ c.pc = "add" /\ dir[c.name] = 0 => c.name \in key
    /\ c.pc \in {"dropKey", "remove"} => dir[c.name] = None

Agrees(n) ==
  /\ n \in listed <=> dir[n] # None
  /\ dir[n] = 0 => n \in key

AboutInv == \A p \in Caller : About(order[p])

StepsInv == \A p \in Caller : Undisturbed(order[p])

AloneInv == \A p, q \in Caller :
  order[p].name # None /\ order[p].alone /\ order[q].name = order[p].name => q = p

(* A base is given its config after its key.                               *)
BaseInv ==
  /\ \A p \in Caller : order[p].pc = "kbConfig" =>
        "key" \in base[order[p].name] \/ order[p].name \in gap
  /\ \A b \in Base \ gap : "config" \in base[b] => "key" \in base[b]

(* A project that no command has begun to change fits.                     *)
FitInv == \A n \in Name \ gap :
  (\A p \in Caller : order[p].name = n => ~Begun(order[p])) => Agrees(n)

(* A server has the database of its project open unless it was deleted     *)
(* under it.                                                               *)
ToldInv == \A n \in Name \ cut :
  /\ server[n] # None => dir[n] = server[n]
  /\ told[n] \subseteq (IF dir[n] \in Db THEN sources[dir[n]] ELSE {})

BasesInv ==
  BasesTypes /\ AboutInv /\ StepsInv /\ AloneInv /\ BaseInv /\ FitInv /\ ToldInv

LEMMA Numbers ==
  /\ None \notin Name /\ None \notin Base /\ Name \cap Base = {}
  /\ None \notin Db /\ 0 \notin Db /\ None # 0
  /\ Cardinality(Db) \in Nat /\ Db = 1..Cardinality(Db)
  /\ MaxSources \in Nat /\ MaxOfOne \in Nat
<1>1. Cardinality(Db) \in Nat
  BY HomeAssumption, FS_CardinalityType
<1>2. None \notin Name /\ None \notin Base /\ Name \cap Base = {} /\ None \notin Nat
  BY HomeAssumption
<1>3. Db = 1..Cardinality(Db) /\ MaxSources \in Nat /\ MaxOfOne \in Nat
  BY HomeAssumption
<1> QED
  BY <1>1, <1>2, <1>3

LEMMA ErrandIdle ==
  B!Idle \in Errand /\ B!Idle.pc = "idle" /\ B!Idle.name = None /\ B!Idle.todo = {}
BY DEF B!Idle, Errand, ErrandPc

LEMMA ErrandGoes ==
  ASSUME NEW r \in Errand, NEW pc \in ErrandPc, NEW c, c = [r EXCEPT !.pc = pc]
  PROVE  /\ c \in Errand /\ c.pc = pc /\ c.name = r.name /\ c.config = r.config
         /\ c.todo = r.todo /\ c.alone = r.alone
BY DEF Errand

LEMMA ErrandDisturbed ==
  ASSUME NEW r \in Errand, NEW c, c = [r EXCEPT !.alone = FALSE]
  PROVE  /\ c \in Errand /\ c.pc = r.pc /\ c.name = r.name /\ c.config = r.config
         /\ c.todo = r.todo /\ c.alone = FALSE
BY DEF Errand

(* One command goes on, or ends, and the others stay as they are.          *)
Others(p) == order' \in [Caller -> Errand] /\ \A q \in Caller \ {p} : order'[q] = order[q]

Same(c, d) == c.name = d.name /\ c.config = d.config /\ c.alone = d.alone

LEMMA Going ==
  ASSUME BasesTypes, NEW p \in Caller, NEW pc \in ErrandPc, B!Goto(p, pc)
  PROVE  Others(p) /\ order'[p].pc = pc /\ order'[p].name = order[p].name
         /\ order'[p].config = order[p].config /\ order'[p].alone = order[p].alone
<1> DEFINE c == [order[p] EXCEPT !.pc = pc]
<1>1. order \in [Caller -> Errand] /\ order[p] \in Errand
  BY DEF BasesTypes
<1>2. c \in Errand /\ c.pc = pc /\ c.name = order[p].name /\ c.config = order[p].config
      /\ c.alone = order[p].alone
  BY <1>1, ErrandGoes
<1>3. order' = [order EXCEPT ![p] = c]
  BY DEF B!Goto
<1> HIDE DEF c
<1> QED
  BY <1>1, <1>2, <1>3 DEF Others

LEMMA Ending ==
  ASSUME BasesTypes, NEW p \in Caller, B!End(p)
  PROVE  Others(p) /\ order'[p].pc = "idle" /\ order'[p].name = None
BY ErrandIdle DEF BasesTypes, B!End, Others

(* What becomes of the directory whose database is opened.                 *)
Opened(n) ==
  /\ dir' \in [Name -> B!Place] /\ databases' \in 0..Cardinality(Db)
  /\ dir'[n] \in Db /\ (dir[n] \in Db => dir'[n] = dir[n])
  /\ \A m \in Name \ {n} : dir'[m] = dir[m]

LEMMA Opening ==
  ASSUME BasesTypes, NEW n \in Name, B!OpenDb(n) PROVE Opened(n)
BY Numbers DEF BasesTypes, B!OpenDb, Opened, B!Place

(* Opening a database leaves what its servers were told as it is.          *)
LEMMA OpenedTold ==
  ASSUME BasesTypes, ToldInv, NEW n \in Name, Opened(n), UNCHANGED <<sources, server, told, cut>>
  PROVE  ToldInv'
BY Numbers DEF ToldInv, Opened, BasesTypes

LEMMA StaysAlone ==
  ASSUME AloneInv,
         \A q \in Caller : order'[q].name # None =>
           order'[q].name = order[q].name /\ (order'[q].alone => order[q].alone)
  PROVE  AloneInv'
BY DEF AloneInv

LEMMA BasesStart == B!Init => BasesInv
<1> SUFFICES ASSUME B!Init PROVE BasesInv
  OBVIOUS
<1>1. BasesTypes
  BY ErrandIdle, Numbers DEF B!Init, BasesTypes, B!Place
<1>2. \A p \in Caller : order[p].pc = "idle" /\ order[p].name = None
  BY ErrandIdle DEF B!Init
<1>3. AboutInv /\ StepsInv /\ AloneInv
  BY <1>2 DEF AboutInv, About, StepsInv, Undisturbed, AloneInv, ProjectPc, BasePc
<1>4. BaseInv /\ FitInv /\ ToldInv
  BY <1>2, Numbers DEF B!Init, BaseInv, FitInv, Agrees, ToldInv
<1> QED
  BY <1>1, <1>3, <1>4 DEF BasesInv

(* A command starts: whoever else is at the name is not alone any more.    *)
LEMMA StartKeeps ==
  ASSUME BasesInv, NEW p \in Caller, NEW n \in Name \cup Base, NEW pc \in ErrandPc,
         n \in Name => pc \in {"open", "mkdir", "prompt", "rmEnabled"},
         n \in Base => pc \in {"kbDir", "kbRm"}, B!Start(p, n, pc)
  PROVE  BasesInv'
<1> DEFINE c == [B!Idle EXCEPT !.pc = pc, !.name = n, !.config = listed,
                                !.alone = B!Busy(n) = {}]
<1>1. /\ order[p].pc = "idle" /\ orders < MaxOfOne /\ orders' = orders + 1
      /\ order' = [q \in Caller |->
           IF q = p THEN c
           ELSE IF q \in B!Busy(n) THEN [order[q] EXCEPT !.alone = FALSE] ELSE order[q]]
      /\ UNCHANGED <<listed, dir, key, sources, base, databases, server, told, gap, cut, ingested>>
  BY DEF B!Start, B!disk, B!ghosts
<1>2. /\ c \in Errand /\ c.pc = pc /\ c.name = n /\ c.config = listed /\ c.todo = {}
      /\ c.alone <=> B!Busy(n) = {}
  BY DEF BasesInv, BasesTypes, B!Idle, Errand, ErrandPc
<1>3. ASSUME NEW q \in Caller, q # p
      PROVE  /\ order'[q] \in Errand /\ order'[q].pc = order[q].pc /\ order'[q].name = order[q].name
             /\ order'[q].alone => order[q].alone /\ q \notin B!Busy(n)
  <2>1. order[q] \in Errand
    BY DEF BasesInv, BasesTypes
  <2>2. CASE q \in B!Busy(n)
    BY <1>1, <1>3, <2>1, <2>2, ErrandDisturbed
  <2>3. CASE q \notin B!Busy(n)
    BY <1>1, <1>3, <2>1, <2>3
  <2> QED
    BY <2>2, <2>3
<1> HIDE DEF c
<1>4. order' \in [Caller -> Errand] /\ order'[p] = c
  <2>1. DOMAIN order' = Caller /\ order'[p] = c
    BY <1>1
  <2>2. \A q \in Caller : order'[q] \in Errand
    BY <1>2, <1>3, <2>1
  <2> QED
    BY <1>1, <2>1, <2>2
<1>5. BasesTypes'
  BY <1>1, <1>4, Numbers DEF BasesInv, BasesTypes
<1>6. AboutInv'
  BY <1>2, <1>3, <1>4, Numbers DEF BasesInv, AboutInv, About, ProjectPc, BasePc
<1>7. StepsInv'
  BY <1>1, <1>2, <1>3, <1>4 DEF BasesInv, StepsInv, Undisturbed
<1>8. AloneInv'
  <2> SUFFICES ASSUME NEW q \in Caller, NEW r \in Caller, order'[q].name # None,
                      order'[q].alone, order'[r].name = order'[q].name
               PROVE  r = q
    BY DEF AloneInv
  <2>1. CASE q = p /\ r # p
    <3>1. order[r].name = n /\ r \notin B!Busy(n)
      BY <2>1, <1>2, <1>3, <1>4
    <3>2. order[r].pc = "idle"
      BY <3>1 DEF B!Busy
    <3> QED
      BY <3>1, <3>2, Numbers DEF BasesInv, AboutInv, About
  <2>2. CASE q # p /\ r = p
    <3>1. order[q].name = n /\ q \notin B!Busy(n)
      BY <2>2, <1>2, <1>3, <1>4
    <3>2. order[q].pc = "idle"
      BY <3>1 DEF B!Busy
    <3> QED
      BY <3>1, <3>2, Numbers DEF BasesInv, AboutInv, About
  <2>3. CASE q # p /\ r # p
    BY <2>3, <1>3 DEF BasesInv, AloneInv
  <2> QED
    BY <2>1, <2>2, <2>3
<1>9. BaseInv'
  BY <1>1, <1>2, <1>3, <1>4 DEF BasesInv, BaseInv
<1>10. FitInv'
  <2>1. \A q \in Caller : Begun(order[q]) => q # p /\ Begun(order'[q])
    BY <1>1, <1>3 DEF Begun
  <2>2. \A q \in Caller : q # p => order'[q].name = order[q].name
    BY <1>3
  <2> QED
    BY <1>1, <2>1, <2>2 DEF BasesInv, FitInv, Agrees
<1>11. ToldInv'
  BY <1>1 DEF BasesInv, ToldInv
<1> QED
  BY <1>5, <1>6, <1>7, <1>8, <1>9, <1>10, <1>11 DEF BasesInv

LEMMA CreateKeeps == ASSUME BasesInv, NEW p \in Caller, B!Create(p) PROVE BasesInv'
<1> DEFINE n == order[p].name
<1>1. /\ order[p].pc = "open" /\ B!OpenDb(n) /\ B!Goto(p, "add")
      /\ UNCHANGED <<listed, key, sources, base, server, told, gap, cut, ingested, orders>>
  BY DEF B!Create, B!ghosts, B!counts
<1>2. n \in Name
  BY <1>1 DEF BasesInv, AboutInv, About, ProjectPc
<1>3. Opened(n)
  BY <1>1, <1>2, Opening DEF BasesInv
<1>4. /\ Others(p) /\ order'[p].pc = "add" /\ order'[p].name = n
      /\ order'[p].config = order[p].config /\ order'[p].alone = order[p].alone
  BY <1>1, Going DEF BasesInv, ErrandPc, ProjectPc
<1>5. BasesTypes'
  BY <1>1, <1>3, <1>4 DEF BasesInv, BasesTypes, Opened, Others
<1>6. AboutInv'
  BY <1>2, <1>4 DEF BasesInv, AboutInv, About, Others, ProjectPc, BasePc
<1>7. StepsInv'
  <2> SUFFICES ASSUME NEW q \in Caller PROVE Undisturbed(order[q])'
    BY DEF StepsInv
  <2>1. CASE q = p
    BY <2>1, <1>2, <1>3, <1>4, Numbers DEF Undisturbed, Opened
  <2>2. CASE q # p
    <3>1. order'[q] = order[q] /\ (order[q].alone /\ order[q].name # None => order[q].name # n)
      BY <2>2, <1>2, <1>4, Numbers DEF Others, BasesInv, AloneInv
    <3> QED
      BY <3>1, <1>1, <1>3, Numbers DEF Undisturbed, Opened, BasesInv, StepsInv, AboutInv, About, ProjectPc
  <2> QED
    BY <2>1, <2>2
<1>8. AloneInv'
  BY <1>4, StaysAlone DEF BasesInv, Others
<1>9. BaseInv'
  BY <1>1, <1>4 DEF BasesInv, BaseInv, Others
<1>10. FitInv'
  <2> SUFFICES ASSUME NEW m \in Name \ gap,
                      \A q \in Caller : order'[q].name = m => ~Begun(order'[q])
               PROVE  Agrees(m)'
    BY <1>1 DEF FitInv
  <2>1. m # n
    BY <1>4 DEF Begun
  <2>2. \A q \in Caller : order[q].name = m => ~Begun(order[q])
    BY <1>1, <1>4, <2>1 DEF Others
  <2> QED
    BY <1>1, <1>3, <2>1, <2>2 DEF BasesInv, FitInv, Agrees, Opened
<1>11. ToldInv'
  BY <1>1, <1>2, <1>3, OpenedTold DEF BasesInv
<1> QED
  BY <1>5, <1>6, <1>7, <1>8, <1>9, <1>10, <1>11 DEF BasesInv

LEMMA MakeDirKeeps == ASSUME BasesInv, NEW p \in Caller, B!MakeDir(p) PROVE BasesInv'
<1> DEFINE n == order[p].name
<1>1. /\ order[p].pc = "mkdir" /\ B!Goto(p, "putKey")
      /\ dir' = [dir EXCEPT ![n] = IF @ = None THEN 0 ELSE @]
      /\ UNCHANGED <<listed, key, sources, base, databases, server, told, gap, cut, ingested, orders>>
  BY DEF B!MakeDir, B!ghosts, B!counts
<1>2. n \in Name
  BY <1>1 DEF BasesInv, AboutInv, About, ProjectPc
<1>3. /\ dir' \in [Name -> B!Place] /\ dir'[n] = IF dir[n] = None THEN 0 ELSE dir[n]
      /\ \A m \in Name \ {n} : dir'[m] = dir[m]
  BY <1>1, <1>2 DEF BasesInv, BasesTypes, B!Place
<1>4. /\ Others(p) /\ order'[p].pc = "putKey" /\ order'[p].name = n
      /\ order'[p].config = order[p].config /\ order'[p].alone = order[p].alone
  BY <1>1, Going DEF BasesInv, ErrandPc, ProjectPc
<1>5. BasesTypes'
  BY <1>1, <1>3, <1>4 DEF BasesInv, BasesTypes, Others
<1>6. AboutInv'
  BY <1>2, <1>4 DEF BasesInv, AboutInv, About, Others, ProjectPc, BasePc
<1>7. StepsInv'
  <2> SUFFICES ASSUME NEW q \in Caller PROVE Undisturbed(order[q])'
    BY DEF StepsInv
  <2>1. CASE q = p
    BY <2>1, <1>2, <1>3, <1>4, Numbers DEF Undisturbed
  <2>2. CASE q # p
    <3>1. order'[q] = order[q] /\ (order[q].alone /\ order[q].name # None => order[q].name # n)
      BY <2>2, <1>2, <1>4, Numbers DEF Others, BasesInv, AloneInv
    <3> QED
      BY <3>1, <1>1, <1>3, Numbers DEF Undisturbed, BasesInv, StepsInv, AboutInv, About, ProjectPc
  <2> QED
    BY <2>1, <2>2
<1>8. AloneInv'
  BY <1>4, StaysAlone DEF BasesInv, Others
<1>9. BaseInv'
  BY <1>1, <1>4 DEF BasesInv, BaseInv, Others
<1>10. FitInv'
  <2> SUFFICES ASSUME NEW m \in Name \ gap,
                      \A q \in Caller : order'[q].name = m => ~Begun(order'[q])
               PROVE  Agrees(m)'
    BY <1>1 DEF FitInv
  <2>1. m # n
    BY <1>4 DEF Begun
  <2>2. \A q \in Caller : order[q].name = m => ~Begun(order[q])
    BY <1>1, <1>4, <2>1 DEF Others
  <2> QED
    BY <1>1, <1>3, <2>1, <2>2 DEF BasesInv, FitInv, Agrees
<1>11. ToldInv'
  BY <1>1, <1>3, Numbers DEF BasesInv, BasesTypes, ToldInv
<1> QED
  BY <1>5, <1>6, <1>7, <1>8, <1>9, <1>10, <1>11 DEF BasesInv

LEMMA PutKeyKeeps == ASSUME BasesInv, NEW p \in Caller, B!PutKey(p) PROVE BasesInv'
<1> DEFINE n == order[p].name
<1>1. /\ order[p].pc = "putKey"
      /\ UNCHANGED <<listed, dir, sources, base, databases, server, told, cut, ingested, orders>>
      /\ \/ key' = key \cup {n} /\ B!Goto(p, "add") /\ gap' = gap
         \/ B!End(p) /\ gap' = gap \cup {n} /\ key' = key
  BY DEF B!PutKey, B!counts
<1>2. n \in Name
  BY <1>1 DEF BasesInv, AboutInv, About, ProjectPc
<1>3. /\ Others(p)
      /\ \/ /\ key' = key \cup {n} /\ gap' = gap
            /\ order'[p].pc = "add" /\ order'[p].name = n /\ order'[p].alone = order[p].alone
         \/ /\ gap' = gap \cup {n} /\ key' = key
            /\ order'[p].pc = "idle" /\ order'[p].name = None
  <2>1. CASE B!Goto(p, "add")
    BY <1>1, <2>1, Going, Ending DEF BasesInv, ErrandPc, ProjectPc
  <2>2. CASE B!End(p)
    BY <1>1, <2>2, Going, Ending DEF BasesInv, ErrandPc, ProjectPc
  <2> QED
    BY <1>1, <2>1, <2>2
<1>5. BasesTypes'
  BY <1>1, <1>2, <1>3 DEF BasesInv, BasesTypes, Others
<1>6. AboutInv'
  BY <1>2, <1>3 DEF BasesInv, AboutInv, About, Others, ProjectPc, BasePc
<1>7. StepsInv'
  <2> SUFFICES ASSUME NEW q \in Caller PROVE Undisturbed(order[q])'
    BY DEF StepsInv
  <2>1. CASE q = p
    BY <2>1, <1>1, <1>2, <1>3 DEF Undisturbed, BasesInv, StepsInv
  <2>2. CASE q # p
    BY <2>2, <1>1, <1>3 DEF Undisturbed, BasesInv, StepsInv, Others
  <2> QED
    BY <2>1, <2>2
<1>8. AloneInv'
  BY <1>3, StaysAlone DEF BasesInv, Others
<1>9. BaseInv'
  BY <1>1, <1>2, <1>3, Numbers DEF BasesInv, BaseInv, Others
<1>10. FitInv'
  <2> SUFFICES ASSUME NEW m \in Name \ gap',
                      \A q \in Caller : order'[q].name = m => ~Begun(order'[q])
               PROVE  Agrees(m)'
    BY <1>1 DEF FitInv
  <2>1. m # n
    BY <1>3 DEF Begun
  <2>2. \A q \in Caller : order[q].name = m => ~Begun(order[q])
    BY <1>1, <1>3, <2>1 DEF Others
  <2> QED
    BY <1>1, <1>3, <2>1, <2>2 DEF BasesInv, FitInv, Agrees
<1>11. ToldInv'
  BY <1>1 DEF BasesInv, ToldInv
<1> QED
  BY <1>5, <1>6, <1>7, <1>8, <1>9, <1>10, <1>11 DEF BasesInv

(* A command saves the config it read, with its change: alone with its     *)
(* name it leaves the project as the config says.                          *)
LEMMA SaveKeeps ==
  ASSUME BasesInv, NEW p \in Caller, NEW new \in SUBSET Name, B!Save(p, new),
         order[p].name \in Name,
         \A m \in Name \ {order[p].name} : m \in new <=> m \in order[p].config,
         order[p].alone => /\ order[p].name \in new <=> dir[order[p].name] # None
                           /\ dir[order[p].name] = 0 => order[p].name \in key,
         UNCHANGED <<dir, key, sources, base, databases, server, told, cut, ingested, orders>>
  PROVE  BasesInv'
<1> DEFINE n == order[p].name
           undone == (order[p].config \ listed) \cup (listed \ order[p].config)
<1>1. /\ listed' = new /\ B!End(p)
      /\ gap' = (gap \ {n}) \cup (undone \ {n}) \cup (IF order[p].alone THEN {} ELSE {n})
  BY DEF B!Save
<1>2. Others(p) /\ order'[p].pc = "idle" /\ order'[p].name = None
  BY <1>1, Ending DEF BasesInv
<1>3. order[p].config \subseteq Name /\ listed \subseteq Name
  BY DEF BasesInv, BasesTypes, Errand
<1>5. BasesTypes'
  BY <1>1, <1>2, <1>3 DEF BasesInv, BasesTypes, Others
<1>6. AboutInv'
  BY <1>2 DEF BasesInv, AboutInv, About, Others, ProjectPc, BasePc
<1>7. StepsInv'
  BY <1>2 DEF BasesInv, StepsInv, Undisturbed, Others
<1>8. AloneInv'
  BY <1>2, StaysAlone DEF BasesInv, Others
<1>9. BaseInv'
  <2>1. \A b \in Base : b \in gap' <=> b \in gap
    BY <1>1, <1>3, Numbers
  <2>2. \A q \in Caller : order'[q].pc = "kbConfig" => order[q] = order'[q] /\ order[q].name \in Base
    BY <1>2 DEF BasesInv, AboutInv, About, BasePc, Others
  <2> QED
    BY <2>1, <2>2 DEF BasesInv, BaseInv
<1>10. FitInv'
  <2> SUFFICES ASSUME NEW m \in Name \ gap',
                      \A q \in Caller : order'[q].name = m => ~Begun(order'[q])
               PROVE  Agrees(m)'
    BY DEF FitInv
  <2>1. CASE m = n
    BY <2>1, <1>1 DEF Agrees
  <2>2. CASE m # n
    <3>1. m \notin gap /\ (m \in listed' <=> m \in listed)
      BY <2>2, <1>1, <1>3
    <3>2. \A q \in Caller : order[q].name = m => ~Begun(order[q])
      BY <1>2, <2>2 DEF Others
    <3> QED
      BY <3>1, <3>2 DEF BasesInv, FitInv, Agrees
  <2> QED
    BY <2>1, <2>2
<1>11. ToldInv'
  BY DEF BasesInv, ToldInv
<1> QED
  BY <1>5, <1>6, <1>7, <1>8, <1>9, <1>10, <1>11 DEF BasesInv

LEMMA AddKeeps == ASSUME BasesInv, NEW p \in Caller, B!Add(p) PROVE BasesInv'
<1> DEFINE n == order[p].name
           new == order[p].config \cup {n}
<1>1. /\ order[p].pc = "add" /\ B!Save(p, new)
      /\ UNCHANGED <<dir, key, sources, base, databases, server, told, cut, ingested, orders>>
  BY DEF B!Add, B!counts
<1>2. n \in Name /\ new \in SUBSET Name
  BY <1>1 DEF BasesInv, AboutInv, About, ProjectPc, BasesTypes, Errand
<1>3. \A m \in Name \ {n} : m \in new <=> m \in order[p].config
  OBVIOUS
<1>4. order[p].alone => (n \in new <=> dir[n] # None) /\ (dir[n] = 0 => n \in key)
  BY <1>1 DEF BasesInv, StepsInv, Undisturbed
<1> HIDE DEF new
<1> QED
  BY <1>1, <1>2, <1>3, <1>4, SaveKeeps

LEMMA RemoveKeeps == ASSUME BasesInv, NEW p \in Caller, B!Remove(p) PROVE BasesInv'
<1> DEFINE n == order[p].name
           new == order[p].config \ {n}
<1>1. /\ order[p].pc = "remove" /\ B!Save(p, new)
      /\ UNCHANGED <<dir, key, sources, base, databases, server, told, cut, ingested, orders>>
  BY DEF B!Remove, B!counts
<1>2. n \in Name /\ new \in SUBSET Name
  BY <1>1 DEF BasesInv, AboutInv, About, ProjectPc, BasesTypes, Errand
<1>3. \A m \in Name \ {n} : m \in new <=> m \in order[p].config
  OBVIOUS
<1>4. order[p].alone => (n \in new <=> dir[n] # None) /\ (dir[n] = 0 => n \in key)
  BY <1>1, Numbers DEF BasesInv, StepsInv, Undisturbed
<1> HIDE DEF new
<1> QED
  BY <1>1, <1>2, <1>3, <1>4, SaveKeeps

LEMMA ConfirmKeeps == ASSUME BasesInv, NEW p \in Caller, B!Confirm(p) PROVE BasesInv'
<1>1. /\ order[p].pc = "prompt"
      /\ UNCHANGED <<listed, dir, key, sources, base, databases, server, told, gap, cut,
                     ingested, orders>>
      /\ B!Goto(p, "rm") \/ B!End(p)
  BY DEF B!Confirm, B!disk, B!ghosts, B!counts
<1>2. order[p].name \in Name
  BY <1>1 DEF BasesInv, AboutInv, About, ProjectPc
<1>3. /\ Others(p)
      /\ \/ order'[p].pc = "rm" /\ order'[p].name = order[p].name /\ order'[p].alone = order[p].alone
         \/ order'[p].pc = "idle" /\ order'[p].name = None
  <2>1. CASE B!Goto(p, "rm")
    BY <2>1, Going DEF BasesInv, ErrandPc, ProjectPc
  <2>2. CASE B!End(p)
    BY <2>2, Ending DEF BasesInv
  <2> QED
    BY <1>1, <2>1, <2>2
<1>5. BasesTypes'
  BY <1>1, <1>3 DEF BasesInv, BasesTypes, Others
<1>6. AboutInv'
  BY <1>2, <1>3 DEF BasesInv, AboutInv, About, Others, ProjectPc, BasePc
<1>7. StepsInv'
  BY <1>1, <1>3 DEF BasesInv, StepsInv, Undisturbed, Others
<1>8. AloneInv'
  BY <1>3, StaysAlone DEF BasesInv, Others
<1>9. BaseInv'
  BY <1>1, <1>3 DEF BasesInv, BaseInv, Others
<1>10. FitInv'
  <2>1. \A q \in Caller : Begun(order[q]) => order'[q] = order[q]
    BY <1>1, <1>3 DEF Begun, Others
  <2> QED
    BY <1>1, <2>1 DEF BasesInv, FitInv, Agrees
<1>11. ToldInv'
  BY <1>1 DEF BasesInv, ToldInv
<1> QED
  BY <1>5, <1>6, <1>7, <1>8, <1>9, <1>10, <1>11 DEF BasesInv

LEMMA RemoveDirKeeps == ASSUME BasesInv, NEW p \in Caller, B!RemoveDir(p) PROVE BasesInv'
<1> DEFINE n == order[p].name
           pc == IF order[p].pc = "rm" THEN "remove" ELSE "dropKey"
<1>1. /\ order[p].pc \in {"rm", "rmEnabled"} /\ B!Goto(p, pc)
      /\ dir' = [dir EXCEPT ![n] = None] /\ told' = [told EXCEPT ![n] = {}]
      /\ cut' = IF server[n] # None THEN cut \cup {n} ELSE cut
      /\ UNCHANGED <<listed, key, sources, base, databases, server, gap, ingested, orders>>
  BY DEF B!RemoveDir, B!counts
<1>2. n \in Name
  BY <1>1 DEF BasesInv, AboutInv, About, ProjectPc
<1>3. /\ dir' \in [Name -> B!Place] /\ dir'[n] = None /\ told'[n] = {}
      /\ told' \in [Name -> SUBSET (1..MaxSources)]
      /\ \A m \in Name \ {n} : dir'[m] = dir[m] /\ told'[m] = told[m]
  BY <1>1, <1>2 DEF BasesInv, BasesTypes, B!Place
<1>4. /\ Others(p) /\ order'[p].pc \in {"remove", "dropKey"} /\ order'[p].name = n
      /\ order'[p].config = order[p].config /\ order'[p].alone = order[p].alone
  BY <1>1, Going DEF BasesInv, ErrandPc, ProjectPc
<1>5. BasesTypes'
  BY <1>1, <1>2, <1>3, <1>4 DEF BasesInv, BasesTypes, Others
<1>6. AboutInv'
  BY <1>2, <1>4 DEF BasesInv, AboutInv, About, Others, ProjectPc, BasePc
<1>7. StepsInv'
  <2> SUFFICES ASSUME NEW q \in Caller PROVE Undisturbed(order[q])'
    BY DEF StepsInv
  <2>1. CASE q = p
    BY <2>1, <1>2, <1>3, <1>4, Numbers DEF Undisturbed
  <2>2. CASE q # p
    <3>1. order'[q] = order[q] /\ (order[q].alone /\ order[q].name # None => order[q].name # n)
      BY <2>2, <1>2, <1>4, Numbers DEF Others, BasesInv, AloneInv
    <3> QED
      BY <3>1, <1>1, <1>3, Numbers DEF Undisturbed, BasesInv, StepsInv, AboutInv, About, ProjectPc
  <2> QED
    BY <2>1, <2>2
<1>8. AloneInv'
  BY <1>4, StaysAlone DEF BasesInv, Others
<1>9. BaseInv'
  BY <1>1, <1>4 DEF BasesInv, BaseInv, Others
<1>10. FitInv'
  <2> SUFFICES ASSUME NEW m \in Name \ gap,
                      \A q \in Caller : order'[q].name = m => ~Begun(order'[q])
               PROVE  Agrees(m)'
    BY <1>1 DEF FitInv
  <2>1. m # n
    BY <1>4 DEF Begun
  <2>2. \A q \in Caller : order[q].name = m => ~Begun(order[q])
    BY <1>1, <1>4, <2>1 DEF Others
  <2> QED
    BY <1>1, <1>3, <2>1, <2>2 DEF BasesInv, FitInv, Agrees
<1>11. ToldInv'
  BY <1>1, <1>3, Numbers DEF BasesInv, BasesTypes, ToldInv
<1> QED
  BY <1>5, <1>6, <1>7, <1>8, <1>9, <1>10, <1>11 DEF BasesInv

LEMMA DropKeyKeeps == ASSUME BasesInv, NEW p \in Caller, B!DropKey(p) PROVE BasesInv'
<1> DEFINE n == order[p].name
<1>1. /\ order[p].pc = "dropKey" /\ B!Goto(p, "remove")
      /\ key' = key \ {n} \/ key' = key
      /\ UNCHANGED <<listed, dir, sources, base, databases, server, told, gap, cut, ingested, orders>>
  BY DEF B!DropKey, B!ghosts, B!counts
<1>2. n \in Name
  BY <1>1 DEF BasesInv, AboutInv, About, ProjectPc
<1>4. /\ Others(p) /\ order'[p].pc = "remove" /\ order'[p].name = n
      /\ order'[p].config = order[p].config /\ order'[p].alone = order[p].alone
  BY <1>1, Going DEF BasesInv, ErrandPc, ProjectPc
<1>5. BasesTypes'
  BY <1>1, <1>4 DEF BasesInv, BasesTypes, Others
<1>6. AboutInv'
  BY <1>2, <1>4 DEF BasesInv, AboutInv, About, Others, ProjectPc, BasePc
<1>7. StepsInv'
  <2> SUFFICES ASSUME NEW q \in Caller PROVE Undisturbed(order[q])'
    BY DEF StepsInv
  <2>1. CASE q = p
    BY <2>1, <1>1, <1>4 DEF Undisturbed, BasesInv, StepsInv
  <2>2. CASE q # p
    <3>1. order'[q] = order[q] /\ (order[q].alone /\ order[q].name # None => order[q].name # n)
      BY <2>2, <1>2, <1>4, Numbers DEF Others, BasesInv, AloneInv
    <3> QED
      BY <3>1, <1>1, Numbers DEF Undisturbed, BasesInv, StepsInv, AboutInv, About, ProjectPc
  <2> QED
    BY <2>1, <2>2
<1>8. AloneInv'
  BY <1>4, StaysAlone DEF BasesInv, Others
<1>9. BaseInv'
  BY <1>1, <1>4 DEF BasesInv, BaseInv, Others
<1>10. FitInv'
  <2> SUFFICES ASSUME NEW m \in Name \ gap,
                      \A q \in Caller : order'[q].name = m => ~Begun(order'[q])
               PROVE  Agrees(m)'
    BY <1>1 DEF FitInv
  <2>1. m # n
    BY <1>4 DEF Begun
  <2>2. \A q \in Caller : order[q].name = m => ~Begun(order[q])
    BY <1>1, <1>4, <2>1 DEF Others
  <2> QED
    BY <1>1, <2>1, <2>2 DEF BasesInv, FitInv, Agrees
<1>11. ToldInv'
  BY <1>1 DEF BasesInv, ToldInv
<1> QED
  BY <1>5, <1>6, <1>7, <1>8, <1>9, <1>10, <1>11 DEF BasesInv

LEMMA ListProjectsKeeps == ASSUME BasesInv, NEW p \in Caller, B!ListProjects(p) PROVE BasesInv'
<1> DEFINE c == [B!Idle EXCEPT !.pc = "list", !.todo = listed]
<1>1. /\ order[p].pc = "idle" /\ orders < MaxOfOne /\ orders' = orders + 1
      /\ order' = [order EXCEPT ![p] = c]
      /\ UNCHANGED <<listed, dir, key, sources, base, databases, server, told, gap, cut, ingested>>
  BY DEF B!ListProjects, B!disk, B!ghosts
<1>2. c \in Errand /\ c.pc = "list" /\ c.name = None
  BY DEF BasesInv, BasesTypes, B!Idle, Errand, ErrandPc
<1> HIDE DEF c
<1>4. Others(p) /\ order'[p].pc = "list" /\ order'[p].name = None
  BY <1>1, <1>2 DEF BasesInv, BasesTypes, Others
<1>5. BasesTypes'
  BY <1>1, <1>4, Numbers DEF BasesInv, BasesTypes, Others
<1>6. AboutInv'
  BY <1>4 DEF BasesInv, AboutInv, About, Others, ProjectPc, BasePc
<1>7. StepsInv'
  BY <1>1, <1>4 DEF BasesInv, StepsInv, Undisturbed, Others
<1>8. AloneInv'
  BY <1>4, StaysAlone DEF BasesInv, Others
<1>9. BaseInv'
  BY <1>1, <1>4 DEF BasesInv, BaseInv, Others
<1>10. FitInv'
  <2>1. \A q \in Caller : Begun(order[q]) => order'[q] = order[q]
    BY <1>1, <1>4 DEF Begun, Others
  <2> QED
    BY <1>1, <2>1 DEF BasesInv, FitInv, Agrees
<1>11. ToldInv'
  BY <1>1 DEF BasesInv, ToldInv
<1> QED
  BY <1>5, <1>6, <1>7, <1>8, <1>9, <1>10, <1>11 DEF BasesInv

(* Somebody opens the database of a project, whoever is at the name.       *)
LEMMA OpensKeeps ==
  ASSUME BasesInv, NEW n \in Name, Opened(n), order' \in [Caller -> Errand],
         \A q \in Caller : /\ order'[q].pc = order[q].pc /\ order'[q].name = order[q].name
                           /\ order'[q].alone => order[q].alone
                           /\ order'[q].alone /\ dir[n] = None => order[q].name # n \/ order[q].pc = "idle",
         gap' = IF dir[n] = None /\ n \notin listed THEN gap \cup {n} ELSE gap,
         UNCHANGED <<listed, key, sources, base, told, cut, ingested, orders>>,
         server' \in [Name -> {None} \cup Db],
         server' = server \/ (server' = [server EXCEPT ![n] = dir'[n]] /\ server[n] = None)
  PROVE  BasesInv'
<1>5. BasesTypes'
  BY DEF BasesInv, BasesTypes, Opened
<1>6. AboutInv'
  BY DEF BasesInv, AboutInv, About
<1>7. StepsInv'
  <2> SUFFICES ASSUME NEW q \in Caller, order'[q].alone PROVE Undisturbed(order[q])'
    BY DEF StepsInv, Undisturbed
  <2>1. Undisturbed(order[q]) /\ order[q].alone
    BY DEF BasesInv, StepsInv
  <2>2. order[q].pc \in ProjectPc => order[q].name \in Name
    BY DEF BasesInv, AboutInv, About
  <2>3. CASE order[q].name # n
    BY <2>1, <2>2, <2>3 DEF Undisturbed, Opened, ProjectPc
  <2>4. CASE order[q].name = n
    BY <2>1, <2>4, Numbers DEF Undisturbed, Opened
  <2> QED
    BY <2>3, <2>4
<1>8. AloneInv'
  BY StaysAlone DEF BasesInv
<1>9. BaseInv'
  BY Numbers DEF BasesInv, BaseInv
<1>10. FitInv'
  <2> SUFFICES ASSUME NEW m \in Name \ gap',
                      \A q \in Caller : order'[q].name = m => ~Begun(order'[q])
               PROVE  Agrees(m)'
    BY DEF FitInv
  <2>1. \A q \in Caller : order[q].name = m => ~Begun(order[q])
    BY DEF Begun
  <2>2. Agrees(m)
    BY <2>1 DEF BasesInv, FitInv
  <2> QED
    BY <2>2, Numbers DEF Agrees, Opened
<1>11. ToldInv'
  <2> SUFFICES ASSUME NEW m \in Name \ cut
               PROVE  /\ server'[m] # None => dir'[m] = server'[m]
                      /\ told[m] \subseteq (IF dir'[m] \in Db THEN sources[dir'[m]] ELSE {})
    BY DEF ToldInv
  <2>1. /\ server[m] # None => dir[m] = server[m]
        /\ told[m] \subseteq (IF dir[m] \in Db THEN sources[dir[m]] ELSE {})
    BY DEF BasesInv, ToldInv
  <2>2. server[m] # None => server[m] \in Db
    BY DEF BasesInv, BasesTypes
  <2>3. server'[m] = server[m] \/ (m = n /\ server'[m] = dir'[m])
    BY DEF BasesInv, BasesTypes
  <2>4. dir[m] \in Db => dir'[m] = dir[m]
    BY DEF Opened
  <2> QED
    BY <2>1, <2>2, <2>3, <2>4
<1> QED
  BY <1>5, <1>6, <1>7, <1>8, <1>9, <1>10, <1>11 DEF BasesInv

LEMMA StartServerKeeps == ASSUME BasesInv, NEW n \in Name, B!StartServer(n) PROVE BasesInv'
<1>1. /\ server[n] = None /\ B!OpenDb(n) /\ server' = [server EXCEPT ![n] = dir'[n]]
      /\ order' = [q \in Caller |-> IF dir[n] = None /\ q \in B!Busy(n)
                                    THEN [order[q] EXCEPT !.alone = FALSE] ELSE order[q]]
      /\ gap' = IF dir[n] = None /\ n \notin listed THEN gap \cup {n} ELSE gap
      /\ UNCHANGED <<listed, key, sources, base, told, cut, ingested, orders>>
  BY DEF B!StartServer, B!Disturbed, B!Disturbs, B!counts
<1>2. Opened(n)
  BY <1>1, Opening DEF BasesInv
<1>3. server' \in [Name -> {None} \cup Db]
  BY <1>1, <1>2 DEF BasesInv, BasesTypes, Opened
<1>4. ASSUME NEW q \in Caller
      PROVE  /\ order'[q] \in Errand
             /\ order'[q].pc = order[q].pc /\ order'[q].name = order[q].name
             /\ order'[q].alone => order[q].alone
             /\ order'[q].alone /\ dir[n] = None => order[q].name # n \/ order[q].pc = "idle"
  <2>1. order[q] \in Errand
    BY DEF BasesInv, BasesTypes
  <2>2. CASE dir[n] = None /\ q \in B!Busy(n)
    BY <1>1, <2>1, <2>2, ErrandDisturbed
  <2>3. CASE ~(dir[n] = None /\ q \in B!Busy(n))
    BY <1>1, <2>1, <2>3 DEF B!Busy
  <2> QED
    BY <2>2, <2>3
<1>5. order' \in [Caller -> Errand]
  <2>1. order' = [q \in Caller |-> order'[q]]
    BY <1>1
  <2> QED
    BY <2>1, <1>4
<1> QED
  BY <1>1, <1>2, <1>3, <1>4, <1>5, OpensKeeps

LEMMA CountSourcesKeeps == ASSUME BasesInv, NEW p \in Caller, B!CountSources(p) PROVE BasesInv'
<1>1. /\ order[p].pc = "list" /\ order[p].name = None
      /\ UNCHANGED <<listed, key, sources, base, server, told, cut, ingested, orders>>
  BY DEF B!CountSources, B!counts, BasesInv, AboutInv, About
<1>2. CASE B!End(p) /\ UNCHANGED <<dir, databases, gap>>
  <2>4. Others(p) /\ order'[p].pc = "idle" /\ order'[p].name = None
    BY <1>2, Ending DEF BasesInv
  <2>5. BasesTypes'
    BY <1>1, <1>2, <2>4 DEF BasesInv, BasesTypes, Others
  <2>6. AboutInv'
    BY <2>4 DEF BasesInv, AboutInv, About, Others, ProjectPc, BasePc
  <2>7. StepsInv'
    BY <1>1, <1>2, <2>4 DEF BasesInv, StepsInv, Undisturbed, Others
  <2>8. AloneInv'
    BY <2>4, StaysAlone DEF BasesInv, Others
  <2>9. BaseInv'
    BY <1>1, <1>2, <2>4 DEF BasesInv, BaseInv, Others
  <2>10. FitInv'
    <3>1. \A q \in Caller : Begun(order[q]) => order'[q] = order[q]
      BY <1>1, <2>4 DEF Begun, Others
    <3> QED
      BY <1>1, <1>2, <3>1 DEF BasesInv, FitInv, Agrees
  <2>11. ToldInv'
    BY <1>1, <1>2 DEF BasesInv, ToldInv
  <2> QED
    BY <2>5, <2>6, <2>7, <2>8, <2>9, <2>10, <2>11 DEF BasesInv
<1>3. ASSUME NEW n \in order[p].todo, B!OpenDb(n),
             gap' = IF dir[n] = None /\ n \notin listed THEN gap \cup {n} ELSE gap,
             order' = [q \in Caller |->
                 IF q = p THEN [order[p] EXCEPT !.todo = @ \ {n}]
                 ELSE IF dir[n] = None /\ q \in B!Busy(n) THEN [order[q] EXCEPT !.alone = FALSE]
                 ELSE order[q]]
      PROVE  BasesInv'
  <2>0. n \in Name
    BY DEF BasesInv, BasesTypes, Errand
  <2>2. Opened(n)
    BY <1>3, <2>0, Opening DEF BasesInv
  <2>4. ASSUME NEW q \in Caller
        PROVE  /\ order'[q] \in Errand
               /\ order'[q].pc = order[q].pc /\ order'[q].name = order[q].name
               /\ order'[q].alone => order[q].alone
               /\ order'[q].alone /\ dir[n] = None => order[q].name # n \/ order[q].pc = "idle"
    <3>1. order[q] \in Errand
      BY DEF BasesInv, BasesTypes
    <3>2. CASE q = p
      <4>1. order'[q] = [order[p] EXCEPT !.todo = order[p].todo \ {n}]
        BY <3>2, <1>3
      <4> QED
        BY <3>1, <3>2, <4>1, <1>1, <2>0, Numbers DEF Errand
    <3>3. CASE q # p /\ dir[n] = None /\ q \in B!Busy(n)
      BY <1>3, <3>1, <3>3, ErrandDisturbed
    <3>4. CASE q # p /\ ~(dir[n] = None /\ q \in B!Busy(n))
      BY <1>3, <3>1, <3>4 DEF B!Busy
    <3> QED
      BY <3>2, <3>3, <3>4
  <2>5. order' \in [Caller -> Errand]
    <3>1. order' = [q \in Caller |-> order'[q]]
      BY <1>3
    <3> QED
      BY <3>1, <2>4
  <2>6. server' \in [Name -> {None} \cup Db] /\ server' = server
    BY <1>1 DEF BasesInv, BasesTypes
  <2> QED
    BY <1>1, <1>3, <2>0, <2>2, <2>4, <2>5, <2>6, OpensKeeps
<1> QED
  BY <1>2, <1>3 DEF B!CountSources, B!Disturbs

LEMMA MakeBaseKeeps == ASSUME BasesInv, NEW p \in Caller, B!MakeBase(p) PROVE BasesInv'
<1> DEFINE n == order[p].name
<1>1. /\ order[p].pc = "kbDir" /\ B!Goto(p, "kbKey")
      /\ base' = [base EXCEPT ![n] = @ \cup {"dir", "keys"}]
      /\ UNCHANGED <<listed, dir, key, sources, databases, server, told, gap, cut, ingested, orders>>
  BY DEF B!MakeBase, B!ghosts, B!counts
<1>2. n \in Base
  BY <1>1 DEF BasesInv, AboutInv, About, BasePc
<1>3. base' \in [Base -> SUBSET {"dir", "keys", "key", "config"}]
      /\ \A b \in Base : /\ "key" \in base'[b] <=> "key" \in base[b]
                         /\ "config" \in base'[b] <=> "config" \in base[b]
  BY <1>1, <1>2 DEF BasesInv, BasesTypes
<1>4. /\ Others(p) /\ order'[p].pc = "kbKey" /\ order'[p].name = n
      /\ order'[p].alone = order[p].alone
  BY <1>1, Going DEF BasesInv, ErrandPc, BasePc
<1>5. BasesTypes'
  BY <1>1, <1>3, <1>4 DEF BasesInv, BasesTypes, Others
<1>6. AboutInv'
  BY <1>2, <1>4 DEF BasesInv, AboutInv, About, Others, ProjectPc, BasePc
<1>7. StepsInv'
  BY <1>1, <1>4 DEF BasesInv, StepsInv, Undisturbed, Others
<1>8. AloneInv'
  BY <1>4, StaysAlone DEF BasesInv, Others
<1>9. BaseInv'
  BY <1>1, <1>3, <1>4 DEF BasesInv, BaseInv, Others, AboutInv, About, BasePc
<1>10. FitInv'
  <2>1. \A q \in Caller : Begun(order[q]) => order'[q] = order[q]
    BY <1>1, <1>4 DEF Begun, Others
  <2> QED
    BY <1>1, <2>1 DEF BasesInv, FitInv, Agrees
<1>11. ToldInv'
  BY <1>1 DEF BasesInv, ToldInv
<1> QED
  BY <1>5, <1>6, <1>7, <1>8, <1>9, <1>10, <1>11 DEF BasesInv

LEMMA WriteBaseKeeps == ASSUME BasesInv, NEW p \in Caller, B!WriteBase(p) PROVE BasesInv'
<1> DEFINE n == order[p].name
<1>1. /\ order[p].pc \in {"kbKey", "kbConfig"}
      /\ \/ /\ order[p].pc = "kbKey" /\ B!Goto(p, "kbConfig")
            /\ base' = [base EXCEPT ![n] = @ \cup {"key"}]
         \/ /\ order[p].pc = "kbConfig" /\ B!End(p)
            /\ base' = [base EXCEPT ![n] = @ \cup {"config"}]
         \/ B!End(p) /\ base' = base
      /\ UNCHANGED <<listed, dir, key, sources, databases, server, told, gap, cut, ingested, orders>>
  BY DEF B!WriteBase, B!ghosts, B!counts
<1>2. n \in Base
  BY <1>1 DEF BasesInv, AboutInv, About, BasePc
<1>3. /\ Others(p)
      /\ \/ /\ order'[p].pc = "kbConfig" /\ order'[p].name = n /\ order'[p].alone = order[p].alone
            /\ base' = [base EXCEPT ![n] = @ \cup {"key"}]
         \/ /\ order[p].pc = "kbConfig" /\ order'[p].pc = "idle" /\ order'[p].name = None
            /\ base' = [base EXCEPT ![n] = @ \cup {"config"}]
         \/ order'[p].pc = "idle" /\ order'[p].name = None /\ base' = base
  <2>1. CASE B!Goto(p, "kbConfig") /\ base' = [base EXCEPT ![n] = @ \cup {"key"}]
    BY <2>1, Going DEF BasesInv, ErrandPc, BasePc
  <2>2. CASE B!End(p)
    <3>1. Others(p) /\ order'[p].pc = "idle" /\ order'[p].name = None
      BY <2>2, Ending DEF BasesInv
    <3>2. CASE order[p].pc = "kbKey" /\ B!Goto(p, "kbConfig")
                /\ base' = [base EXCEPT ![n] = @ \cup {"key"}]
      BY <3>2, Going DEF BasesInv, ErrandPc, BasePc
    <3> QED
      BY <1>1, <3>1, <3>2
  <2> QED
    BY <1>1, <2>1, <2>2
<1>4. /\ base' \in [Base -> SUBSET {"dir", "keys", "key", "config"}]
      /\ \A b \in Base \ {n} : base'[b] = base[b]
  BY <1>2, <1>3 DEF BasesInv, BasesTypes
<1>5. BasesTypes'
  BY <1>1, <1>3, <1>4 DEF BasesInv, BasesTypes, Others
<1>6. AboutInv'
  BY <1>2, <1>3 DEF BasesInv, AboutInv, About, Others, ProjectPc, BasePc
<1>7. StepsInv'
  BY <1>1, <1>3 DEF BasesInv, StepsInv, Undisturbed, Others
<1>8. AloneInv'
  BY <1>3, StaysAlone DEF BasesInv, Others
<1>9. BaseInv'
  <2>1. base \in [Base -> SUBSET {"dir", "keys", "key", "config"}]
    BY DEF BasesInv, BasesTypes
  <2>2. \A q \in Caller : order[q].pc = "kbConfig" => order[q].name \in Base
    BY DEF BasesInv, AboutInv, About, BasePc
  <2>3. \A b \in Base : "key" \in base[b] => "key" \in base'[b]
    BY <1>2, <1>3, <2>1
  <2>4. \A q \in Caller : order'[q].pc = "kbConfig" =>
           "key" \in base'[order'[q].name] \/ order'[q].name \in gap
    BY <1>2, <1>3, <2>1, <2>2, <2>3 DEF BasesInv, BaseInv, Others
  <2>5. \A b \in Base \ gap : "config" \in base'[b] => "key" \in base'[b]
    BY <1>2, <1>3, <1>4, <2>1, <2>3 DEF BasesInv, BaseInv
  <2> QED
    BY <1>1, <2>4, <2>5 DEF BaseInv
<1>10. FitInv'
  <2>1. \A q \in Caller : Begun(order[q]) => order'[q] = order[q]
    BY <1>1, <1>3 DEF Begun, Others
  <2> QED
    BY <1>1, <2>1 DEF BasesInv, FitInv, Agrees
<1>11. ToldInv'
  BY <1>1 DEF BasesInv, ToldInv
<1> QED
  BY <1>5, <1>6, <1>7, <1>8, <1>9, <1>10, <1>11 DEF BasesInv

LEMMA RemoveBaseKeeps == ASSUME BasesInv, NEW p \in Caller, B!RemoveBase(p) PROVE BasesInv'
<1> DEFINE n == order[p].name
<1>1. /\ order[p].pc = "kbRm" /\ B!End(p) /\ base' = [base EXCEPT ![n] = {}]
      /\ gap' = IF order[p].alone THEN gap \ {n} ELSE gap \cup {n}
      /\ UNCHANGED <<listed, dir, key, sources, databases, server, told, cut, ingested, orders>>
  BY DEF B!RemoveBase, B!counts
<1>2. n \in Base /\ n \notin Name
  BY <1>1, Numbers DEF BasesInv, AboutInv, About, BasePc
<1>3. Others(p) /\ order'[p].pc = "idle" /\ order'[p].name = None
  BY <1>1, Ending DEF BasesInv
<1>4. /\ base' \in [Base -> SUBSET {"dir", "keys", "key", "config"}]
      /\ base'[n] = {} /\ \A b \in Base \ {n} : base'[b] = base[b]
  BY <1>1, <1>2 DEF BasesInv, BasesTypes
<1>5. BasesTypes'
  BY <1>1, <1>2, <1>3, <1>4 DEF BasesInv, BasesTypes, Others
<1>6. AboutInv'
  BY <1>3 DEF BasesInv, AboutInv, About, Others, ProjectPc, BasePc
<1>7. StepsInv'
  BY <1>1, <1>3 DEF BasesInv, StepsInv, Undisturbed, Others
<1>8. AloneInv'
  BY <1>3, StaysAlone DEF BasesInv, Others
<1>9. BaseInv'
  <2>1. ASSUME NEW q \in Caller, order'[q].pc = "kbConfig"
        PROVE  "key" \in base'[order'[q].name] \/ order'[q].name \in gap'
    <3>1. q # p /\ order'[q] = order[q] /\ order[q].pc = "kbConfig"
      BY <2>1, <1>3 DEF Others
    <3>2. order[q].name \in Base
      BY <3>1 DEF BasesInv, AboutInv, About, BasePc
    <3>3. "key" \in base[order[q].name] \/ order[q].name \in gap
      BY <3>1 DEF BasesInv, BaseInv
    <3>4. order[q].name = n => ~order[p].alone
      BY <3>1, <1>2, Numbers DEF BasesInv, AloneInv
    <3> QED
      BY <3>1, <3>2, <3>3, <3>4, <1>1, <1>4
  <2> QED
    BY <2>1, <1>1, <1>4 DEF BasesInv, BaseInv
<1>10. FitInv'
  <2>1. \A q \in Caller : Begun(order[q]) => order'[q] = order[q]
    BY <1>1, <1>3 DEF Begun, Others
  <2>2. \A m \in Name : m \in gap' <=> m \in gap
    BY <1>1, <1>2
  <2> QED
    BY <1>1, <2>1, <2>2 DEF BasesInv, FitInv, Agrees
<1>11. ToldInv'
  BY <1>1 DEF BasesInv, ToldInv
<1> QED
  BY <1>5, <1>6, <1>7, <1>8, <1>9, <1>10, <1>11 DEF BasesInv

LEMMA OpenNamedKeeps == ASSUME BasesInv, NEW b \in Base, B!OpenNamed(b) PROVE BasesInv'
<1>1. /\ base' = [base EXCEPT ![b] = @ \cup {"dir"}]
      /\ UNCHANGED <<listed, dir, key, sources, databases, order, server, told, gap, cut,
                     ingested, orders>>
  BY DEF B!OpenNamed, B!ghosts, B!counts
<1>2. base' \in [Base -> SUBSET {"dir", "keys", "key", "config"}]
      /\ \A c \in Base : /\ "key" \in base'[c] <=> "key" \in base[c]
                         /\ "config" \in base'[c] <=> "config" \in base[c]
  BY <1>1 DEF BasesInv, BasesTypes
<1>3. BasesTypes'
  BY <1>1, <1>2 DEF BasesInv, BasesTypes
<1>4. BaseInv'
  BY <1>1, <1>2 DEF BasesInv, BaseInv, AboutInv, About, BasePc
<1> QED
  BY <1>1, <1>3, <1>4 DEF BasesInv, AboutInv, About, StepsInv, Undisturbed, AloneInv, FitInv,
    Agrees, ToldInv

(* A command dies: its project, and a base it was about to remove, are at  *)
(* odds.                                                                   *)
LEMMA OrderDies == ASSUME BasesInv, NEW p \in Caller, B!Die(p) PROVE BasesInv'
<1> DEFINE n == order[p].name
<1>1. /\ order[p].pc # "idle" /\ B!End(p)
      /\ gap' = IF n \in Name \/ order[p].pc = "kbRm" THEN gap \cup {n} ELSE gap
      /\ UNCHANGED <<listed, dir, key, sources, databases, server, told, cut, ingested, orders>>
  BY DEF B!Die
<1>2. \/ base' = base
      \/ order[p].pc = "kbRm" /\ \E left \in SUBSET base[n] : base' = [base EXCEPT ![n] = left]
  BY DEF B!Die
<1>3. Others(p) /\ order'[p].pc = "idle" /\ order'[p].name = None
  BY <1>1, Ending DEF BasesInv
<1>4. n \in Name \/ order[p].pc = "kbRm" => n \in Name \cup Base
  BY DEF BasesInv, AboutInv, About, BasePc
<1>5. /\ base' \in [Base -> SUBSET {"dir", "keys", "key", "config"}]
      /\ \A b \in Base \ gap' : base'[b] = base[b]
  <2>1. CASE base' = base
    BY <2>1 DEF BasesInv, BasesTypes
  <2>2. CASE order[p].pc = "kbRm" /\ \E left \in SUBSET base[n] : base' = [base EXCEPT ![n] = left]
    <3>1. PICK left \in SUBSET base[n] : base' = [base EXCEPT ![n] = left]
      BY <2>2
    <3>2. n \in Base /\ n \in gap'
      BY <2>2, <1>1 DEF BasesInv, AboutInv, About, BasePc
    <3> QED
      BY <3>1, <3>2 DEF BasesInv, BasesTypes
  <2> QED
    BY <1>2, <2>1, <2>2
<1>6. BasesTypes'
  BY <1>1, <1>3, <1>4, <1>5 DEF BasesInv, BasesTypes, Others
<1>7. AboutInv'
  BY <1>3 DEF BasesInv, AboutInv, About, Others, ProjectPc, BasePc
<1>8. StepsInv'
  BY <1>1, <1>3 DEF BasesInv, StepsInv, Undisturbed, Others
<1>9. AloneInv'
  BY <1>3, StaysAlone DEF BasesInv, Others
<1>10. gap \subseteq gap'
  BY <1>1
<1>11. BaseInv'
  <2>1. ASSUME NEW q \in Caller, order'[q].pc = "kbConfig"
        PROVE  "key" \in base'[order'[q].name] \/ order'[q].name \in gap'
    <3>1. order'[q] = order[q] /\ order[q].pc = "kbConfig"
      BY <2>1, <1>3 DEF Others
    <3>2. order[q].name \in Base
      BY <3>1 DEF BasesInv, AboutInv, About, BasePc
    <3>3. "key" \in base[order[q].name] \/ order[q].name \in gap
      BY <3>1 DEF BasesInv, BaseInv
    <3> QED
      BY <3>1, <3>2, <3>3, <1>5, <1>10
  <2> QED
    BY <2>1, <1>5, <1>10 DEF BasesInv, BaseInv
<1>12. FitInv'
  <2> SUFFICES ASSUME NEW m \in Name \ gap',
                      \A q \in Caller : order'[q].name = m => ~Begun(order'[q])
               PROVE  Agrees(m)'
    BY DEF FitInv
  <2>1. m # n /\ m \notin gap
    BY <1>1
  <2>2. \A q \in Caller : order[q].name = m => ~Begun(order[q])
    BY <1>3, <2>1 DEF Others
  <2> QED
    BY <1>1, <2>1, <2>2 DEF BasesInv, FitInv, Agrees
<1>13. ToldInv'
  BY <1>1 DEF BasesInv, ToldInv
<1> QED
  BY <1>6, <1>7, <1>8, <1>9, <1>11, <1>12, <1>13 DEF BasesInv

LEMMA IngestKeeps == ASSUME BasesInv, NEW n \in Name, B!Ingest(n) PROVE BasesInv'
<1>1. /\ server[n] # None /\ ingested < MaxSources /\ ingested' = ingested + 1
      /\ sources' = [sources EXCEPT ![server[n]] = @ \cup {ingested + 1}]
      /\ told' = [told EXCEPT ![n] = @ \cup {ingested + 1}]
      /\ UNCHANGED <<listed, dir, key, base, databases, order, server, gap, cut, orders>>
  BY DEF B!Ingest
<1>2. server[n] \in Db /\ ingested' \in 1..MaxSources
  BY <1>1, Numbers DEF BasesInv, BasesTypes
<1>3. BasesTypes'
  BY <1>1, <1>2 DEF BasesInv, BasesTypes
<1>4. /\ \A d \in Db : sources[d] \subseteq sources'[d]
      /\ ingested + 1 \in sources'[server[n]]
      /\ told'[n] = told[n] \cup {ingested + 1}
      /\ \A m \in Name \ {n} : told'[m] = told[m]
  BY <1>1, <1>2 DEF BasesInv, BasesTypes
<1>5. ToldInv'
  <2> SUFFICES ASSUME NEW m \in Name \ cut
               PROVE  /\ server[m] # None => dir[m] = server[m]
                      /\ told'[m] \subseteq (IF dir[m] \in Db THEN sources'[dir[m]] ELSE {})
    BY <1>1 DEF ToldInv
  <2>1. /\ server[m] # None => dir[m] = server[m]
        /\ told[m] \subseteq (IF dir[m] \in Db THEN sources[dir[m]] ELSE {})
    BY DEF BasesInv, ToldInv
  <2>2. CASE m = n
    BY <2>1, <2>2, <1>1, <1>2, <1>4
  <2>3. CASE m # n
    BY <2>1, <2>3, <1>4
  <2> QED
    BY <2>2, <2>3
<1> QED
  BY <1>1, <1>3, <1>5 DEF BasesInv, AboutInv, About, StepsInv, Undisturbed, AloneInv, FitInv,
    Agrees, BaseInv

LEMMA StopServerKeeps == ASSUME BasesInv, NEW n \in Name, B!StopServer(n) PROVE BasesInv'
<1>1. /\ server' = [server EXCEPT ![n] = None]
      /\ UNCHANGED <<listed, dir, key, sources, base, databases, order, told, gap, cut,
                     ingested, orders>>
  BY DEF B!StopServer, B!disk, B!ghosts, B!counts
<1>2. BasesTypes'
  BY <1>1 DEF BasesInv, BasesTypes
<1>3. ToldInv'
  BY <1>1 DEF BasesInv, BasesTypes, ToldInv
<1> QED
  BY <1>1, <1>2, <1>3 DEF BasesInv, AboutInv, About, StepsInv, Undisturbed, AloneInv, FitInv,
    Agrees, BaseInv

LEMMA BasesStep == ASSUME BasesInv, B!Next PROVE BasesInv'
<1>1. ASSUME NEW p \in Caller, NEW n \in Name,
             B!CreateProject(p, n) \/ B!DeleteProject(p, n) \/ B!ProjectEnable(p, n)
               \/ B!ProjectDisable(p, n)
      PROVE  BasesInv'
  <2>1. PICK pc \in {"open", "mkdir", "prompt", "rmEnabled"} : B!Start(p, n, pc)
    BY <1>1 DEF B!CreateProject, B!DeleteProject, B!ProjectEnable, B!ProjectDisable
  <2>2. pc \in ErrandPc /\ n \notin Base
    BY Numbers DEF ErrandPc, ProjectPc
  <2> QED
    BY <2>1, <2>2, StartKeeps
<1>2. ASSUME NEW p \in Caller, NEW n \in Base, B!KbCreate(p, n) \/ B!KbDelete(p, n)
      PROVE  BasesInv'
  <2>1. PICK pc \in {"kbDir", "kbRm"} : B!Start(p, n, pc)
    BY <1>2 DEF B!KbCreate, B!KbDelete
  <2>2. pc \in ErrandPc /\ n \notin Name
    BY Numbers DEF ErrandPc, BasePc
  <2> QED
    BY <2>1, <2>2, StartKeeps
<1>3. ASSUME NEW p \in Caller,
             \/ B!MakeBase(p) \/ B!WriteBase(p) \/ B!RemoveBase(p)
             \/ B!Create(p) \/ B!MakeDir(p) \/ B!PutKey(p) \/ B!Add(p) \/ B!Confirm(p)
             \/ B!RemoveDir(p) \/ B!DropKey(p) \/ B!Remove(p)
             \/ B!ListProjects(p) \/ B!CountSources(p) \/ B!Die(p)
      PROVE  BasesInv'
  BY <1>3, MakeBaseKeeps, WriteBaseKeeps, RemoveBaseKeeps, CreateKeeps, MakeDirKeeps,
    PutKeyKeeps, AddKeeps, ConfirmKeeps, RemoveDirKeeps, DropKeyKeeps, RemoveKeeps,
    ListProjectsKeeps, CountSourcesKeeps, OrderDies
<1>4. ASSUME NEW b \in Base, B!OpenNamed(b) PROVE BasesInv'
  BY <1>4, OpenNamedKeeps
<1>5. ASSUME NEW n \in Name, B!StartServer(n) \/ B!Ingest(n) \/ B!StopServer(n) PROVE BasesInv'
  BY <1>5, StartServerKeeps, IngestKeeps, StopServerKeeps
<1> QED
  BY <1>1, <1>2, <1>3, <1>4, <1>5 DEF B!Next

LEMMA BasesStay == ASSUME BasesInv, UNCHANGED bvars PROVE BasesInv'
BY DEF bvars, BasesInv, BasesTypes, AboutInv, About, StepsInv, Undisturbed, AloneInv, BaseInv,
  FitInv, Agrees, ToldInv

(***************************************************************************)
(* The parts together.                                                     *)
(***************************************************************************)

HomeInv ==
  /\ TypeInv /\ EntriesInv /\ BasesInv /\ SigningInv
  /\ deaths \in 0..MaxDeaths

LEMMA HomeStarts == MCInit => HomeInv
<1> SUFFICES ASSUME MCInit PROVE HomeInv
  OBVIOUS
<1>1. TypeInv
  BY TypeInit DEF MCInit
<1>2. EntriesInv /\ BasesInv /\ SigningInv
  BY EntriesStart, BasesStart, SigningStarts DEF MCInit
<1>3. deaths \in 0..MaxDeaths
  BY HomeAssumption DEF MCInit, A!Init
<1> QED
  BY <1>1, <1>2, <1>3 DEF HomeInv

(* Only a command that dies counts.                                        *)
LEMMA AgentsDie == ASSUME A!Next, deaths \in 0..MaxDeaths PROVE deaths' \in 0..MaxDeaths
<1>1. CASE deaths' = deaths
  BY <1>1
<1>2. CASE deaths < MaxDeaths /\ deaths' = deaths + 1
  BY <1>2, HomeAssumption
<1> QED
  BY <1>1, <1>2 DEF A!Next, A!Detect, A!Confirm, A!Read, A!Write, A!Finish, A!Die, A!Edit, A!ghosts

LEMMA OrdersDie == ASSUME B!Next, deaths \in 0..MaxDeaths PROVE deaths' \in 0..MaxDeaths
<1>1. CASE deaths' = deaths
  BY <1>1
<1>2. CASE deaths < MaxDeaths /\ deaths' = deaths + 1
  BY <1>2, HomeAssumption
<1>3. ASSUME NEW p \in Caller, B!Die(p) PROVE deaths < MaxDeaths /\ deaths' = deaths + 1
  BY <1>3 DEF B!Die
<1>4. ASSUME NEW p \in Caller, NEW n \in Name,
             \/ B!CreateProject(p, n) \/ B!DeleteProject(p, n)
             \/ B!ProjectEnable(p, n) \/ B!ProjectDisable(p, n)
      PROVE  deaths' = deaths
  BY <1>4 DEF B!CreateProject, B!DeleteProject, B!ProjectEnable, B!ProjectDisable, B!Start
<1>5. ASSUME NEW p \in Caller, NEW b \in Base, B!KbCreate(p, b) \/ B!KbDelete(p, b)
      PROVE  deaths' = deaths
  BY <1>5 DEF B!KbCreate, B!KbDelete, B!Start
<1>6. ASSUME NEW p \in Caller,
             \/ B!MakeBase(p) \/ B!WriteBase(p) \/ B!RemoveBase(p)
             \/ B!Create(p) \/ B!MakeDir(p) \/ B!PutKey(p) \/ B!Add(p) \/ B!Confirm(p)
             \/ B!RemoveDir(p) \/ B!DropKey(p) \/ B!Remove(p)
             \/ B!ListProjects(p) \/ B!CountSources(p)
      PROVE  deaths' = deaths
  BY <1>6 DEF B!MakeBase, B!WriteBase, B!RemoveBase, B!Create, B!MakeDir, B!PutKey, B!Add,
    B!Confirm, B!RemoveDir, B!DropKey, B!Remove, B!ListProjects, B!CountSources, B!counts
<1>7. ASSUME NEW n \in Name, B!StartServer(n) \/ B!Ingest(n) \/ B!StopServer(n)
      PROVE  deaths' = deaths
  BY <1>7 DEF B!StartServer, B!Ingest, B!StopServer, B!counts
<1>8. ASSUME NEW b \in Base, B!OpenNamed(b) PROVE deaths' = deaths
  BY <1>8 DEF B!OpenNamed, B!counts
<1> QED
  BY <1>1, <1>2, <1>3, <1>4, <1>5, <1>6, <1>7, <1>8 DEF B!Next

LEMMA HomeStep == ASSUME HomeInv, [MCNext]_allvars PROVE HomeInv'
<1> USE DEF HomeInv
<1>1. CASE UNCHANGED allvars
  BY <1>1, TypeStep, EntriesStep, BasesStay, SigningStep DEF allvars
<1>2. CASE StartupStep
  BY <1>2, TypeStep, EntriesStep, BasesStay, SigningStep DEF StartupStep
<1>3. CASE Agents
  BY <1>3, TypeStep, EntriesStep, BasesStay, SigningStep, AgentsDie DEF Agents
<1>4. CASE Bases \/ OneBase \/ Named
  BY <1>4, TypeStep, EntriesStep, BasesStep, SigningStep, OrdersDie DEF Bases, OneBase, Named
<1>5. CASE Signing
  BY <1>5, TypeStep, EntriesStep, BasesStay, SigningStep DEF Signing
<1> QED
  BY <1>1, <1>2, <1>3, <1>4, <1>5 DEF MCNext

LEMMA HomeHolds == MCSpec => []HomeInv
<1>1. HomeInv /\ [MCNext]_allvars => HomeInv'
  BY HomeStep
<1> QED
  BY <1>1, HomeStarts, PTL DEF MCSpec

(* EntriesKept: whatever installs, unregisters and uninstalls at once, and *)
(* whenever editors write or a command dies, a configuration file that is  *)
(* not known to lose its entries holds those of other servers as the user  *)
(* last left them (mergeAgentConfig, removeAgentConfig).                   *)
THEOREM EntriesStay == MCSpec => []EntriesKept
<1>1. HomeInv => EntriesKept
  BY DEF HomeInv, EntriesInv
<1> QED
  BY <1>1, HomeHolds, PTL

(* ProjectsAgree: however many commands create, delete, enable and disable *)
(* projects and named bases at once, and servers open them, the list, the  *)
(* directory, the key and the database of a project that is not at odds    *)
(* fit once no command is about it.                                        *)
THEOREM ProjectsFit == MCSpec => []ProjectsAgree
<1>1. HomeInv => ProjectsAgree
  <2> SUFFICES ASSUME BasesInv PROVE ProjectsAgree
    BY DEF HomeInv
  <2>1. \A b \in Base \ gap : "config" \in base[b] => "key" \in base[b]
    BY DEF BasesInv, BaseInv
  <2>2. ASSUME NEW n \in Name, B!Busy(n) = {}, n \notin gap PROVE Agrees(n)
    <3>1. \A p \in Caller : order[p].name = n => ~Begun(order[p])
      BY <2>2 DEF B!Busy, Begun
    <3> QED
      BY <2>2, <3>1 DEF BasesInv, FitInv
  <2>3. \A n \in Name \ cut : told[n] \subseteq (IF dir[n] \in Db THEN sources[dir[n]] ELSE {})
    BY DEF BasesInv, ToldInv
  <2> QED
    BY <2>1, <2>2, <2>3 DEF Agrees, ProjectsAgree, B!ProjectsAgree
<1> QED
  BY <1>1, HomeHolds, PTL

(* SignedIsAccepted: with key files that belong together and stay as they  *)
(* are, whatever the agent does at whatever piece of its answer, what an   *)
(* operation of SSHSigner sends is a signature the server verifies, up to  *)
(* the agent's encodings of RSA and ECDSA, and it sends one unless a file  *)
(* is missing or is an ECDSA key's.                                        *)
THEOREM SignedAccepted == MCSpec => []SignedIsAccepted
<1>1. HomeInv => SignedIsAccepted
  BY DEF HomeInv, SigningInv
<1> QED
  BY <1>1, HomeHolds, PTL

(* TypesOK: every part keeps its types and its bounds.                     *)
THEOREM HomeTypes == MCSpec => []TypesOK
<1>1. HomeInv => TypesOK
  <2> SUFFICES ASSUME HomeInv PROVE TypesOK
    OBVIOUS
  <2>1. TypeOK /\ S!TypeOK
    BY DEF HomeInv, TypeInv, SigningInv
  <2>2. A!TypeOK
    BY DEF HomeInv, EntriesInv, AgentsTypes, A!TypeOK, Call
  <2>3. B!TypeOK
    <3>1. B!Cardinality(Db) = Cardinality(Db)
      BY DEF B!Cardinality, Cardinality
    <3>2. \A p \in Caller : order[p] \in Errand /\ order[p].name \in Name \cup Base \cup {None}
      BY DEF HomeInv, BasesInv, BasesTypes, Errand
    <3> QED
      BY <3>1, <3>2 DEF HomeInv, BasesInv, BasesTypes, B!TypeOK, Errand, ErrandPc, ProjectPc, BasePc
  <2> QED
    BY <2>1, <2>2, <2>3 DEF TypesOK
<1> QED
  BY <1>1, HomeHolds, PTL
=============================================================================
