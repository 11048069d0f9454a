------------------------------- MODULE Signing -------------------------------
(***************************************************************************)
(* How a request or a registration gets its signature: SSHSigner names the *)
(* key in the .pub file, asks ssh-agent to sign, over a socket whose       *)
(* answer comes in pieces, and signs with the private key file whenever    *)
(* the agent does not (sync/ssh-signer.ts); the server verifies.  A key is *)
(* a record with its type; the data signed is the data verified (see       *)
(* ReplayGuard for where it is not).                                       *)
(***************************************************************************)
EXTENDS Naturals

CONSTANTS
  Key,        \* bound: keys, with their types "ed25519", "rsa", "ecdsa"
  None,
  MaxSigned,  \* bound: signatures asked for
  MaxChanges  \* bound: changes of the key files and of the agent's keys

VARIABLES
  pub,      \* the key in <path>.pub, or None
  private,  \* the key in <path>, None if absent or under a passphrase
  agent,    \* the keys loaded, or None without SSH_AUTH_SOCK
  signer,   \* what the process does
  sent,     \* what the last operation sent: a key and a signature, or None
  began,    \* ghost: the two files as the operation began; None if changed since
  signed, changes

kept == <<pub, private, agent, changes>>
vars == <<kept, signer, sent, began, signed>>

MaybeKey == Key \cup {None}
Files == [pub : MaybeKey, private : MaybeKey]

\* "good" is the encoding that the verifier expects; the data of "cut" is
\* not complete.
Signature == [by : Key, form : {"good", "sha1", "mpints", "cut"}]
Failure == [by |-> None, form |-> "failure"]
Idle == [pc |-> "idle", op |-> "request", named |-> None, blob |-> None,
         got |-> 0, reply |-> Failure]

TypeOK ==
  /\ pub \in MaybeKey /\ private \in MaybeKey
  /\ agent \in (SUBSET Key) \cup {None}
  /\ signer \in [pc : {"idle", "blob", "connect", "answer", "file", "name"},
                 op : {"request", "challenge"}, named : MaybeKey, blob : MaybeKey,
                 got : 0..2, reply : Signature \cup {Failure}]
  /\ sent \in {None} \cup [key : Key, signature : Signature]
  /\ began \in Files \cup {None}
  /\ signed \in 0..MaxSigned /\ changes \in 0..MaxChanges

Init ==
  /\ pub \in MaybeKey /\ private \in {pub, None}
  /\ agent \in (SUBSET Key) \cup {None}
  /\ signer = Idle /\ sent = None
  /\ began = [pub |-> None, private |-> None]
  /\ signed = 0 /\ changes = 0

-----------------------------------------------------------------------------
Goto(pc) == signer' = [signer EXCEPT !.pc = pc]
Throw == signer' = Idle /\ sent' = None

Begin(op) ==
  /\ signer.pc = "idle" /\ signed < MaxSigned
  /\ signed' = signed + 1
  /\ began' = [pub |-> pub, private |-> private] /\ sent' = None
  /\ UNCHANGED kept

\* Without SSH_AUTH_SOCK the agent is not tried.
First == IF agent = None THEN "file" ELSE "blob"

\* signRequest reads the .pub before it signs.
SignRequest ==
  /\ Begin("request")
  /\ signer' = IF pub = None THEN Idle
               ELSE [Idle EXCEPT !.pc = First, !.op = "request", !.named = pub]

\* signRegistrationChallenge signs first and reads the .pub afterwards.
SignChallenge ==
  /\ Begin("challenge")
  /\ signer' = [Idle EXCEPT !.pc = First, !.op = "challenge"]

\* signWithAgent reads the .pub again for the key it asks about.
ReadBlob ==
  /\ signer.pc = "blob"
  /\ signer' = [signer EXCEPT !.blob = pub, !.pc = IF pub = None THEN "file" ELSE "connect"]
  /\ UNCHANGED <<kept, sent, began, signed>>

\* With flags 0 the agent uses SHA-1 for RSA; ECDSA comes as two numbers.
FormOf(type) ==
  CASE type = "ed25519" -> "good" [] type = "rsa" -> "sha1" [] type = "ecdsa" -> "mpints"

\* The agent has the request and signs, or does not: it lacks the key, or
\* the user refuses, or it answers something else.
Connect ==
  /\ signer.pc = "connect" /\ agent # None
  /\ \/ signer' = [signer EXCEPT !.pc = "answer", !.reply = Failure]
     \/ /\ signer.blob \in agent
        /\ signer' = [signer EXCEPT !.pc = "answer",
             !.reply = [by |-> signer.blob, form |-> FormOf(signer.blob.type)]]
  /\ UNCHANGED <<kept, sent, began, signed>>

\* A piece of the answer: its length and some of it, then all of it.
Data ==
  /\ signer.pc = "answer" /\ signer.got < 2
  /\ signer' = [signer EXCEPT !.got = @ + 1]
  /\ UNCHANGED <<kept, sent, began, signed>>

(* Mutant: what came with the length is taken for all of it.                *)
WholeWithLength == signer.got >= 1

Whole == signer.got = 2

\* parseSSHSignature takes what is there.
Parsed == IF signer.got = 2 THEN signer.reply ELSE [signer.reply EXCEPT !.form = "cut"]

\* A request names the key read before; a registration reads it now.
Send(signature) ==
  IF signer.op = "challenge"
  THEN signer' = [signer EXCEPT !.pc = "name", !.reply = signature] /\ UNCHANGED sent
  ELSE signer' = Idle /\ sent' = [key |-> signer.named, signature |-> signature]

AgentSigned ==
  /\ signer.pc = "answer" /\ Whole
  /\ IF signer.reply = Failure THEN Goto("file") /\ UNCHANGED sent ELSE Send(Parsed)
  /\ UNCHANGED <<kept, began, signed>>

\* Refused, broken, closed, or idle for five seconds: what came is dropped.
AgentFails ==
  /\ signer.pc \in {"connect", "answer"}
  /\ signer' = [signer EXCEPT !.pc = "file", !.got = 0, !.reply = Failure]
  /\ UNCHANGED <<kept, sent, began, signed>>

\* createPrivateKey may not take what sshpk writes; then the key is built
\* from its parts, which is not done for ECDSA.
SignWithKeyFile ==
  /\ signer.pc = "file"
  /\ \/ private = None /\ Throw
     \/ private # None /\ Send([by |-> private, form |-> "good"])
     \/ private # None /\ private.type = "ecdsa" /\ Throw
  /\ UNCHANGED <<kept, began, signed>>

NameKey ==
  /\ signer.pc = "name"
  /\ IF pub = None THEN Throw
     ELSE signer' = Idle /\ sent' = [key |-> pub, signature |-> signer.reply]
  /\ UNCHANGED <<kept, began, signed>>

\* The user makes or removes a key, in both files or only in one of them
\* yet, sets a passphrase, or loads other keys into the agent.
Change ==
  /\ changes < MaxChanges /\ changes' = changes + 1
  /\ \/ pub' \in MaybeKey /\ private' \in {pub', private, None} /\ UNCHANGED agent
     \/ agent' \in (SUBSET Key) \cup {None} /\ UNCHANGED <<pub, private>>
  /\ began' = IF <<pub, private>>' # <<pub, private>> THEN None ELSE began
  /\ UNCHANGED <<signer, sent, signed>>

\* verifySSHSignature, for any of the three types.
Verifies(request) == request.signature = [by |-> request.key, form |-> "good"]

Next ==
  \/ SignRequest \/ SignChallenge \/ ReadBlob \/ Connect \/ Data \/ AgentSigned
  \/ AgentFails \/ SignWithKeyFile \/ NameKey \/ Change

Spec == Init /\ [][Next]_vars

-----------------------------------------------------------------------------
(* While the key files stay as they are and belong together, the server     *)
(* accepts what is signed, whoever signed it, and whatever the agent does,  *)
(* at whatever piece of its answer, a usable key file is enough to sign.    *)
(* Two things the code gets wrong are excepted: the agent's signatures with *)
(* RSA and ECDSA keys are not what the server verifies, and an ECDSA key    *)
(* file may not be read.                                                    *)
SignedIsAccepted ==
  signer.pc = "idle" /\ signed > 0 /\ began # None /\ began.private \in {began.pub, None} =>
    IF sent = None
    THEN None \in {began.pub, began.private} \/ began.private.type = "ecdsa"
    ELSE \/ Verifies(sent)
         \/ sent.signature = [by |-> sent.key, form |-> FormOf(sent.key.type)]
=============================================================================
