---------------------------- MODULE Registration ----------------------------
(***************************************************************************)
(* Registration of a device with the sync server: the command              *)
(* `setup-sync` (src/cli/commands/setup-sync.ts), the challenge and        *)
(* register handlers (server/.../routes/register.ts) and the claims of     *)
(* GitHub names (routes/github.ts).  Each handler invocation interleaves   *)
(* with others between its DynamoDB and GitHub calls and may die between   *)
(* two of them; the command gives up on an answer after ten seconds, while *)
(* the handler goes on.                                                    *)
(***************************************************************************)
EXTENDS Naturals

CONSTANTS
  Device,     \* devices; each stands for its SSH key and the tenant of it
  Name,       \* GitHub user names
  Nonce,      \* bound: challenges ever handed out
  Slot,       \* bound: handler invocations at once
  None,
  MaxEdits,   \* bound: changes of the keys listed on GitHub
  MaxAborts   \* bound: invocations that fail half-way

VARIABLES
  challenge,  \* CHALLENGE# records
  tenant,     \* devices whose TENANT# META record exists
  claim,      \* GITHUB#<name> META: the tenant that has the name
  listed,     \* the keys GitHub shows for a name
  cache,      \* githubKeyCache of the handler
  req,        \* handler invocations
  setup,      \* what each device's command is doing
  config,     \* what the command saved on the device
  linked,     \* history: pairs answered auto_linked
  fresh,      \* history: keys listed at some time since a request began
  edits, aborts

vars == <<challenge, tenant, claim, listed, cache, req, setup, config,
          linked, fresh, edits, aborts>>

Answers == {"created", "linked", "unverified", "bad challenge", "exists", "error"}

Handler == {"idle", "challenge", "verify", "lookup", "fresh", "notify",
            "tenant", "claim", "associate"}

NoRequest == [pc |-> "idle", key |-> None, nonce |-> None, github |-> None]

Idle == [pc |-> "idle", answer |-> "error", nonce |-> None, github |-> None,
         slot |-> None, retried |-> FALSE]

TypeOK ==
  /\ challenge \in [Nonce -> {"unissued", "open", "expired", "used"}]
  /\ tenant \subseteq Device
  /\ claim \in [Name -> Device \cup {None}]
  /\ listed \in [Name -> SUBSET Device]
  /\ cache \in [Name -> (SUBSET Device) \cup {None}]
  /\ req \in [Slot -> [pc : Handler, key : Device \cup {None},
                       nonce : Nonce \cup {None}, github : Name \cup {None}]]
  /\ setup \in [Device -> [pc : {"idle", "challenged", "waiting", "answered",
                                 "saving"},
                           answer : Answers, nonce : Nonce \cup {None},
                           github : Name \cup {None},
                           slot : Slot \cup {None}, retried : BOOLEAN]]
  /\ config \in [Device -> {"local"} \cup Name \cup {None}]
  /\ linked \subseteq Device \X Name
  /\ fresh \in [Slot -> SUBSET Device]
  /\ edits \in 0..MaxEdits /\ aborts \in 0..MaxAborts

Init ==
  /\ challenge = [n \in Nonce |-> "unissued"]
  /\ tenant = {}
  /\ claim = [g \in Name |-> None]
  /\ listed \in [Name -> SUBSET Device]
  /\ cache = [g \in Name |-> None]
  /\ req = [h \in Slot |-> NoRequest]
  /\ setup = [d \in Device |-> Idle]
  /\ config = [d \in Device |-> "local"]
  /\ linked = {}
  /\ fresh = [h \in Slot |-> {}]
  /\ edits = 0 /\ aborts = 0

-----------------------------------------------------------------------------
(* The command setup-sync on device d.                                     *)

server == <<tenant, claim, listed, cache, linked, edits, aborts>>

(* The health check passed; GET /v1/register/challenge answers a nonce.    *)
GetChallenge(d, n, g) ==
  /\ setup[d].pc = "idle" /\ challenge[n] = "unissued"
  /\ challenge' = [challenge EXCEPT ![n] = "open"]
  /\ setup' = [setup EXCEPT ![d] = [Idle EXCEPT !.pc = "challenged",
                                                !.nonce = n, !.github = g]]
  /\ UNCHANGED <<req, config, fresh, server>>

(* POST /v1/auth/register with the challenge signed by the device's key.   *)
SendRegister(d, h, g) ==
  /\ req[h].pc = "idle"
  /\ req' = [req EXCEPT ![h] = [pc |-> "challenge", key |-> d,
                                nonce |-> setup[d].nonce, github |-> g]]
  /\ fresh' = [fresh EXCEPT ![h] = IF g = None THEN {} ELSE listed[g]]

Register(d, h) ==
  /\ setup[d].pc = "challenged"
  /\ SendRegister(d, h, setup[d].github)
  /\ setup' = [setup EXCEPT ![d].pc = "waiting", ![d].slot = h]
  /\ UNCHANGED <<challenge, config, server>>

(* GitHub verification failed: once more without GitHub, same challenge.   *)
RetryWithoutGitHub(d, h) ==
  /\ setup[d].pc = "answered" /\ setup[d].answer = "unverified"
  /\ SendRegister(d, h, None)
  /\ setup' = [setup EXCEPT ![d].pc = "waiting", ![d].slot = h,
                            ![d].retried = TRUE, ![d].github = None]
  /\ UNCHANGED <<challenge, config, server>>

(* 201, and auto_linked once five minutes of polling for the wrapped key   *)
(* have ended with or without it, go on to the config; every other answer  *)
(* ends the command, and so does the ten-second timer.                     *)
ReadAnswer(d) ==
  /\ setup[d].pc = "answered"
  /\ setup[d].answer # "unverified"
  /\ setup' = [setup EXCEPT ![d] =
       IF @.answer \in {"created", "linked"}
       THEN [Idle EXCEPT !.pc = "saving", !.github = setup[d].github] ELSE Idle]
  /\ UNCHANGED <<challenge, req, config, fresh, server>>

GiveUp(d) ==
  /\ setup[d].pc = "waiting"
  /\ setup' = [setup EXCEPT ![d] = Idle]
  /\ UNCHANGED <<challenge, req, config, fresh, server>>

(* A name saved by an earlier run of the command stays.  The canary that   *)
(* follows is sent unsigned and refused, and changes nothing.              *)
SaveConfig(d) ==
  /\ setup[d].pc = "saving"
  /\ config' = [config EXCEPT ![d] =
       IF setup[d].github = None /\ @ \in Name THEN @ ELSE setup[d].github]
  /\ setup' = [setup EXCEPT ![d] = Idle]
  /\ UNCHANGED <<challenge, req, fresh, server>>

-----------------------------------------------------------------------------
(* handleRegister, call by call.                                           *)

client == <<config, listed, edits>>

Goto(h, pc) == req' = [req EXCEPT ![h].pc = pc] /\ UNCHANGED <<setup, fresh>>

Waits(h) == {d \in Device : setup[d].pc = "waiting" /\ setup[d].slot = h}

Reply(h, answer) ==
  /\ req' = [req EXCEPT ![h] = NoRequest]
  /\ fresh' = [fresh EXCEPT ![h] = {}]
  /\ setup' = [d \in Device |->
       IF d \in Waits(h)
       THEN [setup[d] EXCEPT !.pc = "answered", !.answer = answer, !.slot = None]
       ELSE setup[d]]

(* The conditional delete uses the challenge up, expired or not, whatever  *)
(* comes of the request.                                                   *)
ConsumeChallenge(h) ==
  /\ req[h].pc = "challenge"
  /\ challenge' = [challenge EXCEPT ![req[h].nonce] = "used"]
  /\ IF challenge[req[h].nonce] = "open"
     THEN Goto(h, IF req[h].github = None THEN "tenant" ELSE "verify")
     ELSE Reply(h, "bad challenge")
  /\ UNCHANGED <<tenant, claim, cache, linked, aborts, client>>

(* fetchGitHubKeys: the cache first; `reachable` when GitHub answers.      *)
KeysOf(g, reachable) ==
  IF cache[g] # None THEN cache[g] ELSE IF reachable THEN listed[g] ELSE {}

VerifyOnGitHub(h) ==
  \E reachable \in BOOLEAN :
    LET g == req[h].github IN
    /\ req[h].pc = "verify"
    /\ cache' = [cache EXCEPT ![g] = IF @ = None /\ reachable THEN listed[g] ELSE @]
    /\ IF req[h].key \in KeysOf(g, reachable)
       THEN Goto(h, "lookup") ELSE Reply(h, "unverified")
    /\ UNCHANGED <<challenge, tenant, claim, linked, aborts, client>>

FindTenantByGitHub(h) ==
  /\ req[h].pc = "lookup"
  /\ Goto(h, IF claim[req[h].github] = None THEN "tenant" ELSE "fresh")
  /\ UNCHANGED <<challenge, tenant, claim, cache, linked, aborts, client>>

(* Seeded fault: the keys of the cache are fresh enough.                   *)
CachedKeys(g, reachable) == KeysOf(g, reachable)

(* fetchGitHubKeysFresh drops the cache entry and asks again.              *)
FreshKeys(g, reachable) == IF reachable THEN listed[g] ELSE {}

(* An unreachable GitHub or an empty list falls back to registration.      *)
CheckFreshKeys(h) ==
  \E reachable \in BOOLEAN :
    LET g == req[h].github
        keys == FreshKeys(g, reachable)
    IN
    /\ req[h].pc = "fresh"
    /\ cache' = [cache EXCEPT ![g] = IF reachable THEN listed[g] ELSE None]
    /\ IF keys = {} THEN Goto(h, "tenant")
       ELSE IF req[h].key \in keys THEN Goto(h, "notify")
       ELSE Reply(h, "unverified")
    /\ UNCHANGED <<challenge, tenant, claim, linked, aborts, client>>

(* The notification and the audit event of the existing tenant.            *)
NotifyAndLink(h) ==
  /\ req[h].pc = "notify"
  /\ linked' = linked \cup {<<req[h].key, req[h].github>>}
  /\ Reply(h, "linked")
  /\ UNCHANGED <<challenge, tenant, claim, cache, aborts, client>>

PutTenant(h) ==
  /\ req[h].pc = "tenant"
  /\ IF req[h].key \in tenant
     THEN Reply(h, "exists") /\ UNCHANGED tenant
     ELSE /\ tenant' = tenant \cup {req[h].key}
          /\ IF req[h].github = None THEN Reply(h, "created") ELSE Goto(h, "claim")
  /\ UNCHANGED <<challenge, claim, cache, linked, aborts, client>>

(* Seeded fault: the reverse lookup is written without its condition.      *)
TakeName(h) ==
  /\ req[h].pc = "claim"
  /\ claim' = [claim EXCEPT ![req[h].github] = req[h].key]
  /\ Goto(h, "associate")
  /\ UNCHANGED <<challenge, tenant, cache, linked, aborts, client>>

(* Seeded fault: the name is stored where the tenant belongs.              *)
SwapArguments(h) ==
  /\ req[h].pc = "claim"
  /\ claim' = [claim EXCEPT ![req[h].github] = req[h].github]
  /\ Goto(h, "associate")
  /\ UNCHANGED <<challenge, tenant, cache, linked, aborts, client>>

(* storeGitHubReverseLookup: attribute_not_exists OR the same tenant.  The *)
(* tenant record stays when the name is taken.                             *)
ClaimName(h) ==
  /\ req[h].pc = "claim"
  /\ IF claim[req[h].github] \in {None, req[h].key}
     THEN /\ claim' = [claim EXCEPT ![req[h].github] = req[h].key]
          /\ Goto(h, "associate")
     ELSE Reply(h, "unverified") /\ UNCHANGED claim
  /\ UNCHANGED <<challenge, tenant, cache, linked, aborts, client>>

(* storeGitHubAssociation and the audit event, then 201.                   *)
Associate(h) ==
  /\ req[h].pc = "associate"
  /\ Reply(h, "created")
  /\ UNCHANGED <<challenge, tenant, claim, cache, linked, aborts, client>>

(* A refused rate, disabled sign-ups, a failed call, the end of a Lambda.  *)
Abort(h) ==
  /\ req[h].pc # "idle" /\ aborts < MaxAborts
  /\ aborts' = aborts + 1
  /\ Reply(h, "error")
  /\ UNCHANGED <<challenge, tenant, claim, cache, linked, client>>

-----------------------------------------------------------------------------
(* Time, and the user's GitHub account.                                    *)

ChallengeExpires(n) ==
  /\ challenge[n] = "open"
  /\ challenge' = [challenge EXCEPT ![n] = "expired"]
  /\ UNCHANGED <<tenant, claim, cache, req, setup, linked, fresh, aborts, client>>

CacheExpires(g) ==
  /\ cache[g] # None
  /\ cache' = [cache EXCEPT ![g] = None]
  /\ UNCHANGED <<challenge, tenant, claim, req, setup, linked, fresh, aborts, client>>

EditKeys(g, d) ==
  /\ edits < MaxEdits
  /\ edits' = edits + 1
  /\ listed' = [listed EXCEPT ![g] = IF d \in @ THEN @ \ {d} ELSE @ \cup {d}]
  /\ fresh' = [h \in Slot |-> IF req[h].github = g THEN fresh[h] \cup listed'[g]
                              ELSE fresh[h]]
  /\ UNCHANGED <<challenge, tenant, claim, cache, req, setup, config, linked, aborts>>

Next ==
  \/ \E d \in Device :
       \/ \E n \in Nonce, g \in Name \cup {None} : GetChallenge(d, n, g)
       \/ \E h \in Slot : Register(d, h) \/ RetryWithoutGitHub(d, h)
       \/ ReadAnswer(d) \/ GiveUp(d) \/ SaveConfig(d)
  \/ \E h \in Slot :
       \/ ConsumeChallenge(h) \/ VerifyOnGitHub(h) \/ FindTenantByGitHub(h)
       \/ CheckFreshKeys(h) \/ NotifyAndLink(h) \/ PutTenant(h)
       \/ ClaimName(h) \/ Associate(h) \/ Abort(h)
  \/ \E n \in Nonce : ChallengeExpires(n)
  \/ \E g \in Name : CacheExpires(g) \/ \E d \in Device : EditKeys(g, d)

Spec == Init /\ [][Next]_vars

-----------------------------------------------------------------------------
(* Properties.                                                             *)

(* The device and the server agree: a config that names a GitHub account   *)
(* was saved for a device that owns the name or was linked to its owner,   *)
(* and one without a name for a device with an account.  Names are claimed *)
(* by racing invocations whose answers may be lost.                        *)
ConfigIsTrue ==
  \A d \in Device :
    /\ config[d] = None => d \in tenant
    /\ config[d] \in Name => claim[config[d]] = d \/ <<d, config[d]>> \in linked

(* A key taken off the GitHub account before the request was sent is never *)
(* linked, whatever the five-minute cache of keys holds ("bypass cache",   *)
(* register.ts:269).                                                       *)
RemovedKeyNotLinked ==
  \A h \in Slot : req[h].pc = "notify" => req[h].key \in fresh[h]
=============================================================================
