----------------------------- MODULE MCStartup ------------------------------
(* What keeps files in the user's home, in one run: the start of the server *)
(* and the commands around the master key, the editors' configuration       *)
(* files, the signing of requests, and the knowledge bases: two projects    *)
(* under few commands, one under more, or a named base, which projects do   *)
(* not touch.  They share no state: the initial state picks one and every   *)
(* step is a step of that one.                                              *)
EXTENDS Startup

CONSTANTS Caller, Other, MaxEdits, MaxRuns, MaxDeaths,
          Name, One, Base, Db, MaxSources, MaxOrders, MaxOfOne,
          MaxSigned, MaxChanges

(* Bound: SSH keys.                                                         *)
SshKey == {[type |-> "ed25519", n |-> 1], [type |-> "ed25519", n |-> 2],
           [type |-> "rsa", n |-> 1], [type |-> "ecdsa", n |-> 1]}

VARIABLES part,
  installed, allowed, editorFile, caller, data, wanted, lost, edits, deaths, runs,
  listed, dir, key, sources, base, order, server, databases, told, gap, cut,
  ingested, orders,
  pub, private, agent, signer, sent, began, signed, changes

A == INSTANCE Agents WITH Proc <- Caller, Agent <- {"cursor"}, Workspace <- ".mcp.json",
       file <- editorFile, command <- caller
B == INSTANCE Bases WITH Proc <- Caller, MaxCommands <- MaxOfOne,
       command <- order, made <- databases, commands <- orders
S == INSTANCE Signing WITH Key <- SshKey

(* No file, project, database, key or signature is called None, and a       *)
(* project is no named base.                                                *)
ASSUME HomeAssumption ==
  /\ None \notin A!File \cup Name \cup Base \cup Nat
  /\ None \notin SshKey \cup S!Files \cup [key : SshKey, signature : S!Signature]
  /\ Name \cap Base = {} /\ One \subseteq Name
  /\ Db = 1..Cardinality(Db) /\ IsFiniteSet(Db)
  /\ {MaxEdits, MaxRuns, MaxDeaths, MaxSources, MaxOrders, MaxOfOne, MaxSigned,
      MaxChanges} \subseteq Nat

avars == <<installed, allowed, editorFile, caller, data, wanted, lost, edits, runs>>
bvars == <<listed, dir, key, sources, base, order, server, databases, told, gap, cut,
           ingested, orders>>
svars == <<pub, private, agent, signer, sent, began, signed, changes>>
allvars == <<part, vars, avars, bvars, svars, deaths>>

MCInit ==
  /\ part \in {"startup", "agents", "bases", "base", "named", "signing"}
  /\ Init /\ A!Init /\ B!Init /\ S!Init
  /\ part # "startup" => machine = CHOOSE m \in Machines : TRUE
  /\ part # "agents" => /\ installed = {} /\ allowed = {}
                        /\ \A f \in A!File : editorFile[f].text = "none"
  /\ part # "signing" => pub = None /\ private = None /\ agent = None

(* Computers on which a bootstrap leaves something to unlock, and all.      *)
Usable == [file : {FALSE}, keychain : {TRUE}, ssh : {"file"}]
          \cup {[file |-> TRUE, keychain |-> FALSE, ssh |-> "none"]}

NoKeychain == [file : {FALSE}, keychain : {FALSE}, ssh : {"file"}]

(* Bound: the projects and the named bases that commands and servers touch. *)
Within(names) ==
  /\ \A p \in Caller : order[p].name \in names \cup {None}
  /\ \A n \in Name \ names : server[n] = None
  /\ \A b \in Base \ names : base[b] = {}

StartupStep == part = "startup" /\ Next /\ UNCHANGED <<part, avars, bvars, svars, deaths>>
Agents == part = "agents" /\ A!Next /\ UNCHANGED <<part, vars, bvars, svars>>
Bases == /\ part = "bases" /\ B!Next /\ Within(Name)' /\ orders' <= MaxOrders
         /\ UNCHANGED <<part, vars, avars, svars>>
OneBase == part = "base" /\ B!Next /\ Within(One)' /\ UNCHANGED <<part, vars, avars, svars>>
Named == part = "named" /\ B!Next /\ Within(Base)' /\ UNCHANGED <<part, vars, avars, svars>>
Signing == part = "signing" /\ S!Next /\ UNCHANGED <<part, vars, avars, bvars, deaths>>

MCNext == StartupStep \/ Agents \/ Bases \/ OneBase \/ Named \/ Signing

(* The fairness is that of Startup; the other parts are under none.         *)
FairTick == part = "startup" /\ Tick
FairServe(p) == part = "startup" /\ Serve(p)
MCSpec == /\ MCInit /\ [][MCNext]_allvars
          /\ WF_vars(FairTick) /\ \A p \in Proc : WF_vars(FairServe(p))

(* Every part keeps its types: see TypeOK of the modules.                   *)
TypesOK ==
  /\ part = "startup" => TypeOK
  /\ part = "agents" => A!TypeOK
  /\ part \in {"bases", "base", "named"} => B!TypeOK
  /\ part = "signing" => S!TypeOK

(* See EventuallyConfigured of Startup, and the properties of the same      *)
(* names in the other modules; the safety of Startup is used as it is.      *)
StartupConfigures == part = "startup" => EventuallyConfigured
EntriesKept == A!EntriesKept
ProjectsAgree == B!ProjectsAgree
SignedIsAccepted == S!SignedIsAccepted
=============================================================================
