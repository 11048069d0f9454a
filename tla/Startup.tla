------------------------------- MODULE Startup -------------------------------
(***************************************************************************)
(* One computer's ~/.chaoskb: the first launches of the MCP server that     *)
(* create it under the bootstrap lock (src/cli/bootstrap.ts,               *)
(* bootstrap-lock.ts), the launches that unlock the master key from it     *)
(* (mcp-server.ts), and the commands that move the master key about:       *)
(* `config upgrade-tier` and `config safety` (commands/config.ts) and      *)
(* `rotate-key` (commands/rotate-key.ts).  Each is a process of its own;   *)
(* they share the lock file, config.json, master.key, master-key.enc, the  *)
(* keyring slot and the account on the server, and may die anywhere.       *)
(***************************************************************************)
EXTENDS Naturals, FiniteSets

CONSTANTS
  Proc,          \* processes
  None,
  Torn,          \* a file that is being rewritten
  Machines,      \* what computers there are: see Machine
  MaxRetries,    \* attempts at the lock; one waits for a Tick between two
  StaleAfter,    \* a lock older than this many Ticks is stale
  MaxMasters,    \* bound: master keys ever generated
  MaxFaults,     \* bound: crashes and refused keychain dialogs
  MaxCommands,   \* bound: commands started
  AtOnce         \* bound: commands running at one time

(* file: CHAOSKB_KEY_STORAGE=file; keychain: the OS keychain works; ssh:    *)
(* where the user's SSH key is.                                            *)
Machine == [file : BOOLEAN, keychain : BOOLEAN, ssh : {"file", "agent", "none"}]

VARIABLES
  machine, \* the computer
  lock,    \* .bootstrap.lock: its creator and its age
  config,  \* config.json: None, Torn while it is being rewritten, a record
  slot,    \* keyring slot `__personal`: a master key and the key it is wrapped for
  keyFile, \* master.key
  encFile, \* master-key.enc: None, Torn or a master key
  account, \* keys the server accepts
  proc,    \* processes
  made,    \* master keys generated
  used,    \* history: master keys a server was started with
  stolen,  \* history: a running bootstrap lost its lock to another process
  broken,  \* history: a command died before its end
  faults, commands

files == <<config, slot, keyFile, encFile>>
history == <<used, stolen, broken>>
bounds == <<faults, commands>>
vars == <<machine, lock, files, account, proc, made, history, bounds>>

Master == 1..MaxMasters

Key == {"first", "second", "agent", "made"}

Config == [tier : {"standard", "maximum"}, key : Key \cup {None},
           sync : {"on", "pending", "off"}]

Booting == {"check", "detect", "wrap", "register", "upload", "release"}
Command == {"edit", "up unlock", "up blob", "up write", "up verify", "up drop",
            "up unlink", "rot unlock", "rot start", "rot put", "rot slot"}
Saving == {"truncate", "write"}

LockFile == [owner : Proc, age : 0..(StaleAfter + 1)]
Slot == [master : Master, key : Key]

(* No file, a torn one and what is in a file are different things; there   *)
(* is at least one attempt at the lock.                                     *)
ASSUME StartupAssumption ==
  /\ None # Torn
  /\ None \notin Master /\ Torn \notin Master /\ None \notin Key
  /\ None \notin Config /\ Torn \notin Config /\ None \notin LockFile /\ None \notin Slot
  /\ Machines \subseteq Machine
  /\ MaxRetries \in Nat \ {0} /\ StaleAfter \in Nat
  /\ MaxMasters \in Nat /\ MaxFaults \in Nat /\ MaxCommands \in Nat

Stopped == [pc |-> "idle", boot |-> FALSE, tries |-> 0, key |-> None,
            master |-> None, save |-> None]

TypeOK ==
  /\ machine \in Machine
  /\ lock \in LockFile \cup {None}
  /\ config \in Config \cup {None, Torn}
  /\ slot \in Slot \cup {None}
  /\ keyFile \in Master \cup {None}
  /\ encFile \in Master \cup {None, Torn}
  /\ account \subseteq Key
  /\ proc \in [Proc ->
       [pc : {"idle", "boot", "lock", "sleep", "unlink", "reload", "unlock"}
             \cup Booting \cup Command \cup Saving,
        boot : BOOLEAN, tries : 0..MaxRetries, key : Key \cup {None},
        master : Master \cup {None}, save : Config \cup {None}]]
  /\ made \in 0..MaxMasters
  /\ used \subseteq Master
  /\ stolen \in BOOLEAN /\ broken \in BOOLEAN
  /\ faults \in 0..MaxFaults /\ commands \in 0..MaxCommands

Init ==
  /\ machine \in Machines
  /\ lock = None /\ config = None
  /\ slot = None /\ keyFile = None /\ encFile = None
  /\ account = {}
  /\ proc = [p \in Proc |-> Stopped]
  /\ made = 0 /\ used = {} /\ stolen = FALSE /\ broken = FALSE
  /\ faults = 0 /\ commands = 0

-----------------------------------------------------------------------------
Readable(c) == c \notin {None, Torn}

Goto(p, pc) == proc' = [proc EXCEPT ![p].pc = pc]
Stop(p) == proc' = [proc EXCEPT ![p] = Stopped]

(* The private key a config leads to: the one it names, else the one in    *)
(* ~/.ssh; those of the agent and of the keychain are never read.          *)
PrivateKey(c) ==
  IF c.key \in {"first", "second"} THEN c.key
  ELSE IF machine.ssh = "file" THEN "first" ELSE None

HasStorage == machine.file \/ machine.keychain

(* The master key in the keyring slot, if the private key opens it.        *)
FromSlot(c) ==
  IF HasStorage /\ slot # None /\ slot.key = PrivateKey(c)
  THEN slot.master ELSE None

(* What a server with config c unlocks; the passphrase is the right one.   *)
Unlocked(c) ==
  IF c.tier = "maximum" THEN IF encFile = Torn THEN None ELSE encFile
  ELSE IF machine.file /\ keyFile # None /\ slot = None THEN keyFile
  ELSE FromSlot(c)

-----------------------------------------------------------------------------
(* A launch of the MCP server.                                             *)

(* A config that cannot be parsed counts as none.                          *)
Launch(p) ==
  /\ proc[p].pc = "idle"
  /\ IF Readable(config)
     THEN proc' = [proc EXCEPT ![p].pc = "unlock", ![p].save = config]
     ELSE Goto(p, "boot")
  /\ UNCHANGED <<machine, lock, files, account, made, history, bounds>>

(* Bootstrap's fast path: the file exists, readable or not.                *)
Boot(p) ==
  /\ proc[p].pc = "boot"
  /\ Goto(p, IF config # None THEN "reload" ELSE "lock")
  /\ UNCHANGED <<machine, lock, files, account, made, history, bounds>>

Attempt(p, pc) ==
  proc' = [proc EXCEPT ![p].tries = @ + 1, ![p].pc = pc]

(* The loop over the attempts; after the last one the launch fails.        *)
AgainOnceMore(r) ==
  IF r.tries <= MaxRetries THEN [r EXCEPT !.pc = "lock"] ELSE Stopped

Again(r) ==
  IF r.tries < MaxRetries THEN [r EXCEPT !.pc = "lock"] ELSE Stopped

(* A lock that outlives its process is never removed.                      *)
NeverStale == FALSE

IsStale == lock.age > StaleAfter

Lock(p) ==
  /\ proc[p].pc = "lock" /\ lock = None
  /\ lock' = [owner |-> p, age |-> 0]
  /\ proc' = [proc EXCEPT ![p].pc = "check", ![p].boot = TRUE, ![p].tries = 0]
  /\ UNCHANGED <<machine, files, account, made, history, bounds>>

FindLocked(p) ==
  /\ proc[p].pc = "lock" /\ lock # None
  /\ Attempt(p, IF IsStale THEN "unlink" ELSE "sleep")
  /\ UNCHANGED <<machine, lock, files, account, made, history, bounds>>

(* The lock file there is now, stale or not.                               *)
Unlink(p) ==
  /\ proc[p].pc = "unlink"
  /\ stolen' = (stolen \/ (lock # None /\ proc[lock.owner].boot))
  /\ lock' = None
  /\ proc' = [proc EXCEPT ![p] = Again(@)]
  /\ UNCHANGED <<machine, files, account, made, used, broken, bounds>>

(* The interval between two attempts at the lock passes.                    *)
Tick ==
  /\ \/ lock # None /\ lock.age <= StaleAfter
     \/ \E p \in Proc : proc[p].pc = "sleep"
  /\ lock' = IF lock = None THEN None
             ELSE [lock EXCEPT !.age = IF @ > StaleAfter THEN @ ELSE @ + 1]
  /\ proc' = [p \in Proc |->
       IF proc[p].pc = "sleep" THEN Again(proc[p]) ELSE proc[p]]
  /\ UNCHANGED <<machine, files, account, made, history, bounds>>

(* The lock alone is taken to mean that there is no config.                *)
TrustLock(p) ==
  /\ proc[p].pc = "check" /\ Goto(p, "detect")
  /\ UNCHANGED <<machine, lock, files, account, made, history, bounds>>

CheckAgain(p) ==
  /\ proc[p].pc = "check"
  /\ Goto(p, IF config # None THEN "release" ELSE "detect")
  /\ UNCHANGED <<machine, lock, files, account, made, history, bounds>>

(* detectSSHKey, and a fresh master key.                                   *)
Detected ==
  CASE machine.ssh = "file" -> "first"
    [] machine.ssh = "agent" -> "agent"
    [] OTHER -> IF machine.keychain THEN "made" ELSE None

Detect(p) ==
  /\ proc[p].pc = "detect" /\ made < MaxMasters
  /\ made' = made + 1
  /\ proc' = [proc EXCEPT ![p].pc = "wrap", ![p].key = Detected,
                          ![p].master = made']
  /\ UNCHANGED <<machine, lock, files, account, history, bounds>>

(* The master key goes into the keyring slot; without a keychain, or       *)
(* without an SSH key, into master.key.                                    *)
Wrap(p) ==
  /\ proc[p].pc = "wrap"
  /\ \/ /\ proc[p].key # None /\ HasStorage
        /\ slot' = [master |-> proc[p].master, key |-> proc[p].key]
        /\ UNCHANGED keyFile
     \/ /\ IF proc[p].key = None THEN machine.file ELSE ~HasStorage
        /\ keyFile' = proc[p].master /\ UNCHANGED slot
  /\ Goto(p, "register")
  /\ UNCHANGED <<machine, lock, config, encFile, account, made, history, bounds>>

Release(p, pc) ==
  /\ lock' = None
  /\ proc' = [proc EXCEPT ![p] = [Stopped EXCEPT !.pc = pc]]

(* The keychain refuses, or there is nowhere to keep the master key.       *)
Refuse(p) ==
  /\ proc[p].pc = "wrap" /\ ~machine.file
  /\ \/ proc[p].key = None /\ UNCHANGED faults
     \/ /\ proc[p].key # None /\ machine.keychain
        /\ faults < MaxFaults /\ faults' = faults + 1
  /\ Release(p, "idle")
  /\ UNCHANGED <<machine, files, account, made, history, commands>>

NewConfig(p, sync) == [tier |-> "standard", key |-> proc[p].key, sync |-> sync]

Save(p, c) == proc' = [proc EXCEPT ![p].pc = "truncate", ![p].save = c]

(* attemptSyncRegistration: a challenge, its signature, the registration.  *)
(* A key in the keychain cannot sign; a key the server has is an answer    *)
(* 409; a request or an answer may be lost.                                *)
SkipRegistration(p) ==
  /\ proc[p].pc = "register" /\ proc[p].key = None
  /\ Save(p, NewConfig(p, "off"))
  /\ UNCHANGED <<machine, lock, files, account, made, history, bounds>>

Register(p) ==
  /\ proc[p].pc = "register" /\ proc[p].key # None
  /\ \/ /\ proc[p].key \notin account \cup {"made"}
        /\ account' = account \cup {proc[p].key}
        /\ Goto(p, "upload")
     \/ /\ proc[p].key \in account
        /\ Save(p, NewConfig(p, "on")) /\ UNCHANGED account
     \/ /\ account' \in {account, account \cup ({proc[p].key} \ {"made"})}
        /\ Save(p, NewConfig(p, "pending"))
  /\ UNCHANGED <<machine, lock, files, made, history, bounds>>

(* uploadWrappedMasterKey: the answer is not looked at; an exception leaves *)
(* the registration pending, though the server has it.                     *)
Upload(p) ==
  /\ proc[p].pc = "upload"
  /\ \E sync \in {"on", "pending"} : Save(p, NewConfig(p, sync))
  /\ UNCHANGED <<machine, lock, files, account, made, history, bounds>>

(* writeFileSync: the file is truncated, then filled.                      *)
Truncate(p) ==
  /\ proc[p].pc = "truncate"
  /\ config' = Torn
  /\ Goto(p, "write")
  /\ UNCHANGED <<machine, lock, slot, keyFile, encFile, account, made, history,
                 bounds>>

Write(p) ==
  /\ proc[p].pc = "write"
  /\ config' = proc[p].save
  /\ IF proc[p].boot THEN Goto(p, "release") ELSE Stop(p)
  /\ UNCHANGED <<machine, lock, slot, keyFile, encFile, account, made, history,
                 bounds>>

(* Whatever lock file there is.                                            *)
Leave(p) ==
  /\ proc[p].pc = "release"
  /\ stolen' = (stolen \/ (lock # None /\ lock.owner # p /\ proc[lock.owner].boot))
  /\ Release(p, "reload")
  /\ UNCHANGED <<machine, files, account, made, used, broken, bounds>>

(* "Bootstrap failed" when the config is still not readable.               *)
Reload(p) ==
  /\ proc[p].pc = "reload"
  /\ IF Readable(config)
     THEN proc' = [proc EXCEPT ![p].pc = "unlock", ![p].save = config]
     ELSE Stop(p)
  /\ UNCHANGED <<machine, lock, files, account, made, history, bounds>>

(* initializeDependencies.  The server stays up, whether or not it found a *)
(* master key, and has no more business with the files.                    *)
Unlock(p) ==
  /\ proc[p].pc = "unlock"
  /\ used' = used \cup ({Unlocked(proc[p].save)} \ {None})
  /\ Stop(p)
  /\ UNCHANGED <<machine, lock, files, account, made, stolen, broken, bounds>>

-----------------------------------------------------------------------------
(* Commands.  Each works on the config it read at its start.               *)

Running == {p \in Proc : ~proc[p].boot /\ proc[p].pc \in Command \cup Saving}

StartCommand(p, pc) ==
  /\ proc[p].pc = "idle" /\ Readable(config)
  /\ commands < MaxCommands /\ Cardinality(Running) < AtOnce
  /\ commands' = commands + 1
  /\ proc' = [proc EXCEPT ![p].pc = pc, ![p].save = config]
  /\ UNCHANGED <<machine, lock, files, account, made, history, faults>>

(* config safety, and whatever else rewrites a part of the config that     *)
(* does not matter here.                                                   *)
StartEdit(p) == StartCommand(p, "edit")

Edit(p) ==
  /\ proc[p].pc = "edit"
  /\ Goto(p, "truncate")
  /\ UNCHANGED <<machine, lock, files, account, made, history, bounds>>

StartUpgrade(p) ==
  /\ Readable(config) /\ config.tier = "standard"
  /\ PrivateKey(config) # None /\ HasStorage /\ slot # None
  /\ StartCommand(p, "up unlock")

StartRotate(p) ==
  /\ Readable(config) /\ config.key \notin {None, "second"}
  /\ config.sync # "off"
  /\ PrivateKey(config) # None
  /\ StartCommand(p, "rot unlock")

(* After the prompts: the master key from the slot, or the command ends.   *)
UnlockSlot(p, from, to) ==
  LET master == FromSlot(proc[p].save) IN
  /\ proc[p].pc = from
  /\ IF master = None THEN Stop(p)
     ELSE proc' = [proc EXCEPT ![p].pc = to, ![p].master = master]
  /\ UNCHANGED <<machine, lock, files, account, made, history, bounds>>

(* The old wrapping is removed first.                                      *)
DropFirst(p) ==
  /\ proc[p].pc = "up unlock" /\ FromSlot(proc[p].save) # None
  /\ proc' = [proc EXCEPT ![p].pc = "up blob",
                          ![p].master = FromSlot(proc[p].save)]
  /\ slot' = None
  /\ UNCHANGED <<machine, lock, config, keyFile, encFile, account, made,
                 history, bounds>>

UpgradeUnlock(p) == UnlockSlot(p, "up unlock", "up blob")
RotateUnlock(p) == UnlockSlot(p, "rot unlock", "rot start")

TruncateBlob(p) ==
  /\ proc[p].pc = "up blob"
  /\ encFile' = Torn /\ Goto(p, "up write")
  /\ UNCHANGED <<machine, lock, config, slot, keyFile, account, made, history,
                 bounds>>

WriteBlob(p) ==
  /\ proc[p].pc = "up write"
  /\ encFile' = proc[p].master /\ Goto(p, "up verify")
  /\ UNCHANGED <<machine, lock, config, slot, keyFile, account, made, history,
                 bounds>>

(* verifyRoundTrip reads the blob back.                                    *)
VerifyBlob(p) ==
  /\ proc[p].pc = "up verify"
  /\ IF encFile = Torn THEN Stop(p) ELSE Goto(p, "up drop")
  /\ UNCHANGED <<machine, lock, files, account, made, history, bounds>>

DropSlot(p) ==
  /\ proc[p].pc = "up drop"
  /\ slot' = None /\ Goto(p, "up unlink")
  /\ UNCHANGED <<machine, lock, config, keyFile, encFile, account, made, history,
                 bounds>>

DropKeyFile(p) ==
  /\ proc[p].pc = "up unlink"
  /\ keyFile' = None
  /\ Save(p, [proc[p].save EXCEPT !.tier = "maximum"])
  /\ UNCHANGED <<machine, lock, config, slot, encFile, account, made, history,
                 bounds>>

(* POST /v1/rotate-start signed with the old key.                          *)
RotateStart(p) ==
  /\ proc[p].pc = "rot start"
  /\ \/ /\ PrivateKey(proc[p].save) \in account
        /\ account' = account \cup {"second"} /\ Goto(p, "rot put")
     \/ /\ account' = account /\ Stop(p)
     \/ /\ PrivateKey(proc[p].save) \in account
        /\ account' = account \cup {"second"} /\ Stop(p)
  /\ UNCHANGED <<machine, lock, files, made, history, bounds>>

(* PUT /v1/wrapped-key signed with the new key; an error ends the command. *)
RotatePut(p) ==
  /\ proc[p].pc = "rot put"
  /\ Goto(p, "rot slot") \/ Stop(p)
  /\ UNCHANGED <<machine, lock, files, account, made, history, bounds>>

(* The config names the new key and the keyring still wraps for the old.   *)
KeepSlot(p) ==
  /\ proc[p].pc = "rot slot"
  /\ Save(p, [proc[p].save EXCEPT !.key = "second"])
  /\ UNCHANGED <<machine, lock, files, account, made, history, bounds>>

RotateSlot(p) ==
  /\ proc[p].pc = "rot slot"
  /\ slot' = [master |-> proc[p].master, key |-> "second"]
  /\ Save(p, [proc[p].save EXCEPT !.key = "second"])
  /\ UNCHANGED <<machine, lock, config, keyFile, encFile, account, made, history,
                 bounds>>

-----------------------------------------------------------------------------
Crash(p) ==
  /\ proc[p].pc # "idle" /\ faults < MaxFaults
  /\ faults' = faults + 1
  /\ broken' = (broken \/ p \in Running)
  /\ Stop(p)
  /\ UNCHANGED <<machine, lock, files, account, made, used, stolen, commands>>

(* What a launch does by itself, and the agent that restarts the server.   *)
Serve(p) ==
  \/ Launch(p) \/ Boot(p) \/ Lock(p) \/ FindLocked(p) \/ Unlink(p)
  \/ CheckAgain(p) \/ Detect(p) \/ Wrap(p) \/ SkipRegistration(p) \/ Register(p)
  \/ Upload(p) \/ Truncate(p) \/ Write(p) \/ Leave(p) \/ Reload(p) \/ Unlock(p)

Order(p) ==
  \/ StartEdit(p) \/ Edit(p) \/ StartUpgrade(p) \/ UpgradeUnlock(p)
  \/ TruncateBlob(p) \/ WriteBlob(p) \/ VerifyBlob(p) \/ DropSlot(p)
  \/ DropKeyFile(p) \/ StartRotate(p) \/ RotateUnlock(p) \/ RotateStart(p)
  \/ RotatePut(p) \/ RotateSlot(p)

Next == Tick \/ \E p \in Proc : Serve(p) \/ Order(p) \/ Refuse(p) \/ Crash(p)

Spec == Init /\ [][Next]_vars /\ WF_vars(Tick) /\ \A p \in Proc : WF_vars(Serve(p))

-----------------------------------------------------------------------------
(* As long as no running bootstrap lost its lock, servers of this computer *)
(* never start with two different master keys: the one bootstrap that      *)
(* writes the config is the last to store a master key (bootstrap.ts:80).  *)
OneMaster == ~stolen => Cardinality(used) <= 1

Held == ({keyFile, encFile} \cap Master)
        \cup (IF slot # None /\ slot.key \in {"first", "second"}
              THEN {slot.master} ELSE {})

(* Whatever command or launch dies at whatever point, and with one command *)
(* at a time, a master key that data was sealed under can still be had:    *)
(* upgrade-tier removes the old wrapping only once the new one is verified,*)
(* rotate-key replaces it by one of the same master key.                   *)
MasterSurvives == ~stolen => used \subseteq Held

(* Unless one died half-way, commands leave a config and a keyring that    *)
(* belong together: the next launch unlocks the same master key.           *)
ConfigOpens ==
  (~stolen /\ ~broken /\ Readable(config) /\ Running = {})
     => /\ Unlocked(config) # None
        /\ used \subseteq {Unlocked(config)}

(* A computer whose agent keeps restarting the server gets its config file, *)
(* whatever locks dead processes left behind (bootstrap-lock.ts:46-53); the *)
(* file is whole unless a process died in its write.                        *)
EventuallyConfigured == <>(config # None)

(* "falls back to a filesystem store when CHAOSKB_KEY_STORAGE=file is set   *)
(* or the OS keychain is unavailable" (bootstrap.ts:41-43)                 *)
FallbackOpens ==
  \A p \in Proc : proc[p].pc = "unlock" => Unlocked(proc[p].save) # None
=============================================================================
