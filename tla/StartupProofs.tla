---------------------------- MODULE StartupProofs ----------------------------
(***************************************************************************)
(* Theorems about Startup, for any number of processes, any bounds and,    *)
(* but for the last, any kind of computer.                                 *)
(***************************************************************************)
EXTENDS Startup, FiniteSetTheorems, TLAPS

Pc == {"idle", "boot", "lock", "sleep", "unlink", "reload", "unlock"}
      \cup Booting \cup Command \cup Saving

Process == [pc : Pc, boot : BOOLEAN, tries : 0..MaxRetries, key : Key \cup {None},
            master : Master \cup {None}, save : Config \cup {None}]

(* The steps of a command that took the master key out of the slot, and    *)
(* those of a bootstrap that found no config.                              *)
Unlocking == {"up blob", "up write", "up verify", "up drop", "up unlink",
              "rot start", "rot put", "rot slot"}
Creating == {"detect", "wrap", "register", "upload", "truncate"}

(* A bootstrap on this computer uses the keyring slot, not master.key.      *)
InSlot == Detected # None /\ HasStorage

(***************************************************************************)
(* Type correctness.  What a process holds depends on its step.            *)
(***************************************************************************)

Own(r) ==
  /\ r.pc = "idle" => r = Stopped
  /\ r.pc = "boot" => r.tries = 0
  /\ r.pc = "lock" => r.tries < MaxRetries
  /\ r.pc \in Booting => r.boot
  /\ r.boot => r.pc \in Booting \cup Saving
  /\ r.pc = "wrap" => r.master \in Master /\ r.key = Detected
  /\ r.pc \in Saving \cup Command \cup {"unlock"} => r.save \in Config
  /\ r.pc \in Unlocking => r.master \in Master /\ InSlot

(* A computer keeps its master key in one place.                           *)
OnePlace == IF InSlot THEN keyFile = None ELSE slot = None

TypeInv == TypeOK /\ OnePlace /\ \A p \in Proc : Own(proc[p])

LEMMA Apart ==
  /\ None # Torn /\ None \notin Master /\ Torn \notin Master
  /\ None \notin Key /\ None \notin Config /\ Torn \notin Config
  /\ None \notin LockFile /\ None \notin Slot
BY StartupAssumption

LEMMA StoppedIsOne == Stopped \in Process /\ Own(Stopped)
BY StartupAssumption DEF Stopped, Process, Pc, Own, Booting, Saving, Command, Unlocking

LEMMA DetectedKey == Detected \in Key \cup {None}
BY DEF Detected, Key

(* What FromSlot returns.                                                  *)
LEMMA FromSlotType ==
  ASSUME TypeInv, NEW c, FromSlot(c) # None
  PROVE  /\ FromSlot(c) \in Master /\ slot # None /\ slot.master = FromSlot(c)
         /\ slot \in Slot /\ slot.key = PrivateKey(c)
         /\ slot.key \in {"first", "second"} /\ InSlot
<1>1. slot # None /\ FromSlot(c) = slot.master /\ slot.key = PrivateKey(c)
  BY DEF FromSlot
<1>2. slot \in Slot /\ InSlot
  BY <1>1, Apart DEF TypeInv, TypeOK, OnePlace
<1>3. PrivateKey(c) \in {"first", "second", None}
  BY DEF PrivateKey
<1> QED BY <1>1, <1>2, <1>3, Apart DEF Slot

(* One process, p, becomes r.                                              *)
Becomes(p, r) ==
  /\ proc' \in [Proc -> Process] /\ r \in Process /\ proc'[p] = r
  /\ \A q \in Proc : q # p => proc'[q] = proc[q]

LEMMA OneMoves ==
  ASSUME TypeInv, NEW p \in Proc, NEW r \in Process, proc' = [proc EXCEPT ![p] = r]
  PROVE  Becomes(p, r)
BY DEF TypeInv, TypeOK, Process, Pc, Becomes

LEMMA ProcType == ASSUME TypeInv, NEW p \in Proc PROVE proc \in [Proc -> Process] /\ proc[p] \in Process
BY DEF TypeInv, TypeOK, Process, Pc

(* A process that stops, and one that stops but for its next step.         *)
LEMMA StopMoves ==
  ASSUME TypeInv, NEW p \in Proc, Stop(p) PROVE Becomes(p, Stopped)
BY OneMoves, StoppedIsOne DEF Stop

(* The record that a step leads to, written out.                           *)
With(r, pc, m, s) ==
  [pc |-> pc, boot |-> r.boot, tries |-> r.tries, key |-> r.key, master |-> m, save |-> s]

LEMMA WithPc ==
  ASSUME NEW r \in Process, NEW pc
  PROVE  [r EXCEPT !.pc = pc] = With(r, pc, r.master, r.save)
BY DEF Process, With

LEMMA WithSave ==
  ASSUME NEW r \in Process, NEW pc \in Pc, NEW c
  PROVE  [[r EXCEPT !.pc = pc] EXCEPT !.save = c] = With(r, pc, r.master, c)
<1> DEFINE y == [r EXCEPT !.pc = pc]
<1>1. y \in Process /\ y = With(r, pc, r.master, r.save)
  BY WithPc DEF Process
<1> DEFINE x == [y EXCEPT !.save = c]
<1>2. x = With(r, pc, r.master, c)
  <2> HIDE DEF y
  <2> QED BY <1>1 DEF Process, With
<1> QED BY <1>2

LEMMA WithMaster ==
  ASSUME NEW r \in Process, NEW pc \in Pc, NEW m
  PROVE  [[r EXCEPT !.pc = pc] EXCEPT !.master = m] = With(r, pc, m, r.save)
<1> DEFINE y == [r EXCEPT !.pc = pc]
<1>1. y \in Process /\ y = With(r, pc, r.master, r.save)
  BY WithPc DEF Process
<1> DEFINE x == [y EXCEPT !.master = m]
<1>2. x = With(r, pc, m, r.save)
  <2> HIDE DEF y
  <2> QED BY <1>1 DEF Process, With
<1> QED BY <1>2

LEMMA WithType ==
  ASSUME NEW r \in Process, NEW pc \in Pc, NEW m \in Master \cup {None},
         NEW s \in Config \cup {None}
  PROVE  With(r, pc, m, s) \in Process
BY DEF Process, With

LEMMA GotoMoves ==
  ASSUME TypeInv, NEW p \in Proc, NEW pc \in Pc, Goto(p, pc)
  PROVE  Becomes(p, With(proc[p], pc, proc[p].master, proc[p].save))
<1>1. proc \in [Proc -> Process] /\ proc[p] \in Process
  BY ProcType
<1>2. proc' = [proc EXCEPT ![p] = [proc[p] EXCEPT !.pc = pc]]
  BY <1>1 DEF Goto
<1>3. proc[p].master \in Master \cup {None} /\ proc[p].save \in Config \cup {None}
  BY <1>1 DEF Process
<1> QED BY <1>1, <1>2, <1>3, WithPc, WithType, OneMoves

LEMMA SaveMoves ==
  ASSUME TypeInv, NEW p \in Proc, NEW pc \in Pc, NEW c \in Config,
         proc' = [proc EXCEPT ![p].pc = pc, ![p].save = c]
  PROVE  Becomes(p, With(proc[p], pc, proc[p].master, c))
<1>1. proc \in [Proc -> Process] /\ proc[p] \in Process
  BY ProcType
<1> DEFINE x == [[proc[p] EXCEPT !.pc = pc] EXCEPT !.save = c]
<1>2. proc' = [proc EXCEPT ![p] = x]
  BY <1>1
<1>3. proc[p].master \in Master \cup {None}
  BY <1>1 DEF Process
<1>4. x = With(proc[p], pc, proc[p].master, c) 
  BY <1>1, WithSave
<1>5. x \in Process
  BY <1>1, <1>3, <1>4, WithType
<1> HIDE DEF x
<1> QED BY <1>2, <1>4, <1>5, OneMoves

LEMMA MasterMoves ==
  ASSUME TypeInv, NEW p \in Proc, NEW pc \in Pc, NEW m \in Master,
         proc' = [proc EXCEPT ![p].pc = pc, ![p].master = m]
  PROVE  Becomes(p, With(proc[p], pc, m, proc[p].save))
<1>1. proc \in [Proc -> Process] /\ proc[p] \in Process
  BY ProcType
<1> DEFINE x == [[proc[p] EXCEPT !.pc = pc] EXCEPT !.master = m]
<1>2. proc' = [proc EXCEPT ![p] = x]
  BY <1>1
<1>3. proc[p].save \in Config \cup {None}
  BY <1>1 DEF Process
<1>4. x = With(proc[p], pc, m, proc[p].save) 
  BY <1>1, WithMaster
<1>5. x \in Process
  BY <1>1, <1>3, <1>4, WithType
<1> HIDE DEF x
<1> QED BY <1>2, <1>4, <1>5, OneMoves

(* The part of TypeInv that is not about the processes.                    *)
FilesType ==
  /\ machine \in Machine
  /\ lock \in LockFile \cup {None}
  /\ config \in Config \cup {None, Torn}
  /\ slot \in Slot \cup {None}
  /\ keyFile \in Master \cup {None}
  /\ encFile \in Master \cup {None, Torn}
  /\ account \subseteq Key
  /\ made \in 0..MaxMasters
  /\ used \subseteq Master
  /\ stolen \in BOOLEAN /\ broken \in BOOLEAN
  /\ faults \in 0..MaxFaults /\ commands \in 0..MaxCommands
  /\ OnePlace

LEMMA TypeParts ==
  TypeInv <=> FilesType /\ proc \in [Proc -> Process] /\ \A p \in Proc : Own(proc[p])
BY DEF TypeInv, TypeOK, FilesType, Process, Pc

LEMMA OthersOwn ==
  ASSUME TypeInv, NEW p \in Proc, NEW r, Becomes(p, r), Own(r), machine' = machine
  PROVE  proc' \in [Proc -> Process] /\ \A q \in Proc : Own(proc[q])'
BY DEF TypeInv, Becomes, Own, InSlot, Detected, HasStorage

LEMMA FilesKept ==
  ASSUME TypeInv, UNCHANGED <<machine, lock, files, account, made, history, bounds>>
  PROVE  FilesType'
BY DEF TypeInv, TypeOK, FilesType, files, history, bounds, OnePlace, InSlot, Detected,
       HasStorage

(* A process goes to another step and keeps what it holds.                 *)
To(p, pc) == With(proc[p], pc, proc[p].master, proc[p].save)

Moves(p, r) == Becomes(p, r) /\ Own(r)

LEMMA OwnNow ==
  ASSUME TypeInv, NEW p \in Proc PROVE proc[p] \in Process /\ Own(proc[p])
BY ProcType DEF TypeInv

(* The steps of a process that keeps what it holds and needs no more.      *)
LEMMA ToMoves ==
  ASSUME TypeInv, NEW p \in Proc, NEW pc \in Pc, Goto(p, pc),
         pc \notin {"idle", "boot", "lock", "wrap"},
         pc \in Booting => proc[p].boot,
         proc[p].boot => pc \in Booting \cup Saving,
         pc \in Saving \cup Command \cup {"unlock"} => proc[p].save \in Config,
         pc \in Unlocking => proc[p].pc \in Unlocking
  PROVE  Moves(p, To(p, pc))
<1>1. Becomes(p, To(p, pc))
  BY GotoMoves DEF To
<1>2. Own(To(p, pc))
  BY OwnNow DEF To, Own, With
<1> QED BY <1>1, <1>2 DEF Moves

(* A config about to be written.                                           *)
LEMMA SavingMoves ==
  ASSUME TypeInv, NEW p \in Proc, NEW c \in Config, Save(p, c)
  PROVE  Moves(p, With(proc[p], "truncate", proc[p].master, c))
<1>1. Becomes(p, With(proc[p], "truncate", proc[p].master, c))
  BY SaveMoves DEF Save, Pc, Saving
<1>2. Own(With(proc[p], "truncate", proc[p].master, c))
  BY OwnNow DEF Own, With, Booting, Saving, Command, Unlocking
<1> QED BY <1>1, <1>2 DEF Moves

LEMMA StopIsMove ==
  ASSUME TypeInv, NEW p \in Proc, Stop(p) PROVE Moves(p, Stopped)
BY StopMoves, StoppedIsOne DEF Moves

LEMMA NewConfigs ==
  ASSUME TypeInv, NEW p \in Proc, NEW sync \in {"on", "pending", "off"}
  PROVE  NewConfig(p, sync) \in Config
BY ProcType DEF NewConfig, Config, Process

(* What each action makes of its process.                                  *)
LEMMA LaunchMoves ==
  ASSUME TypeInv, NEW p \in Proc, Launch(p)
  PROVE  \/ /\ config \in Config
            /\ Moves(p, With(proc[p], "unlock", proc[p].master, config))
         \/ Moves(p, To(p, "boot"))
<1>1. proc[p] = Stopped /\ proc[p].pc = "idle" /\ ~proc[p].boot /\ proc[p].tries = 0
  <2>1. proc[p] = Stopped /\ proc[p].pc = "idle"
    BY OwnNow DEF Launch, Own
  <2>2. ~Stopped.boot /\ Stopped.tries = 0
    BY DEF Stopped
  <2> QED BY <2>1, <2>2
<1>2. CASE Readable(config)
  <2>1. config \in Config
    BY <1>2 DEF Readable, TypeInv, TypeOK
  <2>2. Becomes(p, With(proc[p], "unlock", proc[p].master, config))
    BY <1>2, <2>1, SaveMoves DEF Launch, Pc
  <2>3. Own(With(proc[p], "unlock", proc[p].master, config))
    BY <1>1, <2>1 DEF Own, With, Booting, Saving, Command, Unlocking
  <2> QED BY <2>1, <2>2, <2>3 DEF Moves
<1>3. CASE ~Readable(config)
  <2>1. Becomes(p, To(p, "boot"))
    BY <1>3, GotoMoves DEF Launch, Pc, To
  <2>2. Own(To(p, "boot"))
    BY <1>1 DEF Own, To, With, Booting, Saving, Command, Unlocking
  <2> QED BY <2>1, <2>2 DEF Moves
<1> QED BY <1>2, <1>3

LEMMA BootMoves ==
  ASSUME TypeInv, NEW p \in Proc, Boot(p)
  PROVE  Moves(p, To(p, "reload")) \/ Moves(p, To(p, "lock"))
<1>1. proc[p].pc = "boot" /\ proc[p].tries = 0 /\ ~proc[p].boot
  BY OwnNow DEF Boot, Own, Booting, Saving
<1>2. CASE config # None
  <2>1. Goto(p, "reload")
    BY <1>2 DEF Boot
  <2> QED BY <1>1, <2>1, ToMoves DEF Pc, Booting, Saving, Command, Unlocking
<1>3. CASE config = None
  <2>1. Becomes(p, To(p, "lock"))
    BY <1>3, GotoMoves DEF Boot, Pc, To
  <2>2. Own(To(p, "lock"))
    BY <1>1, StartupAssumption DEF Own, To, With, Booting, Saving, Command, Unlocking
  <2> QED BY <2>1, <2>2 DEF Moves
<1> QED BY <1>2, <1>3

LEMMA LockMoves ==
  ASSUME TypeInv, NEW p \in Proc, Lock(p)
  PROVE  \E r \in Process : /\ Moves(p, r) /\ r.pc = "check" /\ r.boot
<1> DEFINE r == [[[proc[p] EXCEPT !.pc = "check"] EXCEPT !.boot = TRUE] EXCEPT !.tries = 0]
<1>1. proc[p] \in Process /\ proc \in [Proc -> Process]
  BY ProcType
<1>2. proc' = [proc EXCEPT ![p] = r]
  BY <1>1 DEF Lock
<1>3. r \in Process /\ r.pc = "check" /\ r.boot
  <2> DEFINE a == [proc[p] EXCEPT !.pc = "check"]
  <2> DEFINE b == [a EXCEPT !.boot = TRUE]
  <2>1. a \in Process /\ a.pc = "check"
    BY <1>1 DEF Process, Pc, Booting
  <2> HIDE DEF a
  <2>2. b \in Process /\ b.pc = "check" /\ b.boot
    BY <2>1 DEF Process
  <2> HIDE DEF b
  <2>3. [b EXCEPT !.tries = 0] \in Process
    BY <2>2, StartupAssumption DEF Process
  <2>4. [b EXCEPT !.tries = 0].pc = "check" /\ [b EXCEPT !.tries = 0].boot
    BY <2>2 DEF Process
  <2> QED BY <2>3, <2>4 DEF a, b
<1> HIDE DEF r
<1>4. Own(r)
  BY <1>3 DEF Own, Booting, Saving, Command, Unlocking
<1> QED BY <1>2, <1>3, <1>4, OneMoves DEF Moves

(* An attempt at the lock, and the end of a wait.                          *)
LEMMA FindLockedMoves ==
  ASSUME TypeInv, NEW p \in Proc, FindLocked(p)
  PROVE  \E r \in Process : /\ Moves(p, r) /\ r.pc \in {"unlink", "sleep"} /\ ~r.boot
<1> DEFINE pc == IF IsStale THEN "unlink" ELSE "sleep"
<1> DEFINE r == [[proc[p] EXCEPT !.tries = @ + 1] EXCEPT !.pc = pc]
<1>1. proc[p] \in Process /\ proc \in [Proc -> Process]
  BY ProcType
<1>2. proc' = [proc EXCEPT ![p] = r]
  BY <1>1 DEF FindLocked, Attempt
<1>3. proc[p].pc = "lock" /\ proc[p].tries < MaxRetries /\ ~proc[p].boot
  BY OwnNow DEF FindLocked, Own, Booting, Saving
<1>4. r \in Process /\ r.pc \in {"unlink", "sleep"} /\ ~r.boot
  <2> DEFINE a == [proc[p] EXCEPT !.tries = @ + 1]
  <2>1. a \in Process /\ ~a.boot
    BY <1>1, <1>3, StartupAssumption DEF Process
  <2> HIDE DEF a
  <2>2. pc \in {"unlink", "sleep"}
    OBVIOUS
  <2> HIDE DEF pc
  <2>3. [a EXCEPT !.pc = pc] \in Process /\ [a EXCEPT !.pc = pc].pc = pc
        /\ [a EXCEPT !.pc = pc].boot = a.boot
    BY <2>1, <2>2 DEF Process, Pc
  <2> QED BY <2>1, <2>2, <2>3 DEF a
<1> HIDE DEF r
<1>5. Own(r)
  BY <1>4 DEF Own, Booting, Saving, Command, Unlocking
<1> QED BY <1>2, <1>4, <1>5, OneMoves DEF Moves

LEMMA AgainOwn ==
  ASSUME NEW r \in Process, ~r.boot
  PROVE  /\ Again(r) \in Process /\ Own(Again(r)) /\ ~Again(r).boot
         /\ Again(r).pc \in {"lock", "idle"}
<1>1. CASE r.tries < MaxRetries
  <2>1. Again(r) = With(r, "lock", r.master, r.save)
    BY <1>1, WithPc DEF Again
  <2>2. Again(r) \in Process
    BY <2>1, WithType DEF Process, Pc
  <2> QED BY <1>1, <2>1, <2>2 DEF With, Own, Booting, Saving, Command, Unlocking
<1>2. CASE ~(r.tries < MaxRetries)
  BY <1>2, StoppedIsOne DEF Again, Stopped
<1> QED BY <1>1, <1>2

LEMMA UnlinkMoves ==
  ASSUME TypeInv, NEW p \in Proc, Unlink(p)
  PROVE  /\ Moves(p, Again(proc[p])) /\ ~Again(proc[p]).boot
         /\ Again(proc[p]).pc \in {"lock", "idle"}
<1>1. ~proc[p].boot /\ proc[p] \in Process /\ proc \in [Proc -> Process]
  BY OwnNow, ProcType DEF Unlink, Own, Booting, Saving
<1>2. proc' = [proc EXCEPT ![p] = Again(proc[p])]
  BY <1>1 DEF Unlink
<1> QED BY <1>1, <1>2, AgainOwn, OneMoves DEF Moves

LEMMA CheckMoves ==
  ASSUME TypeInv, NEW p \in Proc, CheckAgain(p)
  PROVE  \/ config # None /\ Moves(p, To(p, "release"))
         \/ config = None /\ Moves(p, To(p, "detect"))
<1>1. proc[p].pc = "check" /\ proc[p].boot
  BY OwnNow DEF CheckAgain, Own, Booting
<1>2. CASE config # None
  <2>1. Goto(p, "release")
    BY <1>2 DEF CheckAgain
  <2> QED BY <1>1, <1>2, <2>1, ToMoves DEF Pc, Booting, Saving, Command, Unlocking
<1>3. CASE config = None
  <2>1. Goto(p, "detect")
    BY <1>3 DEF CheckAgain
  <2> QED BY <1>1, <1>3, <2>1, ToMoves DEF Pc, Booting, Saving, Command, Unlocking
<1> QED BY <1>2, <1>3

LEMMA DetectMoves ==
  ASSUME TypeInv, NEW p \in Proc, Detect(p)
  PROVE  \E r \in Process : Moves(p, r) /\ r.pc = "wrap" /\ r.boot
<1> DEFINE a == [proc[p] EXCEPT !.pc = "wrap"]
<1> DEFINE b == [a EXCEPT !.key = Detected]
<1> DEFINE r == [b EXCEPT !.master = made']
<1>1. proc[p] \in Process /\ proc \in [Proc -> Process] /\ proc[p].boot
  BY OwnNow, ProcType DEF Detect, Own, Booting
<1>2. proc' = [proc EXCEPT ![p] = r]
  BY <1>1 DEF Detect
<1>3. made' \in Master
  BY StartupAssumption DEF Detect, Master, TypeInv, TypeOK
<1>4. a \in Process /\ a.pc = "wrap" /\ a.boot
  BY <1>1 DEF Process, Pc, Booting
<1> HIDE DEF a
<1>5. b \in Process /\ b.pc = "wrap" /\ b.boot /\ b.key = Detected
  BY <1>4, DetectedKey DEF Process
<1> HIDE DEF b
<1>6. /\ r \in Process /\ r.pc = "wrap" /\ r.boot /\ r.key = Detected
      /\ r.master \in Master
  BY <1>5, <1>3 DEF Process
<1> HIDE DEF r
<1>7. Own(r)
  BY <1>6 DEF Own, Booting, Saving, Command, Unlocking
<1> QED BY <1>2, <1>6, <1>7, OneMoves DEF Moves

LEMMA WrapMoves ==
  ASSUME TypeInv, NEW p \in Proc, Wrap(p) PROVE Moves(p, To(p, "register"))
<1>1. proc[p].pc = "wrap" /\ proc[p].boot /\ Goto(p, "register")
  BY OwnNow DEF Wrap, Own, Booting
<1> QED BY <1>1, ToMoves DEF Pc, Booting, Saving, Command, Unlocking

(* Out of the bootstrap, to step pc.                                       *)
LEMMA ReleaseMoves ==
  ASSUME TypeInv, NEW p \in Proc, NEW pc \in {"idle", "reload"}, Release(p, pc)
  PROVE  Moves(p, With(Stopped, pc, None, None))
<1>1. proc' = [proc EXCEPT ![p] = [Stopped EXCEPT !.pc = pc]]
  BY DEF Release
<1>2. Stopped.master = None /\ Stopped.save = None /\ ~Stopped.boot
  BY DEF Stopped
<1>3. [Stopped EXCEPT !.pc = pc] = With(Stopped, pc, None, None)
  BY <1>2, StoppedIsOne, WithPc
<1>4. With(Stopped, pc, None, None) \in Process
  BY StoppedIsOne, WithType DEF Pc
<1>5. Own(With(Stopped, pc, None, None))
  <2>1. With(Stopped, "idle", None, None) = Stopped
    BY DEF With, Stopped
  <2> QED BY <1>2, <2>1 DEF With, Own, Booting, Saving, Command, Unlocking
<1> QED BY <1>1, <1>3, <1>4, <1>5, OneMoves DEF Moves

(* The end of the bootstrap's work: the config is about to be written.      *)
LEMMA RegistrationMoves ==
  ASSUME TypeInv, NEW p \in Proc, SkipRegistration(p) \/ Register(p) \/ Upload(p)
  PROVE  \/ Moves(p, To(p, "upload"))
         \/ \E sync \in {"on", "pending", "off"} :
              Moves(p, With(proc[p], "truncate", proc[p].master, NewConfig(p, sync)))
<1>1. proc[p].boot
  BY OwnNow DEF SkipRegistration, Register, Upload, Own, Booting
<1>2. \/ Goto(p, "upload")
      \/ \E sync \in {"on", "pending", "off"} : Save(p, NewConfig(p, sync))
  BY DEF SkipRegistration, Register, Upload
<1>3. CASE Goto(p, "upload")
  BY <1>1, <1>3, ToMoves DEF Pc, Booting, Saving, Command, Unlocking
<1>4. CASE \E sync \in {"on", "pending", "off"} : Save(p, NewConfig(p, sync))
  BY <1>4, SavingMoves, NewConfigs
<1> QED BY <1>2, <1>3, <1>4

LEMMA TruncateMoves ==
  ASSUME TypeInv, NEW p \in Proc, Truncate(p) PROVE Moves(p, To(p, "write"))
<1>1. proc[p].pc = "truncate" /\ proc[p].save \in Config /\ Goto(p, "write")
  BY OwnNow DEF Truncate, Own, Saving
<1> QED BY <1>1, ToMoves DEF Pc, Booting, Saving, Command, Unlocking

LEMMA WriteMoves ==
  ASSUME TypeInv, NEW p \in Proc, Write(p)
  PROVE  /\ proc[p].save \in Config
         /\ \/ proc[p].boot /\ Moves(p, To(p, "release"))
            \/ ~proc[p].boot /\ Moves(p, Stopped)
<1>1. proc[p].pc = "write" /\ proc[p].save \in Config
  BY OwnNow DEF Write, Own, Saving
<1>2. CASE proc[p].boot
  <2>1. Goto(p, "release")
    BY <1>2 DEF Write
  <2> QED BY <1>1, <1>2, <2>1, ToMoves DEF Pc, Booting, Saving, Command, Unlocking
<1>3. CASE ~proc[p].boot
  BY <1>1, <1>3, StopIsMove DEF Write
<1> QED BY <1>2, <1>3

LEMMA ReloadMoves ==
  ASSUME TypeInv, NEW p \in Proc, Reload(p)
  PROVE  \/ /\ config \in Config
            /\ Moves(p, With(proc[p], "unlock", proc[p].master, config))
         \/ Moves(p, Stopped)
<1>1. proc[p].pc = "reload" /\ ~proc[p].boot
  BY OwnNow DEF Reload, Own, Booting, Saving
<1>2. CASE Readable(config)
  <2>1. config \in Config
    BY <1>2 DEF Readable, TypeInv, TypeOK
  <2>2. Becomes(p, With(proc[p], "unlock", proc[p].master, config))
    BY <1>2, <2>1, SaveMoves DEF Reload, Pc
  <2>3. Own(With(proc[p], "unlock", proc[p].master, config))
    BY <1>1, <2>1 DEF Own, With, Booting, Saving, Command, Unlocking
  <2> QED BY <2>1, <2>2, <2>3 DEF Moves
<1>3. CASE ~Readable(config)
  BY <1>3, StopIsMove DEF Reload
<1> QED BY <1>2, <1>3

(* Commands.                                                               *)
LEMMA CommandMoves ==
  ASSUME TypeInv, NEW p \in Proc, NEW pc \in {"edit", "up unlock", "rot unlock"},
         StartCommand(p, pc)
  PROVE  /\ config \in Config /\ proc[p].pc = "idle" /\ ~proc[p].boot
         /\ Moves(p, With(proc[p], pc, proc[p].master, config))
<1>1. proc[p].pc = "idle" /\ ~proc[p].boot
  BY OwnNow DEF StartCommand, Own, Booting, Saving
<1>2. config \in Config
  BY DEF StartCommand, Readable, TypeInv, TypeOK
<1>3. Becomes(p, With(proc[p], pc, proc[p].master, config))
  BY <1>2, SaveMoves DEF StartCommand, Pc, Command
<1>4. Own(With(proc[p], pc, proc[p].master, config))
  BY <1>1, <1>2 DEF Own, With, Booting, Saving, Command, Unlocking
<1> QED BY <1>1, <1>2, <1>3, <1>4 DEF Moves

LEMMA UnlockSlotMoves ==
  ASSUME TypeInv, NEW p \in Proc,
         UpgradeUnlock(p) \/ RotateUnlock(p)
  PROVE  /\ ~proc[p].boot /\ proc[p].pc \in {"up unlock", "rot unlock"}
         /\ \/ Moves(p, Stopped)
            \/ LET c == proc[p].save
                   pc == IF proc[p].pc = "up unlock" THEN "up blob" ELSE "rot start"
               IN  FromSlot(c) # None /\ Moves(p, With(proc[p], pc, FromSlot(c), c))
<1>1. /\ proc[p].pc \in {"up unlock", "rot unlock"}
      /\ proc[p].save \in Config /\ ~proc[p].boot
  BY OwnNow DEF UpgradeUnlock, RotateUnlock, UnlockSlot, Own, Command, Booting, Saving
<1> DEFINE c == proc[p].save
<1> DEFINE pc == IF proc[p].pc = "up unlock" THEN "up blob" ELSE "rot start"
<1>2. CASE FromSlot(c) = None
  <2>1. Stop(p)
    BY <1>2 DEF UpgradeUnlock, RotateUnlock, UnlockSlot
  <2> QED BY <1>1, <2>1, StopIsMove
<1>3. CASE FromSlot(c) # None
  <2>1. proc' = [proc EXCEPT ![p].pc = pc, ![p].master = FromSlot(c)]
    BY <1>3 DEF UpgradeUnlock, RotateUnlock, UnlockSlot
  <2>2. FromSlot(c) \in Master /\ InSlot
    BY <1>3, FromSlotType
  <2>3. pc \in {"up blob", "rot start"}
    OBVIOUS
  <2>4. Becomes(p, With(proc[p], pc, FromSlot(c), c))
    <3> HIDE DEF pc
    <3> QED BY <2>1, <2>2, <2>3, MasterMoves DEF Pc, Command
  <2>5. Own(With(proc[p], pc, FromSlot(c), c))
    <3> HIDE DEF pc
    <3> QED BY <1>1, <2>2, <2>3 DEF Own, With, Booting, Saving, Command, Unlocking
  <2> QED BY <1>1, <1>3, <2>4, <2>5 DEF Moves
<1> QED BY <1>2, <1>3

(* The steps of a command that stays with its config and its master key.   *)
LEMMA PlainMoves ==
  ASSUME TypeInv, NEW p \in Proc
  PROVE  /\ Edit(p) => Moves(p, To(p, "truncate"))
         /\ TruncateBlob(p) => Moves(p, To(p, "up write"))
         /\ WriteBlob(p) => Moves(p, To(p, "up verify"))
         /\ VerifyBlob(p) => Moves(p, Stopped) \/ Moves(p, To(p, "up drop"))
         /\ DropSlot(p) => Moves(p, To(p, "up unlink"))
         /\ RotateStart(p) => Moves(p, Stopped) \/ Moves(p, To(p, "rot put"))
         /\ RotatePut(p) => Moves(p, Stopped) \/ Moves(p, To(p, "rot slot"))
<1>1. /\ proc[p] \in Process /\ Own(proc[p])
      /\ proc[p].pc \in Command => ~proc[p].boot /\ proc[p].save \in Config
  BY OwnNow DEF Own, Command, Booting, Saving
<1>2. \A pc \in {"up write", "up verify", "up drop", "up unlink", "rot put", "rot slot"} :
        proc[p].pc \in Unlocking /\ Goto(p, pc) => Moves(p, To(p, pc))
  BY <1>1, ToMoves DEF Pc, Booting, Saving, Command, Unlocking
<1>3. Edit(p) => Moves(p, To(p, "truncate"))
  BY <1>1, ToMoves DEF Edit, Pc, Booting, Saving, Command, Unlocking
<1>4. /\ TruncateBlob(p) => Moves(p, To(p, "up write"))
      /\ WriteBlob(p) => Moves(p, To(p, "up verify"))
      /\ DropSlot(p) => Moves(p, To(p, "up unlink"))
  BY <1>2 DEF TruncateBlob, WriteBlob, DropSlot, Unlocking
<1>5. /\ VerifyBlob(p) => Moves(p, Stopped) \/ Moves(p, To(p, "up drop"))
      /\ RotateStart(p) => Moves(p, Stopped) \/ Moves(p, To(p, "rot put"))
      /\ RotatePut(p) => Moves(p, Stopped) \/ Moves(p, To(p, "rot slot"))
  BY <1>2, StopIsMove DEF VerifyBlob, RotateStart, RotatePut, Unlocking
<1> QED BY <1>3, <1>4, <1>5

(* The config that an upgrade and a rotation write.                        *)
LEMMA LastMoves ==
  ASSUME TypeInv, NEW p \in Proc
  PROVE  /\ DropKeyFile(p) =>
              Moves(p, With(proc[p], "truncate", proc[p].master,
                            [proc[p].save EXCEPT !.tier = "maximum"]))
         /\ RotateSlot(p) =>
              Moves(p, With(proc[p], "truncate", proc[p].master,
                            [proc[p].save EXCEPT !.key = "second"]))
<1> DEFINE c == proc[p].save
<1>1. DropKeyFile(p) \/ RotateSlot(p) => c \in Config
  BY OwnNow DEF DropKeyFile, RotateSlot, Own, Command
<1>2. c \in Config => /\ [c EXCEPT !.tier = "maximum"] \in Config
                      /\ [c EXCEPT !.key = "second"] \in Config
  BY DEF Config, Key
<1>3. DropKeyFile(p) => Save(p, [c EXCEPT !.tier = "maximum"])
  BY DEF DropKeyFile
<1>4. RotateSlot(p) => Save(p, [c EXCEPT !.key = "second"])
  BY DEF RotateSlot
<1> QED BY <1>1, <1>2, <1>3, <1>4, SavingMoves

(* Whatever a process does, one process moves.                             *)
Act(p) == Serve(p) \/ Order(p) \/ Refuse(p) \/ Crash(p)

LEMMA ActMoves ==
  ASSUME TypeInv, NEW p \in Proc, Act(p)
  PROVE  \E r : Moves(p, r)
<1>1. CASE Launch(p) \/ Boot(p) \/ Lock(p) \/ FindLocked(p) \/ Unlink(p)
  BY <1>1, LaunchMoves, BootMoves, LockMoves, FindLockedMoves, UnlinkMoves
<1>2. CASE CheckAgain(p) \/ Detect(p) \/ Wrap(p)
  BY <1>2, CheckMoves, DetectMoves, WrapMoves
<1>3. CASE SkipRegistration(p) \/ Register(p) \/ Upload(p)
  BY <1>3, RegistrationMoves
<1>4. CASE Truncate(p) \/ Write(p) \/ Reload(p)
  BY <1>4, TruncateMoves, WriteMoves, ReloadMoves
<1>5. CASE Leave(p)
  BY <1>5, ReleaseMoves DEF Leave
<1>6. CASE Refuse(p)
  BY <1>6, ReleaseMoves DEF Refuse
<1>7. CASE Unlock(p) \/ Crash(p)
  BY <1>7, StopIsMove DEF Unlock, Crash
<1>8. CASE StartEdit(p) \/ StartUpgrade(p) \/ StartRotate(p)
  BY <1>8, CommandMoves DEF StartEdit, StartUpgrade, StartRotate
<1>9. CASE UpgradeUnlock(p) \/ RotateUnlock(p)
  BY <1>9, UnlockSlotMoves
<1>10. CASE \/ Edit(p) \/ TruncateBlob(p) \/ WriteBlob(p) \/ VerifyBlob(p) \/ DropSlot(p)
            \/ RotateStart(p) \/ RotatePut(p)
  BY <1>10, PlainMoves
<1>11. CASE DropKeyFile(p) \/ RotateSlot(p)
  BY <1>11, LastMoves
<1> QED
  BY <1>1, <1>2, <1>3, <1>4, <1>5, <1>6, <1>7, <1>8, <1>9, <1>10, <1>11
  DEF Act, Serve, Order

(* What is on the computer stays of its type.                              *)
LEMMA ActFiles ==
  ASSUME TypeInv, NEW p \in Proc, Act(p)
  PROVE  machine' = machine /\ FilesType'
<1>1. FilesType /\ proc[p] \in Process /\ Own(proc[p])
  BY TypeParts, OwnNow
<1>2. CASE Launch(p) \/ Boot(p) \/ FindLocked(p) \/ CheckAgain(p) \/ SkipRegistration(p)
           \/ Upload(p) \/ Reload(p) \/ Edit(p) \/ UpgradeUnlock(p) \/ RotateUnlock(p)
           \/ VerifyBlob(p) \/ RotatePut(p)
  BY <1>2, FilesKept DEF Launch, Boot, FindLocked, CheckAgain, SkipRegistration, Upload,
     Reload, Edit, UpgradeUnlock, RotateUnlock, UnlockSlot, VerifyBlob, RotatePut
<1>3. CASE Lock(p)
  <2>1. lock' \in LockFile
    BY <1>3, StartupAssumption DEF Lock, LockFile
  <2> QED BY <1>1, <1>3, <2>1 DEF Lock, files, history, bounds, FilesType, OnePlace,
          InSlot, Detected, HasStorage
<1>4. CASE Unlink(p) \/ Leave(p)
  <2>1. /\ lock' = None /\ stolen' \in BOOLEAN
        /\ UNCHANGED <<machine, files, account, made, used, broken, bounds>>
    BY <1>1, <1>4 DEF Unlink, Leave, Release, FilesType
  <2> QED BY <1>1, <2>1 DEF files, bounds, FilesType, OnePlace, InSlot, Detected, HasStorage
<1>5. CASE Detect(p)
  BY <1>1, <1>5, StartupAssumption DEF Detect, files, history, bounds, FilesType, OnePlace,
     InSlot, Detected, HasStorage
<1>6. CASE Wrap(p)
  <2>1. proc[p].key = Detected /\ proc[p].master \in Master
    BY <1>1, <1>6 DEF Wrap, Own
  <2>2. /\ slot' \in Slot \cup {None} /\ keyFile' \in Master \cup {None} /\ OnePlace'
        /\ UNCHANGED <<machine, lock, config, encFile, account, made, history, bounds>>
    <3>1. \/ InSlot /\ slot' = [master |-> proc[p].master, key |-> Detected]
             /\ UNCHANGED keyFile
          \/ ~InSlot /\ keyFile' = proc[p].master /\ UNCHANGED slot
      BY <1>6, <2>1 DEF Wrap, InSlot, HasStorage
    <3>2. InSlot => Detected \in Key
      BY DetectedKey DEF InSlot
    <3>3. InSlot' = InSlot
      BY <1>6 DEF Wrap, InSlot, Detected, HasStorage
    <3> QED BY <1>1, <1>6, <2>1, <3>1, <3>2, <3>3 DEF Wrap, Slot, FilesType, OnePlace
  <2> QED BY <1>1, <2>2 DEF history, bounds, FilesType
<1>7. CASE Refuse(p)
  BY <1>1, <1>7, StartupAssumption DEF Refuse, Release, files, history, FilesType, OnePlace,
     InSlot, Detected, HasStorage
<1>8. CASE Register(p)
  <2>1. proc[p].key # None => proc[p].key \in Key
    BY <1>1 DEF Process
  <2>2. account' \subseteq Key
    BY <1>1, <1>8, <2>1 DEF Register, FilesType
  <2> QED BY <1>1, <1>8, <2>2 DEF Register, files, history, bounds, FilesType, OnePlace,
          InSlot, Detected, HasStorage
<1>9. CASE Truncate(p) \/ Write(p)
  <2>1. /\ config' \in Config \cup {None, Torn}
        /\ UNCHANGED <<machine, lock, slot, keyFile, encFile, account, made, history, bounds>>
    BY <1>1, <1>9 DEF Truncate, Write, Process
  <2> QED BY <1>1, <2>1 DEF history, bounds, FilesType, OnePlace, InSlot, Detected, HasStorage
<1>10. CASE Unlock(p)
  <2>1. Unlocked(proc[p].save) \in Master \cup {None}
    <3>1. FromSlot(proc[p].save) \in Master \cup {None}
      BY FromSlotType
    <3> QED BY <1>1, <3>1 DEF Unlocked, FilesType
  <2> QED BY <1>1, <1>10, <2>1 DEF Unlock, files, bounds, FilesType, OnePlace, InSlot,
          Detected, HasStorage
<1>11. CASE StartEdit(p) \/ StartUpgrade(p) \/ StartRotate(p)
  <2>1. /\ commands < MaxCommands /\ commands' = commands + 1
        /\ UNCHANGED <<machine, lock, files, account, made, history, faults>>
    BY <1>11 DEF StartEdit, StartUpgrade, StartRotate, StartCommand
  <2>2. commands' \in 0..MaxCommands
    BY <1>1, <2>1, StartupAssumption DEF FilesType
  <2> QED BY <1>1, <2>1, <2>2 DEF files, history, FilesType, OnePlace, InSlot, Detected,
          HasStorage
<1>12. CASE TruncateBlob(p) \/ WriteBlob(p)
  <2>1. /\ encFile' \in Master \cup {None, Torn}
        /\ UNCHANGED <<machine, lock, config, slot, keyFile, account, made, history, bounds>>
    BY <1>1, <1>12 DEF TruncateBlob, WriteBlob, Process
  <2> QED BY <1>1, <2>1 DEF history, bounds, FilesType, OnePlace, InSlot, Detected, HasStorage
<1>13. CASE DropSlot(p) \/ DropKeyFile(p)
  BY <1>1, <1>13 DEF DropSlot, DropKeyFile, history, bounds, FilesType, OnePlace, InSlot,
     Detected, HasStorage
<1>14. CASE RotateSlot(p)
  <2>1. InSlot /\ slot' \in Slot
    BY <1>1, <1>14 DEF RotateSlot, Own, Unlocking, Slot, Key
  <2> QED BY <1>1, <1>14, <2>1 DEF RotateSlot, history, bounds, FilesType, OnePlace, InSlot,
          Detected, HasStorage
<1>15. CASE RotateStart(p)
  <2>1. account' \subseteq Key
    BY <1>1, <1>15 DEF RotateStart, FilesType, Key
  <2> QED BY <1>1, <1>15, <2>1 DEF RotateStart, files, history, bounds, FilesType, OnePlace,
          InSlot, Detected, HasStorage
<1>16. CASE Crash(p)
  BY <1>1, <1>16, StartupAssumption DEF Crash, files, FilesType, OnePlace, InSlot, Detected,
     HasStorage
<1> QED
  BY <1>2, <1>3, <1>4, <1>5, <1>6, <1>7, <1>8, <1>9, <1>10, <1>11, <1>12, <1>13, <1>14,
     <1>15, <1>16 DEF Act, Serve, Order

(* Time passes for the lock and for those that wait for it.                *)
LEMMA TickMoves ==
  ASSUME TypeInv, Tick
  PROVE  /\ proc' \in [Proc -> Process]
         /\ \A q \in Proc : \/ proc'[q] = proc[q]
                            \/ /\ proc[q].pc = "sleep" /\ proc'[q] = Again(proc[q])
                               /\ ~proc'[q].boot /\ proc'[q].pc \in {"lock", "idle"}
                               /\ Own(proc'[q])
<1>1. proc \in [Proc -> Process]
  BY TypeParts
<1>2. \A q \in Proc : proc[q].pc = "sleep" =>
         /\ ~proc[q].boot /\ Again(proc[q]) \in Process /\ Own(Again(proc[q]))
         /\ ~Again(proc[q]).boot /\ Again(proc[q]).pc \in {"lock", "idle"}
  BY OwnNow, AgainOwn DEF Own, Booting, Saving
<1>3. proc' = [q \in Proc |-> IF proc[q].pc = "sleep" THEN Again(proc[q]) ELSE proc[q]]
  BY DEF Tick
<1> QED BY <1>1, <1>2, <1>3

LEMMA TickFiles ==
  ASSUME TypeInv, Tick
  PROVE  /\ machine' = machine /\ FilesType'
         /\ (lock' = None) = (lock = None)
         /\ lock # None => lock'.owner = lock.owner
<1> DEFINE older == [lock EXCEPT !.age = IF @ > StaleAfter THEN @ ELSE @ + 1]
<1>1. lock \in LockFile => older \in LockFile /\ older.owner = lock.owner
  BY StartupAssumption DEF LockFile
<1>2. lock \in LockFile \cup {None} /\ lock' = IF lock = None THEN None ELSE older
  BY DEF Tick, TypeInv, TypeOK
<1> HIDE DEF older
<1>3. /\ lock' \in LockFile \cup {None} /\ (lock' = None) = (lock = None)
      /\ lock # None => lock'.owner = lock.owner
  BY <1>1, <1>2, Apart
<1>4. UNCHANGED <<machine, files, account, made, history, bounds>>
  BY DEF Tick
<1>5. FilesType
  BY TypeParts
<1> QED BY <1>3, <1>4, <1>5 DEF files, history, bounds, FilesType, OnePlace, InSlot,
        Detected, HasStorage


LEMMA TypeStep == ASSUME TypeInv, [Next]_vars PROVE TypeInv'
<1>1. CASE UNCHANGED vars
  BY <1>1 DEF vars, files, history, bounds, TypeInv, TypeOK, OnePlace, Own, InSlot, Detected,
     HasStorage
<1>2. CASE Tick
  <2>1. machine' = machine /\ FilesType' /\ proc' \in [Proc -> Process]
    BY <1>2, TickMoves, TickFiles
  <2>2. ASSUME NEW q \in Proc PROVE Own(proc[q])'
    <3>1. Own(proc'[q])
      BY <1>2, TickMoves, OwnNow
    <3> QED BY <2>1, <3>1 DEF Own, InSlot, Detected, HasStorage
  <2> QED BY <2>1, <2>2 DEF TypeInv, TypeOK, FilesType, Process, Pc
<1>3. ASSUME NEW p \in Proc, Act(p) PROVE TypeInv'
  <2>1. machine' = machine /\ FilesType'
    BY <1>3, ActFiles
  <2>2. PICK r : Becomes(p, r) /\ Own(r)
    BY <1>3, ActMoves DEF Moves
  <2>3. proc' \in [Proc -> Process] /\ \A q \in Proc : Own(proc[q])'
    BY <2>1, <2>2, OthersOwn
  <2> QED BY <2>1, <2>3 DEF TypeInv, TypeOK, FilesType, Process, Pc
<1> QED BY <1>1, <1>2, <1>3 DEF Next, Act

LEMMA TypeInit == Init => TypeInv
<1> SUFFICES ASSUME Init PROVE TypeInv
  OBVIOUS
<1>1. FilesType
  <2>1. /\ machine \in Machine /\ 0 \in 0..MaxMasters /\ 0 \in 0..MaxFaults
        /\ 0 \in 0..MaxCommands
    BY StartupAssumption DEF Init
  <2> QED BY <2>1 DEF Init, FilesType, OnePlace
<1>2. proc = [p \in Proc |-> Stopped]
  BY DEF Init
<1>3. proc \in [Proc -> Process] /\ \A p \in Proc : Own(proc[p])
  BY <1>2, StoppedIsOne
<1> QED BY <1>1, <1>3, TypeParts

(* TypeOK, with what a step needs of the process that takes it.            *)
THEOREM TypeCorrect == Spec => []TypeOK
<1>1. Init => TypeInv
  BY TypeInit
<1>2. TypeInv /\ [Next]_vars => TypeInv'
  BY TypeStep
<1>3. TypeInv => TypeOK
  BY DEF TypeInv
<1> QED BY <1>1, <1>2, <1>3, PTL DEF Spec

(***************************************************************************)
(* One master key.                                                         *)
(***************************************************************************)

(* Only the process in the lock file is at a bootstrap,                    *)
Guarded == \A p \in Proc : proc[p].boot => lock # None /\ lock.owner = p

(* before there is a config nothing was unlocked and nothing but a         *)
(* bootstrap is about to write one,                                        *)
Fresh ==
  config = None =>
    /\ used = {} /\ encFile = None
    /\ \A p \in Proc : /\ proc[p].pc \notin Command \cup {"unlock", "write"}
                       /\ proc[p].pc = "truncate" => proc[p].boot

(* a bootstrap that found no config still has none to find,                *)
Making == \A p \in Proc : proc[p].boot /\ proc[p].pc \in Creating => config = None

(* and whatever holds a master key holds the same one.                     *)
Only(x) ==
  /\ used \subseteq {x}
  /\ slot # None => slot.master = x
  /\ keyFile \in {None, x} /\ encFile \in {None, Torn, x}
  /\ \A p \in Proc : proc[p].pc \in Unlocking => proc[p].master = x

OneInv == ~stolen => Guarded /\ Fresh /\ Making /\ \E x \in 0..MaxMasters : Only(x)

(* A process at a bootstrap was at it, unless it just took the lock.       *)
LEMMA MovesFields ==
  ASSUME NEW p \in Proc
  PROVE  /\ \A r, pc, m, s :
              Moves(p, With(r, pc, m, s)) =>
                /\ proc'[p].pc = pc /\ proc'[p].master = m /\ proc'[p].save = s
                /\ proc'[p].boot = r.boot /\ proc'[p].key = r.key
         /\ Moves(p, Stopped) =>
                /\ proc'[p].pc = "idle" /\ ~proc'[p].boot
                /\ proc'[p].master = None /\ proc'[p].save = None
BY DEF Moves, Becomes, With, Stopped

LEMMA BootKept ==
  ASSUME TypeInv, NEW p \in Proc, Act(p), ~Lock(p)
  PROVE  proc'[p].boot => proc[p].boot
<1> SUFFICES ASSUME ~proc[p].boot, proc'[p].boot PROVE FALSE
  OBVIOUS
<1>1. ~Stopped.boot
  BY DEF Stopped
<1>2. Launch(p) => FALSE
  BY MovesFields, LaunchMoves DEF To
<1>3. Boot(p) => FALSE
  BY MovesFields, BootMoves DEF To
<1>4. FindLocked(p) \/ Unlink(p) => FALSE
  BY FindLockedMoves, UnlinkMoves DEF Moves, Becomes
<1>5. CheckAgain(p) \/ Wrap(p) => FALSE
  BY MovesFields, CheckMoves, WrapMoves DEF To
<1>6. Detect(p) => FALSE
  BY OwnNow DEF Detect, Own, Booting
<1>7. SkipRegistration(p) \/ Register(p) \/ Upload(p) => FALSE
  BY OwnNow DEF SkipRegistration, Register, Upload, Own, Booting
<1>8. Truncate(p) \/ Write(p) \/ Reload(p) => FALSE
  BY <1>1, MovesFields, TruncateMoves, WriteMoves, ReloadMoves DEF To
<1>9. Leave(p) \/ Refuse(p) => FALSE
  BY <1>1, MovesFields, ReleaseMoves DEF Leave, Refuse
<1>10. Unlock(p) \/ Crash(p) => FALSE
  BY <1>1, StopIsMove DEF Unlock, Crash, Moves, Becomes
<1>11. StartEdit(p) \/ StartUpgrade(p) \/ StartRotate(p) => FALSE
  BY MovesFields, CommandMoves DEF StartEdit, StartUpgrade, StartRotate
<1>12. UpgradeUnlock(p) \/ RotateUnlock(p) => FALSE
  BY <1>1, MovesFields, UnlockSlotMoves 
<1>13. Edit(p) \/ TruncateBlob(p) \/ WriteBlob(p) \/ DropSlot(p) => FALSE
  <2>1. Edit(p) \/ TruncateBlob(p) \/ WriteBlob(p) \/ DropSlot(p) =>
          \E pc : Moves(p, To(p, pc))
    BY PlainMoves
  <2> QED BY <2>1, MovesFields DEF To
<1>14. VerifyBlob(p) \/ RotateStart(p) \/ RotatePut(p) => FALSE
  <2>1. VerifyBlob(p) \/ RotateStart(p) \/ RotatePut(p) =>
          Moves(p, Stopped) \/ \E pc : Moves(p, To(p, pc))
    BY PlainMoves
  <2> QED BY <2>1, MovesFields DEF To
<1>15. DropKeyFile(p) \/ RotateSlot(p) => FALSE
  <2>1. DropKeyFile(p) \/ RotateSlot(p) =>
          \E c : Moves(p, With(proc[p], "truncate", proc[p].master, c))
    BY LastMoves
  <2> QED BY <2>1, MovesFields
<1> QED
  BY <1>2, <1>3, <1>4, <1>5, <1>6, <1>7, <1>8, <1>9, <1>10, <1>11, <1>12, <1>13, <1>14,
     <1>15 DEF Act, Serve, Order

LEMMA OthersStay ==
  ASSUME TypeInv, NEW p \in Proc, Act(p), NEW q \in Proc, q # p
  PROVE  proc'[q] = proc[q]
BY ActMoves DEF Moves, Becomes

LEMMA LockKept ==
  ASSUME NEW p \in Proc, Act(p), ~Lock(p), ~Unlink(p), ~Leave(p), ~Refuse(p)
  PROVE  lock' = lock
BY DEF Act, Serve, Order, Launch, Boot, FindLocked, CheckAgain, Detect, Wrap,
   SkipRegistration, Register, Upload, Truncate, Write, Reload, Unlock, StartEdit,
   StartUpgrade, StartRotate, StartCommand, Edit, UpgradeUnlock, RotateUnlock, UnlockSlot,
   TruncateBlob, WriteBlob, VerifyBlob, DropSlot, DropKeyFile, RotateStart, RotatePut,
   RotateSlot, Crash

LEMMA GuardedKept ==
  ASSUME TypeInv, NEW p \in Proc, Act(p), Guarded, ~stolen'
  PROVE  Guarded'
<1> SUFFICES ASSUME NEW q \in Proc, proc'[q].boot
             PROVE  lock' # None /\ lock'.owner = q
  BY DEF Guarded
<1>1. CASE Lock(p)
  <2>1. lock = None /\ lock' = [owner |-> p, age |-> 0] /\ lock' # None
    <3>1. [owner |-> p, age |-> 0] \in LockFile
      BY StartupAssumption DEF LockFile
    <3> QED BY <1>1, <3>1, Apart DEF Lock
  <2>2. q = p
    BY <2>1, OthersStay DEF Guarded
  <2> QED BY <2>1, <2>2
<1>2. CASE ~Lock(p)
  <2>1. proc[q].boot
    BY <1>2, BootKept, OthersStay
  <2>2. lock # None /\ lock.owner = q
    BY <2>1 DEF Guarded
  <2>3. ~Unlink(p)
    BY <2>1, <2>2 DEF Unlink
  <2>4. Leave(p) => p = q
    BY <2>1, <2>2 DEF Leave
  <2>5. Refuse(p) => p = q
    BY <2>2, OwnNow DEF Refuse, Own, Booting, Guarded
  <2>6. ~Leave(p) /\ ~Refuse(p)
    <3>1. Leave(p) \/ Refuse(p) => ~proc'[p].boot
      BY ReleaseMoves DEF Leave, Refuse, Moves, Becomes, With, Stopped
    <3> QED BY <2>4, <2>5, <3>1
  <2> QED BY <1>2, <2>2, <2>3, <2>6, LockKept
<1> QED BY <1>1, <1>2

(* Where each action leads.                                                *)
LEMMA ServeLeads ==
  ASSUME TypeInv, NEW p \in Proc
  PROVE  /\ Launch(p) => \/ proc'[p].pc = "boot"
                         \/ /\ proc'[p].pc = "unlock" /\ proc'[p].save = config
                            /\ config \in Config
         /\ Boot(p) => proc'[p].pc \in {"reload", "lock"}
         /\ Lock(p) => proc'[p].pc = "check"
         /\ FindLocked(p) => proc'[p].pc \in {"unlink", "sleep"}
         /\ Unlink(p) => proc'[p].pc \in {"lock", "idle"}
         /\ CheckAgain(p) => \/ proc'[p].pc = "release"
                             \/ proc'[p].pc = "detect" /\ config = None
         /\ Detect(p) => proc'[p].pc = "wrap"
         /\ Wrap(p) => proc'[p].pc = "register"
         /\ SkipRegistration(p) \/ Register(p) \/ Upload(p) =>
              proc[p].boot /\ proc'[p].boot /\ proc'[p].pc \in {"upload", "truncate"}
         /\ Truncate(p) => proc'[p].pc = "write" /\ proc'[p].boot = proc[p].boot
         /\ Write(p) => proc'[p].pc \in {"release", "idle"}
         /\ Leave(p) => proc'[p].pc = "reload"
         /\ Reload(p) => \/ proc'[p].pc = "idle"
                         \/ /\ proc'[p].pc = "unlock" /\ proc'[p].save = config
                            /\ config \in Config
         /\ Unlock(p) \/ Refuse(p) \/ Crash(p) => proc'[p].pc = "idle"
<1>1. ASSUME NEW pc, Moves(p, To(p, pc)) PROVE proc'[p].pc = pc /\ proc'[p].boot = proc[p].boot
  BY <1>1, MovesFields DEF To
<1>2. ASSUME NEW pc, NEW s, Moves(p, With(proc[p], pc, proc[p].master, s))
      PROVE  proc'[p].pc = pc /\ proc'[p].save = s /\ proc'[p].boot = proc[p].boot
  BY <1>2, MovesFields
<1>3. ASSUME NEW pc, Moves(p, With(Stopped, pc, None, None)) PROVE proc'[p].pc = pc
  BY <1>3, MovesFields
<1>4. Moves(p, Stopped) => proc'[p].pc = "idle"
  BY MovesFields
<1>5. Launch(p) => \/ proc'[p].pc = "boot"
                   \/ /\ proc'[p].pc = "unlock" /\ proc'[p].save = config
                      /\ config \in Config
  BY <1>1, <1>2, LaunchMoves
<1>6. Boot(p) => proc'[p].pc \in {"reload", "lock"}
  BY <1>1, BootMoves
<1>7. /\ Lock(p) => proc'[p].pc = "check"
      /\ FindLocked(p) => proc'[p].pc \in {"unlink", "sleep"}
      /\ Unlink(p) => proc'[p].pc \in {"lock", "idle"}
      /\ Detect(p) => proc'[p].pc = "wrap"
  BY LockMoves, FindLockedMoves, UnlinkMoves, DetectMoves DEF Moves, Becomes
<1>8. CheckAgain(p) => \/ proc'[p].pc = "release"
                       \/ proc'[p].pc = "detect" /\ config = None
  BY <1>1, CheckMoves
<1>9. /\ Wrap(p) => proc'[p].pc = "register"
      /\ Truncate(p) => proc'[p].pc = "write" /\ proc'[p].boot = proc[p].boot
  BY <1>1, WrapMoves, TruncateMoves
<1>10. SkipRegistration(p) \/ Register(p) \/ Upload(p) =>
         proc[p].boot /\ proc'[p].boot /\ proc'[p].pc \in {"upload", "truncate"}
  <2>1. SkipRegistration(p) \/ Register(p) \/ Upload(p) => proc[p].boot
    BY OwnNow DEF SkipRegistration, Register, Upload, Own, Booting
  <2>2. SkipRegistration(p) \/ Register(p) \/ Upload(p) =>
          \/ Moves(p, To(p, "upload"))
          \/ \E c : Moves(p, With(proc[p], "truncate", proc[p].master, c))
    BY RegistrationMoves
  <2> QED BY <1>1, <1>2, <2>1, <2>2
<1>11. Write(p) => proc'[p].pc \in {"release", "idle"}
  BY <1>1, <1>4, WriteMoves
<1>12. Leave(p) => proc'[p].pc = "reload"
  BY <1>3, ReleaseMoves DEF Leave
<1>13. Reload(p) => \/ proc'[p].pc = "idle"
                    \/ /\ proc'[p].pc = "unlock" /\ proc'[p].save = config
                       /\ config \in Config
  BY <1>2, <1>4, ReloadMoves
<1>14. Unlock(p) \/ Refuse(p) \/ Crash(p) => proc'[p].pc = "idle"
  BY <1>3, <1>4, ReleaseMoves, StopIsMove DEF Unlock, Refuse, Crash
<1> QED BY <1>5, <1>6, <1>7, <1>8, <1>9, <1>10, <1>11, <1>12, <1>13, <1>14

LEMMA OrderLeads ==
  ASSUME TypeInv, NEW p \in Proc
  PROVE  /\ StartEdit(p) => proc'[p].pc = "edit" /\ proc'[p].save = config
         /\ StartUpgrade(p) => proc'[p].pc = "up unlock" /\ proc'[p].save = config
         /\ StartRotate(p) => proc'[p].pc = "rot unlock" /\ proc'[p].save = config
         /\ UpgradeUnlock(p) \/ RotateUnlock(p) =>
              \/ proc'[p].pc = "idle"
              \/ /\ FromSlot(proc[p].save) # None /\ proc'[p].save = proc[p].save
                 /\ proc'[p].master = FromSlot(proc[p].save)
                 /\ UpgradeUnlock(p) => proc'[p].pc = "up blob"
                 /\ RotateUnlock(p) => proc'[p].pc = "rot start"
         /\ Edit(p) => proc'[p].pc = "truncate" /\ proc'[p].save = proc[p].save
         /\ DropKeyFile(p) => /\ proc'[p].pc = "truncate"
                              /\ proc'[p].save = [proc[p].save EXCEPT !.tier = "maximum"]
         /\ RotateSlot(p) => /\ proc'[p].pc = "truncate"
                             /\ proc'[p].save = [proc[p].save EXCEPT !.key = "second"]
         /\ TruncateBlob(p) \/ WriteBlob(p) \/ VerifyBlob(p) \/ DropSlot(p)
            \/ RotateStart(p) \/ RotatePut(p) =>
              \/ proc'[p].pc = "idle"
              \/ /\ proc'[p].save = proc[p].save /\ proc'[p].master = proc[p].master
                 /\ TruncateBlob(p) => proc'[p].pc = "up write"
                 /\ WriteBlob(p) => proc'[p].pc = "up verify"
                 /\ VerifyBlob(p) => proc'[p].pc = "up drop"
                 /\ DropSlot(p) => proc'[p].pc = "up unlink"
                 /\ RotateStart(p) => proc'[p].pc = "rot put"
                 /\ RotatePut(p) => proc'[p].pc = "rot slot"
<1>1. ASSUME NEW pc, Moves(p, To(p, pc))
      PROVE  /\ proc'[p].pc = pc /\ proc'[p].save = proc[p].save
             /\ proc'[p].master = proc[p].master
  BY <1>1, MovesFields DEF To
<1>2. ASSUME NEW pc, NEW m, NEW s, Moves(p, With(proc[p], pc, m, s))
      PROVE  proc'[p].pc = pc /\ proc'[p].save = s /\ proc'[p].master = m
  BY <1>2, MovesFields
<1>3. Moves(p, Stopped) => proc'[p].pc = "idle"
  BY MovesFields
<1>4. /\ StartEdit(p) => proc'[p].pc = "edit" /\ proc'[p].save = config
      /\ StartUpgrade(p) => proc'[p].pc = "up unlock" /\ proc'[p].save = config
      /\ StartRotate(p) => proc'[p].pc = "rot unlock" /\ proc'[p].save = config
  BY <1>2, CommandMoves DEF StartEdit, StartUpgrade, StartRotate
<1>5. UpgradeUnlock(p) => proc[p].pc = "up unlock"
  BY DEF UpgradeUnlock, UnlockSlot
<1>6. RotateUnlock(p) => proc[p].pc = "rot unlock"
  BY DEF RotateUnlock, UnlockSlot
<1>7. UpgradeUnlock(p) \/ RotateUnlock(p) =>
        \/ proc'[p].pc = "idle"
        \/ /\ FromSlot(proc[p].save) # None /\ proc'[p].save = proc[p].save
           /\ proc'[p].master = FromSlot(proc[p].save)
           /\ UpgradeUnlock(p) => proc'[p].pc = "up blob"
           /\ RotateUnlock(p) => proc'[p].pc = "rot start"
  <2> DEFINE pc == IF proc[p].pc = "up unlock" THEN "up blob" ELSE "rot start"
  <2>1. UpgradeUnlock(p) \/ RotateUnlock(p) =>
          \/ Moves(p, Stopped)
          \/ /\ FromSlot(proc[p].save) # None
             /\ Moves(p, With(proc[p], pc, FromSlot(proc[p].save), proc[p].save))
    BY UnlockSlotMoves
  <2>2. /\ UpgradeUnlock(p) => pc = "up blob"
        /\ RotateUnlock(p) => pc = "rot start"
    BY <1>5, <1>6
  <2> HIDE DEF pc
  <2> QED BY <1>2, <1>3, <2>1, <2>2
<1>8. Edit(p) => proc'[p].pc = "truncate" /\ proc'[p].save = proc[p].save
  BY <1>1, PlainMoves
<1>9. DropKeyFile(p) => /\ proc'[p].pc = "truncate"
                        /\ proc'[p].save = [proc[p].save EXCEPT !.tier = "maximum"]
  BY <1>2, LastMoves
<1>10. RotateSlot(p) => /\ proc'[p].pc = "truncate"
                        /\ proc'[p].save = [proc[p].save EXCEPT !.key = "second"]
  BY <1>2, LastMoves
<1>11. /\ TruncateBlob(p) => proc[p].pc = "up blob"
       /\ WriteBlob(p) => proc[p].pc = "up write"
       /\ VerifyBlob(p) => proc[p].pc = "up verify"
       /\ DropSlot(p) => proc[p].pc = "up drop"
       /\ RotateStart(p) => proc[p].pc = "rot start"
       /\ RotatePut(p) => proc[p].pc = "rot put"
  BY DEF TruncateBlob, WriteBlob, VerifyBlob, DropSlot, RotateStart, RotatePut
<1>12. TruncateBlob(p) \/ WriteBlob(p) \/ VerifyBlob(p) \/ DropSlot(p)
         \/ RotateStart(p) \/ RotatePut(p) =>
         \/ proc'[p].pc = "idle"
         \/ /\ proc'[p].save = proc[p].save /\ proc'[p].master = proc[p].master
            /\ TruncateBlob(p) => proc'[p].pc = "up write"
            /\ WriteBlob(p) => proc'[p].pc = "up verify"
            /\ VerifyBlob(p) => proc'[p].pc = "up drop"
            /\ DropSlot(p) => proc'[p].pc = "up unlink"
            /\ RotateStart(p) => proc'[p].pc = "rot put"
            /\ RotatePut(p) => proc'[p].pc = "rot slot"
  BY <1>1, <1>3, <1>11, PlainMoves
<1> QED BY <1>4, <1>7, <1>8, <1>9, <1>10, <1>12

(* config.json is written by Truncate and Write, and by nothing else.       *)
LEMMA ConfigWritten ==
  ASSUME TypeInv, NEW p \in Proc, Act(p)
  PROVE  \/ config' = config /\ ~Truncate(p) /\ ~Write(p)
         \/ Truncate(p) /\ config' = Torn
         \/ Write(p) /\ config' = proc[p].save /\ config' \in Config
<1>1. CASE Truncate(p)
  BY <1>1 DEF Truncate
<1>2. CASE Write(p)
  BY <1>2, WriteMoves DEF Write
<1>3. CASE ~Truncate(p) /\ ~Write(p)
  BY <1>3 DEF Act, Serve, Order, Launch, Boot, Lock, FindLocked, Unlink, CheckAgain, Detect,
     Wrap, SkipRegistration, Register, Upload, Leave, Reload, Unlock, StartEdit, StartUpgrade,
     StartRotate, StartCommand, Edit, UpgradeUnlock, RotateUnlock, UnlockSlot, TruncateBlob,
     WriteBlob, VerifyBlob, DropSlot, DropKeyFile, RotateStart, RotatePut, RotateSlot, Refuse,
     Crash, files
<1> QED BY <1>1, <1>2, <1>3

(* What can happen before there is a config.                               *)
LEMMA BeforeConfig ==
  ASSUME TypeInv, NEW p \in Proc, Act(p), Fresh, config' = None
  PROVE  /\ config = None
         /\ \/ Launch(p) \/ Boot(p) \/ Lock(p) \/ FindLocked(p) \/ Unlink(p)
            \/ CheckAgain(p) \/ Detect(p) \/ Wrap(p) \/ SkipRegistration(p) \/ Register(p)
            \/ Upload(p) \/ Leave(p) \/ Reload(p) \/ Refuse(p) \/ Crash(p)
<1>1. config = None /\ ~Truncate(p) /\ ~Write(p)
  BY ConfigWritten, Apart
<1>2. proc[p].pc \notin Command \cup {"unlock"} /\ ~Readable(config)
  BY <1>1 DEF Fresh, Readable
<1>3. ~StartEdit(p) /\ ~StartUpgrade(p) /\ ~StartRotate(p)
  BY <1>2 DEF StartEdit, StartUpgrade, StartRotate, StartCommand
<1>4. /\ ~Unlock(p) /\ ~Edit(p) /\ ~UpgradeUnlock(p) /\ ~RotateUnlock(p) /\ ~TruncateBlob(p)
      /\ ~WriteBlob(p) /\ ~VerifyBlob(p) /\ ~DropSlot(p) /\ ~DropKeyFile(p)
      /\ ~RotateStart(p) /\ ~RotatePut(p) /\ ~RotateSlot(p)
  BY <1>2 DEF Unlock, Edit, UpgradeUnlock, RotateUnlock, UnlockSlot, TruncateBlob, WriteBlob,
     VerifyBlob, DropSlot, DropKeyFile, RotateStart, RotatePut, RotateSlot, Command
<1> QED BY <1>1, <1>3, <1>4 DEF Act, Serve, Order

LEMMA FreshKept ==
  ASSUME TypeInv, NEW p \in Proc, Act(p), Fresh
  PROVE  Fresh'
<1> SUFFICES ASSUME config' = None PROVE Fresh'
  BY DEF Fresh
<1>1. config = None
  BY BeforeConfig
<1>2. used' = {} /\ encFile' = None
  BY <1>1, BeforeConfig DEF Fresh, Launch, Boot, Lock, FindLocked, Unlink, CheckAgain, Detect,
     Wrap, SkipRegistration, Register, Upload, Leave, Reload, Refuse, Crash, files, history
<1>3. /\ proc'[p].pc \notin Command \cup {"unlock", "write"}
      /\ proc'[p].pc = "truncate" => proc'[p].boot
  BY <1>1, Apart, BeforeConfig, ServeLeads DEF Command
<1>4. \A q \in Proc : /\ proc'[q].pc \notin Command \cup {"unlock", "write"}
                      /\ proc'[q].pc = "truncate" => proc'[q].boot
  BY <1>1, <1>3, OthersStay DEF Fresh
<1> QED BY <1>2, <1>4 DEF Fresh

(* A bootstrap goes on step by step.                                       *)
LEMMA CreatingKept ==
  ASSUME TypeInv, NEW p \in Proc, Act(p), proc'[p].boot, proc'[p].pc \in Creating
  PROVE  /\ ~Truncate(p) /\ ~Write(p)
         /\ proc[p].boot /\ (proc[p].pc \in Creating \/ config = None)
<1>1. ~Lock(p)
  BY LockMoves DEF Moves, Becomes, Creating
<1>2. proc[p].boot
  BY <1>1, BootKept
<1>3. proc[p].pc \in Booting \cup Saving
  BY <1>2, OwnNow DEF Own
<1>4. ~Truncate(p) /\ ~Write(p)
  BY TruncateMoves, WriteMoves, MovesFields DEF To, Creating
<1>5. proc[p].pc # "release"
  <2> SUFFICES ASSUME proc[p].pc = "release" PROVE FALSE
    OBVIOUS
  <2>1. Leave(p) \/ Crash(p)
    BY DEF Act, Serve, Order, Launch, Boot, Lock, FindLocked, Unlink, CheckAgain, Detect, Wrap,
       SkipRegistration, Register, Upload, Truncate, Write, Reload, Unlock, StartEdit,
       StartUpgrade, StartRotate, StartCommand, Edit, UpgradeUnlock, RotateUnlock, UnlockSlot,
       TruncateBlob, WriteBlob, VerifyBlob, DropSlot, DropKeyFile, RotateStart, RotatePut,
       RotateSlot, Refuse
  <2> QED BY <2>1, ServeLeads DEF Creating
<1>6. CASE proc[p].pc = "check"
  <2>1. CheckAgain(p) \/ Crash(p)
    BY <1>6 DEF Act, Serve, Order, Launch, Boot, Lock, FindLocked, Unlink, Detect, Wrap,
       SkipRegistration, Register, Upload, Truncate, Write, Leave, Reload, Unlock, StartEdit,
       StartUpgrade, StartRotate, StartCommand, Edit, UpgradeUnlock, RotateUnlock, UnlockSlot,
       TruncateBlob, WriteBlob, VerifyBlob, DropSlot, DropKeyFile, RotateStart, RotatePut,
       RotateSlot, Refuse
  <2>2. ~Crash(p)
    BY StopIsMove, MovesFields DEF Crash
  <2>3. config = None
    BY <2>1, <2>2, CheckMoves, MovesFields DEF To, Creating
  <2> QED BY <1>2, <1>4, <2>3
<1>7. CASE proc[p].pc = "write"
  <2>1. Write(p) \/ Crash(p)
    BY <1>7 DEF Act, Serve, Order, Launch, Boot, Lock, FindLocked, Unlink, CheckAgain, Detect,
       Wrap, SkipRegistration, Register, Upload, Truncate, Leave, Reload, Unlock, StartEdit,
       StartUpgrade, StartRotate, StartCommand, Edit, UpgradeUnlock, RotateUnlock, UnlockSlot,
       TruncateBlob, WriteBlob, VerifyBlob, DropSlot, DropKeyFile, RotateStart, RotatePut,
       RotateSlot, Refuse
  <2> QED BY <1>4, <2>1, StopIsMove, MovesFields DEF Crash
<1> QED BY <1>2, <1>3, <1>4, <1>5, <1>6, <1>7 DEF Booting, Saving, Creating

LEMMA MakingKept ==
  ASSUME TypeInv, NEW p \in Proc, Act(p), Guarded, Fresh, Making
  PROVE  Making'
<1> SUFFICES ASSUME NEW q \in Proc, proc'[q].boot, proc'[q].pc \in Creating
             PROVE  config' = None
  BY DEF Making
<1>1. CASE q = p
  BY <1>1, CreatingKept, ConfigWritten DEF Making
<1>2. CASE q # p
  <2>1. proc[q].boot /\ proc[q].pc \in Creating /\ config = None
    BY <1>2, OthersStay DEF Making
  <2>2. ~proc[p].boot
    BY <1>2, <2>1 DEF Guarded
  <2>3. ~Truncate(p) /\ ~Write(p)
    BY <2>1, <2>2 DEF Fresh, Truncate, Write
  <2> QED BY <2>1, <2>3, ConfigWritten
<1> QED BY <1>1, <1>2

(* What a server unlocks is the master key there is.                       *)
LEMMA UnlocksOnly ==
  ASSUME TypeInv, NEW x, Only(x), NEW c
  PROVE  Unlocked(c) \in {x, None}
<1>1. FromSlot(c) \in {x, None}
  BY FromSlotType DEF Only
<1> QED BY <1>1 DEF Unlocked, Only

LEMMA UnlockingKept ==
  ASSUME TypeInv, NEW p \in Proc, Act(p), NEW x, Only(x), proc'[p].pc \in Unlocking
  PROVE  proc'[p].master = x
<1>1. CASE Serve(p) \/ Refuse(p) \/ Crash(p)
  BY <1>1, ServeLeads DEF Serve, Unlocking
<1>2. CASE Edit(p) \/ DropKeyFile(p) \/ RotateSlot(p)
  BY <1>2, OrderLeads DEF Unlocking
<1>3. CASE StartEdit(p) \/ StartUpgrade(p) \/ StartRotate(p)
  BY <1>3, OrderLeads DEF Unlocking
<1>4. CASE UpgradeUnlock(p) \/ RotateUnlock(p)
  BY <1>4, OrderLeads, FromSlotType DEF Unlocking, Only
<1>5. CASE TruncateBlob(p) \/ WriteBlob(p) \/ VerifyBlob(p) \/ DropSlot(p)
           \/ RotateStart(p) \/ RotatePut(p)
  <2>1. proc[p].pc \in Unlocking
    BY <1>5 DEF TruncateBlob, WriteBlob, VerifyBlob, DropSlot, RotateStart, RotatePut, Unlocking
  <2> QED BY <1>5, <2>1, OrderLeads DEF Unlocking, Only
<1> QED BY <1>1, <1>2, <1>3, <1>4, <1>5 DEF Act, Order

LEMMA OnlyKept ==
  ASSUME TypeInv, NEW p \in Proc, Act(p), Fresh, Making, NEW x \in 0..MaxMasters, Only(x)
  PROVE  \E y \in 0..MaxMasters : Only(y)'
<1>1. CASE Wrap(p)
  <2>0. PICK y : y = proc[p].master
    OBVIOUS
  <2>1. /\ proc[p].boot /\ proc[p].pc = "wrap" /\ y \in Master /\ proc[p].key = Detected
    BY <1>1, <2>0, OwnNow DEF Wrap, Own, Booting
  <2>2. y \in 0..MaxMasters
    BY <2>1, StartupAssumption DEF Master
  <2>3. config = None
    BY <2>1 DEF Making, Creating
  <2>4. used' = {} /\ encFile' = None
    BY <1>1, <2>3 DEF Fresh, Wrap, history
  <2>5. /\ slot' # None => slot'.master = y
        /\ keyFile' \in {None, y}
    <3>1. \/ InSlot /\ slot' = [master |-> y, key |-> Detected] /\ UNCHANGED keyFile
          \/ ~InSlot /\ keyFile' = y /\ UNCHANGED slot
      BY <1>1, <2>0, <2>1 DEF Wrap, InSlot, HasStorage
    <3> QED BY <3>1 DEF TypeInv, OnePlace
  <2>6. \A q \in Proc : proc'[q].pc \notin Unlocking
    <3>1. proc'[p].pc \notin Unlocking
      BY <1>1, ServeLeads DEF Unlocking
    <3>2. \A q \in Proc : proc[q].pc \notin Unlocking
      BY <2>3 DEF Fresh, Unlocking, Command
    <3> QED BY <3>1, <3>2, OthersStay
  <2>7. Only(y)'
    BY <2>4, <2>5, <2>6 DEF Only
  <2> QED BY <2>2, <2>7
<1>2. CASE ~Wrap(p)
  <2>1. used' \subseteq {x}
    <3>1. CASE Unlock(p)
      BY <3>1, UnlocksOnly DEF Unlock, Only
    <3>2. CASE ~Unlock(p)
      <4>1. used' = used
        BY <3>2, <1>2 DEF Act, Serve, Order, Launch, Boot, Lock, FindLocked, Unlink, CheckAgain,
           Detect, SkipRegistration, Register, Upload, Truncate, Write, Leave, Reload,
           StartEdit, StartUpgrade, StartRotate, StartCommand, Edit, UpgradeUnlock,
           RotateUnlock, UnlockSlot, TruncateBlob, WriteBlob, VerifyBlob, DropSlot,
           DropKeyFile, RotateStart, RotatePut, RotateSlot, Refuse, Crash, history
      <4> QED BY <4>1 DEF Only
    <3> QED BY <3>1, <3>2
  <2>2. slot' # None => slot'.master = x
    <3>1. CASE RotateSlot(p)
      <4>1. proc[p].master = x
        BY <3>1 DEF RotateSlot, Only, Unlocking
      <4> QED BY <3>1, <4>1 DEF RotateSlot
    <3>2. CASE ~RotateSlot(p)
      <4>1. slot' \in {slot, None}
        BY <3>2, <1>2 DEF Act, Serve, Order, Launch, Boot, Lock, FindLocked, Unlink, CheckAgain,
           Detect, SkipRegistration, Register, Upload, Truncate, Write, Leave, Reload, Unlock,
           StartEdit, StartUpgrade, StartRotate, StartCommand, Edit, UpgradeUnlock,
           RotateUnlock, UnlockSlot, TruncateBlob, WriteBlob, VerifyBlob, DropSlot,
           DropKeyFile, RotateStart, RotatePut, Refuse, Crash, files
      <4> QED BY <4>1 DEF Only
    <3> QED BY <3>1, <3>2
  <2>3. keyFile' \in {None, x}
    <3>1. keyFile' \in {keyFile, None}
      BY <1>2 DEF Act, Serve, Order, Launch, Boot, Lock, FindLocked, Unlink, CheckAgain,
         Detect, SkipRegistration, Register, Upload, Truncate, Write, Leave, Reload, Unlock,
         StartEdit, StartUpgrade, StartRotate, StartCommand, Edit, UpgradeUnlock,
         RotateUnlock, UnlockSlot, TruncateBlob, WriteBlob, VerifyBlob, DropSlot,
         DropKeyFile, RotateStart, RotatePut, RotateSlot, Refuse, Crash, files
    <3> QED BY <3>1 DEF Only
  <2>4. encFile' \in {None, Torn, x}
    <3>1. CASE WriteBlob(p)
      BY <3>1 DEF WriteBlob, Only, Unlocking
    <3>2. CASE ~WriteBlob(p)
      <4>1. encFile' \in {encFile, Torn}
        BY <3>2, <1>2 DEF Act, Serve, Order, Launch, Boot, Lock, FindLocked, Unlink, CheckAgain,
           Detect, SkipRegistration, Register, Upload, Truncate, Write, Leave, Reload, Unlock,
           StartEdit, StartUpgrade, StartRotate, StartCommand, Edit, UpgradeUnlock,
           RotateUnlock, UnlockSlot, TruncateBlob, VerifyBlob, DropSlot, DropKeyFile,
           RotateStart, RotatePut, RotateSlot, Refuse, Crash, files
      <4> QED BY <4>1 DEF Only
    <3> QED BY <3>1, <3>2
  <2>5. \A q \in Proc : proc'[q].pc \in Unlocking => proc'[q].master = x
    BY UnlockingKept, OthersStay DEF Only
  <2> QED BY <2>1, <2>2, <2>3, <2>4, <2>5 DEF Only
<1> QED BY <1>1, <1>2

(* stolen is never taken back.                                             *)
LEMMA StolenStays ==
  ASSUME TypeInv, NEW p \in Proc, Act(p), stolen PROVE stolen'
BY DEF TypeInv, TypeOK, Act, Serve, Order, Launch, Boot, Lock, FindLocked, Unlink, CheckAgain,
   Detect, Wrap, SkipRegistration, Register, Upload, Truncate, Write, Leave, Reload, Unlock,
   StartEdit, StartUpgrade, StartRotate, StartCommand, Edit, UpgradeUnlock, RotateUnlock,
   UnlockSlot, TruncateBlob, WriteBlob, VerifyBlob, DropSlot, DropKeyFile, RotateStart,
   RotatePut, RotateSlot, Refuse, Crash, history

LEMMA OneStep ==
  ASSUME TypeInv, OneInv, [Next]_vars PROVE OneInv'
<1> SUFFICES ASSUME ~stolen'
             PROVE  /\ Guarded' /\ Fresh' /\ Making'
                    /\ \E x \in 0..MaxMasters : Only(x)'
  BY DEF OneInv
<1>1. CASE UNCHANGED vars
  BY <1>1 DEF vars, files, history, bounds, OneInv, Guarded, Fresh, Making, Only
<1>2. CASE Tick
  <2>1. UNCHANGED <<config, slot, keyFile, encFile, used, stolen>>
    BY <1>2 DEF Tick, files, history
  <2>2. Guarded /\ Fresh /\ Making /\ \E x \in 0..MaxMasters : Only(x)
    BY <2>1 DEF OneInv
  <2>3. \A q \in Proc : \/ proc'[q] = proc[q]
                        \/ ~proc'[q].boot /\ proc'[q].pc \in {"lock", "idle"}
    BY <1>2, TickMoves
  <2>4. Guarded'
    BY <1>2, <2>2, <2>3, TickFiles DEF Guarded
  <2>5. Fresh' /\ Making'
    BY <2>1, <2>2, <2>3 DEF Fresh, Making, Command, Creating
  <2>6. ASSUME NEW x \in 0..MaxMasters, Only(x) PROVE Only(x)'
    BY <2>1, <2>3, <2>6 DEF Only, Unlocking
  <2> QED BY <2>2, <2>4, <2>5, <2>6
<1>3. ASSUME NEW p \in Proc, Act(p)
      PROVE  /\ Guarded' /\ Fresh' /\ Making'
             /\ \E x \in 0..MaxMasters : Only(x)'
  <2>1. Guarded /\ Fresh /\ Making /\ \E x \in 0..MaxMasters : Only(x)
    BY <1>3, StolenStays DEF OneInv
  <2> QED BY <1>3, <2>1, GuardedKept, FreshKept, MakingKept, OnlyKept
<1> QED BY <1>1, <1>2, <1>3 DEF Next, Act

LEMMA OneInit == Init => OneInv
<1> SUFFICES ASSUME Init PROVE OneInv
  OBVIOUS
<1>1. \A p \in Proc : proc[p].pc = "idle" /\ ~proc[p].boot
  BY DEF Init, Stopped
<1>2. Guarded /\ Fresh /\ Making
  BY <1>1 DEF Init, Guarded, Fresh, Making, Command, Creating
<1>3. Only(0)
  BY <1>1 DEF Init, Only, Unlocking
<1> QED BY <1>2, <1>3, StartupAssumption DEF OneInv

LEMMA AtMostOne ==
  ASSUME NEW S, NEW x, S \subseteq {x} PROVE Cardinality(S) <= 1
<1>1. IsFiniteSet({x}) /\ Cardinality({x}) = 1
  BY FS_Singleton
<1> QED BY <1>1, FS_Subset

(* OneMaster, on every computer and for any number of launches, commands   *)
(* at one time and deaths.                                                 *)
THEOREM OneMasterKey == Spec => []OneMaster
<1>1. Init => TypeInv /\ OneInv
  BY TypeInit, OneInit
<1>2. TypeInv /\ OneInv /\ [Next]_vars => TypeInv' /\ OneInv'
  BY TypeStep, OneStep
<1>3. OneInv => OneMaster
  BY AtMostOne DEF OneInv, Only, OneMaster
<1> QED BY <1>1, <1>2, <1>3, PTL DEF Spec

(***************************************************************************)
(* The master key survives: one command at a time.                         *)
(***************************************************************************)

(* The user waits for a command to end before giving the next.             *)
OneByOne == AtOnce = 1 /\ IsFiniteSet(Proc)

OneCommand == \A p, q \in Running : p = q

(* What an upgrade relies on: the slot is there until the blob is, and the *)
(* blob is what was written.                                               *)
UpStep(p) ==
  /\ proc[p].pc \in {"up blob", "up write", "up verify", "up drop"} =>
       slot # None /\ slot.key \in {"first", "second"}
  /\ proc[p].pc \in {"up verify", "up drop", "up unlink"} => encFile = proc[p].master

SurviveInv ==
  /\ OneCommand
  /\ ~stolen => /\ used # {} => Held # {}
                /\ \A p \in Proc : UpStep(p)

LEMMA CommandRuns ==
  ASSUME TypeInv, NEW p \in Proc, proc[p].pc \in Command
  PROVE  p \in Running /\ proc[p].save \in Config
BY OwnNow DEF Running, Own, Booting, Saving, Command

Start(p) == StartEdit(p) \/ StartUpgrade(p) \/ StartRotate(p)

(* A command runs that ran, unless it was just started.                    *)
LEMMA RunningKept ==
  ASSUME TypeInv, NEW p \in Proc, Act(p), ~Start(p), p \in Running'
  PROVE  p \in Running
<1>1. ~proc'[p].boot /\ proc'[p].pc \in Command \cup Saving
  BY DEF Running
<1>2. CASE Truncate(p)
  BY <1>1, <1>2, ServeLeads DEF Running, Truncate, Saving
<1>3. CASE (Serve(p) /\ ~Truncate(p)) \/ Refuse(p) \/ Crash(p)
  BY <1>1, <1>3, ServeLeads DEF Serve, Command, Saving
<1>4. CASE Order(p)
  <2>1. proc[p].pc \in Command
    BY <1>4 DEF Order, Start, Edit, UpgradeUnlock, RotateUnlock, UnlockSlot, TruncateBlob,
       WriteBlob, VerifyBlob, DropSlot, DropKeyFile, RotateStart, RotatePut, RotateSlot, Command
  <2> QED BY <2>1, CommandRuns
<1> QED BY <1>2, <1>3, <1>4 DEF Act

LEMMA OthersRun ==
  ASSUME TypeInv, NEW p \in Proc, Act(p), NEW q \in Proc, q # p
  PROVE  q \in Running' <=> q \in Running
BY OthersStay DEF Running

LEMMA NoneRuns ==
  ASSUME NEW p \in Proc, OneByOne, Start(p)
  PROVE  Running = {} /\ Readable(config)
<1>1. Cardinality(Running) < AtOnce /\ Readable(config)
  BY DEF Start, StartEdit, StartUpgrade, StartRotate, StartCommand
<1>2. IsFiniteSet(Running)
  BY FS_Subset DEF OneByOne, Running
<1>3. Cardinality(Running) \in Nat /\ Cardinality(Running) < 1
  BY <1>1, <1>2, FS_CardinalityType DEF OneByOne
<1>4. Cardinality(Running) = 0
  BY <1>3
<1> QED BY <1>1, <1>2, <1>4, FS_EmptySet

LEMMA OneCommandKept ==
  ASSUME TypeInv, OneByOne, OneCommand, NEW p \in Proc, Act(p)
  PROVE  OneCommand'
<1> SUFFICES ASSUME NEW q \in Running', NEW r \in Running' PROVE q = r
  BY DEF OneCommand
<1>1. q \in Proc /\ r \in Proc
  BY DEF Running
<1>2. CASE Start(p)
  BY <1>1, <1>2, NoneRuns, OthersRun
<1>3. CASE ~Start(p)
  BY <1>1, <1>3, RunningKept, OthersRun DEF OneCommand
<1> QED BY <1>2, <1>3

(* What an action does to the places of the master key.                    *)
LEMMA FilesWritten ==
  ASSUME NEW p \in Proc, Act(p)
  PROVE  /\ Wrap(p) \/ DropSlot(p) \/ RotateSlot(p) \/ slot' = slot
         /\ Wrap(p) \/ DropKeyFile(p) \/ keyFile' = keyFile
         /\ TruncateBlob(p) \/ WriteBlob(p) \/ encFile' = encFile
         /\ Unlock(p) \/ used' = used
BY DEF Act, Serve, Order, Launch, Boot, Lock, FindLocked, Unlink, CheckAgain, Detect, Wrap,
   SkipRegistration, Register, Upload, Truncate, Write, Leave, Reload, Unlock, StartEdit,
   StartUpgrade, StartRotate, StartCommand, Edit, UpgradeUnlock, RotateUnlock, UnlockSlot,
   TruncateBlob, WriteBlob, VerifyBlob, DropSlot, DropKeyFile, RotateStart, RotatePut,
   RotateSlot, Refuse, Crash, files, history

(* A bootstrap stores its master key while there is nothing else.          *)
LEMMA WrapAlone ==
  ASSUME TypeInv, Fresh, Making, NEW p \in Proc, Wrap(p)
  PROVE  /\ config = None /\ used = {}
         /\ \A q \in Proc : proc[q].pc \notin Command
<1>1. proc[p].boot /\ proc[p].pc = "wrap"
  BY OwnNow DEF Wrap, Own, Booting
<1> QED BY <1>1 DEF Making, Creating, Fresh

LEMMA UpStepKept ==
  ASSUME TypeInv, OneCommand, Fresh, Making, \A q \in Proc : UpStep(q),
         NEW p \in Proc, Act(p), NEW q \in Proc
  PROVE  UpStep(q)'
<1> SUFFICES ASSUME proc'[q].pc \in {"up blob", "up write", "up verify", "up drop",
                                     "up unlink"}
             PROVE  UpStep(q)'
  BY DEF UpStep
<1>1. CASE q # p
  <2>1. proc'[q] = proc[q] /\ q \in Running
    BY <1>1, OthersStay, CommandRuns DEF Command
  <2>2. p \notin Running
    BY <1>1, <2>1 DEF OneCommand
  <2>3. /\ ~DropSlot(p) /\ ~RotateSlot(p) /\ ~TruncateBlob(p) /\ ~WriteBlob(p)
    BY <2>2, CommandRuns DEF DropSlot, RotateSlot, TruncateBlob, WriteBlob, Command
  <2>4. ~Wrap(p)
    BY <2>1, WrapAlone DEF Command
  <2>5. slot' = slot /\ encFile' = encFile
    BY <2>3, <2>4, FilesWritten
  <2> QED BY <2>1, <2>5 DEF UpStep
<1>2. CASE q = p
  <2>1. CASE UpgradeUnlock(p)
    <3>1. FromSlot(proc[p].save) # None /\ proc'[p].pc = "up blob"
      BY <1>2, <2>1, OrderLeads
    <3>2. slot' = slot
      BY <2>1 DEF UpgradeUnlock, UnlockSlot, files
    <3> QED BY <1>2, <3>1, <3>2, FromSlotType DEF UpStep
  <2>2. CASE TruncateBlob(p)
    <3>1. proc'[p].pc = "up write" /\ slot' = slot /\ proc[p].pc = "up blob"
      BY <1>2, <2>2, OrderLeads DEF TruncateBlob
    <3> QED BY <1>2, <3>1 DEF UpStep
  <2>3. CASE WriteBlob(p)
    <3>1. /\ proc'[p].pc = "up verify" /\ slot' = slot /\ proc[p].pc = "up write"
          /\ encFile' = proc[p].master /\ proc'[p].master = proc[p].master
      BY <1>2, <2>3, OrderLeads DEF WriteBlob
    <3> QED BY <1>2, <3>1 DEF UpStep
  <2>4. CASE VerifyBlob(p)
    <3>1. /\ proc'[p].pc = "up drop" /\ proc[p].pc = "up verify"
          /\ proc'[p].master = proc[p].master
      BY <1>2, <2>4, OrderLeads DEF VerifyBlob
    <3>2. slot' = slot /\ encFile' = encFile
      BY <2>4 DEF VerifyBlob, files
    <3> QED BY <1>2, <3>1, <3>2 DEF UpStep
  <2>5. CASE DropSlot(p)
    <3>1. /\ proc'[p].pc = "up unlink" /\ encFile' = encFile /\ proc[p].pc = "up drop"
          /\ proc'[p].master = proc[p].master
      BY <1>2, <2>5, OrderLeads DEF DropSlot
    <3> QED BY <1>2, <3>1 DEF UpStep
  <2>6. ~(Serve(p) \/ Refuse(p) \/ Crash(p))
    BY <1>2, ServeLeads DEF Serve
  <2>7. /\ ~StartEdit(p) /\ ~StartUpgrade(p) /\ ~StartRotate(p) /\ ~Edit(p) /\ ~DropKeyFile(p)
        /\ ~RotateSlot(p)
    BY <1>2, OrderLeads
  <2>8. ~RotateUnlock(p)
    BY <1>2, OrderLeads
  <2>9. ~RotateStart(p) /\ ~RotatePut(p)
    BY <1>2, OrderLeads
  <2> QED BY <2>1, <2>2, <2>3, <2>4, <2>5, <2>6, <2>7, <2>8, <2>9 DEF Act, Order
<1> QED BY <1>1, <1>2

(* What was unlocked can still be had.                                     *)
LEMMA UnlockedIsHeld ==
  ASSUME TypeInv, NEW c, Unlocked(c) # None
  PROVE  Held # {}
<1>1. CASE c.tier = "maximum"
  BY <1>1 DEF Unlocked, Held, TypeInv, TypeOK
<1>2. CASE c.tier # "maximum" /\ machine.file /\ keyFile # None /\ slot = None
  BY <1>2 DEF Held, TypeInv, TypeOK
<1>3. CASE FromSlot(c) # None
  BY <1>3, FromSlotType DEF Held
<1> QED BY <1>1, <1>2, <1>3 DEF Unlocked

LEMMA HeldKept ==
  ASSUME TypeInv, OneInv, ~stolen, used # {} => Held # {}, \A q \in Proc : UpStep(q),
         NEW p \in Proc, Act(p), used' # {}
  PROVE  Held' # {}
<1>1. CASE Unlock(p)
  <2>1. Held' = Held
    BY <1>1 DEF Unlock, files, Held, Master
  <2>2. used # {} \/ Unlocked(proc[p].save) # None
    BY <1>1 DEF Unlock
  <2> QED BY <2>1, <2>2, UnlockedIsHeld
<1>2. CASE ~Unlock(p)
  <2>1. used # {} /\ Held # {}
    BY <1>2, FilesWritten
  <2>2. ~Wrap(p)
    BY <2>1, WrapAlone DEF OneInv
  <2>3. proc[p].pc \in Unlocking => proc[p].master \in Master
    BY OwnNow DEF Own
  <2>4. CASE TruncateBlob(p) \/ WriteBlob(p)
    <3>1. slot # None /\ slot.key \in {"first", "second"} /\ slot' = slot
      BY <2>4 DEF TruncateBlob, WriteBlob, UpStep
    <3> QED BY <3>1 DEF Held
  <2>5. CASE DropSlot(p) \/ DropKeyFile(p)
    <3>1. encFile' = proc[p].master /\ proc[p].pc \in Unlocking
      BY <2>5 DEF DropSlot, DropKeyFile, UpStep, Unlocking
    <3> QED BY <2>3, <3>1 DEF Held, Master
  <2>6. CASE RotateSlot(p)
    <3>1. slot' = [master |-> proc[p].master, key |-> "second"] /\ proc[p].master \in Master
      BY <2>3, <2>6 DEF RotateSlot, Unlocking
    <3>2. slot' # None
      <4>1. slot' \in Slot
        BY <3>1 DEF Slot, Key
      <4> QED BY <4>1, Apart
    <3> QED BY <3>1, <3>2 DEF Held
  <2>7. CASE /\ ~TruncateBlob(p) /\ ~WriteBlob(p) /\ ~DropSlot(p) /\ ~DropKeyFile(p)
             /\ ~RotateSlot(p)
    <3>1. slot' = slot /\ keyFile' = keyFile /\ encFile' = encFile
      BY <2>2, <2>7, FilesWritten
    <3> QED BY <2>1, <3>1 DEF Held, Master
  <2> QED BY <2>4, <2>5, <2>6, <2>7
<1> QED BY <1>1, <1>2

LEMMA SurviveStep ==
  ASSUME OneByOne, TypeInv, OneInv, SurviveInv, [Next]_vars PROVE SurviveInv'
<1>1. CASE UNCHANGED vars
  BY <1>1 DEF vars, files, history, bounds, SurviveInv, OneCommand, Running, UpStep, Held,
     Master
<1>2. CASE Tick
  <2>1. UNCHANGED <<slot, keyFile, encFile, used, stolen>>
    BY <1>2 DEF Tick, files, history
  <2>2. \A q \in Proc : \/ proc'[q] = proc[q]
                        \/ ~proc'[q].boot /\ proc'[q].pc \in {"lock", "idle"}
    BY <1>2, TickMoves
  <2>3. OneCommand'
    BY <2>2 DEF SurviveInv, OneCommand, Running, Command, Saving
  <2>4. ASSUME NEW q \in Proc, UpStep(q) PROVE UpStep(q)'
    BY <2>1, <2>2, <2>4 DEF UpStep
  <2>5. Held' = Held
    BY <2>1 DEF Held, Master
  <2> QED BY <2>1, <2>3, <2>4, <2>5 DEF SurviveInv
<1>3. ASSUME NEW p \in Proc, Act(p) PROVE SurviveInv'
  <2>1. OneCommand'
    BY <1>3, OneCommandKept DEF SurviveInv
  <2>2. ASSUME ~stolen' PROVE (used # {} => Held # {})' /\ \A q \in Proc : UpStep(q)'
    <3>1. ~stolen
      BY <1>3, <2>2, StolenStays
    <3>2. Fresh /\ Making
      BY <3>1 DEF OneInv
    <3>3. OneCommand /\ (used # {} => Held # {}) /\ \A q \in Proc : UpStep(q)
      BY <3>1 DEF SurviveInv
    <3>4. used' # {} => Held' # {}
      BY <1>3, <3>1, <3>3, HeldKept
    <3>5. \A q \in Proc : UpStep(q)'
      BY <1>3, <3>2, <3>3, UpStepKept
    <3> QED BY <3>4, <3>5
  <2> QED BY <2>1, <2>2 DEF SurviveInv
<1> QED BY <1>1, <1>2, <1>3 DEF Next, Act

LEMMA SurviveInit == Init => SurviveInv
<1> SUFFICES ASSUME Init PROVE SurviveInv
  OBVIOUS
<1>1. \A p \in Proc : proc[p].pc = "idle"
  BY DEF Init, Stopped
<1> QED BY <1>1 DEF Init, SurviveInv, OneCommand, Running, UpStep, Command, Saving

(* MasterSurvives, on every computer and for any number of deaths.          *)
THEOREM MasterKeySurvives == ASSUME OneByOne PROVE Spec => []MasterSurvives
<1>1. Init => TypeInv /\ OneInv /\ SurviveInv
  BY TypeInit, OneInit, SurviveInit
<1>2. TypeInv /\ OneInv /\ SurviveInv /\ [Next]_vars => TypeInv' /\ OneInv' /\ SurviveInv'
  BY TypeStep, OneStep, SurviveStep
<1>3. TypeInv /\ OneInv /\ SurviveInv => MasterSurvives
  <2> SUFFICES ASSUME TypeInv, OneInv, SurviveInv, ~stolen PROVE used \subseteq Held
    BY DEF MasterSurvives
  <2>1. PICK x \in 0..MaxMasters : Only(x)
    BY DEF OneInv
  <2>2. Held \subseteq {x}
    BY <2>1, Apart DEF Held, Only
  <2> QED BY <2>1, <2>2 DEF SurviveInv, Only
<1> QED BY <1>1, <1>2, <1>3, PTL DEF Spec

(***************************************************************************)
(* Config and keyring belong together, on the computers where a bootstrap  *)
(* leaves something to unlock.                                             *)
(***************************************************************************)

Keychain == [file |-> FALSE, keychain |-> TRUE, ssh |-> "file"]
KeyFile == [file |-> TRUE, keychain |-> FALSE, ssh |-> "none"]

Usables == Machines \subseteq {Keychain, KeyFile}

(* A server with config c on computer m finds its master key in the slot,  *)
(* in master.key or in master-key.enc.                                     *)
Fits(m, c, s, k, e) ==
  IF c.tier = "maximum" THEN e \notin {None, Torn}
  ELSE IF m = KeyFile THEN k # None
  ELSE s # None /\ s.key = IF c.key = "second" THEN "second" ELSE "first"

Fit(c) == Fits(machine, c, slot, keyFile, encFile)

Upgrading == {"up unlock", "up blob", "up write", "up verify", "up drop", "up unlink"}

(* What a config that is written, or that a command works on, fits.        *)
Busy(p) ==
  /\ proc[p].boot /\ proc[p].pc = "write" => config = Torn /\ Running = {}
  /\ proc[p].pc \in {"register", "upload"} =>
       \A sync \in {"on", "pending", "off"} : Fit(NewConfig(p, sync))
  /\ proc[p].pc \in Saving => Fit(proc[p].save)
  /\ proc[p].pc \in Command \ {"up unlink"} => config = proc[p].save /\ Fit(proc[p].save)
  /\ proc[p].pc \in Upgrading => proc[p].save.tier = "standard"

OpenInv ==
  /\ machine \in {Keychain, KeyFile}
  /\ ~stolen /\ ~broken =>
       /\ Running = {} /\ Readable(config) => Fit(config)
       /\ \A p \in Proc : Busy(p)

(* Where the two computers keep the master key.                            *)
LEMMA TwoComputers ==
  /\ Keychain # KeyFile
  /\ machine = Keychain => InSlot /\ Detected = "first" /\ HasStorage
  /\ machine = KeyFile => ~InSlot /\ Detected = None /\ HasStorage
<1>1. Keychain.file = FALSE /\ Keychain.keychain = TRUE /\ Keychain.ssh = "file"
  BY DEF Keychain
<1>2. KeyFile.file = TRUE /\ KeyFile.keychain = FALSE /\ KeyFile.ssh = "none"
  BY DEF KeyFile
<1>3. "first" # None
  BY Apart DEF Key
<1>4. machine = Keychain => Detected = "first" /\ HasStorage
  BY <1>1 DEF Detected, HasStorage
<1>5. machine = KeyFile => Detected = None /\ HasStorage
  BY <1>2 DEF Detected, HasStorage
<1> QED BY <1>1, <1>2, <1>3, <1>4, <1>5 DEF InSlot

LEMMA FitOpens ==
  ASSUME TypeInv, machine \in {Keychain, KeyFile}, NEW c \in Config, Fit(c)
  PROVE  Unlocked(c) # None
<1>1. CASE c.tier = "maximum"
  BY <1>1 DEF Fit, Fits, Unlocked
<1>2. CASE c.tier # "maximum" /\ machine = KeyFile
  <2>1. keyFile # None
    BY <1>2 DEF Fit, Fits
  <2>2. slot = None
    BY <1>2, TwoComputers DEF TypeInv, OnePlace
  <2>3. machine.file
    BY <1>2 DEF KeyFile
  <2> QED BY <1>2, <2>1, <2>2, <2>3 DEF Unlocked
<1>3. CASE c.tier # "maximum" /\ machine = Keychain
  <2>1. slot # None /\ slot.key = (IF c.key = "second" THEN "second" ELSE "first")
    BY <1>3, TwoComputers DEF Fit, Fits
  <2>2. machine.ssh = "file" /\ ~machine.file
    BY <1>3 DEF Keychain
  <2>3. slot.key = PrivateKey(c)
    BY <2>1, <2>2 DEF PrivateKey
  <2>4. slot.master \in Master /\ slot.master # None
    BY <2>1, Apart DEF TypeInv, TypeOK, Slot
  <2>5. FromSlot(c) # None
    BY <1>3, <2>1, <2>3, <2>4, TwoComputers DEF FromSlot
  <2> QED BY <1>3, <2>2, <2>5 DEF Unlocked
<1> QED BY <1>1, <1>2, <1>3

(* While a command runs nobody else is at something that Busy is about.     *)
LEMMA Alone ==
  ASSUME TypeInv, OneInv, SurviveInv, ~stolen, \A q \in Proc : Busy(q),
         NEW p \in Running, NEW q \in Proc, q # p
  PROVE  proc[q].pc \notin Command \cup Saving \cup {"register", "upload"}
<1>1. p \in Proc /\ ~proc[p].boot /\ proc[p].pc \in Command \cup Saving
  BY DEF Running
<1>2. q \notin Running
  BY <1>1 DEF SurviveInv, OneCommand
<1>3. proc[q].pc \notin Command
  BY <1>2, CommandRuns
<1>4. config # None
  <2>1. Fresh
    BY DEF OneInv
  <2> QED BY <1>1, <2>1 DEF Fresh, Saving
<1>5. proc[q].pc \in Saving \cup {"register", "upload"} => proc[q].boot
  BY <1>2, OwnNow DEF Running, Own, Booting
<1>6. proc[q].boot => proc[q].pc \notin Creating
  BY <1>4 DEF OneInv, Making
<1>7. proc[q].boot => proc[q].pc # "write"
  BY DEF Busy
<1> QED BY <1>3, <1>5, <1>6, <1>7 DEF Saving, Creating

LEMMA RegistrationLeads ==
  ASSUME TypeInv, NEW p \in Proc, SkipRegistration(p) \/ Register(p) \/ Upload(p)
  PROVE  /\ proc[p].pc \in {"register", "upload"}
         /\ \/ proc'[p].pc = "upload" /\ proc'[p].key = proc[p].key
            \/ /\ proc'[p].pc = "truncate"
               /\ \E sync \in {"on", "pending", "off"} : proc'[p].save = NewConfig(p, sync)
<1>1. proc[p].pc \in {"register", "upload"}
  BY DEF SkipRegistration, Register, Upload
<1>2. Moves(p, To(p, "upload")) => proc'[p].pc = "upload" /\ proc'[p].key = proc[p].key
  BY MovesFields DEF To
<1>3. ASSUME NEW c, Moves(p, With(proc[p], "truncate", proc[p].master, c))
      PROVE  proc'[p].pc = "truncate" /\ proc'[p].save = c
  BY <1>3, MovesFields
<1> QED BY <1>1, <1>2, <1>3, RegistrationMoves

LEMMA WritersKeep ==
  ASSUME TypeInv, NEW p \in Proc
  PROVE  /\ Wrap(p) => proc'[p].key = proc[p].key
         /\ Truncate(p) => proc'[p].save = proc[p].save
<1>1. ASSUME NEW pc, Moves(p, To(p, pc))
      PROVE  proc'[p].key = proc[p].key /\ proc'[p].save = proc[p].save
  BY <1>1, MovesFields DEF To
<1> QED BY <1>1, WrapMoves, TruncateMoves

LEMMA BrokenStays ==
  ASSUME TypeInv, NEW p \in Proc, Act(p), ~broken'
  PROVE  ~broken /\ ~(Crash(p) /\ p \in Running)
BY DEF TypeInv, TypeOK, Act, Serve, Order, Launch, Boot, Lock, FindLocked, Unlink, CheckAgain,
   Detect, Wrap, SkipRegistration, Register, Upload, Truncate, Write, Leave, Reload, Unlock,
   StartEdit, StartUpgrade, StartRotate, StartCommand, Edit, UpgradeUnlock, RotateUnlock,
   UnlockSlot, TruncateBlob, WriteBlob, VerifyBlob, DropSlot, DropKeyFile, RotateStart,
   RotatePut, RotateSlot, Refuse, Crash, history

FilesSame == UNCHANGED <<machine, slot, keyFile, encFile>>

(* Who does not move, with the files as they were, is as busy as before.    *)
LEMMA BusyStays ==
  ASSUME NEW q \in Proc, Busy(q), proc'[q] = proc[q], FilesSame, config' = config,
         Running = {} => Running' = {}
  PROVE  Busy(q)'
BY DEF Busy, FilesSame, Fit, NewConfig

(* Steps that leave the files alone, of a process that runs no command.    *)
Quiet(p) ==
  \/ Launch(p) \/ Boot(p) \/ Lock(p) \/ FindLocked(p) \/ Unlink(p) \/ CheckAgain(p)
  \/ Detect(p) \/ SkipRegistration(p) \/ Register(p) \/ Upload(p) \/ Leave(p) \/ Reload(p)
  \/ Unlock(p) \/ Refuse(p) \/ (Crash(p) /\ p \notin Running)

LEMMA QuietRuns ==
  ASSUME TypeInv, NEW p \in Proc, Quiet(p)
  PROVE  Act(p) /\ p \notin Running /\ ~Start(p) /\ Running' = Running
<1>1. Act(p)
  BY DEF Quiet, Act, Serve
<1>2. p \notin Running
  <2>1. proc[p].boot \/ proc[p].pc \notin Command \cup Saving \/ p \notin Running
    BY OwnNow DEF Quiet, Launch, Boot, Lock, FindLocked, Unlink, CheckAgain, Detect,
       SkipRegistration, Register, Upload, Leave, Reload, Unlock, Refuse, Own, Booting,
       Command, Saving
  <2> QED BY <2>1 DEF Running
<1>3. proc'[p].pc \in {"truncate"} \cup Command => proc'[p].boot
  BY ServeLeads DEF Quiet, Command
<1>4. ~Start(p)
  <2>1. proc'[p].pc \notin {"edit", "up unlock", "rot unlock"}
    BY ServeLeads DEF Quiet
  <2> QED BY <2>1, OrderLeads DEF Start
<1>5. p \notin Running'
  BY <1>1, <1>2, <1>4, RunningKept
<1>6. Running' \subseteq Proc /\ Running \subseteq Proc
  BY DEF Running
<1> QED BY <1>1, <1>2, <1>4, <1>5, <1>6, OthersRun

LEMMA OpenQuiet ==
  ASSUME TypeInv, NEW p \in Proc, Quiet(p), Running = {} /\ Readable(config) => Fit(config),
         \A q \in Proc : Busy(q)
  PROVE  /\ Running' = {} /\ Readable(config') => Fit(config)'
         /\ \A q \in Proc : Busy(q)'
<1>1. FilesSame /\ config' = config
  BY DEF Quiet, FilesSame, Launch, Boot, Lock, FindLocked, Unlink, CheckAgain, Detect,
     SkipRegistration, Register, Upload, Leave, Reload, Unlock, Refuse, Crash, files
<1>2. Running' = Running /\ Act(p)
  BY QuietRuns
<1>3. Fit(config)' <=> Fit(config)
  BY <1>1 DEF Fit, FilesSame
<1>4. ASSUME NEW q \in Proc, q # p PROVE Busy(q)'
  BY <1>1, <1>2, <1>4, BusyStays, OthersStay
<1>5. Busy(p)'
  <2>1. CASE SkipRegistration(p) \/ Register(p) \/ Upload(p)
    <3>1. proc[p].pc \in {"register", "upload"}
      BY <2>1, RegistrationLeads
    <3>2. \A sync \in {"on", "pending", "off"} : Fit(NewConfig(p, sync))
      BY <3>1 DEF Busy
    <3>3. CASE proc'[p].pc = "upload" /\ proc'[p].key = proc[p].key
      <4>1. \A sync : NewConfig(p, sync)' = NewConfig(p, sync)
        BY <3>3 DEF NewConfig
      <4>2. \A sync \in {"on", "pending", "off"} : Fit(NewConfig(p, sync))'
        BY <1>1, <3>2, <3>3 DEF Fit, FilesSame, NewConfig
      <4> QED BY <3>3, <4>2 DEF Busy, Saving, Command, Upgrading
    <3>4. CASE /\ proc'[p].pc = "truncate"
               /\ \E sync \in {"on", "pending", "off"} : proc'[p].save = NewConfig(p, sync)
      <4>1. Fit(proc'[p].save)
        BY <3>2, <3>4
      <4>2. Fit(proc[p].save)'
        BY <1>1, <4>1 DEF Fit, FilesSame
      <4> QED BY <3>4, <4>2 DEF Busy, Saving, Command, Upgrading
    <3> QED BY <2>1, <3>3, <3>4, RegistrationLeads
  <2>2. CASE ~(SkipRegistration(p) \/ Register(p) \/ Upload(p))
    <3>1. proc'[p].pc \in {"unlock", "boot", "reload", "lock", "check", "unlink", "sleep",
                           "release", "detect", "wrap", "idle"}
      BY <2>2, ServeLeads DEF Quiet
    <3> QED BY <3>1 DEF Busy, Saving, Command, Upgrading
  <2> QED BY <2>1, <2>2
<1> QED BY <1>1, <1>2, <1>3, <1>4, <1>5

(* A bootstrap stores the master key.                                      *)
LEMMA OpenWrap ==
  ASSUME TypeInv, Guarded, Fresh, Making, machine \in {Keychain, KeyFile},
         NEW p \in Proc, Wrap(p)
  PROVE  /\ ~Readable(config')
         /\ \A q \in Proc : Busy(q)'
<1>1. /\ proc[p].boot /\ proc[p].pc = "wrap" /\ proc[p].key = Detected
      /\ proc[p].master \in Master
  BY OwnNow DEF Wrap, Own, Booting
<1>2. config = None /\ config' = None /\ machine' = machine
  BY WrapAlone DEF Wrap
<1>3. Act(p)
  BY DEF Act, Serve
<1>4. ASSUME NEW q \in Proc, q # p PROVE Busy(q)'
  <2>1. ~proc[q].boot
    BY <1>1, <1>4 DEF Guarded
  <2>2. proc[q].pc \notin Command \cup Saving \cup {"register", "upload"}
    BY <1>2, <2>1, OwnNow DEF Fresh, Own, Booting, Saving
  <2>3. proc'[q] = proc[q]
    BY <1>3, <1>4, OthersStay
  <2> QED BY <2>2, <2>3 DEF Busy, Saving, Command, Upgrading
<1>5. Busy(p)'
  <2>1. proc'[p].pc = "register" /\ proc'[p].key = Detected
    BY <1>1, ServeLeads, WritersKeep
  <2>2. ASSUME NEW sync PROVE Fit(NewConfig(p, sync))'
    <3>1. NewConfig(p, sync)'.tier = "standard" /\ NewConfig(p, sync)'.key = Detected
      BY <2>1 DEF NewConfig
    <3>2. CASE machine = Keychain
      <4>1. slot' = [master |-> proc[p].master, key |-> "first"]
        BY <1>1, <3>2, TwoComputers DEF Wrap, InSlot
      <4>2. slot' # None
        <5>1. slot' \in Slot
          BY <1>1, <4>1 DEF Slot, Key
        <5> QED BY <5>1, Apart
      <4>3. machine' # KeyFile /\ Detected = "first"
        BY <1>2, <3>2, TwoComputers
      <4> QED BY <3>1, <4>1, <4>2, <4>3 DEF Fit, Fits
    <3>3. CASE machine = KeyFile
      <4>1. keyFile' = proc[p].master
        BY <1>1, <3>3, TwoComputers DEF Wrap
      <4>2. keyFile' # None
        BY <1>1, <4>1, Apart
      <4> QED BY <1>2, <3>1, <3>3, <4>2 DEF Fit, Fits
    <3> QED BY <3>2, <3>3
  <2> QED BY <2>1, <2>2 DEF Busy, Saving, Command, Upgrading
<1> QED BY <1>2, <1>4, <1>5 DEF Readable

(* config.json is truncated, and written.                                  *)
LEMMA OpenTruncate ==
  ASSUME TypeInv, OneInv, SurviveInv, ~stolen, \A q \in Proc : Busy(q),
         NEW p \in Proc, Truncate(p)
  PROVE  /\ ~Readable(config')
         /\ \A q \in Proc : Busy(q)'
<1>1. /\ config' = Torn /\ FilesSame /\ Act(p) /\ proc[p].pc = "truncate"
      /\ proc'[p].pc = "write" /\ proc'[p].boot = proc[p].boot
      /\ proc'[p].save = proc[p].save
  BY ServeLeads, WritersKeep DEF Truncate, FilesSame, Act, Serve
<1>2. ~Start(p)
  BY <1>1, OrderLeads DEF Start
<1>3. Running' \subseteq Running
  BY <1>1, <1>2, RunningKept, OthersRun DEF Running
<1>4. proc[p].boot => Running = {} /\ \A q \in Proc : proc[q].pc \notin Command
  <2> SUFFICES ASSUME proc[p].boot PROVE Running = {} /\ \A q \in Proc : proc[q].pc \notin Command
    OBVIOUS
  <2>1. config = None
    BY <1>1 DEF OneInv, Making, Creating
  <2>2. Fresh
    BY DEF OneInv
  <2> QED BY <2>1, <2>2 DEF Fresh, Running, Saving
<1>5. ~proc[p].boot => p \in Running
  BY <1>1 DEF Running, Saving
<1>6. Busy(p)'
  <2>1. Fit(proc[p].save)'
    BY <1>1 DEF Busy, Saving, Fit, FilesSame
  <2>2. proc[p].boot => Running' = {}
    BY <1>3, <1>4
  <2> QED BY <1>1, <2>1, <2>2 DEF Busy, Saving, Command, Upgrading
<1>7. ASSUME NEW q \in Proc, q # p PROVE Busy(q)'
  <2>1. proc'[q] = proc[q]
    BY <1>1, <1>7, OthersStay
  <2>2. proc[q].pc \notin Command
    BY <1>4, <1>5, <1>7, Alone
  <2>3. proc[q].boot /\ proc[q].pc = "write" => Running' = {}
    BY <1>3 DEF Busy
  <2>4. \A sync : proc[q].pc \in {"register", "upload"} /\ Fit(NewConfig(q, sync)) =>
          Fit(NewConfig(q, sync))'
    BY <1>1, <2>1 DEF Fit, NewConfig, FilesSame
  <2>5. Fit(proc[q].save) => Fit(proc[q].save)'
    BY <1>1, <2>1 DEF Fit, FilesSame
  <2> QED BY <1>1, <2>1, <2>2, <2>3, <2>4, <2>5 DEF Busy, Upgrading, Command
<1> QED BY <1>1, <1>6, <1>7 DEF Readable

LEMMA OpenWrite ==
  ASSUME TypeInv, OneInv, SurviveInv, ~stolen, \A q \in Proc : Busy(q),
         NEW p \in Proc, Write(p)
  PROVE  /\ Fit(config)'
         /\ \A q \in Proc : Busy(q)'
<1>1. /\ config' = proc[p].save /\ FilesSame /\ Act(p) /\ proc[p].pc = "write"
      /\ proc'[p].pc \in {"release", "idle"}
  BY ServeLeads DEF Write, FilesSame, Act, Serve
<1>2. ~Start(p)
  BY <1>1, OrderLeads DEF Start
<1>3. Running' \subseteq Running
  BY <1>1, <1>2, RunningKept, OthersRun DEF Running
<1>4. Fit(config)'
  <2>1. Fit(proc[p].save)
    BY <1>1 DEF Busy, Saving
  <2> QED BY <1>1, <2>1 DEF Fit, FilesSame
<1>5. Busy(p)'
  BY <1>1 DEF Busy, Saving, Command, Upgrading
<1>6. ASSUME NEW q \in Proc, q # p PROVE Busy(q)'
  <2>1. proc'[q] = proc[q]
    BY <1>1, <1>6, OthersStay
  <2>2. ~(proc[q].boot /\ proc[q].pc = "write") /\ proc[q].pc \notin Command
    <3>1. CASE proc[p].boot
      <4>1. Running = {}
        BY <1>1, <3>1 DEF Busy
      <4>2. ~proc[q].boot
        BY <1>6, <3>1 DEF OneInv, Guarded
      <4> QED BY <4>1, <4>2, CommandRuns
    <3>2. CASE ~proc[p].boot
      <4>1. p \in Running
        BY <1>1, <3>2 DEF Running, Saving
      <4> QED BY <1>6, <4>1, Alone DEF Saving
    <3> QED BY <3>1, <3>2
  <2>3. \A sync : proc[q].pc \in {"register", "upload"} /\ Fit(NewConfig(q, sync)) =>
          Fit(NewConfig(q, sync))'
    BY <1>1, <2>1 DEF Fit, NewConfig, FilesSame
  <2>4. Fit(proc[q].save) => Fit(proc[q].save)'
    BY <1>1, <2>1 DEF Fit, FilesSame
  <2> QED BY <2>1, <2>2, <2>3, <2>4 DEF Busy, Upgrading, Command
<1> QED BY <1>4, <1>5, <1>6

(* A command starts.                                                       *)
LEMMA OpenStart ==
  ASSUME TypeInv, OneByOne, Running = {} /\ Readable(config) => Fit(config),
         \A q \in Proc : Busy(q), NEW p \in Proc, Start(p)
  PROVE  /\ Running' # {}
         /\ \A q \in Proc : Busy(q)'
<1>1. Act(p) /\ FilesSame /\ config' = config
  BY DEF Start, StartEdit, StartUpgrade, StartRotate, StartCommand, files, FilesSame, Act, Order
<1>2. Running = {} /\ Readable(config) /\ Fit(config)
  BY NoneRuns
<1>3. /\ proc'[p].pc \in {"edit", "up unlock", "rot unlock"} /\ proc'[p].save = config
      /\ proc'[p].pc = "up unlock" => StartUpgrade(p)
  BY OrderLeads DEF Start
<1>4. TypeInv'
  BY <1>1, TypeStep DEF Next, Act
<1>5. p \in Running'
  <2>1. ~proc'[p].boot
    BY <1>3, <1>4 DEF TypeInv, Own, Booting, Saving
  <2> QED BY <1>3, <2>1 DEF Running, Command
<1>6. Busy(p)'
  <2>1. Fit(proc[p].save)'
    BY <1>1, <1>2, <1>3 DEF Fit, FilesSame
  <2>2. proc'[p].pc = "up unlock" => proc'[p].save.tier = "standard"
    BY <1>3 DEF StartUpgrade
  <2> QED BY <1>1, <1>3, <2>1, <2>2 DEF Busy, Saving, Command, Upgrading
<1>7. ASSUME NEW q \in Proc, q # p PROVE Busy(q)'
  <2>1. proc'[q] = proc[q]
    BY <1>1, <1>7, OthersStay
  <2>2. ~(proc[q].boot /\ proc[q].pc = "write")
    BY <1>2 DEF Busy, Readable
  <2>3. \A sync : Fit(NewConfig(q, sync)) => Fit(NewConfig(q, sync))'
    BY <1>1, <2>1 DEF Fit, NewConfig, FilesSame
  <2>4. Fit(proc[q].save) => Fit(proc[q].save)'
    BY <1>1, <2>1 DEF Fit, FilesSame
  <2> QED BY <1>1, <2>1, <2>2, <2>3, <2>4 DEF Busy
<1> QED BY <1>5, <1>6, <1>7

(* A command takes a step: it stops and leaves the files alone, or goes on  *)
(* to the next.                                                            *)
LEMMA CommandLeads ==
  ASSUME TypeInv, OneInv, SurviveInv, ~stolen, machine \in {Keychain, KeyFile},
         NEW p \in Proc, Busy(p), Order(p), ~Start(p), proc'[p].pc # "idle"
  PROVE  /\ proc'[p].pc \in (Command \ {"edit", "up unlock", "rot unlock"}) \cup {"truncate"}
         /\ proc'[p].pc \in Command \ {"up unlink"} =>
              proc'[p].save = proc[p].save /\ proc[p].pc \in Command \ {"up unlink"}
                /\ Fit(proc[p].save)'
         /\ proc'[p].pc \in Upgrading => proc'[p].save.tier = "standard"
         /\ proc'[p].pc = "truncate" => Fit(proc[p].save)'
<1>1. proc[p].master \in Master \/ proc[p].pc \notin Unlocking
  BY OwnNow DEF Own
<1>2. CASE Edit(p)
  <2>1. proc'[p].pc = "truncate" /\ proc'[p].save = proc[p].save /\ Fit(proc[p].save)
    BY <1>2, OrderLeads DEF Edit, Busy, Command
  <2>2. FilesSame
    BY <1>2 DEF Edit, files, FilesSame
  <2> QED BY <2>1, <2>2 DEF Fit, FilesSame, Command, Upgrading
<1>3. CASE UpgradeUnlock(p) \/ RotateUnlock(p)
  <2>1. /\ proc'[p].save = proc[p].save
        /\ UpgradeUnlock(p) => proc'[p].pc = "up blob" /\ proc[p].pc = "up unlock"
        /\ RotateUnlock(p) => proc'[p].pc = "rot start" /\ proc[p].pc = "rot unlock"
    BY <1>3, OrderLeads DEF UpgradeUnlock, RotateUnlock, UnlockSlot
  <2>2. FilesSame
    BY <1>3 DEF UpgradeUnlock, RotateUnlock, UnlockSlot, files, FilesSame
  <2>3. Fit(proc[p].save) /\ (UpgradeUnlock(p) => proc[p].save.tier = "standard")
    BY <1>3, <2>1 DEF Busy, Command, Upgrading
  <2>4. Fit(proc[p].save)'
    BY <2>1, <2>2, <2>3 DEF Fit, FilesSame
  <2> QED BY <1>3, <2>1, <2>3, <2>4 DEF Command, Upgrading
<1>4. CASE TruncateBlob(p) \/ WriteBlob(p)
  <2>1. /\ proc'[p].save = proc[p].save /\ proc[p].pc \in {"up blob", "up write"}
        /\ proc'[p].pc \in {"up write", "up verify"}
    BY <1>4, OrderLeads DEF TruncateBlob, WriteBlob
  <2>2. UNCHANGED <<machine, slot, keyFile>>
    BY <1>4 DEF TruncateBlob, WriteBlob
  <2>3. Fit(proc[p].save) /\ proc[p].save.tier = "standard"
    BY <2>1 DEF Busy, Command, Upgrading
  <2>4. Fit(proc[p].save)'
    BY <2>1, <2>2, <2>3 DEF Fit, Fits
  <2> QED BY <2>1, <2>3, <2>4 DEF Command, Upgrading
<1>5. CASE VerifyBlob(p)
  <2>1. /\ proc'[p].save = proc[p].save /\ proc[p].pc = "up verify" /\ proc'[p].pc = "up drop"
    BY <1>5, OrderLeads DEF VerifyBlob
  <2>2. FilesSame
    BY <1>5 DEF VerifyBlob, files, FilesSame
  <2>3. Fit(proc[p].save) /\ proc[p].save.tier = "standard"
    BY <2>1 DEF Busy, Command, Upgrading
  <2>4. Fit(proc[p].save)'
    BY <2>1, <2>2, <2>3 DEF Fit, FilesSame
  <2> QED BY <2>1, <2>3, <2>4 DEF Command, Upgrading
<1>6. CASE DropSlot(p)
  <2>1. /\ proc'[p].save = proc[p].save /\ proc[p].pc = "up drop" /\ proc'[p].pc = "up unlink"
    BY <1>6, OrderLeads DEF DropSlot
  <2>2. proc[p].save.tier = "standard"
    BY <2>1 DEF Busy, Upgrading
  <2> QED BY <2>1, <2>2 DEF Command, Upgrading
<1>7. CASE DropKeyFile(p)
  <2>1. /\ proc[p].pc = "up unlink" /\ proc'[p].pc = "truncate"
        /\ proc'[p].save = [proc[p].save EXCEPT !.tier = "maximum"]
        /\ encFile' = encFile
    BY <1>7, OrderLeads DEF DropKeyFile
  <2>2. proc[p].save \in Config
    BY <2>1, CommandRuns DEF Command
  <2>3. proc'[p].save.tier = "maximum"
    BY <2>1, <2>2 DEF Config
  <2>4. encFile = proc[p].master
    <3>1. UpStep(p)
      BY DEF SurviveInv
    <3> QED BY <2>1, <3>1 DEF UpStep
  <2>5. encFile' \notin {None, Torn}
    BY <1>1, <2>1, <2>4, Apart DEF Unlocking
  <2>6. Fit(proc[p].save)'
    BY <2>3, <2>5 DEF Fit, Fits
  <2> QED BY <2>1, <2>6 DEF Command, Upgrading
<1>8. CASE RotateStart(p) \/ RotatePut(p)
  <2>1. /\ proc'[p].save = proc[p].save /\ proc[p].pc \in {"rot start", "rot put"}
        /\ proc'[p].pc \in {"rot put", "rot slot"}
    BY <1>8, OrderLeads DEF RotateStart, RotatePut
  <2>2. FilesSame
    BY <1>8 DEF RotateStart, RotatePut, files, FilesSame
  <2>3. Fit(proc[p].save)
    BY <2>1 DEF Busy, Command
  <2>4. Fit(proc[p].save)'
    BY <2>1, <2>2, <2>3 DEF Fit, FilesSame
  <2> QED BY <2>1, <2>4 DEF Command, Upgrading
<1>9. CASE RotateSlot(p)
  <2>1. /\ proc[p].pc = "rot slot" /\ proc'[p].pc = "truncate"
        /\ proc'[p].save = [proc[p].save EXCEPT !.key = "second"]
        /\ slot' = [master |-> proc[p].master, key |-> "second"]
        /\ UNCHANGED <<machine, keyFile, encFile>>
    BY <1>9, OrderLeads DEF RotateSlot
  <2>2. proc[p].save \in Config
    BY <2>1, CommandRuns DEF Command
  <2>3. proc'[p].save.key = "second" /\ proc'[p].save.tier = proc[p].save.tier
    BY <2>1, <2>2 DEF Config
  <2>4. Fit(proc[p].save)
    BY <2>1 DEF Busy, Command
  <2>5. InSlot /\ proc[p].master \in Master
    BY <2>1, OwnNow DEF Own, Unlocking
  <2>6. machine # KeyFile
    BY <2>5, TwoComputers
  <2>7. slot' # None /\ slot'.key = "second"
    <3>1. slot' \in Slot
      BY <2>1, <2>5 DEF Slot, Key
    <3> QED BY <2>1, <3>1, Apart
  <2>8. Fit(proc[p].save)'
    BY <2>1, <2>3, <2>4, <2>6, <2>7 DEF Fit, Fits
  <2> QED BY <2>1, <2>8 DEF Command, Upgrading
<1> QED BY <1>2, <1>3, <1>4, <1>5, <1>6, <1>7, <1>8, <1>9 DEF Order, Start

LEMMA CommandStops ==
  ASSUME TypeInv, NEW p \in Proc, Busy(p), Order(p), ~Start(p), proc'[p].pc = "idle"
  PROVE  FilesSame /\ Fit(config)
<1>1. ~Edit(p) /\ ~DropKeyFile(p) /\ ~RotateSlot(p)
  BY OrderLeads
<1>2. ASSUME NEW pc \in Pc, pc # "idle", Moves(p, To(p, pc)) PROVE FALSE
  BY <1>2, MovesFields DEF To
<1>3. ~TruncateBlob(p) /\ ~WriteBlob(p) /\ ~DropSlot(p)
  BY <1>2, PlainMoves DEF Pc, Command
<1>4. UpgradeUnlock(p) \/ RotateUnlock(p) \/ VerifyBlob(p) \/ RotateStart(p) \/ RotatePut(p)
  BY <1>1, <1>3 DEF Order, Start
<1>5. FilesSame
  BY <1>4 DEF UpgradeUnlock, RotateUnlock, UnlockSlot, VerifyBlob, RotateStart, RotatePut,
     files, FilesSame
<1>6. proc[p].pc \in Command \ {"up unlink"}
  BY <1>4 DEF UpgradeUnlock, RotateUnlock, UnlockSlot, VerifyBlob, RotateStart, RotatePut,
     Command
<1> QED BY <1>5, <1>6 DEF Busy

LEMMA OpenOrder ==
  ASSUME TypeInv, OneInv, SurviveInv, ~stolen, machine \in {Keychain, KeyFile},
         \A q \in Proc : Busy(q), NEW p \in Proc, Order(p), ~Start(p)
  PROVE  /\ Running' = {} /\ Readable(config') => Fit(config)'
         /\ \A q \in Proc : Busy(q)'
<1>1. Act(p) /\ config' = config
  BY DEF Act, Order, Start, Edit, UpgradeUnlock, RotateUnlock, UnlockSlot, TruncateBlob,
     WriteBlob, VerifyBlob, DropSlot, DropKeyFile, RotateStart, RotatePut, RotateSlot, files
<1>2. p \in Running
  <2>1. proc[p].pc \in Command
    BY DEF Order, Start, Edit, UpgradeUnlock, RotateUnlock, UnlockSlot, TruncateBlob,
       WriteBlob, VerifyBlob, DropSlot, DropKeyFile, RotateStart, RotatePut, RotateSlot, Command
  <2> QED BY <2>1, CommandRuns
<1>3. ASSUME NEW q \in Proc, q # p PROVE Busy(q)'
  <2>1. proc'[q] = proc[q]
    BY <1>1, <1>3, OthersStay
  <2>2. proc[q].pc \notin Command \cup Saving \cup {"register", "upload"}
    BY <1>2, <1>3, Alone
  <2> QED BY <2>1, <2>2 DEF Busy, Saving, Command, Upgrading
<1>4. CASE proc'[p].pc = "idle"
  <2>1. FilesSame /\ Fit(config)
    BY <1>4, CommandStops
  <2>2. Fit(config)'
    BY <1>1, <2>1 DEF Fit, FilesSame
  <2>3. Busy(p)'
    BY <1>4 DEF Busy, Saving, Command, Upgrading
  <2> QED BY <1>3, <2>2, <2>3
<1>5. CASE proc'[p].pc # "idle"
  <2>1. proc'[p].pc \in (Command \ {"edit", "up unlock", "rot unlock"}) \cup {"truncate"}
    BY <1>5, CommandLeads
  <2>2. /\ proc'[p].pc \in Command \ {"up unlink"} =>
             proc'[p].save = proc[p].save /\ proc[p].pc \in Command \ {"up unlink"}
               /\ Fit(proc[p].save)'
        /\ proc'[p].pc \in Upgrading => proc'[p].save.tier = "standard"
        /\ proc'[p].pc = "truncate" => Fit(proc[p].save)'
    BY <1>5, CommandLeads
  <2>3. proc[p].pc \in Command \ {"up unlink"} => config = proc[p].save
    BY DEF Busy
  <2>4. Busy(p)'
    BY <1>1, <2>1, <2>2, <2>3 DEF Busy, Saving, Command, Upgrading
  <2>5. p \in Running'
    <3>1. TypeInv'
      BY <1>1, TypeStep DEF Next, Act
    <3>2. ~proc'[p].boot
      <4>1. Own(proc[p])'
        BY <3>1 DEF TypeInv
      <4>2. ~proc[p].boot /\ ~Lock(p)
        <5>1. ~proc[p].boot
          BY <1>2 DEF Running
        <5>2. ~Lock(p)
          BY <2>1, LockMoves DEF Moves, Becomes, Command
        <5> QED BY <5>1, <5>2
      <4> QED BY <1>1, <4>2, BootKept
    <3> QED BY <2>1, <3>2 DEF Running, Saving
  <2> QED BY <1>3, <2>4, <2>5
<1> QED BY <1>4, <1>5

LEMMA OpenStep ==
  ASSUME OneByOne, TypeInv, OneInv, SurviveInv, OpenInv, [Next]_vars PROVE OpenInv'
<1>1. CASE UNCHANGED vars
  BY <1>1 DEF vars, files, history, bounds, OpenInv, Running, Readable, Busy, Fit, NewConfig
<1>2. CASE Tick
  <2>1. FilesSame /\ UNCHANGED <<config, stolen, broken>>
    BY <1>2 DEF Tick, files, history, FilesSame
  <2>2. \A q \in Proc : \/ proc'[q] = proc[q]
                        \/ /\ proc[q].pc = "sleep"
                           /\ ~proc'[q].boot /\ proc'[q].pc \in {"lock", "idle"}
    BY <1>2, TickMoves
  <2>3. Running' = Running
    BY <2>2 DEF Running, Command, Saving
  <2>4. ASSUME NEW q \in Proc, Busy(q) PROVE Busy(q)'
    <3>1. CASE proc'[q] = proc[q]
      BY <2>1, <2>3, <2>4, <3>1, BusyStays
    <3>2. CASE proc'[q].pc \in {"lock", "idle"}
      BY <3>2 DEF Busy, Saving, Command, Upgrading
    <3> QED BY <2>2, <3>1, <3>2
  <2>5. Fit(config)' <=> Fit(config)
    BY <2>1 DEF Fit, FilesSame
  <2> QED BY <2>1, <2>3, <2>4, <2>5 DEF OpenInv, FilesSame, Readable
<1>3. ASSUME NEW p \in Proc, Act(p) PROVE OpenInv'
  <2>1. machine' = machine
    BY <1>3, ActFiles
  <2>2. ASSUME ~stolen', ~broken'
        PROVE  /\ Running' = {} /\ Readable(config') => Fit(config)'
               /\ \A q \in Proc : Busy(q)'
    <3>1. ~stolen /\ ~broken /\ ~(Crash(p) /\ p \in Running)
      BY <1>3, <2>2, StolenStays, BrokenStays
    <3>2. /\ Running = {} /\ Readable(config) => Fit(config)
          /\ \A q \in Proc : Busy(q)
          /\ machine \in {Keychain, KeyFile}
      BY <3>1 DEF OpenInv
    <3>3. Guarded /\ Fresh /\ Making
      BY <3>1 DEF OneInv
    <3>4. CASE Quiet(p)
      BY <3>2, <3>4, OpenQuiet
    <3>5. CASE Wrap(p)
      BY <3>2, <3>3, <3>5, OpenWrap
    <3>6. CASE Truncate(p)
      BY <3>1, <3>2, <3>6, OpenTruncate
    <3>7. CASE Write(p)
      BY <3>1, <3>2, <3>7, OpenWrite
    <3>8. CASE Start(p)
      BY <3>2, <3>8, OpenStart
    <3>9. CASE Order(p) /\ ~Start(p)
      BY <3>1, <3>2, <3>9, OpenOrder
    <3> QED BY <1>3, <3>1, <3>4, <3>5, <3>6, <3>7, <3>8, <3>9 DEF Act, Serve, Quiet
  <2> QED BY <2>1, <2>2 DEF OpenInv, Readable
<1> QED BY <1>1, <1>2, <1>3 DEF Next, Act

LEMMA OpenInit == ASSUME Usables PROVE Init => OpenInv
<1> SUFFICES ASSUME Init PROVE OpenInv
  OBVIOUS
<1>1. \A p \in Proc : proc[p].pc = "idle" /\ ~proc[p].boot
  BY DEF Init, Stopped
<1>2. \A p \in Proc : Busy(p)
  BY <1>1 DEF Busy, Saving, Command, Upgrading
<1>3. ~Readable(config)
  BY DEF Init, Readable
<1> QED BY <1>2, <1>3 DEF Init, OpenInv, Usables

(* ConfigOpens, with one command at a time on the computers where a        *)
(* bootstrap leaves something to unlock.                                   *)
THEOREM ConfigAndKeyringFit == ASSUME OneByOne, Usables PROVE Spec => []ConfigOpens
<1>1. Init => TypeInv /\ OneInv /\ SurviveInv /\ OpenInv
  BY TypeInit, OneInit, SurviveInit, OpenInit
<1>2. TypeInv /\ OneInv /\ SurviveInv /\ OpenInv /\ [Next]_vars
        => TypeInv' /\ OneInv' /\ SurviveInv' /\ OpenInv'
  BY TypeStep, OneStep, SurviveStep, OpenStep
<1>3. TypeInv /\ OneInv /\ OpenInv => ConfigOpens
  <2> SUFFICES ASSUME TypeInv, OneInv, OpenInv, ~stolen, ~broken, Readable(config),
                      Running = {}
               PROVE  Unlocked(config) # None /\ used \subseteq {Unlocked(config)}
    BY DEF ConfigOpens
  <2>1. config \in Config
    BY DEF Readable, TypeInv, TypeOK
  <2>2. Unlocked(config) # None
    BY <2>1, FitOpens DEF OpenInv
  <2>3. PICK x \in 0..MaxMasters : Only(x)
    BY DEF OneInv
  <2>4. Unlocked(config) = x
    BY <2>2, <2>3, UnlocksOnly
  <2> QED BY <2>2, <2>3, <2>4 DEF Only
<1> QED BY <1>1, <1>2, <1>3, PTL DEF Spec
=============================================================================
