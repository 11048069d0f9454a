-------------------------------- MODULE Bases --------------------------------
(***************************************************************************)
(* Project knowledge bases: the list in config.json, the directories under *)
(* ~/.chaoskb/projects with a database each, and the keys of shared        *)
(* projects in the keyring.  The commands read the config when they start  *)
(* and write it, with their change, when they end; between they make or    *)
(* remove a directory, and they may die anywhere.  Servers open a project's*)
(* database and keep it open.  The config file itself is written whole     *)
(* here: Startup has what a half-written one does.  Named knowledge bases  *)
(* are directories of their own, listed if they have a config.json.        *)
(***************************************************************************)
EXTENDS Naturals, FiniteSets

CONSTANTS
  Proc,       \* bound: commands that run at once
  Name,       \* bound: projects
  Base,       \* bound: named knowledge bases
  Db,         \* bound: database files ever made, as numbers from 1
  MaxSources, \* bound: sources ingested
  MaxDeaths, MaxCommands,  \* bounds
  None

VARIABLES
  listed,   \* config.projects
  dir,      \* what is in each project's directory: see Place
  key,      \* projects whose key is in the keyring
  sources,  \* what each database file holds
  base,     \* what a named base has: its directories, master.key, config.json
  command,  \* what each process does
  server,   \* the database the server of a project has open
  made,     \* database files made so far
  told,     \* ghost: sources a project was told are stored, since its deletion
  gap,      \* ghost: names whose parts are known to disagree
  cut,      \* ghost: names deleted under a server that has them open
  ingested, deaths, commands

disk == <<listed, dir, key, sources, base, made>>
counts == <<ingested, deaths, commands>>
ghosts == <<told, gap, cut>>
vars == <<disk, command, server, ghosts, counts>>

\* No directory, one without a database, or one with it.
Place == {None, 0} \cup Db

Idle == [pc |-> "idle", name |-> None, config |-> {}, todo |-> {}, alone |-> TRUE]

TypeOK ==
  /\ listed \subseteq Name /\ key \subseteq Name
  /\ dir \in [Name -> Place]
  /\ sources \in [Db -> SUBSET (1..MaxSources)]
  /\ \A p \in Proc :
        /\ command[p].pc \in {"idle", "open", "mkdir", "putKey", "add", "prompt",
             "rm", "rmEnabled", "dropKey", "remove", "list",
             "kbDir", "kbKey", "kbConfig", "kbRm"}
        /\ command[p].name \in Name \cup Base \cup {None}
        /\ command[p].config \subseteq Name /\ command[p].todo \subseteq Name
        /\ command[p].alone \in BOOLEAN
  /\ base \in [Base -> SUBSET {"dir", "keys", "key", "config"}]
  /\ server \in [Name -> {None} \cup Db]
  /\ made \in 0..Cardinality(Db)
  /\ told \in [Name -> SUBSET (1..MaxSources)]
  /\ gap \subseteq Name \cup Base /\ cut \subseteq Name
  /\ ingested \in 0..MaxSources /\ deaths \in 0..MaxDeaths /\ commands \in 0..MaxCommands

Init ==
  /\ listed = {} /\ key = {}
  /\ dir = [n \in Name |-> None]
  /\ sources = [d \in Db |-> {}] /\ made = 0
  /\ base = [b \in Base |-> {}]
  /\ command = [p \in Proc |-> Idle]
  /\ server = [n \in Name |-> None]
  /\ told = [n \in Name |-> {}] /\ gap = {} /\ cut = {}
  /\ ingested = 0 /\ deaths = 0 /\ commands = 0

-----------------------------------------------------------------------------
Busy(n) == {p \in Proc : command[p].pc # "idle" /\ command[p].name = n}

Goto(p, pc) == command' = [command EXCEPT ![p].pc = pc]
End(p) == command' = [command EXCEPT ![p] = Idle]

\* getProjectDb opens what is there and makes what is not.
OpenDb(n) ==
  IF dir[n] \in Db THEN UNCHANGED <<dir, made>>
  ELSE /\ made + 1 \in Db
       /\ dir' = [dir EXCEPT ![n] = made + 1] /\ made' = made + 1

\* A server or a list that makes the directory disturbs commands on it.
Disturbs(n) == dir[n] = None
Disturbed(n) ==
  command' = [p \in Proc |-> IF Disturbs(n) /\ p \in Busy(n)
                             THEN [command[p] EXCEPT !.alone = FALSE] ELSE command[p]]

\* Every command loads the config first; create and enable end at once if
\* they find the name, delete and disable if they do not.
Start(p, n, pc) ==
  /\ command[p].pc = "idle" /\ commands < MaxCommands
  /\ command' = [q \in Proc |->
       IF q = p THEN [Idle EXCEPT !.pc = pc, !.name = n, !.config = listed,
                                  !.alone = Busy(n) = {}]
       ELSE IF q \in Busy(n) THEN [command[q] EXCEPT !.alone = FALSE] ELSE command[q]]
  /\ commands' = commands + 1
  /\ UNCHANGED <<disk, server, ghosts, ingested, deaths>>

CreateProject(p, n) == n \notin listed /\ Start(p, n, "open")
ProjectEnable(p, n) == n \notin listed /\ Start(p, n, "mkdir")
DeleteProject(p, n) == n \in listed /\ Start(p, n, "prompt")
ProjectDisable(p, n) == n \in listed /\ Start(p, n, "rmEnabled")

Create(p) ==
  /\ command[p].pc = "open"
  /\ OpenDb(command[p].name) /\ Goto(p, "add")
  /\ UNCHANGED <<listed, key, sources, base, server, ghosts, counts>>

\* projectEnable: the directory is made without a database.
MakeDir(p) ==
  LET n == command[p].name IN
  /\ command[p].pc = "mkdir"
  /\ dir' = [dir EXCEPT ![n] = IF @ = None THEN 0 ELSE @]
  /\ Goto(p, "putKey")
  /\ UNCHANGED <<listed, key, sources, base, made, server, ghosts, counts>>

\* The keyring may refuse; then the command ends here.
PutKey(p) ==
  LET n == command[p].name IN
  /\ command[p].pc = "putKey"
  /\ \/ key' = key \cup {n} /\ Goto(p, "add") /\ UNCHANGED gap
     \/ End(p) /\ gap' = gap \cup {n} /\ UNCHANGED key
  /\ UNCHANGED <<listed, dir, sources, base, made, server, told, cut, counts>>

\* saveConfig writes the config that was read.  What others have changed in
\* it since is undone; a command that had its name to itself sets it right.
Save(p, config) ==
  LET n == command[p].name
      undone == (command[p].config \ listed) \cup (listed \ command[p].config) IN
  /\ listed' = config
  /\ gap' = (gap \ {n}) \cup (undone \ {n})
              \cup (IF command[p].alone THEN {} ELSE {n})
  /\ End(p)

Add(p) ==
  /\ command[p].pc = "add"
  /\ Save(p, command[p].config \cup {command[p].name})
  /\ UNCHANGED <<dir, key, sources, base, made, server, told, cut, counts>>

Confirm(p) ==
  /\ command[p].pc = "prompt"
  /\ Goto(p, "rm") \/ End(p)
  /\ UNCHANGED <<disk, server, ghosts, counts>>

(* Mutant: without a directory the command ends without dropping the name.  *)
RemoveDirIfThere(p) ==
  LET n == command[p].name IN
  /\ command[p].pc \in {"rm", "rmEnabled"}
  /\ IF dir[n] = None
     THEN Save(p, command[p].config) /\ UNCHANGED <<dir, told, cut>>
     ELSE /\ dir' = [dir EXCEPT ![n] = None] /\ told' = [told EXCEPT ![n] = {}]
          /\ cut' = IF server[n] # None THEN cut \cup {n} ELSE cut
          /\ Goto(p, IF command[p].pc = "rm" THEN "remove" ELSE "dropKey")
          /\ UNCHANGED <<listed, gap>>
  /\ UNCHANGED <<key, sources, base, made, server, counts>>

\* The directory goes first; a server that has the database open keeps it.
RemoveDir(p) ==
  LET n == command[p].name IN
  /\ command[p].pc \in {"rm", "rmEnabled"}
  /\ dir' = [dir EXCEPT ![n] = None]
  /\ told' = [told EXCEPT ![n] = {}]
  /\ cut' = IF server[n] # None THEN cut \cup {n} ELSE cut
  /\ Goto(p, IF command[p].pc = "rm" THEN "remove" ELSE "dropKey")
  /\ UNCHANGED <<listed, key, sources, base, made, server, gap, counts>>

\* A keyring that refuses is ignored.
DropKey(p) ==
  /\ command[p].pc = "dropKey"
  /\ key' = key \ {command[p].name} \/ UNCHANGED key
  /\ Goto(p, "remove")
  /\ UNCHANGED <<listed, dir, sources, base, made, server, ghosts, counts>>

Remove(p) ==
  /\ command[p].pc = "remove"
  /\ Save(p, command[p].config \ {command[p].name})
  /\ UNCHANGED <<dir, key, sources, base, made, server, told, cut, counts>>

\* listProjects opens every project of the config, to count its sources.
ListProjects(p) ==
  /\ command[p].pc = "idle" /\ commands < MaxCommands
  /\ command' = [command EXCEPT ![p] = [Idle EXCEPT !.pc = "list", !.todo = listed]]
  /\ commands' = commands + 1
  /\ UNCHANGED <<disk, server, ghosts, ingested, deaths>>

CountSources(p) ==
  /\ command[p].pc = "list"
  /\ IF command[p].todo = {} THEN End(p) /\ UNCHANGED <<dir, made, gap>>
     ELSE \E n \in command[p].todo :
            /\ OpenDb(n)
            /\ gap' = IF Disturbs(n) /\ n \notin listed THEN gap \cup {n} ELSE gap
            /\ command' = [q \in Proc |->
                 IF q = p THEN [command[p] EXCEPT !.todo = @ \ {n}]
                 ELSE IF Disturbs(n) /\ q \in Busy(n) THEN [command[q] EXCEPT !.alone = FALSE]
                 ELSE command[q]]
  /\ UNCHANGED <<listed, key, sources, base, server, told, cut, counts>>

-----------------------------------------------------------------------------
(* Named knowledge bases.                                                   *)

KbCreate(p, b) == base[b] = {} /\ Start(p, b, "kbDir")
KbDelete(p, b) == base[b] # {} /\ Start(p, b, "kbRm")

MakeBase(p) ==
  /\ command[p].pc = "kbDir"
  /\ base' = [base EXCEPT ![command[p].name] = @ \cup {"dir", "keys"}]
  /\ Goto(p, "kbKey")
  /\ UNCHANGED <<listed, dir, key, sources, made, server, ghosts, counts>>

\* The config comes after the key.  Without its directory neither is written.
WriteBase(p) ==
  LET b == command[p].name IN
  /\ \/ /\ command[p].pc = "kbKey" /\ "keys" \in base[b]
        /\ base' = [base EXCEPT ![b] = @ \cup {"key"}] /\ Goto(p, "kbConfig")
     \/ /\ command[p].pc = "kbConfig" /\ "dir" \in base[b]
        /\ base' = [base EXCEPT ![b] = @ \cup {"config"}] /\ End(p)
     \/ /\ \/ command[p].pc = "kbKey" /\ "keys" \notin base[b]
           \/ command[p].pc = "kbConfig" /\ "dir" \notin base[b]
        /\ End(p) /\ UNCHANGED base
  /\ UNCHANGED <<listed, dir, key, sources, made, server, ghosts, counts>>

RemoveBase(p) ==
  LET b == command[p].name IN
  /\ command[p].pc = "kbRm"
  /\ base' = [base EXCEPT ![b] = {}]
  /\ gap' = IF command[p].alone THEN gap \ {b} ELSE gap \cup {b}
  /\ End(p)
  /\ UNCHANGED <<listed, dir, key, sources, made, server, told, cut, counts>>

\* A tool call with the name of a base, whether there is one or not.
OpenNamed(b) ==
  /\ base' = [base EXCEPT ![b] = @ \cup {"dir"}]
  /\ UNCHANGED <<listed, dir, key, sources, made, command, server, ghosts, counts>>

\* A process ends in the middle of its command; a base it was about to
\* remove may be there in part.
Die(p) ==
  /\ command[p].pc # "idle" /\ deaths < MaxDeaths
  /\ End(p)
  /\ IF command[p].pc = "kbRm"
     THEN \E left \in SUBSET base[command[p].name] :
            base' = [base EXCEPT ![command[p].name] = left]
     ELSE UNCHANGED base
  /\ gap' = IF command[p].name \in Name \/ command[p].pc = "kbRm"
            THEN gap \cup {command[p].name} ELSE gap
  /\ deaths' = deaths + 1
  /\ UNCHANGED <<listed, dir, key, sources, made, server, told, cut, ingested, commands>>

-----------------------------------------------------------------------------
(* A server for a project (--project), whether it is listed or not.         *)

StartServer(n) ==
  /\ server[n] = None
  /\ OpenDb(n) /\ Disturbed(n)
  /\ server' = [server EXCEPT ![n] = dir'[n]]
  /\ gap' = IF Disturbs(n) /\ n \notin listed THEN gap \cup {n} ELSE gap
  /\ UNCHANGED <<listed, key, sources, base, told, cut, counts>>

Ingest(n) ==
  /\ server[n] # None /\ ingested < MaxSources
  /\ ingested' = ingested + 1
  /\ sources' = [sources EXCEPT ![server[n]] = @ \cup {ingested + 1}]
  /\ told' = [told EXCEPT ![n] = @ \cup {ingested + 1}]
  /\ UNCHANGED <<listed, dir, key, base, made, command, server, gap, cut, deaths, commands>>

StopServer(n) ==
  /\ server[n] # None
  /\ server' = [server EXCEPT ![n] = None]
  /\ UNCHANGED <<disk, command, ghosts, counts>>

Next ==
  \/ \E p \in Proc :
       \/ \E n \in Name : \/ CreateProject(p, n) \/ DeleteProject(p, n)
                          \/ ProjectEnable(p, n) \/ ProjectDisable(p, n)
       \/ \E b \in Base : KbCreate(p, b) \/ KbDelete(p, b)
       \/ MakeBase(p) \/ WriteBase(p) \/ RemoveBase(p)
       \/ Create(p) \/ MakeDir(p) \/ PutKey(p) \/ Add(p) \/ Confirm(p)
       \/ RemoveDir(p) \/ DropKey(p) \/ Remove(p)
       \/ ListProjects(p) \/ CountSources(p) \/ Die(p)
  \/ \E b \in Base : OpenNamed(b)
  \/ \E n \in Name : StartServer(n) \/ Ingest(n) \/ StopServer(n)

Spec == Init /\ [][Next]_vars

-----------------------------------------------------------------------------
(* A project is listed exactly if it has a directory, one that was enabled  *)
(* and has no database yet has its key, and a project's database holds what *)
(* its servers have said they stored since it was last deleted.  A command  *)
(* that died, or that shared the name or the config with another, leaves    *)
(* the name at odds, and so does a server for a name that is not listed -   *)
(* until a command that has the name to itself has run to its end.  What a  *)
(* server stores after the project was deleted under it is lost.  And a     *)
(* named base that is listed has its master key, unless its deletion died   *)
(* or met its creation.                                                     *)
ProjectsAgree ==
  /\ \A b \in Base \ gap : "config" \in base[b] => "key" \in base[b]
  /\ \A n \in Name : Busy(n) = {} =>
    /\ n \notin gap => /\ n \in listed <=> dir[n] # None
                       /\ dir[n] = 0 => n \in key
    /\ n \notin cut => told[n] \subseteq (IF dir[n] \in Db THEN sources[dir[n]] ELSE {})
=============================================================================
