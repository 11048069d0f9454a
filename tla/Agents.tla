------------------------------- MODULE Agents -------------------------------
(***************************************************************************)
(* The entry "chaoskb" in the configuration files of editors: npm's        *)
(* postinstall adds it for every agent it detects and to .mcp.json of the  *)
(* workspace, unregister and uninstall take it out.  Each command detects  *)
(* first and then reads, changes and writes one file after the other,      *)
(* while editors write the same files, and may die in a write.  (The       *)
(* command "register" of the source is not reachable.)                     *)
(***************************************************************************)
EXTENDS Naturals, FiniteSets

CONSTANTS
  Proc,      \* bound: commands that run at once
  Agent,     \* agents of the registry
  Workspace, \* stands for .mcp.json of the workspace
  Other,     \* bound: entries the user has of other servers
  None,
  MaxEdits, MaxDeaths, MaxRuns  \* bounds

File == Agent \cup {Workspace}

VARIABLES
  installed, \* agents found under their install paths
  allowed,   \* agents whose file passes validateConfigPath
  file,      \* the files: whether JSON.parse takes them, ours, the others'
  command,   \* what each process does
  data,      \* ~/.chaoskb exists
  wanted,    \* ghost: the other entries the user has last left in a file
  lost,      \* ghost: files whose entries the code is known to lose
  edits, deaths, runs

fixed == <<installed, allowed>>
ghosts == <<wanted, lost, edits, deaths, runs>>
vars == <<fixed, file, command, data, ghosts>>

Contents == [text : {"none", "json", "odd"}, ours : BOOLEAN, others : SUBSET Other]
Absent == [text |-> "none", ours |-> FALSE, others |-> {}]
Idle == [kind |-> "none", pc |-> "idle", todo |-> {}, seen |-> [f \in File |-> Absent],
         at |-> None, read |-> Absent]

TypeOK ==
  /\ installed \subseteq Agent /\ allowed \subseteq Agent
  /\ file \in [File -> Contents]
  /\ \A p \in Proc :
        /\ command[p].kind \in {"none", "install", "unregister", "uninstall"}
        /\ command[p].pc \in {"idle", "prompt", "read", "write", "remove"}
        /\ command[p].todo \subseteq File /\ command[p].seen \in [File -> Contents]
        /\ command[p].at \in File \cup {None} /\ command[p].read \in Contents
  /\ data \in BOOLEAN
  /\ wanted \in [File -> SUBSET Other] /\ lost \subseteq File
  /\ edits \in 0..MaxEdits /\ deaths \in 0..MaxDeaths /\ runs \in 0..MaxRuns

\* A file may hold what JSON.parse does not take, as comments.
Init ==
  /\ installed \in SUBSET Agent /\ allowed \in SUBSET Agent
  /\ file \in [File -> {Absent, [text |-> "odd", ours |-> FALSE, others |-> Other]}]
  /\ command = [p \in Proc |-> Idle]
  /\ data = TRUE
  /\ wanted = [f \in File |-> file[f].others] /\ lost = {}
  /\ edits = 0 /\ deaths = 0 /\ runs = 0

\* readConfig: a file that is not there or not understood is an empty one.
ReadConfig(contents) == IF contents.text = "json" THEN contents ELSE Absent

Registered(seen) == {a \in Agent : seen[a].text = "json" /\ seen[a].ours}

\* postinstall: the agents found that are not registered, and inside VS Code
\* the workspace too.
ToInstall(vscode) ==
  (installed \ Registered(file)) \cup (IF vscode THEN {Workspace} ELSE {})

\* detectAgents reads every file before anything is asked or written.
Detect(p, kind) ==
  /\ command[p].pc = "idle" /\ runs < MaxRuns
  /\ runs' = runs + 1
  /\ \E vscode \in BOOLEAN :
       LET todo == IF kind = "install" THEN ToInstall(vscode) ELSE Registered(file) IN
       /\ kind = "uninstall" => todo # {} \/ data
       /\ command' = [command EXCEPT ![p] = [Idle EXCEPT !.kind = kind, !.todo = todo,
              !.seen = file, !.pc = IF kind = "uninstall" THEN "prompt" ELSE "read"]]
  /\ UNCHANGED <<fixed, file, data, wanted, lost, edits, deaths>>

Confirm(p) ==
  /\ command[p].pc = "prompt"
  /\ \/ command' = [command EXCEPT ![p].pc = "read"]
     \/ command' = [command EXCEPT ![p] = Idle]
  /\ UNCHANGED <<fixed, file, data, ghosts>>

(* Mutant: what was read to detect the agents is changed and written.       *)
ReadAsSeen(p) ==
  LET c == command[p] IN
  /\ c.pc = "read"
  /\ \E f \in c.todo :
       /\ lost' = IF file[f].text = "odd" THEN lost \cup {f} ELSE lost
       /\ command' = [command EXCEPT ![p] =
            [@ EXCEPT !.pc = "write", !.at = f, !.read = ReadConfig(c.seen[f])]]
  /\ UNCHANGED <<fixed, file, data, wanted, edits, deaths, runs>>

\* validateConfigPath throws; the workspace's file is not validated.
Rejected(f) == f \in Agent \ allowed

\* mergeAgentConfig, removeAgentConfig, registerInWorkspaceMcpJson: what the
\* file holds now decides, not what detection saw.
Read(p) ==
  LET c == command[p]
      Skip(f) == command' = [command EXCEPT ![p].todo = @ \ {f}] IN
  /\ c.pc = "read"
  /\ \E f \in c.todo :
       /\ c.todo = {Workspace} \/ f # Workspace
       /\ LET now == ReadConfig(file[f]) IN
          IF \/ Rejected(f)
             \/ f = Workspace /\ now.ours
             \/ c.kind # "install" /\ ~now.ours
          THEN Skip(f) /\ UNCHANGED lost
          ELSE /\ command' = [command EXCEPT ![p] =
                    [@ EXCEPT !.pc = "write", !.at = f, !.read = now]]
               /\ lost' = IF file[f].text = "odd" THEN lost \cup {f} ELSE lost
  /\ UNCHANGED <<fixed, file, data, wanted, edits, deaths, runs>>

Write(p) ==
  LET c == command[p] IN
  /\ c.pc = "write"
  /\ file' = [file EXCEPT ![c.at] =
       [text |-> "json", ours |-> c.kind = "install", others |-> c.read.others]]
  /\ command' = [command EXCEPT ![p] =
       [@ EXCEPT !.pc = "read", !.todo = c.todo \ {c.at}, !.at = None, !.read = Absent]]
  /\ UNCHANGED <<fixed, data, ghosts>>

Finish(p) ==
  /\ command[p].pc = "read" /\ command[p].todo = {}
  /\ command' = [command EXCEPT ![p] = Idle]
  /\ data' = (data /\ command[p].kind # "uninstall")
  /\ UNCHANGED <<fixed, file, ghosts>>

\* A file is emptied before it is written.
Die(p) ==
  LET c == command[p] IN
  /\ c.pc # "idle" /\ deaths < MaxDeaths
  /\ IF c.pc = "write"
     THEN /\ file' = [file EXCEPT ![c.at] = [text |-> "odd", ours |-> FALSE, others |-> {}]]
          /\ lost' = lost \cup {c.at}
     ELSE UNCHANGED <<file, lost>>
  /\ command' = [command EXCEPT ![p] = Idle]
  /\ deaths' = deaths + 1
  /\ UNCHANGED <<fixed, data, wanted, edits, runs>>

\* An editor changes the entries of others; between the read and the write
\* of a command this is overwritten.
Edit(f) ==
  /\ edits < MaxEdits /\ file[f].text # "odd"
  /\ \E others \in SUBSET Other \ {file[f].others} :
       /\ file' = [file EXCEPT ![f].text = "json", ![f].others = others]
       /\ wanted' = [wanted EXCEPT ![f] = others]
  /\ lost' = IF \E p \in Proc : command[p].at = f THEN lost \cup {f} ELSE lost
  /\ edits' = edits + 1
  /\ UNCHANGED <<fixed, command, data, deaths, runs>>

Next ==
  \/ \E p \in Proc :
       \/ \E kind \in {"install", "unregister", "uninstall"} : Detect(p, kind)
       \/ Confirm(p) \/ Read(p) \/ Write(p) \/ Finish(p) \/ Die(p)
  \/ \E f \in File : Edit(f)

Spec == Init /\ [][Next]_vars

-----------------------------------------------------------------------------
(* Whatever is installed, unregistered and uninstalled, also at once, and   *)
(* however long the user thinks at the prompt while editors write: a file   *)
(* holds the entries of other servers as the user last left them.  It does  *)
(* not where JSON.parse did not take the file (it is replaced), where a     *)
(* command died in a write, or where an editor wrote within the moment      *)
(* between a command's read and its write.                                  *)
EntriesKept == \A f \in File \ lost : file[f].others = wanted[f]
=============================================================================
