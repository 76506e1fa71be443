---------------------------- MODULE DesktopFiles ----------------------------
(***************************************************************************)
(* The files of the desktop application: the settings of the automation    *)
(* (automation.go) and the notes on profiles (main.go).  Each is read once *)
(* and kept in memory; an update, one at a time, writes a temporary file   *)
(* and renames it.                                                         *)
(***************************************************************************)
EXTENDS Naturals

CONSTANTS
  File,          \* "automation" and "notes"
  MaxVersion,    \* bound: updates of a file
  MaxFailures    \* bound: ends of the program, and operations that fail

\* The updates of a file are numbered.
ASSUME FilesAssumption == MaxVersion \in Nat

VARIABLES
  memory, loaded,      \* what the program holds (0: the default)
  disk, temporary,     \* what the files hold
  update, version,     \* the update at work, and its version
  failures,
  acknowledged         \* ghost: the last update reported as saved

fileVars == <<memory, loaded, disk, temporary, update, version, failures, acknowledged>>

Torn == MaxVersion + 1     \* half a file, that cannot be parsed
Failure == failures < MaxFailures /\ failures' = failures + 1
Defaults == [f \in File |-> 0]

FilesInit ==
  /\ memory = Defaults /\ loaded = [f \in File |-> FALSE]
  /\ disk = Defaults /\ temporary = Defaults
  /\ update = [f \in File |-> "idle"] /\ version = Defaults
  /\ failures = 0 /\ acknowledged = Defaults

GotoStep(f, pc) == update' = [update EXCEPT ![f] = pc]

\* Once; a file that is missing leaves the defaults, one that cannot be parsed fails
\* whatever asked for it.
Load(f) ==
  /\ update[f] = "idle" /\ ~loaded[f] /\ disk[f] # Torn
  /\ loaded' = [loaded EXCEPT ![f] = TRUE]
  /\ memory' = [memory EXCEPT ![f] = disk[f]]
  /\ UNCHANGED <<disk, temporary, update, version, acknowledged, failures>>
LoadAutomation == "automation" \in File /\ Load("automation")
LoadNotes == "notes" \in File /\ Load("notes")

\* The new value is in force before it is stored, and stays so if that fails.
Update(f) ==
  /\ update[f] = "idle" /\ loaded[f] /\ version[f] < MaxVersion
  /\ version' = [version EXCEPT ![f] = @ + 1]
  /\ memory' = [memory EXCEPT ![f] = version[f] + 1]
  /\ GotoStep(f, "write")
UpdateAutomation ==
  /\ "automation" \in File /\ Update("automation")
  /\ UNCHANGED <<loaded, disk, temporary, acknowledged, failures>>
UpdateNotes ==
  /\ "notes" \in File /\ Update("notes")
  /\ UNCHANGED <<loaded, disk, temporary, acknowledged, failures>>

\* Mutant: the file itself is written.
WriteInPlace(f) ==
  /\ update[f] = "write"
  /\ disk' = [disk EXCEPT ![f] = Torn] /\ GotoStep(f, "rename")
  /\ temporary' = [temporary EXCEPT ![f] = memory[f]]
  /\ UNCHANGED <<memory, loaded, version, acknowledged, failures>>

WriteTemporary(f) ==
  /\ update[f] = "write"
  /\ \/ /\ temporary' = [temporary EXCEPT ![f] = memory[f]]
        /\ GotoStep(f, "rename") /\ UNCHANGED failures
     \/ Failure /\ temporary' = [temporary EXCEPT ![f] = Torn] /\ GotoStep(f, "idle")
  /\ UNCHANGED <<memory, loaded, disk, version, acknowledged>>

RenameFile(f) ==
  /\ update[f] = "rename"
  /\ \/ disk' = [disk EXCEPT ![f] = temporary[f]] /\ GotoStep(f, "reply") /\ UNCHANGED failures
     \/ Failure /\ GotoStep(f, "idle") /\ UNCHANGED disk
  /\ UNCHANGED <<memory, loaded, temporary, version, acknowledged>>

Reply(f) ==
  /\ update[f] = "reply"
  /\ acknowledged' = [acknowledged EXCEPT ![f] = memory[f]]
  /\ GotoStep(f, "idle")
  /\ UNCHANGED <<memory, loaded, disk, temporary, version, failures>>

Crash ==
  /\ Failure
  /\ memory' = Defaults /\ loaded' = [f \in File |-> FALSE]
  /\ update' = [f \in File |-> "idle"]
  /\ UNCHANGED <<disk, temporary, version, acknowledged>>

FilesNext ==
  \/ LoadAutomation \/ LoadNotes \/ UpdateAutomation \/ UpdateNotes
  \/ \E f \in File : WriteTemporary(f) \/ RenameFile(f) \/ Reply(f)
  \/ Crash

FilesSpec == FilesInit /\ [][FilesNext]_fileVars

-----------------------------------------------------------------------------
\* Whatever fails, and wherever the program ends: a file can be read, and holds the
\* last update that was reported as saved, or one that was asked for later.
FilesKept == \A f \in File : disk[f] # Torn /\ disk[f] >= acknowledged[f]
=============================================================================
