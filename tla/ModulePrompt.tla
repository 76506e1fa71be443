---------------------------- MODULE ModulePrompt ----------------------------
(***************************************************************************)
(* The spoken prompt of the desktop application (automation.go): the file  *)
(* made from a text, and the copy of it in the module's own file system,   *)
(* which goroutines make again, one after the other, when the file has     *)
(* changed since the one the copy was made for.                            *)
(***************************************************************************)
EXTENDS Naturals

CONSTANTS
  Preparer,        \* the goroutines that prepare the copy
  MaxPrompts,      \* bound: versions of the prompt
  MaxPromptFaults  \* bound: operations that fail, restarts and exchanges

VARIABLES
  prompt, module,              \* the version the file has, and the copy (0: none)
  cache,                       \* what the copy is taken for
  preparer, stat, converted,   \* per goroutine: where it is, what it looked up and made
  ready,                       \* who was told that the copy is the prompt
  promptFaults,
  hurt                         \* ghost: an upload failed, or the module was exchanged

promptVars == <<prompt, module, cache, preparer, stat, converted, ready, promptFaults, hurt>>

PromptFault == promptFaults < MaxPromptFaults /\ promptFaults' = promptFaults + 1
Fresh ==
  /\ cache' = 0 /\ preparer' = [g \in Preparer |-> "idle"]
  /\ stat' = [g \in Preparer |-> 0] /\ converted' = [g \in Preparer |-> 0] /\ ready' = {}

PromptInit ==
  /\ prompt = 1 /\ module = 0 /\ cache = 0
  /\ preparer = [g \in Preparer |-> "idle"] /\ stat = [g \in Preparer |-> 0]
  /\ converted = [g \in Preparer |-> 0] /\ ready = {}
  /\ promptFaults = 0 /\ hurt = FALSE

\* generateTypedPrompt: the prompt is replaced at once, before the settings that
\* ask for it are looked at, and whether or not they are refused then.
GeneratePrompt ==
  /\ prompt < MaxPrompts /\ prompt' = prompt + 1
  /\ UNCHANGED <<module, cache, preparer, stat, converted, ready, promptFaults, hurt>>

Prepares(g, pc) == preparer' = [preparer EXCEPT ![g] = pc]
PromptLocked == \E g \in Preparer : preparer[g] \in {"convert", "delete", "upload", "store"}

\* ensureModulePrompt looks the file up before it has modulePromptMu ...
Stat(g) ==
  /\ preparer[g] = "idle" /\ Prepares(g, "lock")
  /\ stat' = [stat EXCEPT ![g] = prompt] /\ ready' = ready \ {g}
  /\ UNCHANGED <<prompt, module, cache, converted, promptFaults, hurt>>

LockPrompt(g) ==
  /\ preparer[g] = "lock" /\ ~PromptLocked
  /\ IF cache = stat[g] THEN Prepares(g, "idle") /\ ready' = ready \cup {g}
     ELSE Prepares(g, "convert") /\ UNCHANGED ready
  /\ UNCHANGED <<prompt, module, cache, stat, converted, promptFaults, hurt>>

\* ... and converts what the file is then.
Convert(g) ==
  /\ preparer[g] = "convert"
  /\ \/ converted' = [converted EXCEPT ![g] = prompt] /\ Prepares(g, "delete")
        /\ UNCHANGED promptFaults
     \/ PromptFault /\ Prepares(g, "idle") /\ UNCHANGED converted
  /\ UNCHANGED <<prompt, module, cache, stat, ready, hurt>>

\* An ERROR answer does not keep it from uploading; no answer does.
Delete(g) ==
  /\ preparer[g] = "delete"
  /\ \/ module' = 0 /\ Prepares(g, "upload") /\ UNCHANGED <<promptFaults, hurt>>
     \/ PromptFault /\ module' \in {module, 0} /\ Prepares(g, "idle") /\ hurt' = TRUE
  /\ UNCHANGED <<prompt, cache, stat, converted, ready>>

Upload(g) ==
  /\ preparer[g] = "upload"
  /\ \/ module' = converted[g] /\ Prepares(g, "store") /\ UNCHANGED <<promptFaults, hurt>>
     \/ PromptFault /\ module' \in {0, converted[g]} /\ Prepares(g, "idle") /\ hurt' = TRUE
  /\ UNCHANGED <<prompt, cache, stat, converted, ready>>

\* Mutant: what the file is by now.
StatNow(g) == prompt
StatBefore(g) == stat[g]

Store(g) ==
  /\ preparer[g] = "store"
  /\ cache' = StatBefore(g)
  /\ ready' = ready \cup {g} /\ Prepares(g, "idle")
  /\ UNCHANGED <<prompt, module, stat, converted, promptFaults, hurt>>

ExchangeModule ==
  /\ PromptFault /\ module' = 0 /\ hurt' = TRUE
  /\ UNCHANGED <<prompt, cache, preparer, stat, converted, ready>>

\* The application ends anywhere and starts again; it does not know the copy then.
RestartApplication ==
  /\ PromptFault /\ Fresh
  /\ module' \in (IF \E g \in Preparer : preparer[g] = "upload" THEN {0} ELSE {module})
  /\ UNCHANGED <<prompt, hurt>>

PromptNext ==
  \/ GeneratePrompt \/ ExchangeModule \/ RestartApplication
  \/ \E g \in Preparer :
       Stat(g) \/ LockPrompt(g) \/ Convert(g) \/ Delete(g) \/ Upload(g) \/ Store(g)

PromptSpec == PromptInit /\ [][PromptNext]_promptVars

-----------------------------------------------------------------------------
\* As long as no upload failed and the module stayed: once a goroutine is told that the
\* module has the prompt, and nobody is at work on it, it has the prompt as that
\* goroutine found it, or a later one.
QuietPromptReady ==
  \A g \in ready : ~hurt /\ ~PromptLocked => module # 0 /\ module >= stat[g]
=============================================================================
