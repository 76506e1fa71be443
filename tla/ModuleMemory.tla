---------------------------- MODULE ModuleMemory ----------------------------
(***************************************************************************)
(* What the application keeps in the module: the notes in its phonebook    *)
(* (ModuleNotes) and the prompt in its file system (ModulePrompt).         *)
(***************************************************************************)
EXTENDS ModuleNotes, ModulePrompt

\* Unless the probe of the phonebooks, or a fault, got in the way: contacts are spared, a
\* profile has one entry at most, what was told about a note is so, and who was told that
\* the prompt is ready finds it in the module.
ModuleMemoryKept == QuietNotesKept /\ QuietPromptReady
=============================================================================
