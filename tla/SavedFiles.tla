----------------------------- MODULE SavedFiles -----------------------------
(***************************************************************************)
(* The files that the program replaces by a rename: its settings, which it *)
(* keeps in memory (DesktopFiles), and the configuration, which it reads   *)
(* again for every change (ConfigStore).                                   *)
(***************************************************************************)
EXTENDS DesktopFiles, ConfigStore

\* What was reported as saved outlives the program, and no replacement of the
\* configuration is lost.
SavedIsKept == FilesKept /\ ConfigKept
=============================================================================
