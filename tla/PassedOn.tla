------------------------------ MODULE PassedOn ------------------------------
(***************************************************************************)
(* What the application passes on: messages and recordings to those who    *)
(* are to have them (Forwarding), and the sound that a recording is made   *)
(* of (Recordings).                                                        *)
(***************************************************************************)
EXTENDS Forwarding, Recordings

\* What is marked as forwarded arrived, and a recording is forwarded without its silence
\* only, with its own duration.
ForwardedArrived == MarksTrue /\ RecordingsWhole
=============================================================================
