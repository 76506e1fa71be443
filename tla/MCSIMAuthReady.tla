--------------------------- MODULE MCSIMAuthReady ---------------------------
(***************************************************************************)
(* Three callers and two invalidations: one to void a running probe, one   *)
(* to void the probe that follows it.                                      *)
(***************************************************************************)
EXTENDS SIMAuthReady
============================================================================
