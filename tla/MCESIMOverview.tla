--------------------------- MODULE MCESIMOverview ---------------------------
(***************************************************************************)
(* One caller and the reload goroutine, so that one can join the load of   *)
(* the other, a switch and a write that voids the cache, and one new card. *)
(***************************************************************************)
EXTENDS ESIMOverview

CONSTANTS sw, dl

MCOperation == [w \in Writer |-> IF w = sw THEN "switch" ELSE "download"]
============================================================================
