----------------------------- MODULE APDUAccess -----------------------------
(***************************************************************************)
(* What the APDU arbiter promises, whatever its queue, priorities, ageing, *)
(* time-outs and watchdog do: a client joins those that hold the device    *)
(* only if it conflicts with none of them, and may lose it at any time.    *)
(* A conflict is one-sided: <<c, d>> keeps c out while d holds and says    *)
(* nothing of d coming in while c holds.                                   *)
(***************************************************************************)
CONSTANTS
  Client,
  Conflict   \* pairs <<c, d>>: c may not join while d holds

VARIABLE holders

Init == holders = {}

Join(c) ==
  /\ c \notin holders
  /\ \A d \in holders : <<c, d>> \notin Conflict
  /\ holders' = holders \cup {c}

Leave(c) ==
  /\ c \in holders
  /\ holders' = holders \ {c}

Next == \E c \in Client : Join(c) \/ Leave(c)

Spec == Init /\ [][Next]_holders
============================================================================
