------------------------- MODULE ESIMOperationLock -------------------------
(***************************************************************************)
(* The operation lock of the eSIM manager (internal/esim/manager.go): opMu *)
(* is held by whoever writes to the card, opDone is a channel that whoever *)
(* waits selects on and that is closed, and replaced, after each unlock.   *)
(* opDone is no atomic and no lock guards it: the steps of notifyWriteDone *)
(* interleave with each other and with the selects.                        *)
(***************************************************************************)
EXTENDS Naturals

CONSTANTS
  \* Reader, Locker and Writer are disjoint.
  Reader,      \* calls of waitForNoWriteOperation: they only look whether opMu is free
  Locker,      \* calls of lockOperation, which wait for opMu with a timeout
  Writer,      \* calls that take opMu with Lock: SwitchProfile, DisableProfile, ...
  Nobody,
  MaxChannels  \* bound on the channels made

Proc == Reader \cup Locker \cup Writer

VARIABLES
  opMu,     \* the holder of the mutex
  opDone,   \* the current channel, a number
  made,     \* how many channels were made
  closed,   \* the closed channels
  pc,       \* [Proc -> where the call is]
  channel   \* [Proc -> the channel it selects on, or is about to close]

vars == <<opMu, opDone, made, closed, pc, channel>>

TypeOK ==
  /\ opMu \in Proc \cup {Nobody}
  /\ opDone \in 0..made /\ made \in 0..MaxChannels
  /\ closed \subseteq 0..made
  /\ pc \in [Proc -> {"idle", "select", "parked", "retry", "peek", "hold",
                      "unlocked", "replace", "close"}]
  /\ channel \in [Proc -> 0..made]

Init ==
  /\ opMu = Nobody
  /\ opDone = 0 /\ made = 0 /\ closed = {}
  /\ pc = [p \in Proc |-> "idle"]
  /\ channel = [p \in Proc |-> 0]

Goto(p, l) == pc' = [pc EXCEPT ![p] = l]

\* opMu.TryLock: at once on arrival, and again when a select is woken.
TryLock(p) ==
  /\ p \notin Writer
  /\ pc[p] \in {"idle", "retry"}
  /\ IF opMu = Nobody
     THEN opMu' = p /\ Goto(p, IF p \in Reader THEN "peek" ELSE "hold")
     ELSE UNCHANGED opMu /\ Goto(p, "select")
  /\ UNCHANGED <<opDone, made, closed, channel>>

\* A reader that got the mutex gives it back, and tells nobody.
PeekOver(p) ==
  /\ pc[p] = "peek"
  /\ opMu' = Nobody
  /\ Goto(p, "idle")
  /\ UNCHANGED <<opDone, made, closed, channel>>

\* The select evaluates m.opDone.
Park(p) ==
  /\ pc[p] = "select"
  /\ channel' = [channel EXCEPT ![p] = opDone]
  /\ Goto(p, "parked")
  /\ UNCHANGED <<opMu, opDone, made, closed>>

Woken(p) ==
  /\ pc[p] = "parked"
  /\ channel[p] \in closed
  /\ Goto(p, "retry")
  /\ UNCHANGED <<opMu, opDone, made, closed, channel>>

\* readQueueWaitTimeout: ErrOperationInProgress.
Timeout(p) ==
  /\ pc[p] = "parked"
  /\ Goto(p, "idle")
  /\ UNCHANGED <<opMu, opDone, made, closed, channel>>

\* opMu.Lock.
Lock(p) ==
  /\ p \in Writer
  /\ pc[p] = "idle"
  /\ opMu = Nobody
  /\ opMu' = p
  /\ Goto(p, "hold")
  /\ UNCHANGED <<opDone, made, closed, channel>>

Unlock(p) ==
  /\ pc[p] = "hold"
  /\ opMu' = Nobody
  /\ Goto(p, "unlocked")
  /\ UNCHANGED <<opDone, made, closed, channel>>

\* notifyWriteDone: old := m.opDone ...
ReadOld(p) ==
  /\ pc[p] = "unlocked"
  /\ channel' = [channel EXCEPT ![p] = opDone]
  /\ Goto(p, "replace")
  /\ UNCHANGED <<opMu, opDone, made, closed>>

\* ... m.opDone = make(chan struct{}) ...
Replace(p) ==
  /\ pc[p] = "replace"
  /\ made < MaxChannels
  /\ made' = made + 1
  /\ opDone' = made'
  /\ Goto(p, "close")
  /\ UNCHANGED <<opMu, closed, channel>>

\* ... close(old).  To close it twice panics; nothing follows here.
CloseOld(p) ==
  /\ pc[p] = "close"
  /\ channel[p] \notin closed
  /\ closed' = closed \cup {channel[p]}
  /\ Goto(p, "idle")
  /\ UNCHANGED <<opMu, opDone, made, channel>>

Next ==
  \E p \in Proc :
    \/ TryLock(p) \/ PeekOver(p) \/ Park(p) \/ Woken(p) \/ Timeout(p)
    \/ Lock(p) \/ Unlock(p) \/ ReadOld(p) \/ Replace(p) \/ CloseOld(p)

Spec == Init /\ [][Next]_vars

----------------------------------------------------------------------------
\* forEachEUICC says that reads queue while a write is in progress and report
\* busy only when their wait for it times out: nobody is parked on opDone, with
\* only the timeout to wake it, while opMu is free.
WaitersAwaitWrite ==
  opMu = Nobody =>
    \A p \in Proc :
      pc[p] = "parked" /\ channel[p] \notin closed =>
        \E q \in Proc : pc[q] \in {"unlocked", "replace", "close"}
=============================================================================
