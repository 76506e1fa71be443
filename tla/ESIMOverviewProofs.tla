------------------------- MODULE ESIMOverviewProofs -------------------------
(***************************************************************************)
(* Proofs that the cached overview is never older than what was promised,  *)
(* and that no caller gets an overview older than its call.                *)
(*                                                                         *)
(* A load is stored only if its key is the current generation, so it has   *)
(* to be shown that whatever raises the promise leaves no load with that   *)
(* key behind: a write or a reset takes a new generation, which exceeds    *)
(* every key; a switch keeps it, and is safe only because a cached         *)
(* overview and a load keyed by the current generation exclude each other. *)
(***************************************************************************)
EXTENDS ESIMOverview, TLAPS

HasRead(p) == pc[p] \in {"product", "store"}

ReadsHeld == \A p \in Reader : HasRead(p) => read[p] \in Overview

KeysBounded == \A p \in Reader : key[p] # ChipKey => key[p] =< generation

\* singleflight: a key has one leader.
OneLeader ==
  \A p, q \in Reader : inFlight(p) /\ inFlight(q) /\ key[p] = key[q] => p = q

\* A cached overview and a load of its generation exclude each other.
CachedMeansLoaded ==
  overviewCache # NoSnapshot =>
    \A p \in Reader : inFlight(p) => key[p] # generation

CardKeepsPromise == AtLeast(card, promised)

\* Any overview that may yet be stored shows what is promised.
LoadsFresh ==
  \A p \in Reader :
    HasRead(p) /\ key[p] = generation => AtLeast(read[p].card, promised)

\* Whatever a caller may find, in the cache or in a load of the current
\* generation, is as new as it may expect.
SourcesFresh ==
  \A p \in Caller :
    /\ AtLeast(card, since[p])
    /\ overviewCache # NoSnapshot => AtLeast(overviewCache.card, since[p])
    /\ \A q \in Reader :
         HasRead(q) /\ key[q] = generation => AtLeast(read[q].card, since[p])

\* A caller that has its key: so is the load of that key.
Keyed(p) ==
  /\ key[p] # ChipKey
  /\ pc[p] \in {"key", "follow", "wait", "scan", "product", "store", "failed"}

FlightsFresh ==
  \A p \in Caller : \A q \in Reader :
    Keyed(p) /\ HasRead(q) /\ key[q] = key[p]
      => AtLeast(read[q].card, since[p])

Flights == ReadsHeld /\ KeysBounded /\ OneLeader /\ CachedMeansLoaded

Fresh ==
  /\ CardKeepsPromise /\ CacheFresh /\ LoadsFresh
  /\ SourcesFresh /\ FlightsFresh /\ AnswerFresh

IInv == TypeOK /\ Flights /\ Fresh

\* What nearly every step below unfolds.
USE DEF IInv, Flights, Fresh, ReadsHeld, KeysBounded, OneLeader, CachedMeansLoaded,
  CardKeepsPromise, CacheFresh, LoadsFresh, SourcesFresh, FlightsFresh, AnswerFresh, HasRead,
  Keyed,
  inFlight, Goto, caches, locals, Reader

\* The steps of a read.
LEMMA CallKeeps == ASSUME IInv, NEW p \in Reader, Call(p) PROVE IInv'
<1>1. TypeOK'
  BY OverviewAssumption DEF TypeOK, PC, Call
<1>2. Flights'
  BY OverviewAssumption, SnapshotAssumption DEF TypeOK, Call
<1>3. Fresh'
  BY OverviewAssumption, SnapshotAssumption DEF TypeOK, Call
<1>. QED
  BY <1>1, <1>2, <1>3

LEMMA RefreshOverviewKeeps ==
  ASSUME IInv, NEW p \in Reader, RefreshOverview(p)
  PROVE  IInv'
<1>1. TypeOK'
  BY OverviewAssumption DEF TypeOK, PC, RefreshOverview
<1>2. Flights'
  BY OverviewAssumption, SnapshotAssumption DEF TypeOK, RefreshOverview
<1>3. Fresh'
  BY OverviewAssumption, SnapshotAssumption DEF TypeOK, RefreshOverview
<1>. QED
  BY <1>1, <1>2, <1>3

LEMMA RefreshWaitedKeeps == ASSUME IInv, NEW p \in Reader, RefreshWaited(p) PROVE IInv'
<1>1. TypeOK'
  BY OverviewAssumption DEF TypeOK, PC, RefreshWaited
<1>2. Flights'
  BY OverviewAssumption, SnapshotAssumption DEF TypeOK, RefreshWaited
<1>3. Fresh'
  BY OverviewAssumption, SnapshotAssumption DEF TypeOK, RefreshWaited
<1>. QED
  BY <1>1, <1>2, <1>3

LEMMA RefreshVoidsKeeps == ASSUME IInv, NEW p \in Reader, RefreshVoids(p) PROVE IInv'
<1>1. generation' \in Nat /\ chipInfoCache' \in {chipInfoCache, NoSnapshot}
  BY DEF TypeOK, RefreshVoids
<1>2. TypeOK'
  BY <1>1, OverviewAssumption DEF TypeOK, PC, RefreshVoids
<1>3. Flights'
  BY OverviewAssumption, SnapshotAssumption DEF TypeOK, RefreshVoids
<1>4. Fresh'
  BY OverviewAssumption, SnapshotAssumption
     DEF TypeOK, Overview, Card, NewCard, AtLeast, RefreshVoids
<1>. QED
  BY <1>2, <1>3, <1>4

LEMMA LookUpKeeps == ASSUME IInv, NEW p \in Reader, LookUp(p) PROVE IInv'
<1>1. TypeOK'
  BY OverviewAssumption DEF TypeOK, PC, LookUp
<1>2. Flights'
  BY OverviewAssumption, SnapshotAssumption DEF TypeOK, LookUp
<1>3. Fresh'
  BY OverviewAssumption, SnapshotAssumption DEF TypeOK, LookUp
<1>. QED
  BY <1>1, <1>2, <1>3

LEMMA GetEUICCChipInfoKeeps ==
  ASSUME IInv, NEW p \in Reader, NEW forceRefresh \in BOOLEAN, GetEUICCChipInfo(p, forceRefresh)
  PROVE  IInv'
<1>1. TypeOK'
  BY OverviewAssumption DEF TypeOK, PC, GetEUICCChipInfo
<1>2. Flights'
  BY OverviewAssumption, SnapshotAssumption DEF TypeOK, GetEUICCChipInfo
<1>3. Fresh'
  BY OverviewAssumption, SnapshotAssumption DEF TypeOK, GetEUICCChipInfo
<1>. QED
  BY <1>1, <1>2, <1>3

LEMMA JoinKeeps == ASSUME IInv, NEW p \in Reader, Join(p) PROVE IInv'
<1>1. TypeOK'
  BY OverviewAssumption DEF TypeOK, PC, Join, sameFlight
<1>2. Flights'
  BY OverviewAssumption, SnapshotAssumption DEF TypeOK, Join, sameFlight
<1>3. Fresh'
  BY OverviewAssumption, SnapshotAssumption DEF TypeOK, Join, sameFlight
<1>. QED
  BY <1>1, <1>2, <1>3

LEMMA WaitForNoWriteKeeps ==
  ASSUME IInv, NEW p \in Reader, WaitForNoWrite(p)
  PROVE  IInv'
<1>1. TypeOK'
  BY OverviewAssumption DEF TypeOK, PC, WaitForNoWrite
<1>2. Flights'
  BY OverviewAssumption, SnapshotAssumption DEF TypeOK, WaitForNoWrite
<1>3. Fresh'
  BY OverviewAssumption, SnapshotAssumption DEF TypeOK, WaitForNoWrite
<1>. QED
  BY <1>1, <1>2, <1>3

LEMMA ScanKeeps == ASSUME IInv, NEW p \in Reader, Scan(p) PROVE IInv'
<1>1. [card |-> card, product |-> NoProduct] \in Overview
  BY DEF TypeOK, Overview, Product
<1>2. TypeOK'
  BY <1>1 DEF TypeOK, PC, Scan
<1>3. Flights'
  BY <1>1, SnapshotAssumption DEF TypeOK, Scan
<1>4. Fresh'
  BY OverviewAssumption, SnapshotAssumption
     DEF TypeOK, Overview, Card, NewCard, AtLeast, Scan
<1>. QED
  BY <1>2, <1>3, <1>4

LEMMA ReadProductKeeps == ASSUME IInv, NEW p \in Reader, ReadProduct(p) PROVE IInv'
<1>1. PICK product \in Product : read' = [read EXCEPT ![p].product = product]
  BY ZenonT(40) DEF TypeOK, Card, Overview, Product, productOnCard, hasReusableChipProductInfo,
     ReadProduct
<1>2. read[p] \in Overview
  BY DEF ReadProduct
<1>3. [read[p] EXCEPT !.product = product] \in Overview
  BY <1>2 DEF Overview
<1>4. TypeOK'
  BY <1>1, <1>3 DEF TypeOK, PC, ReadProduct
<1>5. Flights'
  BY <1>1, <1>3, SnapshotAssumption DEF TypeOK, ReadProduct
<1>6. Fresh'
  <2>1. CardKeepsPromise' /\ CacheFresh'
    BY <1>1, <1>2, OverviewAssumption, SnapshotAssumption
       DEF TypeOK, Overview, Card, NewCard, AtLeast, ReadProduct
  <2>2. LoadsFresh'
    BY <1>1, <1>2, OverviewAssumption, SnapshotAssumption
       DEF TypeOK, Overview, Card, NewCard, AtLeast, ReadProduct
  <2>3. SourcesFresh'
    BY <1>1, <1>2, OverviewAssumption, SnapshotAssumption
       DEF TypeOK, Overview, Card, NewCard, AtLeast, ReadProduct
  <2>4. FlightsFresh'
    BY <1>1, <1>2, OverviewAssumption, SnapshotAssumption
       DEF TypeOK, Overview, Card, NewCard, AtLeast, ReadProduct
  <2>5. AnswerFresh'
    BY <1>1, <1>2, OverviewAssumption, SnapshotAssumption
       DEF TypeOK, Overview, Card, NewCard, AtLeast, ReadProduct
  <2>6. QED
    BY <2>1, <2>2, <2>3, <2>4, <2>5
<1>. QED
  BY <1>4, <1>5, <1>6

LEMMA StoreKeeps == ASSUME IInv, NEW p \in Reader, Store(p) PROVE IInv'
<1>1. TypeOK'
  BY OverviewAssumption DEF TypeOK, PC, Store, setOverviewCache, Finish, sameFlight
<1>2. Flights'
  BY OverviewAssumption, SnapshotAssumption
     DEF TypeOK, Store, setOverviewCache, Finish, sameFlight
<1>3. Fresh'
  BY OverviewAssumption, SnapshotAssumption
     DEF TypeOK, Store, setOverviewCache, Finish, sameFlight
<1>. QED
  BY <1>1, <1>2, <1>3

LEMMA LoadFailsKeeps == ASSUME IInv, NEW p \in Reader, LoadFails(p) PROVE IInv'
<1>1. TypeOK'
  BY OverviewAssumption DEF TypeOK, PC, LoadFails, Finish, sameFlight
<1>2. Flights'
  BY OverviewAssumption, SnapshotAssumption DEF TypeOK, LoadFails, Finish, sameFlight
<1>3. Fresh'
  BY OverviewAssumption, SnapshotAssumption DEF TypeOK, LoadFails, Finish, sameFlight
<1>. QED
  BY <1>1, <1>2, <1>3

LEMMA ReturnKeeps == ASSUME IInv, NEW p \in Reader, Return(p) PROVE IInv'
<1>1. TypeOK'
  BY OverviewAssumption DEF TypeOK, PC, Return, Card, NewCard
<1>2. Flights'
  BY OverviewAssumption, SnapshotAssumption DEF TypeOK, Return
<1>3. Fresh'
  <2>1. CardKeepsPromise' /\ CacheFresh'
    BY OverviewAssumption, SnapshotAssumption
       DEF TypeOK, Overview, Card, NewCard, AtLeast, Return
  <2>2. LoadsFresh'
    BY OverviewAssumption, SnapshotAssumption
       DEF TypeOK, Overview, Card, NewCard, AtLeast, Return
  <2>3. SourcesFresh'
    BY OverviewAssumption, SnapshotAssumption
       DEF TypeOK, Overview, Card, NewCard, AtLeast, Return
  <2>4. FlightsFresh'
    BY OverviewAssumption, SnapshotAssumption
       DEF TypeOK, Overview, Card, NewCard, AtLeast, Return
  <2>5. AnswerFresh'
    BY OverviewAssumption, SnapshotAssumption
       DEF TypeOK, Overview, Card, NewCard, AtLeast, Return
  <2>6. QED
    BY <2>1, <2>2, <2>3, <2>4, <2>5
<1>. QED
  BY <1>1, <1>2, <1>3

\* The steps of a write.  A write or reset that raises the promise takes a new
\* generation; a switch patches the cached overview along with it.
LEMMA BeginWriteKeeps == ASSUME IInv, NEW w \in Writer, BeginWrite(w) PROVE IInv'
<1>1. TypeOK'
  BY OverviewAssumption DEF TypeOK, PC, BeginWrite
<1>2. Flights'
  BY OverviewAssumption, SnapshotAssumption DEF TypeOK, BeginWrite
<1>3. Fresh'
  BY OverviewAssumption, SnapshotAssumption DEF TypeOK, BeginWrite
<1>. QED
  BY <1>1, <1>2, <1>3

LEMMA CardWrittenKeeps == ASSUME IInv, NEW w \in Writer, CardWritten(w) PROVE IInv'
<1>1. TypeOK'
  BY OverviewAssumption
     DEF TypeOK, PC, CardWritten, Changed, changesActive, Card, NewCard
<1>2. Flights'
  BY OverviewAssumption, SnapshotAssumption
     DEF TypeOK, CardWritten, Changed, changesActive
<1>3. Fresh'
  BY OverviewAssumption, SnapshotAssumption
     DEF TypeOK, Overview, Card, NewCard, AtLeast, CardWritten, Changed, changesActive
<1>. QED
  BY <1>1, <1>2, <1>3

LEMMA WriteFailsKeeps == ASSUME IInv, NEW w \in Writer, WriteFails(w) PROVE IInv'
<1>1. TypeOK'
  BY OverviewAssumption DEF TypeOK, PC, WriteFails, Invalidate
<1>2. Flights'
  BY OverviewAssumption, SnapshotAssumption DEF TypeOK, WriteFails, Invalidate
<1>3. Fresh'
  BY OverviewAssumption, SnapshotAssumption
     DEF TypeOK, Overview, Card, NewCard, AtLeast, WriteFails, Invalidate
<1>. QED
  BY <1>1, <1>2, <1>3

LEMMA SwitchAcceptedKeeps ==
  ASSUME IInv, NEW w \in Writer, SwitchAccepted(w)
  PROVE  IInv'
<1>1. CASE UNCHANGED <<overviewCache, promised>>
  <2>1. TypeOK'
    BY <1>1 DEF TypeOK, PC, SwitchAccepted
  <2>2. Flights'
    BY <1>1, OverviewAssumption, SnapshotAssumption DEF TypeOK, SwitchAccepted
  <2>3. Fresh'
    BY <1>1, OverviewAssumption, SnapshotAssumption
       DEF TypeOK, Overview, Card, NewCard, AtLeast, SwitchAccepted
  <2>. QED
    BY <2>1, <2>2, <2>3
<1>2. CASE /\ overviewCache \in Overview
           /\ overviewCache' = [overviewCache EXCEPT !.card.active = card.active]
           /\ promised' = [promised EXCEPT !.active = card.active]
  <2>1. overviewCache' \in Overview /\ promised' \in Card
    BY <1>2 DEF TypeOK, Overview, Card
  <2>2. TypeOK'
    BY <2>1 DEF TypeOK, PC, SwitchAccepted
  <2>3. Flights'
    BY <1>2, <2>1, OverviewAssumption, SnapshotAssumption DEF TypeOK, SwitchAccepted
  <2>4. /\ AtLeast(card, promised')
        /\ AtLeast(overviewCache'.card, promised')
        /\ \A p \in Caller : AtLeast(overviewCache'.card, since[p])
    BY <1>2, SnapshotAssumption DEF TypeOK, Overview, Card, AtLeast
  <2>5. \A p \in Reader : HasRead(p)' => HasRead(p) /\ key[p] # generation
    BY <1>2, OverviewAssumption, SnapshotAssumption DEF TypeOK, SwitchAccepted
  <2>6. Fresh'
    BY <1>2, <2>4, <2>5, OverviewAssumption, SnapshotAssumption
       DEF TypeOK, SwitchAccepted
  <2>. QED
    BY <2>2, <2>3, <2>6
<1>. QED
  BY <1>1, <1>2, SnapshotAssumption
     DEF TypeOK, SwitchAccepted, PatchCachedActiveProfile, targetListed

LEMMA WriteSucceedsKeeps == ASSUME IInv, NEW w \in Writer, WriteSucceeds(w) PROVE IInv'
<1>1. promised' \in Card
  BY DEF TypeOK, Card, WriteSucceeds
<1>2. TypeOK'
  BY <1>1, OverviewAssumption DEF TypeOK, PC, WriteSucceeds, Invalidate, GotoAndTrigger
<1>3. Flights'
  BY OverviewAssumption, SnapshotAssumption
     DEF TypeOK, WriteSucceeds, Invalidate, GotoAndTrigger
<1>4. Fresh'
  BY OverviewAssumption, SnapshotAssumption
     DEF TypeOK, Overview, Card, NewCard, AtLeast, WriteSucceeds, Invalidate, GotoAndTrigger
<1>. QED
  BY <1>2, <1>3, <1>4

\* The steps of the card and the modem.
LEMMA SwapCardKeeps == ASSUME IInv, SwapCard PROVE IInv'
<1>1. TypeOK'
  BY OverviewAssumption DEF TypeOK, PC, SwapCard, Card, NewCard
<1>2. Flights'
  BY OverviewAssumption, SnapshotAssumption DEF TypeOK, SwapCard
<1>3. Fresh'
  BY OverviewAssumption, SnapshotAssumption
     DEF TypeOK, Overview, Card, NewCard, AtLeast, SwapCard
<1>. QED
  BY <1>1, <1>2, <1>3

LEMMA NotifyModemResetKeeps ==
  ASSUME IInv, NEW delayed \in BOOLEAN, NotifyModemReset(delayed)
  PROVE  IInv'
<1>1. TypeOK'
  BY OverviewAssumption DEF TypeOK, PC, NotifyModemReset, Invalidate, Trigger
<1>2. Flights'
  BY OverviewAssumption, SnapshotAssumption
     DEF TypeOK, NotifyModemReset, Invalidate, Trigger
<1>3. Fresh'
  BY OverviewAssumption, SnapshotAssumption, SMTT(30)
     DEF TypeOK, Overview, Card, AtLeast, NotifyModemReset, Invalidate, Trigger
<1>. QED
  BY <1>1, <1>2, <1>3

LEMMA NotifyUIMIndicationKeeps == ASSUME IInv, NotifyUIMIndication PROVE IInv'
<1>1. TypeOK'
  BY OverviewAssumption DEF TypeOK, PC, NotifyUIMIndication, Invalidate, Trigger
<1>2. Flights'
  BY OverviewAssumption, SnapshotAssumption
     DEF TypeOK, NotifyUIMIndication, Invalidate, Trigger
<1>3. Fresh'
  BY OverviewAssumption, SnapshotAssumption
     DEF TypeOK, NotifyUIMIndication, Invalidate, Trigger
<1>. QED
  BY <1>1, <1>2, <1>3

LEMMA WindowPassesKeeps == ASSUME IInv, WindowPasses PROVE IInv'
<1>1. TypeOK'
  BY OverviewAssumption DEF TypeOK, PC, WindowPasses
<1>2. Flights'
  BY OverviewAssumption, SnapshotAssumption DEF TypeOK, WindowPasses
<1>3. Fresh'
  BY OverviewAssumption, SnapshotAssumption DEF TypeOK, WindowPasses
<1>. QED
  BY <1>1, <1>2, <1>3

LEMMA WarmOverviewAsyncKeeps == ASSUME IInv, WarmOverviewAsync PROVE IInv'
<1>1. TypeOK'
  BY OverviewAssumption DEF TypeOK, PC, WarmOverviewAsync, Trigger
<1>2. Flights'
  BY OverviewAssumption, SnapshotAssumption DEF TypeOK, WarmOverviewAsync, Trigger
<1>3. Fresh'
  BY OverviewAssumption, SnapshotAssumption DEF TypeOK, WarmOverviewAsync, Trigger
<1>. QED
  BY <1>1, <1>2, <1>3

LEMMA ReloadDelayOverKeeps == ASSUME IInv, ReloadDelayOver PROVE IInv'
<1>1. TypeOK'
  BY OverviewAssumption DEF TypeOK, PC, ReloadDelayOver
<1>2. Flights'
  BY OverviewAssumption, SnapshotAssumption DEF TypeOK, ReloadDelayOver
<1>3. Fresh'
  BY OverviewAssumption, SnapshotAssumption DEF TypeOK, ReloadDelayOver
<1>. QED
  BY <1>1, <1>2, <1>3

LEMMA IInvInductive == IInv /\ [Next]_vars => IInv'
<1>. SUFFICES ASSUME IInv, [Next]_vars PROVE IInv'
  OBVIOUS
<1>1. ASSUME NEW p \in Reader, ReadStep(p) PROVE IInv'
  BY <1>1, CallKeeps, RefreshOverviewKeeps, RefreshWaitedKeeps, RefreshVoidsKeeps,
     LookUpKeeps, GetEUICCChipInfoKeeps, JoinKeeps, WaitForNoWriteKeeps, ScanKeeps,
     ReadProductKeeps, StoreKeeps, LoadFailsKeeps, ReturnKeeps DEF ReadStep
<1>2. ASSUME NEW w \in Writer, WriterStep(w) PROVE IInv'
  BY <1>2, BeginWriteKeeps, CardWrittenKeeps, WriteFailsKeeps, SwitchAcceptedKeeps,
     WriteSucceedsKeeps DEF WriterStep
<1>3. CASE CardStep
  BY <1>3, SwapCardKeeps, NotifyModemResetKeeps, NotifyUIMIndicationKeeps,
     WindowPassesKeeps, WarmOverviewAsyncKeeps, ReloadDelayOverKeeps DEF CardStep
<1>4. CASE UNCHANGED vars
  BY <1>4 DEF vars, TypeOK, AtLeast
<1>. QED
  BY <1>1, <1>2, <1>3, <1>4 DEF Next

LEMMA IInvInitial == Init => IInv
<1>. SUFFICES ASSUME Init PROVE IInv
  OBVIOUS
<1>1. NewCard \in Card /\ AtLeast(NewCard, NewCard)
  BY DEF NewCard, Card, AtLeast
<1>2. TypeOK
  BY <1>1 DEF Init, TypeOK, PC
<1>3. Flights
  BY DEF Init
<1>4. Fresh
  BY <1>1 DEF Init
<1>. QED
  BY <1>2, <1>3, <1>4

LEMMA IInvAlways == Spec => []IInv
BY IInvInitial, IInvInductive, PTL DEF Spec

\* Every state has its type.
THEOREM TypeAlwaysCorrect == Spec => []TypeOK
BY IInvAlways, PTL

\* setOverviewCache: for any number of callers, writers, cards and generations
\* the cached overview shows all that resets, writes and switches announced.
THEOREM CacheAlwaysFresh == Spec => []CacheFresh
BY IInvAlways, PTL

\* loadOverview: no caller gets an overview older than its call.
THEOREM AnswersAlwaysFresh == Spec => []AnswerFresh
BY IInvAlways, PTL
=============================================================================
