---------------------------- MODULE ESIMOverview ----------------------------
(***************************************************************************)
(* The caches of the eSIM manager (internal/esim/manager.go): the overview *)
(* and the chip information, filled by reads that take seconds, patched or *)
(* voided by profile writes, card resets and indications.  cacheMu guards  *)
(* the fields and is never held across a read of the card, so a result is  *)
(* stored only under the generation at which its read was asked for.       *)
(*                                                                         *)
(* The contents of a card are abstracted to versions: which card is in the *)
(* slot, how often its profile list changed, how often its active profile  *)
(* did.  A snapshot is newer when its versions are higher.                 *)
(***************************************************************************)
EXTENDS Naturals

CONSTANTS
  Caller,         \* goroutines that call GetEsimOverview, GetProfiles,
                  \* RefreshOverview and GetEUICCChipInfo
  Reload,         \* the goroutine of triggerOverviewReload
  Writer,         \* goroutines that write to the card
  Operation,      \* [Writer -> which operation]
  NoSnapshot, NoProduct,
  ChipKey,        \* the key of the flights of GetEUICCChipInfo
  ProductAnswers, \* whether the Product AID answers: a nonempty set of BOOLEANs
  MaxGeneration, MaxCards, MaxWrites    \* bounds of a run

\* RenameProfile, DeleteProfile and DownloadProfile change the list.
ASSUME OverviewAssumption ==
  /\ Reload \notin Caller
  /\ Operation \in [Writer -> {"switch", "disable", "rename", "delete", "download"}]
  /\ MaxGeneration \in Nat /\ MaxCards \in Nat /\ MaxWrites \in Nat
  /\ ProductAnswers \subseteq BOOLEAN /\ ProductAnswers # {}
  /\ NoProduct \notin Nat /\ ChipKey \notin Nat

Reader == Caller \cup {Reload}

Card == [chip : Nat, list : Nat, active : Nat]
Product == Nat \cup {NoProduct}    \* SkuName and SerialNumber, by the card they are of
Overview == [card : Card, product : Product]

ASSUME SnapshotAssumption == NoSnapshot \notin Overview

VARIABLES
  card,          \* what is in the slot
  generation,    \* overviewGeneration
  overviewCache, \* overviewCache, NoSnapshot when nil
  chipInfoCache, \* chipInfoCache, NoSnapshot when nil
  suppressed,    \* now is before suppressOverviewReloadUntil
  pc,            \* [Reader \cup Writer -> where the goroutine is]
  key,           \* [Reader -> key of its flight: a generation, or ChipKey]
  read,          \* [Reader -> what it has read or returns]
  promised,      \* history: what every cached overview has to show
  since          \* [Caller -> promised when it was called]

vars == <<card, generation, overviewCache, chipInfoCache, suppressed,
          pc, key, read, promised, since>>
caches == <<generation, overviewCache, chipInfoCache>>
locals == <<key, read, since>>

PC == {"idle", "refresh", "refreshPending", "void", "delay", "look", "key",
       "follow", "wait", "scan", "product", "store", "failed", "done", "writing", "written"}

TypeOK ==
  /\ card \in Card /\ promised \in Card
  /\ generation \in Nat
  /\ overviewCache \in Overview \cup {NoSnapshot}
  /\ chipInfoCache \in Overview \cup {NoSnapshot}
  /\ suppressed \in BOOLEAN
  /\ pc \in [Reader \cup Writer -> PC]
  /\ key \in [Reader -> Nat \cup {ChipKey}]
  /\ read \in [Reader -> Overview \cup {NoSnapshot}]
  /\ since \in [Caller -> Card]

NewCard == [chip |-> 0, list |-> 0, active |-> 0]

Init ==
  /\ card = NewCard /\ promised = NewCard
  /\ generation = 0
  /\ overviewCache = NoSnapshot /\ chipInfoCache = NoSnapshot
  /\ suppressed = FALSE
  /\ pc = [p \in Reader \cup Writer |-> "idle"]
  /\ key = [p \in Reader |-> 0]
  /\ read = [p \in Reader |-> NoSnapshot]
  /\ since = [p \in Caller |-> NewCard]

AtLeast(c, d) == c.chip >= d.chip /\ c.list >= d.list /\ c.active >= d.active

writeInProgress == \E w \in Writer : pc[w] \in {"writing", "written"}
overviewReloading == pc[Reload] # "idle"
hasReusableChipProductInfo == chipInfoCache # NoSnapshot /\ chipInfoCache.product # NoProduct

Goto(p, l) == pc' = [pc EXCEPT ![p] = l]

\* triggerOverviewReload: nothing when a reload is under way.  p moves to l.
GotoAndTrigger(p, l) ==
  pc' = [pc EXCEPT ![p] = l, ![Reload] = IF @ = "idle" THEN "delay" ELSE @]

Trigger == pc' = [pc EXCEPT ![Reload] = IF @ = "idle" THEN "delay" ELSE @]

\* invalidateOverviewCache and clearHardwareDiscoveryCachesLocked.
Invalidate ==
  /\ generation < MaxGeneration
  /\ generation' = generation + 1
  /\ overviewCache' = NoSnapshot
  /\ chipInfoCache' = NoSnapshot

----------------------------------------------------------------------------
(* loadOverview, GetEUICCChipInfo and their callers.                       *)

\* GetEsimOverview, GetProfiles.
Call(p) ==
  /\ p \in Caller
  /\ pc[p] = "idle"
  /\ Goto(p, "look")
  /\ since' = [since EXCEPT ![p] = promised]
  /\ UNCHANGED <<card, caches, suppressed, key, read, promised>>

\* GetEUICCChipInfo: the cached information, unless forceRefresh, or a load.
GetEUICCChipInfo(p, forceRefresh) ==
  /\ p \in Caller
  /\ pc[p] = "idle"
  /\ key' = [key EXCEPT ![p] = ChipKey]
  /\ IF chipInfoCache # NoSnapshot /\ ~forceRefresh
     THEN /\ read' = [read EXCEPT ![p] = chipInfoCache]
          /\ Goto(p, "done")
     ELSE /\ Goto(p, "key")
          /\ UNCHANGED read
  /\ UNCHANGED <<card, caches, suppressed, promised, since>>

\* RefreshOverview up to its wait for the suppression window.
RefreshOverview(p) ==
  /\ p \in Caller
  /\ pc[p] = "idle"
  /\ Goto(p, IF overviewReloading THEN "refreshPending" ELSE "refresh")
  /\ since' = [since EXCEPT ![p] = promised]
  /\ UNCHANGED <<card, caches, suppressed, key, read, promised>>

\* The wait is over: the window that was open when it began has passed, a later
\* one is not looked at.  Join the reload that runs, or void and load.
RefreshWaited(p) ==
  /\ pc[p] \in {"refresh", "refreshPending"}
  /\ Goto(p, IF pc[p] = "refreshPending" \/ overviewReloading THEN "look" ELSE "void")
  /\ UNCHANGED <<card, caches, suppressed, locals, promised>>

\* A reload may have begun since.  Chip information with product fields stays.
RefreshVoids(p) ==
  /\ pc[p] = "void"
  /\ Goto(p, "look")
  /\ generation < MaxGeneration
  /\ generation' = generation + 1
  /\ overviewCache' = NoSnapshot
  /\ chipInfoCache' = IF hasReusableChipProductInfo THEN chipInfoCache ELSE NoSnapshot
  /\ since' = [since EXCEPT ![p] = card]
  /\ UNCHANGED <<card, suppressed, key, read, promised>>

\* waitForOverviewReloadAllowed of the reload goroutine.
ReloadDelayOver ==
  /\ pc[Reload] = "delay"
  /\ Goto(Reload, "look")
  /\ UNCHANGED <<card, caches, suppressed, locals, promised>>

\* WarmOverviewAsync.
WarmOverviewAsync ==
  /\ Trigger
  /\ UNCHANGED <<card, caches, suppressed, locals, promised>>

\* loadOverview: the cached overview, or a load keyed by the generation.
LookUp(p) ==
  /\ pc[p] = "look"
  /\ IF overviewCache # NoSnapshot
     THEN /\ read' = [read EXCEPT ![p] = overviewCache]
          /\ Goto(p, "done")
          /\ UNCHANGED key
     ELSE /\ key' = [key EXCEPT ![p] = generation]
          /\ Goto(p, "key")
          /\ UNCHANGED read
  /\ UNCHANGED <<card, caches, suppressed, promised, since>>

inFlight(q) == pc[q] \in {"wait", "scan", "product", "store", "failed"}

\* Mutant: the loads of all generations share one key.
sameFlightAnyKey(p, q) == inFlight(q)

\* The flights of singleflight: one leader for each key.
sameFlight(p, q) == inFlight(q) /\ key[q] = key[p]

Join(p) ==
  /\ pc[p] = "key"
  /\ \/ /\ \E q \in Reader : sameFlight(p, q)
        /\ Goto(p, "follow")
        /\ UNCHANGED read
     \/ /\ ~ \E q \in Reader : sameFlight(p, q)
        /\ IF key[p] # ChipKey /\ overviewCache # NoSnapshot
           THEN /\ read' = [read EXCEPT ![p] = overviewCache]
                /\ Goto(p, "done")
           ELSE /\ Goto(p, "wait")
                /\ UNCHANGED read
  /\ UNCHANGED <<card, caches, suppressed, key, promised, since>>

\* The leader p of a flight is done with result r, and so are its followers.
Finish(p, r) ==
  LET flight == {p} \cup {q \in Reader : pc[q] = "follow" /\ sameFlight(q, p)} IN
  /\ pc' = [q \in DOMAIN pc |-> IF q \in flight THEN "done" ELSE pc[q]]
  /\ read' = [q \in Reader |-> IF q \in flight THEN r ELSE read[q]]

\* forEachEUICC: wait for the write in progress and for an idle arbiter, or
\* give up when that takes too long.
WaitForNoWrite(p) ==
  /\ pc[p] = "wait"
  /\ \/ ~writeInProgress /\ Goto(p, "scan")
     \/ Goto(p, "failed")
  /\ UNCHANGED <<card, caches, suppressed, locals, promised>>

\* The scan reads the card, no matter what has begun since the wait.
Scan(p) ==
  /\ pc[p] = "scan"
  /\ \/ /\ read' = [read EXCEPT ![p] = [card |-> card, product |-> NoProduct]]
        /\ Goto(p, "product")
     \/ /\ Goto(p, "failed")
        /\ UNCHANGED read
  /\ UNCHANGED <<card, caches, suppressed, key, promised, since>>

\* The Product AID may not answer.
productOnCard == { IF answers THEN card.chip ELSE NoProduct : answers \in ProductAnswers }

\* The product fields come from chipInfoCache, or else from the card.
ReadProduct(p) ==
  /\ pc[p] = "product"
  /\ \E product \in IF hasReusableChipProductInfo
                    THEN {chipInfoCache.product} ELSE productOnCard :
       read' = [read EXCEPT ![p].product = product]
  /\ Goto(p, "store")
  /\ UNCHANGED <<card, caches, suppressed, key, promised, since>>

\* Mutant: the generation is not compared.
setOverviewCacheAlways(p) ==
  /\ overviewCache' = read[p]
  /\ chipInfoCache' = read[p]

\* An overview is stored under its own generation only.
setOverviewCache(p) ==
  IF key[p] = generation
  THEN /\ overviewCache' = read[p]
       /\ chipInfoCache' = read[p]
  ELSE UNCHANGED <<overviewCache, chipInfoCache>>

\* The end of a load; GetEUICCChipInfo stores without a condition.
Store(p) ==
  /\ pc[p] = "store"
  /\ IF key[p] = ChipKey
     THEN chipInfoCache' = read[p] /\ UNCHANGED overviewCache
     ELSE setOverviewCache(p)
  /\ Finish(p, read[p])
  /\ UNCHANGED <<card, generation, suppressed, key, promised, since>>

\* setOverviewCache(nil, err, generation), or the error of GetEUICCChipInfo.
LoadFails(p) ==
  /\ pc[p] = "failed"
  /\ overviewCache' = IF key[p] = generation THEN NoSnapshot ELSE overviewCache
  /\ Finish(p, NoSnapshot)
  /\ UNCHANGED <<card, generation, chipInfoCache, suppressed, key, promised, since>>

\* The caller has its answer; the reload goroutine clears overviewReloading.
Return(p) ==
  /\ pc[p] = "done"
  /\ Goto(p, "idle")
  /\ read' = [read EXCEPT ![p] = NoSnapshot]
  /\ key' = [key EXCEPT ![p] = 0]
  /\ since' = [since EXCEPT ![p] = NewCard]
  /\ UNCHANGED <<card, caches, suppressed, promised>>

----------------------------------------------------------------------------
(* Writes, under opMu.                                                     *)

changesActive(w) == Operation[w] \in {"switch", "disable"}

\* opMu is taken.  A switch opens the suppression window somewhat later, before
\* it sends its command; an indication in between is one that comes first.
BeginWrite(w) ==
  /\ pc[w] = "idle"
  /\ ~writeInProgress
  /\ Goto(w, "writing")
  /\ suppressed' = (suppressed \/ Operation[w] = "switch")
  /\ UNCHANGED <<card, caches, locals, promised>>

Changed(w) ==
  IF changesActive(w) THEN [card EXCEPT !.active = @ + 1]
                      ELSE [card EXCEPT !.list = @ + 1]

\* The card executes the command.
CardWritten(w) ==
  /\ pc[w] = "writing"
  /\ card.list + card.active < MaxWrites
  /\ card' = Changed(w)
  /\ Goto(w, "written")
  /\ UNCHANGED <<caches, suppressed, locals, promised>>

\* The operation returns an error: the card refused, or its answer was lost.
\* Only a download voids the cache then.
WriteFails(w) ==
  /\ pc[w] \in {"writing", "written"}
  /\ IF Operation[w] = "download" THEN Invalidate ELSE UNCHANGED caches
  /\ Goto(w, "idle")
  /\ UNCHANGED <<card, suppressed, locals, promised>>

\* The cached list of another card does not have the target, and another may not
\* either: it missed a change, or a list that could not be read was cached empty.
targetListed ==
  IF overviewCache # NoSnapshot /\ overviewCache.card.chip = card.chip
  THEN BOOLEAN ELSE {FALSE}

PatchCachedActiveProfile ==
  \E listed \in targetListed :
    IF listed
    THEN /\ overviewCache' = [overviewCache EXCEPT !.card.active = card.active]
         /\ promised' = [promised EXCEPT !.active = card.active]
    ELSE UNCHANGED <<overviewCache, promised>>

SwitchAccepted(w) ==
  /\ pc[w] = "written"
  /\ Operation[w] = "switch"
  /\ PatchCachedActiveProfile
  /\ Goto(w, "idle")
  /\ UNCHANGED <<card, generation, chipInfoCache, suppressed, locals>>

\* The end of every other write: void, trigger a reload, and for a disable or
\* a download open the suppression window.
WriteSucceeds(w) ==
  /\ pc[w] = "written"
  /\ Operation[w] # "switch"
  /\ Invalidate
  /\ suppressed' = (suppressed \/ Operation[w] \in {"disable", "download"})
  /\ promised' = [promised EXCEPT !.list = card.list, !.active = card.active]
  /\ GotoAndTrigger(w, "idle")
  /\ UNCHANGED <<card, locals>>

----------------------------------------------------------------------------
(* Notifications.                                                          *)

\* Another card is put in the slot; the modem resets and tells so later.
SwapCard ==
  /\ card.chip < MaxCards
  /\ card' = [card EXCEPT !.chip = @ + 1]
  /\ UNCHANGED <<caches, suppressed, pc, locals, promised>>

\* The caches are voided under cacheMu; the rest of a notification or of a write
\* that voids them only opens the window and starts a reload, and is taken with it.

\* NotifyModemReset, and NotifyModemResetDelayed, which also opens the window.
NotifyModemReset(delayed) ==
  /\ Invalidate
  /\ promised' = card
  /\ IF suppressed
     THEN UNCHANGED <<pc, suppressed>>
     ELSE Trigger /\ suppressed' = delayed
  /\ UNCHANGED <<card, locals>>

\* NotifyUIMIndication: ignored in the suppression window.
NotifyUIMIndication ==
  /\ ~suppressed
  /\ Invalidate
  /\ Trigger
  /\ UNCHANGED <<card, suppressed, locals, promised>>

WindowPasses ==
  /\ suppressed
  /\ suppressed' = FALSE
  /\ UNCHANGED <<card, caches, pc, locals, promised>>

----------------------------------------------------------------------------
ReadStep(p) ==
  \/ Call(p) \/ RefreshOverview(p)
  \/ RefreshWaited(p) \/ RefreshVoids(p) \/ LookUp(p)
  \/ \E forceRefresh \in BOOLEAN : GetEUICCChipInfo(p, forceRefresh)
  \/ Join(p) \/ WaitForNoWrite(p) \/ Scan(p) \/ ReadProduct(p)
  \/ Store(p) \/ LoadFails(p) \/ Return(p)

WriterStep(w) ==
  \/ BeginWrite(w) \/ CardWritten(w) \/ WriteFails(w)
  \/ SwitchAccepted(w) \/ WriteSucceeds(w)

CardStep ==
  \/ SwapCard
  \/ \E delayed \in BOOLEAN : NotifyModemReset(delayed)
  \/ NotifyUIMIndication
  \/ WindowPasses
  \/ WarmOverviewAsync
  \/ ReloadDelayOver

Next ==
  \/ \E p \in Reader : ReadStep(p)
  \/ \E w \in Writer : WriterStep(w)
  \/ CardStep

Spec == Init /\ [][Next]_vars

----------------------------------------------------------------------------
\* The cached overview shows the card that the last reset announced, every
\* write that succeeded, and the profile that a switch was patched to: no load
\* that was under way meanwhile puts an older snapshot back.
CacheFresh == overviewCache # NoSnapshot => AtLeast(overviewCache.card, promised)

\* The overview a caller gets, from the cache, from its own load or from a load it
\* joined, is no older than what had been promised when it called, and no older
\* than the card itself when RefreshOverview made it load.
AnswerFresh ==
  \A p \in Caller :
    pc[p] = "done" /\ key[p] # ChipKey /\ read[p] # NoSnapshot
      => AtLeast(read[p].card, since[p])

\* The chip information in the cache is that of the card the last reset
\* announced.
ChipInfoFresh ==
  chipInfoCache # NoSnapshot => chipInfoCache.card.chip >= promised.chip
============================================================================
