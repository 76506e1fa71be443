# DJ 4G Hub: formal models

TLA+ modules, TLC configurations and TLAPS proofs for the control logic of DJ 4G
Hub (`src/`), a Go program that drives a cellular module (AT, QMI or MBIM over
USB), reads and writes its eSIM, receives and forwards messages and answers
calls. The repository also holds `mavo`, a macOS client in Swift and C.

`PROJECT.json` says which lines every definition stands for (`map`), what can go
wrong in the code and which property would catch it (`hazards`), and lists the
runs, mutants, findings and theorems.

## 1. The system

| Component | State | Operations | Talks to |
|---|---|---|---|
| APDU arbiter, `internal/apduarbiter/arbiter.go` | queue of tickets, active sessions, one-shot, transports, barriers, `notifyC`, a timer for each lease | `AcquireTransport/Session/OneShot`, `BeginBarrier`, `Release`, `Touch`, the watchdog callback, `WaitIdle` | every goroutine that sends an APDU |
| SIM readiness gate, `simauth_ready.go` | generation, ready, probing, `waitC` | `WaitSIMAuthReady`, `InvalidateSIMAuthReady` | SIM authentication, profile switch |
| eSIM manager, `internal/esim/manager.go` | overview and chip caches with a generation, `overviewReloading`, suppression window, `opMu` and `opDone` | reads (overview, profiles, chip), writes (switch, disable, rename, delete, download), notifications of resets and indications | arbiter, card, backends |
| APDU coordinator and transports, `internal/esim/apdu_coordinator.go`, `qmi_uim_transport.go`, `mbim_apdu_transport.go` | mutex per channel, logical channels, client | open, transmit, close, `Start`, `Stop`, `setArbiter` | arbiter, driver |
| AT modem manager, `internal/modem/manager.go`, `commands.go` | two command queues, response in progress, watchdog counters, selected storage, registry of logical channels | `runLoop`, `readLoop`, `ExecuteAT`, reading, sending and deleting messages, logical channels | serial port, arbiter, callbacks |
| Backends, `internal/backend` | a USSD session with three channels, snapshots of network and identities | one interface over AT, QMI and MBIM | managers, drivers |
| MBIM device, `pkg/mbim` | pending transactions, fragments, indications | `Open`, `Command`, `Close`, `readLoop` | transport |
| SMS codec, `pkg/smscodec` | parts of long messages | `Add`, `Cleanup`, pure decoders | managers |
| SIM records, `internal/simaid`, `internal/modem/sim_metadata.go`, `spn.go` | none | decoders of EF_DIR, EF_PNN, EF_OPL, EF_SPN, FCP | modem manager |
| Configuration, `internal/config` | YAML file, its copy in memory | load, update through a temporary file | handlers |
| Logging, `pkg/logger` | buffered channel of each follower | `Subscribe`, `Unsubscribe`, `Broadcast` | browsers |
| Desktop application, `cmd/dj4ghub-macos/main.go` | messages, handle of the USB AT bridge, eSIM manager, notes, restart pending | HTTP handlers, SMS poller and cleanup, attach and detach, notes in the phonebook, switch with restart | all of the above |
| Automation, `cmd/dj4ghub-macos/automation.go` | active call and its workflow, prompt in the module, audio bridge, recorder, settings | call events, prompts, recording, forwarding | USB AT bridge, services on the net |
| `mavo`, web page, packaging, vendored code | | | not modelled |

What is hard in it:

* *Sharing the card.* The APDU arbiter orders goroutines with deadlines,
  priorities, ageing, barriers and a watchdog, and wakes its waiters by closing
  one channel. A missed wake-up, a ticket that outlives its goroutine or a lease
  granted beside another shows up as a busy card or a corrupt exchange.
* *Knowing what is on the card.* Reads take seconds and hold no lock; profile
  switches, resets, card changes and indications overtake them.
* *Long operations in steps.* A switch holds an operation lock, a barrier, a
  logical channel and a suppression window, and fails at any of them.
* *Unreliable peers.* Answers come late, twice or in pieces, the USB device goes
  and comes back, messages arrive while others are deleted.

What makes each component correct, in a line: the arbiter never lets two
conflicting users in, loses no waiter and lets nobody wait for ever; the gate
never opens for a card that has not answered; a cache never goes back in time; a
read waits for a write and for nothing else; a logical channel that was opened is
closed; an AT answer is taken by the command it belongs to; a message is
delivered before it is deleted, and once; an MBIM command ends; a call that is
over is not acted on.

## 2. Modules

| Module | What it is |
|---|---|
| `APDUArbiter` | the arbiter, one action for every hold of its mutex |
| `APDUAccess` | what the arbiter promises: a holder joins only if it conflicts with none |
| `MCAPDUArbiter` | instances: one client for each kind of call site |
| `APDUArbiterProofs` | invariants and the refinement, proved |
| `SIMAuthReady`, `MCSIMAuthReady` | the readiness gate and its instance |
| `SIMAuthReadyProofs` | `SIMAuthReady` and `SIMFiles`, proved |
| `ESIMOverview`, `MCESIMOverview`, `ESIMOverviewProofs` | caches of the eSIM manager, their instance and proofs |
| `ESIMOperationLock` | `opMu` and `opDone` of the eSIM manager |
| `ESIMTransport` | APDUs over QMI and MBIM: leases, channel mutexes, registry, Stop; over `APDUAccess` |
| `ESIMSwitch` | switch, disable, rename, delete: lock, barrier, retries, hooks, clean-up |
| `ESIMNotifications` | what a download or a deletion owes the operator's server |
| `ATCard` | AT logical channels, their registry and leases, EF_DIR on the basic channel |
| `SIMFiles` | which records of the files of names and of rules are read, over AT and MBIM |
| `SIMRecords` | decoders of the records of the SIM, against what was written |
| `MCESIMOperations` | the six above, from `ESIMTransport` on, side by side |
| `ESIMTransportProofs` | `ESIMTransport` (leases, channels, Stop) and `ATCard`, proved |
| `ESIMManagerProofs` | `ESIMSwitch` and `ESIMNotifications`, proved |
| `ATManager` | the two queues, `runLoop`, `readLoop`, time-outs, the watchdog |
| `MBIMDevice` | transactions, fragments, indications, the end of the read loop, Close |
| `QMIUSSD` | one USSD session and the three channels its results come through |
| `SMSStorage`, `Reassembler` | messages read from two storages, and long ones put together |
| `Backends` | operator selection, radio mode and messages over AT, QMI and MBIM |
| `QMIReads` | registration, signal and identity from snapshots and requests |
| `MCDevice` | the modules from `ATManager` on side by side |
| `ATManagerProofs` | `ATManager`, `SMSStorage` and `Reassembler`, proved |
| `MBIMDeviceProofs` | `MBIMDevice`, `QMIUSSD`, `QMIReads` and `Backends`, proved |
| `CallAutomation` | incoming calls, the page's buttons, the audio bridge, the recorder |
| `USBSMS` | the poller and the cleanup of messages over USB |
| `ModuleNotes`, `ModulePrompt`, `ModuleMemory` | entries in the module's phonebook; the prompt in its file system; both |
| `DesktopFiles`, `ConfigStore`, `SavedFiles` | files replaced by rename; the configuration and its copy; both |
| `USBAT` | commands, uploads and downloads over the bulk endpoints |
| `Forwarding`, `Recordings`, `PassedOn` | messages and recordings sent on; the sound files themselves; both |
| `USBBridge` | the module unplugged, restarted and opened again under its users |
| `LogBroadcaster` | log lines to the browsers that follow them |
| `MCDesktop` | the modules from `CallAutomation` on side by side |
| `DesktopProofs` | all of these, proved |

### The composed instances

`MCESIMOperations`, `MCDevice` and `MCDesktop` put modules beside each other that
share no state: an initial state picks the part that runs, the others keep their
initial state, and a property is a conjunction of those of the parts. The parts with
theorems are extended, so that the run checks the definitions the theorems name and
TLC evaluates their assumptions; only `SIMRecords` is instantiated. Nothing crosses between
the parts of such an instance. Where components do share state it
is inside one module: `ESIMTransport` works on the leases of `APDUAccess`, which both
`APDUArbiter` and `ESIMTransport` are proved to implement; `SMSStorage` on the cache of `Reassembler`;
`USBBridge` has the application, the port and the eSIM manager's cache in one
state.

### APDUArbiter

A client stands for a goroutine at one call site together with the ticket it
queues: it always makes the same request (`RawRequest`, normalised as
`normalizeRequest` does into `Ticket`) and one at a time. `queue` is `a.queue`,
`active` the union of `activeSessions`, `activeOneshot`, `activeTransports` and
`activeBarriers`. `pc` says where the goroutine is: `parked` while it blocks on
the current `notifyC`, `ready` from the moment that channel is closed until it
has the mutex again, `held` once granted. Everything between `Lock` and `Unlock`
is one step, so `Request` is enqueue and first check, `Recheck` one turn of the
loop, `WaitTimeout` the `ctx.Done` branch (which may win although the channel is
closed, as in Go's `select`).

Time is abstract. `aged` holds the tickets past `transportPriorityAging`,
`overdue` the leases past `expiresAt`, `fired` those whose timer callback runs
and waits for the mutex; a touch between the two is therefore possible, as is a
holder that goes on after a forced release. A context may end at any moment or
never.

Left out: identifiers, owners and counters for statistics, logging, `Snapshot`,
`IsIdle`. `Hung` names clients that never release.

### SIMAuthReady

`started` is the local `generation` of `WaitSIMAuthReady`. The probe is two
steps, the card's answer (`Answer`) and the evaluation of the result under the
mutex, so that an invalidation fits in between. `cardOK` is a history variable:
the card has answered since it was last invalidated.

### ESIMOverview

A snapshot is abstracted to versions: which card it shows (`chip`), after how
many changes of its profile list (`list`) and of its active profile (`active`).
A read that follows two changes shows both. `promised` is a history variable: the
versions that a reset, a successful write or a patched switch has announced.
`since` remembers `promised` at the moment of a call (and the card itself, when
`RefreshOverview` voids the caches and so asks for a new read).

A goroutine that loads goes through `look` (cache, generation), `key`
(`singleflight`: join or lead), `wait` (`waitForNoWriteOperation` and `WaitIdle`,
or an error), `scan`, `product` (the product fields, from `chipInfoCache` or from
the card) and `store`. The reload goroutine of `triggerOverviewReload` is the
process `Reload`, which is `idle` exactly while `overviewReloading` is false.

Merged or left out, none of which the properties tell apart:

* After voiding the caches under `cacheMu`, handlers still open the suppression
  window and start the reload. These two are taken with the first step.
* A switch opens the suppression window when it takes `opMu`, somewhat earlier
  than in the code. An indication that comes in between is one that came before.
* A missing `ChipInfo` at the end of `RefreshOverview` cannot occur for a load
  that succeeded. `discoveredEUICCs`, the several secure elements of one card and
  `RefreshProfiles` (no caller outside the tests) are left out.
* `AnswerFresh` is about overviews; `GetEUICCChipInfo` has its own run.

### ESIMOperationLock

`opDone` is read and replaced outside the lock, so `TryLock`, the evaluation of
the channel in the `select` (`Park`), and the three statements of
`notifyWriteDone` are separate steps. The second close of one channel, which
would panic, is not taken.

### The eSIM operations

* `ESIMTransport`. A call goes through lease, mutex, driver and card one step at a
  time, so a forced release, `Stop` (sessions, mutexes and driver are three
  steps), `setArbiter` and a reset of the card come in between. `gen` is the
  generation of the map of mutexes that a call has looked into, `life` how far the
  user of a `QMIChannel` is. Overlap in the card of one driver needs a lease taken
  back and replaced mutexes, both: that is `OverlapNeedsTwoFailures`.
* `ESIMSwitch`. `at` is the place in the method, `token` the operation's switch
  token, `hooks` and `phases` what the layer above was told. Every step may fail,
  or a refusal as busy is retried; deferred calls run in Go's order, and the
  failure hook runs after the unlock.
* `ESIMNotifications`. The card numbers its notifications; a request may fail,
  or be executed and lose its answer. Downloads, deletions, retries and listings
  share the operation lock, so one runs at a time.
* `ATCard`. Users of the basic channel and of logical channels, each command with a
  lease of its own; `AT+CRSM` without one, as in the code. `ClearLogicalChannels`
  is included, and so is what it does to others (`cleared`).
* `SIMFiles`. A record is unreadable, empty or filled; the lengths that AT tries are one
  step. AT stands one failure before the first record it finds, MBIM none; an empty
  record is a failure only where AT reads names.
* `SIMRecords`. Bytes are numbers; a name, a rule or a tree of TLVs is written the
  way the standard says and the code's decoder must give it back. The character
  tables are left out. Names that end in a byte taken for padding are excluded by
  the property and named there.

### The device

* `ATManager`. A line carries the command it belongs to only for the properties:
  the run loop sees what kind of line it is. Time-outs, late answers, prompts,
  unsolicited lines and thirty ends of file can come at any moment, within
  `MaxATFlaws`.
* `MBIMDevice`. A fragment is <<message, index, of>>; flaws on the wire drop,
  repeat or swap one. Transaction numbers do not repeat.
* `QMIUSSD`. The emitter of the driver lags behind the answers to requests; a
  request begun while nothing of an earlier session was left must get its own
  answer.
* `SMSStorage`. One action is one command, or one message that `CheckAllSMS` hands
  over: it lists first, then decodes one message after the other (`listed`), and deletes
  at the end, while others read and clean up. `overlap` marks that two goroutines used
  the selected storage at once, for which nothing is promised of the storages; what is
  put together must be whole all the same. A part is <<text, number, total, key>>.
* `Backends`, `QMIReads`. One action is one request to the modem; callers share
  it and no lock, and the network goes on between two requests.

### The desktop application

* `CallAutomation`. `goroutine` says where the workflow of a call is (the
  automation's or the page's), `warmup` where the start of the audio bridge is.
  The poller of `AT+CLCC` or the serial callbacks notice calls, also late.
* `USBSMS`. Sequences of commands of the poller, the page and the cleanup, and one
  selected memory; the module takes an ERROR answer for no error, as the code does.
* `ModuleNotes`, `ModulePrompt`. Requests that read, change and write the module,
  with the probe of the phonebook between them.
* `DesktopFiles`, `ConfigStore`. Temporary file, write and rename are steps, an end
  of the program may come between them; `ConfigStore` has inodes, since a writer
  keeps the file it opened.
* `USBAT`. Two platforms with different readers; answers come in pieces, late,
  and `leftover` marks what the module still owed when a command was sent.
* `Forwarding`, `Recordings`. Attempts, retries and marks; and the sound: a
  recording is the loudness of its 20 ms windows, a prompt its samples, and a file
  is what its header says about them. Eight loud windows in a row are a voice.
* `USBBridge`. A handle is numbered by the plugging-in it was opened in. `stale`
  marks that a caller detached another handle than the one it used, `glitched`
  that a command failed with the module there.
* `LogBroadcaster`. The read lock spans the loop over the clients; the channel is
  closed after the removal.

## 3. Runs

| Run | Asks | Result |
|---|---|---|
| `arbiter_transports` | barriers, tickets, wake-ups, watchdog, order, and exclusion as the refinement of `APDUAccess` | holds |
| `arbiter_liveness` | sessions and one-shots: limits kept, every request served, every barrier in, although a holder hangs | holds |
| `arbiter_ageing` | is a transport that has come due by ageing served? | violated |
| `simauth` | does the gate open only for a probed card; are all waiters woken? | holds |
| `esim_overview` | can a load put back, or a caller be given, an old overview? | holds |
| `esim_chipinfo` | the same for the chip information | violated |
| `esim_operation_lock` | does a waiter wait only for a write? | violated |
| `esim_operations` | do calls reach their own application, and is nothing left behind by a failure; are notifications sent before they are removed; are leases taken as promised; is the card read as written? | holds |
| `device` | is each answer that of its command, each message whole; does a caller get what is there? | holds |
| `desktop` | one workflow for a call, no message or note or saved file lost, answers whole, what is marked as sent has arrived, the bridge and cache those of the module that is there | holds |
| `usb_sms` | does the cleanup of the module's storage spare the SIM card? | violated |
| `voice_route` | is the audio bridge stopped when the call ends? | violated |

The violated ones are described under `findings`: ageing that wakes nobody, chip
information stored without a generation check, a waiter that parks on a channel
nobody closes, a cleanup that deletes in the storage somebody else selected, and
an audio bridge that outlives its call. In all five a comment, a text of the page
or a test of the repository says what the program means to do.

Several properties promise something only of quiet behaviours, those without the
one overlap or failure the code does not guard against: `QuietOwnAnswer`,
`QuietReadsOwn`, `QuietSIMKept`, `QuietNotesKept`, `QuietPromptReady`,
`QuietOwnPieces`, `QuietAnswersAllowed`. The history variable that marks the
exception (`overlap`, `disturbed`, `probed`, `hurt`, `leftover`, `swapped`, `stale`)
is set by exactly that event, so that every other interleaving is covered.

### Bounds

* *Arbiter.* Clients are chosen so that every pair of kinds meets: two QMI
  transports on one channel and one on another, an authentication that asks for
  the shared scope on channel 0 and does not get it, a barrier, a waiter for idle
  (`arbiter_transports`); two sessions with `MaxSessions` 1, a one-shot, a
  transport that hangs, a barrier (`arbiter_liveness`). A client may come back any number of
  times, so nothing bounds the length of a behaviour, and the queue reaches the
  number of clients. `MaxQMITransports` is 2, with three candidates. The theorems
  cover every number.
* *Gate.* Three callers (one probes, one parks, one comes late) and
  `MaxGeneration` 2, to void a probe and the one that follows. Nothing is bounded
  in the theorems but the generation, which they take from the same constant.
* *Caches.* A caller and the reload goroutine: each can lead and each can follow.
  A switch patches and a download voids; rename and delete void as the download
  does, disable too. `MaxCards` 1 swap, `MaxWrites` 1 executed write,
  `MaxGeneration` 2 invalidations: a load can be overtaken twice. The product AID
  answers always here (`ProductAnswers`); that it may not concerns no property of
  the run, and the theorems cover both. `CHECK_DEADLOCK` is off since the bounds
  stop the instance. Two callers with two writes exceed what can be checked in
  minutes and are covered by the theorems.
* *Operation lock.* One process of each kind suffices for the violation.
* *eSIM operations.* Two QMI channels, an authentication and two logical channels,
  so that channels are short; one driver started again (`MaxStarts` 1) and one
  fault, since each exception of the properties needs one. Two operations under
  `opMu` in any order, with two switch tokens. Four notifications (`MaxSeq` 4):
  one from before, one of the operation, and two more to be mistaken for it. Names
  up to eight septets, at which the packing has come round to a whole byte; files of
  five records, each unreadable, empty or filled, so that failures come apart, in a row,
  and behind a record that was found.
* *Device.* Queues of one, so that they fill; two callers and a sender; a
  `Threshold` of two time-outs for the watchdog; messages of two fragments and
  two indications; three USSD requests, the first of which may leave a session for
  the second; a text of two parts in a storage of two slots; two callers of a
  backend with two messages; two changes of the network and two failures, as many
  as the signal has requests.
* *Desktop.* Two calls, one allowed; the settings are three combinations (bridge
  late over USB; recording with the page's button; serial with hang-up). One
  message in each memory and three sequences; two requests for notes and a probe;
  two files with two versions; three prompts; two commands of which one may be
  late; one recipient, two chats and two lost answers; two plugged modules, one
  switch and one fault; two writers of the configuration; two followers with a
  buffer of one and two writers of one line each. Recordings of at most 27 windows
  around the 8 that make a voice and the 10 that are kept before it.
* Each of these parts has its own bound on failures (`MaxFaults`, `MaxATFlaws`,
  `MaxMishaps`, `MaxFailures`, `SMSFaults`, `MaxBusFaults`, `MaxNoteFaults`,
  `MaxPromptFaults`, `MaxLate`, `MaxUnanswered`): one or two, which is the number the
  exceptions of its properties speak of. `CHECK_DEADLOCK` is off in
  the three instances because the bounds stop them.

### Fairness

`APDUArbiter` assumes weak fairness of `Recheck`, `Elapse`, `ReleaseExpired` and
`Release`, the last for clients that do not hang: the Go scheduler runs a
goroutine that can run and timers fire, and call sites defer `Release`. A barrier
must be released, for it has no watchdog. Requests, touches and time-outs are not
fair. Weak fairness of `Recheck` is enough: a woken waiter stays `ready` until it
runs. `RequestsServed` concerns the time after barriers have gone, because
nothing in the code limits how many switches somebody may ask for.

`SIMAuthReady` assumes weak fairness of each caller's steps, where a probe may
end with or without an error; nothing makes a context end.

The other specifications state safety only: their properties are invariants, an action
property (`RemovedOnlyDelivered`) and a refinement (`LeasesAsPromised`).

### Mutants

Each property has one or more mutants of a definition of the model, named in
`PROJECT.json` and kept beside the original: a dropped comparison of channels or
generations, a signal that is forgotten, a head removed instead of the own ticket,
a barrier that does not wait, a key shared by all generations. The property must
be violated once it takes the place of the original.

## 4. Proofs

TLAPS proves these for all values of the constants, from the named assumptions in
the modules (`ClientAssumption`, `LimitAssumption`, `GenerationAssumption`,
`OverviewAssumption`, `SnapshotAssumption`, `TransportAssumption`,
`SwitchAssumption`, `NotesAssumption`, `ATAssumption`, `MBIMAssumption`,
`FilesAssumption`, `ConfigAssumption`, `CardAssumption`, `RequestAssumption`,
`CallAssumption`, `BridgeAssumption`, `USBAssumption`, `ForwardAssumption`,
`SoundAssumption`, `ReadingAssumption`, `BackendAssumption`, `StorageAssumption`,
`FileAssumption`), which TLC evaluates for the instances. They say that a bound is a
number, that the value for "none" is not one of the others, and what kinds of client or
operation there are; `CallAssumption` also that the allow list has no empty number,
which `normalizePhoneList` leaves out, and `ForwardAssumption` that the recipients and
chats, which are lists of numbers, do not hold the word for Feishu. Two are about what
the program is given: `BackendAssumption` says that a network code written with two digits
is one of two digits, and `StorageAssumption` that a sender does not use the reference of a
long text for another one. The reassembler keeps parts by sender and reference
(`pkg/smscodec/reassembler.go:36`): of two texts that break this it would make one.

Each inductive invariant was also checked by TLC on a small instance of its
specification. Two invariants are theorems and no longer listed by a run, since
other properties of the same run contain what they are for: `LeasesExclusive`, which is
the refinement `AccessSpec` between holders that are not barriers, and
`ReadyMeansProbed`, whose breach shows in `NilMeansProbed`.

* *Arbiter* (`APDUArbiterProofs`). `TicketInv` is `TypeOK` and `TicketsOwned`. It
  is inductive by itself once `TicketsOwned` says how `pc`, `queue`, `active`,
  `overdue` and `fired` relate; the work is in the two lemmas on sequences, that
  `Append` of a new client and `RemoveAt` of a present one keep the queue free of
  duplicates. It gives `TypeCorrect` and `TicketsAlwaysOwned`. For exclusion,
  `AccessInv` adds the pairwise condition on holders and both limits, and the
  lemma `GrantAdmits` shows that `canAcquire` excludes every conflict with
  those already in. `StepKinds` reduces each step to a join, a departure or
  neither; from it follow exclusion, barriers, limits, the watchdog, and the
  refinement `ArbiterImplementsAccess`. Limits need `IsFiniteSet(Client)`.
* *Gate* (`SIMAuthReadyProofs`). `OneProber` alone is not inductive for
  `ReadyMeansProbed`: the invariant adds that a caller in `answered` whose
  `started` is the current generation has a card that answered since, and that no
  `started` is ahead of the generation.
* *Caches* (`ESIMOverviewProofs`). What is stored was read under a key that is
  still the generation, so whatever raises `promised` must leave no such load
  behind. A write or a reset takes a new generation, which exceeds every key
  (`KeysBounded`). An accepted switch keeps it, and is safe only because a cached
  overview and a load keyed by the current generation exclude each other
  (`CachedMeansLoaded`), which rests on one leader for each key (`OneLeader`).
  `LoadsFresh` bounds what such a load has read; `SourcesFresh` and `FlightsFresh`
  do the same for what a caller may find or join. One lemma for each action.
* *Arbiter, order and wake-ups.* `OrderKept` is an action property: a grant past a
  ticket ahead follows from what `canAcquire` asks of those in front (`GrantOvertakes`).
  `NoMissedWakeup` is inductive beside `TicketInv`: a step either signals (`SignalWakes`)
  or cannot make way for anyone who is parked (`MayAcquireStable`), and the only
  exception is a transport that comes due by ageing (`AgeingHelpsOne`), which is the
  finding of `arbiter_ageing`.
* *Transports* (`ESIMTransportProofs`). `TransportInv` says that leases in force agree
  with what `APDUAccess` promises (`Compatible`), that whoever is in the card holds a
  mutex and no two the same one (`Exclusive`), that a call fits the life of its
  `QMIChannel` (`CallFits`), and that while nobody's channel was reset, left open or
  closed in doubt, an open channel is its owner's (`OwnChannels`). Two in the card of
  one driver then have incompatible leases, one of which was taken back, and different
  mutexes, one set of which was replaced.
* *AT card* (`ESIMTransportProofs`). `CardInv` ties a command to what its user has
  (`CommandFits`), a session to the user whose channel it is (`SessionFits`), and the
  channel of a user, or the one it is about to close, to the card (`ChannelOwned`); all
  but the last hold whatever fails, that one until a channel is cleared under somebody.
  That an application is found needs `ReadSoFar`: who reads the directory undisturbed
  has it selected, and has found what the records before the one in hand say.
* *Leases* (`ESIMTransportProofs`). `TransportImplementsAccess`: a step that changes the
  leases is a `Join` or a `Leave` of the lease of one call, which is one of the leases
  `APDUAccess` speaks of; all other steps leave them alone. Together with
  `ArbiterImplementsAccess` this ties the two components: each implements the same
  abstract module, one as the side that grants, the other as the side that asks.
* *Records of SIM files* (`SIMAuthReadyProofs`). While the reading goes on, nothing in
  front of the next record hides it, and when it ended something hides all that follow
  (`ReadSoFar`); for this the count of failures must be that of the failures right before
  the next record (`CountFits`).
* *Switch and notifications* (`ESIMManagerProofs`). `SwitchInv` says for each place in
  the method what the operation holds (lock, barrier, client, token) and what its hooks
  and phases were told (`Story`); only with the place is "told once" inductive, since
  deferred calls run after the unlock. `NotesInv` rests on numbers: the list read before
  the change, or the number in the result of a download, leaves the operation's own
  notification as the only one that matches (`Listed`, `OwnFound`), and a download is
  looked into only with that list (`Recovering`). `OnlyDeliveredRemoved` is an action
  property; what a clean-up has to do is notifications of switches alone (`Cleanable`).
* *MBIM* (`MBIMDeviceProofs`). A registered caller's channel is empty, and who is not
  registered any more has its verdict in it (`ChannelFits`), which is why the read loop
  never blocks and nobody is forgotten. A collector holds the first fragments of its
  message in order (`Starts`); while the wire has no flaw, the fragments on it are one
  whole message after the other, and go on where the one collector in use ends
  (`Chained`, `Collected`), so indications are whole though all share transaction 0.
* *USSD* (`MBIMDeviceProofs`). `OwnOnly` says of the request that holds the mutex: when
  it began in a quiet moment, the session, what is on its way and what lies in the three
  channels are its own. Those who do not hold it are not under way (`OneUnderway`), so
  no other request can bring in an event until it lets go.
* *AT manager* (`ATManagerProofs`). No line says which command it answers. `Alone` holds
  of a command that began with nothing of another under way: what is still to come is
  its own, with one line of data before OK and a prompt only while it waits for one
  (`Promised`), and the module owes nothing else (`StillOwed`). `NotYetOvertaken` ties
  overtaking to the two selects of `runLoop`, `Watched` the time-outs to the watchdog's
  count.
* *Short messages over AT* (`ATManagerProofs`). As long as nothing overlapped, one reader
  or the check is under way, and what was announced lies where it was announced and in the
  selected storage when it is read (`AloneFits`). Whatever overlaps, the parts that wait
  under a key are parts of one text, each once and not all of them (`Waiting`). That a
  complete set in order is the whole text is `SortedIsWhole`: as many parts as numbers and
  none twice, so every number is there, which is a fact about injections of a finite set;
  and what rises from place to place and meets every number is the numbers themselves
  (`RisingIsNumbering`), since a least place where it is not would contradict both. The
  least place comes from the well-founded inclusion of finite sets (`Least`), so no
  induction over the parts is needed.
* *Readings* (`MBIMDeviceProofs`). The network is numbered by its changes and only goes on;
  a snapshot shows what it once was (`SnapshotFits`). What `GetServingSystem` has in hand
  when it looks for the operator is no older than the request, or a request failed, or the
  snapshot is young and does not contradict itself (`Trusted`); an operator that is read
  again is that of the registration it is told with (`ServingFits`). A signal without a
  strength needs a failure (`SignalFits`).
* *Backends* (`MBIMDeviceProofs`). While it is known what was asked for last, that is in
  force in the form of the backend (`SelectionFits`). What a caller has read from the module
  is still at its place until somebody frees that (`ReadFits`); a caller that deletes everything has emptied the storage it comes from (`ClearFits`); the
  radio is as the last caller said (`RadioFits`).
* *Log* (`DesktopProofs`). `LogFollowed` holds of states between two broadcasts only
  because of what is under way: whom a line still has to go to is among the clients
  (`Writing`), nobody who was passed over had room (`Passed`), and what a client has
  of a logger is older than what is due to it (`Older`), which makes the order
  inductive. `Channels` says that the channels of clients are open.
* *Saved files* (`DesktopProofs`). `Ahead` orders the versions acknowledged, on the
  disk and asked for, and ties the temporary file to the place of the update. For the
  configuration: the caller with the lock is the one about devices at work (`Locked`);
  unless `overlap` is set, one is at work at a time (`Alone`), what it has in hand is
  what its call makes of the present file, and later what the temporary name holds
  (`Written`); the two names never stand for one inode. A call makes at most one text
  of a text (`MutatedOnce`), so the file after a rename is the one intended. The
  theorem covers any contents of the device list, since `Mutate` is used only through
  that lemma.
* *Calls* (`DesktopProofs`). A workflow that handles the active call has claimed it, and
  one about to hand over a recorder has started it (`Workflows`); since only the last
  call that was noticed is active (`ActiveFits`), a claim excludes a second workflow for
  good and a recorder is attached to the active call or to none. Unless calls overlapped,
  what the callbacks, the poller and the active call know of a number is that of the last
  call (`Informed`), so the number that was looked at is the one answered (`Careful`).
* *USB bridge* (`DesktopProofs`). Connections are numbered, so that what is of an earlier
  one can be told apart: who may still open a handle (`MayOpen`) saw the connection that
  is there, since when the cache has been empty or of this module (`CacheFits`) and no
  other handle of it was in use (`HandlesFit`). A module that has not loaded the enabled
  profile has not been away since the switch, so a command that finds it gone means the
  restart (`RestartFits`). The proof showed two exceptions of the property to be
  needless: a handle is lost only with `stale`, and a told restart needs no such case.
* *Short messages over USB* (`DesktopProofs`). As long as nothing was disturbed there is
  one sequence at work, and who is about to delete has selected the module's storage
  (`Undisturbed`); only a handle that works reaches the module (`OpenIsPlugged`). A poll
  holds messages between its listings and their merging alone (`EmptyHanded`), so each
  message is in the module, in a poll, or in what is shown, whatever fails.
* *Notes and prompt* (`DesktopProofs`). As long as no probe ran into a request, what the
  one that has the lock (`OneRequest`) has read is what is there (`Undistracted`), and it
  chooses the least index of those it may take; that there is a least one is the lemma
  `Least`, from the well-founded inclusion of finite sets. For the prompt the order of
  three versions is inductive: what a caller asked for, what was converted, what the
  module holds (`Converted`), and, while nobody replaces it, what the copy is taken for
  (`Copied`).
* *USB AT channel* (`DesktopProofs`). `Coming` is what was read, what is in the pipe and
  what the module still owes, in this order. While nothing was owed at a send, all of it
  is of the last command (`OwnComes`). CONNECT comes once, so what follows it is the whole
  of an upload's answer (`NoneFollows`); `DownloadFits` says how far a file is, however
  its pieces were split or joined.
* *Forwarding and recordings* (`DesktopProofs`). What is left to send is the end of the
  plan (`Underway`), in whose order the voice message comes after its text and its upload
  (`TasksShape`). For the sound no induction over samples is needed: that the detector finds
  the voice, and the last quiet window before it, are statements on the least index with a
  property (`LastQuietIs`, `FirstCount`, by `Least`), and the cut is before it
  (`CutBeforeVoice`). They cover recordings and prompts of any length.

Only model-checked:

* liveness (`RequestsServed`, `BarrierEnters`, `ParkedWake`), which needs fairness and
  `ENABLED`, and so is out of the prover's reach;
* `CardRead` (`SIMRecords`): what decoders that walk through bytes, and folds over bits, give
  back for every name. It needs induction over data, which no installed prover can do. No
  module declares a `RECURSIVE` operator.

Every other property of a passing run is stated by a theorem.

## 5. What is left

* *Liveness.* Weak fairness of `runLoop` and `readLoop` would let one ask that every
  AT command ends; the watchdog (`SilenceNoticed`) is checked as safety.
* *Hazards without a property*, beyond those `PROJECT.json` lists: a barrier has no
  watchdog, so a switch that never comes back from the card keeps the blocked classes
  out (`internal/apduarbiter/arbiter.go:240`); two `notifyWriteDone` may close one
  channel twice (`internal/esim/manager.go:931`); `cachedOverview` hands out a
  pointer that a patch changes in place (`:1314`); an unreadable list of profiles is
  cached as an empty one (`:1595`); an accepted command whose answer is lost voids
  nothing (`:2170`); `CheckAllSMS` deletes what arrived while it listed
  (`internal/modem/manager.go:1951`). Nothing in the repository promises the
  opposite of these.

## 6. Not modelled, and why

* `smscodec` but for its reassembler, most of `at_parse`, `pki`, `euicc_info`, the
  encoders of `pkg/mbim`: pure functions whose detail is in tables and layouts of
  bytes, with no state and nothing to interleave.
* Of the eSIM manager: the LPA protocol itself (`third_party`), the contents of
  profiles and the order of the AID scan.
* Of the modem manager: opening and probing of serial ports, settings that are
  one command each. Of the backends: data connections and single requests that are
  translated one to one.
* Of the desktop application: HTTP routing and the layout of answers, traffic
  counters, the history of calls that is shown, checks of the settings, playing of
  prompts on the host.
* The web page, `mavo`, `packaging` and `third_party`: other programs, user
  interface, input and output.

`components` in `PROJECT.json` gives the status of each.

## 7. Running

    tlc -config MCAPDUArbiter.cfg MCAPDUArbiter
    tlc -config MCESIMOverview.cfg MCESIMOverview
    tlapm APDUArbiterProofs.tla
    tlapm --stretch 0.5 DesktopProofs.tla

The runs on the arbiter, the gate and the operation lock take seconds to a minute,
the caches (2.2 million states), `MCESIMOperations` (0.7 million), `MCDevice` (0.9
million) and `MCDesktop` (0.5 million) one to three minutes each with two workers.
