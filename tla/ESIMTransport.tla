--------------------------- MODULE ESIMTransport ---------------------------
(***************************************************************************)
(* APDUs of the eSIM manager over QMI or MBIM: internal/esim/              *)
(* qmi_channel.go, qmi_uim_transport.go, mbim_apdu_transport.go and the    *)
(* apduCoordinator they share.  A call takes a lease of the device from    *)
(* the arbiter, a mutex per logical channel, and then talks to the card.   *)
(* Of the arbiter the model knows what APDUAccess promises: APDUArbiter is *)
(* proved to keep that promise.                                            *)
(***************************************************************************)
EXTENDS Naturals, FiniteSets

CONSTANTS
  Client,       \* QMIChannel values, each with the eSIM application it selects
  AkaCaller,          \* callers that authenticate on the basic channel
  None,         \* no application on a channel
  MaxChannel,   \* the logical channels of the card are 1..MaxChannel
  MaxStarts,    \* bound on the drivers opened by Start
  MaxFaults     \* bound on forced releases, lost answers and card resets

\* What the constants are: who authenticates is no QMIChannel, and None is nobody.
ASSUME TransportAssumption ==
  /\ Client \cap AkaCaller = {} /\ None \notin Client
  /\ MaxChannel \in Nat /\ MaxFaults \in Nat

Caller == Client \cup AkaCaller
Channel == 0..MaxChannel

VARIABLES
  mode,      \* "QMI" or "MBIM"
  arbiter,   \* whether the coordinator has an arbiter
  holders,   \* the leases the arbiter granted and did not take back
  sessions,  \* channels in the session registry
  chanMu,    \* generation of the map of mutexes
  held,      \* the mutexes held, <<generation, channel>>
  uim,       \* the driver of the transport: its number, 0 for nil
  starts,    \* number of the newest driver
  closed,    \* drivers that were closed
  stop,      \* where Stop is: "no", "sessions", "mutexes", "driver"
  card,      \* [1..MaxChannel -> the client whose application is selected]
  faults,    \* faults that happened
  call,      \* [Caller -> the call in progress]
  opened,    \* [Client -> QMIChannel.channel while opened, else 0]
  life       \* [Client -> how far its user is: new, open, reset,
             \* over, or after a failed call failed, doubtful]

transportVars == <<mode, arbiter, holders, sessions, chanMu, held, uim, starts,
                   closed, stop, card, faults, call, opened, life>>

NoCall == [op |-> "none", at |-> "idle", channel |-> 0, gen |-> 0, uim |-> 0]

\* TransmitEUICCAPDU asks for the scope of one channel; over MBIM, and for
\* everything else, a lease excludes all others.
Lease(c) == [by |-> c, channel |-> call[c].channel,
             shared |-> mode = "QMI" /\ call[c].op = "transmit"]
AnyLease == [by : Caller, channel : Channel, shared : BOOLEAN]

Conflicts ==
  {p \in AnyLease \X AnyLease :
     p[1] # p[2] /\ ~(p[1].shared /\ p[2].shared /\ p[1].channel # p[2].channel)}

Access == INSTANCE APDUAccess WITH Client <- AnyLease, Conflict <- Conflicts

\* Open and Close use the mutex of channel 0.
MutexOf(c) == IF call[c].op = "transmit" THEN call[c].channel ELSE 0
Mutex(c) == <<call[c].gen, MutexOf(c)>>

TransportInit ==
  /\ mode \in {"QMI", "MBIM"} /\ arbiter \in BOOLEAN
  /\ Access!Init
  /\ sessions = {} /\ chanMu = 0 /\ held = {}
  /\ starts = IF mode = "MBIM" THEN 1 ELSE 0   \* MBIM has a driver of its own
  /\ uim = starts /\ closed = {} /\ stop = "no"
  /\ card = [ch \in 1..MaxChannel |-> None]
  /\ faults = 0
  /\ call = [c \in Caller |-> NoCall]
  /\ opened = [c \in Client |-> 0] /\ life = [c \in Client |-> "new"]

Moves(c, at) == call' = [call EXCEPT ![c].at = at]

\* The call returns: the deferred unlock and Lease.Release run.
Return(c) ==
  /\ call' = [call EXCEPT ![c] = NoCall]
  /\ held' = held \ (IF call[c].at = "card" THEN {Mutex(c)} ELSE {})
  /\ IF Lease(c) \in holders THEN Access!Leave(Lease(c)) ELSE UNCHANGED holders

\* After a failed close SwitchProfile closes a second time, everyone else gives
\* up; nobody uses the channel again.
FailedLife(c) ==
  IF call[c].op = "close" /\ life[c] # "failed" THEN "failed" ELSE "doubtful"

\* The registry of logical channels.
bindSession(ch) == sessions' = sessions \cup {ch}
takeSession(ch) == sessions' = sessions \ {ch}
releaseAllSessions == sessions' = {}

BeginCall(c, op, ch) ==
  /\ call[c] = NoCall
  /\ call' = [call EXCEPT ![c] = [NoCall EXCEPT !.op = op, !.channel = ch,
                                                !.at = "lease"]]

\* QMIChannel.OpenLogicalChannel.
Open(c) ==
  /\ life[c] = "new"
  /\ BeginCall(c, "open", 0)
  /\ UNCHANGED <<mode, arbiter, holders, sessions, chanMu, held, uim, starts,
                 closed, stop, card, faults, opened, life>>

\* QMIChannel.Transmit returns an error unless it is opened.
Transmit(c) ==
  /\ life[c] \in {"open", "reset", "over"} /\ opened[c] # 0
  /\ BeginCall(c, "transmit", opened[c])
  /\ UNCHANGED <<mode, arbiter, holders, sessions, chanMu, held, uim, starts,
                 closed, stop, card, faults, opened, life>>

\* QMIChannel.CloseLogicalChannel: the session leaves the registry first.
Close(c) ==
  /\ life[c] \in {"open", "failed", "reset"} /\ opened[c] # 0
  /\ BeginCall(c, "close", opened[c])
  /\ takeSession(opened[c])
  /\ UNCHANGED <<mode, arbiter, holders, chanMu, held, uim, starts, closed, stop,
                 card, faults, opened, life>>

\* An authentication on the basic channel, of a caller outside the eSIM manager.
Authenticate(c) ==
  /\ BeginCall(c, "aka", 0)
  /\ UNCHANGED <<mode, arbiter, holders, sessions, chanMu, held, uim, starts,
                 closed, stop, card, faults, opened, life>>

\* Mutant: the lease is taken without waiting for its turn.
AcquireAtOnce(c) ==
  /\ call[c].at = "lease"
  /\ holders' = IF arbiter THEN holders \cup {Lease(c)} ELSE holders
  /\ Moves(c, "fetch")
  /\ UNCHANGED <<mode, arbiter, sessions, chanMu, held, uim, starts, closed, stop,
                 card, faults, opened, life>>

\* acquireLease: without an arbiter there is no lease and no error.
Acquire(c) ==
  /\ call[c].at = "lease"
  /\ IF arbiter THEN Access!Join(Lease(c)) ELSE UNCHANGED holders
  /\ Moves(c, "fetch")
  /\ UNCHANGED <<mode, arbiter, sessions, chanMu, held, uim, starts, closed, stop,
                 card, faults, opened, life>>

\* The context of the wait ends.
AcquireTimeout(c) ==
  /\ call[c].at = "lease" /\ arbiter
  /\ faults < MaxFaults /\ faults' = faults + 1
  /\ Return(c)
  /\ IF c \in Client /\ call[c].op # "transmit"
     THEN life' = [life EXCEPT ![c] = FailedLife(c)] ELSE UNCHANGED life
  /\ UNCHANGED <<mode, arbiter, sessions, chanMu, uim, starts, closed, stop, card,
                 opened>>

\* getOrCreateChanMu.
FetchMutex(c) ==
  /\ call[c].at = "fetch"
  /\ call' = [call EXCEPT ![c].gen = chanMu, ![c].at = "mutex"]
  /\ UNCHANGED <<mode, arbiter, holders, sessions, chanMu, held, uim, starts,
                 closed, stop, card, faults, opened, life>>

\* Mutant: the mutex is fetched and not locked.
EnterUnlocked(c) ==
  /\ call[c].at = "mutex" /\ uim # 0
  /\ call' = [call EXCEPT ![c].at = "card", ![c].uim = uim]
  /\ UNCHANGED <<mode, arbiter, holders, sessions, chanMu, held, uim, starts, closed,
                 stop, card, faults, opened, life>>

\* Lock and getUIM.  Nothing but Stop changes uim, and Stop ignores the mutex:
\* what comes between the two could as well come before the Lock.
Enter(c) ==
  /\ call[c].at = "mutex" /\ uim # 0
  /\ Mutex(c) \notin held
  /\ held' = held \cup {Mutex(c)}
  /\ call' = [call EXCEPT ![c].at = "card", ![c].uim = uim]
  /\ UNCHANGED <<mode, arbiter, holders, sessions, chanMu, uim, starts, closed,
                 stop, card, faults, opened, life>>

\* ErrQMIUIMNotAvailable.
EnterUnavailable(c) ==
  /\ call[c].at = "mutex" /\ uim = 0
  /\ Mutex(c) \notin held
  /\ Return(c)
  /\ IF c \in Client /\ call[c].op # "transmit"
     THEN life' = [life EXCEPT ![c] = FailedLife(c)] ELSE UNCHANGED life
  /\ UNCHANGED <<mode, arbiter, sessions, chanMu, uim, starts, closed, stop, card,
                 faults, opened>>

\* The card selects the application on a free channel; the channel is bound and
\* QMIChannel remembers it.
OpenSucceeds(c) ==
  /\ call[c].at = "card" /\ call[c].op = "open" /\ call[c].uim \notin closed
  /\ \E ch \in 1..MaxChannel :
       /\ card[ch] = None
       /\ card' = [card EXCEPT ![ch] = c]
       /\ bindSession(ch)
       /\ opened' = [opened EXCEPT ![c] = ch]
  /\ life' = [life EXCEPT ![c] = "open"]
  /\ Return(c)
  /\ UNCHANGED <<mode, arbiter, chanMu, uim, starts, closed, stop, faults>>

TransmitReturns(c) ==
  /\ call[c].at = "card" /\ call[c].op \in {"transmit", "aka"}
  /\ Return(c)
  /\ UNCHANGED <<mode, arbiter, sessions, chanMu, uim, starts, closed, stop, card,
                 faults, opened, life>>

\* Mutant: opened is not reset.
CloseKeepsOpened(c) ==
  /\ call[c].at = "card" /\ call[c].op = "close" /\ call[c].uim \notin closed
  /\ card' = [card EXCEPT ![call[c].channel] = None]
  /\ life' = [life EXCEPT ![c] = IF @ = "open" THEN "over" ELSE "doubtful"]
  /\ Return(c)
  /\ UNCHANGED <<mode, arbiter, sessions, chanMu, uim, starts, closed, stop, faults,
                 opened>>

CloseSucceeds(c) ==
  /\ call[c].at = "card" /\ call[c].op = "close" /\ call[c].uim \notin closed
  /\ card' = [card EXCEPT ![call[c].channel] = None]
  /\ opened' = [opened EXCEPT ![c] = 0]
  /\ life' = [life EXCEPT ![c] = IF @ = "open" THEN "over" ELSE "doubtful"]
  /\ Return(c)
  /\ UNCHANGED <<mode, arbiter, sessions, chanMu, uim, starts, closed, stop, faults>>

\* Mutant: the error of a close is dropped.
CallFailsUnseen(c) ==
  /\ call[c].at = "card" /\ call[c].op = "close"
  /\ faults < MaxFaults /\ faults' = faults + 1
  /\ opened' = [opened EXCEPT ![c] = 0] /\ life' = [life EXCEPT ![c] = "over"]
  /\ Return(c)
  /\ UNCHANGED <<mode, arbiter, sessions, chanMu, uim, starts, closed, stop, card>>

\* Open or Close fails; the card may have executed it all the same.  After a
\* failed Close the QMIChannel still holds itself for opened.
CallFails(c) ==
  /\ call[c].at = "card" /\ call[c].op \in {"open", "close"}
  /\ faults < MaxFaults /\ faults' = faults + 1
  /\ \/ UNCHANGED card
     \/ call[c].op = "close" /\ card' = [card EXCEPT ![call[c].channel] = None]
     \/ /\ call[c].op = "open"
        /\ \E ch \in 1..MaxChannel :
             card[ch] = None /\ card' = [card EXCEPT ![ch] = c]
  /\ life' = [life EXCEPT ![c] = FailedLife(c)]
  /\ Return(c)
  /\ UNCHANGED <<mode, arbiter, sessions, chanMu, uim, starts, closed, stop, opened>>

\* The watchdog of the arbiter, or CloseDevice, takes a lease back.
ForcedRelease(c) ==
  /\ Lease(c) \in holders
  /\ faults < MaxFaults /\ faults' = faults + 1
  /\ Access!Leave(Lease(c))
  /\ UNCHANGED <<mode, arbiter, sessions, chanMu, held, uim, starts, closed, stop,
                 card, call, opened, life>>

\* setArbiter: the registry starts anew.
SetArbiter ==
  /\ ~arbiter /\ arbiter' = TRUE
  /\ releaseAllSessions
  /\ UNCHANGED <<mode, holders, chanMu, held, uim, starts, closed, stop, card,
                 faults, call, opened, life>>

\* Stop: the registry, the mutexes, the driver, then its Close.
StopSessions ==
  /\ mode = "QMI" /\ stop = "no" /\ uim # 0
  /\ releaseAllSessions /\ stop' = "sessions"
  /\ UNCHANGED <<mode, arbiter, holders, chanMu, held, uim, starts, closed, card,
                 faults, call, opened, life>>

StopMutexes ==
  /\ stop = "sessions"
  /\ chanMu' = chanMu + 1 /\ stop' = "mutexes"
  /\ UNCHANGED <<mode, arbiter, holders, sessions, held, uim, starts, closed, card,
                 faults, call, opened, life>>

StopDriver ==
  /\ stop = "mutexes"
  /\ uim' = 0 /\ stop' = "driver"
  /\ UNCHANGED <<mode, arbiter, holders, sessions, chanMu, held, starts, closed,
                 card, faults, call, opened, life>>

StopClosed ==
  /\ stop = "driver"
  /\ closed' = closed \cup {starts} /\ stop' = "no"
  /\ UNCHANGED <<mode, arbiter, holders, sessions, chanMu, held, uim, starts, card,
                 faults, call, opened, life>>

Start ==
  /\ uim = 0 /\ stop = "no" /\ starts < MaxStarts
  /\ starts' = starts + 1 /\ uim' = starts + 1
  /\ UNCHANGED <<mode, arbiter, holders, sessions, chanMu, held, closed, stop, card,
                 faults, call, opened, life>>

\* The card resets itself, as it does after EnableProfile: its channels are gone.
CardReset ==
  /\ faults < MaxFaults /\ faults' = faults + 1
  /\ \E ch \in 1..MaxChannel : card[ch] # None
  /\ card' = [ch \in 1..MaxChannel |-> None]
  /\ life' = [c \in Client |-> IF life[c] = "open" THEN "reset" ELSE life[c]]
  /\ UNCHANGED <<mode, arbiter, holders, sessions, chanMu, held, uim, starts, closed,
                 stop, call, opened>>

TransportNext ==
  \/ \E c \in Client :
       \/ Open(c) \/ Transmit(c) \/ Close(c)
       \/ OpenSucceeds(c) \/ CloseSucceeds(c) \/ CallFails(c)
  \/ \E c \in AkaCaller : Authenticate(c)
  \/ \E c \in Caller :
       \/ Acquire(c) \/ AcquireTimeout(c) \/ FetchMutex(c) \/ Enter(c)
       \/ EnterUnavailable(c) \/ TransmitReturns(c) \/ ForcedRelease(c)
  \/ SetArbiter \/ StopSessions \/ StopMutexes \/ StopDriver \/ StopClosed
  \/ Start \/ CardReset

TransportSpec == TransportInit /\ [][TransportNext]_transportVars

----------------------------------------------------------------------------
InCard(c) == call[c].at = "card"

\* What the lease and the mutexes are for.  Two calls that exclude each other
\* are in the card of one driver at once only after a lease was taken back or
\* with no arbiter; and two on one channel only if Stop, besides, replaced the
\* mutexes between them, which it does while the driver is still in use.
OverlapNeedsTwoFailures ==
  \A a, b \in Caller :
    a # b /\ InCard(a) /\ InCard(b) /\ call[a].uim = call[b].uim =>
      /\ \/ <<Lease(a), Lease(b)>> \notin Conflicts
         \/ Lease(a) \notin holders \/ Lease(b) \notin holders
      /\ MutexOf(a) = MutexOf(b) => call[a].gen # call[b].gen

\* An APDU, and a close, reach the application that this QMIChannel selected,
\* whatever leases were lost and drivers replaced meanwhile, unless the card was
\* reset, or a close failed, under someone's open channel: that one may close or
\* use a channel that is by then another's.
ReachesOwnApplication ==
  \A c \in Client :
    InCard(c) /\ call[c].op \in {"transmit", "close"} =>
      \/ card[call[c].channel] = c
      \/ \E d \in Client : life[d] \in {"reset", "failed", "doubtful"}

\* The few logical channels of the card are given back: who is over without a
\* failed call leaves none open, and who has one open closes that one.
ChannelsReturned ==
  \A ch \in DOMAIN card :
    card[ch] \in Client =>
      \/ life[card[ch]] = "open" /\ opened[card[ch]] = ch
      \/ life[card[ch]] \in {"failed", "doubtful"}

\* Of the arbiter the transport takes nothing but what APDUAccess allows: whatever is
\* opened, times out or is taken back, a lease is granted beside no other that
\* conflicts with it, and a call that returns gives up its own lease and no other.
LeasesAsPromised == Access!Spec
============================================================================
