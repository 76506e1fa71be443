------------------------ MODULE ESIMTransportProofs ------------------------
(***************************************************************************)
(* Proofs about the ways to the card: about ESIMTransport, for any         *)
(* clients, callers that authenticate, channels, drivers and faults, over  *)
(* QMI and over MBIM; and about ATCard, for any users, channels, records   *)
(* of EF_DIR and failures.                                                 *)
(***************************************************************************)
EXTENDS ESIMTransport, ATCard, TLAPS

Calls == [op : {"none", "open", "transmit", "close", "aka"},
          at : {"idle", "lease", "fetch", "mutex", "card"},
          channel : Channel, gen : Nat, uim : Nat]

TypeOK ==
  /\ mode \in {"QMI", "MBIM"} /\ arbiter \in BOOLEAN
  /\ holders \subseteq AnyLease
  /\ sessions \subseteq 1..MaxChannel
  /\ chanMu \in Nat
  /\ held \subseteq Nat \X Channel
  /\ starts \in Nat /\ uim \in 0..starts /\ closed \subseteq 0..starts
  /\ stop \in {"no", "sessions", "mutexes", "driver"}
  /\ card \in [1..MaxChannel -> Client \cup {None}]
  /\ faults \in 0..MaxFaults
  /\ call \in [Caller -> Calls]
  /\ opened \in [Client -> Channel]
  /\ life \in [Client -> {"new", "open", "reset", "over", "failed", "doubtful"}]

----------------------------------------------------------------------------
(* The inductive invariant.                                                *)

\* What the arbiter promises: no two leases that it granted exclude each other.
Compatible == \A k, l \in holders : <<k, l>> \notin Conflicts

\* Who is in the card holds a mutex, and no two hold the same one.
Exclusive ==
  /\ \A a \in Caller : InCard(a) => Mutex(a) \in held
  /\ \A a, b \in Caller : a # b /\ InCard(a) /\ InCard(b) => Mutex(a) # Mutex(b)

\* A call fits the life of the QMIChannel that makes it: it opens one that is new, and
\* transmits on, or closes, the channel that was opened; a QMIChannel whose use has not
\* begun, or is over, has none.
CallFits(c) ==
  /\ call[c].op = "open" => life[c] = "new"
  /\ call[c].op = "transmit" => life[c] \in {"open", "reset"}
  /\ call[c].op = "close" => life[c] \in {"open", "failed", "reset"}
  /\ call[c].op \in {"transmit", "close"} => call[c].channel = opened[c] /\ opened[c] # 0
  /\ life[c] \in {"new", "over"} => opened[c] = 0
  /\ life[c] = "open" => opened[c] # 0

\* Only the eSIM manager opens, transmits on and closes logical channels.
AkaApart == \A c \in AkaCaller : call[c].op \in {"none", "aka"}

\* While nothing happened to anyone's channel, an open channel is its owner's.
Clean == \A d \in Client : life[d] \notin {"reset", "failed", "doubtful"}
OwnChannels == Clean => \A c \in Client : life[c] = "open" => card[opened[c]] = c

TransportInv ==
  /\ TypeOK /\ Compatible /\ Exclusive
  /\ \A c \in Client : CallFits(c)
  /\ AkaApart /\ OwnChannels /\ ChannelsReturned

(* What a step does to the calls and the leases.                           *)

\* The call of c is over and takes nothing of the others with it.
Returned(c) ==
  /\ call' = [call EXCEPT ![c] = NoCall]
  /\ held' = held \ (IF InCard(c) THEN {Mutex(c)} ELSE {})
  /\ holders' \subseteq holders

LEMMA ReturnTakesOwn ==
  ASSUME NEW c \in Caller, Return(c)
  PROVE  Returned(c)
BY DEF Return, Returned, InCard, Access!Leave

LEMMA CallTyped ==
  ASSUME TypeOK, NEW c \in Caller
  PROVE  /\ call[c] \in Calls /\ NoCall \in Calls
         /\ Mutex(c) \in Nat \X Channel /\ Lease(c) \in AnyLease
BY TransportAssumption DEF TypeOK, Calls, NoCall, Mutex, MutexOf, Lease, AnyLease, Channel

LEMMA BeginGives ==
  ASSUME TypeOK, NEW c \in Caller, NEW ch \in Channel,
         NEW op \in {"open", "transmit", "close", "aka"}, BeginCall(c, op, ch)
  PROVE  /\ call' \in [Caller -> Calls]
         /\ \A p \in Caller : p # c => call'[p] = call[p]
         /\ call'[c].op = op /\ call'[c].channel = ch /\ call'[c].at = "lease"
<1> DEFINE new == [NoCall EXCEPT !.op = op, !.channel = ch, !.at = "lease"]
<1>1. new \in Calls /\ new.op = op /\ new.channel = ch /\ new.at = "lease"
  BY CallTyped DEF NoCall, Calls
<1>2. call' = [call EXCEPT ![c] = new]
  BY DEF BeginCall
<1> HIDE DEF new
<1>3. QED
  BY <1>1, <1>2 DEF TypeOK

\* The call of c goes on.
LEMMA MoveGives ==
  ASSUME TypeOK, NEW c \in Caller, Acquire(c) \/ FetchMutex(c) \/ Enter(c)
  PROVE  /\ call' \in [Caller -> Calls]
         /\ \A p \in Caller : p # c => call'[p] = call[p]
         /\ call'[c].op = call[c].op /\ call'[c].channel = call[c].channel
         /\ IF Enter(c) THEN call'[c].gen = call[c].gen ELSE ~InCard(c)'
<1>1. call[c] \in Calls /\ chanMu \in Nat /\ uim \in Nat
  BY DEF TypeOK
<1>2. CASE Acquire(c)
  BY <1>1, <1>2 DEF TypeOK, Calls, Acquire, Moves, InCard, Enter
<1>3. CASE FetchMutex(c)
  BY <1>1, <1>3 DEF TypeOK, Calls, FetchMutex, InCard, Enter
<1>4. CASE Enter(c)
  BY <1>1, <1>4 DEF TypeOK, Calls, Enter
<1>5. QED
  BY <1>2, <1>3, <1>4

LEMMA TypesKept ==
  ASSUME TypeOK, \A c \in Client : CallFits(c), [TransportNext]_transportVars
  PROVE  TypeOK'
<1>1. ASSUME NEW c \in Client, Open(c) PROVE TypeOK'
  <2>1. c \in Caller /\ 0 \in Channel
    BY TransportAssumption DEF TypeOK, Channel, Caller
  <2>2. call' \in [Caller -> Calls]
    BY <1>1, <2>1, BeginGives DEF Open
  <2>3. QED
    BY <1>1, <2>2 DEF TypeOK, Open
<1>2. ASSUME NEW c \in Client, Transmit(c) PROVE TypeOK'
  <2>1. c \in Caller /\ opened[c] \in Channel
    BY TransportAssumption DEF TypeOK, Channel, Caller
  <2>2. call' \in [Caller -> Calls]
    BY <1>2, <2>1, BeginGives DEF Transmit
  <2>3. QED
    BY <1>2, <2>2 DEF TypeOK, Transmit
<1>3. ASSUME NEW c \in Client, Close(c) PROVE TypeOK'
  <2>1. c \in Caller /\ opened[c] \in Channel
    BY TransportAssumption DEF TypeOK, Channel, Caller
  <2>2. call' \in [Caller -> Calls]
    BY <1>3, <2>1, BeginGives DEF Close
  <2>3. QED
    BY <1>3, <2>2 DEF TypeOK, Close, takeSession
<1>4. ASSUME NEW c \in Client, OpenSucceeds(c) PROVE TypeOK'
  <2>1. Returned(c) /\ NoCall \in Calls
    BY <1>4, ReturnTakesOwn, CallTyped DEF Caller, OpenSucceeds
  <2>2. QED
    BY <1>4, <2>1, TransportAssumption DEF TypeOK, Returned, Caller, OpenSucceeds, bindSession,
       Channel
<1>5. ASSUME NEW c \in Client, CloseSucceeds(c) PROVE TypeOK'
  <2>1. Returned(c) /\ NoCall \in Calls
    BY <1>5, ReturnTakesOwn, CallTyped DEF Caller, CloseSucceeds
  <2>2. card' \in [1..MaxChannel -> Client \cup {None}] /\ opened' \in [Client -> Channel]
    <3>1. 0 \in Channel
      BY TransportAssumption DEF Channel
    <3>2. /\ card' = [card EXCEPT ![call[c].channel] = None]
          /\ opened' = [opened EXCEPT ![c] = 0]
      BY <1>5 DEF CloseSucceeds
    <3>3. QED
      BY <3>1, <3>2 DEF TypeOK
  <2>3. QED
    BY <1>5, <2>1, <2>2 DEF TypeOK, Returned, Caller, CloseSucceeds
<1>6. ASSUME NEW c \in Client, CallFails(c) PROVE TypeOK'
  <2>1. Returned(c) /\ NoCall \in Calls
    BY <1>6, ReturnTakesOwn, CallTyped DEF Caller, CallFails
  <2>2. QED
    BY <1>6, <2>1, TransportAssumption DEF TypeOK, Returned, Caller, CallFails, FailedLife
<1>7. ASSUME NEW c \in AkaCaller, Authenticate(c) PROVE TypeOK'
  <2>1. c \in Caller /\ 0 \in Channel
    BY TransportAssumption DEF TypeOK, Channel, Caller
  <2>2. call' \in [Caller -> Calls]
    BY <1>7, <2>1, BeginGives DEF Authenticate
  <2>3. QED
    BY <1>7, <2>2 DEF TypeOK, Authenticate
<1>8. ASSUME NEW c \in Caller, Acquire(c) PROVE TypeOK'
  <2>1. call' \in [Caller -> Calls] /\ Lease(c) \in AnyLease
    BY <1>8, MoveGives, CallTyped
  <2>2. QED
    BY <1>8, <2>1 DEF TypeOK, Acquire, Access!Join
<1>9. ASSUME NEW c \in Caller, AcquireTimeout(c) PROVE TypeOK'
  <2>1. Returned(c) /\ NoCall \in Calls
    BY <1>9, ReturnTakesOwn, CallTyped DEF Caller, AcquireTimeout
  <2>2. QED
    BY <1>9, <2>1, TransportAssumption DEF TypeOK, Returned, Caller, AcquireTimeout, FailedLife
<1>10. ASSUME NEW c \in Caller, FetchMutex(c) PROVE TypeOK'
  <2>1. call' \in [Caller -> Calls]
    BY <1>10, MoveGives
  <2>2. QED
    BY <1>10, <2>1 DEF TypeOK, FetchMutex
<1>11. ASSUME NEW c \in Caller, Enter(c) PROVE TypeOK'
  <2>1. call' \in [Caller -> Calls] /\ Mutex(c) \in Nat \X Channel
    BY <1>11, MoveGives, CallTyped
  <2>2. QED
    BY <1>11, <2>1 DEF TypeOK, Enter
<1>12. ASSUME NEW c \in Caller, EnterUnavailable(c) PROVE TypeOK'
  <2>1. Returned(c) /\ NoCall \in Calls
    BY <1>12, ReturnTakesOwn, CallTyped DEF Caller, EnterUnavailable
  <2>2. QED
    BY <1>12, <2>1 DEF TypeOK, Returned, Caller, EnterUnavailable, FailedLife
<1>13. ASSUME NEW c \in Caller, TransmitReturns(c) PROVE TypeOK'
  <2>1. Returned(c) /\ NoCall \in Calls
    BY <1>13, ReturnTakesOwn, CallTyped DEF Caller, TransmitReturns
  <2>2. QED
    BY <1>13, <2>1 DEF TypeOK, Returned, Caller, TransmitReturns
<1>14. ASSUME NEW c \in Caller, ForcedRelease(c) PROVE TypeOK'
  BY <1>14, TransportAssumption DEF TypeOK, ForcedRelease, Access!Leave
<1>15. ASSUME SetArbiter PROVE TypeOK'
  BY <1>15, TransportAssumption DEF TypeOK, Calls, SetArbiter, releaseAllSessions
<1>16. ASSUME StopSessions PROVE TypeOK'
  BY <1>16, TransportAssumption DEF TypeOK, Calls, StopSessions, releaseAllSessions
<1>17. ASSUME StopMutexes PROVE TypeOK'
  BY <1>17, TransportAssumption DEF TypeOK, Calls, StopMutexes
<1>18. ASSUME StopDriver PROVE TypeOK'
  BY <1>18, TransportAssumption DEF TypeOK, Calls, StopDriver
<1>19. ASSUME StopClosed PROVE TypeOK'
  BY <1>19, TransportAssumption DEF TypeOK, Calls, StopClosed
<1>20. ASSUME Start PROVE TypeOK'
  BY <1>20, TransportAssumption DEF TypeOK, Calls, Start
<1>21. ASSUME CardReset PROVE TypeOK'
  BY <1>21, TransportAssumption DEF TypeOK, Calls, CardReset
<1>22. CASE UNCHANGED transportVars
  BY <1>22 DEF TypeOK, transportVars
<1>23. QED
  BY <1>1, <1>2, <1>3, <1>4, <1>5, <1>6, <1>7, <1>8, <1>9, <1>10, <1>11, <1>12, <1>13, <1>14,
     <1>15, <1>16, <1>17, <1>18, <1>19, <1>20, <1>21, <1>22 DEF TransportNext

----------------------------------------------------------------------------
(* The leases and the mutexes.                                             *)

LEMMA ConflictsSymmetric ==
  ASSUME NEW k \in AnyLease, NEW l \in AnyLease, <<k, l>> \in Conflicts
  PROVE  <<l, k>> \in Conflicts
BY DEF Conflicts

LEMMA CompatibleKept ==
  ASSUME TypeOK, Compatible, [TransportNext]_transportVars
  PROVE  Compatible'
<1>1. CASE holders' \subseteq holders
  BY <1>1 DEF Compatible, Conflicts, AnyLease
<1>2. ASSUME NEW c \in Caller, Acquire(c) PROVE Compatible'
  <2>1. CASE arbiter
    <3> DEFINE new == Lease(c)
    <3>1. /\ \A l \in holders : <<new, l>> \notin Conflicts
          /\ holders' = holders \cup {new} /\ mode' = mode
      BY <1>2, <2>1 DEF Acquire, Access!Join
    <3>2. new \in AnyLease /\ holders \subseteq AnyLease
      BY CallTyped DEF TypeOK
    <3>3. Conflicts' = Conflicts
      BY DEF Conflicts, AnyLease
    <3>4. \A l \in holders : <<l, new>> \notin Conflicts
      BY <3>1, <3>2, ConflictsSymmetric
    <3>5. <<new, new>> \notin Conflicts
      BY DEF Conflicts
    <3> HIDE DEF new
    <3>6. QED
      BY <3>1, <3>3, <3>4, <3>5 DEF Compatible
  <2>2. CASE ~arbiter
    BY <1>1, <1>2, <2>2 DEF Acquire
  <2>3. QED
    BY <2>1, <2>2
<1>3. ASSUME NEW c \in Caller, Return(c) PROVE Compatible'
  BY <1>1, <1>3, ReturnTakesOwn DEF Returned
<1>4. \/ \E c \in Caller : Acquire(c) \/ Return(c)
      \/ holders' \subseteq holders
  BY DEF TransportNext, Caller, Open, Transmit, Close, OpenSucceeds, CloseSucceeds, CallFails,
     Authenticate, AcquireTimeout, FetchMutex, Enter, EnterUnavailable, TransmitReturns,
     ForcedRelease, Access!Leave, SetArbiter, StopSessions, StopMutexes, StopDriver,
     StopClosed, Start, CardReset, transportVars
<1>5. QED
  BY <1>1, <1>2, <1>3, <1>4

\* In a step that brings nobody into the card the others keep their mutexes.
LEMMA ExclusiveStays ==
  ASSUME Exclusive,
         \A a \in Caller : InCard(a)' => InCard(a) /\ Mutex(a)' = Mutex(a) /\ Mutex(a) \in held'
  PROVE  Exclusive'
BY DEF Exclusive

LEMMA ReturnExclusive ==
  ASSUME TypeOK, Exclusive, NEW c \in Caller, Returned(c)
  PROVE  Exclusive'
<1>1. ASSUME NEW a \in Caller, InCard(a)'
      PROVE  InCard(a) /\ Mutex(a)' = Mutex(a) /\ Mutex(a) \in held'
  <2>1. a # c /\ call'[a] = call[a]
    BY <1>1 DEF TypeOK, Returned, InCard, NoCall
  <2>2. InCard(a) /\ Mutex(a)' = Mutex(a)
    BY <1>1, <2>1 DEF InCard, Mutex, MutexOf
  <2>3. QED
    BY <2>1, <2>2 DEF Exclusive, Returned
<1>2. QED
  BY <1>1, ExclusiveStays

LEMMA BeginExclusive ==
  ASSUME TypeOK, Exclusive, NEW c \in Caller, NEW op, NEW ch, BeginCall(c, op, ch), held' = held
  PROVE  Exclusive'
<1>1. ASSUME NEW a \in Caller, InCard(a)'
      PROVE  InCard(a) /\ Mutex(a)' = Mutex(a) /\ Mutex(a) \in held'
  <2>1. a # c /\ call'[a] = call[a]
    BY <1>1 DEF TypeOK, BeginCall, InCard, NoCall
  <2>2. QED
    BY <1>1, <2>1 DEF Exclusive, InCard, Mutex, MutexOf
<1>2. QED
  BY <1>1, ExclusiveStays

LEMMA ExclusiveKept ==
  ASSUME TypeOK, Exclusive, [TransportNext]_transportVars
  PROVE  Exclusive'
<1>1. ASSUME NEW c \in Caller, Return(c) PROVE Exclusive'
  BY <1>1, ReturnTakesOwn, ReturnExclusive
<1>2. ASSUME NEW c \in Caller, NEW op, NEW ch, BeginCall(c, op, ch), held' = held
      PROVE  Exclusive'
  BY <1>2, BeginExclusive
<1>3. CASE call' = call /\ held' = held
  BY <1>3, ExclusiveStays DEF Exclusive, InCard, Mutex, MutexOf
<1>4. ASSUME NEW c \in Caller, Acquire(c) \/ FetchMutex(c) PROVE Exclusive'
  <2>1. held' = held /\ ~InCard(c)'
    BY <1>4, MoveGives DEF Acquire, FetchMutex, Enter
  <2>2. \A p \in Caller : p # c => call'[p] = call[p]
    BY <1>4, MoveGives
  <2>3. ASSUME NEW a \in Caller, InCard(a)'
        PROVE  InCard(a) /\ Mutex(a)' = Mutex(a) /\ Mutex(a) \in held'
    BY <2>1, <2>2, <2>3 DEF Exclusive, InCard, Mutex, MutexOf
  <2>4. QED
    BY <2>3, ExclusiveStays
<1>5. ASSUME NEW c \in Caller, Enter(c) PROVE Exclusive'
  <2>1. \A p \in Caller : p # c => call'[p] = call[p]
    BY <1>5, MoveGives
  <2>2. ~InCard(c) /\ Mutex(c) \notin held /\ held' = held \cup {Mutex(c)}
    BY <1>5 DEF Enter, InCard
  <2>3. Mutex(c)' = Mutex(c)
    BY <1>5, MoveGives DEF Mutex, MutexOf
  <2>4. \A a \in Caller : a # c /\ InCard(a)' => InCard(a) /\ Mutex(a)' = Mutex(a)
    BY <2>1 DEF InCard, Mutex, MutexOf
  <2>5. QED
    BY <2>2, <2>3, <2>4 DEF Exclusive
<1>6. \/ \E c \in Caller : Return(c) \/ Acquire(c) \/ FetchMutex(c) \/ Enter(c)
      \/ \E c \in Caller : \E op, ch : BeginCall(c, op, ch) /\ held' = held
      \/ call' = call /\ held' = held
  <2>1. ASSUME NEW c \in Client, Open(c) \/ Transmit(c) \/ Close(c)
        PROVE  \E op, ch : BeginCall(c, op, ch) /\ held' = held
    BY <2>1 DEF Open, Transmit, Close
  <2>2. ASSUME NEW c \in AkaCaller, Authenticate(c)
        PROVE  \E op, ch : BeginCall(c, op, ch) /\ held' = held
    BY <2>2 DEF Authenticate
  <2>3. ASSUME NEW c \in Client, OpenSucceeds(c) \/ CloseSucceeds(c) \/ CallFails(c)
        PROVE  Return(c)
    BY <2>3 DEF OpenSucceeds, CloseSucceeds, CallFails
  <2>4. ASSUME NEW c \in Caller,
               AcquireTimeout(c) \/ EnterUnavailable(c) \/ TransmitReturns(c)
        PROVE  Return(c)
    BY <2>4 DEF AcquireTimeout, EnterUnavailable, TransmitReturns
  <2>5. ASSUME \/ \E c \in Caller : ForcedRelease(c)
               \/ SetArbiter \/ StopSessions \/ StopMutexes \/ StopDriver \/ StopClosed
               \/ Start \/ CardReset \/ UNCHANGED transportVars
        PROVE  call' = call /\ held' = held
    BY <2>5 DEF ForcedRelease, SetArbiter, StopSessions, StopMutexes, StopDriver, StopClosed,
       Start, CardReset, transportVars
  <2>6. QED
    BY <2>1, <2>2, <2>3, <2>4, <2>5 DEF TransportNext, Caller
<1>7. QED
  BY <1>1, <1>2, <1>3, <1>4, <1>5, <1>6

----------------------------------------------------------------------------
(* The channels and the lives of those who use them.                       *)

LEMMA FailureIsSeen ==
  ASSUME NEW c \in Client
  PROVE  FailedLife(c) \in {"failed", "doubtful"}
BY DEF FailedLife

\* Who touches the channels, or the life of a QMIChannel.
LEMMA WhoTouchesChannels ==
  ASSUME [TransportNext]_transportVars
  PROVE  \/ \E c \in Client : OpenSucceeds(c) \/ CloseSucceeds(c) \/ CallFails(c)
         \/ CardReset
         \/ \E c \in Client : /\ AcquireTimeout(c) \/ EnterUnavailable(c)
                              /\ life' = [life EXCEPT ![c] = FailedLife(c)]
                              /\ UNCHANGED <<card, opened>>
         \/ UNCHANGED <<card, life, opened>>
<1>1. ASSUME NEW c \in Caller, AcquireTimeout(c) \/ EnterUnavailable(c)
      PROVE  /\ UNCHANGED <<card, opened>>
             /\ \/ c \in Client /\ life' = [life EXCEPT ![c] = FailedLife(c)]
                \/ UNCHANGED life
  BY <1>1 DEF AcquireTimeout, EnterUnavailable
<1>2. ASSUME NEW c \in Client, Open(c) \/ Transmit(c) \/ Close(c)
      PROVE  UNCHANGED <<card, life, opened>>
  BY <1>2 DEF Open, Transmit, Close
<1>3. ASSUME NEW c \in Caller, \/ Acquire(c) \/ FetchMutex(c) \/ Enter(c)
                               \/ TransmitReturns(c) \/ ForcedRelease(c)
      PROVE  UNCHANGED <<card, life, opened>>
  BY <1>3 DEF Acquire, FetchMutex, Enter, TransmitReturns, ForcedRelease
<1>4. ASSUME \/ \E c \in AkaCaller : Authenticate(c)
             \/ SetArbiter \/ StopSessions \/ StopMutexes \/ StopDriver \/ StopClosed
             \/ Start \/ UNCHANGED transportVars
      PROVE  UNCHANGED <<card, life, opened>>
  BY <1>4 DEF Authenticate, SetArbiter, StopSessions, StopMutexes, StopDriver, StopClosed,
     Start, transportVars
<1>5. QED
  BY <1>1, <1>2, <1>3, <1>4 DEF TransportNext

LEMMA FitsStays ==
  ASSUME NEW c \in Client, CallFits(c), opened'[c] = opened[c], life'[c] = life[c],
         \/ call'[c].op = "none"
         \/ call'[c].op = call[c].op /\ call'[c].channel = call[c].channel
  PROVE  CallFits(c)'
BY DEF CallFits

\* A call that returns leaves the QMIChannel in one of four lives.
LEMMA ReturnFits ==
  ASSUME TypeOK, NEW c \in Client, Returned(c),
         \/ life'[c] \in {"failed", "doubtful"}
         \/ life'[c] = "open" /\ opened'[c] # 0
         \/ life'[c] = "over" /\ opened'[c] = 0
  PROVE  CallFits(c)'
<1>1. call'[c] = NoCall
  BY DEF TypeOK, Caller, Returned
<1>2. QED
  BY <1>1 DEF CallFits, NoCall

LEMMA CallsKept ==
  ASSUME TypeOK, \A c \in Client : CallFits(c), [TransportNext]_transportVars
  PROVE  \A c \in Client : CallFits(c)'
<1> SUFFICES ASSUME NEW p \in Client PROVE CallFits(p)'
  OBVIOUS
<1>0. /\ CallFits(p) /\ p \in Caller /\ p \notin AkaCaller
      /\ 0 \in Channel /\ opened[p] \in Channel
  BY TransportAssumption DEF TypeOK, Caller, Channel
<1>1. ASSUME NEW c \in Client, Open(c) \/ Transmit(c) \/ Close(c) PROVE CallFits(p)'
  <2>1. CallFits(c) /\ opened' = opened /\ life' = life /\ c \in Caller /\ opened[c] \in Channel
    BY <1>1 DEF TypeOK, Caller, Open, Transmit, Close
  <2>2. PICK op \in {"open", "transmit", "close"}, ch \in Channel :
          /\ BeginCall(c, op, ch)
          /\ op = "open" => life[c] = "new"
          /\ op = "transmit" => life[c] \in {"open", "reset", "over"}
          /\ op = "close" => life[c] \in {"open", "failed", "reset"}
          /\ op # "open" => ch = opened[c] /\ opened[c] # 0
    BY <1>0, <1>1, <2>1 DEF Open, Transmit, Close
  <2>3. /\ \A a \in Caller : a # c => call'[a] = call[a]
        /\ call'[c].op = op /\ call'[c].channel = ch
    BY <2>1, <2>2, BeginGives
  <2>4. CASE p = c
    BY <2>1, <2>2, <2>3, <2>4 DEF CallFits
  <2>5. CASE p # c
    BY <1>0, <2>1, <2>3, <2>5, FitsStays
  <2>6. QED
    BY <2>4, <2>5
<1>2. ASSUME NEW c \in Caller, Returned(c), p # c, life'[p] = life[p], opened'[p] = opened[p]
      PROVE  CallFits(p)'
  <2>1. call'[p] = call[p]
    BY <1>0, <1>2 DEF TypeOK, Returned
  <2>2. QED
    BY <1>0, <1>2, <2>1, FitsStays
<1>3. ASSUME NEW c \in Client, OpenSucceeds(c) PROVE CallFits(p)'
  <2>1. Returned(c) /\ c \in Caller
    BY <1>3, ReturnTakesOwn DEF Caller, OpenSucceeds
  <2>2. PICK ch \in 1..MaxChannel : opened' = [opened EXCEPT ![c] = ch]
    BY <1>3 DEF OpenSucceeds
  <2>3. life' = [life EXCEPT ![c] = "open"]
    BY <1>3 DEF OpenSucceeds
  <2>4. CASE p = c
    <3>1. life'[c] = "open" /\ opened'[c] # 0
      BY <2>2, <2>3 DEF TypeOK
    <3>2. QED
      BY <2>1, <2>4, <3>1, ReturnFits
  <2>5. CASE p # c
    BY <1>2, <2>1, <2>2, <2>3, <2>5 DEF TypeOK
  <2>6. QED
    BY <2>4, <2>5
<1>4. ASSUME NEW c \in Client, CloseSucceeds(c) PROVE CallFits(p)'
  <2>1. Returned(c) /\ c \in Caller
    BY <1>4, ReturnTakesOwn DEF Caller, CloseSucceeds
  <2>2. /\ opened' = [opened EXCEPT ![c] = 0]
        /\ life' = [life EXCEPT ![c] = IF @ = "open" THEN "over" ELSE "doubtful"]
    BY <1>4 DEF CloseSucceeds
  <2>3. CASE p = c
    <3>1. opened'[c] = 0 /\ life'[c] \in {"over", "doubtful"}
      BY <2>2 DEF TypeOK
    <3>2. QED
      BY <2>1, <2>3, <3>1, ReturnFits
  <2>4. CASE p # c
    BY <1>2, <2>1, <2>2, <2>4 DEF TypeOK
  <2>5. QED
    BY <2>3, <2>4
<1>5. ASSUME NEW c \in Caller,
             (c \in Client /\ CallFails(c)) \/ AcquireTimeout(c) \/ EnterUnavailable(c)
      PROVE  CallFits(p)'
  <2>1. Returned(c)
    BY <1>5, ReturnTakesOwn DEF CallFails, AcquireTimeout, EnterUnavailable
  <2>2. /\ opened' = opened
        /\ \/ c \in Client /\ life' = [life EXCEPT ![c] = FailedLife(c)]
           \/ life' = life
    BY <1>5 DEF CallFails, AcquireTimeout, EnterUnavailable
  <2>3. CASE life' = life
    <3>1. call'[p].op = "none" \/ call'[p] = call[p]
      BY <1>0, <2>1 DEF TypeOK, Returned, NoCall
    <3>2. QED
      BY <1>0, <2>2, <2>3, <3>1, FitsStays
  <2>4. CASE c \in Client /\ life' = [life EXCEPT ![c] = FailedLife(c)]
    <3>1. CASE p = c
      <4>1. life'[c] \in {"failed", "doubtful"}
        BY <2>4, FailureIsSeen DEF TypeOK
      <4>2. QED
        BY <2>1, <3>1, <4>1, ReturnFits
    <3>2. CASE p # c
      BY <1>2, <2>1, <2>2, <2>4, <3>2 DEF TypeOK
    <3>3. QED
      BY <3>1, <3>2
  <2>5. QED
    BY <2>2, <2>3, <2>4
<1>6. ASSUME NEW c \in Caller, TransmitReturns(c) PROVE CallFits(p)'
  <2>1. Returned(c) /\ life' = life /\ opened' = opened
    BY <1>6, ReturnTakesOwn DEF TransmitReturns
  <2>2. call'[p].op = "none" \/ call'[p] = call[p]
    BY <1>0, <2>1 DEF TypeOK, Returned, NoCall
  <2>3. QED
    BY <1>0, <2>1, <2>2, FitsStays
<1>7. ASSUME NEW c \in Caller, Acquire(c) \/ FetchMutex(c) \/ Enter(c) PROVE CallFits(p)'
  <2>1. life' = life /\ opened' = opened
    BY <1>7 DEF Acquire, FetchMutex, Enter
  <2>2. call'[p].op = call[p].op /\ call'[p].channel = call[p].channel
    BY <1>0, <1>7, MoveGives
  <2>3. QED
    BY <1>0, <2>1, <2>2, FitsStays
<1>8. ASSUME NEW c \in AkaCaller, Authenticate(c) PROVE CallFits(p)'
  <2>1. life' = life /\ opened' = opened /\ call'[p] = call[p]
    BY <1>0, <1>8 DEF TypeOK, Authenticate, BeginCall
  <2>2. QED
    BY <1>0, <2>1, FitsStays
<1>9. CASE CardReset
  <2>1. /\ call' = call /\ opened' = opened
        /\ life'[p] = IF life[p] = "open" THEN "reset" ELSE life[p]
    BY <1>9 DEF CardReset
  <2>2. QED
    BY <1>0, <2>1 DEF CallFits
<1>10. CASE UNCHANGED <<call, life, opened>>
  BY <1>0, <1>10, FitsStays
<1>11. ASSUME \/ \E c \in Caller : ForcedRelease(c)
              \/ SetArbiter \/ StopSessions \/ StopMutexes \/ StopDriver \/ StopClosed
              \/ Start \/ UNCHANGED transportVars
       PROVE  UNCHANGED <<call, life, opened>>
  BY <1>11 DEF ForcedRelease, SetArbiter, StopSessions, StopMutexes, StopDriver, StopClosed,
     Start, transportVars
<1>12. QED
  BY <1>1, <1>3, <1>4, <1>5, <1>6, <1>7, <1>8, <1>9, <1>10, <1>11 DEF TransportNext, Caller

LEMMA AkaKept ==
  ASSUME TypeOK, AkaApart, [TransportNext]_transportVars
  PROVE  AkaApart'
<1> SUFFICES ASSUME NEW a \in AkaCaller PROVE call'[a].op \in {"none", "aka"}
  BY DEF AkaApart
<1>0. a \in Caller /\ a \notin Client /\ call[a].op \in {"none", "aka"}
  BY TransportAssumption DEF Caller, AkaApart
<1>1. ASSUME NEW c \in Client, Open(c) \/ Transmit(c) \/ Close(c) PROVE call'[a] = call[a]
  BY <1>0, <1>1 DEF TypeOK, Caller, Open, Transmit, Close, BeginCall
<1>2. ASSUME NEW c \in AkaCaller, Authenticate(c) PROVE call'[a].op \in {"none", "aka"}
  <2>1. c \in Caller /\ 0 \in Channel /\ BeginCall(c, "aka", 0)
    BY <1>2, TransportAssumption DEF Caller, Channel, Authenticate
  <2>2. call'[c].op = "aka" /\ (a # c => call'[a] = call[a])
    BY <1>0, <2>1, BeginGives
  <2>3. QED
    BY <1>0, <2>2
<1>3. ASSUME NEW c \in Caller, Return(c) PROVE call'[a].op \in {"none", "aka"}
  BY <1>0, <1>3 DEF TypeOK, Return, NoCall
<1>4. ASSUME NEW c \in Caller, Acquire(c) \/ FetchMutex(c) \/ Enter(c)
      PROVE  call'[a].op \in {"none", "aka"}
  BY <1>0, <1>4, MoveGives
<1>5. ASSUME \/ \E c \in Caller : ForcedRelease(c)
             \/ SetArbiter \/ StopSessions \/ StopMutexes \/ StopDriver \/ StopClosed
             \/ Start \/ CardReset \/ UNCHANGED transportVars
      PROVE  call' = call
  BY <1>5 DEF ForcedRelease, SetArbiter, StopSessions, StopMutexes, StopDriver, StopClosed,
     Start, CardReset, transportVars
<1>6. ASSUME NEW c \in Client, OpenSucceeds(c) \/ CloseSucceeds(c) \/ CallFails(c)
      PROVE  Return(c)
  BY <1>6 DEF OpenSucceeds, CloseSucceeds, CallFails
<1>7. ASSUME NEW c \in Caller, AcquireTimeout(c) \/ EnterUnavailable(c) \/ TransmitReturns(c)
      PROVE  Return(c)
  BY <1>7 DEF AcquireTimeout, EnterUnavailable, TransmitReturns
<1>8. QED
  BY <1>0, <1>1, <1>2, <1>3, <1>4, <1>5, <1>6, <1>7 DEF TransportNext, Caller

\* Both invariants of the channels stand on what a QMIChannel remembers.
LEMMA ChannelsKept ==
  ASSUME TransportInv, [TransportNext]_transportVars
  PROVE  ChannelsReturned'
<1>0. TypeOK /\ ChannelsReturned /\ None \notin Client
  BY TransportAssumption DEF TransportInv
<1> SUFFICES ASSUME NEW ch \in 1..MaxChannel, card'[ch] \in Client
             PROVE  \/ life'[card'[ch]] = "open" /\ opened'[card'[ch]] = ch
                    \/ life'[card'[ch]] \in {"failed", "doubtful"}
  <2>1. TypeOK'
    BY TypesKept DEF TransportInv
  <2>2. QED
    BY <2>1 DEF ChannelsReturned, TypeOK
<1>1. card[ch] \in Client =>
        \/ life[card[ch]] = "open" /\ opened[card[ch]] = ch
        \/ life[card[ch]] \in {"failed", "doubtful"}
  BY <1>0 DEF TypeOK, ChannelsReturned
<1>2. ASSUME NEW c \in Client, OpenSucceeds(c)
      PROVE  \/ life'[card'[ch]] = "open" /\ opened'[card'[ch]] = ch
             \/ life'[card'[ch]] \in {"failed", "doubtful"}
  <2>1. life[c] = "new"
    BY <1>2 DEF TransportInv, CallFits, OpenSucceeds
  <2>2. PICK k \in 1..MaxChannel : /\ card' = [card EXCEPT ![k] = c]
                                   /\ opened' = [opened EXCEPT ![c] = k]
    BY <1>2 DEF OpenSucceeds
  <2>3. life' = [life EXCEPT ![c] = "open"]
    BY <1>2 DEF OpenSucceeds
  <2>4. card[ch] # c
    BY <1>1, <2>1
  <2>5. QED
    BY <1>0, <1>1, <2>2, <2>3, <2>4 DEF TypeOK
<1>3. ASSUME NEW c \in Client, CloseSucceeds(c)
      PROVE  \/ life'[card'[ch]] = "open" /\ opened'[card'[ch]] = ch
             \/ life'[card'[ch]] \in {"failed", "doubtful"}
  <2>1. call[c].channel = opened[c]
    BY <1>3 DEF TransportInv, CallFits, CloseSucceeds
  <2>2. /\ card' = [card EXCEPT ![opened[c]] = None]
        /\ opened' = [opened EXCEPT ![c] = 0]
        /\ life' = [life EXCEPT ![c] = IF life[c] = "open" THEN "over" ELSE "doubtful"]
    BY <1>3, <2>1 DEF CloseSucceeds
  <2>3. card'[ch] = card[ch] /\ opened[c] # ch
    BY <1>0, <2>2 DEF TypeOK
  <2>4. QED
    BY <1>0, <1>1, <2>2, <2>3 DEF TypeOK
<1>4. ASSUME NEW c \in Client, CallFails(c)
      PROVE  \/ life'[card'[ch]] = "open" /\ opened'[card'[ch]] = ch
             \/ life'[card'[ch]] \in {"failed", "doubtful"}
  <2>1. life' = [life EXCEPT ![c] = FailedLife(c)] /\ opened' = opened
    BY <1>4 DEF CallFails
  <2>2. card'[ch] \in {card[ch], c}
    BY <1>0, <1>4 DEF TypeOK, CallFails
  <2>3. QED
    BY <1>0, <1>1, <2>1, <2>2, FailureIsSeen DEF TypeOK
<1>5. CASE CardReset
  BY <1>0, <1>5 DEF CardReset
<1>6. ASSUME NEW c \in Client, life' = [life EXCEPT ![c] = FailedLife(c)],
             UNCHANGED <<card, opened>>
      PROVE  \/ life'[card'[ch]] = "open" /\ opened'[card'[ch]] = ch
             \/ life'[card'[ch]] \in {"failed", "doubtful"}
  BY <1>0, <1>1, <1>6, FailureIsSeen DEF TypeOK
<1>7. CASE UNCHANGED <<card, life, opened>>
  BY <1>1, <1>7
<1>8. QED
  BY <1>2, <1>3, <1>4, <1>5, <1>6, <1>7, WhoTouchesChannels

LEMMA OwnChannelsKept ==
  ASSUME TransportInv, [TransportNext]_transportVars
  PROVE  OwnChannels'
<1>0. TypeOK /\ OwnChannels /\ None \notin Client
  BY TransportAssumption DEF TransportInv
<1> SUFFICES ASSUME Clean', NEW p \in Client, life'[p] = "open"
             PROVE  card'[opened'[p]] = p
  BY DEF OwnChannels
<1>1. ASSUME NEW c \in Client, life' = [life EXCEPT ![c] = FailedLife(c)] PROVE FALSE
  BY <1>0, <1>1, FailureIsSeen DEF TypeOK, Clean
<1>2. ASSUME NEW c \in Client, OpenSucceeds(c) PROVE card'[opened'[p]] = p
  <2>1. PICK k \in 1..MaxChannel : /\ card[k] = None /\ card' = [card EXCEPT ![k] = c]
                                   /\ opened' = [opened EXCEPT ![c] = k]
    BY <1>2 DEF OpenSucceeds
  <2>2. life' = [life EXCEPT ![c] = "open"] /\ life[c] = "new"
    BY <1>2 DEF OpenSucceeds, TransportInv, CallFits
  <2>3. Clean
    BY <1>0, <2>2 DEF TypeOK, Clean
  <2>4. CASE p = c
    BY <1>0, <2>1, <2>4 DEF TypeOK
  <2>5. CASE p # c
    <3>1. card[opened[p]] = p
      BY <1>0, <2>2, <2>3, <2>5 DEF TypeOK, OwnChannels
    <3>2. opened'[p] = opened[p] /\ opened[p] # k
      BY <1>0, <2>1, <2>5, <3>1 DEF TypeOK
    <3>3. QED
      BY <2>1, <3>1, <3>2
  <2>6. QED
    BY <2>4, <2>5
<1>3. ASSUME NEW c \in Client, CloseSucceeds(c) PROVE card'[opened'[p]] = p
  <2>1. /\ card' = [card EXCEPT ![opened[c]] = None]
        /\ opened' = [opened EXCEPT ![c] = 0]
        /\ life' = [life EXCEPT ![c] = IF life[c] = "open" THEN "over" ELSE "doubtful"]
    BY <1>3 DEF TransportInv, CallFits, CloseSucceeds
  <2>2. life[c] = "open" /\ p # c /\ life[p] = "open" /\ Clean
    BY <1>0, <2>1 DEF TypeOK, Clean
  <2>3. card[opened[c]] = c /\ card[opened[p]] = p
    BY <1>0, <2>2 DEF OwnChannels
  <2>4. opened'[p] = opened[p] /\ opened[p] # opened[c]
    BY <1>0, <2>1, <2>2, <2>3 DEF TypeOK
  <2>5. QED
    BY <2>1, <2>3, <2>4
<1>4. ASSUME NEW c \in Client, CallFails(c) PROVE FALSE
  BY <1>1, <1>4 DEF CallFails
<1>5. CASE CardReset
  BY <1>0, <1>5 DEF CardReset, TypeOK, Clean
<1>6. CASE UNCHANGED <<card, life, opened>>
  BY <1>0, <1>6 DEF OwnChannels, Clean
<1>7. QED
  BY <1>1, <1>2, <1>3, <1>4, <1>5, <1>6, WhoTouchesChannels

----------------------------------------------------------------------------
(* The invariant and what follows from it.                                 *)

LEMMA InitTransport ==
  ASSUME TransportInit
  PROVE  TransportInv
<1>1. \A c \in Caller : call[c] = NoCall
  BY DEF TransportInit
<1>2. TypeOK
  <2>1. NoCall \in Calls /\ 0 \in Channel
    BY TransportAssumption DEF NoCall, Calls, Channel
  <2>2. QED
    BY <2>1, TransportAssumption DEF TransportInit, Access!Init, TypeOK, Channel
<1>3. Compatible /\ Exclusive
  BY <1>1 DEF TransportInit, Access!Init, Compatible, Exclusive, InCard, NoCall
<1>4. \A c \in Client : CallFits(c)
  BY <1>1 DEF TransportInit, CallFits, NoCall, Caller
<1>5. AkaApart
  BY <1>1 DEF AkaApart, NoCall, Caller
<1>6. OwnChannels /\ ChannelsReturned
  BY TransportAssumption DEF TransportInit, OwnChannels, ChannelsReturned
<1>7. QED
  BY <1>2, <1>3, <1>4, <1>5, <1>6 DEF TransportInv

LEMMA InvariantKept ==
  TransportSpec => []TransportInv
<1>1. TransportInit => TransportInv
  BY InitTransport
<1>2. TransportInv /\ [TransportNext]_transportVars => TransportInv'
  <2> SUFFICES ASSUME TransportInv, [TransportNext]_transportVars PROVE TransportInv'
    OBVIOUS
  <2>1. TypeOK'
    BY TypesKept DEF TransportInv
  <2>2. Compatible' /\ Exclusive'
    BY CompatibleKept, ExclusiveKept DEF TransportInv
  <2>3. (\A c \in Client : CallFits(c))' /\ AkaApart'
    BY CallsKept, AkaKept DEF TransportInv
  <2>4. OwnChannels' /\ ChannelsReturned'
    BY OwnChannelsKept, ChannelsKept
  <2>5. QED
    BY <2>1, <2>2, <2>3, <2>4 DEF TransportInv
<1>3. QED
  BY <1>1, <1>2, PTL DEF TransportSpec

\* The variables keep their types.
THEOREM TypeCorrect ==
  TransportSpec => []TypeOK
<1>1. TransportInv => TypeOK
  BY DEF TransportInv
<1>2. QED
  BY <1>1, InvariantKept, PTL

\* The transport implements the access to the device that the arbiter promises: every step
\* is one of APDUAccess on the leases, or leaves them alone (acquireLease, Lease.Release).
THEOREM TransportImplementsAccess ==
  TransportSpec => LeasesAsPromised
<1>1. TransportInit => Access!Init
  BY DEF TransportInit
<1>2. TransportInv /\ [TransportNext]_transportVars => [Access!Next]_holders
  <2> SUFFICES ASSUME TransportInv, [TransportNext]_transportVars, holders' # holders
               PROVE  Access!Next
    OBVIOUS
  <2>1. PICK c \in Caller : Access!Join(Lease(c)) \/ Access!Leave(Lease(c))
    BY DEF TransportNext, Caller, Open, Transmit, Close, OpenSucceeds, CloseSucceeds, CallFails,
       Authenticate, Acquire, AcquireTimeout, FetchMutex, Enter, EnterUnavailable, Return,
       TransmitReturns, ForcedRelease, SetArbiter, StopSessions, StopMutexes, StopDriver,
       StopClosed, Start, CardReset, transportVars
  <2>2. Lease(c) \in AnyLease
    BY CallTyped DEF TransportInv
  <2>3. QED
    BY <2>1, <2>2 DEF Access!Next
<1>3. QED
  BY <1>1, <1>2, InvariantKept, PTL DEF TransportSpec, LeasesAsPromised, Access!Spec

\* Two calls that exclude each other are in the card of one driver at once only if the
\* lease of one was taken back or nobody arbitrates, and on one channel only if Stop
\* replaced the mutexes between them: each of the two locks alone keeps them apart.
THEOREM TwoFailuresForOverlap ==
  TransportSpec => []OverlapNeedsTwoFailures
<1>1. TransportInv => OverlapNeedsTwoFailures
  <2> SUFFICES ASSUME TransportInv, NEW a \in Caller, NEW b \in Caller, a # b,
                      InCard(a), InCard(b)
               PROVE  /\ \/ <<Lease(a), Lease(b)>> \notin Conflicts
                         \/ Lease(a) \notin holders \/ Lease(b) \notin holders
                      /\ MutexOf(a) = MutexOf(b) => call[a].gen # call[b].gen
    BY DEF OverlapNeedsTwoFailures
  <2>1. Mutex(a) # Mutex(b)
    BY DEF TransportInv, Exclusive
  <2>2. QED
    BY <2>1 DEF TransportInv, Compatible, Mutex
<1>2. QED
  BY <1>1, InvariantKept, PTL

\* Until the card was reset, or a call failed, under someone's open channel, each APDU and
\* each close is on a channel where the card selected the application of that QMIChannel,
\* however leases are lost and drivers replaced.
THEOREM OwnApplicationReached ==
  TransportSpec => []ReachesOwnApplication
<1>1. TransportInv => ReachesOwnApplication
  <2> SUFFICES ASSUME TransportInv, NEW c \in Client, call[c].op \in {"transmit", "close"},
                      Clean
               PROVE  card[call[c].channel] = c
    BY DEF ReachesOwnApplication, Clean
  <2>1. CallFits(c) /\ life[c] = "open"
    BY DEF TransportInv, CallFits, Clean
  <2>2. QED
    BY <2>1 DEF TransportInv, CallFits, OwnChannels
<1>2. QED
  BY <1>1, InvariantKept, PTL

\* Whoever is done with its channel, and had no failure on the way, left none selected on
\* the card, and one that is open is the one that its QMIChannel will close.
THEOREM ChannelsGivenBack ==
  TransportSpec => []ChannelsReturned
<1>1. TransportInv => ChannelsReturned
  BY DEF TransportInv
<1>2. QED
  BY <1>1, InvariantKept, PTL

-----------------------------------------------------------------------------
(***************************************************************************)
(* ATCard.                                                                 *)
(***************************************************************************)

\* The variables keep their types.
Command == [do : {"idle", "mf", "dir", "record", "clear", "open", "transmit", "close"},
            n : Nat, leased : BOOLEAN]
CardTypeOK ==
  /\ lease \in User \cup {NoUser}
  /\ openFor \in [LogicalChannel -> User \cup {NoUser}]
  /\ apduSessions \in [LogicalChannel -> User \cup {NoUser}]
  /\ pc \in [User -> Command] /\ channel \in [User -> LogicalChannel \cup {0}]
  /\ aids \in [User -> SUBSET STRING]
  /\ resolved \in [User -> {NoUser, "usim", "failed"}]
  /\ reached \in [User -> User \cup {NoUser}]
  /\ quiet \in [User -> BOOLEAN] /\ cleared \in BOOLEAN
  /\ failures \in Nat

\* A command fits what its user has: it transmits on the channel that is its own, and the
\* others are of users without a channel.
CommandFits(u) ==
  /\ pc[u].do = "transmit" => channel[u] # 0 /\ pc[u].n = channel[u]
  /\ pc[u].do \in {"mf", "dir", "record", "clear", "open", "close"} => channel[u] = 0
  /\ pc[u].do \in {"clear", "close"} => pc[u].n \in LogicalChannel
  /\ pc[u].do \in {"mf", "dir", "record"} => u \in Auth
  /\ pc[u].do = "record" => pc[u].n \in Records

\* A session is that of the user that has its channel; the channel of a user, or one it is
\* about to close, is open for it unless somebody's was cleared.
SessionFits ==
  \A ch \in LogicalChannel :
    apduSessions[ch] # NoUser => apduSessions[ch] \in User /\ channel[apduSessions[ch]] = ch
ChannelOwned(u) ==
  /\ channel[u] # 0 /\ ~cleared => openFor[channel[u]] = u
  /\ pc[u].do = "close" /\ ~cleared => openFor[pc[u].n] = u

\* Who reads EF_DIR undisturbed has it selected, and has found what its records say so far.
ReadSoFar(u) ==
  quiet[u] /\ pc[u].do = "record" =>
    selected = "dir" /\ \A r \in 1..pc[u].n - 1 : Directory[r] \in aids[u]

CardInv ==
  /\ CardTypeOK /\ SessionFits
  /\ \A u \in User : CommandFits(u) /\ ChannelOwned(u) /\ ReadSoFar(u)
  /\ SessionsApart

-----------------------------------------------------------------------------
\* The steps of a user from one record, or one channel, to the next.
LEMMA NextSteps ==
  ASSUME CardInv, NEW u \in User
  PROVE  /\ \A ends \in BOOLEAN : pc[u].do = "record" /\ NextRecord(u, ends) =>
              \/ /\ Do(u, "idle", 0) /\ resolved' = [resolved EXCEPT ![u] = MatchingAID(u)]
                 /\ ends \/ pc[u].n = Len(Directory)
              \/ /\ Do(u, "record", pc[u].n + 1) /\ pc[u].n + 1 \in Records
                 /\ UNCHANGED resolved
         /\ pc[u].do = "clear" /\ NextChannel(u) =>
              \/ Do(u, "idle", 0) /\ UNCHANGED apduSessions
              \/ /\ Do(u, "clear", pc[u].n + 1) /\ pc[u].n + 1 \in LogicalChannel
                 /\ apduSessions' = [apduSessions EXCEPT ![pc[u].n + 1] = NoUser]
         /\ MatchingAID(u) \in {"usim", "failed"}
<1>1. /\ Records = 1..Len(Directory) /\ Len(Directory) \in Nat
      /\ MaxLogicalChannel \in Nat
  BY CardAssumption DEF Records
<1>2. /\ pc[u].do = "record" => pc[u].n \in Records
      /\ pc[u].do = "clear" => pc[u].n \in LogicalChannel
  BY DEF CardInv, CommandFits
<1>3. ASSUME NEW ends \in BOOLEAN, pc[u].do = "record", NextRecord(u, ends)
      PROVE  \/ /\ Do(u, "idle", 0) /\ resolved' = [resolved EXCEPT ![u] = MatchingAID(u)]
                /\ ends \/ pc[u].n = Len(Directory)
             \/ /\ Do(u, "record", pc[u].n + 1) /\ pc[u].n + 1 \in Records
                /\ UNCHANGED resolved
  BY <1>1, <1>2, <1>3 DEF NextRecord
<1>4. ASSUME pc[u].do = "clear", NextChannel(u)
      PROVE  \/ Do(u, "idle", 0) /\ UNCHANGED apduSessions
             \/ /\ Do(u, "clear", pc[u].n + 1) /\ pc[u].n + 1 \in LogicalChannel
                /\ apduSessions' = [apduSessions EXCEPT ![pc[u].n + 1] = NoUser]
  BY <1>1, <1>2, <1>4 DEF NextChannel, LogicalChannel
<1>5. QED
  BY <1>3, <1>4 DEF MatchingAID

\* What a failure leaves its user with.
LEMMA FailureSteps ==
  ASSUME CardInv, NEW u \in User, Fails(u)
  PROVE  /\ aids' = aids /\ quiet' = [quiet EXCEPT ![u] = FALSE]
         /\ \E a \in {resolved[u], "usim", "failed"} : resolved' = [resolved EXCEPT ![u] = a]
         /\ \/ Do(u, "idle", 0) /\ UNCHANGED apduSessions
            \/ /\ pc[u].do = "record" /\ Do(u, "record", pc[u].n + 1)
               /\ pc[u].n + 1 \in Records /\ UNCHANGED apduSessions
            \/ /\ pc[u].do = "clear" /\ Do(u, "clear", pc[u].n + 1)
               /\ pc[u].n + 1 \in LogicalChannel
               /\ apduSessions' = [apduSessions EXCEPT ![pc[u].n + 1] = NoUser]
<1>0. resolved = [resolved EXCEPT ![u] = resolved[u]]
  BY DEF CardInv, CardTypeOK
<1>1. CASE pc[u].do = "record"
  <2>1. UNCHANGED <<aids, apduSessions>> /\ NextRecord(u, FALSE)
        /\ quiet' = [quiet EXCEPT ![u] = FALSE]
    BY <1>1 DEF Fails
  <2>2. QED
    BY <1>0, <1>1, <2>1, NextSteps
<1>2. CASE pc[u].do = "clear"
  <2>1. UNCHANGED <<aids, resolved>> /\ NextChannel(u) /\ quiet' = [quiet EXCEPT ![u] = FALSE]
    BY <1>2 DEF Fails
  <2>2. QED
    BY <1>0, <1>2, <2>1, NextSteps
<1>3. CASE pc[u].do \in {"mf", "dir"}
  BY <1>3 DEF Fails
<1>4. CASE pc[u].do \notin {"record", "clear", "mf", "dir"}
  BY <1>0, <1>4 DEF Fails
<1>5. QED
  BY <1>1, <1>2, <1>3, <1>4

\* A step of a command keeps the type of pc.
LEMMA DoTyped ==
  ASSUME CardInv, NEW u \in User, NEW n \in Nat,
         NEW what \in {"idle", "mf", "dir", "record", "clear", "open", "transmit", "close"},
         Do(u, what, n)
  PROVE  /\ pc' \in [User -> Command]
         /\ pc'[u] = [do |-> what, n |-> n, leased |-> FALSE]
         /\ \A v \in User \ {u} : pc'[v] = pc[v]
BY DEF CardInv, CardTypeOK, Command, Do

LEMMA NumbersTyped ==
  /\ \A r \in Records : r \in Nat /\ Directory[r] \in STRING
  /\ \A ch \in LogicalChannel : ch \in Nat /\ ch # 0
  /\ 1 \in Records /\ 1 \in LogicalChannel
BY CardAssumption DEF Records, LogicalChannel

LEMMA FailureTyped ==
  ASSUME CardInv, NEW u \in User, Fails(u)
  PROVE  /\ pc' \in [User -> Command]
         /\ apduSessions' \in [LogicalChannel -> User \cup {NoUser}]
         /\ aids' \in [User -> SUBSET STRING]
         /\ resolved' \in [User -> {NoUser, "usim", "failed"}]
         /\ quiet' \in [User -> BOOLEAN]
<1>1. aids' = aids /\ quiet' = [quiet EXCEPT ![u] = FALSE]
      /\ \E a \in {resolved[u], "usim", "failed"} : resolved' = [resolved EXCEPT ![u] = a]
  BY FailureSteps
<1>2. pc' \in [User -> Command]
  BY FailureSteps, DoTyped, NumbersTyped
<1>3. apduSessions' \in [LogicalChannel -> User \cup {NoUser}]
  BY FailureSteps DEF CardInv, CardTypeOK
<1>4. QED
  BY <1>1, <1>2, <1>3 DEF CardInv, CardTypeOK

LEMMA CardTypesKept ==
  ASSUME CardInv, [CardNext]_cardVars
  PROVE  CardTypeOK'
<1>0. CardTypeOK
  BY DEF CardInv
<1>1. CASE ReadFile
  BY <1>0, <1>1 DEF CardTypeOK, ReadFile
<1>2. ASSUME NEW u \in User, BeginResolve(u) PROVE CardTypeOK'
  <2>1. pc' \in [User -> Command]
    <3>1. Do(u, "mf", 0) /\ 0 \in Nat
      BY <1>2 DEF BeginResolve
    <3>2. QED
      BY <3>1, DoTyped
  <2>2. aids' \in [User -> SUBSET STRING] /\ quiet' \in [User -> BOOLEAN]
    BY <1>0, <1>2 DEF CardTypeOK, BeginResolve
  <2>3. QED
    BY <1>0, <1>2, <2>1, <2>2 DEF CardTypeOK, BeginResolve
<1>3. ASSUME NEW u \in User, BeginClear(u) PROVE CardTypeOK'
  BY <1>0, <1>3, DoTyped DEF CardTypeOK, BeginClear
<1>4. ASSUME NEW u \in User, BeginOpen(u) PROVE CardTypeOK'
  <2>1. pc' \in [User -> Command]
    <3>1. Do(u, "open", 0) /\ 0 \in Nat
      BY <1>4 DEF BeginOpen
    <3>2. QED
      BY <3>1, DoTyped
  <2>2. QED
    BY <1>0, <1>4, <2>1 DEF CardTypeOK, BeginOpen
<1>5. ASSUME NEW u \in User, BeginTransmit(u) \/ BeginClose(u) PROVE CardTypeOK'
  <2>1. channel[u] \in Nat
    BY <1>0, NumbersTyped DEF CardTypeOK
  <2>2. pc' \in [User -> Command]
    BY <1>5, <2>1, DoTyped DEF BeginTransmit, BeginClose
  <2>3. QED
    BY <1>0, <1>5, <2>2 DEF CardTypeOK, BeginTransmit, BeginClose
<1>6. ASSUME NEW u \in User, AcquireLease(u) PROVE CardTypeOK'
  BY <1>0, <1>6, ZenonT(40) DEF CardTypeOK, Command, AcquireLease
<1>7. ASSUME NEW u \in User, LeaseTimeout(u) PROVE CardTypeOK'
  BY <1>0, <1>7, FailureTyped DEF CardTypeOK, LeaseTimeout, Fault
<1>8. ASSUME NEW u \in User, CommandFails(u) PROVE CardTypeOK'
  <2>1. openFor' \in [LogicalChannel -> User \cup {NoUser}] /\ cleared' \in BOOLEAN
    BY <1>0, <1>8 DEF CardTypeOK, CommandFails
  <2>2. QED
    BY <1>0, <1>8, <2>1, FailureTyped DEF CardTypeOK, CommandFails, Fault
<1>9. ASSUME NEW u \in User, SelectFile(u) PROVE CardTypeOK'
  BY <1>0, <1>9, DoTyped DEF CardTypeOK, SelectFile, Runs, Disturbs
<1>10. ASSUME NEW u \in User, ReadRecord(u) PROVE CardTypeOK'
  <2>1. pc[u].do = "record" /\ pc[u].n \in Records /\ lease' = NoUser
    BY <1>10 DEF ReadRecord, Runs, CardInv, CommandFits
  <2>2. PICK ends \in BOOLEAN : NextRecord(u, ends)
    BY <1>10 DEF ReadRecord
  <2>3. pc' \in [User -> Command] /\ resolved' \in [User -> {NoUser, "usim", "failed"}]
    <3>1. CASE Do(u, "idle", 0) /\ resolved' = [resolved EXCEPT ![u] = MatchingAID(u)]
      BY <1>0, <3>1, NextSteps, DoTyped DEF CardTypeOK
    <3>2. CASE /\ Do(u, "record", pc[u].n + 1) /\ pc[u].n + 1 \in Records
               /\ UNCHANGED resolved
      BY <1>0, <3>2, NumbersTyped, DoTyped DEF CardTypeOK
    <3>3. QED
      BY <2>1, <2>2, <3>1, <3>2, NextSteps
  <2>4. aids' \in [User -> SUBSET STRING]
    <3>1. aids' = [aids EXCEPT ![u] = aids[u] \cup {Directory[pc[u].n]}] \/ aids' = aids
      BY <1>10 DEF ReadRecord, AppendUniqueAIDs
    <3>2. aids[u] \cup {Directory[pc[u].n]} \in SUBSET STRING
      BY <1>0, <2>1, NumbersTyped DEF CardTypeOK
    <3>3. QED
      BY <1>0, <3>1, <3>2 DEF CardTypeOK
  <2>5. QED
    BY <1>0, <1>10, <2>1, <2>3, <2>4 DEF CardTypeOK, ReadRecord
<1>11. ASSUME NEW u \in User, openLogicalChannel(u) PROVE CardTypeOK'
  <2>1. pc' \in [User -> Command]
    BY <1>11, DoTyped DEF openLogicalChannel
  <2>2. PICK ch \in LogicalChannel :
          /\ openFor' = [openFor EXCEPT ![ch] = u]
          /\ apduSessions' = [apduSessions EXCEPT ![ch] = u]
          /\ channel' = [channel EXCEPT ![u] = ch]
    BY <1>11 DEF openLogicalChannel
  <2>3. QED
    BY <1>0, <1>11, <2>1, <2>2 DEF CardTypeOK, openLogicalChannel, Runs
<1>12. ASSUME NEW u \in User, TransmitAPDU(u) PROVE CardTypeOK'
  <2>1. pc[u].n \in LogicalChannel
    BY <1>0, <1>12 DEF TransmitAPDU, Runs, CardInv, CommandFits, CardTypeOK
  <2>2. QED
    BY <1>0, <1>12, <2>1, DoTyped DEF CardTypeOK, TransmitAPDU, Runs
<1>13. ASSUME NEW u \in User, closeLogicalChannel(u) PROVE CardTypeOK'
  BY <1>0, <1>13, DoTyped DEF CardTypeOK, closeLogicalChannel, Closes, Runs
<1>14. ASSUME NEW u \in User, ClearLogicalChannel(u) PROVE CardTypeOK'
  <2>1. pc' \in [User -> Command] /\ apduSessions' \in [LogicalChannel -> User \cup {NoUser}]
    BY <1>0, <1>14, NextSteps, NumbersTyped, DoTyped
      DEF CardTypeOK, ClearLogicalChannel, Runs
  <2>2. QED
    BY <1>0, <1>14, <2>1 DEF CardTypeOK, ClearLogicalChannel, Closes, Runs
<1>15. CASE UNCHANGED cardVars
  BY <1>0, <1>15 DEF CardTypeOK, cardVars
<1>16. QED
  BY <1>1, <1>2, <1>3, <1>4, <1>5, <1>6, <1>7, <1>8, <1>9, <1>10, <1>11, <1>12, <1>13, <1>14,
    <1>15 DEF CardNext

\* A command fits what its user has.
LEMMA FitsKept ==
  ASSUME CardInv, [CardNext]_cardVars
  PROVE  SessionFits' /\ \A v \in User : CommandFits(v)'
<1>0. CardTypeOK /\ SessionFits /\ \A v \in User : CommandFits(v)
  BY DEF CardInv
<1>1. ASSUME pc' = pc, UNCHANGED <<apduSessions, channel>>
      PROVE  SessionFits' /\ \A v \in User : CommandFits(v)'
  BY <1>0, <1>1 DEF SessionFits, CommandFits
\* A command begins, goes on or ends, and the channels stay.
<1>2. ASSUME NEW u \in User, NEW n \in Nat,
             NEW what \in {"idle", "mf", "dir", "record", "clear", "open", "transmit"},
             Do(u, what, n), channel' = channel,
             what = "transmit" => channel[u] # 0 /\ n = channel[u],
             what \in {"mf", "dir", "record", "clear", "open"} => channel[u] = 0,
             what = "clear" => n \in LogicalChannel,
             what \in {"mf", "dir", "record"} => u \in Auth,
             what = "record" => n \in Records
      PROVE  \A v \in User : CommandFits(v)'
  <2>1. /\ pc'[u] = [do |-> what, n |-> n, leased |-> FALSE]
        /\ \A v \in User \ {u} : pc'[v] = pc[v]
    BY <1>2, DoTyped, ZenonT(40)
  <2>2. pc'[u].do = what /\ pc'[u].n = n
    BY <2>1
  <2>3. CommandFits(u)'
    BY <1>2, <2>2 DEF CommandFits
  <2>4. ASSUME NEW v \in User \ {u} PROVE CommandFits(v)'
    BY <1>0, <1>2, <2>1, <2>4 DEF CommandFits
  <2>5. QED
    BY <2>3, <2>4
<1>3. ASSUME channel' = channel,
             \A ch \in LogicalChannel : apduSessions'[ch] \in {apduSessions[ch], NoUser}
      PROVE  SessionFits'
  BY <1>0, <1>3 DEF SessionFits
<1>4. ASSUME NEW u \in User, Fails(u), channel' = channel
      PROVE  SessionFits' /\ \A v \in User : CommandFits(v)'
  <2>1. CASE Do(u, "idle", 0) /\ UNCHANGED apduSessions
    BY <1>2, <1>3, <1>4, <2>1
  <2>2. CASE /\ pc[u].do = "record" /\ Do(u, "record", pc[u].n + 1)
             /\ pc[u].n + 1 \in Records /\ UNCHANGED apduSessions
    BY <1>0, <1>2, <1>3, <1>4, <2>2, NumbersTyped DEF CommandFits
  <2>3. CASE /\ pc[u].do = "clear" /\ Do(u, "clear", pc[u].n + 1)
             /\ pc[u].n + 1 \in LogicalChannel
             /\ apduSessions' = [apduSessions EXCEPT ![pc[u].n + 1] = NoUser]
    BY <1>0, <1>2, <1>3, <1>4, <2>3, NumbersTyped DEF CardTypeOK, CommandFits
  <2>4. QED
    BY <1>4, <2>1, <2>2, <2>3, FailureSteps
<1>5. ASSUME NEW u \in User, BeginResolve(u) \/ BeginOpen(u)
      PROVE  SessionFits' /\ \A v \in User : CommandFits(v)'
  <2>1. channel[u] = 0 /\ channel' = channel /\ apduSessions' = apduSessions /\ 0 \in Nat
        /\ ((Do(u, "mf", 0) /\ u \in Auth) \/ Do(u, "open", 0))
    BY <1>5 DEF BeginResolve, BeginOpen
  <2>2. QED
    BY <1>2, <1>3, <2>1
<1>6. ASSUME NEW u \in User, BeginClear(u)
      PROVE  SessionFits' /\ \A v \in User : CommandFits(v)'
  BY <1>0, <1>2, <1>3, <1>6, NumbersTyped DEF CardTypeOK, BeginClear
<1>7. ASSUME NEW u \in User, BeginTransmit(u)
      PROVE  SessionFits' /\ \A v \in User : CommandFits(v)'
  BY <1>0, <1>2, <1>3, <1>7, NumbersTyped DEF CardTypeOK, BeginTransmit
<1>8. ASSUME NEW u \in User, BeginClose(u)
      PROVE  SessionFits' /\ \A v \in User : CommandFits(v)'
  <2>1. channel[u] \in LogicalChannel /\ Do(u, "close", channel[u])
        /\ apduSessions' = [apduSessions EXCEPT ![channel[u]] = NoUser]
        /\ channel' = [channel EXCEPT ![u] = 0]
    BY <1>0, <1>8 DEF CardTypeOK, BeginClose
  <2>2. /\ pc'[u] = [do |-> "close", n |-> channel[u], leased |-> FALSE]
        /\ \A v \in User \ {u} : pc'[v] = pc[v]
    BY <2>1, NumbersTyped, DoTyped
  <2>3. SessionFits'
    BY <1>0, <2>1 DEF CardTypeOK, SessionFits
  <2>4. QED
    BY <1>0, <2>1, <2>2, <2>3 DEF CardTypeOK, CommandFits
<1>9. ASSUME NEW u \in User, AcquireLease(u)
      PROVE  SessionFits' /\ \A v \in User : CommandFits(v)'
  <2>1. \A v \in User : pc'[v].do = pc[v].do /\ pc'[v].n = pc[v].n
    BY <1>0, <1>9 DEF CardTypeOK, Command, AcquireLease
  <2>2. QED
    BY <1>0, <1>9, <2>1 DEF SessionFits, CommandFits, AcquireLease
<1>10. ASSUME NEW u \in User, SelectFile(u)
       PROVE  SessionFits' /\ \A v \in User : CommandFits(v)'
  <2>1. channel[u] = 0 /\ u \in Auth /\ channel' = channel /\ apduSessions' = apduSessions
        /\ 0 \in Nat /\ (Do(u, "dir", 0) \/ Do(u, "record", 1))
    BY <1>0, <1>10 DEF CommandFits, SelectFile, Runs
  <2>2. QED
    BY <1>2, <1>3, <2>1, NumbersTyped
<1>11. ASSUME NEW u \in User, ReadRecord(u)
       PROVE  SessionFits' /\ \A v \in User : CommandFits(v)'
  <2>1. channel[u] = 0 /\ u \in Auth /\ channel' = channel /\ apduSessions' = apduSessions
        /\ 0 \in Nat
    BY <1>0, <1>11 DEF CommandFits, ReadRecord, Runs
  <2>2. Do(u, "idle", 0) \/ (Do(u, "record", pc[u].n + 1) /\ pc[u].n + 1 \in Records)
    <3>1. PICK ends \in BOOLEAN : pc[u].do = "record" /\ NextRecord(u, ends)
      BY <1>11 DEF ReadRecord, Runs
    <3>2. \/ /\ Do(u, "idle", 0) /\ resolved' = [resolved EXCEPT ![u] = MatchingAID(u)]
             /\ ends \/ pc[u].n = Len(Directory)
          \/ /\ Do(u, "record", pc[u].n + 1) /\ pc[u].n + 1 \in Records
             /\ UNCHANGED resolved
      BY <3>1, NextSteps
    <3>3. QED
      BY <3>2
  <2>3. QED
    BY <1>2, <1>3, <2>1, <2>2, NumbersTyped
<1>12. ASSUME NEW u \in User, openLogicalChannel(u)
       PROVE  SessionFits' /\ \A v \in User : CommandFits(v)'
  <2>1. PICK ch \in LogicalChannel :
          /\ apduSessions' = [apduSessions EXCEPT ![ch] = u]
          /\ channel' = [channel EXCEPT ![u] = ch]
    BY <1>12 DEF openLogicalChannel
  <2>2. channel[u] = 0 /\ Do(u, "idle", 0) /\ 0 \in Nat
    BY <1>0, <1>12 DEF CommandFits, openLogicalChannel, Runs
  <2>3. /\ pc'[u] = [do |-> "idle", n |-> 0, leased |-> FALSE]
        /\ \A v \in User \ {u} : pc'[v] = pc[v]
    BY <2>2, DoTyped
  <2>4. SessionFits'
    BY <1>0, <2>1, <2>2, NumbersTyped DEF CardTypeOK, SessionFits
  <2>5. QED
    BY <1>0, <2>1, <2>3, <2>4 DEF CardTypeOK, CommandFits
<1>13. ASSUME NEW u \in User, TransmitAPDU(u) \/ closeLogicalChannel(u)
       PROVE  SessionFits' /\ \A v \in User : CommandFits(v)'
  <2>1. Do(u, "idle", 0) /\ 0 \in Nat /\ channel' = channel /\ apduSessions' = apduSessions
    BY <1>13 DEF TransmitAPDU, closeLogicalChannel
  <2>2. QED
    BY <1>2, <1>3, <2>1
<1>14. ASSUME NEW u \in User, ClearLogicalChannel(u)
       PROVE  SessionFits' /\ \A v \in User : CommandFits(v)'
  <2>1. channel[u] = 0 /\ channel' = channel /\ 0 \in Nat
    BY <1>0, <1>14 DEF CommandFits, ClearLogicalChannel, Runs
  <2>2. \/ Do(u, "idle", 0) /\ UNCHANGED apduSessions
        \/ /\ Do(u, "clear", pc[u].n + 1) /\ pc[u].n + 1 \in LogicalChannel
           /\ apduSessions' = [apduSessions EXCEPT ![pc[u].n + 1] = NoUser]
    BY <1>14, NextSteps DEF ClearLogicalChannel, Runs
  <2>3. SessionFits'
    BY <1>0, <1>3, <2>1, <2>2 DEF CardTypeOK
  <2>4. QED
    BY <1>2, <2>1, <2>2, <2>3, NumbersTyped
<1>15. CASE ReadFile \/ UNCHANGED cardVars
  BY <1>1, <1>15 DEF ReadFile, cardVars
<1>16. QED
  BY <1>4, <1>5, <1>6, <1>7, <1>8, <1>9, <1>10, <1>11, <1>12, <1>13, <1>14, <1>15
    DEF CardNext, LeaseTimeout, CommandFails

\* The channels of users, who is reached over them, and the registry.
Owned ==
  /\ \A v \in User : ChannelOwned(v)
  /\ OwnChannel /\ RegistryTrue

\* A step that opens and closes no channel.
LEMMA NoChannelChanged ==
  ASSUME CardInv, NEW u \in User, NEW what, NEW n \in Nat, Do(u, what, n),
         what \in {"idle", "mf", "dir", "record", "clear", "open", "transmit", "close"},
         UNCHANGED <<openFor, channel, reached, cleared>>,
         failures' = 0 => failures = 0,
         what = "close" /\ ~cleared => openFor[n] = u,
         failures' = 0 /\ pc[u].do \in {"close", "clear"} => what = pc[u].do /\ n = pc[u].n,
         \A ch \in LogicalChannel :
           \/ apduSessions'[ch] = apduSessions[ch]
           \/ apduSessions'[ch] = NoUser /\ what \in {"close", "clear"} /\ n = ch
           \/ apduSessions'[ch] = NoUser /\ failures' # 0
  PROVE  Owned'
<1>0. CardTypeOK /\ Owned
  BY DEF CardInv, SessionsApart, Owned
<1>1. /\ pc'[u] = [do |-> what, n |-> n, leased |-> FALSE]
      /\ \A v \in User \ {u} : pc'[v] = pc[v]
  BY DoTyped
<1>2. \A v \in User : ChannelOwned(v)'
  BY <1>0, <1>1 DEF Owned, ChannelOwned
<1>3. OwnChannel'
  BY <1>0 DEF Owned, OwnChannel
<1>4. ASSUME failures' = 0, ~cleared', NEW ch \in LogicalChannel
      PROVE  /\ apduSessions'[ch] # NoUser => openFor'[ch] = apduSessions'[ch]
             /\ openFor'[ch] # NoUser /\ apduSessions'[ch] = NoUser =>
                  \E v \in User : pc'[v].do \in {"close", "clear"} /\ pc'[v].n = ch
  <2>1. /\ apduSessions[ch] # NoUser => openFor[ch] = apduSessions[ch]
        /\ openFor[ch] # NoUser /\ apduSessions[ch] = NoUser =>
             \E v \in User : pc[v].do \in {"close", "clear"} /\ pc[v].n = ch
    BY <1>0, <1>4 DEF Owned, RegistryTrue
  <2>2. \A v \in User : pc[v].do \in {"close", "clear"} /\ pc[v].n = ch =>
          pc'[v].do \in {"close", "clear"} /\ pc'[v].n = ch
    BY <1>1, <1>4
  <2>3. CASE apduSessions'[ch] = apduSessions[ch]
    BY <2>1, <2>2, <2>3
  <2>4. CASE apduSessions'[ch] = NoUser /\ what \in {"close", "clear"} /\ n = ch
    BY <1>1, <2>4
  <2>5. QED
    BY <1>4, <2>3, <2>4
<1>5. QED
  BY <1>2, <1>3, <1>4 DEF Owned, RegistryTrue

\* The card closes the channel of a close or of a clearing.
LEMMA ChannelClosed ==
  ASSUME CardInv, NEW u \in User, NEW what \in {"idle", "clear"}, NEW n \in Nat,
         Do(u, what, n), pc[u].do \in {"close", "clear"},
         openFor' = [openFor EXCEPT ![pc[u].n] = NoUser],
         cleared' = (cleared \/ openFor[pc[u].n] \notin {NoUser, u}),
         UNCHANGED <<channel, reached>>, failures' = 0 => failures = 0,
         \A ch \in LogicalChannel :
           \/ apduSessions'[ch] = apduSessions[ch]
           \/ apduSessions'[ch] = NoUser /\ what = "clear" /\ n = ch
  PROVE  Owned'
<1>0. CardTypeOK /\ Owned /\ SessionFits /\ channel[u] = 0 /\ pc[u].n \in LogicalChannel
  BY DEF CardInv, SessionsApart, Owned, CommandFits
<1>1. /\ pc'[u] = [do |-> what, n |-> n, leased |-> FALSE]
      /\ \A v \in User \ {u} : pc'[v] = pc[v]
  BY DoTyped, ZenonT(40)
<1>2. \A ch \in LogicalChannel :
        openFor'[ch] = IF ch = pc[u].n THEN NoUser ELSE openFor[ch]
  BY <1>0 DEF CardTypeOK
<1>3. ASSUME NEW v \in User, ~cleared' PROVE ChannelOwned(v)'
  <2>1. ~cleared /\ openFor[pc[u].n] \in {NoUser, u}
    BY <1>3
  <2>2. CASE v = u
    BY <1>0, <1>1, <2>2 DEF ChannelOwned
  <2>3. CASE v # u
    <3>1. channel[v] # 0 => openFor[channel[v]] = v /\ channel[v] \in LogicalChannel
      BY <1>0, <1>3, <2>1 DEF Owned, ChannelOwned, CardTypeOK
    <3>2. pc[v].do = "close" => openFor[pc[v].n] = v /\ pc[v].n \in LogicalChannel
      BY <1>0, <1>3, <2>1 DEF Owned, ChannelOwned, CardInv, CommandFits
    <3>3. \A ch \in LogicalChannel : openFor[ch] = v => openFor'[ch] = v
      BY <1>2, <2>1, <2>3, CardAssumption DEF User
    <3>4. QED
      BY <1>1, <2>3, <3>1, <3>2, <3>3 DEF ChannelOwned
  <2>4. QED
    BY <2>2, <2>3
<1>4. \A v \in User : ChannelOwned(v)'
  BY <1>3 DEF ChannelOwned
<1>5. OwnChannel'
  BY <1>0 DEF Owned, OwnChannel
<1>6. ASSUME failures' = 0, ~cleared', NEW ch \in LogicalChannel
      PROVE  /\ apduSessions'[ch] # NoUser => openFor'[ch] = apduSessions'[ch]
             /\ openFor'[ch] # NoUser /\ apduSessions'[ch] = NoUser =>
                  \E v \in User : pc'[v].do \in {"close", "clear"} /\ pc'[v].n = ch
  <2>1. /\ apduSessions[ch] # NoUser => openFor[ch] = apduSessions[ch]
        /\ openFor[ch] # NoUser /\ apduSessions[ch] = NoUser =>
             \E v \in User : pc[v].do \in {"close", "clear"} /\ pc[v].n = ch
    BY <1>0, <1>6 DEF Owned, RegistryTrue
  <2>2. openFor[pc[u].n] \in {NoUser, u}
    BY <1>6
  <2>3. CASE ch = pc[u].n
    <3>1. apduSessions[ch] = NoUser
      BY <1>0, <2>1, <2>2, <2>3, NumbersTyped DEF SessionFits
    <3>2. QED
      BY <1>2, <2>3, <3>1
  <2>4. CASE ch # pc[u].n
    <3>1. openFor'[ch] = openFor[ch]
      BY <1>2, <2>4
    <3>2. CASE apduSessions'[ch] = apduSessions[ch]
      BY <1>1, <2>1, <2>4, <3>1, <3>2
    <3>3. CASE apduSessions'[ch] = NoUser /\ what = "clear" /\ n = ch
      BY <1>1, <3>3
    <3>4. QED
      BY <3>2, <3>3
  <2>5. QED
    BY <2>3, <2>4
<1>7. QED
  BY <1>4, <1>5, <1>6 DEF Owned, RegistryTrue

LEMMA OwnedKept ==
  ASSUME CardInv, [CardNext]_cardVars
  PROVE  Owned'
<1>0. CardTypeOK /\ Owned /\ 0 \in Nat /\ \A v \in User : CommandFits(v)
  BY DEF CardInv, SessionsApart, Owned
<1>1. ASSUME UNCHANGED <<openFor, channel, reached, cleared, failures, apduSessions>>,
             \A v \in User : pc'[v].do = pc[v].do /\ pc'[v].n = pc[v].n
      PROVE  Owned'
  BY <1>0, <1>1 DEF Owned, ChannelOwned, OwnChannel, RegistryTrue
<1>2. ASSUME NEW u \in User, Fails(u), Fault, UNCHANGED <<openFor, channel, reached, cleared>>
      PROVE  Owned'
  <2>1. failures' # 0
    BY <1>0, <1>2 DEF CardTypeOK, Fault
  <2>2. \A ch \in LogicalChannel : apduSessions'[ch] \in {apduSessions[ch], NoUser}
    BY <1>0, <1>2, FailureSteps DEF CardTypeOK
  <2>3. QED
    BY <1>0, <1>2, <2>1, <2>2, FailureSteps, NoChannelChanged, NumbersTyped
<1>3. ASSUME NEW u \in User, BeginResolve(u) \/ BeginOpen(u) PROVE Owned'
  <2>1. Do(u, "mf", 0) \/ Do(u, "open", 0)
    BY <1>3 DEF BeginResolve, BeginOpen
  <2>2. UNCHANGED <<openFor, channel, reached, cleared, failures, apduSessions>> /\ pc[u] = Idle
    BY <1>3 DEF BeginResolve, BeginOpen
  <2>3. QED
    BY <1>0, <2>1, <2>2, NoChannelChanged DEF Idle
<1>4. ASSUME NEW u \in User, BeginClear(u) PROVE Owned'
  <2>1. /\ Do(u, "clear", 1) /\ pc[u] = Idle
        /\ UNCHANGED <<openFor, channel, reached, cleared, failures>>
        /\ \A ch \in LogicalChannel :
             apduSessions'[ch] = IF ch = 1 THEN NoUser ELSE apduSessions[ch]
    BY <1>0, <1>4 DEF CardTypeOK, BeginClear
  <2>2. QED
    BY <2>1, NumbersTyped, NoChannelChanged DEF Idle
<1>5. ASSUME NEW u \in User, BeginTransmit(u) PROVE Owned'
  <2>1. /\ Do(u, "transmit", channel[u]) /\ pc[u] = Idle /\ channel[u] \in Nat
        /\ UNCHANGED <<openFor, channel, reached, cleared, failures, apduSessions>>
    BY <1>0, <1>5, NumbersTyped DEF CardTypeOK, BeginTransmit
  <2>2. QED
    BY <2>1, NoChannelChanged DEF Idle
<1>6. ASSUME NEW u \in User, BeginClose(u) PROVE Owned'
  <2>1. /\ channel[u] \in LogicalChannel /\ Do(u, "close", channel[u]) /\ pc[u] = Idle
        /\ channel' = [channel EXCEPT ![u] = 0]
        /\ UNCHANGED <<openFor, reached, cleared, failures>>
        /\ \A ch \in LogicalChannel :
             apduSessions'[ch] = IF ch = channel[u] THEN NoUser ELSE apduSessions[ch]
    BY <1>0, <1>6 DEF CardTypeOK, BeginClose
  <2>2. /\ pc'[u] = [do |-> "close", n |-> channel[u], leased |-> FALSE]
        /\ \A v \in User \ {u} : pc'[v] = pc[v]
    BY <2>1, NumbersTyped, DoTyped
  <2>3. \A v \in User : ChannelOwned(v)'
    BY <1>0, <2>1, <2>2, NumbersTyped DEF CardTypeOK, Owned, ChannelOwned
  <2>4. OwnChannel'
    BY <1>0, <2>1 DEF Owned, OwnChannel
  <2>5. RegistryTrue'
    BY <1>0, <2>1, <2>2 DEF Owned, RegistryTrue, Idle
  <2>6. QED
    BY <2>3, <2>4, <2>5 DEF Owned
<1>7. ASSUME NEW u \in User, AcquireLease(u) PROVE Owned'
  <2>1. \A v \in User : pc'[v].do = pc[v].do /\ pc'[v].n = pc[v].n
    BY <1>0, <1>7 DEF CardTypeOK, Command, AcquireLease
  <2>2. QED
    BY <1>1, <1>7, <2>1 DEF AcquireLease
<1>8. ASSUME NEW u \in User, CommandFails(u) PROVE Owned'
  <2>1. Fails(u) /\ Fault /\ UNCHANGED <<channel, reached>> /\ failures' # 0
    BY <1>0, <1>8 DEF CardTypeOK, CommandFails, Fault
  <2>2. CASE UNCHANGED <<openFor, cleared>>
    BY <1>2, <2>1, <2>2
  <2>3. CASE /\ pc[u].do \in {"close", "clear"} /\ openFor' = [openFor EXCEPT ![pc[u].n] = NoUser]
             /\ cleared' = (cleared \/ openFor[pc[u].n] \notin {NoUser, u})
    <3>1. CASE Do(u, "idle", 0) /\ UNCHANGED apduSessions
      BY <1>0, <2>1, <2>3, <3>1, ChannelClosed
    <3>2. CASE /\ pc[u].do = "clear" /\ Do(u, "clear", pc[u].n + 1)
               /\ pc[u].n + 1 \in LogicalChannel
               /\ apduSessions' = [apduSessions EXCEPT ![pc[u].n + 1] = NoUser]
      BY <1>0, <2>1, <2>3, <3>2, ChannelClosed, NumbersTyped DEF CardTypeOK
    <3>3. QED
      BY <2>1, <2>3, <3>1, <3>2, FailureSteps
  <2>4. ASSUME NEW ch \in LogicalChannel, pc[u].do = "open", UNCHANGED cleared,
               openFor[ch] = NoUser, openFor' = [openFor EXCEPT ![ch] = u]
        PROVE  Owned'
    <3>1. Do(u, "idle", 0)
      BY <2>1, <2>4, FailureSteps
    <3>2. /\ pc'[u] = [do |-> "idle", n |-> 0, leased |-> FALSE]
          /\ \A v \in User \ {u} : pc'[v] = pc[v]
      BY <1>0, <3>1, DoTyped
    <3>3. \A v \in User, d \in LogicalChannel : openFor[d] = v => openFor'[d] = v
      BY <1>0, <2>4, CardAssumption DEF CardTypeOK, User
    <3>4. ASSUME NEW v \in User PROVE ChannelOwned(v)'
      BY <1>0, <2>1, <2>4, <3>2, <3>3 DEF CardTypeOK, Owned, ChannelOwned, CommandFits
    <3>5. OwnChannel'
      BY <1>0, <2>1, <2>4 DEF Owned, OwnChannel
    <3>6. QED
      BY <2>1, <3>4, <3>5 DEF Owned, RegistryTrue
  <2>5. QED
    BY <1>8, <2>2, <2>3, <2>4 DEF CommandFails
<1>9. ASSUME NEW u \in User, SelectFile(u) PROVE Owned'
  <2>1. /\ pc[u].do \in {"mf", "dir"} /\ (Do(u, "dir", 0) \/ Do(u, "record", 1))
        /\ UNCHANGED <<openFor, channel, reached, cleared, failures, apduSessions>>
    BY <1>9 DEF SelectFile, Runs
  <2>2. QED
    BY <1>0, <2>1, NoChannelChanged
<1>10. ASSUME NEW u \in User, ReadRecord(u) PROVE Owned'
  <2>1. /\ pc[u].do = "record"
        /\ UNCHANGED <<openFor, channel, reached, cleared, failures, apduSessions>>
    BY <1>10 DEF ReadRecord, Runs
  <2>2. PICK ends \in BOOLEAN : NextRecord(u, ends)
    BY <1>10 DEF ReadRecord
  <2>3. Do(u, "idle", 0) \/ (Do(u, "record", pc[u].n + 1) /\ pc[u].n + 1 \in Nat)
    <3>1. \/ /\ Do(u, "idle", 0) /\ resolved' = [resolved EXCEPT ![u] = MatchingAID(u)]
             /\ ends \/ pc[u].n = Len(Directory)
          \/ /\ Do(u, "record", pc[u].n + 1) /\ pc[u].n + 1 \in Records
             /\ UNCHANGED resolved
      BY <2>1, <2>2, NextSteps
    <3>2. QED
      BY <3>1, NumbersTyped
  <2>4. QED
    BY <1>0, <2>1, <2>3, NoChannelChanged
<1>11. ASSUME NEW u \in User, openLogicalChannel(u) PROVE Owned'
  <2>1. PICK ch \in LogicalChannel :
          /\ openFor[ch] = NoUser /\ openFor' = [openFor EXCEPT ![ch] = u]
          /\ apduSessions' = [apduSessions EXCEPT ![ch] = u]
          /\ channel' = [channel EXCEPT ![u] = ch]
    BY <1>11 DEF openLogicalChannel
  <2>2. /\ pc[u].do = "open" /\ Do(u, "idle", 0)
        /\ UNCHANGED <<reached, cleared, failures>>
    BY <1>11 DEF openLogicalChannel, Runs
  <2>3. /\ pc'[u] = [do |-> "idle", n |-> 0, leased |-> FALSE]
        /\ \A v \in User \ {u} : pc'[v] = pc[v]
    BY <1>0, <2>2, DoTyped
  <2>4. \A d \in LogicalChannel :
          /\ openFor'[d] = IF d = ch THEN u ELSE openFor[d]
          /\ apduSessions'[d] = IF d = ch THEN u ELSE apduSessions[d]
    BY <1>0, <2>1 DEF CardTypeOK
  <2>5. \A v \in User, d \in LogicalChannel : openFor[d] = v => openFor'[d] = v
    BY <2>1, <2>4, CardAssumption DEF User
  <2>6. \A v \in User \ {u} : ChannelOwned(v)'
    BY <1>0, <2>1, <2>2, <2>3, <2>5 DEF CardTypeOK, Owned, ChannelOwned, CommandFits
  <2>7. ChannelOwned(u)'
    BY <1>0, <2>1, <2>3, <2>4 DEF CardTypeOK, ChannelOwned
  <2>8. OwnChannel'
    BY <1>0, <2>2 DEF Owned, OwnChannel
  <2>9. RegistryTrue'
    <3>1. \A v \in User : pc[v].do \in {"close", "clear"} => pc'[v] = pc[v]
      BY <2>2, <2>3
    <3>2. u # NoUser
      BY CardAssumption DEF User
    <3>3. QED
      BY <1>0, <2>2, <2>4, <3>1, <3>2 DEF Owned, RegistryTrue
  <2>10. QED
    BY <2>6, <2>7, <2>8, <2>9 DEF Owned
<1>12. ASSUME NEW u \in User, TransmitAPDU(u) PROVE Owned'
  <2>1. /\ pc[u].do = "transmit" /\ pc[u].n = channel[u] /\ channel[u] # 0
        /\ reached' = [reached EXCEPT ![u] = openFor[pc[u].n]]
        /\ UNCHANGED <<openFor, channel, cleared, failures, apduSessions>> /\ Do(u, "idle", 0)
    BY <1>0, <1>12 DEF TransmitAPDU, Runs, CommandFits
  <2>2. OwnChannel'
    BY <1>0, <2>1 DEF CardTypeOK, Owned, OwnChannel, ChannelOwned
  <2>3. /\ pc'[u] = [do |-> "idle", n |-> 0, leased |-> FALSE]
        /\ \A v \in User \ {u} : pc'[v] = pc[v]
    BY <1>0, <2>1, DoTyped
  <2>4. \A v \in User : ChannelOwned(v)'
    BY <1>0, <2>1, <2>3 DEF Owned, ChannelOwned
  <2>5. \A v \in User : pc[v].do \in {"close", "clear"} => pc'[v] = pc[v]
    BY <2>1, <2>3
  <2>6. RegistryTrue'
    BY <1>0, <2>1, <2>5 DEF Owned, RegistryTrue
  <2>7. QED
    BY <2>2, <2>4, <2>6 DEF Owned
<1>13. ASSUME NEW u \in User, closeLogicalChannel(u) PROVE Owned'
  <2>1. /\ pc[u].do = "close" /\ Do(u, "idle", 0)
        /\ openFor' = [openFor EXCEPT ![pc[u].n] = NoUser]
        /\ cleared' = (cleared \/ openFor[pc[u].n] \notin {NoUser, u})
        /\ UNCHANGED <<channel, reached, failures, apduSessions>>
    BY <1>13 DEF closeLogicalChannel, Closes, Runs
  <2>2. QED
    BY <1>0, <2>1, ChannelClosed
<1>14. ASSUME NEW u \in User, ClearLogicalChannel(u) PROVE Owned'
  <2>1. /\ pc[u].do = "clear" /\ NextChannel(u)
        /\ openFor' = [openFor EXCEPT ![pc[u].n] = NoUser]
        /\ cleared' = (cleared \/ openFor[pc[u].n] \notin {NoUser, u})
        /\ UNCHANGED <<channel, reached, failures>>
    BY <1>14 DEF ClearLogicalChannel, Closes, Runs
  <2>2. CASE Do(u, "idle", 0) /\ UNCHANGED apduSessions
    BY <1>0, <2>1, <2>2, ChannelClosed
  <2>3. CASE /\ Do(u, "clear", pc[u].n + 1) /\ pc[u].n + 1 \in LogicalChannel
             /\ apduSessions' = [apduSessions EXCEPT ![pc[u].n + 1] = NoUser]
    BY <1>0, <2>1, <2>3, ChannelClosed, NumbersTyped DEF CardTypeOK
  <2>4. QED
    BY <2>1, <2>2, <2>3, NextSteps
<1>15. CASE ReadFile \/ UNCHANGED cardVars
  BY <1>1, <1>15 DEF ReadFile, cardVars
<1>16. QED
  BY <1>2, <1>3, <1>4, <1>5, <1>6, <1>7, <1>8, <1>9, <1>10, <1>11, <1>12, <1>13, <1>14, <1>15
    DEF CardNext, LeaseTimeout


\* What is found in EF_DIR, and which files are selected for it.
Reading ==
  /\ \A v \in User : ReadSoFar(v)
  /\ Resolves

\* A step that reads nothing, and of nobody that reads.
LEMMA NothingRead ==
  ASSUME CardInv, NEW u \in User, UNCHANGED <<selected, aids>>,
         \A v \in User \ {u} : pc'[v] = pc[v],
         \A v \in Auth : resolved'[v] = "failed" => resolved[v] = "failed" \/ ~quiet'[v],
         \A v \in User : quiet'[v] => quiet[v],
         pc'[u].do = "record" => ~quiet'[u] \/ (pc[u].do = "record" /\ pc'[u].n = pc[u].n)
  PROVE  Reading'
<1>0. \A v \in User : ReadSoFar(v)
  BY DEF CardInv
<1>1. ASSUME NEW v \in User PROVE ReadSoFar(v)'
  <2>1. CASE v = u
    BY <1>0, <2>1 DEF ReadSoFar
  <2>2. CASE v # u
    BY <1>0, <2>2 DEF ReadSoFar
  <2>3. QED
    BY <2>1, <2>2
<1>2. Resolves'
  BY DEF CardInv, SessionsApart, Resolves, User
<1>3. QED
  BY <1>1, <1>2 DEF Reading

LEMMA ReadingKept ==
  ASSUME CardInv, [CardNext]_cardVars
  PROVE  Reading'
<1>0. /\ CardTypeOK /\ Reading /\ 0 \in Nat
      /\ \A v \in User : CommandFits(v)
      /\ \A v \in Auth : v \in User
  BY DEF CardInv, SessionsApart, Reading, User
<1>1. ASSUME NEW u \in User, Fails(u), UNCHANGED selected PROVE Reading'
  <2>1. /\ aids' = aids /\ quiet' = [quiet EXCEPT ![u] = FALSE]
        /\ \E a \in {resolved[u], "usim", "failed"} : resolved' = [resolved EXCEPT ![u] = a]
    BY <1>1, FailureSteps
  <2>2. \A v \in User \ {u} : pc'[v] = pc[v]
    BY <1>1, FailureSteps, DoTyped, NumbersTyped
  <2>3. \A v \in User : (quiet'[v] => quiet[v]) /\ (v = u => ~quiet'[v])
    BY <1>0, <2>1 DEF CardTypeOK
  <2>4. \A v \in User \ {u} : resolved'[v] = resolved[v]
    BY <1>0, <2>1 DEF CardTypeOK
  <2>5. QED
    BY <1>0, <1>1, <2>1, <2>2, <2>3, <2>4, NothingRead
\* A step that begins or ends a command that reads nothing.
<1>2. ASSUME NEW u \in User, NEW what \in {"idle", "clear", "open", "transmit", "close"},
             NEW n \in Nat, Do(u, what, n), UNCHANGED <<selected, aids, quiet>>,
             resolved' = resolved \/ resolved' = [resolved EXCEPT ![u] = NoUser]
      PROVE  Reading'
  <2>1. /\ pc'[u] = [do |-> what, n |-> n, leased |-> FALSE]
        /\ \A v \in User \ {u} : pc'[v] = pc[v]
    <3>1. what \in {"idle", "mf", "dir", "record", "clear", "open", "transmit", "close"}
      OBVIOUS
    <3>2. QED
      BY <1>2, <3>1, DoTyped
  <2>2. \A v \in Auth : resolved'[v] = "failed" => resolved[v] = "failed"
    BY <1>0, <1>2, CardAssumption DEF CardTypeOK
  <2>3. QED
    BY <1>2, <2>1, <2>2, NothingRead
<1>3. ASSUME NEW u \in User, BeginResolve(u) PROVE Reading'
  <2>1. /\ u \in Auth /\ Do(u, "mf", 0) /\ resolved[u] = NoUser
        /\ UNCHANGED <<selected, resolved>>
    BY <1>3 DEF BeginResolve
  <2>2. /\ pc'[u] = [do |-> "mf", n |-> 0, leased |-> FALSE]
        /\ \A v \in User \ {u} : pc'[v] = pc[v]
    BY <1>0, <2>1, DoTyped
  <2>3. \A v \in User \ {u} : ~quiet'[v]
    BY <1>3 DEF BeginResolve
  <2>4. \A v \in User : ReadSoFar(v)'
    BY <2>2, <2>3 DEF ReadSoFar
  <2>5. NoUser # "failed"
    BY CardAssumption
  <2>6. Resolves'
    BY <1>0, <2>1, <2>3, <2>5 DEF Resolves
  <2>7. QED
    BY <2>4, <2>6 DEF Reading
<1>4. ASSUME NEW u \in User, BeginClear(u) \/ BeginOpen(u) PROVE Reading'
  <2>1. (Do(u, "clear", 1) \/ Do(u, "open", 0)) /\ UNCHANGED <<selected, aids, quiet, resolved>>
    BY <1>4 DEF BeginClear, BeginOpen
  <2>2. QED
    BY <1>0, <1>2, <2>1
<1>5. ASSUME NEW u \in User, BeginTransmit(u) \/ BeginClose(u) PROVE Reading'
  <2>1. (Do(u, "transmit", channel[u]) \/ Do(u, "close", channel[u]))
        /\ channel[u] \in Nat /\ UNCHANGED <<selected, aids, quiet, resolved>>
    BY <1>0, <1>5, NumbersTyped DEF CardTypeOK, BeginTransmit, BeginClose
  <2>2. QED
    BY <1>2, <2>1
<1>6. ASSUME NEW u \in User, AcquireLease(u) PROVE Reading'
  <2>1. \A v \in User : pc'[v].do = pc[v].do /\ pc'[v].n = pc[v].n
    BY <1>0, <1>6 DEF CardTypeOK, Command, AcquireLease
  <2>2. UNCHANGED <<selected, aids, quiet, resolved>>
    BY <1>6 DEF AcquireLease
  <2>3. QED
    BY <1>0, <2>1, <2>2 DEF Reading, ReadSoFar, Resolves
<1>7. ASSUME NEW u \in User, LeaseTimeout(u) \/ CommandFails(u) PROVE Reading'
  BY <1>1, <1>7 DEF LeaseTimeout, CommandFails
<1>8. ASSUME NEW u \in User, SelectFile(u) PROVE Reading'
  <2>1. /\ (Do(u, "dir", 0) \/ (Do(u, "record", 1) /\ selected' = "dir"))
        /\ UNCHANGED <<aids, resolved>> /\ \A v \in User : (quiet'[v] => quiet[v] /\ v = u)
    BY <1>8 DEF SelectFile, Disturbs
  <2>2. \/ pc'[u] = [do |-> "dir", n |-> 0, leased |-> FALSE]
        \/ pc'[u] = [do |-> "record", n |-> 1, leased |-> FALSE] /\ selected' = "dir"
    BY <1>0, <2>1, DoTyped
  <2>3. 1..(1 - 1) = {}
    OBVIOUS
  <2>4. \A v \in User : ReadSoFar(v)'
    <3>1. ASSUME NEW v \in User, quiet'[v], pc'[v].do = "record"
          PROVE  selected' = "dir" /\ pc'[v].n = 1
      BY <2>1, <2>2, <3>1
    <3>2. QED
      BY <2>3, <3>1 DEF ReadSoFar
  <2>5. Resolves'
    BY <1>0, <2>1 DEF Reading, Resolves
  <2>6. QED
    BY <2>4, <2>5 DEF Reading
<1>9. ASSUME NEW u \in User, ReadRecord(u) PROVE Reading'
  <2>1. /\ pc[u].do = "record" /\ pc[u].n \in Records /\ u \in Auth /\ ReadSoFar(u)
        /\ UNCHANGED <<selected, quiet>>
    BY <1>0, <1>9 DEF ReadRecord, Runs, CommandFits, Reading
  <2>2. PICK ends \in BOOLEAN : NextRecord(u, ends) /\ (selected = "dir" => ~ends)
    BY <1>9 DEF ReadRecord
  <2>3. \/ /\ Do(u, "idle", 0) /\ resolved' = [resolved EXCEPT ![u] = MatchingAID(u)]
           /\ ends \/ pc[u].n = Len(Directory)
        \/ /\ Do(u, "record", pc[u].n + 1) /\ pc[u].n + 1 \in Records
           /\ UNCHANGED resolved
    BY <2>1, <2>2, NextSteps
  <2>4. /\ \/ pc'[u] = [do |-> "idle", n |-> 0, leased |-> FALSE]
           \/ pc'[u] = [do |-> "record", n |-> pc[u].n + 1, leased |-> FALSE]
        /\ \A v \in User \ {u} : pc'[v] = pc[v]
    BY <1>0, <2>3, DoTyped, NumbersTyped
  <2>5. \A v \in User \ {u} : aids'[v] = aids[v]
    BY <1>0, <1>9 DEF CardTypeOK, ReadRecord
  <2>6. \A r \in 1..pc[u].n : quiet[u] => Directory[r] \in aids'[u]
    <3>1. quiet[u] => selected = "dir" /\ \A r \in 1..pc[u].n - 1 : Directory[r] \in aids[u]
      BY <2>1 DEF ReadSoFar
    <3>2. selected = "dir" => aids' = [aids EXCEPT ![u] = aids[u] \cup {Directory[pc[u].n]}]
      BY <1>9 DEF ReadRecord, AppendUniqueAIDs
    <3>3. selected = "dir" => aids'[u] = aids[u] \cup {Directory[pc[u].n]}
      BY <1>0, <3>2 DEF CardTypeOK
    <3>4. \A r \in 1..pc[u].n : r = pc[u].n \/ r \in 1..pc[u].n - 1
      BY <2>1, NumbersTyped
    <3>5. QED
      BY <3>1, <3>3, <3>4
  <2>7. ReadSoFar(u)'
    <3>1. CASE pc'[u] = [do |-> "idle", n |-> 0, leased |-> FALSE]
      BY <3>1 DEF ReadSoFar
    <3>2. CASE pc'[u] = [do |-> "record", n |-> pc[u].n + 1, leased |-> FALSE]
      <4>1. pc'[u].do = "record" /\ pc'[u].n = pc[u].n + 1
        BY <3>2
      <4>2. 1..pc'[u].n - 1 = 1..pc[u].n
        BY <2>1, <4>1, NumbersTyped
      <4>3. QED
        BY <2>1, <2>6, <4>1, <4>2 DEF ReadSoFar
    <3>3. QED
      BY <2>4, <3>1, <3>2
  <2>8. \A v \in User \ {u} : ReadSoFar(v)'
    BY <1>0, <2>1, <2>4, <2>5 DEF Reading, ReadSoFar
  <2>9. Resolves'
    <3>1. ASSUME NEW v \in Auth, resolved'[v] = "failed", quiet'[v], NEW r \in Records
          PROVE  Directory[r] # "usim"
      <4>1. CASE resolved' = resolved \/ v # u
        <5>1. resolved[v] = "failed"
          BY <1>0, <2>3, <3>1, <4>1 DEF CardTypeOK
        <5>2. QED
          BY <1>0, <2>1, <3>1, <5>1 DEF Reading, Resolves
      <4>2. CASE v = u /\ resolved' # resolved
        <5>1. resolved' = [resolved EXCEPT ![u] = MatchingAID(u)]
              /\ (ends \/ pc[u].n = Len(Directory))
          BY <2>3, <4>2
        <5>2. "usim" \notin aids'[u]
          BY <1>0, <3>1, <4>2, <5>1 DEF CardTypeOK, MatchingAID
        <5>3. pc[u].n = Len(Directory)
          BY <2>1, <2>2, <3>1, <4>2, <5>1 DEF ReadSoFar
        <5>4. r \in 1..pc[u].n
          BY <5>3, CardAssumption DEF Records
        <5>5. QED
          BY <2>1, <2>6, <3>1, <4>2, <5>2, <5>4
      <4>3. QED
        BY <4>1, <4>2
    <3>2. QED
      BY <3>1 DEF Resolves
  <2>10. QED
    BY <2>7, <2>8, <2>9 DEF Reading
<1>10. ASSUME NEW u \in User, openLogicalChannel(u) \/ TransmitAPDU(u) \/ closeLogicalChannel(u)
       PROVE  Reading'
  <2>1. /\ Do(u, "idle", 0) /\ UNCHANGED <<selected, aids, quiet>>
        /\ (resolved' = resolved \/ resolved' = [resolved EXCEPT ![u] = NoUser])
    BY <1>10 DEF openLogicalChannel, TransmitAPDU, closeLogicalChannel
  <2>2. QED
    BY <1>0, <1>2, <2>1
<1>11. ASSUME NEW u \in User, ClearLogicalChannel(u) PROVE Reading'
  <2>1. pc[u].do = "clear" /\ NextChannel(u) /\ UNCHANGED <<selected, aids, quiet, resolved>>
    BY <1>11 DEF ClearLogicalChannel, Runs
  <2>2. Do(u, "idle", 0) \/ (Do(u, "clear", pc[u].n + 1) /\ pc[u].n + 1 \in Nat)
    BY <2>1, NextSteps, NumbersTyped
  <2>3. QED
    BY <1>0, <1>2, <2>1, <2>2
<1>12. CASE ReadFile
  BY <1>0, <1>12 DEF ReadFile, Reading, ReadSoFar, Resolves
<1>13. CASE UNCHANGED cardVars
  BY <1>0, <1>13 DEF cardVars, Reading, ReadSoFar, Resolves
<1>14. QED
  BY <1>3, <1>4, <1>5, <1>6, <1>7, <1>8, <1>9, <1>10, <1>11, <1>12, <1>13 DEF CardNext

LEMMA CardInitially ==
  CardInit => CardInv
<1> SUFFICES ASSUME CardInit PROVE CardInv
  OBVIOUS
<1>1. CardTypeOK
  BY DEF CardInit, CardTypeOK, Command, Idle
<1>2. \A u \in User : pc[u] = [do |-> "idle", n |-> 0, leased |-> FALSE] /\ channel[u] = 0
  BY DEF CardInit, Idle
<1>3. SessionFits /\ \A u \in User : CommandFits(u) /\ ChannelOwned(u) /\ ReadSoFar(u)
  BY <1>2 DEF CardInit, SessionFits, CommandFits, ChannelOwned, ReadSoFar
<1>4. SessionsApart
  BY CardAssumption
    DEF CardInit, SessionsApart, Resolves, OwnChannel, RegistryTrue, User
<1>5. QED
  BY <1>1, <1>3, <1>4 DEF CardInv

\* An authentication that nobody disturbs while it reads EF_DIR finds its application; no
\* command goes to another user's channel unless one was cleared under somebody; and until
\* something fails the registry of sessions names the channels that are open
\* (ResolveSIMAuthAID, openLogicalChannel, ClearLogicalChannels).
THEOREM SessionsAlwaysApart ==
  CardSpec => []SessionsApart
<1>1. CardInv /\ [CardNext]_cardVars => CardInv'
  <2> SUFFICES ASSUME CardInv, [CardNext]_cardVars PROVE CardInv'
    OBVIOUS
  <2>1. CardTypeOK' /\ SessionFits' /\ (\A u \in User : CommandFits(u)') /\ Owned' /\ Reading'
    BY CardTypesKept, FitsKept, OwnedKept, ReadingKept
  <2>2. QED
    BY <2>1 DEF CardInv, SessionsApart, Owned, Reading
<1>2. CardInv => SessionsApart
  BY DEF CardInv
<1>3. QED
  BY <1>1, <1>2, CardInitially, PTL DEF CardSpec
=============================================================================
