---------------------------- MODULE APDUArbiter ----------------------------
(***************************************************************************)
(* The APDU arbiter of internal/apduarbiter/arbiter.go: one mutex, one     *)
(* queue of tickets, the active leases and barriers, and a channel that is *)
(* closed and replaced to wake every waiter.                               *)
(*                                                                         *)
(* A client is a goroutine at one call site: it always issues the same     *)
(* request, at most one at a time, so the client also stands for the id of *)
(* its ticket.  Whatever runs between Lock and Unlock of a.mu is one step. *)
(* A waiter is "parked" while it blocks on the current notifyC and "ready" *)
(* once that channel is closed and it has yet to take the mutex again.     *)
(* Time is abstract: a ticket ages, a lease becomes overdue, a context may *)
(* expire at any moment or, when it has no deadline, never.                *)
(***************************************************************************)
EXTENDS Naturals, FiniteSets, Sequences, SequencesExt

CONSTANTS
  Client,            \* goroutines that ask for a lease or a barrier
  IdleWaiter,        \* goroutines that call WaitIdle
  RawRequest,        \* [Client -> what the call site passes]
  Hung,              \* clients that, once granted, never touch nor release
  MaxSessions,       \* opts.MaxSessions, after New's default
  MaxQMITransports   \* opts.MaxQMITransports, after New's default

LeaseType == {"session", "oneshot", "transport", "barrier"}
APDUClass == {"EUICCWrite", "EUICCRead", "USIMAKA", "SMSC", "SwitchBarrier", "Recovery"}
TransportScope == {"exclusive", "qmi_channel"}
Mode == {"QMI", "MBIM", "AT"}

\* What a caller may pass: an empty class, and an empty set of blocked
\* classes, ask for the default; "" is the scope of a caller that sets none.
RawRequestType ==
  [ leaseType : LeaseType, mode : Mode, class : APDUClass \cup {""},
    channel : Nat, scope : TransportScope \cup {""}, blocked : SUBSET APDUClass ]

ASSUME ClientAssumption ==
  /\ IsFiniteSet(Client)
  /\ Client \cap IdleWaiter = {}
  /\ RawRequest \in [Client -> RawRequestType]
  /\ Hung \subseteq Client

ASSUME LimitAssumption ==
  /\ MaxSessions \in Nat \ {0}
  /\ MaxQMITransports \in Nat \ {0}

NormalizeClass(class, leaseType) ==
  IF class # "" THEN class
  ELSE IF leaseType = "oneshot" THEN "USIMAKA"
  ELSE IF leaseType = "barrier" THEN "SwitchBarrier"
  ELSE "EUICCWrite"

\* Only a QMI transport on a logical channel may share the device.
NormalizeTransportScope(scope, mode, channel, leaseType) ==
  IF /\ leaseType = "transport"
     /\ scope = "qmi_channel"
     /\ mode = "QMI"
     /\ channel > 0
  THEN "qmi_channel" ELSE "exclusive"

NormalizeBlocked(blocked) ==
  IF blocked = {} THEN {"USIMAKA", "SMSC"} ELSE blocked

\* The ticket made from a request.
Ticket ==
  [ c \in Client |->
      LET r == RawRequest[c] IN
      [ leaseType |-> r.leaseType,
        class     |-> NormalizeClass(r.class, r.leaseType),
        channel   |-> r.channel,
        scope     |-> NormalizeTransportScope(r.scope, r.mode, r.channel, r.leaseType),
        blocked   |-> IF r.leaseType = "barrier"
                      THEN NormalizeBlocked(r.blocked) ELSE {} ] ]

VARIABLES
  pc,       \* [Client \cup IdleWaiter -> where the goroutine is]
  queue,    \* waiting tickets, a.queue
  active,   \* activeSessions, activeOneshot, activeTransports, activeBarriers
  aged,     \* non-AKA transports that wait for transportPriorityAging or more
  overdue,  \* active leases whose expiresAt is in the past
  fired     \* active leases whose timer fired, callback waiting for a.mu

vars == <<pc, queue, active, aged, overdue, fired>>

PC == {"idle", "parked", "ready", "held"}

OfType(type) == {c \in active : Ticket[c].leaseType = type}
activeSessions == OfType("session")
activeOneshot == OfType("oneshot")
activeTransports == OfType("transport")
activeBarriers == OfType("barrier")
activeLeases == active \ activeBarriers
qmiTransports == {c \in activeTransports : Ticket[c].scope = "qmi_channel"}
exclusiveTransports == activeTransports \ qmiTransports

isBarrier(c) == Ticket[c].leaseType = "barrier"
isTransport(c) == Ticket[c].leaseType = "transport"
agesInQueue(c) == isTransport(c) /\ Ticket[c].class # "USIMAKA"

TypeOK ==
  /\ pc \in [Client \cup IdleWaiter -> PC]
  /\ queue \in Seq(Client)
  /\ active \in SUBSET Client
  /\ aged \in SUBSET Client
  /\ overdue \in SUBSET Client
  /\ fired \in SUBSET Client

Init ==
  /\ pc = [p \in Client \cup IdleWaiter |-> "idle"]
  /\ queue = <<>>
  /\ active = {}
  /\ aged = {}
  /\ overdue = {}
  /\ fired = {}

----------------------------------------------------------------------------
(* Who may acquire.  q is the queue the waiter sees under the mutex.       *)

\* Mutant: a barrier blocks its own class only.
blockedByOwnClass(c) ==
  \E b \in activeBarriers : Ticket[c].class = Ticket[b].class

isBlockedByActiveBarrier(c) ==
  \E b \in activeBarriers : Ticket[c].class \in Ticket[b].blocked

hasPendingBarrierAhead(q, c) ==
  \E i \in DOMAIN q : \E j \in 1 .. (i - 1) :
    /\ q[i] = c
    /\ isBarrier(q[j])
    /\ Ticket[c].class \in Ticket[q[j]].blocked

queueHeadIs(q, c) == q # <<>> /\ q[1] = c

\* Mutant: QMI transports may share a channel.
transportOnAnyChannel(c) ==
  IF Ticket[c].scope # "qmi_channel"
  THEN activeTransports = {}
  ELSE /\ exclusiveTransports = {}
       /\ Cardinality(qmiTransports) < MaxQMITransports

canAcquireTransportNow(c) ==
  IF Ticket[c].scope # "qmi_channel"
  THEN activeTransports = {}
  ELSE /\ exclusiveTransports = {}
       /\ Cardinality(qmiTransports) < MaxQMITransports
       /\ \A t \in qmiTransports : Ticket[t].channel # Ticket[c].channel

\* Mutant: a waiting exclusive transport lets QMI transports pass.
exclusiveDoesNotGate(c) ==
  \/ exclusiveTransports # {}
  \/ Cardinality(qmiTransports) >= MaxQMITransports

transportWaitGatesQueue(c) ==
  \/ Ticket[c].scope # "qmi_channel"
  \/ exclusiveTransports # {}
  \/ Cardinality(qmiTransports) >= MaxQMITransports

\* The scan of selectedTransportLocked ends at such a ticket.
endsScan(c) ==
  \/ ~isTransport(c)
  \/ /\ ~isBlockedByActiveBarrier(c)
     /\ ~canAcquireTransportNow(c)
     /\ transportWaitGatesQueue(c)

eligiblePositions(q) ==
  { i \in DOMAIN q :
      /\ \A j \in 1 .. i : ~endsScan(q[j])
      /\ ~isBlockedByActiveBarrier(q[i])
      /\ canAcquireTransportNow(q[i]) }

\* Aged non-AKA tickets go first, then AKA, then the rest.
priority(c) ==
  IF c \in aged THEN 0 ELSE IF Ticket[c].class = "USIMAKA" THEN 1 ELSE 2

selectedTransport(q, c) ==
  \E i \in eligiblePositions(q) :
    /\ q[i] = c
    /\ \A j \in eligiblePositions(q) :
         \/ priority(q[j]) > priority(c)
         \/ priority(q[j]) = priority(c) /\ j >= i

selectedBarrier(q, c) ==
  \E i \in DOMAIN q :
    /\ q[i] = c
    /\ \A j \in 1 .. (i - 1) : ~isBarrier(q[j])

\* Mutant: one session too many.
sessionOverLimit(q, c) ==
  /\ Ticket[c].leaseType = "session"
  /\ queueHeadIs(q, c)
  /\ activeOneshot = {}
  /\ activeTransports = {}
  /\ Cardinality(activeSessions) <= MaxSessions

canAcquireSession(q, c) ==
  /\ Ticket[c].leaseType = "session"
  /\ queueHeadIs(q, c)
  /\ activeOneshot = {}
  /\ activeTransports = {}
  /\ Cardinality(activeSessions) < MaxSessions

canAcquireOneShot(q, c) ==
  /\ Ticket[c].leaseType = "oneshot"
  /\ queueHeadIs(q, c)
  /\ activeSessions = {}
  /\ activeOneshot = {}
  /\ activeTransports = {}

canAcquireTransport(q, c) ==
  /\ isTransport(c)
  /\ activeSessions = {}
  /\ activeOneshot = {}
  /\ selectedTransport(q, c)

canAcquireLease(q, c) ==
  /\ ~isBarrier(c)
  /\ ~isBlockedByActiveBarrier(c)
  /\ ~hasPendingBarrierAhead(q, c)
  /\ \/ canAcquireSession(q, c)
     \/ canAcquireOneShot(q, c)
     \/ canAcquireTransport(q, c)

\* Mutant: a barrier does not wait for the transports.
barrierOverTransports(q, c) ==
  /\ isBarrier(c)
  /\ activeSessions = {}
  /\ activeOneshot = {}
  /\ selectedBarrier(q, c)

canAcquireBarrier(q, c) ==
  /\ isBarrier(c)
  /\ activeLeases = {}
  /\ selectedBarrier(q, c)

canAcquire(q, c) == canAcquireLease(q, c) \/ canAcquireBarrier(q, c)

isIdle == active = {} /\ queue = <<>>

----------------------------------------------------------------------------
(* Steps.                                                                  *)

\* Mutant: the head leaves the queue whoever goes.
removeHead(q, c) == Tail(q)

removeTicket(q, c) == RemoveAt(q, CHOOSE i \in DOMAIN q : q[i] = c)

\* Mutant: the waiters are not woken.
MoveOnly(p, s) == pc' = [pc EXCEPT ![p] = s]

\* signalLocked: every waiter blocked on notifyC wakes.  p moves on to s.
SignalAndMove(p, s) ==
  pc' = [ r \in DOMAIN pc |-> IF r = p THEN s
                              ELSE IF pc[r] = "parked" THEN "ready"
                              ELSE pc[r] ]

\* The ticket of c becomes an active lease with a fresh watchdog, or a barrier.
Grant(c) ==
  /\ active' = active \cup {c}
  /\ aged' = aged \ {c}
  /\ SignalAndMove(c, "held")
  /\ UNCHANGED <<overdue, fired>>

\* acquire, BeginBarrier: enqueue and first check, under one hold of a.mu.
Request(c) ==
  /\ pc[c] = "idle"
  /\ LET q == Append(queue, c) IN
     \/ /\ canAcquire(q, c)
        /\ queue' = removeTicket(q, c)
        /\ Grant(c)
     \/ /\ ~canAcquire(q, c)
        /\ queue' = q
        /\ SignalAndMove(c, "parked")
        /\ UNCHANGED <<active, aged, overdue, fired>>

\* The loop of acquire and BeginBarrier after notifyC was closed.
Recheck(c) ==
  /\ pc[c] = "ready"
  /\ \/ /\ canAcquire(queue, c)
        /\ queue' = removeTicket(queue, c)
        /\ Grant(c)
     \/ /\ ~canAcquire(queue, c)
        /\ pc' = [pc EXCEPT ![c] = "parked"]
        /\ UNCHANGED <<queue, active, aged, overdue, fired>>

\* ctx.Done wins the select, also when notifyC is closed as well.
WaitTimeout(c) ==
  /\ pc[c] \in {"parked", "ready"}
  /\ queue' = removeTicket(queue, c)
  /\ aged' = aged \ {c}
  /\ SignalAndMove(c, "idle")
  /\ UNCHANGED <<active, overdue, fired>>

\* Lease.Release and Barrier.Release; nothing is left to do after a forced
\* release, and the timer of a released lease is stopped.
Release(c) ==
  /\ pc[c] = "held"
  /\ c \notin Hung
  /\ IF c \in active
     THEN /\ active' = active \ {c}
          /\ SignalAndMove(c, "idle")
     ELSE /\ pc' = [pc EXCEPT ![c] = "idle"]
          /\ UNCHANGED active
  /\ overdue' = overdue \ {c}
  /\ fired' = fired \ {c}
  /\ UNCHANGED <<queue, aged>>

\* Lease.Touch: expiresAt and the timer start over; a callback that has
\* already fired stays on its way to the mutex.
Touch(c) ==
  /\ pc[c] = "held"
  /\ c \notin Hung
  /\ c \in overdue
  /\ overdue' = overdue \ {c}
  /\ UNCHANGED <<pc, queue, active, aged, fired>>

\* Mutant: the callback does not look at expiresAt again.
ExpireWithoutLook(c) ==
  /\ c \in fired
  /\ fired' = fired \ {c}
  /\ active' = active \ {c}
  /\ overdue' = overdue \ {c}
  /\ SignalAndMove(c, pc[c])
  /\ UNCHANGED <<queue, aged>>

\* Mutant: the callback drops the lease and tells nobody.
ExpireSilently(c) ==
  /\ c \in fired
  /\ fired' = fired \ {c}
  /\ active' = active \ (overdue \cap {c})
  /\ overdue' = overdue \ {c}
  /\ UNCHANGED <<pc, queue, aged>>

\* releaseExpired: the callback re-arms the timer when the lease was touched
\* meanwhile, and otherwise takes the lease away from its holder.
ReleaseExpired(c) ==
  /\ c \in fired
  /\ fired' = fired \ {c}
  /\ IF c \in overdue
     THEN /\ active' = active \ {c}
          /\ overdue' = overdue \ {c}
          /\ SignalAndMove(c, pc[c])
     ELSE UNCHANGED <<pc, active, overdue>>
  /\ UNCHANGED <<queue, aged>>

\* MaxLeaseHold passes since the last Touch: the timer fires.
Elapse(c) ==
  /\ c \in activeLeases \ overdue
  /\ overdue' = overdue \cup {c}
  /\ fired' = fired \cup {c}
  /\ UNCHANGED <<pc, queue, active, aged>>

\* transportPriorityAging passes for a ticket.  Tickets are stamped when they
\* enter the queue, so they age in the order of the queue.
Age(i) ==
  /\ i \in DOMAIN queue
  /\ agesInQueue(queue[i])
  /\ queue[i] \notin aged
  /\ \A j \in 1 .. (i - 1) : agesInQueue(queue[j]) => queue[j] \in aged
  /\ aged' = aged \cup {queue[i]}
  /\ UNCHANGED <<pc, queue, active, overdue, fired>>

\* WaitIdle: one turn of its loop.
WaitIdle(w) ==
  /\ pc[w] \in {"idle", "ready"}
  /\ pc' = [pc EXCEPT ![w] = IF isIdle THEN "held" ELSE "parked"]
  /\ UNCHANGED <<queue, active, aged, overdue, fired>>

\* WaitIdle returned, or gave up when its context ended.
WaitIdleReturn(w) ==
  /\ pc[w] # "idle"
  /\ pc' = [pc EXCEPT ![w] = "idle"]
  /\ UNCHANGED <<queue, active, aged, overdue, fired>>

ClientStep(c) ==
  \/ Request(c)
  \/ Recheck(c)
  \/ WaitTimeout(c)
  \/ Release(c)
  \/ Touch(c)
  \/ ReleaseExpired(c)
  \/ Elapse(c)

WaiterStep(w) == WaitIdle(w) \/ WaitIdleReturn(w)

Next ==
  \/ \E c \in Client : ClientStep(c)
  \/ \E w \in IdleWaiter : WaiterStep(w)
  \/ \E i \in DOMAIN queue : Age(i)

Spec == Init /\ [][Next]_vars

\* Goroutines keep running, timers fire, and a caller that is not hung gives
\* its lease back (every call site defers Release).  Contexts may have no
\* deadline, so WaitTimeout is not fair; nor are new requests.
Fairness ==
  \A c \in Client :
    /\ WF_vars(Recheck(c))
    /\ WF_vars(Release(c))
    /\ WF_vars(Elapse(c))
    /\ WF_vars(ReleaseExpired(c))

FairSpec == Spec /\ Fairness

----------------------------------------------------------------------------
(* Properties.                                                             *)

waiting(c) == pc[c] \in {"parked", "ready"}

\* Two leases are active together only as sessions or as QMI transports on
\* different channels: a one-shot and an exclusive transport are alone.
MayShare(c, d) ==
  \/ Ticket[c].leaseType = "session" /\ Ticket[d].leaseType = "session"
  \/ /\ Ticket[c].scope = "qmi_channel"
     /\ Ticket[d].scope = "qmi_channel"
     /\ Ticket[c].channel # Ticket[d].channel

LeasesExclusive ==
  \A c, d \in activeLeases : c # d => MayShare(c, d)

\* Neither limit of Options is exceeded, forced releases included.
WithinLimits ==
  /\ Cardinality(activeSessions) <= MaxSessions
  /\ Cardinality(qmiTransports) <= MaxQMITransports

\* While a barrier is active, no lease of a class it blocks is: not one that
\* was active before it, and not one that waited across its start.
BarrierShields ==
  \A b \in activeBarriers : \A c \in activeLeases :
    Ticket[c].class \notin Ticket[b].blocked

\* A ticket is in the queue exactly while its goroutine waits for it, once,
\* and never together with its lease: a timeout that races a grant neither
\* leaves a ticket nobody waits for nor a lease nobody holds.
TicketsOwned ==
  /\ \A c \in Client : (c \in ToSet(queue)) <=> waiting(c)
  /\ \A i, j \in DOMAIN queue : queue[i] = queue[j] => i = j
  /\ \A c \in active : pc[c] = "held"
  /\ aged \subseteq ToSet(queue)
  /\ overdue \cup fired \subseteq activeLeases
  /\ overdue \subseteq fired

\* Every change that lets a waiter go on wakes it, so a waiter that is parked
\* has nothing to do.  The one exception is the passage of time, which signals
\* nobody: a parked transport may have come due by ageing.
NoMissedWakeup ==
  /\ \A c \in Client : pc[c] = "parked" /\ canAcquire(queue, c) => c \in aged
  /\ \A w \in IdleWaiter : pc[w] = "parked" => ~isIdle

\* The watchdog takes a lease away only when it has not been touched for
\* MaxLeaseHold, even if its callback fired before a Touch and ran after it.
WatchdogRespectsTouch ==
  [][ \A c \in active \ active' : c \in overdue \/ pc'[c] = "idle" ]_vars

waitsForChannel(d) ==
  /\ Ticket[d].scope = "qmi_channel"
  /\ exclusiveTransports = {}
  /\ Cardinality(qmiTransports) < MaxQMITransports
  /\ \E t \in qmiTransports : Ticket[t].channel = Ticket[d].channel

mayOvertake(c, d) ==
  \/ isBarrier(c) /\ ~isBarrier(d)
  \/ /\ isTransport(c)
     /\ isTransport(d)
     /\ \/ isBlockedByActiveBarrier(d)
        \/ priority(c) < priority(d)
        \/ waitsForChannel(d)

ahead(d, c) ==
  \E i \in DOMAIN queue : /\ queue[i] = d
                          /\ \A j \in DOMAIN queue : queue[j] = c => i < j

\* When c is granted past d, which waits ahead of it, then c is a barrier and
\* d a lease, or both are transports and d is held back by a barrier, has a
\* lower priority, or waits for its own QMI channel and for nothing else.
OrderKept ==
  [][ \A c \in active' \ active : \A d \in ToSet(queue) \ {c} :
        ahead(d, c) => mayOvertake(c, d) ]_vars

\* Once no profile switch is under way any more, every request ends by a grant,
\* even though holders may hang and new requests keep coming.  A caller without
\* a deadline counts on it.
noBarrier == \A c \in Client : isBarrier(c) => ~waiting(c) /\ c \notin active

RequestsServed ==
  <>[]noBarrier => \A c \in Client : waiting(c) ~> ~waiting(c)

\* A waiting barrier gets in, however many leases are asked for meanwhile and
\* even if one of their holders hangs.
BarrierEnters == \A c \in Client : isBarrier(c) => (waiting(c) ~> ~waiting(c))

\* The arbiter implements APDUAccess.  A lease stays out while a barrier on its
\* class or a lease it may not share with is active, a barrier while any lease
\* is; a lease may join an active barrier that does not block its class.
Conflict ==
  { p \in Client \X Client :
      LET c == p[1]
          d == p[2] IN
      /\ c # d
      /\ IF isBarrier(d)
         THEN ~isBarrier(c) /\ Ticket[c].class \in Ticket[d].blocked
         ELSE isBarrier(c) \/ ~MayShare(c, d) }

Access == INSTANCE APDUAccess WITH holders <- active

AccessSpec == Access!Spec

\* A transport that has waited for transportPriorityAging is served before
\* anything else: it does not wait for ever, whatever the stream of AKA.
AgedServed == \A c \in Client : c \in aged ~> c \notin aged
============================================================================
