------------------------- MODULE APDUArbiterProofs -------------------------
(***************************************************************************)
(* Proofs about APDUArbiter, for any set of clients and requests.          *)
(***************************************************************************)
EXTENDS APDUArbiter, FiniteSetTheorems, SequenceTheorems, TLAPS

----------------------------------------------------------------------------
(* Operators.                                                              *)

LEMMA TicketType ==
  \A c \in Client :
    /\ Ticket[c].leaseType \in LeaseType
    /\ Ticket[c].scope \in TransportScope
    /\ Ticket[c].scope = "qmi_channel" => isTransport(c)
BY ClientAssumption
DEF Ticket, RawRequestType, NormalizeTransportScope, LeaseType, TransportScope,
    isTransport

Distinct(q) == \A i, j \in DOMAIN q : q[i] = q[j] => i = j

\* Taking the ticket of c out of the queue takes out nothing else.
LEMMA RemoveTicket ==
  ASSUME NEW q \in Seq(Client), Distinct(q), NEW c \in ToSet(q)
  PROVE  /\ removeTicket(q, c) \in Seq(Client)
         /\ Distinct(removeTicket(q, c))
         /\ ToSet(removeTicket(q, c)) = ToSet(q) \ {c}
<1> DEFINE k == CHOOSE i \in DOMAIN q : q[i] = c
           r == removeTicket(q, c)
<1>1. k \in DOMAIN q /\ q[k] = c
  BY DEF ToSet
<1>2. k \in 1 .. Len(q) /\ Len(q) \in Nat
  BY <1>1
<1> HIDE DEF k
<1>3. /\ r \in Seq(Client)
      /\ Len(r) = Len(q) - 1
      /\ \A j \in 1 .. Len(q) - 1 : r[j] = IF j < k THEN q[j] ELSE q[j + 1]
  <2> DEFINE s == SubSeq(q, 1, k - 1)
             t == SubSeq(q, k + 1, Len(q))
  <2>1. /\ s \in Seq(Client)
        /\ Len(s) = k - 1
        /\ \A j \in 1 .. k - 1 : s[j] = q[j]
    BY <1>2, SubSeqProperties
  <2>2. /\ t \in Seq(Client)
        /\ Len(t) = Len(q) - k
        /\ \A j \in 1 .. Len(q) - k : t[j] = q[k + j]
    BY <1>2, SubSeqProperties
  <2>3. r = s \o t
    BY DEF removeTicket, RemoveAt, k
  <2> HIDE DEF s, t, r
  <2>4. /\ s \o t \in Seq(Client)
        /\ Len(s \o t) = Len(q) - 1
        /\ \A j \in 1 .. Len(q) - 1 :
             (s \o t)[j] = IF j <= k - 1 THEN s[j] ELSE t[j - (k - 1)]
    <3>1. /\ s \o t \in Seq(Client)
          /\ Len(s \o t) = Len(s) + Len(t)
          /\ \A j \in 1 .. Len(s) + Len(t) :
               (s \o t)[j] = IF j <= Len(s) THEN s[j] ELSE t[j - Len(s)]
      BY <2>1, <2>2, ConcatProperties
    <3>2. Len(s) + Len(t) = Len(q) - 1
      BY <1>2, <2>1, <2>2
    <3>3. QED
      BY <3>1, <3>2, <2>1
  <2>5. ASSUME NEW j \in 1 .. Len(q) - 1
        PROVE  r[j] = IF j < k THEN q[j] ELSE q[j + 1]
    <3>1. CASE j < k
      <4>1. j <= k - 1 /\ j \in 1 .. k - 1
        BY <3>1, <1>2
      <4>2. r[j] = s[j]
        BY <4>1, <2>3, <2>4
      <4>3. QED
        BY <3>1, <4>1, <4>2, <2>1
    <3>2. CASE ~(j < k)
      <4>1. ~(j <= k - 1)
        BY <3>2, <1>2
      <4>2. r[j] = t[j - (k - 1)]
        BY <4>1, <2>3, <2>4
      <4>3. j - (k - 1) \in 1 .. Len(q) - k
        BY <3>2, <1>2
      <4>4. k + (j - (k - 1)) = j + 1
        BY <1>2
      <4>5. QED
        BY <3>2, <4>2, <4>3, <4>4, <2>2
    <3>3. QED
      BY <3>1, <3>2
  <2>6. QED
    BY <2>3, <2>4, <2>5
<1> HIDE DEF r
<1>4. DOMAIN r = 1 .. Len(q) - 1
  BY <1>3
<1>5. Distinct(r)
  BY <1>2, <1>3, <1>4, SMTT(30) DEF Distinct
<1>6. ToSet(r) = ToSet(q) \ {c}
  <2>1. ASSUME NEW j \in DOMAIN r
        PROVE  r[j] \in ToSet(q) \ {c}
    BY <1>1, <1>2, <1>3, <1>4, <2>1, SMTT(30) DEF ToSet, Distinct
  <2>2. ASSUME NEW i \in DOMAIN q, q[i] # c
        PROVE  q[i] \in ToSet(r)
    <3>1. CASE i < k
      BY <1>2, <1>3, <1>4, <3>1 DEF ToSet
    <3>2. CASE i > k
      <4>1. i - 1 \in DOMAIN r /\ r[i - 1] = q[i]
        BY <1>2, <1>3, <1>4, <3>2
      <4>2. QED
        BY <4>1 DEF ToSet
    <3>3. QED
      BY <1>1, <1>2, <2>2, <3>1, <3>2
  <2>3. QED
    BY <2>1, <2>2 DEF ToSet
<1>7. QED
  BY <1>3, <1>5, <1>6 DEF r

\* A new ticket goes behind the others.
LEMMA AppendTicket ==
  ASSUME NEW q \in Seq(Client), Distinct(q), NEW c \in Client, c \notin ToSet(q)
  PROVE  /\ Append(q, c) \in Seq(Client)
         /\ Distinct(Append(q, c))
         /\ ToSet(Append(q, c)) = ToSet(q) \cup {c}
<1> DEFINE r == Append(q, c)
<1>1. /\ r \in Seq(Client)
      /\ Len(r) = Len(q) + 1
      /\ \A i \in 1 .. Len(q) : r[i] = q[i]
      /\ r[Len(q) + 1] = c
  BY AppendProperties
<1>2. DOMAIN q = 1 .. Len(q) /\ DOMAIN r = 1 .. Len(q) + 1 /\ Len(q) \in Nat
  BY <1>1
<1> HIDE DEF r
<1>3. Distinct(r)
  <2>1. \A i \in 1 .. Len(q) : q[i] # c
    BY <1>2 DEF ToSet
  <2>2. QED
    BY <1>1, <1>2, <2>1 DEF Distinct
<1>4. ToSet(r) = ToSet(q) \cup {c}
  <2>1. ToSet(r) \subseteq ToSet(q) \cup {c}
    BY <1>1, <1>2 DEF ToSet
  <2>2. \A i \in DOMAIN q : i \in DOMAIN r /\ r[i] = q[i]
    BY <1>1, <1>2
  <2>3. Len(q) + 1 \in DOMAIN r
    BY <1>2
  <2>4. QED
    BY <1>1, <2>1, <2>2, <2>3 DEF ToSet
<1>5. QED
  BY <1>1, <1>3, <1>4 DEF r

\* Waking the waiters changes nothing about who waits and who holds.
LEMMA SignalEffect ==
  ASSUME TypeOK, NEW p \in Client, NEW s \in PC, SignalAndMove(p, s)
  PROVE  /\ pc' \in [Client \cup IdleWaiter -> PC]
         /\ pc'[p] = s
         /\ \A r \in Client \ {p} :
              /\ pc'[r] \in {"parked", "ready"} <=> pc[r] \in {"parked", "ready"}
              /\ pc'[r] = "held" <=> pc[r] = "held"
              /\ pc'[r] = "idle" <=> pc[r] = "idle"
BY DEF TypeOK, SignalAndMove, PC

----------------------------------------------------------------------------
(* Tickets: the queue, the goroutines and the active leases agree.         *)

TicketInv == TypeOK /\ TicketsOwned

LEMMA InitTickets == Init => TicketInv
<1> SUFFICES ASSUME Init PROVE TicketInv
  OBVIOUS
<1>1. TypeOK
  BY DEF Init, TypeOK, PC
<1>2. ToSet(queue) = {} /\ DOMAIN queue = {}
  BY DEF Init, ToSet
<1>3. \A c \in Client : ~waiting(c)
  BY DEF Init, waiting
<1>4. QED
  BY <1>1, <1>2, <1>3 DEF Init, TicketInv, TicketsOwned

LEMMA GrantTickets ==
  ASSUME TicketInv, NEW c \in Client, pc[c] \in {"idle", "ready"},
         NEW q \in Seq(Client), Distinct(q), ToSet(q) = ToSet(queue) \cup {c},
         queue' = removeTicket(q, c), Grant(c)
  PROVE  TicketInv'
<1>1. /\ queue' \in Seq(Client)
      /\ Distinct(queue')
      /\ ToSet(queue') = ToSet(queue) \ {c}
  BY RemoveTicket
<1>2. /\ pc' \in [Client \cup IdleWaiter -> PC]
      /\ pc'[c] = "held"
      /\ \A r \in Client \ {c} :
              /\ pc'[r] \in {"parked", "ready"} <=> pc[r] \in {"parked", "ready"}
              /\ pc'[r] = "held" <=> pc[r] = "held"
  BY SignalEffect DEF Grant, TicketInv, PC
<1>3. TypeOK'
  BY <1>1, <1>2 DEF TicketInv, TypeOK, Grant
<1>4. c \notin active
  BY DEF TicketInv, TicketsOwned
<1>5. activeLeases \subseteq activeLeases'
  BY <1>4 DEF Grant, activeLeases, activeBarriers, OfType
<1>6. TicketsOwned'
  <2>1. \A d \in Client : (d \in ToSet(queue)) <=> waiting(d)
    BY DEF TicketInv, TicketsOwned
  <2>2. \A d \in Client : (d \in ToSet(queue')) <=> waiting(d)'
    BY <1>1, <1>2, <2>1 DEF waiting
  <2>3. \A d \in active' : pc'[d] = "held"
    BY <1>2 DEF Grant, TicketInv, TicketsOwned, TypeOK
  <2>4. aged' \subseteq ToSet(queue')
    BY <1>1 DEF Grant, TicketInv, TicketsOwned
  <2>5. overdue' \cup fired' \subseteq activeLeases' /\ overdue' \subseteq fired'
    BY <1>5 DEF Grant, TicketInv, TicketsOwned
  <2>6. QED
    BY <1>1, <2>2, <2>3, <2>4, <2>5 DEF TicketsOwned, Distinct
<1>7. QED
  BY <1>3, <1>6 DEF TicketInv

LEMMA RequestTickets ==
  ASSUME TicketInv, NEW c \in Client, Request(c)
  PROVE  TicketInv'
<1> DEFINE q == Append(queue, c)
<1>1. queue \in Seq(Client) /\ Distinct(queue)
  BY DEF TicketInv, TypeOK, TicketsOwned, Distinct
<1>2. c \notin ToSet(queue)
  BY DEF Request, TicketInv, TicketsOwned, waiting
<1>3. q \in Seq(Client) /\ Distinct(q) /\ ToSet(q) = ToSet(queue) \cup {c}
  BY <1>1, <1>2, AppendTicket
<1> HIDE DEF q
<1>4. CASE queue' = removeTicket(q, c) /\ Grant(c)
  BY <1>3, <1>4, GrantTickets DEF Request
<1>5. CASE /\ queue' = q
           /\ SignalAndMove(c, "parked")
           /\ UNCHANGED <<active, aged, overdue, fired>>
  <2>1. /\ pc' \in [Client \cup IdleWaiter -> PC]
        /\ pc'[c] = "parked"
        /\ \A r \in Client \ {c} :
              /\ pc'[r] \in {"parked", "ready"} <=> pc[r] \in {"parked", "ready"}
              /\ pc'[r] = "held" <=> pc[r] = "held"
    BY <1>5, SignalEffect DEF TicketInv, PC
  <2>2. TypeOK'
    BY <1>3, <1>5, <2>1 DEF TicketInv, TypeOK
  <2>3. \A d \in Client : (d \in ToSet(queue')) <=> waiting(d)'
    BY <1>3, <1>5, <2>1 DEF TicketInv, TicketsOwned, waiting
  <2>4. \A d \in active' : pc'[d] = "held"
    BY <1>5, <2>1 DEF Request, TicketInv, TicketsOwned, TypeOK
  <2>5. activeLeases' = activeLeases
    BY <1>5 DEF activeLeases, activeBarriers, OfType
  <2>6. QED
    BY <1>3, <1>5, <2>2, <2>3, <2>4, <2>5 DEF TicketInv, TicketsOwned, Distinct
<1>6. QED
  BY <1>4, <1>5 DEF Request, q

LEMMA RecheckTickets ==
  ASSUME TicketInv, NEW c \in Client, Recheck(c)
  PROVE  TicketInv'
<1>1. /\ queue \in Seq(Client)
      /\ Distinct(queue)
      /\ ToSet(queue) = ToSet(queue) \cup {c}
  BY DEF Recheck, TicketInv, TypeOK, TicketsOwned, Distinct, waiting
<1>2. CASE queue' = removeTicket(queue, c) /\ Grant(c)
  BY <1>1, <1>2, GrantTickets DEF Recheck
<1>3. CASE /\ pc' = [pc EXCEPT ![c] = "parked"]
           /\ UNCHANGED <<queue, active, aged, overdue, fired>>
  <2>1. TypeOK'
    BY <1>3 DEF TicketInv, TypeOK, PC
  <2>2. \A d \in Client : waiting(d)' <=> waiting(d)
    BY <1>3 DEF Recheck, TicketInv, TypeOK, waiting
  <2>3. \A d \in active' : pc'[d] = "held"
    BY <1>3 DEF Recheck, TicketInv, TicketsOwned, TypeOK
  <2>4. QED
    BY <1>3, <2>1, <2>2, <2>3
    DEF TicketInv, TicketsOwned, activeLeases, activeBarriers, OfType
<1>4. QED
  BY <1>2, <1>3 DEF Recheck

LEMMA WaitTimeoutTickets ==
  ASSUME TicketInv, NEW c \in Client, WaitTimeout(c)
  PROVE  TicketInv'
<1>1. /\ queue' \in Seq(Client)
      /\ Distinct(queue')
      /\ ToSet(queue') = ToSet(queue) \ {c}
  <2>1. queue \in Seq(Client) /\ Distinct(queue) /\ c \in ToSet(queue)
    BY DEF WaitTimeout, TicketInv, TypeOK, TicketsOwned, Distinct, waiting
  <2>2. QED
    BY <2>1, RemoveTicket DEF WaitTimeout
<1>2. /\ pc' \in [Client \cup IdleWaiter -> PC]
      /\ pc'[c] = "idle"
      /\ \A r \in Client \ {c} :
              /\ pc'[r] \in {"parked", "ready"} <=> pc[r] \in {"parked", "ready"}
              /\ pc'[r] = "held" <=> pc[r] = "held"
  BY SignalEffect DEF WaitTimeout, TicketInv, PC
<1>3. TypeOK'
  BY <1>1, <1>2 DEF WaitTimeout, TicketInv, TypeOK
<1>4. \A d \in Client : (d \in ToSet(queue')) <=> waiting(d)'
  BY <1>1, <1>2 DEF TicketInv, TicketsOwned, waiting
<1>5. \A d \in active' : pc'[d] = "held"
  BY <1>2 DEF WaitTimeout, TicketInv, TicketsOwned, TypeOK
<1>6. activeLeases' = activeLeases
  BY DEF WaitTimeout, activeLeases, activeBarriers, OfType
<1>7. QED
  BY <1>1, <1>3, <1>4, <1>5, <1>6
  DEF WaitTimeout, TicketInv, TicketsOwned, Distinct

\* Leases leave without touching the queue.
LEMMA LeaveTickets ==
  ASSUME TicketInv, NEW c \in Client, pc[c] = "held", NEW s \in {"idle", "held"},
         pc' \in [Client \cup IdleWaiter -> PC], pc'[c] = s,
         \A r \in Client \ {c} :
              /\ pc'[r] \in {"parked", "ready"} <=> pc[r] \in {"parked", "ready"}
              /\ pc'[r] = "held" <=> pc[r] = "held",
         active' = active \ {c}, overdue' = overdue \ {c}, fired' = fired \ {c},
         UNCHANGED <<queue, aged>>
  PROVE  TicketInv'
<1>1. TypeOK'
  BY DEF TicketInv, TypeOK
<1>2. \A d \in Client : waiting(d)' <=> waiting(d)
  BY DEF waiting
<1>3. \A d \in active' : pc'[d] = "held"
  BY DEF TicketInv, TicketsOwned, TypeOK
<1>4. activeLeases' = activeLeases \ {c}
  BY DEF activeLeases, activeBarriers, OfType
<1>5. QED
  BY <1>1, <1>2, <1>3, <1>4 DEF TicketInv, TicketsOwned

LEMMA ReleaseTickets ==
  ASSUME TicketInv, NEW c \in Client, Release(c)
  PROVE  TicketInv'
<1>1. /\ pc' \in [Client \cup IdleWaiter -> PC]
      /\ pc'[c] = "idle"
      /\ \A r \in Client \ {c} :
              /\ pc'[r] \in {"parked", "ready"} <=> pc[r] \in {"parked", "ready"}
              /\ pc'[r] = "held" <=> pc[r] = "held"
  <2>1. CASE SignalAndMove(c, "idle")
    BY <2>1, SignalEffect DEF TicketInv, PC
  <2>2. CASE pc' = [pc EXCEPT ![c] = "idle"]
    BY <2>2 DEF TicketInv, TypeOK, PC
  <2>3. QED
    BY <2>1, <2>2 DEF Release
<1>2. active' = active \ {c}
  BY DEF Release
<1>3. QED
  BY <1>1, <1>2, LeaveTickets DEF Release

LEMMA ReleaseExpiredTickets ==
  ASSUME TicketInv, NEW c \in Client, ReleaseExpired(c)
  PROVE  TicketInv'
<1>1. pc[c] = "held"
  BY DEF ReleaseExpired, TicketInv, TicketsOwned, activeLeases
<1>2. CASE c \in overdue
  <2>1. /\ pc' \in [Client \cup IdleWaiter -> PC]
        /\ pc'[c] = "held"
        /\ \A r \in Client \ {c} :
              /\ pc'[r] \in {"parked", "ready"} <=> pc[r] \in {"parked", "ready"}
              /\ pc'[r] = "held" <=> pc[r] = "held"
    BY <1>1, <1>2, SignalEffect DEF ReleaseExpired, TicketInv, PC
  <2>2. QED
    BY <1>1, <1>2, <2>1, LeaveTickets DEF ReleaseExpired
<1>3. CASE c \notin overdue
  <2>1. UNCHANGED <<pc, queue, active, aged, overdue>> /\ fired' = fired \ {c}
    BY <1>3 DEF ReleaseExpired
  <2>2. overdue \subseteq fired \ {c}
    BY <1>3 DEF TicketInv, TicketsOwned
  <2>3. QED
    BY <2>1, <2>2
    DEF TicketInv, TypeOK, TicketsOwned, waiting, activeLeases, activeBarriers, OfType
<1>4. QED
  BY <1>2, <1>3

LEMMA TouchTickets ==
  ASSUME TicketInv, NEW c \in Client, Touch(c)
  PROVE  TicketInv'
BY DEF Touch, TicketInv, TypeOK, TicketsOwned, waiting, activeLeases, activeBarriers,
       OfType

LEMMA ElapseTickets ==
  ASSUME TicketInv, NEW c \in Client, Elapse(c)
  PROVE  TicketInv'
BY DEF Elapse, TicketInv, TypeOK, TicketsOwned, waiting, activeLeases, activeBarriers,
       OfType

LEMMA AgeTickets ==
  ASSUME TicketInv, NEW i \in DOMAIN queue, Age(i)
  PROVE  TicketInv'
<1>1. queue[i] \in Client /\ queue[i] \in ToSet(queue)
  BY ElementOfSeq DEF TicketInv, TypeOK, ToSet
<1>2. QED
  BY <1>1
  DEF Age, TicketInv, TypeOK, TicketsOwned, waiting, activeLeases, activeBarriers, OfType

LEMMA WaiterTickets ==
  ASSUME TicketInv, NEW w \in IdleWaiter, WaiterStep(w)
  PROVE  TicketInv'
<1>1. /\ pc' \in [Client \cup IdleWaiter -> PC]
      /\ \A c \in Client : pc'[c] = pc[c]
      /\ UNCHANGED <<queue, active, aged, overdue, fired>>
  BY ClientAssumption
  DEF WaiterStep, WaitIdle, WaitIdleReturn, TicketInv, TypeOK, PC
<1>2. QED
  BY <1>1
  DEF TicketInv, TypeOK, TicketsOwned, waiting, activeLeases, activeBarriers, OfType

LEMMA NextTickets == TicketInv /\ [Next]_vars => TicketInv'
<1> SUFFICES ASSUME TicketInv, [Next]_vars PROVE TicketInv'
  OBVIOUS
<1>1. ASSUME NEW c \in Client, ClientStep(c) PROVE TicketInv'
  BY <1>1, RequestTickets, RecheckTickets, WaitTimeoutTickets, ReleaseTickets,
     TouchTickets, ReleaseExpiredTickets, ElapseTickets DEF ClientStep
<1>2. ASSUME NEW w \in IdleWaiter, WaiterStep(w) PROVE TicketInv'
  BY <1>2, WaiterTickets
<1>3. ASSUME NEW i \in DOMAIN queue, Age(i) PROVE TicketInv'
  BY <1>3, AgeTickets
<1>4. CASE UNCHANGED vars
  BY <1>4
  DEF vars, TicketInv, TypeOK, TicketsOwned, waiting, activeLeases, activeBarriers, OfType
<1>5. QED
  BY <1>1, <1>2, <1>3, <1>4 DEF Next

LEMMA TicketInvariant == Spec => []TicketInv
BY InitTickets, NextTickets, PTL DEF Spec

\* The state of the arbiter keeps its types.
THEOREM TypeCorrect == Spec => []TypeOK
BY TicketInvariant, PTL DEF TicketInv

\* No interleaving of grants, time-outs, releases and forced releases leaves a
\* ticket without its waiter or a lease without its holder.
THEOREM TicketsAlwaysOwned == Spec => []TicketsOwned
BY TicketInvariant, PTL DEF TicketInv

----------------------------------------------------------------------------
(* Admission: what every grant has checked, and what every step does to    *)
(* the set of active leases and barriers.                                  *)

LEMMA GrantAdmits ==
  ASSUME TypeOK, NEW c \in Client, NEW q, canAcquire(q, c)
  PROVE  /\ isBarrier(c) => activeLeases = {}
         /\ ~isBarrier(c) => ~isBlockedByActiveBarrier(c)
         /\ ~isBarrier(c) => \A d \in activeLeases :
                               c # d => MayShare(c, d) /\ MayShare(d, c)
         /\ Ticket[c].leaseType = "session"
              => Cardinality(activeSessions) < MaxSessions
         /\ Ticket[c].scope = "qmi_channel"
              => Cardinality(qmiTransports) < MaxQMITransports
<1>1. CASE canAcquireBarrier(q, c)
  BY <1>1, TicketType DEF canAcquireBarrier, isBarrier, isTransport
<1>2. CASE canAcquireLease(q, c)
  <2>1. ~isBarrier(c) /\ ~isBlockedByActiveBarrier(c)
    BY <1>2 DEF canAcquireLease
  <2>2. activeLeases = activeSessions \cup activeOneshot \cup activeTransports
    BY TicketType
    DEF TypeOK, activeLeases, activeBarriers, activeSessions, activeOneshot,
        activeTransports, OfType, LeaseType
  <2>3. CASE Ticket[c].leaseType = "session"
    <3>1. /\ activeOneshot = {}
          /\ activeTransports = {}
          /\ Cardinality(activeSessions) < MaxSessions
      BY <1>2, <2>3 DEF canAcquireLease, canAcquireSession, canAcquireOneShot,
                        canAcquireTransport, isTransport
    <3>2. \A d \in activeLeases : Ticket[d].leaseType = "session"
      BY <2>2, <3>1 DEF activeSessions, OfType
    <3>3. Ticket[c].scope # "qmi_channel"
      BY <2>3, TicketType DEF isTransport
    <3>4. QED
      BY <2>1, <2>3, <3>1, <3>2, <3>3 DEF MayShare
  <2>4. CASE Ticket[c].leaseType = "oneshot"
    <3>1. activeSessions = {} /\ activeOneshot = {} /\ activeTransports = {}
      BY <1>2, <2>4 DEF canAcquireLease, canAcquireSession, canAcquireOneShot,
                        canAcquireTransport, isTransport
    <3>2. Ticket[c].scope # "qmi_channel"
      BY <2>4, TicketType DEF isTransport
    <3>3. QED
      BY <2>1, <2>2, <2>4, <3>1, <3>2
  <2>5. CASE Ticket[c].leaseType = "transport"
    <3>1. activeSessions = {} /\ activeOneshot = {} /\ selectedTransport(q, c)
      BY <1>2, <2>5 DEF canAcquireLease, canAcquireSession, canAcquireOneShot,
                        canAcquireTransport
    <3>2. canAcquireTransportNow(c)
      BY <3>1 DEF selectedTransport, eligiblePositions
    <3>3. activeLeases = activeTransports
      BY <2>2, <3>1
    <3>4. CASE Ticket[c].scope = "qmi_channel"
      <4>1. /\ exclusiveTransports = {}
            /\ Cardinality(qmiTransports) < MaxQMITransports
            /\ \A t \in qmiTransports : Ticket[t].channel # Ticket[c].channel
        BY <3>2, <3>4 DEF canAcquireTransportNow
      <4>2. activeLeases = qmiTransports
        BY <3>3, <4>1 DEF exclusiveTransports, qmiTransports
      <4>3. QED
        BY <2>1, <2>5, <3>4, <4>1, <4>2 DEF MayShare, qmiTransports
    <3>5. CASE Ticket[c].scope # "qmi_channel"
      BY <2>1, <2>5, <3>2, <3>3, <3>5 DEF canAcquireTransportNow
    <3>6. QED
      BY <3>4, <3>5
  <2>6. QED
    BY <2>1, <2>3, <2>4, <2>5, TicketType DEF LeaseType, isBarrier
<1>3. QED
  BY <1>1, <1>2 DEF canAcquire

Joins(c) == /\ c \notin active
            /\ \E q : canAcquire(q, c)
            /\ active' = active \cup {c}

Leaves(c) == /\ c \in active
             /\ active' = active \ {c}
             /\ c \in overdue \/ pc'[c] = "idle"

LEMMA StepKinds ==
  ASSUME TicketInv, [Next]_vars
  PROVE  \/ \E c \in Client : Joins(c)
         \/ \E c \in Client : Leaves(c)
         \/ active' = active
<1>1. ASSUME NEW c \in Client, Request(c)
      PROVE  Joins(c) \/ active' = active
  <2>1. c \notin active
    BY <1>1 DEF Request, TicketInv, TicketsOwned
  <2>2. QED
    BY <1>1, <2>1 DEF Request, Grant, Joins
<1>2. ASSUME NEW c \in Client, Recheck(c)
      PROVE  Joins(c) \/ active' = active
  <2>1. c \notin active
    BY <1>2 DEF Recheck, TicketInv, TicketsOwned
  <2>2. QED
    BY <1>2, <2>1 DEF Recheck, Grant, Joins
<1>3. ASSUME NEW c \in Client, Release(c)
      PROVE  Leaves(c) \/ active' = active
  <2>1. c \in DOMAIN pc
    BY DEF TicketInv, TypeOK
  <2>2. QED
    BY <1>3, <2>1 DEF Release, SignalAndMove, Leaves
<1>4. ASSUME NEW c \in Client, ReleaseExpired(c)
      PROVE  Leaves(c) \/ active' = active
  BY <1>4 DEF ReleaseExpired, Leaves, TicketInv, TicketsOwned, activeLeases
<1>5. ASSUME NEW c \in Client, WaitTimeout(c) \/ Touch(c) \/ Elapse(c)
      PROVE  active' = active
  BY <1>5 DEF WaitTimeout, Touch, Elapse
<1>6. ASSUME NEW w \in IdleWaiter, WaiterStep(w)
      PROVE  active' = active
  BY <1>6 DEF WaiterStep, WaitIdle, WaitIdleReturn
<1>7. ASSUME NEW i \in DOMAIN queue, Age(i)
      PROVE  active' = active
  BY <1>7 DEF Age
<1>8. CASE UNCHANGED vars
  BY <1>8 DEF vars
<1>9. QED
  BY <1>1, <1>2, <1>3, <1>4, <1>5, <1>6, <1>7, <1>8 DEF Next, ClientStep

----------------------------------------------------------------------------
(* Exclusion.                                                              *)

AccessInv == LeasesExclusive /\ BarrierShields /\ WithinLimits

LEMMA InitAccess == Init => AccessInv
<1> SUFFICES ASSUME Init PROVE AccessInv
  OBVIOUS
<1>1. /\ activeLeases = {} /\ activeBarriers = {} /\ activeSessions = {}
      /\ qmiTransports = {}
  BY DEF Init, activeLeases, activeBarriers, activeSessions, qmiTransports,
         activeTransports, OfType
<1>2. QED
  BY <1>1, FS_EmptySet, LimitAssumption
  DEF AccessInv, LeasesExclusive, BarrierShields, WithinLimits

LEMMA JoinAccess ==
  ASSUME TicketInv, AccessInv, NEW c \in Client, Joins(c)
  PROVE  AccessInv'
<1>1. PICK q : canAcquire(q, c)
  BY DEF Joins
<1>2. TypeOK /\ active \subseteq Client /\ active' = active \cup {c} /\ c \notin active
  BY DEF TicketInv, TypeOK, Joins
<1>3. /\ isBarrier(c) => activeLeases = {}
      /\ ~isBarrier(c) => ~isBlockedByActiveBarrier(c)
      /\ ~isBarrier(c) => \A d \in activeLeases :
                            c # d => MayShare(c, d) /\ MayShare(d, c)
      /\ Ticket[c].leaseType = "session"
           => Cardinality(activeSessions) < MaxSessions
      /\ Ticket[c].scope = "qmi_channel"
           => Cardinality(qmiTransports) < MaxQMITransports
  BY <1>1, <1>2, GrantAdmits
<1>4. /\ isBarrier(c) => /\ activeLeases' = activeLeases
                         /\ activeBarriers' = activeBarriers \cup {c}
      /\ ~isBarrier(c) => /\ activeLeases' = activeLeases \cup {c}
                          /\ activeBarriers' = activeBarriers
  BY <1>2 DEF isBarrier, activeLeases, activeBarriers, OfType
<1>5. LeasesExclusive'
  BY <1>3, <1>4 DEF AccessInv, LeasesExclusive, MayShare
<1>6. BarrierShields'
  BY <1>3, <1>4 DEF AccessInv, BarrierShields, isBlockedByActiveBarrier
<1>7. Cardinality(activeSessions') <= MaxSessions
  <2>1. IsFiniteSet(activeSessions) /\ c \notin activeSessions
    BY <1>2, ClientAssumption, FS_Subset DEF activeSessions, OfType
  <2>2. Cardinality(activeSessions) \in Nat
    BY <2>1, FS_CardinalityType
  <2>3. CASE Ticket[c].leaseType = "session"
    <3>1. activeSessions' = activeSessions \cup {c}
      BY <1>2, <2>3 DEF activeSessions, OfType
    <3>2. QED
      BY <1>3, <2>1, <2>2, <2>3, <3>1, FS_AddElement, LimitAssumption
  <2>4. CASE Ticket[c].leaseType # "session"
    BY <1>2, <2>4 DEF AccessInv, WithinLimits, activeSessions, OfType
  <2>5. QED
    BY <2>3, <2>4
<1>8. Cardinality(qmiTransports') <= MaxQMITransports
  <2>1. IsFiniteSet(qmiTransports) /\ c \notin qmiTransports
    BY <1>2, ClientAssumption, FS_Subset DEF qmiTransports, activeTransports, OfType
  <2>2. Cardinality(qmiTransports) \in Nat
    BY <2>1, FS_CardinalityType
  <2>3. CASE Ticket[c].scope = "qmi_channel"
    <3>1. qmiTransports' = qmiTransports \cup {c}
      BY <1>2, <2>3, TicketType
      DEF qmiTransports, activeTransports, OfType, isTransport
    <3>2. QED
      BY <1>3, <2>1, <2>2, <2>3, <3>1, FS_AddElement, LimitAssumption
  <2>4. CASE Ticket[c].scope # "qmi_channel"
    BY <1>2, <2>4
    DEF AccessInv, WithinLimits, qmiTransports, activeTransports, OfType
  <2>5. QED
    BY <2>3, <2>4
<1>9. QED
  BY <1>5, <1>6, <1>7, <1>8 DEF AccessInv, WithinLimits

LEMMA LeaveAccess ==
  ASSUME TicketInv, AccessInv, active' \subseteq active
  PROVE  AccessInv'
<1>1. /\ activeLeases' \subseteq activeLeases
      /\ activeBarriers' \subseteq activeBarriers
      /\ activeSessions' \subseteq activeSessions
      /\ qmiTransports' \subseteq qmiTransports
  BY DEF activeLeases, activeBarriers, activeSessions, qmiTransports,
         activeTransports, OfType
<1>2. IsFiniteSet(activeSessions) /\ IsFiniteSet(qmiTransports)
  BY ClientAssumption, FS_Subset
  DEF TicketInv, TypeOK, activeSessions, qmiTransports, activeTransports, OfType
<1>3. LeasesExclusive' /\ BarrierShields'
  BY <1>1 DEF AccessInv, LeasesExclusive, BarrierShields, MayShare
<1>4. /\ Cardinality(activeSessions') <= Cardinality(activeSessions)
      /\ Cardinality(qmiTransports') <= Cardinality(qmiTransports)
      /\ {Cardinality(activeSessions'), Cardinality(activeSessions),
          Cardinality(qmiTransports'), Cardinality(qmiTransports)} \subseteq Nat
  BY <1>1, <1>2, FS_Subset, FS_CardinalityType
<1>5. WithinLimits'
  BY <1>4, LimitAssumption DEF AccessInv, WithinLimits
<1>6. QED
  BY <1>3, <1>5 DEF AccessInv

LEMMA AccessInvariant == Spec => []AccessInv
<1>1. TicketInv /\ AccessInv /\ [Next]_vars => AccessInv'
  <2> SUFFICES ASSUME TicketInv, AccessInv, [Next]_vars PROVE AccessInv'
    OBVIOUS
  <2>1. ASSUME NEW c \in Client, Leaves(c) PROVE AccessInv'
    BY <2>1, LeaveAccess DEF Leaves
  <2>2. CASE active' = active
    BY <2>2, LeaveAccess
  <2>3. QED
    BY <2>1, <2>2, StepKinds, JoinAccess
<1>2. QED
  BY <1>1, InitAccess, TicketInvariant, PTL DEF Spec

\* A one-shot or an exclusive transport is alone on the device, and two QMI
\* transports are on different channels, through every grant and forced release.
THEOREM LeasesAlwaysExclusive == Spec => []LeasesExclusive
BY AccessInvariant, PTL DEF AccessInv

\* No lease of a class it blocks is active together with a barrier.
THEOREM BarrierAlwaysShields == Spec => []BarrierShields
BY AccessInvariant, PTL DEF AccessInv

\* The limits of Options hold at all times.
THEOREM AlwaysWithinLimits == Spec => []WithinLimits
BY AccessInvariant, PTL DEF AccessInv

\* A lease that was touched since it became overdue is not taken away.
THEOREM WatchdogAlwaysRespectsTouch == Spec => WatchdogRespectsTouch
<1>1. TicketInv /\ [Next]_vars
        => [\A c \in active \ active' : c \in overdue \/ pc'[c] = "idle"]_vars
  BY StepKinds DEF Joins, Leaves
<1>2. QED
  BY <1>1, TicketInvariant, PTL DEF Spec, WatchdogRespectsTouch

----------------------------------------------------------------------------
(* Order.                                                                  *)

\* Whoever is granted out of queue q may overtake the tickets ahead of its own.
LEMMA GrantOvertakes ==
  ASSUME TypeOK, NEW q \in Seq(Client), NEW c \in Client, canAcquire(q, c),
         NEW i \in DOMAIN q, NEW d \in Client, q[i] = d, d # c,
         \A j \in DOMAIN q : q[j] = c => i < j
  PROVE  mayOvertake(c, d)
<1>1. DOMAIN q = 1 .. Len(q) /\ Len(q) \in Nat
  BY LenProperties
<1>2. CASE canAcquireBarrier(q, c)
  BY <1>1, <1>2 DEF canAcquireBarrier, selectedBarrier, mayOvertake
<1>3. CASE canAcquireSession(q, c) \/ canAcquireOneShot(q, c)
  <2>1. q[1] = c /\ 1 \in DOMAIN q
    BY <1>1, <1>3 DEF canAcquireSession, canAcquireOneShot, queueHeadIs
  <2>2. QED
    BY <1>1, <2>1
<1>4. CASE canAcquireTransport(q, c)
  <2>1. PICK k \in eligiblePositions(q) :
          /\ q[k] = c
          /\ \A j \in eligiblePositions(q) :
               \/ priority(q[j]) > priority(c)
               \/ priority(q[j]) = priority(c) /\ j >= k
    BY <1>4 DEF canAcquireTransport, selectedTransport
  <2>2. /\ k \in DOMAIN q
        /\ i < k
        /\ \A j \in 1 .. k : ~endsScan(q[j])
    BY <2>1 DEF eligiblePositions
  <2>3. ~endsScan(d) /\ isTransport(d)
    BY <1>1, <2>2 DEF endsScan
  <2>4. isTransport(c)
    BY <1>4 DEF canAcquireTransport
  <2>5. CASE isBlockedByActiveBarrier(d)
    BY <2>3, <2>4, <2>5 DEF mayOvertake
  <2>6. CASE ~isBlockedByActiveBarrier(d) /\ canAcquireTransportNow(d)
    <3>1. i \in eligiblePositions(q)
      BY <1>1, <2>2, <2>6 DEF eligiblePositions
    <3>2. priority(d) > priority(c)
      BY <1>1, <2>1, <2>2, <3>1
    <3>3. priority(c) < priority(d)
      BY <3>2 DEF priority
    <3>4. QED
      BY <2>3, <2>4, <3>3 DEF mayOvertake
  <2>7. CASE ~isBlockedByActiveBarrier(d) /\ ~canAcquireTransportNow(d)
    <3>1. Cardinality(qmiTransports) \in Nat
      BY ClientAssumption, FS_Subset, FS_CardinalityType
      DEF TypeOK, qmiTransports, activeTransports, OfType
    <3>2. waitsForChannel(d)
      BY <2>3, <2>7, <3>1, LimitAssumption
      DEF endsScan, transportWaitGatesQueue, canAcquireTransportNow, waitsForChannel
    <3>3. QED
      BY <2>3, <2>4, <3>2 DEF mayOvertake
  <2>8. QED
    BY <2>5, <2>6, <2>7
<1>5. QED
  BY <1>2, <1>3, <1>4 DEF canAcquire, canAcquireLease

LEMMA StepOvertakes ==
  ASSUME TicketInv, [Next]_vars,
         NEW c \in active' \ active, NEW d \in ToSet(queue) \ {c}, ahead(d, c)
  PROVE  mayOvertake(c, d)
<1>1. /\ TypeOK /\ queue \in Seq(Client)
      /\ DOMAIN queue = 1 .. Len(queue) /\ Len(queue) \in Nat
  BY LenProperties DEF TicketInv, TypeOK
<1>2. d \in Client
  BY <1>1, ElementOfSeq DEF ToSet
<1>3. PICK i \in DOMAIN queue :
        /\ queue[i] = d
        /\ \A j \in DOMAIN queue : queue[j] = c => i < j
  BY DEF ahead
<1>4. CASE c \in Client /\ Recheck(c)
  BY <1>1, <1>2, <1>3, <1>4, GrantOvertakes DEF Recheck
<1>5. CASE c \in Client /\ Request(c)
  <2> DEFINE q == Append(queue, c)
  <2>1. /\ q \in Seq(Client)
        /\ Len(q) = Len(queue) + 1
        /\ \A j \in 1 .. Len(queue) : q[j] = queue[j]
    BY <1>1, <1>5, AppendProperties
  <2>2. DOMAIN q = 1 .. Len(queue) + 1
    BY <2>1, LenProperties
  <2>3. canAcquire(q, c)
    BY <1>5 DEF Request
  <2> HIDE DEF q
  <2>4. i \in DOMAIN q /\ q[i] = d
    BY <1>1, <1>3, <2>1, <2>2
  <2>5. \A j \in DOMAIN q : q[j] = c => i < j
    BY <1>1, <1>3, <2>1, <2>2
  <2>6. QED
    BY <1>1, <1>2, <1>5, <2>1, <2>3, <2>4, <2>5, GrantOvertakes
<1>6. ASSUME NEW b \in Client, Request(b) \/ Recheck(b), b # c PROVE FALSE
  BY <1>6 DEF Request, Recheck, Grant
<1>7. ASSUME NEW b \in Client,
             WaitTimeout(b) \/ Release(b) \/ Touch(b) \/ ReleaseExpired(b) \/ Elapse(b)
      PROVE FALSE
  BY <1>7 DEF WaitTimeout, Release, Touch, ReleaseExpired, Elapse
<1>8. ASSUME NEW w \in IdleWaiter, WaiterStep(w) PROVE FALSE
  BY <1>8 DEF WaiterStep, WaitIdle, WaitIdleReturn
<1>9. ASSUME NEW k \in DOMAIN queue, Age(k) PROVE FALSE
  BY <1>9 DEF Age
<1>10. CASE UNCHANGED vars
  BY <1>10 DEF vars
<1>11. QED
  BY <1>4, <1>5, <1>6, <1>7, <1>8, <1>9, <1>10 DEF Next, ClientStep

\* However requests, time-outs, grants and ageing interleave, a grant passes over
\* an earlier ticket only for one of the reasons that mayOvertake names.
THEOREM OrderAlwaysKept == Spec => OrderKept
<1>1. TicketInv /\ [Next]_vars
        => [\A c \in active' \ active : \A d \in ToSet(queue) \ {c} :
              ahead(d, c) => mayOvertake(c, d)]_vars
  BY StepOvertakes
<1>2. QED
  BY <1>1, TicketInvariant, PTL DEF Spec, OrderKept

----------------------------------------------------------------------------
(* Wake-ups.                                                               *)

\* Ageing of x helps nobody but x.
LEMMA AgeingHelpsOne ==
  ASSUME NEW x, aged' = aged \cup {x}, UNCHANGED <<queue, active>>,
         NEW c, c # x, canAcquire(queue, c)'
  PROVE  canAcquire(queue, c)
<1>1. /\ activeBarriers' = activeBarriers /\ activeLeases' = activeLeases
      /\ activeSessions' = activeSessions /\ activeOneshot' = activeOneshot
      /\ activeTransports' = activeTransports /\ qmiTransports' = qmiTransports
      /\ exclusiveTransports' = exclusiveTransports
  BY DEF activeBarriers, activeLeases, activeSessions, activeOneshot, activeTransports,
         qmiTransports, exclusiveTransports, OfType
<1>2. \A t : /\ isBlockedByActiveBarrier(t)' <=> isBlockedByActiveBarrier(t)
             /\ canAcquireTransportNow(t)' <=> canAcquireTransportNow(t)
             /\ endsScan(t)' <=> endsScan(t)
  BY <1>1 DEF isBlockedByActiveBarrier, canAcquireTransportNow, endsScan,
              transportWaitGatesQueue, isTransport
<1>3. eligiblePositions(queue)' = eligiblePositions(queue)
  BY <1>2 DEF eligiblePositions
<1>4. \A t : /\ priority(t) \in 0..2 /\ priority(t)' \in 0..2
             /\ priority(t)' <= priority(t)
             /\ t # x => priority(t)' = priority(t)
  BY DEF priority
<1>5. selectedTransport(queue, c)' => selectedTransport(queue, c)
  <2> SUFFICES ASSUME selectedTransport(queue, c)' PROVE selectedTransport(queue, c)
    OBVIOUS
  <2>1. PICK i \in eligiblePositions(queue) :
          /\ queue[i] = c
          /\ \A j \in eligiblePositions(queue) :
               \/ priority(queue[j])' > priority(c)'
               \/ priority(queue[j])' = priority(c)' /\ j >= i
    BY <1>3 DEF selectedTransport
  <2>2. ASSUME NEW j \in eligiblePositions(queue)
        PROVE  \/ priority(queue[j]) > priority(c)
               \/ priority(queue[j]) = priority(c) /\ j >= i
    BY <1>4, <2>1, <2>2
  <2>3. QED
    BY <2>1, <2>2 DEF selectedTransport
<1>6. QED
  BY <1>1, <1>2, <1>5
  DEF canAcquire, canAcquireLease, canAcquireBarrier, canAcquireSession, canAcquireOneShot,
      canAcquireTransport, hasPendingBarrierAhead, selectedBarrier, queueHeadIs, isBarrier,
      isTransport

\* Who may acquire depends on the queue, the leases and the ages, and on nothing else.
LEMMA MayAcquireStable ==
  ASSUME UNCHANGED <<active, aged>>, NEW c
  PROVE  canAcquire(queue, c)' <=> canAcquire(queue', c)
<1>1. /\ activeBarriers' = activeBarriers /\ activeLeases' = activeLeases
      /\ activeSessions' = activeSessions /\ activeOneshot' = activeOneshot
      /\ activeTransports' = activeTransports /\ qmiTransports' = qmiTransports
      /\ exclusiveTransports' = exclusiveTransports
  BY DEF activeBarriers, activeLeases, activeSessions, activeOneshot, activeTransports,
         qmiTransports, exclusiveTransports, OfType
<1>2. \A t : /\ isBlockedByActiveBarrier(t)' <=> isBlockedByActiveBarrier(t)
             /\ canAcquireTransportNow(t)' <=> canAcquireTransportNow(t)
             /\ endsScan(t)' <=> endsScan(t)
             /\ priority(t)' = priority(t)
  BY <1>1 DEF isBlockedByActiveBarrier, canAcquireTransportNow, endsScan,
              transportWaitGatesQueue, isTransport, priority
<1>3. eligiblePositions(queue)' = eligiblePositions(queue')
  BY <1>2 DEF eligiblePositions
<1>4. selectedTransport(queue, c)' <=> selectedTransport(queue', c)
  BY <1>2, <1>3 DEF selectedTransport
<1>5. QED
  BY <1>1, <1>2, <1>4
  DEF canAcquire, canAcquireLease, canAcquireBarrier, canAcquireSession, canAcquireOneShot,
      canAcquireTransport, hasPendingBarrierAhead, selectedBarrier, queueHeadIs, isBarrier,
      isTransport

\* A signal leaves nobody parked but the one that parks itself.
LEMMA SignalWakes ==
  ASSUME TypeOK, NEW p, NEW s, SignalAndMove(p, s)
  PROVE  \A r \in (Client \cup IdleWaiter) \ {p} : pc'[r] # "parked"
BY DEF TypeOK, SignalAndMove

LEMMA ClientStepWakes ==
  ASSUME TicketInv, NoMissedWakeup, NEW c \in Client, ClientStep(c)
  PROVE  NoMissedWakeup'
<1>1. c \notin IdleWaiter /\ TypeOK
  BY ClientAssumption DEF TicketInv
<1>2. ASSUME NEW s \in {"idle", "held"}, SignalAndMove(c, s) PROVE NoMissedWakeup'
  <2>1. \A r \in Client \cup IdleWaiter : pc'[r] # "parked"
    BY <1>1, <1>2, SignalWakes DEF TypeOK, SignalAndMove
  <2>2. QED
    BY <2>1 DEF NoMissedWakeup
<1>3. ASSUME SignalAndMove(c, "parked"), ~canAcquire(queue', c), UNCHANGED <<active, aged>>
      PROVE  NoMissedWakeup'
  <2>1. \A r \in Client \cup IdleWaiter : pc'[r] = "parked" => r = c
    BY <1>1, <1>3, SignalWakes
  <2>2. ~canAcquire(queue, c)'
    BY <1>3, MayAcquireStable
  <2>3. QED
    BY <1>1, <2>1, <2>2 DEF NoMissedWakeup
<1>4. ASSUME UNCHANGED <<queue, active, aged>>, pc' = [pc EXCEPT ![c] = "idle"]
      PROVE  NoMissedWakeup'
  <2>1. \A r : canAcquire(queue, r)' <=> canAcquire(queue, r)
    BY <1>4, MayAcquireStable
  <2>2. \A r \in Client \cup IdleWaiter : pc'[r] = "parked" => pc[r] = "parked"
    BY <1>1, <1>4 DEF TypeOK
  <2>3. isIdle' <=> isIdle
    BY <1>4 DEF isIdle
  <2>4. QED
    BY <1>4, <2>1, <2>2, <2>3 DEF NoMissedWakeup
<1>5. ASSUME UNCHANGED <<queue, active, aged, pc>> PROVE NoMissedWakeup'
  <2>1. \A r : canAcquire(queue, r)' <=> canAcquire(queue, r)
    BY <1>5, MayAcquireStable
  <2>2. QED
    BY <1>5, <2>1 DEF NoMissedWakeup, isIdle
<1>6. CASE Request(c)
  BY <1>2, <1>3, <1>6 DEF Request, Grant
<1>7. CASE Recheck(c)
  <2>1. CASE Grant(c)
    BY <1>2, <2>1 DEF Grant
  <2>2. CASE /\ ~canAcquire(queue, c)
             /\ pc' = [pc EXCEPT ![c] = "parked"]
             /\ UNCHANGED <<queue, active, aged, overdue, fired>>
    <3>1. \A r : canAcquire(queue, r)' <=> canAcquire(queue, r)
      BY <2>2, MayAcquireStable
    <3>2. \A r \in Client \cup IdleWaiter : r # c => pc'[r] = pc[r]
      BY <1>1, <2>2 DEF TypeOK
    <3>3. isIdle' <=> isIdle
      BY <2>2 DEF isIdle
    <3>4. QED
      BY <1>1, <2>2, <3>1, <3>2, <3>3 DEF NoMissedWakeup
  <2>3. QED
    BY <1>7, <2>1, <2>2 DEF Recheck
<1>8. CASE WaitTimeout(c)
  BY <1>2, <1>8 DEF WaitTimeout
<1>9. CASE Release(c)
  BY <1>2, <1>4, <1>9 DEF Release
<1>10. CASE ReleaseExpired(c)
  <2>1. pc[c] = "held"
    BY <1>10 DEF ReleaseExpired, TicketInv, TicketsOwned, activeLeases
  <2>2. QED
    BY <1>2, <1>5, <1>10, <2>1 DEF ReleaseExpired
<1>11. CASE Touch(c) \/ Elapse(c)
  BY <1>5, <1>11 DEF Touch, Elapse
<1>12. QED
  BY <1>6, <1>7, <1>8, <1>9, <1>10, <1>11 DEF ClientStep

\* Every change that lets a waiter go on wakes it: for any clients, limits and
\* interleaving, whoever is parked could not go on, unless it has come due by ageing.
THEOREM NeverMissedWakeup == Spec => []NoMissedWakeup
<1>1. Init => NoMissedWakeup
  BY DEF Init, NoMissedWakeup
<1>2. TicketInv /\ NoMissedWakeup /\ [Next]_vars => NoMissedWakeup'
  <2> SUFFICES ASSUME TicketInv, NoMissedWakeup, [Next]_vars PROVE NoMissedWakeup'
    OBVIOUS
  <2>1. ASSUME NEW w \in IdleWaiter, WaiterStep(w) PROVE NoMissedWakeup'
    <3>1. UNCHANGED <<queue, active, aged>>
      BY <2>1 DEF WaiterStep, WaitIdle, WaitIdleReturn
    <3>2. \A r : canAcquire(queue, r)' <=> canAcquire(queue, r)
      BY <3>1, MayAcquireStable
    <3>3. /\ isIdle' <=> isIdle
          /\ \A r \in Client : pc'[r] = pc[r]
          /\ \A v \in IdleWaiter : pc'[v] = "parked" => pc[v] = "parked" \/ ~isIdle
      BY <2>1, <3>1, ClientAssumption
      DEF WaiterStep, WaitIdle, WaitIdleReturn, TicketInv, TypeOK, isIdle
    <3>4. QED
      BY <3>1, <3>2, <3>3 DEF NoMissedWakeup
  <2>2. ASSUME NEW i \in DOMAIN queue, Age(i) PROVE NoMissedWakeup'
    <3>1. /\ aged' = aged \cup {queue[i]}
          /\ UNCHANGED <<pc, queue, active>>
      BY <2>2 DEF Age
    <3>2. \A c \in Client : canAcquire(queue, c)' => canAcquire(queue, c) \/ c = queue[i]
      BY <3>1, AgeingHelpsOne
    <3>3. QED
      BY <3>1, <3>2 DEF NoMissedWakeup, isIdle
  <2>3. CASE UNCHANGED vars
    <3>1. \A r : canAcquire(queue, r)' <=> canAcquire(queue, r)
      BY <2>3, MayAcquireStable DEF vars
    <3>2. QED
      BY <2>3, <3>1 DEF NoMissedWakeup, isIdle, vars
  <2>4. QED
    BY <2>1, <2>2, <2>3, ClientStepWakes DEF Next
<1>3. QED
  BY <1>1, <1>2, TicketInvariant, PTL DEF Spec

----------------------------------------------------------------------------
(* The arbiter implements APDUAccess.                                      *)

LEMMA JoinIsAbstractJoin ==
  ASSUME TicketInv, NEW c \in Client, Joins(c)
  PROVE  Access!Join(c)
<1>1. PICK q : canAcquire(q, c)
  BY DEF Joins
<1>2. /\ isBarrier(c) => activeLeases = {}
      /\ ~isBarrier(c) => ~isBlockedByActiveBarrier(c)
      /\ ~isBarrier(c) => \A d \in activeLeases : c # d => MayShare(c, d)
  BY <1>1, GrantAdmits DEF TicketInv
<1>3. ASSUME NEW d \in active, <<c, d>> \in Conflict
      PROVE  FALSE
  <2>1. /\ c # d
        /\ IF isBarrier(d)
           THEN ~isBarrier(c) /\ Ticket[c].class \in Ticket[d].blocked
           ELSE isBarrier(c) \/ ~MayShare(c, d)
    BY <1>3 DEF Conflict
  <2>2. CASE isBarrier(d)
    BY <1>2, <2>1, <2>2
    DEF isBlockedByActiveBarrier, activeBarriers, OfType, isBarrier
  <2>3. CASE ~isBarrier(d)
    <3>1. d \in activeLeases
      BY <2>3 DEF activeLeases, activeBarriers, OfType, isBarrier
    <3>2. QED
      BY <1>2, <2>1, <2>3, <3>1
  <2>4. QED
    BY <2>2, <2>3
<1>4. QED
  BY <1>3 DEF Joins, Access!Join

\* Whatever the queue, the priorities, ageing, time-outs and the watchdog do,
\* a grant is an admission that conflicts with no holder.
THEOREM ArbiterImplementsAccess == Spec => AccessSpec
<1>1. Init => Access!Init
  BY DEF Init, Access!Init
<1>2. TicketInv /\ [Next]_vars => [Access!Next]_active
  <2> SUFFICES ASSUME TicketInv, [Next]_vars, active' # active
               PROVE  Access!Next
    OBVIOUS
  <2>1. ASSUME NEW c \in Client, Joins(c) PROVE Access!Next
    BY <2>1, JoinIsAbstractJoin DEF Access!Next
  <2>2. ASSUME NEW c \in Client, Leaves(c) PROVE Access!Next
    BY <2>2 DEF Leaves, Access!Next, Access!Leave
  <2>3. QED
    BY <2>1, <2>2, StepKinds
<1>3. QED
  BY <1>1, <1>2, TicketInvariant, PTL DEF Spec, AccessSpec, Access!Spec

============================================================================
