----------------------------- MODULE MBIMDevice -----------------------------
(***************************************************************************)
(* The MBIM control endpoint (pkg/mbim/device.go): many callers put         *)
(* commands on one transport, cut into fragments, and one read loop puts    *)
(* the fragments of the answers together again and hands each answer to     *)
(* the caller that registered its transaction.                              *)
(*                                                                          *)
(* Transaction numbers do not repeat (the counter has 32 bits), so the      *)
(* caller stands for its own.  Bytes are not modelled: a fragment is        *)
(* <<message, index, of>>, and a message is the call it answers or the      *)
(* number of an indication.                                                 *)
(***************************************************************************)
EXTENDS Naturals, Sequences, FiniteSets

CONSTANTS
  Call,        \* one call of Command each
  opener,      \* the call that is Open
  Proxied,     \* the transport goes through mbim-proxy
  MaxFrags,    \* fragments of a command, of its answer, and of the longest
               \* indication; what Open sends and gets takes one
  QueueLen,    \* capacity of the channel of indications (16 in the code)
  MaxIndications,  \* bound: indications the device sends
  MaxInbox,    \* bound: fragments on their way to the host
  MaxFlaws     \* bound: fragments lost, repeated or overtaken, failed writes

Caller == Call \cup {opener}
Nobody == "nobody"

\* What the constants are: Open is a call of its own, and the callers are told apart
\* from the numbers of indications.
ASSUME MBIMAssumption ==
  /\ opener \notin Call /\ Nobody \notin Caller /\ Caller \cap Nat = {}
  /\ MaxFrags \in Nat \ {0}
  /\ {QueueLen, MaxIndications, MaxInbox, MaxFlaws} \subseteq Nat

VARIABLES
  step,        \* per caller: where it is
  pending,     \* callers whose answer channel is registered
  channel,     \* per caller: its answer channel, of capacity one
  writer,      \* holder of writeMu
  written,     \* per caller: fragments it has written
  lastWrite,   \* the fragment written last, <<caller, index>>
  asked,       \* commands the device has received and not yet answered
  inbox,       \* fragments on their way to the host
  collector,   \* per transaction: the fragments put together so far
  indications, \* the channel of indications
  indicated,   \* indications the device has sent
  loop,        \* the read loop: "reading", "ended", or "stuck" in a send
  shut,        \* Close: "open", "closing", "closed"
  flaws

mbimVars == <<step, pending, channel, writer, written,
              lastWrite, asked, inbox, collector, indications, indicated, loop,
              shut, flaws>>

Empty == <<"empty">>
Failure == <<"error">>
Answer(parts) == <<"answer", parts>>
\* The messages whose fragments share a collector: an answer has a transaction
\* of its own, every indication has transaction 0.
Transaction(m) == IF m \in Caller THEN m ELSE 0
Size(c) == IF c = opener THEN 1 ELSE MaxFrags
Fragments(m, n) == [i \in 1..n |-> <<m, i, n>>]
Whole(parts) ==
  \E m \in {parts[1][1]} : parts = Fragments(m, parts[1][3])

MBIMInit ==
  /\ step = [c \in Caller |->
               IF c # opener THEN "idle" ELSE IF Proxied THEN "config" ELSE "open"]
  /\ pending = {} /\ channel = [c \in Caller |-> Empty]
  /\ writer = Nobody
  /\ written = [c \in Caller |-> 0]
  /\ lastWrite = <<opener, 1>>
  /\ asked = {} /\ inbox = <<>>
  /\ collector = [t \in Caller \cup {0} |-> <<>>]
  /\ indications = <<>> /\ indicated = 0
  /\ loop = "reading" /\ shut = "open"
  /\ flaws = 0

(***************************************************************************)
(* Callers.                                                                *)
(***************************************************************************)

\* Take a transaction number, register a fresh answer channel.  OPEN itself is
\* written without writeMu; the proxy's configuration is a Command like others.
Register(c) ==
  /\ \/ step[c] = "idle" /\ step[opener] = "done"
     \/ step[c] \in {"config", "open"}
  /\ pending' = pending \cup {c}
  /\ channel' = [channel EXCEPT ![c] = Empty]
  /\ written' = [written EXCEPT ![c] = 0]
  /\ step' = [step EXCEPT ![c] = CASE @ = "idle" -> "lock"
                                    [] @ = "config" -> "lock config"
                                    [] @ = "open" -> "write open"]
  /\ UNCHANGED <<writer, lastWrite, asked, inbox, collector, indications, indicated,
                 loop, shut, flaws>>

LockWriter(c) ==
  /\ step[c] \in {"lock", "lock config"} /\ writer = Nobody
  /\ writer' = c
  /\ step' = [step EXCEPT ![c] = IF @ = "lock" THEN "write" ELSE "write config"]
  /\ UNCHANGED <<pending, channel, written, lastWrite, asked,
                 inbox, collector, indications, indicated, loop, shut,
                 flaws>>

Writing(c) == step[c] \in {"write", "write config", "write open"}
Unlocked(c) == IF writer = c THEN Nobody ELSE writer

\* One fragment.  writeMu is held from the first to the last of them.
WriteFragment(c) ==
  /\ Writing(c) /\ shut # "closed"
  /\ written' = [written EXCEPT ![c] = @ + 1]
  /\ lastWrite' = <<c, written[c] + 1>>
  /\ IF written[c] + 1 = Size(c)
     THEN /\ step' = [step EXCEPT ![c] = CASE @ = "write" -> "wait"
                                           [] @ = "write config" -> "wait config"
                                           [] @ = "write open" -> "wait open"]
          /\ writer' = Unlocked(c)
          /\ asked' = asked \cup {c}
     ELSE UNCHANGED <<step, writer, asked>>
  /\ UNCHANGED <<pending, channel, inbox, collector, indications,
                 indicated, loop, shut, flaws>>

WriteCommandFails(c) ==
  /\ Writing(c)
  /\ shut = "closed" \/ flaws < MaxFlaws
  /\ flaws' = IF shut = "closed" THEN flaws ELSE flaws + 1
  /\ pending' = pending \ {c}
  /\ writer' = Unlocked(c)
  /\ step' = [step EXCEPT ![c] = "failed"]
  /\ UNCHANGED <<channel, written, lastWrite, asked, inbox,
                 collector, indications, indicated, loop, shut>>

Waiting(c) == step[c] \in {"wait", "wait config", "wait open"}

\* The answer is there.  A configured proxy is asked to open the device next.
ReturnAnswer(c) ==
  /\ Waiting(c) /\ channel[c] # Empty
  /\ step' = [step EXCEPT ![c] = IF channel[c] = Failure THEN "failed"
                                 ELSE IF @ = "wait config" THEN "open" ELSE "done"]
  /\ UNCHANGED <<pending, channel, writer, written, lastWrite,
                 asked, inbox, collector, indications, indicated, loop, shut,
                 flaws>>

\* The context ends, maybe with the answer in the channel already.
GiveUp(c) ==
  /\ Waiting(c)
  /\ pending' = pending \ {c}
  /\ step' = [step EXCEPT ![c] = "failed"]
  /\ UNCHANGED <<channel, writer, written, lastWrite, asked, inbox,
                 collector, indications, indicated, loop, shut, flaws>>

\* Close: the flag first, then CLOSE and the end of the transport under writeMu.
BeginClose ==
  /\ shut = "open" /\ shut' = "closing"
  /\ UNCHANGED <<step, pending, channel, writer, written, lastWrite, asked,
                 inbox, collector, indications, indicated, loop, flaws>>

Close ==
  /\ shut = "closing" /\ writer = Nobody
  /\ shut' = "closed"
  /\ UNCHANGED <<step, pending, channel, writer, written, lastWrite,
                 asked, inbox, collector, indications, indicated, loop, flaws>>

(***************************************************************************)
(* The device and the wire.                                                *)
(***************************************************************************)

DeviceAnswers(c) ==
  /\ c \in asked /\ Len(inbox) + Size(c) <= MaxInbox /\ loop = "reading"
  /\ asked' = asked \ {c}
  /\ inbox' = inbox \o Fragments(c, Size(c))
  /\ UNCHANGED <<step, pending, channel, writer, written, lastWrite,
                 collector, indications, indicated, loop, shut, flaws>>

DeviceIndicates(n) ==
  /\ indicated < MaxIndications /\ Len(inbox) + n <= MaxInbox /\ loop = "reading"
  /\ step[opener] = "done"
  /\ indicated' = indicated + 1
  /\ inbox' = inbox \o Fragments(indicated + 1, n)
  /\ UNCHANGED <<step, pending, channel, writer, written, lastWrite,
                 asked, collector, indications, loop, shut, flaws>>

\* The next fragment is lost, repeated, or overtaken by the one behind it.
WireFlaw ==
  /\ flaws < MaxFlaws /\ inbox # <<>>
  /\ flaws' = flaws + 1
  /\ \/ inbox' = Tail(inbox)
     \/ Len(inbox) < MaxInbox /\ inbox' = <<Head(inbox)>> \o inbox
     \/ Len(inbox) > 1 /\ inbox' = <<inbox[2], inbox[1]>> \o SubSeq(inbox, 3, Len(inbox))
  /\ UNCHANGED <<step, pending, channel, writer, written, lastWrite,
                 asked, collector, indications, indicated, loop, shut>>

(***************************************************************************)
(* The read loop.                                                          *)
(***************************************************************************)

\* Mutant: a fragment is taken in whatever order it comes.
AddsAny(parts, f) == TRUE
\* collector.add: a fragment that is not the next one is refused, and what was
\* put together before stays.
Adds(parts, f) == f[2] = Len(parts) + 1
Complete(parts) == Len(parts) >= parts[1][3]

\* Mutant: the channel stays registered after the answer was sent.
DeliverKeeps(c, value) ==
  /\ pending' = pending
  /\ channel' = IF c \in pending /\ channel[c] = Empty
                THEN [channel EXCEPT ![c] = value] ELSE channel
  /\ loop' = IF c \in pending /\ channel[c] # Empty THEN "stuck" ELSE loop

\* deliver and deliverError: the channel is taken out of pending before the
\* answer is sent; whoever gave up is not in pending any more.
Deliver(c, value) ==
  /\ pending' = pending \ {c}
  /\ channel' = IF c \in pending /\ channel[c] = Empty
                THEN [channel EXCEPT ![c] = value] ELSE channel
  /\ loop' = IF c \in pending /\ channel[c] # Empty THEN "stuck" ELSE loop

\* A complete answer goes to its caller, or an error when it is shorter than it
\* says; a complete indication goes to the channel, or nowhere when that is full.
Finish(m, parts) ==
  IF m \in Caller
  THEN /\ \/ Deliver(m, Answer(parts))
          \/ Deliver(m, Failure)
       /\ UNCHANGED indications
  ELSE /\ \/ UNCHANGED indications
          \/ /\ Len(indications) < QueueLen
             /\ indications' = Append(indications, parts)
       /\ UNCHANGED <<pending, channel, loop>>

Receive ==
  /\ loop = "reading" /\ inbox # <<>>
  /\ inbox' = Tail(inbox)
  /\ LET f == Head(inbox)
         t == Transaction(f[1])
         parts == Append(collector[t], f)
     IN  IF ~Adds(collector[t], f)
         THEN UNCHANGED <<collector, pending, channel, loop, indications>>
         ELSE IF ~Complete(parts)
         THEN /\ collector' = [collector EXCEPT ![t] = parts]
              /\ UNCHANGED <<pending, channel, loop, indications>>
         ELSE /\ collector' = [collector EXCEPT ![t] = <<>>]
              /\ Finish(f[1], parts)
  /\ UNCHANGED <<step, writer, written, lastWrite, asked, indicated,
                 shut, flaws>>

\* ReadMessage fails, because the transport was closed, the device is gone, or
\* the length in a header makes no sense: every registered caller is told.
ReadLoopFails ==
  /\ loop = "reading"
  /\ loop' = IF \E c \in pending : channel[c] # Empty THEN "stuck" ELSE "ended"
  /\ channel' = [c \in Caller |-> IF c \in pending THEN Failure ELSE channel[c]]
  /\ pending' = {}
  /\ collector' = [t \in Caller \cup {0} |-> <<>>]
  /\ inbox' = <<>>
  /\ UNCHANGED <<step, writer, written, lastWrite, asked,
                 indications, indicated, shut, flaws>>

\* Monitor.Run takes the next indication and applies it.
Consume ==
  /\ indications # <<>>
  /\ indications' = Tail(indications)
  /\ UNCHANGED <<step, pending, channel, writer, written, lastWrite,
                 asked, inbox, collector, indicated, loop, shut, flaws>>

MBIMNext ==
  \/ \E c \in Caller :
       \/ Register(c) \/ DeviceAnswers(c)
       \/ LockWriter(c) \/ WriteFragment(c) \/ WriteCommandFails(c)
       \/ ReturnAnswer(c) \/ GiveUp(c)
  \/ BeginClose \/ Close
  \/ \E n \in 1..MaxFrags : DeviceIndicates(n)
  \/ WireFlaw \/ Receive \/ ReadLoopFails \/ Consume

MBIMSpec == MBIMInit /\ [][MBIMNext]_mbimVars

-----------------------------------------------------------------------------
\* Nothing is put together of two messages.  On the wire the fragments of a
\* command follow one another, whoever else writes; what a caller is given is
\* its own answer, complete and in order, even when fragments are lost, repeated
\* or overtaken; and so are the indications, which all share one collector, as
\* long as the wire loses and repeats nothing.
MessagesWhole ==
  /\ \A c \in Caller :
       /\ step[c] = "write" /\ written[c] > 0 => lastWrite = <<c, written[c]>>
       /\ channel[c][1] = "answer" =>
            Whole(channel[c][2]) /\ channel[c][2][1][1] = c
  /\ flaws = 0 => \A i \in DOMAIN indications : Whole(indications[i])

\* The read loop never blocks on a caller's channel, and no caller is forgotten:
\* one that waits is registered or has its answer, never both.
NobodyForgotten ==
  /\ loop # "stuck"
  /\ \A c \in Caller : Waiting(c) => (c \in pending <=> channel[c] = Empty)

\* The two together: what the endpoint owes its callers.
EndpointKept == MessagesWhole /\ NobodyForgotten
=============================================================================
