-------------------------- MODULE MBIMDeviceProofs --------------------------
(***************************************************************************)
(* Proofs about the modem's own protocols.  About MBIMDevice, for any      *)
(* callers, message lengths, queues and flaws of the wire: no message is   *)
(* put together of two, the read loop never blocks and no caller is        *)
(* forgotten.  About QMIUSSD, for any requests: one that begins in a quiet *)
(* moment gets its own answer.  About QMIReads, for any modem: a reading   *)
(* that is told as sure is the modem's.  About Backends, for any requests  *)
(* and storages: what was stored in the modem is what is read back and     *)
(* deleted.                                                                *)
(***************************************************************************)
EXTENDS MBIMDevice, QMIUSSD, QMIReads, Backends, SequenceTheorems, TLAPS

\* A fragment as a device writes it: one of a message, no farther than its end; the
\* commands' answers are as long as the commands.
Fragment ==
  {f \in (Caller \cup Nat) \X (Nat \ {0}) \X (Nat \ {0}) :
     f[2] <= f[3] /\ (f[1] \in Caller => f[3] = Size(f[1]))}

CallSteps == {"idle", "lock", "write", "wait", "done", "failed"}
OpenSteps == {"config", "lock config", "write config", "wait config",
              "open", "write open", "wait open", "done", "failed"}
\* Where the answer channel is in use, or about to be.
Using == {"lock", "write", "wait", "lock config", "write config", "wait config",
          "write open", "wait open"}

Verdict == {Empty, Failure} \cup {Answer(parts) : parts \in Seq(Fragment)}

TypeOK ==
  /\ step \in [Caller -> CallSteps \cup OpenSteps]
  /\ pending \subseteq Caller
  /\ channel \in [Caller -> Verdict]
  /\ writer \in Caller \cup {Nobody}
  /\ written \in [Caller -> Nat]
  /\ asked \subseteq Caller
  /\ inbox \in Seq(Fragment)
  /\ collector \in [Caller \cup {0} -> Seq(Fragment)]
  /\ indications \in Seq(Seq(Fragment))
  /\ indicated \in Nat
  /\ loop \in {"reading", "ended"}
  /\ shut \in {"open", "closing", "closed"}
  /\ flaws \in Nat

----------------------------------------------------------------------------
(* The inductive invariant.                                                *)

\* The calls begin when Open is through, which never goes back.
OpenFirst ==
  /\ step[opener] \in OpenSteps
  /\ \A c \in Call : step[c] \in CallSteps /\ (step[c] # "idle" => step[opener] = "done")

\* Who writes a command holds writeMu and continues the newest fragment on the wire.
WritesOn(c) ==
  /\ step[c] = "write" => writer = c /\ (written[c] > 0 => lastWrite = <<c, written[c]>>)
  /\ step[c] = "lock" => written[c] = 0

\* The channel of a registered caller is empty, and that of a caller that uses it and is
\* not registered any more has the verdict, an answer of all its fragments or an error.
ChannelFits(c) ==
  /\ channel[c] \in {Empty, Failure, Answer(Fragments(c, Size(c)))}
  /\ c \in pending => channel[c] = Empty
  /\ step[c] \in Using => (c \in pending <=> channel[c] = Empty)

\* parts are the first fragments of message m, which has n of them.
Starts(parts, m, n) ==
  /\ Len(parts) <= n
  /\ \A i \in 1..Len(parts) : parts[i] = <<m, i, n>>

CollectorFits(c) == Starts(collector[c], c, Size(c)) /\ Len(collector[c]) < Size(c)

\* While the wire has no flaw, its fragments are those of one whole message after the
\* other, and the first one goes on where its collector ends; nothing else is collected.
Follows(f, g) == IF f[2] = f[3] THEN g[2] = 1 ELSE g = <<f[1], f[2] + 1, f[3]>>

Chained ==
  /\ \A i \in 1..(Len(inbox) - 1) : Follows(inbox[i], inbox[i + 1])
  /\ inbox # <<>> => inbox[Len(inbox)][2] = inbox[Len(inbox)][3]

Collected ==
  \A t \in Caller \cup {0} :
    IF inbox # <<>> /\ t = Transaction(inbox[1][1])
    THEN /\ Starts(collector[t], inbox[1][1], inbox[1][3])
         /\ Len(collector[t]) = inbox[1][2] - 1
    ELSE collector[t] = <<>>

IndicationsWhole == \A i \in DOMAIN indications : Whole(indications[i])

MBIMInv ==
  /\ TypeOK /\ OpenFirst
  /\ \A c \in Caller : WritesOn(c) /\ ChannelFits(c) /\ CollectorFits(c)
  /\ flaws = 0 => Chained /\ Collected /\ IndicationsWhole
(* Fragments and messages.                                                 *)

LEMMA FragmentIs ==
  ASSUME NEW f \in Fragment
  PROVE  /\ f = <<f[1], f[2], f[3]>> /\ f[1] \in Caller \cup Nat
         /\ f[2] \in Nat \ {0} /\ f[3] \in Nat \ {0} /\ f[2] <= f[3]
         /\ f[1] \in Caller => f[3] = Size(f[1])
BY DEF Fragment

LEMMA SizePositive ==
  ASSUME NEW c \in Caller
  PROVE  Size(c) \in Nat \ {0}
BY MBIMAssumption DEF Size

\* A message is cut into as many fragments as it says, and they are whole.
LEMMA FragmentsAre ==
  ASSUME NEW m \in Caller \cup Nat, NEW n \in Nat \ {0}, m \in Caller => n = Size(m)
  PROVE  /\ Fragments(m, n) \in Seq(Fragment) /\ Len(Fragments(m, n)) = n
         /\ \A i \in 1..n : Fragments(m, n)[i] = <<m, i, n>>
         /\ Whole(Fragments(m, n)) /\ Fragments(m, n)[1][1] = m
<1> DEFINE s == Fragments(m, n)
<1>1. \A i \in 1..n : s[i] = <<m, i, n>> /\ <<m, i, n>> \in Fragment
  BY DEF Fragments, Fragment
<1>2. s \in [1..n -> Fragment]
  BY <1>1 DEF Fragments
<1>3. s \in Seq(Fragment)
  BY <1>2, SeqDef
<1>4. Len(s) = n
  BY <1>2, <1>3, LenProperties
<1>5. s[1] = <<m, 1, n>>
  <2>1. 1 \in 1..n
    OBVIOUS
  <2>2. QED
    BY <1>1, <2>1
<1>6. s[1][1] = m /\ s[1][3] = n
  BY <1>5
<1>7. Whole(s)
  BY <1>6 DEF Whole
<1> HIDE DEF s
<1>8. QED
  BY <1>1, <1>3, <1>4, <1>6, <1>7 DEF s

\* The next fragment of a message goes on with its beginning, and the last makes it whole.
LEMMA StartsGrow ==
  ASSUME NEW m \in Caller \cup Nat, NEW n \in Nat \ {0}, m \in Caller => n = Size(m),
         NEW p \in Seq(Fragment), Starts(p, m, n), Len(p) < n,
         NEW f \in Fragment, f = <<m, Len(p) + 1, n>>
  PROVE  /\ Append(p, f) \in Seq(Fragment) /\ Len(Append(p, f)) = Len(p) + 1
         /\ Starts(Append(p, f), m, n)
         /\ Complete(Append(p, f)) <=> Len(p) + 1 = n
         /\ Len(p) + 1 = n => Append(p, f) = Fragments(m, n)
<1> DEFINE s == Append(p, f)
<1>1. /\ s \in Seq(Fragment) /\ Len(s) = Len(p) + 1 /\ s[Len(s)] = f
      /\ \A i \in 1..Len(p) : s[i] = p[i]
  BY AppendProperties
<1>2. Len(p) \in Nat
  BY LenProperties
<1> HIDE DEF s
<1>3. \A i \in 1..Len(s) : s[i] = <<m, i, n>>
  BY <1>1, <1>2 DEF Starts
<1>4. s[1][3] = n
  BY <1>1, <1>2, <1>3
<1>5. Len(p) + 1 = n => s = Fragments(m, n)
  <2>1. ASSUME Len(p) + 1 = n, NEW i \in 1..n PROVE s[i] = Fragments(m, n)[i]
    <3>1. Fragments(m, n)[i] = <<m, i, n>>
      BY FragmentsAre
    <3>2. QED
      BY <1>1, <1>3, <2>1, <3>1
  <2>2. Fragments(m, n) \in Seq(Fragment) /\ Len(Fragments(m, n)) = n
    BY FragmentsAre
  <2>3. QED
    BY <1>1, <2>1, <2>2, SeqEqual
<1>6. QED
  BY <1>1, <1>2, <1>3, <1>4, <1>5 DEF Starts, Complete, s

\* The answer to a caller has a transaction of its own, the indications share one.
LEMMA TransactionIs ==
  ASSUME NEW f \in Fragment
  PROVE  /\ Transaction(f[1]) \in Caller \cup {0} /\ 0 \notin Caller
         /\ f[1] \in Caller => Transaction(f[1]) = f[1]
         /\ f[1] \notin Caller => Transaction(f[1]) = 0 /\ f[1] \in Nat
BY FragmentIs, MBIMAssumption DEF Transaction

----------------------------------------------------------------------------
(* Types.                                                                  *)

\* What the answer channels and the read loop are after the end of a message.
LEMMA DeliverGives ==
  ASSUME MBIMInv, NEW c \in Caller, NEW value, Deliver(c, value)
  PROVE  /\ pending' = pending \ {c} /\ loop' = loop
         /\ channel' = IF c \in pending THEN [channel EXCEPT ![c] = value] ELSE channel
BY DEF MBIMInv, ChannelFits, Deliver

\* A fragment is refused, added to what was put together, or ends its message.
LEMMA ReceiveGives ==
  ASSUME MBIMInv, Receive
  PROVE  LET f == inbox[1]
             t == Transaction(f[1])
             parts == Append(collector[t], f)
         IN /\ f \in Fragment /\ inbox # <<>> /\ loop = "reading" /\ inbox' = Tail(inbox)
            /\ Len(inbox) \in Nat \ {0} /\ inbox' \in Seq(Fragment)
            /\ Len(inbox') = Len(inbox) - 1
            /\ \A i \in 1..Len(inbox') : inbox'[i] = inbox[i + 1]
            /\ collector[t] \in Seq(Fragment) /\ parts \in Seq(Fragment)
            /\ \/ /\ f[2] # Len(collector[t]) + 1
                  /\ UNCHANGED <<collector, pending, channel, loop, indications>>
               \/ /\ f[2] = Len(collector[t]) + 1 /\ ~Complete(parts)
                  /\ collector' = [collector EXCEPT ![t] = parts]
                  /\ UNCHANGED <<pending, channel, loop, indications>>
               \/ /\ f[2] = Len(collector[t]) + 1 /\ Complete(parts)
                  /\ collector' = [collector EXCEPT ![t] = <<>>]
                  /\ Finish(f[1], parts)
<1> DEFINE f == inbox[1]
           t == Transaction(f[1])
           parts == Append(collector[t], f)
<1>1. inbox \in Seq(Fragment) /\ inbox # <<>>
  BY DEF MBIMInv, TypeOK, Receive
<1>2. Len(inbox) \in Nat \ {0} /\ f \in Fragment /\ Head(inbox) = f
  BY <1>1, EmptySeq, ElementOfSeq
<1>3. /\ Tail(inbox) \in Seq(Fragment) /\ Len(Tail(inbox)) = Len(inbox) - 1
      /\ \A i \in 1..Len(Tail(inbox)) : Tail(inbox)[i] = inbox[i + 1]
  BY <1>1, HeadTailProperties
<1>4. collector[t] \in Seq(Fragment) /\ parts \in Seq(Fragment)
  BY <1>2, TransactionIs, AppendProperties DEF MBIMInv, TypeOK
<1>5. inbox' = Tail(inbox) /\ loop = "reading"
  BY DEF Receive
<1>6. \/ /\ f[2] # Len(collector[t]) + 1
         /\ UNCHANGED <<collector, pending, channel, loop, indications>>
      \/ /\ f[2] = Len(collector[t]) + 1 /\ ~Complete(parts)
         /\ collector' = [collector EXCEPT ![t] = parts]
         /\ UNCHANGED <<pending, channel, loop, indications>>
      \/ /\ f[2] = Len(collector[t]) + 1 /\ Complete(parts)
         /\ collector' = [collector EXCEPT ![t] = <<>>]
         /\ Finish(f[1], parts)
  BY <1>2 DEF Receive, Adds
<1>7. QED
  BY <1>1, <1>2, <1>3, <1>4, <1>5, <1>6

LEMMA TypesKept ==
  ASSUME MBIMInv, [MBIMNext]_mbimVars
  PROVE  TypeOK'
<1>0. TypeOK
  BY DEF MBIMInv
<1>1. ASSUME NEW c \in Caller, Register(c) PROVE TypeOK'
  BY <1>0, <1>1 DEF TypeOK, CallSteps, OpenSteps, Verdict, Register
<1>2. ASSUME NEW c \in Caller, LockWriter(c) PROVE TypeOK'
  BY <1>0, <1>2 DEF TypeOK, CallSteps, OpenSteps, LockWriter
<1>3. ASSUME NEW c \in Caller, WriteFragment(c) PROVE TypeOK'
  <2>1. /\ step' \in [Caller -> CallSteps \cup OpenSteps]
        /\ writer' \in Caller \cup {Nobody} /\ asked' \subseteq Caller
    BY <1>0, <1>3 DEF TypeOK, CallSteps, OpenSteps, WriteFragment, Writing, Unlocked
  <2>2. written' \in [Caller -> Nat]
    <3>1. written[c] + 1 \in Nat
      BY <1>0 DEF TypeOK
    <3>2. written' = [written EXCEPT ![c] = written[c] + 1]
      BY <1>3 DEF WriteFragment
    <3>3. QED
      BY <1>0, <3>1, <3>2 DEF TypeOK
  <2>3. QED
    BY <1>0, <1>3, <2>1, <2>2 DEF TypeOK, WriteFragment
<1>4. ASSUME NEW c \in Caller, WriteCommandFails(c) PROVE TypeOK'
  BY <1>0, <1>4 DEF TypeOK, CallSteps, WriteCommandFails, Unlocked
<1>5. ASSUME NEW c \in Caller, ReturnAnswer(c) \/ GiveUp(c) PROVE TypeOK'
  BY <1>0, <1>5 DEF TypeOK, CallSteps, OpenSteps, ReturnAnswer, GiveUp
<1>6. ASSUME BeginClose \/ Close \/ UNCHANGED mbimVars PROVE TypeOK'
  BY <1>0, <1>6 DEF TypeOK, BeginClose, Close, mbimVars
<1>7. ASSUME NEW c \in Caller, DeviceAnswers(c) PROVE TypeOK'
  <2>1. inbox' \in Seq(Fragment)
    BY <1>0, <1>7, SizePositive, FragmentsAre, ConcatProperties DEF TypeOK, DeviceAnswers
  <2>2. QED
    BY <1>0, <1>7, <2>1 DEF TypeOK, DeviceAnswers
<1>8. ASSUME NEW n \in 1..MaxFrags, DeviceIndicates(n) PROVE TypeOK'
  <2>1. indicated + 1 \in Nat /\ indicated + 1 \notin Caller /\ n \in Nat \ {0}
    <3>1. indicated + 1 \in Nat /\ n \in Nat \ {0}
      BY <1>0, MBIMAssumption DEF TypeOK
    <3>2. QED
      BY <3>1, MBIMAssumption
  <2>2. inbox' \in Seq(Fragment)
    BY <1>0, <1>8, <2>1, FragmentsAre, ConcatProperties DEF TypeOK, DeviceIndicates
  <2>3. QED
    BY <1>0, <1>8, <2>1, <2>2 DEF TypeOK, DeviceIndicates
<1>9. CASE WireFlaw
  <2>1. inbox \in Seq(Fragment) /\ inbox # <<>> /\ Len(inbox) \in Nat \ {0}
    BY <1>0, <1>9, EmptySeq DEF TypeOK, WireFlaw
  <2>2. Head(inbox) \in Fragment /\ Tail(inbox) \in Seq(Fragment)
    BY <2>1, HeadTailProperties
  <2>3. <<Head(inbox)>> \o inbox \in Seq(Fragment)
    BY <2>1, <2>2, ConcatProperties
  <2>4. ASSUME Len(inbox) > 1
        PROVE  <<inbox[2], inbox[1]>> \o SubSeq(inbox, 3, Len(inbox)) \in Seq(Fragment)
    <3>1. \A i \in 1..Len(inbox) : inbox[i] \in Fragment
      BY <2>1, ElementOfSeq
    <3>2. SubSeq(inbox, 3, Len(inbox)) \in Seq(Fragment)
      BY <2>1, <3>1, SubSeqProperties
    <3>3. <<inbox[2], inbox[1]>> \in Seq(Fragment)
      BY <2>1, <2>4, <3>1
    <3>4. QED
      BY <3>2, <3>3, ConcatProperties
  <2>5. inbox' \in Seq(Fragment)
    BY <1>9, <2>2, <2>3, <2>4 DEF WireFlaw
  <2>6. QED
    BY <1>0, <1>9, <2>5 DEF TypeOK, WireFlaw
<1>10. CASE Receive
  <2> DEFINE f == inbox[1]
             t == Transaction(f[1])
             parts == Append(collector[t], f)
  <2>1. /\ f \in Fragment /\ inbox' \in Seq(Fragment) /\ parts \in Seq(Fragment)
        /\ t \in Caller \cup {0}
    BY <1>10, ReceiveGives, TransactionIs
  <2>2. collector' \in [Caller \cup {0} -> Seq(Fragment)]
    <3>1. \/ collector' = collector \/ collector' = [collector EXCEPT ![t] = parts]
          \/ collector' = [collector EXCEPT ![t] = <<>>]
      BY <1>10, ReceiveGives
    <3>2. QED
      BY <1>0, <2>1, <3>1, EmptySeq, ZenonT(40) DEF TypeOK
  <2>3. /\ indications' \in Seq(Seq(Fragment)) /\ pending' \subseteq Caller
        /\ channel' \in [Caller -> Verdict] /\ loop' \in {"reading", "ended"}
    <3>1. CASE UNCHANGED <<pending, channel, loop, indications>>
      BY <1>0, <3>1 DEF TypeOK
    <3>2. CASE Finish(f[1], parts)
      <4>1. CASE f[1] \in Caller
        <5>1. PICK value \in Verdict : Deliver(f[1], value)
          BY <2>1, <3>2, <4>1 DEF Finish, Verdict
        <5>2. /\ pending' = pending \ {f[1]} /\ loop' = loop /\ indications' = indications
              /\ \/ channel' = [channel EXCEPT ![f[1]] = value]
                 \/ channel' = channel
          BY <3>2, <4>1, <5>1, DeliverGives DEF Finish
        <5>3. QED
          BY <1>0, <5>2 DEF TypeOK
      <4>2. CASE f[1] \notin Caller
        <5>1. Append(indications, parts) \in Seq(Seq(Fragment))
          BY <1>0, <2>1, AppendProperties DEF TypeOK
        <5>2. QED
          BY <1>0, <3>2, <4>2, <5>1 DEF TypeOK, Finish
      <4>3. QED
        BY <4>1, <4>2
    <3>3. QED
      BY <1>10, <3>1, <3>2, ReceiveGives
  <2>4. QED
    BY <1>0, <1>10, <2>1, <2>2, <2>3 DEF TypeOK, Receive
<1>11. CASE ReadLoopFails
  <2>1. loop' = "ended"
    BY <1>11 DEF MBIMInv, TypeOK, ChannelFits, ReadLoopFails
  <2>2. collector' \in [Caller \cup {0} -> Seq(Fragment)] /\ inbox' \in Seq(Fragment)
    BY <1>11, EmptySeq DEF ReadLoopFails
  <2>3. channel' \in [Caller -> Verdict]
    BY <1>0, <1>11 DEF TypeOK, Verdict, ReadLoopFails
  <2>4. QED
    BY <1>0, <1>11, <2>1, <2>2, <2>3 DEF TypeOK, ReadLoopFails
<1>12. CASE Consume
  <2>1. indications' \in Seq(Seq(Fragment))
    BY <1>0, <1>12, HeadTailProperties DEF TypeOK, Consume
  <2>2. QED
    BY <1>0, <1>12, <2>1 DEF TypeOK, Consume
<1>13. QED
  BY <1>1, <1>2, <1>3, <1>4, <1>5, <1>6, <1>7, <1>8, <1>9, <1>10, <1>11, <1>12 DEF MBIMNext

----------------------------------------------------------------------------
(* Callers.                                                                *)

LEMMA OpenFirstKept ==
  ASSUME MBIMInv, [MBIMNext]_mbimVars
  PROVE  OpenFirst'
<1>0. TypeOK /\ OpenFirst /\ opener \in Caller /\ Call \subseteq Caller /\ opener \notin Call
  BY MBIMAssumption DEF MBIMInv, Caller
<1>1. ASSUME NEW c \in Caller, Register(c) PROVE OpenFirst'
  BY <1>0, <1>1 DEF TypeOK, OpenFirst, CallSteps, OpenSteps, Register, Caller
<1>2. ASSUME NEW c \in Caller, LockWriter(c) PROVE OpenFirst'
  BY <1>0, <1>2 DEF TypeOK, OpenFirst, CallSteps, OpenSteps, LockWriter, Caller
<1>3. ASSUME NEW c \in Caller, WriteFragment(c) PROVE OpenFirst'
  <2>1. \/ step' = step
        \/ step[c] = "write" /\ step' = [step EXCEPT ![c] = "wait"]
        \/ step[c] = "write config" /\ step' = [step EXCEPT ![c] = "wait config"]
        \/ step[c] = "write open" /\ step' = [step EXCEPT ![c] = "wait open"]
    BY <1>3 DEF WriteFragment, Writing
  <2>2. QED
    BY <1>0, <2>1 DEF TypeOK, OpenFirst, CallSteps, OpenSteps, Caller
<1>4. ASSUME NEW c \in Caller, WriteCommandFails(c) \/ GiveUp(c) PROVE OpenFirst'
  BY <1>0, <1>4 DEF TypeOK, OpenFirst, CallSteps, OpenSteps, WriteCommandFails, Writing, GiveUp,
     Waiting,
     Caller
<1>5. ASSUME NEW c \in Caller, ReturnAnswer(c) PROVE OpenFirst'
  BY <1>0, <1>5 DEF TypeOK, OpenFirst, CallSteps, OpenSteps, ReturnAnswer, Waiting, Caller
<1>6. CASE UNCHANGED step
  BY <1>0, <1>6 DEF OpenFirst
<1>7. QED
  BY <1>1, <1>2, <1>3, <1>4, <1>5, <1>6 DEF MBIMNext, DeviceAnswers, BeginClose, Close,
     DeviceIndicates, WireFlaw, Receive, ReadLoopFails, Consume, mbimVars

\* writeMu keeps the other commands away, and Open is alone.
LEMMA WritesAlone ==
  ASSUME MBIMInv, NEW c \in Caller, NEW p \in Caller, p # c,
         step[p] = "write"
  PROVE  ~Writing(c) /\ writer = p /\ step[c] \notin {"lock config"}
BY MBIMAssumption DEF MBIMInv, WritesOn, OpenFirst, Writing, Caller, CallSteps, OpenSteps

LEMMA WritesOnKept ==
  ASSUME MBIMInv, [MBIMNext]_mbimVars, NEW p \in Caller
  PROVE  WritesOn(p)'
<1>0. TypeOK /\ WritesOn(p) /\ writer \in Caller \cup {Nobody} /\ Nobody \notin Caller
  BY MBIMAssumption DEF MBIMInv, TypeOK
<1>1. ASSUME NEW c \in Caller, Register(c) PROVE WritesOn(p)'
  BY <1>0, <1>1 DEF TypeOK, WritesOn, Register
<1>2. ASSUME NEW c \in Caller, LockWriter(c) PROVE WritesOn(p)'
  <2>1. CASE p = c
    <3>1. /\ step'[c] \in {"write", "write config"} /\ (step'[c] = "write" => step[c] = "lock")
          /\ writer' = c /\ written' = written
      BY <1>0, <1>2 DEF TypeOK, LockWriter
    <3>2. step[c] = "lock" => written[c] = 0
      BY <1>0, <2>1 DEF WritesOn
    <3>3. step'[c] = "write" => ~(written'[c] > 0)
      BY <3>1, <3>2
    <3>4. QED
      BY <2>1, <3>1, <3>3 DEF WritesOn
  <2>2. CASE p # c
    BY <1>0, <1>2, <2>2 DEF TypeOK, WritesOn, LockWriter
  <2>3. QED
    BY <2>1, <2>2
<1>3. ASSUME NEW c \in Caller, WriteFragment(c) PROVE WritesOn(p)'
  <2>1. /\ written' = [written EXCEPT ![c] = written[c] + 1]
        /\ lastWrite' = <<c, written[c] + 1>>
        /\ \/ step' = step /\ writer' = writer
           \/ step'[c] \notin {"write", "lock"} /\ writer' = Unlocked(c)
    BY <1>0, <1>3 DEF TypeOK, WriteFragment, Writing
  <2>2. \A q \in Caller : q # c => step'[q] = step[q]
    BY <1>0, <1>3 DEF TypeOK, WriteFragment
  <2>3. CASE p = c
    BY <1>0, <1>3, <2>1, <2>3 DEF TypeOK, WritesOn, WriteFragment, Writing
  <2>4. CASE p # c
    <3>1. step'[p] # "write"
      BY <1>3, <2>2, <2>4, WritesAlone DEF WriteFragment
    <3>2. QED
      BY <1>0, <2>1, <2>2, <2>4, <3>1 DEF TypeOK, WritesOn
  <2>5. QED
    BY <2>3, <2>4
<1>4. ASSUME NEW c \in Caller, WriteCommandFails(c) PROVE WritesOn(p)'
  BY <1>0, <1>4 DEF TypeOK, WritesOn, WriteCommandFails, Unlocked
<1>5. ASSUME NEW c \in Caller, ReturnAnswer(c) \/ GiveUp(c) PROVE WritesOn(p)'
  BY <1>0, <1>5 DEF TypeOK, WritesOn, ReturnAnswer, GiveUp
<1>6. CASE UNCHANGED <<step, writer, written, lastWrite>>
  BY <1>0, <1>6 DEF WritesOn
<1>7. QED
  BY <1>1, <1>2, <1>3, <1>4, <1>5, <1>6 DEF MBIMNext, DeviceAnswers, BeginClose, Close,
     DeviceIndicates, WireFlaw, Receive, ReadLoopFails, Consume, mbimVars

LEMMA Verdicts == \A parts : Answer(parts) # Empty /\ Failure # Empty
BY DEF Answer, Failure, Empty

\* A message that a caller's collector ends is its answer, whole.
LEMMA AnswerWhole ==
  ASSUME MBIMInv, Receive, inbox[1][1] \in Caller,
         inbox[1][2] = Len(collector[inbox[1][1]]) + 1
  PROVE  LET c == inbox[1][1]
             parts == Append(collector[c], inbox[1])
         IN /\ Starts(parts, c, Size(c)) /\ Len(parts) = Len(collector[c]) + 1
            /\ Complete(parts) <=> Len(parts) = Size(c)
            /\ Complete(parts) => parts = Fragments(c, Size(c))
<1> DEFINE f == inbox[1]
           c == f[1]
<1>1. f \in Fragment /\ c \in Caller /\ f = <<c, Len(collector[c]) + 1, Size(c)>>
  BY ReceiveGives, FragmentIs
<1>2. /\ collector[c] \in Seq(Fragment) /\ Starts(collector[c], c, Size(c))
      /\ Len(collector[c]) < Size(c) /\ Size(c) \in Nat \ {0}
  BY <1>1, SizePositive DEF MBIMInv, TypeOK, CollectorFits
<1>3. c \in Caller \cup Nat
  BY <1>1
<1> HIDE DEF f, c
<1>4. /\ Len(Append(collector[c], f)) = Len(collector[c]) + 1
      /\ Starts(Append(collector[c], f), c, Size(c))
      /\ Complete(Append(collector[c], f)) <=> Len(collector[c]) + 1 = Size(c)
      /\ Len(collector[c]) + 1 = Size(c) =>
           Append(collector[c], f) = Fragments(c, Size(c))
  BY <1>1, <1>2, <1>3, StartsGrow
<1>5. QED
  BY <1>4 DEF f, c

LEMMA ChannelFitsKept ==
  ASSUME MBIMInv, [MBIMNext]_mbimVars, NEW p \in Caller
  PROVE  ChannelFits(p)'
<1>0. TypeOK /\ \A c \in Caller : ChannelFits(c)
  BY DEF MBIMInv
<1>1. ASSUME NEW c \in Caller, Register(c) PROVE ChannelFits(p)'
  BY <1>0, <1>1 DEF TypeOK, ChannelFits, Register
<1>2. ASSUME NEW c \in Caller, WriteCommandFails(c) \/ GiveUp(c) PROVE ChannelFits(p)'
  BY <1>0, <1>2 DEF TypeOK, ChannelFits, Using, WriteCommandFails, GiveUp
<1>3. ASSUME UNCHANGED <<channel, pending>>, step'[p] \in Using => step[p] \in Using
      PROVE  ChannelFits(p)'
  BY <1>0, <1>3 DEF ChannelFits
<1>4. ASSUME NEW c \in Caller, LockWriter(c) \/ WriteFragment(c) \/ ReturnAnswer(c)
      PROVE  ChannelFits(p)'
  BY <1>0, <1>3, <1>4 DEF TypeOK, LockWriter, WriteFragment, Writing, ReturnAnswer, Waiting,
     Using
<1>5. CASE UNCHANGED <<step, channel, pending>>
  BY <1>3, <1>5
<1>6. ASSUME NEW c \in Caller, NEW value \in {Failure, Answer(Fragments(c, Size(c)))},
             Deliver(c, value), step' = step
      PROVE  ChannelFits(p)'
  <2>1. /\ pending' = pending \ {c} /\ value # Empty
        /\ channel' = IF c \in pending THEN [channel EXCEPT ![c] = value] ELSE channel
    BY <1>6, DeliverGives, Verdicts
  <2>2. CASE p = c
    BY <1>0, <1>6, <2>1, <2>2 DEF TypeOK, ChannelFits
  <2>3. CASE p # c
    BY <1>0, <1>6, <2>1, <2>3 DEF TypeOK, ChannelFits
  <2>4. QED
    BY <2>2, <2>3
<1>7. CASE Receive
  <2> DEFINE f == inbox[1]
             t == Transaction(f[1])
             parts == Append(collector[t], f)
  <2>1. f \in Fragment /\ step' = step
    BY <1>7, ReceiveGives DEF Receive
  <2>2. CASE UNCHANGED <<channel, pending>>
    BY <1>5, <2>1, <2>2
  <2>3. CASE f[2] = Len(collector[t]) + 1 /\ Complete(parts) /\ Finish(f[1], parts)
    <3>1. CASE f[1] \in Caller
      <4>1. t = f[1]
        BY <2>1, <3>1, TransactionIs
      <4>2. parts = Fragments(f[1], Size(f[1]))
        BY <1>7, <2>3, <3>1, <4>1, AnswerWhole
      <4>3. PICK value \in {Failure, Answer(Fragments(f[1], Size(f[1])))} :
              Deliver(f[1], value)
        BY <2>3, <3>1, <4>2 DEF Finish
      <4>4. QED
        BY <1>6, <2>1, <3>1, <4>3
    <3>2. CASE f[1] \notin Caller
      BY <1>5, <2>1, <2>3, <3>2 DEF Finish
    <3>3. QED
      BY <3>1, <3>2
  <2>4. QED
    BY <1>7, <2>2, <2>3, ReceiveGives
<1>8. CASE ReadLoopFails
  <2>1. /\ pending' = {} /\ step' = step
        /\ channel'[p] = IF p \in pending THEN Failure ELSE channel[p]
    BY <1>8 DEF ReadLoopFails
  <2>2. QED
    BY <1>0, <2>1, Verdicts DEF ChannelFits
<1>9. QED
  BY <1>1, <1>2, <1>4, <1>5, <1>7, <1>8 DEF MBIMNext, DeviceAnswers, BeginClose, Close,
     DeviceIndicates, WireFlaw, Consume, mbimVars

LEMMA CollectorFitsKept ==
  ASSUME MBIMInv, [MBIMNext]_mbimVars, NEW p \in Caller
  PROVE  CollectorFits(p)'
<1>0. TypeOK /\ CollectorFits(p) /\ 0 \notin Caller
  BY MBIMAssumption DEF MBIMInv
<1>1. ASSUME collector'[p] = <<>> PROVE CollectorFits(p)'
  BY <1>1, SizePositive, EmptySeq DEF CollectorFits, Starts
<1>2. CASE collector'[p] = collector[p]
  BY <1>0, <1>2 DEF CollectorFits, Starts
<1>3. CASE Receive
  <2> DEFINE f == inbox[1]
             t == Transaction(f[1])
             parts == Append(collector[t], f)
  <2>1. f \in Fragment
    BY <1>3, ReceiveGives
  <2>2. CASE collector' = collector
    BY <1>2, <2>2
  <2>3. CASE f[2] = Len(collector[t]) + 1 /\ ~Complete(parts)
             /\ collector' = [collector EXCEPT ![t] = parts]
    <3>1. CASE p = t
      <4>1. f[1] = p
        BY <1>0, <2>1, <3>1, TransactionIs
      <4>2. /\ Starts(parts, p, Size(p)) /\ Len(parts) = Len(collector[p]) + 1
            /\ Len(parts) # Size(p)
        BY <1>3, <2>3, <3>1, <4>1, AnswerWhole
      <4>3. Len(collector[p]) \in Nat /\ Size(p) \in Nat
        BY <1>0, SizePositive, LenProperties DEF TypeOK
      <4>4. Len(parts) < Size(p) /\ collector'[p] = parts
        BY <1>0, <2>3, <3>1, <4>2, <4>3, SMTT(30) DEF TypeOK, Starts
      <4>5. QED
        BY <4>2, <4>4 DEF CollectorFits, Starts
    <3>2. CASE p # t
      BY <1>0, <1>2, <2>3, <3>2 DEF TypeOK
    <3>3. QED
      BY <3>1, <3>2
  <2>4. CASE collector' = [collector EXCEPT ![t] = <<>>]
    BY <1>0, <1>1, <1>2, <2>4 DEF TypeOK
  <2>5. QED
    BY <1>3, <2>2, <2>3, <2>4, ReceiveGives
<1>4. CASE ReadLoopFails
  BY <1>1, <1>4 DEF ReadLoopFails
<1>5. QED
  BY <1>2, <1>3, <1>4 DEF MBIMNext, Register, LockWriter, WriteFragment, WriteCommandFails,
     ReturnAnswer, GiveUp,
     DeviceAnswers, BeginClose, Close, DeviceIndicates, WireFlaw, Consume, mbimVars

----------------------------------------------------------------------------
(* The wire without a flaw.                                                *)

\* What is put behind whole messages is a whole message.
LEMMA ChainGrows ==
  ASSUME inbox \in Seq(Fragment), Chained, Collected,
         NEW m \in Caller \cup Nat, NEW n \in Nat \ {0}, m \in Caller => n = Size(m),
         inbox' = inbox \o Fragments(m, n), collector' = collector
  PROVE  Chained' /\ Collected'
<1> DEFINE s == Fragments(m, n)
           k == Len(inbox)
<1>1. s \in Seq(Fragment) /\ Len(s) = n /\ \A i \in 1..n : s[i] = <<m, i, n>>
  BY FragmentsAre
<1>2. k \in Nat
  BY LenProperties
<1> HIDE DEF s
<1>3. /\ inbox' \in Seq(Fragment) /\ Len(inbox') = k + n
      /\ \A i \in 1..(k + n) : inbox'[i] = IF i <= k THEN inbox[i] ELSE s[i - k]
  BY <1>1, ConcatProperties DEF s
<1>4. \A i \in 1..k : inbox'[i] = inbox[i]
  BY <1>2, <1>3
<1>5. \A i \in 1..n : inbox'[k + i] = <<m, i, n>>
  <2>1. ASSUME NEW i \in 1..n PROVE inbox'[k + i] = <<m, i, n>>
    <3>1. k + i \in 1..(k + n) /\ ~(k + i <= k) /\ k + i - k = i
      BY <1>2
    <3>2. inbox'[k + i] = s[i]
      BY <1>3, <3>1
    <3>3. QED
      BY <1>1, <3>2
  <2>2. QED
    BY <2>1
<1>6. inbox' # <<>>
  BY <1>2, <1>3, EmptySeq
<1>7. inbox # <<>> => k \in Nat \ {0}
  BY EmptySeq
<1>8. inbox = <<>> => k = 0
  BY EmptySeq
<1> HIDE DEF k
<1>9. Chained'
  <2>1. inbox'[Len(inbox')][2] = inbox'[Len(inbox')][3]
    <3>1. n \in 1..n
      OBVIOUS
    <3>2. inbox'[k + n] = <<m, n, n>>
      BY <1>5, <3>1
    <3>3. QED
      BY <1>3, <3>2
  <2>2. ASSUME NEW i \in 1..(Len(inbox') - 1) PROVE Follows(inbox'[i], inbox'[i + 1])
    <3>1. CASE i < k
      BY <1>2, <1>4, <3>1 DEF Chained, k
    <3>2. CASE i = k
      <4>1. inbox'[i] = inbox[k] /\ inbox'[i + 1] = <<m, 1, n>> /\ inbox # <<>>
        <5>1. 1 \in 1..n /\ k \in 1..k
          BY <1>2, <3>2
        <5>2. inbox'[k + 1] = <<m, 1, n>> /\ inbox'[k] = inbox[k]
          BY <1>4, <1>5, <5>1
        <5>3. QED
          BY <1>8, <3>2, <5>1, <5>2
      <4>2. inbox[k][2] = inbox[k][3]
        BY <4>1 DEF Chained, k
      <4>3. QED
        BY <4>1, <4>2 DEF Follows
    <3>3. CASE i > k
      <4>1. PICK j \in 1..(n - 1) : i = k + j
        BY <1>2, <1>3, <3>3
      <4>2. inbox'[i] = <<m, j, n>> /\ inbox'[i + 1] = <<m, j + 1, n>>
        <5>1. j \in 1..n /\ j + 1 \in 1..n /\ i + 1 = k + (j + 1)
          BY <1>2, <4>1
        <5>2. QED
          BY <1>5, <4>1, <5>1
      <4>3. QED
        BY <4>1, <4>2 DEF Follows
    <3>4. QED
      BY <1>2, <3>1, <3>2, <3>3
  <2>3. QED
    BY <2>1, <2>2 DEF Chained
<1>10. Collected'
  <2>1. CASE inbox # <<>>
    <3>1. inbox'[1] = inbox[1]
      BY <1>4, <1>7, <2>1
    <3>2. QED
      BY <1>6, <2>1, <3>1 DEF Collected, Starts
  <2>2. CASE inbox = <<>>
    <3>1. inbox'[1] = <<m, 1, n>>
      BY <1>5, <1>8, <2>2
    <3>2. \A t \in Caller \cup {0} : collector'[t] = <<>>
      BY <2>2 DEF Collected
    <3>3. Len(<<>>) = 0
      BY EmptySeq
    <3>4. QED
      BY <3>1, <3>2, <3>3 DEF Collected, Starts
  <2>3. QED
    BY <2>1, <2>2
<1>11. QED
  BY <1>9, <1>10

\* Without a flaw each fragment is the one its collector waits for, and what ends a message
\* is the whole message.
LEMMA ChainShrinks ==
  ASSUME MBIMInv, Receive, Chained, Collected
  PROVE  /\ Chained' /\ Collected'
         /\ LET parts == Append(collector[Transaction(inbox[1][1])], inbox[1])
            IN Complete(parts) => Whole(parts)
<1> DEFINE f == inbox[1]
           t == Transaction(f[1])
           parts == Append(collector[t], f)
<1>1. /\ f \in Fragment /\ inbox # <<>> /\ Len(inbox) \in Nat \ {0} /\ inbox' \in Seq(Fragment)
      /\ Len(inbox') = Len(inbox) - 1 /\ \A i \in 1..Len(inbox') : inbox'[i] = inbox[i + 1]
      /\ collector[t] \in Seq(Fragment)
  BY ReceiveGives
<1>2. t \in Caller \cup {0}
  BY <1>1, TransactionIs
<1>3. Starts(collector[t], f[1], f[3]) /\ Len(collector[t]) = f[2] - 1
  BY <1>1, <1>2 DEF Collected
<1>4. \A u \in Caller \cup {0} : u # t => collector[u] = <<>>
  BY <1>1 DEF Collected
<1>5. /\ f = <<f[1], f[2], f[3]>> /\ f[1] \in Caller \cup Nat /\ f[2] \in Nat \ {0}
      /\ f[3] \in Nat \ {0} /\ f[2] <= f[3] /\ (f[1] \in Caller => f[3] = Size(f[1]))
  BY <1>1, FragmentIs
<1>6. f[2] = Len(collector[t]) + 1 /\ Len(collector[t]) < f[3]
  BY <1>3, <1>5
<1>7. f = <<f[1], Len(collector[t]) + 1, f[3]>>
  BY <1>5, <1>6
<1>8. /\ parts \in Seq(Fragment) /\ Len(parts) = f[2] /\ Starts(parts, f[1], f[3])
      /\ Complete(parts) <=> f[2] = f[3]
      /\ f[2] = f[3] => parts = Fragments(f[1], f[3])
  <2> DEFINE p == collector[t]
             m == f[1]
             n == f[3]
  <2>1. /\ p \in Seq(Fragment) /\ Starts(p, m, n) /\ Len(p) < n /\ f \in Fragment
        /\ f = <<m, Len(p) + 1, n>> /\ f[2] = Len(p) + 1
        /\ m \in Caller \cup Nat /\ n \in Nat \ {0} /\ (m \in Caller => n = Size(m))
    BY <1>1, <1>3, <1>5, <1>6, <1>7
  <2> HIDE DEF f, t, p, m, n
  <2>2. /\ Append(p, f) \in Seq(Fragment) /\ Len(Append(p, f)) = Len(p) + 1
        /\ Starts(Append(p, f), m, n)
        /\ Complete(Append(p, f)) <=> Len(p) + 1 = n
        /\ Len(p) + 1 = n => Append(p, f) = Fragments(m, n)
    BY <2>1, StartsGrow
  <2>3. QED
    BY <2>1, <2>2 DEF p, m, n
<1>9. Complete(parts) => Whole(parts)
  BY <1>5, <1>8, FragmentsAre
<1>10. collector' = IF f[2] = f[3] THEN [collector EXCEPT ![t] = <<>>]
                    ELSE [collector EXCEPT ![t] = parts]
  BY <1>6, <1>8, ReceiveGives
<1>11. collector \in [Caller \cup {0} -> Seq(Fragment)]
  BY DEF MBIMInv, TypeOK
<1>12. inbox' # <<>> <=> Len(inbox) > 1
  BY <1>1, EmptySeq
<1>13. inbox' # <<>> => /\ 1 \in 1..(Len(inbox) - 1) /\ inbox'[1] = inbox[2]
                        /\ Follows(f, inbox[2])
  BY <1>1, <1>12 DEF Chained
<1>14. f[2] # f[3] => inbox' # <<>>
  BY <1>1, <1>12 DEF Chained
<1> HIDE DEF f, t, parts
<1>15. Chained'
  <2>1. ASSUME inbox' # <<>> PROVE inbox'[Len(inbox')][2] = inbox'[Len(inbox')][3]
    <3>1. Len(inbox') \in 1..Len(inbox') /\ Len(inbox') + 1 = Len(inbox)
      BY <1>1, <1>12, <2>1
    <3>2. inbox'[Len(inbox')] = inbox[Len(inbox)]
      BY <1>1, <3>1
    <3>3. QED
      BY <1>1, <3>2 DEF Chained
  <2>2. ASSUME NEW i \in 1..(Len(inbox') - 1) PROVE Follows(inbox'[i], inbox'[i + 1])
    <3>1. /\ i + 1 \in 1..(Len(inbox) - 1) /\ i \in 1..Len(inbox')
          /\ i + 1 \in 1..Len(inbox')
      BY <1>1, <2>2
    <3>2. inbox'[i] = inbox[i + 1] /\ inbox'[i + 1] = inbox[(i + 1) + 1]
      BY <1>1, <3>1
    <3>3. QED
      BY <3>1, <3>2 DEF Chained
  <2>3. QED
    BY <2>1, <2>2 DEF Chained
<1>16. Collected'
  <2> SUFFICES ASSUME NEW u \in Caller \cup {0}
               PROVE  IF inbox' # <<>> /\ u = Transaction(inbox'[1][1])
                      THEN /\ Starts(collector'[u], inbox'[1][1], inbox'[1][3])
                           /\ Len(collector'[u]) = inbox'[1][2] - 1
                      ELSE collector'[u] = <<>>
    BY DEF Collected, Starts, Transaction
  <2>1. CASE f[2] = f[3]
    <3>1. collector'[u] = <<>> /\ Len(<<>>) = 0
      BY <1>2, <1>4, <1>10, <1>11, <2>1, EmptySeq
    <3>2. ASSUME inbox' # <<>>
          PROVE  inbox'[1] \in Fragment /\ inbox'[1][2] = 1
      <4>1. 1 \in 1..Len(inbox')
        BY <1>1, <1>12, <3>2
      <4>2. QED
        BY <1>1, <1>13, <2>1, <3>2, <4>1, ElementOfSeq DEF Follows
    <3>3. ASSUME inbox' # <<>>
          PROVE  inbox'[1][3] \in Nat
      BY <3>2, <3>3, FragmentIs
    <3>4. QED
      BY <3>1, <3>2, <3>3 DEF Starts
  <2>2. CASE f[2] # f[3]
    <3>1. inbox' # <<>> /\ inbox'[1] = <<f[1], f[2] + 1, f[3]>>
      BY <1>13, <1>14, <2>2 DEF Follows
    <3>2. t = Transaction(inbox'[1][1])
      BY <3>1 DEF t
    <3>3. collector'[t] = parts /\ \A v \in Caller \cup {0} : v # t => collector'[v] = <<>>
      BY <1>2, <1>4, <1>10, <1>11, <2>2
    <3>4. Starts(collector'[t], inbox'[1][1], inbox'[1][3])
          /\ Len(collector'[t]) = inbox'[1][2] - 1
      BY <1>5, <1>8, <3>1, <3>3
    <3>5. QED
      BY <3>1, <3>2, <3>3, <3>4
  <2>3. QED
    BY <2>1, <2>2
<1>17. QED
  BY <1>9, <1>15, <1>16 DEF f, t, parts

LEMMA NoFlawKept ==
  ASSUME MBIMInv, [MBIMNext]_mbimVars, flaws' = 0
  PROVE  Chained' /\ Collected' /\ IndicationsWhole'
<1>0. /\ TypeOK /\ inbox \in Seq(Fragment) /\ indications \in Seq(Seq(Fragment))
      /\ flaws = 0
  <2>1. TypeOK
    BY DEF MBIMInv
  <2>2. flaws' = flaws \/ flaws' = flaws + 1
    BY DEF MBIMNext, Register, LockWriter, WriteFragment, WriteCommandFails, ReturnAnswer,
       GiveUp, DeviceAnswers,
       BeginClose, Close, DeviceIndicates, WireFlaw, Receive, ReadLoopFails, Consume, mbimVars
  <2>3. QED
    BY <2>1, <2>2 DEF TypeOK
<1>1. Chained /\ Collected /\ IndicationsWhole
  BY <1>0 DEF MBIMInv
<1>2. CASE UNCHANGED <<inbox, collector, indications>>
  BY <1>1, <1>2 DEF Chained, Collected, Starts, IndicationsWhole
<1>3. ASSUME NEW c \in Caller, DeviceAnswers(c)
      PROVE  Chained' /\ Collected' /\ IndicationsWhole'
  <2>1. /\ inbox' = inbox \o Fragments(c, Size(c)) /\ collector' = collector
        /\ indications' = indications
    BY <1>3 DEF DeviceAnswers
  <2>2. Chained' /\ Collected'
    BY <1>0, <1>1, <2>1, SizePositive, ChainGrows
  <2>3. QED
    BY <1>1, <2>1, <2>2 DEF IndicationsWhole
<1>4. ASSUME NEW n \in 1..MaxFrags, DeviceIndicates(n)
      PROVE  Chained' /\ Collected' /\ IndicationsWhole'
  <2>1. /\ inbox' = inbox \o Fragments(indicated + 1, n) /\ collector' = collector
        /\ indications' = indications
    BY <1>4 DEF DeviceIndicates
  <2>2. indicated + 1 \in Nat /\ n \in Nat \ {0}
    BY <1>0, MBIMAssumption DEF TypeOK
  <2>3. indicated + 1 \notin Caller
    BY <2>2, MBIMAssumption
  <2>4. Chained' /\ Collected'
    BY <1>0, <1>1, <2>1, <2>2, <2>3, ChainGrows
  <2>5. QED
    BY <1>1, <2>1, <2>4 DEF IndicationsWhole
<1>5. CASE Receive
  <2> DEFINE f == inbox[1]
             parts == Append(collector[Transaction(f[1])], f)
  <2>1. Chained' /\ Collected' /\ (Complete(parts) => Whole(parts))
    BY <1>1, <1>5, ChainShrinks
  <2>2. parts \in Seq(Fragment)
    BY <1>5, ReceiveGives
  <2>3. \/ indications' = indications
        \/ (Complete(parts) /\ indications' = Append(indications, parts))
    BY <1>5, ReceiveGives DEF Finish
  <2> HIDE DEF parts
  <2>4. IndicationsWhole'
    <3>1. CASE indications' = indications
      BY <1>1, <3>1 DEF IndicationsWhole
    <3>2. CASE Complete(parts) /\ indications' = Append(indications, parts)
      <4>1. /\ Len(indications) \in Nat /\ DOMAIN indications = 1..Len(indications)
            /\ Append(indications, parts) \in Seq(Seq(Fragment))
            /\ Len(Append(indications, parts)) = Len(indications) + 1
            /\ Append(indications, parts)[Len(indications) + 1] = parts
            /\ \A i \in 1..Len(indications) : Append(indications, parts)[i] = indications[i]
        BY <1>0, <2>2, AppendProperties, LenProperties
      <4>2. DOMAIN indications' = 1..(Len(indications) + 1)
        BY <3>2, <4>1, LenProperties
      <4>3. ASSUME NEW i \in DOMAIN indications' PROVE Whole(indications'[i])
        <5>1. i \in 1..Len(indications) \/ i = Len(indications) + 1
          BY <4>1, <4>2
        <5>2. QED
          BY <1>1, <2>1, <3>2, <4>1, <5>1 DEF IndicationsWhole
      <4>4. QED
        BY <4>3 DEF IndicationsWhole
    <3>3. QED
      BY <2>3, <3>1, <3>2
  <2>5. QED
    BY <2>1, <2>4
<1>6. CASE ReadLoopFails
  <2>1. /\ inbox' = <<>> /\ indications' = indications
        /\ \A t \in Caller \cup {0} : collector'[t] = <<>>
    BY <1>6 DEF ReadLoopFails
  <2>2. Len(<<>>) = 0
    OBVIOUS
  <2>3. QED
    BY <1>1, <2>1, <2>2 DEF Chained, Collected, IndicationsWhole
<1>7. CASE Consume
  <2>1. /\ UNCHANGED <<inbox, collector>> /\ indications # <<>>
        /\ indications' = Tail(indications)
    BY <1>7 DEF Consume
  <2>2. /\ Tail(indications) \in Seq(Seq(Fragment))
        /\ Len(Tail(indications)) = Len(indications) - 1
        /\ \A i \in 1..Len(Tail(indications)) : Tail(indications)[i] = indications[i + 1]
    BY <1>0, <2>1, HeadTailProperties
  <2>3. /\ DOMAIN indications = 1..Len(indications) /\ Len(indications) \in Nat
        /\ DOMAIN Tail(indications) = 1..Len(Tail(indications))
    BY <1>0, <2>2, LenProperties
  <2>4. ASSUME NEW i \in DOMAIN indications' PROVE Whole(indications'[i])
    <3>1. i + 1 \in DOMAIN indications /\ indications'[i] = indications[i + 1]
      BY <2>1, <2>2, <2>3
    <3>2. QED
      BY <1>1, <3>1 DEF IndicationsWhole
  <2>5. QED
    BY <1>1, <2>1, <2>4 DEF Chained, Collected, Starts, IndicationsWhole
<1>8. CASE WireFlaw
  BY <1>0, <1>8 DEF WireFlaw
<1>9. QED
  BY <1>2, <1>3, <1>4, <1>5, <1>6, <1>7, <1>8 DEF MBIMNext, Register, LockWriter, WriteFragment,
     WriteCommandFails, ReturnAnswer, GiveUp, BeginClose, Close, mbimVars

----------------------------------------------------------------------------
(* The invariant and what follows from it.                                 *)

LEMMA InitMBIM ==
  ASSUME MBIMInit
  PROVE  MBIMInv
<1>1. TypeOK
  <2>1. collector \in [Caller \cup {0} -> Seq(Fragment)]
    BY EmptySeq DEF MBIMInit
  <2>2. QED
    BY <2>1, EmptySeq DEF MBIMInit, TypeOK, CallSteps, OpenSteps, Verdict
<1>2. OpenFirst
  BY MBIMAssumption DEF MBIMInit, OpenFirst, CallSteps, OpenSteps, Caller
<1>3. ASSUME NEW c \in Caller PROVE WritesOn(c) /\ ChannelFits(c) /\ CollectorFits(c)
  <2>1. WritesOn(c) /\ ChannelFits(c)
    BY DEF MBIMInit, WritesOn, ChannelFits, Using
  <2>2. collector[c] = <<>> /\ Len(<<>>) = 0
    BY DEF MBIMInit
  <2>3. CollectorFits(c)
    BY <2>2, SizePositive DEF CollectorFits, Starts
  <2>4. QED
    BY <2>1, <2>3
<1>4. Chained /\ Collected /\ IndicationsWhole
  <2>1. Len(<<>>) = 0 /\ DOMAIN <<>> = {}
    OBVIOUS
  <2>2. QED
    BY <2>1 DEF MBIMInit, Chained, Collected, IndicationsWhole
<1>5. QED
  BY <1>1, <1>2, <1>3, <1>4 DEF MBIMInv

LEMMA InvariantKept ==
  MBIMSpec => []MBIMInv
<1>1. MBIMInit => MBIMInv
  BY InitMBIM
<1>2. MBIMInv /\ [MBIMNext]_mbimVars => MBIMInv'
  <2> SUFFICES ASSUME MBIMInv, [MBIMNext]_mbimVars PROVE MBIMInv'
    OBVIOUS
  <2>1. TypeOK' /\ OpenFirst'
    BY TypesKept, OpenFirstKept
  <2>2. \A c \in Caller : WritesOn(c)' /\ ChannelFits(c)' /\ CollectorFits(c)'
    BY WritesOnKept, ChannelFitsKept, CollectorFitsKept
  <2>3. flaws' = 0 => Chained' /\ Collected' /\ IndicationsWhole'
    BY NoFlawKept
  <2>4. QED
    BY <2>1, <2>2, <2>3 DEF MBIMInv
<1>3. QED
  BY <1>1, <1>2, PTL DEF MBIMSpec

\* The variables keep their types: no collector holds what is no fragment, and the read
\* loop is never stuck.
THEOREM TypeCorrect ==
  MBIMSpec => []TypeOK
<1>1. MBIMInv => TypeOK
  BY DEF MBIMInv
<1>2. QED
  BY <1>1, InvariantKept, PTL

\* The fragments of a command follow one another on the wire, the answer a caller is given
\* is its own and whole, whatever the wire loses, repeats or turns around, and indications
\* are whole as long as it does not; the read loop is never stuck in a caller's channel,
\* and a caller that waits is registered or has its answer, never both.
THEOREM EndpointSafe ==
  MBIMSpec => []EndpointKept
<1>1. ASSUME MBIMInv, NEW c \in Caller, channel[c][1] = "answer"
      PROVE  Whole(channel[c][2]) /\ channel[c][2][1][1] = c
  <2>1. channel[c] = Answer(Fragments(c, Size(c)))
    BY <1>1 DEF MBIMInv, ChannelFits, Empty, Failure
  <2>2. channel[c][2] = Fragments(c, Size(c))
    BY <2>1 DEF Answer
  <2>3. QED
    BY <2>2, SizePositive, FragmentsAre
<1>2. MBIMInv => MessagesWhole
  BY <1>1 DEF MBIMInv, WritesOn, IndicationsWhole, MessagesWhole
<1>3. MBIMInv => NobodyForgotten
  BY DEF MBIMInv, TypeOK, ChannelFits, Using, Waiting, NobodyForgotten
<1>4. MBIMInv => EndpointKept
  BY <1>2, <1>3 DEF EndpointKept
<1>5. QED
  BY <1>4, InvariantKept, PTL

-----------------------------------------------------------------------------
(***************************************************************************)
(* QMIUSSD.                                                                *)
(***************************************************************************)

Underway == {"prepare", "nowait", "sync", "wait"}
Selection ==
  [service : {"CSPS", "PSOnly"}, voice : {"CSPreferred", "PSPreferred", "PSOnly", "unsaid"}]
Outcome ==
  {<<what>> : what \in {"none", "error", "refused", "timeout"}}
    \cup ({"result", "failure", "released"} \X Request)
Event == {"result", "failure", "release"} \X Request

\* The variables keep their types.
USSDTypeOK ==
  /\ phase \in [Request -> {"idle", "lock", "ended"} \cup Underway]
  /\ outcome \in [Request -> Outcome]
  /\ callbacks \in {"unset", "set", "failed"}
  /\ ussdMu \in Request \cup {Absent} /\ ussdAwaitRelease \in BOOLEAN
  /\ ussdResult \in Request \cup {Absent} /\ ussdErr \in Request \cup {Absent}
  /\ ussdRelease \in Request \cup {Absent} /\ session \in Request \cup {Absent}
  /\ replied \in BOOLEAN /\ events \in Seq(Event)
  /\ domain \in Selection /\ quiet \in SUBSET Request

\* The request that is under way is the one that holds the mutex; one that has not entered
\* has begun in no quiet moment and was given nothing.
OneUnderway ==
  \A r \in Request : /\ phase[r] \in Underway <=> ussdMu = r
                     /\ phase[r] \in {"idle", "lock"} => r \notin quiet /\ outcome[r] = <<"none">>

\* When the holder of the mutex began in a quiet moment, the session, what is on its way
\* and what lies in the channels are its own.
OwnOnly ==
  ussdMu \in quiet =>
    /\ ussdResult \in {ussdMu, Absent} /\ ussdErr \in {ussdMu, Absent}
    /\ ussdRelease \in {ussdMu, Absent} /\ session \in {ussdMu, Absent}
    /\ \A i \in 1..Len(events) : events[i][2] = ussdMu

USSDInv == USSDTypeOK /\ OneUnderway /\ OwnOnly /\ QuietOwnAnswer

-----------------------------------------------------------------------------
\* The rest of what is on its way, and what it is when something comes.
LEMMA EventsOf ==
  ASSUME NEW es \in Seq(Event)
  PROVE  /\ \A e \in Event : /\ Append(es, e) \in Seq(Event)
                             /\ Len(Append(es, e)) = Len(es) + 1
                             /\ \A i \in 1..Len(es) : Append(es, e)[i] = es[i]
                             /\ Append(es, e)[Len(es) + 1] = e
         /\ es # <<>> => /\ Head(es) \in Event /\ Head(es) = es[1] /\ 1 \in 1..Len(es)
                         /\ Tail(es) \in Seq(Event) /\ Len(Tail(es)) = Len(es) - 1
                         /\ \A i \in 1..Len(Tail(es)) :
                              Tail(es)[i] = es[i + 1] /\ i + 1 \in 1..Len(es)
BY DEF Event

\* A step of a request that stays under way.
LEMMA GoesOn ==
  ASSUME USSDInv, NEW r \in Request, NEW p \in Underway, phase[r] \in Underway,
         phase' = [phase EXCEPT ![r] = p],
         UNCHANGED <<outcome, callbacks, ussdMu, ussdAwaitRelease, channelVars, quiet>>,
         \/ UNCHANGED networkVars
         \/ session = Absent /\ session' = r /\ replied' = FALSE /\ UNCHANGED events,
         domain' \in Selection
  PROVE  USSDInv'
<1>0. USSDTypeOK /\ OneUnderway /\ OwnOnly /\ QuietOwnAnswer /\ ussdMu = r
  BY DEF USSDInv, OneUnderway
<1>1. USSDTypeOK'
  BY <1>0 DEF USSDTypeOK, channelVars, networkVars
<1>2. OneUnderway'
  BY <1>0 DEF USSDTypeOK, OneUnderway, Underway
<1>3. OwnOnly'
  BY <1>0 DEF OwnOnly, channelVars, networkVars
<1>4. QuietOwnAnswer'
  BY <1>0 DEF QuietOwnAnswer, Given
<1>5. QED
  BY <1>1, <1>2, <1>3, <1>4 DEF USSDInv

\* A request ends with the mutex free and with what is its own.
LEMMA Ends ==
  ASSUME USSDInv, NEW r \in Request, NEW what \in Outcome, phase[r] \in Underway,
         Leave(r, what), UNCHANGED <<callbacks, quiet, domain, events>>,
         ussdAwaitRelease' \in BOOLEAN, replied' \in BOOLEAN,
         ussdResult' \in {ussdResult, Absent}, ussdErr' \in {ussdErr, Absent},
         ussdRelease' \in {ussdRelease, Absent}, session' \in {session, r},
         r \in quiet => what[1] \in {"none", "error", "refused", "timeout"} \/ what[2] = r
  PROVE  USSDInv'
<1>0. USSDTypeOK /\ OneUnderway /\ OwnOnly /\ QuietOwnAnswer /\ ussdMu = r
  BY DEF USSDInv, OneUnderway
<1>1. USSDTypeOK'
  BY <1>0 DEF USSDTypeOK, Leave
<1>2. OneUnderway'
  BY <1>0, RequestAssumption DEF USSDTypeOK, OneUnderway, Underway, Leave
<1>3. OwnOnly'
  BY <1>0, RequestAssumption DEF USSDTypeOK, OwnOnly, Leave
<1>4. QuietOwnAnswer'
  <2>1. ASSUME NEW s \in quiet' PROVE Given(s)'
    <3>1. s \in Request /\ s \in quiet
      BY <1>0, <2>1 DEF USSDTypeOK
    <3>2. CASE s # r
      BY <1>0, <3>1, <3>2 DEF USSDTypeOK, QuietOwnAnswer, Given, Leave
    <3>3. CASE s = r
      <4>1. outcome'[s] = what
        BY <1>0, <3>3 DEF USSDTypeOK, Leave
      <4>2. what[1] \in {"result", "failure", "released"} => what = <<what[1], what[2]>>
        BY DEF Outcome
      <4>3. QED
        BY <3>1, <3>3, <4>1, <4>2 DEF Given
    <3>4. QED
      BY <3>2, <3>3
  <2>2. QED
    BY <2>1 DEF QuietOwnAnswer
<1>5. QED
  BY <1>1, <1>2, <1>3, <1>4 DEF USSDInv

\* Words are outcomes, and so is what lies in a channel.
LEMMA Outcomes ==
  /\ \A w \in {"none", "error", "refused", "timeout"} : <<w>> \in Outcome /\ <<w>>[1] = w
  /\ \A w \in {"result", "failure", "released"}, r \in Request :
       <<w, r>> \in Outcome /\ <<w, r>>[1] = w /\ <<w, r>>[2] = r
BY DEF Outcome

\* The mutex is taken: whatever lay in the channels is gone.
LEMMA EnterKeeps ==
  ASSUME USSDInv, NEW r \in Request, Enter(r)
  PROVE  USSDInv'
<1>0. /\ USSDTypeOK /\ OneUnderway /\ OwnOnly /\ QuietOwnAnswer
      /\ ussdMu = Absent /\ phase[r] = "lock" /\ r \notin quiet
      /\ outcome[r] = <<"none">>
  BY DEF USSDInv, OneUnderway, Enter
<1>1. /\ ussdResult' = Absent /\ ussdErr' = Absent /\ ussdRelease' = Absent
      /\ quiet' = IF session = Absent /\ events = <<>> THEN quiet \cup {r} ELSE quiet
      /\ UNCHANGED <<callbacks, session, replied, events, domain>>
      /\ ussdAwaitRelease' \in BOOLEAN
  BY <1>0 DEF Enter, resetUSSDChannels, networkVars, USSDTypeOK
<1>2. \/ phase' = [phase EXCEPT ![r] = "ended"] /\ ussdMu' = Absent
         /\ outcome' = [outcome EXCEPT ![r] = <<"refused">>]
      \/ phase' = [phase EXCEPT ![r] = "prepare"] /\ ussdMu' = r /\ UNCHANGED outcome
  BY <1>0 DEF Enter, Leave
<1>3. USSDTypeOK'
  BY <1>0, <1>1, <1>2, Outcomes DEF USSDTypeOK, Underway
<1>4. OneUnderway'
  BY <1>0, <1>1, <1>2, RequestAssumption DEF USSDTypeOK, OneUnderway, Underway
<1>5. OwnOnly'
  <2>1. CASE ussdMu' = Absent
    BY <1>0, <1>1, <2>1, RequestAssumption DEF USSDTypeOK, OwnOnly
  <2>2. CASE ussdMu' = r
    BY <1>0, <1>1, <2>2 DEF USSDTypeOK, OwnOnly
  <2>3. QED
    BY <1>2, <2>1, <2>2
<1>6. QuietOwnAnswer'
  <2>1. ASSUME NEW s \in quiet' PROVE Given(s)'
    <3>1. CASE s = r /\ outcome' = outcome
      <4>1. outcome[r][1] \notin {"result", "failure", "released"}
        BY <1>0, Outcomes
      <4>2. QED
        BY <3>1, <4>1 DEF Given
    <3>2. CASE s = r /\ outcome' = [outcome EXCEPT ![r] = <<"refused">>]
      BY <1>0, <3>2, Outcomes DEF USSDTypeOK, Given
    <3>3. CASE s # r
      BY <1>0, <1>1, <1>2, <2>1, <3>3 DEF USSDTypeOK, QuietOwnAnswer, Given
    <3>4. QED
      BY <1>2, <3>1, <3>2, <3>3
  <2>2. QED
    BY <2>1 DEF QuietOwnAnswer
<1>7. QED
  BY <1>3, <1>4, <1>5, <1>6 DEF USSDInv

LEMMA RegisterKeeps ==
  ASSUME USSDInv, NEW r \in Request, NEW ok \in BOOLEAN, RegisterCallbacks(r, ok)
  PROVE  USSDInv'
<1>0. /\ USSDTypeOK /\ OneUnderway /\ OwnOnly /\ QuietOwnAnswer
      /\ phase[r] = "idle" /\ r \notin quiet
  BY DEF USSDInv, OneUnderway, RegisterCallbacks
<1>1. /\ UNCHANGED <<ussdMu, ussdAwaitRelease, ussdResult, ussdErr, ussdRelease, session,
                     replied, events, domain, quiet>>
      /\ callbacks' \in {"unset", "set", "failed"}
  BY <1>0 DEF USSDTypeOK, RegisterCallbacks, channelVars, networkVars
<1>2. \/ phase' = [phase EXCEPT ![r] = "lock"] /\ outcome' = outcome
      \/ /\ phase' = [phase EXCEPT ![r] = "ended"]
         /\ outcome' = [outcome EXCEPT ![r] = <<"error">>]
  BY <1>0 DEF USSDTypeOK, RegisterCallbacks
<1>3. USSDTypeOK'
  BY <1>0, <1>1, <1>2, Outcomes DEF USSDTypeOK
<1>4. OneUnderway'
  BY <1>0, <1>1, <1>2 DEF USSDTypeOK, OneUnderway, Underway
<1>5. OwnOnly'
  BY <1>0, <1>1 DEF OwnOnly
<1>6. QuietOwnAnswer'
  BY <1>0, <1>1, <1>2 DEF USSDTypeOK, QuietOwnAnswer, Given
<1>7. QED
  BY <1>3, <1>4, <1>5, <1>6 DEF USSDInv

\* An indication is that of the session the modem has.
LEMMA NetworkKeeps ==
  ASSUME USSDInv, (\E kind \in {"result", "failure"} : NetworkReplies(kind)) \/ NetworkReleases
  PROVE  USSDInv'
<1>0. USSDTypeOK /\ OneUnderway /\ OwnOnly /\ QuietOwnAnswer
  BY DEF USSDInv
<1>1. /\ session \in Request /\ replied' \in BOOLEAN /\ session' \in {session, Absent}
      /\ UNCHANGED <<phase, outcome, callbacks, ussdMu, ussdAwaitRelease, ussdResult, ussdErr,
                     ussdRelease, domain, quiet>>
  BY <1>0 DEF USSDTypeOK, NetworkReplies, NetworkReleases, channelVars
<1>2. PICK kind \in {"result", "failure", "release"} : events' = Append(events, <<kind, session>>)
  BY DEF NetworkReplies, NetworkReleases
<1>3. <<kind, session>> \in Event /\ <<kind, session>>[2] = session
  BY <1>1 DEF Event
<1>4. USSDTypeOK'
  BY <1>0, <1>1, <1>2, <1>3, EventsOf DEF USSDTypeOK
<1>5. OwnOnly'
  <2>1. ASSUME ussdMu \in quiet, NEW i \in 1..Len(events') PROVE events'[i][2] = ussdMu
    <3>1. session = ussdMu
      BY <1>0, <1>1, <2>1, RequestAssumption DEF OwnOnly
    <3>2. events \in Seq(Event) /\ Len(events) \in Nat /\ Len(events') = Len(events) + 1
      BY <1>0, <1>2, <1>3, EventsOf DEF USSDTypeOK
    <3>3. CASE i \in 1..Len(events)
      BY <1>0, <1>2, <1>3, <2>1, <3>2, <3>3, EventsOf DEF OwnOnly
    <3>4. CASE i = Len(events) + 1
      BY <1>2, <1>3, <3>1, <3>2, <3>4, EventsOf
    <3>5. QED
      BY <2>1, <3>2, <3>3, <3>4
  <2>2. QED
    BY <1>0, <1>1, <2>1 DEF OwnOnly
<1>6. QED
  BY <1>0, <1>1, <1>4, <1>5 DEF USSDInv, OneUnderway, QuietOwnAnswer, Given

LEMMA CallbackKeeps ==
  ASSUME USSDInv, Callback
  PROVE  USSDInv'
<1>0. USSDTypeOK /\ OneUnderway /\ OwnOnly /\ QuietOwnAnswer
  BY DEF USSDInv
<1>1. /\ events # <<>> /\ events' = Tail(events)
      /\ UNCHANGED <<phase, outcome, callbacks, ussdMu, ussdAwaitRelease, session, replied,
                     domain, quiet>>
      /\ ussdResult' \in {ussdResult, Head(events)[2]}
      /\ ussdErr' \in {ussdErr, Head(events)[2]}
      /\ ussdRelease' \in {ussdRelease, Head(events)[2]}
  BY DEF Callback, Offer
<1>2. /\ Head(events)[2] \in Request /\ Head(events) = events[1] /\ 1 \in 1..Len(events)
      /\ events' \in Seq(Event)
      /\ \A i \in 1..Len(events') : events'[i] = events[i + 1] /\ i + 1 \in 1..Len(events)
  BY <1>0, <1>1, EventsOf DEF USSDTypeOK, Event
<1>3. USSDTypeOK'
  BY <1>0, <1>1, <1>2 DEF USSDTypeOK
<1>4. OwnOnly'
  BY <1>0, <1>1, <1>2 DEF OwnOnly
<1>5. QED
  BY <1>0, <1>1, <1>3, <1>4 DEF USSDInv, OneUnderway, QuietOwnAnswer, Given

LEMMA USSDInvKept ==
  ASSUME USSDInv, [USSDNext]_ussdVars
  PROVE  USSDInv'
<1>0. USSDTypeOK /\ OneUnderway /\ OwnOnly
  BY DEF USSDInv
<1>1. ASSUME NEW r \in Request, NEW v \in {"CSPreferred", "PSPreferred"}, Prepare(r, v)
      PROVE  USSDInv'
  <2>1. domain' \in Selection
    BY <1>0, <1>1 DEF USSDTypeOK, Prepare, Prepared, Selection
  <2>2. /\ phase[r] \in Underway /\ phase' = [phase EXCEPT ![r] = "nowait"]
        /\ UNCHANGED <<outcome, callbacks, ussdMu, ussdAwaitRelease, channelVars, quiet>>
        /\ UNCHANGED networkVars
    BY <1>1 DEF Prepare, Underway
  <2>3. "nowait" \in Underway
    BY DEF Underway
  <2>4. QED
    BY <2>1, <2>2, <2>3, GoesOn
<1>2. ASSUME NEW r \in Request, Originate(r) \/ NoWaitUnsupported(r) PROVE USSDInv'
  <2>1. /\ phase[r] \in Underway
        /\ \E p \in Underway : phase' = [phase EXCEPT ![r] = p]
        /\ UNCHANGED <<outcome, callbacks, ussdMu, ussdAwaitRelease, channelVars, quiet, domain>>
    BY <1>2 DEF Originate, NoWaitUnsupported, Underway
  <2>2. \/ UNCHANGED networkVars
        \/ session = Absent /\ session' = r /\ replied' = FALSE /\ UNCHANGED events
    BY <1>2 DEF Originate, NoWaitUnsupported, Accept
  <2>3. domain' \in Selection
    BY <1>0, <2>1 DEF USSDTypeOK
  <2>4. QED
    BY <2>1, <2>2, <2>3, GoesOn
<1>3. ASSUME NEW r \in Request, OriginateAnswered(r) PROVE USSDInv'
  <2>1. /\ phase[r] \in Underway /\ Leave(r, <<"result", r>>) /\ session' = r /\ replied' = TRUE
        /\ UNCHANGED <<callbacks, quiet, domain, events, ussdAwaitRelease, ussdResult, ussdErr,
                       ussdRelease>>
    BY <1>3 DEF OriginateAnswered, Underway, channelVars
  <2>2. QED
    BY <1>0, <2>1, Outcomes, Ends DEF USSDTypeOK
<1>4. ASSUME NEW r \in Request, OriginateFails(r) PROVE USSDInv'
  <2>1. /\ phase[r] \in Underway /\ Leave(r, <<"error">>)
        /\ UNCHANGED <<callbacks, quiet, domain, events, ussdAwaitRelease, ussdResult, ussdErr,
                       ussdRelease, session, replied>>
    BY <1>4 DEF OriginateFails, Underway, channelVars, networkVars
  <2>2. QED
    BY <1>0, <2>1, Outcomes, Ends DEF USSDTypeOK
<1>5. ASSUME NEW r \in Request, OriginateTimesOut(r) \/ WaitEnds(r) PROVE USSDInv'
  <2>1. /\ phase[r] \in Underway /\ Leave(r, <<"timeout">>) /\ ussdAwaitRelease' = TRUE
        /\ session' \in {session, r} /\ replied' \in {replied, FALSE}
        /\ UNCHANGED <<callbacks, quiet, domain, events, ussdResult, ussdErr, ussdRelease>>
    BY <1>5 DEF OriginateTimesOut, WaitEnds, Accept, Underway, channelVars, networkVars
  <2>2. /\ ussdAwaitRelease' \in BOOLEAN /\ replied' \in BOOLEAN
        /\ ussdResult' \in {ussdResult, Absent} /\ ussdErr' \in {ussdErr, Absent}
        /\ ussdRelease' \in {ussdRelease, Absent}
    BY <1>0, <2>1 DEF USSDTypeOK
  <2>3. <<"timeout">> \in Outcome /\ <<"timeout">>[1] = "timeout"
    BY Outcomes
  <2>4. QED
    BY <1>0, <2>1, <2>2, <2>3, Ends
<1>6. ASSUME NEW r \in Request, WaitResult(r) \/ WaitError(r) \/ WaitReleased(r)
      PROVE  USSDInv'
  <2>1. PICK w \in {"result", "failure", "released"}, x \in {ussdResult, ussdErr, ussdRelease} :
          x # Absent /\ Leave(r, <<w, x>>)
    BY <1>6 DEF WaitResult, WaitError, WaitReleased
  <2>2. /\ phase[r] \in Underway
        /\ ussdResult' \in {ussdResult, Absent} /\ ussdErr' \in {ussdErr, Absent}
        /\ ussdRelease' \in {ussdRelease, Absent}
        /\ ussdAwaitRelease' \in {ussdAwaitRelease, FALSE}
        /\ UNCHANGED <<callbacks, quiet, domain, events, session, replied>>
    BY <1>6 DEF WaitResult, WaitError, WaitReleased, Underway, networkVars
  <2>3. x \in Request /\ (r \in quiet => x = r)
    <3>1. ussdMu = r
      BY <1>0, <2>2 DEF OneUnderway
    <3>2. QED
      BY <1>0, <2>1, <3>1 DEF USSDTypeOK, OwnOnly
  <2>4. /\ <<w, x>> \in Outcome /\ <<w, x>>[2] = x
        /\ ussdAwaitRelease' \in BOOLEAN /\ replied' \in BOOLEAN /\ session' \in {session, r}
    BY <1>0, <2>2, <2>3, Outcomes DEF USSDTypeOK
  <2>5. QED
    BY <2>1, <2>2, <2>3, <2>4, Ends
<1>7. CASE UNCHANGED ussdVars
  BY <1>7 DEF USSDInv, USSDTypeOK, OneUnderway, OwnOnly, QuietOwnAnswer, Given, ussdVars
<1>8. QED
  BY <1>1, <1>2, <1>3, <1>4, <1>5, <1>6, <1>7, EnterKeeps, RegisterKeeps, NetworkKeeps,
    CallbackKeeps DEF USSDNext

\* A request for USSD that began with no earlier session left and no indication on its way
\* is given its own answer, or told of its own release (ExecuteUSSD, resetUSSDChannels,
\* waitQMIUSSDResult), for any number of requests and however they time out.
THEOREM OwnAnswerInQuiet ==
  USSDSpec => []QuietOwnAnswer
<1>1. USSDInit => USSDInv
  <2> SUFFICES ASSUME USSDInit PROVE USSDInv
    OBVIOUS
  <2>1. USSDTypeOK
    <3>1. <<"none">> \in Outcome /\ <<>> \in Seq(Event)
      BY Outcomes
    <3>2. domain \in Selection
      BY DEF USSDInit, InitialSelection, Selection
    <3>3. QED
      BY <3>1, <3>2 DEF USSDInit, USSDTypeOK
  <2>2. OneUnderway /\ OwnOnly /\ QuietOwnAnswer
    BY RequestAssumption DEF USSDInit, OneUnderway, OwnOnly, QuietOwnAnswer, Underway
  <2>3. QED
    BY <2>1, <2>2 DEF USSDInv
<1>2. USSDInv /\ [USSDNext]_ussdVars => USSDInv'
  BY USSDInvKept
<1>3. USSDInv => QuietOwnAnswer
  BY DEF USSDInv
<1>4. QED
  BY <1>1, <1>2, <1>3, PTL DEF USSDSpec

(***************************************************************************)
(* QMIReads.                                                               *)
(***************************************************************************)
Registration == [v : Nat, reg : STRING, mcc : Nat]
Asking == [since : Nat, age : Nat]
Told == [since : Nat, age : Nat, of : Nat, reg : STRING, mcc : Nat, operatorOf : Nat]

\* The variables keep their types.
ModemOK ==
  /\ net \in Registration /\ time \in Nat /\ failures \in Nat /\ failed \in BOOLEAN
  /\ rsrp \in BOOLEAN /\ rssi \in BOOLEAN

\* Each service has its own steps.
ServingSteps == {"must ask", "ask", "map", "retry", "served"}
SignalSteps == {"ask signal", "ask strength", "signalled"}
StepFits ==
  /\ reading \in {"serving", "signal", "identity"}
  /\ observer \in {"idle"} \cup ServingSteps \cup SignalSteps
  /\ observer \in ServingSteps => reading = "serving"
  /\ observer \in SignalSteps => reading = "signal"

\* The modem goes on and never back, and a snapshot shows what it was.
SnapshotFits ==
  /\ DOMAIN snapshot = Kinds[reading]
  /\ reading = "serving" /\ snapshot["serving"] # NoReading =>
       /\ snapshot["serving"].value \in Registration
       /\ snapshot["serving"].value.v <= net.v
       /\ snapshot["serving"].at \in 0..time

\* Why what GetServingSystem has in hand may be shown.
Trusted(r) ==
  \/ r.v >= ss.since \/ failed
  \/ ss.age <= 1 /\ ~(r.reg = "not registered" /\ r.mcc # 0)

\* How far GetServingSystem is, and what it has.
ServingFits ==
  /\ observer \in {"must ask", "ask", "map"} => ss \in Asking /\ ss.since <= net.v
  /\ observer = "must ask" => serving = NoReading
  /\ observer \in {"ask", "map", "retry"} => serving \in Registration /\ serving.v <= net.v
  /\ observer = "map" => Trusted(serving)
  /\ observer \in {"retry", "served"} => ss \in Told /\ ss.since <= net.v
  /\ observer = "retry" =>
       /\ ss.of = serving.v /\ ss.reg = "registered" /\ ss.operatorOf = ss.of
       /\ ss.of >= ss.since \/ ss.age <= 1 \/ failed

SignalFits == observer = "ask strength" /\ ~rsrp => failures >= 1

ReadInv == ModemOK /\ StepFits /\ SnapshotFits /\ ServingFits /\ SignalFits /\ ReadingsTrue

LEMMA ReadStart == ReadInit => ReadInv
<1> SUFFICES ASSUME ReadInit PROVE ReadInv
  OBVIOUS
<1>1. ModemOK /\ StepFits
  <2>1. net \in Registration
    BY ReadingAssumption DEF ReadInit, Registration
  <2>2. reading \in {"serving", "signal", "identity"}
    BY DEF ReadInit, Kinds
  <2>3. reading = "serving" => snapshot["serving"] = NoReading
    BY DEF ReadInit, Kinds
  <2>4. QED
    BY <2>1, <2>2, <2>3 DEF ReadInit, ModemOK, StepFits, ServingSteps, SignalSteps
<1>2. SnapshotFits
  BY DEF ReadInit, SnapshotFits, Kinds
<1>3. QED
  BY <1>1, <1>2 DEF ReadInit, ReadInv, ServingFits, SignalFits, ReadingsTrue, ServingTrue,
              OperatorOfIt, SignalKnown, LiveIsLive

\* The modem and the snapshot go on, whatever is read meanwhile.
LEMMA ModemKeeps ==
  ASSUME ReadInv, \/ NetworkChanges \/ CardChanges \/ Tick
                  \/ \E k \in Kinds[reading] : Indication(k)
  PROVE  ReadInv'
<1> USE DEF ReadInv
<1>1. /\ net' \in Registration /\ net.v <= net'.v /\ time' \in Nat /\ time <= time'
  <2>1. CASE NetworkChanges
    BY <2>1, ReadingAssumption DEF NetworkChanges, ModemOK, Registration
  <2>2. CASE CardChanges
    BY <2>2 DEF CardChanges, ModemOK, Registration
  <2>3. CASE Tick
    BY <2>3 DEF Tick, ModemOK, Registration
  <2>4. CASE \E k \in Kinds[reading] : Indication(k)
    BY <2>4 DEF Indication, ModemOK, Registration
  <2>5. QED
    BY <2>1, <2>2, <2>3, <2>4
<1>2. UNCHANGED <<reading, observer, serving, ss, rssi, rsrp, identity, failures, failed>>
  BY DEF NetworkChanges, CardChanges, Tick, Indication
<1>3. SnapshotFits'
  <2>1. CASE NetworkChanges \/ CardChanges \/ Tick
    <3>1. UNCHANGED snapshot
      BY <2>1 DEF NetworkChanges, CardChanges, Tick
    <3>2. QED
      <4>1. net.v \in Nat /\ time \in Nat /\ net'.v \in Nat /\ reading' = reading
        BY <1>1, <1>2 DEF ModemOK, Registration
      <4>2. QED
        BY <1>1, <3>1, <4>1 DEF SnapshotFits, Registration
  <2>2. ASSUME NEW k \in Kinds[reading], Indication(k) PROVE SnapshotFits'
    <3>1. snapshot' = [snapshot EXCEPT ![k] =
            [value |-> IF k = "identities" THEN card ELSE net, at |-> time]]
      BY <2>2 DEF Indication
    <3>2. reading = "serving" => k = "serving"
      BY DEF Kinds
    <3>3. UNCHANGED <<reading, net, time>>
      BY <2>2 DEF Indication
    <3>4. DOMAIN snapshot' = Kinds[reading']
      BY <3>1, <3>3 DEF SnapshotFits
    <3>5. reading = "serving" => snapshot'["serving"] = [value |-> net, at |-> time]
      BY <3>1, <3>2 DEF SnapshotFits
    <3>6. net \in Registration /\ time \in Nat
      BY DEF ModemOK
    <3>7. QED
      BY <3>3, <3>4, <3>5, <3>6 DEF SnapshotFits, Registration
  <2>3. QED
    BY <2>1, <2>2
<1>4. ModemOK' /\ StepFits'
  BY <1>1, <1>2 DEF ModemOK, StepFits
<1>5. ServingFits'
  <2>1. net.v \in Nat /\ net'.v \in Nat
    BY <1>1 DEF ModemOK, Registration
  <2>2. ASSUME ss \in Asking \/ ss \in Told, ss.since <= net.v PROVE ss.since <= net'.v
    BY <1>1, <2>1, <2>2 DEF Asking, Told
  <2>3. ASSUME serving \in Registration, serving.v <= net.v PROVE serving.v <= net'.v
    BY <1>1, <2>1, <2>3 DEF Registration
  <2>4. QED
    BY <1>2, <2>2, <2>3 DEF ServingFits, Trusted
<1>6. SignalFits' /\ ReadingsTrue'
  BY <1>2 DEF SignalFits, ReadingsTrue, ServingTrue, OperatorOfIt, SignalKnown, LiveIsLive
<1>7. QED
  BY <1>3, <1>4, <1>5, <1>6

LEMMA ServingKeeps ==
  ASSUME ReadInv, BeginServing \/ AskServing \/ MapServing \/ RetryOperator \/ Served
  PROVE  ReadInv'
<1> USE DEF ReadInv
<1>0. reading = "serving"
  BY DEF BeginServing, AskServing, MapServing, RetryOperator, Served, StepFits, ServingSteps
<1>1. UNCHANGED <<reading, net, time, snapshot, rssi, rsrp, identity>>
  BY DEF BeginServing, AskServing, MapServing, RetryOperator, Served, Live
<1>2. LiveIsLive'
  BY <1>1 DEF ReadingsTrue, LiveIsLive
<1>3. ASSUME failures' \in Nat, failed' \in BOOLEAN, ServingFits', ServingTrue', OperatorOfIt',
             observer' \in {"idle"} \cup ServingSteps
      PROVE  ReadInv'
  <2>1. ModemOK' /\ SnapshotFits'
    BY <1>1, <1>3 DEF ModemOK, SnapshotFits
  <2>2. StepFits' /\ SignalFits' /\ SignalKnown'
    BY <1>0, <1>1, <1>3 DEF StepFits, ServingSteps, SignalSteps, SignalFits, SignalKnown
  <2>3. QED
    BY <1>2, <1>3, <2>1, <2>2 DEF ReadingsTrue
<1>4. CASE BeginServing
  <2>1. failures' = failures /\ failed' = FALSE
        /\ observer' \in {"must ask", "ask", "map"} /\ observer' \in ServingSteps
    BY <1>4 DEF BeginServing, ServingSteps
  <2> DEFINE s == snapshot["serving"]
  <2>2. CASE s = NoReading
    <3>1. ss' = [since |-> net.v, age |-> 0] /\ serving' = NoReading /\ observer' = "must ask"
      BY <1>4, <2>2 DEF BeginServing
    <3>2. ss' \in Asking /\ ss'.since <= net'.v
      <4>1. net.v \in Nat /\ net' = net
        BY <1>1 DEF ModemOK, Registration
      <4>2. ss' = [since |-> net.v, age |-> 0]
        BY <3>1
      <4>3. QED
        BY <4>1, <4>2 DEF Asking
    <3>3. ServingFits' /\ ServingTrue' /\ OperatorOfIt'
      BY <3>1, <3>2 DEF ServingFits, ServingTrue, OperatorOfIt
    <3>4. QED
      BY <1>3, <2>1, <3>3 DEF ModemOK
  <2>3. CASE s # NoReading
    <3>1. /\ ss' = [since |-> net.v, age |-> time - s.at] /\ serving' = s.value
          /\ observer' = IF Doubtful(s) THEN "ask" ELSE "map"
      BY <1>4, <2>3 DEF BeginServing
    <3>2. /\ s.value \in Registration /\ s.value.v <= net.v /\ s.at \in 0..time
          /\ time \in Nat /\ net.v \in Nat
      BY <1>0, <2>3 DEF ModemOK, SnapshotFits, Registration
    <3>3. ss' \in Asking /\ ss'.since <= net'.v
      BY <1>1, <3>1, <3>2 DEF Asking
    <3>4. observer' = "map" => Trusted(serving)'
      <4>1. observer' = "map" => ~Doubtful(s)
        BY <3>1
      <4>2. ~Doubtful(s) =>
              ss'.age <= 1 /\ ~(s.value.reg = "not registered" /\ s.value.mcc # 0)
        <5>1. ss'.age = time - s.at
          BY <3>1
        <5>2. time - s.at \in Nat
          BY <3>2
        <5>3. ~(time - s.at > 1) => time - s.at <= 1
          BY <5>2
        <5>4. ~Doubtful(s) => ~(time - s.at > 1)
          BY DEF Doubtful
        <5>5. QED
          BY <5>1, <5>3, <5>4 DEF Doubtful
      <4>3. QED
        BY <3>1, <4>1, <4>2 DEF Trusted
    <3>5. ServingFits' /\ ServingTrue' /\ OperatorOfIt'
      BY <1>1, <2>1, <3>1, <3>2, <3>3, <3>4 DEF ServingFits, ServingTrue, OperatorOfIt
    <3>6. QED
      BY <1>3, <2>1, <3>5 DEF ModemOK
  <2>4. QED
    BY <2>2, <2>3
<1>5. CASE AskServing
  <2>1. /\ observer \in {"ask", "must ask"} /\ ss' = ss /\ ss \in Asking /\ ss.since <= net.v
        /\ observer' = IF observer = "must ask" /\ serving' = NoReading THEN "idle" ELSE "map"
    BY <1>5 DEF AskServing, ServingFits
  <2>2. net \in Registration /\ net' = net /\ net.v \in Nat
    BY <1>1 DEF ModemOK, Registration
  <2>3. /\ failures' \in Nat /\ failed' \in BOOLEAN
        /\ \/ serving' = net
           \/ serving' = serving /\ failed' = TRUE
    <3>1. failures' = failures \/ failures' = failures + 1
      BY <1>5 DEF AskServing, Live
    <3>2. failures \in Nat /\ failed \in BOOLEAN
      BY DEF ModemOK
    <3>3. failures' \in Nat
      BY <3>1, <3>2
    <3>4. \/ serving' = net /\ failed' = failed
          \/ failed' = TRUE /\ serving' = serving
      BY <1>5 DEF AskServing, Live
    <3>5. CASE serving' = net /\ failed' = failed
      <4>1. failed' \in BOOLEAN
        BY <3>2, <3>5
      <4>2. QED
        BY <3>3, <3>5, <4>1
    <3>6. CASE failed' = TRUE /\ serving' = serving
      BY <3>3, <3>6
    <3>7. QED
      BY <3>4, <3>5, <3>6
  <2>4. observer' = "map" => /\ serving' \in Registration /\ serving'.v <= net'.v
                             /\ Trusted(serving)'
    <3>1. CASE serving' = net
      <4>0. ss' \in Asking /\ ss'.since <= net.v
        BY <2>1
      <4>1. serving'.v <= net'.v /\ serving'.v >= ss'.since
        BY <2>2, <3>1, <4>0 DEF Asking
      <4>2. QED
        BY <2>2, <3>1, <4>1 DEF Trusted
    <3>2. CASE serving' = serving /\ failed' = TRUE
      <4>1. observer' = "map" => observer = "ask"
        BY <2>1, <3>2 DEF ServingFits
      <4>2. QED
        BY <2>2, <3>2, <4>1 DEF ServingFits, Trusted
    <3>3. QED
      BY <2>3, <3>1, <3>2
  <2>5. ServingFits' /\ ServingTrue' /\ OperatorOfIt'
    <3>1. ss' \in Asking /\ ss'.since <= net'.v /\ observer' \in {"idle", "map"}
      BY <2>1, <2>2
    <3>2. QED
      BY <2>4, <3>1 DEF ServingFits, ServingTrue, OperatorOfIt
  <2>6. observer' \in {"idle"} \cup ServingSteps
    BY <2>1 DEF ServingSteps
  <2>7. QED
    BY <1>3, <2>3, <2>5, <2>6
<1>6. CASE MapServing
  <2>1. /\ ss' = [since |-> ss.since, age |-> ss.age, of |-> serving.v, reg |-> serving.reg,
                  mcc |-> serving.mcc, operatorOf |-> serving.v]
        /\ observer' = IF serving.reg = "registered" /\ serving.mcc = 0 THEN "retry" ELSE "served"
        /\ UNCHANGED <<serving, failures, failed>>
    BY <1>6 DEF MapServing
  <2>2. /\ ss \in Asking /\ ss.since <= net.v /\ serving \in Registration /\ serving.v <= net.v
        /\ Trusted(serving)
    BY <1>6 DEF MapServing, ServingFits
  <2>3. ss' \in Told /\ ss'.since <= net'.v
    BY <1>1, <2>1, <2>2 DEF Told, Asking, Registration
  <2>4. ServingFits' /\ ServingTrue' /\ OperatorOfIt'
    BY <1>1, <2>1, <2>2, <2>3
       DEF ServingFits, ServingTrue, OperatorOfIt, Trusted, Asking, Registration
  <2>5. failures' \in Nat /\ failed' \in BOOLEAN /\ observer' \in ServingSteps
    BY <2>1 DEF ModemOK, ServingSteps
  <2>6. QED
    BY <1>3, <2>4, <2>5
<1>7. CASE RetryOperator
  <2>1. /\ observer = "retry" /\ observer' = "served" /\ ss \in Told /\ ss.since <= net.v
        /\ serving \in Registration /\ serving.v <= net.v /\ net.v \in Nat
        /\ ss.of = serving.v /\ ss.reg = "registered"
        /\ ss.of >= ss.since \/ ss.age <= 1 \/ failed
    BY <1>7 DEF RetryOperator, ServingFits, ModemOK, Registration
  <2>2. /\ serving' \in Registration /\ serving'.v >= serving.v
        /\ failures' \in Nat /\ failed' \in BOOLEAN /\ (failed => failed')
    <3>1. \/ serving' = net /\ UNCHANGED <<failures, failed>>
          \/ failures' = failures + 1 /\ failed' = TRUE /\ serving' = serving
      BY <1>7 DEF RetryOperator, Live
    <3>2. failures \in Nat /\ failed \in BOOLEAN /\ net \in Registration
      BY DEF ModemOK
    <3>3. serving \in Registration /\ serving.v <= net.v
      BY <2>1
    <3>4. CASE serving' = net /\ UNCHANGED <<failures, failed>>
      <4>1. serving' \in Registration /\ serving'.v >= serving.v
        BY <3>2, <3>3, <3>4 DEF Registration
      <4>2. QED
        BY <3>2, <3>4, <4>1
    <3>5. CASE failures' = failures + 1 /\ failed' = TRUE /\ serving' = serving
      <4>1. serving'.v >= serving.v /\ failures' \in Nat
        BY <3>2, <3>3, <3>5 DEF Registration
      <4>2. QED
        BY <3>3, <3>5, <4>1
    <3>6. QED
      BY <3>1, <3>4, <3>5
  <2>3. ss' = [ss EXCEPT !.mcc = serving'.mcc, !.operatorOf = serving'.v]
    BY <1>7 DEF RetryOperator
  <2>4. /\ ss' \in Told /\ ss'.since = ss.since /\ ss'.age = ss.age /\ ss'.of = ss.of
        /\ ss'.reg = ss.reg /\ ss'.operatorOf = serving'.v
    BY <2>1, <2>2, <2>3 DEF Told, Registration
  <2>5. ServingFits' /\ ServingTrue' /\ OperatorOfIt'
    <3>1. /\ serving.v \in Nat /\ serving'.v \in Nat /\ ss.since \in Nat
          /\ ss'.since <= net'.v
      BY <1>1, <2>1, <2>2, <2>4 DEF Told, Registration
    <3>2. ss'.operatorOf # ss'.of => ss'.operatorOf > ss'.of
      BY <2>1, <2>2, <2>4, <3>1
    <3>3. ss'.of >= ss'.since \/ ss'.age <= 1 \/ failed'
      <4>1. ss.of >= ss.since \/ ss.age <= 1 \/ failed
        BY <2>1
      <4>2. ss'.since = ss.since /\ ss'.age = ss.age /\ ss'.of = ss.of
        BY <2>4
      <4>3. failed => failed'
        BY <2>2
      <4>4. QED
        BY <4>1, <4>2, <4>3
    <3>4. observer' = "served" /\ ss'.reg = "registered"
      BY <2>1, <2>4
    <3>5. QED
      BY <2>4, <3>1, <3>2, <3>3, <3>4 DEF ServingFits, ServingTrue, OperatorOfIt
  <2>6. observer' \in ServingSteps
    BY <2>1 DEF ServingSteps
  <2>7. failures' \in Nat /\ failed' \in BOOLEAN
    BY <2>2
  <2>8. QED
    BY <1>3, <2>5, <2>6, <2>7
<1>8. CASE Served
  <2>1. observer' = "idle" /\ failed' = FALSE /\ failures' = failures
    BY <1>8 DEF Served
  <2>2. ServingFits' /\ ServingTrue' /\ OperatorOfIt'
    BY <2>1 DEF ServingFits, ServingTrue, OperatorOfIt
  <2>3. QED
    BY <1>3, <2>1, <2>2 DEF ModemOK
<1>9. QED
  BY <1>4, <1>5, <1>6, <1>7, <1>8

LEMMA SignalKeeps ==
  ASSUME ReadInv, \/ BeginSignal \/ AskSignal \/ Signalled
                  \/ \E live \in BOOLEAN : GetIdentity(live)
  PROVE  ReadInv'
<1> USE DEF ReadInv
<1>1. /\ UNCHANGED <<net, time, snapshot, serving, ss>>
      /\ observer' \notin ServingSteps
  BY DEF BeginSignal, AskSignal, Signalled, GetIdentity, Asked, StepFits, ServingSteps,
         SignalSteps
<1>2. ServingFits' /\ ServingTrue' /\ OperatorOfIt'
  BY <1>1 DEF ServingSteps, ServingFits, ServingTrue, OperatorOfIt
<1>3. /\ ModemOK' /\ StepFits' /\ SnapshotFits'
      /\ SignalFits' /\ SignalKnown'
  <2>1. CASE BeginSignal
    BY <2>1 DEF BeginSignal, ModemOK, StepFits, ServingSteps, SignalSteps, SnapshotFits, SignalFits,
            SignalKnown
  <2>2. CASE AskSignal
    <3>1. /\ failures \in Nat /\ reading = "signal" /\ reading' = reading
          /\ observer \in {"ask signal", "ask strength"}
      BY <2>2 DEF ModemOK, StepFits, SignalSteps, AskSignal, Asked
    <3>2. /\ failures' \in Nat /\ failures <= failures'
          /\ failed' \in BOOLEAN /\ rsrp' \in BOOLEAN /\ rssi' \in BOOLEAN
      <4>1. failures' = failures \/ failures' = failures + 1
        BY <2>2 DEF AskSignal, Asked
      <4>2. failures \in Nat
        BY <3>1
      <4>3. failures' \in Nat /\ failures <= failures'
        BY <4>1, <4>2
      <4>4. failed' \in BOOLEAN /\ rsrp' \in BOOLEAN /\ rssi' \in BOOLEAN
        BY <2>2 DEF ModemOK, AskSignal, Asked
      <4>5. QED
        BY <4>3, <4>4
    <3>3. observer' \in {"ask strength", "signalled"}
      BY <2>2 DEF AskSignal
    <3>4. ModemOK' /\ StepFits' /\ SnapshotFits'
      <4>1. ModemOK' /\ SnapshotFits'
        BY <1>1, <3>1, <3>2 DEF ModemOK, SnapshotFits
      <4>2. QED
        BY <3>1, <3>3, <4>1 DEF StepFits, SignalSteps, ServingSteps
    <3>5. ~rsrp' => \/ observer' = "ask strength" /\ failures' >= 1
                    \/ observer' = "signalled" /\ failures' >= 2
      <4> SUFFICES ASSUME ~rsrp' PROVE \/ observer' = "ask strength" /\ failures' >= 1
                                       \/ observer' = "signalled" /\ failures' >= 2
        OBVIOUS
      <4>1. CASE observer = "ask signal" /\ Asked(rsrp) /\ observer' = "ask strength"
        <5>1. failures' = failures + 1
          BY <4>1 DEF Asked
        <5>2. failures \in Nat
          BY <3>1
        <5>3. failures' >= 1
          BY <5>1, <5>2
        <5>4. QED
          BY <4>1, <5>3
      <4>2. CASE /\ observer = "ask strength" /\ Asked(rssi) /\ observer' = "signalled"
                 /\ rsrp' = (rsrp \/ rssi')
        <5>1. failures' = failures + 1 /\ ~rsrp
          BY <4>2 DEF Asked
        <5>2. failures >= 1
          BY <4>2, <5>1 DEF SignalFits
        <5>3. failures \in Nat
          BY <3>1
        <5>4. failures' = failures + 1
          BY <5>1
        <5>5. failures' >= 2
          BY <5>2, <5>3, <5>4
        <5>6. QED
          BY <4>2, <5>5
      <4>3. QED
        BY <2>2, <4>1, <4>2 DEF AskSignal
    <3>6. QED
      BY <3>4, <3>5 DEF SignalFits, SignalKnown
  <2>3. CASE Signalled
    BY <2>3 DEF Signalled, ModemOK, StepFits, ServingSteps, SignalSteps, SnapshotFits, SignalFits,
            SignalKnown
  <2>4. CASE \E live \in BOOLEAN : GetIdentity(live)
    BY <2>4 DEF GetIdentity, ModemOK, StepFits, ServingSteps, SignalSteps, SnapshotFits, SignalFits,
            SignalKnown
  <2>5. QED
    BY <2>1, <2>2, <2>3, <2>4
<1>4. LiveIsLive'
  <2>1. CASE \E live \in BOOLEAN : GetIdentity(live)
    <3>1. PICK live \in BOOLEAN : GetIdentity(live)
      BY <2>1
    <3>2. CASE live
      <4>1. identity' = [of |-> card, live |-> live, then |-> card]
        BY <3>1, <3>2 DEF GetIdentity
      <4>2. QED
        BY <4>1 DEF LiveIsLive
    <3>3. CASE ~live
      <4>1. identity'.live = live
        BY <3>1 DEF GetIdentity
      <4>2. QED
        BY <3>3, <4>1 DEF LiveIsLive
    <3>4. QED
      BY <3>2, <3>3
  <2>2. CASE BeginSignal \/ AskSignal \/ Signalled
    BY <2>2 DEF BeginSignal, AskSignal, Signalled, ReadingsTrue, LiveIsLive
  <2>3. QED
    BY <2>1, <2>2
<1>5. QED
  BY <1>2, <1>3, <1>4 DEF ReadingsTrue

\* A reading that the modem had left is excused by an age of half a minute or a failed request,
\* and a registration is shown with its own operator or a later one.
THEOREM ReadingsAlwaysTrue == ReadSpec => []ReadingsTrue
<1>1. ReadInv /\ [ReadNext]_readVars => ReadInv'
  <2>1. ASSUME ReadInv, UNCHANGED readVars PROVE ReadInv'
    <3>1. (ModemOK /\ StepFits /\ SnapshotFits)'
      BY <2>1 DEF readVars, ReadInv, ModemOK, StepFits, SnapshotFits
    <3>2. (ServingFits /\ SignalFits)'
      BY <2>1 DEF readVars, ReadInv, ServingFits, Trusted, SignalFits
    <3>3. ReadingsTrue'
      BY <2>1 DEF readVars, ReadInv, ReadingsTrue, ServingTrue, OperatorOfIt, SignalKnown,
                  LiveIsLive
    <3>4. QED
      BY <3>1, <3>2, <3>3 DEF ReadInv
  <2>2. QED
    BY <2>1, ModemKeeps, ServingKeeps, SignalKeeps DEF ReadNext
<1>2. ReadInv => ReadingsTrue
  BY DEF ReadInv
<1>3. QED
  BY <1>1, <1>2, ReadStart, PTL DEF ReadSpec

(***************************************************************************)
(* Backends.                                                               *)
(***************************************************************************)
\* What a request is made into: its third digit is the one that it says or has.
PLMN == {p \in [mcc : Nat, mnc : Nat, digits : {2, 3}] : p.digits = 2 => p.mnc <= 99}
Normal ==
  {s \in [mode : {"manual"}, plmn : PLMN, pcs : BOOLEAN, rat : STRING,
          said : {"unset", "yes", "no"}] :
     s.pcs = IF s.said = "unset" THEN s.plmn.digits = 3 ELSE s.said = "yes"}

\* The functions keep their domains.
Domains ==
  /\ DOMAIN caller = User /\ DOMAIN req = User /\ DOMAIN seen = User
  /\ DOMAIN got = User /\ DOMAIN deleted = User /\ DOMAIN before = User
  /\ DOMAIN mode = User

ServiceFits ==
  /\ backend \in {"at", "qmi", "mbim"} /\ service \in {"selection", "mode", "messages"}

\* While it is known what was asked for last, that is in force.
SelectionFits ==
  /\ service = "selection" =>
       \A c \in User : caller[c] \in {"preference", "register"} =>
         req[c] = Automatic \/ (req[c] \in Normal /\ caller[c] = "register")
  /\ wanted # Nothing => (wanted = Automatic \/ wanted \in Normal) /\ sel = InForce(wanted)

\* The messages are numbered, and there is none in the card but over QMI.
BoxFits ==
  /\ arrived \in Nat
  /\ DOMAIN box = {"nv", "sim"} /\ DOMAIN box["nv"] = Index /\ DOMAIN box["sim"] = Index
  /\ \A s \in {"nv", "sim"}, i \in Index : box[s][i] \in (1..arrived) \cup {Nothing}
  /\ backend # "qmi" => \A i \in Index : box["sim"][i] = Nothing

\* What a caller has read from the module is still at its place, until that is freed.
ReadFits ==
  \A c \in User : got[c] # Nothing /\ got[c].from = "nv" =>
    IF deleted[c] = Nothing
    THEN /\ got[c].index \in Index /\ got[c].message \in 1..arrived
         /\ box["nv"][got[c].index] = got[c].message
    ELSE deleted[c].message \in {got[c].message, Nothing}

\* A caller that deletes has emptied what lies behind it.
ClearFits ==
  \A c \in User :
    /\ before[c] \subseteq 1..arrived
    /\ caller[c] = "clear nv" => \A i \in Index : box["sim"][i] \notin before[c]

\* The radio is on or off as the last caller said.
RadioFits ==
  \A c \in User : mode[c] # Nothing =>
    /\ radio = "online" <=> mode[c].set = "online"
    /\ mode[c] = [set |-> mode[c].set, read |-> mode[c].read]

BackendInv ==
  Domains /\ ServiceFits /\ SelectionFits /\ BoxFits /\ ReadFits /\ ClearFits /\ RadioFits
  /\ BackendKeeps

LEMMA NormalForm ==
  ASSUME NEW r \in Requested, NEW s \in NormalizeSetOperatorSelectionRequest(r)
  PROVE  s = Automatic \/ s \in Normal
<1>1. CASE r.mode = "automatic"
  BY <1>1 DEF NormalizeSetOperatorSelectionRequest
<1>2. CASE r.mode # "automatic"
  <2>1. /\ r \in [mode : {"manual"}, plmn : [mcc : Nat, mnc : Nat, digits : Nat],
                  rat : STRING, pcs : {"unset", "yes", "no"}]
        /\ r.plmn.digits = 2 => r.plmn.mnc <= 99
    BY <1>2, BackendAssumption
  <2>2. /\ r.plmn.digits \in {2, 3}
        /\ s = [mode |-> "manual", plmn |-> r.plmn, pcs |-> includesPCS(r), rat |-> r.rat,
                said |-> r.pcs]
    BY <1>2 DEF NormalizeSetOperatorSelectionRequest
  <2>3. r.plmn \in PLMN
    BY <2>1, <2>2 DEF PLMN
  <2>4. includesPCS(r) \in BOOLEAN
    BY <2>1 DEF includesPCS
  <2>5. includesPCS(r) = IF r.pcs = "unset" THEN r.plmn.digits = 3 ELSE r.pcs = "yes"
    BY DEF includesPCS
  <2>6. QED
    BY <2>1, <2>2, <2>3, <2>4, <2>5 DEF Normal
<1>3. QED
  BY <1>1, <1>2

\* What is in force reads as what was asked for, with the exceptions of the property.
LEMMA ShownAsAsked ==
  ASSUME NEW s, s = Automatic \/ s \in Normal, sel = InForce(s), ServiceFits
  PROVE  /\ Shown.mode = s.mode
         /\ s.mode = "manual" /\ (backend = "at" => format = "digits") /\ Consistent(s)
              => Shown.plmn = s.plmn
<1>1. CASE s = Automatic
  BY <1>1 DEF InForce, Automatic, Shown
<1>2. CASE s \in Normal
  <2>1. /\ s.mode = "manual" /\ s.plmn \in PLMN /\ s.said \in {"unset", "yes", "no"}
        /\ s.pcs = IF s.said = "unset" THEN s.plmn.digits = 3 ELSE s.said = "yes"
    BY <1>2 DEF Normal
  <2>2. sel.mode = "manual" /\ Shown.mode = "manual"
    BY <2>1 DEF InForce, Shown
  <2>3. CASE backend # "qmi"
    <3>1. sel.plmn = s.plmn
      BY <2>1, <2>3 DEF InForce
    <3>2. QED
      BY <2>1, <2>2, <2>3, <3>1 DEF Shown
  <2>4. CASE backend = "qmi" /\ Consistent(s)
    <3>1. sel.plmn = [mcc |-> s.plmn.mcc, mnc |-> s.plmn.mnc, pcs |-> s.pcs]
      BY <2>1, <2>4 DEF InForce
    <3>2. s.pcs <=> s.plmn.digits = 3
      BY <2>1, <2>4 DEF Consistent
    <3>3. (IF s.pcs \/ s.plmn.mnc > 99 THEN 3 ELSE 2) = s.plmn.digits
      BY <2>1, <3>2 DEF PLMN
    <3>4. Shown.plmn = [mcc |-> s.plmn.mcc, mnc |-> s.plmn.mnc, digits |-> s.plmn.digits]
      BY <2>2, <2>4, <3>1, <3>3 DEF Shown
    <3>5. QED
      BY <2>1, <2>2, <3>4 DEF PLMN
  <2>5. QED
    BY <2>1, <2>2, <2>3, <2>4
<1>3. QED
  BY <1>1, <1>2

LEMMA TechnologyFits == SelectionFits => TechnologyAsked
<1> SUFFICES ASSUME SelectionFits, sel.mode = "manual", wanted # Nothing, sel.rat # "any"
             PROVE  sel.rat = wanted.rat \/ (backend = "at" /\ wanted.rat \notin Technologies)
  BY DEF TechnologyAsked
<1>1. (wanted = Automatic \/ wanted \in Normal) /\ sel = InForce(wanted)
  BY DEF SelectionFits
<1>2. wanted.mode = "manual"
  BY <1>1 DEF InForce, Automatic, Normal
<1>3. sel.rat = RATFor(wanted.rat)
  BY <1>1, <1>2 DEF InForce
<1>4. QED
  BY <1>3 DEF RATFor, Technologies

LEMMA BackendStart == BackendInit => BackendInv
<1> SUFFICES ASSUME BackendInit PROVE BackendInv
  OBVIOUS
<1>1. Domains /\ ServiceFits
  BY DEF BackendInit, Domains, ServiceFits
<1>2. SelectionFits /\ RadioFits /\ BoxFits /\ ReadFits
  BY DEF BackendInit, SelectionFits, RadioFits, BoxFits, ReadFits
<1>3. ClearFits /\ AllGone
  BY DEF BackendInit, ClearFits, AllGone
<1>4. TechnologyAsked
  BY <1>2, TechnologyFits
<1>5. SelectionKept /\ ReadIsDeleted /\ RadioKnown
  BY DEF BackendInit, SelectionKept, ReadIsDeleted, RadioKnown
<1>6. QED
  BY <1>1, <1>2, <1>3, <1>4, <1>5 DEF BackendInv, BackendKeeps

\* What a step of another service leaves alone.
LEMMA BoxStays ==
  ASSUME BackendInv, UNCHANGED <<backend, boxVars>>,
         \A c \in User : caller'[c] \in {"clear nv", "cleared"} => caller'[c] = caller[c]
  PROVE  (BoxFits /\ ReadFits /\ ClearFits /\ ReadIsDeleted /\ AllGone)'
<1>1. BoxFits' /\ ReadFits' /\ ReadIsDeleted'
  BY DEF BackendInv, BackendKeeps, boxVars, BoxFits, ReadFits, ReadIsDeleted
<1>2. UNCHANGED <<box, before, arrived>>
  BY DEF boxVars
<1>3. ClearFits'
  BY <1>2 DEF BackendInv, ClearFits
<1>4. Stored' = Stored
  BY <1>2 DEF Stored
<1>5. AllGone'
  BY <1>2, <1>4 DEF BackendInv, BackendKeeps, AllGone
<1>6. QED
  BY <1>1, <1>3, <1>5

\* A selection: what is told to the modem and read back.
LEMMA SelectingKeeps ==
  ASSUME BackendInv, service = "selection", Selecting PROVE BackendInv'
<1>1. UNCHANGED <<backend, service, radio, mode, boxVars>>
  BY DEF Selecting, QueryOperator, ModemRestarts, BeginSet, Preference, RegisterWith, SetFails,
         Get
<1>2. /\ \A c \in User : caller'[c] \in {"clear nv", "cleared"} => caller'[c] = caller[c]
      /\ DOMAIN caller' = User /\ DOMAIN req' = User /\ DOMAIN seen' = User
  <2>1. CASE QueryOperator \/ ModemRestarts
    BY <2>1 DEF BackendInv, Domains, QueryOperator, ModemRestarts
  <2>2. CASE \E c \in User : BeginSet(c) \/ Preference(c)
    BY <2>2 DEF BackendInv, Domains, BeginSet, Preference, Continue, selVars
  <2>3. CASE \E c \in User : RegisterWith(c) \/ SetFails(c) \/ Get(c)
    BY <2>3 DEF BackendInv, Domains, RegisterWith, SetFails, Get, Continue
  <2>4. QED
    BY <2>1, <2>2, <2>3 DEF Selecting
<1>3. (BoxFits /\ ReadFits /\ ClearFits /\ ReadIsDeleted /\ AllGone)'
  BY <1>1, <1>2, BoxStays
<1>4. Domains' /\ ServiceFits' /\ RadioFits' /\ RadioKnown'
  <2>1. Domains' /\ ServiceFits'
    BY <1>1, <1>2 DEF BackendInv, boxVars, Domains, ServiceFits
  <2>2. RadioFits' /\ RadioKnown'
    BY <1>1 DEF BackendInv, BackendKeeps, RadioFits, RadioKnown
  <2>3. QED
    BY <2>1, <2>2
<1>5. SelectionFits'
  <2>1. /\ \A c \in User : caller[c] \in {"preference", "register"} =>
             req[c] = Automatic \/ (req[c] \in Normal /\ caller[c] = "register")
        /\ wanted # Nothing => (wanted = Automatic \/ wanted \in Normal) /\ sel = InForce(wanted)
    BY DEF BackendInv, SelectionFits
  <2>3. \A c \in User : caller'[c] \in {"preference", "register"} =>
          req'[c] = Automatic \/ (req'[c] \in Normal /\ caller'[c] = "register")
    <3>1. CASE \E c \in User : BeginSet(c)
      <4>1. PICK c \in User : BeginSet(c)
        BY <3>1
      <4>2. PICK r \in Requested : \E s \in NormalizeSetOperatorSelectionRequest(r) :
              /\ req' = [req EXCEPT ![c] = s]
              /\ caller' = [caller EXCEPT ![c] = IF backend = "qmi" /\ s.mode = "automatic"
                                               THEN "preference" ELSE "register"]
        BY <4>1 DEF BeginSet, Continue
      <4>3. PICK s \in NormalizeSetOperatorSelectionRequest(r) :
              /\ req' = [req EXCEPT ![c] = s]
              /\ caller' = [caller EXCEPT ![c] = IF backend = "qmi" /\ s.mode = "automatic"
                                               THEN "preference" ELSE "register"]
        BY <4>2
      <4>4. s = Automatic \/ (s \in Normal /\ s.mode = "manual")
        BY NormalForm DEF Normal
      <4>5. QED
        BY <2>1, <4>3, <4>4 DEF BackendInv, Domains
    <3>2. CASE \E c \in User : Preference(c)
      BY <2>1, <3>2 DEF BackendInv, Domains, Preference, Continue
    <3>3. CASE \E c \in User : RegisterWith(c) \/ SetFails(c) \/ Get(c)
      BY <2>1, <3>3 DEF BackendInv, Domains, RegisterWith, SetFails, Get, Continue
    <3>4. CASE QueryOperator \/ ModemRestarts
      BY <2>1, <3>4 DEF QueryOperator, ModemRestarts
    <3>5. QED
      BY <3>1, <3>2, <3>3, <3>4 DEF Selecting
  <2>4. (wanted # Nothing =>
           (wanted = Automatic \/ wanted \in Normal) /\ sel = InForce(wanted))'
    <3>1. CASE \E c \in User : RegisterWith(c)
      <4>1. PICK c \in User : RegisterWith(c)
        BY <3>1
      <4>2. sel' = InForce(req[c]) /\ wanted' = req[c] /\ caller[c] = "register"
        BY <4>1 DEF RegisterWith
      <4>3. sel' = InForce(wanted)'
        BY <1>1, <4>2 DEF InForce, RATFor
      <4>4. QED
        BY <2>1, <4>2, <4>3
    <3>2. CASE \E c \in User : Preference(c) \/ SetFails(c)
      <4>1. wanted' = Nothing \/ UNCHANGED <<sel, wanted>>
        BY <3>2 DEF Preference, SetFails
      <4>2. QED
        BY <1>1, <2>1, <4>1 DEF InForce, RATFor
    <3>3. CASE \/ QueryOperator \/ ModemRestarts \/ \E c \in User : BeginSet(c) \/ Get(c)
      <4>1. UNCHANGED <<sel, wanted>>
        BY <3>3 DEF QueryOperator, ModemRestarts, BeginSet, Get, selVars
      <4>2. QED
        BY <1>1, <2>1, <4>1 DEF InForce, RATFor
    <3>4. QED
      BY <3>1, <3>2, <3>3 DEF Selecting
  <2>5. QED
    BY <2>3, <2>4 DEF SelectionFits
<1>6. SelectionKept'
  <2>1. CASE \E c \in User : Get(c)
    <3>1. PICK c \in User : Get(c)
      BY <2>1
    <3>2. seen' = [seen EXCEPT ![c] =
            [shown |-> Shown, set |-> IF setBy = c THEN wanted ELSE Nothing,
             format |-> format]]
      BY <3>1 DEF Get
    <3>3. CASE seen'[c].set # Nothing
      <4>1. seen'[c] = [shown |-> Shown, set |-> wanted, format |-> format] /\ wanted # Nothing
        BY <3>2, <3>3 DEF BackendInv, Domains
      <4>2. /\ Shown.mode = wanted.mode
            /\ /\ wanted.mode = "manual" /\ (backend = "at" => format = "digits")
               /\ Consistent(wanted)
               => Shown.plmn = wanted.plmn
        BY <4>1, ShownAsAsked DEF BackendInv, SelectionFits
      <4>3. \A d \in User : d # c => seen'[d] = seen[d]
        BY <3>2 DEF BackendInv, Domains
      <4>4. backend' = backend
        BY <1>1
      <4>5. \A s : Consistent(s)' <=> Consistent(s)
        BY <4>4 DEF Consistent
      <4>6. QED
        BY <4>1, <4>2, <4>3, <4>4, <4>5 DEF BackendInv, BackendKeeps, SelectionKept
    <3>4. CASE seen'[c].set = Nothing
      <4>1. \A d \in User : d # c => seen'[d] = seen[d]
        BY <3>2 DEF BackendInv, Domains
      <4>2. QED
        BY <1>1, <3>4, <4>1 DEF BackendInv, BackendKeeps, SelectionKept, Consistent
    <3>5. QED
      BY <3>3, <3>4
  <2>2. CASE \/ QueryOperator \/ ModemRestarts
             \/ \E c \in User : BeginSet(c) \/ Preference(c) \/ RegisterWith(c) \/ SetFails(c)
    <3>1. UNCHANGED <<seen, backend>>
      BY <2>2 DEF QueryOperator, ModemRestarts, BeginSet, Preference, RegisterWith, SetFails,
                  selVars
    <3>2. QED
      BY <3>1 DEF BackendInv, BackendKeeps, SelectionKept, Consistent
  <2>3. QED
    BY <2>1, <2>2 DEF Selecting
<1>7. TechnologyAsked'
  BY <1>5, TechnologyFits, PTL
<1>8. QED
  BY <1>3, <1>4, <1>5, <1>6, <1>7 DEF BackendInv, BackendKeeps

\* The radio.
LEMMA SwitchingKeeps ==
  ASSUME BackendInv, service = "mode", Switching PROVE BackendInv'
<1>1. UNCHANGED <<backend, service, caller, req, selVars, boxVars>>
  BY DEF Switching, SetOperatingMode, GetOperatingMode
<1>2. (BoxFits /\ ReadFits /\ ClearFits /\ ReadIsDeleted /\ AllGone)'
  BY <1>1, BoxStays
<1>3. Domains' /\ ServiceFits' /\ SelectionFits' /\ SelectionKept'
  <2>1. DOMAIN mode' = User
    BY DEF BackendInv, Domains, Switching, SetOperatingMode, GetOperatingMode
  <2>2. Domains' /\ ServiceFits'
    BY <1>1, <2>1 DEF BackendInv, selVars, boxVars, Domains, ServiceFits
  <2>3. SelectionFits' /\ SelectionKept'
    BY <1>1 DEF BackendInv, BackendKeeps, selVars, SelectionFits, InForce, RATFor, SelectionKept,
                Consistent
  <2>4. QED
    BY <2>2, <2>3
<1>4. TechnologyAsked'
  BY <1>3, TechnologyFits, PTL
<1>5. RadioFits' /\ RadioKnown'
  <2>1. CASE \E c \in User : SetOperatingMode(c)
    <3>1. PICK c \in User, m \in {"online", "lowpower", "rfoff"} :
            /\ radio' = IF backend # "at" /\ m = "rfoff" THEN "lowpower" ELSE m
            /\ mode' = [d \in User |-> IF d = c THEN [set |-> m, read |-> Nothing] ELSE Nothing]
      BY <2>1 DEF SetOperatingMode
    <3>2. radio' = "online" <=> m = "online"
      BY <3>1
    <3>3. \A d \in User : mode'[d] # Nothing => mode'[d] = [set |-> m, read |-> Nothing]
      BY <3>1
    <3>4. \A d \in User : mode'[d] # Nothing =>
            mode'[d].set = m /\ mode'[d].read = Nothing
            /\ mode'[d] = [set |-> mode'[d].set, read |-> mode'[d].read]
      BY <3>3
    <3>5. RadioFits'
      BY <3>2, <3>4 DEF RadioFits
    <3>6. RadioKnown'
      BY <3>4 DEF RadioKnown
    <3>7. QED
      BY <3>5, <3>6
  <2>2. CASE \E c \in User : GetOperatingMode(c)
    <3>1. PICK c \in User : /\ mode[c] # Nothing /\ radio' = radio
                            /\ mode' = [mode EXCEPT ![c].read = radio]
      BY <2>2 DEF GetOperatingMode, qmiOperatingModeToBackend
    <3>2. /\ mode[c] = [set |-> mode[c].set, read |-> mode[c].read]
          /\ radio = "online" <=> mode[c].set = "online"
      BY <3>1 DEF BackendInv, RadioFits
    <3>3. /\ mode'[c] = [mode[c] EXCEPT !.read = radio]
          /\ \A d \in User : d # c => mode'[d] = mode[d]
      BY <3>1 DEF BackendInv, Domains
    <3>4. /\ mode'[c].set = mode[c].set /\ mode'[c].read = radio
          /\ mode'[c] = [set |-> mode'[c].set, read |-> mode'[c].read]
      <4>1. mode'[c] = [set |-> mode[c].set, read |-> radio]
        BY <3>2, <3>3
      <4>2. QED
        BY <4>1
    <3>5. RadioFits'
      BY <3>1, <3>2, <3>3, <3>4 DEF BackendInv, RadioFits
    <3>6. RadioKnown'
      BY <3>1, <3>2, <3>3, <3>4 DEF BackendInv, BackendKeeps, RadioKnown
    <3>7. QED
      BY <3>5, <3>6
  <2>3. QED
    BY <2>1, <2>2 DEF Switching
<1>6. QED
  BY <1>2, <1>3, <1>4, <1>5 DEF BackendInv, BackendKeeps

\* A message arrives in a place that is free.
LEMMA ArrivalKeeps ==
  ASSUME BackendInv, MessageArrives
  PROVE  (BoxFits /\ ReadFits /\ ClearFits /\ ReadIsDeleted /\ AllGone)'
<1>1. /\ arrived \in Nat /\ arrived' = arrived + 1
      /\ UNCHANGED <<backend, got, deleted, before, caller>>
  BY DEF BackendInv, BoxFits, MessageArrives
<1>2. PICK s \in IF backend = "qmi" THEN {"nv", "sim"} ELSE {"nv"} : \E i \in Index :
        box[s][i] = Nothing /\ box' = [box EXCEPT ![s][i] = arrived + 1]
  BY DEF MessageArrives
<1>3. PICK i \in Index : box[s][i] = Nothing /\ box' = [box EXCEPT ![s][i] = arrived + 1]
  BY <1>2
<1>4. /\ DOMAIN box' = {"nv", "sim"} /\ DOMAIN box'["nv"] = Index /\ DOMAIN box'["sim"] = Index
      /\ box'[s][i] = arrived + 1 /\ s \in {"nv", "sim"}
      /\ \A t \in {"nv", "sim"}, j \in Index : (t = s /\ j = i) \/ box'[t][j] = box[t][j]
  BY <1>2, <1>3 DEF BackendInv, BoxFits
<1>5. \A m \in 1..arrived : m \in 1..arrived' /\ m # arrived + 1 /\ m # Nothing
  BY <1>1, BackendAssumption
<1>6. BoxFits'
  <2>1. \A t \in {"nv", "sim"}, j \in Index : box'[t][j] \in (1..arrived') \cup {Nothing}
    BY <1>1, <1>4, <1>5 DEF BackendInv, BoxFits
  <2>2. backend' # "qmi" => \A j \in Index : box'["sim"][j] = Nothing
    BY <1>1, <1>2, <1>4 DEF BackendInv, BoxFits
  <2>3. arrived' \in Nat
    BY <1>1
  <2>4. QED
    BY <1>4, <2>1, <2>2, <2>3 DEF BoxFits
<1>7. ReadFits'
  <2> SUFFICES ASSUME NEW c \in User, got[c] # Nothing, got[c].from = "nv", deleted[c] = Nothing
               PROVE  /\ got[c].index \in Index /\ got[c].message \in 1..arrived'
                      /\ box'["nv"][got[c].index] = got[c].message
    BY <1>1 DEF BackendInv, ReadFits
  <2>1. /\ got[c].index \in Index /\ got[c].message \in 1..arrived
        /\ box["nv"][got[c].index] = got[c].message
    BY DEF BackendInv, ReadFits
  <2>2. QED
    BY <1>3, <1>4, <1>5, <2>1
<1>8. ClearFits'
  BY <1>1, <1>4, <1>5 DEF BackendInv, ClearFits
<1>9. AllGone'
  <2> SUFFICES ASSUME NEW c \in User, caller[c] = "cleared", NEW m \in before[c],
                      m \in Stored'
               PROVE  FALSE
    BY <1>1 DEF AllGone
  <2>1. m \in 1..arrived
    BY DEF BackendInv, ClearFits
  <2>2. m \in Stored
    BY <1>4, <1>5, <2>1 DEF Stored
  <2>3. QED
    BY <2>2 DEF BackendInv, BackendKeeps, AllGone
<1>10. ReadIsDeleted'
  BY <1>1 DEF BackendInv, BackendKeeps, ReadIsDeleted
<1>11. QED
  BY <1>6, <1>7, <1>8, <1>9, <1>10

\* A message is read, which leaves the storages as they are.
LEMMA FetchKeeps ==
  ASSUME BackendInv, NEW c \in User, ReadSMS(c) \/ ReadSIM(c) \/ ListSMS(c)
  PROVE  (BoxFits /\ ReadFits /\ ClearFits /\ ReadIsDeleted /\ AllGone)'
<1>1. UNCHANGED <<backend, box, arrived, before>>
  BY DEF ReadSMS, ReadSIM, ListSMS
<1>2. \A d \in User : caller'[d] \in {"clear nv", "cleared"} => caller'[d] = caller[d]
  BY DEF BackendInv, Domains, ReadSMS, ReadSIM, ListSMS, Continue
<1>3. BoxFits'
  BY <1>1 DEF BackendInv, BoxFits
<1>4. ClearFits'
  BY <1>1, <1>2 DEF BackendInv, ClearFits
<1>5. AllGone'
  <2>1. Stored' = Stored
    BY <1>1 DEF Stored
  <2>2. QED
    BY <1>1, <1>2, <2>1 DEF BackendInv, BackendKeeps, AllGone
<1>6. /\ \A d \in User : d # c => got'[d] = got[d] /\ deleted'[d] = deleted[d]
      /\ \/ got'[c] = got[c] /\ deleted'[c] = deleted[c]
         \/ /\ deleted'[c] = Nothing
            /\ got'[c].from = "nv" => /\ got'[c].index \in Index
                                      /\ got'[c].message = box["nv"][got'[c].index]
                                      /\ got'[c].message # Nothing
  <2>1. CASE ReadSMS(c)
    <3>1. PICK i \in Index :
            \/ /\ box["nv"][i] # Nothing
               /\ got' = [got EXCEPT ![c] = [index |-> i, message |-> box["nv"][i], from |-> "nv"]]
               /\ deleted' = [deleted EXCEPT ![c] = Nothing]
            \/ UNCHANGED <<got, deleted>>
      BY <2>1 DEF ReadSMS, Reads
    <3>2. QED
      BY <3>1 DEF BackendInv, Domains
  <2>2. CASE ReadSIM(c)
    <3>1. \/ /\ got' = [got EXCEPT ![c] =
                    [index |-> req[c], message |-> box["sim"][req[c]], from |-> "sim"]]
             /\ deleted' = [deleted EXCEPT ![c] = Nothing]
          \/ UNCHANGED <<got, deleted>>
      BY <2>2 DEF ReadSIM, Reads
    <3>2. QED
      BY <3>1 DEF BackendInv, Domains
  <2>3. CASE ListSMS(c)
    <3> DEFINE stored == {i \in Index : box["nv"][i] # Nothing}
               place(i) == Cardinality({j \in stored : j < i})
    <3>1. PICK i \in stored :
            got' = [got EXCEPT ![c] = [message |-> box["nv"][i],
                      index |-> IF backend = "at" THEN place(i) ELSE i,
                      from |-> IF backend = "at" THEN "place" ELSE "nv"]]
      BY <2>3 DEF ListSMS
    <3>2. deleted' = [deleted EXCEPT ![c] = Nothing]
      BY <2>3 DEF ListSMS
    <3> HIDE DEF place
    <3>3. QED
      BY <3>1, <3>2 DEF BackendInv, Domains
  <2>4. QED
    BY <2>1, <2>2, <2>3
<1>7. ReadFits'
  <2>1. \A i \in Index : box["nv"][i] # Nothing => box["nv"][i] \in 1..arrived
    BY DEF BackendInv, BoxFits
  <2>2. QED
    BY <1>1, <1>6, <2>1 DEF BackendInv, ReadFits
<1>8. ReadIsDeleted'
  BY <1>6 DEF BackendInv, BackendKeeps, ReadIsDeleted
<1>9. QED
  BY <1>3, <1>4, <1>5, <1>7, <1>8

\* A message is deleted from the module, by the index it was read with.
LEMMA DeletionKeeps ==
  ASSUME BackendInv, NEW c \in User, DeleteSMS(c)
  PROVE  (BoxFits /\ ReadFits /\ ClearFits /\ ReadIsDeleted /\ AllGone)'
<1> DEFINE at == got[c].index
<1>1. /\ UNCHANGED <<backend, arrived, before, caller>> /\ at \in Index
      /\ got[c] # Nothing /\ deleted[c] = Nothing
      /\ deleted' = [deleted EXCEPT ![c] = [message |-> box["nv"][at]]]
      /\ box' = [box EXCEPT !["nv"][at] = Nothing]
  BY DEF DeleteSMS
<1>2. got' = [d \in User |-> IF d # c /\ got[d] # Nothing /\ got[d].index = at
                             THEN [got[d] EXCEPT !.from = "freed"] ELSE got[d]]
  BY DEF DeleteSMS
<1> HIDE DEF at
<1>3. /\ DOMAIN box' = {"nv", "sim"} /\ DOMAIN box'["nv"] = Index /\ DOMAIN box'["sim"] = Index
      /\ box'["nv"][at] = Nothing
      /\ \A t \in {"nv", "sim"}, j \in Index : (t = "nv" /\ j = at) \/ box'[t][j] = box[t][j]
  BY <1>1 DEF BackendInv, BoxFits
<1>4. BoxFits'
  BY <1>1, <1>3 DEF BackendInv, BoxFits
<1>5. ClearFits'
  BY <1>1, <1>3 DEF BackendInv, ClearFits
<1>6. AllGone'
  <2>1. Stored' \subseteq Stored
    <3> SUFFICES ASSUME NEW m \in Stored' PROVE m \in Stored
      OBVIOUS
    <3>1. m \in 1..arrived /\ \E t \in {"nv", "sim"}, j \in Index : box'[t][j] = m
      BY <1>1 DEF Stored
    <3>2. m # Nothing
      BY <3>1, BackendAssumption DEF BackendInv, BoxFits
    <3>3. QED
      BY <1>3, <3>1, <3>2 DEF Stored
  <2>2. QED
    BY <1>1, <2>1 DEF BackendInv, BackendKeeps, AllGone
<1>7. ASSUME NEW d \in User, got'[d] # Nothing, got'[d].from = "nv"
      PROVE  IF deleted'[d] = Nothing
             THEN /\ got'[d].index \in Index /\ got'[d].message \in 1..arrived'
                  /\ box'["nv"][got'[d].index] = got'[d].message
             ELSE deleted'[d].message \in {got'[d].message, Nothing}
  <2>1. CASE d = c
    <3>1. got'[d] = got[c] /\ deleted'[d] = [message |-> box["nv"][at]]
      BY <1>1, <1>2, <2>1 DEF BackendInv, Domains
    <3>2. got[c].message \in 1..arrived /\ box["nv"][at] = got[c].message
      BY <1>1, <1>7, <3>1 DEF BackendInv, ReadFits, at
    <3>3. [message |-> box["nv"][at]] # Nothing
      BY <3>2, BackendAssumption DEF BackendInv, BoxFits
    <3>4. QED
      BY <3>1, <3>2, <3>3
  <2>2. CASE d # c
    <3>1. deleted'[d] = deleted[d] /\ got'[d] = got[d] /\ got[d].index # at
      <4>1. deleted'[d] = deleted[d]
        BY <1>1, <2>2 DEF BackendInv, Domains
      <4>2. CASE got[d] # Nothing /\ got[d].index = at
        <5>1. got'[d] = [got[d] EXCEPT !.from = "freed"]
          BY <1>2, <2>2, <4>2
        <5>2. QED
          BY <1>7, <5>1
      <4>3. CASE ~(got[d] # Nothing /\ got[d].index = at)
        BY <1>2, <1>7, <2>2, <4>1, <4>3
      <4>4. QED
        BY <4>2, <4>3
    <3>2. QED
      BY <1>1, <1>3, <1>7, <3>1 DEF BackendInv, ReadFits
  <2>3. QED
    BY <2>1, <2>2
<1>8. ReadFits'
  BY <1>7 DEF ReadFits
<1>9. ReadIsDeleted'
  BY <1>8 DEF ReadFits, ReadIsDeleted
<1>10. QED
  BY <1>4, <1>5, <1>6, <1>8, <1>9

LEMMA NumbersAreMessages == BackendInv => Nothing \notin 1..arrived
  BY BackendAssumption DEF BackendInv, BoxFits

\* All messages are deleted, one storage after the other.
LEMMA ClearingKeeps ==
  ASSUME BackendInv, NEW c \in User,
         BeginDeleteAll(c) \/ ClearStorage(c) \/ ClearFails(c) \/ EndDeleteAll(c)
  PROVE  (BoxFits /\ ReadFits /\ ClearFits /\ ReadIsDeleted /\ AllGone)'
<1>1. CASE BeginDeleteAll(c)
  <2>1. /\ UNCHANGED <<backend, box, arrived, got, deleted>>
        /\ before' = [before EXCEPT ![c] = Stored]
        /\ caller' = [caller EXCEPT ![c] = IF backend = "qmi" THEN "clear sim" ELSE "clear nv"]
    BY <1>1 DEF BeginDeleteAll, Continue
  <2>2. BoxFits' /\ ReadFits' /\ ReadIsDeleted'
    BY <2>1 DEF BackendInv, BackendKeeps, BoxFits, ReadFits, ReadIsDeleted
  <2>3. ClearFits'
    <3>1. /\ before'[c] = Stored /\ Stored \subseteq 1..arrived /\ Nothing \notin Stored
          /\ caller'[c] = "clear nv" => backend # "qmi"
      <4>1. Stored \subseteq 1..arrived /\ Nothing \notin Stored
        BY NumbersAreMessages DEF Stored
      <4>2. before'[c] = Stored /\ (caller'[c] = "clear nv" => backend # "qmi")
        BY <2>1 DEF BackendInv, Domains
      <4>3. QED
        BY <4>1, <4>2
    <3>2. \A d \in User : d # c => before'[d] = before[d] /\ caller'[d] = caller[d]
      BY <2>1 DEF BackendInv, Domains
    <3>3. QED
      BY <2>1, <3>1, <3>2 DEF BackendInv, BoxFits, ClearFits
  <2>4. AllGone'
    <3>1. Stored' = Stored
      BY <2>1 DEF Stored
    <3>2. QED
      BY <2>1, <3>1 DEF BackendInv, BackendKeeps, Domains, AllGone
  <2>5. QED
    BY <2>2, <2>3, <2>4
<1>2. CASE ClearStorage(c)
  <2>1. PICK s \in {"nv", "sim"} :
          /\ box' = [box EXCEPT ![s] = [i \in Index |-> Nothing]]
          /\ \/ s = "sim" /\ caller[c] = "clear sim" /\ Continue(c, "clear nv")
             \/ s = "nv" /\ caller[c] = "clear nv" /\ Continue(c, "cleared")
    BY <1>2 DEF ClearStorage, Emptied
  <2>2. /\ UNCHANGED <<backend, arrived, before>>
        /\ got' = [d \in User |-> Nothing]
    BY <1>2 DEF ClearStorage
  <2>3. /\ DOMAIN box' = {"nv", "sim"} /\ DOMAIN box'["nv"] = Index
        /\ DOMAIN box'["sim"] = Index
        /\ \A j \in Index : box'[s][j] = Nothing
        /\ \A t \in {"nv", "sim"} : t # s => box'[t] = box[t]
    BY <2>1 DEF BackendInv, BoxFits
  <2>4. BoxFits'
    BY <2>2, <2>3 DEF BackendInv, BoxFits
  <2>5. ReadFits' /\ ReadIsDeleted'
    BY <2>2 DEF ReadFits, ReadIsDeleted
  <2>6. \A d \in User : d # c => caller'[d] = caller[d]
    BY <2>1 DEF BackendInv, Domains, Continue
  <2>7. \A d \in User : Nothing \notin before[d]
    BY NumbersAreMessages DEF BackendInv, ClearFits
  <2>8. ClearFits'
    BY <2>1, <2>2, <2>3, <2>6, <2>7 DEF BackendInv, Domains, ClearFits, Continue
  <2>9. AllGone'
    <3> SUFFICES ASSUME NEW d \in User, caller'[d] = "cleared", NEW m \in before[d],
                        m \in Stored'
                 PROVE  FALSE
      BY <2>2 DEF AllGone
    <3>1. m # Nothing
      BY <2>7
    <3>2. m \in 1..arrived /\ \E t \in {"nv", "sim"}, j \in Index : box'[t][j] = m
      BY <2>2 DEF Stored
    <3>3. PICK t \in {"nv", "sim"}, j \in Index : box'[t][j] = m
      BY <3>2
    <3>4. t # s /\ box[t][j] = m
      BY <2>3, <3>1, <3>3
    <3>5. CASE d = c
      <4>1. s = "nv" /\ t = "sim" /\ caller[c] = "clear nv"
        BY <2>1, <3>4, <3>5 DEF BackendInv, Domains, Continue
      <4>2. QED
        BY <3>4, <3>5, <4>1 DEF BackendInv, ClearFits
    <3>6. CASE d # c
      BY <2>6, <3>2, <3>4, <3>6 DEF BackendInv, BackendKeeps, AllGone, Stored
    <3>7. QED
      BY <3>5, <3>6
  <2>10. QED
    BY <2>4, <2>5, <2>8, <2>9
<1>3. CASE ClearFails(c) \/ EndDeleteAll(c)
  <2>1. /\ UNCHANGED <<backend, box, arrived, got, deleted>>
        /\ before' = [before EXCEPT ![c] = {}]
        /\ \A d \in User : d # c => caller'[d] = caller[d]
    BY <1>3 DEF BackendInv, Domains, ClearFails, EndDeleteAll, Continue
  <2>2. BoxFits' /\ ReadFits' /\ ReadIsDeleted'
    BY <2>1 DEF BackendInv, BackendKeeps, BoxFits, ReadFits, ReadIsDeleted
  <2>3. before'[c] = {} /\ \A d \in User : d # c => before'[d] = before[d]
    BY <2>1 DEF BackendInv, Domains
  <2>4. ClearFits'
    BY <2>1, <2>3 DEF BackendInv, ClearFits
  <2>5. Stored' = Stored
    BY <2>1 DEF Stored
  <2>6. AllGone'
    BY <2>1, <2>3, <2>5 DEF BackendInv, BackendKeeps, AllGone
  <2>7. QED
    BY <2>2, <2>4, <2>6
<1>4. QED
  BY <1>1, <1>2, <1>3

\* The messages.
LEMMA ReadingKeeps ==
  ASSUME BackendInv, service = "messages", Reading PROVE BackendInv'
<1>1. (BoxFits /\ ReadFits /\ ClearFits /\ ReadIsDeleted /\ AllGone)'
  BY ArrivalKeeps, FetchKeeps, DeletionKeeps, ClearingKeeps DEF Reading
<1>2. UNCHANGED <<backend, service, radio, mode, selVars>>
  BY DEF Reading, MessageArrives, ReadSMS, ReadSIM, ListSMS, DeleteSMS, BeginDeleteAll,
         ClearStorage, ClearFails, EndDeleteAll
<1>3. Domains'
  <2>1. CASE MessageArrives
    BY <2>1 DEF BackendInv, Domains, MessageArrives, selVars
  <2>2. ASSUME NEW c \in User, ReadSMS(c) \/ ReadSIM(c) \/ ListSMS(c) PROVE Domains'
    BY <2>2 DEF BackendInv, Domains, ReadSMS, ReadSIM, ListSMS, Reads, Continue, selVars
  <2>3. ASSUME NEW c \in User, DeleteSMS(c) PROVE Domains'
    BY <2>3 DEF BackendInv, Domains, DeleteSMS, selVars
  <2>4. ASSUME NEW c \in User,
               BeginDeleteAll(c) \/ ClearStorage(c) \/ ClearFails(c) \/ EndDeleteAll(c)
        PROVE  Domains'
    BY <2>4 DEF BackendInv, Domains, BeginDeleteAll, ClearStorage, ClearFails, EndDeleteAll,
                Continue, selVars
  <2>5. QED
    BY <2>1, <2>2, <2>3, <2>4 DEF Reading
<1>4. ServiceFits' /\ SelectionFits' /\ SelectionKept'
  BY <1>2 DEF BackendInv, BackendKeeps, selVars, ServiceFits, SelectionFits, InForce, RATFor,
              SelectionKept, Consistent
<1>5. TechnologyAsked'
  BY <1>4, TechnologyFits, PTL
<1>6. RadioFits' /\ RadioKnown'
  BY <1>2 DEF BackendInv, BackendKeeps, RadioFits, RadioKnown
<1>7. QED
  BY <1>1, <1>3, <1>4, <1>5, <1>6 DEF BackendInv, BackendKeeps

\* What was stored in the modem is what is read back and deleted: every run, any number
\* of callers, messages and failures, of each of the three backends.
THEOREM BackendAlwaysKeeps == BackendSpec => []BackendKeeps
<1>1. BackendInv /\ [BackendNext]_backendVars => BackendInv'
  <2> SUFFICES ASSUME BackendInv, [BackendNext]_backendVars PROVE BackendInv'
    OBVIOUS
  <2>1. CASE BackendNext
    BY <2>1, SelectingKeeps, SwitchingKeeps, ReadingKeeps DEF BackendNext
  <2>2. CASE UNCHANGED backendVars
    <3>1. UNCHANGED <<backend, service, radio, caller, req, mode, selVars, boxVars>>
      BY <2>2 DEF backendVars
    <3>2. (BoxFits /\ ReadFits /\ ClearFits /\ ReadIsDeleted /\ AllGone)'
      BY <3>1, BoxStays
    <3>3. Domains' /\ ServiceFits' /\ RadioFits' /\ RadioKnown'
      BY <3>1 DEF BackendInv, BackendKeeps, Domains, ServiceFits, RadioFits, RadioKnown,
                  selVars, boxVars
    <3>4. SelectionFits' /\ SelectionKept'
      BY <3>1 DEF BackendInv, BackendKeeps, selVars, SelectionFits, InForce, RATFor,
                  SelectionKept, Consistent
    <3>5. TechnologyAsked'
      BY <3>4, TechnologyFits, PTL
    <3>6. QED
      BY <3>2, <3>3, <3>4, <3>5 DEF BackendInv, BackendKeeps
  <2>3. QED
    BY <2>1, <2>2
<1>2. BackendInv => BackendKeeps
  BY DEF BackendInv
<1>3. QED
  BY <1>1, <1>2, BackendStart, PTL DEF BackendSpec
=============================================================================
