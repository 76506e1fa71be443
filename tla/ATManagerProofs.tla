--------------------------- MODULE ATManagerProofs ---------------------------
(***************************************************************************)
(* Proofs about ATManager, for any callers, queues, flaws of the module    *)
(* and watchdog threshold: nothing in a line says which command it         *)
(* answers, and still a command that begins with nothing of another under  *)
(* way is answered by its own lines; a queued urgent command is overtaken  *)
(* once; and the watchdog notices a module that cannot be read any more.   *)
(*                                                                         *)
(* Then about SMSStorage, for any messages and storages: a goroutine that  *)
(* is alone reads the message announced to it, and what is handed over is  *)
(* a whole text in order, whoever read its parts and how often.            *)
(***************************************************************************)
EXTENDS ATManager, SMSStorage, SequenceTheorems, FiniteSetTheorems, WellFoundedInduction,
  TLAPS

Command == Client \X {1, 2}
Unsolicited == <<"urc", 0>>
Kind == {"fatal", "eof", "OK", "ERROR", "prompt", "async", "echo", "data"}
Lines == (Command \cup {NoCommand, Unsolicited}) \X Kind
Outcome == {None, <<"error">>, <<"prompt">>} \cup {<<"ok", r>> : r \in Seq(Lines)}

TypeOK ==
  /\ life \in {"new", "running", "closing", "stopped"}
  /\ healthy \in BOOLEAN /\ notified \in BOOLEAN
  /\ at \in [Client -> {"ready", "waiting", "done"}]
  /\ number \in [Client -> {0, 1, 2}]
  /\ answer \in [Client -> Outcome]
  /\ cmdChan \in Seq(Command) /\ cmdChanHigh \in Seq(Command)
  /\ rxChan \in Seq(Lines) /\ serial \in Seq(Lines) /\ fullResponse \in Seq(Lines)
  /\ runLoop \in {"top", "select", "write", "respond", "exited"}
  /\ IF runLoop \in {"write", "respond"} THEN current \in Command ELSE current = NoCommand
  /\ waitPrompt \in BOOLEAN
  /\ atTimeoutStreak \in Nat /\ atFlaws \in Nat /\ deaf \in Nat
  /\ readLoop \in {"reading", "ended"}
  /\ device \in {"present", "gone"}
  /\ owed \in Seq(Command \X {"command", "pdu", "esc"})
  /\ prompting \in Command \cup {NoCommand}
  /\ overtaken \in [Client -> Nat]
  /\ own \subseteq Command

----------------------------------------------------------------------------
(* The inductive invariant.                                                *)

\* Before Start nothing happens; the watchdog stops the manager when its count is full,
\* and what it counted since nothing can be read is not more than its count.
Watched ==
  /\ life = "new" => runLoop = "top" /\ atTimeoutStreak = 0
  /\ life = "running" => atTimeoutStreak < Threshold
  /\ deaf <= atTimeoutStreak
  /\ deaf > 0 => readLoop = "ended" /\ rxChan = <<>>

\* Nobody is overtaken before it queues, and none that is queued when the run loop is in
\* its second select was overtaken yet.
NotYetOvertaken ==
  /\ \A c \in Client : overtaken[c] <= 1 /\ (at[c] = "ready" => overtaken[c] = 0)
  /\ runLoop = "select" => \A i \in DOMAIN cmdChanHigh : overtaken[cmdChanHigh[i][1]] = 0

\* A command that is not answered is the newest of its caller, and its answer is not there.
Unanswered(cmd) ==
  /\ cmd[2] = number[cmd[1]] /\ answer[cmd[1]] = None /\ at[cmd[1]] # "ready"

\* It is in one queue, or at the run loop, and once.
Once(queue) ==
  /\ \A i \in DOMAIN queue : Unanswered(queue[i]) /\ queue[i] # current /\ queue[i] \notin own
  /\ \A i, j \in DOMAIN queue : queue[i] = queue[j] => i = j

Queued ==
  /\ Once(cmdChan) /\ Once(cmdChanHigh)
  /\ \A i \in DOMAIN cmdChan : cmdChan[i][1] \in Normal
  /\ \A i \in DOMAIN cmdChanHigh : cmdChanHigh[i][1] \notin Normal
  /\ runLoop \in {"write", "respond"} => Unanswered(current)
  /\ \A cmd \in own : cmd[2] <= number[cmd[1]]
  /\ \A c \in Client : at[c] = "ready" => answer[c] = None
  /\ runLoop = "write" =>
       current \notin own /\ fullResponse = <<>> /\ waitPrompt = IsPart(current)

\* The lines that have not reached the run loop yet, oldest first.
Coming == rxChan \o serial

HasData(lines) == \E i \in DOMAIN lines : lines[i][2] = "data"
OneDatum(lines) ==
  \A i, j \in DOMAIN lines : lines[i][2] = "data" /\ lines[j][2] = "data" => i = j
NoPrompt(lines) == \A i \in DOMAIN lines : lines[i][2] # "prompt"

\* What cmd has to expect that began alone, when come is under way to it, full is what it
\* has, and it waits for a prompt or not.  All that comes and is not harmless is its own,
\* or the end of the reader; there is one line of data, and it comes before OK; and a
\* prompt, one, only while it waits for it.
Promised(cmd, come, full, waits) ==
  /\ \A i \in DOMAIN come :
       /\ come[i][2] \in {"OK", "ERROR", "prompt", "data"} => come[i][1] = cmd
       /\ come[i][2] = "OK" => HasData(full) \/ \E j \in 1..i - 1 : come[j][2] = "data"
       /\ come[i][2] = "prompt" => waits
  /\ \A i, j \in DOMAIN come : come[i][2] = "prompt" /\ come[j][2] = "prompt" => i = j
  /\ \A i \in DOMAIN full : full[i][2] = "data" => full[i][1] = cmd
  /\ OneDatum(full) /\ OneDatum(come)
  /\ HasData(full) => ~HasData(come)

\* Until the module has answered, no data is under way.
NoDataYet == ~HasData(fullResponse) /\ ~HasData(Coming)
StillOwed ==
  \/ owed = <<>> /\ prompting = NoCommand
  \/ owed = <<>> /\ prompting = current /\ NoDataYet
  \/ /\ owed = <<<<current, "pdu">>>> /\ prompting = NoCommand
     /\ NoDataYet /\ NoPrompt(Coming)
  \/ /\ owed = <<<<current, "command">>>> /\ prompting = NoCommand
     /\ NoDataYet /\ NoPrompt(Coming) /\ waitPrompt = IsPart(current)

Alone ==
  runLoop = "respond" /\ current \in own =>
    Promised(current, Coming, fullResponse, waitPrompt) /\ StillOwed

\* The module that is gone says nothing more.
Gone == device = "gone" => serial = <<>> /\ owed = <<>> /\ prompting = NoCommand

ATInv ==
  TypeOK /\ Watched /\ NotYetOvertaken /\ Queued /\ Gone /\ Alone /\ OwnAnswer
----------------------------------------------------------------------------
(* Lines on their way.                                                     *)

LEMMA LineIs ==
  ASSUME NEW line \in Lines
  PROVE  /\ line = <<line[1], line[2]>> /\ line[2] \in Kind
         /\ line[1] \in Command \cup {NoCommand, Unsolicited}
BY DEF Lines

\* Reading moves a line on, and the run loop takes the oldest.
LEMMA PipelineMoves ==
  ASSUME NEW r \in Seq(Lines), NEW s \in Seq(Lines), s # <<>>
  PROVE  Append(r, Head(s)) \o Tail(s) = r \o s
<1> DEFINE a == Append(r, Head(s))
           t == Tail(s)
<1>1. /\ Head(s) \in Lines /\ Head(s) = s[1] /\ t \in Seq(Lines)
      /\ Len(t) = Len(s) - 1 /\ \A i \in 1..Len(t) : t[i] = s[i + 1]
  BY HeadTailProperties
<1>2. /\ a \in Seq(Lines) /\ Len(a) = Len(r) + 1 /\ a[Len(r) + 1] = s[1]
      /\ \A i \in 1..Len(r) : a[i] = r[i]
  BY <1>1, AppendProperties
<1>3. Len(r) \in Nat /\ Len(s) \in Nat \ {0}
  BY LenProperties, EmptySeq
<1> HIDE DEF a, t
<1>4. /\ a \o t \in Seq(Lines) /\ Len(a \o t) = Len(a) + Len(t)
      /\ \A i \in 1..Len(a) + Len(t) :
           (a \o t)[i] = IF i <= Len(a) THEN a[i] ELSE t[i - Len(a)]
  BY <1>1, <1>2, ConcatProperties
<1>5. /\ r \o s \in Seq(Lines) /\ Len(r \o s) = Len(r) + Len(s)
      /\ \A i \in 1..Len(r) + Len(s) :
           (r \o s)[i] = IF i <= Len(r) THEN r[i] ELSE s[i - Len(r)]
  BY ConcatProperties
<1>6. ASSUME NEW i \in 1..Len(r) + Len(s) PROVE (a \o t)[i] = (r \o s)[i]
  <2>1. CASE i <= Len(r)
    BY <1>2, <1>3, <1>4, <1>5, <1>1, <2>1
  <2>2. CASE i = Len(r) + 1
    BY <1>2, <1>3, <1>4, <1>5, <1>1, <2>2
  <2>3. CASE i > Len(r) + 1
    <3>1. i - Len(a) \in 1..Len(t) /\ i - Len(a) + 1 = i - Len(r)
      BY <1>1, <1>2, <1>3, <2>3
    <3>2. (a \o t)[i] = t[i - Len(a)]
      BY <1>1, <1>2, <1>3, <1>4, <2>3
    <3>3. (r \o s)[i] = s[i - Len(r)]
      BY <1>3, <1>5, <2>3
    <3>4. QED
      BY <1>1, <3>1, <3>2, <3>3
  <2>4. i <= Len(r) \/ i = Len(r) + 1 \/ i > Len(r) + 1
    BY <1>3
  <2>5. QED
    BY <2>1, <2>2, <2>3, <2>4
<1>7. Len(a) + Len(t) = Len(r) + Len(s)
  BY <1>1, <1>2, <1>3
<1>8. a \o t = r \o s
  BY <1>4, <1>5, <1>6, <1>7, SeqEqual
<1>9. QED
  BY <1>8 DEF a, t

LEMMA PipelineTaken ==
  ASSUME NEW r \in Seq(Lines), NEW s \in Seq(Lines), r # <<>>
  PROVE  /\ r \o s # <<>> /\ Head(r \o s) = Head(r) /\ Head(r) \in Lines
         /\ Tail(r \o s) = Tail(r) \o s
<1> DEFINE t == Tail(r)
           c == r \o s
           u == Tail(c)
<1>1. /\ Head(r) \in Lines /\ Head(r) = r[1] /\ t \in Seq(Lines)
      /\ Len(t) = Len(r) - 1 /\ \A i \in 1..Len(t) : t[i] = r[i + 1]
  BY HeadTailProperties
<1>2. Len(r) \in Nat \ {0} /\ Len(s) \in Nat
  BY LenProperties, EmptySeq
<1>3. /\ c \in Seq(Lines) /\ Len(c) = Len(r) + Len(s)
      /\ \A i \in 1..Len(r) + Len(s) :
           c[i] = IF i <= Len(r) THEN r[i] ELSE s[i - Len(r)]
  BY ConcatProperties
<1> HIDE DEF c, t
<1>4. c # <<>> /\ Head(c) = r[1]
  BY <1>2, <1>3, EmptySeq
<1>5. /\ u \in Seq(Lines) /\ Len(u) = Len(c) - 1 /\ \A i \in 1..Len(u) : u[i] = c[i + 1]
  BY <1>3, <1>4, HeadTailProperties
<1>6. /\ t \o s \in Seq(Lines) /\ Len(t \o s) = Len(t) + Len(s)
      /\ \A i \in 1..Len(t) + Len(s) :
           (t \o s)[i] = IF i <= Len(t) THEN t[i] ELSE s[i - Len(t)]
  BY <1>1, ConcatProperties
<1> HIDE DEF u
<1>7. ASSUME NEW i \in 1..Len(u) PROVE u[i] = (t \o s)[i]
  <2>1. CASE i <= Len(t)
    BY <1>1, <1>2, <1>3, <1>5, <1>6, <2>1
  <2>2. CASE i > Len(t)
    <3>1. u[i] = s[i + 1 - Len(r)]
      BY <1>1, <1>2, <1>3, <1>5, <2>2
    <3>2. (t \o s)[i] = s[i - Len(t)]
      BY <1>1, <1>2, <1>3, <1>5, <1>6, <2>2
    <3>3. i + 1 - Len(r) = i - Len(t)
      BY <1>1, <1>2
    <3>4. QED
      BY <3>1, <3>2, <3>3
  <2>3. i <= Len(t) \/ i > Len(t)
    BY <1>1, <1>2
  <2>4. QED
    BY <2>1, <2>2, <2>3
<1>8. Len(u) = Len(t \o s)
  BY <1>1, <1>2, <1>3, <1>5, <1>6
<1>9. u = t \o s
  BY <1>5, <1>6, <1>7, <1>8, SeqEqual
<1>10. QED
  BY <1>1, <1>4, <1>9 DEF c, t, u

\* What the run loop meets at the head of what a command was promised.
LEMMA PromiseTaken ==
  ASSUME NEW cmd, NEW come \in Seq(Lines), come # <<>>, NEW full \in Seq(Lines),
         NEW waits \in BOOLEAN, Promised(cmd, come, full, waits)
  PROVE  LET line == Head(come)
         IN  /\ line[2] = "OK" => OwnLines(full, cmd)
             /\ line[2] = "prompt" =>
                  /\ waits /\ Promised(cmd, Tail(come), Append(full, line), FALSE)
                  /\ NoPrompt(Tail(come))
             /\ line[2] = "async" => Promised(cmd, Tail(come), full, waits)
             /\ line[2] \in {"echo", "data"} =>
                  Promised(cmd, Tail(come), Append(full, line), waits)
<1> DEFINE line == Head(come)
           t == Tail(come)
           more == Append(full, line)
<1>1. /\ line = come[1] /\ line \in Lines /\ t \in Seq(Lines)
      /\ Len(t) = Len(come) - 1 /\ \A i \in 1..Len(t) : t[i] = come[i + 1]
      /\ Len(come) \in Nat \ {0}
  BY HeadTailProperties, EmptySeq
<1>2. DOMAIN come = 1..Len(come) /\ DOMAIN t = 1..Len(t) /\ DOMAIN full = 1..Len(full)
  BY <1>1, LenProperties
<1>3. Len(full) \in Nat
  BY LenProperties
<1>4. /\ DOMAIN more = 1..Len(full) + 1
      /\ more[Len(full) + 1] = line /\ \A i \in 1..Len(full) : more[i] = full[i]
  BY <1>1, AppendProperties, LenProperties
<1> HIDE DEF line, t, more
<1>5. \A i \in DOMAIN t : i + 1 \in DOMAIN come /\ t[i] = come[i + 1] /\ i \in Nat \ {0}
  BY <1>1, <1>2
<1>6. ASSUME line[2] = "OK" PROVE OwnLines(full, cmd)
  <2>1. HasData(full)
    BY <1>1, <1>2, <1>6 DEF Promised
  <2>2. PICK i \in DOMAIN full : full[i][2] = "data"
    BY <2>1 DEF HasData
  <2>3. full[i] \in Lines
    BY <1>2, ElementOfSeq
  <2>4. full[i] = <<cmd, "data">>
    BY <2>2, <2>3, LineIs DEF Promised
  <2>5. QED
    BY <2>2, <2>4 DEF Promised, OneDatum, OwnLines
<1>7. ASSUME NEW i \in DOMAIN t, t[i][2] = "OK", ~ HasData(full), line[2] # "data"
      PROVE  \E j \in 1..i - 1 : t[j][2] = "data"
  <2>1. PICK j \in 1..i : come[j][2] = "data"
    BY <1>5, <1>7 DEF Promised
  <2>2. j # 1
    BY <1>1, <1>7, <2>1
  <2>3. j - 1 \in 1..i - 1 /\ j - 1 \in 1..Len(t) /\ t[j - 1] = come[j]
    BY <1>1, <1>2, <1>5, <2>1, <2>2
  <2>4. QED
    BY <2>1, <2>3
<1>8. /\ \A i \in DOMAIN t :
           /\ t[i][2] \in {"OK", "ERROR", "prompt", "data"} => t[i][1] = cmd
           /\ t[i][2] = "prompt" => waits
      /\ \A i, j \in DOMAIN t : t[i][2] = "prompt" /\ t[j][2] = "prompt" => i = j
      /\ OneDatum(t)
      /\ HasData(full) => ~ HasData(t)
  BY <1>5 DEF Promised, OneDatum, HasData
<1>9. \A i \in DOMAIN full : full[i][2] = "data" => full[i][1] = cmd
  BY DEF Promised
<1>10. ASSUME line[2] # "data"
       PROVE  /\ Promised(cmd, t, full, waits)
              /\ \A i \in DOMAIN more : more[i][2] = "data" => i \in DOMAIN full
  <2>1. \A i \in DOMAIN t :
          t[i][2] = "OK" => HasData(full) \/ \E j \in 1..i - 1 : t[j][2] = "data"
    BY <1>7, <1>10
  <2>2. OneDatum(full)
    BY DEF Promised
  <2>3. \A i \in DOMAIN more : more[i][2] = "data" => i \in DOMAIN full
    BY <1>2, <1>3, <1>4, <1>10
  <2>4. QED
    BY <1>8, <1>9, <2>1, <2>2, <2>3 DEF Promised
<1>11. HasData(full) => HasData(more)
  BY <1>2, <1>3, <1>4 DEF HasData
<1>12. ASSUME line[2] # "data" PROVE Promised(cmd, t, more, waits)
  <2>1. HasData(more) => HasData(full)
    BY <1>2, <1>4, <1>10, <1>12 DEF HasData
  <2>2. OneDatum(more) /\ \A i \in DOMAIN more : more[i][2] = "data" => more[i][1] = cmd
    BY <1>2, <1>4, <1>10, <1>12 DEF Promised, OneDatum
  <2>3. QED
    BY <1>10, <1>11, <1>12, <2>1, <2>2 DEF Promised
<1>13. ASSUME line[2] = "data" PROVE Promised(cmd, t, more, waits)
  <2>1. 1 \in DOMAIN come
    BY <1>1, <1>2
  <2>2. ~ HasData(full) /\ line[1] = cmd
    BY <1>1, <1>13, <2>1 DEF Promised, HasData
  <2>3. ~ HasData(t)
    BY <1>1, <1>5, <1>13, <2>1, SMTT(30) DEF Promised, OneDatum, HasData
  <2>4. Len(full) + 1 \in DOMAIN more
    BY <1>3, <1>4
  <2>5. HasData(more)
    BY <1>4, <1>13, <2>4 DEF HasData
  <2>6. \A i \in DOMAIN more : more[i][2] = "data" => i = Len(full) + 1
    BY <1>2, <1>3, <1>4, <2>2 DEF HasData
  <2>7. OneDatum(more) /\ \A i \in DOMAIN more : more[i][2] = "data" => more[i][1] = cmd
    BY <1>4, <2>2, <2>6 DEF OneDatum
  <2>8. QED
    BY <1>8, <2>3, <2>5, <2>7 DEF Promised
<1>14. ASSUME line[2] = "prompt" PROVE waits /\ NoPrompt(t)
  <2>1. 1 \in DOMAIN come
    BY <1>1, <1>2
  <2>2. QED
    BY <1>1, <1>5, <1>14, <2>1 DEF Promised, NoPrompt
<1>15. ASSUME line[2] = "prompt" PROVE Promised(cmd, t, more, FALSE)
  BY <1>12, <1>14, <1>15 DEF Promised, NoPrompt
<1>16. QED
  BY <1>6, <1>10, <1>12, <1>13, <1>14, <1>15 DEF line, t, more

\* No data and no prompt is in what is left of lines without.
LEMMA NothingTaken ==
  ASSUME NEW come \in Seq(Lines), come # <<>>, NEW full \in Seq(Lines)
  PROVE  /\ NoPrompt(come) => NoPrompt(Tail(come))
         /\ ~ HasData(come) => ~ HasData(Tail(come)) /\ Head(come)[2] # "data"
         /\ ~ HasData(full) /\ Head(come)[2] # "data" => ~ HasData(Append(full, Head(come)))
         /\ NoPrompt(come) => Head(come)[2] # "prompt"
<1> DEFINE line == Head(come)
           t == Tail(come)
           more == Append(full, line)
<1>1. /\ line = come[1] /\ line \in Lines /\ t \in Seq(Lines)
      /\ Len(t) = Len(come) - 1 /\ \A i \in 1..Len(t) : t[i] = come[i + 1]
      /\ Len(come) \in Nat \ {0}
  BY HeadTailProperties, EmptySeq
<1>2. DOMAIN come = 1..Len(come) /\ DOMAIN t = 1..Len(t) /\ DOMAIN full = 1..Len(full)
  BY <1>1, LenProperties
<1>3. /\ Len(full) \in Nat /\ DOMAIN more = 1..Len(full) + 1
      /\ more[Len(full) + 1] = line /\ \A i \in 1..Len(full) : more[i] = full[i]
  BY <1>1, AppendProperties, LenProperties
<1> HIDE DEF line, t, more
<1>4. 1 \in DOMAIN come /\ \A i \in DOMAIN t : i + 1 \in DOMAIN come /\ t[i] = come[i + 1]
  BY <1>1, <1>2
<1>5. \A i \in DOMAIN more : (i \in DOMAIN full /\ more[i] = full[i]) \/ more[i] = line
  BY <1>2, <1>3
<1>6. QED
  BY <1>1, <1>4, <1>5 DEF NoPrompt, HasData, line, t, more

\* The promise goes on when more lines come that keep it.
LEMMA PromiseGrows ==
  ASSUME NEW cmd, NEW come \in Seq(Lines), NEW full, NEW waits,
         Promised(cmd, come, full, waits), NEW more \in Seq(Lines),
         \A i \in DOMAIN more :
           /\ more[i][2] \in {"OK", "ERROR", "prompt", "data"} => more[i][1] = cmd
           /\ more[i][2] = "OK" => \E j \in 1..i - 1 : more[j][2] = "data"
           /\ more[i][2] = "prompt" => waits /\ NoPrompt(come),
         \A i, j \in DOMAIN more : more[i][2] = "prompt" /\ more[j][2] = "prompt" => i = j,
         OneDatum(more), HasData(more) => ~ HasData(full) /\ ~ HasData(come)
  PROVE  Promised(cmd, come \o more, full, waits)
<1> DEFINE c == come \o more
           n == Len(come)
<1>1. /\ n \in Nat /\ Len(more) \in Nat
      /\ DOMAIN come = 1..n /\ DOMAIN more = 1..Len(more)
  BY LenProperties
<1>2. /\ DOMAIN c = 1..n + Len(more)
      /\ \A i \in 1..n + Len(more) : c[i] = IF i <= n THEN come[i] ELSE more[i - n]
  BY ConcatProperties, LenProperties
<1> HIDE DEF c, n
<1>3. \A i \in DOMAIN c :
        \/ i \in DOMAIN come /\ c[i] = come[i]
        \/ i \notin DOMAIN come /\ i - n \in DOMAIN more /\ c[i] = more[i - n] /\ i \in Nat
  BY <1>1, <1>2
<1>4. ASSUME NEW i \in DOMAIN c
      PROVE  /\ c[i][2] \in {"OK", "ERROR", "prompt", "data"} => c[i][1] = cmd
             /\ c[i][2] = "prompt" => waits
  BY <1>3 DEF Promised
<1>5. ASSUME NEW i \in DOMAIN c, c[i][2] = "OK"
      PROVE  HasData(full) \/ \E j \in 1..i - 1 : c[j][2] = "data"
  <2>1. CASE i \in DOMAIN come /\ c[i] = come[i]
    <3>1. HasData(full) \/ \E j \in 1..i - 1 : come[j][2] = "data"
      BY <1>5, <2>1 DEF Promised
    <3>2. \A j \in 1..i - 1 : c[j] = come[j]
      BY <1>1, <1>2, <2>1
    <3>3. QED
      BY <3>1, <3>2
  <2>2. CASE i - n \in DOMAIN more /\ c[i] = more[i - n] /\ i \in Nat
    <3>1. PICK j \in 1..i - n - 1 : more[j][2] = "data"
      BY <1>5, <2>2
    <3>2. j + n \in 1..i - 1 /\ j + n \in 1..n + Len(more) /\ j + n > n /\ j + n - n = j
      BY <1>1, <2>2, <3>1
    <3>3. c[j + n] = more[j]
      BY <1>1, <1>2, <3>2
    <3>4. QED
      BY <3>1, <3>2, <3>3
  <2>3. QED
    BY <1>3, <2>1, <2>2
<1>6. ASSUME NEW i \in DOMAIN c, NEW j \in DOMAIN c, NEW kind \in {"prompt", "data"},
             c[i][2] = kind, c[j][2] = kind
      PROVE  i = j
  <2>1. CASE i \in DOMAIN come /\ j \in DOMAIN come
    BY <1>3, <1>6, <2>1 DEF Promised, OneDatum
  <2>2. CASE i \notin DOMAIN come /\ j \notin DOMAIN come
    <3>1. /\ i - n \in DOMAIN more /\ j - n \in DOMAIN more /\ i \in Nat /\ j \in Nat
          /\ more[i - n][2] = kind /\ more[j - n][2] = kind
      BY <1>3, <1>6, <2>2
    <3>2. i - n = j - n
      BY <3>1 DEF OneDatum
    <3>3. QED
      BY <1>1, <3>1, <3>2
  <2>3. CASE (i \in DOMAIN come) # (j \in DOMAIN come)
    <3>1. \E k \in DOMAIN come, l \in DOMAIN more : come[k][2] = kind /\ more[l][2] = kind
      BY <1>3, <1>6, <2>3
    <3>2. QED
      BY <3>1 DEF HasData, NoPrompt
  <2>4. QED
    BY <2>1, <2>2, <2>3
<1>7. HasData(full) => ~ HasData(c)
  BY <1>3 DEF Promised, HasData
<1>8. OneDatum(c) /\ \A i, j \in DOMAIN c : c[i][2] = "prompt" /\ c[j][2] = "prompt" => i = j
  BY <1>6 DEF OneDatum
<1>9. Promised(cmd, c, full, waits)
  BY <1>4, <1>5, <1>7, <1>8 DEF Promised
<1>10. QED
  BY <1>9 DEF c

LEMMA NothingGrows ==
  ASSUME NEW come \in Seq(Lines), NEW more \in Seq(Lines)
  PROVE  /\ ~ HasData(come) /\ ~ HasData(more) => ~ HasData(come \o more)
         /\ NoPrompt(come) /\ NoPrompt(more) => NoPrompt(come \o more)
<1>1. \A i \in DOMAIN (come \o more) :
        \/ i \in DOMAIN come /\ (come \o more)[i] = come[i]
        \/ i - Len(come) \in DOMAIN more /\ (come \o more)[i] = more[i - Len(come)]
  BY ConcatProperties, LenProperties
<1>2. QED
  BY <1>1 DEF HasData, NoPrompt

\* The promise holds of what is left when the end of the lines is lost.
LEMMA PromiseCut ==
  ASSUME NEW cmd, NEW r \in Seq(Lines), NEW s \in Seq(Lines), NEW full, NEW waits,
         Promised(cmd, r \o s, full, waits)
  PROVE  Promised(cmd, r, full, waits)
<1> DEFINE c == r \o s
<1>1. /\ Len(r) \in Nat /\ Len(s) \in Nat /\ DOMAIN r = 1..Len(r)
      /\ DOMAIN c = 1..Len(r) + Len(s) /\ \A i \in 1..Len(r) : c[i] = r[i]
  BY ConcatProperties, LenProperties
<1> HIDE DEF c
<1>2. \A i \in DOMAIN r : i \in DOMAIN c /\ c[i] = r[i] /\ \A j \in 1..i - 1 : c[j] = r[j]
  BY <1>1
<1>3. Promised(cmd, c, full, waits)
  BY DEF c
<1>4. \A i \in DOMAIN r :
        r[i][2] = "OK" => HasData(full) \/ \E j \in 1..i - 1 : r[j][2] = "data"
  BY <1>2, <1>3 DEF Promised
<1>5. OneDatum(r) /\ (HasData(full) => ~ HasData(r))
  BY <1>2, <1>3 DEF Promised, OneDatum, HasData
<1>6. QED
  BY <1>2, <1>3, <1>4, <1>5 DEF Promised

----------------------------------------------------------------------------
(* Types.                                                                  *)

LEMMA TailTyped ==
  ASSUME NEW S, NEW s \in Seq(S), s # <<>>
  PROVE  Head(s) \in S /\ Tail(s) \in Seq(S)
BY HeadTailProperties

LEMMA CommandIs ==
  ASSUME NEW c \in Client, number[c] \in {0, 1, 2}, number[c] < Commands(c)
  PROVE  NextCommand(c) \in Command /\ number[c] + 1 \in {1, 2}
BY DEF Command, NextCommand, Commands

LEMMA ModuleKeepsTypes ==
  ASSUME ATInv, ModuleAnswers
  PROVE  /\ serial' \in Seq(Lines) /\ owed' \in Seq(Command \X {"command", "pdu", "esc"})
         /\ prompting' \in Command \cup {NoCommand}
         /\ \E kinds \in Answers(Head(owed)[1], Head(owed)[2]) :
              LET says == [i \in DOMAIN kinds |-> <<Head(owed)[1], kinds[i]>>]
              IN  /\ kinds \in {<<"OK">>, <<"prompt">>, <<"ERROR">>, <<"data", "OK">>}
                  /\ serial' = serial \o says /\ says \in Seq(Lines)
                  /\ DOMAIN says = DOMAIN kinds
                  /\ prompting' = IF kinds = <<"prompt">> THEN Head(owed)[1] ELSE NoCommand
<1> DEFINE cmd == Head(owed)[1]
<1>1. Head(owed) \in Command \X {"command", "pdu", "esc"}
  BY TailTyped DEF ATInv, TypeOK, ModuleAnswers
<1>2. cmd \in Command
  BY <1>1
<1>3. PICK kinds \in Answers(cmd, Head(owed)[2]) :
        /\ serial' = serial \o [i \in DOMAIN kinds |-> <<cmd, kinds[i]>>]
        /\ prompting' = IF kinds = <<"prompt">> THEN cmd ELSE NoCommand
  BY DEF ModuleAnswers
<1> DEFINE says == [i \in DOMAIN kinds |-> <<cmd, kinds[i]>>]
<1>4. kinds \in {<<"OK">>, <<"prompt">>, <<"ERROR">>, <<"data", "OK">>}
  BY DEF Answers
<1>5. kinds \in Seq(Kind)
  <2>1. {"OK", "prompt", "ERROR", "data"} \subseteq Kind
    BY DEF Kind
  <2>2. <<"OK">> \in Seq(Kind) /\ <<"prompt">> \in Seq(Kind) /\ <<"ERROR">> \in Seq(Kind)
    BY <2>1
  <2>3. <<"data", "OK">> \in Seq(Kind)
    BY <2>1
  <2>4. QED
    BY <1>4, <2>2, <2>3
<1>6. /\ DOMAIN kinds = 1..Len(kinds) /\ Len(kinds) \in Nat
      /\ \A i \in 1..Len(kinds) : kinds[i] \in Kind
  BY <1>5, LenProperties
<1>7. \A i \in 1..Len(kinds) : <<cmd, kinds[i]>> \in Lines
  BY <1>2, <1>6 DEF Lines
<1>8. says \in [1..Len(kinds) -> Lines]
  BY <1>6, <1>7
<1>9. says \in Seq(Lines)
  BY <1>6, <1>8, SeqDef
<1> HIDE DEF cmd
<1>10. serial' \in Seq(Lines)
  BY <1>3, <1>9, ConcatProperties DEF ATInv, TypeOK
<1>11. owed' \in Seq(Command \X {"command", "pdu", "esc"})
  BY TailTyped DEF ATInv, TypeOK, ModuleAnswers
<1>12. QED
  BY <1>2, <1>3, <1>4, <1>9, <1>10, <1>11 DEF cmd

\* The reply to the command at the run loop.
LEMMA ReplyTyped ==
  ASSUME TypeOK, runLoop \in {"write", "respond"}, NEW what \in Outcome, Reply(what)
  PROVE  /\ answer' \in [Client -> Outcome] /\ at' = at /\ number' = number
         /\ overtaken' = overtaken /\ runLoop' = "top" /\ current' = NoCommand
         /\ fullResponse' \in Seq(Lines) /\ waitPrompt' = FALSE
<1>1. current[1] \in Client
  BY DEF TypeOK, Command
<1>2. QED
  BY <1>1 DEF TypeOK, Reply

\* Giving the module up stops the manager, or leaves it as it is.
LEMMA GivenUp ==
  ASSUME TypeOK, GiveUpModule \/ UNCHANGED managerVars
  PROVE  /\ life' \in {life, "stopped"} /\ life' \in {"new", "running", "closing", "stopped"}
         /\ life' = "new" => life = "new"
         /\ life' = "running" => life = "running" /\ ~ GiveUpModule
         /\ healthy' \in BOOLEAN /\ notified' \in BOOLEAN
<1>1. CASE GiveUpModule
  <2>1. healthy' \in BOOLEAN /\ notified' \in BOOLEAN
    BY <1>1, Zenon DEF GiveUpModule
  <2>2. life' = IF life = "running" THEN "stopped" ELSE life
    BY <1>1 DEF GiveUpModule
  <2>3. life \in {"new", "running", "closing", "stopped"}
    BY DEF TypeOK
  <2>4. QED
    BY <1>1, <2>1, <2>2, <2>3
<1>2. CASE ~ GiveUpModule
  <2>1. UNCHANGED managerVars
    BY <1>2
  <2>2. life' = life /\ healthy' = healthy /\ notified' = notified
    BY <2>1 DEF managerVars
  <2>3. QED
    BY <1>2, <2>2 DEF TypeOK
<1>3. QED
  BY <1>1, <1>2

LEMMA LineTyped ==
  ASSUME ATInv, Line
  PROVE  TypeOK'
<1>0. TypeOK /\ runLoop = "respond" /\ current \in Command
  BY DEF ATInv, TypeOK, Line
<1> DEFINE line == Head(rxChan)
<1>1. line \in Lines /\ rxChan' \in Seq(Lines)
  BY TailTyped DEF ATInv, TypeOK, Line
<1>2. /\ <<"error">> \in Outcome /\ <<"prompt">> \in Outcome
      /\ <<"ok", fullResponse>> \in Outcome
  BY <1>0 DEF TypeOK, Outcome
<1>3. Append(fullResponse, line) \in Seq(Lines)
  BY <1>0, <1>1, AppendProperties DEF TypeOK
<1>4. /\ UNCHANGED <<cmdChan, cmdChanHigh, own, deaf, device, serial, atFlaws, readLoop>>
      /\ life' \in {"new", "running", "closing", "stopped"}
      /\ healthy' \in BOOLEAN /\ notified' \in BOOLEAN /\ atTimeoutStreak' \in Nat
  <2>1. GiveUpModule \/ UNCHANGED managerVars
    BY DEF Line
  <2>2. /\ UNCHANGED <<cmdChan, cmdChanHigh, own, deaf, device, serial, atFlaws, readLoop>>
        /\ atTimeoutStreak' \in Nat
    BY <1>0 DEF TypeOK, Line, queueVars
  <2>3. QED
    BY <1>0, <2>1, <2>2, GivenUp
<1>5. owed' \in Seq(Command \X {"command", "pdu", "esc"})
      /\ prompting' \in Command \cup {NoCommand}
  <2>1. <<current, "pdu">> \in Command \X {"command", "pdu", "esc"}
    BY <1>0
  <2>2. Append(owed, <<current, "pdu">>) \in Seq(Command \X {"command", "pdu", "esc"})
    BY <1>0, <2>1, AppendProperties DEF TypeOK
  <2>3. QED
    BY <1>0, <2>2 DEF TypeOK, Line
<1>6. \/ \E what \in Outcome : Reply(what)
      \/ /\ fullResponse' \in Seq(Lines) /\ UNCHANGED <<callerVars, runLoop, current>>
         /\ waitPrompt' \in BOOLEAN
  BY <1>0, <1>2, <1>3 DEF TypeOK, Line
<1>7. QED
  BY <1>0, <1>1, <1>4, <1>5, <1>6, ReplyTyped DEF TypeOK, callerVars

LEMMA TypesKept ==
  ASSUME ATInv, [ATNext]_atVars
  PROVE  TypeOK'
<1>0. TypeOK
  BY DEF ATInv
<1> USE DEF managerVars, callerVars, queueVars, handlerVars, moduleVars, readerVars
<1>1. ASSUME NEW opened \in BOOLEAN, Start(opened) PROVE TypeOK'
  <2>1. /\ UNCHANGED <<healthy, notified, callerVars, queueVars, current, fullResponse,
                       waitPrompt, atTimeoutStreak, own, deaf, moduleVars, rxChan>>
        /\ life' \in {"running", "stopped"} /\ readLoop' \in {readLoop, "ended"}
        /\ runLoop' \in {runLoop, "exited"} /\ runLoop = "top"
    BY <1>0, <1>1 DEF ATInv, Watched, Start
  <2>2. QED
    BY <1>0, <2>1 DEF TypeOK
<1>2. ASSUME BeginStop \/ EndStop PROVE TypeOK'
  BY <1>0, <1>2 DEF TypeOK, BeginStop, EndStop
<1>3. ASSUME NEW c \in Client, Enqueue(c) PROVE TypeOK'
  <2>1. NextCommand(c) \in Command /\ number[c] + 1 \in {1, 2}
    BY <1>0, <1>3, CommandIs DEF TypeOK, Enqueue
  <2>2. cmdChan' \in Seq(Command) /\ cmdChanHigh' \in Seq(Command)
    <3>1. /\ Append(cmdChan, NextCommand(c)) \in Seq(Command)
          /\ Append(cmdChanHigh, NextCommand(c)) \in Seq(Command)
      BY <1>0, <2>1, AppendProperties DEF TypeOK
    <3>2. /\ cmdChan' \in {cmdChan, Append(cmdChan, NextCommand(c))}
          /\ cmdChanHigh' \in {cmdChanHigh, Append(cmdChanHigh, NextCommand(c))}
      BY <1>3 DEF Enqueue
    <3>3. QED
      BY <1>0, <3>1, <3>2 DEF TypeOK
  <2>3. number' \in [Client -> {0, 1, 2}] /\ at' \in [Client -> {"ready", "waiting", "done"}]
    BY <1>0, <1>3, <2>1 DEF TypeOK, Enqueue
  <2>4. QED
    BY <1>0, <1>3, <2>2, <2>3 DEF TypeOK, Enqueue
<1>4. ASSUME NEW c \in Client, Refuse(c) \/ Abandon(c) PROVE TypeOK'
  <2>1. UNCHANGED <<managerVars, number, answer, overtaken, queueVars, handlerVars,
                   moduleVars, readerVars>>
        /\ at' = [at EXCEPT ![c] = "done"]
    BY <1>4 DEF Refuse, Abandon
  <2>2. QED
    BY <1>0, <2>1 DEF TypeOK
<1>5. ASSUME NEW c \in Client, Return(c) PROVE TypeOK'
  <2>1. /\ at' \in [Client -> {"ready", "waiting", "done"}]
        /\ answer' \in [Client -> Outcome] /\ overtaken' \in [Client -> Nat]
    BY <1>0, <1>5 DEF TypeOK, Return, Outcome
  <2>2. QED
    BY <1>0, <1>5, <2>1 DEF TypeOK, Return
<1>6. ASSUME TakeHigh PROVE TypeOK'
  BY <1>0, <1>6, TailTyped DEF TypeOK, TakeHigh, Take, IsPart
<1>7. ASSUME TakeNormal PROVE TypeOK'
  <2>1. overtaken' \in [Client -> Nat]
    BY <1>0, <1>7 DEF TypeOK, TakeNormal
  <2>2. QED
    BY <1>0, <1>7, <2>1, TailTyped DEF TypeOK, TakeNormal, Take, IsPart
<1>8. ASSUME ToSelect \/ Exit PROVE TypeOK'
  BY <1>0, <1>8 DEF TypeOK, ToSelect, TopFalls, Exit
<1>9. ASSUME TakeLine PROVE TypeOK'
  BY <1>0, <1>9, TailTyped DEF TypeOK, TakeLine
<1>10. ASSUME WriteCommand PROVE TypeOK'
  <2>1. current \in Command /\ <<current, "command">> \in Command \X {"command", "pdu", "esc"}
    BY <1>0, <1>10 DEF TypeOK, WriteCommand
  <2>2. owed' \in Seq(Command \X {"command", "pdu", "esc"})
    BY <1>0, <1>10, <2>1, AppendProperties DEF TypeOK, WriteCommand
  <2>3. own' \subseteq Command
    BY <1>0, <1>10, <2>1 DEF TypeOK, WriteCommand
  <2>4. QED
    BY <1>0, <1>10, <2>1, <2>2, <2>3 DEF TypeOK, WriteCommand
<1>11. ASSUME WriteFails PROVE TypeOK'
  <2>1. <<"error">> \in Outcome /\ runLoop \in {"write", "respond"} /\ Reply(<<"error">>)
    BY <1>11 DEF Outcome, WriteFails
  <2>2. QED
    BY <1>0, <1>11, <2>1, ReplyTyped DEF TypeOK, WriteFails, GiveUpModule
<1>12. ASSUME Timeout PROVE TypeOK'
  <2>1. <<"error">> \in Outcome /\ runLoop \in {"write", "respond"} /\ Reply(<<"error">>)
    BY <1>12 DEF Outcome, Timeout
  <2>2. owed' \in Seq(Command \X {"command", "pdu", "esc"})
    <3>1. <<>> \in Seq(Command \X {"command", "pdu", "esc"})
      BY EmptySeq
    <3>2. prompting # NoCommand =>
            Append(owed, <<prompting, "esc">>) \in Seq(Command \X {"command", "pdu", "esc"})
      BY <1>0, AppendProperties DEF TypeOK
    <3>3. QED
      BY <1>0, <1>12, <3>1, <3>2 DEF TypeOK, Timeout
  <2>3. /\ atTimeoutStreak' \in Nat /\ deaf' \in Nat /\ atFlaws' \in Nat
    BY <1>0, <1>12 DEF TypeOK, Timeout, recordATTimeout
  <2>4. GiveUpModule \/ UNCHANGED managerVars
    BY <1>12 DEF Timeout
  <2>5. prompting' = NoCommand
        /\ UNCHANGED <<cmdChan, cmdChanHigh, own, device, serial, readLoop, rxChan>>
    BY <1>12 DEF Timeout
  <2>6. QED
    BY <1>0, <2>1, <2>2, <2>3, <2>4, <2>5, GivenUp, ReplyTyped DEF TypeOK
<1>13. ASSUME Line PROVE TypeOK'
  BY <1>13, LineTyped
<1>14. ASSUME ReadLine PROVE TypeOK'
  <2>1. Head(serial) \in Lines /\ Tail(serial) \in Seq(Lines)
    BY <1>0, <1>14, TailTyped DEF TypeOK, ReadLine
  <2>2. QED
    BY <1>0, <1>14, <2>1, AppendProperties DEF TypeOK, ReadLine
<1>15. ASSUME NEW kind \in {"fatal", "eof"}, ReadFails(kind) PROVE TypeOK'
  <2>1. <<NoCommand, kind>> \in Lines
    BY DEF Lines, Kind
  <2>2. rxChan' \in Seq(Lines)
    BY <1>0, <1>15, <2>1, AppendProperties DEF TypeOK, ReadFails
  <2>3. QED
    BY <1>0, <1>15, <2>2 DEF TypeOK, ReadFails
<1>16. ASSUME ReaderStops PROVE TypeOK'
  BY <1>0, <1>16 DEF TypeOK, ReaderStops
<1>17. ASSUME ModuleAnswers PROVE TypeOK'
  BY <1>0, <1>17, ModuleKeepsTypes, ZenonT(40) DEF TypeOK, ModuleAnswers
<1>18. ASSUME NEW kind \in {"async", "echo", "prompt", "ERROR"}, ModuleSpeaks(kind)
       PROVE  TypeOK'
  <2>1. <<Unsolicited, kind>> \in Lines
    BY DEF Lines, Kind
  <2>2. serial' \in Seq(Lines)
    BY <1>0, <1>18, <2>1, AppendProperties DEF TypeOK, ModuleSpeaks, Unsolicited
  <2>3. own' \subseteq Command /\ atFlaws' \in Nat
    BY <1>0, <1>18 DEF TypeOK, ModuleSpeaks
  <2>4. QED
    BY <1>0, <1>18, <2>2, <2>3 DEF TypeOK, ModuleSpeaks
<1>19. ASSUME ModuleGone PROVE TypeOK'
  <2>1. <<>> \in Seq(Lines) /\ <<>> \in Seq(Command \X {"command", "pdu", "esc"})
    BY EmptySeq
  <2>2. QED
    BY <1>0, <1>19, <2>1 DEF TypeOK, ModuleGone
<1>20. CASE UNCHANGED atVars
  BY <1>0, <1>20 DEF TypeOK, atVars
<1>21. QED
  BY <1>1, <1>2, <1>3, <1>4, <1>5, <1>6, <1>7, <1>8, <1>9, <1>10, <1>11, <1>12, <1>13, <1>14,
     <1>15, <1>16, <1>17, <1>18, <1>19, <1>20 DEF ATNext

----------------------------------------------------------------------------
(* The watchdog, and a module that is gone.                                *)

LEMMA WatchedKept ==
  ASSUME ATInv, [ATNext]_atVars
  PROVE  Watched'
<1>0. TypeOK /\ Watched /\ Threshold \in Nat \ {0}
  BY ATAssumption DEF ATInv
<1> USE DEF managerVars, callerVars, queueVars, handlerVars, moduleVars, readerVars
<1>1. ASSUME UNCHANGED <<atTimeoutStreak, deaf, readLoop, rxChan>>,
             life' = "new" => life = "new" /\ runLoop' = runLoop,
             life' = "running" => life = "running" \/ atTimeoutStreak = 0
      PROVE  Watched'
  BY <1>0, <1>1 DEF Watched
<1>2. ASSUME NEW opened \in BOOLEAN, Start(opened) PROVE Watched'
  <2>1. atTimeoutStreak = 0 /\ deaf = 0
    BY <1>0, <1>2 DEF TypeOK, Watched, Start
  <2>2. life' # "new" /\ atTimeoutStreak' = 0 /\ deaf' = 0
    BY <1>2, <2>1 DEF Start
  <2>3. QED
    BY <1>0, <2>2 DEF Watched
<1>3. ASSUME BeginStop \/ EndStop PROVE Watched'
  BY <1>0, <1>1, <1>3 DEF BeginStop, EndStop
<1>4. ASSUME NEW c \in Client, Enqueue(c) \/ Refuse(c) \/ Return(c) \/ Abandon(c) PROVE Watched'
  BY <1>0, <1>1, <1>4 DEF Enqueue, Refuse, Return, Abandon
<1>5. ASSUME TakeHigh \/ ToSelect \/ TakeNormal \/ Exit PROVE Watched'
  <2>1. life # "new"
    BY <1>0, <1>5 DEF Watched, TakeHigh, ToSelect, TopFalls, TakeNormal, Exit, StopClosed
  <2>2. UNCHANGED <<atTimeoutStreak, deaf, readLoop, rxChan, life>>
    BY <1>5 DEF TakeHigh, ToSelect, TakeNormal, Exit, Take
  <2>3. QED
    BY <1>1, <2>1, <2>2
<1>6. ASSUME TakeLine PROVE Watched'
  <2>1. rxChan # <<>> /\ deaf = 0 /\ life # "new"
    BY <1>0, <1>6 DEF TypeOK, Watched, TakeLine
  <2>2. UNCHANGED <<atTimeoutStreak, deaf>> /\ life' \in {life, "stopped"}
    BY <1>6 DEF TakeLine
  <2>3. QED
    BY <1>0, <2>1, <2>2 DEF TypeOK, Watched
<1>7. ASSUME WriteCommand \/ ReaderStops PROVE Watched'
  <2>1. life # "new"
    BY <1>0, <1>7 DEF Watched, WriteCommand, ReaderStops, StopClosed
  <2>2. /\ UNCHANGED <<atTimeoutStreak, deaf, rxChan, life>>
        /\ readLoop = "ended" => readLoop' = "ended"
    BY <1>7 DEF WriteCommand, ReaderStops
  <2>3. QED
    BY <1>0, <2>1, <2>2 DEF Watched
<1>8. ASSUME WriteFails PROVE Watched'
  <2>1. life # "new" /\ UNCHANGED <<atTimeoutStreak, deaf, readLoop, rxChan>>
    BY <1>0, <1>8 DEF Watched, WriteFails
  <2>2. GiveUpModule \/ UNCHANGED managerVars
    BY <1>8 DEF WriteFails
  <2>3. QED
    BY <1>0, <1>1, <2>1, <2>2, GivenUp
<1>9. ASSUME Timeout PROVE Watched'
  <2>1. life # "new"
    BY <1>0, <1>9 DEF Watched, Timeout
  <2>2. life' # "new"
    BY <1>0, <1>9, <2>1, GivenUp DEF Timeout
  <2>3. UNCHANGED <<readLoop, rxChan>> /\ atTimeoutStreak \in Nat /\ deaf \in Nat
    BY <1>0, <1>9 DEF TypeOK, Timeout
  <2>4. CASE IsHigh(current)
    <3>1. UNCHANGED <<atTimeoutStreak, deaf, managerVars>>
      BY <1>9, <2>4 DEF Timeout, recordATTimeout
    <3>2. QED
      BY <1>0, <2>2, <2>3, <3>1 DEF Watched
  <2>5. CASE ~ IsHigh(current)
    <3>1. /\ atTimeoutStreak' = atTimeoutStreak + 1
          /\ deaf' = IF readLoop = "ended" /\ rxChan = <<>> THEN deaf + 1 ELSE deaf
      BY <1>9, <2>5 DEF Timeout, recordATTimeout
    <3>2. atTimeoutStreak' >= Threshold => GiveUpModule
      BY <1>9, <2>5 DEF Timeout, Tripped
    <3>3. life' = "running" => atTimeoutStreak' < Threshold
      <4>1. ASSUME life' = "running" PROVE ~ GiveUpModule
        BY <4>1 DEF GiveUpModule
      <4>2. QED
        BY <1>0, <2>3, <3>1, <3>2, <4>1
    <3>4. deaf' <= atTimeoutStreak' /\ (deaf' > 0 => readLoop = "ended" /\ rxChan = <<>>)
      BY <1>0, <2>3, <3>1 DEF Watched
    <3>5. QED
      BY <2>2, <2>3, <3>3, <3>4 DEF Watched
  <2>6. QED
    BY <2>4, <2>5
<1>10. ASSUME Line PROVE Watched'
  <2>1. rxChan # <<>> /\ deaf = 0 /\ deaf' = 0 /\ life # "new"
    BY <1>0, <1>10 DEF TypeOK, Watched, Line
  <2>2. GiveUpModule \/ UNCHANGED managerVars
    BY <1>10 DEF Line
  <2>3. atTimeoutStreak' \in {atTimeoutStreak, 0} /\ atTimeoutStreak \in Nat
    BY <1>0, <1>10 DEF TypeOK, Line
  <2>4. QED
    BY <1>0, <2>1, <2>2, <2>3, GivenUp DEF Watched
<1>11. ASSUME ReadLine \/ \E kind \in {"fatal", "eof"} : ReadFails(kind) PROVE Watched'
  <2>1. /\ readLoop = "reading" /\ life # "new"
        /\ UNCHANGED <<atTimeoutStreak, deaf, life>>
    BY <1>11 DEF ReadLine, ReadFails
  <2>2. deaf = 0
    BY <1>0, <2>1 DEF TypeOK, Watched
  <2>3. QED
    BY <1>0, <2>1, <2>2 DEF Watched
<1>12. ASSUME \/ ModuleAnswers \/ ModuleGone
              \/ \E kind \in {"async", "echo", "prompt", "ERROR"} : ModuleSpeaks(kind)
       PROVE  Watched'
  <2>1. UNCHANGED <<atTimeoutStreak, deaf, readLoop, rxChan, life, runLoop>>
    BY <1>12 DEF ModuleAnswers, ModuleGone, ModuleSpeaks
  <2>2. QED
    BY <1>1, <2>1
<1>13. CASE UNCHANGED atVars
  BY <1>1, <1>13 DEF atVars
<1>14. QED
  BY <1>2, <1>3, <1>4, <1>5, <1>6, <1>7, <1>8, <1>9, <1>10, <1>11, <1>12, <1>13 DEF ATNext

LEMMA GoneKept ==
  ASSUME ATInv, [ATNext]_atVars
  PROVE  Gone'
<1>0. TypeOK /\ Gone
  BY DEF ATInv
<1> USE DEF managerVars, callerVars, queueVars, handlerVars, moduleVars, readerVars
<1>1. ASSUME UNCHANGED <<device, serial, owed, prompting>> PROVE Gone'
  BY <1>0, <1>1 DEF Gone
<1>2. ASSUME NEW opened \in BOOLEAN, Start(opened) PROVE Gone'
  BY <1>1, <1>2 DEF Start
<1>3. ASSUME NEW c \in Client, Enqueue(c) \/ Refuse(c) \/ Return(c) \/ Abandon(c) PROVE Gone'
  BY <1>1, <1>3 DEF Enqueue, Refuse, Return, Abandon
<1>4. ASSUME BeginStop \/ EndStop \/ TakeHigh \/ ToSelect \/ TakeNormal \/ TakeLine \/ Exit
      PROVE  Gone'
  BY <1>1, <1>4 DEF BeginStop, EndStop, TakeHigh, ToSelect, TakeNormal, TakeLine, Exit
<1>5. ASSUME WriteFails \/ ReaderStops \/ \E kind \in {"fatal", "eof"} : ReadFails(kind)
      PROVE  Gone'
  BY <1>1, <1>5 DEF WriteFails, ReaderStops, ReadFails
<1>6. ASSUME WriteCommand PROVE Gone'
  BY <1>0, <1>6 DEF Gone, WriteCommand
<1>7. ASSUME Timeout PROVE Gone'
  BY <1>0, <1>7 DEF Gone, Timeout
<1>8. ASSUME Line PROVE Gone'
  <2>1. current # NoCommand
    BY <1>0, <1>8 DEF TypeOK, Command, NoCommand, Line
  <2>2. device' = device /\ serial' = serial
    BY <1>8 DEF Line
  <2>3. prompting # current => UNCHANGED <<owed, prompting>>
    BY <1>8 DEF Line
  <2>4. QED
    BY <1>0, <2>1, <2>2, <2>3 DEF Gone
<1>9. ASSUME ReadLine PROVE Gone'
  BY <1>0, <1>9 DEF Gone, ReadLine
<1>10. ASSUME \/ ModuleAnswers \/ ModuleGone
              \/ \E kind \in {"async", "echo", "prompt", "ERROR"} : ModuleSpeaks(kind)
       PROVE  Gone'
  BY <1>0, <1>10 DEF Gone, ModuleAnswers, ModuleGone, ModuleSpeaks
<1>11. CASE UNCHANGED atVars
  BY <1>1, <1>11 DEF atVars
<1>12. QED
  BY <1>2, <1>3, <1>4, <1>5, <1>6, <1>7, <1>8, <1>9, <1>10, <1>11 DEF ATNext

----------------------------------------------------------------------------
(* The queues.                                                             *)

\* A queued command is one of its caller, who waits, and not the run loop's.
LEMMA QueuedIs ==
  ASSUME ATInv,
         NEW cmd, \/ \E i \in DOMAIN cmdChan : cmd = cmdChan[i]
                  \/ \E i \in DOMAIN cmdChanHigh : cmd = cmdChanHigh[i]
                  \/ runLoop \in {"write", "respond"} /\ cmd = current
  PROVE  cmd \in Command /\ cmd[1] \in Client /\ cmd = <<cmd[1], cmd[2]>> /\ Unanswered(cmd)
<1>1. cmd \in Command
  BY ElementOfSeq, LenProperties DEF ATInv, TypeOK
<1>2. Unanswered(cmd)
  BY DEF ATInv, Queued, Once
<1>3. QED
  BY <1>1, <1>2 DEF Command

\* What leaves the queue it is taken from.
LEMMA OnceTail ==
  ASSUME ATInv,
         NEW queue \in {cmdChan, cmdChanHigh}, queue # <<>>
  PROVE  /\ Head(queue) = queue[1] /\ 1 \in DOMAIN queue
         /\ \A i \in DOMAIN Tail(queue) :
              i + 1 \in DOMAIN queue /\ Tail(queue)[i] = queue[i + 1]
         /\ \A i \in DOMAIN Tail(queue) : Tail(queue)[i] # Head(queue)
         /\ \A i, j \in DOMAIN Tail(queue) : Tail(queue)[i] = Tail(queue)[j] => i = j
<1>1. queue \in Seq(Command)
  BY DEF ATInv, TypeOK
<1>2. Once(queue)
  BY DEF ATInv, Queued
<1>3. /\ Head(queue) = queue[1] /\ Len(queue) \in Nat \ {0} /\ DOMAIN queue = 1..Len(queue)
      /\ DOMAIN Tail(queue) = 1..Len(queue) - 1
      /\ \A i \in 1..Len(queue) - 1 : Tail(queue)[i] = queue[i + 1]
  BY <1>1, HeadTailProperties, LenProperties, EmptySeq
<1>4. \A i \in DOMAIN Tail(queue) :
        i + 1 \in DOMAIN queue /\ Tail(queue)[i] = queue[i + 1] /\ i \in Nat \ {0}
  BY <1>3
<1>5. 1 \in DOMAIN queue
  BY <1>3
<1>6. \A i \in DOMAIN Tail(queue) : Tail(queue)[i] # Head(queue)
  BY <1>2, <1>3, <1>4, <1>5 DEF Once
<1>7. ASSUME NEW i \in DOMAIN Tail(queue), NEW j \in DOMAIN Tail(queue),
             Tail(queue)[i] = Tail(queue)[j]
      PROVE  i = j
  <2>1. i + 1 = j + 1
    BY <1>2, <1>4, <1>7 DEF Once
  <2>2. QED
    BY <1>4, <2>1
<1>8. QED
  BY <1>3, <1>4, <1>5, <1>6, <1>7

LEMMA NotYetOvertakenKept ==
  ASSUME ATInv, [ATNext]_atVars
  PROVE  NotYetOvertaken'
<1>0. TypeOK /\ NotYetOvertaken
  BY DEF ATInv
<1> USE DEF managerVars, callerVars, queueVars, handlerVars, moduleVars, readerVars
<1>1. ASSUME UNCHANGED <<overtaken, at, cmdChanHigh>>, runLoop' = "select" => runLoop = "select"
      PROVE  NotYetOvertaken'
  BY <1>0, <1>1 DEF NotYetOvertaken
<1>2. ASSUME NEW opened \in BOOLEAN, Start(opened) PROVE NotYetOvertaken'
  BY <1>1, <1>2 DEF Start
<1>3. ASSUME NEW c \in Client, Refuse(c) \/ Abandon(c) PROVE NotYetOvertaken'
  <2>1. at' = [at EXCEPT ![c] = "done"] /\ UNCHANGED <<overtaken, cmdChanHigh, runLoop>>
    BY <1>3 DEF Refuse, Abandon
  <2>2. QED
    BY <1>0, <2>1 DEF TypeOK, NotYetOvertaken
<1>4. ASSUME NEW c \in Client, Enqueue(c) PROVE NotYetOvertaken'
  <2>1. /\ at[c] = "ready" /\ overtaken[c] = 0 /\ overtaken' = overtaken /\ runLoop' = runLoop
        /\ at' = [at EXCEPT ![c] = "waiting"]
    BY <1>0, <1>4 DEF NotYetOvertaken, Enqueue
  <2>2. cmdChanHigh \in Seq(Command) /\ NextCommand(c) \in Command /\ NextCommand(c)[1] = c
    BY <1>0, <1>4, CommandIs DEF TypeOK, Enqueue, NextCommand
  <2>3. cmdChanHigh' \in {cmdChanHigh, Append(cmdChanHigh, NextCommand(c))}
    BY <1>4 DEF Enqueue
  <2>4. \A i \in DOMAIN cmdChanHigh' :
          \/ i \in DOMAIN cmdChanHigh /\ cmdChanHigh'[i] = cmdChanHigh[i]
          \/ cmdChanHigh'[i] = NextCommand(c)
    BY <2>2, <2>3, AppendProperties, LenProperties
  <2>5. QED
    BY <1>0, <2>1, <2>2, <2>4 DEF TypeOK, NotYetOvertaken
<1>5. ASSUME NEW c \in Client, Return(c) PROVE NotYetOvertaken'
  <2>1. \A d \in Client : overtaken'[d] = IF d = c THEN 0 ELSE overtaken[d]
    BY <1>0, <1>5 DEF TypeOK, Return
  <2>2. \A d \in Client : at'[d] = "ready" => d = c \/ at[d] = "ready"
    BY <1>0, <1>5 DEF TypeOK, Return
  <2>3. cmdChanHigh' = cmdChanHigh /\ runLoop' = runLoop
    BY <1>5 DEF Return
  <2>4. \A i \in DOMAIN cmdChanHigh : cmdChanHigh[i][1] \in Client
    BY QueuedIs
  <2>5. QED
    BY <1>0, <2>1, <2>2, <2>3, <2>4 DEF NotYetOvertaken
<1>6. ASSUME TakeHigh PROVE NotYetOvertaken'
  BY <1>0, <1>6 DEF NotYetOvertaken, TakeHigh, Take
<1>7. ASSUME TakeNormal PROVE NotYetOvertaken'
  <2>1. runLoop' = "write" /\ at' = at
    BY <1>7 DEF TakeNormal, Take
  <2>2. \A i \in DOMAIN cmdChanHigh :
          overtaken[cmdChanHigh[i][1]] = 0 /\ at[cmdChanHigh[i][1]] # "ready"
    BY <1>0, <1>7, QueuedIs DEF NotYetOvertaken, TakeNormal, Unanswered
  <2>3. \A c \in Client :
          overtaken'[c] = IF \E i \in DOMAIN cmdChanHigh : cmdChanHigh[i][1] = c
                          THEN overtaken[c] + 1 ELSE overtaken[c]
    BY <1>7 DEF TakeNormal
  <2>4. QED
    BY <1>0, <2>1, <2>2, <2>3 DEF NotYetOvertaken
<1>8. ASSUME ToSelect PROVE NotYetOvertaken'
  <2>1. DOMAIN cmdChanHigh' = {} /\ overtaken' = overtaken /\ at' = at
    BY <1>8 DEF ToSelect, TopFalls
  <2>2. QED
    BY <1>0, <2>1 DEF NotYetOvertaken
<1>9. ASSUME BeginStop \/ EndStop \/ TakeLine \/ Exit \/ WriteCommand PROVE NotYetOvertaken'
  BY <1>1, <1>9 DEF BeginStop, EndStop, TakeLine, Exit, WriteCommand
<1>10. ASSUME WriteFails \/ Timeout PROVE NotYetOvertaken'
  BY <1>1, <1>10 DEF WriteFails, Timeout, Reply
<1>11. ASSUME Line PROVE NotYetOvertaken'
  <2>1. UNCHANGED <<overtaken, at, cmdChanHigh>> /\ runLoop' \in {runLoop, "top"}
    BY <1>11 DEF Line, Reply
  <2>2. QED
    BY <1>1, <2>1
<1>12. ASSUME \/ ReadLine \/ ReaderStops \/ ModuleAnswers \/ ModuleGone
              \/ \E kind \in {"fatal", "eof"} : ReadFails(kind)
              \/ \E kind \in {"async", "echo", "prompt", "ERROR"} : ModuleSpeaks(kind)
       PROVE  NotYetOvertaken'
  BY <1>1, <1>12 DEF ReadLine, ReaderStops, ModuleAnswers, ModuleGone, ReadFails, ModuleSpeaks
<1>13. CASE UNCHANGED atVars
  BY <1>1, <1>13 DEF atVars
<1>14. QED
  BY <1>2, <1>3, <1>4, <1>5, <1>6, <1>7, <1>8, <1>9, <1>10, <1>11, <1>12, <1>13 DEF ATNext

\* A command of c that is not answered is the only one of c that is not.
LEMMA UnansweredAlone ==
  ASSUME NEW cmd \in Command, NEW other \in Command, Unanswered(cmd), Unanswered(other),
         cmd[1] = other[1]
  PROVE  cmd = other
BY DEF Command, Unanswered

\* The queues stay as they are, and what the commands in them need.
LEMMA QueuesUntouched ==
  ASSUME ATInv, UNCHANGED <<cmdChan, cmdChanHigh>>, own' \subseteq own,
         \A cmd \in Command :
           Unanswered(cmd) /\ cmd # current => Unanswered(cmd)' /\ cmd # current'
  PROVE  /\ Once(cmdChan)' /\ Once(cmdChanHigh)'
         /\ \A i \in DOMAIN cmdChan' : cmdChan'[i][1] \in Normal
         /\ \A i \in DOMAIN cmdChanHigh' : cmdChanHigh'[i][1] \notin Normal
<1>1. /\ \A i \in DOMAIN cmdChan : cmdChan[i] \in Command
      /\ \A i \in DOMAIN cmdChanHigh : cmdChanHigh[i] \in Command
  BY QueuedIs
<1>2. QED
  BY <1>1 DEF ATInv, Queued, Once

\* After the reply nothing else has changed for those in the queues.
LEMMA QueuedAtReply ==
  ASSUME ATInv, runLoop \in {"write", "respond"},
         NEW what, what # None, Reply(what), UNCHANGED <<cmdChan, cmdChanHigh, own>>
  PROVE  Queued'
<1>0. TypeOK /\ Queued
  BY DEF ATInv
<1>1. current \in Command /\ current[1] \in Client /\ Unanswered(current)
  BY QueuedIs
<1>2. /\ UNCHANGED <<at, number>> /\ current' = NoCommand /\ runLoop' = "top"
      /\ \A c \in Client : answer'[c] = IF c = current[1] THEN what ELSE answer[c]
  BY <1>0 DEF TypeOK, Reply
<1>3. ASSUME NEW cmd \in Command, Unanswered(cmd), cmd # current
      PROVE  Unanswered(cmd)' /\ cmd # current'
  <2>1. cmd[1] # current[1] /\ cmd[1] \in Client
    BY <1>1, <1>3, UnansweredAlone DEF Command
  <2>2. cmd # NoCommand
    BY ATAssumption DEF Command, NoCommand
  <2>3. QED
    BY <1>2, <1>3, <2>1, <2>2 DEF Unanswered
<1>4. \A c \in Client : at'[c] = "ready" => answer'[c] = None
  BY <1>0, <1>1, <1>2 DEF Queued, Unanswered
<1>5. \A cmd \in own' : cmd[2] <= number'[cmd[1]]
  BY <1>0, <1>2 DEF Queued
<1>6. QED
  BY <1>2, <1>3, <1>4, <1>5, QueuesUntouched DEF Queued

\* A new command goes to the end of its queue.
LEMMA OnceAppended ==
  ASSUME ATInv, NEW c \in Client, Enqueue(c),
         NEW queue \in {cmdChan, cmdChanHigh}, NEW new, new = NextCommand(c)
  PROVE  \A q \in {queue, Append(queue, new)} :
           /\ \A i \in DOMAIN q : Unanswered(q[i])' /\ q[i] # current' /\ q[i] \notin own'
           /\ \A i, j \in DOMAIN q : q[i] = q[j] => i = j
           /\ \A i \in DOMAIN q : (\E j \in DOMAIN queue : q[i] = queue[j]) \/ q[i] = new
<1> DEFINE more == Append(queue, new)
<1>0. TypeOK /\ Queued
  BY DEF ATInv
<1>1. /\ at[c] = "ready" /\ answer[c] = None /\ answer' = answer /\ own' = own
      /\ current' = current /\ at' = [at EXCEPT ![c] = "waiting"]
      /\ number' = [number EXCEPT ![c] = @ + 1]
  BY <1>0 DEF Queued, Enqueue, handlerVars
<1>2. new \in Command /\ new[1] = c /\ new[2] = number[c] + 1 /\ number[c] \in {0, 1, 2}
  BY <1>0, CommandIs DEF TypeOK, Enqueue, NextCommand
<1>3. queue \in Seq(Command) /\ Once(queue)
  BY <1>0 DEF TypeOK, Queued
<1>4. \A i \in DOMAIN queue : queue[i] \in Command
  BY <1>3, ElementOfSeq, LenProperties
<1>5. /\ at'[c] = "waiting" /\ number'[c] = number[c] + 1
      /\ \A d \in Client : d # c => at'[d] = at[d] /\ number'[d] = number[d]
  BY <1>0, <1>1 DEF TypeOK
<1>6. \A i \in DOMAIN queue : queue[i][1] \in Client /\ queue[i][1] # c
  BY <1>1, <1>3, <1>4 DEF Once, Unanswered, Command
<1>7. ASSUME NEW i \in DOMAIN queue
      PROVE  /\ Unanswered(queue[i])' /\ queue[i] # current'
             /\ queue[i] \notin own' /\ queue[i] # new
  <2>1. queue[i][1] \in Client /\ queue[i][1] # c
    BY <1>6
  <2>2. Unanswered(queue[i])
    BY <1>3 DEF Once
  <2>3. Unanswered(queue[i])'
    BY <1>1, <1>5, <2>1, <2>2 DEF Unanswered
  <2>4. QED
    BY <1>1, <1>2, <1>3, <2>1, <2>3 DEF Once
<1>8. Unanswered(new)' /\ new # current' /\ new \notin own'
  <2>1. Unanswered(new)'
    BY <1>1, <1>2, <1>5 DEF Unanswered
  <2>2. new # current
    <3>1. CASE runLoop \in {"write", "respond"}
      BY <1>1, <1>2, <3>1, QueuedIs DEF Unanswered
    <3>2. CASE runLoop \notin {"write", "respond"}
      BY <1>0, <1>2, <3>2, ATAssumption DEF TypeOK, Command, NoCommand
    <3>3. QED
      BY <3>1, <3>2
  <2>3. new \notin own
    BY <1>0, <1>2 DEF Queued
  <2>4. QED
    BY <1>1, <2>1, <2>2, <2>3
<1>9. /\ Len(queue) \in Nat /\ DOMAIN queue = 1..Len(queue)
      /\ DOMAIN more = 1..Len(queue) + 1 /\ more[Len(queue) + 1] = new
      /\ \A i \in 1..Len(queue) : more[i] = queue[i]
  BY <1>2, <1>3, AppendProperties, LenProperties
<1> HIDE DEF more
<1>10. \A i \in DOMAIN more :
         \/ i \in DOMAIN queue /\ more[i] = queue[i]
         \/ i = Len(queue) + 1 /\ more[i] = new
  BY <1>9
<1>11. \A i, j \in DOMAIN more : more[i] = more[j] => i = j
  BY <1>3, <1>7, <1>10 DEF Once
<1>12. \A i, j \in DOMAIN queue : queue[i] = queue[j] => i = j
  BY <1>3 DEF Once
<1>13. \A i \in DOMAIN more :
         /\ Unanswered(more[i])' /\ more[i] # current' /\ more[i] \notin own'
         /\ (\E j \in DOMAIN queue : more[i] = queue[j]) \/ more[i] = new
  BY <1>7, <1>8, <1>10
<1>14. QED
  BY <1>7, <1>11, <1>12, <1>13 DEF more

LEMMA QueuedKept ==
  ASSUME ATInv, [ATNext]_atVars
  PROVE  Queued'
<1>0. TypeOK /\ Queued
  BY DEF ATInv
<1> USE DEF managerVars, callerVars, queueVars, handlerVars, moduleVars, readerVars
<1>1. ASSUME UNCHANGED <<cmdChan, cmdChanHigh, at, number, answer, current>>,
             own' \subseteq own, runLoop' \in {"write", "respond"} => runLoop' = runLoop,
             runLoop' = "write" => UNCHANGED <<fullResponse, waitPrompt>>
      PROVE  Queued'
  <2>1. \A cmd \in Command : Unanswered(cmd) => Unanswered(cmd)'
    BY <1>1 DEF Unanswered
  <2>2. /\ Once(cmdChan)' /\ Once(cmdChanHigh)'
        /\ \A i \in DOMAIN cmdChan' : cmdChan'[i][1] \in Normal
        /\ \A i \in DOMAIN cmdChanHigh' : cmdChanHigh'[i][1] \notin Normal
    BY <1>1, <2>1, QueuesUntouched
  <2>3. runLoop' \in {"write", "respond"} => Unanswered(current)'
    BY <1>0, <1>1 DEF Queued, Unanswered
  <2>4. /\ \A cmd \in own' : cmd[2] <= number'[cmd[1]]
        /\ \A c \in Client : at'[c] = "ready" => answer'[c] = None
    BY <1>0, <1>1 DEF Queued
  <2>5. runLoop' = "write" =>
          current' \notin own' /\ fullResponse' = <<>> /\ waitPrompt' = IsPart(current')
    BY <1>0, <1>1 DEF Queued
  <2>6. QED
    BY <2>2, <2>3, <2>4, <2>5 DEF Queued
<1>2. ASSUME NEW opened \in BOOLEAN, Start(opened) PROVE Queued'
  BY <1>1, <1>2 DEF Start
<1>3. ASSUME BeginStop \/ EndStop \/ ToSelect \/ TakeLine \/ Exit PROVE Queued'
  BY <1>1, <1>3 DEF BeginStop, EndStop, ToSelect, TakeLine, Exit
<1>4. ASSUME \/ ReadLine \/ ReaderStops \/ ModuleAnswers \/ ModuleGone
             \/ \E kind \in {"fatal", "eof"} : ReadFails(kind)
             \/ \E kind \in {"async", "echo", "prompt", "ERROR"} : ModuleSpeaks(kind)
      PROVE  Queued'
  BY <1>1, <1>4 DEF ReadLine, ReaderStops, ModuleAnswers, ModuleGone, ReadFails, ModuleSpeaks
<1>5. ASSUME NEW c \in Client, Enqueue(c) PROVE Queued'
  <2>1. /\ at[c] = "ready" /\ number[c] \in {0, 1, 2}
        /\ UNCHANGED <<answer, own, current, runLoop, fullResponse, waitPrompt>>
        /\ at' = [at EXCEPT ![c] = "waiting"] /\ number' = [number EXCEPT ![c] = @ + 1]
    BY <1>0, <1>5 DEF TypeOK, Enqueue
  <2>2. /\ \A d \in Client : at'[d] = IF d = c THEN "waiting" ELSE at[d]
        /\ \A d \in Client : number'[d] = IF d = c THEN number[c] + 1 ELSE number[d]
    BY <1>0, <2>1 DEF TypeOK
  <2>3. /\ cmdChan' = IF c \in Normal THEN Append(cmdChan, NextCommand(c)) ELSE cmdChan
        /\ cmdChanHigh' = IF c \in Normal THEN cmdChanHigh
                          ELSE Append(cmdChanHigh, NextCommand(c))
    BY <1>5 DEF Enqueue
  <2>4. Once(cmdChan)' /\ Once(cmdChanHigh)'
    BY <1>5, <2>3, OnceAppended DEF Once
  <2>5. /\ \A i \in DOMAIN cmdChan' : cmdChan'[i][1] \in Normal
        /\ \A i \in DOMAIN cmdChanHigh' : cmdChanHigh'[i][1] \notin Normal
    <3>1. NextCommand(c)[1] = c
      BY DEF NextCommand
    <3>2. QED
      BY <1>0, <1>5, <2>3, <3>1, OnceAppended DEF Queued
  <2>6. runLoop \in {"write", "respond"} => Unanswered(current)'
    <3>1. ASSUME runLoop \in {"write", "respond"} PROVE Unanswered(current)'
      <4>1. current[1] \in Client /\ Unanswered(current)
        BY <3>1, QueuedIs
      <4>2. QED
        BY <2>1, <2>2, <4>1 DEF Unanswered
    <3>2. QED
      BY <3>1
  <2>7. \A cmd \in own' : cmd[2] <= number'[cmd[1]]
    <3>1. ASSUME NEW cmd \in own' PROVE cmd[2] <= number'[cmd[1]]
      <4>1. /\ cmd \in own /\ cmd[1] \in Client /\ cmd[2] \in {1, 2}
            /\ number[cmd[1]] \in {0, 1, 2}
        BY <1>0, <2>1 DEF TypeOK, Command
      <4>2. cmd[2] <= number[cmd[1]] /\ number'[cmd[1]] \in {number[cmd[1]], number[cmd[1]] + 1}
        BY <1>0, <2>2, <4>1 DEF Queued
      <4>3. QED
        BY <4>1, <4>2
    <3>2. QED
      BY <3>1
  <2>8. \A d \in Client : at'[d] = "ready" => answer'[d] = None
    BY <1>0, <2>1, <2>2 DEF Queued
  <2>9. runLoop' = "write" =>
          current' \notin own' /\ fullResponse' = <<>> /\ waitPrompt' = IsPart(current')
    BY <1>0, <2>1 DEF Queued
  <2>10. QED
    BY <2>1, <2>4, <2>5, <2>6, <2>7, <2>8, <2>9 DEF Queued
<1>6. ASSUME NEW c \in Client, Refuse(c) \/ Abandon(c) PROVE Queued'
  <2>1. /\ UNCHANGED <<cmdChan, cmdChanHigh, number, answer, own, current, runLoop,
                       fullResponse, waitPrompt>>
        /\ at' = [at EXCEPT ![c] = "done"]
    BY <1>6 DEF Refuse, Abandon
  <2>2. \A d \in Client : at'[d] = IF d = c THEN "done" ELSE at[d]
    BY <1>0, <2>1 DEF TypeOK
  <2>3. \A cmd \in Command : Unanswered(cmd) => Unanswered(cmd)'
    BY <2>1, <2>2 DEF Unanswered, Command
  <2>4. /\ Once(cmdChan)' /\ Once(cmdChanHigh)'
        /\ \A i \in DOMAIN cmdChan' : cmdChan'[i][1] \in Normal
        /\ \A i \in DOMAIN cmdChanHigh' : cmdChanHigh'[i][1] \notin Normal
    BY <2>1, <2>3, QueuesUntouched
  <2>5. runLoop' \in {"write", "respond"} => Unanswered(current)'
    BY <1>0, <2>1, <2>3 DEF TypeOK, Queued, Unanswered
  <2>6. \A d \in Client : at'[d] = "ready" => answer'[d] = None
    BY <1>0, <2>1, <2>2 DEF Queued
  <2>7. QED
    BY <1>0, <2>1, <2>4, <2>5, <2>6 DEF Queued
<1>7. ASSUME NEW c \in Client, Return(c) PROVE Queued'
  <2>1. /\ UNCHANGED <<cmdChan, cmdChanHigh, number, current, runLoop, fullResponse,
                       waitPrompt>>
        /\ answer[c] # None /\ answer' = [answer EXCEPT ![c] = None] /\ own' \subseteq own
    BY <1>7 DEF Return
  <2>2. /\ \A d \in Client : answer'[d] = IF d = c THEN None ELSE answer[d]
        /\ \A d \in Client : d # c => at'[d] = at[d]
    BY <1>0, <1>7, <2>1 DEF TypeOK, Return
  <2>3. ASSUME NEW cmd \in Command, Unanswered(cmd) PROVE Unanswered(cmd)'
    <3>1. cmd[1] # c /\ cmd[1] \in Client
      BY <2>1, <2>3 DEF Unanswered, Command
    <3>2. QED
      BY <2>1, <2>2, <2>3, <3>1 DEF Unanswered
  <2>4. /\ Once(cmdChan)' /\ Once(cmdChanHigh)'
        /\ \A i \in DOMAIN cmdChan' : cmdChan'[i][1] \in Normal
        /\ \A i \in DOMAIN cmdChanHigh' : cmdChanHigh'[i][1] \notin Normal
    BY <2>1, <2>3, QueuesUntouched
  <2>5. runLoop' \in {"write", "respond"} => Unanswered(current)'
    <3>1. ASSUME runLoop \in {"write", "respond"} PROVE Unanswered(current)'
      <4>1. current \in Command /\ Unanswered(current)
        BY <3>1, QueuedIs
      <4>2. \A cmd \in Command : Unanswered(cmd) /\ cmd = current => Unanswered(current)'
        BY <2>1, <2>3 DEF Unanswered
      <4>3. QED
        BY <4>1, <4>2
    <3>2. QED
      BY <2>1, <3>1
  <2>6. \A d \in Client : at'[d] = "ready" => answer'[d] = None
    BY <1>0, <2>1, <2>2 DEF Queued
  <2>7. QED
    BY <1>0, <2>1, <2>4, <2>5, <2>6 DEF Queued
<1>8. ASSUME TakeHigh \/ TakeNormal PROVE Queued'
  <2>1. PICK queue \in {cmdChan, cmdChanHigh} :
          /\ queue # <<>> /\ Take(Head(queue))
          /\ \/ queue = cmdChan /\ cmdChan' = Tail(cmdChan) /\ cmdChanHigh' = cmdChanHigh
             \/ queue = cmdChanHigh /\ cmdChanHigh' = Tail(cmdChanHigh) /\ cmdChan' = cmdChan
          /\ UNCHANGED <<at, number, answer, own>> /\ runLoop \in {"top", "select"}
    BY <1>8 DEF TakeHigh, TakeNormal, Take
  <2>2. /\ current' = Head(queue) /\ current' = queue[1] /\ 1 \in DOMAIN queue
        /\ runLoop' = "write" /\ fullResponse' = <<>> /\ waitPrompt' = IsPart(current')
    BY <2>1, OnceTail DEF Take
  <2>3. Unanswered(queue[1]) /\ queue[1] \notin own
    BY <1>0, <2>1, <2>2 DEF Queued, Once
  <2>4. \A cmd : Unanswered(cmd) => Unanswered(cmd)'
    BY <2>1 DEF Unanswered
  <2>5. Once(cmdChan)'
    <3>1. CASE queue = cmdChan /\ cmdChan' = Tail(cmdChan)
      BY <1>0, <2>1, <2>2, <2>4, <3>1, OnceTail DEF Queued, Once
    <3>2. CASE queue = cmdChanHigh /\ cmdChan' = cmdChan
      BY <1>0, <2>1, <2>2, <2>4, <3>2 DEF Queued, Once
    <3>3. QED
      BY <2>1, <3>1, <3>2
  <2>6. Once(cmdChanHigh)'
    <3>1. CASE queue = cmdChanHigh /\ cmdChanHigh' = Tail(cmdChanHigh)
      BY <1>0, <2>1, <2>2, <2>4, <3>1, OnceTail DEF Queued, Once
    <3>2. CASE queue = cmdChan /\ cmdChanHigh' = cmdChanHigh
      BY <1>0, <2>1, <2>2, <2>4, <3>2 DEF Queued, Once
    <3>3. QED
      BY <2>1, <3>1, <3>2
  <2>7. /\ \A i \in DOMAIN cmdChan' : cmdChan'[i][1] \in Normal
        /\ \A i \in DOMAIN cmdChanHigh' : cmdChanHigh'[i][1] \notin Normal
    BY <1>0, <2>1, OnceTail DEF Queued
  <2>8. Unanswered(current)' /\ current' \notin own'
    BY <2>1, <2>2, <2>3 DEF Unanswered
  <2>9. /\ \A cmd \in own' : cmd[2] <= number'[cmd[1]]
        /\ \A c \in Client : at'[c] = "ready" => answer'[c] = None
    BY <1>0, <2>1 DEF Queued
  <2>10. QED
    BY <2>2, <2>5, <2>6, <2>7, <2>8, <2>9 DEF Queued
<1>9. ASSUME WriteCommand PROVE Queued'
  <2>1. /\ runLoop = "write" /\ runLoop' = "respond" /\ own' \subseteq own \cup {current}
        /\ UNCHANGED <<cmdChan, cmdChanHigh, at, number, answer, current>>
    BY <1>9 DEF WriteCommand
  <2>2. /\ Unanswered(current) /\ number[current[1]] = current[2]
        /\ number[current[1]] \in {0, 1, 2}
    BY <1>0, <2>1, QueuedIs DEF TypeOK, Unanswered
  <2>3. Once(cmdChan)' /\ Once(cmdChanHigh)'
    BY <1>0, <2>1 DEF Queued, Once, Unanswered
  <2>4. \A cmd \in own' : cmd[2] <= number'[cmd[1]]
    BY <1>0, <2>1, <2>2 DEF Queued
  <2>5. Unanswered(current)'
    BY <2>1, <2>2 DEF Unanswered
  <2>6. QED
    BY <1>0, <2>1, <2>3, <2>4, <2>5 DEF Queued
<1>10. ASSUME WriteFails \/ Timeout PROVE Queued'
  <2>1. Reply(<<"error">>) /\ <<"error">> # None /\ runLoop \in {"write", "respond"}
        /\ UNCHANGED <<cmdChan, cmdChanHigh, own>>
    BY <1>10 DEF WriteFails, Timeout, None
  <2>2. QED
    BY <2>1, QueuedAtReply
<1>11. ASSUME Line PROVE Queued'
  <2>1. runLoop = "respond" /\ UNCHANGED <<cmdChan, cmdChanHigh, own>>
    BY <1>11 DEF Line
  <2>2. \/ Reply(<<"error">>) \/ Reply(<<"prompt">>) \/ Reply(<<"ok", fullResponse>>)
        \/ UNCHANGED <<at, number, answer, runLoop, current>>
    BY <1>11 DEF Line
  <2>3. <<"error">> # None /\ <<"prompt">> # None /\ <<"ok", fullResponse>> # None
    BY DEF None
  <2>4. QED
    BY <1>1, <2>1, <2>2, <2>3, QueuedAtReply
<1>12. CASE UNCHANGED atVars
  BY <1>1, <1>12 DEF atVars
<1>13. QED
  BY <1>2, <1>3, <1>4, <1>5, <1>6, <1>7, <1>8, <1>9, <1>10, <1>11, <1>12 DEF ATNext

----------------------------------------------------------------------------
(* What a command that began alone has to expect.                          *)

LEMMA OneLine ==
  ASSUME NEW line \in Lines
  PROVE  /\ <<line>> \in Seq(Lines) /\ DOMAIN <<line>> = {1} /\ <<line>>[1] = line
OBVIOUS

LEMMA NoLines ==
  /\ <<>> \in Seq(Lines) /\ ~ HasData(<<>>) /\ NoPrompt(<<>>)
BY EmptySeq DEF HasData, NoPrompt

\* A line that is no answer and no data comes to the others.
LEMMA HarmlessGrows ==
  ASSUME NEW cmd, NEW come \in Seq(Lines), NEW full, NEW waits,
         NEW line \in Lines, line[2] \in {"async", "echo", "fatal", "eof"}
  PROVE  /\ Promised(cmd, come, full, waits) => Promised(cmd, come \o <<line>>, full, waits)
         /\ ~ HasData(come) => ~ HasData(come \o <<line>>)
         /\ NoPrompt(come) => NoPrompt(come \o <<line>>)
<1> DEFINE more == <<line>>
<1>1. more \in Seq(Lines) /\ DOMAIN more = {1} /\ more[1] = line
  BY OneLine
<1> HIDE DEF more
<1>2. ~ HasData(more) /\ NoPrompt(more) /\ OneDatum(more)
  BY <1>1 DEF HasData, NoPrompt, OneDatum
<1>3. Promised(cmd, come, full, waits) => Promised(cmd, come \o more, full, waits)
  BY <1>1, <1>2, PromiseGrows
<1>4. QED
  BY <1>1, <1>2, <1>3, NothingGrows DEF more

\* A command that goes to the module with nothing of another under way has everything to
\* expect.
LEMMA AloneWhenWritten ==
  ASSUME ATInv, WriteCommand
  PROVE  Alone'
<1>0. TypeOK /\ Queued /\ runLoop = "write"
  BY DEF ATInv, WriteCommand
<1>1. /\ UNCHANGED <<rxChan, serial, prompting, current, fullResponse, waitPrompt>>
      /\ fullResponse = <<>> /\ waitPrompt = IsPart(current)
      /\ owed' \in {owed, Append(owed, <<current, "command">>)}
  BY <1>0 DEF Queued, WriteCommand, queueVars, readerVars
<1>2. Coming \in Seq(Lines) /\ Coming' = Coming
  BY <1>0, <1>1, ConcatProperties DEF TypeOK, Coming
<1>3. SUFFICES ASSUME current \in own'
               PROVE  Promised(current, Coming, <<>>, waitPrompt) /\ StillOwed'
  BY <1>1, <1>2 DEF Alone
<1>4. current \notin own
  BY <1>0 DEF Queued
<1>5. /\ owed = <<>> /\ prompting = NoCommand
      /\ \A i \in DOMAIN serial : ~ Foreign(serial[i])
      /\ \A i \in DOMAIN rxChan : ~ Foreign(rxChan[i])
  BY <1>3, <1>4 DEF WriteCommand
<1>6. \A i \in DOMAIN Coming : Coming[i][2] \in {"async", "echo"}
  <2>1. \A i \in DOMAIN Coming :
          \/ i \in DOMAIN rxChan /\ Coming[i] = rxChan[i]
          \/ i - Len(rxChan) \in DOMAIN serial /\ Coming[i] = serial[i - Len(rxChan)]
    BY <1>0, ConcatProperties, LenProperties DEF TypeOK, Coming
  <2>2. QED
    BY <1>5, <2>1 DEF Foreign
<1>7. ~ HasData(Coming) /\ NoPrompt(Coming) /\ OneDatum(Coming)
  BY <1>6 DEF HasData, NoPrompt, OneDatum
<1>8. Promised(current, Coming, <<>>, waitPrompt)
  <2>1. DOMAIN <<>> = {} /\ ~ HasData(<<>>) /\ OneDatum(<<>>)
    BY NoLines DEF OneDatum
  <2>2. QED
    BY <1>6, <1>7, <2>1 DEF Promised
<1>9. owed' = <<>> \/ owed' = <<<<current, "command">>>>
  BY <1>1, <1>5
<1>10. NoDataYet'
  BY <1>1, <1>2, <1>7, NoLines DEF NoDataYet
<1>11. StillOwed'
  BY <1>1, <1>2, <1>5, <1>7, <1>9, <1>10 DEF StillOwed
<1>12. QED
  BY <1>8, <1>11

\* The run loop takes a line that is not the last of the answer.
LEMMA AloneAtLine ==
  ASSUME ATInv, Line
  PROVE  Alone'
<1> DEFINE line == Head(rxChan)
<1>0. TypeOK /\ Alone /\ runLoop = "respond" /\ rxChan # <<>> /\ current \in Command
  BY DEF ATInv, TypeOK, Line
<1>1. SUFFICES ASSUME runLoop' = "respond", current' \in own' PROVE Alone'
  BY DEF Alone
<1>2. \/ /\ line[2] = "prompt" /\ waitPrompt' = FALSE
         /\ fullResponse' = Append(fullResponse, line)
         /\ IF prompting = current
            THEN owed' = Append(owed, <<current, "pdu">>) /\ prompting' = NoCommand
            ELSE UNCHANGED <<owed, prompting>>
         /\ current' = current
      \/ /\ line[2] \in {"async", "echo", "data"}
         /\ fullResponse' = IF line[2] = "async" THEN fullResponse
                            ELSE Append(fullResponse, line)
         /\ UNCHANGED <<current, waitPrompt, owed, prompting>>
  BY <1>1 DEF Line, Reply
<1>3. own' = own /\ serial' = serial /\ rxChan' = Tail(rxChan) /\ current' = current
  BY <1>2 DEF Line
<1>4. /\ Coming \in Seq(Lines) /\ Coming # <<>> /\ Head(Coming) = line
      /\ Coming' = Tail(Coming)
  BY <1>0, <1>3, PipelineTaken, ConcatProperties DEF TypeOK, Coming
<1>5. Promised(current, Coming, fullResponse, waitPrompt) /\ StillOwed
  BY <1>0, <1>1, <1>3 DEF Alone
<1>6. fullResponse \in Seq(Lines) /\ waitPrompt \in BOOLEAN /\ current # NoCommand
  BY <1>0, ATAssumption DEF TypeOK, Command, NoCommand
<1> HIDE DEF line
<1>7. Promised(current, Coming', fullResponse', waitPrompt')
  <2>1. CASE line[2] = "prompt"
    BY <1>2, <1>4, <1>5, <1>6, <2>1, PromiseTaken
  <2>2. CASE line[2] # "prompt"
    BY <1>2, <1>4, <1>5, <1>6, <2>2, PromiseTaken
  <2>3. QED
    BY <2>1, <2>2
<1>8. /\ NoPrompt(Coming) => NoPrompt(Coming') /\ line[2] # "prompt"
      /\ NoDataYet => NoDataYet' /\ line[2] # "data"
  <2>1. /\ NoPrompt(Coming) => NoPrompt(Coming') /\ line[2] # "prompt"
        /\ ~ HasData(Coming) => ~ HasData(Coming') /\ line[2] # "data"
        /\ ~ HasData(fullResponse) /\ line[2] # "data" => ~ HasData(Append(fullResponse, line))
    BY <1>4, <1>6, NothingTaken
  <2>2. fullResponse' \in {fullResponse, Append(fullResponse, line)}
    BY <1>2
  <2>3. QED
    BY <2>1, <2>2 DEF NoDataYet
<1>9. StillOwed'
  <2>1. CASE line[2] = "prompt" /\ prompting = current
    <3>1. owed = <<>> /\ NoDataYet
      BY <1>5, <1>6, <2>1 DEF StillOwed
    <3>2. owed' = <<<<current, "pdu">>>> /\ prompting' = NoCommand
      BY <1>2, <2>1, <3>1
    <3>3. NoPrompt(Coming')
      BY <1>4, <1>5, <1>6, <2>1, PromiseTaken
    <3>4. QED
      BY <1>3, <1>8, <3>1, <3>2, <3>3 DEF StillOwed
  <2>2. CASE line[2] = "prompt" /\ prompting # current
    <3>1. UNCHANGED <<owed, prompting>>
      BY <1>2, <2>2
    <3>2. owed = <<>> /\ prompting = NoCommand
      BY <1>5, <1>8, <2>2 DEF StillOwed
    <3>3. QED
      BY <3>1, <3>2 DEF StillOwed
  <2>3. CASE line[2] # "prompt"
    <3>1. UNCHANGED <<owed, prompting, waitPrompt>>
      BY <1>2, <2>3
    <3>2. QED
      BY <1>3, <1>5, <1>8, <3>1 DEF StillOwed
  <2>4. QED
    BY <2>1, <2>2, <2>3
<1>10. QED
  BY <1>3, <1>7, <1>9 DEF Alone

\* The module answers the command, or its PDU.
LEMMA AloneAtAnswer ==
  ASSUME ATInv, ModuleAnswers
  PROVE  Alone'
<1>0. TypeOK /\ Alone /\ owed # <<>> /\ prompting = NoCommand /\ owed' = Tail(owed)
      /\ UNCHANGED <<runLoop, current, fullResponse, waitPrompt, rxChan, own>>
  BY DEF ATInv, ModuleAnswers, handlerVars, readerVars
<1>1. SUFFICES ASSUME runLoop = "respond", current \in own PROVE Alone'
  BY <1>0 DEF Alone
<1>2. /\ Promised(current, Coming, fullResponse, waitPrompt) /\ StillOwed
      /\ current \in Command /\ current # NoCommand
  BY <1>0, <1>1, ATAssumption DEF Alone, TypeOK, Command, NoCommand
<1>3. PICK stage \in {"command", "pdu"} :
        /\ owed = <<<<current, stage>>>> /\ NoDataYet /\ NoPrompt(Coming)
        /\ stage = "command" => waitPrompt = IsPart(current)
  BY <1>0, <1>2 DEF StillOwed
<1>4. Head(owed)[1] = current /\ Head(owed)[2] = stage /\ owed' = <<>>
  BY <1>0, <1>3
<1>5. PICK kinds \in Answers(current, stage) :
        LET says == [i \in DOMAIN kinds |-> <<current, kinds[i]>>]
        IN  /\ kinds \in {<<"OK">>, <<"prompt">>, <<"ERROR">>, <<"data", "OK">>}
            /\ serial' = serial \o says /\ says \in Seq(Lines)
            /\ DOMAIN says = DOMAIN kinds
            /\ prompting' = IF kinds = <<"prompt">> THEN current ELSE NoCommand
  BY <1>4, ModuleKeepsTypes
<1> DEFINE says == [i \in DOMAIN kinds |-> <<current, kinds[i]>>]
<1>6. /\ kinds \in {<<"prompt">>, <<"ERROR">>, <<"data", "OK">>}
      /\ kinds = <<"prompt">> => stage = "command" /\ IsPart(current)
  BY <1>3 DEF Answers
<1>7. \A i \in DOMAIN kinds : says[i][1] = current /\ says[i][2] = kinds[i]
  OBVIOUS
<1>8. says \in Seq(Lines) /\ DOMAIN says = DOMAIN kinds /\ serial' = serial \o says
  BY <1>5
<1> HIDE DEF says
<1>9. Coming \in Seq(Lines) /\ Coming' = Coming \o says
  <2>1. rxChan \in Seq(Lines) /\ serial \in Seq(Lines) /\ rxChan' = rxChan
    BY <1>0 DEF TypeOK
  <2>2. (rxChan \o serial) \o says = rxChan \o (serial \o says)
    BY <1>8, <2>1, ConcatAssociative, SMTT(30)
  <2>3. QED
    BY <1>8, <2>1, <2>2, ConcatProperties DEF Coming
<1>10. /\ \A i \in DOMAIN says :
            /\ says[i][2] \in {"OK", "ERROR", "prompt", "data"} => says[i][1] = current
            /\ says[i][2] = "OK" => \E j \in 1..i - 1 : says[j][2] = "data"
            /\ says[i][2] = "prompt" => waitPrompt /\ NoPrompt(Coming)
       /\ \A i, j \in DOMAIN says : says[i][2] = "prompt" /\ says[j][2] = "prompt" => i = j
       /\ OneDatum(says)
       /\ kinds = <<"prompt">> => ~ HasData(says)
  <2>1. CASE kinds = <<"prompt">>
    <3>1. DOMAIN says = {1} /\ says[1][2] = "prompt" /\ says[1][1] = current /\ waitPrompt
      BY <1>3, <1>6, <1>7, <1>8, <2>1
    <3>2. QED
      BY <1>3, <3>1 DEF OneDatum, HasData
  <2>2. CASE kinds = <<"ERROR">>
    <3>1. DOMAIN says = {1} /\ says[1][2] = "ERROR" /\ says[1][1] = current
      BY <1>7, <1>8, <2>2
    <3>2. QED
      BY <2>2, <3>1 DEF OneDatum, HasData
  <2>3. CASE kinds = <<"data", "OK">>
    <3>1. /\ DOMAIN says = {1, 2} /\ says[1][2] = "data" /\ says[2][2] = "OK"
          /\ says[1][1] = current /\ says[2][1] = current
      BY <1>7, <1>8, <2>3
    <3>2. QED
      BY <2>3, <3>1 DEF OneDatum, HasData
  <2>4. QED
    BY <1>6, <2>1, <2>2, <2>3
<1>11. Promised(current, Coming', fullResponse, waitPrompt)
  BY <1>2, <1>3, <1>8, <1>9, <1>10, PromiseGrows DEF NoDataYet
<1>12. StillOwed'
  <2>1. CASE kinds = <<"prompt">>
    <3>1. ~ HasData(Coming')
      BY <1>3, <1>8, <1>9, <1>10, <2>1, NothingGrows DEF NoDataYet
    <3>2. prompting' = current
      BY <1>5, <2>1
    <3>3. QED
      BY <1>0, <1>3, <1>4, <3>1, <3>2 DEF StillOwed, NoDataYet
  <2>2. CASE kinds # <<"prompt">>
    BY <1>4, <1>5, <2>2 DEF StillOwed
  <2>3. QED
    BY <2>1, <2>2
<1>13. QED
  BY <1>0, <1>11, <1>12 DEF Alone

LEMMA AloneKept ==
  ASSUME ATInv, [ATNext]_atVars
  PROVE  Alone'
<1>0. TypeOK /\ Alone /\ Gone
  BY DEF ATInv
<1> USE DEF managerVars, callerVars, queueVars, handlerVars, moduleVars, readerVars
<1>1. ASSUME runLoop' # "respond" PROVE Alone'
  BY <1>1 DEF Alone
<1>2. ASSUME UNCHANGED <<runLoop, current, fullResponse, waitPrompt, rxChan, serial, owed,
                         prompting>>,
             own' \subseteq own
      PROVE  Alone'
  BY <1>0, <1>2 DEF Alone, StillOwed, NoDataYet, Coming
<1>3. ASSUME NEW opened \in BOOLEAN, Start(opened) PROVE Alone'
  <2>1. runLoop' # "respond"
    BY <1>3 DEF ATInv, Watched, Start
  <2>2. QED
    BY <1>1, <2>1
<1>4. ASSUME NEW c \in Client, Enqueue(c) \/ Refuse(c) \/ Return(c) \/ Abandon(c) PROVE Alone'
  BY <1>2, <1>4 DEF Enqueue, Refuse, Return, Abandon
<1>5. ASSUME BeginStop \/ EndStop \/ ReaderStops PROVE Alone'
  BY <1>2, <1>5 DEF BeginStop, EndStop, ReaderStops
<1>6. ASSUME TakeHigh \/ ToSelect \/ TakeNormal \/ TakeLine \/ Exit PROVE Alone'
  BY <1>1, <1>6 DEF TakeHigh, ToSelect, TakeNormal, Take, TakeLine, Exit
<1>7. ASSUME WriteCommand PROVE Alone'
  BY <1>7, AloneWhenWritten
<1>8. ASSUME WriteFails \/ Timeout PROVE Alone'
  BY <1>1, <1>8 DEF WriteFails, Timeout, Reply
<1>9. ASSUME Line PROVE Alone'
  BY <1>9, AloneAtLine
<1>10. ASSUME ReadLine PROVE Alone'
  <2>1. Coming' = Coming
    BY <1>0, <1>10, PipelineMoves DEF TypeOK, ReadLine, Coming
  <2>2. UNCHANGED <<runLoop, current, fullResponse, waitPrompt, owed, prompting, own>>
    BY <1>10 DEF ReadLine
  <2>3. QED
    BY <1>0, <2>1, <2>2 DEF Alone, StillOwed, NoDataYet
<1>11. ASSUME NEW kind \in {"fatal", "eof"}, ReadFails(kind) PROVE Alone'
  <2> DEFINE line == <<NoCommand, kind>>
  <2>1. serial = <<>> /\ owed = <<>> /\ prompting = NoCommand
    BY <1>0, <1>11 DEF Gone, ReadFails
  <2>2. line \in Lines /\ line[2] = kind
    BY DEF Lines, Kind
  <2>3. /\ UNCHANGED <<runLoop, current, fullResponse, waitPrompt, serial, owed, prompting,
                       own>>
        /\ rxChan \in Seq(Lines) /\ rxChan' = Append(rxChan, line)
    BY <1>0, <1>11 DEF TypeOK, ReadFails
  <2> HIDE DEF line
  <2>4. Coming = rxChan /\ Coming' = rxChan \o <<line>>
    <3>1. Append(rxChan, line) \in Seq(Lines) /\ Append(rxChan, line) = rxChan \o <<line>>
      BY <2>2, <2>3, AppendProperties, AppendIsConcat
    <3>2. QED
      BY <2>1, <2>3, <3>1, ConcatEmptySeq DEF Coming
  <2>5. StillOwed'
    BY <2>1, <2>3 DEF StillOwed
  <2>6. Promised(current, rxChan, fullResponse, waitPrompt) =>
          Promised(current, rxChan \o <<line>>, fullResponse, waitPrompt)
    BY <2>2, <2>3, HarmlessGrows
  <2>7. QED
    BY <1>0, <2>3, <2>4, <2>5, <2>6 DEF Alone
<1>12. ASSUME ModuleAnswers PROVE Alone'
  BY <1>12, AloneAtAnswer
<1>13. ASSUME NEW kind \in {"async", "echo", "prompt", "ERROR"}, ModuleSpeaks(kind) PROVE Alone'
  <2> DEFINE line == <<Unsolicited, kind>>
  <2>1. /\ UNCHANGED <<runLoop, current, fullResponse, waitPrompt, rxChan, owed, prompting>>
        /\ rxChan \in Seq(Lines) /\ serial \in Seq(Lines) /\ serial' = Append(serial, line)
        /\ own' \subseteq own
    BY <1>0, <1>13 DEF TypeOK, ModuleSpeaks, Unsolicited
  <2>2. line \in Lines /\ line[2] = kind
    BY DEF Lines, Kind
  <2> HIDE DEF line
  <2>3. Coming \in Seq(Lines) /\ Coming' = Coming \o <<line>>
    <3>1. serial' = serial \o <<line>>
      BY <2>1, <2>2, AppendIsConcat
    <3>2. (rxChan \o serial) \o <<line>> = rxChan \o (serial \o <<line>>)
      BY <2>1, <2>2, OneLine, ConcatAssociative, SMTT(30)
    <3>3. QED
      BY <2>1, <3>1, <3>2, ConcatProperties DEF Coming
  <2>4. CASE kind \in {"async", "echo"}
    <3>1. /\ Promised(current, Coming, fullResponse, waitPrompt) =>
               Promised(current, Coming', fullResponse, waitPrompt)
          /\ ~ HasData(Coming) => ~ HasData(Coming')
          /\ NoPrompt(Coming) => NoPrompt(Coming')
      BY <2>2, <2>3, <2>4, HarmlessGrows
    <3>2. StillOwed => StillOwed'
      BY <2>1, <3>1 DEF StillOwed, NoDataYet
    <3>3. QED
      BY <1>0, <2>1, <3>1, <3>2 DEF Alone
  <2>5. CASE kind \notin {"async", "echo"}
    <3>1. current' \notin own'
      BY <1>13, <2>1, <2>5 DEF ModuleSpeaks
    <3>2. QED
      BY <3>1 DEF Alone
  <2>6. QED
    BY <2>4, <2>5
<1>14. ASSUME ModuleGone PROVE Alone'
  <2>1. /\ UNCHANGED <<runLoop, current, fullResponse, waitPrompt, rxChan, own>>
        /\ rxChan \in Seq(Lines) /\ serial \in Seq(Lines)
        /\ serial' = <<>> /\ owed' = <<>> /\ prompting' = NoCommand
    BY <1>0, <1>14 DEF TypeOK, ModuleGone
  <2>2. Coming' = rxChan
    BY <2>1, ConcatEmptySeq DEF Coming
  <2>3. Promised(current, Coming, fullResponse, waitPrompt) =>
          Promised(current, rxChan, fullResponse, waitPrompt)
    BY <2>1, PromiseCut DEF Coming
  <2>4. StillOwed'
    BY <2>1 DEF StillOwed
  <2>5. QED
    BY <1>0, <2>1, <2>2, <2>3, <2>4 DEF Alone
<1>15. CASE UNCHANGED atVars
  BY <1>2, <1>15 DEF atVars
<1>16. QED
  BY <1>3, <1>4, <1>5, <1>6, <1>7, <1>8, <1>9, <1>10, <1>11, <1>12, <1>13, <1>14,
     <1>15 DEF ATNext

----------------------------------------------------------------------------
(* The answers.                                                            *)

\* A reply other than the OK of a command that began alone, or the prompt, changes
\* nothing of the promise.
LEMMA ReplyKeeps ==
  ASSUME ATInv, runLoop \in {"write", "respond"},
         NEW what, Reply(what), own' = own,
         current \in own => /\ what[1] # "prompt"
                            /\ what[1] = "ok" => OwnLines(what[2], current)
  PROVE  OwnAnswer'
<1>1. current \in Command /\ current[1] \in Client /\ current = <<current[1], current[2]>>
      /\ current[2] = number[current[1]]
  BY QueuedIs DEF Unanswered
<1>2. /\ number' = number
      /\ \A c \in Client : answer'[c] = IF c = current[1] THEN what ELSE answer[c]
  BY DEF ATInv, TypeOK, Reply
<1>3. ASSUME NEW c \in Client, Answered(c)'
      PROVE  /\ answer'[c][1] # "prompt"
             /\ answer'[c][1] = "ok" => OwnLines(answer'[c][2], <<c, number[c]>>)
  <2>1. CASE c = current[1]
    <3>1. <<c, number[c]>> = current /\ answer'[c] = what
      BY <1>1, <1>2, <2>1
    <3>2. current \in own
      BY <1>2, <1>3, <3>1 DEF Answered
    <3>3. QED
      BY <3>1, <3>2
  <2>2. CASE c # current[1]
    <3>1. Answered(c) /\ answer'[c] = answer[c]
      BY <1>2, <1>3, <2>2 DEF Answered
    <3>2. QED
      BY <3>1 DEF ATInv, OwnAnswer
  <2>3. QED
    BY <2>1, <2>2
<1>4. QED
  BY <1>2, <1>3 DEF OwnAnswer

LEMMA OwnAnswerKept ==
  ASSUME ATInv, [ATNext]_atVars
  PROVE  OwnAnswer'
<1>0. TypeOK /\ OwnAnswer
  BY DEF ATInv
<1> USE DEF managerVars, callerVars, queueVars, handlerVars, moduleVars, readerVars
<1>1. ASSUME UNCHANGED <<number, answer>>, own' \subseteq own PROVE OwnAnswer'
  BY <1>0, <1>1 DEF OwnAnswer, Answered
<1>2. ASSUME NEW opened \in BOOLEAN, Start(opened) PROVE OwnAnswer'
  BY <1>1, <1>2 DEF Start
<1>3. ASSUME BeginStop \/ EndStop \/ ToSelect \/ TakeLine \/ Exit \/ TakeHigh \/ TakeNormal
      PROVE  OwnAnswer'
  BY <1>1, <1>3 DEF BeginStop, EndStop, ToSelect, TakeLine, Exit, TakeHigh, TakeNormal, Take
<1>4. ASSUME \/ ReadLine \/ ReaderStops \/ ModuleAnswers \/ ModuleGone
             \/ \E kind \in {"fatal", "eof"} : ReadFails(kind)
             \/ \E kind \in {"async", "echo", "prompt", "ERROR"} : ModuleSpeaks(kind)
      PROVE  OwnAnswer'
  BY <1>1, <1>4 DEF ReadLine, ReaderStops, ModuleAnswers, ModuleGone, ReadFails, ModuleSpeaks
<1>5. ASSUME NEW c \in Client, Refuse(c) \/ Abandon(c) PROVE OwnAnswer'
  BY <1>1, <1>5 DEF Refuse, Abandon
<1>6. ASSUME NEW c \in Client, Enqueue(c) PROVE OwnAnswer'
  <2>1. /\ answer' = answer /\ own' = own /\ answer[c] = None
        /\ \A d \in Client : d # c => number'[d] = number[d]
    BY <1>0, <1>6 DEF ATInv, TypeOK, Queued, Enqueue
  <2>2. QED
    BY <1>0, <2>1 DEF OwnAnswer, Answered
<1>7. ASSUME NEW c \in Client, Return(c) PROVE OwnAnswer'
  <2>1. /\ number' = number /\ own' \subseteq own
        /\ \A d \in Client : answer'[d] = IF d = c THEN None ELSE answer[d]
    BY <1>0, <1>7 DEF TypeOK, Return
  <2>2. QED
    BY <1>0, <2>1 DEF OwnAnswer, Answered
<1>8. ASSUME WriteCommand PROVE OwnAnswer'
  <2>1. number' = number /\ answer' = answer /\ own' \subseteq own \cup {current}
    BY <1>8 DEF WriteCommand
  <2>2. answer[current[1]] = None /\ current[1] \in Client
    BY <1>8, QueuedIs DEF WriteCommand, Unanswered
  <2>3. ASSUME NEW c \in Client, Answered(c)' PROVE Answered(c)
    <3>1. <<c, number[c]>> \in own \cup {current} /\ answer[c] # None
      BY <2>1, <2>3 DEF Answered
    <3>2. <<c, number[c]>> # current
      BY <2>2, <3>1
    <3>3. QED
      BY <3>1, <3>2 DEF Answered
  <2>4. QED
    BY <1>0, <2>1, <2>3 DEF OwnAnswer
<1>9. ASSUME WriteFails \/ Timeout PROVE OwnAnswer'
  <2>1. Reply(<<"error">>) /\ runLoop \in {"write", "respond"} /\ own' = own
    BY <1>9 DEF WriteFails, Timeout
  <2>2. <<"error">>[1] = "error"
    OBVIOUS
  <2>3. QED
    BY <2>1, <2>2, ReplyKeeps
<1>10. ASSUME Line PROVE OwnAnswer'
  <2> DEFINE line == Head(rxChan)
  <2>1. runLoop = "respond" /\ own' = own /\ rxChan # <<>>
    BY <1>10 DEF Line
  <2>2. \/ Reply(<<"error">>)
        \/ line[2] = "OK" /\ Reply(<<"ok", fullResponse>>)
        \/ line[2] = "prompt" /\ ~ waitPrompt /\ Reply(<<"prompt">>)
        \/ UNCHANGED <<answer, number>>
    BY <1>10 DEF Line, AtPrompt
  <2>3. ASSUME current \in own
        PROVE  /\ line[2] = "OK" => OwnLines(fullResponse, current)
               /\ line[2] = "prompt" => waitPrompt
    <3>1. Promised(current, Coming, fullResponse, waitPrompt)
      BY <2>1, <2>3 DEF ATInv, Alone
    <3>2. Coming \in Seq(Lines) /\ Coming # <<>> /\ Head(Coming) = line
      BY <1>0, <2>1, PipelineTaken, ConcatProperties DEF TypeOK, Coming
    <3>3. fullResponse \in Seq(Lines) /\ waitPrompt \in BOOLEAN
      BY <1>0 DEF TypeOK
    <3>4. QED
      BY <3>1, <3>2, <3>3, PromiseTaken
  <2> HIDE DEF line
  <2>4. CASE Reply(<<"error">>)
    BY <2>1, <2>4, ReplyKeeps
  <2>5. CASE line[2] = "OK" /\ Reply(<<"ok", fullResponse>>)
    BY <2>1, <2>3, <2>5, ReplyKeeps
  <2>6. CASE line[2] = "prompt" /\ ~ waitPrompt /\ Reply(<<"prompt">>)
    BY <2>1, <2>3, <2>6, ReplyKeeps
  <2>7. CASE UNCHANGED <<answer, number>>
    BY <1>1, <2>1, <2>7
  <2>8. QED
    BY <2>2, <2>4, <2>5, <2>6, <2>7
<1>11. CASE UNCHANGED atVars
  BY <1>1, <1>11 DEF atVars
<1>12. QED
  BY <1>2, <1>3, <1>4, <1>5, <1>6, <1>7, <1>8, <1>9, <1>10, <1>11 DEF ATNext

----------------------------------------------------------------------------
(* The theorems.                                                           *)

LEMMA InitAT ==
  ASSUME ATInit
  PROVE  ATInv
<1>1. TypeOK
  BY EmptySeq DEF ATInit, TypeOK, Outcome
<1>2. Watched /\ NotYetOvertaken /\ Gone /\ Alone
  BY ATAssumption DEF ATInit, Watched, NotYetOvertaken, Gone, Alone
<1>3. Queued /\ OwnAnswer
  <2>1. DOMAIN <<>> = {}
    OBVIOUS
  <2>2. QED
    BY <2>1 DEF ATInit, Queued, Once, OwnAnswer, Answered
<1>4. QED
  BY <1>1, <1>2, <1>3 DEF ATInv

LEMMA InvariantKept ==
  ATSpec => []ATInv
<1>1. ATInit => ATInv
  BY InitAT
<1>2. ATInv /\ [ATNext]_atVars => ATInv'
  BY TypesKept, WatchedKept, NotYetOvertakenKept, QueuedKept, GoneKept, AloneKept,
     OwnAnswerKept DEF ATInv
<1>3. QED
  BY <1>1, <1>2, PTL DEF ATSpec

\* The variables keep their types: the run loop has a command exactly while it serves one.
THEOREM TypeCorrect ==
  ATSpec => []TypeOK
<1>1. ATInv => TypeOK
  BY DEF ATInv
<1>2. QED
  BY <1>1, InvariantKept, PTL

\* A command that began with nothing of another under way gets its own lines, all of them,
\* whatever else the module says, is late with or loses, and a queued high-priority command
\* is overtaken by one normal command at most (executeAT, handleCommand, SendSMS, runLoop).
THEOREM CommandsAreServed ==
  ATSpec => []CommandsServed
<1>1. ATInv => CommandsServed
  BY DEF ATInv, NotYetOvertaken, OvertakenOnce, CommandsServed
<1>2. QED
  BY <1>1, InvariantKept, PTL

\* The manager stops before more normal commands have timed out at a module that cannot be
\* read than the watchdog counts (recordATTimeout).
THEOREM SilenceIsNoticed ==
  ATSpec => []SilenceNoticed
<1>1. ATInv => SilenceNoticed
  BY ATAssumption DEF ATInv, TypeOK, Watched, SilenceNoticed
<1>2. QED
  BY <1>1, InvariantKept, PTL

(***************************************************************************)
(* SMSStorage and Reassembler.                                             *)
(***************************************************************************)
ReaderSteps == {"none", "query", "set", "read", "delete", "restore", "done"}

\* The variables keep their types: what lies somewhere is a part that arrived.
StorageOK ==
  /\ slots \in [Storage -> [1..Slots -> Arriving \cup {NoPart}]]
  /\ unread \subseteq Storage \X (1..Slots)
  /\ \A slot \in unread : slots[slot[1]][slot[2]] # NoPart
  /\ selected \in Storage
  /\ reader \in [Arriving -> ReaderSteps]
  /\ where \in [Arriving -> Storage \X (1..Slots)]
  /\ previous \in [Arriving -> Storage \cup {"none"}]
  /\ \A p \in Arriving : reader[p] = "restore" => previous[p] # "none"
  /\ took \in [Arriving -> Arriving \cup {NoPart}]
  /\ checking \in {"idle", "delete"}
  /\ \A i \in DOMAIN listed : listed[i] \in Arriving
  /\ overlap \in BOOLEAN

\* As long as no two were under way at once, one reader or the check is, and the reader
\* finds its message where it was announced.
AloneFits ==
  ~overlap =>
    /\ \A p, q \in Arriving : Active(p) /\ Active(q) => p = q
    /\ \A p \in Arriving : Active(p) => checking = "idle"
    /\ \A p \in Arriving :
         reader[p] \in {"query", "set", "read"} => slots[where[p][1]][where[p][2]] = p
    /\ \A p \in Arriving : reader[p] = "read" => selected = where[p][1]

\* The parts that wait under a key: of the texts of this key, each once, and not all of it.
Waiting(k, s) ==
  /\ s \in Seq(Arriving)
  /\ \A i \in DOMAIN s : Key(s[i]) = k /\ Total(s[i]) > 1 /\ Len(s) < Total(s[i])
  /\ \A i, j \in DOMAIN s : Number(s[i]) = Number(s[j]) => i = j

CacheFits == DOMAIN cache = Keys /\ \A k \in Keys : Waiting(k, cache[k])

StorageInv == StorageOK /\ AloneFits /\ CacheFits /\ QuietReadsOwn /\ LongSMSWhole

LEMMA ArrivingIs ==
  ASSUME NEW p \in Arriving
  PROVE  \E t \in Texts : \E i \in 1..t.total : p = <<t.text, i, t.total, t.key>>
<1>1. PICK t \in Texts : p \in {PartsOf(t.text, t.total, t.key)[i] : i \in 1..t.total}
  BY DEF Arriving
<1>2. PICK i \in 1..t.total : p = PartsOf(t.text, t.total, t.key)[i]
  BY <1>1
<1>3. p = <<t.text, i, t.total, t.key>>
  BY <1>2 DEF PartsOf
<1>4. QED
  BY <1>2, <1>3

LEMMA PartsFit ==
  ASSUME NEW p \in Arriving
  PROVE  /\ p = <<Text(p), Number(p), Total(p), Key(p)>>
         /\ Total(p) \in Nat \ {0} /\ Number(p) \in 1..Total(p) /\ Key(p) \in Keys
<1>1. PICK t \in Texts : \E i \in 1..t.total : p = <<t.text, i, t.total, t.key>>
  BY ArrivingIs
<1>2. PICK i \in 1..t.total : p = <<t.text, i, t.total, t.key>>
  BY <1>1
<1>3. t.total \in Nat \ {0}
  BY StorageAssumption
<1>4. QED
  BY <1>2, <1>3 DEF Text, Number, Total, Key, Keys

LEMMA SameText ==
  ASSUME NEW p \in Arriving, NEW q \in Arriving, Total(p) > 1, Total(q) > 1, Key(p) = Key(q)
  PROVE  Text(p) = Text(q) /\ Total(p) = Total(q)
<1>1. PICK t \in Texts : \E i \in 1..t.total : p = <<t.text, i, t.total, t.key>>
  BY ArrivingIs
<1>2. PICK u \in Texts : \E i \in 1..u.total : q = <<u.text, i, u.total, u.key>>
  BY ArrivingIs
<1>3. /\ Text(p) = t.text /\ Total(p) = t.total /\ Key(p) = t.key
      /\ Text(q) = u.text /\ Total(q) = u.total /\ Key(q) = u.key
  BY <1>1, <1>2 DEF Text, Total, Key
<1>4. t = u
  BY <1>3, StorageAssumption
<1>5. QED
  BY <1>3, <1>4

\* The least number of a set, from the well-founded inclusion of finite sets.
LEMMA Least ==
  ASSUME NEW S \in SUBSET Nat, S # {}
  PROVE  \E x \in S : \A y \in S : x <= y
<1> DEFINE Below == {1..x : x \in S}
<1>1. Below \in SUBSET FiniteSubsetsOf(Nat) /\ Below # {}
  <2>1. \A x \in S : 1..x \in SUBSET Nat /\ IsFiniteSet(1..x)
    BY FS_Interval
  <2>2. QED
    BY <2>1 DEF FiniteSubsetsOf
<1>2. PICK B \in Below : \A C \in Below : <<C, B>> \notin StrictSubsetOrdering(Nat)
  BY <1>1, FS_StrictSubsetOrderingWellFounded, WFMin
<1>3. PICK x \in S : B = 1..x
  OBVIOUS
<1>4. ASSUME NEW y \in S, y < x PROVE FALSE
  <2>1. 1..y \in Below /\ 1..y \subseteq 1..x /\ x \in 1..x /\ x \notin 1..y
    BY <1>4
  <2>2. <<1..y, B>> \in StrictSubsetOrdering(Nat)
    BY <1>3, <2>1 DEF StrictSubsetOrdering
  <2>3. QED
    BY <1>2, <2>1, <2>2
<1>5. QED
  BY <1>4

\* What rises from place to place and meets every number is the numbers in order.
LEMMA RisingIsNumbering ==
  ASSUME NEW n \in Nat, NEW g \in [1..n -> 1..n],
         \A i, j \in 1..n : i < j => g[i] < g[j],
         \A w \in 1..n : \E i \in 1..n : g[i] = w
  PROVE  \A i \in 1..n : g[i] = i
<1> DEFINE S == {i \in 1..n : g[i] # i}
<1> SUFFICES ASSUME S # {} PROVE FALSE
  OBVIOUS
<1>1. PICK i \in S : \A j \in S : i <= j
  <2>1. S \in SUBSET Nat
    <3>1. \A x \in 1..n : x \in Nat
      OBVIOUS
    <3>2. QED
      BY <3>1
  <2> HIDE DEF S
  <2>2. QED
    BY <2>1, Least
<1>2. \A j \in 1..n : j < i => g[j] = j
  BY <1>1
<1>3. PICK k \in 1..n : g[k] = i
  BY <1>1
<1>4. g[i] > i
  <2>1. g[i] \in 1..n /\ g[i] # i
    BY <1>1
  <2>2. CASE g[i] < i
    BY <1>1, <1>2, <2>1, <2>2
  <2>3. QED
    BY <1>1, <2>1, <2>2
<1>5. k # i /\ ~(k < i)
  BY <1>1, <1>2, <1>3, <1>4
<1>6. g[i] < g[k]
  BY <1>1, <1>5
<1>7. QED
  BY <1>1, <1>3, <1>4, <1>6

\* All n parts of one text, no two with one number.
AllOnce(s, n, text, key) ==
  /\ s \in [1..n -> Arriving]
  /\ \A i \in 1..n : Text(s[i]) = text /\ Total(s[i]) = n /\ Key(s[i]) = key
  /\ \A i, j \in 1..n : Number(s[i]) = Number(s[j]) => i = j

\* A text of which all parts are there, each once, is put in order: as many places as
\* numbers and no number twice, so every number has a place.
LEMMA SortedIsWhole ==
  ASSUME NEW n \in Nat \ {0}, NEW s, NEW text, NEW key, AllOnce(s, n, text, key)
  PROVE  Sorted(s) = PartsOf(text, n, key)
<1> DEFINE numbers == [i \in 1..n |-> Number(s[i])]
           Orders(f) == \A i, j \in 1..n : i < j => Number(s[f[i]]) <= Number(s[f[j]])
           place == [w \in 1..n |-> CHOOSE i \in 1..n : Number(s[i]) = w]
           order == CHOOSE f \in Bijection(1..n, 1..n) : Orders(f)
<1>1. \A i \in 1..n : s[i] = <<text, Number(s[i]), n, key>> /\ Number(s[i]) \in 1..n
  BY PartsFit DEF AllOnce
<1>2. \A w \in 1..n : \E i \in 1..n : Number(s[i]) = w
  <2>1. numbers \in Injection(1..n, 1..n)
    BY <1>1 DEF Injection, IsInjective, AllOnce
  <2>2. IsFiniteSet(1..n)
    BY FS_Interval
  <2>3. numbers \in Surjection(1..n, 1..n)
    <3> HIDE DEF numbers
    <3>1. QED
      BY <2>1, <2>2, FS_Injection
  <2>4. QED
    BY <2>3 DEF Surjection
<1>3. \A w \in 1..n : place[w] \in 1..n /\ Number(s[place[w]]) = w
  BY <1>2
<1>4. place \in Bijection(1..n, 1..n) /\ Orders(place)
  <2>1. place \in [1..n -> 1..n]
    BY <1>3
  <2> HIDE DEF place
  <2>2. \A v, w \in 1..n : place[v] = place[w] => v = w
    BY <1>3
  <2>3. \A i \in 1..n : \E w \in 1..n : place[w] = i
    <3> SUFFICES ASSUME NEW i \in 1..n PROVE place[Number(s[i])] = i
      BY <1>1
    <3>1. QED
      BY <1>1, <1>3 DEF AllOnce
  <2>4. Orders(place)
    BY <1>3
  <2>5. QED
    BY <2>1, <2>2, <2>3, <2>4 DEF Bijection, Injection, IsInjective, Surjection
<1>5. order \in Bijection(1..n, 1..n) /\ Orders(order)
  <2> HIDE DEF place, Orders
  <2>1. QED
    BY <1>4
<1> DEFINE g == [i \in 1..n |-> Number(s[order[i]])]
<1> HIDE DEF order, place
<1>6. order \in [1..n -> 1..n]
  BY <1>5 DEF Bijection, Injection
<1>7. g \in [1..n -> 1..n]
  BY <1>1, <1>6
<1>8. \A i, j \in 1..n : i < j => g[i] < g[j]
  <2>1. \A i, j \in 1..n : order[i] = order[j] => i = j
    BY <1>5, <1>6 DEF Bijection, Injection, IsInjective
  <2>2. \A i, j \in 1..n : i < j => order[i] # order[j] /\ g[i] <= g[j]
    BY <1>5, <2>1
  <2>3. \A i, j \in 1..n : i < j => g[i] # g[j]
    BY <1>6, <2>2 DEF AllOnce
  <2>4. QED
    BY <1>7, <2>2, <2>3
<1>9. \A w \in 1..n : \E i \in 1..n : g[i] = w
  <2> SUFFICES ASSUME NEW w \in 1..n PROVE \E i \in 1..n : g[i] = w
    OBVIOUS
  <2>1. PICK k \in 1..n : Number(s[k]) = w
    BY <1>2
  <2>2. PICK i \in 1..n : order[i] = k
    BY <1>5 DEF Bijection, Surjection
  <2>3. QED
    BY <2>1, <2>2
<1>10. \A i \in 1..n : Number(s[order[i]]) = i
  <2>1. \A i \in 1..n : g[i] = i
    <3> HIDE DEF g
    <3>1. QED
      BY <1>7, <1>8, <1>9, RisingIsNumbering
  <2>2. QED
    BY <2>1
<1>11. Sorted(s) = [i \in 1..n |-> s[order[i]]]
  BY DEF Sorted, order, AllOnce
<1>12. \A i \in 1..n : s[order[i]] = <<text, i, n, key>>
  BY <1>1, <1>6, <1>10
<1>13. QED
  BY <1>11, <1>12 DEF PartsOf

\* A part is handed over: what it completes is whole, and what waits goes on waiting.
LEMMA HandOverFits ==
  ASSUME CacheFits, LongSMSWhole, NEW p \in Arriving, HandOver(p)
  PROVE  CacheFits' /\ LongSMSWhole'
<1> DEFINE k == Key(p)
           s == cache[k]
           n == Total(p)
<1>1. /\ p = <<Text(p), Number(p), n, k>> /\ n \in Nat \ {0} /\ Number(p) \in 1..n /\ k \in Keys
      /\ Waiting(k, s) /\ s \in Seq(Arriving) /\ Len(s) \in Nat
  <2>1. Waiting(k, s) /\ k \in Keys
    BY PartsFit DEF CacheFits
  <2>2. QED
    BY <2>1, PartsFit DEF Waiting
<1>2. \A i \in DOMAIN s : n > 1 =>
        /\ s[i] \in Arriving /\ Key(s[i]) = k /\ Total(s[i]) = n /\ Text(s[i]) = Text(p)
        /\ Len(s) < n
  <2> SUFFICES ASSUME NEW i \in DOMAIN s, n > 1
               PROVE  /\ s[i] \in Arriving /\ Key(s[i]) = k /\ Total(s[i]) = n
                      /\ Text(s[i]) = Text(p) /\ Len(s) < n
    OBVIOUS
  <2>1. s[i] \in Arriving
    BY <1>1, ElementOfSeq
  <2>2. Key(s[i]) = k /\ Total(s[i]) > 1 /\ Len(s) < Total(s[i])
    BY <1>1 DEF Waiting
  <2>3. Text(s[i]) = Text(p) /\ Total(s[i]) = n
    BY <2>1, <2>2, SameText
  <2>4. QED
    BY <2>1, <2>2, <2>3
<1>3. CASE n = 1
  <2>1. cache' = cache /\ handed' = handed \cup {<<p>>}
    BY <1>3 DEF HandOver, Added, Completes, Full
  <2>2. WholeText(<<p>>)
    <3>1. p = <<Text(p), 1, 1, k>>
      BY <1>1, <1>3
    <3>2. PartsOf(Text(p), 1, k) = <<p>>
      BY <3>1 DEF PartsOf
    <3>3. QED
      BY <1>3, <3>2 DEF WholeText
  <2>3. QED
    BY <2>1, <2>2 DEF CacheFits, LongSMSWhole
<1>4. CASE n > 1 /\ Known(s, p)
  <2>1. cache' = cache /\ handed' = handed
    BY <1>4 DEF HandOver, Added, Completes
  <2>2. QED
    BY <2>1 DEF CacheFits, LongSMSWhole
<1>5. CASE n > 1 /\ ~Known(s, p)
  <2> DEFINE r == Append(s, p)
  <2>1. /\ r \in Seq(Arriving) /\ Len(r) = Len(s) + 1 /\ DOMAIN r = 1..(Len(s) + 1)
        /\ DOMAIN s = 1..Len(s) /\ r[Len(s) + 1] = p /\ \A i \in 1..Len(s) : r[i] = s[i]
    BY <1>1, AppendProperties
  <2>2. \A i \in DOMAIN r : /\ r[i] \in Arriving /\ Key(r[i]) = k /\ Total(r[i]) = n
                            /\ Text(r[i]) = Text(p)
    <3> SUFFICES ASSUME NEW i \in DOMAIN r
                 PROVE  /\ r[i] \in Arriving /\ Key(r[i]) = k /\ Total(r[i]) = n
                        /\ Text(r[i]) = Text(p)
      OBVIOUS
    <3>1. CASE i = Len(s) + 1
      BY <2>1, <3>1
    <3>2. CASE i # Len(s) + 1
      <4>1. i \in DOMAIN s /\ r[i] = s[i]
        BY <1>1, <2>1, <3>2
      <4>2. QED
        BY <1>2, <1>5, <4>1
    <3>3. QED
      BY <3>1, <3>2
  <2>3. \A i, j \in DOMAIN r : Number(r[i]) = Number(r[j]) => i = j
    <3>1. \A i \in DOMAIN s : Number(s[i]) # Number(p)
      BY <1>5 DEF Known
    <3>2. \A i, j \in DOMAIN s : Number(s[i]) = Number(s[j]) => i = j
      BY <1>1 DEF Waiting
    <3>3. \A i \in DOMAIN r : i = Len(s) + 1 \/ i \in DOMAIN s
      BY <1>1, <2>1
    <3>4. QED
      BY <2>1, <3>1, <3>2, <3>3
  <2>4. Len(s) + 1 <= n
    <3>1. CASE Len(s) = 0
      BY <1>1, <1>5, <3>1
    <3>2. CASE Len(s) # 0
      <4>1. 1 \in DOMAIN s
        BY <1>1, <2>1, <3>2
      <4>2. QED
        BY <1>1, <1>2, <1>5, <4>1
    <3>3. QED
      BY <3>1, <3>2
  <2>5. CASE Len(s) + 1 = n
    <3>1. cache' = [cache EXCEPT ![k] = <<>>] /\ handed' = handed \cup {Sorted(r)}
      BY <1>5, <2>5 DEF HandOver, Added, Completes, Full
    <3>2. Sorted(r) = PartsOf(Text(p), n, k)
      <4>1. r \in [1..n -> Arriving]
        <5>1. r \in Seq(Arriving) /\ Len(r) = n
          BY <2>1, <2>5
        <5> HIDE DEF r, n
        <5>2. QED
          BY <5>1, LenProperties
      <4>2. /\ \A i \in 1..n : Text(r[i]) = Text(p) /\ Total(r[i]) = n /\ Key(r[i]) = k
            /\ \A i, j \in 1..n : Number(r[i]) = Number(r[j]) => i = j
        BY <2>1, <2>2, <2>3, <2>5
      <4>3. n \in Nat \ {0}
        BY <1>1
      <4>4. AllOnce(r, n, Text(p), k)
        BY <4>1, <4>2 DEF AllOnce
      <4> HIDE DEF r, n, k
      <4>5. QED
        BY <4>3, <4>4, SortedIsWhole
    <3>3. WholeText(Sorted(r))
      <4>1. PartsOf(Text(p), n, k)[1] = <<Text(p), 1, n, k>>
        BY <1>1 DEF PartsOf
      <4>2. QED
        BY <3>2, <4>1 DEF WholeText, Text, Total, Key
    <3>4. Waiting(k, <<>>)
      BY DEF Waiting
    <3>5. CacheFits'
      BY <3>1, <3>4 DEF CacheFits
    <3>6. QED
      BY <3>1, <3>3, <3>5 DEF LongSMSWhole
  <2>6. CASE Len(s) + 1 < n
    <3>1. cache' = [cache EXCEPT ![k] = r] /\ handed' = handed
      BY <1>1, <1>5, <2>6 DEF HandOver, Added, Completes
    <3>2. Waiting(k, r)
      BY <1>5, <2>1, <2>2, <2>3, <2>6 DEF Waiting
    <3>3. CacheFits'
      BY <3>1, <3>2 DEF CacheFits
    <3>4. QED
      BY <3>1, <3>3 DEF LongSMSWhole
  <2>7. QED
    BY <1>1, <2>4, <2>5, <2>6
<1>6. QED
  BY <1>1, <1>3, <1>4, <1>5

LEMMA StorageStart == StorageInit => StorageInv
<1> SUFFICES ASSUME StorageInit PROVE StorageInv
  OBVIOUS
<1>1. StorageOK
  <2>1. 1 \in 1..Slots
    BY StorageAssumption
  <2>2. /\ slots \in [Storage -> [1..Slots -> Arriving \cup {NoPart}]]
        /\ selected \in Storage /\ checking \in {"idle", "delete"} /\ overlap \in BOOLEAN
    BY DEF StorageInit, Storage
  <2>3. reader \in [Arriving -> ReaderSteps] /\ \A p \in Arriving : reader[p] = "none"
    BY DEF StorageInit, ReaderSteps
  <2>4. where \in [Arriving -> Storage \X (1..Slots)]
    BY <2>1 DEF StorageInit, Storage
  <2>5. /\ previous \in [Arriving -> Storage \cup {"none"}]
        /\ took \in [Arriving -> Arriving \cup {NoPart}]
    BY DEF StorageInit
  <2>6. unread = {} /\ DOMAIN listed = {}
    BY DEF StorageInit
  <2>7. QED
    BY <2>2, <2>3, <2>4, <2>5, <2>6 DEF StorageOK
<1>2. AloneFits /\ QuietReadsOwn
  BY DEF StorageInit, AloneFits, Active, QuietReadsOwn
<1>3. CacheFits
  <2>1. \A k \in Keys : Waiting(k, <<>>)
    BY DEF Waiting
  <2>2. QED
    BY <2>1 DEF StorageInit, CacheFits
<1>4. LongSMSWhole
  BY DEF StorageInit, LongSMSWhole
<1>5. QED
  BY <1>1, <1>2, <1>3, <1>4 DEF StorageInv

\* A part arrives.
LEMMA ArriveKeeps ==
  ASSUME StorageInv, NEW p \in Arriving, NEW s \in Storage, NEW i \in 1..Slots,
         NEW announced \in BOOLEAN, Arrive(p, s, i, announced)
  PROVE  StorageInv'
<1>1. /\ reader[p] = "none" /\ slots[s][i] = NoPart
      /\ slots' = [slots EXCEPT ![s][i] = p]
      /\ unread' = unread \cup {<<s, i>>}
      /\ where' = [where EXCEPT ![p] = <<s, i>>]
      /\ reader' = [reader EXCEPT ![p] = IF announced THEN "query" ELSE "done"]
      /\ overlap' = (overlap \/ Busy)
      /\ UNCHANGED <<selected, previous, took, checking, listed, cache, handed, mishaps>>
  BY DEF Arrive, Goto
<1>2. /\ slots'[s][i] = p
      /\ \A t \in Storage, j \in 1..Slots : (t = s /\ j = i) \/ slots'[t][j] = slots[t][j]
      /\ slots' \in [Storage -> [1..Slots -> Arriving \cup {NoPart}]]
  BY <1>1 DEF StorageInv, StorageOK
<1>3. /\ reader'[p] \in {"query", "done"} /\ where'[p] = <<s, i>>
      /\ \A q \in Arriving : q # p => reader'[q] = reader[q] /\ where'[q] = where[q]
  BY <1>1 DEF StorageInv, StorageOK
<1>4. StorageOK'
  <2>1. reader' \in [Arriving -> ReaderSteps]
    BY <1>1 DEF StorageInv, StorageOK, ReaderSteps
  <2>2. where' \in [Arriving -> Storage \X (1..Slots)]
    BY <1>1 DEF StorageInv, StorageOK
  <2>3. /\ unread' \subseteq Storage \X (1..Slots)
        /\ \A slot \in unread' : slots'[slot[1]][slot[2]] # NoPart
    <3>1. p # NoPart
      BY StorageAssumption
    <3>2. /\ unread \subseteq Storage \X (1..Slots)
          /\ \A slot \in unread : slots[slot[1]][slot[2]] # NoPart
      BY DEF StorageInv, StorageOK
    <3>3. \A slot \in unread' : slot \in unread \/ slot = <<s, i>>
      BY <1>1
    <3>4. QED
      BY <1>2, <3>1, <3>2, <3>3
  <2>4. \A q \in Arriving : reader'[q] = "restore" => previous'[q] # "none"
    BY <1>1, <1>3 DEF StorageInv, StorageOK
  <2>5. overlap' \in BOOLEAN
    BY <1>1 DEF StorageInv, StorageOK
  <2>6. QED
    BY <1>1, <1>2, <2>1, <2>2, <2>3, <2>4, <2>5 DEF StorageInv, StorageOK
<1>5. AloneFits'
  <2> SUFFICES ASSUME ~overlap'
               PROVE  /\ \A q, r \in Arriving : Active(q)' /\ Active(r)' => q = r
                      /\ \A q \in Arriving : Active(q)' => checking' = "idle"
                      /\ \A q \in Arriving :
                           reader'[q] \in {"query", "set", "read"} =>
                             slots'[where'[q][1]][where'[q][2]] = q
                      /\ \A q \in Arriving : reader'[q] = "read" => selected' = where'[q][1]
    BY DEF AloneFits
  <2>1. checking = "idle" /\ \A q \in Arriving : reader[q] \in {"none", "done"}
    BY <1>1 DEF Busy, Active
  <2>2. \A q \in Arriving : q # p => reader'[q] \in {"none", "done"}
    BY <1>3, <2>1
  <2>3. QED
    BY <1>1, <1>2, <1>3, <2>1, <2>2 DEF Active
<1>6. CacheFits' /\ LongSMSWhole' /\ QuietReadsOwn'
  BY <1>1 DEF StorageInv, CacheFits, LongSMSWhole, QuietReadsOwn
<1>7. QED
  BY <1>4, <1>5, <1>6 DEF StorageInv

\* The only reader takes a step: where it is going to read it still finds its message.
LEMMA AloneStays ==
  ASSUME StorageInv, NEW p \in Arriving, Active(p), NEW step \in ReaderSteps,
         reader' = [reader EXCEPT ![p] = step], UNCHANGED <<where, checking, overlap>>,
         step \in {"query", "set", "read"} => reader[p] \in {"query", "set"} /\ slots' = slots,
         step = "read" => selected' = where[p][1]
  PROVE  AloneFits'
<1> SUFFICES ASSUME ~overlap
             PROVE  /\ \A q, r \in Arriving : Active(q)' /\ Active(r)' => q = r
                    /\ \A q \in Arriving : Active(q)' => checking' = "idle"
                    /\ \A q \in Arriving :
                         reader'[q] \in {"query", "set", "read"} =>
                           slots'[where'[q][1]][where'[q][2]] = q
                    /\ \A q \in Arriving : reader'[q] = "read" => selected' = where'[q][1]
  BY DEF AloneFits
<1>1. /\ \A q, r \in Arriving : Active(q) /\ Active(r) => q = r
      /\ checking = "idle"
      /\ reader[p] \in {"query", "set"} => slots[where[p][1]][where[p][2]] = p
  BY DEF StorageInv, AloneFits
<1>2. reader'[p] = step /\ \A q \in Arriving : q # p => reader'[q] \in {"none", "done"}
  BY <1>1 DEF StorageInv, StorageOK, Active
<1>3. QED
  BY <1>1, <1>2 DEF Active

\* A reader chooses the storage of its message.
LEMMA SelectingKeepsReader ==
  ASSUME StorageInv, NEW p \in Arriving, QueryStorage(p) \/ SwitchStorage(p) \/ SwitchFails(p)
  PROVE  StorageInv'
<1>1. /\ reader[p] \in {"query", "set"}
      /\ UNCHANGED <<slots, unread, where, took, checking, listed, cache, handed, overlap>>
  BY DEF QueryStorage, SwitchStorage, SwitchFails
<1>2. PICK step \in {"read", "set", "done"} :
        /\ reader' = [reader EXCEPT ![p] = step]
        /\ step = "read" => selected' = where[p][1]
  BY DEF QueryStorage, SwitchStorage, SwitchFails, Goto
<1>3. /\ selected' \in Storage
      /\ previous' \in [Arriving -> Storage \cup {"none"}]
      /\ \A q \in Arriving : q # p => previous'[q] = previous[q]
  <2>1. /\ selected \in Storage /\ where[p][1] \in Storage
        /\ previous \in [Arriving -> Storage \cup {"none"}]
    BY DEF StorageInv, StorageOK
  <2>2. CASE QueryStorage(p)
    BY <2>1, <2>2 DEF QueryStorage
  <2>3. CASE SwitchStorage(p) \/ SwitchFails(p)
    BY <2>1, <2>3 DEF SwitchStorage, SwitchFails
  <2>4. QED
    BY <2>2, <2>3
<1>4. StorageOK'
  <2>1. /\ reader' \in [Arriving -> ReaderSteps]
        /\ reader'[p] = step /\ \A q \in Arriving : q # p => reader'[q] = reader[q]
    BY <1>2 DEF StorageInv, StorageOK, ReaderSteps
  <2>2. \A q \in Arriving : reader'[q] = "restore" => previous'[q] # "none"
    BY <1>3, <2>1 DEF StorageInv, StorageOK
  <2>3. QED
    BY <1>1, <1>3, <2>1, <2>2 DEF StorageInv, StorageOK
<1>5. AloneFits'
  BY <1>1, <1>2, AloneStays DEF Active, ReaderSteps
<1>6. CacheFits' /\ LongSMSWhole' /\ QuietReadsOwn'
  BY <1>1 DEF StorageInv, CacheFits, LongSMSWhole, QuietReadsOwn
<1>7. QED
  BY <1>4, <1>5, <1>6 DEF StorageInv

\* A reader reads what is at its index in the selected storage.
LEMMA FetchingKeeps ==
  ASSUME StorageInv, NEW p \in Arriving, ReadMessage(p) \/ ReadMessageFails(p)
  PROVE  StorageInv'
<1> DEFINE i == where[p][2]
           q == slots[selected][i]
<1>1. /\ reader[p] = "read"
      /\ UNCHANGED <<slots, selected, where, previous, checking, listed, overlap>>
  BY DEF ReadMessage, ReadMessageFails
<1>2. /\ i \in 1..Slots /\ selected \in Storage /\ where[p][1] \in Storage
      /\ q \in Arriving \cup {NoPart}
  <2>1. /\ slots \in [Storage -> [1..Slots -> Arriving \cup {NoPart}]] /\ selected \in Storage
        /\ where[p] \in Storage \X (1..Slots)
    BY DEF StorageInv, StorageOK
  <2>2. QED
    BY <2>1
<1>3. PICK step \in {"done", "restore", "delete"} :
        /\ reader' = [reader EXCEPT ![p] = step]
        /\ step = "restore" => previous[p] # "none"
  BY DEF ReadMessage, ReadMessageFails, Goto, Leaving
<1>4. \/ took' = took /\ cache' = cache /\ handed' = handed
      \/ q \in Arriving /\ took' = [took EXCEPT ![p] = q] /\ HandOver(q)
  BY <1>2 DEF ReadMessage, ReadMessageFails
<1>5. reader'[p] = step /\ \A r \in Arriving : r # p => reader'[r] = reader[r]
  BY <1>3 DEF StorageInv, StorageOK
<1>6. StorageOK'
  <2>1. reader' \in [Arriving -> ReaderSteps]
    BY <1>3 DEF StorageInv, StorageOK, ReaderSteps
  <2>2. \A r \in Arriving : reader'[r] = "restore" => previous'[r] # "none"
    BY <1>1, <1>3, <1>5 DEF StorageInv, StorageOK
  <2>3. unread' \subseteq unread
    BY DEF ReadMessage, ReadMessageFails
  <2>4. took' \in [Arriving -> Arriving \cup {NoPart}]
    BY <1>4 DEF StorageInv, StorageOK
  <2>5. QED
    BY <1>1, <2>1, <2>2, <2>3, <2>4 DEF StorageInv, StorageOK
<1>7. CacheFits' /\ LongSMSWhole'
  <2>1. CASE cache' = cache /\ handed' = handed
    BY <2>1 DEF StorageInv, CacheFits, LongSMSWhole
  <2>2. CASE q \in Arriving /\ HandOver(q)
    BY <2>2, HandOverFits DEF StorageInv
  <2>3. QED
    BY <1>4, <2>1, <2>2
<1>8. ASSUME ~overlap PROVE q = p
  BY <1>1, <1>8 DEF StorageInv, AloneFits
<1>9. QuietReadsOwn'
  BY <1>1, <1>4, <1>8 DEF StorageInv, StorageOK, QuietReadsOwn
<1>10. AloneFits'
  BY <1>1, <1>3, AloneStays DEF Active, ReaderSteps
<1>11. QED
  BY <1>6, <1>7, <1>9, <1>10 DEF StorageInv

\* A reader deletes what is at its index now, or goes back to the former storage.
LEMMA LeavingKeeps ==
  ASSUME StorageInv, NEW p \in Arriving, DeleteMessage(p) \/ RestoreStorage(p)
  PROVE  StorageInv'
<1>1. /\ reader[p] \in {"delete", "restore"}
      /\ UNCHANGED <<where, previous, took, checking, listed, cache, handed, overlap>>
  BY DEF DeleteMessage, RestoreStorage
<1>2. PICK step \in {"done", "restore"} :
        /\ reader' = [reader EXCEPT ![p] = step]
        /\ step = "restore" => previous[p] # "none"
  BY DEF DeleteMessage, RestoreStorage, Goto, Leaving
<1>3. /\ slots' \in [Storage -> [1..Slots -> Arriving \cup {NoPart}]]
      /\ unread' \subseteq Storage \X (1..Slots)
      /\ \A slot \in unread' : slots'[slot[1]][slot[2]] # NoPart
  <2>1. CASE slots' = slots /\ unread' = unread
    BY <2>1 DEF StorageInv, StorageOK
  <2>2. CASE /\ slots' = [slots EXCEPT ![selected][where[p][2]] = NoPart]
             /\ unread' = unread \ {<<selected, where[p][2]>>}
    <3>1. /\ unread \subseteq Storage \X (1..Slots)
          /\ \A slot \in unread : slots[slot[1]][slot[2]] # NoPart
          /\ slots \in [Storage -> [1..Slots -> Arriving \cup {NoPart}]]
          /\ selected \in Storage /\ where[p][2] \in 1..Slots
      BY DEF StorageInv, StorageOK
    <3>2. /\ slots' \in [Storage -> [1..Slots -> Arriving \cup {NoPart}]]
          /\ \A s \in Storage, i \in 1..Slots :
               s # selected \/ i # where[p][2] => slots'[s][i] = slots[s][i]
      BY <2>2, <3>1
    <3>3. ASSUME NEW slot \in unread' PROVE slots'[slot[1]][slot[2]] # NoPart
      <4>1. /\ slot = <<slot[1], slot[2]>> /\ slot[1] \in Storage /\ slot[2] \in 1..Slots
            /\ slot \in unread /\ slot # <<selected, where[p][2]>>
        BY <2>2, <3>1
      <4>2. QED
        BY <3>1, <3>2, <4>1
    <3>4. QED
      BY <2>2, <3>1, <3>2, <3>3
  <2>3. QED
    BY <2>1, <2>2 DEF DeleteMessage, RestoreStorage
<1>4. selected' \in Storage
  BY DEF DeleteMessage, RestoreStorage, StorageInv, StorageOK
<1>5. StorageOK'
  <2>1. /\ reader' \in [Arriving -> ReaderSteps]
        /\ reader'[p] = step /\ \A q \in Arriving : q # p => reader'[q] = reader[q]
    BY <1>2 DEF StorageInv, StorageOK, ReaderSteps
  <2>2. \A q \in Arriving : reader'[q] = "restore" => previous'[q] # "none"
    BY <1>1, <1>2, <2>1 DEF StorageInv, StorageOK
  <2>3. QED
    BY <1>1, <1>3, <1>4, <2>1, <2>2 DEF StorageInv, StorageOK
<1>6. AloneFits'
  BY <1>1, <1>2, AloneStays DEF Active, ReaderSteps
<1>7. CacheFits' /\ LongSMSWhole' /\ QuietReadsOwn'
  BY <1>1 DEF StorageInv, CacheFits, LongSMSWhole, QuietReadsOwn
<1>8. QED
  BY <1>5, <1>6, <1>7 DEF StorageInv

\* CheckAllSMS.
LEMMA CheckingKeeps ==
  ASSUME StorageInv, ListAll \/ DeleteAll PROVE StorageInv'
<1>1. /\ UNCHANGED <<selected, reader, where, previous, took, cache, handed>>
      /\ checking' \in {"idle", "delete"} /\ overlap' \in BOOLEAN
      /\ overlap => overlap'
  BY DEF ListAll, DeleteAll, StorageInv, StorageOK
<1>2. /\ slots' \in [Storage -> [1..Slots -> Arriving \cup {NoPart}]]
      /\ unread' \subseteq unread
      /\ \A slot \in unread' : slots'[slot[1]][slot[2]] # NoPart
  <2>1. CASE slots' = slots /\ unread' \subseteq unread
    BY <2>1 DEF StorageInv, StorageOK
  <2>2. CASE /\ slots' = [slots EXCEPT ![selected] = [i \in 1..Slots |-> NoPart]]
             /\ unread' = {slot \in unread : slot[1] # selected}
    BY <2>2 DEF StorageInv, StorageOK
  <2>3. QED
    BY <2>1, <2>2 DEF ListAll, DeleteAll
<1>3. \A i \in DOMAIN listed' : listed'[i] \in Arriving
  <2>1. CASE listed' = listed
    BY <2>1 DEF StorageInv, StorageOK
  <2>2. CASE listed' = [i \in Unread |-> slots[selected][i]]
    <3>1. ASSUME NEW i \in Unread PROVE slots[selected][i] \in Arriving
      <4>1. i \in 1..Slots /\ <<selected, i>> \in unread
        BY DEF Unread
      <4>2. slots[selected][i] # NoPart
        BY <4>1 DEF StorageInv, StorageOK
      <4>3. slots \in [Storage -> [1..Slots -> Arriving \cup {NoPart}]] /\ selected \in Storage
        BY DEF StorageInv, StorageOK
      <4>4. QED
        BY <4>1, <4>2, <4>3
    <3>2. QED
      BY <2>2, <3>1
  <2>3. QED
    BY <2>1, <2>2 DEF ListAll, DeleteAll
<1>4. StorageOK'
  BY <1>1, <1>2, <1>3 DEF StorageInv, StorageOK
<1>5. AloneFits'
  <2> SUFFICES ASSUME ~overlap'
               PROVE  /\ \A q, r \in Arriving : Active(q)' /\ Active(r)' => q = r
                      /\ \A q \in Arriving : Active(q)' => checking' = "idle"
                      /\ \A q \in Arriving :
                           reader'[q] \in {"query", "set", "read"} =>
                             slots'[where'[q][1]][where'[q][2]] = q
                      /\ \A q \in Arriving : reader'[q] = "read" => selected' = where'[q][1]
    BY DEF AloneFits
  <2>1. \A q \in Arriving : Active(q)' <=> Active(q)
    BY <1>1 DEF Active
  <2>2. (checking' = checking /\ slots' = slots) \/ \A q \in Arriving : ~Active(q)
    <3>1. CASE ListAll
      BY <3>1 DEF ListAll, Busy
    <3>2. CASE DeleteAll
      BY <1>1, <3>2 DEF DeleteAll, StorageInv, AloneFits
    <3>3. QED
      BY <3>1, <3>2
  <2>3. QED
    BY <1>1, <2>1, <2>2 DEF StorageInv, AloneFits, Active
<1>6. CacheFits' /\ LongSMSWhole' /\ QuietReadsOwn'
  BY <1>1 DEF StorageInv, CacheFits, LongSMSWhole, QuietReadsOwn
<1>7. QED
  BY <1>4, <1>5, <1>6 DEF StorageInv

\* A listed message is handed over, and what waited too long is given up.
LEMMA CacheStepKeeps ==
  ASSUME StorageInv, \/ \E i \in 1..Slots : HandOverListed(i)
                     \/ \E old \in SUBSET Keys \ {{}} : CleanupOldFragments(old)
  PROVE  StorageInv'
<1>1. UNCHANGED <<slots, unread, selected, reader, where, previous, took, checking, overlap>>
  BY DEF HandOverListed, CleanupOldFragments
<1>2. AloneFits' /\ QuietReadsOwn'
  BY <1>1 DEF StorageInv, AloneFits, Active, QuietReadsOwn
<1>3. (\A i \in DOMAIN listed : listed[i] \in Arriving)' /\ CacheFits' /\ LongSMSWhole'
  <2>1. CASE \E i \in 1..Slots : HandOverListed(i)
    <3>1. PICK i \in DOMAIN listed : /\ HandOver(listed[i])
                                    /\ listed' = [j \in DOMAIN listed \ {i} |-> listed[j]]
      BY <2>1 DEF HandOverListed
    <3>2. \A j \in DOMAIN listed : listed[j] \in Arriving
      BY DEF StorageInv, StorageOK
    <3>3. CacheFits' /\ LongSMSWhole'
      BY <3>1, <3>2, HandOverFits DEF StorageInv
    <3>4. QED
      BY <3>1, <3>2, <3>3
  <2>2. CASE \E old \in SUBSET Keys \ {{}} : CleanupOldFragments(old)
    <3>1. PICK old : cache' = Cleaned(cache, old) /\ UNCHANGED <<listed, handed>>
      BY <2>2 DEF CleanupOldFragments
    <3>2. \A k \in Keys : cache'[k] = <<>> \/ cache'[k] = cache[k]
      BY <3>1 DEF StorageInv, CacheFits, Cleaned
    <3>3. \A k \in Keys : Waiting(k, <<>>)
      BY DEF Waiting
    <3>4. CacheFits'
      BY <3>1, <3>2, <3>3 DEF StorageInv, CacheFits, Cleaned
    <3>5. QED
      BY <3>1, <3>4 DEF StorageInv, StorageOK, LongSMSWhole
  <2>3. QED
    BY <2>1, <2>2
<1>4. StorageOK'
  BY <1>1, <1>3 DEF StorageInv, StorageOK
<1>5. QED
  BY <1>2, <1>3, <1>4 DEF StorageInv

LEMMA StorageStays == ASSUME StorageInv, UNCHANGED storageVars PROVE StorageInv'
<1>1. UNCHANGED <<slots, unread, selected, reader, where, previous, took, checking, listed, cache,
                 handed, overlap>>
  BY DEF storageVars
<1>2. StorageOK'
  BY <1>1 DEF StorageInv, StorageOK
<1>3. AloneFits' /\ CacheFits' /\ QuietReadsOwn' /\ LongSMSWhole'
  BY <1>1 DEF StorageInv, AloneFits, Active, CacheFits, QuietReadsOwn, LongSMSWhole
<1>4. QED
  BY <1>2, <1>3 DEF StorageInv

LEMMA StorageStepKeeps == StorageInv /\ [StorageNext]_storageVars => StorageInv'
<1> SUFFICES ASSUME StorageInv, [StorageNext]_storageVars PROVE StorageInv'
  OBVIOUS
<1>1. CASE StorageNext
  BY <1>1, ArriveKeeps, SelectingKeepsReader, FetchingKeeps, LeavingKeeps, CheckingKeeps,
     CacheStepKeeps DEF StorageNext
<1>2. CASE UNCHANGED storageVars
  BY <1>2, StorageStays
<1>3. QED
  BY <1>1, <1>2

\* A reader that has the module to itself reads no message but its own, and a long message
\* is handed over whole and in order or not at all: for any texts, places and failures, in
\* whatever order the parts come and however often one is read.
THEOREM SMSAlwaysWhole == StorageSpec => []SMSWhole
<1>1. StorageInv => SMSWhole
  BY DEF StorageInv, SMSWhole
<1>2. QED
  BY <1>1, StorageStart, StorageStepKeeps, PTL DEF StorageSpec
==============================================================================
