------------------------- MODULE SIMAuthReadyProofs -------------------------
(***************************************************************************)
(* Proofs about SIMAuthReady, for any set of callers and any number of     *)
(* invalidations; and about SIMFiles, for files of any length and any      *)
(* content.                                                                *)
(***************************************************************************)
EXTENDS SIMAuthReady, SIMFiles, SequenceTheorems, TLAPS

\* The inductive invariant: the flag, the one prober and the generation its
\* probe started at hang together, and the card has answered since the last
\* invalidation whenever a current probe was answered.
ProbeInv ==
  /\ TypeOK
  /\ OneProber
  /\ ReadyMeansProbed
  /\ ready => ~probing
  /\ \A c \in Caller :
       /\ pc[c] \in {"probe", "answered"} => started[c] <= generation
       /\ pc[c] = "answered" /\ started[c] = generation => cardOK

LEMMA InitProbe == Init => ProbeInv
<1> SUFFICES ASSUME Init PROVE ProbeInv
  OBVIOUS
<1>1. TypeOK
  BY DEF Init, TypeOK, PC
<1>2. \A c \in Caller : ~isProber(c) /\ pc[c] # "parked"
  BY DEF Init, isProber
<1>3. ~probing /\ ~ready
  BY DEF Init
<1>4. OneProber /\ ReadyMeansProbed
  BY <1>2, <1>3 DEF OneProber, ReadyMeansProbed
<1>5. QED
  BY <1>1, <1>2, <1>3, <1>4 DEF ProbeInv, isProber

LEMMA InvalidateProbe ==
  ASSUME ProbeInv, InvalidateSIMAuthReady
  PROVE  ProbeInv'
<1>1. TypeOK' /\ ~ready'
  <2>1. generation' \in Nat /\ ready' = FALSE /\ cardOK' = FALSE
    BY DEF InvalidateSIMAuthReady, ProbeInv, TypeOK
  <2>2. probing' \in BOOLEAN
    BY Zenon DEF InvalidateSIMAuthReady, ProbeInv, TypeOK
  <2>3. pc' \in [Caller -> PC] /\ started' \in [Caller -> Nat]
    BY DEF InvalidateSIMAuthReady, ProbeInv, TypeOK
  <2>4. QED
    BY <2>1, <2>2, <2>3 DEF TypeOK
<1>2. OneProber'
  <2>1. UNCHANGED <<pc, probing>>
    BY DEF InvalidateSIMAuthReady
  <2>2. QED
    BY <2>1 DEF ProbeInv, OneProber, isProber
<1>3. \A c \in Caller : isProber(c) => started[c] < generation'
  BY DEF InvalidateSIMAuthReady, ProbeInv, TypeOK, isProber
<1>4. \A c \in Caller :
        /\ pc'[c] \in {"probe", "answered"} => started'[c] <= generation'
        /\ pc'[c] = "answered" /\ started'[c] = generation' => cardOK'
  BY <1>3 DEF InvalidateSIMAuthReady, ProbeInv, TypeOK, isProber
<1>5. QED
  BY <1>1, <1>2, <1>4 DEF ProbeInv, ReadyMeansProbed

LEMMA CallerProbe ==
  ASSUME ProbeInv, NEW c \in Caller, Call(c) \/ GiveUp(c) \/ Return(c) \/ Answer(c)
  PROVE  ProbeInv'
<1>1. CASE Call(c)
  BY <1>1 DEF Call, ProbeInv, TypeOK, OneProber, ReadyMeansProbed, PC, isProber
<1>2. CASE GiveUp(c)
  BY <1>2 DEF GiveUp, ProbeInv, TypeOK, OneProber, ReadyMeansProbed, PC, isProber
<1>3. CASE Return(c)
  BY <1>3 DEF Return, ProbeInv, TypeOK, OneProber, ReadyMeansProbed, PC, isProber
<1>4. CASE Answer(c)
  BY <1>4 DEF Answer, ProbeInv, TypeOK, OneProber, ReadyMeansProbed, PC, isProber
<1>5. QED
  BY <1>1, <1>2, <1>3, <1>4

LEMMA TurnProbe ==
  ASSUME ProbeInv, NEW c \in Caller, Turn(c)
  PROVE  ProbeInv'
<1>1. CASE ready
  BY <1>1 DEF Turn, ProbeInv, TypeOK, OneProber, ReadyMeansProbed, PC, isProber
<1>2. CASE ~ready /\ probing
  BY <1>2 DEF Turn, ProbeInv, TypeOK, OneProber, ReadyMeansProbed, PC, isProber
<1>3. CASE ~ready /\ ~probing
  <2>1. \A d \in Caller : ~isProber(d) /\ pc[d] # "parked"
    BY <1>3 DEF ProbeInv, OneProber
  <2>2. /\ probing' = TRUE
        /\ pc' = [pc EXCEPT ![c] = "probe"]
        /\ started' = [started EXCEPT ![c] = generation]
        /\ UNCHANGED <<generation, ready, cardOK>>
    BY <1>3 DEF Turn
  <2>3. TypeOK'
    BY <2>2 DEF ProbeInv, TypeOK, PC
  <2>4. \A d \in Caller : isProber(d)' <=> d = c
    BY <2>1, <2>2 DEF ProbeInv, TypeOK, isProber
  <2>5. OneProber'
    BY <2>2, <2>4 DEF OneProber
  <2>6. \A d \in Caller :
          /\ pc'[d] \in {"probe", "answered"} => started'[d] <= generation'
          /\ pc'[d] # "answered"
    BY <2>1, <2>2 DEF ProbeInv, TypeOK, isProber
  <2>7. QED
    BY <1>3, <2>2, <2>3, <2>5, <2>6 DEF ProbeInv, ReadyMeansProbed
<1>4. QED
  BY <1>1, <1>2, <1>3

\* The end of a probe leaves no prober, no parked caller, and an open gate only
\* if the probe was current.
LEMMA ProbeEnds ==
  ASSUME ProbeInv, NEW c \in Caller, ProbeSucceeds(c) \/ ProbeFails(c)
  PROVE  ProbeInv'
<1>1. PICK s \in {"loop", "done", "idle"} : WakeParked(c, s)
  BY DEF ProbeSucceeds, ProbeFails
<1>2. /\ pc' \in [Caller -> PC]
      /\ \A d \in Caller : pc'[d] \notin {"probe", "answered", "parked"}
  BY <1>1 DEF WakeParked, ProbeSucceeds, ProbeFails, ProbeInv, TypeOK, OneProber, PC, isProber
<1>3. ready' \in BOOLEAN /\ (ready' => cardOK)
  BY DEF ProbeSucceeds, ProbeFails, ProbeInv, TypeOK, ReadyMeansProbed
<1>4. /\ probing' = FALSE
      /\ UNCHANGED <<generation, started, cardOK>>
  BY DEF ProbeSucceeds, ProbeFails
<1>5. QED
  BY <1>2, <1>3, <1>4 DEF ProbeInv, TypeOK, OneProber, ReadyMeansProbed, isProber

LEMMA NextProbe == ProbeInv /\ [Next]_vars => ProbeInv'
<1> SUFFICES ASSUME ProbeInv, [Next]_vars PROVE ProbeInv'
  OBVIOUS
<1>1. CASE InvalidateSIMAuthReady
  BY <1>1, InvalidateProbe
<1>2. ASSUME NEW c \in Caller, Call(c) \/ GiveUp(c) \/ CallerStep(c)
      PROVE  ProbeInv'
  BY <1>2, CallerProbe, TurnProbe, ProbeEnds DEF CallerStep
<1>3. CASE UNCHANGED vars
  BY <1>3 DEF vars, ProbeInv, TypeOK, OneProber, ReadyMeansProbed, isProber
<1>4. QED
  BY <1>1, <1>2, <1>3 DEF Next

LEMMA ProbeInvariant == Spec => []ProbeInv
BY InitProbe, NextProbe, PTL DEF Spec

\* The gate is never open on the word of a probe that an invalidation overtook.
THEOREM ReadyAlwaysMeansProbed == Spec => []ReadyMeansProbed
BY ProbeInvariant, PTL DEF ProbeInv

\* There is never a second prober, nor a parked caller without a prober.
THEOREM AlwaysOneProber == Spec => []OneProber
BY ProbeInvariant, PTL DEF ProbeInv

\* A caller that gets nil gets it about the card that is now in the modem.
THEOREM NilAlwaysMeansProbed == Spec => NilMeansProbed
<1>1. ProbeInv /\ [Next]_vars
        => [\A c \in Caller :
              pc[c] # "done" /\ pc'[c] = "done" => ready' /\ cardOK']_vars
  <2> SUFFICES ASSUME ProbeInv, Next,
                      NEW c \in Caller, pc[c] # "done", pc'[c] = "done"
               PROVE  ready' /\ cardOK'
    OBVIOUS
  <2>1. ASSUME NEW d \in Caller, Turn(d)
        PROVE  ready' /\ cardOK'
    BY <2>1 DEF Turn, ProbeInv, TypeOK, ReadyMeansProbed
  <2>2. ASSUME NEW d \in Caller, ProbeSucceeds(d)
        PROVE  ready' /\ cardOK'
    <3>1. generation = started[d]
      BY <2>2 DEF ProbeSucceeds, WakeParked, ProbeInv, TypeOK
    <3>2. QED
      BY <2>2, <3>1 DEF ProbeSucceeds, ProbeInv, TypeOK
  <2>3. ASSUME NEW d \in Caller,
               Call(d) \/ GiveUp(d) \/ Return(d) \/ Answer(d) \/ ProbeFails(d)
        PROVE  FALSE
    BY <2>3 DEF Call, GiveUp, Return, Answer, ProbeFails, WakeParked, ProbeInv, TypeOK
  <2>4. CASE InvalidateSIMAuthReady
    BY <2>4 DEF InvalidateSIMAuthReady
  <2>5. QED
    BY <2>1, <2>2, <2>3, <2>4 DEF Next, CallerStep
<1>2. QED
  BY <1>1, ProbeInvariant, PTL DEF Spec, NilMeansProbed

(***************************************************************************)
(* SIMFiles.                                                               *)
(***************************************************************************)
Filled(r) == efRecords[r] = "filled"
Taken(r) == \E i \in DOMAIN kept : kept[i] = r

FilesOK ==
  /\ way \in {"at", "mbim"} /\ ef \in {"pnn", "opl"}
  /\ efRecords \in [1..MaxRecord -> {"unreadable", "empty", "filled"}]
  /\ nextRecord \in 1..(MaxRecord + 1)
  /\ readFailures \in Nat /\ reading \in BOOLEAN
  /\ kept \in Seq(1..MaxRecord)

\* What was read of so far is kept, in order; as long as the reading goes on nothing is in
\* front of the next record; once it ended something is in front of all that follow.
ReadSoFar ==
  /\ \A i \in DOMAIN kept : kept[i] < nextRecord
  /\ \A i, j \in DOMAIN kept : i < j => kept[i] < kept[j]
  /\ \A r \in 1..(nextRecord - 1) : Taken(r) <=> Filled(r) /\ Reachable(r)
  /\ reading => Reachable(nextRecord)
  /\ ~reading => \A r \in nextRecord..MaxRecord : ~Reachable(r)

\* The count is that of the failures right before the next record.
CountFits ==
  reading =>
    /\ readFailures < 2
    /\ readFailures = 0 <=> nextRecord = 1 \/ ~ReadingFails(nextRecord - 1)
    /\ readFailures > 0 => way = "at" /\ kept = <<>>

\* While names are read over AT and one was found, the last one read was the last one found.
NoGap ==
  way = "at" /\ ef = "pnn" =>
    /\ reading /\ kept # <<>> => kept[Len(kept)] = nextRecord - 1
    /\ \A i \in 1..(Len(kept) - 1) : kept[i + 1] = kept[i] + 1

FilesInv == FilesOK /\ ReadSoFar /\ CountFits /\ NoGap

LEMMA FilesStart ==
  FileInit => FilesInv
<1> SUFFICES ASSUME FileInit PROVE FilesInv
  OBVIOUS
<1>1. FilesOK
  BY FileAssumption DEF FileInit, FilesOK
<1>2. ReadSoFar
  BY FileAssumption DEF FileInit, ReadSoFar, Reachable
<1>3. CountFits /\ NoGap
  BY DEF FileInit, CountFits, NoGap
<1>4. QED
  BY <1>1, <1>2, <1>3 DEF FilesInv

\* Whether a record fails, is filled or is reachable depends on what is on the card only.
LEMMA CardStays ==
  ASSUME UNCHANGED <<way, ef, efRecords>>, NEW r
  PROVE  /\ ReadingFails(r)' <=> ReadingFails(r)
         /\ Filled(r)' <=> Filled(r)
         /\ Reachable(r)' <=> Reachable(r)
BY DEF ReadingFails, Filled, Reachable

LEMMA FailureKeeps ==
  ASSUME FilesInv, FileNext, ReadingFails(nextRecord)
  PROVE  FilesInv'
<1> DEFINE n == nextRecord
<1>1. /\ reading /\ n \in 1..MaxRecord /\ n \in Nat /\ MaxRecord \in Nat /\ n' = n + 1
      /\ readFailures' \in Nat /\ reading' \in BOOLEAN
      /\ reading' <=> way = "at" /\ readFailures = 0 /\ kept = <<>>
      /\ reading' => readFailures' = 1
      /\ kept' = kept /\ UNCHANGED <<way, ef, efRecords>>
  <2>1. /\ reading /\ n \in 1..MaxRecord /\ n \in Nat /\ MaxRecord \in Nat /\ n' = n + 1
        /\ readFailures \in Nat
        /\ kept' = kept /\ UNCHANGED <<way, ef, efRecords>>
    BY FileAssumption DEF FilesInv, FilesOK, FileNext, ReadOverAT, ReadOverMBIM
  <2>2. CASE ReadOverAT
    <3>1. way = "at" /\ readFailures' = readFailures + 1
          /\ reading' = (readFailures' < 2 /\ kept = <<>>)
      BY <2>2 DEF ReadOverAT
    <3>2. readFailures' < 2 <=> readFailures = 0
      BY <2>1, <3>1
    <3>3. reading' \in BOOLEAN /\ (reading' <=> readFailures' < 2 /\ kept = <<>>)
      BY <3>1, Zenon
    <3>4. QED
      BY <2>1, <3>1, <3>2, <3>3
  <2>3. CASE ReadOverMBIM
    BY <2>1, <2>3 DEF ReadOverMBIM
  <2>4. QED
    BY <2>2, <2>3 DEF FileNext
<1>2. ~Filled(n)
  BY DEF ReadingFails, Filled
<1>3. \A r \in 1..n : Taken(r) <=> Filled(r) /\ Reachable(r)
  <2>1. ~Taken(n)
    BY <1>1 DEF FilesInv, FilesOK, ReadSoFar, Taken
  <2>2. QED
    BY <1>1, <1>2, <2>1 DEF FilesInv, ReadSoFar
<1>4. FilesOK'
  BY <1>1 DEF FilesInv, FilesOK
<1>5. reading' => Reachable(n + 1)
  <2> SUFFICES ASSUME reading', NEW q \in 1..n, ReadingFails(q)
               PROVE  way = "at" /\ (q > 1 => ~ReadingFails(q - 1)) /\ \A p \in 1..q : ~Filled(p)
    BY <1>1 DEF Reachable, Filled
  <2>1. way = "at" /\ kept = <<>> /\ readFailures = 0
    BY <1>1 DEF FilesInv, FilesOK
  <2>2. Reachable(n) /\ (n = 1 \/ ~ReadingFails(n - 1))
    BY <1>1, <2>1 DEF FilesInv, ReadSoFar, CountFits
  <2>3. CASE q < n
    BY <1>1, <2>2, <2>3 DEF Reachable, Filled
  <2>4. CASE q = n
    <3>1. ASSUME NEW p \in 1..q, Filled(p) PROVE FALSE
      <4>1. p < n /\ ~Taken(p)
        BY <1>1, <1>2, <2>1, <2>4, <3>1 DEF Taken
      <4>2. ~Reachable(p)
        BY <1>1, <1>3, <3>1, <4>1
      <4>3. QED
        BY <1>1, <2>2, <4>1, <4>2 DEF Reachable
    <3>2. QED
      BY <2>1, <2>2, <2>4, <3>1
  <2>5. QED
    BY <1>1, <2>3, <2>4
<1>6. ~reading' => \A r \in (n + 1)..MaxRecord : ~Reachable(r)
  <2> SUFFICES ASSUME ~reading', NEW r \in (n + 1)..MaxRecord, Reachable(r) PROVE FALSE
    OBVIOUS
  <2>1. way = "at" /\ (n > 1 => ~ReadingFails(n - 1)) /\ \A p \in 1..n : ~Filled(p)
    <3>1. n \in 1..(r - 1)
      BY <1>1
    <3>2. QED
      BY <3>1 DEF Reachable, Filled
  <2>2. kept = <<>>
    <3> SUFFICES ASSUME kept # <<>> PROVE FALSE
      OBVIOUS
    <3>1. 1 \in DOMAIN kept /\ kept[1] \in 1..MaxRecord /\ kept[1] < n
      BY <1>1 DEF FilesInv, FilesOK, ReadSoFar
    <3>2. kept[1] \in 1..(n - 1) /\ Taken(kept[1])
      BY <1>1, <3>1 DEF Taken
    <3>3. Filled(kept[1])
      BY <1>1, <1>3, <3>2
    <3>4. QED
      BY <1>1, <2>1, <3>2, <3>3
  <2>3. readFailures = 0
    BY <1>1, <2>1 DEF FilesInv, CountFits
  <2>4. QED
    BY <1>1, <2>1, <2>2, <2>3
<1>7. ReadSoFar'
  <2>1. /\ \A i \in DOMAIN kept : kept[i] < n + 1
        /\ \A i, j \in DOMAIN kept : i < j => kept[i] < kept[j]
    <3>1. \A i \in DOMAIN kept : kept[i] \in Nat
      BY DEF FilesInv, FilesOK
    <3>2. QED
      BY <1>1, <3>1 DEF FilesInv, ReadSoFar
  <2>2. \A r : Taken(r)' <=> Taken(r)
    BY <1>1 DEF Taken
  <2>3. QED
    BY <1>1, <1>3, <1>5, <1>6, <2>1, <2>2, CardStays DEF ReadSoFar
<1>8. CountFits'
  <2> SUFFICES ASSUME reading' PROVE CountFits'
    BY DEF CountFits
  <2>1. /\ readFailures' = 1 /\ nextRecord' # 1 /\ nextRecord' - 1 = nextRecord
        /\ way' = "at" /\ kept' = <<>>
    BY <1>1
  <2>2. ReadingFails(nextRecord - 1)'
    BY <1>1, <2>1 DEF ReadingFails
  <2>3. QED
    BY <2>1, <2>2 DEF CountFits
<1>9. NoGap'
  BY <1>1 DEF FilesInv, NoGap
<1>10. QED
  BY <1>4, <1>7, <1>8, <1>9 DEF FilesInv

LEMMA ReadingKeeps ==
  ASSUME FilesInv, FileNext, ~ReadingFails(nextRecord)
  PROVE  FilesInv'
<1> DEFINE n == nextRecord
<1>1. /\ reading /\ n \in 1..MaxRecord /\ n \in Nat /\ MaxRecord \in Nat /\ n' = n + 1
      /\ readFailures' = 0 /\ reading'
      /\ kept' = IF Filled(n) THEN Append(kept, n) ELSE kept
      /\ UNCHANGED <<way, ef, efRecords>>
  <2>1. /\ reading /\ n \in 1..MaxRecord /\ n \in Nat /\ MaxRecord \in Nat
        /\ readFailures > 0 => way = "at"
        /\ readFailures \in Nat /\ way \in {"at", "mbim"}
    BY FileAssumption DEF FilesInv, FilesOK, CountFits, FileNext, ReadOverAT, ReadOverMBIM
  <2>2. CASE ReadOverAT
    BY <2>1, <2>2 DEF ReadOverAT, Keep, Filled
  <2>3. CASE ReadOverMBIM
    BY <2>1, <2>3 DEF ReadOverMBIM, Keep, Filled
  <2>4. QED
    BY <2>2, <2>3 DEF FileNext
<1>2. Reachable(n) /\ Reachable(n + 1)
  <2>1. Reachable(n)
    BY <1>1 DEF FilesInv, ReadSoFar
  <2>2. \A q \in 1..n : ReadingFails(q) => q \in 1..(n - 1)
    BY <1>1
  <2>3. QED
    BY <1>1, <2>1, <2>2 DEF Reachable
<1>3. /\ kept \in Seq(1..MaxRecord)
      /\ \A i \in DOMAIN kept : kept[i] \in 1..(n - 1)
  BY <1>1 DEF FilesInv, FilesOK, ReadSoFar
<1>4. /\ kept' \in Seq(1..MaxRecord)
      /\ \A i \in DOMAIN kept' : kept'[i] \in 1..n
      /\ \A i, j \in DOMAIN kept' : i < j => kept'[i] < kept'[j]
  <2>1. \A i, j \in DOMAIN kept : i < j => kept[i] < kept[j]
    BY DEF FilesInv, ReadSoFar
  <2>2. CASE Filled(n)
    BY <1>1, <1>3, <2>1, <2>2
  <2>3. CASE ~Filled(n)
    BY <1>1, <1>3, <2>1, <2>3
  <2>4. QED
    BY <2>2, <2>3
<1>5. \A r : Taken(r)' <=> Taken(r) \/ (r = n /\ Filled(n))
  <2>1. CASE Filled(n)
    <3>1. /\ DOMAIN kept' = DOMAIN kept \cup {Len(kept) + 1} /\ kept'[Len(kept) + 1] = n
          /\ \A i \in DOMAIN kept : kept'[i] = kept[i]
      BY <1>1, <1>3, <2>1
    <3>2. QED
      BY <2>1, <3>1 DEF Taken
  <2>2. CASE ~Filled(n)
    BY <1>1, <2>2 DEF Taken
  <2>3. QED
    BY <2>1, <2>2
<1>6. \A r \in 1..n : Taken(r)' <=> Filled(r) /\ Reachable(r)
  <2>1. \A r \in 1..(n - 1) : Taken(r) <=> Filled(r) /\ Reachable(r)
    BY DEF FilesInv, ReadSoFar
  <2>2. ~Taken(n)
    BY <1>1, <1>3 DEF Taken
  <2>3. QED
    BY <1>1, <1>2, <1>5, <2>1, <2>2
<1>7. FilesOK'
  BY <1>1, <1>4 DEF FilesInv, FilesOK
<1>8. ReadSoFar'
  BY <1>1, <1>2, <1>4, <1>6, CardStays DEF ReadSoFar
<1>9. CountFits'
  BY <1>1, CardStays DEF CountFits
<1>10. NoGap'
  <2> SUFFICES ASSUME way = "at", ef = "pnn"
               PROVE  /\ kept' # <<>> => kept'[Len(kept')] = n
                      /\ \A i \in 1..(Len(kept') - 1) : kept'[i + 1] = kept'[i] + 1
    BY <1>1 DEF NoGap
  <2>1. Filled(n)
    BY <1>1 DEF FilesInv, FilesOK, ReadingFails, Filled
  <2>2. kept' = Append(kept, n)
    BY <1>1, <2>1
  <2>3. /\ kept # <<>> => kept[Len(kept)] = n - 1
        /\ \A i \in 1..(Len(kept) - 1) : kept[i + 1] = kept[i] + 1
    BY <1>1 DEF FilesInv, NoGap
  <2>4. /\ Len(kept) \in Nat /\ Len(kept') = Len(kept) + 1 /\ kept'[Len(kept) + 1] = n
        /\ \A i \in 1..Len(kept) : kept'[i] = kept[i]
    BY <1>3, <2>2
  <2>5. ASSUME NEW i \in 1..(Len(kept') - 1) PROVE kept'[i + 1] = kept'[i] + 1
    <3>1. CASE i < Len(kept)
      BY <2>3, <2>4, <3>1
    <3>2. CASE i = Len(kept)
      <4>1. kept # <<>> /\ kept[i] = n - 1
        BY <2>3, <2>4, <3>2
      <4>2. QED
        BY <1>1, <2>4, <3>2, <4>1
    <3>3. QED
      BY <2>4, <3>1, <3>2
  <2>6. QED
    BY <2>4, <2>5
<1>11. QED
  BY <1>7, <1>8, <1>9, <1>10 DEF FilesInv

\* At the end exactly the records are kept that are filled and that nothing in front of
\* them hides, each once and in order, and the names that AT reads have no gap: a rule
\* finds the name whose number it gives (queryPNNRecords, queryOPLRecords,
\* readSIMMetadata).
THEOREM RecordsAlwaysRead ==
  FileSpec => []RecordsRead
<1>1. FilesInv /\ [FileNext]_fileVars => FilesInv'
  <2> SUFFICES ASSUME FilesInv, [FileNext]_fileVars PROVE FilesInv'
    OBVIOUS
  <2>1. CASE UNCHANGED fileVars
    BY <2>1 DEF fileVars, FilesInv, FilesOK, ReadSoFar, CountFits, NoGap, Taken, Filled,
                Reachable, ReadingFails
  <2>2. QED
    BY <2>1, FailureKeeps, ReadingKeeps
<1>2. FilesInv => RecordsRead
  <2> SUFFICES ASSUME FilesInv PROVE RecordsRead
    OBVIOUS
  <2>1. ASSUME ~reading \/ nextRecord > MaxRecord, NEW r \in 1..MaxRecord
        PROVE  Taken(r) <=> Filled(r) /\ Reachable(r)
    <3>1. CASE r < nextRecord
      BY <3>1 DEF FilesInv, FilesOK, ReadSoFar
    <3>2. CASE r >= nextRecord
      <4>1. ~Reachable(r)
        BY <2>1, <3>2, FileAssumption DEF FilesInv, FilesOK, ReadSoFar
      <4>2. ~Taken(r)
        BY <3>2, FileAssumption DEF FilesInv, FilesOK, ReadSoFar, Taken
      <4>3. QED
        BY <4>1, <4>2
    <3>3. QED
      BY <3>1, <3>2, FileAssumption DEF FilesInv, FilesOK
  <2>2. QED
    BY <2>1 DEF FilesInv, ReadSoFar, NoGap, RecordsRead, Taken, Filled
<1>3. QED
  BY <1>1, <1>2, FilesStart, PTL DEF FileSpec
=============================================================================
