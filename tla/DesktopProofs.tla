--------------------------- MODULE DesktopProofs ---------------------------
(***************************************************************************)
(* Proofs about parts of the desktop application that share no state: the  *)
(* log and those who follow it (LogBroadcaster), for any number of them,   *)
(* the files that are replaced by a rename (SavedFiles), for any files and *)
(* callers and any number of updates, incoming calls (CallAutomation), for *)
(* any settings, numbers and number of calls, the handle of the module     *)
(* (USBBridge), for any callers, profiles and number of pluggings-in, its  *)
(* short messages (USBSMS), for any messages and number of faults, the     *)
(* notes and the prompt in it (ModuleMemory), for any profiles, entries    *)
(* and goroutines, its AT channel (USBAT), for any number of commands and  *)
(* passed deadlines, and what is passed on (PassedOn), for any recipients, *)
(* chats and recordings.                                                   *)
(***************************************************************************)
EXTENDS CallAutomation, LogBroadcaster, SavedFiles, USBBridge, USBSMS, ModuleMemory, USBAT,
  PassedOn, SequenceTheorems, FiniteSetTheorems, WellFoundedInduction, TLAPS

(***************************************************************************)
(* LogBroadcaster.                                                         *)
(***************************************************************************)
Line == Logger \X Nat

\* The variables keep their types.
LogTypeOK ==
  /\ clients \subseteq Client /\ leaving \subseteq Client
  /\ channel \in [Client -> [made : BOOLEAN, buffer : Seq(Line), closed : BOOLEAN]]
  /\ writing \in [Logger -> [line : Nat, left : SUBSET Client, locked : BOOLEAN,
                             for : SUBSET Client]]
  /\ lines \in [Logger -> Nat] /\ taken \in [Client -> Seq(Line)]
  /\ entitled \in [Client -> SUBSET Line] /\ excused \in [Client -> SUBSET Line]

\* Who is among the clients, or on its way out, has an open channel.
Channels ==
  /\ leaving \cap clients = {}
  /\ \A c \in clients \cup leaving : channel[c].made /\ ~channel[c].closed
  /\ \A c \in Client : channel[c].closed => channel[c].made

\* Whom a line still goes to is among the clients; it is the last of its logger.
Writing ==
  \A l \in Logger :
    /\ writing[l].locked => writing[l].left \subseteq clients /\ writing[l].line # 0
    /\ writing[l].line # 0 => writing[l].line = lines[l]

\* A line of l has still to go to c.
Due(l, c) ==
  writing[l].line # 0 /\ (~writing[l].locked \/ c \in writing[l].left)

\* What a client got of a logger is older than what the logger has still to give it.
Behind(e, c) ==
  /\ e[2] <= lines[e[1]]
  /\ Due(e[1], c) => e[2] < lines[e[1]]
Older == \A c \in Client : \A i \in DOMAIN Followed(c) : Behind(Followed(c)[i], c)

\* A client that was passed over had no room.
Passed ==
  \A l \in Logger : writing[l].locked =>
    \A c \in clients \ writing[l].left :
      <<l, writing[l].line>> \in excused[c] \cup ToSet(Followed(c))

LogInv == LogTypeOK /\ Channels /\ Writing /\ Older /\ Passed /\ LogFollowed

-----------------------------------------------------------------------------
\* Receive moves a line from the buffer to what was taken.
LEMMA MovedOver ==
  ASSUME NEW S, NEW s \in Seq(S), NEW t \in Seq(S), t # <<>>
  PROVE  /\ Append(s, Head(t)) \o Tail(t) = s \o t
         /\ Append(s, Head(t)) \in Seq(S) /\ Tail(t) \in Seq(S)
<1>1. Head(t) \in S /\ Tail(t) \in Seq(S) /\ Append(s, Head(t)) \in Seq(S)
  BY HeadTailProperties, AppendProperties
<1>2. Append(s, Head(t)) \o Tail(t) = s \o t
  OBVIOUS
<1>3. QED
  BY <1>1, <1>2

\* Broadcast puts a line behind those that a client has.
LEMMA PutBehind ==
  ASSUME NEW S, NEW s \in Seq(S), NEW t \in Seq(S), NEW e \in S
  PROVE  /\ s \o Append(t, e) = Append(s \o t, e)
         /\ Append(t, e) \in Seq(S) /\ s \o t \in Seq(S)
OBVIOUS

\* What a client has, after a line was put into its channel or taken out of it.
LEMMA FollowedMoves ==
  ASSUME LogTypeOK, NEW c \in Client
  PROVE  /\ Followed(c) \in Seq(Line)
         /\ taken' = taken /\ channel'[c].buffer = channel[c].buffer
              => Followed(c)' = Followed(c)
         /\ Receive(c) => Followed(c)' = Followed(c)
         /\ \A entry \in Line :
              /\ taken' = taken /\ channel'[c].buffer = Append(channel[c].buffer, entry)
                => Followed(c)' = Append(Followed(c), entry)
<1>1. channel[c].buffer \in Seq(Line) /\ taken[c] \in Seq(Line)
  BY DEF LogTypeOK
<1>2. Followed(c) \in Seq(Line)
  BY <1>1 DEF Followed
<1>3. ASSUME Receive(c) PROVE Followed(c)' = Followed(c)
  <2>1. taken'[c] = Append(taken[c], Head(channel[c].buffer))
    BY <1>3 DEF Receive, LogTypeOK
  <2>2. channel'[c].buffer = Tail(channel[c].buffer) /\ channel[c].buffer # <<>>
    BY <1>3 DEF Receive, LogTypeOK
  <2>3. Followed(c)' = Append(taken[c], Head(channel[c].buffer)) \o Tail(channel[c].buffer)
    BY <2>1, <2>2 DEF Followed
  <2>4. @ = taken[c] \o channel[c].buffer
    BY <1>1, <2>2, MovedOver, ZenonT(40)
  <2>5. QED
    BY <2>3, <2>4 DEF Followed
<1>4. ASSUME NEW entry \in Line, taken' = taken,
             channel'[c].buffer = Append(channel[c].buffer, entry)
      PROVE  Followed(c)' = Append(Followed(c), entry)
  <2>1. Followed(c)' = taken[c] \o Append(channel[c].buffer, entry)
    BY <1>4 DEF Followed
  <2>2. \A s, t \in Seq(Line) : s \o Append(t, entry) = Append(s \o t, entry)
    BY PutBehind
  <2>3. QED
    BY <1>1, <2>1, <2>2 DEF Followed
<1>5. QED
  BY <1>2, <1>3, <1>4 DEF Followed

LEMMA LogTypesKept ==
  ASSUME LogInv, [LogNext]_logVars
  PROVE  LogTypeOK'
<1>0. LogTypeOK
  BY DEF LogInv
<1>1. ASSUME NEW c \in Client, Subscribe(c) \/ Unsubscribe(c) \/ Close(c) PROVE LogTypeOK'
  <2>1. CASE Subscribe(c)
    <3>1. channel' \in [Client -> [made : BOOLEAN, buffer : Seq(Line), closed : BOOLEAN]]
      BY <1>0, <2>1 DEF LogTypeOK, Subscribe
    <3>2. QED
      BY <1>0, <2>1, <3>1 DEF LogTypeOK, Subscribe
  <2>2. CASE Unsubscribe(c)
    BY <1>0, <2>2 DEF LogTypeOK, Unsubscribe
  <2>3. CASE Close(c)
    <3>1. channel' \in [Client -> [made : BOOLEAN, buffer : Seq(Line), closed : BOOLEAN]]
      BY <1>0, <2>3 DEF LogTypeOK, Close
    <3>2. QED
      BY <1>0, <2>3, <3>1 DEF LogTypeOK, Close
  <2>4. QED
    BY <1>1, <2>1, <2>2, <2>3
<1>2. ASSUME NEW c \in Client, Receive(c) PROVE LogTypeOK'
  <2>1. /\ channel[c].buffer \in Seq(Line) /\ taken[c] \in Seq(Line)
        /\ channel[c].buffer # <<>>
    BY <1>0, <1>2 DEF LogTypeOK, Receive
  <2>2. /\ Append(taken[c], Head(channel[c].buffer)) \in Seq(Line)
        /\ Tail(channel[c].buffer) \in Seq(Line)
    BY <2>1, MovedOver
  <2>3. /\ taken' = [taken EXCEPT ![c] = Append(@, Head(channel[c].buffer))]
        /\ channel' = [channel EXCEPT ![c].buffer = Tail(@)]
    BY <1>2 DEF Receive
  <2>4. taken' \in [Client -> Seq(Line)]
    BY <1>0, <2>2, <2>3 DEF LogTypeOK
  <2>5. channel' \in [Client -> [made : BOOLEAN, buffer : Seq(Line), closed : BOOLEAN]]
    BY <1>0, <2>2, <2>3 DEF LogTypeOK
  <2>6. QED
    BY <1>0, <1>2, <2>4, <2>5 DEF LogTypeOK, Receive
<1>3. ASSUME NEW l \in Logger, WriteLine(l) PROVE LogTypeOK'
  <2>1. lines[l] + 1 \in Nat
    BY <1>0 DEF LogTypeOK
  <2>2. lines' \in [Logger -> Nat] /\ lines'[l] \in Nat
    BY <1>0, <1>3, <2>1 DEF LogTypeOK, WriteLine
  <2>3. writing' \in [Logger -> [line : Nat, left : SUBSET Client, locked : BOOLEAN,
                                 for : SUBSET Client]]
    <3>1. CASE clients = {}
      BY <1>0, <1>3, <3>1 DEF LogTypeOK, WriteLine
    <3>2. CASE clients # {}
      <4>1. writing' = [writing EXCEPT ![l].line = lines'[l], ![l].for = clients]
        BY <1>3, <3>2 DEF WriteLine
      <4>2. writing'[l] = [writing[l] EXCEPT !.line = lines'[l], !.for = clients]
        BY <1>0, <4>1 DEF LogTypeOK
      <4>3. writing'[l] \in [line : Nat, left : SUBSET Client, locked : BOOLEAN,
                             for : SUBSET Client]
        BY <1>0, <2>2, <4>2 DEF LogTypeOK
      <4>4. QED
        BY <1>0, <4>1, <4>3 DEF LogTypeOK
    <3>3. QED
      BY <3>1, <3>2
  <2>4. QED
    BY <1>0, <1>3, <2>2, <2>3 DEF LogTypeOK, WriteLine
<1>4. ASSUME NEW l \in Logger, RLock(l) PROVE LogTypeOK'
  <2>1. /\ clients \in SUBSET Client
        /\ writing[l] \in [line : Nat, left : SUBSET Client, locked : BOOLEAN,
                           for : SUBSET Client]
    BY <1>0 DEF LogTypeOK
  <2>2. writing' = [writing EXCEPT ![l] = [writing[l] EXCEPT !.locked = TRUE, !.left = clients]]
    BY <1>0, <1>4 DEF LogTypeOK, RLock
  <2>3. [writing[l] EXCEPT !.locked = TRUE, !.left = clients]
           \in [line : Nat, left : SUBSET Client, locked : BOOLEAN, for : SUBSET Client]
    BY <2>1
  <2>4. writing' \in [Logger -> [line : Nat, left : SUBSET Client, locked : BOOLEAN,
                                 for : SUBSET Client]]
    BY <1>0, <2>2, <2>3 DEF LogTypeOK
  <2>5. UNCHANGED <<clients, channel, leaving, lines, taken, entitled, excused, panicked>>
    BY <1>4 DEF RLock
  <2>6. QED
    BY <1>0, <2>4, <2>5 DEF LogTypeOK
<1>5. ASSUME NEW l \in Logger, RUnlock(l) PROVE LogTypeOK'
  <2>1. <<l, writing[l].line>> \in Line
    BY <1>0 DEF LogTypeOK, Line
  <2>2. entitled' \in [Client -> SUBSET Line]
    BY <1>0, <1>5, <2>1 DEF LogTypeOK, RUnlock
  <2>3. writing' \in [Logger -> [line : Nat, left : SUBSET Client, locked : BOOLEAN,
                                 for : SUBSET Client]]
    BY <1>0, <1>5 DEF LogTypeOK, RUnlock, NotWriting
  <2>4. QED
    BY <1>0, <1>5, <2>2, <2>3 DEF LogTypeOK, RUnlock
<1>6. ASSUME NEW l \in Logger, NEW c \in Client, Broadcast(l, c) PROVE LogTypeOK'
  <2>1. <<l, writing[l].line>> \in Line /\ channel[c].buffer \in Seq(Line)
    BY <1>0 DEF LogTypeOK, Line
  <2>2. Append(channel[c].buffer, <<l, writing[l].line>>) \in Seq(Line)
    BY <2>1, AppendProperties
  <2>3. excused' \in [Client -> SUBSET Line]
    BY <1>0, <1>6, <2>1 DEF LogTypeOK, Broadcast
  <2>4. channel' \in [Client -> [made : BOOLEAN, buffer : Seq(Line), closed : BOOLEAN]]
    BY <1>0, <1>6, <2>2, ZenonT(40) DEF LogTypeOK, Broadcast
  <2>5. writing' \in [Logger -> [line : Nat, left : SUBSET Client, locked : BOOLEAN,
                                 for : SUBSET Client]]
    BY <1>0, <1>6, ZenonT(40) DEF LogTypeOK, Broadcast
  <2>6. QED
    BY <1>0, <1>6, <2>3, <2>4, <2>5 DEF LogTypeOK, Broadcast
<1>7. CASE UNCHANGED logVars
  BY <1>0, <1>7 DEF LogTypeOK, logVars
<1>8. QED
  BY <1>1, <1>2, <1>3, <1>4, <1>5, <1>6, <1>7 DEF LogNext

LEMMA ChannelsKept ==
  ASSUME LogInv, [LogNext]_logVars
  PROVE  Channels' /\ Writing' /\ ~panicked'
<1>0. LogTypeOK /\ Channels /\ Writing /\ ~panicked
  BY DEF LogInv, LogFollowed
<1>1. ASSUME NEW c \in Client, Subscribe(c) PROVE Channels' /\ Writing' /\ ~panicked'
  BY <1>0, <1>1 DEF LogTypeOK, Channels, Writing, Reading, Subscribe
<1>2. ASSUME NEW c \in Client, Unsubscribe(c) PROVE Channels' /\ Writing' /\ ~panicked'
  BY <1>0, <1>2 DEF LogTypeOK, Channels, Writing, Reading, Unsubscribe
<1>3. ASSUME NEW c \in Client, Close(c) PROVE Channels' /\ Writing' /\ ~panicked'
  BY <1>0, <1>3 DEF LogTypeOK, Channels, Writing, Close
<1>4. ASSUME NEW c \in Client, Receive(c) PROVE Channels' /\ Writing' /\ ~panicked'
  <2>1. channel' = [channel EXCEPT ![c].buffer = Tail(@)]
    BY <1>4 DEF Receive
  <2>2. \A d \in Client : channel'[d].made = channel[d].made
                          /\ channel'[d].closed = channel[d].closed
    BY <1>0, <2>1 DEF LogTypeOK
  <2>3. QED
    BY <1>0, <1>4, <2>2 DEF LogTypeOK, Channels, Writing, Receive
<1>5. ASSUME NEW l \in Logger, WriteLine(l) PROVE Channels' /\ Writing' /\ ~panicked'
  BY <1>0, <1>5 DEF LogTypeOK, Channels, Writing, NotWriting, WriteLine
<1>6. ASSUME NEW l \in Logger, RLock(l) \/ RUnlock(l) PROVE Channels' /\ Writing' /\ ~panicked'
  <2>1. UNCHANGED <<clients, leaving, channel, lines, panicked>>
    BY <1>6 DEF RLock, RUnlock
  <2>2. Channels' /\ ~panicked'
    BY <1>0, <2>1 DEF Channels
  <2>3. CASE RLock(l)
    <3>1. \A m \in Logger :
            writing'[m] = IF m = l THEN [writing[l] EXCEPT !.locked = TRUE, !.left = clients]
                          ELSE writing[m]
      BY <1>0, <2>3 DEF LogTypeOK, RLock
    <3>2. writing[l].line # 0
      BY <2>3 DEF RLock
    <3>3. QED
      BY <1>0, <2>1, <2>2, <3>1, <3>2, ZenonT(40) DEF LogTypeOK, Writing
  <2>4. CASE RUnlock(l)
    <3>1. \A m \in Logger : writing'[m] = IF m = l THEN NotWriting ELSE writing[m]
      BY <1>0, <2>4 DEF LogTypeOK, RUnlock
    <3>2. ~NotWriting.locked /\ NotWriting.line = 0
      BY DEF NotWriting
    <3>3. QED
      BY <1>0, <2>1, <2>2, <3>1, <3>2 DEF LogTypeOK, Writing
  <2>5. QED
    BY <1>6, <2>2, <2>3, <2>4
<1>7. ASSUME NEW l \in Logger, NEW c \in Client, Broadcast(l, c)
      PROVE  Channels' /\ Writing' /\ ~panicked'
  <2>1. c \in clients
    BY <1>0, <1>7 DEF Writing, Broadcast
  <2>2. ~panicked'
    BY <1>0, <1>7, <2>1 DEF Channels, Broadcast
  <2>3. \A d \in Client : channel'[d].made = channel[d].made
                          /\ channel'[d].closed = channel[d].closed
    BY <1>0, <1>7 DEF LogTypeOK, Broadcast
  <2>4. Channels'
    BY <1>0, <1>7, <2>3 DEF LogTypeOK, Channels, Broadcast
  <2>5. Writing'
    BY <1>0, <1>7 DEF LogTypeOK, Writing, Broadcast
  <2>6. QED
    BY <2>2, <2>4, <2>5
<1>8. CASE UNCHANGED logVars
  BY <1>0, <1>8 DEF Channels, Writing, logVars
<1>9. QED
  BY <1>1, <1>2, <1>3, <1>4, <1>5, <1>6, <1>7, <1>8 DEF LogNext

\* What a client has grows only by a line that is put into its channel.
LEMMA FollowedSteps ==
  ASSUME LogInv, [LogNext]_logVars, NEW c \in Client
  PROVE  \/ Followed(c)' = Followed(c)
         \/ \E l \in Logger :
              /\ Broadcast(l, c) /\ <<l, writing[l].line>> \in Line
              /\ Followed(c)' = Append(Followed(c), <<l, writing[l].line>>)
<1>0. LogTypeOK
  BY DEF LogInv
<1>1. ASSUME taken' = taken, channel'[c].buffer = channel[c].buffer
      PROVE  Followed(c)' = Followed(c)
  BY <1>0, <1>1, FollowedMoves
<1>2. ASSUME NEW d \in Client, Subscribe(d) \/ Unsubscribe(d) \/ Close(d)
      PROVE  Followed(c)' = Followed(c)
  <2>1. taken' = taken
    BY <1>2 DEF Subscribe, Unsubscribe, Close
  <2>2. channel'[c].buffer = channel[c].buffer
    <3>1. CASE channel' = [channel EXCEPT ![d].made = TRUE]
      BY <1>0, <3>1 DEF LogTypeOK
    <3>2. CASE channel' = [channel EXCEPT ![d].closed = TRUE]
      BY <1>0, <3>2 DEF LogTypeOK
    <3>3. CASE channel' = channel
      BY <3>3
    <3>4. QED
      BY <1>2, <3>1, <3>2, <3>3 DEF Subscribe, Unsubscribe, Close
  <2>3. QED
    BY <1>1, <2>1, <2>2
<1>3. ASSUME NEW d \in Client, Receive(d) PROVE Followed(c)' = Followed(c)
  <2>1. CASE c = d
    BY <1>0, <1>3, <2>1, FollowedMoves
  <2>2. CASE c # d
    BY <1>0, <1>3, <2>2 DEF LogTypeOK, Receive, Followed
  <2>3. QED
    BY <2>1, <2>2
<1>4. ASSUME NEW l \in Logger, WriteLine(l) \/ RLock(l) \/ RUnlock(l)
      PROVE  Followed(c)' = Followed(c)
  BY <1>1, <1>4 DEF WriteLine, RLock, RUnlock
<1>5. ASSUME NEW l \in Logger, NEW d \in Client, Broadcast(l, d)
      PROVE  \/ Followed(c)' = Followed(c)
             \/ /\ Broadcast(l, c) /\ <<l, writing[l].line>> \in Line
                /\ Followed(c)' = Append(Followed(c), <<l, writing[l].line>>)
  <2>1. taken' = taken /\ <<l, writing[l].line>> \in Line
    BY <1>0, <1>5 DEF LogTypeOK, Line, Broadcast
  <2>2. CASE channel' = channel
    BY <1>1, <2>1, <2>2
  <2>3. CASE channel' = [channel EXCEPT ![d].buffer = Append(@, <<l, writing[l].line>>)]
    <3>1. CASE c = d
      <4>1. channel'[c].buffer = Append(channel[c].buffer, <<l, writing[l].line>>)
        BY <1>0, <2>3, <3>1 DEF LogTypeOK
      <4>2. QED
        BY <1>0, <1>5, <2>1, <3>1, <4>1, FollowedMoves
    <3>2. CASE c # d
      BY <1>0, <1>1, <2>1, <2>3, <3>2 DEF LogTypeOK
    <3>3. QED
      BY <3>1, <3>2
  <2>4. QED
    BY <1>5, <2>2, <2>3 DEF Broadcast
<1>6. CASE UNCHANGED logVars
  BY <1>1, <1>6 DEF logVars
<1>7. QED
  BY <1>2, <1>3, <1>4, <1>5, <1>6 DEF LogNext

\* A logger's lines only grow, and one that becomes due to a client is a new one.
LEMMA DueMoves ==
  ASSUME LogInv, [LogNext]_logVars, NEW l \in Logger, NEW c \in Client
  PROVE  /\ lines[l] \in Nat /\ lines'[l] \in Nat /\ lines[l] <= lines'[l]
         /\ Due(l, c)' => Due(l, c) \/ lines[l] < lines'[l]
<1>0. LogTypeOK /\ LogTypeOK'
  BY LogTypesKept DEF LogInv
<1>1. lines[l] \in Nat /\ lines'[l] \in Nat
  BY <1>0 DEF LogTypeOK
<1>2. ASSUME lines' = lines, writing'[l] = writing[l]
      PROVE  /\ lines[l] <= lines'[l]
             /\ Due(l, c)' => Due(l, c) \/ lines[l] < lines'[l]
  BY <1>1, <1>2 DEF Due
<1>3. ASSUME NEW d \in Client, Subscribe(d) \/ Unsubscribe(d) \/ Close(d) \/ Receive(d)
      PROVE  lines' = lines /\ writing'[l] = writing[l]
  BY <1>3 DEF Subscribe, Unsubscribe, Close, Receive
<1>4. ASSUME NEW k \in Logger, WriteLine(k)
      PROVE  /\ lines[l] <= lines'[l]
             /\ Due(l, c)' => Due(l, c) \/ lines[l] < lines'[l]
  <2>1. CASE k = l
    BY <1>0, <1>1, <1>4, <2>1 DEF LogTypeOK, WriteLine
  <2>2. CASE k # l
    <3>1. lines'[l] = lines[l] /\ writing'[l] = writing[l]
      BY <1>0, <1>4, <2>2 DEF LogTypeOK, WriteLine
    <3>2. QED
      BY <1>1, <3>1 DEF Due
  <2>3. QED
    BY <2>1, <2>2
<1>5. ASSUME NEW k \in Logger, RLock(k)
      PROVE  lines' = lines /\ (Due(l, c)' => Due(l, c))
  BY <1>0, <1>5 DEF LogTypeOK, RLock, Due
<1>6. ASSUME NEW k \in Logger, RUnlock(k)
      PROVE  lines' = lines /\ (Due(l, c)' => Due(l, c))
  <2>1. writing'[l] = IF k = l THEN NotWriting ELSE writing[l]
    BY <1>0, <1>6 DEF LogTypeOK, RUnlock
  <2>2. NotWriting.line = 0
    BY DEF NotWriting
  <2>3. QED
    BY <1>6, <2>1, <2>2 DEF RUnlock, Due
<1>7. ASSUME NEW k \in Logger, NEW d \in Client, Broadcast(k, d)
      PROVE  lines' = lines /\ (Due(l, c)' => Due(l, c))
  BY <1>0, <1>7 DEF LogTypeOK, Broadcast, Due
<1>8. CASE UNCHANGED logVars
  BY <1>2, <1>1, <1>8 DEF logVars
<1>9. QED
  BY <1>1, <1>2, <1>3, <1>4, <1>5, <1>6, <1>7, <1>8 DEF LogNext

\* A line that is put into a channel is younger than what its client has of that logger.
LEMMA BroadcastYounger ==
  ASSUME LogInv, NEW l \in Logger, NEW c \in Client, Broadcast(l, c)
  PROVE  /\ Due(l, c) /\ ~Due(l, c)' /\ writing[l].line = lines[l]
         /\ \A i \in DOMAIN Followed(c) :
              Followed(c)[i][1] = l => Followed(c)[i][2] < writing[l].line
<1>1. writing[l].locked /\ c \in writing[l].left /\ writing[l].line # 0
      /\ writing[l].line = lines[l]
  BY DEF LogInv, Writing, Broadcast
<1>2. writing'[l].locked /\ c \notin writing'[l].left
  BY <1>1 DEF LogInv, LogTypeOK, Broadcast
<1>3. QED
  BY <1>1, <1>2 DEF LogInv, Older, Behind, Due

\* The elements of a sequence that has grown by one.
LEMMA Appended ==
  ASSUME NEW s \in Seq(Line), NEW e \in Line
  PROVE  /\ DOMAIN Append(s, e) = 1..(Len(s) + 1) /\ DOMAIN s = 1..Len(s) /\ Len(s) \in Nat
         /\ \A i \in DOMAIN s : Append(s, e)[i] = s[i]
         /\ Append(s, e)[Len(s) + 1] = e
         /\ ToSet(Append(s, e)) = ToSet(s) \cup {e}
<1>1. /\ DOMAIN Append(s, e) = 1..(Len(s) + 1) /\ DOMAIN s = 1..Len(s) /\ Len(s) \in Nat
      /\ \A i \in DOMAIN s : Append(s, e)[i] = s[i]
      /\ Append(s, e)[Len(s) + 1] = e
  BY AppendProperties
<1>2. DOMAIN Append(s, e) = DOMAIN s \cup {Len(s) + 1}
  BY <1>1
<1>3. QED
  BY <1>1, <1>2 DEF ToSet

LEMMA OlderKept ==
  ASSUME LogInv, [LogNext]_logVars
  PROVE  Older'
<1> SUFFICES ASSUME NEW c \in Client, NEW i \in DOMAIN Followed(c)'
             PROVE  Behind(Followed(c)[i], c)'
  BY DEF Older
<1>0. LogTypeOK /\ Followed(c) \in Seq(Line)
  BY FollowedMoves DEF LogInv
<1>1. ASSUME NEW e \in Line, Behind(e, c) PROVE Behind(e, c)'
  <2>1. e[1] \in Logger /\ e[2] \in Nat
    BY DEF Line
  <2>2. QED
    BY <1>1, <2>1, DueMoves DEF Behind
<1>2. ASSUME NEW j \in DOMAIN Followed(c), Followed(c)'[i] = Followed(c)[j]
      PROVE  Behind(Followed(c)[i], c)'
  <2>1. Followed(c)[j] \in Line /\ Behind(Followed(c)[j], c)
    BY <1>0 DEF LogInv, Older
  <2>2. PICK e \in Line : e = Followed(c)[j]
    BY <2>1
  <2>3. Behind(e, c)'
    BY <1>1, <2>1, <2>2
  <2>4. QED
    BY <1>2, <2>2, <2>3 DEF Behind
<1>3. CASE Followed(c)' = Followed(c)
  BY <1>2, <1>3
<1>4. ASSUME NEW l \in Logger, Broadcast(l, c), <<l, writing[l].line>> \in Line,
             Followed(c)' = Append(Followed(c), <<l, writing[l].line>>)
      PROVE  Behind(Followed(c)[i], c)'
  <2>1. CASE i \in DOMAIN Followed(c)
    BY <1>0, <1>2, <1>4, <2>1, Appended
  <2>2. CASE i \notin DOMAIN Followed(c)
    <3>1. Followed(c)'[i] = <<l, writing[l].line>>
      BY <1>0, <1>4, <2>2, Appended
    <3>2. ~Due(l, c)' /\ writing[l].line = lines[l] /\ lines'[l] = lines[l]
      BY <1>4, BroadcastYounger DEF Broadcast
    <3>3. lines[l] \in Nat
      BY <1>0 DEF LogTypeOK
    <3>4. QED
      BY <3>1, <3>2, <3>3 DEF Behind
  <2>3. QED
    BY <2>1, <2>2
<1>5. QED
  BY <1>3, <1>4, FollowedSteps

LEMMA OrderKept ==
  ASSUME LogInv, [LogNext]_logVars, NEW c \in Client
  PROVE  \A i, j \in DOMAIN Followed(c)' :
           i < j /\ Followed(c)'[i][1] = Followed(c)'[j][1] =>
             Followed(c)'[i][2] < Followed(c)'[j][2]
<1>0. /\ Followed(c) \in Seq(Line)
      /\ \A i, j \in DOMAIN Followed(c) :
           i < j /\ Followed(c)[i][1] = Followed(c)[j][1] =>
             Followed(c)[i][2] < Followed(c)[j][2]
  BY FollowedMoves DEF LogInv, LogFollowed
<1>1. CASE Followed(c)' = Followed(c)
  BY <1>0, <1>1
<1>2. ASSUME NEW l \in Logger, Broadcast(l, c), <<l, writing[l].line>> \in Line,
             Followed(c)' = Append(Followed(c), <<l, writing[l].line>>),
             NEW i \in DOMAIN Followed(c)', NEW j \in DOMAIN Followed(c)',
             i < j, Followed(c)'[i][1] = Followed(c)'[j][1]
      PROVE  Followed(c)'[i][2] < Followed(c)'[j][2]
  <2>1. /\ i \in DOMAIN Followed(c) /\ Followed(c)'[i] = Followed(c)[i]
        /\ j \in DOMAIN Followed(c) => Followed(c)'[j] = Followed(c)[j]
        /\ j \notin DOMAIN Followed(c) => Followed(c)'[j] = <<l, writing[l].line>>
    BY <1>0, <1>2, Appended
  <2>2. CASE j \in DOMAIN Followed(c)
    BY <1>0, <1>2, <2>1, <2>2
  <2>3. CASE j \notin DOMAIN Followed(c)
    BY <1>2, <2>1, <2>3, BroadcastYounger
  <2>4. QED
    BY <2>2, <2>3
<1>3. QED
  BY <1>1, <1>2, FollowedSteps

\* What a client has, and what it had no room for, only grows.
LEMMA NothingTakenBack ==
  ASSUME LogInv, [LogNext]_logVars, NEW c \in Client
  PROVE  ToSet(Followed(c)) \subseteq ToSet(Followed(c)') /\ excused[c] \subseteq excused'[c]
<1>0. LogTypeOK /\ Followed(c) \in Seq(Line)
  BY FollowedMoves DEF LogInv
<1>1. ToSet(Followed(c)) \subseteq ToSet(Followed(c)')
  <2>1. CASE Followed(c)' = Followed(c)
    BY <2>1
  <2>2. ASSUME NEW e \in Line, Followed(c)' = Append(Followed(c), e)
        PROVE  ToSet(Followed(c)) \subseteq ToSet(Followed(c)')
    BY <1>0, <2>2, Appended
  <2>3. QED
    BY <2>1, <2>2, FollowedSteps
<1>2. excused[c] \subseteq excused'[c]
  <2>1. ASSUME NEW l \in Logger, NEW d \in Client, Broadcast(l, d)
        PROVE  excused[c] \subseteq excused'[c]
    BY <1>0, <2>1 DEF LogTypeOK, Broadcast
  <2>2. CASE excused' = excused
    BY <2>2
  <2>3. QED
    BY <2>1, <2>2 DEF LogNext, logVars, Subscribe, Unsubscribe, Close, Receive, WriteLine,
      RLock, RUnlock
<1>3. QED
  BY <1>1, <1>2

LEMMA PassedKept ==
  ASSUME LogInv, [LogNext]_logVars
  PROVE  Passed'
<1> SUFFICES ASSUME NEW l \in Logger, writing'[l].locked, NEW c \in clients' \ writing'[l].left
             PROVE  <<l, writing'[l].line>> \in excused'[c] \cup ToSet(Followed(c)')
  BY DEF Passed
<1>0. LogTypeOK /\ LogTypeOK' /\ Passed /\ c \in Client
  BY LogTypesKept DEF LogInv, LogTypeOK
<1>1. ASSUME writing[l].locked, writing'[l].line = writing[l].line,
             c \in clients \ writing[l].left
      PROVE  <<l, writing'[l].line>> \in excused'[c] \cup ToSet(Followed(c)')
  BY <1>0, <1>1, NothingTakenBack DEF Passed
<1>2. ASSUME NEW d \in Client, Subscribe(d) \/ Unsubscribe(d) PROVE FALSE
  BY <1>2 DEF Subscribe, Unsubscribe, Reading
<1>3. ASSUME NEW d \in Client, Close(d) \/ Receive(d)
      PROVE  writing' = writing /\ clients' = clients
  BY <1>3 DEF Close, Receive
<1>4. ASSUME NEW k \in Logger, WriteLine(k)
      PROVE  writing[l].locked /\ writing'[l] = writing[l] /\ clients' = clients
  <2>1. CASE k = l
    <3>1. ~writing[l].locked
      BY <1>4, <2>1 DEF WriteLine, NotWriting
    <3>2. writing'[l].locked = writing[l].locked
      BY <1>0, <1>4, <2>1 DEF LogTypeOK, WriteLine
    <3>3. QED
      BY <3>1, <3>2
  <2>2. CASE k # l
    BY <1>0, <1>4, <2>2 DEF LogTypeOK, WriteLine
  <2>3. QED
    BY <2>1, <2>2
<1>5. ASSUME NEW k \in Logger, RLock(k)
      PROVE  writing[l].locked /\ writing'[l] = writing[l] /\ clients' = clients
  BY <1>0, <1>5 DEF LogTypeOK, RLock
<1>6. ASSUME NEW k \in Logger, RUnlock(k)
      PROVE  writing[l].locked /\ writing'[l] = writing[l] /\ clients' = clients
  <2>1. writing'[l] = IF k = l THEN NotWriting ELSE writing[l]
    BY <1>0, <1>6 DEF LogTypeOK, RUnlock
  <2>2. ~NotWriting.locked
    BY DEF NotWriting
  <2>3. QED
    BY <1>6, <2>1, <2>2 DEF RUnlock
<1>7. ASSUME NEW k \in Logger, NEW d \in Client, Broadcast(k, d)
      PROVE  <<l, writing'[l].line>> \in excused'[c] \cup ToSet(Followed(c)')
  <2>1. /\ writing[l].locked /\ writing'[l].line = writing[l].line /\ clients' = clients
        /\ writing'[l].left = IF k = l THEN writing[l].left \ {d} ELSE writing[l].left
    <3>1. clients' = clients /\ writing' = [writing EXCEPT ![k].left = @ \ {d}]
      BY <1>7 DEF Broadcast
    <3>2. writing'[l] = IF k = l THEN [writing[l] EXCEPT !.left = writing[l].left \ {d}]
                        ELSE writing[l]
      BY <1>0, <3>1 DEF LogTypeOK
    <3>3. CASE k = l
      BY <1>0, <3>1, <3>2, <3>3 DEF LogTypeOK
    <3>4. CASE k # l
      BY <3>1, <3>2, <3>4
    <3>5. QED
      BY <3>3, <3>4
  <2>2. CASE k = l /\ d = c
    <3>1. CASE Len(channel[c].buffer) >= maxSize
      BY <1>0, <1>7, <2>1, <2>2, <3>1 DEF LogTypeOK, Broadcast
    <3>2. CASE ~(Len(channel[c].buffer) >= maxSize)
      <4>1. /\ taken' = taken
            /\ channel'[c].buffer = Append(channel[c].buffer, <<l, writing[l].line>>)
        BY <1>0, <1>7, <2>2, <3>2 DEF LogTypeOK, Broadcast
      <4>2. <<l, writing[l].line>> \in Line /\ Followed(c) \in Seq(Line)
        BY <1>0, FollowedMoves DEF LogTypeOK, Line
      <4>3. Followed(c)' = Append(Followed(c), <<l, writing[l].line>>)
        BY <1>0, <4>1, <4>2, FollowedMoves
      <4>4. QED
        BY <2>1, <4>2, <4>3, Appended
    <3>3. QED
      BY <3>1, <3>2
  <2>3. CASE ~(k = l /\ d = c)
    BY <1>1, <2>1, <2>3
  <2>4. QED
    BY <2>2, <2>3
<1>8. CASE UNCHANGED logVars
  BY <1>1, <1>8 DEF logVars
<1>9. QED
  BY <1>1, <1>2, <1>3, <1>4, <1>5, <1>6, <1>7, <1>8 DEF LogNext

\* What is due to a client when a line is done, it has or had no room for.
LEMMA EntitledKept ==
  ASSUME LogInv, [LogNext]_logVars, NEW c \in Client
  PROVE  entitled'[c] \ excused'[c] \subseteq ToSet(Followed(c)')
<1>0. LogTypeOK /\ Passed /\ entitled[c] \ excused[c] \subseteq ToSet(Followed(c))
  BY DEF LogInv, LogFollowed
<1>1. CASE entitled' = entitled
  BY <1>0, <1>1, NothingTakenBack
<1>2. ASSUME NEW l \in Logger, RUnlock(l)
      PROVE  entitled'[c] \ excused'[c] \subseteq ToSet(Followed(c)')
  <2>1. writing[l].locked /\ writing[l].left = {}
        /\ entitled'[c] = IF c \in clients \cap writing[l].for
                          THEN entitled[c] \cup {<<l, writing[l].line>>} ELSE entitled[c]
    BY <1>2 DEF RUnlock
  <2>2. c \in clients => <<l, writing[l].line>> \in excused[c] \cup ToSet(Followed(c))
    BY <1>0, <2>1 DEF Passed
  <2>3. QED
    BY <1>0, <2>1, <2>2, NothingTakenBack
<1>3. QED
  BY <1>1, <1>2 DEF LogNext, logVars, Subscribe, Unsubscribe, Close, Receive, WriteLine, RLock,
    Broadcast

\* Initially nobody follows the log.
LEMMA LogInitially == LogInit => LogInv
<1> SUFFICES ASSUME LogInit PROVE LogInv
  OBVIOUS
<1>1. LogTypeOK
  <2>1. <<>> \in Seq(Line) /\ 0 \in Nat
    OBVIOUS
  <2>2. NotWriting \in [line : Nat, left : SUBSET Client, locked : BOOLEAN, for : SUBSET Client]
    BY DEF NotWriting
  <2>3. writing \in [Logger -> [line : Nat, left : SUBSET Client, locked : BOOLEAN,
                                for : SUBSET Client]]
    BY <2>2 DEF LogInit
  <2>4. QED
    BY <2>1, <2>3 DEF LogInit, LogTypeOK
<1>2. \A c \in Client : Followed(c) = <<>>
  BY DEF LogInit, Followed
<1>3. \A l \in Logger : writing[l].line = 0 /\ ~writing[l].locked
  BY DEF LogInit, NotWriting
<1>4. Channels /\ Writing
  BY <1>3 DEF LogInit, Channels, Writing
<1>5. Older /\ Passed
  BY <1>2, <1>3 DEF Older, Passed
<1>6. LogFollowed
  BY <1>2 DEF LogInit, LogFollowed
<1>7. QED
  BY <1>1, <1>4, <1>5, <1>6 DEF LogInv

\* Nothing is sent to a closed channel, and a client has every line that was written while
\* it followed the log and found room, once and in order.
THEOREM EveryLineFollowed == LogSpec => []LogFollowed
<1>1. LogInv /\ [LogNext]_logVars => LogInv'
  <2> SUFFICES ASSUME LogInv, [LogNext]_logVars PROVE LogInv'
    OBVIOUS
  <2>1. LogFollowed'
    BY ChannelsKept, OrderKept, EntitledKept DEF LogFollowed
  <2>2. QED
    BY <2>1, LogTypesKept, ChannelsKept, OlderKept, PassedKept DEF LogInv
<1>2. LogInv => LogFollowed
  BY DEF LogInv
<1>3. QED
  BY LogInitially, <1>1, <1>2, PTL DEF LogSpec

(***************************************************************************)
(* DesktopFiles.                                                           *)
(***************************************************************************)
\* The variables keep their types.
FilesTypeOK ==
  /\ memory \in [File -> Nat] /\ loaded \in [File -> BOOLEAN]
  /\ disk \in [File -> Nat] /\ temporary \in [File -> Nat]
  /\ update \in [File -> {"idle", "write", "rename", "reply"}]
  /\ version \in [File -> 0..MaxVersion] /\ failures \in Nat
  /\ acknowledged \in [File -> Nat]

\* What was reported as saved is on the disk, or something newer, and nothing is newer
\* than what was asked for; the update at work is the newest, and has come as far as it
\* has.
Ahead(f) ==
  /\ acknowledged[f] <= disk[f] /\ disk[f] <= version[f] /\ memory[f] <= version[f]
  /\ update[f] # "idle" => memory[f] = version[f]
  /\ update[f] = "rename" => temporary[f] = memory[f]
  /\ update[f] = "reply" => disk[f] = memory[f]

FilesInv == FilesTypeOK /\ \A f \in File : Ahead(f)


-----------------------------------------------------------------------------
LEMMA FilesTypesKept ==
  ASSUME FilesInv, [FilesNext]_fileVars
  PROVE  FilesTypeOK'
<1>0. FilesTypeOK /\ MaxVersion \in Nat
  BY FilesAssumption DEF FilesInv
<1>1. ASSUME NEW f \in File, Load(f) PROVE FilesTypeOK'
  BY <1>0, <1>1 DEF FilesTypeOK, Load
<1>2. ASSUME NEW f \in File, Update(f),
             UNCHANGED <<loaded, disk, temporary, acknowledged, failures>>
      PROVE  FilesTypeOK'
  BY <1>0, <1>2 DEF FilesTypeOK, Update, GotoStep
<1>3. ASSUME NEW f \in File, WriteTemporary(f) PROVE FilesTypeOK'
  <2>1. Torn \in Nat
    BY <1>0 DEF Torn
  <2>2. temporary' \in [File -> Nat] /\ failures' \in Nat
    BY <1>0, <1>3, <2>1 DEF FilesTypeOK, WriteTemporary, Failure
  <2>3. QED
    BY <1>0, <1>3, <2>2 DEF FilesTypeOK, WriteTemporary, GotoStep
<1>4. ASSUME NEW f \in File, RenameFile(f) \/ Reply(f) PROVE FilesTypeOK'
  BY <1>0, <1>4 DEF FilesTypeOK, RenameFile, Reply, GotoStep, Failure
<1>5. CASE Crash
  BY <1>0, <1>5 DEF FilesTypeOK, Crash, Failure, Defaults
<1>6. CASE UNCHANGED fileVars
  BY <1>0, <1>6 DEF FilesTypeOK, fileVars
<1>7. QED
  BY <1>1, <1>2, <1>3, <1>4, <1>5, <1>6
    DEF FilesNext, LoadAutomation, LoadNotes, UpdateAutomation, UpdateNotes

LEMMA AheadKept ==
  ASSUME FilesInv, [FilesNext]_fileVars, NEW g \in File
  PROVE  Ahead(g)'
<1>0. FilesTypeOK /\ Ahead(g) /\ MaxVersion \in Nat
  BY FilesAssumption DEF FilesInv
<1>1. ASSUME NEW f \in File, Load(f) PROVE Ahead(g)'
  BY <1>0, <1>1 DEF FilesTypeOK, Load, Ahead
<1>2. ASSUME NEW f \in File, Update(f),
             UNCHANGED <<loaded, disk, temporary, acknowledged, failures>>
      PROVE  Ahead(g)'
  BY <1>0, <1>2 DEF FilesTypeOK, Update, GotoStep, Ahead
<1>3. ASSUME NEW f \in File, WriteTemporary(f) PROVE Ahead(g)'
  BY <1>0, <1>3 DEF FilesTypeOK, WriteTemporary, GotoStep, Ahead
<1>4. ASSUME NEW f \in File, RenameFile(f) PROVE Ahead(g)'
  BY <1>0, <1>4 DEF FilesTypeOK, RenameFile, GotoStep, Ahead
<1>5. ASSUME NEW f \in File, Reply(f) PROVE Ahead(g)'
  BY <1>0, <1>5 DEF FilesTypeOK, Reply, GotoStep, Ahead
<1>6. CASE Crash
  BY <1>0, <1>6 DEF FilesTypeOK, Crash, Defaults, Ahead
<1>7. CASE UNCHANGED fileVars
  BY <1>0, <1>7 DEF Ahead, fileVars
<1>8. QED
  BY <1>1, <1>2, <1>3, <1>4, <1>5, <1>6, <1>7
    DEF FilesNext, LoadAutomation, LoadNotes, UpdateAutomation, UpdateNotes

LEMMA AlwaysAhead == FilesSpec => []FilesKept
<1>1. FilesInit => FilesInv
  BY FilesAssumption DEF FilesInit, FilesInv, FilesTypeOK, Ahead, Defaults
<1>2. FilesInv /\ [FilesNext]_fileVars => FilesInv'
  BY FilesTypesKept, AheadKept DEF FilesInv
<1>3. FilesInv => FilesKept
  BY FilesAssumption DEF FilesInv, FilesTypeOK, Ahead, FilesKept, Torn
<1>4. QED
  BY <1>1, <1>2, <1>3, PTL DEF FilesSpec

(***************************************************************************)
(* ConfigStore.                                                            *)
(***************************************************************************)
IsText(t) == t = [devices |-> t.devices, web |-> t.web, notification |-> t.notification]

\* The variables keep their types, as far as the texts of the file are told apart.
ConfigTypeOK ==
  /\ inodes = [i \in Inode |-> inodes[i]] /\ \A i \in Inode : IsText(inodes[i])
  /\ IsText(globalConfig) /\ IsText(intended)
  /\ file \in Inode /\ tmp \in Inode \cup {None} /\ deviceFileMu \in Writer \cup {None}
  /\ pc \in [Writer -> {"idle", "lock", "read", "open", "write", "rename", "reload"}]
  /\ call \in [Writer -> Calls \cup {None}] /\ fd \in [Writer -> Inode \cup {None}]
  /\ doc = [w \in Writer |-> doc[w]]
  /\ \A w \in Writer : pc[w] \in {"open", "write", "rename"} => IsText(doc[w])
  /\ overlap \in BOOLEAN /\ calls \in Nat /\ faults \in Nat

\* A call that waits for the lock is about devices, and so is the one that has it.
Locked ==
  \A w \in Writer :
    /\ pc[w] # "idle" => call[w] \in Calls
    /\ pc[w] = "lock" => AboutDevices(call[w])
    /\ pc[w] = "reload" => AboutDevices(call[w])
    /\ deviceFileMu = w <=> Active(w) /\ AboutDevices(call[w])

\* Unless calls have overlapped, one at a time is at work.
Alone == ~overlap => \A v, w \in Writer : Active(v) /\ Active(w) => v = w

\* It has in hand what it makes of the file, and then has written that.
Written(w) ==
  /\ pc[w] \in {"open", "write", "rename"} => doc[w] \in Mutate(call[w], inodes[file])
  /\ pc[w] = "write" => tmp # None /\ fd[w] = tmp
  /\ pc[w] = "rename" => tmp # None /\ inodes[tmp] = doc[w]

\* The copy has the devices of the file, except between the rename and the reload.
InStep ==
  faults = 0 /\ ~overlap /\ (\A w \in Writer : pc[w] # "reload") =>
    globalConfig.devices = inodes[file].devices

ConfigInv ==
  /\ ConfigTypeOK /\ Locked /\ Alone /\ tmp # file
  /\ ~overlap => \A w \in Writer : Written(w)
  /\ NothingOverwritten /\ InStep


-----------------------------------------------------------------------------
\* A change of the devices makes a text of a text.
LEMMA TextChanged ==
  ASSUME NEW t, IsText(t), NEW d
  PROVE  /\ IsText([t EXCEPT !.devices = d])
         /\ IsText([t EXCEPT !.web = d]) /\ [t EXCEPT !.web = d].devices = t.devices
         /\ IsText([t EXCEPT !.notification = d])
         /\ [t EXCEPT !.notification = d].devices = t.devices
BY DEF IsText

\* A call makes at most one text of a text, and has its devices alone unless it is about them.
LEMMA MutatedOnce ==
  ASSUME NEW c \in Calls, NEW t, IsText(t)
  PROVE  /\ \A a, b \in Mutate(c, t) : a = b
         /\ \A a \in Mutate(c, t) : IsText(a) /\ (~AboutDevices(c) => a.devices = t.devices)
<1> DEFINE With(s) == {[t EXCEPT !.devices = d] : d \in s}
<1>1. c.do \in {"add", "delete", "update", "imei", "web", "notification"}
  BY DEF Calls
<1>2. ASSUME NEW s, \A x, y \in s : x = y
      PROVE  \A a, b \in With(s) : a = b /\ IsText(a)
  <2>1. \A d : IsText([t EXCEPT !.devices = d])
    BY TextChanged
  <2>2. QED
    BY <1>2, <2>1
<1>3. CASE c.do = "add"
  <2>1. Mutate(c, t) = With(AddDeviceInFile(t.devices, c))
    BY <1>3 DEF Mutate
  <2>2. \A x, y \in AddDeviceInFile(t.devices, c) : x = y
    BY DEF AddDeviceInFile
  <2>3. QED
    BY <1>2, <1>3, <2>1, <2>2 DEF AboutDevices
<1>4. CASE c.do = "update"
  <2>1. Mutate(c, t) = With(UpdateDeviceInFile(t.devices, c))
    BY <1>4 DEF Mutate
  <2>2. \A x, y \in UpdateDeviceInFile(t.devices, c) : x = y
    BY DEF UpdateDeviceInFile
  <2>3. QED
    BY <1>2, <1>4, <2>1, <2>2 DEF AboutDevices
<1>5. CASE c.do = "imei"
  <2>1. Mutate(c, t) = With(UpdateDeviceIMEIInFile(t.devices, c))
    BY <1>5 DEF Mutate
  <2>2. \A x, y \in UpdateDeviceIMEIInFile(t.devices, c) : x = y
    BY DEF UpdateDeviceIMEIInFile
  <2>3. QED
    BY <1>2, <1>5, <2>1, <2>2 DEF AboutDevices
<1>6. CASE c.do = "delete"
  <2>1. Mutate(c, t) = With(DeleteDeviceInFile(t.devices, c))
    BY <1>6 DEF Mutate
  <2>2. \A x, y \in DeleteDeviceInFile(t.devices, c) : x = y
    BY DEF DeleteDeviceInFile
  <2>3. QED
    BY <1>2, <1>6, <2>1, <2>2 DEF AboutDevices
<1>7. CASE c.do = "web"
  <2>1. Mutate(c, t) = {[t EXCEPT !.web = "saved"]}
    BY <1>7 DEF Mutate
  <2>2. IsText([t EXCEPT !.web = "saved"]) /\ [t EXCEPT !.web = "saved"].devices = t.devices
    BY TextChanged
  <2>3. QED
    BY <2>1, <2>2
<1>8. CASE c.do = "notification"
  <2>1. Mutate(c, t) = {[t EXCEPT !.notification = "saved"]}
    BY <1>8 DEF Mutate
  <2>2. /\ IsText([t EXCEPT !.notification = "saved"])
        /\ [t EXCEPT !.notification = "saved"].devices = t.devices
    BY TextChanged
  <2>3. QED
    BY <2>1, <2>2
<1>9. QED
  BY <1>1, <1>3, <1>4, <1>5, <1>6, <1>7, <1>8

\* What a call leaves behind when it is over.
LEMMA AfterReturn ==
  ASSUME ConfigInv, NEW w \in Writer, Returns(w)
  PROVE  /\ pc' \in [Writer -> {"idle", "lock", "read", "open", "write", "rename", "reload"}]
         /\ call' \in [Writer -> Calls \cup {None}] /\ fd' \in [Writer -> Inode \cup {None}]
         /\ doc' = [v \in Writer |-> doc'[v]]
         /\ deviceFileMu' \in Writer \cup {None}
         /\ pc'[w] = "idle" /\ deviceFileMu' # w
         /\ \A v \in Writer \ {w} :
              /\ pc'[v] = pc[v] /\ call'[v] = call[v] /\ doc'[v] = doc[v] /\ fd'[v] = fd[v]
              /\ deviceFileMu' = v <=> deviceFileMu = v
<1>1. /\ pc' = [pc EXCEPT ![w] = "idle"] /\ call' = [call EXCEPT ![w] = None]
      /\ doc' = [doc EXCEPT ![w] = None] /\ fd' = [fd EXCEPT ![w] = None]
      /\ deviceFileMu' = IF deviceFileMu = w THEN None ELSE deviceFileMu
  BY DEF Returns, Goto, Unlocked
<1>2. QED
  BY <1>1, ConfigAssumption DEF ConfigInv, ConfigTypeOK

LEMMA ConfigTypesKept ==
  ASSUME ConfigInv, [ConfigNext]_configVars
  PROVE  ConfigTypeOK'
<1>0. ConfigTypeOK /\ Locked
  BY DEF ConfigInv
<1>1. ASSUME NEW w \in Writer, Begin(w) PROVE ConfigTypeOK'
  <2>1. PICK c \in Calls :
          /\ call' = [call EXCEPT ![w] = c]
          /\ IF AboutDevices(c) THEN Goto(w, "lock") /\ UNCHANGED overlap
             ELSE Goto(w, "read") /\ Enters(w, c)
    BY <1>1 DEF Begin
  <2>2. pc' = [pc EXCEPT ![w] = "lock"] \/ pc' = [pc EXCEPT ![w] = "read"]
    BY <2>1 DEF Goto
  <2>3. overlap' \in BOOLEAN
    BY <1>0, <2>1 DEF ConfigTypeOK, Enters
  <2>4. /\ call' \in [Writer -> Calls \cup {None}]
        /\ pc' \in [Writer -> {"idle", "lock", "read", "open", "write", "rename", "reload"}]
    BY <1>0, <2>1, <2>2 DEF ConfigTypeOK
  <2>5. \A v \in Writer : pc'[v] \in {"open", "write", "rename"} => pc'[v] = pc[v]
    BY <1>0, <2>2 DEF ConfigTypeOK
  <2>6. QED
    BY <1>0, <1>1, <2>3, <2>4, <2>5 DEF ConfigTypeOK, Begin
<1>2. ASSUME NEW w \in Writer, Lock(w) PROVE ConfigTypeOK'
  BY <1>0, <1>2 DEF ConfigTypeOK, Lock, Goto, Enters
<1>3. ASSUME NEW w \in Writer, Read(w) PROVE ConfigTypeOK'
  <2>1. CASE Returns(w)
    BY <1>0, <1>3, <2>1, AfterReturn DEF ConfigTypeOK, Read
  <2>2. ASSUME NEW t \in Mutate(call[w], inodes[file]),
               doc' = [doc EXCEPT ![w] = t], Goto(w, "open"), UNCHANGED <<call, fd,
               deviceFileMu>>
        PROVE  ConfigTypeOK'
    <3>1. IsText(t)
      BY <1>0, <1>3, MutatedOnce DEF ConfigTypeOK, Locked, Read
    <3>2. QED
      BY <1>0, <1>3, <2>2, <3>1 DEF ConfigTypeOK, Read, Goto
  <2>3. QED
    BY <1>3, <2>1, <2>2 DEF Read
<1>4. ASSUME NEW w \in Writer, Open(w) PROVE ConfigTypeOK'
  <2>1. IsText(Empty)
    BY DEF IsText, Empty
  <2>2. QED
    BY <1>0, <1>4, <2>1 DEF ConfigTypeOK, Open, Goto
<1>5. ASSUME NEW w \in Writer, Write(w) PROVE ConfigTypeOK'
  <2>1. IsText(doc[w])
    BY <1>0, <1>5 DEF ConfigTypeOK, Write
  <2>2. QED
    BY <1>0, <1>5, <2>1 DEF ConfigTypeOK, Write, Goto
<1>6. ASSUME NEW w \in Writer, Rename(w) PROVE ConfigTypeOK'
  <2>1. call[w] \in Calls
    BY <1>0, <1>6 DEF Locked, Rename
  <2>2. IsText(intended')
    BY <1>0, <1>6, <2>1, MutatedOnce DEF ConfigTypeOK, Rename
  <2>3. file' \in Inode /\ tmp' \in Inode \cup {None}
    BY <1>0, <1>6 DEF ConfigTypeOK, Rename
  <2>4. CASE Returns(w)
    BY <1>0, <1>6, <2>2, <2>3, <2>4, AfterReturn DEF ConfigTypeOK, Rename
  <2>5. CASE Goto(w, "reload") /\ UNCHANGED <<call, doc, fd, deviceFileMu>>
    BY <1>0, <1>6, <2>2, <2>3, <2>5 DEF ConfigTypeOK, Rename, Goto
  <2>6. QED
    BY <1>6, <2>4, <2>5 DEF Rename
<1>7. ASSUME NEW w \in Writer, ReloadFromFile(w) PROVE ConfigTypeOK'
  BY <1>0, <1>7, AfterReturn DEF ConfigTypeOK, ReloadFromFile
<1>8. ASSUME NEW w \in Writer, Fails(w) PROVE ConfigTypeOK'
  BY <1>0, <1>8, AfterReturn DEF ConfigTypeOK, Fails
<1>9. CASE Restart
  BY <1>0, <1>9 DEF ConfigTypeOK, Restart
<1>10. CASE UNCHANGED configVars
  BY <1>0, <1>10 DEF ConfigTypeOK, configVars
<1>11. QED
  BY <1>1, <1>2, <1>3, <1>4, <1>5, <1>6, <1>7, <1>8, <1>9, <1>10 DEF ConfigNext

LEMMA LockedKept ==
  ASSUME ConfigInv, [ConfigNext]_configVars
  PROVE  Locked'
<1>0. ConfigTypeOK /\ Locked
  BY DEF ConfigInv
<1>1. ASSUME NEW w \in Writer, Begin(w) PROVE Locked'
  BY <1>0, <1>1 DEF ConfigTypeOK, Locked, Active, Begin, Goto
<1>2. ASSUME NEW w \in Writer, Lock(w) PROVE Locked'
  BY <1>0, <1>2, ConfigAssumption DEF ConfigTypeOK, Locked, Active, Lock, Goto
<1>3. ASSUME NEW w \in Writer, Returns(w) PROVE Locked'
  BY <1>0, <1>3, AfterReturn DEF Locked, Active
<1>4. ASSUME NEW w \in Writer, NEW l, pc[w] \in {"read", "open", "write", "rename"},
             Goto(w, l), l \in {"open", "write", "rename", "reload"},
             l = "reload" => AboutDevices(call[w]), UNCHANGED <<call, deviceFileMu>>
      PROVE  Locked'
  BY <1>0, <1>4 DEF ConfigTypeOK, Locked, Active, Goto
<1>5. CASE Restart
  BY <1>5, ConfigAssumption DEF Locked, Active, Restart
<1>6. CASE UNCHANGED configVars
  BY <1>0, <1>6 DEF Locked, Active, configVars
<1>7. QED
  BY <1>1, <1>2, <1>3, <1>4, <1>5, <1>6
    DEF ConfigNext, Read, Open, Write, Rename, ReloadFromFile, Fails

\* A call that is not about devices sets overlap when another is at work; one that is has
\* the lock to itself.
LEMMA AloneKept ==
  ASSUME ConfigInv, [ConfigNext]_configVars
  PROVE  Alone' /\ (overlap => overlap')
<1>0. ConfigTypeOK /\ Locked /\ Alone
  BY DEF ConfigInv
<1>1. ASSUME overlap => overlap', \A v \in Writer : Active(v)' => Active(v)
      PROVE  Alone' /\ (overlap => overlap')
  BY <1>0, <1>1 DEF Alone
<1>2. ASSUME NEW w \in Writer, NEW c, Enters(w, c),
             \A v \in Writer \ {w} : Active(v)' => Active(v),
             \A v \in Writer \ {w} : Active(v) => ~(AboutDevices(c) /\ AboutDevices(call[v]))
      PROVE  Alone' /\ (overlap => overlap')
  BY <1>0, <1>2 DEF Alone, Enters
<1>3. ASSUME NEW w \in Writer, Begin(w) PROVE Alone' /\ (overlap => overlap')
  <2>1. PICK c \in Calls : IF AboutDevices(c) THEN Goto(w, "lock") /\ UNCHANGED overlap
                           ELSE Goto(w, "read") /\ Enters(w, c)
    BY <1>3 DEF Begin
  <2>2. \A v \in Writer \ {w} : Active(v)' => Active(v)
    BY <1>0, <2>1 DEF ConfigTypeOK, Goto, Active
  <2>3. CASE AboutDevices(c)
    BY <1>0, <1>1, <2>1, <2>2, <2>3 DEF ConfigTypeOK, Goto, Active
  <2>4. CASE ~AboutDevices(c)
    BY <1>2, <2>1, <2>2, <2>4
  <2>5. QED
    BY <2>3, <2>4
<1>4. ASSUME NEW w \in Writer, Lock(w) PROVE Alone' /\ (overlap => overlap')
  <2>1. \A v \in Writer \ {w} : Active(v)' => Active(v)
    BY <1>0, <1>4 DEF ConfigTypeOK, Lock, Goto, Active
  <2>2. \A v \in Writer : Active(v) => ~AboutDevices(call[v])
    BY <1>0, <1>4, ConfigAssumption DEF Locked, Lock
  <2>3. QED
    BY <1>2, <1>4, <2>1, <2>2 DEF Lock
<1>5. ASSUME NEW w \in Writer, NEW l, pc[w] \notin {"idle", "lock"}, Goto(w, l),
             UNCHANGED overlap
      PROVE  Alone' /\ (overlap => overlap')
  BY <1>0, <1>1, <1>5 DEF ConfigTypeOK, Goto, Active
<1>6. CASE Restart
  BY <1>1, <1>6 DEF Restart, Active
<1>7. CASE UNCHANGED configVars
  BY <1>1, <1>7 DEF Active, configVars
<1>8. QED
  BY <1>3, <1>4, <1>5, <1>6, <1>7
    DEF ConfigNext, Read, Open, Write, Rename, ReloadFromFile, Fails, Returns

\* The two names never stand for one inode.
LEMMA NamesApart ==
  ASSUME ConfigInv, [ConfigNext]_configVars
  PROVE  tmp' # file'
<1>1. tmp # file /\ file \in Inode /\ tmp \in Inode \cup {None}
  BY DEF ConfigInv, ConfigTypeOK
<1>2. ASSUME NEW w \in Writer, Open(w) PROVE tmp' # file'
  BY <1>1, <1>2 DEF Open
<1>3. ASSUME NEW w \in Writer, Rename(w) PROVE tmp' # file'
  BY <1>1, <1>3, ConfigAssumption DEF Rename
<1>4. QED
  BY <1>1, <1>2, <1>3
    DEF ConfigNext, configVars, Restart, Begin, Lock, Read, Write, ReloadFromFile, Fails

\* The file is never written to where it is, when one call at a time is at work.
LEMMA FileUntouched ==
  ASSUME ConfigInv, ~overlap, [ConfigNext]_configVars, file' = file
  PROVE  inodes'[file'] = inodes[file]
<1>1. /\ tmp # file /\ inodes = [i \in Inode |-> inodes[i]] /\ file \in Inode
      /\ \A w \in Writer : Written(w)
  BY DEF ConfigInv, ConfigTypeOK
<1>2. ASSUME NEW w \in Writer, Open(w) PROVE inodes'[file] = inodes[file]
  BY <1>1, <1>2 DEF Open
<1>3. ASSUME NEW w \in Writer, Write(w) PROVE inodes'[file] = inodes[file]
  BY <1>1, <1>3 DEF Write, Written
<1>4. QED
  BY <1>1, <1>2, <1>3
    DEF ConfigNext, configVars, Restart, Begin, Lock, Read, Rename, ReloadFromFile, Fails

LEMMA WrittenKept ==
  ASSUME ConfigInv, ~overlap', [ConfigNext]_configVars, NEW v \in Writer
  PROVE  Written(v)'
<1>0. /\ ConfigTypeOK /\ Locked /\ ~overlap /\ tmp # file
      /\ \A w \in Writer : Written(w)
      /\ \A w \in Writer : Active(v) /\ Active(w) => v = w
  BY AloneKept DEF ConfigInv, Alone
<1>1. ASSUME pc'[v] \notin {"open", "write", "rename"} PROVE Written(v)'
  BY <1>1 DEF Written
<1>2. ASSUME pc'[v] = pc[v], call'[v] = call[v], doc'[v] = doc[v], fd'[v] = fd[v],
             UNCHANGED <<inodes, file, tmp>>
      PROVE  Written(v)'
  BY <1>0, <1>2 DEF Written
<1>3. ASSUME NEW w \in Writer, w # v, Active(w), pc'[v] = pc[v] PROVE Written(v)'
  BY <1>0, <1>1, <1>3 DEF Active
<1>4. ASSUME NEW w \in Writer, NEW l, Goto(w, l), w # v PROVE pc'[v] = pc[v]
  BY <1>0, <1>4 DEF ConfigTypeOK, Goto
<1>5. ASSUME Returns(v) PROVE Written(v)'
  BY <1>1, <1>5, AfterReturn
<1>6. ASSUME NEW w \in Writer, Begin(w) PROVE Written(v)'
  <2>1. CASE w = v
    BY <1>0, <1>1, <1>6, <2>1 DEF ConfigTypeOK, Begin, Goto
  <2>2. CASE w # v
    BY <1>0, <1>2, <1>6, <2>2 DEF ConfigTypeOK, Begin, Goto
  <2>3. QED
    BY <2>1, <2>2
<1>7. ASSUME NEW w \in Writer, Lock(w) PROVE Written(v)'
  <2>1. CASE w = v
    BY <1>0, <1>1, <1>7, <2>1 DEF ConfigTypeOK, Lock, Goto
  <2>2. CASE w # v
    BY <1>0, <1>2, <1>4, <1>7, <2>2 DEF Lock
  <2>3. QED
    BY <2>1, <2>2
<1>8. ASSUME Read(v) PROVE Written(v)'
  <2>1. ASSUME NEW t \in Mutate(call[v], inodes[file]),
               doc' = [doc EXCEPT ![v] = t], Goto(v, "open"), UNCHANGED <<call, fd,
               deviceFileMu>>
        PROVE  Written(v)'
    <3>1. pc'[v] = "open" /\ doc'[v] = t /\ call'[v] = call[v] /\ inodes'[file'] = inodes[file]
      BY <1>0, <1>8, <2>1 DEF ConfigTypeOK, Read, Goto
    <3>2. Mutate(call[v], inodes[file])' = Mutate(call[v], inodes[file])
      BY <1>8, <2>1 DEF Read
    <3>3. QED
      BY <3>1, <3>2 DEF Written
  <2>2. QED
    BY <1>5, <1>8, <2>1 DEF Read
<1>9. ASSUME Open(v) PROVE Written(v)'
  <2>1. PICK i \in Inode : tmp' = i /\ fd' = [fd EXCEPT ![v] = i]
    BY <1>9 DEF Open
  <2>2. pc'[v] = "write" /\ fd'[v] = i /\ i # None
    BY <1>0, <1>9, <2>1, ConfigAssumption DEF ConfigTypeOK, Open, Goto
  <2>3. inodes'[file'] = inodes[file]
    BY <1>0, <1>9, FileUntouched DEF Open
  <2>4. doc'[v] \in Mutate(call'[v], inodes'[file'])
    BY <1>0, <1>9, <2>3 DEF Open, Written
  <2>5. QED
    BY <2>1, <2>2, <2>4 DEF Written
<1>10. ASSUME Write(v) PROVE Written(v)'
  <2>1. fd[v] = tmp /\ tmp \in Inode /\ doc[v] \in Mutate(call[v], inodes[file])
    BY <1>0, <1>10 DEF ConfigTypeOK, Write, Written
  <2>2. inodes'[tmp] = doc[v] /\ pc'[v] = "rename" /\ tmp # None
    BY <1>0, <1>10, <2>1, ConfigAssumption DEF ConfigTypeOK, Write, Goto
  <2>3. inodes'[file'] = inodes[file]
    BY <1>0, <1>10, FileUntouched DEF Write
  <2>4. doc'[v] \in Mutate(call'[v], inodes'[file'])
    BY <1>10, <2>1, <2>3 DEF Write
  <2>5. QED
    BY <1>10, <2>2, <2>4 DEF Write, Written
<1>11. ASSUME Rename(v) \/ ReloadFromFile(v) \/ Fails(v) PROVE Written(v)'
  BY <1>0, <1>1, <1>5, <1>11 DEF ConfigTypeOK, Rename, ReloadFromFile, Fails, Goto
<1>12. ASSUME NEW w \in Writer, w # v,
              Read(w) \/ Open(w) \/ Write(w) \/ Rename(w) \/ ReloadFromFile(w) \/ Fails(w)
       PROVE  Written(v)'
  BY <1>3, <1>4, <1>12
    DEF Active, Read, Open, Write, Rename, ReloadFromFile, Fails, Returns
<1>13. CASE Restart
  BY <1>1, <1>13 DEF Restart
<1>14. CASE UNCHANGED configVars
  BY <1>2, <1>14 DEF configVars
<1>15. QED
  BY <1>6, <1>7, <1>8, <1>9, <1>10, <1>11, <1>12, <1>13, <1>14 DEF ConfigNext

\* What a rename puts in place of the file, when one call at a time is at work.
LEMMA RenamedOnce ==
  ASSUME ConfigInv, ~overlap, NEW w \in Writer, Rename(w)
  PROVE  /\ inodes'[file'] = intended'
         /\ ~AboutDevices(call[w]) => inodes'[file'].devices = inodes[file].devices
         /\ AboutDevices(call[w]) => Goto(w, "reload")
<1>1. /\ inodes[tmp] = doc[w] /\ tmp # None /\ doc[w] \in Mutate(call[w], inodes[file])
      /\ call[w] \in Calls /\ IsText(inodes[file]) /\ inodes[file] = intended
  BY DEF ConfigInv, ConfigTypeOK, Locked, Written, NothingOverwritten, Rename
<1>2. /\ file' = tmp /\ inodes' = inodes
      /\ \E t \in IF Mutate(call[w], intended) = {} THEN {intended}
                  ELSE Mutate(call[w], intended) : intended' = t
      /\ AboutDevices(call[w]) => Goto(w, "reload")
  BY <1>1 DEF Rename
<1>3. QED
  BY <1>1, <1>2, MutatedOnce

LEMMA NothingOverwrittenKept ==
  ASSUME ConfigInv, [ConfigNext]_configVars
  PROVE  NothingOverwritten'
<1> SUFFICES ASSUME ~overlap' PROVE inodes'[file'] = intended'
  BY DEF NothingOverwritten
<1>0. ~overlap /\ inodes[file] = intended
  BY AloneKept DEF ConfigInv, NothingOverwritten
<1>1. ASSUME NEW w \in Writer, Rename(w) PROVE inodes'[file'] = intended'
  BY <1>0, <1>1, RenamedOnce
<1>2. CASE intended' = intended /\ file' = file
  BY <1>0, <1>2, FileUntouched
<1>3. QED
  BY <1>1, <1>2 DEF ConfigNext, configVars, Restart, Begin, Lock, Read, Open, Write,
    ReloadFromFile, Fails

LEMMA InStepKept ==
  ASSUME ConfigInv, [ConfigNext]_configVars
  PROVE  InStep'
<1> SUFFICES ASSUME faults' = 0, ~overlap', \A w \in Writer : pc'[w] # "reload"
             PROVE  globalConfig'.devices = inodes'[file'].devices
  BY DEF InStep
<1>0. ConfigTypeOK /\ InStep /\ ~overlap
  BY AloneKept DEF ConfigInv
<1>1. ASSUME faults' = faults, \A w \in Writer : pc[w] # "reload", globalConfig' = globalConfig,
             inodes'[file'].devices = inodes[file].devices
      PROVE  globalConfig'.devices = inodes'[file'].devices
  BY <1>0, <1>1 DEF InStep
<1>2. ASSUME NEW w \in Writer, NEW l, pc[w] # "reload", Goto(w, l)
      PROVE  \A v \in Writer : pc[v] # "reload"
  BY <1>0, <1>2 DEF ConfigTypeOK, Goto
<1>3. ASSUME NEW w \in Writer, Rename(w)
      PROVE  globalConfig'.devices = inodes'[file'].devices
  <2>1. ~AboutDevices(call[w])
    BY <1>0, <1>3, RenamedOnce DEF ConfigTypeOK, Goto
  <2>2. \A v \in Writer : pc[v] # "reload"
    BY <1>2, <1>3 DEF Rename, Returns
  <2>3. QED
    BY <1>0, <1>1, <1>3, <2>1, <2>2, RenamedOnce DEF Rename
<1>4. ASSUME NEW w \in Writer, ReloadFromFile(w)
      PROVE  globalConfig'.devices = inodes'[file'].devices
  BY <1>4 DEF ReloadFromFile
<1>5. ASSUME NEW w \in Writer, Begin(w) \/ Lock(w) \/ Read(w) \/ Open(w) \/ Write(w)
      PROVE  globalConfig'.devices = inodes'[file'].devices
  <2>1. faults' = faults /\ globalConfig' = globalConfig /\ file' = file
    BY <1>5 DEF Begin, Lock, Read, Open, Write
  <2>2. \A v \in Writer : pc[v] # "reload"
    BY <1>2, <1>5 DEF Begin, Lock, Read, Open, Write, Returns
  <2>3. QED
    BY <1>0, <1>1, <2>1, <2>2, FileUntouched
<1>6. ASSUME faults' = faults + 1 PROVE FALSE
  BY <1>0, <1>6 DEF ConfigTypeOK
<1>7. CASE UNCHANGED configVars
  BY <1>0, <1>1, <1>7 DEF configVars
<1>8. QED
  BY <1>3, <1>4, <1>5, <1>6, <1>7 DEF ConfigNext, Restart, Fails

LEMMA ConfigInitially == ConfigInit => ConfigInv
<1> SUFFICES ASSUME ConfigInit PROVE ConfigInv
  OBVIOUS
<1> DEFINE First(d) == [devices |-> d, web |-> "first", notification |-> "first"]
<1>1. PICK first :
        /\ IsText(first)
        /\ inodes = [i \in Inode |-> IF i = 0 THEN first ELSE Empty]
        /\ globalConfig = first /\ intended = first
  <2>1. \A d : IsText(First(d))
    BY DEF IsText
  <2>2. \E d : /\ inodes = [i \in Inode |-> IF i = 0 THEN First(d) ELSE Empty]
              /\ globalConfig = First(d) /\ intended = First(d)
    BY DEF ConfigInit
  <2>3. QED
    BY <2>1, <2>2
<1>2. 0 \in Inode /\ IsText(Empty)
  BY DEF Inode, IsText, Empty
<1>3. ConfigTypeOK
  BY <1>1, <1>2 DEF ConfigInit, ConfigTypeOK
<1>4. \A w \in Writer : ~Active(w) /\ pc[w] = "idle"
  BY DEF ConfigInit, Active
<1>5. Locked /\ Alone /\ tmp # file /\ \A w \in Writer : Written(w)
  BY <1>2, <1>4, ConfigAssumption DEF ConfigInit, Locked, Alone, Written
<1>6. NothingOverwritten /\ InStep
  BY <1>1, <1>2 DEF ConfigInit, NothingOverwritten, InStep
<1>7. QED
  BY <1>3, <1>5, <1>6 DEF ConfigInv

LEMMA ConfigAlwaysKept == ConfigSpec => []ConfigKept
<1>1. ConfigInv /\ [ConfigNext]_configVars => ConfigInv'
  BY ConfigTypesKept, LockedKept, AloneKept, NamesApart, WrittenKept, NothingOverwrittenKept,
    InStepKept DEF ConfigInv
<1>2. ConfigInv => ConfigKept
  BY ConfigAssumption DEF ConfigInv, ConfigKept, MemoryInStep, InStep, Locked, Active
<1>3. QED
  BY ConfigInitially, <1>1, <1>2, PTL DEF ConfigSpec

\* Whatever fails, and wherever the program ends, a file holds what was reported as saved,
\* and no replacement of the configuration is lost unless two calls overlapped.
THEOREM NothingSavedLost == FilesSpec /\ ConfigSpec => []SavedIsKept
<1>1. FilesKept /\ ConfigKept => SavedIsKept
  BY DEF SavedIsKept
<1>2. QED
  BY <1>1, AlwaysAhead, ConfigAlwaysKept, PTL

(***************************************************************************)
(* CallAutomation.                                                         *)
(***************************************************************************)
Place == {"none", "delay", "lead", "check", "claim", "ata", "answered", "settle", "record",
          "attach", "stay", "ath", "clear", "stop", "done"}
Recorder == {"none", "running", "attached", "dropped", "finishing", "saved", "lost"}
Warmup == {"none", "starting", "started", "not started", "ready", "failed", "taken", "gone"}

\* What the module may say of a caller's number.
Heard == {"unknown"} \cup {Number[i] : i \in DOMAIN Number}

\* The variables keep their types.
CallTypeOK ==
  /\ settings \in Settings
  /\ line \in {NoLine} \cup ({arrived} \X {"ringing", "talking"})
  /\ arrived \in 0..Len(Number) /\ (arrived = 0 => line = NoLine)
  /\ activeCall \in [id : Nat, number : Heard, claimed : BOOLEAN, recording : Nat]
  /\ callEventID \in 0..MaxEvents
  /\ goroutine \in [Role -> [Event -> Place]]
  /\ poller \in {<<"idle">>, <<"nothing">>, <<"talking">>} \cup ({"incoming"} \X Heard)
  /\ hanger \in {"idle", "ath", "clear"}
  /\ callbacks \in SUBSET ({"ring", "clip", "hangup"} \X Heard)
  /\ presses \in Nat
  /\ route \in BOOLEAN /\ warmup \in [Event -> Warmup]
  /\ drain \in SUBSET Event /\ routed \in SUBSET (Role \X Event)
  /\ recorder \in [Event -> Recorder]
  /\ answered \in SUBSET (DOMAIN Number) /\ swapped \in BOOLEAN

\* The active call is the last one that was noticed, and of those to come nothing is known.
ActiveFits ==
  /\ activeCall # NoCall => activeCall.id = callEventID /\ callEventID # 0
  /\ activeCall.recording \in {0, activeCall.id}
  /\ \A e \in Event : e > callEventID =>
       recorder[e] = "none" /\ \A r \in Role : goroutine[r][e] = "none"

\* Who handles the active call has claimed it, and who is about to hand over a recorder has
\* started it.
Workflows ==
  /\ \A r \in Role, e \in Event :
       /\ goroutine[r][e] \in Handling /\ activeCall.id = e => activeCall.claimed
       /\ goroutine[r][e] = "attach" => recorder[e] = "running"
  /\ OneWorkflow /\ RecordersOwned

\* Unless calls overlapped, whatever is known of a call is about the last one that came, and
\* who is about to answer has found its number allowed.
Latest == IF arrived = 0 THEN "unknown" ELSE Number[arrived]
AllowedNow == numberAllowed(Latest)
Informed ==
  ~swapped =>
    /\ \A c \in callbacks : c[2] \in {"unknown", Latest}
    /\ poller[1] = "incoming" => poller[2] = Latest
    /\ activeCall.number \in {"unknown", Latest}
Careful ==
  ~swapped => \A e \in Event :
    /\ goroutine["auto"][e] = "claim" /\ activeCall.id = e => AllowedNow
    /\ goroutine["auto"][e] = "ata" => AllowedNow
QuietFits == Informed /\ Careful /\ QuietAnswersAllowed

CallInv == CallTypeOK /\ ActiveFits /\ Workflows /\ QuietFits

LEMMA CallTypes ==
  /\ NoCall \in [id : Nat, number : Heard, claimed : BOOLEAN, recording : Nat]
  /\ NoCall.id = 0 /\ NoCall.number = "unknown" /\ NoCall.recording = 0
<1>1. 0 \in Nat /\ "unknown" \in Heard /\ FALSE \in BOOLEAN
  BY DEF Heard
<1>2. NoCall \in [id : Nat, number : Heard, claimed : BOOLEAN, recording : Nat]
  BY <1>1 DEF NoCall
<1>3. NoCall.id = 0 /\ NoCall.number = "unknown" /\ NoCall.recording = 0
  BY DEF NoCall
<1>4. QED
  BY <1>2, <1>3

LEMMA Events ==
  MaxEvents \in Nat /\ \A e \in Event : e \in Nat /\ e # 0
BY CallAssumption DEF Event

\* A step of one goroutine.
LEMMA MovesTo ==
  ASSUME CallTypeOK, NEW r \in Role, NEW e \in Event, NEW q \in Place, Moves(r, e, q)
  PROVE  /\ goroutine' \in [Role -> [Event -> Place]]
         /\ goroutine'[r][e] = q
         /\ \A s \in Role, f \in Event : s # r \/ f # e => goroutine'[s][f] = goroutine[s][f]
BY DEF CallTypeOK, Moves

\* The part of the invariant about the active call, its goroutines and recorders.
CallStory == ActiveFits /\ Workflows /\ QuietFits

\* A step that says nothing new of a call, and takes one goroutine at most farther.
LEMMA StoryGoesOn ==
  ASSUME CallInv, NEW r \in Role, NEW e, NEW q \in Place \ {"attach", "ata"},
         \/ goroutine' = goroutine
         \/ /\ e \in Event /\ Moves(r, e, q) /\ (goroutine[r][e] # "none" \/ activeCall.id = e)
            /\ q \in Handling => goroutine[r][e] \in Handling
            /\ r = "auto" /\ q = "claim" /\ activeCall.id = e /\ ~swapped => AllowedNow,
         UNCHANGED <<activeCall, callEventID, arrived, swapped, recorder>>,
         callbacks' \subseteq callbacks \cup {<<"hangup", "unknown">>},
         poller' \in {poller, <<"idle">>, <<"nothing">>, <<"talking">>, <<"incoming", Latest>>},
         ~swapped => \A n \in answered' : n \in answered \/ numberAllowed(Number[n])
  PROVE  CallStory'
<1>0. CallTypeOK /\ ActiveFits /\ Workflows /\ QuietFits
  BY DEF CallInv
<1>1. \A s \in Role, f \in Event :
        \/ goroutine'[s][f] = goroutine[s][f]
        \/ s = r /\ f = e /\ goroutine'[s][f] = q /\ Moves(r, e, q)
  <2>1. q \in Place
    OBVIOUS
  <2>2. QED
    BY <1>0, <2>1, MovesTo
<1>2. ActiveFits'
  <2>1. ASSUME NEW f \in Event, f > callEventID, NEW s \in Role
        PROVE  recorder[f] = "none" /\ goroutine'[s][f] = "none"
    <3>1. recorder[f] = "none" /\ goroutine[s][f] = "none"
      BY <1>0, <2>1 DEF ActiveFits
    <3>2. activeCall.id # f
      <4>1. callEventID \in Nat /\ f \in Nat /\ f # 0
        BY <1>0, Events DEF CallTypeOK
      <4>2. CASE activeCall = NoCall
        BY <4>1, <4>2, CallTypes
      <4>3. CASE activeCall # NoCall
        BY <1>0, <2>1, <4>1, <4>3 DEF ActiveFits
      <4>4. QED
        BY <4>2, <4>3
    <3>3. QED
      BY <1>1, <3>1, <3>2 DEF Moves
  <2>2. QED
    BY <1>0, <2>1 DEF ActiveFits, Role
<1>3. Workflows'
  <2>1. \A s \in Role, f \in Event : goroutine'[s][f] \in Handling => goroutine[s][f] \in Handling
    BY <1>1
  <2>2. \A s \in Role, f \in Event : goroutine'[s][f] = "attach" => goroutine[s][f] = "attach"
    BY <1>1
  <2>3. QED
    BY <1>0, <2>1, <2>2 DEF Workflows, OneWorkflow, RecordersOwned, Role
<1>4. QuietFits'
  <2>1. ASSUME ~swapped, NEW f \in Event
        PROVE  /\ goroutine'["auto"][f] = "claim" /\ activeCall.id = f => AllowedNow
               /\ goroutine'["auto"][f] = "ata" => AllowedNow
    <3>1. CASE goroutine'["auto"][f] = goroutine["auto"][f]
      BY <1>0, <2>1, <3>1 DEF QuietFits, Careful
    <3>2. CASE "auto" = r /\ f = e /\ goroutine'["auto"][f] = q /\ goroutine' # goroutine
      BY <2>1, <3>2
    <3>3. QED
      BY <1>1, <3>1, <3>2 DEF Role
  <2>2. AllowedNow' = AllowedNow /\ Latest' = Latest
    BY DEF AllowedNow, Latest, numberAllowed
  <2>3. Careful'
    BY <2>1, <2>2 DEF Careful
  <2>4. Informed'
    <3>1. ASSUME ~swapped, NEW c \in callbacks' PROVE c[2] \in {"unknown", Latest}
      <4>1. CASE c \in callbacks
        BY <1>0, <3>1, <4>1 DEF QuietFits, Informed
      <4>2. CASE c = <<"hangup", "unknown">>
        BY <4>2
      <4>3. QED
        BY <4>1, <4>2
    <3>2. ASSUME ~swapped, poller'[1] = "incoming" PROVE poller'[2] = Latest
      <4>1. CASE poller' = poller
        BY <1>0, <3>2, <4>1 DEF QuietFits, Informed
      <4>2. CASE poller' \in {<<"idle">>, <<"nothing">>, <<"talking">>}
        BY <3>2, <4>2
      <4>3. CASE poller' = <<"incoming", Latest>>
        BY <4>3
      <4>4. QED
        BY <4>1, <4>2, <4>3
    <3>3. QED
      BY <1>0, <2>2, <3>1, <3>2 DEF QuietFits, Informed
  <2>5. QuietAnswersAllowed'
    BY <1>0 DEF QuietFits, QuietAnswersAllowed, numberAllowed
  <2>6. QED
    BY <2>3, <2>4, <2>5 DEF QuietFits
<1>5. QED
  BY <1>2, <1>3, <1>4 DEF CallStory

\* The active call ends, and with it its recording.
LEMMA StoryEnds ==
  ASSUME CallInv, clearActiveCall, NEW r \in Role, NEW e, NEW q \in {"stop", "done"},
         goroutine' = goroutine \/ (e \in Event /\ Moves(r, e, q) /\ goroutine[r][e] # "none"),
         UNCHANGED <<callEventID, arrived, swapped, answered>>,
         callbacks' \subseteq callbacks, poller' \in {poller, <<"idle">>}
  PROVE  /\ CallStory'
         /\ activeCall' \in [id : Nat, number : Heard, claimed : BOOLEAN, recording : Nat]
         /\ recorder' \in [Event -> Recorder]
<1>0. CallTypeOK /\ ActiveFits /\ Workflows /\ QuietFits
  BY DEF CallInv
<1>1. \A s \in Role, f \in Event :
        goroutine'[s][f] = goroutine[s][f]
          \/ (s = r /\ f = e /\ goroutine'[s][f] = q /\ goroutine[s][f] # "none")
  <2>1. q \in Place
    BY DEF Place
  <2>2. QED
    BY <1>0, <2>1, MovesTo
<1>2. activeCall' = NoCall
  BY DEF clearActiveCall
<1>3. /\ recorder' \in [Event -> Recorder]
      /\ \A f \in Event : recorder'[f] = IF f = activeCall.recording THEN "finishing" ELSE recorder[f]
  <2>1. CASE activeCall = NoCall
    BY <1>0, <2>1, CallTypes, Events DEF clearActiveCall, CallTypeOK
  <2>2. CASE activeCall # NoCall /\ activeCall.recording = 0
    BY <1>0, <2>2, Events DEF clearActiveCall, CallTypeOK
  <2>3. CASE activeCall # NoCall /\ activeCall.recording # 0
    BY <1>0, <2>3 DEF clearActiveCall, CallTypeOK, Recorder
  <2>4. QED
    BY <2>1, <2>2, <2>3
<1>4. ActiveFits'
  <2>1. ASSUME NEW f \in Event, f > callEventID
        PROVE  recorder'[f] = "none" /\ \A s \in Role : goroutine'[s][f] = "none"
    <3>1. recorder[f] = "none" /\ \A s \in Role : goroutine[s][f] = "none"
      BY <1>0, <2>1 DEF ActiveFits
    <3>2. f # activeCall.recording
      BY <1>0, <3>1 DEF Workflows, RecordersOwned
    <3>3. QED
      BY <1>1, <1>3, <3>1, <3>2
  <2>2. QED
    BY <1>2, <2>1, CallTypes DEF ActiveFits
<1>5. Workflows'
  <2>1. \A f \in Event : recorder'[f] # "attached"
    BY <1>0, <1>3 DEF Workflows, RecordersOwned
  <2>2. RecordersOwned'
    BY <1>2, <2>1, CallTypes, Events DEF RecordersOwned
  <2>3. \A s \in Role, f \in Event : goroutine'[s][f] \in Handling => goroutine[s][f] \in Handling
    BY <1>1 DEF Handling
  <2>4. OneWorkflow'
    BY <1>0, <2>3 DEF Workflows, OneWorkflow, Role
  <2>5. ASSUME NEW s \in Role, NEW f \in Event, goroutine'[s][f] = "attach"
        PROVE  recorder'[f] = "running"
    <3>1. goroutine[s][f] = "attach"
      BY <1>1, <2>5
    <3>2. recorder[f] = "running" /\ f # activeCall.recording
      BY <1>0, <3>1 DEF Workflows, RecordersOwned
    <3>3. QED
      BY <1>3, <3>2
  <2>6. QED
    BY <1>2, <2>2, <2>4, <2>5, CallTypes, Events DEF Workflows
<1>6. QuietFits'
  <2>1. \A f \in Event : activeCall'.id # f
    BY <1>2, CallTypes, Events
  <2>2. \A f \in Event : goroutine'["auto"][f] = "ata" => goroutine["auto"][f] = "ata"
    BY <1>1 DEF Role
  <2>3. Latest' = Latest /\ AllowedNow' = AllowedNow
    BY DEF AllowedNow, Latest, numberAllowed
  <2>4. Careful'
    BY <1>0, <2>1, <2>2, <2>3 DEF QuietFits, Careful
  <2>5. Informed'
    <3>1. poller'[1] = "incoming" => poller' = poller
      OBVIOUS
    <3>2. QED
      BY <1>0, <1>2, <2>3, <3>1, CallTypes DEF QuietFits, Informed
  <2>6. QuietAnswersAllowed'
    BY <1>0 DEF QuietFits, QuietAnswersAllowed, numberAllowed
  <2>7. QED
    BY <2>4, <2>5, <2>6 DEF QuietFits
<1>7. QED
  BY <1>0, <1>2, <1>3, <1>4, <1>5, <1>6, CallTypes DEF CallStory

\* A call is noticed, or noticed again.
LEMMA StoryBegins ==
  ASSUME CallInv, NEW number \in Heard, observeIncomingCall(number),
         ~swapped => number \in {"unknown", Latest},
         UNCHANGED <<arrived, swapped, answered, recorder>>,
         callbacks' \subseteq callbacks, poller' \in {poller, <<"idle">>}
  PROVE  /\ CallStory'
         /\ activeCall' \in [id : Nat, number : Heard, claimed : BOOLEAN, recording : Nat]
         /\ callEventID' \in 0..MaxEvents /\ goroutine' \in [Role -> [Event -> Place]]
<1>0. CallTypeOK /\ ActiveFits /\ Workflows /\ QuietFits
  BY DEF CallInv
<1>1. Latest' = Latest /\ AllowedNow' = AllowedNow
  BY DEF AllowedNow, Latest, numberAllowed
<1>4. poller'[1] = "incoming" => poller' = poller
  OBVIOUS
<1>5. QuietAnswersAllowed'
  BY <1>0 DEF QuietFits, QuietAnswersAllowed, numberAllowed
<1>2. CASE activeCall # NoCall
  <2>1. /\ activeCall' = [activeCall EXCEPT !.number = IF number = "unknown" THEN @ ELSE number]
        /\ UNCHANGED <<callEventID, goroutine>>
    BY <1>2 DEF observeIncomingCall
  <2>2. /\ activeCall' \in [id : Nat, number : Heard, claimed : BOOLEAN, recording : Nat]
        /\ activeCall'.id = activeCall.id /\ activeCall'.claimed = activeCall.claimed
        /\ activeCall'.recording = activeCall.recording
        /\ activeCall'.number \in {activeCall.number, number}
    BY <1>0, <2>1 DEF CallTypeOK
  <2>3. ActiveFits'
    BY <1>0, <1>2, <2>1, <2>2 DEF ActiveFits
  <2>4. Workflows'
    BY <1>0, <2>1, <2>2 DEF Workflows, OneWorkflow, RecordersOwned
  <2>5. QuietFits'
    <3>1. Careful'
      BY <1>0, <1>1, <2>1, <2>2 DEF QuietFits, Careful
    <3>2. Informed'
      BY <1>0, <1>1, <1>4, <2>2 DEF QuietFits, Informed
    <3>3. QED
      BY <1>5, <3>1, <3>2 DEF QuietFits
  <2>6. QED
    BY <1>0, <2>1, <2>2, <2>3, <2>4, <2>5 DEF CallStory, CallTypeOK
<1>3. CASE activeCall = NoCall
  <2> DEFINE e == callEventID + 1
  <2>1. /\ e \in Event /\ callEventID' = e /\ e \in Nat /\ callEventID \in Nat
        /\ activeCall' = [NoCall EXCEPT !.id = e, !.number = number]
        /\ Moves("auto", e, "delay")
    <3>1. /\ callEventID < MaxEvents /\ callEventID' = e
          /\ activeCall' = [NoCall EXCEPT !.id = e, !.number = number]
          /\ Moves("auto", e, "delay")
      BY <1>3 DEF observeIncomingCall
    <3>2. callEventID \in Nat /\ MaxEvents \in Nat
      BY <1>0, Events DEF CallTypeOK
    <3>3. QED
      BY <3>1, <3>2 DEF Event
  <2>2. /\ activeCall' \in [id : Nat, number : Heard, claimed : BOOLEAN, recording : Nat]
        /\ activeCall'.id = e /\ activeCall'.recording = 0 /\ activeCall'.number = number
    BY <2>1 DEF NoCall
  <2>3. /\ goroutine' \in [Role -> [Event -> Place]]
        /\ goroutine'["auto"][e] = "delay"
        /\ \A s \in Role, f \in Event : s # "auto" \/ f # e => goroutine'[s][f] = goroutine[s][f]
    BY <1>0, <2>1, MovesTo DEF Role, Place
  <2>4. recorder[e] = "none" /\ \A s \in Role : goroutine[s][e] = "none"
    <3>1. e > callEventID
      BY <2>1
    <3>2. QED
      BY <1>0, <2>1, <3>1 DEF ActiveFits
  <2> HIDE DEF e
  <2>5. ActiveFits'
    <3>1. \A f \in Event : f > e => f > callEventID /\ f # e
      BY <2>1, Events DEF e
    <3>2. e # 0
      BY <2>1, Events
    <3>3. QED
      BY <1>0, <2>1, <2>2, <2>3, <3>1, <3>2 DEF ActiveFits
  <2>6. Workflows'
    <3>1. \A s \in Role, f \in Event : goroutine'[s][f] \in Handling =>
            f # e /\ goroutine'[s][f] = goroutine[s][f]
      BY <2>3, <2>4 DEF Handling, Role
    <3>2. OneWorkflow'
      BY <1>0, <3>1 DEF Workflows, OneWorkflow, Role
    <3>3. \A f \in Event : recorder[f] # "attached" /\ activeCall'.recording # f
      BY <1>0, <1>3, <2>2, CallTypes, Events DEF Workflows, RecordersOwned
    <3>4. \A s \in Role, f \in Event : goroutine'[s][f] = "attach" => recorder[f] = "running"
      BY <1>0, <3>1 DEF Workflows, Handling
    <3>5. QED
      BY <2>2, <3>1, <3>2, <3>3, <3>4 DEF Workflows, RecordersOwned
  <2>7. QuietFits'
    <3>1. \A f \in Event : /\ ~(goroutine'["auto"][f] = "claim" /\ activeCall'.id = f)
                           /\ goroutine'["auto"][f] = "ata" => goroutine["auto"][f] = "ata"
      BY <2>2, <2>3 DEF Role
    <3>2. Careful'
      BY <1>0, <1>1, <3>1 DEF QuietFits, Careful
    <3>3. Informed'
      BY <1>0, <1>1, <1>4, <2>2 DEF QuietFits, Informed
    <3>4. QED
      BY <1>5, <3>2, <3>3 DEF QuietFits
  <2>8. QED
    BY <2>1, <2>2, <2>3, <2>5, <2>6, <2>7 DEF CallStory, Event
<1>6. QED
  BY <1>2, <1>3

\* Nothing new of a call, of its goroutines and recorders.
LEMMA NothingToldKeeps ==
  ASSUME CallInv,
         UNCHANGED <<activeCall, callEventID, arrived, swapped, recorder, goroutine>>,
         callbacks' \subseteq callbacks \cup {<<"hangup", "unknown">>},
         poller' \in {poller, <<"idle">>, <<"nothing">>, <<"talking">>, <<"incoming", Latest>>},
         answered' = answered
  PROVE  CallStory'
<1>1. "auto" \in Role /\ "done" \in Place \ {"attach", "ata"}
  BY DEF Role, Place
<1>2. QED
  BY <1>1, StoryGoesOn

\* The goroutine of a call that hung up, the page, the poller or a callback ends it.
LEMMA CallOverKeeps ==
  ASSUME CallInv, clearActiveCall, NEW r \in Role, NEW e, NEW q \in {"stop", "done"},
         goroutine' = goroutine \/ (e \in Event /\ Moves(r, e, q) /\ goroutine[r][e] # "none"),
         UNCHANGED <<networkVars, line, callEventID, routeVars, answered>>,
         hanger' \in {hanger, "idle"},
         callbacks' \subseteq callbacks, poller' \in {poller, <<"idle">>}
  PROVE  CallInv'
<1>0. CallTypeOK
  BY DEF CallInv
<1>1. /\ CallStory'
      /\ activeCall' \in [id : Nat, number : Heard, claimed : BOOLEAN, recording : Nat]
      /\ recorder' \in [Event -> Recorder]
  BY StoryEnds DEF networkVars
<1>2. goroutine' \in [Role -> [Event -> Place]]
  <2>1. q \in Place
    BY DEF Place
  <2>2. QED
    BY <1>0, <2>1, MovesTo DEF CallTypeOK
<1>3. CallTypeOK'
  BY <1>0, <1>1, <1>2 DEF CallTypeOK, networkVars, routeVars
<1>4. QED
  BY <1>1, <1>3 DEF CallInv, CallStory

LEMMA CallNoticedKeeps ==
  ASSUME CallInv, NEW number \in Heard, observeIncomingCall(number),
         ~swapped => number \in {"unknown", Latest},
         UNCHANGED <<networkVars, line, hanger, routeVars, answered, recorder>>,
         callbacks' \subseteq callbacks, poller' \in {poller, <<"idle">>}
  PROVE  CallInv'
<1>0. CallTypeOK
  BY DEF CallInv
<1>1. /\ CallStory'
      /\ activeCall' \in [id : Nat, number : Heard, claimed : BOOLEAN, recording : Nat]
      /\ callEventID' \in 0..MaxEvents /\ goroutine' \in [Role -> [Event -> Place]]
  BY StoryBegins DEF networkVars
<1>2. CallTypeOK'
  BY <1>0, <1>1 DEF CallTypeOK, networkVars, routeVars
<1>3. QED
  BY <1>1, <1>2 DEF CallInv, CallStory

\* A workflow claims its call, hands over its recorder, or answers what is ringing.
LEMMA ClaimStory ==
  ASSUME CallInv, NEW r \in Role, NEW e \in Event, Claim(r, e)
  PROVE  /\ CallStory'
         /\ activeCall' \in [id : Nat, number : Heard, claimed : BOOLEAN, recording : Nat]
<1>0. /\ CallTypeOK /\ ActiveFits /\ Workflows /\ QuietFits /\ goroutine[r][e] = "claim"
      /\ UNCHANGED <<callEventID, arrived, swapped, recorder, answered, callbacks, poller>>
  BY DEF CallInv, Claim, networkVars, watchVars
<1>1. CASE claims(e)
  <2>1. /\ activeCall.id = e /\ ~activeCall.claimed /\ Moves(r, e, "ata")
        /\ activeCall' = [activeCall EXCEPT !.claimed = TRUE]
    BY <1>1 DEF claims, Claim
  <2>2. /\ activeCall' \in [id : Nat, number : Heard, claimed : BOOLEAN, recording : Nat]
        /\ activeCall'.id = e /\ activeCall'.claimed = TRUE
        /\ activeCall'.recording = activeCall.recording /\ activeCall'.number = activeCall.number
    BY <1>0, <2>1 DEF CallTypeOK
  <2>3. /\ goroutine'[r][e] = "ata"
        /\ \A s \in Role, f \in Event : s # r \/ f # e => goroutine'[s][f] = goroutine[s][f]
    BY <1>0, <2>1, MovesTo DEF Place
  <2>4. activeCall # NoCall /\ callEventID = e
    BY <1>0, <2>1, CallTypes, Events DEF ActiveFits
  <2>5. ActiveFits'
    <3>1. \A f \in Event : f > e => f # e
      BY Events
    <3>2. e # 0
      BY Events
    <3>3. QED
      BY <1>0, <2>1, <2>2, <2>3, <2>4, <3>1, <3>2 DEF ActiveFits
  <2>6. Workflows'
    <3>1. \A s \in Role : goroutine[s][e] \notin Handling
      BY <1>0, <2>1 DEF Workflows
    <3>2. OneWorkflow'
      BY <1>0, <2>3, <3>1 DEF Workflows, OneWorkflow, Role
    <3>3. \A s \in Role, f \in Event : goroutine'[s][f] = "attach" => goroutine[s][f] = "attach"
      BY <2>3
    <3>4. QED
      BY <1>0, <2>2, <3>2, <3>3 DEF Workflows, RecordersOwned
  <2>7. QuietFits'
    <3>1. Latest' = Latest /\ AllowedNow' = AllowedNow
      BY <1>0 DEF AllowedNow, Latest, numberAllowed
    <3>2. Careful'
      <4>1. ASSUME ~swapped, NEW f \in Event
            PROVE  /\ goroutine'["auto"][f] = "claim" /\ activeCall'.id = f => AllowedNow
                   /\ goroutine'["auto"][f] = "ata" => AllowedNow
        <5>1. goroutine'["auto"][f] = goroutine["auto"][f]
                \/ ("auto" = r /\ f = e /\ goroutine["auto"][f] = "claim")
          BY <1>0, <2>3 DEF Role
        <5>2. QED
          BY <1>0, <2>1, <2>2, <4>1, <5>1 DEF QuietFits, Careful
      <4>2. QED
        BY <1>0, <3>1, <4>1 DEF Careful
    <3>3. Informed'
      BY <1>0, <2>2, <3>1 DEF QuietFits, Informed
    <3>4. QuietAnswersAllowed'
      BY <1>0 DEF QuietFits, QuietAnswersAllowed, numberAllowed
    <3>5. QED
      BY <3>2, <3>3, <3>4 DEF QuietFits
  <2>8. QED
    BY <2>2, <2>5, <2>6, <2>7 DEF CallStory
<1>2. CASE ~claims(e)
  <2>1. Moves(r, e, "done") /\ UNCHANGED activeCall
    BY <1>2 DEF Claim
  <2>2. "done" \in Place \ {"attach", "ata"} /\ "done" \notin Handling
    BY DEF Place, Handling
  <2>3. QED
    BY <1>0, <2>1, <2>2, StoryGoesOn DEF CallTypeOK
<1>3. QED
  BY <1>1, <1>2

LEMMA RecorderStory ==
  ASSUME CallInv, NEW r \in Role, NEW e \in Event, StartRecorder(r, e) \/ AttachRecorder(r, e)
  PROVE  /\ CallStory' /\ recorder' \in [Event -> Recorder]
         /\ activeCall' \in [id : Nat, number : Heard, claimed : BOOLEAN, recording : Nat]
<1>0. /\ CallTypeOK /\ ActiveFits /\ Workflows /\ QuietFits
      /\ goroutine[r][e] \in {"record", "attach"}
      /\ UNCHANGED <<callEventID, arrived, swapped, answered, callbacks, poller>>
  BY DEF CallInv, StartRecorder, AttachRecorder, networkVars, watchVars
<1>1. /\ e <= callEventID /\ callEventID \in Nat /\ e \in Nat /\ e # 0
      /\ \A s \in Role : s # r => goroutine[s][e] \notin Handling
  <2>1. ~(e > callEventID) /\ callEventID \in Nat /\ e \in Nat /\ e # 0
    BY <1>0, Events DEF ActiveFits, CallTypeOK
  <2>2. QED
    BY <1>0, <2>1 DEF Workflows, OneWorkflow, Handling, Role
<1>2. CASE StartRecorder(r, e) /\ recorder' = recorder
  <2>1. Moves(r, e, "stay") /\ UNCHANGED activeCall /\ goroutine[r][e] = "record"
    <3>1. recorder' = [recorder EXCEPT ![e] = "running"] => recorder[e] # "none"
      BY <1>0, <1>2 DEF CallTypeOK
    <3>2. QED
      BY <1>2, <3>1 DEF StartRecorder
  <2>2. "stay" \in Place \ {"attach", "ata"} /\ goroutine[r][e] \in Handling
    BY <2>1 DEF Place, Handling
  <2>3. QED
    BY <1>0, <1>2, <2>1, <2>2, StoryGoesOn DEF CallTypeOK
\* The recorder starts, is attached to the active call, or is dropped.
<1>3. ASSUME NEW what \in Recorder, NEW q \in {"attach", "stay"}, Moves(r, e, q),
             recorder' = [recorder EXCEPT ![e] = what], recorder[e] \in {"none", "running"},
             q = "attach" => what = "running",
             \/ UNCHANGED activeCall /\ what # "attached"
             \/ /\ activeCall.id = e /\ what = "attached"
                /\ activeCall' = [activeCall EXCEPT !.recording = e]
      PROVE  /\ CallStory' /\ recorder' \in [Event -> Recorder]
             /\ activeCall' \in [id : Nat, number : Heard, claimed : BOOLEAN, recording : Nat]
  <2>1. /\ recorder' \in [Event -> Recorder] /\ recorder'[e] = what
        /\ \A f \in Event : f # e => recorder'[f] = recorder[f]
    BY <1>0, <1>3 DEF CallTypeOK
  <2>2. /\ activeCall' \in [id : Nat, number : Heard, claimed : BOOLEAN, recording : Nat]
        /\ activeCall'.id = activeCall.id /\ activeCall'.claimed = activeCall.claimed
        /\ activeCall'.number = activeCall.number
        /\ \/ activeCall'.recording = activeCall.recording /\ what # "attached"
           \/ activeCall'.recording = e /\ activeCall.id = e /\ what = "attached"
    BY <1>0, <1>1, <1>3 DEF CallTypeOK
  <2>3. /\ goroutine'[r][e] = q
        /\ \A s \in Role, f \in Event : s # r \/ f # e => goroutine'[s][f] = goroutine[s][f]
    BY <1>0, <1>3, MovesTo DEF Place
  <2>4. activeCall = NoCall => activeCall' = NoCall
    BY <1>1, <1>3, CallTypes
  <2>5. ActiveFits'
    <3>1. activeCall' # NoCall => activeCall'.id = callEventID /\ callEventID # 0
      BY <1>0, <2>2, <2>4 DEF ActiveFits
    <3>2. activeCall'.recording \in {0, activeCall'.id}
      BY <1>0, <2>2 DEF ActiveFits
    <3>3. \A f \in Event : f > callEventID => f # e
      BY <1>1, Events
    <3>4. QED
      BY <1>0, <2>1, <2>3, <3>1, <3>2, <3>3 DEF ActiveFits
  <2>6. Workflows'
    <3>1. \A s \in Role, f \in Event : goroutine'[s][f] \in Handling => goroutine[s][f] \in Handling
      BY <1>0, <2>3 DEF Handling
    <3>2. OneWorkflow'
      BY <1>0, <3>1 DEF Workflows, OneWorkflow, Role
    <3>3. \A s \in Role, f \in Event : goroutine'[s][f] = "attach" => recorder'[f] = "running"
      BY <1>0, <1>1, <1>3, <2>1, <2>3 DEF Workflows, Handling
    <3>4. \A f \in Event : recorder'[f] = "attached" <=> activeCall'.recording = f
      <4>1. activeCall.recording # e
        BY <1>0, <1>3 DEF Workflows, RecordersOwned
      <4>2. activeCall.id = e => activeCall.recording = 0
        BY <1>0, <4>1 DEF ActiveFits
      <4>3. QED
        BY <1>0, <2>1, <2>2, <4>1, <4>2, Events DEF Workflows, RecordersOwned
    <3>5. QED
      BY <1>0, <2>2, <3>1, <3>2, <3>3, <3>4 DEF Workflows, RecordersOwned
  <2>7. QuietFits'
    <3>1. Latest' = Latest /\ AllowedNow' = AllowedNow
      BY <1>0 DEF AllowedNow, Latest, numberAllowed
    <3>2. \A f \in Event : goroutine'["auto"][f] \in {"claim", "ata"} =>
            goroutine'["auto"][f] = goroutine["auto"][f]
      BY <1>3, <2>3 DEF Role
    <3>3. QED
      BY <1>0, <2>2, <3>1, <3>2
        DEF QuietFits, Careful, Informed, QuietAnswersAllowed, numberAllowed
  <2>8. QED
    BY <2>1, <2>2, <2>5, <2>6, <2>7 DEF CallStory
<1>4. CASE StartRecorder(r, e) /\ recorder' # recorder
  <2>1. /\ recorder[e] = "none" /\ recorder' = [recorder EXCEPT ![e] = "running"]
        /\ Moves(r, e, "attach") /\ UNCHANGED activeCall
    BY <1>4 DEF StartRecorder
  <2>2. "running" \in Recorder
    BY DEF Recorder
  <2>3. QED
    BY <1>3, <2>1, <2>2
<1>5. CASE AttachRecorder(r, e)
  <2>1. recorder[e] = "running" /\ Moves(r, e, "stay")
    BY <1>0, <1>5 DEF AttachRecorder, Workflows
  <2>2. \/ /\ activeCall.id = e /\ activeCall' = [activeCall EXCEPT !.recording = e]
           /\ recorder' = [recorder EXCEPT ![e] = "attached"]
        \/ recorder' = [recorder EXCEPT ![e] = "dropped"] /\ UNCHANGED activeCall
    BY <1>5 DEF AttachRecorder, AttachesTo
  <2>3. "attached" \in Recorder /\ "dropped" \in Recorder
    BY DEF Recorder
  <2>4. QED
    BY <1>3, <2>1, <2>2, <2>3
<1>6. QED
  BY <1>0, <1>2, <1>4, <1>5 DEF StartRecorder, CallTypeOK

LEMMA AnswerKeeps ==
  ASSUME CallInv, NEW r \in Role, NEW e \in Event, Answer(r, e)
  PROVE  CallInv'
<1>0. /\ CallTypeOK /\ ActiveFits /\ Workflows /\ QuietFits
      /\ goroutine[r][e] = "ata" /\ Moves(r, e, "answered") /\ Ringing
      /\ line' = <<line[1], "talking">>
      /\ answered' = IF r = "auto" THEN answered \cup {line[1]} ELSE answered
      /\ UNCHANGED <<networkVars, activeCall, callEventID, watchVars, routeVars, recorder>>
  BY DEF CallInv, Answer
<1>1. line[1] = arrived /\ arrived # 0 /\ arrived \in DOMAIN Number
  BY <1>0, CallAssumption DEF CallTypeOK, Ringing, NoLine
<1>2. ~swapped => \A n \in answered' : n \in answered \/ numberAllowed(Number[n])
  BY <1>0, <1>1 DEF QuietFits, Careful, AllowedNow, Latest
<1>3. "answered" \in Place \ {"attach", "ata"} /\ goroutine[r][e] \in Handling
  BY <1>0 DEF Place, Handling
<1>4. CallStory'
  BY <1>0, <1>2, <1>3, StoryGoesOn DEF networkVars, watchVars
<1>5. goroutine' \in [Role -> [Event -> Place]]
  BY <1>0, <1>3, MovesTo
<1>6. CallTypeOK'
  BY <1>0, <1>1, <1>5 DEF CallTypeOK, networkVars, watchVars, routeVars
<1>7. QED
  BY <1>4, <1>6 DEF CallInv, CallStory

\* A claim that is given back was that of the only workflow.
LEMMA AnswerFailsKeeps ==
  ASSUME CallInv, NEW r \in Role, NEW e \in Event, AnswerFails(r, e)
  PROVE  CallInv'
<1>0. /\ CallTypeOK /\ ActiveFits /\ Workflows /\ QuietFits
      /\ goroutine[r][e] = "ata" /\ Moves(r, e, "done")
      /\ UNCHANGED <<networkVars, callEventID, watchVars, route, warmup, routed, recorder>>
  BY DEF CallInv, AnswerFails
<1>1. line' = line \/ (Ringing /\ line' = <<line[1], "talking">>)
  BY DEF AnswerFails
<1>2. Ringing => line[1] = arrived /\ arrived # 0 /\ arrived \in DOMAIN Number
  BY <1>0, CallAssumption DEF CallTypeOK, Ringing, NoLine
<1>3. /\ answered' \in SUBSET (DOMAIN Number)
      /\ ~swapped => \A n \in answered' : n \in answered \/ numberAllowed(Number[n])
  BY <1>0, <1>1, <1>2
    DEF CallTypeOK, AnswerFails, QuietFits, Careful, AllowedNow, Latest
<1>4. /\ activeCall' \in [id : Nat, number : Heard, claimed : BOOLEAN, recording : Nat]
      /\ activeCall'.id = activeCall.id /\ activeCall'.number = activeCall.number
      /\ activeCall'.recording = activeCall.recording
      /\ activeCall.id # e => activeCall' = activeCall
  BY <1>0 DEF CallTypeOK, AnswerFails
<1>5. activeCall = NoCall => activeCall' = NoCall
  BY <1>4, CallTypes, Events
<1>6. /\ goroutine' \in [Role -> [Event -> Place]]
      /\ goroutine'[r][e] = "done"
      /\ \A s \in Role, f \in Event : s # r \/ f # e => goroutine'[s][f] = goroutine[s][f]
  BY <1>0, MovesTo DEF Place
<1>7. ActiveFits'
  <2>1. ~(e > callEventID)
    BY <1>0 DEF ActiveFits
  <2>2. \A f \in Event : f > callEventID => f # e
    BY <2>1
  <2>3. QED
    BY <1>0, <1>4, <1>5, <1>6, <2>2 DEF ActiveFits
<1>8. Workflows'
  <2>1. \A s \in Role : goroutine'[s][e] \notin Handling
    BY <1>0, <1>6 DEF Workflows, OneWorkflow, Handling, Role
  <2>2. \A s \in Role, f \in Event : goroutine'[s][f] \in Handling =>
          f # e /\ goroutine[s][f] \in Handling
    BY <1>6, <2>1
  <2>3. OneWorkflow'
    BY <1>0, <2>2 DEF Workflows, OneWorkflow, Role
  <2>4. \A s \in Role, f \in Event : goroutine'[s][f] = "attach" => goroutine[s][f] = "attach"
    BY <1>6
  <2>5. QED
    BY <1>0, <1>4, <2>2, <2>3, <2>4 DEF Workflows, RecordersOwned
<1>9. QuietFits'
  <2>1. Latest' = Latest /\ AllowedNow' = AllowedNow /\ swapped' = swapped
    BY <1>0 DEF AllowedNow, Latest, numberAllowed, networkVars
  <2>2. \A f \in Event : goroutine'["auto"][f] \in {"claim", "ata"} =>
          goroutine'["auto"][f] = goroutine["auto"][f]
    BY <1>6 DEF Role
  <2>3. Careful'
    BY <1>0, <1>4, <2>1, <2>2 DEF QuietFits, Careful
  <2>4. Informed'
    BY <1>0, <1>4, <2>1 DEF QuietFits, Informed, watchVars
  <2>5. QuietAnswersAllowed'
    BY <1>0, <1>3, <2>1 DEF QuietFits, QuietAnswersAllowed, numberAllowed
  <2>6. QED
    BY <2>3, <2>4, <2>5 DEF QuietFits
<1>10. drain' \in SUBSET Event
  BY <1>0 DEF CallTypeOK, AnswerFails, Drained
<1>11. CallTypeOK'
  BY <1>0, <1>1, <1>2, <1>3, <1>4, <1>6, <1>10 DEF CallTypeOK, networkVars, watchVars
<1>12. QED
  BY <1>7, <1>8, <1>9, <1>11 DEF CallInv

\* A call comes: if everything about the earlier ones was over, nothing that is known is
\* about another than it.
LEMMA CallArrivesKeeps ==
  ASSUME CallInv, CallArrives
  PROVE  CallInv'
<1>0. /\ CallTypeOK /\ ActiveFits /\ Workflows /\ QuietFits
      /\ arrived < Len(Number) /\ arrived' = arrived + 1
      /\ line' = <<arrived + 1, "ringing">>
      /\ UNCHANGED <<settings, presses, activeCall, callEventID, goroutine, poller, hanger,
                     routeVars, recorder, answered>>
  BY DEF CallInv, CallArrives
<1>1. /\ arrived \in Nat /\ Len(Number) \in Nat /\ arrived' \in 1..Len(Number)
      /\ Number[arrived'] \in Heard /\ Latest' = Number[arrived']
  <2>1. /\ arrived \in Nat /\ Len(Number) \in Nat /\ arrived' \in DOMAIN Number
        /\ DOMAIN Number = 1..Len(Number)
    BY <1>0, CallAssumption DEF CallTypeOK
  <2>2. QED
    BY <1>0, <2>1 DEF Heard, Latest
<1>2. /\ callbacks' \subseteq callbacks \cup {<<"ring", "unknown">>, <<"clip", Latest'>>}
      /\ callbacks' \in SUBSET ({"ring", "clip", "hangup"} \X Heard)
  <2>1. /\ <<"ring", "unknown">> \in {"ring", "clip", "hangup"} \X Heard
        /\ <<"clip", Latest'>> \in {"ring", "clip", "hangup"} \X Heard
    BY <1>1 DEF Heard
  <2>2. QED
    BY <1>0, <1>1, <2>1 DEF CallArrives, CallTypeOK
<1>3. /\ swapped' \in BOOLEAN
      /\ ~swapped' => /\ ~swapped /\ activeCall = NoCall /\ callbacks = {} /\ poller = <<"idle">>
                      /\ \A s \in Role, f \in Event : goroutine[s][f] # "ata"
  BY DEF CallArrives
<1>4. CallTypeOK'
  BY <1>0, <1>1, <1>2, <1>3 DEF CallTypeOK, routeVars
<1>5. ActiveFits' /\ Workflows'
  BY <1>0 DEF ActiveFits, Workflows, OneWorkflow, RecordersOwned
<1>6. QuietFits'
  <2>1. Careful'
    BY <1>0, <1>3, CallTypes, Events DEF Careful, Role
  <2>2. Informed'
    BY <1>0, <1>2, <1>3, CallTypes DEF Informed
  <2>3. QuietAnswersAllowed'
    BY <1>0, <1>3 DEF QuietFits, QuietAnswersAllowed, numberAllowed
  <2>4. QED
    BY <2>1, <2>2, <2>3 DEF QuietFits
<1>7. QED
  BY <1>4, <1>5, <1>6 DEF CallInv

\* AT+CLCC and the callbacks speak of the call on the line, or of none.
LEMMA WatchKeeps ==
  ASSUME CallInv, CallEnds \/ Poll \/ PollSeen \/ (\E what \in callbacks : Callback(what))
  PROVE  CallInv'
<1>0. CallTypeOK /\ ActiveFits /\ Workflows /\ QuietFits
  BY DEF CallInv
<1>6. "auto" \in Role /\ "done" \in {"stop", "done"}
  BY DEF Role
<1>1. CASE CallEnds
  <2>1. /\ callbacks' \subseteq callbacks \cup {<<"hangup", "unknown">>}
        /\ line' = NoLine
        /\ UNCHANGED <<networkVars, activeCall, callEventID, goroutine, poller, hanger,
                       routeVars, recorder, answered>>
    BY <1>1 DEF CallEnds
  <2>2. callbacks' \in SUBSET ({"ring", "clip", "hangup"} \X Heard)
    BY <1>0, <2>1 DEF CallTypeOK, Heard
  <2>3. CallStory'
    BY <2>1, NothingToldKeeps DEF networkVars
  <2>4. CallTypeOK'
    BY <1>0, <2>1, <2>2 DEF CallTypeOK, networkVars, routeVars
  <2>5. QED
    BY <2>3, <2>4 DEF CallInv, CallStory
<1>2. CASE Poll
  <2>1. UNCHANGED <<settings, arrived, swapped, line, activeCall, callEventID, goroutine,
                    hanger, callbacks, routeVars, recorder, answered>>
    BY <1>2 DEF Poll
  <2>2. /\ presses' \in Nat
        /\ poller' \in {<<"nothing">>, <<"talking">>, <<"incoming", Latest>>}
        /\ poller' = <<"incoming", Latest>> => Latest \in Heard
    <3>1. Ringing => line[1] = arrived /\ arrived # 0 /\ arrived \in DOMAIN Number
      BY <1>0, CallAssumption DEF CallTypeOK, Ringing, NoLine
    <3>2. Ringing => Number[line[1]] = Latest /\ Latest \in Heard
      BY <3>1, CallAssumption DEF Latest, Heard
    <3>3. presses' \in Nat
      BY <1>0, <1>2 DEF Poll, CallTypeOK
    <3>4. QED
      BY <1>2, <3>2, <3>3 DEF Poll
  <2>3. CallStory'
    BY <2>1, <2>2, NothingToldKeeps
  <2>4. CallTypeOK'
    BY <1>0, <2>1, <2>2 DEF CallTypeOK, routeVars
  <2>5. QED
    BY <2>3, <2>4 DEF CallInv, CallStory
<1>3. CASE PollSeen
  <2>1. /\ poller' = <<"idle">>
        /\ UNCHANGED <<networkVars, line, hanger, callbacks, routeVars, answered>>
    BY <1>3 DEF PollSeen
  <2>2. \/ clearActiveCall /\ UNCHANGED <<callEventID, goroutine>>
        \/ /\ observeIncomingCall(poller[2]) /\ UNCHANGED recorder
           /\ poller[1] = "incoming"
        \/ UNCHANGED <<activeCall, callEventID, goroutine, recorder>>
    BY <1>3 DEF PollSeen
  <2>3. CASE clearActiveCall /\ UNCHANGED <<callEventID, goroutine>>
    BY <1>0, <2>1, <1>6, <2>3, CallOverKeeps DEF networkVars
  <2>4. CASE /\ observeIncomingCall(poller[2]) /\ UNCHANGED recorder
             /\ poller[1] = "incoming"
    <3>1. poller[2] \in Heard /\ (~swapped => poller[2] \in {"unknown", Latest})
      BY <1>0, <2>4 DEF CallTypeOK, QuietFits, Informed
    <3>2. QED
      BY <2>1, <2>4, <3>1, CallNoticedKeeps DEF networkVars
  <2>5. CASE UNCHANGED <<activeCall, callEventID, goroutine, recorder>>
    <3>1. CallStory'
      BY <2>1, <2>5, NothingToldKeeps DEF networkVars
    <3>2. CallTypeOK'
      BY <1>0, <2>1, <2>5 DEF CallTypeOK, networkVars, routeVars
    <3>3. QED
      BY <3>1, <3>2 DEF CallInv, CallStory
  <2>6. QED
    BY <2>2, <2>3, <2>4, <2>5
<1>4. ASSUME NEW what \in callbacks, Callback(what) PROVE CallInv'
  <2>1. /\ callbacks' \subseteq callbacks
        /\ UNCHANGED <<networkVars, line, poller, hanger, routeVars, answered>>
    BY <1>4 DEF Callback
  <2>2. CASE what[1] = "hangup"
    <3>1. clearActiveCall /\ UNCHANGED <<callEventID, goroutine>>
      BY <1>4, <2>2 DEF Callback
    <3>2. QED
      BY <2>1, <1>6, <3>1, CallOverKeeps DEF networkVars
  <2>3. CASE what[1] # "hangup"
    <3>1. observeIncomingCall(what[2]) /\ UNCHANGED recorder
      BY <1>4, <2>3 DEF Callback
    <3>2. what[2] \in Heard /\ (~swapped => what[2] \in {"unknown", Latest})
      BY <1>0 DEF CallTypeOK, QuietFits, Informed
    <3>3. QED
      BY <2>1, <3>1, <3>2, CallNoticedKeeps DEF networkVars
  <2>4. QED
    BY <2>2, <2>3
<1>5. QED
  BY <1>1, <1>2, <1>3, <1>4

\* With the types of what these two change, they keep the whole invariant.
LEMMA ClaimKeeps ==
  ASSUME CallInv, NEW r \in Role, NEW e \in Event, Claim(r, e)
  PROVE  CallInv'
<1>0. /\ CallTypeOK
      /\ UNCHANGED <<networkVars, line, callEventID, watchVars, route, warmup, routed, recorder,
                     answered>>
  BY DEF CallInv, Claim
<1>1. CallStory' /\ activeCall' \in [id : Nat, number : Heard, claimed : BOOLEAN, recording : Nat]
  BY ClaimStory
<1>2. drain' \in SUBSET Event
  BY <1>0 DEF Claim, CallTypeOK, Drained
<1>3. goroutine' \in [Role -> [Event -> Place]]
  <2>1. "ata" \in Place /\ "done" \in Place
    BY DEF Place
  <2>2. QED
    BY <1>0, <2>1, MovesTo DEF Claim
<1>4. CallTypeOK'
  BY <1>0, <1>1, <1>2, <1>3 DEF CallTypeOK, networkVars, watchVars
<1>5. QED
  BY <1>1, <1>4 DEF CallInv, CallStory

LEMMA RecorderKeeps ==
  ASSUME CallInv, NEW r \in Role, NEW e \in Event, StartRecorder(r, e) \/ AttachRecorder(r, e)
  PROVE  CallInv'
<1>0. /\ CallTypeOK
      /\ UNCHANGED <<networkVars, line, callEventID, watchVars, routeVars, answered>>
  BY DEF CallInv, StartRecorder, AttachRecorder
<1>1. /\ CallStory' /\ recorder' \in [Event -> Recorder]
      /\ activeCall' \in [id : Nat, number : Heard, claimed : BOOLEAN, recording : Nat]
  BY RecorderStory
<1>2. goroutine' \in [Role -> [Event -> Place]]
  <2>1. "attach" \in Place /\ "stay" \in Place
    BY DEF Place
  <2>2. QED
    BY <1>0, <2>1, MovesTo DEF StartRecorder, AttachRecorder
<1>3. CallTypeOK'
  BY <1>0, <1>1, <1>2 DEF CallTypeOK, networkVars, watchVars, routeVars
<1>4. QED
  BY <1>1, <1>3 DEF CallInv, CallStory

\* The steps of a goroutine that neither claim nor answer a call, nor touch its recorder.
LEMMA WalkKeeps ==
  ASSUME CallInv, NEW r \in Role, NEW e \in Event, NEW q \in Place \ {"attach", "ata"},
         Moves(r, e, q), goroutine[r][e] # "none" \/ activeCall.id = e,
         q \in Handling => goroutine[r][e] \in Handling,
         r = "auto" /\ q = "claim" /\ activeCall.id = e /\ ~swapped => AllowedNow,
         UNCHANGED <<settings, arrived, swapped, activeCall, callEventID, watchVars, recorder,
                     answered>>,
         line' \in {line, NoLine}, presses' \in Nat,
         route' \in BOOLEAN, warmup' \in [Event -> Warmup], drain' \in SUBSET Event,
         routed' \in SUBSET (Role \X Event)
  PROVE  CallInv'
<1>0. CallTypeOK
  BY DEF CallInv
<1>1. CallStory'
  BY StoryGoesOn DEF watchVars
<1>2. goroutine' \in [Role -> [Event -> Place]]
  BY <1>0, MovesTo
<1>3. CallTypeOK'
  BY <1>0, <1>2 DEF CallTypeOK, watchVars
<1>4. QED
  BY <1>1, <1>3 DEF CallInv, CallStory

\* Before it claims the call: the delay, the warm-up, the look at the number.
LEMMA WaitKeeps ==
  ASSUME CallInv, NEW e \in Event, Delay(e) \/ Lead(e) \/ Check(e) \/ PressAnswer(e)
  PROVE  CallInv'
<1>0. CallTypeOK /\ QuietFits /\ "auto" \in Role /\ "page" \in Role
  BY DEF CallInv, Role
<1>1. /\ {"done", "check", "lead", "claim"} \subseteq Place \ {"attach", "ata"}
      /\ {"done", "check", "lead", "claim"} \cap Handling = {}
  BY DEF Place, Handling
<1>2. /\ route \in BOOLEAN /\ warmup \in [Event -> Warmup] /\ drain \in SUBSET Event
      /\ routed \in SUBSET (Role \X Event) /\ presses \in Nat
  BY <1>0 DEF CallTypeOK
<1>3. CASE Delay(e)
  <2>1. /\ goroutine["auto"][e] = "delay"
        /\ UNCHANGED <<networkVars, line, activeCall, callEventID, watchVars, route, drain,
                       routed, recorder, answered>>
    BY <1>3 DEF Delay
  <2>2. PICK q \in {"done", "check", "lead"} : Moves("auto", e, q)
    BY <1>3 DEF Delay
  <2>3. warmup' \in [Event -> Warmup]
    BY <1>2, <1>3 DEF Delay, Warmup
  <2>4. QED
    BY <1>0, <1>1, <1>2, <2>1, <2>2, <2>3, WalkKeeps DEF networkVars
<1>4. CASE Lead(e)
  <2>1. /\ goroutine["auto"][e] = "lead"
        /\ UNCHANGED <<networkVars, line, activeCall, callEventID, watchVars, routeVars,
                       recorder, answered>>
    BY <1>4 DEF Lead
  <2>2. PICK q \in {"done", "check"} : Moves("auto", e, q)
    BY <1>4 DEF Lead
  <2>3. QED
    BY <1>0, <1>1, <1>2, <2>1, <2>2, WalkKeeps DEF networkVars, routeVars
<1>5. CASE Check(e)
  <2>1. /\ goroutine["auto"][e] = "check" /\ drain' \in SUBSET Event
        /\ UNCHANGED <<networkVars, line, activeCall, callEventID, watchVars, route, warmup,
                       routed, recorder, answered>>
    BY <1>2, <1>5 DEF Check, Drained
  <2>2. CASE numberAllowed(currentCallNumber(e))
    <3>1. Moves("auto", e, "claim")
      BY <1>5, <2>2 DEF Check
    <3>2. activeCall.id = e /\ ~swapped => AllowedNow
      BY <1>0, <2>2, CallAssumption
        DEF currentCallNumber, numberAllowed, AllowedNow, QuietFits, Informed
    <3>3. QED
      BY <1>0, <1>1, <1>2, <2>1, <3>1, <3>2, WalkKeeps DEF networkVars
  <2>3. CASE ~numberAllowed(currentCallNumber(e))
    <3>1. Moves("auto", e, "done")
      BY <1>5, <2>3 DEF Check
    <3>2. QED
      BY <1>0, <1>1, <1>2, <2>1, <3>1, WalkKeeps DEF networkVars
  <2>4. QED
    BY <2>2, <2>3
<1>6. CASE PressAnswer(e)
  <2>1. /\ activeCall.id = e /\ Moves("page", e, "claim") /\ presses' \in Nat
        /\ UNCHANGED <<settings, arrived, swapped, line, activeCall, callEventID, watchVars,
                       routeVars, recorder, answered>>
    BY <1>2, <1>6 DEF PressAnswer
  <2>2. QED
    BY <1>0, <1>1, <1>2, <2>1, WalkKeeps DEF routeVars
<1>7. QED
  BY <1>3, <1>4, <1>5, <1>6

\* After the answer: the bridge, the prompt, the hang-up.
LEMMA WorkflowKeeps ==
  ASSUME CallInv, NEW r \in Role, NEW e \in Event,
         \/ TakeRoute(r, e) \/ Settle(r, e) \/ Stay(r, e) \/ HangUp(r, e)
         \/ ClearAfterHangUp(r, e) \/ StopRoute(r, e)
  PROVE  CallInv'
<1>0. CallTypeOK
  BY DEF CallInv
<1>1. /\ {"done", "stop", "settle", "record", "ath", "clear"} \subseteq Place \ {"attach", "ata"}
      /\ {"answered", "settle", "stay", "ath"} \subseteq Handling
      /\ "done" \notin Handling /\ "stop" \notin Handling
      /\ Exit(r, e) \in {"stop", "done"}
  BY DEF Place, Handling, Exit
<1>2. /\ route \in BOOLEAN /\ warmup \in [Event -> Warmup] /\ drain \in SUBSET Event
      /\ routed \in SUBSET (Role \X Event) /\ presses \in Nat
  BY <1>0 DEF CallTypeOK
<1>3. CASE TakeRoute(r, e)
  <2>1. /\ goroutine[r][e] = "answered"
        /\ UNCHANGED <<networkVars, line, activeCall, callEventID, watchVars, drain, routed,
                       recorder, answered>>
    BY <1>3 DEF TakeRoute
  <2>2. PICK q \in {"record", "done", "settle"} : Moves(r, e, q)
    BY <1>3 DEF TakeRoute
  <2>3. warmup' \in [Event -> Warmup] /\ route' \in BOOLEAN
    BY <1>2, <1>3 DEF TakeRoute, Warmup
  <2>4. QED
    BY <1>1, <1>2, <2>1, <2>2, <2>3, WalkKeeps DEF networkVars
<1>4. CASE Settle(r, e)
  <2>1. /\ goroutine[r][e] = "settle"
        /\ UNCHANGED <<networkVars, line, activeCall, callEventID, watchVars, route, warmup,
                       drain, recorder, answered>>
    BY <1>4 DEF Settle
  <2>2. PICK q \in {"record", "done"} : Moves(r, e, q)
    BY <1>4 DEF Settle
  <2>3. routed' \in SUBSET (Role \X Event)
    BY <1>2, <1>4 DEF Settle
  <2>4. QED
    BY <1>1, <1>2, <2>1, <2>2, <2>3, WalkKeeps DEF networkVars
<1>5. CASE Stay(r, e)
  <2>1. /\ goroutine[r][e] = "stay"
        /\ UNCHANGED <<networkVars, line, activeCall, callEventID, watchVars, routeVars,
                       recorder, answered>>
    BY <1>5 DEF Stay
  <2>2. PICK q \in {"ath", "stop", "done"} : Moves(r, e, q)
    BY <1>1, <1>5 DEF Stay
  <2>3. QED
    BY <1>1, <1>2, <2>1, <2>2, WalkKeeps DEF networkVars, routeVars
<1>6. CASE HangUp(r, e)
  <2>1. /\ goroutine[r][e] = "ath" /\ line' \in {line, NoLine}
        /\ UNCHANGED <<networkVars, activeCall, callEventID, watchVars, routeVars, recorder,
                       answered>>
    BY <1>6 DEF HangUp
  <2>2. PICK q \in {"clear", "stop", "done"} : Moves(r, e, q)
    BY <1>1, <1>6 DEF HangUp
  <2>3. QED
    BY <1>1, <1>2, <2>1, <2>2, WalkKeeps DEF networkVars, routeVars
<1>7. CASE StopRoute(r, e)
  <2>1. /\ goroutine[r][e] = "stop" /\ Moves(r, e, "done")
        /\ route' = FALSE /\ routed' = routed \ {<<r, e>>}
        /\ UNCHANGED <<networkVars, line, activeCall, callEventID, watchVars, warmup, drain,
                       recorder, answered>>
    BY <1>7 DEF StopRoute
  <2>2. routed' \in SUBSET (Role \X Event) /\ route' \in BOOLEAN
    BY <1>2, <2>1
  <2>3. QED
    BY <1>1, <1>2, <2>1, <2>2, WalkKeeps DEF networkVars
<1>8. CASE ClearAfterHangUp(r, e)
  BY <1>1, <1>8, CallOverKeeps DEF ClearAfterHangUp, watchVars
<1>9. QED
  BY <1>3, <1>4, <1>5, <1>6, <1>7, <1>8

\* The warm-up, and the hang-up on the page.
LEMMA OthersKeep ==
  ASSUME CallInv,
         \/ \E e \in Event : WarmupStarts(e) \/ WarmupReports(e) \/ DrainWarmup(e)
         \/ PressHangUp \/ PressedHangUp \/ ClearPressed
  PROVE  CallInv'
<1>0. CallTypeOK /\ "auto" \in Role
  BY DEF CallInv, Role
<1>1. CASE ClearPressed
  BY <1>0, <1>1, CallOverKeeps DEF ClearPressed
<1>2. CASE ~ClearPressed
  <2>1. /\ UNCHANGED <<settings, arrived, swapped, activeCall, callEventID, goroutine, poller,
                       callbacks, routed, recorder, answered>>
        /\ line' \in {line, NoLine} /\ presses' \in {presses, presses + 1}
        /\ hanger' \in {hanger, "idle", "ath", "clear"}
        /\ drain' \subseteq drain
    BY <1>2 DEF WarmupStarts, WarmupReports, DrainWarmup, PressHangUp, PressedHangUp,
       networkVars, watchVars, routeVars
  <2>2. route' \in BOOLEAN
    BY <1>0, <1>2 DEF WarmupStarts, WarmupReports, DrainWarmup, PressHangUp, PressedHangUp,
       routeVars, CallTypeOK
  <2>3. warmup' \in [Event -> Warmup]
    BY <1>0, <1>2 DEF WarmupStarts, WarmupReports, DrainWarmup, PressHangUp, PressedHangUp,
       routeVars, CallTypeOK, Warmup
  <2>4. CallStory'
    BY <2>1, NothingToldKeeps
  <2>5. CallTypeOK'
    BY <1>0, <2>1, <2>2, <2>3 DEF CallTypeOK
  <2>6. QED
    BY <2>4, <2>5 DEF CallInv, CallStory
<1>3. QED
  BY <1>1, <1>2

\* A recorder that is waited for was given back before, and is nobody's any more.
LEMMA FinishKeeps ==
  ASSUME CallInv, NEW e \in Event, FinishRecording(e)
  PROVE  CallInv'
<1>0. /\ CallTypeOK /\ ActiveFits /\ Workflows /\ QuietFits /\ recorder[e] = "finishing"
      /\ UNCHANGED <<networkVars, line, activeCall, callEventID, goroutine, watchVars,
                     routeVars, answered>>
  BY DEF CallInv, FinishRecording
<1>1. PICK what \in {"saved", "lost"} : recorder' = [recorder EXCEPT ![e] = what]
  BY DEF FinishRecording
<1>2. /\ recorder' \in [Event -> Recorder] /\ recorder'[e] \notin {"attached", "running", "none"}
      /\ \A f \in Event : f # e => recorder'[f] = recorder[f]
  BY <1>0, <1>1 DEF CallTypeOK, Recorder
<1>3. CallTypeOK'
  BY <1>0, <1>2 DEF CallTypeOK, networkVars, watchVars, routeVars
<1>4. ActiveFits'
  <2>1. \A f \in Event : f > callEventID => f # e
    BY <1>0 DEF ActiveFits
  <2>2. QED
    BY <1>0, <1>2, <2>1 DEF ActiveFits
<1>5. Workflows'
  <2>1. \A s \in Role : goroutine[s][e] # "attach"
    BY <1>0 DEF Workflows
  <2>2. \A f \in Event : recorder'[f] = "attached" <=> activeCall.recording = f
    BY <1>0, <1>2 DEF Workflows, RecordersOwned
  <2>3. QED
    BY <1>0, <1>2, <2>1, <2>2 DEF Workflows, OneWorkflow, RecordersOwned
<1>6. QuietFits'
  BY <1>0 DEF QuietFits, Informed, Careful, QuietAnswersAllowed, AllowedNow, Latest,
     numberAllowed, networkVars, watchVars
<1>7. QED
  BY <1>3, <1>4, <1>5, <1>6 DEF CallInv

LEMMA CallInitially == CallInit => CallInv
<1> SUFFICES ASSUME CallInit PROVE CallInv
  OBVIOUS
<1>1. CallTypeOK
  <2>1. "none" \in Place /\ "none" \in Warmup /\ "none" \in Recorder
    BY DEF Place, Warmup, Recorder
  <2>2. 0 \in 0..Len(Number) /\ 0 \in 0..MaxEvents
    BY CallAssumption
  <2>3. QED
    BY <2>1, <2>2, CallTypes DEF CallInit, CallTypeOK, NoLine
<1>2. /\ \A r \in Role, e \in Event : goroutine[r][e] = "none"
      /\ \A e \in Event : recorder[e] = "none" /\ activeCall.recording # e
      /\ activeCall = NoCall
  BY CallTypes, Events DEF CallInit
<1>3. ActiveFits
  BY <1>2, CallTypes DEF ActiveFits
<1>4. Workflows
  BY <1>2 DEF Workflows, OneWorkflow, RecordersOwned, Handling, Role
<1>5. QuietFits
  BY <1>2, CallTypes
    DEF CallInit, QuietFits, Informed, Careful, QuietAnswersAllowed, Role
<1>6. QED
  BY <1>1, <1>3, <1>4, <1>5 DEF CallInv

LEMMA CallNextKeeps == CallInv /\ [CallNext]_callVars => CallInv'
<1> SUFFICES ASSUME CallInv, [CallNext]_callVars PROVE CallInv'
  OBVIOUS
<1>1. CASE UNCHANGED callVars
  <2>1. CallTypeOK'
    BY <1>1 DEF CallInv, CallTypeOK, callVars
  <2>2. ActiveFits' /\ Workflows'
    BY <1>1 DEF CallInv, ActiveFits, Workflows, OneWorkflow, RecordersOwned, callVars
  <2>3. QuietFits'
    BY <1>1 DEF CallInv, QuietFits, Informed, Careful, QuietAnswersAllowed, AllowedNow, Latest,
       numberAllowed, callVars
  <2>4. QED
    BY <2>1, <2>2, <2>3 DEF CallInv
<1>2. CASE CallArrives
  BY <1>2, CallArrivesKeeps
<1>3. CASE CallEnds \/ Poll \/ PollSeen \/ (\E what \in callbacks : Callback(what))
  BY <1>3, WatchKeeps
<1>4. CASE PressHangUp \/ PressedHangUp \/ ClearPressed
  BY <1>4, OthersKeep
<1>5. ASSUME NEW e \in Event,
             \/ Delay(e) \/ Lead(e) \/ Check(e) \/ PressAnswer(e)
             \/ WarmupStarts(e) \/ WarmupReports(e) \/ DrainWarmup(e) \/ FinishRecording(e)
      PROVE  CallInv'
  BY <1>5, WaitKeeps, OthersKeep, FinishKeeps
<1>6. ASSUME NEW e \in Event, NEW r \in Role,
             \/ Claim(r, e) \/ Answer(r, e) \/ AnswerFails(r, e)
             \/ TakeRoute(r, e) \/ Settle(r, e) \/ StartRecorder(r, e)
             \/ AttachRecorder(r, e) \/ Stay(r, e) \/ HangUp(r, e)
             \/ ClearAfterHangUp(r, e) \/ StopRoute(r, e)
      PROVE  CallInv'
  <2>1. CASE Answer(r, e) \/ AnswerFails(r, e)
    BY <2>1, AnswerKeeps, AnswerFailsKeeps
  <2>2. CASE Claim(r, e)
    BY <2>2, ClaimKeeps
  <2>3. CASE StartRecorder(r, e) \/ AttachRecorder(r, e)
    BY <2>3, RecorderKeeps
  <2>4. QED
    BY <1>6, <2>1, <2>2, <2>3, WorkflowKeeps
<1>7. QED
  BY <1>1, <1>2, <1>3, <1>4, <1>5, <1>6 DEF CallNext

\* A call is handled by one workflow, only allowed numbers are answered unless calls
\* overlap, and a recorder belongs to the call that is active.
THEOREM CallsAlwaysKept == CallSpec => []CallsKept
<1>1. CallInv => CallsKept
  BY DEF CallInv, Workflows, QuietFits, CallsKept
<1>2. QED
  BY <1>1, CallInitially, CallNextKeeps, PTL DEF CallSpec

(***************************************************************************)
(* USBBridge.                                                              *)
(***************************************************************************)
BridgePlace == {"idle", "open", "poll", "status", "restart", "gone", "close", "detached",
                "answered"}

\* The variables keep their types.
BridgeTypeOK ==
  /\ present \in BOOLEAN /\ conn \in Nat \ {0} /\ restarting \in BOOLEAN
  /\ enabled \in Profile /\ session \in Profile
  /\ handles \in [Handle -> 0..conn] /\ usbAT \in {0} \cup Handle
  /\ backoff \in {"none"} \cup Errors
  /\ manager \in BOOLEAN /\ overview \in Profile \cup {Unknown}
  /\ at \in [Caller -> BridgePlace] /\ opening \in [Caller -> 0..conn]
  /\ old \in [Caller -> {0} \cup Handle] /\ failed \in [Caller -> {"none"} \cup Errors]
  /\ active \in Profile \cup {Unknown} /\ iccid \in Profile \cup {Unknown}
  /\ told \in {"none", "requested", "warned"}
  /\ switches \in Nat /\ busFaults \in Nat
  /\ quiet \in BOOLEAN /\ stale \in BOOLEAN /\ glitched \in BOOLEAN

\* Who is about to open a handle on the module that is there may do so with a cache that
\* fits that module.
MayOpen(c) == at[c] = "open" /\ opening[c] = conn
CacheFits ==
  /\ usbAT = 0 => overview = Unknown
  /\ ConnOf(usbAT) = conn \/ (\E c \in Caller : MayOpen(c)) => overview \in {Unknown, enabled}

\* The handle that a caller has closed is closed until it is opened anew, and no handle of an
\* earlier connection is in use when one is opened.
HandlesFit ==
  /\ HandleKept
  /\ \A c \in Caller : at[c] = "close" /\ old[c] # 0 => handles[old[c]] = 0
  /\ \A c \in Caller : MayOpen(c) => ConnOf(usbAT) \in {0, conn}

\* A module that has not loaded the profile of its card has not been away since, so that no
\* command finds it gone; who found it gone may tell that it restarts.
RestartFits ==
  /\ at["switch"] # "open"
  /\ ~glitched =>
       /\ ~present => restarting \/ session = enabled
       /\ ~Loaded => ConnOf(usbAT) \in {0, conn}
       /\ told = "requested" => Loaded
       /\ at["switch"] \in {"gone", "close", "detached"} /\ failed["switch"] = "no device"
            => Loaded

\* While nothing came between, what esimHealth has read is of the profile enabled.
HealthFits ==
  /\ at["health"] # "answered" => iccid = Unknown
  /\ quiet /\ at["health"] # "idle" => active = enabled /\ iccid \in {Unknown, session}

BridgeInv == BridgeTypeOK /\ CacheFits /\ HandlesFit /\ RestartFits /\ HealthFits

LEMMA BridgeInvKept == BridgeInv => BridgeKept
<1> SUFFICES ASSUME BridgeInv PROVE BridgeKept
  OBVIOUS
<1>1. CacheOfThisModule
  BY DEF BridgeInv, CacheFits, CacheOfThisModule, Alive
<1>2. HandleKept
  BY DEF BridgeInv, HandlesFit
<1>3. RestartTold
  BY DEF BridgeInv, RestartFits, RestartTold
<1>4. HealthAgrees
  BY DEF BridgeInv, HealthFits, HealthAgrees
<1>5. QED
  BY <1>1, <1>2, <1>3, <1>4 DEF BridgeKept

LEMMA Callers ==
  /\ "health" \in Caller /\ "switch" \in Caller
  /\ \A c \in Worker : c \in Caller /\ c # "health" /\ c # "switch" /\ Then(c) = "poll"
  /\ Then("health") = "status" /\ Then("switch") = "restart"
<1>1. /\ "health" \in Caller /\ "switch" \in Caller
      /\ \A c \in Worker : c \in Caller /\ c # "health" /\ c # "switch"
  BY BridgeAssumption DEF Caller
<1>2. "health" \notin Worker /\ "switch" \notin Worker
  BY BridgeAssumption
<1>3. QED
  BY <1>1, <1>2 DEF Then

LEMMA Handles == /\ \A h \in Handle : h # 0
                 /\ ConnOf(0) = 0 /\ \A h \in Handle : ConnOf(h) = handles[h]
BY BridgeAssumption DEF Handle, ConnOf

\* One caller goes on.
Only(c) == \A d \in Caller : d # c =>
  at'[d] = at[d] /\ opening'[d] = opening[d] /\ old'[d] = old[d] /\ failed'[d] = failed[d]
CallerTypes ==
  /\ at \in [Caller -> BridgePlace] /\ opening \in [Caller -> 0..conn]
  /\ old \in [Caller -> {0} \cup Handle] /\ failed \in [Caller -> {"none"} \cup Errors]

LEMMA CallerGoes ==
  ASSUME BridgeTypeOK, NEW c \in Caller, conn' = conn
  PROVE  /\ CommandReturns(c) => CallerTypes' /\ Only(c) /\ at'[c] = "idle"
         /\ BeginCommand(c) => /\ CallerTypes' /\ Only(c)
                               /\ IF usbAT = 0 THEN at'[c] = "open" /\ opening'[c] = conn
                                  ELSE at'[c] = Then(c)
         /\ \A why \in Errors : CommandFails(c, why) =>
              /\ CallerTypes' /\ Only(c)
              /\ at'[c] = "idle" \/ (at'[c] = "gone" /\ failed'[c] = why)
<1>1. ASSUME CommandReturns(c) PROVE CallerTypes' /\ Only(c) /\ at'[c] = "idle"
  BY <1>1 DEF CommandReturns, Goes, BridgeTypeOK, CallerTypes, Only, BridgePlace
<1>2. ASSUME BeginCommand(c)
      PROVE  /\ CallerTypes' /\ Only(c)
             /\ IF usbAT = 0 THEN at'[c] = "open" /\ opening'[c] = conn ELSE at'[c] = Then(c)
  <2>1. Then(c) \in BridgePlace
    BY DEF Then, BridgePlace
  <2>2. "open" \in BridgePlace /\ conn \in 0..conn /\ 0 \in 0..conn
    BY DEF BridgeTypeOK, BridgePlace
  <2>3. QED
    BY <1>2, <2>1, <2>2 DEF BeginCommand, Goes, BridgeTypeOK, CallerTypes, Only
<1>3. ASSUME NEW why \in Errors, CommandFails(c, why)
      PROVE  /\ CallerTypes' /\ Only(c)
             /\ at'[c] = "idle" \/ (at'[c] = "gone" /\ failed'[c] = why)
  <2>1. CASE isUSBATGoneError(why)
    BY <1>3, <2>1 DEF CommandFails, Goes, BridgeTypeOK, CallerTypes, Only, BridgePlace
  <2>2. CASE ~isUSBATGoneError(why)
    BY <1>1, <1>3, <2>2 DEF CommandFails
  <2>3. QED
    BY <2>1, <2>2
<1>4. QED
  BY <1>1, <1>2, <1>3

\* A caller that leaves the handles and the cache alone.
LEMMA CommandStep ==
  ASSUME BridgeInv, NEW c \in Caller, Only(c), CallerTypes',
         UNCHANGED <<present, conn, enabled, session, appVars, stale, glitched, switches>>,
         busFaults' \in Nat, restarting' \in BOOLEAN, restarting => restarting',
         told' \in {"none", "requested", "warned"},
         active' \in Profile \cup {Unknown}, iccid' \in Profile \cup {Unknown},
         at'[c] # "close", at'[c] = "open" => usbAT = 0 /\ opening'[c] = conn /\ c # "switch",
         ~glitched /\ told' = "requested" => told = "requested" \/ Loaded',
         c = "switch" /\ ~glitched /\ at'[c] \in {"gone", "detached"}
             /\ failed'[c] = "no device" => Loaded',
         quiet' = quiet, HealthFits'
  PROVE  BridgeInv'
<1>0. BridgeTypeOK /\ CacheFits /\ HandlesFit /\ RestartFits
  BY DEF BridgeInv
<1>1. BridgeTypeOK'
  BY <1>0 DEF BridgeTypeOK, CallerTypes, appVars
<1>2. /\ handles' = handles /\ usbAT' = usbAT /\ overview' = overview /\ conn' = conn
      /\ ConnOf(usbAT)' = ConnOf(usbAT)
      /\ usbAT = 0 => ConnOf(usbAT) = 0
  BY DEF appVars, ConnOf
<1>3. \A d \in Caller : MayOpen(d)' => MayOpen(d) \/ usbAT = 0
  BY <1>2 DEF MayOpen, Only
<1>4. CacheFits'
  BY <1>0, <1>2, <1>3 DEF CacheFits
<1>5. HandlesFit'
  BY <1>0, <1>2, <1>3 DEF HandlesFit, HandleKept, Only
<1>6. RestartFits'
  <2>1. Loaded => Loaded'
    BY DEF Loaded
  <2>2. at'["switch"] # "open"
    BY <1>0, Callers DEF RestartFits, Only
  <2>3. ~glitched /\ at'["switch"] \in {"gone", "close", "detached"}
          /\ failed'["switch"] = "no device" => Loaded'
    BY <1>0, <2>1, Callers DEF RestartFits, Only
  <2>4. ~glitched /\ ~present => restarting' \/ session = enabled
    BY <1>0 DEF RestartFits
  <2>5. ~glitched /\ ~Loaded' => ConnOf(usbAT) \in {0, conn}
    BY <1>0, <2>1 DEF RestartFits
  <2>6. QED
    BY <1>0, <1>2, <2>1, <2>2, <2>3, <2>4, <2>5 DEF RestartFits
<1>7. QED
  BY <1>1, <1>4, <1>5, <1>6 DEF BridgeInv

\* What the answer to a command tells of the module.
LEMMA Outcomes ==
  ASSUME BridgeInv, NEW result \in Errors \cup {"answered"}, Outcome(result)
  PROVE  /\ busFaults' \in Nat
         /\ result = "no device" /\ ~glitched => Loaded
<1>0. BridgeTypeOK /\ RestartFits
  BY DEF BridgeInv
<1>1. busFaults' \in Nat
  <2>1. busFaults' = busFaults \/ busFaults' = busFaults + 1
    BY DEF Outcome, Errors
  <2>2. QED
    BY <1>0, <2>1 DEF BridgeTypeOK
<1>2. ASSUME result = "no device", ~glitched, ~Loaded PROVE FALSE
  <2>1. ConnOf(usbAT) # 0 /\ ~Alive(usbAT) /\ present
    BY <1>2 DEF Outcome, Loaded
  <2>2. QED
    BY <1>0, <1>2, <2>1 DEF RestartFits, Alive
<1>3. QED
  BY <1>1, <1>2

LEMMA PollKeeps ==
  ASSUME BridgeInv, NEW c \in Worker, PollModule(c)
  PROVE  BridgeInv'
<1>0. /\ BridgeTypeOK /\ HealthFits /\ c \in Caller /\ c # "switch" /\ c # "health"
      /\ UNCHANGED <<busVars, appVars, active, iccid, told, switches, quiet, stale, glitched>>
  BY Callers DEF BridgeInv, PollModule
<1>1. conn' = conn
  BY <1>0 DEF busVars
<1>2. \/ CommandReturns(c) \/ (BeginCommand(c) /\ at[c] = "idle")
      \/ \E why \in Errors : CommandFails(c, why)
  BY DEF PollModule
<1>3. /\ CallerTypes' /\ Only(c) /\ at'[c] # "close"
      /\ at'[c] = "open" => usbAT = 0 /\ opening'[c] = conn
  BY <1>0, <1>1, <1>2, CallerGoes, Callers
<1>4. busFaults' \in Nat
  BY <1>0, Outcomes DEF PollModule, BridgeTypeOK
<1>5. HealthFits'
  BY <1>0, <1>3, Callers DEF HealthFits, Only, busVars
<1>6. QED
  BY <1>0, <1>3, <1>4, <1>5, CommandStep DEF busVars, BridgeTypeOK

LEMMA HealthKeeps ==
  ASSUME BridgeInv, HealthStatus
  PROVE  BridgeInv'
<1>0. /\ BridgeTypeOK /\ HealthFits /\ "health" \in Caller
      /\ UNCHANGED <<busVars, appVars, told, switches, quiet, stale, glitched>>
      /\ conn' = conn /\ session' = session /\ enabled' = enabled
  BY Callers DEF BridgeInv, HealthStatus, busVars
<1>1. /\ CallerTypes' /\ Only("health") /\ at'["health"] \notin {"close", "open"}
      /\ busFaults' \in Nat
      /\ active' \in {active, Unknown} /\ iccid' \in {iccid, session, Unknown}
      /\ HealthFits'
  <2>1. CASE /\ at["health"] = "status" /\ Outcome("answered")
             /\ StatusRead /\ Goes("health", "answered")
             /\ UNCHANGED <<opening, old, failed, active>>
    <3>1. busFaults' \in Nat
      BY <2>1, Outcomes
    <3>2. CallerTypes' /\ Only("health") /\ at'["health"] = "answered"
      BY <1>0, <2>1 DEF Goes, BridgeTypeOK, CallerTypes, Only, BridgePlace
    <3>3. HealthFits'
      BY <1>0, <2>1, <3>2 DEF HealthFits, StatusRead
    <3>4. QED
      BY <2>1, <3>1, <3>2, <3>3 DEF StatusRead
  <2>2. CASE /\ at["health"] = "status" /\ UNCHANGED <<iccid, active>>
             /\ \E why \in Errors : Outcome(why) /\ CommandFails("health", why)
    <3>1. PICK why \in Errors : Outcome(why) /\ CommandFails("health", why)
      BY <2>2
    <3>2. busFaults' \in Nat
      BY <3>1, Outcomes
    <3>3. CallerTypes' /\ Only("health") /\ at'["health"] \notin {"close", "open"}
      BY <1>0, <3>1, CallerGoes
    <3>4. HealthFits'
      BY <1>0, <2>2 DEF HealthFits
    <3>5. QED
      BY <2>2, <3>2, <3>3, <3>4
  <2>3. CASE HealthReturns /\ UNCHANGED busFaults
    <3>1. CallerTypes' /\ Only("health") /\ at'["health"] = "idle"
      BY <1>0, <2>3, CallerGoes DEF HealthReturns
    <3>2. QED
      BY <1>0, <2>3, <3>1 DEF HealthReturns, HealthFits, BridgeTypeOK
  <2>4. QED
    BY <2>1, <2>2, <2>3 DEF HealthStatus
<1>2. QED
  <2>1. UNCHANGED <<present, restarting>>
    BY <1>0 DEF busVars
  <2>2. active' \in Profile \cup {Unknown} /\ iccid' \in Profile \cup {Unknown}
    BY <1>0, <1>1 DEF BridgeTypeOK
  <2>3. restarting' \in BOOLEAN /\ told' \in {"none", "requested", "warned"}
    BY <1>0, <2>1 DEF BridgeTypeOK
  <2>4. QED
    BY <1>0, <1>1, <2>1, <2>2, <2>3, CommandStep

LEMMA RestartKeeps ==
  ASSUME BridgeInv, RestartModule
  PROVE  BridgeInv'
<1>0. /\ BridgeTypeOK /\ HealthFits /\ "switch" \in Caller /\ at["switch"] = "restart"
      /\ UNCHANGED <<present, conn, enabled, session, appVars, active, iccid, switches, quiet,
                     stale, glitched>>
  BY Callers DEF BridgeInv, RestartModule
<1>1. CASE /\ Outcome("answered") /\ restarting' = TRUE /\ told' = "requested"
           /\ CommandReturns("switch")
  <2>1. CallerTypes' /\ Only("switch") /\ at'["switch"] = "idle" /\ busFaults' \in Nat
    BY <1>0, <1>1, CallerGoes, Outcomes
  <2>2. HealthFits' /\ Loaded'
    BY <1>0, <1>1, <2>1, Callers DEF HealthFits, Only, Loaded
  <2>3. QED
    BY <1>0, <1>1, <2>1, <2>2, CommandStep DEF BridgeTypeOK
<1>2. CASE \E why \in Errors :
             /\ Outcome(why) /\ CommandFails("switch", why)
             /\ restarting' \in {restarting, restarting \/ Alive(usbAT)}
             /\ told' = IF isUSBATGoneError(why) THEN told ELSE "warned"
  <2>1. PICK why \in Errors :
          /\ Outcome(why) /\ CommandFails("switch", why)
          /\ restarting' \in {restarting, restarting \/ Alive(usbAT)}
          /\ told' = IF isUSBATGoneError(why) THEN told ELSE "warned"
    BY <1>2
  <2>2. /\ CallerTypes' /\ Only("switch") /\ busFaults' \in Nat
        /\ at'["switch"] = "idle" \/ (at'["switch"] = "gone" /\ failed'["switch"] = why)
    BY <1>0, <2>1, CallerGoes, Outcomes
  <2>3. /\ restarting' \in BOOLEAN /\ (restarting => restarting')
        /\ told' \in {"none", "requested", "warned"} /\ (told' = "requested" => told = "requested")
    BY <1>0, <2>1 DEF BridgeTypeOK, Alive
  <2>4. HealthFits'
    BY <1>0, <2>2, Callers DEF HealthFits, Only
  <2>5. why = "no device" /\ ~glitched => Loaded'
    BY <1>0, <2>1, <2>3, Outcomes DEF Loaded
  <2>6. QED
    BY <1>0, <2>2, <2>3, <2>4, <2>5, CommandStep DEF BridgeTypeOK
<1>3. QED
  BY <1>1, <1>2 DEF RestartModule

LEMMA AnswersKeep ==
  ASSUME BridgeInv, SwitchAnswers
  PROVE  BridgeInv'
<1>0. /\ BridgeTypeOK /\ HealthFits /\ RestartFits /\ "switch" \in Caller
      /\ CommandReturns("switch") /\ conn' = conn
      /\ UNCHANGED <<busVars, appVars, active, iccid, switches, busFaults, quiet, stale, glitched>>
  BY Callers DEF BridgeInv, SwitchAnswers, busVars
<1>1. CallerTypes' /\ Only("switch") /\ at'["switch"] = "idle"
  BY <1>0, CallerGoes
<1>2. at["switch"] = "detached" /\ told' = Told(failed["switch"])
  BY <1>0 DEF SwitchAnswers, OpenFails, RestartFits
<1>3. /\ told' \in {"none", "requested", "warned"}
      /\ told' = "requested" /\ ~glitched => Loaded
  BY <1>0, <1>2 DEF Told, RestartFits
<1>4. HealthFits' /\ (Loaded => Loaded')
  BY <1>0, <1>1, Callers DEF HealthFits, Only, Loaded, busVars
<1>5. QED
  BY <1>0, <1>1, <1>3, <1>4, CommandStep DEF BridgeTypeOK, busVars

\* esimHealth and switchESIM begin with a cache and a bridge that fit the module.
LEMMA OverviewKeeps ==
  ASSUME BridgeInv, HealthOverview
  PROVE  BridgeInv'
<1>0. /\ BridgeTypeOK /\ CacheFits /\ HandlesFit /\ RestartFits /\ HealthFits
      /\ at["health"] = "idle" /\ BeginCommand("health") /\ overview' = active'
      /\ quiet' = Alive(usbAT)
      /\ UNCHANGED <<busVars, handles, usbAT, backoff, manager, iccid, told, switches,
                     busFaults, stale, glitched>>
  BY DEF BridgeInv, HealthOverview
<1>1. /\ usbAT = 0 => ~Alive(usbAT) /\ ConnOf(usbAT) = 0
      /\ Alive(usbAT) => ConnOf(usbAT) = conn
      /\ ConnOf(usbAT)' = ConnOf(usbAT) /\ conn' = conn /\ conn # 0
  BY <1>0 DEF Alive, ConnOf, busVars, BridgeTypeOK
<1>2. \/ overview # Unknown /\ active' = overview
      \/ Alive(usbAT) /\ active' = enabled
  BY DEF HealthOverview
<1>3. /\ usbAT # 0 /\ active' \in Profile \cup {Unknown}
      /\ Alive(usbAT) => active' = enabled
      /\ overview' \in {overview, enabled}
  BY <1>0, <1>1, <1>2 DEF CacheFits, BridgeTypeOK
<1>4. CallerTypes' /\ Only("health") /\ at'["health"] = "status"
  BY <1>0, <1>1, <1>3, CallerGoes, Callers
<1>5. \A c \in Caller : MayOpen(c)' => MayOpen(c)
  BY <1>1, <1>4 DEF MayOpen, Only
<1>6. BridgeTypeOK'
  BY <1>0, <1>3, <1>4 DEF BridgeTypeOK, CallerTypes, busVars, Alive
<1>7. CacheFits'
  BY <1>0, <1>1, <1>3, <1>5 DEF CacheFits, busVars
<1>8. HandlesFit'
  BY <1>0, <1>1, <1>4, <1>5 DEF HandlesFit, HandleKept, Only
<1>9. RestartFits'
  BY <1>0, <1>1, <1>4, Callers DEF RestartFits, Only, Loaded, busVars
<1>10. HealthFits'
  BY <1>0, <1>3, <1>4 DEF HealthFits, busVars
<1>11. QED
  BY <1>6, <1>7, <1>8, <1>9, <1>10 DEF BridgeInv

LEMMA SwitchKeeps ==
  ASSUME BridgeInv, SwitchProfile
  PROVE  BridgeInv'
<1>0. /\ BridgeTypeOK /\ CacheFits /\ HandlesFit /\ RestartFits /\ HealthFits
      /\ Alive(usbAT) /\ BeginCommand("switch") /\ switches' = switches + 1
      /\ enabled' \in Profile \ {enabled} /\ told' = "none" /\ quiet' = FALSE
      /\ overview' = IF overview = Unknown THEN Unknown ELSE enabled'
      /\ UNCHANGED <<present, conn, session, restarting, handles, usbAT, backoff, manager,
                     active, iccid, busFaults, stale, glitched>>
  BY DEF BridgeInv, SwitchProfile
<1>1. /\ ConnOf(usbAT) = conn /\ ConnOf(usbAT)' = conn /\ present /\ usbAT # 0
  BY <1>0 DEF Alive, ConnOf, BridgeTypeOK
<1>2. CallerTypes' /\ Only("switch") /\ at'["switch"] = "restart"
  BY <1>0, <1>1, CallerGoes, Callers
<1>3. \A c \in Caller : MayOpen(c)' => MayOpen(c)
  BY <1>0, <1>2 DEF MayOpen, Only
<1>4. BridgeTypeOK'
  <2>1. switches' \in Nat /\ enabled' \in Profile /\ overview' \in Profile \cup {Unknown}
    BY <1>0 DEF BridgeTypeOK
  <2>2. QED
    BY <1>0, <1>2, <2>1 DEF BridgeTypeOK, CallerTypes
<1>5. CacheFits'
  BY <1>0, <1>1 DEF CacheFits
<1>6. HandlesFit'
  BY <1>0, <1>1, <1>2, <1>3 DEF HandlesFit, HandleKept, Only
<1>7. RestartFits'
  BY <1>0, <1>1, <1>2 DEF RestartFits, Loaded
<1>8. HealthFits'
  BY <1>0, <1>2, Callers DEF HealthFits, Only
<1>9. QED
  BY <1>4, <1>5, <1>6, <1>7, <1>8 DEF BridgeInv

\* The module goes, or comes: handles and callers of before are of an earlier connection.
LEMMA BusKeeps ==
  ASSUME BridgeInv, Disappears \/ Appears
  PROVE  BridgeInv'
<1>0. /\ BridgeTypeOK /\ CacheFits /\ HandlesFit /\ RestartFits /\ HealthFits
      /\ quiet' = FALSE
      /\ UNCHANGED <<appVars, callerVars, active, iccid, told, switches, stale>>
      /\ UNCHANGED <<handles, usbAT, backoff, manager, overview, at, opening, old, failed>>
  BY DEF BridgeInv, Disappears, Appears, appVars, callerVars
<1>1. ConnOf(usbAT) \in 0..conn /\ ConnOf(usbAT)' = ConnOf(usbAT)
  BY <1>0 DEF BridgeTypeOK, ConnOf
<1>2. HealthFits'
  BY <1>0 DEF HealthFits
<1>3. CASE Disappears
  <2>1. /\ present' = FALSE /\ UNCHANGED <<conn, enabled, session>>
        /\ \/ restarting' = TRUE /\ UNCHANGED <<busFaults, glitched>>
           \/ busFaults' = busFaults + 1 /\ glitched' = TRUE /\ UNCHANGED restarting
    BY <1>3 DEF Disappears
  <2>2. BridgeTypeOK'
    <3>1. /\ present' \in BOOLEAN /\ restarting' \in BOOLEAN
          /\ glitched' \in BOOLEAN /\ quiet' \in BOOLEAN
      BY <1>0, <2>1, Zenon DEF BridgeTypeOK
    <3>2. busFaults' = busFaults \/ busFaults' = busFaults + 1
      BY <2>1
    <3>3. busFaults' \in Nat
      BY <1>0, <3>2 DEF BridgeTypeOK
    <3>4. QED
      BY <1>0, <2>1, <3>1, <3>3 DEF BridgeTypeOK
  <2>3. CacheFits' /\ HandlesFit'
    BY <1>0, <1>1, <2>1 DEF CacheFits, HandlesFit, HandleKept, MayOpen
  <2>4. RestartFits'
    BY <1>0, <1>1, <2>1 DEF RestartFits, Loaded
  <2>5. QED
    BY <1>2, <2>2, <2>3, <2>4 DEF BridgeInv
<1>4. CASE Appears
  <2>1. /\ ~present /\ present' = TRUE /\ conn' = conn + 1 /\ restarting' = FALSE
        /\ IF restarting THEN enabled' \in Profile /\ session' = enabled'
           ELSE UNCHANGED <<enabled, session>>
        /\ UNCHANGED <<busFaults, glitched>>
    BY <1>4 DEF Appears
  <2>2. conn \in Nat /\ 0..conn \subseteq 0..conn' /\ conn' \in Nat \ {0}
    BY <1>0, <2>1 DEF BridgeTypeOK
  <2>3. BridgeTypeOK'
    BY <1>0, <2>1, <2>2, ZenonT(40) DEF BridgeTypeOK
  <2>4. ConnOf(usbAT) # conn' /\ \A c \in Caller : ~MayOpen(c)'
    BY <1>0, <1>1, <2>1 DEF BridgeTypeOK, MayOpen
  <2>5. CacheFits' /\ HandlesFit'
    BY <1>0, <1>1, <2>4 DEF CacheFits, HandlesFit, HandleKept
  <2>6. ~glitched => session' = enabled'
    BY <1>0, <2>1 DEF RestartFits
  <2>7. RestartFits'
    BY <1>0, <2>1, <2>6 DEF RestartFits, Loaded
  <2>8. QED
    BY <1>2, <2>3, <2>5, <2>7 DEF BridgeInv
<1>5. QED
  BY <1>3, <1>4

LEMMA OpenKeeps ==
  ASSUME BridgeInv, NEW c \in Caller, OpenHandle(c)
  PROVE  BridgeInv'
<1>0. /\ BridgeTypeOK /\ CacheFits /\ HandlesFit /\ RestartFits /\ HealthFits
      /\ at[c] = "open" /\ CanClaim(c) /\ backoff' = "none" /\ manager' = TRUE
      /\ Goes(c, Then(c)) /\ opening' = [opening EXCEPT ![c] = 0]
      /\ UNCHANGED <<busVars, overview, failed, active, iccid, told, switches, busFaults,
                     quiet, stale, glitched>>
      /\ UNCHANGED <<present, conn, enabled, session, restarting>>
  BY DEF BridgeInv, OpenHandle, installESIMManager, busVars
<1>1. PICK h \in Handle :
        /\ handles[h] = 0 /\ handles' = [handles EXCEPT ![h] = conn] /\ usbAT' = h
        /\ old' = [d \in Caller |-> IF old[d] = h THEN 0 ELSE old[d]]
  BY DEF OpenHandle
<1>2. /\ MayOpen(c) /\ conn \in Nat \ {0} /\ h # 0
      /\ \A g \in Handle : handles[g] # conn
  BY <1>0, Handles DEF CanClaim, MayOpen, BridgeTypeOK
<1>3. ~stale => \A g \in Handle : handles[g] = 0
  BY <1>0, <1>2, Handles DEF HandlesFit, HandleKept
<1>4. /\ handles' \in [Handle -> 0..conn] /\ handles'[h] = conn
      /\ \A g \in Handle : g # h => handles'[g] = handles[g]
      /\ ConnOf(usbAT)' = conn
  BY <1>0, <1>1, <1>2 DEF BridgeTypeOK, ConnOf
<1>5. /\ CallerTypes' /\ at'[c] \in {"poll", "status", "restart"} /\ opening'[c] = 0
      /\ \A d \in Caller : d # c => at'[d] = at[d] /\ opening'[d] = opening[d]
  <2>1. Then(c) \in {"poll", "status", "restart"}
    BY DEF Then
  <2>2. Then(c) \in BridgePlace
    BY <2>1 DEF BridgePlace
  <2>3. QED
    BY <1>0, <1>1, <2>1, <2>2 DEF BridgeTypeOK, CallerTypes, Goes
<1>6. BridgeTypeOK'
  BY <1>0, <1>1, <1>4, <1>5 DEF BridgeTypeOK, CallerTypes
<1>7. CacheFits'
  BY <1>0, <1>1, <1>2 DEF CacheFits
<1>8. HandlesFit'
  <2>1. HandleKept'
    BY <1>0, <1>1, <1>3, <1>4 DEF HandleKept
  <2>2. ASSUME NEW d \in Caller, at'[d] = "close", old'[d] # 0 PROVE handles'[old'[d]] = 0
    <3>1. d # c /\ at[d] = "close" /\ old[d] # h /\ old'[d] = old[d] /\ old[d] \in Handle
      BY <1>0, <1>1, <1>5, <2>2 DEF BridgeTypeOK
    <3>2. QED
      BY <1>0, <1>4, <2>2, <3>1 DEF HandlesFit
  <2>3. QED
    BY <1>0, <1>4, <2>1, <2>2 DEF HandlesFit
<1>9. RestartFits'
  <2>1. at["switch"] # "open" /\ c # "switch" /\ "switch" \in Caller
    BY <1>0, Callers DEF RestartFits
  <2>2. QED
    BY <1>0, <1>4, <1>5, <2>1 DEF RestartFits, Loaded
<1>10. HealthFits'
  BY <1>0, <1>5, Callers DEF HealthFits
<1>11. QED
  BY <1>6, <1>7, <1>8, <1>9, <1>10 DEF BridgeInv

\* A handle is closed, and then forgotten with what was read through it.
LEMMA CloseKeeps ==
  ASSUME BridgeInv, NEW c \in Caller, CloseHandle(c)
  PROVE  BridgeInv'
<1>0. /\ BridgeTypeOK /\ CacheFits /\ HandlesFit /\ RestartFits /\ HealthFits
      /\ at[c] = "gone"
      /\ UNCHANGED <<busVars, usbAT, backoff, manager, overview, opening, failed, active, iccid,
                     told, switches, busFaults, quiet, glitched>>
      /\ UNCHANGED <<present, conn, enabled, session, restarting>>
  BY DEF BridgeInv, CloseHandle, busVars
<1>1. \/ usbAT = 0 /\ Goes(c, "detached") /\ UNCHANGED <<handles, stale, old>>
      \/ /\ usbAT # 0 /\ handles' = Closed(usbAT) /\ stale' = (stale \/ usbAT # old[c])
         /\ old' = [old EXCEPT ![c] = usbAT] /\ Goes(c, "close")
  BY DEF CloseHandle
<1>2. /\ CallerTypes' /\ at'[c] \in {"detached", "close"}
      /\ at'[c] = "close" => usbAT # 0 /\ old'[c] = usbAT /\ handles'[usbAT] = 0
      /\ \A d \in Caller : d # c => at'[d] = at[d] /\ old'[d] = old[d]
      /\ handles' \in [Handle -> 0..conn] /\ stale' \in BOOLEAN /\ (stale => stale')
      /\ \A g \in Handle : handles'[g] \in {handles[g], 0}
  <2>1. CASE usbAT = 0 /\ Goes(c, "detached") /\ UNCHANGED <<handles, stale, old>>
    BY <1>0, <2>1 DEF BridgeTypeOK, CallerTypes, Goes, BridgePlace
  <2>2. CASE /\ usbAT # 0 /\ handles' = Closed(usbAT) /\ stale' = (stale \/ usbAT # old[c])
             /\ old' = [old EXCEPT ![c] = usbAT] /\ Goes(c, "close")
    <3>1. /\ handles' \in [Handle -> 0..conn] /\ handles'[usbAT] = 0
          /\ \A g \in Handle : handles'[g] \in {handles[g], 0}
      BY <1>0, <2>2 DEF BridgeTypeOK, Closed
    <3>2. CallerTypes' /\ at'[c] = "close" /\ old'[c] = usbAT
      BY <1>0, <2>2 DEF BridgeTypeOK, CallerTypes, Goes, BridgePlace
    <3>3. \A d \in Caller : d # c => at'[d] = at[d] /\ old'[d] = old[d]
      BY <1>0, <2>2 DEF BridgeTypeOK, Goes
    <3>4. stale' \in BOOLEAN /\ (stale => stale')
      BY <1>0, <2>2 DEF BridgeTypeOK
    <3>5. QED
      BY <2>2, <3>1, <3>2, <3>3, <3>4
  <2>3. QED
    BY <1>1, <2>1, <2>2
<1>3. ConnOf(usbAT)' \in {ConnOf(usbAT), 0} /\ conn # 0
  BY <1>0, <1>2 DEF ConnOf, BridgeTypeOK
<1>4. \A d \in Caller : MayOpen(d)' => MayOpen(d)
  BY <1>0, <1>2 DEF MayOpen
<1>5. BridgeTypeOK'
  BY <1>0, <1>2 DEF BridgeTypeOK, CallerTypes
<1>6. CacheFits'
  BY <1>0, <1>3, <1>4 DEF CacheFits
<1>7. HandlesFit'
  <2>1. HandleKept'
    BY <1>0, <1>2 DEF HandlesFit, HandleKept
  <2>2. ASSUME NEW d \in Caller, at'[d] = "close", old'[d] # 0 PROVE handles'[old'[d]] = 0
    <3>1. CASE d = c
      BY <1>2, <2>2, <3>1
    <3>2. CASE d # c
      <4>1. handles[old[d]] = 0 /\ old'[d] = old[d] /\ old[d] \in Handle
        BY <1>0, <1>2, <2>2, <3>2 DEF HandlesFit, BridgeTypeOK
      <4>2. QED
        BY <1>2, <4>1
    <3>3. QED
      BY <3>1, <3>2
  <2>3. QED
    BY <1>0, <1>3, <1>4, <2>1, <2>2 DEF HandlesFit
<1>8. RestartFits'
  <2>1. /\ at'["switch"] # "open"
        /\ at'["switch"] \in {"gone", "close", "detached"}
             => at["switch"] \in {"gone", "close", "detached"}
    BY <1>0, <1>2, Callers DEF RestartFits
  <2>2. QED
    BY <1>0, <1>3, <2>1 DEF RestartFits, Loaded
<1>9. HealthFits'
  BY <1>0, <1>2, Callers DEF HealthFits
<1>10. QED
  BY <1>5, <1>6, <1>7, <1>8, <1>9 DEF BridgeInv

LEMMA DetachKeeps ==
  ASSUME BridgeInv, NEW c \in Caller, MarkDetached(c)
  PROVE  BridgeInv'
<1>0. /\ BridgeTypeOK /\ CacheFits /\ HandlesFit /\ RestartFits /\ HealthFits
      /\ at[c] = "close" /\ usbAT' = 0 /\ backoff' = failed[c] /\ overview' = Unknown
      /\ stale' = (stale \/ usbAT \notin {0, old[c]}) /\ Goes(c, "detached")
      /\ UNCHANGED <<busVars, handles, manager, opening, old, failed, active, iccid, told,
                     switches, busFaults, quiet, glitched>>
      /\ UNCHANGED <<present, conn, enabled, session, restarting>>
  BY DEF BridgeInv, MarkDetached, NotifyModemReset, busVars
<1>1. /\ CallerTypes' /\ at'[c] = "detached"
      /\ \A d \in Caller : d # c => at'[d] = at[d]
  BY <1>0 DEF BridgeTypeOK, CallerTypes, Goes, BridgePlace
<1>2. ConnOf(usbAT)' = 0
  BY <1>0 DEF ConnOf
<1>3. BridgeTypeOK'
  BY <1>0, <1>1 DEF BridgeTypeOK, CallerTypes
<1>4. CacheFits'
  BY <1>0 DEF CacheFits
<1>5. HandlesFit'
  <2>1. HandleKept'
    BY <1>0, Handles DEF HandlesFit, HandleKept
  <2>2. QED
    BY <1>0, <1>1, <1>2, <2>1 DEF HandlesFit
<1>6. RestartFits'
  BY <1>0, <1>1, <1>2, Callers DEF RestartFits, Loaded
<1>7. HealthFits'
  BY <1>0, <1>1, Callers DEF HealthFits
<1>8. QED
  BY <1>3, <1>4, <1>5, <1>6, <1>7 DEF BridgeInv

LEMMA BridgeInitially == BridgeInit => BridgeInv
<1> SUFFICES ASSUME BridgeInit PROVE BridgeInv
  OBVIOUS
<1>1. BridgeTypeOK
  <2>1. /\ at \in [Caller -> BridgePlace] /\ opening \in [Caller -> 0..conn]
        /\ old \in [Caller -> {0} \cup Handle] /\ failed \in [Caller -> {"none"} \cup Errors]
        /\ handles \in [Handle -> 0..conn]
    BY DEF BridgeInit, BridgePlace
  <2>2. /\ present \in BOOLEAN /\ restarting \in BOOLEAN /\ manager \in BOOLEAN
        /\ quiet \in BOOLEAN /\ stale \in BOOLEAN /\ glitched \in BOOLEAN
    BY DEF BridgeInit
  <2>3. conn \in Nat \ {0} /\ switches \in Nat /\ busFaults \in Nat
    BY DEF BridgeInit
  <2>4. QED
    BY <2>1, <2>2, <2>3 DEF BridgeInit, BridgeTypeOK
<1>2. /\ ConnOf(usbAT) = 0 /\ \A c \in Caller : at[c] = "idle"
      /\ \A h \in Handle : handles[h] = 0
  BY DEF BridgeInit, ConnOf
<1>3. CacheFits /\ HandlesFit
  BY <1>2 DEF BridgeInit, CacheFits, HandlesFit, HandleKept, MayOpen
<1>4. RestartFits /\ HealthFits
  BY <1>2, Callers DEF BridgeInit, RestartFits, HealthFits, Loaded
<1>5. QED
  BY <1>1, <1>3, <1>4 DEF BridgeInv

LEMMA BridgeNextKeeps == BridgeInv /\ [BridgeNext]_bridgeVars => BridgeInv'
<1> SUFFICES ASSUME BridgeInv, [BridgeNext]_bridgeVars PROVE BridgeInv'
  OBVIOUS
<1>1. CASE UNCHANGED bridgeVars
  <2>1. BridgeTypeOK'
    BY <1>1 DEF BridgeInv, BridgeTypeOK, bridgeVars, busVars, appVars, callerVars
  <2>2. CacheFits' /\ HandlesFit'
    BY <1>1 DEF BridgeInv, CacheFits, HandlesFit, HandleKept, MayOpen, ConnOf,
       bridgeVars, busVars, appVars, callerVars
  <2>3. RestartFits' /\ HealthFits'
    BY <1>1 DEF BridgeInv, RestartFits, HealthFits, Loaded, ConnOf,
       bridgeVars, busVars, appVars, callerVars
  <2>4. QED
    BY <2>1, <2>2, <2>3 DEF BridgeInv
<1>2. CASE BridgeNext
  BY <1>2, BusKeeps, OpenKeeps, CloseKeeps, DetachKeeps, PollKeeps, OverviewKeeps, HealthKeeps,
     SwitchKeeps, RestartKeeps, AnswersKeep DEF BridgeNext
<1>3. QED
  BY <1>1, <1>2

\* The cache of the eSIM manager, the handle and what is reported of a restart and of the
\* module's health are of the module that is there, but for the exceptions named.
THEOREM BridgeAlwaysKept == BridgeSpec => []BridgeKept
BY BridgeInitially, BridgeNextKeeps, BridgeInvKept, PTL DEF BridgeSpec

(***************************************************************************)
(* USBSMS.                                                                 *)
(***************************************************************************)
Places ==
  {"idle", "mode", "select SM", "list SM", "select ME", "list ME", "listed", "failed",
   "clear", "delete", "recheck"}
Gathering == {"select SM", "list SM", "select ME", "list ME", "listed"}

\* The variables keep their types.
SMSTypeOK ==
  /\ plugged \in BOOLEAN /\ smsUSB \in {"none", "open", "dead"} /\ selected \in Memory
  /\ unread \in [Memory -> SUBSET Message] /\ read \in [Memory -> SUBSET Message]
  /\ deleted \in [Memory -> SUBSET Message]
  /\ reader \in [Goroutine -> Places] /\ got \in [Poller -> SUBSET Message]
  /\ sms \in SUBSET Message /\ forwarded \in [Message -> Nat] /\ disturbed \in BOOLEAN

\* A handle that works is that of a module that is there.
OpenIsPlugged == smsUSB = "open" => plugged

\* As long as nothing was disturbed there is one sequence at most, and what deletes has
\* selected the storage of the module.
Undisturbed ==
  ~disturbed =>
    /\ \A g, h \in Goroutine : reader[g] # "idle" /\ reader[h] # "idle" => g = h
    /\ \A g \in Goroutine : reader[g] = "delete" /\ smsUSB = "open" => selected = "ME"

\* A poll holds messages only between its listings and their merging.
EmptyHanded == \A g \in Poller : reader[g] \notin Gathering => got[g] = {}

SMSInv ==
  SMSTypeOK /\ OpenIsPlugged /\ Undisturbed /\ EmptyHanded /\ QuietSIMKept /\ NothingElseLost

LEMMA SMSStart == SMSInit => SMSInv
<1> SUFFICES ASSUME SMSInit PROVE SMSInv
  OBVIOUS
<1>1. SMSTypeOK
  BY DEF SMSInit, SMSTypeOK, Places, Memory
<1>2. \A g \in Goroutine : reader[g] = "idle"
  BY DEF SMSInit
<1>3. OpenIsPlugged /\ Undisturbed /\ EmptyHanded
  BY <1>2 DEF SMSInit, OpenIsPlugged, Undisturbed, EmptyHanded
<1>4. QuietSIMKept /\ NothingElseLost
  BY DEF SMSInit, QuietSIMKept, NothingElseLost, Known, Memory
<1>5. QED
  BY <1>1, <1>3, <1>4 DEF SMSInv

\* What the steps of the module do to the invariant.
LEMMA ModuleKeeps ==
  ASSUME SMSInv, Unplug \/ Plug \/ \E storage \in Memory, m \in Message : Arrive(storage, m)
  PROVE  SMSInv'
<1>0. /\ SMSTypeOK /\ OpenIsPlugged /\ Undisturbed /\ EmptyHanded /\ QuietSIMKept
      /\ NothingElseLost
  BY DEF SMSInv
<1>1. CASE Unplug
  <2>1. SMSTypeOK' /\ OpenIsPlugged' /\ Undisturbed'
    BY <1>0, <1>1 DEF Unplug, SMSTypeOK, OpenIsPlugged, Undisturbed
  <2>2. EmptyHanded' /\ QuietSIMKept' /\ NothingElseLost'
    BY <1>0, <1>1 DEF Unplug, EmptyHanded, QuietSIMKept, NothingElseLost, Known, Held
  <2>3. QED
    BY <2>1, <2>2 DEF SMSInv
<1>2. CASE Plug
  <2>1. SMSTypeOK' /\ OpenIsPlugged' /\ Undisturbed'
    BY <1>0, <1>2 DEF Plug, desktopVars, SMSTypeOK, OpenIsPlugged, Undisturbed
  <2>2. EmptyHanded' /\ QuietSIMKept' /\ NothingElseLost'
    BY <1>0, <1>2 DEF Plug, desktopVars, EmptyHanded, QuietSIMKept, NothingElseLost, Known, Held
  <2>3. QED
    BY <2>1, <2>2 DEF SMSInv
<1>3. ASSUME NEW storage \in Memory, NEW m \in Message, Arrive(storage, m) PROVE SMSInv'
  <2>1. SMSTypeOK' /\ OpenIsPlugged' /\ Undisturbed'
    BY <1>0, <1>3 DEF Arrive, desktopVars, SMSTypeOK, OpenIsPlugged, Undisturbed
  <2>2. EmptyHanded' /\ QuietSIMKept'
    BY <1>0, <1>3 DEF Arrive, desktopVars, EmptyHanded, QuietSIMKept
  <2>3. ASSUME NEW n \in Message PROVE Known(n)' /\ n \notin lost' => Held(n)' \/ n \in sms'
    <3>1. CASE n = m
      BY <1>0, <1>3, <3>1 DEF Arrive, SMSTypeOK, Held
    <3>2. CASE n # m
      <4>1. Known(n)' => Known(n)
        BY <1>0, <1>3, <3>2 DEF Arrive, SMSTypeOK, Known
      <4>2. Held(n) => Held(n)'
        BY <1>0, <1>3 DEF Arrive, desktopVars, SMSTypeOK, Held
      <4>3. QED
        BY <1>0, <1>3, <4>1, <4>2 DEF Arrive, desktopVars, NothingElseLost
    <3>3. QED
      BY <3>1, <3>2
  <2>4. NothingElseLost'
    BY <1>0, <1>3, <2>3 DEF Arrive, desktopVars, NothingElseLost
  <2>5. QED
    BY <2>1, <2>2, <2>4 DEF SMSInv
<1>4. QED
  BY <1>1, <1>2, <1>3

\* A goroutine goes on, and only what it holds of messages may change with it.
LEMMA BeginKeeps ==
  ASSUME SMSInv, BeginClear \/ \E g \in Poller : BeginPoll(g)
  PROVE  SMSInv'
<1>0. /\ SMSTypeOK /\ OpenIsPlugged /\ Undisturbed /\ EmptyHanded /\ QuietSIMKept
      /\ NothingElseLost
  BY DEF SMSInv
<1>1. PICK g \in Goroutine, place \in {"mode", "clear"} :
        /\ BeginSequence(g, place)
        /\ UNCHANGED <<modemVars, got, errs, gone, sms, forwarded, smsFaults, lost>>
  BY DEF BeginClear, BeginPoll, Goroutine
<1>2. SMSTypeOK' /\ OpenIsPlugged'
  BY <1>0, <1>1 DEF BeginSequence, Reaches, modemVars, SMSTypeOK, OpenIsPlugged, Places
<1>3. Undisturbed'
  BY <1>0, <1>1 DEF BeginSequence, Reaches, modemVars, SMSTypeOK, Undisturbed
<1>4. EmptyHanded' /\ QuietSIMKept' /\ NothingElseLost'
  BY <1>0, <1>1 DEF BeginSequence, Reaches, modemVars, SMSTypeOK, EmptyHanded, QuietSIMKept,
     NothingElseLost, Known, Held, Gathering, Goroutine
<1>5. QED
  BY <1>2, <1>3, <1>4 DEF SMSInv

\* A goroutine with nothing in its hands, and none in them then, goes on; the storage that
\* is selected may change, and must be that of the module before a deletion.
LEMMA GoesOnKeeps ==
  ASSUME SMSInv, NEW g \in Goroutine, NEW place \in Places \ {"delete"}, reader[g] # "idle",
         Reaches(g, place), selected' \in Memory,
         smsUSB' \in {smsUSB, "none"}, disturbed' \in BOOLEAN, disturbed => disturbed',
         g \in Poller /\ place \notin Gathering => got[g] = {},
         UNCHANGED <<plugged, unread, read, deleted, got, sms, forwarded, lost>>
  PROVE  SMSInv'
<1>0. /\ SMSTypeOK /\ OpenIsPlugged /\ Undisturbed /\ EmptyHanded /\ QuietSIMKept
      /\ NothingElseLost
  BY DEF SMSInv
<1>1. SMSTypeOK' /\ OpenIsPlugged'
  BY <1>0 DEF Reaches, SMSTypeOK, OpenIsPlugged
<1>2. Undisturbed'
  BY <1>0 DEF Reaches, SMSTypeOK, Undisturbed
<1>3. EmptyHanded' /\ QuietSIMKept' /\ NothingElseLost'
  BY <1>0 DEF Reaches, SMSTypeOK, EmptyHanded, QuietSIMKept, NothingElseLost, Known, Held
<1>4. QED
  BY <1>1, <1>2, <1>3 DEF SMSInv

LEMMA ModeKeeps == ASSUME SMSInv, NEW g \in Poller, SetPDUMode(g) PROVE SMSInv'
<1>0. /\ g \in Goroutine /\ SMSTypeOK /\ EmptyHanded /\ got[g] = {}
  BY DEF SMSInv, SetPDUMode, EmptyHanded, Goroutine, Gathering
<1>1. PICK place \in {"failed", "select SM"} : Reaches(g, place)
  BY DEF SetPDUMode
<1>2. place \in Places \ {"delete"} /\ selected' \in Memory
  BY <1>0 DEF Places, SetPDUMode, modemVars, SMSTypeOK
<1>3. QED
  BY <1>0, <1>1, <1>2, GoesOnKeeps DEF SetPDUMode, modemVars, SMSTypeOK

LEMMA SelectTyped ==
  ASSUME SMSTypeOK, NEW storage \in Memory, NEW what, Select(storage, what)
  PROVE  selected' \in Memory /\ disturbed' \in BOOLEAN /\ (disturbed => disturbed')
BY DEF Select, SMSTypeOK

\* Where the loop over the memories stands, by storage.
LEMMA LoopPlaces ==
  \A storage \in Memory :
    /\ Selecting[storage] \in Gathering /\ Listing[storage] \in Gathering
    /\ AfterMemory(storage) \in Gathering
<1>1. Selecting["SM"] \in Gathering /\ Selecting["ME"] \in Gathering
  BY DEF Selecting, Gathering
<1>2. Listing["SM"] \in Gathering /\ Listing["ME"] \in Gathering
  BY DEF Listing, Gathering
<1>3. QED
  BY <1>1, <1>2 DEF AfterMemory, Gathering, Memory

LEMMA SelectKeeps ==
  ASSUME SMSInv, NEW g \in Poller, NEW storage \in Memory, SelectMemory(g, storage)
  PROVE  SMSInv'
<1>0. /\ g \in Goroutine /\ SMSTypeOK
  BY DEF SMSInv, Goroutine
<1>1. PICK what \in Answers \cup Failures : Select(storage, what)
  BY DEF SelectMemory
<1>2. PICK place \in Gathering : Reaches(g, place)
  <2>1. AfterMemory(storage) \in Gathering /\ Listing[storage] \in Gathering
    BY LoopPlaces
  <2>2. QED
    BY <2>1 DEF SelectMemory
<1>3. place \in Places \ {"delete"} /\ reader[g] # "idle"
  BY LoopPlaces DEF Places, Gathering, SelectMemory
<1>4. QED
  BY <1>0, <1>1, <1>2, <1>3, SelectTyped, GoesOnKeeps DEF SelectMemory, SMSTypeOK

\* What a listing reads is in the hands of the one that listed, or lost.
LEMMA ListKeeps ==
  ASSUME SMSInv, NEW g \in Poller, NEW storage \in Memory, ListMemory(g, storage)
  PROVE  SMSInv'
<1>0. /\ SMSTypeOK /\ OpenIsPlugged /\ Undisturbed /\ EmptyHanded /\ QuietSIMKept
      /\ NothingElseLost /\ g \in Goroutine
  BY DEF SMSInv, Goroutine
<1>1. PICK what \in Answers \cup Failures, shown \in SUBSET Message :
        List(what, shown) /\ got' = [got EXCEPT ![g] = @ \cup shown]
  BY DEF ListMemory
<1>2. PICK place \in {"select ME", "listed"} : Reaches(g, place)
  BY DEF ListMemory, AfterMemory
<1>3. reader[g] # "idle"
  BY LoopPlaces DEF ListMemory, Gathering
<1>4. /\ UNCHANGED <<plugged, selected, deleted, smsUSB, sms, forwarded, disturbed>>
      /\ \/ UNCHANGED <<unread, read, lost>>
         \/ /\ unread' = [unread EXCEPT ![selected] = {}]
            /\ read' = [read EXCEPT ![selected] = @ \cup unread[selected]]
            /\ lost' = lost \cup (unread[selected] \ shown)
  BY <1>1 DEF ListMemory, List
<1>5. SMSTypeOK'
  <2>1. reader' \in [Goroutine -> Places] /\ got' \in [Poller -> SUBSET Message]
    BY <1>0, <1>1, <1>2 DEF Reaches, SMSTypeOK, Places
  <2>2. unread' \in [Memory -> SUBSET Message] /\ read' \in [Memory -> SUBSET Message]
    <3>1. /\ selected \in Memory /\ unread[selected] \in SUBSET Message
          /\ read[selected] \cup unread[selected] \in SUBSET Message
      BY <1>0 DEF SMSTypeOK
    <3>2. QED
      BY <1>0, <1>4, <3>1 DEF SMSTypeOK
  <2>3. QED
    BY <1>0, <1>4, <2>1, <2>2 DEF SMSTypeOK
<1>6. OpenIsPlugged' /\ Undisturbed' /\ EmptyHanded' /\ QuietSIMKept'
  <2>1. OpenIsPlugged' /\ QuietSIMKept'
    BY <1>0, <1>4 DEF OpenIsPlugged, QuietSIMKept
  <2>2. Undisturbed'
    BY <1>0, <1>2, <1>3, <1>4 DEF Reaches, SMSTypeOK, Undisturbed
  <2>3. EmptyHanded'
    <3>1. reader' = [reader EXCEPT ![g] = place] /\ place \in Gathering
      BY <1>2 DEF Reaches, Gathering
    <3>2. QED
      BY <1>0, <1>1, <3>1 DEF SMSTypeOK, EmptyHanded, Goroutine
  <2>4. QED
    BY <2>1, <2>2, <2>3
<1>7. ASSUME NEW m \in Message, Known(m)', m \notin lost' PROVE Held(m)' \/ m \in sms'
  <2>1. Known(m) /\ m \notin lost
    BY <1>0, <1>4, <1>7 DEF SMSTypeOK, Known
  <2>2. CASE m \in sms
    BY <1>4, <2>2
  <2>3. CASE \E h \in Poller : m \in got[h]
    BY <1>0, <1>1, <2>3 DEF SMSTypeOK, Held
  <2>4. CASE \E x \in Memory : m \in unread[x]
    <3>1. CASE m \in shown
      BY <1>0, <1>1, <3>1 DEF SMSTypeOK, Held
    <3>2. CASE m \notin shown
      BY <1>0, <1>4, <1>7, <2>4, <3>2 DEF SMSTypeOK, Held
    <3>3. QED
      BY <3>1, <3>2
  <2>5. QED
    BY <1>0, <2>1, <2>2, <2>3, <2>4 DEF NothingElseLost, Held
<1>8. NothingElseLost'
  BY <1>0, <1>4, <1>7 DEF NothingElseLost
<1>9. QED
  BY <1>5, <1>6, <1>8 DEF SMSInv

\* What a poll holds is shown and, when it is new, forwarded once.
LEMMA MergeKeeps == ASSUME SMSInv, NEW g \in Poller, Merge(g) PROVE SMSInv'
<1>0. /\ SMSTypeOK /\ OpenIsPlugged /\ Undisturbed /\ EmptyHanded /\ QuietSIMKept
      /\ NothingElseLost /\ g \in Goroutine
  BY DEF SMSInv, Goroutine
<1>1. CASE ListFails(g)
  <2>1. got[g] = {} /\ Reaches(g, "failed") /\ reader[g] # "idle"
    BY <1>1 DEF Merge, ListFails
  <2>2. "failed" \in Places \ {"delete"}
    BY DEF Places
  <2>3. QED
    BY <1>0, <1>1, <2>1, <2>2, GoesOnKeeps DEF Merge, modemVars, SMSTypeOK
<1>2. CASE ~ListFails(g)
  <2>1. /\ sms' = sms \cup got[g]
        /\ forwarded' = [m \in Message |->
                           forwarded[m] + (IF m \in got[g] \ sms THEN 1 ELSE 0)]
        /\ got' = [got EXCEPT ![g] = {}] /\ reader[g] = "listed"
        /\ UNCHANGED <<plugged, selected, unread, read, deleted, smsUSB, disturbed, lost>>
    BY <1>2 DEF Merge, Forget, modemVars
  <2>2. PICK place \in {"idle", "clear"} : Reaches(g, place)
    BY <1>2 DEF Merge
  <2>3. SMSTypeOK' /\ OpenIsPlugged'
    <3>1. forwarded' \in [Message -> Nat]
      BY <1>0, <2>1 DEF SMSTypeOK
    <3>2. sms' \in SUBSET Message /\ got' \in [Poller -> SUBSET Message]
      BY <1>0, <2>1 DEF SMSTypeOK
    <3>3. reader' \in [Goroutine -> Places]
      BY <1>0, <2>2 DEF Reaches, SMSTypeOK, Places
    <3>4. QED
      BY <1>0, <2>1, <3>1, <3>2, <3>3 DEF SMSTypeOK, OpenIsPlugged
  <2>4. Undisturbed' /\ EmptyHanded' /\ QuietSIMKept'
    BY <1>0, <2>1, <2>2 DEF Reaches, SMSTypeOK, Undisturbed, EmptyHanded, QuietSIMKept
  <2>5. ASSUME NEW m \in Message
        PROVE  /\ Known(m)' /\ m \notin lost' => Held(m)' \/ m \in sms'
               /\ forwarded'[m] = (IF m \in sms' THEN 1 ELSE 0)
    <3>1. Known(m)' => Known(m)
      BY <2>1 DEF Known
    <3>2. Held(m) => Held(m)' \/ m \in sms'
      BY <1>0, <2>1 DEF SMSTypeOK, Held
    <3>3. forwarded[m] = (IF m \in sms THEN 1 ELSE 0)
      BY <1>0 DEF NothingElseLost
    <3>4. QED
      BY <1>0, <2>1, <3>1, <3>2, <3>3 DEF NothingElseLost, SMSTypeOK
  <2>6. QED
    BY <2>3, <2>4, <2>5 DEF SMSInv, NothingElseLost
<1>3. QED
  BY <1>1, <1>2

LEMMA PollDetachKeeps == ASSUME SMSInv, NEW g \in Poller, Detach(g) PROVE SMSInv'
<1>0. /\ g \in Goroutine /\ SMSTypeOK /\ EmptyHanded /\ got[g] = {}
  BY DEF SMSInv, Detach, EmptyHanded, Goroutine, Gathering
<1>1. got' = got /\ reader[g] # "idle" /\ "idle" \in Places \ {"delete"}
  BY <1>0 DEF Detach, Forget, SMSTypeOK, Places
<1>2. /\ selected' \in Memory /\ smsUSB' \in {smsUSB, "none"} /\ disturbed' = disturbed
      /\ UNCHANGED <<plugged, unread, read, deleted, sms, forwarded, lost>>
  BY <1>0 DEF Detach, modemVars, SMSTypeOK
<1>3. QED
  BY <1>0, <1>1, <1>2, GoesOnKeeps DEF Detach, SMSTypeOK

\* The storage of the module is selected, unless a refusal is taken for an answer.
LEMMA ClearSelectKeeps == ASSUME SMSInv, NEW g \in Goroutine, ClearSelect(g) PROVE SMSInv'
<1>0. /\ SMSTypeOK /\ OpenIsPlugged /\ Undisturbed /\ EmptyHanded /\ QuietSIMKept
      /\ NothingElseLost
  BY DEF SMSInv
<1>1. PICK what \in Answers \cup Failures :
        Select("ME", what) /\ Reaches(g, IF what \in Failures THEN "idle" ELSE "delete")
  BY DEF ClearSelect
<1>2. /\ selected' \in Memory /\ disturbed' \in BOOLEAN /\ (disturbed => disturbed')
      /\ g \in Poller => got[g] = {}
  BY <1>0, <1>1, SelectTyped DEF Memory, ClearSelect, EmptyHanded, Gathering
<1>3. CASE what \in Failures
  BY <1>0, <1>1, <1>2, <1>3, GoesOnKeeps DEF ClearSelect, Places, SMSTypeOK
<1>4. CASE what \notin Failures
  <2>1. ~disturbed' => selected' = "ME"
    BY <1>1, <1>4 DEF Select, Answers, Executes
  <2>2. SMSTypeOK' /\ OpenIsPlugged'
    BY <1>0, <1>1, <1>2, <1>4 DEF ClearSelect, Reaches, SMSTypeOK, OpenIsPlugged, Places
  <2>3. Undisturbed'
    BY <1>0, <1>1, <1>2, <1>4, <2>1 DEF ClearSelect, Reaches, SMSTypeOK, Undisturbed
  <2>4. EmptyHanded' /\ QuietSIMKept' /\ NothingElseLost'
    BY <1>0, <1>1, <1>2, <1>4 DEF ClearSelect, Reaches, SMSTypeOK, EmptyHanded, QuietSIMKept,
       NothingElseLost, Known, Held
  <2>5. QED
    BY <2>2, <2>3, <2>4 DEF SMSInv
<1>5. QED
  BY <1>3, <1>4

\* What is deleted was of the module, and was read or is lost.
LEMMA ClearDeleteKeeps == ASSUME SMSInv, NEW g \in Goroutine, ClearDelete(g) PROVE SMSInv'
<1>0. /\ SMSTypeOK /\ OpenIsPlugged /\ Undisturbed /\ EmptyHanded /\ QuietSIMKept
      /\ NothingElseLost
  BY DEF SMSInv
<1>1. PICK place \in {"idle", "recheck"} : Reaches(g, place)
  BY DEF ClearDelete
<1>2. /\ UNCHANGED <<plugged, selected, smsUSB, got, sms, forwarded, disturbed>>
      /\ reader[g] = "delete"
  BY DEF ClearDelete
<1>3. CASE UNCHANGED <<deleted, lost, unread, read>>
  BY <1>0, <1>1, <1>2, <1>3, GoesOnKeeps DEF Places, EmptyHanded, Gathering, SMSTypeOK
<1>4. CASE ~UNCHANGED <<deleted, lost, unread, read>>
  <2>1. /\ deleted' = [deleted EXCEPT ![selected] =
                         @ \cup unread[selected] \cup read[selected]]
        /\ lost' = lost \cup unread[selected]
        /\ unread' = [unread EXCEPT ![selected] = {}]
        /\ read' = [read EXCEPT ![selected] = {}]
        /\ smsUSB = "open"
    BY <1>4 DEF ClearDelete, Executes, Meets
  <2>2. SMSTypeOK' /\ OpenIsPlugged'
    BY <1>0, <1>1, <1>2, <2>1 DEF Reaches, SMSTypeOK, OpenIsPlugged, Places
  <2>3. Undisturbed' /\ EmptyHanded'
    <3>1. Undisturbed'
      BY <1>0, <1>1, <1>2 DEF Reaches, SMSTypeOK, Undisturbed
    <3>2. EmptyHanded'
      <4>1. reader[g] \notin Gathering
        BY <1>2 DEF Gathering
      <4>2. QED
        BY <1>0, <1>1, <1>2, <4>1 DEF Reaches, SMSTypeOK, EmptyHanded, Goroutine
    <3>3. QED
      BY <3>1, <3>2
  <2>4. QuietSIMKept'
    BY <1>0, <1>2, <2>1 DEF SMSTypeOK, Undisturbed, QuietSIMKept, Memory
  <2>5. ASSUME NEW m \in Message, Known(m)', m \notin lost' PROVE Held(m)' \/ m \in sms'
    BY <1>0, <1>2, <2>1, <2>5 DEF SMSTypeOK, NothingElseLost, Known, Held
  <2>6. NothingElseLost'
    BY <1>0, <1>2, <2>5 DEF NothingElseLost
  <2>7. QED
    BY <2>2, <2>3, <2>4, <2>6 DEF SMSInv
<1>5. QED
  BY <1>3, <1>4

LEMMA RecheckKeeps == ASSUME SMSInv, NEW g \in Goroutine, ClearRecheck(g) PROVE SMSInv'
<1>0. SMSTypeOK /\ EmptyHanded /\ (g \in Poller => got[g] = {})
  BY DEF SMSInv, EmptyHanded, ClearRecheck, Gathering
<1>1. selected' \in Memory /\ disturbed' \in BOOLEAN /\ (disturbed => disturbed')
  BY <1>0, SelectTyped DEF ClearRecheck, Memory
<1>2. QED
  BY <1>0, <1>1, GoesOnKeeps DEF ClearRecheck, Places, SMSTypeOK

\* Whatever messages come, and however often the module is pulled out and commands fail:
\* sequences that do not overlap leave the messages of the SIM card alone, and no message
\* is lost but with an answer or unread.
THEOREM MessagesAlwaysKept == SMSSpec => []MessagesKept
<1>1. SMSInit => SMSInv
  BY SMSStart
<1>2. SMSInv /\ [SMSNext]_smsVars => SMSInv'
  <2> SUFFICES ASSUME SMSInv, [SMSNext]_smsVars PROVE SMSInv'
    OBVIOUS
  <2>1. CASE SMSNext
    BY <2>1, ModuleKeeps, BeginKeeps, ModeKeeps, SelectKeeps, ListKeeps, MergeKeeps,
       PollDetachKeeps, ClearSelectKeeps, ClearDeleteKeeps, RecheckKeeps DEF SMSNext
  <2>2. CASE UNCHANGED smsVars
    BY <2>2 DEF smsVars, modemVars, desktopVars, SMSInv, SMSTypeOK, OpenIsPlugged, Undisturbed,
       EmptyHanded, QuietSIMKept, NothingElseLost, Known, Held
  <2>3. QED
    BY <2>1, <2>2
<1>3. SMSInv => MessagesKept
  BY DEF SMSInv, MessagesKept
<1>4. QED
  BY <1>1, <1>2, <1>3, PTL DEF SMSSpec

(***************************************************************************)
(* ModuleNotes.                                                            *)
(***************************************************************************)
Entry == {"free", "contact"} \cup ICCID
Wanted == {<<"list">>} \cup ({"save", "delete"} \X ICCID)

\* The variables keep their types.
NotesTypeOK ==
  /\ phonebook \in Storage /\ book \in [Storage -> [Index -> Entry]]
  /\ handler \in [Handler -> {"idle", "select", "read", "entries", "choose", "write"}]
  /\ wanted \in [Handler -> Wanted] /\ seen \in [Handler -> [Index -> Entry]]
  /\ noteTold \in [ICCID -> {"none", "saved", "deleted", "failed"}]
  /\ probed \in BOOLEAN

\* A request at work has the lock.
OneRequest == \A h \in Handler : handler[h] # "idle" => moduleNotesMu = h

\* There is an entry for the note, as far as the request has read.
HasEntry(h, p) == Noted(h, p) # {} \/ Occupied(h) # Index

\* As long as no probe ran into a request, the module's phonebook stays selected during
\* one, and what a request has read is what is there.
Undistracted ==
  ~probed =>
    /\ probe # "idle" => \A h \in Handler : handler[h] = "idle"
    /\ \A h \in Handler :
         /\ handler[h] \in {"read", "entries", "choose", "write"} => phonebook = "ME"
         /\ handler[h] \in {"choose", "write"} => seen[h] = book["ME"]
         /\ handler[h] \in {"idle", "select", "read", "entries"} => seen[h] = Unread
         /\ handler[h] = "write" =>
              \E p \in ICCID :
                \/ wanted[h] = <<"save", p>> /\ HasEntry(h, p)
                \/ wanted[h] = <<"delete", p>> /\ Noted(h, p) # {}

\* The entries of the phonebooks, as long as no probe ran into a request.
EntriesKept ==
  ~probed =>
    /\ ContactsKept
    /\ \A p \in ICCID :
         /\ \A i \in Index : book["SM"][i] # p
         /\ \A i, j \in Index : book["ME"][i] = p /\ book["ME"][j] = p => i = j
         /\ noteTold[p] = "saved" => \E i \in Index : book["ME"][i] = p
         /\ noteTold[p] = "deleted" => \A i \in Index : book["ME"][i] # p

NotesInv == NotesTypeOK /\ OneRequest /\ Undistracted /\ EntriesKept

\* The least number of a set, from the well-founded inclusion of finite sets.
LEMMA Least ==
  ASSUME NEW S \in SUBSET Nat, S # {}
  PROVE  \E x \in S : \A y \in S : x <= y
<1> DEFINE Below == {1..x : x \in S}
<1>1. Below \in SUBSET FiniteSubsetsOf(Nat) /\ Below # {}
  <2>1. \A x \in S : 1..x \in SUBSET Nat /\ IsFiniteSet(1..x)
    BY FS_Interval
  <2>2. QED
    BY <2>1 DEF FiniteSubsetsOf
<1>2. PICK B \in Below : \A C \in Below : <<C, B>> \notin StrictSubsetOrdering(Nat)
  BY <1>1, FS_StrictSubsetOrderingWellFounded, WFMin
<1>3. PICK x \in S : B = 1..x
  OBVIOUS
<1>4. ASSUME NEW y \in S, y < x PROVE FALSE
  <2>1. 1..y \in Below /\ 1..y \subseteq 1..x /\ x \in 1..x /\ x \notin 1..y
    BY <1>4
  <2>2. <<1..y, B>> \in StrictSubsetOrdering(Nat)
    BY <1>3, <2>1 DEF StrictSubsetOrdering
  <2>3. QED
    BY <1>2, <2>1, <2>2
<1>5. QED
  BY <1>4

\* The entry that is written: the one of the profile, when it has just one, or else a free
\* one, when there is one.
LEMMA EntryIsFreeOrOwn ==
  ASSUME NEW h \in Handler, NEW p \in ICCID, seen[h] \in [Index -> Entry],
         \A i, j \in Index : seen[h][i] = p /\ seen[h][j] = p => i = j
  PROVE  /\ Noted(h, p) # {} => EntryFor(h, p) \in Noted(h, p)
         /\ Noted(h, p) = {} /\ HasEntry(h, p) =>
              EntryFor(h, p) \in Index /\ seen[h][EntryFor(h, p)] = "free"
<1>1. Index \subseteq Nat /\ \A i \in Index : i <= i
  BY NotesAssumption DEF Index
<1>2. CASE Noted(h, p) # {}
  <2>1. \E i \in Noted(h, p) : \A j \in Noted(h, p) : j <= i
    BY <1>1, <1>2 DEF Noted
  <2>2. EntryFor(h, p) = CHOOSE i \in Noted(h, p) : \A j \in Noted(h, p) : j <= i
    BY <1>2 DEF EntryFor
  <2>3. QED
    BY <1>2, <2>1, <2>2
<1>3. CASE Noted(h, p) = {} /\ HasEntry(h, p)
  <2>1. Occupied(h) # Index
    BY <1>3 DEF HasEntry
  <2>2. PICK i \in Index \ Occupied(h) : \A j \in Index \ Occupied(h) : i <= j
    <3>1. Index \ Occupied(h) \in SUBSET Nat /\ Index \ Occupied(h) # {}
      BY <1>1, <2>1 DEF Occupied
    <3>2. QED
      BY <3>1, Least
  <2>3. 1..(i - 1) \subseteq Occupied(h)
    BY <1>1, <2>2, NotesAssumption DEF Index
  <2>4. EntryFor(h, p) =
          CHOOSE k \in Index : k \notin Occupied(h) /\ 1..(k - 1) \subseteq Occupied(h)
    BY <1>3, <2>1 DEF EntryFor
  <2>5. EntryFor(h, p) \in Index \ Occupied(h)
    BY <2>2, <2>3, <2>4
  <2>6. QED
    BY <1>3, <2>5 DEF Occupied
<1>4. QED
  BY <1>2, <1>3

\* A request goes on, or leaves, and writes nothing.
LEMMA RequestGoesOn ==
  ASSUME NotesInv, NEW h \in Handler, handler[h] # "idle",
         NEW place \in {"read", "entries", "choose", "write"}, NEW what \in [Index -> Entry],
         handler' = [handler EXCEPT ![h] = place], seen' = [seen EXCEPT ![h] = what],
         phonebook' \in Storage,
         ~probed => /\ phonebook' = "ME"
                    /\ place \in {"choose", "write"} => what = book["ME"]
                    /\ place \in {"read", "entries"} => what = Unread
                    /\ place = "write" =>
                         /\ what = seen[h]
                         /\ \E p \in ICCID :
                              \/ wanted[h] = <<"save", p>> /\ HasEntry(h, p)
                              \/ wanted[h] = <<"delete", p>> /\ Noted(h, p) # {},
         UNCHANGED <<book, moduleNotesMu, wanted, probe, original, noteTold, probed>>
  PROVE  NotesInv'
<1>0. NotesTypeOK /\ OneRequest /\ Undistracted /\ EntriesKept
  BY DEF NotesInv
<1>1. NotesTypeOK' /\ OneRequest'
  BY <1>0 DEF NotesTypeOK, OneRequest
<1>2. EntriesKept'
  BY <1>0 DEF EntriesKept, ContactsKept
<1>3. Undistracted'
  <2> SUFFICES ASSUME ~probed PROVE Undistracted'
    BY DEF Undistracted
  <2>1. probe' = "idle"
    BY <1>0 DEF Undistracted
  <2>2. ASSUME NEW k \in Handler, k # h PROVE handler'[k] = "idle" /\ seen'[k] = Unread
    BY <1>0, <2>2 DEF NotesTypeOK, OneRequest, Undistracted
  <2>3. /\ handler'[h] = place /\ seen'[h] = what /\ phonebook' = "ME"
    BY <1>0 DEF NotesTypeOK
  <2>4. ASSUME place = "write", NEW p \in ICCID
        PROVE  HasEntry(h, p)' = HasEntry(h, p) /\ Noted(h, p)' = Noted(h, p)
    <3>1. seen'[h] = seen[h]
      BY <2>3, <2>4
    <3>2. Noted(h, p)' = Noted(h, p) /\ Occupied(h)' = Occupied(h)
      BY <3>1 DEF Noted, Occupied
    <3>3. QED
      BY <3>2 DEF HasEntry
  <2>5. QED
    BY <2>1, <2>2, <2>3, <2>4 DEF Undistracted
<1>4. QED
  BY <1>1, <1>2, <1>3 DEF NotesInv

LEMMA RequestLeaves ==
  ASSUME NotesInv, NEW h \in Handler, handler[h] # "idle", Leave(h), phonebook' \in Storage,
         UNCHANGED <<book, probe, original, noteTold, probed>>
  PROVE  NotesInv'
<1>0. NotesTypeOK /\ OneRequest /\ Undistracted /\ EntriesKept
  BY DEF NotesInv
<1>1. Unread \in [Index -> Entry] /\ <<"list">> \in Wanted
  BY DEF Unread, Entry, Wanted
<1>2. NotesTypeOK' /\ OneRequest'
  BY <1>0, <1>1 DEF Leave, HandlerAt, NotesTypeOK, OneRequest
<1>3. EntriesKept'
  BY <1>0 DEF EntriesKept, ContactsKept
<1>4. \A k \in Handler : handler'[k] = "idle" /\ (~probed => seen'[k] = Unread)
  BY <1>0 DEF Leave, HandlerAt, NotesTypeOK, OneRequest, Undistracted
<1>5. Undistracted'
  BY <1>0, <1>4 DEF Undistracted
<1>6. QED
  BY <1>2, <1>3, <1>5 DEF NotesInv

LEMMA ReadsKeep ==
  ASSUME NotesInv, NEW h \in Handler,
         SelectME(h) \/ ReadStatus(h) \/ ReadEntries(h) \/ Choose(h)
  PROVE  NotesInv'
<1>0. /\ NotesTypeOK /\ Undistracted
      /\ handler[h] # "idle" /\ phonebook \in Storage /\ "ME" \in Storage
  BY DEF NotesInv, NotesTypeOK, Storage, SelectME, ReadStatus, ReadEntries, Choose
<1>1. CASE SelectME(h)
  <2>1. CASE Leave(h)
    BY <1>0, <1>1, <2>1, RequestLeaves DEF SelectME
  <2>2. CASE ~Leave(h)
    <3>1. phonebook' = "ME" /\ handler' = [handler EXCEPT ![h] = "read"] /\ seen' = seen
      BY <1>1, <2>2 DEF SelectME, HandlerAt
    <3>2. seen' = [seen EXCEPT ![h] = seen[h]] /\ seen[h] \in [Index -> Entry]
      BY <1>0, <3>1 DEF NotesTypeOK
    <3>3. ~probed => seen[h] = Unread
      BY <1>0, <1>1 DEF Undistracted, SelectME
    <3>4. QED
      BY <1>0, <1>1, <2>2, <3>1, <3>2, <3>3, RequestGoesOn DEF SelectME
  <2>3. QED
    BY <2>1, <2>2
<1>2. CASE ReadStatus(h)
  <2>1. CASE Leave(h)
    BY <1>0, <1>2, <2>1, RequestLeaves DEF ReadStatus, phonebookVars
  <2>2. CASE ~Leave(h)
    <3>1. PICK place \in {"choose", "entries"} :
            /\ handler' = [handler EXCEPT ![h] = place] /\ seen' = seen /\ phonebook = "ME"
            /\ place = "choose" => NoEntries
      BY <1>2, <2>2 DEF ReadStatus, HandlerAt
    <3>2. seen' = [seen EXCEPT ![h] = seen[h]] /\ seen[h] \in [Index -> Entry]
      BY <1>0, <3>1 DEF NotesTypeOK
    <3>3. ~probed => seen[h] = Unread
      BY <1>0, <1>2 DEF Undistracted, ReadStatus
    <3>4. NoEntries => book["ME"] = Unread
      BY <1>0 DEF NoEntries, Unread, NotesTypeOK
    <3>5. QED
      BY <1>0, <1>2, <2>2, <3>1, <3>2, <3>3, <3>4, RequestGoesOn
         DEF ReadStatus, phonebookVars
  <2>3. QED
    BY <2>1, <2>2
<1>3. CASE ReadEntries(h)
  <2>1. CASE Leave(h)
    BY <1>0, <1>3, <2>1, RequestLeaves DEF ReadEntries, phonebookVars
  <2>2. CASE ~Leave(h)
    <3>1. /\ handler' = [handler EXCEPT ![h] = "choose"]
          /\ seen' = [seen EXCEPT ![h] = book[phonebook]]
      BY <1>3, <2>2 DEF ReadEntries, HandlerAt
    <3>2. book[phonebook] \in [Index -> Entry] /\ (~probed => phonebook = "ME")
      BY <1>0, <1>3 DEF NotesTypeOK, Undistracted, ReadEntries
    <3>3. QED
      BY <1>0, <1>3, <2>2, <3>1, <3>2, RequestGoesOn DEF ReadEntries, phonebookVars
  <2>3. QED
    BY <2>1, <2>2
<1>4. CASE Choose(h)
  <2>1. CASE Leave(h)
    BY <1>0, <1>4, <2>1, RequestLeaves DEF Choose, phonebookVars
  <2>2. CASE ~Leave(h)
    <3>1. /\ \/ wanted[h][1] = "save" /\ EntryFor(h, wanted[h][2]) # 0
             \/ wanted[h][1] = "delete" /\ Noted(h, wanted[h][2]) # {}
          /\ handler' = [handler EXCEPT ![h] = "write"]
          /\ UNCHANGED <<phonebookVars, moduleNotesMu, seen, wanted, probe, original, noteTold,
                         probed>>
      BY <1>4, <2>2 DEF Choose, HandlerAt
    <3>2. seen' = [seen EXCEPT ![h] = seen[h]] /\ seen[h] \in [Index -> Entry]
      BY <1>0, <3>1 DEF NotesTypeOK
    <3>3. ~probed => phonebook = "ME" /\ seen[h] = book["ME"]
      BY <1>0, <1>4 DEF Undistracted, Choose
    <3>4. \E p \in ICCID : \/ wanted[h] = <<"save", p>> /\ HasEntry(h, p)
                           \/ wanted[h] = <<"delete", p>> /\ Noted(h, p) # {}
      <4>1. wanted[h] \in Wanted /\ wanted[h][1] # "list"
        BY <1>0, <3>1 DEF NotesTypeOK
      <4>2. PICK what \in {"save", "delete"}, p \in ICCID : wanted[h] = <<what, p>>
        BY <4>1 DEF Wanted
      <4>3. wanted[h][1] = what /\ wanted[h][2] = p
        BY <4>2
      <4>4. EntryFor(h, p) # 0 => HasEntry(h, p)
        BY DEF EntryFor, HasEntry
      <4>5. QED
        BY <3>1, <4>2, <4>3, <4>4
    <3>5. QED
      BY <1>0, <3>1, <3>2, <3>3, <3>4, RequestGoesOn DEF phonebookVars
  <2>3. QED
    BY <2>1, <2>2
<1>5. QED
  BY <1>1, <1>2, <1>3, <1>4

\* What is written is the note's own entry, or a free one.
LEMMA WriteKeeps ==
  ASSUME NotesInv, NEW h \in Handler, WriteEntry(h)
  PROVE  NotesInv'
<1>0. /\ NotesTypeOK /\ OneRequest /\ Undistracted /\ EntriesKept
      /\ handler[h] = "write" /\ Leave(h)
      /\ UNCHANGED <<phonebook, probe, requests, original, probed>>
  BY DEF NotesInv, WriteEntry
<1> DEFINE p == wanted[h][2]
           entry == IF wanted[h][1] = "save" THEN p ELSE "free"
           written == [book EXCEPT ![phonebook][EntryFor(h, p)] = entry]
<1>1. /\ book' \in {book, written}
      /\ \/ book' = written /\ noteTold' = [noteTold EXCEPT ![p] =
                                IF wanted[h][1] = "save" THEN "saved" ELSE "deleted"]
         \/ noteTold' = [noteTold EXCEPT ![p] = "failed"]
  BY DEF WriteEntry
<1>2. /\ NotesTypeOK' /\ OneRequest' /\ Undistracted'
  <2>1. Unread \in [Index -> Entry] /\ <<"list">> \in Wanted
    BY DEF Unread, Entry, Wanted
  <2>2. book' \in [Storage -> [Index -> Entry]]
    <3>1. entry \in Entry
      <4>1. wanted[h] \in Wanted
        BY <1>0 DEF NotesTypeOK
      <4>2. CASE wanted[h][1] = "save"
        BY <4>1, <4>2 DEF Wanted, Entry
      <4>3. QED
        BY <4>2 DEF Entry
    <3>2. [book[phonebook] EXCEPT ![EntryFor(h, p)] = entry] \in [Index -> Entry]
      BY <1>0, <3>1 DEF NotesTypeOK
    <3>3. written \in [Storage -> [Index -> Entry]]
      BY <1>0, <3>2 DEF NotesTypeOK
    <3>4. QED
      BY <1>0, <1>1, <3>3 DEF NotesTypeOK
  <2>3. noteTold' \in [ICCID -> {"none", "saved", "deleted", "failed"}]
    BY <1>0, <1>1 DEF NotesTypeOK
  <2>4. NotesTypeOK' /\ OneRequest'
    BY <1>0, <2>1, <2>2, <2>3 DEF Leave, HandlerAt, NotesTypeOK, OneRequest
  <2>5. \A k \in Handler : handler'[k] = "idle" /\ (~probed => seen'[k] = Unread)
    BY <1>0 DEF Leave, HandlerAt, NotesTypeOK, OneRequest, Undistracted
  <2>6. QED
    BY <1>0, <2>4, <2>5 DEF Undistracted
<1>3. EntriesKept'
  <2> SUFFICES ASSUME ~probed PROVE EntriesKept'
    BY <1>0 DEF EntriesKept
  <2>0. phonebook = "ME" /\ seen[h] = book["ME"] /\ seen[h] \in [Index -> Entry]
    BY <1>0 DEF Undistracted, NotesTypeOK
  <2>1. /\ p \in ICCID
        /\ \/ wanted[h][1] = "save" /\ HasEntry(h, p)
           \/ wanted[h][1] = "delete" /\ Noted(h, p) # {}
    BY <1>0 DEF Undistracted
  <2>2. \A i, j \in Index : seen[h][i] = p /\ seen[h][j] = p => i = j
    BY <1>0, <2>0, <2>1 DEF EntriesKept
  <2> DEFINE e == EntryFor(h, p)
  <2>3. /\ e \in Index /\ book["ME"][e] \in {p, "free"}
        /\ \A i \in Index : book["ME"][i] = p => i = e
    BY <2>0, <2>1, <2>2, EntryIsFreeOrOwn DEF Noted
  <2>4. /\ written["SM"] = book["SM"] /\ written["ME"][e] = entry
        /\ \A i \in Index : i # e => written["ME"][i] = book["ME"][i]
    BY <1>0, <2>0, <2>3 DEF NotesTypeOK, Storage
  <2>5. book'["SM"] = book["SM"] /\ \A i \in Index : i # e => book'["ME"][i] = book["ME"][i]
    BY <1>1, <2>4
  <2>6. book'["ME"][e] \in {p, "free"}
    BY <1>1, <2>3, <2>4
  <2>7. ContactsKept'
    <3>1. p # "contact"
      BY <2>1, NotesAssumption
    <3>2. QED
      BY <1>0, <2>3, <2>5, <2>6, <3>1 DEF EntriesKept, ContactsKept, Storage
  <2>8. ASSUME NEW q \in ICCID
        PROVE  /\ \A i \in Index : book'["SM"][i] # q
               /\ \A i, j \in Index : book'["ME"][i] = q /\ book'["ME"][j] = q => i = j
               /\ noteTold'[q] = "saved" => \E i \in Index : book'["ME"][i] = q
               /\ noteTold'[q] = "deleted" => \A i \in Index : book'["ME"][i] # q
    <3>0. q # "free" /\ /\ \A i \in Index : book["SM"][i] # q
      BY <1>0, NotesAssumption DEF EntriesKept
    <3>1. CASE q # p
      <4>1. /\ noteTold'[q] = noteTold[q]
            /\ \A i \in Index : book'["ME"][i] = q <=> book["ME"][i] = q
        BY <1>0, <1>1, <2>3, <2>5, <2>6, <3>0, <3>1 DEF NotesTypeOK
      <4>2. QED
        BY <1>0, <2>5, <3>0, <4>1 DEF EntriesKept
    <3>2. CASE q = p
      <4>1. \A i \in Index : book'["ME"][i] = p => i = e
        BY <2>3, <2>5
      <4>2. noteTold'[p] \in {"saved", "deleted"} =>
              /\ book' = written
              /\ noteTold'[p] = IF wanted[h][1] = "save" THEN "saved" ELSE "deleted"
        BY <1>0, <1>1, <2>1 DEF NotesTypeOK
      <4>3. noteTold'[p] = "saved" => book'["ME"][e] = p
        BY <2>4, <4>2
      <4>4. noteTold'[p] = "deleted" => book'["ME"][e] # p
        BY <2>4, <3>0, <3>2, <4>2
      <4>5. QED
        BY <2>3, <2>5, <3>0, <3>2, <4>1, <4>3, <4>4
    <3>3. QED
      BY <3>1, <3>2
  <2>9. QED
    BY <2>7, <2>8 DEF EntriesKept
<1>4. QED
  BY <1>2, <1>3 DEF NotesInv

LEMMA RequestsBegin ==
  ASSUME NotesInv, NEW h \in Handler, NEW what \in Wanted, BeginRequest(h, what)
  PROVE  NotesInv'
<1>0. NotesTypeOK /\ OneRequest /\ Undistracted /\ EntriesKept
  BY DEF NotesInv
<1>1. \A k \in Handler : handler[k] = "idle"
  BY <1>0, NotesAssumption DEF BeginRequest, CanEnter, Nobody, OneRequest
<1>2. NotesTypeOK' /\ OneRequest'
  BY <1>0, <1>1 DEF BeginRequest, HandlerAt, phonebookVars, NotesTypeOK, OneRequest
<1>3. Undistracted'
  BY <1>0, <1>1 DEF BeginRequest, HandlerAt, phonebookVars, NotesTypeOK, Undistracted
<1>4. EntriesKept'
  <2>1. (~probed' => ~probed) /\ UNCHANGED <<book, original, noteTold>>
    BY DEF BeginRequest, phonebookVars
  <2>2. QED
    BY <1>0, <2>1 DEF EntriesKept, ContactsKept
<1>5. QED
  BY <1>2, <1>3, <1>4 DEF NotesInv

LEMMA ProbeKeeps == ASSUME NotesInv, BeginProbe \/ ProbeSelects PROVE NotesInv'
<1>0. NotesTypeOK /\ OneRequest /\ Undistracted /\ EntriesKept
  BY DEF NotesInv
<1>1. CASE BeginProbe
  <2>1. NotesTypeOK' /\ OneRequest'
    BY <1>0, <1>1 DEF BeginProbe, phonebookVars, NotesTypeOK, OneRequest
  <2>2. Undistracted'
    BY <1>0, <1>1 DEF BeginProbe, phonebookVars, Undistracted
  <2>3. EntriesKept'
    <3>1. (~probed' => ~probed) /\ UNCHANGED <<book, original, noteTold>>
      BY <1>1 DEF BeginProbe, phonebookVars
    <3>2. QED
      BY <1>0, <3>1 DEF EntriesKept, ContactsKept
  <2>4. QED
    BY <2>1, <2>2, <2>3 DEF NotesInv
<1>2. CASE ProbeSelects
  <2>1. NotesTypeOK' /\ OneRequest'
    BY <1>0, <1>2 DEF ProbeSelects, NotesTypeOK, OneRequest, Storage
  <2>2. Undistracted'
    BY <1>0, <1>2 DEF ProbeSelects, Undistracted
  <2>3. EntriesKept'
    BY <1>0, <1>2 DEF ProbeSelects, EntriesKept, ContactsKept
  <2>4. QED
    BY <2>1, <2>2, <2>3 DEF NotesInv
<1>3. QED
  BY <1>1, <1>2

LEMMA NotesStart == NotesInit => NotesInv
<1> SUFFICES ASSUME NotesInit PROVE NotesInv
  OBVIOUS
<1>0. Unread \in [Index -> Entry] /\ <<"list">> \in Wanted
  BY DEF Unread, Entry, Wanted
<1>1. book \in [Storage -> [Index -> Entry]]
  BY DEF NotesInit, Entry
<1>2. NotesTypeOK /\ OneRequest
  BY <1>0, <1>1 DEF NotesInit, NotesTypeOK, OneRequest
<1>3. Undistracted
  BY DEF NotesInit, Undistracted
<1>4. \A p \in ICCID, s \in Storage, i \in Index : book[s][i] # p
  BY NotesAssumption DEF NotesInit
<1>5. EntriesKept
  BY <1>4 DEF NotesInit, EntriesKept, ContactsKept, Storage
<1>6. QED
  BY <1>2, <1>3, <1>5 DEF NotesInv

\* For any profiles, entries and requests: as long as no probe runs into a request, no
\* contact is written over, a profile has one entry, and a note that was saved or deleted
\* is there, or gone.
THEOREM NotesAlwaysKept == NotesSpec => []QuietNotesKept
<1>1. NotesInit => NotesInv
  BY NotesStart
<1>2. NotesInv /\ [NotesNext]_notesVars => NotesInv'
  <2> SUFFICES ASSUME NotesInv, [NotesNext]_notesVars PROVE NotesInv'
    OBVIOUS
  <2>1. ASSUME NEW h \in Handler,
               \/ BeginRequest(h, <<"list">>)
               \/ \E p \in ICCID :
                    BeginRequest(h, <<"save", p>>) \/ BeginRequest(h, <<"delete", p>>)
        PROVE  NotesInv'
    <3>1. PICK what \in Wanted : BeginRequest(h, what)
      BY <2>1 DEF Wanted
    <3>2. QED
      BY <3>1, RequestsBegin
  <2>2. CASE UNCHANGED notesVars
    BY <2>2 DEF notesVars, phonebookVars, NotesInv, NotesTypeOK, OneRequest, Undistracted,
       EntriesKept, ContactsKept, HasEntry, Noted, Occupied
  <2>3. QED
    BY <2>1, <2>2, ProbeKeeps, ReadsKeep, WriteKeeps DEF NotesNext
<1>3. NotesInv => QuietNotesKept
  <2> SUFFICES ASSUME NotesInv, ~probed PROVE ContactsKept /\ \A p \in ICCID :
         /\ EntriesOf("SM", p) = {} /\ Cardinality(EntriesOf("ME", p)) <= 1
         /\ noteTold[p] = "saved" => EntriesOf("ME", p) # {}
         /\ noteTold[p] = "deleted" => EntriesOf("ME", p) = {}
    BY DEF QuietNotesKept
  <2>0. EntriesKept
    BY DEF NotesInv
  <2>1. ASSUME NEW p \in ICCID PROVE Cardinality(EntriesOf("ME", p)) <= 1
    <3>1. \A i, j \in EntriesOf("ME", p) : i = j
      BY <2>0, <2>1 DEF EntriesKept, EntriesOf
    <3>2. EntriesOf("ME", p) = {} \/ \E i : EntriesOf("ME", p) = {i}
      BY <3>1
    <3>3. CASE EntriesOf("ME", p) = {}
      BY <3>3, FS_EmptySet
    <3>4. ASSUME NEW i, EntriesOf("ME", p) = {i} PROVE Cardinality(EntriesOf("ME", p)) <= 1
      <4>1. Cardinality({i}) = 1
        BY FS_Singleton
      <4>2. QED
        BY <3>4, <4>1
    <3>5. QED
      BY <3>2, <3>3, <3>4
  <2>2. QED
    BY <2>0, <2>1 DEF EntriesKept, EntriesOf
<1>4. QED
  BY <1>1, <1>2, <1>3, PTL DEF NotesSpec

(***************************************************************************)
(* ModulePrompt.                                                           *)
(***************************************************************************)
Inside == {"convert", "delete", "upload", "store"}

\* The variables keep their types, and no version is newer than the prompt's.
PromptTypeOK ==
  /\ prompt \in Nat \ {0} /\ module \in 0..prompt /\ cache \in 0..prompt
  /\ preparer \in [Preparer -> {"idle", "lock"} \cup Inside]
  /\ stat \in [Preparer -> 0..prompt] /\ converted \in [Preparer -> 0..prompt]
  /\ ready \in SUBSET Preparer /\ hurt \in BOOLEAN

OneInside == \A g, h \in Preparer : preparer[g] \in Inside /\ preparer[h] \in Inside => g = h

\* What was converted is no older than what its goroutine, and every one that was told so
\* before, has looked up.
Converted ==
  \A g \in Preparer :
    /\ preparer[g] # "idle" => stat[g] # 0
    /\ preparer[g] \in {"delete", "upload", "store"} =>
         /\ stat[g] <= converted[g]
         /\ \A h \in ready : stat[h] <= converted[g]
    /\ ~hurt /\ preparer[g] = "store" => module = converted[g]

\* Until somebody replaces the copy, it is no older than what it is taken for.
Copied ==
  ~hurt /\ (\A g \in Preparer : preparer[g] \notin {"upload", "store"}) =>
    /\ cache # 0 => module # 0 /\ module >= cache
    /\ \A g \in ready : module # 0 /\ module >= stat[g]

PromptInv == PromptTypeOK /\ OneInside /\ Converted /\ Copied

LEMMA PromptKeeps == ASSUME PromptInv, [PromptNext]_promptVars PROVE PromptInv'
<1>0. PromptTypeOK /\ OneInside /\ Converted /\ Copied
  BY DEF PromptInv
<1>1. CASE GeneratePrompt
  <2>1. PromptTypeOK'
    BY <1>0, <1>1 DEF GeneratePrompt, PromptTypeOK
  <2>2. OneInside' /\ Converted' /\ Copied'
    BY <1>0, <1>1 DEF GeneratePrompt, OneInside, Converted, Copied
  <2>3. QED
    BY <2>1, <2>2 DEF PromptInv
<1>2. ASSUME NEW g \in Preparer, Stat(g) PROVE PromptInv'
  <2>1. PromptTypeOK' /\ OneInside'
    BY <1>0, <1>2 DEF Stat, Prepares, PromptTypeOK, OneInside, Inside
  <2>2. Converted'
    BY <1>0, <1>2 DEF Stat, Prepares, PromptTypeOK, Converted
  <2>3. Copied'
    BY <1>0, <1>2 DEF Stat, Prepares, PromptTypeOK, Copied
  <2>4. QED
    BY <2>1, <2>2, <2>3 DEF PromptInv
<1>3. ASSUME NEW g \in Preparer, LockPrompt(g) PROVE PromptInv'
  <2>0. \A h \in Preparer : preparer[h] \notin Inside
    BY <1>3 DEF LockPrompt, PromptLocked, Inside
  <2>1. PromptTypeOK' /\ OneInside'
    BY <1>0, <1>3, <2>0 DEF LockPrompt, Prepares, PromptTypeOK, OneInside, Inside
  <2>2. Converted'
    BY <1>0, <1>3, <2>0 DEF LockPrompt, Prepares, PromptTypeOK, Converted, Inside
  <2>3. Copied'
    BY <1>0, <1>3, <2>0 DEF LockPrompt, Prepares, PromptTypeOK, Converted, Copied, Inside
  <2>4. QED
    BY <2>1, <2>2, <2>3 DEF PromptInv
<1>4. ASSUME NEW g \in Preparer, Convert(g) PROVE PromptInv'
  <2>0. preparer[g] \in Inside
    BY <1>4 DEF Convert, Inside
  <2>1. PromptTypeOK' /\ OneInside'
    BY <1>0, <1>4, <2>0 DEF Convert, Prepares, PromptFault, PromptTypeOK, OneInside, Inside
  <2>2. Converted'
    BY <1>0, <1>4, <2>0 DEF Convert, Prepares, PromptFault, PromptTypeOK, Converted
  <2>3. Copied'
    BY <1>0, <1>4, <2>0 DEF Convert, Prepares, PromptFault, PromptTypeOK, Copied
  <2>4. QED
    BY <2>1, <2>2, <2>3 DEF PromptInv
<1>5. ASSUME NEW g \in Preparer, Delete(g) PROVE PromptInv'
  <2>0. preparer[g] \in Inside
    BY <1>5 DEF Delete, Inside
  <2>1. PromptTypeOK' /\ OneInside'
    <3>1. PICK place \in {"idle"} \cup Inside : preparer' = [preparer EXCEPT ![g] = place]
      BY <1>5 DEF Delete, Prepares, Inside
    <3>2. preparer' \in [Preparer -> {"idle", "lock"} \cup Inside]
      BY <1>0, <3>1 DEF PromptTypeOK
    <3>3. /\ prompt' = prompt /\ cache' = cache /\ stat' = stat /\ converted' = converted
          /\ ready' = ready /\ module' \in {module, 0, converted[g]}
      BY <1>5 DEF Delete, PromptFault
    <3>4. hurt' \in BOOLEAN
      BY <1>0, <1>5 DEF Delete, PromptTypeOK
    <3>5. PromptTypeOK'
      BY <1>0, <3>2, <3>3, <3>4 DEF PromptTypeOK
    <3>6. OneInside'
      BY <1>0, <2>0, <3>1 DEF PromptTypeOK, OneInside
    <3>7. QED
      BY <3>5, <3>6
  <2>2. Converted'
    BY <1>0, <1>5, <2>0 DEF Delete, Prepares, PromptFault, PromptTypeOK, OneInside, Converted,
       Inside
  <2>3. Copied'
    BY <1>0, <1>5, <2>0 DEF Delete, Prepares, PromptFault, PromptTypeOK, Copied
  <2>4. QED
    BY <2>1, <2>2, <2>3 DEF PromptInv
<1>6. ASSUME NEW g \in Preparer, Upload(g) PROVE PromptInv'
  <2>0. preparer[g] \in Inside
    BY <1>6 DEF Upload, Inside
  <2>1. PromptTypeOK' /\ OneInside'
    <3>1. PICK place \in {"idle"} \cup Inside : preparer' = [preparer EXCEPT ![g] = place]
      BY <1>6 DEF Upload, Prepares, Inside
    <3>2. preparer' \in [Preparer -> {"idle", "lock"} \cup Inside]
      BY <1>0, <3>1 DEF PromptTypeOK
    <3>3. /\ prompt' = prompt /\ cache' = cache /\ stat' = stat /\ converted' = converted
          /\ ready' = ready /\ module' \in {module, 0, converted[g]}
      BY <1>6 DEF Upload, PromptFault
    <3>4. hurt' \in BOOLEAN
      BY <1>0, <1>6 DEF Upload, PromptTypeOK
    <3>5. PromptTypeOK'
      BY <1>0, <3>2, <3>3, <3>4 DEF PromptTypeOK
    <3>6. OneInside'
      BY <1>0, <2>0, <3>1 DEF PromptTypeOK, OneInside
    <3>7. QED
      BY <3>5, <3>6
  <2>2. Converted'
    BY <1>0, <1>6, <2>0 DEF Upload, Prepares, PromptFault, PromptTypeOK, OneInside, Converted,
       Inside
  <2>3. Copied'
    BY <1>0, <1>6, <2>0 DEF Upload, Prepares, PromptFault, PromptTypeOK, Copied
  <2>4. QED
    BY <2>1, <2>2, <2>3 DEF PromptInv
<1>7. ASSUME NEW g \in Preparer, Store(g) PROVE PromptInv'
  <2>0. preparer[g] \in Inside
    BY <1>7 DEF Store, Inside
  <2>1. PromptTypeOK' /\ OneInside'
    BY <1>0, <1>7, <2>0 DEF Store, StatBefore, Prepares, PromptTypeOK, OneInside, Inside
  <2>2. Converted'
    BY <1>0, <1>7, <2>0 DEF Store, StatBefore, Prepares, PromptTypeOK, OneInside, Converted,
       Inside
  <2>3. Copied'
    BY <1>0, <1>7 DEF Store, StatBefore, Prepares, PromptTypeOK, Converted, Copied
  <2>4. QED
    BY <2>1, <2>2, <2>3 DEF PromptInv
<1>8. CASE ExchangeModule
  <2>1. PromptTypeOK'
    BY <1>0, <1>8 DEF ExchangeModule, PromptFault, PromptTypeOK
  <2>2. OneInside' /\ Converted' /\ Copied'
    BY <1>0, <1>8 DEF ExchangeModule, OneInside, Converted, Copied
  <2>3. QED
    BY <2>1, <2>2 DEF PromptInv
<1>9. CASE RestartApplication
  <2>1. PromptTypeOK'
    BY <1>0, <1>9 DEF RestartApplication, Fresh, PromptTypeOK
  <2>2. OneInside' /\ Converted' /\ Copied'
    BY <1>0, <1>9 DEF RestartApplication, Fresh, OneInside, Converted, Copied, Inside
  <2>3. QED
    BY <2>1, <2>2 DEF PromptInv
<1>10. CASE UNCHANGED promptVars
  BY <1>10 DEF promptVars, PromptInv, PromptTypeOK, OneInside, Converted, Copied
<1>11. QED
  BY <1>1, <1>2, <1>3, <1>4, <1>5, <1>6, <1>7, <1>8, <1>9, <1>10 DEF PromptNext

\* For any goroutines and any number of prompts, restarts and faults: while no upload
\* failed and the module stayed, who was told that the module has the prompt was told the
\* truth.
THEOREM PromptAlwaysReady == PromptSpec => []QuietPromptReady
<1>1. PromptInit => PromptInv
  <2>1. ASSUME PromptInit PROVE PromptTypeOK
    <3>1. prompt = 1 /\ prompt \in Nat \ {0} /\ module \in 0..prompt /\ cache \in 0..prompt
      BY <2>1 DEF PromptInit
    <3>2. stat \in [Preparer -> 0..prompt] /\ converted \in [Preparer -> 0..prompt]
      BY <2>1, <3>1 DEF PromptInit
    <3>3. preparer \in [Preparer -> {"idle", "lock"} \cup Inside]
      BY <2>1 DEF PromptInit
    <3>4. ready \in SUBSET Preparer /\ hurt \in BOOLEAN
      BY <2>1 DEF PromptInit
    <3>5. QED
      BY <3>1, <3>2, <3>3, <3>4 DEF PromptTypeOK
  <2>2. PromptInit => OneInside /\ Converted /\ Copied
    BY DEF PromptInit, OneInside, Converted, Copied, Inside
  <2>3. QED
    BY <2>1, <2>2 DEF PromptInv
<1>2. PromptInv => QuietPromptReady
  BY DEF PromptInv, Copied, QuietPromptReady, PromptLocked, PromptTypeOK
<1>3. QED
  BY <1>1, <1>2, PromptKeeps, PTL DEF PromptSpec

\* Whatever is asked for and fails, what the application says it has put in the module is
\* there, and nothing else was overwritten, unless a probe or a fault got in the way.
THEOREM ModuleMemoryAlwaysKept == NotesSpec /\ PromptSpec => []ModuleMemoryKept
<1>1. QuietNotesKept /\ QuietPromptReady => ModuleMemoryKept
  BY DEF ModuleMemoryKept
<1>2. QED
  BY <1>1, NotesAlwaysKept, PromptAlwaysReady, PTL

(***************************************************************************)
(* USBAT.                                                                  *)
(***************************************************************************)
What == {"error", "info", "ok", "prompt", "connect", "eol", "data", "more"}
Piece == Nat \X What
Phase == {"request", "answer"}

\* The variables keep their types, and there is a response only to a command at work.
USBTypeOK ==
  /\ platform \in {"libusb", "linux"}
  /\ mode \in {"idle", "editor", "upload"} \X Nat
  /\ owed \in Seq(Piece) /\ pipe \in Seq(Piece) /\ response \in Seq(Piece)
  /\ \/ command = Idle /\ response = <<>>
     \/ command \in [id : Nat, kind : Kind, phase : Phase]
  /\ sent \in Nat /\ leftover \in BOOLEAN /\ split \in BOOLEAN
  /\ results \in Seq([id : Nat, kind : Kind, pieces : Seq(Piece)])

\* What has been read for the command and what is still to come, in order.
Coming == response \o (pipe \o owed)

Owned(pieces) == \A i \in DOMAIN pieces : pieces[i][1] = sent
ConnectsOnce(pieces) ==
  \A i, j \in DOMAIN pieces : pieces[i][2] = "connect" /\ pieces[j][2] = "connect" => i = j

\* The answer to a download that is not refused, or what is left of it after n pieces.
FileAnswer == <<"connect", "eol", "data", "more", "info", "ok">>
After(n, pieces) ==
  Len(pieces) = 6 - n /\ \A i \in 1..(6 - n) : pieces[i][2] = FileAnswer[n + i]

\* How far a download is: nothing is kept of its answer before CONNECT, and then the file
\* follows, after the line end if that came apart.
DownloadFits ==
  command.kind = "download" =>
    /\ command.phase = "request" =>
         /\ response = <<>>
         /\ \/ After(0, Coming)
            \/ Len(Coming) = 1 /\ Coming[1][2] = "error"
    /\ command.phase = "answer" /\ ~split =>
         \/ After(2, Coming) /\ Len(response) < FileSize
         \/ After(1, Coming) /\ response = <<>>

\* As long as nothing was owed when a command was sent, all that comes is of the last one.
OwnComes ==
  ~leftover =>
    /\ command # Idle => command.id = sent
    /\ mode[1] # "idle" => mode[2] = sent
    /\ Owned(Coming) /\ ConnectsOnce(Coming)
    /\ DownloadFits

USBInv == USBTypeOK /\ OwnComes /\ OwnAnswersWhole

LEMMA PiecesJoin ==
  ASSUME NEW a \in Seq(Piece), NEW b \in Seq(Piece)
  PROVE  /\ a \o b \in Seq(Piece) /\ Len(a \o b) = Len(a) + Len(b)
         /\ \A i \in 1..Len(a) : (a \o b)[i] = a[i]
         /\ \A i \in 1..Len(b) : (a \o b)[Len(a) + i] = b[i]
         /\ Owned(a \o b) <=> Owned(a) /\ Owned(b)
         /\ ConnectsOnce(a \o b) => ConnectsOnce(a) /\ ConnectsOnce(b)
         /\ ConnectsOnce(a) /\ "connect" \notin Whats(b) => ConnectsOnce(a \o b)
<1>1. /\ a \o b \in Seq(Piece) /\ Len(a \o b) = Len(a) + Len(b)
      /\ \A i \in 1..Len(a) : (a \o b)[i] = a[i]
      /\ \A i \in 1..Len(b) : (a \o b)[Len(a) + i] = b[i]
      /\ Len(a) \in Nat /\ Len(b) \in Nat
      /\ DOMAIN a = 1..Len(a) /\ DOMAIN b = 1..Len(b) /\ DOMAIN (a \o b) = 1..(Len(a) + Len(b))
  <2>1. /\ a \o b \in Seq(Piece) /\ Len(a \o b) = Len(a) + Len(b)
        /\ \A i \in 1..(Len(a) + Len(b)) :
             (a \o b)[i] = IF i <= Len(a) THEN a[i] ELSE b[i - Len(a)]
        /\ Len(a) \in Nat /\ Len(b) \in Nat
    BY ConcatProperties, LenProperties
  <2>2. ASSUME NEW i \in 1..Len(b) PROVE (a \o b)[Len(a) + i] = b[i]
    <3>1. /\ Len(a) + i \in 1..(Len(a) + Len(b)) /\ ~(Len(a) + i <= Len(a))
          /\ (Len(a) + i) - Len(a) = i
      BY <2>1
    <3>2. QED
      BY <2>1, <3>1
  <2>3. QED
    BY <2>1, <2>2
<1>2. \A i \in 1..(Len(a) + Len(b)) : i \in 1..Len(a) \/ \E j \in 1..Len(b) : i = Len(a) + j
  <2> SUFFICES ASSUME NEW i \in 1..(Len(a) + Len(b)), i \notin 1..Len(a)
               PROVE  \E j \in 1..Len(b) : i = Len(a) + j
    OBVIOUS
  <2>1. i - Len(a) \in 1..Len(b) /\ i = Len(a) + (i - Len(a))
    BY <1>1
  <2>2. QED
    BY <2>1
<1>3. /\ \A i \in 1..Len(a) : i \in 1..(Len(a) + Len(b))
      /\ \A i \in 1..Len(b) : Len(a) + i \in 1..(Len(a) + Len(b))
  BY <1>1
<1> DEFINE c == a \o b
<1> HIDE DEF c
<1>4. /\ DOMAIN c = 1..(Len(a) + Len(b)) /\ \A i \in 1..Len(a) : c[i] = a[i]
      /\ \A i \in 1..Len(b) : c[Len(a) + i] = b[i]
  BY <1>1 DEF c
<1>5. Owned(c) <=> Owned(a) /\ Owned(b)
  <2>1. ASSUME Owned(c) PROVE Owned(a) /\ Owned(b)
    <3>1. \A i \in 1..Len(a) : c[i][1] = sent
      BY <1>3, <1>4, <2>1 DEF Owned
    <3>2. \A i \in 1..Len(b) : c[Len(a) + i][1] = sent
      BY <1>3, <1>4, <2>1 DEF Owned
    <3>3. QED
      BY <1>1, <1>4, <3>1, <3>2 DEF Owned
  <2>2. ASSUME Owned(a), Owned(b), NEW i \in 1..(Len(a) + Len(b)) PROVE c[i][1] = sent
    <3>1. CASE i \in 1..Len(a)
      BY <1>1, <1>4, <2>2, <3>1 DEF Owned
    <3>2. ASSUME NEW j \in 1..Len(b), i = Len(a) + j PROVE c[i][1] = sent
      BY <1>1, <1>4, <2>2, <3>2 DEF Owned
    <3>3. QED
      BY <1>2, <3>1, <3>2
  <2>3. QED
    BY <1>4, <2>1, <2>2 DEF Owned
<1>6. ConnectsOnce(c) => ConnectsOnce(a) /\ ConnectsOnce(b)
  <2> SUFFICES ASSUME ConnectsOnce(c) PROVE ConnectsOnce(a) /\ ConnectsOnce(b)
    OBVIOUS
  <2>0. \A i, j \in 1..(Len(a) + Len(b)) : c[i][2] = "connect" /\ c[j][2] = "connect" => i = j
    BY <1>4 DEF ConnectsOnce
  <2>1. ConnectsOnce(a)
    BY <1>1, <1>3, <1>4, <2>0 DEF ConnectsOnce
  <2>2. ASSUME NEW i \in 1..Len(b), NEW j \in 1..Len(b), b[i][2] = "connect", b[j][2] = "connect"
        PROVE  i = j
    <3>1. c[Len(a) + i][2] = "connect" /\ c[Len(a) + j][2] = "connect"
      BY <1>4, <2>2
    <3>2. Len(a) + i = Len(a) + j
      BY <1>3, <2>0, <3>1
    <3>3. QED
      BY <1>1, <3>2
  <2>3. QED
    BY <1>1, <2>1, <2>2 DEF ConnectsOnce
<1>7. ASSUME ConnectsOnce(a), "connect" \notin Whats(b) PROVE ConnectsOnce(c)
  <2>1. \A i \in 1..Len(b) : b[i][2] # "connect"
    BY <1>1, <1>7 DEF Whats
  <2>2. \A i \in 1..(Len(a) + Len(b)) : c[i][2] = "connect" => i \in 1..Len(a)
    <3> SUFFICES ASSUME NEW i \in 1..(Len(a) + Len(b)), c[i][2] = "connect", i \notin 1..Len(a)
                 PROVE  FALSE
      OBVIOUS
    <3>1. PICK j \in 1..Len(b) : i = Len(a) + j
      BY <1>2
    <3>2. QED
      BY <1>4, <2>1, <3>1
  <2>3. ASSUME NEW i \in 1..(Len(a) + Len(b)), NEW j \in 1..(Len(a) + Len(b)),
               c[i][2] = "connect", c[j][2] = "connect"
        PROVE  i = j
    <3>1. i \in 1..Len(a) /\ j \in 1..Len(a)
      BY <2>2, <2>3
    <3>2. a[i][2] = "connect" /\ a[j][2] = "connect"
      BY <1>4, <2>3, <3>1
    <3>3. QED
      BY <1>1, <1>7, <3>1, <3>2 DEF ConnectsOnce
  <2>4. QED
    BY <1>4, <2>3 DEF ConnectsOnce
<1>8. QED
  BY <1>1, <1>5, <1>6, <1>7 DEF c

\* What follows the first n pieces.
LEMMA PiecesAfter ==
  ASSUME NEW s \in Seq(Piece), NEW n \in 0..Len(s)
  PROVE  /\ SubSeq(s, n + 1, Len(s)) \in Seq(Piece)
         /\ Len(SubSeq(s, n + 1, Len(s))) = Len(s) - n
         /\ \A i \in 1..(Len(s) - n) : SubSeq(s, n + 1, Len(s))[i] = s[n + i]
<1> DEFINE t == SubSeq(s, n + 1, Len(s))
<1>1. Len(s) \in Nat /\ \A i \in 1..Len(s) : s[i] \in Piece
  BY LenProperties, ElementOfSeq
<1>2. \A i \in (n + 1)..Len(s) : s[i] \in Piece
  BY <1>1
<1>3. /\ t \in Seq(Piece) /\ Len(t) = IF n + 1 <= Len(s) THEN Len(s) - (n + 1) + 1 ELSE 0
      /\ \A i \in 1..(Len(s) - (n + 1) + 1) : t[i] = s[(n + 1) + i - 1]
  BY <1>1, <1>2, SubSeqProperties
<1> HIDE DEF t
<1>4. Len(s) - (n + 1) + 1 = Len(s) - n /\ (~(n + 1 <= Len(s)) => Len(s) - n = 0)
  BY <1>1
<1>5. \A i \in 1..(Len(s) - n) : (n + 1) + i - 1 = n + i
  BY <1>1
<1>6. Len(t) = Len(s) - n
  BY <1>3, <1>4
<1>7. \A i \in 1..(Len(s) - n) : t[i] = s[n + i]
  BY <1>3, <1>4, <1>5
<1>8. QED
  BY <1>3, <1>6, <1>7 DEF t

\* What a transfer brings is the beginning of what there was.
LEMMA TakesPart ==
  ASSUME USBTypeOK, NEW chunk \in Chunk, Take(chunk)
  PROVE  /\ chunk \in Seq(Piece) /\ Len(chunk) \in Nat \ {0} /\ pipe' \in Seq(Piece)
         /\ chunk \o pipe' = pipe
<1>1. PICK n \in 1..Len(pipe) : chunk = SubSeq(pipe, 1, n)
  BY DEF Chunk
<1>2. /\ Len(pipe) \in Nat /\ n \in Nat /\ n >= 1 /\ n <= Len(pipe)
      /\ \A i \in 1..Len(pipe) : pipe[i] \in Piece
  BY LenProperties, ElementOfSeq DEF USBTypeOK
<1>3. chunk \in Seq(Piece) /\ Len(chunk) = n /\ \A i \in 1..n : chunk[i] = pipe[i]
  <2>1. \A i \in 1..n : pipe[i] \in Piece
    BY <1>2
  <2>2. QED
    BY <1>1, <1>2, <2>1, SubSeqProperties
<1>4. pipe' = SubSeq(pipe, n + 1, Len(pipe))
  BY <1>3 DEF Take
<1>5. /\ pipe' \in Seq(Piece) /\ Len(pipe') = Len(pipe) - n
      /\ \A i \in 1..(Len(pipe) - n) : pipe'[i] = pipe[n + i]
  <2>1. pipe \in Seq(Piece) /\ n \in 0..Len(pipe)
    BY <1>2 DEF USBTypeOK
  <2>2. QED
    BY <1>4, <2>1, PiecesAfter
<1>6. chunk \o pipe' = pipe
  <2> DEFINE both == chunk \o pipe'
  <2>1. /\ both \in Seq(Piece) /\ Len(both) = n + (Len(pipe) - n)
        /\ \A i \in 1..n : both[i] = chunk[i]
        /\ \A i \in 1..(Len(pipe) - n) : both[n + i] = pipe'[i]
    <3>1. \A a, b \in Seq(Piece) :
            /\ a \o b \in Seq(Piece) /\ Len(a \o b) = Len(a) + Len(b)
            /\ \A i \in 1..Len(a) : (a \o b)[i] = a[i]
            /\ \A i \in 1..Len(b) : (a \o b)[Len(a) + i] = b[i]
      BY PiecesJoin
    <3> DEFINE rest == pipe'
    <3>2. /\ rest \in Seq(Piece) /\ Len(rest) = Len(pipe) - n
          /\ chunk \in Seq(Piece) /\ Len(chunk) = n
      BY <1>3, <1>5
    <3> HIDE DEF rest
    <3>3. /\ chunk \o rest \in Seq(Piece) /\ Len(chunk \o rest) = Len(chunk) + Len(rest)
          /\ \A i \in 1..Len(chunk) : (chunk \o rest)[i] = chunk[i]
          /\ \A i \in 1..Len(rest) : (chunk \o rest)[Len(chunk) + i] = rest[i]
      BY <3>1, <3>2
    <3>4. QED
      BY <3>2, <3>3 DEF rest
  <2>2. Len(both) = Len(pipe)
    BY <1>2, <2>1
  <2>3. ASSUME NEW i \in 1..Len(both) PROVE both[i] = pipe[i]
    <3>1. CASE i <= n
      BY <1>2, <1>3, <2>1, <2>2, <2>3, <3>1
    <3>2. CASE i > n
      <4>1. i - n \in 1..(Len(pipe) - n) /\ n + (i - n) = i
        BY <1>2, <2>2, <3>2
      <4>2. QED
        BY <1>5, <2>1, <4>1
    <3>3. QED
      BY <1>2, <2>2, <3>1, <3>2
  <2>4. pipe \in Seq(Piece)
    BY DEF USBTypeOK
  <2> HIDE DEF both
  <2>5. both = pipe
    BY <2>1, <2>2, <2>3, <2>4, SeqEqual
  <2>6. QED
    BY <2>5 DEF both
<1>7. QED
  BY <1>2, <1>3, <1>5, <1>6

\* Reading moves nothing: what was read and what is still to come remain the same.
LEMMA ReadingKeeps ==
  ASSUME USBTypeOK, NEW chunk \in Chunk, Take(chunk)
  PROVE  /\ response \o chunk \in Seq(Piece) /\ pipe' \o owed \in Seq(Piece)
         /\ (response \o chunk) \o (pipe' \o owed) = Coming
<1>1. /\ chunk \in Seq(Piece) /\ pipe' \in Seq(Piece) /\ chunk \o pipe' = pipe
      /\ response \in Seq(Piece) /\ owed \in Seq(Piece)
  BY TakesPart DEF USBTypeOK
<1>2. response \o chunk \in Seq(Piece) /\ pipe' \o owed \in Seq(Piece)
  BY <1>1, PiecesJoin
<1>0. \A s, t, u \in Seq(Piece) : (s \o t) \o u = s \o (t \o u)
  BY ConcatAssociative
<1>3. (response \o chunk) \o (pipe' \o owed) = response \o (chunk \o (pipe' \o owed))
  BY <1>0, <1>1, <1>2
<1>4. chunk \o (pipe' \o owed) = (chunk \o pipe') \o owed
  BY <1>0, <1>1
<1>5. QED
  BY <1>1, <1>2, <1>3, <1>4 DEF Coming

\* What comes after the first CONNECT, or everything when there is none.
LEMMA FromConnectIs ==
  ASSUME NEW pieces \in Seq(Piece)
  PROVE  \E first \in 0..Len(pieces) :
           /\ FromConnect(pieces) = SubSeq(pieces, first + 1, Len(pieces))
           /\ first # 0 => pieces[first][2] = "connect"
           /\ first = 0 => \A i \in 1..Len(pieces) : pieces[i][2] # "connect"
<1> DEFINE I == {i \in 1..Len(pieces) : pieces[i][2] = "connect"}
           first == SelectInSeq(pieces, LAMBDA p : p[2] = "connect")
<1>1. Len(pieces) \in Nat
  BY LenProperties
<1>2. first = IF I = {} THEN 0 ELSE Min(I)
  BY DEF SelectInSeq
<1>3. /\ first \in 0..Len(pieces)
      /\ first # 0 => pieces[first][2] = "connect"
      /\ first = 0 => \A i \in 1..Len(pieces) : pieces[i][2] # "connect"
  <2>1. CASE I = {}
    BY <1>1, <1>2, <2>1
  <2>2. CASE I # {}
    <3>1. I \in SUBSET Nat
      OBVIOUS
    <3>2. \E x \in I : \A y \in I : x <= y
      BY <2>2, <3>1, Least
    <3>3. Min(I) \in I
      BY <3>2 DEF Min
    <3>4. first \in I
      BY <1>2, <2>2, <3>3
    <3>5. QED
      BY <1>1, <3>4
  <2>3. QED
    BY <2>1, <2>2
<1>4. FromConnect(pieces) = SubSeq(pieces, first + 1, Len(pieces))
  BY DEF FromConnect
<1> HIDE DEF first
<1> DEFINE Starts(k) ==
             /\ FromConnect(pieces) = SubSeq(pieces, k + 1, Len(pieces))
             /\ k # 0 => pieces[k][2] = "connect"
             /\ k = 0 => \A i \in 1..Len(pieces) : pieces[i][2] # "connect"
<1>5. first \in 0..Len(pieces) /\ Starts(first)
  BY <1>3, <1>4
<1> HIDE DEF Starts
<1>6. \E k \in 0..Len(pieces) : Starts(k)
  BY <1>5
<1>7. QED
  BY <1>6 DEF Starts

\* After the only CONNECT there is none.
LEMMA NoneFollows ==
  ASSUME NEW pieces \in Seq(Piece), ConnectsOnce(pieces)
  PROVE  Whats(FromConnect(pieces)) \subseteq Whats(pieces) \ {"connect"}
<1>1. /\ Len(pieces) \in Nat /\ DOMAIN pieces = 1..Len(pieces)
      /\ \A i \in 1..Len(pieces) : pieces[i] \in Piece
  BY LenProperties, ElementOfSeq
<1>2. PICK first \in 0..Len(pieces) :
        /\ FromConnect(pieces) = SubSeq(pieces, first + 1, Len(pieces))
        /\ first # 0 => pieces[first][2] = "connect"
        /\ first = 0 => \A i \in 1..Len(pieces) : pieces[i][2] # "connect"
  BY FromConnectIs
<1>3. \A i \in 1..Len(pieces) : pieces[i][2] = "connect" => i = first
  BY <1>1, <1>2 DEF ConnectsOnce
<1>5. /\ FromConnect(pieces) \in Seq(Piece) /\ Len(FromConnect(pieces)) = Len(pieces) - first
      /\ \A i \in 1..(Len(pieces) - first) : FromConnect(pieces)[i] = pieces[first + i]
  BY <1>2, PiecesAfter
<1>6. ASSUME NEW i \in 1..(Len(pieces) - first)
      PROVE  first + i \in 1..Len(pieces) /\ first + i # first
  BY <1>1
<1>7. ASSUME NEW i \in 1..(Len(pieces) - first)
      PROVE  FromConnect(pieces)[i][2] \in Whats(pieces) \ {"connect"}
  <2>1. pieces[first + i][2] # "connect"
    BY <1>3, <1>6
  <2>2. QED
    BY <1>1, <1>5, <1>6, <2>1 DEF Whats
<1>8. DOMAIN FromConnect(pieces) = 1..(Len(pieces) - first)
  BY <1>5, LenProperties
<1>9. QED
  BY <1>7, <1>8 DEF Whats

\* A beginning and the rest of it.
Parts(whole, header, rest) ==
  /\ Len(whole) = Len(header) + Len(rest)
  /\ \A i \in 1..Len(header) : whole[i] = header[i]
  /\ \A i \in 1..Len(rest) : whole[Len(header) + i] = rest[i]

\* What has been read, with what a transfer brings, and the rest of it.
LEMMA Taken ==
  ASSUME USBTypeOK, NEW chunk \in Chunk, Take(chunk),
         NEW header, header = response \o chunk, NEW rest, rest = pipe' \o owed
  PROVE  /\ header \in Seq(Piece) /\ rest \in Seq(Piece) /\ header \o rest = Coming
         /\ pipe' \in Seq(Piece) /\ Coming \in Seq(Piece)
         /\ Len(header) \in Nat /\ Len(rest) \in Nat /\ Len(response) \in Nat
         /\ Len(header) > Len(response) /\ Parts(Coming, header, rest)
         /\ Owned(Coming) => Owned(header) /\ Owned(rest)
         /\ ConnectsOnce(Coming) => ConnectsOnce(header) /\ ConnectsOnce(rest)
<1>1. header \in Seq(Piece) /\ rest \in Seq(Piece) /\ header \o rest = Coming
  BY ReadingKeeps
<1>2. /\ chunk \in Seq(Piece) /\ Len(chunk) \in Nat \ {0} /\ pipe' \in Seq(Piece)
      /\ response \in Seq(Piece)
  BY TakesPart DEF USBTypeOK
<1>3. /\ Len(header) \in Nat /\ Len(rest) \in Nat /\ Len(response) \in Nat
      /\ Len(header) > Len(response)
  <2>1. Len(header) = Len(response) + Len(chunk)
    BY <1>2, PiecesJoin
  <2>2. QED
    BY <1>1, <1>2, <2>1, LenProperties
<1>4. /\ header \o rest \in Seq(Piece) /\ Len(header \o rest) = Len(header) + Len(rest)
      /\ \A i \in 1..Len(header) : (header \o rest)[i] = header[i]
      /\ \A i \in 1..Len(rest) : (header \o rest)[Len(header) + i] = rest[i]
      /\ Owned(header \o rest) => Owned(header) /\ Owned(rest)
      /\ ConnectsOnce(header \o rest) => ConnectsOnce(header) /\ ConnectsOnce(rest)
  BY <1>1, PiecesJoin
<1>5. Parts(Coming, header, rest)
  BY <1>1, <1>4 DEF Parts
<1>6. QED
  BY <1>1, <1>2, <1>3, <1>4, <1>5

\* What the module says to a command.
LEMMA SaysPieces ==
  ASSUME NEW id \in Nat, NEW whats \in Seq(What)
  PROVE  /\ Says(id, whats) \in Seq(Piece) /\ Len(Says(id, whats)) = Len(whats)
         /\ \A i \in 1..Len(whats) : Says(id, whats)[i] = <<id, whats[i]>>
<1>1. /\ DOMAIN whats = 1..Len(whats) /\ Len(whats) \in Nat
      /\ \A i \in 1..Len(whats) : whats[i] \in What
  BY LenProperties, ElementOfSeq
<1>2. Says(id, whats) = [i \in 1..Len(whats) |-> <<id, whats[i]>>]
  BY <1>1 DEF Says
<1>3. \A i \in 1..Len(whats) : <<id, whats[i]>> \in Piece
  BY <1>1 DEF Piece
<1>4. Says(id, whats) \in [1..Len(whats) -> Piece]
  BY <1>2, <1>3
<1>5. Says(id, whats) \in Seq(Piece)
  BY <1>1, <1>4
<1>6. Len(Says(id, whats)) = Len(whats)
  BY <1>1, <1>2, <1>5, LenProperties
<1>7. QED
  BY <1>2, <1>5, <1>6

\* A word of its own of the command the pieces are for can follow them.
LEMMA LastWordJoins ==
  ASSUME USBTypeOK, NEW pieces \in Seq(Piece), Owned(pieces), ConnectsOnce(pieces),
         NEW whats \in {<<"info", "ok">>, <<"error">>}
  PROVE  /\ Says(sent, whats) \in Seq(Piece)
         /\ Owned(pieces \o Says(sent, whats)) /\ ConnectsOnce(pieces \o Says(sent, whats))
<1>1. sent \in Nat
  BY DEF USBTypeOK
<1>2. /\ whats \in Seq(What) /\ DOMAIN whats = 1..Len(whats)
      /\ \A i \in 1..Len(whats) : whats[i] # "connect"
  <2>1. CASE whats = <<"info", "ok">>
    BY <2>1 DEF What
  <2>2. CASE whats = <<"error">>
    BY <2>2 DEF What
  <2>3. QED
    BY <2>1, <2>2
<1> DEFINE word == Says(sent, whats)
<1>3. /\ word \in Seq(Piece) /\ Len(word) = Len(whats)
      /\ \A i \in 1..Len(whats) : word[i] = <<sent, whats[i]>>
  BY <1>1, <1>2, SaysPieces
<1>4. DOMAIN word = 1..Len(whats)
  BY <1>3, LenProperties
<1> HIDE DEF word
<1>5. Owned(word) /\ "connect" \notin Whats(word)
  BY <1>2, <1>3, <1>4 DEF Owned, Whats
<1>6. Owned(pieces \o word) /\ ConnectsOnce(pieces \o word)
  BY <1>3, <1>5, PiecesJoin
<1>7. QED
  BY <1>3, <1>6 DEF word

\* Of each result what the properties ask.
Fine(r) ==
  /\ Own(r)
  /\ r.kind = "upload" /\ platform = "libusb" => LastWord(r)
  /\ r.kind = "download" /\ ~split => IsError(r.pieces) \/ Whats(r.pieces) = {"data", "more"}

\* A command ends with pieces that it may return; what still comes is the module's.
LEMMA ReturnKeeps ==
  ASSUME USBInv, command # Idle, NEW pieces \in Seq(Piece), Return(pieces),
         UNCHANGED <<platform, owed, sent, leftover>>,
         mode' \in {"idle", "editor", "upload"} \X Nat, mode'[1] # "idle" => mode' = mode,
         pipe' \in Seq(Piece), split' \in BOOLEAN, split => split',
         ~leftover => /\ Owned(pieces)
                      /\ Owned(pipe' \o owed) /\ ConnectsOnce(pipe' \o owed),
         ~leftover /\ command.kind = "upload" /\ platform = "libusb" =>
           "ok" \in Whats(pieces) \/ IsError(pieces),
         ~leftover /\ command.kind = "download" /\ ~split' =>
           IsError(pieces) \/ Whats(pieces) = {"data", "more"}
  PROVE  USBInv'
<1> DEFINE r == [id |-> command.id, kind |-> command.kind, pieces |-> pieces]
<1>1. /\ results' = Append(results, r) /\ command' = Idle /\ response' = <<>>
  BY DEF Return
<1>2. command \in [id : Nat, kind : Kind, phase : Phase]
  BY DEF USBInv, USBTypeOK
<1>3. r \in [id : Nat, kind : Kind, pieces : Seq(Piece)]
  BY <1>2
<1>4. /\ results \in Seq([id : Nat, kind : Kind, pieces : Seq(Piece)])
      /\ results' \in Seq([id : Nat, kind : Kind, pieces : Seq(Piece)])
      /\ Len(results) \in Nat /\ DOMAIN results = 1..Len(results)
      /\ DOMAIN results' = 1..(Len(results) + 1)
      /\ \A i \in 1..Len(results) : results'[i] = results[i]
      /\ results'[Len(results) + 1] = r
  <2>1. results \in Seq([id : Nat, kind : Kind, pieces : Seq(Piece)])
    BY DEF USBInv, USBTypeOK
  <2>2. QED
    BY <1>1, <1>3, <2>1, AppendProperties, LenProperties
<1>0. Len(results) \in Nat
  BY <1>4
<1>5. USBTypeOK'
  BY <1>1, <1>4 DEF USBInv, USBTypeOK
<1>6. Coming' = pipe' \o owed
  <2>1. \A s \in Seq(Piece) : <<>> \o s = s
    OBVIOUS
  <2>2. pipe' \o owed \in Seq(Piece)
    BY DEF USBInv, USBTypeOK
  <2>3. QED
    BY <1>1, <2>1, <2>2 DEF Coming
<1>7. OwnComes'
  <2> SUFFICES ASSUME ~leftover PROVE OwnComes'
    BY DEF OwnComes
  <2>1. mode'[1] # "idle" => mode'[2] = sent
    BY DEF USBInv, OwnComes
  <2>2. Owned(Coming)' /\ ConnectsOnce(Coming)'
    BY <1>6 DEF Owned, ConnectsOnce
  <2>3. DownloadFits'
    BY <1>1 DEF DownloadFits, Idle
  <2>4. QED
    BY <1>1, <2>1, <2>2, <2>3 DEF OwnComes
<1>8. OwnAnswersWhole'
  <2> SUFFICES ASSUME ~leftover PROVE OwnAnswersWhole'
    BY DEF OwnAnswersWhole, QuietOwnPieces, TransfersWhole
  <2>1. \A i \in 1..Len(results) : Fine(results[i])
    BY <1>4 DEF USBInv, OwnAnswersWhole, QuietOwnPieces, TransfersWhole, Fine
  <2>2. command.id = sent
    BY DEF USBInv, OwnComes
  <2> HIDE DEF r
  <2>3. r.id = sent /\ r.kind = command.kind /\ r.pieces = pieces
    BY <2>2 DEF r
  <2>4. /\ Own(r) /\ (r.kind = "upload" /\ platform = "libusb" => LastWord(r))
        /\ r.kind = "download" /\ ~split' => IsError(r.pieces) \/ Whats(r.pieces) = {"data", "more"}
    BY <2>3 DEF Own, Owned, LastWord
  <2>5. ASSUME NEW i \in 1..(Len(results) + 1)
        PROVE  /\ Own(results'[i])
               /\ results'[i].kind = "upload" /\ platform = "libusb" => LastWord(results'[i])
               /\ results'[i].kind = "download" /\ ~split' =>
                    IsError(results'[i].pieces) \/ Whats(results'[i].pieces) = {"data", "more"}
    <3>1. CASE i \in 1..Len(results)
      BY <1>4, <2>1, <3>1 DEF Fine
    <3>2. CASE i = Len(results) + 1
      BY <1>4, <2>4, <3>2
    <3>3. i \in 1..Len(results) \/ i = Len(results) + 1
      BY <1>0, <2>5
    <3>4. QED
      BY <3>1, <3>2, <3>3
  <2>6. QED
    BY <1>4, <2>5 DEF OwnAnswersWhole, QuietOwnPieces, TransfersWhole
<1>9. QED
  BY <1>5, <1>7, <1>8 DEF USBInv

\* Nothing is returned.
LEMMA ResultsStay ==
  ASSUME OwnAnswersWhole, UNCHANGED <<platform, results>>, leftover => leftover',
  split => split',
         leftover' \in BOOLEAN, leftover \in BOOLEAN, split \in BOOLEAN, split' \in BOOLEAN
  PROVE  OwnAnswersWhole'
BY DEF OwnAnswersWhole, QuietOwnPieces, TransfersWhole

\* What the module says comes after what was still to come.
LEMMA WordJoins ==
  \A s, t, u, w \in Seq(Piece) : s \o (t \o (u \o w)) = (s \o (t \o u)) \o w
<1> DEFINE Joins(a, b, c) == (a \o b) \o c = a \o (b \o c) /\ a \o b \in Seq(Piece)
<1>1. \A a, b, c \in Seq(Piece) : Joins(a, b, c)
  BY ConcatAssociative
<1> HIDE DEF Joins
<1> TAKE s, t, u, w \in Seq(Piece)
<1> DEFINE both == t \o u
<1>2. both \in Seq(Piece) /\ t \o (u \o w) = both \o w
  <2>1. Joins(t, u, w)
    BY <1>1
  <2>2. QED
    BY <2>1 DEF Joins
<1> HIDE DEF both
<1>3. s \o (both \o w) = (s \o both) \o w
  <2>1. Joins(s, both, w)
    BY <1>1, <1>2
  <2>2. QED
    BY <2>1 DEF Joins
<1>4. QED
  BY <1>2, <1>3 DEF both

LEMMA EmitKeeps ==
  ASSUME USBInv, Emit
  PROVE  USBInv'
<1>1. /\ owed # <<>> /\ pipe' = Append(pipe, Head(owed)) /\ owed' = Tail(owed)
      /\ UNCHANGED <<platform, mode, command, response, sent, late, results, leftover, split>>
  BY DEF Emit
<1>2. owed \in Seq(Piece) /\ pipe \in Seq(Piece) /\ response \in Seq(Piece)
  BY DEF USBInv, USBTypeOK
<1>3. \A s \in Seq(Piece) : s # <<>> =>
        Head(s) \in Piece /\ Tail(s) \in Seq(Piece) /\ <<Head(s)>> \o Tail(s) = s
  <2> TAKE s \in Seq(Piece)
  <2> HAVE s # <<>>
  <2>1. QED
    BY HeadTailProperties, ConcatProperties
<1> DEFINE next == <<Head(owed)>>
           left == owed'
<1>4. pipe' = pipe \o next /\ next \in Seq(Piece) /\ next \o left = owed
  <2>1. Head(owed) \in Piece /\ next \o left = owed
    BY <1>1, <1>2, <1>3
  <2>2. \A s \in Seq(Piece) : \A p \in Piece : Append(s, p) = s \o <<p>>
    BY AppendIsConcat
  <2>3. QED
    BY <1>1, <1>2, <2>1, <2>2
<1>5. pipe' \in Seq(Piece) /\ owed' \in Seq(Piece)
  BY <1>1, <1>2, <1>3
<1>6. pipe' \o left = pipe \o owed
  <2>1. \A s, t, u \in Seq(Piece) : (s \o t) \o u = s \o (t \o u)
    BY ConcatAssociative
  <2>2. left \in Seq(Piece) /\ next \in Seq(Piece) /\ pipe \in Seq(Piece)
    BY <1>2, <1>4, <1>5
  <2> HIDE DEF next, left
  <2>3. (pipe \o next) \o left = pipe \o (next \o left)
    BY <2>1, <2>2
  <2>4. QED
    BY <1>4, <2>3
<1>7. Coming' = Coming
  BY <1>1, <1>6 DEF Coming
<1>8. USBTypeOK'
  BY <1>1, <1>5 DEF USBInv, USBTypeOK
<1>9. OwnComes'
  <2>1. DownloadFits => DownloadFits'
    BY <1>1, <1>7 DEF DownloadFits, After
  <2>2. /\ Owned(Coming) => Owned(Coming)'
        /\ ConnectsOnce(Coming) => ConnectsOnce(Coming)'
    BY <1>1, <1>7 DEF Owned, ConnectsOnce
  <2>3. QED
    BY <1>1, <2>1, <2>2 DEF USBInv, OwnComes
<1>10. OwnAnswersWhole'
  BY <1>1, ResultsStay DEF USBInv, USBTypeOK
<1>11. QED
  BY <1>8, <1>9, <1>10 DEF USBInv

LEMMA GivesUpKeeps ==
  ASSUME USBInv, ModuleGivesUp
  PROVE  USBInv'
<1>1. /\ mode[1] # "idle" /\ command = Idle
      /\ mode' = <<"idle", 0>> /\ owed' = owed \o Says(mode[2], <<"error">>)
      /\ UNCHANGED <<platform, pipe, command, response, sent, late, results, leftover, split>>
  BY DEF ModuleGivesUp
<1>2. /\ owed \in Seq(Piece) /\ pipe \in Seq(Piece) /\ response \in Seq(Piece)
      /\ mode[2] \in Nat
  BY DEF USBInv, USBTypeOK
<1> DEFINE word == Says(mode[2], <<"error">>)
<1>3. word \in Seq(Piece)
  <2>1. <<"error">> \in Seq(What)
    BY DEF What
  <2>2. QED
    BY <1>2, <2>1, SaysPieces
<1> HIDE DEF word
<1>4. owed' = owed \o word /\ owed' \in Seq(Piece)
  BY <1>1, <1>2, <1>3 DEF word
<1>5. USBTypeOK'
  BY <1>1, <1>4 DEF USBInv, USBTypeOK
<1>6. OwnComes'
  <2> SUFFICES ASSUME ~leftover PROVE OwnComes'
    BY <1>1 DEF OwnComes
  <2>1. mode[2] = sent /\ Owned(Coming) /\ ConnectsOnce(Coming) /\ Coming \in Seq(Piece)
    BY <1>1, <1>2 DEF USBInv, OwnComes, Coming
  <2>2. Owned(Coming \o word) /\ ConnectsOnce(Coming \o word)
    BY <2>1, LastWordJoins DEF USBInv, word
  <2>3. Coming' = Coming \o word
    <3> DEFINE Joins(s, t, u, w) == s \o (t \o (u \o w)) = (s \o (t \o u)) \o w
    <3>0. \A s, t, u, w \in Seq(Piece) : Joins(s, t, u, w)
      BY WordJoins
    <3> HIDE DEF Joins
    <3>4. Joins(response, pipe, owed, word)
      BY <1>2, <1>3, <3>0
    <3>1. response \o (pipe \o (owed \o word)) = (response \o (pipe \o owed)) \o word
      BY <3>4 DEF Joins
    <3>2. QED
      BY <1>1, <1>4, <3>1 DEF Coming
  <2>4. Owned(Coming)' /\ ConnectsOnce(Coming)'
    BY <1>1, <2>2, <2>3 DEF Owned, ConnectsOnce
  <2>5. DownloadFits'
    BY <1>1 DEF DownloadFits, Idle
  <2>6. QED
    BY <1>1, <2>4, <2>5 DEF OwnComes
<1>7. OwnAnswersWhole'
  BY <1>1, ResultsStay DEF USBInv, USBTypeOK
<1>8. QED
  BY <1>5, <1>6, <1>7 DEF USBInv

\* A read that goes on, of an answer that is not a file; a payload may be answered then.
LEMMA ReadingOn ==
  ASSUME USBInv, NEW chunk \in Chunk, Take(chunk), response' = response \o chunk,
         command # Idle, command.kind # "download",
         command' \in {command, [command EXCEPT !.phase = "answer"]},
         UNCHANGED <<platform, sent, results, leftover>>,
         \/ UNCHANGED <<mode, owed>>
         \/ /\ mode[1] # "idle" /\ mode' = <<"idle", 0>>
            /\ \E answer \in {<<"info", "ok">>, <<"error">>} :
                 owed' = owed \o Says(mode[2], answer)
  PROVE  USBInv'
<1> DEFINE header == response \o chunk
           rest == pipe' \o owed
<1>0. USBTypeOK
  BY DEF USBInv
<1>1. /\ header \in Seq(Piece) /\ header \o rest = Coming
      /\ pipe' \in Seq(Piece) /\ Coming \in Seq(Piece)
  <2>1. header \in Seq(Piece) /\ rest \in Seq(Piece) /\ header \o rest = Coming
    BY <1>0, ReadingKeeps
  <2>2. pipe' \in Seq(Piece)
    BY <1>0, TakesPart
  <2> HIDE DEF header, rest
  <2>3. Coming \in Seq(Piece)
    BY <2>1, PiecesJoin
  <2>4. QED
    BY <2>1, <2>2, <2>3
<1>2. /\ owed \in Seq(Piece) /\ mode[2] \in Nat /\ mode \in {"idle", "editor", "upload"} \X Nat
      /\ command \in [id : Nat, kind : Kind, phase : Phase]
  BY DEF USBInv, USBTypeOK
<1>3. /\ command' \in [id : Nat, kind : Kind, phase : Phase]
      /\ command'.id = command.id /\ command'.kind = command.kind
  BY <1>2 DEF Phase
<1>4. split' \in BOOLEAN /\ (split => split')
  BY DEF Take, USBInv, USBTypeOK
<1>5. OwnAnswersWhole'
  BY <1>4, ResultsStay DEF USBInv, USBTypeOK
<1>6. CASE UNCHANGED <<mode, owed>>
  <2>1. Coming' = Coming
    BY <1>1, <1>6 DEF Coming
  <2>2. USBTypeOK'
    BY <1>1, <1>3, <1>4, <1>6 DEF USBInv, USBTypeOK
  <2>3. /\ Owned(Coming) => Owned(Coming)'
        /\ ConnectsOnce(Coming) => ConnectsOnce(Coming)'
    BY <2>1 DEF Owned, ConnectsOnce
  <2>4. OwnComes'
    BY <1>3, <1>6, <2>3 DEF USBInv, OwnComes, DownloadFits
  <2>5. QED
    BY <1>5, <2>2, <2>4 DEF USBInv
<1>7. ASSUME mode[1] # "idle", mode' = <<"idle", 0>>,
             NEW answer \in {<<"info", "ok">>, <<"error">>},
             owed' = owed \o Says(mode[2], answer)
      PROVE  USBInv'
  <2> DEFINE word == Says(mode[2], answer)
  <2>1. word \in Seq(Piece)
    <3>1. <<"info", "ok">> \in Seq(What) /\ <<"error">> \in Seq(What)
      BY DEF What
    <3>2. answer \in Seq(What)
      BY <1>7, <3>1
    <3>3. QED
      BY <1>2, <3>2, SaysPieces
  <2> HIDE DEF word
  <2>2. owed' = owed \o word /\ owed' \in Seq(Piece)
    BY <1>2, <1>7, <2>1 DEF word
  <2>3. USBTypeOK'
    BY <1>1, <1>3, <1>4, <1>7, <2>2 DEF USBInv, USBTypeOK
  <2>4. Coming' = Coming \o word
    <3> DEFINE left == pipe'
    <3> DEFINE Joins(s, t, u, w) == s \o (t \o (u \o w)) = (s \o (t \o u)) \o w
    <3>1. \A s, t, u, w \in Seq(Piece) : Joins(s, t, u, w)
      BY WordJoins
    <3>2. /\ header \in Seq(Piece) /\ left \in Seq(Piece) /\ owed \in Seq(Piece)
          /\ word \in Seq(Piece)
      BY <1>1, <1>2, <2>1
    <3>3. Coming' = header \o (left \o (owed \o word))
      BY <2>2 DEF Coming
    <3>4. Coming = header \o (left \o owed)
      BY <1>1
    <3> HIDE DEF header, left, rest, Joins
    <3>5. Joins(header, left, owed, word)
      BY <3>1, <3>2
    <3>6. QED
      BY <3>3, <3>4, <3>5 DEF Joins
  <2>5. OwnComes'
    <3> SUFFICES ASSUME ~leftover PROVE OwnComes'
      BY DEF OwnComes
    <3>1. mode[2] = sent /\ Owned(Coming) /\ ConnectsOnce(Coming) /\ command.id = sent
      BY <1>7 DEF USBInv, OwnComes
    <3>2. Owned(Coming \o word) /\ ConnectsOnce(Coming \o word)
      BY <1>1, <3>1, LastWordJoins DEF USBInv, word
    <3>3. Owned(Coming)' /\ ConnectsOnce(Coming)'
      BY <2>4, <3>2 DEF Owned, ConnectsOnce
    <3>4. QED
      BY <1>3, <1>7, <3>1, <3>3 DEF OwnComes, DownloadFits
  <2>6. QED
    BY <1>5, <2>3, <2>5 DEF USBInv
<1>8. QED
  BY <1>6, <1>7

\* A read after which what has been read is returned, of an answer that is not a file.
LEMMA ReadingEnds ==
  ASSUME USBInv, NEW chunk \in Chunk, Take(chunk), Return(response \o chunk),
         command # Idle, command.kind # "download",
         UNCHANGED <<platform, mode, owed, sent, leftover>>,
         ~leftover /\ command.kind = "upload" /\ platform = "libusb" =>
           "ok" \in Whats(response \o chunk) \/ IsError(response \o chunk)
  PROVE  USBInv'
<1> DEFINE header == response \o chunk
           rest == pipe' \o owed
<1>1. /\ header \in Seq(Piece) /\ pipe' \in Seq(Piece)
      /\ Owned(Coming) => Owned(header) /\ Owned(rest)
      /\ ConnectsOnce(Coming) => ConnectsOnce(header) /\ ConnectsOnce(rest)
  BY Taken DEF USBInv
<1>2. split' \in BOOLEAN /\ (split => split')
  BY DEF Take, USBInv, USBTypeOK
<1>3. mode' \in {"idle", "editor", "upload"} \X Nat
  BY DEF USBInv, USBTypeOK
<1>4. ~leftover => Owned(header) /\ Owned(rest) /\ ConnectsOnce(rest)
  BY <1>1 DEF USBInv, OwnComes
<1>5. QED
  BY <1>1, <1>2, <1>3, <1>4, ReturnKeeps

LEMMA ReadAnswerKeeps ==
  ASSUME USBInv, ReadAnswer
  PROVE  USBInv'
<1>1. /\ command.kind = "plain"
      /\ UNCHANGED <<platform, mode, owed, sent, late, leftover>>
  BY DEF ReadAnswer
<1>2. PICK chunk \in Chunk :
        /\ Take(chunk)
        /\ \/ Return(response \o chunk)
           \/ response' = response \o chunk /\ UNCHANGED <<command, results>>
  BY DEF ReadAnswer
<1>3. command # Idle
  BY <1>1 DEF Idle
<1>4. CASE Return(response \o chunk)
  BY <1>1, <1>2, <1>3, <1>4, ReadingEnds
<1>5. CASE response' = response \o chunk /\ UNCHANGED <<command, results>>
  BY <1>1, <1>2, <1>3, <1>5, ReadingOn
<1>6. QED
  BY <1>2, <1>4, <1>5

LEMMA ReadRequestKeeps ==
  ASSUME USBInv, ReadRequest
  PROVE  USBInv'
<1>1. /\ command.kind \in {"interactive", "upload"}
      /\ UNCHANGED <<platform, sent, late, leftover>>
  BY DEF ReadRequest
<1>2. PICK chunk \in Chunk :
        /\ Take(chunk)
        /\ \/ IsError(response \o chunk) /\ Return(response \o chunk) /\ UNCHANGED <<mode, owed>>
           \/ SendPayload(response \o chunk)
           \/ response' = response \o chunk /\ UNCHANGED <<command, results, mode, owed>>
  BY DEF ReadRequest
<1>3. command # Idle /\ command.kind # "download"
  BY <1>1 DEF Idle
<1>4. CASE IsError(response \o chunk) /\ Return(response \o chunk) /\ UNCHANGED <<mode, owed>>
  BY <1>1, <1>2, <1>3, <1>4, ReadingEnds
<1>5. CASE SendPayload(response \o chunk)
  BY <1>1, <1>2, <1>3, <1>5, ReadingOn DEF SendPayload
<1>6. CASE response' = response \o chunk /\ UNCHANGED <<command, results, mode, owed>>
  BY <1>1, <1>2, <1>3, <1>6, ReadingOn
<1>7. QED
  BY <1>2, <1>4, <1>5, <1>6

LEMMA ReadPayloadAnswerKeeps ==
  ASSUME USBInv, ReadPayloadAnswer
  PROVE  USBInv'
<1>1. /\ command.kind \in {"interactive", "upload"}
      /\ UNCHANGED <<platform, mode, owed, sent, late, leftover>>
  BY DEF ReadPayloadAnswer
<1>2. PICK chunk \in Chunk :
        /\ Take(chunk)
        /\ \/ PayloadAnswered(response \o chunk) /\ Return(response \o chunk)
           \/ response' = response \o chunk /\ UNCHANGED <<command, results>>
  BY DEF ReadPayloadAnswer
<1>3. command # Idle /\ command.kind # "download"
  BY <1>1 DEF Idle
<1>4. CASE PayloadAnswered(response \o chunk) /\ Return(response \o chunk)
  <2> DEFINE header == response \o chunk
  <2>1. ASSUME ~leftover, command.kind = "upload", platform = "libusb"
        PROVE  "ok" \in Whats(header) \/ IsError(header)
    <3>1. header \in Seq(Piece) /\ (ConnectsOnce(Coming) => ConnectsOnce(header))
      BY <1>2, Taken DEF USBInv
    <3>2. ConnectsOnce(header)
      BY <2>1, <3>1 DEF USBInv, OwnComes
    <3>3. Complete(FromConnect(header))
      BY <1>4, <2>1 DEF PayloadAnswered
    <3> HIDE DEF header
    <3>4. Whats(FromConnect(header)) \subseteq Whats(header) \ {"connect"}
      BY <3>1, <3>2, NoneFollows
    <3>5. QED
      BY <3>3, <3>4 DEF Complete, IsError
  <2>2. QED
    BY <1>1, <1>2, <1>3, <1>4, <2>1, ReadingEnds
<1>5. CASE response' = response \o chunk /\ UNCHANGED <<command, results>>
  BY <1>1, <1>2, <1>3, <1>5, ReadingOn
<1>6. QED
  BY <1>2, <1>4, <1>5

\* What the module may say to a command.
LEMMA RepliesFit ==
  ASSUME NEW id \in Nat, NEW kind \in Kind, NEW answer \in Replies(id, kind)
  PROVE  /\ answer \in Seq(Piece) /\ \A i \in DOMAIN answer : answer[i][1] = id
         /\ ConnectsOnce(answer)
         /\ kind = "download" =>
              \/ After(0, answer)
              \/ Len(answer) = 1 /\ answer[1][2] = "error"
<1> DEFINE Fits(whats) ==
             /\ whats \in Seq(What)
             /\ \A i \in 1..Len(whats) : whats[i] = "connect" => i = 1
             /\ kind = "download" =>
                  \/ Len(whats) = 6 /\ \A i \in 1..6 : whats[i] = FileAnswer[i]
                  \/ Len(whats) = 1 /\ whats[1] = "error"
<1>1. \E whats : answer = Says(id, whats) /\ Fits(whats)
  <2>1. CASE answer = Says(id, <<"error">>)
    <3>1. Fits(<<"error">>)
      BY DEF What
    <3> HIDE DEF Fits
    <3>2. QED
      BY <2>1, <3>1
  <2>2. CASE kind = "plain" /\ answer = Says(id, <<"info", "ok">>)
    <3>1. Fits(<<"info", "ok">>)
      BY <2>2 DEF What
    <3> HIDE DEF Fits
    <3>2. QED
      BY <2>2, <3>1
  <2>3. CASE kind = "interactive" /\ answer = Says(id, <<"prompt">>)
    <3>1. Fits(<<"prompt">>)
      BY <2>3 DEF What
    <3> HIDE DEF Fits
    <3>2. QED
      BY <2>3, <3>1
  <2>4. CASE kind = "upload" /\ answer = Says(id, <<"connect", "eol">>)
    <3>1. Fits(<<"connect", "eol">>)
      BY <2>4 DEF What
    <3> HIDE DEF Fits
    <3>2. QED
      BY <2>4, <3>1
  <2>5. CASE kind = "download" /\ answer = Says(id, FileAnswer)
    <3>1. Fits(FileAnswer)
      BY <2>5 DEF What, FileAnswer
    <3> HIDE DEF Fits
    <3>2. QED
      BY <2>5, <3>1
  <2>6. QED
    BY <2>1, <2>2, <2>3, <2>4, <2>5 DEF Replies, Kind, FileAnswer
<1>2. PICK whats : answer = Says(id, whats) /\ Fits(whats)
  BY <1>1
<1>3. /\ answer \in Seq(Piece) /\ Len(answer) = Len(whats)
      /\ \A i \in 1..Len(whats) : answer[i] = <<id, whats[i]>>
  BY <1>2, SaysPieces
<1>4. DOMAIN answer = 1..Len(whats)
  BY <1>3, LenProperties
<1>5. (\A i \in DOMAIN answer : answer[i][1] = id) /\ ConnectsOnce(answer)
  BY <1>2, <1>3, <1>4 DEF ConnectsOnce
<1>6. ASSUME kind = "download", Len(whats) = 6, \A i \in 1..6 : whats[i] = FileAnswer[i]
      PROVE  After(0, answer)
  <2>1. ASSUME NEW i \in 1..6 PROVE answer[i][2] = FileAnswer[0 + i]
    BY <1>3, <1>6
  <2>2. QED
    BY <1>3, <1>6, <2>1 DEF After
<1>7. ASSUME kind = "download", Len(whats) = 1, whats[1] = "error"
      PROVE  Len(answer) = 1 /\ answer[1][2] = "error"
  BY <1>3, <1>7
<1>8. QED
  BY <1>2, <1>3, <1>5, <1>6, <1>7

LEMMA SendKeeps ==
  ASSUME USBInv, NEW kind \in Kind, Send(kind)
  PROVE  USBInv'
<1>1. /\ command = Idle /\ sent' = sent + 1 /\ pipe' = <<>> /\ response' = <<>>
      /\ leftover' = (leftover \/ owed # <<>> \/ mode[1] # "idle")
      /\ command' = [id |-> sent + 1, kind |-> kind,
                     phase |-> IF kind = "plain" THEN "answer" ELSE "request"]
      /\ UNCHANGED <<platform, late, results, split>>
  BY DEF Send, Emptied
<1>2. PICK answer \in Replies(sent + 1, kind) : Takes(sent + 1, kind, answer)
  BY DEF Send
<1>3. /\ owed \in Seq(Piece) /\ mode \in {"idle", "editor", "upload"} \X Nat
      /\ sent \in Nat /\ sent + 1 \in Nat /\ leftover \in BOOLEAN
  BY DEF USBInv, USBTypeOK
<1>4. /\ answer \in Seq(Piece) /\ \A i \in DOMAIN answer : answer[i][1] = sent + 1
      /\ ConnectsOnce(answer)
      /\ kind = "download" =>
           \/ After(0, answer)
           \/ Len(answer) = 1 /\ answer[1][2] = "error"
  BY <1>2, <1>3, RepliesFit
<1>5. /\ mode[1] # "idle" => UNCHANGED <<mode, owed>>
      /\ mode[1] = "idle" =>
           /\ owed' = owed \o answer
           /\ mode' \in {<<"editor", sent + 1>>, <<"upload", sent + 1>>, mode}
  BY <1>2 DEF Takes
<1>6. owed' \in Seq(Piece)
  BY <1>3, <1>4, <1>5, PiecesJoin
<1>7. mode' \in {"idle", "editor", "upload"} \X Nat
  BY <1>3, <1>5
<1>8. command' \in [id : Nat, kind : Kind, phase : Phase]
  BY <1>1, <1>3 DEF Phase
<1>9. leftover' \in BOOLEAN
  BY <1>1, <1>3
<1>10. USBTypeOK'
  BY <1>1, <1>3, <1>6, <1>7, <1>8, <1>9 DEF USBInv, USBTypeOK
<1>11. OwnComes'
  <2> SUFFICES ASSUME ~leftover' PROVE OwnComes'
    BY DEF OwnComes
  <2>1. ~leftover /\ owed = <<>> /\ mode[1] = "idle"
    BY <1>1, <1>3
  <2>2. Coming' = answer
    <3>1. <<>> \o (<<>> \o (<<>> \o answer)) = answer
      BY <1>4
    <3>2. QED
      BY <1>1, <1>5, <2>1, <3>1 DEF Coming
  <2>3. Owned(Coming)' /\ ConnectsOnce(Coming)'
    BY <1>1, <1>4, <2>2 DEF Owned, ConnectsOnce
  <2>4. DownloadFits'
    <3>1. command'.kind = "download" => kind = "download" /\ command'.phase = "request"
      BY <1>1
    <3>2. After(0, Coming)' <=> After(0, answer)
      BY <2>2 DEF After
    <3>3. QED
      BY <1>1, <1>4, <2>2, <3>1, <3>2 DEF DownloadFits
  <2>5. mode'[1] # "idle" => mode'[2] = sent'
    BY <1>1, <1>5, <2>1
  <2>6. command'.id = sent'
    BY <1>1
  <2>7. QED
    BY <2>3, <2>4, <2>5, <2>6 DEF OwnComes
<1>12. OwnAnswersWhole'
  BY <1>1, <1>9, ResultsStay DEF USBInv, USBTypeOK
<1>13. QED
  BY <1>10, <1>11, <1>12 DEF USBInv

LEMMA DeadlineKeeps ==
  ASSUME USBInv, Deadline
  PROVE  USBInv'
<1>1. /\ command # Idle
      /\ mode' \in {<<"idle", 0>>, mode}
      /\ UNCHANGED <<platform, owed, pipe, sent, leftover, split>>
      /\ \/ command.kind = "plain" /\ Return(response)
         \/ command' = Idle /\ response' = <<>> /\ UNCHANGED results
  BY DEF Deadline
<1>2. /\ response \in Seq(Piece) /\ pipe \in Seq(Piece) /\ owed \in Seq(Piece)
      /\ mode \in {"idle", "editor", "upload"} \X Nat /\ split \in BOOLEAN
  BY DEF USBInv, USBTypeOK
<1>3. mode' \in {"idle", "editor", "upload"} \X Nat /\ (mode'[1] # "idle" => mode' = mode)
  BY <1>1, <1>2
<1> DEFINE rest == pipe \o owed
<1>4. rest \in Seq(Piece)
  BY <1>2, PiecesJoin
<1>5. ~leftover => Owned(response) /\ Owned(rest) /\ ConnectsOnce(rest)
  <2>1. /\ Owned(response \o rest) => Owned(response) /\ Owned(rest)
        /\ ConnectsOnce(response \o rest) => ConnectsOnce(rest)
    <3> HIDE DEF rest
    <3>1. QED
      BY <1>2, <1>4, PiecesJoin
  <2>2. QED
    BY <2>1 DEF USBInv, OwnComes, Coming
<1>6. CASE command.kind = "plain" /\ Return(response)
  <2>1. pipe' \o owed = rest
    BY <1>1
  <2>2. pipe' \in Seq(Piece) /\ split' \in BOOLEAN /\ (split => split')
    BY <1>1, <1>2
  <2> HIDE DEF rest
  <2>3. QED
    BY <1>1, <1>2, <1>3, <1>5, <1>6, <2>1, <2>2, ReturnKeeps
<1>7. CASE command' = Idle /\ response' = <<>> /\ UNCHANGED results
  <2>1. USBTypeOK'
    BY <1>1, <1>3, <1>7 DEF USBInv, USBTypeOK
  <2>2. Coming' = rest
    <3>1. \A s \in Seq(Piece) : <<>> \o s = s
      OBVIOUS
    <3>2. QED
      BY <1>1, <1>4, <1>7, <3>1 DEF Coming
  <2>3. OwnComes'
    <3> SUFFICES ASSUME ~leftover PROVE OwnComes'
      BY <1>1 DEF OwnComes
    <3>1. Owned(Coming)' /\ ConnectsOnce(Coming)'
      BY <1>1, <1>5, <2>2 DEF Owned, ConnectsOnce
    <3>2. DownloadFits'
      BY <1>7 DEF DownloadFits, Idle
    <3>3. mode'[1] # "idle" => mode'[2] = sent
      BY <1>3 DEF USBInv, OwnComes
    <3>4. QED
      BY <1>1, <1>7, <3>1, <3>2, <3>3 DEF OwnComes
  <2>4. OwnAnswersWhole'
    BY <1>1, <1>7, ResultsStay DEF USBInv, USBTypeOK
  <2>5. QED
    BY <2>1, <2>3, <2>4 DEF USBInv
<1>8. QED
  BY <1>1, <1>6, <1>7

\* A beginning of the answer to a download, and what is left of it after the CONNECT line.
Opened(header, payload) ==
  /\ Len(header) = 1 => Len(payload) = 0
  /\ Len(header) > 1 =>
       /\ Len(payload) = Len(header) - 2
       /\ \A i \in 1..(Len(header) - 2) : payload[i] = header[i + 2]

\* The beginning of an answer to a download that is not refused, and what AfterConnect
\* makes of it.
LEMMA HeaderOfFile ==
  ASSUME NEW pieces \in Seq(Piece), ConnectsOnce(pieces), Len(pieces) > 0, Len(pieces) <= 6,
         \A i \in 1..Len(pieces) : pieces[i][2] = FileAnswer[i]
  PROVE  /\ ~IsError(pieces) /\ "connect" \in Whats(pieces)
         /\ AfterConnect(pieces) \in Seq(Piece) /\ Opened(pieces, AfterConnect(pieces))
<1>1. Len(pieces) \in Nat /\ DOMAIN pieces = 1..Len(pieces)
  BY LenProperties
<1>2. \A i \in 1..6 : FileAnswer[i] # "error" /\ (FileAnswer[i] = "connect" <=> i = 1)
  BY DEF FileAnswer
<1>3. \A i \in 1..Len(pieces) : pieces[i][2] # "error" /\ (pieces[i][2] = "connect" <=> i = 1)
  BY <1>1, <1>2
<1>4. ~IsError(pieces) /\ "connect" \in Whats(pieces)
  BY <1>1, <1>3 DEF IsError, Whats
<1> DEFINE rest == FromConnect(pieces)
<1>5. PICK first \in 0..Len(pieces) :
        /\ rest = SubSeq(pieces, first + 1, Len(pieces))
        /\ first # 0 => pieces[first][2] = "connect"
        /\ first = 0 => \A i \in 1..Len(pieces) : pieces[i][2] # "connect"
  BY FromConnectIs
<1>6. first = 1
  BY <1>1, <1>3, <1>5
<1>7. /\ rest \in Seq(Piece) /\ Len(rest) = Len(pieces) - 1
      /\ \A i \in 1..(Len(pieces) - 1) : rest[i] = pieces[1 + i]
  <2>1. 1 \in 0..Len(pieces) /\ rest = SubSeq(pieces, 1 + 1, Len(pieces))
    BY <1>5, <1>6
  <2> HIDE DEF rest
  <2>2. QED
    BY <2>1, PiecesAfter
<1>8. AfterConnect(pieces) = IF rest # <<>> /\ rest[1][2] = "eol" THEN Tail(rest) ELSE rest
  BY DEF AfterConnect
<1> HIDE DEF rest
<1>9. CASE Len(pieces) = 1
  <2>1. rest = <<>>
    <3>1. Len(rest) = 0
      BY <1>7, <1>9
    <3>2. QED
      BY <1>7, <3>1, EmptySeq
  <2>2. AfterConnect(pieces) = <<>>
    BY <1>8, <2>1
  <2>3. QED
    BY <1>4, <1>9, <2>2 DEF Opened
<1>10. CASE Len(pieces) > 1
  <2>1. rest # <<>>
    <3>1. Len(rest) > 0
      BY <1>1, <1>7, <1>10
    <3>2. QED
      BY <3>1
  <2>2. rest[1][2] = "eol"
    <3>1. rest[1] = pieces[2] /\ 2 \in 1..Len(pieces)
      BY <1>1, <1>7, <1>10
    <3>2. FileAnswer[2] = "eol"
      BY DEF FileAnswer
    <3>3. QED
      BY <3>1, <3>2
  <2>3. /\ Tail(rest) \in Seq(Piece) /\ Len(Tail(rest)) = Len(rest) - 1
        /\ \A i \in 1..(Len(rest) - 1) : Tail(rest)[i] = rest[i + 1]
    BY <1>7, <2>1, HeadTailProperties
  <2>4. AfterConnect(pieces) = Tail(rest)
    BY <1>8, <2>1, <2>2
  <2>5. Len(rest) - 1 = Len(pieces) - 2
    BY <1>1, <1>7
  <2>6. ASSUME NEW i \in 1..(Len(pieces) - 2) PROVE Tail(rest)[i] = pieces[i + 2]
    <3>1. Tail(rest)[i] = rest[i + 1]
      BY <2>3, <2>5
    <3>2. i + 1 \in 1..(Len(pieces) - 1) /\ 1 + (i + 1) = i + 2
      BY <1>1
    <3>3. QED
      BY <1>7, <3>1, <3>2
  <2>7. Len(Tail(rest)) = Len(pieces) - 2
    BY <2>3, <2>5
  <2> DEFINE payload == Tail(rest)
  <2>8. /\ AfterConnect(pieces) = payload /\ payload \in Seq(Piece)
        /\ Len(payload) = Len(pieces) - 2
        /\ \A i \in 1..(Len(pieces) - 2) : payload[i] = pieces[i + 2]
    BY <2>3, <2>4, <2>6, <2>7
  <2> HIDE DEF payload
  <2>9. QED
    BY <1>4, <1>10, <2>8 DEF Opened
<1>11. Len(pieces) = 1 \/ Len(pieces) > 1
  BY <1>1
<1>12. QED
  BY <1>9, <1>10, <1>11

\* A download that goes on: the file so far is kept, what comes after it is still to come.
LEMMA FileKept ==
  ASSUME USBInv, command.kind = "download", command' = [command EXCEPT !.phase = "answer"],
         NEW payload \in Seq(Piece), response' = payload, UNCHANGED results,
         UNCHANGED <<platform, mode, owed, sent, leftover>>,
         pipe' \in Seq(Piece), split' \in BOOLEAN, split => split',
         ~leftover =>
           /\ Owned(payload \o (pipe' \o owed)) /\ ConnectsOnce(payload \o (pipe' \o owed))
           /\ ~split' =>
                \/ After(2, payload \o (pipe' \o owed)) /\ Len(payload) < FileSize
                \/ After(1, payload \o (pipe' \o owed)) /\ payload = <<>>
  PROVE  USBInv'
<1>0. command # Idle /\ command \in [id : Nat, kind : Kind, phase : Phase]
  BY DEF USBInv, USBTypeOK, Idle
<1>1. /\ command' \in [id : Nat, kind : Kind, phase : Phase] /\ command # Idle
      /\ command'.id = command.id /\ command'.phase = "answer"
  BY <1>0 DEF Phase
<1>2. USBTypeOK'
  BY <1>1 DEF USBInv, USBTypeOK
<1>3. Coming' = payload \o (pipe' \o owed)
  BY DEF Coming
<1>4. OwnComes'
  <2> SUFFICES ASSUME ~leftover PROVE OwnComes'
    BY DEF OwnComes
  <2>1. Owned(Coming)' /\ ConnectsOnce(Coming)'
    BY <1>3 DEF Owned, ConnectsOnce
  <2>2. DownloadFits'
    BY <1>1, <1>3 DEF DownloadFits, After
  <2>3. command'.id = sent /\ (mode'[1] # "idle" => mode'[2] = sent)
    BY <1>1 DEF USBInv, OwnComes
  <2>4. QED
    BY <2>1, <2>2, <2>3 DEF OwnComes
<1>5. OwnAnswersWhole'
  BY ResultsStay DEF USBInv, USBTypeOK
<1>6. QED
  BY <1>2, <1>4, <1>5 DEF USBInv

LEMMA AfterConnectIs ==
  ASSUME NEW pieces \in Seq(Piece)
  PROVE  AfterConnect(pieces) \in Seq(Piece)
<1> DEFINE rest == FromConnect(pieces)
<1>1. rest \in Seq(Piece)
  BY FromConnectIs, PiecesAfter
<1>2. AfterConnect(pieces) = IF rest # <<>> /\ rest[1][2] = "eol" THEN Tail(rest) ELSE rest
  BY DEF AfterConnect
<1> HIDE DEF rest
<1>3. rest # <<>> => Tail(rest) \in Seq(Piece)
  BY <1>1, HeadTailProperties
<1>4. QED
  BY <1>1, <1>2, <1>3

\* The file is the first pieces of what follows CONNECT.
LEMMA FilePieces ==
  ASSUME NEW payload \in Seq(Piece), Len(payload) >= FileSize
  PROVE  /\ SubSeq(payload, 1, FileSize) \in Seq(Piece)
         /\ Owned(payload) => Owned(SubSeq(payload, 1, FileSize))
         /\ payload[1][2] = "data" /\ payload[2][2] = "more" =>
              Whats(SubSeq(payload, 1, FileSize)) = {"data", "more"}
<1> DEFINE part == SubSeq(payload, 1, FileSize)
<1>1. /\ Len(payload) \in Nat /\ Len(payload) >= 2 /\ FileSize = 2
      /\ DOMAIN payload = 1..Len(payload)
  BY LenProperties DEF FileSize
<1>2. \A i \in 1..2 : payload[i] \in Piece
  BY <1>1, ElementOfSeq
<1>3. part \in Seq(Piece) /\ Len(part) = 2 /\ \A i \in 1..2 : part[i] = payload[i]
  BY <1>1, <1>2, SubSeqProperties
<1> HIDE DEF part
<1>4. DOMAIN part = 1..2 /\ 1 \in DOMAIN payload /\ 2 \in DOMAIN payload
  BY <1>1, <1>3, LenProperties
<1>5. Owned(payload) => Owned(part)
  BY <1>3, <1>4 DEF Owned
<1>6. payload[1][2] = "data" /\ payload[2][2] = "more" => Whats(part) = {"data", "more"}
  BY <1>3, <1>4 DEF Whats
<1>7. QED
  BY <1>3, <1>5, <1>6 DEF part

\* Of what follows the first n pieces the same holds.
LEMMA EndOwned ==
  ASSUME NEW s \in Seq(Piece), NEW t \in Seq(Piece), NEW n \in Nat, Len(t) = Len(s) - n,
         \A i \in 1..Len(t) : t[i] = s[n + i], Owned(s), ConnectsOnce(s)
  PROVE  Owned(t) /\ ConnectsOnce(t)
<1>1. /\ Len(s) \in Nat /\ Len(t) \in Nat /\ DOMAIN s = 1..Len(s) /\ DOMAIN t = 1..Len(t)
  BY LenProperties
<1>2. ASSUME NEW i \in 1..Len(t) PROVE n + i \in 1..Len(s)
  BY <1>1
<1>0. \A i \in 1..Len(s) : s[i][1] = sent
  BY <1>1 DEF Owned
<1>3. Owned(t)
  <2>1. ASSUME NEW i \in 1..Len(t) PROVE t[i][1] = sent
    BY <1>0, <1>2
  <2>2. QED
    BY <1>1, <2>1 DEF Owned
<1>4. ASSUME NEW i \in 1..Len(t), NEW j \in 1..Len(t), t[i][2] = "connect", t[j][2] = "connect"
      PROVE  i = j
  <2>1. n + i = n + j
    BY <1>1, <1>2, <1>4 DEF ConnectsOnce
  <2>2. QED
    BY <1>1, <2>1
<1>5. QED
  BY <1>1, <1>3, <1>4 DEF ConnectsOnce

\* The answer to a download in two: its beginning, of which file is what AfterConnect makes,
\* and the rest of it.
LEMMA FileSplits ==
  ASSUME NEW whole \in Seq(Piece), After(0, whole), Owned(whole), ConnectsOnce(whole),
         NEW header \in Seq(Piece), NEW rest \in Seq(Piece), Len(header) > 0,
         Parts(whole, header, rest), NEW payload \in Seq(Piece), Opened(header, payload)
  PROVE  /\ Owned(payload) /\ Owned(payload \o rest) /\ ConnectsOnce(payload \o rest)
         /\ Len(payload) >= 2 => payload[1][2] = "data" /\ payload[2][2] = "more"
         /\ Len(payload) < 2 =>
              \/ After(2, payload \o rest)
              \/ After(1, payload \o rest) /\ payload = <<>>
<1>1. Len(header) \in Nat /\ Len(rest) \in Nat /\ Len(payload) \in Nat
  BY LenProperties
<1>2. Len(whole) = 6 /\ \A i \in 1..6 : whole[i][2] = FileAnswer[i]
  <2>1. Len(whole) = 6 - 0 /\ \A i \in 1..(6 - 0) : whole[i][2] = FileAnswer[0 + i]
    BY DEF After
  <2>2. ASSUME NEW i \in 1..6 PROVE whole[i][2] = FileAnswer[i]
    <3>1. i \in 1..(6 - 0) /\ 0 + i = i
      OBVIOUS
    <3>2. QED
      BY <2>1, <3>1
  <2>3. QED
    BY <2>1, <2>2
<1> DEFINE both == payload \o rest
<1>3. /\ both \in Seq(Piece) /\ Len(both) = Len(payload) + Len(rest)
      /\ \A i \in 1..Len(payload) : both[i] = payload[i]
      /\ \A i \in 1..Len(rest) : both[Len(payload) + i] = rest[i]
      /\ Owned(both) => Owned(payload)
  BY PiecesJoin
<1>4. CASE Len(header) = 1
  <2>1. Len(payload) = 0
    BY <1>4 DEF Opened
  <2>2. payload = <<>>
    BY <2>1, EmptySeq
  <2>3. both = rest
    BY <2>2, ConcatEmptySeq
  <2> HIDE DEF both
  <2>4. Len(rest) = 6 - 1
    <3> DEFINE n == Len(rest)
    <3>1. 6 = 1 + n /\ n \in Nat
      BY <1>1, <1>2, <1>4 DEF Parts
    <3> HIDE DEF n
    <3>2. n = 6 - 1
      BY <3>1
    <3>3. QED
      BY <3>2 DEF n
  <2>5. ASSUME NEW i \in 1..5 PROVE rest[i] = whole[1 + i] /\ 1 + i \in 1..6
    BY <1>4, <2>4 DEF Parts
  <2>6. After(1, rest)
    <3>1. ASSUME NEW i \in 1..(6 - 1) PROVE rest[i][2] = FileAnswer[1 + i]
      <4>1. i \in 1..5
        OBVIOUS
      <4>2. QED
        BY <1>2, <2>5, <4>1
    <3>2. QED
      BY <2>4, <3>1 DEF After
  <2>7. Owned(rest) /\ ConnectsOnce(rest)
    <3>1. Len(rest) = 5 /\ 1 \in Nat /\ Len(rest) = Len(whole) - 1
      BY <1>2, <2>4
    <3>2. \A i \in 1..Len(rest) : rest[i] = whole[1 + i]
      BY <2>5, <3>1
    <3>3. QED
      BY <3>1, <3>2, EndOwned
  <2>8. QED
    BY <1>3, <2>1, <2>2, <2>3, <2>6, <2>7 DEF both
<1>5. CASE Len(header) > 1
  <2> HIDE DEF both
  <2>1. /\ Len(payload) = Len(header) - 2
        /\ \A i \in 1..(Len(header) - 2) : payload[i] = header[i + 2]
    BY <1>5 DEF Opened
  <2>2. Len(both) = 4 /\ Len(rest) = 6 - Len(header)
    <3>1. 6 = Len(header) + Len(rest)
      BY <1>2 DEF Parts
    <3>2. Len(both) = (Len(header) - 2) + Len(rest)
      BY <1>3, <2>1
    <3>3. QED
      BY <1>1, <3>1, <3>2
  <2>3. ASSUME NEW i \in 1..4 PROVE both[i] = whole[2 + i]
    <3>1. CASE i <= Len(payload)
      <4>1. /\ i \in 1..Len(payload) /\ i \in 1..(Len(header) - 2)
            /\ i + 2 \in 1..Len(header) /\ i + 2 = 2 + i
        BY <1>1, <2>1, <3>1
      <4>2. both[i] = payload[i] /\ payload[i] = header[i + 2]
        BY <1>3, <2>1, <4>1
      <4>3. QED
        BY <4>1, <4>2 DEF Parts
    <3>2. CASE i > Len(payload)
      <4>1. /\ i - Len(payload) \in 1..Len(rest) /\ Len(payload) + (i - Len(payload)) = i
            /\ Len(header) + (i - Len(payload)) = 2 + i
        BY <1>1, <2>1, <2>2, <3>2
      <4>2. both[i] = rest[i - Len(payload)]
        BY <1>3, <4>1
      <4>3. QED
        BY <4>1, <4>2 DEF Parts
    <3>3. i <= Len(payload) \/ i > Len(payload)
      BY <1>1
    <3>4. QED
      BY <3>1, <3>2, <3>3
  <2>4. Owned(both) /\ ConnectsOnce(both)
    <3>1. Len(both) = Len(whole) - 2 /\ 2 \in Nat
      BY <1>2, <2>2
    <3>2. \A i \in 1..Len(both) : both[i] = whole[2 + i]
      BY <2>2, <2>3
    <3>3. QED
      BY <1>3, <3>1, <3>2, EndOwned
  <2>5. After(2, both)
    <3>1. ASSUME NEW i \in 1..(6 - 2) PROVE both[i][2] = FileAnswer[2 + i]
      <4>1. i \in 1..4 /\ 2 + i \in 1..6
        OBVIOUS
      <4>2. QED
        BY <1>2, <2>3, <4>1
    <3>2. QED
      BY <2>2, <3>1 DEF After
  <2>6. Len(payload) >= 2 => payload[1][2] = "data" /\ payload[2][2] = "more"
    <3> SUFFICES ASSUME Len(payload) >= 2 PROVE payload[1][2] = "data" /\ payload[2][2] = "more"
      OBVIOUS
    <3>1. 1 \in 1..Len(payload) /\ 2 \in 1..Len(payload)
      BY <1>1
    <3>2. payload[1] = whole[3] /\ payload[2] = whole[4]
      BY <1>3, <2>3, <3>1
    <3>3. QED
      BY <1>2, <3>2 DEF FileAnswer
  <2>7. Owned(payload)
    BY <1>3, <2>4
  <2>8. /\ Owned(payload) /\ Owned(both) /\ ConnectsOnce(both)
        /\ Len(payload) >= 2 => payload[1][2] = "data" /\ payload[2][2] = "more"
        /\ After(2, both)
    BY <2>4, <2>5, <2>6, <2>7
  <2>9. QED
    BY <2>8 DEF both
<1>6. Len(header) = 1 \/ Len(header) > 1
  <2> DEFINE n == Len(header)
  <2>1. n \in Nat /\ n > 0
    BY <1>1
  <2> HIDE DEF n
  <2>2. n = 1 \/ n > 1
    BY <2>1
  <2>3. QED
    BY <2>2 DEF n
<1>7. QED
  BY <1>4, <1>5, <1>6

\* The answer to a download is read up to CONNECT or further.
LEMMA FileBegins ==
  ASSUME USBInv, ~leftover, command.kind = "download", command.phase = "request",
         NEW header \in Seq(Piece), NEW rest \in Seq(Piece), Parts(Coming, header, rest),
         Len(header) > 0, ConnectsOnce(header), ~IsError(header)
  PROVE  /\ "connect" \in Whats(header) /\ After(0, Coming)
         /\ AfterConnect(header) \in Seq(Piece) /\ Opened(header, AfterConnect(header))
<1>1. /\ Owned(Coming) /\ ConnectsOnce(Coming)
      /\ \/ After(0, Coming)
         \/ Len(Coming) = 1 /\ Coming[1][2] = "error"
  BY DEF USBInv, OwnComes, DownloadFits
<1>2. Len(header) \in Nat /\ Len(rest) \in Nat /\ DOMAIN header = 1..Len(header)
  BY LenProperties
<1>3. After(0, Coming)
  <2>1. 1 \in 1..Len(header)
    BY <1>2
  <2>2. header[1][2] # "error"
    BY <1>2, <2>1 DEF IsError, Whats
  <2>3. Coming[1] = header[1]
    BY <2>1 DEF Parts
  <2>4. QED
    BY <1>1, <2>2, <2>3
<1>4. Len(header) <= 6 /\ \A i \in 1..Len(header) : header[i][2] = FileAnswer[i]
  <2>1. Len(Coming) = 6 - 0 /\ \A i \in 1..(6 - 0) : Coming[i][2] = FileAnswer[0 + i]
    BY <1>3 DEF After
  <2>2. Len(header) <= 6
    <3>1. 6 - 0 = Len(header) + Len(rest)
      BY <2>1 DEF Parts
    <3>2. QED
      BY <1>2, <3>1
  <2>3. ASSUME NEW i \in 1..Len(header) PROVE header[i][2] = FileAnswer[i]
    <3>1. i \in 1..(6 - 0) /\ 0 + i = i
      BY <1>2, <2>2
    <3>2. Coming[i] = header[i]
      BY DEF Parts
    <3>3. QED
      BY <2>1, <3>1, <3>2
  <2>4. QED
    BY <2>2, <2>3
<1>5. QED
  BY <1>3, <1>4, HeaderOfFile

\* And then the file is, unless the end of the CONNECT line comes apart.
LEMMA FileGoesOn ==
  ASSUME USBInv, ~leftover, command.kind = "download", command.phase = "answer", ~split',
         NEW chunk \in Chunk, Take(chunk), NEW payload, payload = response \o chunk
  PROVE  /\ Len(payload) >= 2 => payload[1][2] = "data" /\ payload[2][2] = "more"
         /\ After(2, Coming)
<1>1. /\ payload \in Seq(Piece) /\ Len(payload) \in Nat /\ Len(payload) > 0
      /\ \A i \in 1..Len(payload) : Coming[i] = payload[i]
  <2>1. /\ payload \in Seq(Piece) /\ Len(payload) \in Nat /\ Len(response) \in Nat
        /\ Len(payload) > Len(response) /\ Parts(Coming, payload, pipe' \o owed)
    BY Taken DEF USBInv
  <2>2. QED
    BY <2>1 DEF Parts
<1>2. /\ ~split /\ ~\E i \in DOMAIN chunk : chunk[i][2] = "eol" /\ i = 1
  BY DEF Take, USBInv, USBTypeOK
<1>3. \/ After(2, Coming)
      \/ After(1, Coming) /\ response = <<>>
  BY <1>2 DEF USBInv, OwnComes, DownloadFits
<1>4. After(2, Coming)
  <2> SUFFICES ASSUME After(1, Coming), response = <<>> PROVE FALSE
    BY <1>3
  <2>1. Coming[1][2] = "eol"
    <3>1. \A i \in 1..(6 - 1) : Coming[i][2] = FileAnswer[1 + i]
      BY DEF After
    <3>2. 1 \in 1..(6 - 1) /\ FileAnswer[1 + 1] = "eol"
      BY DEF FileAnswer
    <3>3. QED
      BY <3>1, <3>2
  <2>2. chunk \in Seq(Piece) /\ Len(chunk) \in Nat \ {0}
    BY TakesPart DEF USBInv
  <2>3. payload = chunk
    BY <2>2, ConcatEmptySeq
  <2>4. 1 \in DOMAIN chunk /\ chunk[1] = Coming[1]
    BY <1>1, <2>2, <2>3, LenProperties
  <2>5. QED
    BY <1>2, <2>1, <2>4
<1>5. Len(payload) >= 2 => payload[1][2] = "data" /\ payload[2][2] = "more"
  <2> SUFFICES ASSUME Len(payload) >= 2 PROVE payload[1][2] = "data" /\ payload[2][2] = "more"
    OBVIOUS
  <2>1. \A i \in 1..(6 - 2) : Coming[i][2] = FileAnswer[2 + i]
    BY <1>4 DEF After
  <2>2. /\ 1 \in 1..(6 - 2) /\ FileAnswer[2 + 1] = "data"
        /\ 2 \in 1..(6 - 2) /\ FileAnswer[2 + 2] = "more"
    BY DEF FileAnswer
  <2>3. payload[1] = Coming[1] /\ payload[2] = Coming[2]
    BY <1>1
  <2>4. QED
    BY <2>1, <2>2, <2>3
<1>6. QED
  BY <1>4, <1>5

LEMMA ReadFileKeeps ==
  ASSUME USBInv, ReadFile
  PROVE  USBInv'
<1>1. /\ command.kind = "download"
      /\ UNCHANGED <<platform, mode, owed, sent, late, leftover>>
  BY DEF ReadFile
<1>2. command # Idle /\ command.phase \in Phase
  BY <1>1 DEF USBInv, USBTypeOK, Idle
<1> DEFINE Kept(payload) ==
             /\ response' = payload /\ command' = [command EXCEPT !.phase = "answer"]
             /\ UNCHANGED results
           Returned(payload) == Len(payload) >= FileSize /\ Return(SubSeq(payload, 1, FileSize))
<1>3. PICK chunk \in Chunk :
        /\ Take(chunk)
        /\ \/ /\ command.phase = "request" /\ IsError(response \o chunk)
              /\ Return(response \o chunk)
           \/ /\ command.phase = "request" /\ ~IsError(response \o chunk)
              /\ "connect" \notin Whats(response \o chunk)
              /\ response' = response \o chunk /\ UNCHANGED <<command, results>>
           \/ /\ command.phase = "request" /\ ~IsError(response \o chunk)
              /\ \/ Returned(AfterConnect(response \o chunk))
                 \/ /\ ~(Len(AfterConnect(response \o chunk)) >= FileSize)
                    /\ Kept(AfterConnect(response \o chunk))
           \/ /\ command.phase = "answer"
              /\ \/ Returned(response \o chunk)
                 \/ ~(Len(response \o chunk) >= FileSize) /\ Kept(response \o chunk)
  BY <1>2 DEF ReadFile, Phase
<1> DEFINE header == response \o chunk
           rest == pipe' \o owed
<1>0. USBTypeOK
  BY DEF USBInv
<1>4. /\ header \in Seq(Piece) /\ rest \in Seq(Piece) /\ header \o rest = Coming
      /\ pipe' \in Seq(Piece) /\ Len(header) \in Nat /\ Len(response) \in Nat
      /\ Len(header) > Len(response) /\ Parts(Coming, header, rest)
      /\ Owned(Coming) => Owned(header) /\ Owned(rest)
      /\ ConnectsOnce(Coming) => ConnectsOnce(header) /\ ConnectsOnce(rest)
  BY <1>0, <1>3, Taken
<1>5. split' \in BOOLEAN /\ (split => split')
  BY <1>3 DEF Take, USBInv, USBTypeOK
<1>6. /\ mode' \in {"idle", "editor", "upload"} \X Nat /\ mode' = mode
  BY <1>1 DEF USBInv, USBTypeOK
<1>7. ~leftover => /\ Owned(header) /\ Owned(rest) /\ ConnectsOnce(header) /\ ConnectsOnce(rest)
                   /\ Owned(header \o rest) /\ ConnectsOnce(header \o rest)
  BY <1>4 DEF USBInv, OwnComes
<1>8. Len(header) > 0
  BY <1>4
<1> DEFINE Good(payload) ==
             ~leftover =>
               /\ Owned(payload)
               /\ Len(payload) >= FileSize /\ ~split' =>
                    payload[1][2] = "data" /\ payload[2][2] = "more"
<1>9. ASSUME NEW payload \in Seq(Piece), Good(payload), Returned(payload)
      PROVE  USBInv'
  <2> DEFINE part == SubSeq(payload, 1, FileSize)
  <2>1. Return(part) /\ Len(payload) >= FileSize
    BY <1>9
  <2>2. /\ part \in Seq(Piece) /\ (Owned(payload) => Owned(part))
        /\ payload[1][2] = "data" /\ payload[2][2] = "more" => Whats(part) = {"data", "more"}
    BY <2>1, FilePieces
  <2>3. ~leftover => Owned(part) /\ (~split' => Whats(part) = {"data", "more"})
    BY <1>9, <2>1, <2>2
  <2>4. ~leftover => Owned(pipe' \o owed) /\ ConnectsOnce(pipe' \o owed)
    BY <1>7
  <2> HIDE DEF part, header, rest, Good, Returned, Kept
  <2>5. QED
    BY <1>1, <1>2, <1>4, <1>5, <1>6, <2>1, <2>2, <2>3, <2>4, ReturnKeeps
<1>10. CASE command.phase = "request" /\ IsError(header) /\ Return(header)
  <2>1. ~leftover => Owned(pipe' \o owed) /\ ConnectsOnce(pipe' \o owed)
    BY <1>7
  <2> HIDE DEF header, rest, Good, Returned, Kept
  <2>2. QED
    BY <1>1, <1>2, <1>4, <1>5, <1>6, <1>7, <1>10, <2>1, ReturnKeeps
<1>11. ASSUME command.phase = "request", ~IsError(header), ~leftover
       PROVE  /\ "connect" \in Whats(header) /\ After(0, Coming)
              /\ AfterConnect(header) \in Seq(Piece) /\ Opened(header, AfterConnect(header))
  <2> HIDE DEF header, rest
  <2>1. QED
    BY <1>1, <1>4, <1>7, <1>8, <1>11, FileBegins
<1>12. CASE /\ command.phase = "request" /\ ~IsError(header) /\ "connect" \notin Whats(header)
            /\ response' = header /\ UNCHANGED <<command, results>>
  <2>1. leftover
    BY <1>11, <1>12
  <2>2. USBTypeOK'
    <3>1. response' \in Seq(Piece) /\ UNCHANGED <<command, results>>
      BY <1>4, <1>12
    <3>2. command' \in [id : Nat, kind : Kind, phase : Phase]
      BY <1>2, <3>1 DEF USBInv, USBTypeOK
    <3> HIDE DEF header, rest, Good, Returned, Kept
    <3>3. QED
      BY <1>1, <1>4, <1>5, <1>6, <3>1, <3>2 DEF USBInv, USBTypeOK
  <2>3. OwnComes' /\ OwnAnswersWhole'
    BY <1>1, <2>1 DEF OwnComes, OwnAnswersWhole, QuietOwnPieces, TransfersWhole
  <2>4. QED
    BY <2>2, <2>3 DEF USBInv
<1>13. CASE /\ command.phase = "request" /\ ~IsError(header)
            /\ \/ Returned(AfterConnect(header))
               \/ ~(Len(AfterConnect(header)) >= FileSize) /\ Kept(AfterConnect(header))
  <2> DEFINE payload == AfterConnect(header)
  <2>1. payload \in Seq(Piece)
    BY <1>4, AfterConnectIs
  <2>2. ASSUME ~leftover
        PROVE  /\ Owned(payload) /\ Owned(payload \o rest) /\ ConnectsOnce(payload \o rest)
               /\ Len(payload) >= 2 => payload[1][2] = "data" /\ payload[2][2] = "more"
               /\ Len(payload) < 2 =>
                    \/ After(2, payload \o rest)
                    \/ After(1, payload \o rest) /\ payload = <<>>
    <3>1. After(0, Coming) /\ Opened(header, payload)
      BY <1>11, <1>13, <2>2
    <3>2. Owned(Coming) /\ ConnectsOnce(Coming) /\ Coming \in Seq(Piece)
      <4>1. Coming \in Seq(Piece)
        <5> HIDE DEF header, rest
        <5>1. QED
          BY <1>4, PiecesJoin
      <4>2. QED
        BY <2>2, <4>1 DEF USBInv, OwnComes
    <3> HIDE DEF header, rest, payload, Good, Returned, Kept
    <3>3. QED
      BY <1>4, <1>8, <2>1, <3>1, <3>2, FileSplits
  <2>3. Good(payload)
    BY <2>2 DEF FileSize
  <2>4. CASE Returned(payload)
    <3> HIDE DEF payload, Good, Returned
    <3>1. QED
      BY <1>9, <2>1, <2>3, <2>4
  <2>5. CASE ~(Len(payload) >= FileSize) /\ Kept(payload)
    <3>1. Len(payload) < FileSize /\ FileSize = 2
      BY <2>1, <2>5, LenProperties DEF FileSize
    <3>2. /\ response' = payload /\ command' = [command EXCEPT !.phase = "answer"]
          /\ UNCHANGED results
      BY <2>5
    <3>3. ~leftover =>
            /\ Owned(payload \o (pipe' \o owed)) /\ ConnectsOnce(payload \o (pipe' \o owed))
            /\ ~split' =>
                 \/ After(2, payload \o (pipe' \o owed)) /\ Len(payload) < FileSize
                 \/ After(1, payload \o (pipe' \o owed)) /\ payload = <<>>
      BY <2>2, <3>1
    <3> HIDE DEF header, rest, payload, Good, Returned, Kept
    <3>4. QED
      BY <1>1, <1>4, <1>5, <2>1, <3>2, <3>3, FileKept
  <2>6. QED
    BY <1>13, <2>4, <2>5
<1>14. CASE /\ command.phase = "answer"
            /\ \/ Returned(header)
               \/ ~(Len(header) >= FileSize) /\ Kept(header)
  <2>1. ASSUME ~leftover, ~split'
        PROVE  /\ Len(header) >= 2 => header[1][2] = "data" /\ header[2][2] = "more"
               /\ After(2, Coming)
    BY <1>1, <1>3, <1>14, <2>1, FileGoesOn
  <2>2. Good(header)
    BY <1>7, <2>1 DEF FileSize
  <2>3. CASE Returned(header)
    <3> HIDE DEF header, Good, Returned
    <3>1. QED
      BY <1>4, <1>9, <2>2, <2>3
  <2>4. CASE ~(Len(header) >= FileSize) /\ Kept(header)
    <3>1. Len(header) < FileSize
      BY <1>4, <2>4 DEF FileSize
    <3>2. /\ response' = header /\ command' = [command EXCEPT !.phase = "answer"]
          /\ UNCHANGED results
      BY <2>4
    <3>3. ~leftover =>
            /\ Owned(header \o (pipe' \o owed)) /\ ConnectsOnce(header \o (pipe' \o owed))
            /\ ~split' =>
                 \/ After(2, header \o (pipe' \o owed)) /\ Len(header) < FileSize
                 \/ After(1, header \o (pipe' \o owed)) /\ header = <<>>
      BY <1>4, <1>7, <2>1, <3>1
    <3> HIDE DEF header, rest, Good, Returned, Kept
    <3>4. QED
      BY <1>1, <1>4, <1>5, <3>2, <3>3, FileKept
  <2>5. QED
    BY <1>14, <2>3, <2>4
<1>15. QED
  BY <1>3, <1>10, <1>12, <1>13, <1>14

\* As long as nothing was owed when a command was sent, each command returns what the
\* module answered to it, an upload with the last word and a download with the file
\* (usbat_libusb.go).
THEOREM OwnAnswersAlwaysWhole == USBSpec => []OwnAnswersWhole
<1>1. USBInit => USBInv
  <2> SUFFICES ASSUME USBInit PROVE USBInv
    OBVIOUS
  <2>1. USBTypeOK
    <3>1. \A S : <<>> \in Seq(S)
      BY EmptySeq
    <3>2. <<"idle", 0>> \in {"idle", "editor", "upload"} \X Nat
      OBVIOUS
    <3>3. QED
      BY <3>1, <3>2 DEF USBInit, USBTypeOK
  <2>2. Coming = <<>>
    BY DEF USBInit, Coming
  <2>3. OwnComes
    BY <2>2 DEF USBInit, OwnComes, Owned, ConnectsOnce, DownloadFits, Idle
  <2>4. OwnAnswersWhole
    BY DEF USBInit, OwnAnswersWhole, QuietOwnPieces, TransfersWhole
  <2>5. QED
    BY <2>1, <2>3, <2>4 DEF USBInv
<1>2. USBInv /\ [USBNext]_usbVars => USBInv'
  <2> SUFFICES ASSUME USBInv, [USBNext]_usbVars PROVE USBInv'
    OBVIOUS
  <2>1. CASE Emit
    BY <2>1, EmitKeeps
  <2>2. CASE ModuleGivesUp
    BY <2>2, GivesUpKeeps
  <2>3. CASE Deadline
    BY <2>3, DeadlineKeeps
  <2>4. ASSUME NEW kind \in Kind, Send(kind) PROVE USBInv'
    BY <2>4, SendKeeps
  <2>5. CASE ReadAnswer
    BY <2>5, ReadAnswerKeeps
  <2>6. CASE ReadRequest
    BY <2>6, ReadRequestKeeps
  <2>7. CASE ReadPayloadAnswer
    BY <2>7, ReadPayloadAnswerKeeps
  <2>8. CASE ReadFile
    BY <2>8, ReadFileKeeps
  <2>9. CASE UNCHANGED usbVars
    <3>1. USBTypeOK'
      BY <2>9 DEF USBInv, USBTypeOK, usbVars
    <3>2. Coming' = Coming
      BY <2>9 DEF Coming, usbVars
    <3>3. OwnComes'
      BY <2>9, <3>2 DEF USBInv, OwnComes, Owned, ConnectsOnce, DownloadFits, After, usbVars
    <3>4. OwnAnswersWhole'
      BY <2>9 DEF USBInv, OwnAnswersWhole, QuietOwnPieces, TransfersWhole, usbVars
    <3>5. QED
      BY <3>1, <3>3, <3>4 DEF USBInv
  <2>10. QED
    BY <2>1, <2>2, <2>3, <2>4, <2>5, <2>6, <2>7, <2>8, <2>9 DEF USBNext
<1>3. USBInv => OwnAnswersWhole
  BY DEF USBInv
<1>4. QED
  BY <1>1, <1>2, <1>3, PTL DEF USBSpec

(***************************************************************************)
(* Forwarding.                                                             *)
(***************************************************************************)
\* The requests of the job, and how many of them are for numbers and chats.
Tasks == IF job = "sms" THEN SMSPlan(feishu) ELSE RecordingPlan(feishu)
Before == IF job = "sms" THEN Len(Recipient) + Len(Chat) ELSE Len(Chat)
ToChat(i) == <<IF job = "sms" THEN "telegram" ELSE "document", Chat[i]>>

ForwardTypeOK ==
  /\ job \in {"sms", "recording"} /\ feishu \in {"webhook", "app", "off"}
  /\ job = "recording" => feishu # "webhook"
  /\ delivered \in [Request -> Nat] /\ marks \subseteq {"telegram", "feishu"}

\* What is left is the end of the plan: those before had their turn, and Feishu took what
\* was meant for it.  Or a step for Feishu failed, and the chats had their turn.
Underway ==
  \/ \E n \in 0..Len(Tasks) :
       /\ todo = SubSeq(Tasks, n + 1, Len(Tasks))
       /\ \A i \in 1..n : Tasks[i] \in tried
       /\ \A i \in 1..n : OnFeishu(Tasks[i]) /\ Tasks[i][1] # "webhook" =>
                            delivered[Tasks[i]] > 0
  \/ todo = <<>> /\ \A i \in DOMAIN Chat : ToChat(i) \in tried

Arrived ==
  /\ "telegram" \in marks => Got("document")
  /\ "feishu" \in marks => Got("metadata") /\ Got("upload") /\ Got("audio")
  /\ Got("audio") => Got("upload") /\ Got("metadata")

ForwardInv == ForwardTypeOK /\ Underway /\ Arrived

\* The plans: numbers and chats first, then Feishu, whose voice message comes after the
\* text and the upload.
LEMMA TasksShape ==
  ASSUME ForwardTypeOK
  PROVE  /\ Tasks \in Seq(Request) /\ Before \in 0..Len(Tasks)
         /\ \A i \in 1..Len(Tasks) : OnFeishu(Tasks[i]) <=> i > Before
         /\ \A i \in DOMAIN Chat : \E j \in 1..Before : Tasks[j] = ToChat(i)
         /\ \A j \in 1..Len(Tasks) : Tasks[j][1] = "audio" =>
              \E k, l \in 1..(j - 1) : Tasks[k] = One("metadata") /\ Tasks[l] = One("upload")
<1> DEFINE N == {Recipient[i] : i \in DOMAIN Recipient}
           H == {Chat[i] : i \in DOMAIN Chat}
<1>0. Recipient \in Seq(N \ {"feishu"}) /\ Chat \in Seq(H \ {"feishu"})
  BY ForwardAssumption
<1>1. \A k \in Kinds : One(k) \in Request /\ OnFeishu(One(k)) /\ One(k)[1] = k
  BY DEF One, Request, OnFeishu
<1>2. ASSUME NEW k \in Kinds, k # "audio", NEW to, to \in {Recipient, Chat}
      PROVE  /\ Target(k, to) \in Seq(Request) /\ Len(Target(k, to)) = Len(to)
             /\ \A i \in 1..Len(to) : /\ Target(k, to)[i] = <<k, to[i]>>
                                      /\ ~OnFeishu(Target(k, to)[i])
                                      /\ Target(k, to)[i][1] # "audio"
  <2>1. Len(to) \in Nat /\ DOMAIN to = 1..Len(to)
    BY <1>0, <1>2
  <2>2. ASSUME NEW i \in 1..Len(to) PROVE <<k, to[i]>> \in Request /\ to[i] # "feishu"
    <3>1. to[i] \in (N \cup H) \ {"feishu"}
      BY <1>0, <1>2, <2>1
    <3>2. Request = Kinds \X ({"feishu"} \cup N \cup H)
      BY DEF Request
    <3>3. QED
      BY <3>1, <3>2
  <2>3. QED
    BY <1>2, <2>1, <2>2 DEF Target, OnFeishu
<1>3. Before \in Nat /\ Len(Recipient) \in Nat /\ Len(Chat) \in Nat /\ DOMAIN Chat = 1..Len(Chat)
  BY <1>0 DEF Before
<1> DEFINE First == IF job = "sms" THEN Target("text", Recipient) \o Target("telegram", Chat)
                    ELSE Target("document", Chat)
<1>4. /\ First \in Seq(Request) /\ Len(First) = Before
      /\ \A i \in 1..Before : ~OnFeishu(First[i]) /\ First[i][1] # "audio"
      /\ \A i \in DOMAIN Chat : \E j \in 1..Before : First[j] = ToChat(i)
  <2>0. "text" \in Kinds /\ "telegram" \in Kinds /\ "document" \in Kinds
    BY DEF Kinds
  <2>1. CASE job = "sms"
    <3>1. /\ Target("text", Recipient) \in Seq(Request) /\ Target("telegram", Chat) \in Seq(Request)
          /\ Len(Target("text", Recipient)) = Len(Recipient)
          /\ Len(Target("telegram", Chat)) = Len(Chat)
      BY <1>2, <2>0
    <3>2. /\ First \in Seq(Request) /\ Len(First) = Before
          /\ \A i \in 1..Before : First[i] = IF i <= Len(Recipient) THEN Target("text", Recipient)[i]
                                  ELSE Target("telegram", Chat)[i - Len(Recipient)]
      BY <1>3, <2>1, <3>1 DEF Before
    <3>3. ASSUME NEW i \in 1..Before PROVE ~OnFeishu(First[i]) /\ First[i][1] # "audio"
      <4>1. CASE i <= Len(Recipient)
        <5>1. i \in 1..Len(Recipient) /\ First[i] = Target("text", Recipient)[i]
          BY <1>3, <3>2, <4>1
        <5>2. QED
          BY <1>2, <2>0, <5>1
      <4>2. CASE i > Len(Recipient)
        <5>1. /\ i - Len(Recipient) \in 1..Len(Chat)
              /\ First[i] = Target("telegram", Chat)[i - Len(Recipient)]
          BY <1>3, <2>1, <3>2, <4>2 DEF Before
        <5>2. QED
          BY <1>2, <2>0, <5>1
      <4>3. i <= Len(Recipient) \/ i > Len(Recipient)
        BY <1>3
      <4>4. QED
        BY <4>1, <4>2, <4>3
    <3>4. ASSUME NEW i \in DOMAIN Chat PROVE \E j \in 1..Before : First[j] = ToChat(i)
      <4>1. Len(Recipient) + i \in 1..Before /\ ~(Len(Recipient) + i <= Len(Recipient))
        BY <1>3, <2>1, <3>4 DEF Before
      <4>2. First[Len(Recipient) + i] = Target("telegram", Chat)[(Len(Recipient) + i) - Len(Recipient)]
        BY <3>2, <4>1
      <4>3. (Len(Recipient) + i) - Len(Recipient) = i
        BY <1>3
      <4>4. Target("telegram", Chat)[i] = ToChat(i)
        BY <1>2, <1>3, <2>0, <2>1, <3>4 DEF ToChat
      <4>5. QED
        BY <4>1, <4>2, <4>3, <4>4
    <3>5. QED
      BY <3>2, <3>3, <3>4
  <2>2. CASE job # "sms"
    <3>1. \A i \in 1..Len(Chat) : Target("document", Chat)[i] = ToChat(i)
      BY <1>2, <2>0, <2>2 DEF ToChat
    <3>2. QED
      BY <1>2, <1>3, <2>0, <2>2, <3>1 DEF Before
  <2>3. QED
    BY <2>1, <2>2
<1> DEFINE Rest == IF job = "sms"
                   THEN CASE feishu = "webhook" -> <<One("webhook")>>
                          [] feishu = "app" -> <<One("token"), One("message")>>
                          [] OTHER -> <<>>
                   ELSE IF feishu = "app"
                        THEN <<One("transcode"), One("token"), One("metadata"), One("upload"),
                               One("audio")>>
                        ELSE <<>>
<1>5. Tasks = First \o Rest
  BY DEF Tasks, SMSPlan, RecordingPlan
<1>6. /\ Rest \in Seq(Request)
      /\ \A i \in 1..Len(Rest) : OnFeishu(Rest[i])
      /\ \A i \in 1..Len(Rest) : Rest[i][1] = "audio" =>
           i = 5 /\ Rest[3] = One("metadata") /\ Rest[4] = One("upload")
  <2>0. \A k \in {"webhook", "token", "message", "transcode", "metadata", "upload", "audio"} :
          One(k) \in Request /\ OnFeishu(One(k)) /\ One(k)[1] = k
    BY <1>1 DEF Kinds
  <2>1. CASE Rest = <<>>
    BY <2>1
  <2>2. CASE Rest = <<One("webhook")>>
    BY <2>0, <2>2
  <2>3. CASE Rest = <<One("token"), One("message")>>
    BY <2>0, <2>3
  <2>4. CASE Rest = <<One("transcode"), One("token"), One("metadata"), One("upload"), One("audio")>>
    BY <2>0, <2>4
  <2>5. QED
    BY <2>1, <2>2, <2>3, <2>4 DEF ForwardTypeOK
<1> HIDE DEF First, Rest
<1>7. /\ Tasks \in Seq(Request) /\ Before \in 0..Len(Tasks) /\ Len(Tasks) = Before + Len(Rest)
      /\ Len(Rest) \in Nat
      /\ \A i \in 1..Len(Tasks) : Tasks[i] = IF i <= Before THEN First[i] ELSE Rest[i - Before]
  BY <1>3, <1>4, <1>5, <1>6
<1>8. \A i \in 1..Len(Tasks) : OnFeishu(Tasks[i]) <=> i > Before
  <2> SUFFICES ASSUME NEW i \in 1..Len(Tasks) PROVE OnFeishu(Tasks[i]) <=> i > Before
    OBVIOUS
  <2>1. CASE i <= Before
    BY <1>3, <1>4, <1>7, <2>1
  <2>2. CASE i > Before
    <3>1. i - Before \in 1..Len(Rest) /\ Tasks[i] = Rest[i - Before]
      BY <1>3, <1>7, <2>2
    <3>2. QED
      BY <1>6, <2>2, <3>1
  <2>3. QED
    BY <1>3, <2>1, <2>2
<1>9. \A i \in DOMAIN Chat : \E j \in 1..Before : Tasks[j] = ToChat(i)
  <2> SUFFICES ASSUME NEW i \in DOMAIN Chat PROVE \E j \in 1..Before : Tasks[j] = ToChat(i)
    OBVIOUS
  <2>1. PICK j \in 1..Before : First[j] = ToChat(i)
    BY <1>4
  <2>2. Tasks[j] = First[j]
    BY <1>3, <1>7, <2>1
  <2>3. QED
    BY <2>1, <2>2
<1>10. ASSUME NEW j \in 1..Len(Tasks), Tasks[j][1] = "audio"
       PROVE  \E k, l \in 1..(j - 1) : Tasks[k] = One("metadata") /\ Tasks[l] = One("upload")
  <2>1. j > Before /\ j - Before \in 1..Len(Rest) /\ Rest[j - Before][1] = "audio"
    BY <1>3, <1>4, <1>7, <1>10
  <2>2. j = Before + 5 /\ Rest[3] = One("metadata") /\ Rest[4] = One("upload")
    <3>1. j - Before = 5 /\ Rest[3] = One("metadata") /\ Rest[4] = One("upload")
      BY <1>6, <2>1
    <3>2. QED
      BY <1>3, <2>1, <3>1
  <2>3. ASSUME NEW i \in {3, 4} PROVE Tasks[Before + i] = Rest[i]
    <3>1. Before + i \in 1..Len(Tasks) /\ ~(Before + i <= Before) /\ (Before + i) - Before = i
      BY <1>3, <1>10, <2>2
    <3>2. QED
      BY <1>7, <3>1
  <2>4. Before + 3 \in 1..(j - 1) /\ Before + 4 \in 1..(j - 1)
    BY <1>3, <2>2
  <2>5. QED
    BY <2>2, <2>3, <2>4
<1>11. QED
  BY <1>7, <1>8, <1>9, <1>10

LEMMA AttemptKeeps == ASSUME ForwardInv, Attempt PROVE ForwardInv'
<1> DEFINE P == Len(Tasks)
<1>0. ForwardTypeOK /\ Underway /\ Arrived
  BY DEF ForwardInv
<1>1. /\ Tasks \in Seq(Request) /\ P \in Nat
      /\ Before \in 0..P
      /\ \A i \in 1..P : OnFeishu(Tasks[i]) <=> i > Before
      /\ \A i \in DOMAIN Chat : \E j \in 1..Before : Tasks[j] = ToChat(i)
      /\ \A j \in 1..P : Tasks[j][1] = "audio" =>
           \E k, l \in 1..(j - 1) : Tasks[k] = One("metadata") /\ Tasks[l] = One("upload")
  BY <1>0, TasksShape
<1>2. UNCHANGED <<job, feishu>> /\ Tasks' = Tasks /\ \A i \in DOMAIN Chat : ToChat(i)' = ToChat(i)
  BY DEF Attempt, Tasks, ToChat, SMSPlan, RecordingPlan
<1>3. PICK n \in 0..P :
        /\ todo = SubSeq(Tasks, n + 1, P)
        /\ \A i \in 1..n : Tasks[i] \in tried
        /\ \A i \in 1..n : OnFeishu(Tasks[i]) /\ Tasks[i][1] # "webhook" =>
                             delivered[Tasks[i]] > 0
  BY <1>0 DEF Underway, Attempt
<1>4. /\ n < P /\ request = Tasks[n + 1] /\ Tail(todo) = SubSeq(Tasks, n + 2, P)
      /\ request \in Request
  <2>1. n < P
    BY <1>1, <1>3 DEF Attempt
  <2>2. Len(todo) = P - n /\ todo \in Seq(Request) /\ \A i \in 1..(P - n) : todo[i] = Tasks[n + i]
    BY <1>1, <1>3, <2>1
  <2>3. Tail(todo) = SubSeq(Tasks, n + 2, P)
    BY <1>1, <1>3, <2>1, <2>2
  <2>4. QED
    BY <1>1, <2>1, <2>2, <2>3 DEF request
<1>20. PICK answer \in {"accepted", "rejected", "refused", "unanswered"} :
         /\ \E took \in CanBeTaken(answer) :
              delivered' = [delivered EXCEPT ![request] = @ + took]
         /\ tried' = tried \cup {request}
         /\ IF Accepts(request, answer)
            THEN todo' = Tail(todo) /\ attempt' = 0 /\ marks' = marks \cup Marks(request)
            ELSE /\ UNCHANGED marks
                 /\ IF Retried(request) /\ attempt + 1 < Attempts
                    THEN attempt' = attempt + 1 /\ UNCHANGED todo
                    ELSE attempt' = 0 /\ todo' = AfterFailure
  BY DEF Attempt
<1>5. PICK took \in CanBeTaken(answer) : delivered' = [delivered EXCEPT ![request] = @ + took]
  BY <1>20
<1>6. took \in Nat /\ (answer = "accepted" => took = 1)
  <2>1. CASE answer = "accepted"
    BY <1>5, <2>1 DEF CanBeTaken
  <2>2. CASE answer = "unanswered"
    BY <1>5, <2>2 DEF CanBeTaken
  <2>3. CASE answer \notin {"accepted", "unanswered"}
    BY <1>5, <2>3 DEF CanBeTaken
  <2>4. QED
    BY <2>1, <2>2, <2>3
<1>7. ForwardTypeOK'
  <2>1. delivered' \in [Request -> Nat]
    BY <1>0, <1>4, <1>20, <1>5, <1>6 DEF ForwardTypeOK
  <2>2. marks' \subseteq {"telegram", "feishu"}
    BY <1>0, <1>20, <1>5 DEF ForwardTypeOK, Marks
  <2>3. QED
    BY <1>0, <1>2, <2>1, <2>2 DEF ForwardTypeOK
<1>8. /\ \A r \in Request : delivered'[r] >= delivered[r]
      /\ tried \subseteq tried' /\ request \in tried'
      /\ Accepts(request, answer) /\ request[1] # "webhook" => delivered'[request] > 0
      /\ delivered \in [Request -> Nat] /\ delivered' \in [Request -> Nat]
  BY <1>0, <1>4, <1>20, <1>5, <1>6, <1>7 DEF ForwardTypeOK, Accepts
<1>9. /\ \A i \in 1..n : Tasks[i] \in tried'
      /\ \A i \in 1..n : OnFeishu(Tasks[i]) /\ Tasks[i][1] # "webhook" => delivered'[Tasks[i]] > 0
      /\ \A i \in 1..n : Tasks[i] \in Request
  <2>1. \A i \in 1..n : Tasks[i] \in Request
    BY <1>1
  <2>2. \A r \in Request : delivered[r] > 0 => delivered'[r] > 0
    BY <1>8
  <2>3. QED
    BY <1>3, <1>8, <2>1, <2>2
<1>10. Underway'
  <2>1. CASE todo' = todo
    BY <1>2, <1>3, <1>9, <2>1 DEF Underway, OnFeishu
  <2>2. CASE todo' = Tail(todo) /\ (OnFeishu(request) => Accepts(request, answer))
    <3>1. /\ n + 1 \in 0..P /\ todo' = SubSeq(Tasks, (n + 1) + 1, P)
          /\ \A i \in 1..(n + 1) : Tasks[i] \in tried'
          /\ \A i \in 1..(n + 1) : OnFeishu(Tasks[i]) /\ Tasks[i][1] # "webhook" =>
                                     delivered'[Tasks[i]] > 0
      <4>1. \A i \in 1..(n + 1) : i \in 1..n \/ i = n + 1
        OBVIOUS
      <4>2. /\ Tasks[n + 1] \in tried'
            /\ OnFeishu(Tasks[n + 1]) /\ Tasks[n + 1][1] # "webhook" => delivered'[Tasks[n + 1]] > 0
        BY <1>4, <1>8, <2>2
      <4>3. n + 1 \in 0..P /\ todo' = SubSeq(Tasks, (n + 1) + 1, P)
        BY <1>1, <1>4, <2>2
      <4>4. QED
        BY <1>9, <4>1, <4>2, <4>3
    <3>2. QED
      BY <1>2, <3>1 DEF Underway, OnFeishu
  <2>3. CASE todo' = <<>> /\ OnFeishu(request)
    <3>1. n >= Before
      BY <1>1, <1>4, <2>3
    <3>2. ASSUME NEW i \in DOMAIN Chat PROVE ToChat(i) \in tried'
      <4>1. PICK j \in 1..Before : Tasks[j] = ToChat(i)
        BY <1>1
      <4>2. QED
        BY <1>1, <1>9, <3>1, <4>1
    <3>3. QED
      BY <1>2, <2>3, <3>2 DEF Underway
  <2>4. QED
    BY <1>20, <1>5, <2>1, <2>2, <2>3 DEF AfterFailure
<1>11. Arrived'
  <2>1. \A kind : Got(kind) => Got(kind)'
    BY <1>8 DEF Got
  <2>2. ASSUME request[1] = "audio" PROVE Got("metadata")' /\ Got("upload")'
    <3>1. PICK k, l \in 1..n : Tasks[k] = One("metadata") /\ Tasks[l] = One("upload")
      BY <1>1, <1>4, <2>2
    <3>2. /\ delivered'[One("metadata")] > 0 /\ delivered'[One("upload")] > 0
          /\ One("metadata") \in Request /\ One("upload") \in Request
      <4>1. \A kind \in {"metadata", "upload"} : OnFeishu(One(kind)) /\ One(kind)[1] # "webhook"
        BY DEF OnFeishu, One
      <4>2. QED
        BY <1>9, <3>1, <4>1
    <3>3. QED
      BY <3>2 DEF Got, One
  <2>3. ASSUME Got("audio")' PROVE Got("audio") \/ request[1] = "audio"
    BY <1>4, <1>20, <1>5, <1>8, <2>3 DEF Got
  <2>4. ASSUME marks' # marks
        PROVE  /\ request[1] \in {"document", "audio"}
               /\ \A kind : request[1] = kind => Got(kind)'
               /\ marks' \subseteq marks \cup {IF request[1] = "audio" THEN "feishu" ELSE "telegram"}
    <3>1. /\ request[1] \in {"document", "audio"} /\ Accepts(request, answer)
          /\ marks' \subseteq marks \cup {IF request[1] = "audio" THEN "feishu" ELSE "telegram"}
      BY <1>20, <1>5, <2>4 DEF Marks
    <3>2. delivered'[request] > 0 /\ request \in Request
      BY <1>4, <1>8, <3>1
    <3>3. QED
      BY <3>1, <3>2 DEF Got
  <2>5. "telegram" \in marks' => Got("document")'
    <3>1. CASE "telegram" \in marks
      BY <1>0, <2>1, <3>1 DEF Arrived
    <3>2. CASE "telegram" \in marks' /\ "telegram" \notin marks
      <4>1. request[1] = "document" /\ Got("document")'
        BY <2>4, <3>2
      <4>2. QED
        BY <4>1
    <3>3. QED
      BY <3>1, <3>2
  <2>6. "feishu" \in marks' => Got("metadata")' /\ Got("upload")' /\ Got("audio")'
    <3>1. CASE "feishu" \in marks
      BY <1>0, <2>1, <3>1 DEF Arrived
    <3>2. CASE "feishu" \in marks' /\ "feishu" \notin marks
      <4>1. request[1] = "audio" /\ Got("audio")'
        BY <2>4, <3>2
      <4>2. QED
        BY <2>2, <4>1
    <3>3. QED
      BY <3>1, <3>2
  <2>7. QED
    BY <1>0, <2>1, <2>2, <2>3, <2>5, <2>6 DEF Arrived
<1>12. QED
  BY <1>7, <1>10, <1>11 DEF ForwardInv

\* For any numbers, chats and answers: what is marked as forwarded has arrived, and a
\* failure keeps no chat from its turn.
THEOREM MarksAlwaysTrue == ForwardSpec => []MarksTrue
<1>1. ForwardInit => ForwardInv
  <2> SUFFICES ASSUME ForwardInit PROVE ForwardInv
    OBVIOUS
  <2>1. ForwardTypeOK
    BY DEF ForwardInit, ForwardTypeOK
  <2>2. todo = SubSeq(Tasks, 1, Len(Tasks)) /\ Len(Tasks) \in Nat
    <3>1. todo = Tasks /\ Tasks \in Seq(Request)
      BY <2>1, TasksShape DEF ForwardInit, Tasks
    <3>2. QED
      BY <3>1
  <2>3. Underway
    BY <2>2 DEF Underway
  <2>4. \A kind : ~Got(kind)
    BY DEF ForwardInit, Got
  <2>5. Arrived
    BY <2>4 DEF Arrived, ForwardInit
  <2>6. QED
    BY <2>1, <2>3, <2>5 DEF ForwardInv
<1>2. ForwardInv /\ [ForwardNext]_forwardVars => ForwardInv'
  <2>1. ASSUME ForwardInv, UNCHANGED forwardVars PROVE ForwardInv'
    <3>1. Tasks' = Tasks /\ \A i \in DOMAIN Chat : ToChat(i)' = ToChat(i)
      BY <2>1 DEF forwardVars, Tasks, ToChat, SMSPlan, RecordingPlan
    <3>2. ForwardTypeOK' /\ Arrived'
      BY <2>1 DEF forwardVars, ForwardInv, ForwardTypeOK, Arrived, Got
    <3>3. Underway'
      BY <2>1, <3>1 DEF forwardVars, ForwardInv, Underway, OnFeishu
    <3>4. QED
      BY <3>2, <3>3 DEF ForwardInv
  <2>2. QED
    BY <2>1, AttemptKeeps DEF ForwardNext
<1>3. ForwardInv => MarksTrue
  <2> SUFFICES ASSUME ForwardInv, todo = <<>>, NEW i \in DOMAIN Chat PROVE ToChat(i) \in tried
    BY DEF ForwardInv, Arrived, MarksTrue, ToChat
  <2>1. CASE \E n \in 0..Len(Tasks) : /\ todo = SubSeq(Tasks, n + 1, Len(Tasks))
                                      /\ \A j \in 1..n : Tasks[j] \in tried
    <3>1. PICK n \in 0..Len(Tasks) : /\ todo = SubSeq(Tasks, n + 1, Len(Tasks))
                                     /\ \A j \in 1..n : Tasks[j] \in tried
      BY <2>1
    <3>2. Tasks \in Seq(Request) /\ Before \in 0..Len(Tasks) /\ Len(Tasks) \in Nat
      BY TasksShape DEF ForwardInv
    <3>3. n = Len(Tasks)
      <4> DEFINE end == SubSeq(Tasks, n + 1, Len(Tasks))
      <4>1. ASSUME n < Len(Tasks) PROVE end # <<>>
        <5>1. Len(end) = Len(Tasks) - n /\ end \in Seq(Request)
          BY <3>2, <4>1, SubSeqProperties
        <5>2. Len(end) > 0
          BY <3>2, <4>1, <5>1
        <5>3. ASSUME NEW s, Len(s) > 0 PROVE s # <<>>
          BY <5>3
        <5>4. QED
          BY <5>2, <5>3
      <4>2. end = <<>>
        BY <3>1
      <4>3. QED
        BY <3>2, <4>1, <4>2
    <3>4. PICK j \in 1..Before : Tasks[j] = ToChat(i)
      BY TasksShape DEF ForwardInv
    <3>5. QED
      BY <3>1, <3>2, <3>3, <3>4
  <2>2. QED
    BY <2>1 DEF ForwardInv, Underway
<1>4. QED
  BY <1>1, <1>2, <1>3, PTL DEF ForwardSpec

(***************************************************************************)
(* Recordings.                                                             *)
(***************************************************************************)
Recording == [windows : Seq(BOOLEAN), rest : Nat]

\* What is known of the sound at each stage.
SoundFits ==
  /\ stage \in {"recorded", "saved", "trimmed", "encoded", "sent"} =>
       sound \in Recording /\ modulePrompt = NoClip
  /\ stage = "spoken" =>
       /\ sound \in Seq(Int)
       /\ \E rate \in Nat \ {0} : modulePrompt = Header(2 * Len(sound), rate, 0)

\* What was cut off is what the voice leaves, and the clip is the rest.
ClipFits ==
  /\ trimmed \in Nat
  /\ stage \in {"recorded", "saved", "spoken"} => trimmed = 0
  /\ stage \in {"saved", "trimmed", "encoded", "sent"} =>
       clip = Header(RawSize(sound, 8000) - 2 * trimmed, 8000, 2 * trimmed)
  /\ trimmed > 0 =>
       sound \in Recording /\ trimmed = TrimSamples(sound, 8000) /\ clip.sampleRate = 8000
  /\ stage \in {"encoded", "sent"} => durationMS = wavDurationMS(clip)

\* The copies that are there.
FilesFit ==
  /\ soundFiles \subseteq {"raw", "wav", "trimmed", "opus"}
  /\ stage \in {"recorded", "saved", "spoken"} => soundFiles \subseteq {"raw", "wav"}
  /\ stage = "trimmed" => "opus" \notin soundFiles

SoundInv == SoundFits /\ ClipFits /\ FilesFit /\ RecordingKept /\ PromptWhole

\* The last quiet window, of which there is one when any is quiet.
LEMMA LastQuietIs ==
  ASSUME NEW w \in Seq(BOOLEAN), NEW n \in 0..Len(w)
  PROVE  /\ LastQuiet(w, n) \in 0..n
         /\ LastQuiet(w, n) > 0 => ~w[LastQuiet(w, n)]
         /\ \A k \in (LastQuiet(w, n) + 1)..n : w[k]
<1> DEFINE Quiet == {i \in 1..n : ~w[i]}
<1>1. CASE Quiet = {}
  BY <1>1 DEF LastQuiet
<1>2. CASE Quiet # {}
  <2>1. {n - i : i \in Quiet} \in SUBSET Nat /\ {n - i : i \in Quiet} # {}
    BY <1>2
  <2>2. PICK x \in {n - i : i \in Quiet} : \A y \in {n - i : i \in Quiet} : x <= y
    BY <2>1, Least
  <2>3. PICK i \in Quiet : x = n - i
    OBVIOUS
  <2>4. \A j \in Quiet : j <= i
    <3> SUFFICES ASSUME NEW j \in Quiet PROVE j <= i
      OBVIOUS
    <3>1. n - i <= n - j
      BY <2>2, <2>3
    <3>2. QED
      BY <3>1
  <2>5. /\ LastQuiet(w, n) = CHOOSE k \in Quiet : \A j \in Quiet : j <= k
    BY <1>2 DEF LastQuiet
  <2>6. LastQuiet(w, n) \in Quiet /\ \A j \in Quiet : j <= LastQuiet(w, n)
    BY <2>4, <2>5
  <2>7. QED
    BY <2>6
<1>3. QED
  BY <1>1, <1>2

\* The first count of eight ends the first voice.
LEMMA FirstCount ==
  ASSUME NEW w \in Seq(BOOLEAN), NEW n \in 1..Len(w),
         AboveThreshold(w, n) = SustainedVoiceFrames,
         \A m \in 1..Len(w) : AboveThreshold(w, m) = SustainedVoiceFrames => n <= m
  PROVE  /\ n - 7 \in 1..Len(w) /\ VoiceAt(w, n - 7)
         /\ \A j \in 1..(n - 8) : ~VoiceAt(w, j)
<1>1. LastQuiet(w, n) = n - 8 /\ n - 8 \in 0..n /\ \A k \in (n - 7)..n : w[k]
  BY LastQuietIs DEF AboveThreshold, SustainedVoiceFrames
<1>2. n - 7 \in 1..Len(w) /\ VoiceAt(w, n - 7)
  BY <1>1 DEF VoiceAt, SustainedVoiceFrames
<1>3. ASSUME NEW j \in 1..(n - 8), VoiceAt(w, j) PROVE FALSE
  <2>1. j + 7 \in 1..Len(w) /\ j + 7 < n /\ \A k \in j..(j + 7) : w[k]
    BY <1>1, <1>3 DEF VoiceAt, SustainedVoiceFrames
  <2> DEFINE q == LastQuiet(w, j + 7)
  <2>2. /\ q \in 0..(j + 7) /\ (q > 0 => ~w[q]) /\ \A k \in (q + 1)..(j + 7) : w[k]
    BY <2>1, LastQuietIs
  <2>3. q < j
    BY <2>1, <2>2
  <2> DEFINE r == LastQuiet(w, q + 8)
  <2> HIDE DEF q
  <2>4. q + 8 \in 1..Len(w) /\ q + 8 <= j + 7
    BY <2>1, <2>2, <2>3
  <2>5. /\ r \in 0..(q + 8) /\ (r > 0 => ~w[r]) /\ \A k \in (r + 1)..(q + 8) : w[k]
    BY <2>4, LastQuietIs
  <2>6. r = q
    <3> HIDE DEF r
    <3>1. ~(r < q)
      BY <2>2, <2>5
    <3>2. ~(q < r)
      BY <2>2, <2>4, <2>5
    <3>3. QED
      BY <2>2, <2>5, <3>1, <3>2
  <2>7. AboveThreshold(w, q + 8) = SustainedVoiceFrames
    BY <2>2, <2>6 DEF AboveThreshold, SustainedVoiceFrames
  <2>8. QED
    BY <2>1, <2>2, <2>4, <2>7
<1>4. QED
  BY <1>2, <1>3

\* What is left out ends 200 ms before the first voice, and is not the whole recording.
LEMMA CutBeforeVoice ==
  ASSUME NEW s \in Recording
  PROVE  /\ TrimSamples(s, 8000) \in Nat
         /\ TrimSamples(s, 8000) > 0 =>
              /\ 2 * TrimSamples(s, 8000) < RawSize(s, 8000)
              /\ \E i \in DOMAIN s.windows :
                   /\ VoiceAt(s.windows, i) /\ \A j \in 1..(i - 1) : ~VoiceAt(s.windows, j)
                   /\ TrimSamples(s, 8000) = 160 * (i - 1) - 1600
<1> DEFINE w == s.windows
           Loud == {n \in 1..Len(w) : AboveThreshold(w, n) = SustainedVoiceFrames}
           Cuts == {n \in {v * Window(8000) - (8000 * 200) \div 1000 : v \in Onsets(w)} :
                      n > 0 /\ 2 * n < RawSize(s, 8000)}
<1>1. w \in Seq(BOOLEAN) /\ Len(w) \in Nat /\ DOMAIN w = 1..Len(w) /\ s.rest \in Nat
  BY DEF Recording
<1>2. TrimSamples(s, 8000) = IF Cuts = {} \/ RawSize(s, 8000) < 4 THEN 0 ELSE CHOOSE n \in Cuts : TRUE
  BY DEF TrimSamples
<1>3. Window(8000) = 160 /\ (8000 * 200) \div 1000 = 1600
  BY DEF Window
<1>4. CASE TrimSamples(s, 8000) = 0
  BY <1>4
<1>5. CASE TrimSamples(s, 8000) # 0
  <2>1. TrimSamples(s, 8000) \in Cuts
    BY <1>2, <1>5
  <2>2. PICK v \in Onsets(w) : TrimSamples(s, 8000) = v * 160 - 1600
    BY <1>3, <2>1
  <2>3. Loud # {} /\ v = (CHOOSE n \in Loud : \A m \in Loud : n <= m) - SustainedVoiceFrames
    BY <2>2 DEF Onsets
  <2>4. PICK n \in Loud : (\A m \in Loud : n <= m) /\ v = n - 8
    <3>1. Loud \in SUBSET Nat /\ Loud # {}
      BY <2>3
    <3> HIDE DEF Loud
    <3>2. \E n \in Loud : \A m \in Loud : n <= m
      BY <3>1, Least
    <3>3. QED
      BY <2>3, <3>2 DEF SustainedVoiceFrames
  <2>5. n - 7 \in 1..Len(w) /\ VoiceAt(w, n - 7) /\ \A j \in 1..(n - 8) : ~VoiceAt(w, j)
    BY <1>1, <2>4, FirstCount
  <2>6. TrimSamples(s, 8000) = 160 * ((n - 7) - 1) - 1600 /\ n \in Nat
    BY <1>1, <2>2, <2>4
  <2>7. TrimSamples(s, 8000) \in Nat /\ 2 * TrimSamples(s, 8000) < RawSize(s, 8000)
    BY <2>1, <2>6
  <2>8. n - 7 \in DOMAIN w /\ (n - 7) - 1 = n - 8
    BY <1>1, <2>5, <2>6
  <2> HIDE DEF Loud, Cuts
  <2>9. QED
    BY <2>5, <2>6, <2>7, <2>8
<1>6. QED
  BY <1>4, <1>5

LEMMA SoundStart == SoundInit => SoundInv
<1> SUFFICES ASSUME SoundInit PROVE SoundInv
  OBVIOUS
<1>1. CASE stage = "recorded"
  <2>1. sound \in Recorded /\ modulePrompt = NoClip /\ soundFiles = {"raw"} /\ trimmed = 0
    BY <1>1 DEF SoundInit
  <2>2. sound \in Recording
    BY <2>1, SoundAssumption DEF Recording
  <2>3. QED
    BY <1>1, <2>1, <2>2 DEF SoundInv, SoundFits, ClipFits, FilesFit, RecordingKept,
    PromptWhole
<1>2. CASE stage = "spoken"
  <2>1. /\ sound \in Speech /\ soundFiles = {} /\ trimmed = 0
        /\ \E rate \in SpeechRate : modulePrompt = Header(2 * Len(sound), rate, 0)
    BY <1>2 DEF SoundInit
  <2>2. SoundFits
    BY <1>2, <2>1, SoundAssumption DEF SoundFits
  <2>3. QED
    BY <1>2, <2>1, <2>2 DEF SoundInv, ClipFits, FilesFit, RecordingKept, PromptWhole
<1>3. QED
  BY <1>1, <1>2 DEF SoundInit

\* The length of speech at another rate.
LEMMA SamplesAreCounted ==
  ASSUME NEW n \in Nat, NEW rate \in Nat \ {0}
  PROVE  TargetSamples(n, rate) \in Nat
<1>1. n * TargetRate + rate - 1 \in Nat
  BY DEF TargetRate
<1>2. QED
  BY <1>1 DEF TargetSamples

LEMMA SoundKeeps == ASSUME SoundInv, [SoundNext]_soundVars PROVE SoundInv'
<1>0. SoundFits /\ ClipFits /\ FilesFit /\ RecordingKept /\ PromptWhole
  BY DEF SoundInv
<1>1. CASE FinishFails
  BY <1>0, <1>1 DEF FinishFails, SoundInv, SoundFits, ClipFits, FilesFit, RecordingKept,
    PromptWhole
<1>2. CASE Finish
  <2>1. clip' = Header(RawSize(sound, 8000) - 2 * trimmed', 8000, 2 * trimmed')
    <3>1. RawSize(sound, 8000) \in Nat
      BY <1>0, <1>2 DEF Finish, SoundFits, Recording, RawSize, Window
    <3>2. trimmed' = 0
      BY <1>0, <1>2 DEF Finish, ClipFits
    <3>3. RawSize(sound, 8000) - 2 * trimmed' = RawSize(sound, 8000) /\ 2 * trimmed' = 0
      BY <3>1, <3>2
    <3>4. QED
      BY <1>2, <3>3 DEF Finish
  <2>2. SoundFits' /\ ClipFits'
    BY <1>0, <1>2, <2>1 DEF Finish, SoundFits, ClipFits, RawSize
  <2>3. FilesFit' /\ RecordingKept' /\ PromptWhole'
    BY <1>0, <1>2 DEF Finish, FilesFit, RecordingKept, PromptWhole
  <2>4. QED
    BY <2>2, <2>3 DEF SoundInv
<1>3. CASE Trim
  <2>1. /\ sound \in Recording /\ modulePrompt = NoClip /\ trimmed = 0
        /\ clip = Header(RawSize(sound, 8000) - 2 * 0, 8000, 2 * 0)
    BY <1>0, <1>3 DEF Trim, SoundFits, ClipFits
  <2>2. /\ RawSize(sound, 8000) \in Nat /\ clip.sampleRate = 8000
        /\ clip = Header(RawSize(sound, 8000), 8000, 0)
    <3>1. RawSize(sound, 8000) \in Nat
      BY <2>1 DEF Recording, RawSize, Window
    <3>2. RawSize(sound, 8000) - 2 * 0 = RawSize(sound, 8000) /\ 2 * 0 = 0
      BY <3>1
    <3>3. QED
      BY <2>1, <3>1, <3>2 DEF Header
  <2>3. TrimSamples(sound, 8000) \in Nat
    BY <2>1, CutBeforeVoice
  <2>4. /\ trimmed' \in {0, TrimSamples(sound, 8000)} /\ trimmed' \in Nat
        /\ clip' = Header(RawSize(sound, 8000) - 2 * trimmed', 8000, 2 * trimmed')
        /\ soundFiles' \in {soundFiles, soundFiles \cup {"trimmed"}}
    <3> DEFINE n == TrimSamples(sound, clip.sampleRate)
    <3>0. PICK cuts \in {n > 0, FALSE} :
            /\ trimmed' = IF cuts THEN n ELSE 0
            /\ clip' = IF cuts THEN Header(clip.dataSize - 2 * n, clip.sampleRate, 2 * n) ELSE clip
            /\ soundFiles' = IF cuts THEN soundFiles \union {"trimmed"} ELSE soundFiles
      BY <1>3 DEF Trim
    <3>1. /\ trimmed' = IF cuts THEN TrimSamples(sound, 8000) ELSE 0
          /\ clip' = IF cuts THEN Header(clip.dataSize - 2 * TrimSamples(sound, 8000), 8000,
                                         2 * TrimSamples(sound, 8000)) ELSE clip
          /\ soundFiles' = IF cuts THEN soundFiles \union {"trimmed"} ELSE soundFiles
      BY <2>2, <3>0
    <3> HIDE DEF n
    <3>2. CASE cuts
      BY <2>2, <2>3, <3>1, <3>2 DEF Header
    <3>3. CASE ~cuts
      BY <2>1, <3>1, <3>3
    <3>4. QED
      BY <3>2, <3>3
  <2>5. /\ stage = "saved" /\ stage' = "trimmed"
        /\ UNCHANGED <<sound, durationMS, modulePrompt>>
    BY <1>3 DEF Trim
  <2>6. SoundFits'
    BY <2>1, <2>5 DEF SoundFits
  <2>7. ClipFits'
    <3>1. clip'.sampleRate = 8000
      BY <2>4 DEF Header
    <3>2. QED
      BY <2>1, <2>3, <2>4, <2>5, <3>1 DEF ClipFits, RawSize
  <2>8. FilesFit' /\ RecordingKept' /\ PromptWhole'
    BY <1>0, <2>4, <2>5 DEF FilesFit, RecordingKept, PromptWhole
  <2>9. QED
    BY <2>6, <2>7, <2>8 DEF SoundInv
<1>4. CASE TranscodeFails
  BY <1>0, <1>4 DEF TranscodeFails, SoundInv, SoundFits, ClipFits, FilesFit, RecordingKept,
    PromptWhole
<1>5. CASE Transcode
  <2>1. SoundFits' /\ FilesFit' /\ RecordingKept' /\ PromptWhole'
    BY <1>0, <1>5 DEF Transcode, SoundFits, FilesFit, RecordingKept, PromptWhole
  <2>2. ClipFits'
    BY <1>0, <1>5 DEF Transcode, ClipFits, RawSize, wavDurationMS
  <2>3. QED
    BY <2>1, <2>2 DEF SoundInv
<1>6. CASE Sent
  <2>1. SoundFits' /\ FilesFit' /\ RecordingKept' /\ PromptWhole'
    BY <1>0, <1>6 DEF Sent, SoundFits, FilesFit, RecordingKept, PromptWhole
  <2>2. ClipFits'
    BY <1>0, <1>6 DEF Sent, ClipFits, RawSize, wavDurationMS
  <2>3. QED
    BY <2>1, <2>2 DEF SoundInv
<1>7. CASE NormalizeLeaves
  <2>1. PICK rate \in Nat \ {0} : modulePrompt = Header(2 * Len(sound), rate, 0)
    BY <1>0, <1>7 DEF NormalizeLeaves, SoundFits
  <2>2. /\ modulePrompt # NoClip /\ Len(sound) \in Nat
        /\ modulePrompt.dataSize + modulePrompt.cut = 2 * Len(sound)
    BY <1>0, <1>7, <2>1 DEF NormalizeLeaves, SoundFits, Header, NoClip
  <2>3. PromptWhole'
    BY <1>7, <2>2 DEF NormalizeLeaves, PromptWhole
  <2>4. SoundFits' /\ ClipFits' /\ FilesFit' /\ RecordingKept'
    BY <1>0, <1>7, <2>2 DEF NormalizeLeaves, SoundFits, ClipFits, FilesFit, RecordingKept
  <2>5. QED
    BY <2>3, <2>4 DEF SoundInv
<1>8. CASE Normalize
  <2>1. PICK rate \in Nat \ {0} : modulePrompt = Header(2 * Len(sound), rate, 0)
    BY <1>0, <1>8 DEF Normalize, SoundFits
  <2>2. Len(sound) \in Nat
    BY <1>0, <1>8 DEF Normalize, SoundFits
  <2> DEFINE n == TargetSamples(Len(sound), modulePrompt.sampleRate)
             f == [i \in 1..n |-> Resampled(sound, modulePrompt.sampleRate, i - 1)]
  <2>3. n \in Nat
    BY <2>1, <2>2, SamplesAreCounted DEF Header
  <2>4. /\ sound' = f /\ stage' = "prompt"
        /\ modulePrompt' = Header(2 * (PromptPrerollSamples + n), TargetRate,
                                  -2 * PromptPrerollSamples)
        /\ UNCHANGED <<soundFiles, clip, trimmed, durationMS>> /\ stage = "spoken"
    BY <1>8 DEF Normalize
  <2>5. Len(f) = n
    <3> DEFINE S == {f[i] : i \in 1..n}
    <3>1. f \in [1..n -> S]
      OBVIOUS
    <3>2. QED
      BY <2>3, <3>1
  <2> HIDE DEF n, f
  <2>6. PromptWhole'
    BY <2>3, <2>4, <2>5 DEF PromptWhole, Header, TargetRate, PromptPrerollSamples
  <2>7. modulePrompt' # NoClip
    BY <2>4 DEF Header, NoClip, TargetRate
  <2>8. SoundFits' /\ ClipFits' /\ FilesFit' /\ RecordingKept'
    BY <1>0, <2>4, <2>7 DEF SoundFits, ClipFits, FilesFit, RecordingKept
  <2>9. QED
    BY <2>6, <2>8 DEF SoundInv
<1>9. CASE UNCHANGED soundVars
  BY <1>0, <1>9 DEF soundVars, SoundInv, SoundFits, ClipFits, FilesFit, RecordingKept,
    PromptWhole,
    RawSize, wavDurationMS
<1>10. QED
  BY <1>1, <1>2, <1>3, <1>4, <1>5, <1>6, <1>7, <1>8, <1>9 DEF SoundNext

\* For any recordings and any speech at any rate: only silence is cut off, up to 200 ms
\* before the first voice, the header and the duration are those of what is left, and what
\* was recorded is kept.
THEOREM RecordingsAlwaysWhole == SoundSpec => []RecordingsWhole
<1>1. SoundInv => RecordingsWhole
  <2> SUFFICES ASSUME SoundInv PROVE RecordingsWhole
    OBVIOUS
  <2>0. SoundFits /\ ClipFits /\ FilesFit /\ RecordingKept /\ PromptWhole
    BY DEF SoundInv
  <2>1. CutsSilenceOnly
    <3> SUFFICES ASSUME trimmed > 0
                 PROVE  \E i \in DOMAIN sound.windows :
                          /\ VoiceAt(sound.windows, i)
                          /\ \A j \in 1..(i - 1) : ~VoiceAt(sound.windows, j)
                          /\ (trimmed * 1000) \div clip.sampleRate + 200 = (i - 1) * 20
      BY DEF CutsSilenceOnly
    <3>1. sound \in Recording /\ trimmed = TrimSamples(sound, 8000) /\ clip.sampleRate = 8000
      BY <2>0 DEF ClipFits
    <3>2. PICK i \in DOMAIN sound.windows :
            /\ VoiceAt(sound.windows, i) /\ \A j \in 1..(i - 1) : ~VoiceAt(sound.windows, j)
            /\ trimmed = 160 * (i - 1) - 1600
      BY <3>1, CutBeforeVoice
    <3>3. i \in Nat
      BY <3>1 DEF Recording
    <3>4. (trimmed * 1000) \div 8000 + 200 = (i - 1) * 20
      BY <3>2, <3>3
    <3>5. QED
      BY <3>1, <3>2, <3>4
  <2>2. DurationTrue
    <3> SUFFICES ASSUME stage \in {"saved", "trimmed", "encoded", "sent"}
                 PROVE  /\ clip.dataSize + clip.cut = RawSize(sound, 8000)
                        /\ stage \in {"encoded", "sent"} =>
                             durationMS + (trimmed * 1000) \div clip.sampleRate
                               \in {(RawSize(sound, 8000) * 1000) \div 16000 - d : d \in {0, 1}}
      BY DEF DurationTrue
    <3>1. /\ sound \in Recording /\ trimmed \in Nat
          /\ clip = Header(RawSize(sound, 8000) - 2 * trimmed, 8000, 2 * trimmed)
          /\ stage \in {"encoded", "sent"} => durationMS = wavDurationMS(clip)
      BY <2>0 DEF SoundFits, ClipFits
    <3>2. RawSize(sound, 8000) \in Nat
      BY <3>1 DEF Recording, RawSize, Window
    <3>3. /\ clip.dataSize = RawSize(sound, 8000) - 2 * trimmed /\ clip.sampleRate = 8000
          /\ clip.cut = 2 * trimmed
      BY <3>1 DEF Header
    <3> DEFINE S == RawSize(sound, 8000)
    <3>4. \E d \in {0, 1} : ((S - 2 * trimmed) * 1000) \div 16000 + (trimmed * 1000) \div 8000
                              = (S * 1000) \div 16000 - d
      <4> HIDE DEF S
      <4>0. S \in Int /\ trimmed \in Int
        BY <3>1, <3>2 DEF S
      <4>1. QED
        BY <4>0
    <3>5. wavDurationMS(clip) = ((S - 2 * trimmed) * 1000) \div 16000
      BY <3>3 DEF wavDurationMS
    <3>6. clip.dataSize + clip.cut = S
      BY <3>1, <3>2, <3>3
    <3> HIDE DEF S
    <3>7. stage \in {"encoded", "sent"} =>
            \E d \in {0, 1} : durationMS + (trimmed * 1000) \div clip.sampleRate
                                = (S * 1000) \div 16000 - d
      BY <3>1, <3>3, <3>4, <3>5
    <3>8. QED
      BY <3>6, <3>7 DEF S
  <2>3. QED
    BY <2>0, <2>1, <2>2 DEF RecordingsWhole
<1>2. QED
  BY <1>1, SoundStart, SoundKeeps, PTL DEF SoundSpec

\* What is marked as forwarded arrived, and what a recording became is whole: together
\* what MCDesktop checks of what is passed on (automation.go).
THEOREM ForwardedAlwaysArrived == ForwardSpec /\ SoundSpec => []ForwardedArrived
<1>1. MarksTrue /\ RecordingsWhole => ForwardedArrived
  BY DEF ForwardedArrived
<1>2. QED
  BY <1>1, MarksAlwaysTrue, RecordingsAlwaysWhole, PTL
============================================================================
