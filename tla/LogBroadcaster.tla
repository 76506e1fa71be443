--------------------------- MODULE LogBroadcaster ---------------------------
(***************************************************************************)
(* The lines of the log, as they are sent to those who follow it: each has *)
(* a buffered channel, Broadcast puts a line into the ones of all clients  *)
(* under the read lock and passes over a full one, and Unsubscribe takes   *)
(* the channel out under the write lock and closes it afterwards.          *)
(***************************************************************************)
EXTENDS Naturals, SequencesExt

CONSTANTS
  Client, Logger,   \* those who follow the log, those who write to it
  maxSize,          \* the buffer of a client
  MaxLines          \* bound: lines per writer

VARIABLES
  clients,    \* the channels of the broadcaster
  channel,    \* per client: "none", the lines in it, and whether it is closed
  leaving,    \* clients between the removal and the close
  writing,    \* per logger: 0, or the line it is about, and the clients to go
  lines,      \* per logger: lines so far
  taken,      \* ghost: the lines a client has received
  entitled,   \* ghost: per client, the lines that began and ended while it was subscribed
  excused,    \* ghost: per client, those it had no room for
  panicked    \* ghost: a send on a closed channel, or a second close

logVars == <<clients, channel, leaving, writing, lines, taken, entitled, excused, panicked>>

NotWriting == [line |-> 0, left |-> {}, locked |-> FALSE, for |-> {}]

LogInit ==
  /\ clients = {} /\ leaving = {} /\ panicked = FALSE
  /\ channel = [c \in Client |-> [made |-> FALSE, buffer |-> <<>>, closed |-> FALSE]]
  /\ writing = [l \in Logger |-> NotWriting] /\ lines = [l \in Logger |-> 0]
  /\ taken = [c \in Client |-> <<>>]
  /\ entitled = [c \in Client |-> {}] /\ excused = [c \in Client |-> {}]

Reading == \E l \in Logger : writing[l].locked

Subscribe(c) ==
  /\ ~channel[c].made /\ ~Reading
  /\ channel' = [channel EXCEPT ![c].made = TRUE]
  /\ clients' = clients \cup {c}
  /\ UNCHANGED <<leaving, writing, lines, taken, entitled, excused, panicked>>

\* Mutant: the channel is closed while it is still among the clients.
CloseFirst(c) ==
  /\ c \in clients /\ ~channel[c].closed
  /\ channel' = [channel EXCEPT ![c].closed = TRUE] /\ leaving' = leaving \cup {c}
  /\ UNCHANGED <<clients, writing, lines, taken, entitled, excused, panicked>>

Unsubscribe(c) ==
  /\ c \in clients /\ ~Reading
  /\ clients' = clients \ {c} /\ leaving' = leaving \cup {c}
  /\ UNCHANGED <<channel, writing, lines, taken, entitled, excused, panicked>>
Close(c) ==
  /\ c \in leaving /\ leaving' = leaving \ {c}
  /\ panicked' = (panicked \/ channel[c].closed)
  /\ channel' = [channel EXCEPT ![c].closed = TRUE]
  /\ UNCHANGED <<clients, writing, lines, taken, entitled, excused>>

\* WriteLine: nothing is formatted when nobody follows the log.
WriteLine(l) ==
  /\ writing[l] = NotWriting /\ lines[l] < MaxLines
  /\ lines' = [lines EXCEPT ![l] = @ + 1]
  /\ writing' = IF clients = {} THEN writing
                ELSE [writing EXCEPT ![l].line = lines'[l], ![l].for = clients]
  /\ UNCHANGED <<clients, channel, leaving, taken, entitled, excused, panicked>>

RLock(l) ==
  /\ writing[l].line # 0 /\ ~writing[l].locked
  /\ writing' = [writing EXCEPT ![l].locked = TRUE, ![l].left = clients]
  /\ UNCHANGED <<clients, channel, leaving, lines, taken, entitled, excused, panicked>>

Broadcast(l, c) ==
  /\ writing[l].locked /\ c \in writing[l].left
  /\ writing' = [writing EXCEPT ![l].left = @ \ {c}]
  /\ panicked' = (panicked \/ channel[c].closed)
  /\ LET full == Len(channel[c].buffer) >= maxSize
         line == <<l, writing[l].line>>
     IN /\ channel' = IF full THEN channel ELSE [channel EXCEPT ![c].buffer = Append(@, line)]
        /\ excused' = IF full THEN [excused EXCEPT ![c] = @ \cup {line}] ELSE excused
  /\ UNCHANGED <<clients, leaving, lines, taken, entitled>>

RUnlock(l) ==
  /\ writing[l].locked /\ writing[l].left = {}
  /\ entitled' = [c \in Client |->
       IF c \in clients \cap writing[l].for THEN entitled[c] \cup {<<l, writing[l].line>>}
       ELSE entitled[c]]
  /\ writing' = [writing EXCEPT ![l] = NotWriting]
  /\ UNCHANGED <<clients, channel, leaving, lines, taken, excused, panicked>>

\* The buffer of a closed channel can still be emptied.
Receive(c) ==
  /\ channel[c].buffer # <<>>
  /\ taken' = [taken EXCEPT ![c] = Append(@, Head(channel[c].buffer))]
  /\ channel' = [channel EXCEPT ![c].buffer = Tail(@)]
  /\ UNCHANGED <<clients, leaving, writing, lines, entitled, excused, panicked>>

LogNext ==
  \/ \E c \in Client : Subscribe(c) \/ Unsubscribe(c) \/ Close(c) \/ Receive(c)
  \/ \E l \in Logger : WriteLine(l) \/ RLock(l) \/ RUnlock(l) \/ \E c \in Client : Broadcast(l, c)

LogSpec == LogInit /\ [][LogNext]_logVars

-----------------------------------------------------------------------------
Followed(c) == taken[c] \o channel[c].buffer

\* Nothing is sent to a channel that is closed; a client has every line that was
\* written while it followed the log and found room, once, and the lines of one
\* writer in their order.
LogFollowed ==
  /\ ~panicked
  /\ \A c \in Client :
       /\ entitled[c] \ excused[c] \subseteq ToSet(Followed(c))
       /\ \A i, j \in DOMAIN Followed(c) :
            i < j /\ Followed(c)[i][1] = Followed(c)[j][1] =>
              Followed(c)[i][2] < Followed(c)[j][2]
=============================================================================
