------------------------------- MODULE ATCard -------------------------------
(***************************************************************************)
(* The card behind the AT manager: authentications, which look their       *)
(* application up in EF_DIR on the basic channel and open a logical        *)
(* channel for it, and eSIM sessions on logical channels of their own.     *)
(* Every command takes a transport lease; nothing is held between two      *)
(* commands, and reading files with AT+CRSM takes no lease at all.         *)
(***************************************************************************)
EXTENDS Naturals, Sequences

CONSTANTS
  Auth, ESIM,          \* the users of the card
  MaxLogicalChannel,   \* the logical channels a card has
  Directory,           \* what the records of EF_DIR say, in their order
  MaxFailures,         \* bound: how many commands or waits fail
  NoUser

\* EF_DIR has a record.
ASSUME CardAssumption ==
  /\ Auth \cap ESIM = {} /\ NoUser \notin Auth \cup ESIM \cup {"failed"}
  /\ MaxLogicalChannel \in Nat \ {0}
  /\ Directory \in Seq(STRING) /\ Directory # <<>>

VARIABLES
  lease,        \* who holds the transport lease
  openFor,      \* per channel: for whom it is open
  selected,     \* the file that is selected on the basic channel
  apduSessions,
  pc,           \* per user: the command in hand, its number, and whether it has the lease
  channel,      \* per user: the channel it opened
  aids,         \* per user: the applications found so far
  resolved,     \* per authentication: what ResolveSIMAuthAID returned
  reached,      \* per user: for whom the channel was open that its last command went to
  quiet,        \* per user: whether nobody else used the basic channel
  cleared,      \* whether somebody's open channel was closed by another
  failures

cardVars == <<lease, openFor, selected, apduSessions, pc, channel, aids, resolved, reached,
              quiet, cleared, failures>>

User == Auth \cup ESIM
LogicalChannel == 1..MaxLogicalChannel
Records == DOMAIN Directory
Idle == [do |-> "idle", n |-> 0, leased |-> FALSE]
Do(u, what, n) == pc' = [pc EXCEPT ![u] = [do |-> what, n |-> n, leased |-> FALSE]]

CardInit ==
  /\ lease = NoUser /\ openFor = [ch \in LogicalChannel |-> NoUser] /\ selected = "none"
  /\ apduSessions = [ch \in LogicalChannel |-> NoUser]
  /\ pc = [u \in User |-> Idle] /\ channel = [u \in User |-> 0]
  /\ aids = [u \in User |-> {}] /\ resolved = [u \in User |-> NoUser]
  /\ reached = [u \in User |-> NoUser] /\ quiet = [u \in User |-> FALSE]
  /\ cleared = FALSE /\ failures = 0

Fault == failures < MaxFailures /\ failures' = failures + 1
Disturbs(u) == quiet' = [v \in User |-> quiet[v] /\ v = u]

(***************************************************************************)
(* What a user does next.                                                  *)
(***************************************************************************)

\* ResolveSIMAuthAID: the master file, EF_DIR, its records.
BeginResolve(u) ==
  /\ u \in Auth /\ pc[u] = Idle /\ channel[u] = 0 /\ resolved[u] = NoUser
  /\ Do(u, "mf", 0)
  /\ aids' = [aids EXCEPT ![u] = {}]
  /\ quiet' = [v \in User |->
                 v = u /\ \A w \in User \ {u} : pc[w].do \notin {"mf", "dir", "record"}]
  /\ UNCHANGED <<lease, openFor, selected, apduSessions, channel, resolved, reached,
                 cleared, failures>>

\* The eSIM manager clears all channels before it looks for its applications.
BeginClear(u) ==
  /\ u \in ESIM /\ pc[u] = Idle /\ channel[u] = 0
  /\ Do(u, "clear", 1)
  /\ apduSessions' = [apduSessions EXCEPT ![1] = NoUser]
  /\ UNCHANGED <<lease, openFor, selected, channel, aids, resolved, reached, quiet,
                 cleared, failures>>

BeginOpen(u) ==
  /\ pc[u] = Idle /\ channel[u] = 0
  /\ u \in Auth => resolved[u] \notin {NoUser, "failed"}
  /\ Do(u, "open", 0)
  /\ UNCHANGED <<lease, openFor, selected, apduSessions, channel, aids, resolved, reached,
                 quiet, cleared, failures>>

BeginTransmit(u) ==
  /\ pc[u] = Idle /\ channel[u] # 0
  /\ Do(u, "transmit", channel[u])
  /\ UNCHANGED <<lease, openFor, selected, apduSessions, channel, aids, resolved, reached,
                 quiet, cleared, failures>>

\* closeLogicalChannel takes the session off the registry before it waits for a lease.
BeginClose(u) ==
  /\ pc[u] = Idle /\ channel[u] # 0
  /\ Do(u, "close", channel[u])
  /\ apduSessions' = [apduSessions EXCEPT ![channel[u]] = NoUser]
  /\ channel' = [channel EXCEPT ![u] = 0]
  /\ UNCHANGED <<lease, openFor, selected, aids, resolved, reached, quiet, cleared,
                 failures>>

(***************************************************************************)
(* The lease of a command.                                                 *)
(***************************************************************************)
AcquireLease(u) ==
  /\ pc[u] # Idle /\ ~pc[u].leased /\ lease = NoUser
  /\ lease' = u /\ pc' = [pc EXCEPT ![u].leased = TRUE]
  /\ UNCHANGED <<openFor, selected, apduSessions, channel, aids, resolved, reached, quiet,
                 cleared, failures>>

MatchingAID(u) == IF "usim" \in aids'[u] THEN "usim" ELSE "failed"

\* What a user goes on with when it is through with a record of EF_DIR.
NextRecord(u, ends) ==
  IF ends \/ pc[u].n = Len(Directory)
  THEN Do(u, "idle", 0) /\ resolved' = [resolved EXCEPT ![u] = MatchingAID(u)]
  ELSE Do(u, "record", pc[u].n + 1) /\ UNCHANGED resolved
NextChannel(u) ==
  IF pc[u].n = MaxLogicalChannel THEN Do(u, "idle", 0) /\ UNCHANGED apduSessions
  ELSE /\ Do(u, "clear", pc[u].n + 1)
       /\ apduSessions' = [apduSessions EXCEPT ![pc[u].n + 1] = NoUser]

\* A wait that ends, or a command without an answer: of the directory a record is
\* passed over, and a channel that is not closed stays open and nobody knows it.
Fails(u) ==
  /\ CASE pc[u].do = "record" -> UNCHANGED <<aids, apduSessions>> /\ NextRecord(u, FALSE)
       [] pc[u].do = "clear" -> UNCHANGED <<aids, resolved>> /\ NextChannel(u)
       [] pc[u].do \in {"mf", "dir"} ->
            /\ resolved' = [resolved EXCEPT ![u] = "failed"]
            /\ Do(u, "idle", 0) /\ UNCHANGED <<aids, apduSessions>>
       [] OTHER -> Do(u, "idle", 0) /\ UNCHANGED <<aids, resolved, apduSessions>>
  /\ quiet' = [quiet EXCEPT ![u] = FALSE]

LeaseTimeout(u) ==
  /\ pc[u] # Idle /\ ~pc[u].leased /\ lease # NoUser
  /\ Fault /\ Fails(u)
  /\ UNCHANGED <<lease, openFor, selected, channel, reached, cleared>>

(***************************************************************************)
(* The commands.                                                           *)
(***************************************************************************)
Runs(u, what) == pc[u].do = what /\ pc[u].leased /\ lease' = NoUser

\* A command without an answer, which the card may have executed.
CommandFails(u) ==
  /\ pc[u].leased /\ lease' = NoUser
  /\ Fault /\ Fails(u)
  /\ \/ pc[u].do \in {"close", "clear"} /\ openFor' = [openFor EXCEPT ![pc[u].n] = NoUser]
        /\ cleared' = (cleared \/ openFor[pc[u].n] \notin {NoUser, u})
     \/ pc[u].do = "open" /\ UNCHANGED cleared
        /\ \E ch \in LogicalChannel :
             openFor[ch] = NoUser /\ openFor' = [openFor EXCEPT ![ch] = u]
     \/ UNCHANGED <<openFor, cleared>>
  /\ UNCHANGED <<selected, channel, reached>>

SelectFile(u) ==
  /\ \/ Runs(u, "mf") /\ selected' = "mf" /\ Do(u, "dir", 0)
     \/ Runs(u, "dir") /\ selected' = "dir" /\ Do(u, "record", 1)
  /\ Disturbs(u)
  /\ UNCHANGED <<openFor, apduSessions, channel, aids, resolved, reached, cleared,
                 failures>>

\* Mutant: what was found before is lost.
AddsLast(found, a) == {a}
AppendUniqueAIDs(found, a) == found \cup {a}

\* ReadDirectoryAIDs: a record of another file is an error, the end, or says nothing.
ReadRecord(u) ==
  /\ Runs(u, "record")
  /\ IF selected = "dir"
     THEN /\ aids' = [aids EXCEPT ![u] = AppendUniqueAIDs(@, Directory[pc[u].n])]
          /\ NextRecord(u, FALSE)
     ELSE UNCHANGED aids /\ \E ends \in BOOLEAN : NextRecord(u, ends)
  /\ UNCHANGED <<openFor, selected, apduSessions, channel, reached, quiet, cleared,
                 failures>>

\* AT+CRSM reads a file by its number, without a lease.
ReadFile ==
  /\ selected' = "other"
  /\ quiet' = [u \in User |-> FALSE]
  /\ UNCHANGED <<lease, openFor, apduSessions, pc, channel, aids, resolved, reached,
                 cleared, failures>>

openLogicalChannel(u) ==
  /\ Runs(u, "open")
  /\ \E ch \in LogicalChannel :
       /\ openFor[ch] = NoUser
       /\ openFor' = [openFor EXCEPT ![ch] = u]
       /\ apduSessions' = [apduSessions EXCEPT ![ch] = u]
       /\ channel' = [channel EXCEPT ![u] = ch]
  /\ Do(u, "idle", 0)
  /\ UNCHANGED <<selected, aids, resolved, reached, quiet, cleared, failures>>

TransmitAPDU(u) ==
  /\ Runs(u, "transmit")
  /\ reached' = [reached EXCEPT ![u] = openFor[pc[u].n]]
  /\ Do(u, "idle", 0)
  /\ UNCHANGED <<openFor, selected, apduSessions, channel, aids, resolved, quiet, cleared,
                 failures>>

\* AT+CCHC, of closeLogicalChannel and of ClearLogicalChannels.
Closes(u) ==
  /\ openFor' = [openFor EXCEPT ![pc[u].n] = NoUser]
  /\ cleared' = (cleared \/ openFor[pc[u].n] \notin {NoUser, u})
closeLogicalChannel(u) ==
  /\ Runs(u, "close") /\ Closes(u)
  /\ Do(u, "idle", 0)
  /\ resolved' = [resolved EXCEPT ![u] = NoUser]
  /\ UNCHANGED <<selected, apduSessions, channel, aids, reached, quiet, failures>>
ClearLogicalChannel(u) ==
  /\ Runs(u, "clear") /\ Closes(u)
  /\ NextChannel(u)
  /\ UNCHANGED <<selected, channel, aids, resolved, reached, quiet, failures>>

CardNext ==
  \/ ReadFile
  \/ \E u \in User :
       \/ BeginResolve(u) \/ BeginClear(u) \/ BeginOpen(u) \/ BeginTransmit(u) \/ BeginClose(u)
       \/ AcquireLease(u) \/ LeaseTimeout(u) \/ CommandFails(u)
       \/ SelectFile(u) \/ ReadRecord(u)
       \/ openLogicalChannel(u) \/ TransmitAPDU(u)
       \/ closeLogicalChannel(u) \/ ClearLogicalChannel(u)

CardSpec == CardInit /\ [][CardNext]_cardVars

-----------------------------------------------------------------------------
\* An authentication that nobody disturbs on the basic channel finds its application.
Resolves ==
  \A u \in Auth :
    resolved[u] = "failed" => ~quiet[u] \/ \A r \in Records : Directory[r] # "usim"

\* A command goes to the channel that its user opened, or to none, unless a channel
\* was cleared under somebody.
OwnChannel == \A u \in User : reached[u] \in {NoUser, u} \/ cleared

\* Until something fails or is cleared, the registry names the channels that are open,
\* but for one that is about to be closed.
RegistryTrue ==
  failures = 0 /\ ~cleared =>
    \A ch \in LogicalChannel :
      /\ apduSessions[ch] # NoUser => openFor[ch] = apduSessions[ch]
      /\ openFor[ch] # NoUser /\ apduSessions[ch] = NoUser =>
           \E u \in User : pc[u].do \in {"close", "clear"} /\ pc[u].n = ch

\* The sessions with the card are kept apart: an authentication finds its application, an
\* APDU goes to the channel that was opened for it, and the registry says what is open.
SessionsApart == Resolves /\ OwnChannel /\ RegistryTrue
=============================================================================
