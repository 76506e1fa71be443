-------------------------- MODULE MCESIMOperations --------------------------
(***************************************************************************)
(* The modules about what is done to the card, by the eSIM manager over    *)
(* QMI and over AT, and about what is read from a SIM, checked beside each *)
(* other: an initial state picks the one that runs, and the others keep    *)
(* their initial state.  The modules with proofs are extended, the others  *)
(* instantiated.                                                           *)
(***************************************************************************)
EXTENDS ESIMTransport, ATCard, ESIMSwitch, ESIMNotifications, SIMFiles, TLC

CONSTANTS c1, c2, o1, o2

VARIABLES part, name, scheme, padding, tree

recordVars == <<name, scheme, padding, tree>>

MCDirectory == <<"usim", "isim">>

\* An application's record whose AID and label come in either length form, with the AID
\* before or behind; the last one is cut off.
Trees ==
  {<<97, f, <<<<79, g, <<160, 0, 1>>>>, <<80, "short", <<85, 83>>>>, <<79, "short", v>>>>>> :
     f, g \in {"short", "long"}, v \in {<<160, 5>>, <<79, 1, 79>>, <<255>>}}

F == INSTANCE SIMRecords
       WITH Septet <- {65, 127}, Unit <- {65, 19968, 20013}, MaxName <- 8, Records <- 3,
            Tree <- Trees

Init ==
  /\ part \in {"transport", "switch", "notifications", "at", "files", "records"}
  /\ TransportInit /\ (part # "transport" => mode = "QMI" /\ arbiter)
  /\ SwitchInit /\ (part # "switch" => kind = [o \in {o1, o2} |-> "switch"])
  /\ NotesInit /\ CardInit
  /\ FileInit
  /\ part # "files" =>
       way = "at" /\ ef = "pnn" /\ efRecords = [r \in 1..MaxRecord |-> "unreadable"]
  /\ IF part = "records" THEN F!Init
     ELSE name = <<65>> /\ scheme = "gsm7" /\ padding = <<>> /\ tree = <<>>

TransportPart ==
  /\ part = "transport" /\ TransportNext
  /\ UNCHANGED <<part, switchVars, noteVars, cardVars, fileVars, recordVars>>
SwitchPart ==
  /\ part = "switch" /\ SwitchNext
  /\ UNCHANGED <<part, transportVars, noteVars, cardVars, fileVars, recordVars>>
NotificationsPart ==
  /\ part = "notifications" /\ NotesNext
  /\ UNCHANGED <<part, transportVars, switchVars, cardVars, fileVars, recordVars>>
ATPart ==
  /\ part = "at" /\ CardNext
  /\ UNCHANGED <<part, transportVars, switchVars, noteVars, fileVars, recordVars>>
FilePart ==
  /\ part = "files" /\ FileNext
  /\ UNCHANGED <<part, transportVars, switchVars, noteVars, cardVars, recordVars>>

Next == TransportPart \/ SwitchPart \/ NotificationsPart \/ ATPart \/ FilePart

Spec ==
  Init /\ [][Next]_<<part, transportVars, switchVars, noteVars, cardVars, fileVars, recordVars>>

Clients == Permutations({c1, c2}) \cup Permutations({o1, o2})

\* The names and applications of a card are read as they are written on it: SIMRecords.
CardRead == (part = "records") => F!CardRead
=============================================================================
