------------------------------ MODULE Backends ------------------------------
(***************************************************************************)
(* The three backends of a modem (AT, QMI, MBIM) as one provider: the      *)
(* choice of an operator, the operating mode, and the stored messages that *)
(* are read and deleted by index.  Callers share the modem and no lock;    *)
(* one action is one command to the modem.                                 *)
(***************************************************************************)
EXTENDS Integers, FiniteSets, Sequences

CONSTANTS
  User,              \* the callers of the provider
  Requested,         \* [mode, plmn, rat, pcs]: what SetOperatorSelection is asked for
  Index,             \* the places of a storage
  MaxMessages,       \* bound: how many messages arrive
  MaxFailedCommands, \* bound: how many commands fail
  Nothing

\* What can be asked for: a network of its own choice, or one with a number of two digits
\* that is written with two.
ASSUME BackendAssumption ==
  /\ \A r \in Requested :
       \/ r = [mode |-> "automatic"]
       \/ /\ r \in [mode : {"manual"}, plmn : [mcc : Nat, mnc : Nat, digits : Nat],
                   rat : STRING, pcs : {"unset", "yes", "no"}]
          /\ r.plmn.digits = 2 => r.plmn.mnc <= 99
  /\ MaxMessages \in Nat /\ MaxFailedCommands \in Nat
  /\ Nothing \notin Nat /\ Nothing \notin [message : Nat]

VARIABLES
  backend, service,    \* the backend, and the one of its services that is used
  sel,            \* the modem: the selection in force
  format,         \* the modem: how AT+COPS? writes an operator
  radio,          \* the modem: its operating mode
  setBy, wanted,  \* whose selection is in force, and what it asked for
  caller, req,    \* per caller: the next command, and the request it belongs to
  seen,           \* per caller: the selection it read last, and the one it had set
  box, arrived,   \* the messages in the storages
  got, deleted,   \* per caller: the message it read, and what it deleted in its place
  before,         \* per caller: what was stored when DeleteAllSMS began
  mode,           \* per caller: the operating modes it set and read
  failedCommands

selVars == <<sel, format, setBy, wanted, seen>>
boxVars == <<box, arrived, got, deleted, before>>
backendVars == <<backend, service, radio, caller, req, mode, failedCommands, selVars, boxVars>>

Technologies == {"gsm", "lte"}

(***************************************************************************)
(* A selection.                                                            *)
(***************************************************************************)
Automatic == [mode |-> "automatic"]

\* Mutant: the digit is taken from the value of the code.
pcsOfValue(r) == r.plmn.mnc > 99

\* NormalizePLMNSelection and NormalizeManualOperatorSelection: a code of six digits
\* has the third digit in it, unless the request says otherwise.
includesPCS(r) == IF r.pcs = "unset" THEN r.plmn.digits = 3 ELSE r.pcs = "yes"
NormalizeSetOperatorSelectionRequest(r) ==
  IF r.mode = "automatic" THEN {Automatic}
  ELSE IF r.plmn.digits \notin {2, 3} THEN {}
  ELSE {[mode |-> "manual", plmn |-> r.plmn, pcs |-> includesPCS(r), rat |-> r.rat, said |-> r.pcs]}

\* What the modem is told: over AT a technology nobody knows is GSM, over QMI it is any,
\* and over MBIM there is none.
RATFor(rat) ==
  IF backend = "mbim" \/ rat = "" THEN "any"
  ELSE IF rat \in Technologies THEN rat
  ELSE IF backend = "at" THEN "gsm" ELSE "any"
InForce(s) ==
  IF s.mode = "automatic" THEN Automatic
  ELSE [mode |-> "manual", rat |-> RATFor(s.rat),
        plmn |-> IF backend = "qmi" THEN [mcc |-> s.plmn.mcc, mnc |-> s.plmn.mnc, pcs |-> s.pcs]
                 ELSE s.plmn]

\* GetOperatorSelection: QMI writes the number with two digits or three, AT takes
\* whatever is written, a name too.
Shown ==
  IF sel.mode = "automatic" THEN Automatic
  ELSE [mode |-> "manual",
        plmn |-> CASE backend = "qmi" ->
                        [mcc |-> sel.plmn.mcc, mnc |-> sel.plmn.mnc,
                         digits |-> IF sel.plmn.pcs \/ sel.plmn.mnc > 99 THEN 3 ELSE 2]
                   [] backend = "at" /\ format = "name" -> "its name"
                   [] OTHER -> sel.plmn]

BackendInit ==
  /\ backend \in {"at", "qmi", "mbim"} /\ service \in {"selection", "mode", "messages"}
  /\ sel = Automatic /\ format = "name" /\ radio = "online"
  /\ setBy = Nothing /\ wanted = Nothing
  /\ caller = [c \in User |-> "idle"] /\ req = [c \in User |-> Nothing]
  /\ seen = [c \in User |-> Nothing]
  /\ box = [s \in {"nv", "sim"} |-> [i \in Index |-> Nothing]] /\ arrived = 0
  /\ got = [c \in User |-> Nothing] /\ deleted = [c \in User |-> Nothing]
  /\ before = [c \in User |-> {}]
  /\ mode = [c \in User |-> Nothing]
  /\ failedCommands = 0

Continue(c, l) == caller' = [caller EXCEPT ![c] = l]
Fails == failedCommands < MaxFailedCommands /\ failedCommands' = failedCommands + 1

\* SetOperatorSelection; over QMI the automatic mode is a preference first.
BeginSet(c) ==
  /\ caller[c] = "idle"
  /\ \E r \in Requested : \E s \in NormalizeSetOperatorSelectionRequest(r) :
       /\ req' = [req EXCEPT ![c] = s]
       /\ Continue(c, IF backend = "qmi" /\ s.mode = "automatic" THEN "preference" ELSE "register")
  /\ UNCHANGED <<backend, service, radio, mode, failedCommands, selVars, boxVars>>

Preference(c) ==
  /\ caller[c] = "preference"
  /\ sel' = Automatic /\ setBy' = c /\ wanted' = Nothing
  /\ Continue(c, "register")
  /\ UNCHANGED <<backend, service, radio, req, mode, failedCommands, format, seen, boxVars>>

RegisterWith(c) ==
  /\ caller[c] = "register"
  /\ sel' = InForce(req[c]) /\ setBy' = c /\ wanted' = req[c]
  /\ format' = IF backend = "at" /\ req[c].mode = "manual" THEN "digits" ELSE format
  /\ Continue(c, IF (backend = "at" /\ req[c].mode = "manual") \/
                (backend = "qmi" /\ req[c].mode = "automatic")
             THEN "get" ELSE "idle")
  /\ UNCHANGED <<backend, service, radio, req, mode, failedCommands, seen, boxVars>>

\* A command that fails, or whose answer is lost after it took effect.
SetFails(c) ==
  /\ caller[c] \in {"preference", "register"}
  /\ Fails
  /\ \/ UNCHANGED <<sel, setBy, wanted>>
     \/ sel' = InForce(req[c]) /\ setBy' = c /\ wanted' = Nothing
  /\ Continue(c, "idle")
  /\ UNCHANGED <<backend, service, radio, req, mode, format, seen, boxVars>>

Get(c) ==
  /\ caller[c] \in {"idle", "get"}
  /\ seen' = [seen EXCEPT ![c] =
       [shown |-> Shown, set |-> IF setBy = c THEN wanted ELSE Nothing, format |-> format]]
  /\ Continue(c, "idle")
  /\ UNCHANGED <<backend, service, radio, req, mode, failedCommands, sel, format, setBy, wanted, boxVars>>

\* QueryOperator asks for numbers (AT+COPS=3,2); a modem that restarts forgets that.
QueryOperator ==
  /\ backend = "at" /\ format' = "digits"
  /\ UNCHANGED <<backend, service, radio, caller, req, mode, failedCommands, sel, setBy, wanted, seen, boxVars>>
ModemRestarts ==
  /\ backend = "at" /\ Fails /\ format' = "name"
  /\ UNCHANGED <<backend, service, radio, caller, req, mode, sel, setBy, wanted, seen, boxVars>>

(***************************************************************************)
(* The operating mode.                                                     *)
(***************************************************************************)
qmiOperatingModeToBackend(m) == m
SetOperatingMode(c) ==
  /\ caller[c] = "idle"
  /\ \E m \in {"online", "lowpower", "rfoff"} :
       /\ radio' = IF backend # "at" /\ m = "rfoff" THEN "lowpower" ELSE m
       /\ mode' = [d \in User |-> IF d = c THEN [set |-> m, read |-> Nothing] ELSE Nothing]
  /\ UNCHANGED <<backend, service, caller, req, failedCommands, selVars, boxVars>>

GetOperatingMode(c) ==
  /\ caller[c] = "idle" /\ mode[c] # Nothing
  /\ mode' = [mode EXCEPT ![c].read = qmiOperatingModeToBackend(radio)]
  /\ UNCHANGED <<backend, service, radio, caller, req, failedCommands, selVars, boxVars>>

(***************************************************************************)
(* The messages.                                                           *)
(***************************************************************************)
MessageArrives ==
  /\ arrived < MaxMessages
  /\ \E s \in IF backend = "qmi" THEN {"nv", "sim"} ELSE {"nv"} : \E i \in Index :
       box[s][i] = Nothing /\ box' = [box EXCEPT ![s][i] = arrived + 1]
  /\ arrived' = arrived + 1
  /\ UNCHANGED <<backend, service, radio, caller, req, mode, failedCommands, selVars, got, deleted, before>>

Reads(c, i, s, from) ==
  /\ got' = [got EXCEPT ![c] = [index |-> i, message |-> box[s][i], from |-> from]]
  /\ deleted' = [deleted EXCEPT ![c] = Nothing]

\* ReadSMS, over QMI of the module first and of the card when there is nothing.
ReadSMS(c) ==
  /\ caller[c] = "idle"
  /\ \E i \in Index :
       IF box["nv"][i] # Nothing THEN Reads(c, i, "nv", "nv") /\ UNCHANGED <<caller, req>>
       ELSE /\ backend = "qmi"
            /\ req' = [req EXCEPT ![c] = i] /\ Continue(c, "sim")
            /\ UNCHANGED <<got, deleted>>
  /\ UNCHANGED <<backend, service, radio, mode, failedCommands, selVars, box, arrived, before>>

ReadSIM(c) ==
  /\ caller[c] = "sim"
  /\ IF box["sim"][req[c]] # Nothing THEN Reads(c, req[c], "sim", "sim")
     ELSE UNCHANGED <<got, deleted>>
  /\ Continue(c, "idle")
  /\ UNCHANGED <<backend, service, radio, req, mode, failedCommands, selVars, box, arrived, before>>

\* A message of ListSMS, with the index the list gives it: over AT its place in the list.
ListSMS(c) ==
  LET stored == {i \in Index : box["nv"][i] # Nothing}
      place(i) == Cardinality({j \in stored : j < i})
  IN /\ caller[c] = "idle"
     /\ \E i \in stored :
          got' = [got EXCEPT ![c] =
            [message |-> box["nv"][i],
             index |-> IF backend = "at" THEN place(i) ELSE i,
             from |-> IF backend = "at" THEN "place" ELSE "nv"]]
     /\ deleted' = [deleted EXCEPT ![c] = Nothing]
     /\ UNCHANGED <<backend, service, radio, caller, req, mode, failedCommands, selVars, box, arrived, before>>

\* DeleteSMS: always of the module's own storage.
DeleteSMS(c) ==
  /\ caller[c] = "idle" /\ got[c] # Nothing /\ deleted[c] = Nothing
  /\ got[c].index \in Index
  /\ deleted' = [deleted EXCEPT ![c] = [message |-> box["nv"][got[c].index]]]
  /\ box' = [box EXCEPT !["nv"][got[c].index] = Nothing]
     \* who else has read the place does not know any more what is there
  /\ got' = [d \in User |->
       IF d # c /\ got[d] # Nothing /\ got[d].index = got[c].index
       THEN [got[d] EXCEPT !.from = "freed"] ELSE got[d]]
  /\ UNCHANGED <<backend, service, radio, caller, req, mode, failedCommands, selVars, arrived, before>>

\* DeleteAllSMS, over QMI one storage after the other, whatever becomes of the first.
Stored == {m \in 1..arrived : \E s \in {"nv", "sim"}, i \in Index : box[s][i] = m}
BeginDeleteAll(c) ==
  /\ caller[c] = "idle"
  /\ before' = [before EXCEPT ![c] = Stored]
  /\ Continue(c, IF backend = "qmi" THEN "clear sim" ELSE "clear nv")
  /\ UNCHANGED <<backend, service, radio, req, mode, failedCommands, selVars, box, arrived, got, deleted>>

Emptied(s) == box' = [box EXCEPT ![s] = [i \in Index |-> Nothing]]
ClearStorage(c) ==
  /\ \/ caller[c] = "clear sim" /\ Emptied("sim") /\ Continue(c, "clear nv")
     \/ caller[c] = "clear nv" /\ Emptied("nv") /\ Continue(c, "cleared")
  /\ got' = [d \in User |-> Nothing] /\ deleted' = [d \in User |-> Nothing]
  /\ UNCHANGED <<backend, service, radio, req, mode, failedCommands, selVars, arrived, before>>
ClearFails(c) ==
  /\ Fails
  /\ \/ caller[c] = "clear sim" /\ Continue(c, "clear nv")
     \/ caller[c] = "clear nv" /\ Continue(c, "idle")
  /\ before' = [before EXCEPT ![c] = {}]
  /\ UNCHANGED <<backend, service, radio, req, mode, selVars, box, arrived, got, deleted>>
EndDeleteAll(c) ==
  /\ caller[c] = "cleared" /\ Continue(c, "idle")
  /\ before' = [before EXCEPT ![c] = {}]
  /\ UNCHANGED <<backend, service, radio, req, mode, failedCommands, selVars, box, arrived, got, deleted>>

Selecting ==
  \/ QueryOperator \/ ModemRestarts
  \/ \E c \in User : BeginSet(c) \/ Preference(c) \/ RegisterWith(c) \/ SetFails(c) \/ Get(c)
Switching == \E c \in User : SetOperatingMode(c) \/ GetOperatingMode(c)
Reading ==
  \/ MessageArrives
  \/ \E c \in User :
       \/ ReadSMS(c) \/ ReadSIM(c) \/ ListSMS(c) \/ DeleteSMS(c)
       \/ BeginDeleteAll(c) \/ ClearStorage(c) \/ ClearFails(c) \/ EndDeleteAll(c)

BackendNext ==
  \/ service = "selection" /\ Selecting
  \/ service = "mode" /\ Switching
  \/ service = "messages" /\ Reading

BackendSpec == BackendInit /\ [][BackendNext]_backendVars

-----------------------------------------------------------------------------
\* Who set a selection and reads it back sees the network it set, as long as nobody
\* else set another; except over AT with a modem that writes names, and over QMI
\* with a digit the request claims against its own code.
Consistent(s) ==
  backend = "qmi" => s.said \in {"unset", IF s.plmn.digits = 3 THEN "yes" ELSE "no"}
SelectionKept ==
  \A c \in User : seen[c] # Nothing /\ seen[c].set # Nothing =>
    /\ seen[c].shown.mode = seen[c].set.mode
    /\ /\ seen[c].set.mode = "manual"
       /\ backend = "at" => seen[c].format = "digits"
       /\ Consistent(seen[c].set)
       => seen[c].shown.plmn = seen[c].set.plmn

\* The modem is bound to no technology that nobody asked for, except over AT by a name
\* that is unknown.
TechnologyAsked ==
  sel.mode = "manual" /\ wanted # Nothing /\ sel.rat # "any" =>
    sel.rat = wanted.rat \/ (backend = "at" /\ wanted.rat \notin Technologies)

\* The message that is deleted is the one that was read, unless it was read from the
\* card, or taken from the list of the AT backend, or another caller freed its place.
ReadIsDeleted ==
  \A c \in User :
    /\ got[c] # Nothing /\ deleted[c] # Nothing
    /\ got[c].from = "nv"
    => deleted[c].message \in {got[c].message, Nothing}

\* When DeleteAllSMS succeeds nothing is left of what was there when it began.
AllGone == \A c \in User : caller[c] = "cleared" => before[c] \cap Stored = {}

\* A radio that is off is never taken to be on, nor the reverse.
RadioKnown ==
  \A c \in User : mode[c] # Nothing /\ mode[c].read # Nothing =>
    (mode[c].read = "online" <=> mode[c].set = "online")

\* What was stored in the modem is what is read back and deleted.
BackendKeeps == SelectionKept /\ TechnologyAsked /\ ReadIsDeleted /\ AllGone /\ RadioKnown
=============================================================================
