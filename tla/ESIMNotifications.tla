------------------------- MODULE ESIMNotifications -------------------------
(***************************************************************************)
(* Downloads, deletions and the notifications they owe the operator's      *)
(* server (internal/esim/manager.go).  The card keeps a list of numbered   *)
(* notifications; the manager finds the one of its own operation, sends it *)
(* and, for some events alone, removes it.  opMu lets one of these         *)
(* operations run at a time; each of its requests to the card or to the    *)
(* server may fail, or be executed and lose its answer.                    *)
(***************************************************************************)
EXTENDS Naturals, FiniteSets

CONSTANTS
  Profile,
  MaxSeq        \* bound on the notifications the card creates

\* The notifications are numbered.
ASSUME NotesAssumption == MaxSeq \in Nat

VARIABLES
  installed,   \* profiles on the card
  seq,         \* number of the newest notification
  notes,       \* notifications on the card, [seq, event, iccid]
  sent,        \* numbers of the notifications that the server received
  run          \* the operation in progress

noteVars == <<installed, seq, notes, sent, run>>

\* baseline, found and pending are lastSeq, the notification found and what was
\* retrieved; own is the number that this operation gave its notification, and
\* listed and named say whether the list before it was read and whether the
\* result of the download names its notification.
Quiet == [op |-> "none", at |-> "idle", iccid |-> "none", baseline |-> 0, found |-> 0,
          pending |-> {}, own |-> 0, listed |-> FALSE, named |-> FALSE, todo |-> {},
          result |-> "none"]

NotesInit ==
  /\ installed = {} /\ seq = 0 /\ notes = {} /\ sent = {}
  /\ run = Quiet

MaxOf(S) == IF S = {} THEN 0 ELSE CHOOSE x \in S : \A y \in S : y <= x
MinOf(S) == CHOOSE x \in S : \A y \in S : x <= y
Seqs(S) == {n.seq : n \in S}

NewNote(event, p) == [seq |-> seq + 1, event |-> event, iccid |-> p]

\* The card executes a change of profile p and notes it.
CardNotes(event, p) ==
  /\ seq < MaxSeq
  /\ seq' = seq + 1
  /\ notes' = notes \cup {NewNote(event, p)}

StartRun(op, p) ==
  run' = [Quiet EXCEPT !.op = op, !.at = "list", !.iccid = p]

\* What an unconfirmed notification makes of the operation: a download or a
\* deletion that happened is a success with a warning; the download that ended in
\* an error stays one.
unconfirmed == IF run.op \in {"recover", "retry"} THEN "error" ELSE "warning"

Finish(result) == run' = [run EXCEPT !.at = "idle", !.result = result]

\* A switch or a disable leaves notifications and sends none.
SwitchOrDisable ==
  /\ run.at = "idle"
  /\ \E p \in installed, event \in {"enable", "disable"} : CardNotes(event, p)
  /\ UNCHANGED <<installed, sent, run>>

\* DownloadProfile and DeleteProfile; RetryNotification of a number; the list
\* that cleans up.
BeginDownload ==
  /\ run.at = "idle"
  /\ \E p \in Profile \ installed : StartRun("download", p)
  /\ UNCHANGED <<installed, seq, notes, sent>>

BeginDelete ==
  /\ run.at = "idle"
  /\ \E p \in installed : StartRun("delete", p)
  /\ UNCHANGED <<installed, seq, notes, sent>>

BeginRetry ==
  /\ run.at = "idle"
  /\ \E s \in 1..MaxSeq :
       run' = [Quiet EXCEPT !.op = "retry", !.at = "retrieve", !.found = s]
  /\ UNCHANGED <<installed, seq, notes, sent>>

BeginList ==
  /\ run.at = "idle"
  /\ StartRun("list", "none")
  /\ UNCHANGED <<installed, seq, notes, sent>>

\* maxNotificationSequence: a download looks at the install notifications.
maxNotificationSequence ==
  MaxOf(Seqs(IF run.op = "download" THEN {n \in notes : n.event = "install"} ELSE notes))

\* The list before the change: without it lastSeq is 0.
ListBefore ==
  /\ run.at = "list" /\ run.op \in {"download", "delete"}
  /\ \E ok \in BOOLEAN :
       run' = [run EXCEPT !.at = "change", !.listed = ok,
                          !.baseline = IF ok THEN maxNotificationSequence ELSE 0]
  /\ UNCHANGED <<installed, seq, notes, sent>>

\* The free space is below 80 KB, there is no IMEI or no address, the server
\* refuses, or the card refuses to delete: nothing changed on the card.
ChangeFails ==
  /\ run.at = "change"
  /\ Finish("error")
  /\ UNCHANGED <<installed, seq, notes, sent>>

\* downloadNotificationBaseline: the number in the result of the download, less
\* one, when it is the greater.
downloadNotificationBaseline(named) ==
  IF named THEN MaxOf({run.baseline, seq}) ELSE run.baseline

Downloaded ==
  /\ run.at = "change" /\ run.op = "download"
  /\ CardNotes("install", run.iccid)
  /\ installed' = installed \cup {run.iccid}
  /\ \E named \in BOOLEAN :
       run' = [run EXCEPT !.at = "find", !.own = seq + 1, !.named = named,
                          !.baseline = downloadNotificationBaseline(named)]
  /\ UNCHANGED sent

\* Mutant: the list before the download may be missing.
FinalizeFailsUnlisted ==
  /\ run.at = "change" /\ run.op = "download"
  /\ \E executed \in BOOLEAN :
       /\ IF executed
          THEN /\ CardNotes("install", run.iccid)
               /\ installed' = installed \cup {run.iccid}
          ELSE UNCHANGED <<installed, seq, notes>>
       /\ run' = [run EXCEPT !.op = "recover", !.at = "find",
                             !.own = IF executed THEN seq + 1 ELSE 0]
  /\ UNCHANGED sent

\* isRecoverableDownloadInstallFinalizeError: errors of the transport and of the
\* end of the session are, a refusal of the profile package is not; and the list
\* before the download must have been read.
Recoverable(error) == error = "transport" /\ run.listed

\* The installation fails at its end.  The profile may be installed or not,
\* and what the error says decides whether the card is asked again.
FinalizeFails ==
  /\ run.at = "change" /\ run.op = "download"
  /\ \E executed \in BOOLEAN, error \in {"transport", "package"} :
       /\ IF executed
          THEN /\ CardNotes("install", run.iccid)
               /\ installed' = installed \cup {run.iccid}
          ELSE UNCHANGED <<installed, seq, notes>>
       /\ run' = [run EXCEPT !.op = "recover",
                             !.own = IF executed THEN seq + 1 ELSE 0,
                             !.at = IF Recoverable(error) THEN "find" ELSE "idle",
                             !.result = IF Recoverable(error) THEN "none" ELSE "error"]
  /\ UNCHANGED sent

\* DeleteProfile executed; if its answer is lost the operation fails.
Deleted ==
  /\ run.at = "change" /\ run.op = "delete"
  /\ CardNotes("delete", run.iccid)
  /\ installed' = installed \ {run.iccid}
  /\ \/ run' = [run EXCEPT !.at = "find", !.own = seq + 1]
     \/ run' = [run EXCEPT !.at = "idle", !.own = seq + 1, !.result = "error"]
  /\ UNCHANGED sent

\* Mutant: lastSeq is not looked at.
MatchingAny ==
  {n \in notes :
     IF run.op = "delete" THEN n.event = "delete" /\ n.iccid = run.iccid
     ELSE n.event = "install"}

\* findMatchingNotificationAfterSeq and findMatchingDeleteNotification: the
\* first of the list beyond lastSeq.
Matching ==
  {n \in notes :
     /\ n.seq > run.baseline
     /\ IF run.op = "delete" THEN n.event = "delete" /\ n.iccid = run.iccid
        ELSE n.event = "install"}

\* findNotificationWithWait asks three times.
Find ==
  /\ run.at = "find"
  /\ \E n \in Matching :
       /\ n.seq = MinOf(Seqs(Matching))
       /\ run' = [run EXCEPT !.at = "retrieve", !.found = n.seq]
  /\ UNCHANGED <<installed, seq, notes, sent>>

FindNothing ==
  /\ run.at = "find"
  /\ Finish(unconfirmed)
  /\ UNCHANGED <<installed, seq, notes, sent>>

\* retryWithBackoff around RetrieveNotificationList: the card may also answer
\* with an empty list, which download and delete take for success.
Retrieve ==
  /\ run.at = "retrieve"
  /\ \E p \in {{}, {n \in notes : n.seq = run.found}} :
       run' = [run EXCEPT !.at = "handle", !.pending = p]
  /\ UNCHANGED <<installed, seq, notes, sent>>

RetrieveFails ==
  /\ run.at = "retrieve"
  /\ IF run.op = "list" THEN run' = [run EXCEPT !.at = "clean"]
     ELSE Finish(unconfirmed)
  /\ UNCHANGED <<installed, seq, notes, sent>>

\* Mutant: nothing to send counts as sent.
HandledAnything ==
  /\ run.at = "handle"
  /\ sent' = sent \cup Seqs(run.pending)
  /\ IF run.op = "list" THEN run' = [run EXCEPT !.at = "remove"] ELSE Finish("ok")
  /\ UNCHANGED <<installed, seq, notes>>

\* retryWithBackoff around HandleNotification: four attempts, of which any may
\* have reached the server although it failed.
Handled ==
  /\ run.at = "handle"
  /\ sent' = sent \cup Seqs(run.pending)
  /\ CASE run.op = "list" ->
            run' = [run EXCEPT !.at = IF run.pending = {} THEN "clean" ELSE "remove"]
       [] run.op = "retry" -> Finish(IF run.pending = {} THEN "error" ELSE "ok")
       [] run.op = "recover" -> Finish("recovered")
       [] OTHER -> Finish("ok")
  /\ UNCHANGED <<installed, seq, notes>>

HandleFails ==
  /\ run.at = "handle" /\ run.pending # {}
  /\ \/ sent' = sent \cup Seqs(run.pending)
     \/ UNCHANGED sent
  /\ IF run.op = "list" THEN run' = [run EXCEPT !.at = "clean"]
     ELSE Finish(unconfirmed)
  /\ UNCHANGED <<installed, seq, notes>>

isAutoCleanableLoadedNotification(n) == n.event \in {"enable", "disable"}

\* listNotificationItemsWithCleanup: safeListNotification, then
\* autoCleanLoadedNotifications goes through the list.
ListNotifications ==
  /\ run.at = "list" /\ run.op = "list"
  /\ \/ run' = [run EXCEPT !.at = "clean",
                  !.todo = Seqs({n \in notes : isAutoCleanableLoadedNotification(n)})]
     \/ Finish("error")
  /\ UNCHANGED <<installed, seq, notes, sent>>

CleanNext ==
  /\ run.at = "clean"
  /\ IF run.todo = {} THEN Finish("ok")
     ELSE \E s \in run.todo :
            run' = [run EXCEPT !.at = "retrieve", !.found = s, !.todo = @ \ {s}]
  /\ UNCHANGED <<installed, seq, notes, sent>>

\* RemoveNotificationFromList; ErrNothingToDelete is as good.
Remove ==
  /\ run.at = "remove"
  /\ \/ notes' = {n \in notes : n.seq # run.found}
     \/ UNCHANGED notes
  /\ run' = [run EXCEPT !.at = "clean"]
  /\ UNCHANGED <<installed, seq, sent>>

NotesNext ==
  \/ SwitchOrDisable \/ BeginDownload \/ BeginDelete \/ BeginRetry \/ BeginList
  \/ ListBefore \/ ChangeFails \/ Downloaded \/ FinalizeFails \/ Deleted
  \/ Find \/ FindNothing \/ Retrieve \/ RetrieveFails \/ Handled \/ HandleFails
  \/ ListNotifications \/ CleanNext \/ Remove

NotesSpec == NotesInit /\ [][NotesNext]_noteVars

----------------------------------------------------------------------------
Over == run.at = "idle"

\* A notification leaves the card only after the server has it, and those of an
\* installation or a deletion, for which the operator bills, never leave it by a
\* look at the list.
RemovedOnlyDelivered ==
  [][\A n \in notes \ notes' : n.seq \in sent /\ n.event \in {"enable", "disable"}]_noteVars

\* A download or a deletion that ends without a warning has sent the
\* notification of this very operation, provided the card returned it when asked,
\* and told the numbers before the operation or the number of its own.
QuietMeansDelivered ==
  Over /\ run.op \in {"download", "delete"} /\ run.result = "ok" =>
    \/ run.own \in sent
    \/ run.pending = {}
    \/ ~run.listed /\ ~run.named

\* "Installed, the session ended badly": a download that is reported so did
\* install the profile, and what it found and sent is not an older installation.
RecoveredMeansInstalled ==
  Over /\ run.op = "recover" /\ run.result = "recovered" =>
    /\ run.iccid \in installed
    /\ run.found = run.own
    /\ run.pending # {} => run.own \in sent

\* What is reported of an operation is true of the card and of the server.
ReportsTrue == QuietMeansDelivered /\ RecoveredMeansInstalled
=============================================================================
