------------------------------- MODULE USBSMS -------------------------------
(***************************************************************************)
(* Short messages over the private USB AT interface of the desktop         *)
(* application (main.go): the poller, the refresh and the clear button of  *)
(* the page.  Each is a sequence of commands; the device runs one command  *)
(* at a time, but nothing keeps two sequences apart, and the memory that   *)
(* AT+CPMS selects is one for all.  An ERROR answer, and the part of an    *)
(* answer that came before its time-out, are no errors to the caller.      *)
(***************************************************************************)
EXTENDS Naturals

CONSTANTS
  SIMMessage, MEMessage,   \* the messages that come, by the memory they go to
  SMSFaults,     \* bound: the module pulled out, commands refused or not answered
  MaxSequences   \* bound: how often a poll or the button starts
VARIABLES
  plugged, smsUSB,         \* the module is there; the handle: "none", "open", "dead"
  selected,                \* the memory AT+CPMS has selected
  unread, read,            \* what each memory holds
  reader, got, errs, gone,
  sms, forwarded,
  smsFaults, begun,
  deleted,                 \* ghost: what AT+CMGD has deleted, by memory
  disturbed,               \* ghost: two sequences overlapped, or a selection failed unseen
  lost                     \* ghost: lost with an answer, or deleted before it was listed

modemVars == <<plugged, selected, unread, read, deleted>>
desktopVars == <<smsUSB, reader, got, errs, gone, sms, forwarded>>
smsVars == <<modemVars, desktopVars, smsFaults, begun, disturbed, lost>>

Memory == {"SM", "ME"}
Message == SIMMessage \cup MEMessage
Poller == {"poll", "refresh"}
Goroutine == Poller \cup {"clear"}

SMSInit ==
  /\ plugged = TRUE /\ smsUSB = "none" /\ selected \in Memory
  /\ unread = [m \in Memory |-> {}] /\ read = [m \in Memory |-> {}]
  /\ reader = [g \in Goroutine |-> "idle"]
  /\ got = [g \in Poller |-> {}] /\ errs = [g \in Poller |-> {}]
  /\ gone = [g \in Poller |-> FALSE]
  /\ sms = {} /\ forwarded = [m \in Message |-> 0]
  /\ smsFaults = 0 /\ begun = 0
  /\ deleted = [m \in Memory |-> {}] /\ disturbed = FALSE /\ lost = {}

Reaches(g, pc) == reader' = [reader EXCEPT ![g] = pc]
Failed(g, memory, isGone) ==
  /\ errs' = [errs EXCEPT ![g] = @ \cup {memory}]
  /\ gone' = [gone EXCEPT ![g] = @ \/ isGone]

Forget(g) ==
  /\ got' = [got EXCEPT ![g] = {}] /\ errs' = [errs EXCEPT ![g] = {}]
  /\ gone' = [gone EXCEPT ![g] = FALSE]

(***************************************************************************)
(* The module.                                                             *)
(***************************************************************************)

Arrive(memory, m) ==
  /\ plugged /\ m \in (IF memory = "SM" THEN SIMMessage ELSE MEMessage)
  /\ m \notin UNION {unread[x] \cup read[x] \cup deleted[x] : x \in Memory}
  /\ unread' = [unread EXCEPT ![memory] = @ \cup {m}]
  /\ UNCHANGED <<plugged, selected, read, deleted, desktopVars, smsFaults, begun, disturbed,
                 lost>>

Unplug ==
  /\ plugged /\ smsFaults < SMSFaults
  /\ plugged' = FALSE /\ smsFaults' = smsFaults + 1
  /\ smsUSB' = IF smsUSB = "open" THEN "dead" ELSE smsUSB
  /\ UNCHANGED <<selected, unread, read, deleted, reader, got, errs, gone, sms, forwarded,
                 begun, disturbed, lost>>

Plug ==
  /\ ~plugged /\ plugged' = TRUE
  /\ selected' \in Memory
  /\ UNCHANGED <<unread, read, deleted, desktopVars, smsFaults, begun, disturbed, lost>>

\* What a caller of Command can see: the answer, an ERROR it takes for one (the
\* command is not executed), the beginning of an answer ("partial"), or an error.
Meets(what) ==
  CASE what = "answered" -> smsUSB = "open" /\ UNCHANGED smsFaults
    [] what \in {"refused", "partial", "timed out"} ->
         smsUSB = "open" /\ smsFaults < SMSFaults /\ smsFaults' = smsFaults + 1
    [] what = "no device" -> smsUSB = "dead" /\ UNCHANGED smsFaults
    [] what = "not open" -> smsUSB = "none" /\ UNCHANGED smsFaults

Answers == {"answered", "refused", "partial"}
Failures == {"timed out", "no device", "not open"}
IsGone(what) == what \in {"timed out", "no device"}
Executes(what) ==      \* what it may have done: a late answer is no answer
  IF what \in {"answered", "partial"} THEN {TRUE}
  ELSE IF what = "timed out" THEN BOOLEAN ELSE {FALSE}

\* AT+CPMS="memory","memory","memory".
Select(memory, what) ==
  /\ Meets(what)
  /\ \E done \in Executes(what) : selected' = IF done THEN memory ELSE selected
  /\ disturbed' = (disturbed \/ what = "refused")

\* AT+CMGL=0 lists what is unread, and so makes it read; the part of the answer that
\* came is what the caller sees.
List(what, seen) ==
  /\ Meets(what)
  /\ seen \in SUBSET unread[selected]
  /\ what = "answered" => seen = unread[selected]
  /\ what \in {"refused"} \cup Failures => seen = {}
  /\ \E done \in Executes(what) : IF done
     THEN /\ unread' = [unread EXCEPT ![selected] = {}]
          /\ read' = [read EXCEPT ![selected] = @ \cup unread[selected]]
          /\ lost' = lost \cup (unread[selected] \ seen)
     ELSE UNCHANGED <<unread, read, lost>>

(***************************************************************************)
(* ensureUSBAT and pollSMSOnce.                                            *)
(***************************************************************************)

\* A sequence begins: the interface is opened if it is not.
BeginSequence(g, pc) ==
  /\ reader[g] = "idle" /\ begun < MaxSequences /\ begun' = begun + 1
  /\ smsUSB # "none" \/ plugged
  /\ smsUSB' = IF smsUSB = "none" THEN "open" ELSE smsUSB
  /\ disturbed' = (disturbed \/ \E h \in Goroutine : reader[h] # "idle")
  /\ Reaches(g, pc)

BeginPoll(g) ==
  /\ BeginSequence(g, "mode")
  /\ UNCHANGED <<modemVars, got, errs, gone, sms, forwarded, smsFaults, lost>>

SetPDUMode(g) ==
  /\ reader[g] = "mode"
  /\ \E what \in Answers \cup Failures :
       /\ Meets(what)
       /\ Reaches(g, IF what \in Failures THEN "failed" ELSE "select SM")
       /\ gone' = [gone EXCEPT ![g] = IsGone(what)]
  /\ UNCHANGED <<modemVars, smsUSB, got, errs, sms, forwarded, begun, disturbed, lost>>

\* A memory that cannot be selected or listed is left out.
Selecting == [SM |-> "select SM", ME |-> "select ME"]
Listing == [SM |-> "list SM", ME |-> "list ME"]
AfterMemory(memory) == IF memory = "SM" THEN "select ME" ELSE "listed"

SelectMemory(g, memory) ==
  /\ reader[g] = Selecting[memory]
  /\ \E what \in Answers \cup Failures :
       /\ Select(memory, what)
       /\ IF what \in Failures
          THEN Failed(g, memory, IsGone(what)) /\ Reaches(g, AfterMemory(memory))
          ELSE UNCHANGED <<errs, gone>> /\ Reaches(g, Listing[memory])
  /\ UNCHANGED <<plugged, unread, read, deleted, smsUSB, got, sms, forwarded, begun, lost>>

ListMemory(g, memory) ==
  /\ reader[g] = Listing[memory]
  /\ \E what \in Answers \cup Failures, seen \in SUBSET Message :
       /\ List(what, seen)
       /\ got' = [got EXCEPT ![g] = @ \cup seen]
       /\ IF what \in Failures THEN Failed(g, memory, IsGone(what))
          ELSE UNCHANGED <<errs, gone>>
  /\ Reaches(g, AfterMemory(memory))
  /\ UNCHANGED <<plugged, selected, deleted, smsUSB, sms, forwarded, begun, disturbed>>

\* Mutant: one memory that fails fails the poll.
FailsOnAny(g) == errs[g] # {}
ListFails(g) == got[g] = {} /\ errs[g] = Memory

\* mergeSMS, the forwarding of what is new, and the cleanup when anything was read.
Merge(g) ==
  /\ reader[g] = "listed"
  /\ IF ListFails(g)
     THEN Reaches(g, "failed") /\ UNCHANGED <<got, errs, gone, sms, forwarded>>
     ELSE /\ sms' = sms \cup got[g]
          /\ forwarded' = [m \in Message |->
                             forwarded[m] + (IF m \in got[g] \ sms THEN 1 ELSE 0)]
          /\ Reaches(g, IF got[g] = {} THEN "idle" ELSE "clear")
          /\ Forget(g)
  /\ UNCHANGED <<modemVars, smsUSB, smsFaults, begun, disturbed, lost>>

\* resetUSBATIfGone: whatever is open by now is closed.
Detach(g) ==
  /\ reader[g] = "failed"
  /\ smsUSB' = IF gone[g] THEN "none" ELSE smsUSB
  /\ Forget(g) /\ Reaches(g, "idle")
  /\ UNCHANGED <<modemVars, sms, forwarded, smsFaults, begun, disturbed, lost>>

(***************************************************************************)
(* clearUSBATSMSMemory("ME"), after a poll or for the button.              *)
(***************************************************************************)

BeginClear ==
  /\ BeginSequence("clear", "clear")
  /\ UNCHANGED <<modemVars, got, errs, gone, sms, forwarded, smsFaults, lost>>

\* Mutant: the memory is not selected, for the poll has left ME selected.
ClearTrustsPoll(g) ==
  /\ reader[g] = "clear" /\ Reaches(g, "delete")
  /\ UNCHANGED <<modemVars, smsUSB, got, errs, gone, sms, forwarded, smsFaults, begun,
                 disturbed, lost>>
ClearSelect(g) ==
  /\ reader[g] = "clear"
  /\ \E what \in Answers \cup Failures :
       Select("ME", what) /\ Reaches(g, IF what \in Failures THEN "idle" ELSE "delete")
  /\ UNCHANGED <<plugged, unread, read, deleted, smsUSB, got, errs, gone, sms, forwarded, begun,
                 lost>>

\* AT+CMGD=1,4 deletes all that the selected memory holds, read or not.
ClearDelete(g) ==
  /\ reader[g] = "delete"
  /\ \E what \in Answers \cup Failures :
       /\ Meets(what)
       /\ Reaches(g, IF what \in Failures THEN "idle" ELSE "recheck")
       /\ \E done \in Executes(what) : IF done
          THEN /\ deleted' = [deleted EXCEPT ![selected] =
                                @ \cup unread[selected] \cup read[selected]]
               /\ lost' = lost \cup unread[selected]
               /\ unread' = [unread EXCEPT ![selected] = {}]
               /\ read' = [read EXCEPT ![selected] = {}]
          ELSE UNCHANGED <<deleted, lost, unread, read>>
  /\ UNCHANGED <<plugged, selected, smsUSB, got, errs, gone, sms, forwarded, begun, disturbed>>

ClearRecheck(g) ==
  /\ reader[g] = "recheck"
  /\ \E what \in Answers \cup Failures : Select("ME", what)
  /\ Reaches(g, "idle")
  /\ UNCHANGED <<plugged, unread, read, deleted, smsUSB, got, errs, gone, sms, forwarded, begun,
                 lost>>

SMSNext ==
  \/ \E memory \in Memory, m \in Message : Arrive(memory, m)
  \/ Unplug \/ Plug \/ BeginClear
  \/ \E g \in Goroutine : ClearSelect(g) \/ ClearDelete(g) \/ ClearRecheck(g)
  \/ \E g \in Poller :
       \/ BeginPoll(g) \/ SetPDUMode(g) \/ Merge(g) \/ Detach(g)
       \/ \E memory \in Memory : SelectMemory(g, memory) \/ ListMemory(g, memory)

SMSSpec == SMSInit /\ [][SMSNext]_smsVars

-----------------------------------------------------------------------------
\* The button and the cleanup never delete a message of the SIM card
\* (web/app.js:1912).
SIMMessagesKept == deleted["SM"] = {}

\* As long as the sequences come one after the other and no selection was refused,
\* they do not.
QuietSIMKept == ~disturbed => deleted["SM"] = {}

Held(m) == \/ \E memory \in Memory : m \in unread[memory]
           \/ \E g \in Poller : m \in got[g]
Known(m) == \E memory \in Memory : m \in unread[memory] \cup read[memory] \cup deleted[memory]

\* A message of the module is to be read yet, in the hands of a poll, or shown and
\* forwarded once, whatever fails and however the sequences interleave; except
\* those whose listing was lost on the way and those deleted before any poll saw them.
NothingElseLost ==
  \A m \in Message : /\ Known(m) /\ m \notin lost => Held(m) \/ m \in sms
                     /\ forwarded[m] = (IF m \in sms THEN 1 ELSE 0)

\* What short messages keep over USB.
MessagesKept == QuietSIMKept /\ NothingElseLost
=============================================================================
