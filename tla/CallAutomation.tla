--------------------------- MODULE CallAutomation ---------------------------
(***************************************************************************)
(* Incoming calls in the desktop application (automation.go): the call it  *)
(* knows of, the goroutine that waits and answers it, the answer and the   *)
(* hang-up pressed on the page, the poller of AT+CLCC (or, with a serial   *)
(* port, the callbacks of RING, +CLIP and NO CARRIER, each in a goroutine  *)
(* of its own), the voice bridge of the module and the recorder.           *)
(***************************************************************************)
EXTENDS Naturals, Sequences

CONSTANTS
  Number,      \* the numbers of the calls that come, in their order
  Allowed,     \* the numbers on the allow list
  Settings,    \* the settings checked: [serial, late, audio, record, hangup, presses];
               \* presses bounds the answers and hang-ups from the page together with
               \* the answers to AT+CLCC that are misread
  MaxEvents    \* bound: how often a call is noticed

\* A list of numbers is saved without empty ones; "unknown" stands for the empty number.
ASSUME CallAssumption ==
  /\ Number \in Seq(STRING) /\ Allowed \subseteq STRING \ {"unknown"}
  /\ Settings \subseteq [serial : BOOLEAN, late : BOOLEAN, audio : BOOLEAN, record : BOOLEAN,
                         hangup : BOOLEAN, presses : Nat]
  /\ MaxEvents \in Nat

VARIABLES
  settings, line, arrived, activeCall, callEventID,
  goroutine,   \* processIncomingCall ("auto") and answerActiveCall ("page"), per event
  poller, hanger, callbacks, presses,
  route, warmup, drain, routed,
  recorder,
  answered,    \* ghost: the calls an "auto" goroutine has answered
  swapped      \* ghost: a call came before all of an earlier one was behind the program

callVars == <<settings, line, arrived, activeCall, callEventID, goroutine,
              poller, hanger, callbacks, presses, route, warmup, drain, routed, recorder,
              answered, swapped>>

Event == 1..MaxEvents
Role == {"auto", "page"}
NoLine == <<0, "idle">>
NoCall == [id |-> 0, number |-> "unknown", claimed |-> FALSE, recording |-> 0]
Ringing == line[2] = "ringing"

CallInit ==
  /\ settings \in Settings
  /\ line = NoLine /\ arrived = 0
  /\ activeCall = NoCall /\ callEventID = 0
  /\ goroutine = [r \in Role |-> [e \in Event |-> "none"]]
  /\ poller = <<"idle">> /\ hanger = "idle" /\ callbacks = {} /\ presses = 0
  /\ route = FALSE /\ routed = {}
  /\ warmup = [e \in Event |-> "none"] /\ drain = {}
  /\ recorder = [e \in Event |-> "none"]
  /\ answered = {} /\ swapped = FALSE

routeVars == <<route, warmup, drain, routed>>
networkVars == <<settings, arrived, swapped, presses>>
watchVars == <<poller, hanger, callbacks>>

Moves(r, e, pc) == goroutine' = [goroutine EXCEPT ![r][e] = pc]
Cancelled(e) == activeCall.id # e      \* the context of the call is cancelled

(***************************************************************************)
(* The network and the module.                                             *)
(***************************************************************************)

CallArrives ==
  /\ line = NoLine /\ arrived < Len(Number)
  /\ arrived' = arrived + 1
  /\ line' = <<arrived + 1, "ringing">>
  /\ callbacks' = IF settings.serial
                  THEN callbacks \cup {<<"ring", "unknown">>, <<"clip", Number[arrived + 1]>>}
                  ELSE callbacks
  /\ swapped' = \/ swapped
                \/ activeCall # NoCall \/ callbacks # {} \/ poller # <<"idle">>
                \/ \E r \in Role, e \in Event : goroutine[r][e] = "ata"
  /\ UNCHANGED <<settings, presses, activeCall, callEventID, goroutine, poller, hanger,
                 routeVars, recorder, answered>>

CallEnds ==
  /\ line # NoLine
  /\ line' = NoLine
  /\ callbacks' = IF settings.serial THEN callbacks \cup {<<"hangup", "unknown">>}
                  ELSE callbacks
  /\ UNCHANGED <<networkVars, activeCall, callEventID, goroutine, poller, hanger,
                 routeVars, recorder, answered>>

(***************************************************************************)
(* Noticing a call and its end.                                            *)
(***************************************************************************)

\* A second notice of the same call, or of another that took its place, only
\* changes the number.
observeIncomingCall(number) ==
  IF activeCall # NoCall
  THEN /\ activeCall' = [activeCall EXCEPT !.number = IF number = "unknown" THEN @ ELSE number]
       /\ UNCHANGED <<callEventID, goroutine>>
  ELSE /\ callEventID < MaxEvents
       /\ callEventID' = callEventID + 1
       /\ activeCall' = [NoCall EXCEPT !.id = callEventID + 1, !.number = number]
       /\ Moves("auto", callEventID + 1, "delay")

\* Whatever call is active ends, and its recording is finished.
clearActiveCall ==
  IF activeCall = NoCall
  THEN UNCHANGED <<activeCall, recorder>>
  ELSE /\ activeCall' = NoCall
       /\ recorder' = IF activeCall.recording = 0 THEN recorder
                      ELSE [recorder EXCEPT ![activeCall.recording] = "finishing"]

\* AT+CLCC, once a second; an ERROR, or half an answer, names no call either ...
Poll ==
  /\ ~settings.serial /\ poller = <<"idle">>
  /\ \/ line = NoLine /\ poller' = <<"nothing">> /\ UNCHANGED presses
     \/ /\ line # NoLine /\ poller' = <<"nothing">>
        /\ presses < settings.presses /\ presses' = presses + 1
     \/ Ringing /\ poller' = <<"incoming", Number[line[1]]>> /\ UNCHANGED presses
     \/ line[2] = "talking" /\ poller' = <<"talking">> /\ UNCHANGED presses
  /\ UNCHANGED <<settings, arrived, swapped, line, activeCall, callEventID, goroutine, hanger,
                 callbacks, routeVars, recorder, answered>>

\* ... and what is done about its answer.
PollSeen ==
  /\ poller # <<"idle">> /\ poller' = <<"idle">>
  /\ CASE poller[1] = "nothing" -> clearActiveCall /\ UNCHANGED <<callEventID, goroutine>>
       [] poller[1] = "incoming" -> observeIncomingCall(poller[2]) /\ UNCHANGED recorder
       [] OTHER -> UNCHANGED <<activeCall, callEventID, goroutine, recorder>>
  /\ UNCHANGED <<networkVars, line, hanger, callbacks, routeVars, answered>>

\* RING, +CLIP and NO CARRIER: the goroutines of the callbacks run in any order.
Callback(what) ==
  /\ what \in callbacks /\ callbacks' = callbacks \ {what}
  /\ IF what[1] = "hangup"
     THEN clearActiveCall /\ UNCHANGED <<callEventID, goroutine>>
     ELSE observeIncomingCall(what[2]) /\ UNCHANGED recorder
  /\ UNCHANGED <<networkVars, line, poller, hanger, routeVars, answered>>

(***************************************************************************)
(* processIncomingCall.                                                    *)
(***************************************************************************)

currentCallNumber(e) == IF activeCall.id = e THEN activeCall.number ELSE "unknown"
numberAllowed(number) == Allowed = {} \/ number \in Allowed

\* stopWarmedModuleVoiceRoute: a goroutine waits for the result of the warm-up.
Drained(e) == IF warmup[e] = "none" THEN drain ELSE drain \cup {e}

Delay(e) ==
  /\ goroutine["auto"][e] = "delay"
  /\ \/ Cancelled(e) /\ Moves("auto", e, "done") /\ UNCHANGED warmup
     \/ ~settings.late /\ Moves("auto", e, "check") /\ UNCHANGED warmup
     \/ /\ settings.late /\ Moves("auto", e, "lead")
        /\ warmup' = IF settings.audio /\ numberAllowed(currentCallNumber(e))
                     THEN [warmup EXCEPT ![e] = "starting"] ELSE warmup
  /\ UNCHANGED <<networkVars, line, activeCall, callEventID, watchVars, route, drain,
                 routed, recorder, answered>>

\* The last two seconds.  A call that ends in them leaves the warm-up behind.
Lead(e) ==
  /\ goroutine["auto"][e] = "lead"
  /\ \/ Cancelled(e) /\ Moves("auto", e, "done")
     \/ Moves("auto", e, "check")
  /\ UNCHANGED <<networkVars, line, activeCall, callEventID, watchVars, routeVars,
                 recorder, answered>>

Check(e) ==
  /\ goroutine["auto"][e] = "check"
  /\ IF numberAllowed(currentCallNumber(e))
     THEN Moves("auto", e, "claim") /\ UNCHANGED drain
     ELSE /\ Moves("auto", e, "done") /\ drain' = Drained(e)
  /\ UNCHANGED <<networkVars, line, activeCall, callEventID, watchVars, route, warmup,
                 routed, recorder, answered>>

\* Mutant: a call is claimed twice.
claimsTwice(e) == activeCall.id = e
claims(e) == activeCall.id = e /\ ~activeCall.claimed

\* answerActiveCall looks the call up, and then claims it as the goroutine does.
PressAnswer(e) ==
  /\ activeCall.id = e /\ goroutine["page"][e] = "none"
  /\ presses < settings.presses /\ presses' = presses + 1
  /\ Moves("page", e, "claim")
  /\ UNCHANGED <<settings, arrived, swapped, line, activeCall, callEventID, watchVars,
                 routeVars, recorder, answered>>

Claim(r, e) ==
  /\ goroutine[r][e] = "claim"
  /\ IF claims(e)
     THEN /\ activeCall' = [activeCall EXCEPT !.claimed = TRUE]
          /\ Moves(r, e, "ata") /\ UNCHANGED drain
     ELSE /\ Moves(r, e, "done") /\ UNCHANGED activeCall
          /\ drain' = IF r = "auto" THEN Drained(e) ELSE drain
  /\ UNCHANGED <<networkVars, line, callEventID, watchVars, route, warmup, routed,
                 recorder, answered>>

\* ATA answers what is ringing now.
Answer(r, e) ==
  /\ goroutine[r][e] = "ata" /\ Ringing
  /\ line' = <<line[1], "talking">>
  /\ Moves(r, e, "answered")
  /\ answered' = IF r = "auto" THEN answered \cup {line[1]} ELSE answered
  /\ UNCHANGED <<networkVars, activeCall, callEventID, watchVars, routeVars, recorder>>

\* It is refused, or no answer to it or to AT+CLCC comes; the call may be up all
\* the same.  The claim is given back.
AnswerFails(r, e) ==
  /\ goroutine[r][e] = "ata"
  /\ line' \in {line} \cup (IF Ringing THEN {<<line[1], "talking">>} ELSE {})
  /\ answered' = IF line' # line /\ r = "auto" THEN answered \cup {line[1]} ELSE answered
  /\ activeCall' = IF activeCall.id = e THEN [activeCall EXCEPT !.claimed = FALSE]
                   ELSE activeCall
  /\ Moves(r, e, "done")
  /\ drain' = IF r = "auto" THEN Drained(e) ELSE drain
  /\ UNCHANGED <<networkVars, callEventID, watchVars, route, warmup, routed, recorder>>

(***************************************************************************)
(* runAnsweredCallWorkflow.                                                *)
(***************************************************************************)

Warmed(r, e) == r = "auto" /\ warmup[e] # "none"

\* The bridge: the warm-up's result, or the bridge started here, or neither.  A
\* call that ends meanwhile ends the workflow, or only the wait for the result.
TakeRoute(r, e) ==
  /\ goroutine[r][e] = "answered"
  /\ \/ ~settings.audio /\ Moves(r, e, "record") /\ UNCHANGED <<route, warmup>>
     \/ /\ settings.audio /\ Cancelled(e)
        /\ Moves(r, e, "done") /\ UNCHANGED <<route, warmup>>
     \/ /\ settings.audio /\ (Cancelled(e) \/ ~Warmed(r, e))
        /\ Moves(r, e, "record") /\ UNCHANGED <<route, warmup>>
     \/ /\ settings.audio /\ ~Warmed(r, e)
        /\ route' = TRUE /\ Moves(r, e, "settle") /\ UNCHANGED warmup
     \/ /\ settings.audio /\ Warmed(r, e) /\ warmup[e] \in {"ready", "failed"}
        /\ warmup' = [warmup EXCEPT ![e] = "taken"]
        /\ Moves(r, e, IF warmup[e] = "ready" THEN "settle" ELSE "record")
        /\ UNCHANGED route
  /\ UNCHANGED <<networkVars, line, activeCall, callEventID, watchVars, drain, routed,
                 recorder, answered>>

\* A call that ends before the bridge has settled leaves it running: the stop is
\* deferred only after the wait.
Settle(r, e) ==
  /\ goroutine[r][e] = "settle"
  /\ \/ Cancelled(e) /\ Moves(r, e, "done") /\ UNCHANGED routed
     \/ Moves(r, e, "record") /\ routed' = routed \cup {<<r, e>>}
  /\ UNCHANGED <<networkVars, line, activeCall, callEventID, watchVars, route, warmup,
                 drain, recorder, answered>>

Exit(r, e) == IF <<r, e>> \in routed THEN "stop" ELSE "done"

\* The recorder is started under the context of the call ...
StartRecorder(r, e) ==
  /\ goroutine[r][e] = "record"
  /\ \/ /\ settings.record /\ recorder[e] = "none" /\ ~Cancelled(e)
        /\ recorder' = [recorder EXCEPT ![e] = "running"]
        /\ Moves(r, e, "attach")
     \/ Moves(r, e, "stay") /\ UNCHANGED recorder
  /\ UNCHANGED <<networkVars, line, activeCall, callEventID, watchVars, routeVars, answered>>

\* Mutant: the recorder is given to whatever call is active by then.
Keeps(e) == activeCall # NoCall
\* ... and given to it, or stopped when the call has ended meanwhile.
AttachesTo(e) == activeCall.id = e
AttachRecorder(r, e) ==
  /\ goroutine[r][e] = "attach"
  /\ IF AttachesTo(e)
     THEN /\ activeCall' = [activeCall EXCEPT !.recording = e]
          /\ recorder' = [recorder EXCEPT ![e] = "attached"]
     ELSE /\ recorder' = [recorder EXCEPT ![e] = "dropped"]
          /\ UNCHANGED activeCall
  /\ Moves(r, e, "stay")
  /\ UNCHANGED <<networkVars, line, callEventID, watchVars, routeVars, answered>>

\* The prompt, and the wait for the end of the call or for the time to hang up.
Stay(r, e) ==
  /\ goroutine[r][e] = "stay"
  /\ \/ Cancelled(e) /\ Moves(r, e, Exit(r, e))
     \/ settings.hangup /\ Moves(r, e, "ath")
  /\ UNCHANGED <<networkVars, line, activeCall, callEventID, watchVars, routeVars,
                 recorder, answered>>

\* ATH ends what is on the line now, and then the call that is active now.
HangUp(r, e) ==
  /\ goroutine[r][e] = "ath"
  /\ \/ line' = NoLine /\ Moves(r, e, "clear")
     \/ /\ Moves(r, e, Exit(r, e))
        /\ UNCHANGED line
  /\ UNCHANGED <<networkVars, activeCall, callEventID, watchVars, routeVars, recorder,
                 answered>>

ClearAfterHangUp(r, e) ==
  /\ goroutine[r][e] = "clear"
  /\ clearActiveCall
  /\ Moves(r, e, Exit(r, e))
  /\ UNCHANGED <<networkVars, line, callEventID, watchVars, routeVars, answered>>

StopRoute(r, e) ==
  /\ goroutine[r][e] = "stop"
  /\ route' = FALSE /\ routed' = routed \ {<<r, e>>}
  /\ Moves(r, e, "done")
  /\ UNCHANGED <<networkVars, line, activeCall, callEventID, watchVars, warmup, drain,
                 recorder, answered>>

(***************************************************************************)
(* The other goroutines.                                                   *)
(***************************************************************************)

\* prewarmModuleVoiceRoute: the bridge is started, or is not, ...
WarmupStarts(e) ==
  /\ warmup[e] = "starting"
  /\ \/ ~Cancelled(e) /\ route' = TRUE /\ warmup' = [warmup EXCEPT ![e] = "started"]
     \/ UNCHANGED route /\ warmup' = [warmup EXCEPT ![e] = "not started"]
  /\ UNCHANGED <<networkVars, line, activeCall, callEventID, goroutine, watchVars, drain,
                 routed, recorder, answered>>

\* ... and stopped if the call has ended, unless the result is already on its way
\* into the channel, which always has room for it.
WarmupReports(e) ==
  /\ warmup[e] \in {"started", "not started"}
  /\ \/ /\ warmup' = [warmup EXCEPT ![e] = IF @ = "started" THEN "ready" ELSE "failed"]
        /\ UNCHANGED route
     \/ /\ Cancelled(e) /\ warmup' = [warmup EXCEPT ![e] = "gone"]
        /\ route' = (route /\ warmup[e] # "started")
  /\ UNCHANGED <<networkVars, line, activeCall, callEventID, goroutine, watchVars, drain,
                 routed, recorder, answered>>

DrainWarmup(e) ==
  /\ e \in drain /\ warmup[e] \in {"ready", "failed"}
  /\ drain' = drain \ {e}
  /\ warmup' = [warmup EXCEPT ![e] = "taken"]
  /\ route' = (route /\ warmup[e] # "ready")
  /\ UNCHANGED <<networkVars, line, activeCall, callEventID, goroutine, watchVars, routed,
                 recorder, answered>>

\* finishCallRecording: the recorder is waited for, and its file saved.
FinishRecording(e) ==
  /\ recorder[e] = "finishing"
  /\ \E what \in {"saved", "lost"} : recorder' = [recorder EXCEPT ![e] = what]
  /\ UNCHANGED <<networkVars, line, activeCall, callEventID, goroutine, watchVars,
                 routeVars, answered>>

\* hangupActiveCall: a look, ATH, and the end of whatever call is active then.
PressHangUp ==
  /\ activeCall # NoCall /\ hanger = "idle"
  /\ hanger' = "ath"
  /\ presses < settings.presses /\ presses' = presses + 1
  /\ UNCHANGED <<settings, arrived, swapped, line, activeCall, callEventID, goroutine, poller,
                 callbacks, routeVars, recorder, answered>>

PressedHangUp ==
  /\ hanger = "ath"
  /\ \/ line' = NoLine /\ hanger' = "clear"
     \/ hanger' = "idle" /\ UNCHANGED line
  /\ UNCHANGED <<networkVars, activeCall, callEventID, goroutine, poller, callbacks,
                 routeVars, recorder, answered>>

ClearPressed ==
  /\ hanger = "clear" /\ hanger' = "idle"
  /\ clearActiveCall
  /\ UNCHANGED <<networkVars, line, callEventID, goroutine, poller, callbacks, routeVars,
                 answered>>

CallNext ==
  \/ CallArrives \/ CallEnds \/ Poll \/ PollSeen
  \/ \E what \in callbacks : Callback(what)
  \/ PressHangUp \/ PressedHangUp \/ ClearPressed
  \/ \E e \in Event :
       \/ Delay(e) \/ Lead(e) \/ Check(e) \/ PressAnswer(e)
       \/ WarmupStarts(e) \/ WarmupReports(e) \/ DrainWarmup(e) \/ FinishRecording(e)
       \/ \E r \in Role :
            \/ Claim(r, e) \/ Answer(r, e) \/ AnswerFails(r, e)
            \/ TakeRoute(r, e) \/ Settle(r, e) \/ StartRecorder(r, e)
            \/ AttachRecorder(r, e) \/ Stay(r, e) \/ HangUp(r, e)
            \/ ClearAfterHangUp(r, e) \/ StopRoute(r, e)

CallSpec == CallInit /\ [][CallNext]_callVars

-----------------------------------------------------------------------------
Handling == {"ata", "answered", "settle", "record", "attach", "stay", "ath", "clear"}

\* A call is answered and handled by the automation or by the page, not by both.
OneWorkflow ==
  \A e \in Event : ~(goroutine["auto"][e] \in Handling /\ goroutine["page"][e] \in Handling)

\* As long as no call came while an earlier one was still being handled, the
\* automation has answered only numbers of the allow list.  (When one did, the
\* number that was looked at may be that of the call before.)
QuietAnswersAllowed == ~swapped => \A n \in answered : numberAllowed(Number[n])

\* A recorder that was given to a call is in the hands of the call that is active,
\* whose end finishes it: none is forgotten, none is given to the next call.
RecordersOwned ==
  \A e \in Event : recorder[e] = "attached" <=> activeCall.recording = e

\* Calls are kept apart: one workflow for each, allowed numbers answered, and recorders
\* finished with the call they belong to.
CallsKept == OneWorkflow /\ QuietAnswersAllowed /\ RecordersOwned

AllDone ==
  /\ activeCall = NoCall
  /\ \A r \in Role, e \in Event : goroutine[r][e] \in {"none", "done"}
  /\ \A e \in Event : /\ warmup[e] \notin {"starting", "started", "not started"}
                      /\ e \in drain => warmup[e] = "gone"

\* The bridge is stopped when the active call ends (module_voice_route.go:17): once
\* no call is active and every goroutine is through, it does not run.
BridgeStopped == AllDone => ~route
=============================================================================
