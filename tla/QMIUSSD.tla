------------------------------- MODULE QMIUSSD -------------------------------
(***************************************************************************)
(* USSD over QMI (internal/backend/qmi_backend_ussd.go).  Requests take     *)
(* turns under ussdMu; what the network says comes through callbacks into   *)
(* three channels of capacity one, which a request drains before it is      *)
(* sent.  None of the three names the request it belongs to.                *)
(*                                                                          *)
(* The modem has one session at a time.  Its indications are handed on in   *)
(* order by the emitter of the driver, which may lag behind the answers to  *)
(* requests.                                                                *)
(***************************************************************************)
EXTENDS Naturals, Sequences

CONSTANTS
  Request,     \* one call of ExecuteUSSD each
  Absent       \* not a request: an empty channel, nobody, nothing

ASSUME RequestAssumption == Absent \notin Request

VARIABLES
  phase,       \* per request: where it is
  outcome,     \* per request: what its caller was given
  callbacks,   \* ussdOnce and ussdInitErr: "unset", "set", "failed"
  ussdMu,      \* the request that holds the mutex
  ussdAwaitRelease,
  ussdResult, ussdErr, ussdRelease,  \* the channels: whose indication is inside
  session,     \* the request whose session the modem has
  replied,     \* that session has had its answer from the network
  events,      \* indications on their way to the callbacks
  domain,      \* service and voice domain the modem prefers
  quiet        \* history: the requests that began when no earlier session was left

ussdVars == <<phase, outcome, callbacks, ussdMu, ussdAwaitRelease, ussdResult, ussdErr,
              ussdRelease, session, replied, events, domain, quiet>>

\* A modem that prefers circuit switching, one that is packet only, and one
\* whose system selection does not say, with the voice configuration beside it.
InitialSelection ==
  {[service |-> "CSPS", voice |-> "CSPreferred"],
   [service |-> "PSOnly", voice |-> "unsaid"]}

USSDInit ==
  /\ phase = [r \in Request |-> "idle"]
  /\ outcome = [r \in Request |-> <<"none">>]
  /\ callbacks = "unset" /\ ussdMu = Absent /\ ussdAwaitRelease = FALSE
  /\ ussdResult = Absent /\ ussdErr = Absent /\ ussdRelease = Absent
  /\ session = Absent /\ replied = FALSE /\ events = <<>>
  /\ domain \in InitialSelection
  /\ quiet = {}

channelVars == <<ussdResult, ussdErr, ussdRelease>>
networkVars == <<session, replied, events>>

Leave(r, what) ==
  /\ phase' = [phase EXCEPT ![r] = "ended"]
  /\ outcome' = [outcome EXCEPT ![r] = what]
  /\ ussdMu' = Absent

\* initUSSDCallbacks runs once; what it ends with stays.
RegisterCallbacks(r, ok) ==
  /\ phase[r] = "idle"
  /\ callbacks' = IF callbacks # "unset" THEN callbacks
                  ELSE IF ok THEN "set" ELSE "failed"
  /\ phase' = [phase EXCEPT ![r] = IF callbacks' = "set" THEN "lock" ELSE "ended"]
  /\ outcome' = [outcome EXCEPT ![r] = IF callbacks' = "set" THEN @ ELSE <<"error">>]
  /\ UNCHANGED <<ussdMu, ussdAwaitRelease, channelVars, networkVars, domain, quiet>>

\* Mutant: the results are not drained.
resetKeepsResults ==
  /\ UNCHANGED ussdResult /\ ussdErr' = Absent /\ ussdRelease' = Absent

\* resetUSSDChannelsLocked.  A callback that comes between two of the drains
\* leaves what it would leave before the first or after the last of them.
resetUSSDChannels ==
  /\ ussdResult' = Absent /\ ussdErr' = Absent /\ ussdRelease' = Absent

\* Enter: drain; a release that was waiting ends the wait for one; a request is
\* refused while the session of one that timed out has not been released.
Enter(r) ==
  /\ phase[r] = "lock" /\ ussdMu = Absent
  /\ resetUSSDChannels
  /\ ussdAwaitRelease' = (ussdAwaitRelease /\ ussdRelease = Absent)
  /\ IF ussdAwaitRelease'
     THEN Leave(r, <<"refused">>)
     ELSE /\ phase' = [phase EXCEPT ![r] = "prepare"]
          /\ ussdMu' = r
          /\ UNCHANGED outcome
  /\ quiet' = IF session = Absent /\ events = <<>> THEN quiet \cup {r} ELSE quiet
  /\ UNCHANGED <<callbacks, networkVars, domain>>

\* prepareQMIUSSDVoiceState: packet-only preferences are changed to ones that
\* allow circuit switching, for as long as the modem is powered; the voice
\* configuration speaks when the system selection does not.
Prepared(selection, voiceConfig) ==
  LET voice == IF selection.voice = "unsaid" THEN voiceConfig ELSE selection.voice
  IN  [ service |-> "CSPS",
        voice |-> IF voice \in {"PSOnly", "PSPreferred"}
                  THEN "CSPreferred" ELSE selection.voice ]

\* Every failure on the way is logged and the request goes on.
Prepare(r, voiceConfig) ==
  /\ phase[r] = "prepare"
  /\ domain' \in {domain, Prepared(domain, voiceConfig)}
  /\ phase' = [phase EXCEPT ![r] = "nowait"]
  /\ UNCHANGED <<outcome, callbacks, ussdMu, ussdAwaitRelease, channelVars,
                 networkVars, quiet>>

\* The modem takes a request when it has no session and may use the circuit
\* switched domain.
Accept(r) ==
  /\ session = Absent /\ domain.service = "CSPS"
  /\ session' = r /\ replied' = FALSE
  /\ UNCHANGED events

\* The request is sent without waiting for its result, or, where the modem does
\* not know that, with.
Originate(r) ==
  /\ phase[r] \in {"nowait", "sync"} /\ Accept(r)
  /\ phase' = [phase EXCEPT ![r] = "wait"]
  /\ UNCHANGED <<outcome, callbacks, ussdMu, ussdAwaitRelease, channelVars, domain, quiet>>

NoWaitUnsupported(r) ==
  /\ phase[r] = "nowait"
  /\ phase' = [phase EXCEPT ![r] = "sync"]
  /\ UNCHANGED <<outcome, callbacks, ussdMu, ussdAwaitRelease, channelVars, networkVars,
                 domain, quiet>>

\* The answer to a synchronous request can carry the result itself.
OriginateAnswered(r) ==
  /\ phase[r] = "sync" /\ session = Absent /\ domain.service = "CSPS"
  /\ session' = r /\ replied' = TRUE
  /\ Leave(r, <<"result", r>>)
  /\ UNCHANGED <<callbacks, ussdAwaitRelease, channelVars, events, domain, quiet>>

OriginateFails(r) ==
  /\ phase[r] \in {"nowait", "sync"}
  /\ Leave(r, <<"error">>)
  /\ UNCHANGED <<callbacks, ussdAwaitRelease, channelVars, networkVars, domain, quiet>>

\* The time is over before the answer to the request: it may have been accepted.
\* From here to a release no other is sent, and the session is cancelled.
OriginateTimesOut(r) ==
  /\ phase[r] \in {"nowait", "sync"}
  /\ Accept(r) \/ UNCHANGED networkVars
  /\ ussdAwaitRelease' = TRUE
  /\ Leave(r, <<"timeout">>)
  /\ UNCHANGED <<callbacks, channelVars, domain, quiet>>

(***************************************************************************)
(* waitQMIUSSDResult: whichever channel has something, chosen at random.   *)
(***************************************************************************)

WaitResult(r) ==
  /\ phase[r] = "wait" /\ ussdResult # Absent
  /\ ussdResult' = Absent
  /\ Leave(r, <<"result", ussdResult>>)
  /\ UNCHANGED <<callbacks, ussdAwaitRelease, ussdErr, ussdRelease, networkVars, domain,
                 quiet>>

WaitError(r) ==
  /\ phase[r] = "wait" /\ ussdErr # Absent
  /\ ussdErr' = Absent
  /\ Leave(r, <<"failure", ussdErr>>)
  /\ UNCHANGED <<callbacks, ussdAwaitRelease, ussdResult, ussdRelease, networkVars,
                 domain, quiet>>

WaitReleased(r) ==
  /\ phase[r] = "wait" /\ ussdRelease # Absent
  /\ ussdRelease' = Absent /\ ussdAwaitRelease' = FALSE
  /\ Leave(r, <<"released", ussdRelease>>)
  /\ UNCHANGED <<callbacks, ussdResult, ussdErr, networkVars, domain, quiet>>

WaitEnds(r) ==
  /\ phase[r] = "wait"
  /\ ussdAwaitRelease' = TRUE
  /\ Leave(r, <<"timeout">>)
  /\ UNCHANGED <<callbacks, channelVars, networkVars, domain, quiet>>

(***************************************************************************)
(* The network: one answer, then the release; a session that is cancelled  *)
(* is released without one.  A callback puts what it is told into its      *)
(* channel, or drops it when the channel is full.                          *)
(***************************************************************************)

NetworkReplies(kind) ==
  /\ session # Absent /\ ~replied
  /\ replied' = TRUE
  /\ events' = Append(events, <<kind, session>>)
  /\ UNCHANGED <<phase, outcome, callbacks, ussdMu, ussdAwaitRelease, channelVars,
                 session, domain, quiet>>

NetworkReleases ==
  /\ session # Absent
  /\ events' = Append(events, <<"release", session>>)
  /\ session' = Absent /\ replied' = FALSE
  /\ UNCHANGED <<phase, outcome, callbacks, ussdMu, ussdAwaitRelease, channelVars,
                 domain, quiet>>

Offer(channel, r) == IF channel = Absent THEN r ELSE channel

Callback ==
  /\ events # <<>>
  /\ events' = Tail(events)
  /\ LET kind == Head(events)[1]
         r == Head(events)[2]
     IN  /\ ussdResult' = IF kind = "result" THEN Offer(ussdResult, r) ELSE ussdResult
         /\ ussdErr' = IF kind = "failure" THEN Offer(ussdErr, r) ELSE ussdErr
         /\ ussdRelease' = IF kind = "release" THEN Offer(ussdRelease, r)
                           ELSE ussdRelease
  /\ UNCHANGED <<phase, outcome, callbacks, ussdMu, ussdAwaitRelease, session, replied,
                 domain, quiet>>

USSDNext ==
  \/ \E r \in Request :
       \/ \E ok \in BOOLEAN : RegisterCallbacks(r, ok)
       \/ \E voiceConfig \in {"CSPreferred", "PSPreferred"} : Prepare(r, voiceConfig)
       \/ Enter(r) \/ Originate(r) \/ NoWaitUnsupported(r) \/ OriginateAnswered(r)
       \/ OriginateFails(r) \/ OriginateTimesOut(r)
       \/ WaitResult(r) \/ WaitError(r) \/ WaitReleased(r) \/ WaitEnds(r)
  \/ \E kind \in {"result", "failure"} : NetworkReplies(kind)
  \/ NetworkReleases \/ Callback

USSDSpec == USSDInit /\ [][USSDNext]_ussdVars

-----------------------------------------------------------------------------
Given(r) ==
  outcome[r][1] \in {"result", "failure", "released"} => outcome[r] = <<outcome[r][1], r>>

\* A caller of ExecuteUSSD is given the answer to its own request, or is told of its own
\* release (what the test of the timed-out session calls a fresh result), when it began
\* with no earlier session left and no indication of one under way: whatever lies in the
\* channels has been drained, and nobody else's indication can come while the request
\* holds the mutex.
QuietOwnAnswer == \A r \in quiet : Given(r)
=============================================================================
