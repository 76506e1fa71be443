------------------------------ MODULE QMIReads ------------------------------
(***************************************************************************)
(* What the QMI backend says of the modem: the registration, the signal    *)
(* and the identities.  A snapshot, kept by the QMI core from what the     *)
(* modem indicates, is looked at first, and the modem is asked when it has *)
(* nothing or not enough; between two of those looks the modem goes on.    *)
(***************************************************************************)
EXTENDS Naturals

CONSTANTS
  Network,      \* [reg, mcc]: the registrations a modem can be in
  MaxChanges,   \* bound: how often the registration changes
  MaxTime,      \* bound: how many half minutes pass
  MaxFailures,  \* bound: how many requests fail
  NoReading

ASSUME ReadingAssumption ==
  /\ Network \subseteq [reg : STRING, mcc : Nat]
  /\ MaxChanges \in Nat /\ MaxTime \in Nat /\ MaxFailures \in Nat

VARIABLES
  reading,      \* what is asked for: serving, signal or identity
  net,          \* the modem: [v, reg, mcc], numbered
  card,         \* the number of the card that is in
  time,
  snapshot,     \* per kind of reading: NoReading, or its value and when it came
  observer,     \* the step of the reading in progress
  serving,      \* GetServingSystem: the variable of that name
  ss,           \* the answer, with what the properties ask of it
  rssi, rsrp,   \* GetSignalInfo: which fields have a value
  identity,     \* GetIMSI, GetICCID: the card they speak of
  failures, failed    \* how many requests failed, and whether one of this reading did

readVars == <<reading, net, card, time, snapshot, observer, serving, ss, rssi, rsrp, identity,
              failures, failed>>

Kinds == [serving |-> {"serving"}, signal |-> {"nas", "strength"}, identity |-> {"identities"}]

ReadInit ==
  /\ reading \in DOMAIN Kinds
  /\ \E n \in Network : net = [v |-> 0, reg |-> n.reg, mcc |-> n.mcc]
  /\ card = 0 /\ time = 0
  /\ snapshot = [k \in Kinds[reading] |-> NoReading]
  /\ observer = "idle" /\ serving = NoReading /\ ss = NoReading
  /\ rssi = FALSE /\ rsrp = FALSE /\ identity = NoReading
  /\ failures = 0 /\ failed = FALSE

(***************************************************************************)
(* The modem, and the indications the snapshot is made of.                 *)
(***************************************************************************)
NetworkChanges ==
  /\ reading = "serving" /\ net.v < MaxChanges
  /\ \E n \in Network : net' = [v |-> net.v + 1, reg |-> n.reg, mcc |-> n.mcc]
  /\ UNCHANGED <<reading, card, time, snapshot, observer, serving, ss, rssi, rsrp, identity, failures, failed>>

Indication(k) ==
  /\ snapshot' = [snapshot EXCEPT ![k] =
       [value |-> IF k = "identities" THEN card ELSE net, at |-> time]]
  /\ UNCHANGED <<reading, net, card, time, observer, serving, ss, rssi, rsrp, identity, failures, failed>>

CardChanges ==
  /\ reading = "identity" /\ card = 0 /\ card' = 1
  /\ UNCHANGED <<reading, net, time, snapshot, observer, serving, ss, rssi, rsrp, identity, failures, failed>>

Tick ==
  /\ reading = "serving" /\ time < MaxTime /\ time' = time + 1
  /\ UNCHANGED <<reading, net, card, snapshot, observer, serving, ss, rssi, rsrp, identity, failures, failed>>

Live(v) ==   \* a request to the modem that is answered, or one that is not
  \/ v' = net /\ UNCHANGED <<reading, failures, failed>>
  \/ /\ failures < MaxFailures /\ failures' = failures + 1 /\ failed' = TRUE
     /\ UNCHANGED v

(***************************************************************************)
(* GetServingSystem.                                                       *)
(***************************************************************************)

\* Mutant: only a snapshot that contradicts itself is checked.
StaleNever(s) == s.value.reg = "not registered" /\ s.value.mcc # 0

\* A snapshot older than thirty seconds, or of no registration in a network.
Doubtful(s) ==
  \/ time - s.at > 1
  \/ s.value.reg = "not registered" /\ s.value.mcc # 0

BeginServing ==
  /\ reading = "serving" /\ observer = "idle"
  /\ failed' = FALSE
  /\ LET s == snapshot["serving"]
     IN /\ ss' = [since |-> net.v, age |-> IF s = NoReading THEN 0 ELSE time - s.at]
        /\ IF s = NoReading THEN serving' = NoReading /\ observer' = "must ask"
           ELSE /\ serving' = s.value
                /\ observer' = IF Doubtful(s) THEN "ask" ELSE "map"
  /\ UNCHANGED <<reading, net, card, time, snapshot, rssi, rsrp, identity, failures>>

\* A live answer replaces the snapshot; without one the snapshot is all there is.
AskServing ==
  /\ observer \in {"ask", "must ask"}
  /\ Live(serving)
  /\ observer' = IF observer = "must ask" /\ serving' = NoReading THEN "idle" ELSE "map"
  /\ UNCHANGED <<reading, net, card, time, snapshot, ss, rssi, rsrp, identity>>

MapServing ==
  /\ observer = "map"
  /\ ss' = [since |-> ss.since, age |-> ss.age, of |-> serving.v, reg |-> serving.reg, mcc |-> serving.mcc,
            operatorOf |-> serving.v]
  /\ observer' = IF serving.reg = "registered" /\ serving.mcc = 0 THEN "retry" ELSE "served"
  /\ UNCHANGED <<reading, net, card, time, snapshot, serving, rssi, rsrp, identity, failures, failed>>

\* The second look is for the operator only.
RetryOperator ==
  /\ observer = "retry"
  /\ Live(serving)
  /\ ss' = [ss EXCEPT !.mcc = serving'.mcc, !.operatorOf = serving'.v]
  /\ observer' = "served"
  /\ UNCHANGED <<reading, net, card, time, snapshot, rssi, rsrp, identity>>

Served ==
  /\ observer = "served" /\ observer' = "idle" /\ serving' = NoReading /\ ss' = NoReading /\ failed' = FALSE
  /\ UNCHANGED <<reading, net, card, time, snapshot, rssi, rsrp, identity, failures>>

(***************************************************************************)
(* GetSignalInfo: what the snapshot has is the answer, if it has anything. *)
(***************************************************************************)
BeginSignal ==
  /\ reading = "signal" /\ observer = "idle" /\ failed' = FALSE
  /\ rsrp' = (snapshot["nas"] # NoReading \/ snapshot["strength"] # NoReading)
  /\ rssi' = (snapshot["strength"] # NoReading)
  /\ observer' = IF rsrp' THEN "signalled" ELSE "ask signal"
  /\ UNCHANGED <<reading, net, card, time, snapshot, serving, ss, identity, failures>>

Asked(f) ==
  \/ f' = TRUE /\ UNCHANGED <<reading, failures, failed>>
  \/ failures < MaxFailures /\ failures' = failures + 1 /\ failed' = TRUE /\ UNCHANGED f

AskSignal ==
  /\ \/ observer = "ask signal" /\ Asked(rsrp) /\ observer' = "ask strength" /\ UNCHANGED rssi
     \/ observer = "ask strength" /\ Asked(rssi) /\ observer' = "signalled"
        /\ rsrp' = (rsrp \/ rssi')
  /\ UNCHANGED <<reading, net, card, time, snapshot, serving, ss, identity>>

Signalled ==
  /\ observer = "signalled" /\ observer' = "idle" /\ rsrp' = FALSE /\ rssi' = FALSE /\ failed' = FALSE
  /\ UNCHANGED <<reading, net, card, time, snapshot, serving, ss, identity, failures>>

(***************************************************************************)
(* GetIMSI, GetICCID and their live forms.                                 *)
(***************************************************************************)
GetIdentity(live) ==
  /\ reading = "identity" /\ observer = "idle"
  /\ identity' = IF ~live /\ snapshot["identities"] # NoReading
                 THEN [of |-> snapshot["identities"].value, live |-> live, then |-> card]
                 ELSE [of |-> card, live |-> live, then |-> card]
  /\ UNCHANGED <<reading, net, card, time, snapshot, observer, serving, ss, rssi, rsrp, failures, failed>>

ReadNext ==
  \/ NetworkChanges \/ CardChanges \/ Tick \/ \E k \in Kinds[reading] : Indication(k)
  \/ BeginServing \/ AskServing \/ MapServing \/ RetryOperator \/ Served
  \/ BeginSignal \/ AskSignal \/ Signalled
  \/ \E live \in BOOLEAN : GetIdentity(live)

ReadSpec == ReadInit /\ [][ReadNext]_readVars

-----------------------------------------------------------------------------
\* A registration that the modem had left before the question is one that the snapshot
\* got in the last half minute, or one that could not be asked for; and one that
\* contradicts itself is shown only when the modem says so.
ServingTrue ==
  observer = "served" =>
    /\ ss.of >= ss.since \/ ss.age <= 1 \/ failed
    /\ ss.reg = "not registered" /\ ss.mcc # 0 => ss.of >= ss.since \/ failed

\* The operator is that of the registration, or one that was found at a second look
\* because the registration had none.
OperatorOfIt ==
  observer = "served" /\ ss.operatorOf # ss.of => ss.reg = "registered" /\ ss.operatorOf > ss.of

\* A signal without any value means that both requests for one failed.
SignalKnown == observer = "signalled" /\ ~rsrp => failures >= 2

\* A live identity is that of the card that is in.
LiveIsLive == identity # NoReading /\ identity.live => identity.of = identity.then

\* What the backend says of the modem is so, or was.
ReadingsTrue == ServingTrue /\ OperatorOfIt /\ SignalKnown /\ LiveIsLive
=============================================================================
