----------------------------- MODULE USBBridge ------------------------------
(***************************************************************************)
(* The handle of the private USB AT interface in the desktop application,  *)
(* and what hangs on it: no lock guards app.usbAT, which every caller of   *)
(* runATCommand opens when there is none and closes when a command says    *)
(* the module is gone; the eSIM manager is made at the first open and      *)
(* forgets what it read when the module is detached; switchESIM restarts   *)
(* the module so that it loads the new profile; esimHealth puts what the   *)
(* manager remembers beside what the module says.  A time that passes (the *)
(* two seconds after a detach) may be any time.                            *)
(***************************************************************************)
EXTENDS Naturals

CONSTANTS
  Worker,       \* callers that run a command now and then
  Profile,      \* profiles of the cards that are plugged in
  MaxConn,      \* bound: how often the module appears on the bus
  MaxSwitches,  \* bound: switches
  MaxBusFaults     \* bound: commands that time out, resets of the bus

ASSUME BridgeAssumption ==
  MaxConn \in Nat /\ Worker \cap {"health", "switch"} = {} /\ "unknown" \notin Profile

VARIABLES
  present, conn,          \* the module is on the bus, for the conn-th time
  enabled, session,       \* the profile of its card, the one it has loaded
  restarting,
  handles, usbAT,         \* per handle: the connection it was opened on, 0 once closed
  backoff,                \* "none", or why the bridge was detached
  manager, overview,      \* the eSIM manager, and the profile its cache shows as active
  at, opening, failed,    \* per caller: its place, the connection it saw, its error
  old,                    \* ghost: per caller, the handle it used, 0 once there is none
  active, iccid,          \* what esimHealth has read
  told,                   \* the last answer of switchESIM: "none", "requested", "warned"
  switches, busFaults,
  quiet,                  \* ghost: the open handle was the module's when esimHealth began,
                          \* and nothing came between its readings
  stale,                  \* ghost: a caller detached a handle that was not the one it used
  glitched                \* ghost: a connection ended and the module did not restart

busVars == <<present, conn, enabled, session, restarting>>
appVars == <<handles, usbAT, backoff, manager, overview>>
callerVars == <<at, opening, old, failed>>
bridgeVars == <<busVars, appVars, callerVars, active, iccid, told, switches, busFaults, quiet,
                stale, glitched>>

Caller == Worker \cup {"health", "switch"}
Handle == 1..(MaxConn + 1)
Unknown == "unknown"

BridgeInit ==
  /\ present \in BOOLEAN /\ conn = 1 /\ enabled \in Profile /\ session = enabled
  /\ restarting = FALSE
  /\ handles = [h \in Handle |-> 0] /\ usbAT = 0 /\ backoff = "none"
  /\ manager = FALSE /\ overview = Unknown
  /\ at = [c \in Caller |-> "idle"] /\ opening = [c \in Caller |-> 0]
  /\ old = [c \in Caller |-> 0] /\ failed = [c \in Caller |-> "none"]
  /\ active = Unknown /\ iccid = Unknown /\ told = "none"
  /\ switches = 0 /\ busFaults = 0
  /\ quiet = FALSE /\ stale = FALSE /\ glitched = FALSE

Goes(c, l) == at' = [at EXCEPT ![c] = l]
CommandReturns(c) ==
  /\ Goes(c, "idle")
  /\ opening' = [opening EXCEPT ![c] = 0] /\ old' = [old EXCEPT ![c] = 0]
  /\ failed' = [failed EXCEPT ![c] = "none"]

(***************************************************************************)
(* The module.                                                             *)
(***************************************************************************)

\* It is pulled out, or restarts; or the bus is reset and it goes on as it was.
Disappears ==
  /\ present /\ present' = FALSE /\ quiet' = FALSE
  /\ conn < MaxConn
  /\ \/ restarting' = TRUE /\ UNCHANGED <<busFaults, glitched>>
     \/ /\ ~restarting /\ busFaults < MaxBusFaults /\ busFaults' = busFaults + 1
        /\ glitched' = TRUE /\ UNCHANGED restarting
  /\ UNCHANGED <<conn, enabled, session, appVars, callerVars, active, iccid, told, switches,
                 stale>>

\* Another module may have taken its place, if it lost its power.
Appears ==
  /\ ~present
  /\ present' = TRUE /\ conn' = conn + 1 /\ restarting' = FALSE
  /\ IF restarting THEN enabled' \in Profile /\ session' = enabled'
     ELSE UNCHANGED <<enabled, session>>
  /\ quiet' = FALSE
  /\ UNCHANGED <<appVars, callerVars, active, iccid, told, switches, busFaults, stale,
                 glitched>>

\* The connection a handle stands for.
ConnOf(h) == IF h = 0 THEN 0 ELSE handles[h]
Alive(h) == present /\ ConnOf(h) = conn

(***************************************************************************)
(* ensureUSBAT.                                                            *)
(***************************************************************************)
Then(c) == CASE c \in Worker -> "poll" [] c = "health" -> "status" [] OTHER -> "restart"
BeginCommand(c) ==
  /\ opening' = [opening EXCEPT ![c] = IF usbAT = 0 THEN conn ELSE 0]
  /\ Goes(c, IF usbAT = 0 THEN "open" ELSE Then(c))
  /\ UNCHANGED <<old, failed>>

\* The manager is made once, and stays.
installESIMManager == manager' = TRUE

\* The interface of a connection can be claimed by one handle at a time.
CanClaim(c) == present /\ opening[c] = conn /\ \A h \in Handle : handles[h] # conn

OpenHandle(c) ==
  /\ at[c] = "open"
  /\ CanClaim(c)
  /\ \E h \in Handle : /\ handles[h] = 0 /\ \A g \in Handle : g < h => handles[g] # 0
                       /\ handles' = [handles EXCEPT ![h] = conn] /\ usbAT' = h
                       /\ old' = [d \in Caller |-> IF old[d] = h THEN 0 ELSE old[d]]
  /\ backoff' = "none" /\ installESIMManager
  /\ Goes(c, Then(c)) /\ opening' = [opening EXCEPT ![c] = 0]
  /\ UNCHANGED <<busVars, overview, failed, active, iccid, told, switches, busFaults,
                 quiet, stale, glitched>>

\* What the caller reads when the bridge is not there: of the cool-down, its reason.
OpenFails(c, why) ==
  /\ at[c] = "open"
  /\ \/ why = backoff
     \/ why = "not open"       \* not found, busy, or the probe was not answered

(***************************************************************************)
(* Command, and what follows when it says that the module is gone.         *)
(***************************************************************************)
Outcome(result) ==
  CASE result = "answered" -> Alive(usbAT) /\ UNCHANGED busFaults
    [] result = "timed out" -> /\ Alive(usbAT)
                               /\ busFaults < MaxBusFaults /\ busFaults' = busFaults + 1
    [] result = "no device" -> ConnOf(usbAT) # 0 /\ ~Alive(usbAT) /\ UNCHANGED busFaults
    [] result = "not open" -> ConnOf(usbAT) = 0 /\ UNCHANGED busFaults
Errors == {"timed out", "no device", "not open"}

isUSBATGoneError(why) == why \in {"timed out", "no device"}
CommandFails(c, why) ==
  IF isUSBATGoneError(why)
  THEN /\ failed' = [failed EXCEPT ![c] = why] /\ old' = [old EXCEPT ![c] = usbAT]
       /\ Goes(c, "gone") /\ UNCHANGED opening
  ELSE CommandReturns(c)

Closed(h) == [handles EXCEPT ![h] = 0]

\* resetUSBATIfGone: the handle that is there now, whatever handle the error is of.
CloseHandle(c) ==
  /\ at[c] = "gone"
  /\ IF usbAT = 0 THEN Goes(c, "detached") /\ UNCHANGED <<handles, stale, old>>
     ELSE /\ handles' = Closed(usbAT)
          /\ stale' = (stale \/ usbAT # old[c])
          /\ old' = [old EXCEPT ![c] = usbAT]
          /\ Goes(c, "close")
  /\ UNCHANGED <<busVars, usbAT, backoff, manager, overview, opening, failed, active, iccid,
                 told,
                 switches, busFaults, quiet, glitched>>

\* Mutant: the manager is not told.
NotifyNobody == UNCHANGED overview
NotifyModemReset == overview' = Unknown
MarkDetached(c) ==
  /\ at[c] = "close"
  /\ usbAT' = 0 /\ backoff' = failed[c]
  /\ stale' = (stale \/ usbAT \notin {0, old[c]})
  /\ NotifyModemReset
  /\ Goes(c, "detached")
  /\ UNCHANGED <<busVars, handles, manager, opening, old, failed, active, iccid, told, switches,
                 busFaults, quiet, glitched>>

(***************************************************************************)
(* A poll of the messages or of the calls.                                 *)
(***************************************************************************)
PollModule(c) ==
  /\ \/ at[c] = "idle" /\ BeginCommand(c) /\ UNCHANGED busFaults
     \/ at[c] = "poll" /\ Outcome("answered") /\ CommandReturns(c)
     \/ at[c] = "poll" /\ \E why \in Errors : Outcome(why) /\ CommandFails(c, why)
     \/ at[c] = "detached" /\ CommandReturns(c) /\ UNCHANGED busFaults
     \/ \E why \in Errors : OpenFails(c, why) /\ CommandReturns(c) /\ UNCHANGED busFaults
  /\ UNCHANGED <<busVars, appVars, active, iccid, told, switches, quiet, stale, glitched>>

(***************************************************************************)
(* esimHealth.                                                             *)
(***************************************************************************)
HealthOverview ==
  /\ at["health"] = "idle" /\ manager
  /\ quiet' = Alive(usbAT)
  /\ \/ overview # Unknown /\ active' = overview
     \/ overview = Unknown /\ Alive(usbAT) /\ active' = enabled
  /\ overview' = active'
  /\ BeginCommand("health")
  /\ UNCHANGED <<busVars, handles, usbAT, backoff, manager, iccid, told, switches, busFaults,
                 stale,
                 glitched>>

\* usbATStatus: of its commands only AT+CPIN? must succeed.
StatusRead == iccid' \in {session, Unknown}
HealthReturns == CommandReturns("health") /\ active' = Unknown /\ iccid' = Unknown
HealthStatus ==
  /\ \/ /\ at["health"] = "status" /\ Outcome("answered")
        /\ StatusRead /\ Goes("health", "answered") /\ UNCHANGED <<opening, old, failed,
                                                                   active>>
     \/ /\ at["health"] = "status"
        /\ \E why \in Errors : Outcome(why) /\ CommandFails("health", why)
        /\ UNCHANGED <<iccid, active>>
     \/ at["health"] \in {"detached", "answered"} /\ HealthReturns /\ UNCHANGED busFaults
     \/ \E why \in Errors : OpenFails("health", why) /\ HealthReturns /\ UNCHANGED busFaults
  /\ UNCHANGED <<busVars, appVars, told, switches, quiet, stale, glitched>>

(***************************************************************************)
(* switchESIM.                                                             *)
(***************************************************************************)
SwitchProfile ==
  /\ at["switch"] = "idle" /\ manager /\ switches < MaxSwitches /\ Alive(usbAT)
  /\ switches' = switches + 1
  /\ enabled' \in Profile \ {enabled}
  /\ overview' = IF overview = Unknown THEN Unknown ELSE enabled'
  /\ told' = "none" /\ quiet' = FALSE
  /\ BeginCommand("switch")
  /\ UNCHANGED <<present, conn, session, restarting, handles, usbAT, backoff, manager,
                 active, iccid, busFaults, stale, glitched>>

\* AT+CFUN=1,1, which may be executed though no answer comes.
RestartModule ==
  /\ at["switch"] = "restart"
  /\ \/ /\ Outcome("answered") /\ restarting' = TRUE /\ told' = "requested"
        /\ CommandReturns("switch")
     \/ \E why \in Errors :
          /\ Outcome(why) /\ CommandFails("switch", why)
          /\ restarting' \in {restarting, restarting \/ Alive(usbAT)}
          /\ told' = IF isUSBATGoneError(why) THEN told ELSE "warned"
  /\ UNCHANGED <<present, conn, enabled, session, appVars, active, iccid, switches, quiet,
                 stale,
                 glitched>>

Told(why) == IF why = "no device" THEN "requested" ELSE "warned"
SwitchAnswers ==
  /\ \/ at["switch"] = "detached" /\ told' = Told(failed["switch"])
     \/ \E why \in Errors : OpenFails("switch", why) /\ told' = Told(why)
  /\ CommandReturns("switch")
  /\ UNCHANGED <<busVars, appVars, active, iccid, switches, busFaults, quiet, stale, glitched>>

BridgeNext ==
  \/ Disappears \/ Appears
  \/ \E c \in Caller : OpenHandle(c) \/ CloseHandle(c) \/ MarkDetached(c)
  \/ \E c \in Worker : PollModule(c)
  \/ HealthOverview \/ HealthStatus
  \/ SwitchProfile \/ RestartModule \/ SwitchAnswers

BridgeSpec == BridgeInit /\ [][BridgeNext]_bridgeVars

-----------------------------------------------------------------------------
\* What the manager shows as active is of the module that is there, once the bridge is
\* open on it.
CacheOfThisModule == Alive(usbAT) /\ overview # Unknown => overview = enabled

\* A restart that was reported as requested happens, or was not needed any more.
Loaded == session = enabled \/ restarting \/ ~present
RestartTold == told = "requested" /\ ~glitched => Loaded

\* No handle is left open but the one that is used: one can be lost only by a caller that
\* detaches another than it used.
HandleKept == ~stale => \A h \in Handle : handles[h] # 0 => h = usbAT

\* An answer of esimHealth is of one profile, unless the module was changed before or
\* between its readings.
HealthAgrees ==
  at["health"] = "answered" /\ quiet /\ session = enabled =>
    iccid \in {Unknown, active}

\* The bridge is kept.
BridgeKept == CacheOfThisModule /\ RestartTold /\ HandleKept /\ HealthAgrees
=============================================================================
