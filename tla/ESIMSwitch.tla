----------------------------- MODULE ESIMSwitch -----------------------------
(***************************************************************************)
(* The operations of the eSIM manager that change the active profile or    *)
(* its name (internal/esim/manager.go): SwitchProfileWithResult,           *)
(* DisableProfile and RenameProfile, with the hooks of the layer above,    *)
(* the phases they report, the APDU barrier and the LPA client.  They run  *)
(* under opMu, but the failure hook runs after the unlock and the success  *)
(* hook in a goroutine of its own, one second later.                       *)
(***************************************************************************)
EXTENDS Naturals, Sequences

CONSTANTS
  Op,           \* calls, in the order of any scheduler; kind says which method
  Aka,          \* a holder of the card outside the eSIM manager (USIM AKA, SMSC)
  Nobody,
  MaxTokens     \* bound on the switch tokens that the layer above hands out

VARIABLES
  kind,      \* [Op -> "switch", "disable", "rename"]
  at,        \* [Op -> where the call is]
  opMu,      \* the call that holds the operation lock
  token,     \* [Op -> its switch token, 0 before onBeforeSwitch]
  tokens,    \* tokens handed out
  client,    \* [Op -> "none", "open", "closed", "leaked"]: the LPA client
  attempt,   \* [Op -> EnableProfile commands answered with CatBusy]
  answer,    \* [Op -> "none", "ok", "reset", "error"]: of the card to the command
  device,    \* who keeps others away from the card: a call's barrier, Aka, Nobody
  hooks,     \* [tokens -> the hooks called for it]
  phases,    \* [tokens -> the phases reported for it]
  recovering \* tokens whose post-switch goroutine still waits

switchVars == <<kind, at, opMu, token, tokens, client, attempt, answer, device,
                hooks, phases, recovering>>

MaxCatBusyRetries == 3

Token == 1..MaxTokens

\* What the constants are: the calls, Aka and Nobody are told apart.
ASSUME SwitchAssumption ==
  /\ Aka \notin Op /\ Nobody \notin Op /\ Aka # Nobody
  /\ MaxTokens \in Nat

SwitchInit ==
  /\ kind \in [Op -> {"switch", "disable", "rename"}]
  /\ at = [o \in Op |-> "idle"] /\ opMu = Nobody
  /\ token = [o \in Op |-> 0] /\ tokens = 0
  /\ client = [o \in Op |-> "none"]
  /\ attempt = [o \in Op |-> 0] /\ answer = [o \in Op |-> "none"]
  /\ device = Nobody
  /\ hooks = [t \in Token |-> <<>>] /\ phases = [t \in Token |-> <<>>]
  /\ recovering = {}

Goto(o, l) == at' = [at EXCEPT ![o] = l]

\* emitSwitchPhase; without a token the phase belongs to no switch.
Report(o, phase) ==
  phases' = IF token[o] = 0 THEN phases
            ELSE [phases EXCEPT ![token[o]] = Append(@, phase)]

\* opMu.Lock.
Begin(o) ==
  /\ at[o] = "idle" /\ opMu = Nobody
  /\ opMu' = o
  /\ Goto(o, "prepare")
  /\ UNCHANGED <<kind, token, tokens, client, attempt, answer, device, hooks, phases,
                 recovering>>

\* The ICCID is malformed, no eUICC has it, or the LPA client cannot be made.
PrepareFails(o) ==
  /\ at[o] = "prepare"
  /\ Goto(o, "failing")
  /\ UNCHANGED <<kind, opMu, token, tokens, client, attempt, answer, device, hooks,
                 phases, recovering>>

\* The AID is given or found, createLPAWithAID opens a channel.
PrepareSucceeds(o) ==
  /\ at[o] = "prepare"
  /\ client' = [client EXCEPT ![o] = "open"]
  /\ Goto(o, IF kind[o] = "rename" THEN "command" ELSE "announce")
  /\ UNCHANGED <<kind, opMu, token, tokens, attempt, answer, device, hooks, phases,
                 recovering>>

\* onBeforeSwitch hands out a token, and the first phase is reported.
Announce(o) ==
  /\ at[o] = "announce" /\ tokens < MaxTokens
  /\ tokens' = tokens + 1
  /\ token' = [token EXCEPT ![o] = tokens']
  /\ hooks' = [hooks EXCEPT ![tokens'] = <<"before">>]
  /\ phases' = [phases EXCEPT ![tokens'] = <<"apdu_switching">>]
  /\ Goto(o, "barrier")
  /\ UNCHANGED <<kind, opMu, client, attempt, answer, device, recovering>>

\* beginSwitchAPDUBarrier: it waits until nobody uses the card.
EnterBarrier(o) ==
  /\ at[o] = "barrier" /\ device = Nobody
  /\ device' = o
  /\ Goto(o, "command")
  /\ UNCHANGED <<kind, opMu, token, tokens, client, attempt, answer, hooks, phases,
                 recovering>>

BarrierTimeout(o) ==
  /\ at[o] = "barrier"
  /\ Goto(o, "deferred")
  /\ UNCHANGED <<kind, opMu, token, tokens, client, attempt, answer, device, hooks,
                 phases, recovering>>

\* EnableProfile, DisableProfile or SetNickname is answered.
Command(o) ==
  /\ at[o] = "command"
  /\ \E a \in {"ok", "reset", "error"} : answer' = [answer EXCEPT ![o] = a]
  /\ Goto(o, IF kind[o] = "rename" THEN "deferred" ELSE "close")
  /\ UNCHANGED <<kind, opMu, token, tokens, client, attempt, device, hooks, phases,
                 recovering>>

\* Mutant: the barrier is left for the pause.
CatBusyReleases(o) ==
  /\ at[o] = "command" /\ kind[o] = "switch" /\ attempt[o] < MaxCatBusyRetries
  /\ attempt' = [attempt EXCEPT ![o] = @ + 1]
  /\ device' = Nobody
  /\ UNCHANGED <<kind, at, opMu, token, tokens, client, answer, hooks, phases,
                 recovering>>

\* The card toolkit is busy: SwitchProfile alone tries again, three times.
CatBusy(o) ==
  /\ at[o] = "command" /\ kind[o] = "switch"
  /\ IF attempt[o] < MaxCatBusyRetries
     THEN attempt' = [attempt EXCEPT ![o] = @ + 1] /\ UNCHANGED <<at, answer>>
     ELSE /\ answer' = [answer EXCEPT ![o] = "error"]
          /\ Goto(o, "close") /\ UNCHANGED attempt
  /\ UNCHANGED <<kind, opMu, token, tokens, client, device, hooks, phases, recovering>>

\* The channel is closed before the module restarts; a close that fails leaves
\* the client to the deferred close.
CloseBeforeRefresh(o) ==
  /\ at[o] = "close"
  /\ \/ client' = [client EXCEPT ![o] = "closed"]
     \/ UNCHANGED client
  /\ Goto(o, "settle")
  /\ UNCHANGED <<kind, opMu, token, tokens, attempt, answer, device, hooks, phases,
                 recovering>>

\* 200 ms later the barrier is released and the second phase reported.
Settle(o) ==
  /\ at[o] = "settle"
  /\ device' = Nobody
  /\ Report(o, "card_reset_settling")
  /\ Goto(o, "finalize")
  /\ UNCHANGED <<kind, opMu, token, tokens, client, attempt, answer, hooks, recovering>>

\* A reset of the card is what a switch looks like, and no error of a switch.
isExpectedCardResetSignal(o) == answer[o] = "reset"

Succeeded(o) ==
  \/ answer[o] = "ok"
  \/ kind[o] # "rename" /\ isExpectedCardResetSignal(o)

\* Mutant: the goroutine starts before the error is seen.
FinalizeAnyway(o) ==
  /\ at[o] = "finalize"
  /\ recovering' = recovering \cup {token[o]}
  /\ Goto(o, "deferred")
  /\ UNCHANGED <<kind, opMu, token, tokens, client, attempt, answer, device, hooks,
                 phases>>

\* The switch is accepted: the goroutine of the post-switch hook starts.
Finalize(o) ==
  /\ at[o] = "finalize"
  /\ recovering' = IF Succeeded(o) THEN recovering \cup {token[o]} ELSE recovering
  /\ Goto(o, "deferred")
  /\ UNCHANGED <<kind, opMu, token, tokens, client, attempt, answer, device, hooks,
                 phases>>

\* The deferred calls, last registered first: the barrier, the LPA client ...
Deferred(o) ==
  /\ at[o] = "deferred"
  /\ device' = IF device = o THEN Nobody ELSE device
  /\ IF client[o] = "open"
     THEN \E s \in {"closed", "leaked"} : client' = [client EXCEPT ![o] = s]
     ELSE UNCHANGED client
  /\ Goto(o, IF Succeeded(o) THEN "unlock" ELSE "failing")
  /\ UNCHANGED <<kind, opMu, token, tokens, attempt, answer, hooks, phases, recovering>>

\* ... the failed phase ...
Failing(o) ==
  /\ at[o] = "failing"
  /\ IF kind[o] = "rename" THEN UNCHANGED phases ELSE Report(o, "failed")
  /\ Goto(o, "unlock")
  /\ UNCHANGED <<kind, opMu, token, tokens, client, attempt, answer, device, hooks,
                 recovering>>

\* Mutant: a failure at the barrier is not reported.
UnlockAfterBarrier(o) ==
  /\ at[o] = "unlock"
  /\ opMu' = Nobody
  /\ Goto(o, IF ~Succeeded(o) /\ answer[o] # "none" THEN "report" ELSE "over")
  /\ UNCHANGED <<kind, token, tokens, client, attempt, answer, device, hooks, phases,
                 recovering>>

\* ... the lock, and with it notifyWriteDone ...
Unlock(o) ==
  /\ at[o] = "unlock"
  /\ opMu' = Nobody
  /\ Goto(o, IF ~Succeeded(o) /\ token[o] # 0 THEN "report" ELSE "over")
  /\ UNCHANGED <<kind, token, tokens, client, attempt, answer, device, hooks, phases,
                 recovering>>

\* ... and onSwitchFailed, outside of the lock.
ReportFailure(o) ==
  /\ at[o] = "report"
  /\ hooks' = [hooks EXCEPT ![token[o]] = Append(@, "failed")]
  /\ Goto(o, "over")
  /\ UNCHANGED <<kind, opMu, token, tokens, client, attempt, answer, device, phases,
                 recovering>>

\* finishPostSwitchHook, after postSwitchMinDelay.
PostSwitch(t) ==
  /\ t \in recovering
  /\ recovering' = recovering \ {t}
  /\ hooks' = [hooks EXCEPT ![t] = Append(@, "after")]
  /\ UNCHANGED <<kind, at, opMu, token, tokens, client, attempt, answer, device, phases>>

\* An authentication, or an SMSC access, comes and goes; the barrier blocks both.
AkaEnters ==
  /\ device = Nobody
  /\ device' = Aka
  /\ UNCHANGED <<kind, at, opMu, token, tokens, client, attempt, answer, hooks, phases,
                 recovering>>

AkaLeaves ==
  /\ device = Aka
  /\ device' = Nobody
  /\ UNCHANGED <<kind, at, opMu, token, tokens, client, attempt, answer, hooks, phases,
                 recovering>>

Step(o) ==
  \/ Begin(o) \/ PrepareFails(o) \/ PrepareSucceeds(o) \/ Announce(o)
  \/ EnterBarrier(o) \/ BarrierTimeout(o) \/ Command(o) \/ CatBusy(o)
  \/ CloseBeforeRefresh(o) \/ Settle(o) \/ Finalize(o) \/ Deferred(o) \/ Failing(o)
  \/ Unlock(o) \/ ReportFailure(o)

SwitchNext ==
  \/ \E o \in Op : Step(o)
  \/ \E t \in Token : PostSwitch(t)
  \/ AkaEnters \/ AkaLeaves

SwitchSpec == SwitchInit /\ [][SwitchNext]_switchVars

----------------------------------------------------------------------------
\* Whatever fails, an operation that is over holds neither the lock nor the barrier, and its channel on the card is closed
\* unless the card refused to; the failure and the success of one switch are
\* never both reported, and neither is lost.
NothingLeftBehind ==
  \A o \in Op :
    at[o] = "over" =>
      /\ opMu # o /\ device # o /\ client[o] # "open"
      /\ token[o] # 0 =>
           LET h == hooks[token[o]] IN
             IF token[o] \in recovering THEN h = <<"before">>
             ELSE h = <<"before", IF Succeeded(o) THEN "after" ELSE "failed">>

\* While the command that replaces the profile may be in the card, until the
\* channel is closed, nobody authenticates: neither before the first attempt nor
\* in the pauses between attempts.
QuietWhileSwitching ==
  \A o \in Op :
    at[o] \in {"command", "close", "settle"} /\ kind[o] # "rename" => device = o

\* The phases of a switch end with a verdict that its hooks confirm: a switch
\* that was reported as failed is not followed by the hook of a success, and the
\* hook of a success is called only for a card that settled.
PhasesAgreeWithHooks ==
  \A t \in 1..tokens :
    /\ phases[t] \in {<<"apdu_switching">>, <<"apdu_switching", "card_reset_settling">>,
                      <<"apdu_switching", "failed">>,
                      <<"apdu_switching", "card_reset_settling", "failed">>}
    /\ LET last == phases[t][Len(phases[t])]
           called == {hooks[t][i] : i \in DOMAIN hooks[t]}
       IN /\ "after" \in called => last = "card_reset_settling"
          /\ "failed" \in called => last = "failed"

\* What a switch leaves behind, and what it tells of itself: nothing, and its end once.
SwitchToldOnce == NothingLeftBehind /\ PhasesAgreeWithHooks
=============================================================================
