-------------------------- MODULE ESIMManagerProofs --------------------------
(***************************************************************************)
(* Proofs about what the eSIM manager does to the profiles of a card, for  *)
(* any calls in any order.                                                 *)
(*                                                                         *)
(* ESIMSwitch, with any number of switch tokens: the invariant says, for   *)
(* each place a call can be at, what it holds and what was told of the     *)
(* switch it has the token of.                                             *)
(*                                                                         *)
(* ESIMNotifications, with any number of profiles and notifications:       *)
(* numbers tell notifications apart, so the list that was read before the  *)
(* change, or the number in the result of a download, leave the            *)
(* operation's own notification as the only one that matches.              *)
(***************************************************************************)
EXTENDS ESIMSwitch, ESIMNotifications, SequenceTheorems, WellFoundedInduction, TLAPS

(***************************************************************************)
(* ESIMSwitch.                                                             *)
(***************************************************************************)
Place == {"idle", "prepare", "announce", "barrier", "command", "close", "settle",
          "finalize", "deferred", "failing", "unlock", "report", "over"}
Hook == {"before", "after", "failed"}
Phase == {"apdu_switching", "card_reset_settling", "failed"}

SwitchTypeOK ==
  /\ kind \in [Op -> {"switch", "disable", "rename"}]
  /\ at \in [Op -> Place]
  /\ opMu \in Op \cup {Nobody}
  /\ tokens \in 0..MaxTokens
  /\ token \in [Op -> 0..tokens]
  /\ client \in [Op -> {"none", "open", "closed", "leaked"}]
  /\ attempt \in [Op -> 0..MaxCatBusyRetries]
  /\ answer \in [Op -> {"none", "ok", "reset", "error"}]
  /\ device \in Op \cup {Aka, Nobody}
  /\ hooks \in [Token -> Seq(Hook)]
  /\ phases \in [Token -> Seq(Phase)]
  /\ recovering \subseteq 1..tokens

----------------------------------------------------------------------------
(* The inductive invariant.                                                *)

\* Places inside the operation lock, and those where the barrier is up.
Locked == Place \ {"idle", "report", "over"}
InCard == {"command", "close", "settle"}

\* The lock and the barrier belong to the one call that is at such a place.
HoldsOwn(o) ==
  /\ opMu = o <=> at[o] \in Locked
  /\ device = o <=> at[o] \in InCard /\ kind[o] # "rename"

\* The client is open only between its creation and the deferred close.
ClientClosed(o) ==
  at[o] \in {"idle", "prepare", "failing", "unlock", "report", "over"} => client[o] # "open"

\* A call has no token before onBeforeSwitch, which a renaming never calls, and no
\* answer before its command; it fails for lack of a good answer.
TokenAtPlace(o) ==
  /\ at[o] \in {"idle", "prepare", "announce"} \/ kind[o] = "rename" => token[o] = 0
  /\ at[o] \in {"barrier", "settle", "close", "finalize", "report"} => token[o] # 0
  /\ at[o] = "command" /\ kind[o] # "rename" => token[o] # 0
  /\ at[o] \in {"announce", "barrier", "close", "settle", "finalize", "report"} =>
       kind[o] # "rename"
  /\ at[o] \in {"idle", "prepare", "announce", "barrier", "command"} => answer[o] = "none"
  /\ at[o] \in {"failing", "report"} => ~Succeeded(o)

Begun == <<"apdu_switching">>
Settled == <<"apdu_switching", "card_reset_settling">>
Failures == {<<"apdu_switching", "failed">>,
             <<"apdu_switching", "card_reset_settling", "failed">>}

\* Neither end of the switch was told to the layer above.
Untold(t) == hooks[t] = <<"before">> /\ t \notin recovering

\* The end was a success: its hook was called, or will be.
Accepted(t) ==
  /\ phases[t] = Settled
  /\ hooks[t] = IF t \in recovering THEN <<"before">> ELSE <<"before", "after">>

\* What hooks and phases tell of the switch of o, place by place.
Story(o) ==
  LET t == token[o] IN
  token[o] # 0 =>
    /\ at[o] \in {"barrier", "command", "close", "settle"} => Untold(t) /\ phases[t] = Begun
    /\ at[o] = "finalize" => Untold(t) /\ phases[t] = Settled
    /\ at[o] \in {"deferred", "unlock", "over"} /\ Succeeded(o) => Accepted(t)
    /\ at[o] \in {"deferred", "failing"} /\ ~Succeeded(o) =>
         Untold(t) /\ phases[t] \in {Begun, Settled}
    /\ at[o] \in {"unlock", "report"} /\ ~Succeeded(o) => Untold(t) /\ phases[t] \in Failures
    /\ at[o] = "over" /\ ~Succeeded(o) =>
         t \notin recovering /\ hooks[t] = <<"before", "failed">> /\ phases[t] \in Failures

\* A token is handed to one call.
TokensOwned ==
  /\ \A o, p \in Op : token[o] = token[p] /\ token[o] # 0 => o = p
  /\ \A t \in 1..tokens : \E o \in Op : token[o] = t

CallInv(o) == HoldsOwn(o) /\ ClientClosed(o) /\ TokenAtPlace(o) /\ Story(o)

SwitchInv == SwitchTypeOK /\ TokensOwned /\ \A o \in Op : CallInv(o)

(* Operators.                                                              *)

LEMMA AppendToOne == \A a, b : Append(<<a>>, b) = <<a, b>>
<1> TAKE a, b
<1> DEFINE S == {a, b}
           r == Append(<<a>>, b)
           t == <<a, b>>
<1>1. <<a>> \in Seq(S) /\ Len(<<a>>) = 1 /\ <<a>>[1] = a /\ b \in S
  OBVIOUS
<1>2. t \in Seq(S) /\ Len(t) = 2 /\ t[1] = a /\ t[2] = b
  OBVIOUS
<1> HIDE DEF S, t
<1>3. r \in Seq(S) /\ Len(r) = 2 /\ r[1] = a /\ r[2] = b
  BY <1>1, AppendProperties
<1> HIDE DEF r
<1>4. \A i \in 1..2 : r[i] = t[i]
  BY <1>2, <1>3
<1>5. r = t
  BY <1>2, <1>3, <1>4, SeqEqual
<1>6. QED
  BY <1>5 DEF r, t

LEMMA AppendToTwo == \A a, b, c : Append(<<a, b>>, c) = <<a, b, c>>
<1> TAKE a, b, c
<1> DEFINE S == {a, b, c}
           r == Append(<<a, b>>, c)
           t == <<a, b, c>>
<1>1. /\ <<a, b>> \in Seq(S) /\ Len(<<a, b>>) = 2
      /\ <<a, b>>[1] = a /\ <<a, b>>[2] = b /\ c \in S
  OBVIOUS
<1>2. t \in Seq(S) /\ Len(t) = 3 /\ t[1] = a /\ t[2] = b /\ t[3] = c
  OBVIOUS
<1> HIDE DEF S, t
<1>3. r \in Seq(S) /\ Len(r) = 3 /\ r[1] = a /\ r[2] = b /\ r[3] = c
  BY <1>1, AppendProperties
<1> HIDE DEF r
<1>4. \A i \in 1..3 : r[i] = t[i]
  BY <1>2, <1>3
<1>5. r = t
  BY <1>2, <1>3, <1>4, SeqEqual
<1>6. QED
  BY <1>5 DEF r, t

\* The sequences that are told, one more entry at a time.
LEMMA Telling ==
  /\ Append(<<"before">>, "after") = <<"before", "after">>
  /\ Append(<<"before">>, "failed") = <<"before", "failed">>
  /\ Append(Begun, "card_reset_settling") = Settled
  /\ Append(Begun, "failed") \in Failures
  /\ Append(Settled, "failed") \in Failures
BY AppendToOne, AppendToTwo DEF Begun, Settled, Failures

LEMMA HeldToken ==
  ASSUME SwitchTypeOK, NEW o \in Op, token[o] # 0
  PROVE  token[o] \in 1..tokens /\ token[o] \in Token
BY SwitchAssumption DEF SwitchTypeOK, Token

----------------------------------------------------------------------------
(* Every step keeps the invariant.                                         *)

\* What p is concerned with stays as it is.
Untouched(p) ==
  /\ kind' = kind /\ at'[p] = at[p] /\ token'[p] = token[p] /\ client'[p] = client[p]
  /\ answer'[p] = answer[p] /\ (opMu' = p <=> opMu = p) /\ (device' = p <=> device = p)
  /\ token[p] # 0 => /\ hooks'[token[p]] = hooks[token[p]]
                     /\ phases'[token[p]] = phases[token[p]]
                     /\ token[p] \in recovering' <=> token[p] \in recovering

LEMMA OthersKeep ==
  ASSUME SwitchInv, NEW p \in Op, Untouched(p)
  PROVE  CallInv(p)'
<1>1. CallInv(p)
  BY DEF SwitchInv
<1>2. Succeeded(p)' <=> Succeeded(p)
  BY DEF Untouched, Succeeded, isExpectedCardResetSignal
<1>3. HoldsOwn(p)' /\ ClientClosed(p)' /\ TokenAtPlace(p)'
  BY <1>1, <1>2 DEF Untouched, CallInv, HoldsOwn, ClientClosed, TokenAtPlace
<1>4. Story(p)'
  BY <1>1, <1>2 DEF Untouched, CallInv, Story, Untold, Accepted
<1>5. QED
  BY <1>3, <1>4 DEF CallInv

LEMMA BeginKeeps ==
  ASSUME SwitchInv, NEW o \in Op, Begin(o)
  PROVE  SwitchInv'
<1>1. CallInv(o) /\ SwitchTypeOK /\ TokensOwned
  BY DEF SwitchInv
<1>2. SwitchTypeOK'
  BY <1>1, SwitchAssumption DEF SwitchTypeOK, Place, Begin, Goto
<1>3. TokensOwned'
  BY <1>1 DEF SwitchTypeOK, TokensOwned, Begin, Goto
<1>4. ASSUME NEW p \in Op, p # o PROVE CallInv(p)'
  <2>1. CallInv(p) /\ (token[p] # 0 => token[p] # token[o])
    BY <1>1, <1>4 DEF SwitchInv, TokensOwned
  <2>2. Untouched(p)
    BY <1>1, <1>4, <2>1, SwitchAssumption DEF Untouched, SwitchTypeOK, Token, CallInv, HoldsOwn,
       Locked, Place, InCard, TokenAtPlace, Begin, Goto
  <2>3. QED
    BY <2>2, OthersKeep
<1>5. HoldsOwn(o)' /\ ClientClosed(o)'
  BY <1>1, SwitchAssumption DEF SwitchTypeOK, CallInv, HoldsOwn, ClientClosed, Locked, Place,
     InCard,
     TokenAtPlace, Begin, Goto
<1>6. TokenAtPlace(o)'
  BY <1>1 DEF SwitchTypeOK, CallInv, TokenAtPlace, Succeeded, isExpectedCardResetSignal, Begin,
     Goto
<1>7. Story(o)'
  BY <1>1 DEF SwitchTypeOK, Token, CallInv, TokenAtPlace, Story, Untold, Accepted, Succeeded,
     isExpectedCardResetSignal, Begin, Goto
<1>8. QED
  BY <1>2, <1>3, <1>4, <1>5, <1>6, <1>7 DEF SwitchInv, CallInv

LEMMA PrepareFailsKeeps ==
  ASSUME SwitchInv, NEW o \in Op, PrepareFails(o)
  PROVE  SwitchInv'
<1>1. CallInv(o) /\ SwitchTypeOK /\ TokensOwned
  BY DEF SwitchInv
<1>2. SwitchTypeOK'
  BY <1>1, SwitchAssumption DEF SwitchTypeOK, Place, PrepareFails, Goto
<1>3. TokensOwned'
  BY <1>1 DEF SwitchTypeOK, TokensOwned, PrepareFails, Goto
<1>4. ASSUME NEW p \in Op, p # o PROVE CallInv(p)'
  <2>1. CallInv(p) /\ (token[p] # 0 => token[p] # token[o])
    BY <1>1, <1>4 DEF SwitchInv, TokensOwned
  <2>2. Untouched(p)
    BY <1>1, <1>4, <2>1, SwitchAssumption DEF Untouched, SwitchTypeOK, Token, CallInv, HoldsOwn,
       Locked, Place, InCard, TokenAtPlace, PrepareFails, Goto
  <2>3. QED
    BY <2>2, OthersKeep
<1>5. HoldsOwn(o)' /\ ClientClosed(o)'
  BY <1>1, SwitchAssumption DEF SwitchTypeOK, CallInv, HoldsOwn, ClientClosed, Locked, Place,
     InCard,
     TokenAtPlace, PrepareFails, Goto
<1>6. TokenAtPlace(o)'
  BY <1>1 DEF SwitchTypeOK, CallInv, TokenAtPlace, Succeeded, isExpectedCardResetSignal,
     PrepareFails, Goto
<1>7. Story(o)'
  BY <1>1 DEF SwitchTypeOK, Token, CallInv, TokenAtPlace, Story, Untold, Accepted, Succeeded,
     isExpectedCardResetSignal, PrepareFails, Goto
<1>8. QED
  BY <1>2, <1>3, <1>4, <1>5, <1>6, <1>7 DEF SwitchInv, CallInv

LEMMA PrepareSucceedsKeeps ==
  ASSUME SwitchInv, NEW o \in Op, PrepareSucceeds(o)
  PROVE  SwitchInv'
<1>1. CallInv(o) /\ SwitchTypeOK /\ TokensOwned
  BY DEF SwitchInv
<1>2. SwitchTypeOK'
  BY <1>1, SwitchAssumption DEF SwitchTypeOK, Place, PrepareSucceeds, Goto
<1>3. TokensOwned'
  BY <1>1 DEF SwitchTypeOK, TokensOwned, PrepareSucceeds, Goto
<1>4. ASSUME NEW p \in Op, p # o PROVE CallInv(p)'
  <2>1. CallInv(p) /\ (token[p] # 0 => token[p] # token[o])
    BY <1>1, <1>4 DEF SwitchInv, TokensOwned
  <2>2. Untouched(p)
    BY <1>1, <1>4, <2>1, SwitchAssumption DEF Untouched, SwitchTypeOK, Token, CallInv, HoldsOwn,
       Locked, Place, InCard, TokenAtPlace, PrepareSucceeds, Goto
  <2>3. QED
    BY <2>2, OthersKeep
<1>5. HoldsOwn(o)' /\ ClientClosed(o)'
  BY <1>1, SwitchAssumption DEF SwitchTypeOK, CallInv, HoldsOwn, ClientClosed, Locked, Place,
     InCard,
     TokenAtPlace, PrepareSucceeds, Goto
<1>6. TokenAtPlace(o)'
  BY <1>1 DEF SwitchTypeOK, CallInv, TokenAtPlace, Succeeded, isExpectedCardResetSignal,
     PrepareSucceeds, Goto
<1>7. Story(o)'
  BY <1>1 DEF SwitchTypeOK, Token, CallInv, TokenAtPlace, Story, Untold, Accepted, Succeeded,
     isExpectedCardResetSignal, PrepareSucceeds, Goto
<1>8. QED
  BY <1>2, <1>3, <1>4, <1>5, <1>6, <1>7 DEF SwitchInv, CallInv

LEMMA EnterBarrierKeeps ==
  ASSUME SwitchInv, NEW o \in Op, EnterBarrier(o)
  PROVE  SwitchInv'
<1>1. CallInv(o) /\ SwitchTypeOK /\ TokensOwned
  BY DEF SwitchInv
<1>2. SwitchTypeOK'
  BY <1>1, SwitchAssumption DEF SwitchTypeOK, Place, EnterBarrier, Goto
<1>3. TokensOwned'
  BY <1>1 DEF SwitchTypeOK, TokensOwned, EnterBarrier, Goto
<1>4. ASSUME NEW p \in Op, p # o PROVE CallInv(p)'
  <2>1. CallInv(p) /\ (token[p] # 0 => token[p] # token[o])
    BY <1>1, <1>4 DEF SwitchInv, TokensOwned
  <2>2. Untouched(p)
    BY <1>1, <1>4, <2>1, SwitchAssumption DEF Untouched, SwitchTypeOK, Token, CallInv, HoldsOwn,
       Locked, Place, InCard, TokenAtPlace, EnterBarrier, Goto
  <2>3. QED
    BY <2>2, OthersKeep
<1>5. HoldsOwn(o)' /\ ClientClosed(o)'
  BY <1>1, SwitchAssumption DEF SwitchTypeOK, CallInv, HoldsOwn, ClientClosed, Locked, Place,
     InCard,
     TokenAtPlace, EnterBarrier, Goto
<1>6. TokenAtPlace(o)'
  BY <1>1 DEF SwitchTypeOK, CallInv, TokenAtPlace, Succeeded, isExpectedCardResetSignal,
     EnterBarrier, Goto
<1>7. Story(o)'
  BY <1>1 DEF SwitchTypeOK, Token, CallInv, TokenAtPlace, Story, Untold, Accepted, Succeeded,
     isExpectedCardResetSignal, EnterBarrier, Goto
<1>8. QED
  BY <1>2, <1>3, <1>4, <1>5, <1>6, <1>7 DEF SwitchInv, CallInv

LEMMA BarrierTimeoutKeeps ==
  ASSUME SwitchInv, NEW o \in Op, BarrierTimeout(o)
  PROVE  SwitchInv'
<1>1. CallInv(o) /\ SwitchTypeOK /\ TokensOwned
  BY DEF SwitchInv
<1>2. SwitchTypeOK'
  BY <1>1, SwitchAssumption DEF SwitchTypeOK, Place, BarrierTimeout, Goto
<1>3. TokensOwned'
  BY <1>1 DEF SwitchTypeOK, TokensOwned, BarrierTimeout, Goto
<1>4. ASSUME NEW p \in Op, p # o PROVE CallInv(p)'
  <2>1. CallInv(p) /\ (token[p] # 0 => token[p] # token[o])
    BY <1>1, <1>4 DEF SwitchInv, TokensOwned
  <2>2. Untouched(p)
    BY <1>1, <1>4, <2>1, SwitchAssumption DEF Untouched, SwitchTypeOK, Token, CallInv, HoldsOwn,
       Locked, Place, InCard, TokenAtPlace, BarrierTimeout, Goto
  <2>3. QED
    BY <2>2, OthersKeep
<1>5. HoldsOwn(o)' /\ ClientClosed(o)'
  BY <1>1, SwitchAssumption DEF SwitchTypeOK, CallInv, HoldsOwn, ClientClosed, Locked, Place,
     InCard,
     TokenAtPlace, BarrierTimeout, Goto
<1>6. TokenAtPlace(o)'
  BY <1>1 DEF SwitchTypeOK, CallInv, TokenAtPlace, Succeeded, isExpectedCardResetSignal,
     BarrierTimeout, Goto
<1>7. Story(o)'
  BY <1>1 DEF SwitchTypeOK, Token, CallInv, TokenAtPlace, Story, Untold, Accepted, Succeeded,
     isExpectedCardResetSignal, BarrierTimeout, Goto
<1>8. QED
  BY <1>2, <1>3, <1>4, <1>5, <1>6, <1>7 DEF SwitchInv, CallInv

LEMMA CommandKeeps ==
  ASSUME SwitchInv, NEW o \in Op, Command(o)
  PROVE  SwitchInv'
<1>1. CallInv(o) /\ SwitchTypeOK /\ TokensOwned
  BY DEF SwitchInv
<1>2. SwitchTypeOK'
  BY <1>1, SwitchAssumption DEF SwitchTypeOK, Place, Command, Goto
<1>3. TokensOwned'
  BY <1>1 DEF SwitchTypeOK, TokensOwned, Command, Goto
<1>4. ASSUME NEW p \in Op, p # o PROVE CallInv(p)'
  <2>1. CallInv(p) /\ (token[p] # 0 => token[p] # token[o])
    BY <1>1, <1>4 DEF SwitchInv, TokensOwned
  <2>2. Untouched(p)
    BY <1>1, <1>4, <2>1, SwitchAssumption DEF Untouched, SwitchTypeOK, Token, CallInv, HoldsOwn,
       Locked, Place, InCard, TokenAtPlace, Command, Goto
  <2>3. QED
    BY <2>2, OthersKeep
<1>5. HoldsOwn(o)' /\ ClientClosed(o)'
  BY <1>1, SwitchAssumption DEF SwitchTypeOK, CallInv, HoldsOwn, ClientClosed, Locked, Place,
     InCard,
     TokenAtPlace, Command, Goto
<1>6. TokenAtPlace(o)'
  BY <1>1 DEF SwitchTypeOK, CallInv, TokenAtPlace, Succeeded, isExpectedCardResetSignal,
     Command, Goto
<1>7. Story(o)'
  BY <1>1 DEF SwitchTypeOK, Token, CallInv, TokenAtPlace, Story, Untold, Accepted, Succeeded,
     isExpectedCardResetSignal, Command, Goto
<1>8. QED
  BY <1>2, <1>3, <1>4, <1>5, <1>6, <1>7 DEF SwitchInv, CallInv

LEMMA CatBusyKeeps ==
  ASSUME SwitchInv, NEW o \in Op, CatBusy(o)
  PROVE  SwitchInv'
<1>1. CallInv(o) /\ SwitchTypeOK /\ TokensOwned
  BY DEF SwitchInv
<1>2. SwitchTypeOK'
  <2>1. attempt' \in [Op -> 0..MaxCatBusyRetries]
    <3>1. attempt[o] \in 0..3
      BY <1>1 DEF SwitchTypeOK, MaxCatBusyRetries
    <3>2. attempt[o] < 3 => attempt[o] + 1 \in 0..3
      BY <3>1
    <3>3. \/ attempt' = attempt
          \/ (attempt[o] < 3 /\ attempt' = [attempt EXCEPT ![o] = attempt[o] + 1])
      BY DEF MaxCatBusyRetries, CatBusy
    <3>4. QED
      BY <1>1, <3>2, <3>3 DEF SwitchTypeOK, MaxCatBusyRetries
  <2>2. at' \in [Op -> Place] /\ answer' \in [Op -> {"none", "ok", "reset", "error"}]
    BY <1>1 DEF SwitchTypeOK, Place, CatBusy, Goto
  <2>3. QED
    BY <1>1, <2>1, <2>2 DEF SwitchTypeOK, CatBusy
<1>3. TokensOwned'
  BY <1>1 DEF SwitchTypeOK, TokensOwned, CatBusy, Goto
<1>4. ASSUME NEW p \in Op, p # o PROVE CallInv(p)'
  <2>1. CallInv(p) /\ (token[p] # 0 => token[p] # token[o])
    BY <1>1, <1>4 DEF SwitchInv, TokensOwned
  <2>2. Untouched(p)
    BY <1>1, <1>4, <2>1, SwitchAssumption DEF Untouched, SwitchTypeOK, Token, CallInv, HoldsOwn,
       Locked, Place, InCard, TokenAtPlace, CatBusy, Goto
  <2>3. QED
    BY <2>2, OthersKeep
<1>5. HoldsOwn(o)' /\ ClientClosed(o)'
  BY <1>1, SwitchAssumption DEF SwitchTypeOK, CallInv, HoldsOwn, ClientClosed, Locked, Place,
     InCard,
     TokenAtPlace, CatBusy, Goto
<1>6. TokenAtPlace(o)'
  BY <1>1 DEF SwitchTypeOK, CallInv, TokenAtPlace, Succeeded, isExpectedCardResetSignal,
     CatBusy, Goto
<1>7. Story(o)'
  BY <1>1 DEF SwitchTypeOK, Token, CallInv, TokenAtPlace, Story, Untold, Accepted, Succeeded,
     isExpectedCardResetSignal, CatBusy, Goto
<1>8. QED
  BY <1>2, <1>3, <1>4, <1>5, <1>6, <1>7 DEF SwitchInv, CallInv

LEMMA CloseBeforeRefreshKeeps ==
  ASSUME SwitchInv, NEW o \in Op, CloseBeforeRefresh(o)
  PROVE  SwitchInv'
<1>1. CallInv(o) /\ SwitchTypeOK /\ TokensOwned
  BY DEF SwitchInv
<1>2. SwitchTypeOK'
  BY <1>1, SwitchAssumption DEF SwitchTypeOK, Place, CloseBeforeRefresh, Goto
<1>3. TokensOwned'
  BY <1>1 DEF SwitchTypeOK, TokensOwned, CloseBeforeRefresh, Goto
<1>4. ASSUME NEW p \in Op, p # o PROVE CallInv(p)'
  <2>1. CallInv(p) /\ (token[p] # 0 => token[p] # token[o])
    BY <1>1, <1>4 DEF SwitchInv, TokensOwned
  <2>2. Untouched(p)
    BY <1>1, <1>4, <2>1, SwitchAssumption DEF Untouched, SwitchTypeOK, Token, CallInv, HoldsOwn,
       Locked, Place, InCard, TokenAtPlace, CloseBeforeRefresh, Goto
  <2>3. QED
    BY <2>2, OthersKeep
<1>5. HoldsOwn(o)' /\ ClientClosed(o)'
  BY <1>1, SwitchAssumption DEF SwitchTypeOK, CallInv, HoldsOwn, ClientClosed, Locked, Place,
     InCard,
     TokenAtPlace, CloseBeforeRefresh, Goto
<1>6. TokenAtPlace(o)'
  BY <1>1 DEF SwitchTypeOK, CallInv, TokenAtPlace, Succeeded, isExpectedCardResetSignal,
     CloseBeforeRefresh, Goto
<1>7. Story(o)'
  BY <1>1 DEF SwitchTypeOK, Token, CallInv, TokenAtPlace, Story, Untold, Accepted, Succeeded,
     isExpectedCardResetSignal, CloseBeforeRefresh, Goto
<1>8. QED
  BY <1>2, <1>3, <1>4, <1>5, <1>6, <1>7 DEF SwitchInv, CallInv

LEMMA SettleKeeps ==
  ASSUME SwitchInv, NEW o \in Op, Settle(o)
  PROVE  SwitchInv'
<1>1. CallInv(o) /\ SwitchTypeOK /\ TokensOwned
  BY DEF SwitchInv
<1>0. token[o] # 0 /\ token[o] \in Token
  BY <1>1, HeldToken DEF CallInv, TokenAtPlace, Settle
<1>2. SwitchTypeOK'
  <2>1. phases' \in [Token -> Seq(Phase)]
    BY <1>0, <1>1, AppendProperties DEF SwitchTypeOK, Phase, Settle, Report
  <2>2. QED
    BY <1>1, <2>1 DEF SwitchTypeOK, Place, Settle, Goto
<1>3. TokensOwned'
  BY <1>1 DEF SwitchTypeOK, TokensOwned, Settle, Goto, Report
<1>4. ASSUME NEW p \in Op, p # o PROVE CallInv(p)'
  <2>1. CallInv(p) /\ (token[p] # 0 => token[p] # token[o])
    BY <1>1, <1>4 DEF SwitchInv, TokensOwned
  <2>2. Untouched(p)
    BY <1>1, <1>4, <2>1, SwitchAssumption DEF Untouched, SwitchTypeOK, Token, CallInv, HoldsOwn,
       Locked, Place, InCard, TokenAtPlace, Settle, Goto, Report
  <2>3. QED
    BY <2>2, OthersKeep
<1>5. HoldsOwn(o)' /\ ClientClosed(o)'
  BY <1>1, SwitchAssumption DEF SwitchTypeOK, CallInv, HoldsOwn, ClientClosed, Locked, Place,
     InCard,
     TokenAtPlace, Settle, Goto, Report
<1>6. TokenAtPlace(o)'
  BY <1>1 DEF SwitchTypeOK, CallInv, TokenAtPlace, Succeeded, isExpectedCardResetSignal, Settle,
     Goto, Report
<1>7. Story(o)'
  <2>1. Untold(token[o]) /\ phases[token[o]] = Begun
    BY <1>0, <1>1 DEF CallInv, Story, Settle
  <2>2. phases'[token[o]] = Settled
    BY <1>0, <1>1, <2>1, Telling DEF SwitchTypeOK, Settle, Report
  <2>3. at'[o] = "finalize" /\ token' = token /\ Untold(token[o])'
    BY <1>1, <2>1 DEF SwitchTypeOK, Untold, Settle, Goto
  <2>4. QED
    BY <2>2, <2>3 DEF Story
<1>8. QED
  BY <1>2, <1>3, <1>4, <1>5, <1>6, <1>7 DEF SwitchInv, CallInv

LEMMA FinalizeKeeps ==
  ASSUME SwitchInv, NEW o \in Op, Finalize(o)
  PROVE  SwitchInv'
<1>1. CallInv(o) /\ SwitchTypeOK /\ TokensOwned
  BY DEF SwitchInv
<1>0. token[o] # 0 /\ token[o] \in 1..tokens
  BY <1>1, HeldToken DEF CallInv, TokenAtPlace, Finalize
<1>2. SwitchTypeOK'
  BY <1>0, <1>1 DEF SwitchTypeOK, Place, Finalize, Goto
<1>3. TokensOwned'
  BY <1>1 DEF SwitchTypeOK, TokensOwned, Finalize, Goto
<1>4. ASSUME NEW p \in Op, p # o PROVE CallInv(p)'
  <2>1. CallInv(p) /\ (token[p] # 0 => token[p] # token[o])
    BY <1>1, <1>4 DEF SwitchInv, TokensOwned
  <2>2. Untouched(p)
    BY <1>1, <1>4, <2>1, SwitchAssumption DEF Untouched, SwitchTypeOK, Token, CallInv, HoldsOwn,
       Locked, Place, InCard, TokenAtPlace, Finalize, Goto
  <2>3. QED
    BY <2>2, OthersKeep
<1>5. HoldsOwn(o)' /\ ClientClosed(o)'
  BY <1>1, SwitchAssumption DEF SwitchTypeOK, CallInv, HoldsOwn, ClientClosed, Locked, Place,
     InCard,
     TokenAtPlace, Finalize, Goto
<1>6. TokenAtPlace(o)'
  BY <1>1 DEF SwitchTypeOK, CallInv, TokenAtPlace, Succeeded, isExpectedCardResetSignal,
     Finalize,
     Goto
<1>7. Story(o)'
  BY <1>1 DEF SwitchTypeOK, Token, CallInv, TokenAtPlace, Story, Untold, Accepted, Succeeded,
     isExpectedCardResetSignal, Finalize, Goto
<1>8. QED
  BY <1>2, <1>3, <1>4, <1>5, <1>6, <1>7 DEF SwitchInv, CallInv

LEMMA DeferredKeeps ==
  ASSUME SwitchInv, NEW o \in Op, Deferred(o)
  PROVE  SwitchInv'
<1>1. CallInv(o) /\ SwitchTypeOK /\ TokensOwned
  BY DEF SwitchInv
<1>2. SwitchTypeOK'
  BY <1>1, SwitchAssumption DEF SwitchTypeOK, Place, Deferred, Goto
<1>3. TokensOwned'
  BY <1>1 DEF SwitchTypeOK, TokensOwned, Deferred, Goto
<1>4. ASSUME NEW p \in Op, p # o PROVE CallInv(p)'
  <2>1. CallInv(p) /\ (token[p] # 0 => token[p] # token[o])
    BY <1>1, <1>4 DEF SwitchInv, TokensOwned
  <2>2. Untouched(p)
    BY <1>1, <1>4, <2>1, SwitchAssumption DEF Untouched, SwitchTypeOK, Token, CallInv, HoldsOwn,
       Locked, Place, InCard, TokenAtPlace, Deferred, Goto
  <2>3. QED
    BY <2>2, OthersKeep
<1>5. HoldsOwn(o)' /\ ClientClosed(o)'
  BY <1>1, SwitchAssumption DEF SwitchTypeOK, CallInv, HoldsOwn, ClientClosed, Locked, Place,
     InCard,
     TokenAtPlace, Deferred, Goto
<1>6. TokenAtPlace(o)'
  BY <1>1 DEF SwitchTypeOK, CallInv, TokenAtPlace, Succeeded, isExpectedCardResetSignal,
     Deferred,
     Goto
<1>7. Story(o)'
  BY <1>1 DEF SwitchTypeOK, Token, CallInv, TokenAtPlace, Story, Untold, Accepted, Succeeded,
     isExpectedCardResetSignal, Deferred, Goto
<1>8. QED
  BY <1>2, <1>3, <1>4, <1>5, <1>6, <1>7 DEF SwitchInv, CallInv

LEMMA FailingKeeps ==
  ASSUME SwitchInv, NEW o \in Op, Failing(o)
  PROVE  SwitchInv'
<1>1. CallInv(o) /\ SwitchTypeOK /\ TokensOwned
  BY DEF SwitchInv
<1>0. token[o] # 0 => token[o] \in Token
  BY <1>1, HeldToken
<1>2. SwitchTypeOK'
  <2>1. phases' \in [Token -> Seq(Phase)]
    <3>1. token[o] # 0 => Append(phases[token[o]], "failed") \in Seq(Phase)
      BY <1>0, <1>1, AppendProperties DEF SwitchTypeOK, Phase
    <3>2. QED
      BY <1>0, <1>1, <3>1 DEF SwitchTypeOK, Failing, Report
  <2>2. QED
    BY <1>1, <2>1 DEF SwitchTypeOK, Place, Failing, Goto
<1>3. TokensOwned'
  BY <1>1 DEF SwitchTypeOK, TokensOwned, Failing, Goto, Report
<1>4. ASSUME NEW p \in Op, p # o PROVE CallInv(p)'
  <2>1. CallInv(p) /\ (token[p] # 0 => token[p] # token[o])
    BY <1>1, <1>4 DEF SwitchInv, TokensOwned
  <2>2. Untouched(p)
    BY <1>1, <1>4, <2>1, SwitchAssumption DEF Untouched, SwitchTypeOK, Token, CallInv, HoldsOwn,
       Locked, Place, InCard, TokenAtPlace, Failing, Goto, Report
  <2>3. QED
    BY <2>2, OthersKeep
<1>5. HoldsOwn(o)' /\ ClientClosed(o)'
  BY <1>1, SwitchAssumption DEF SwitchTypeOK, CallInv, HoldsOwn, ClientClosed, Locked, Place,
     InCard,
     TokenAtPlace, Failing, Goto, Report
<1>6. TokenAtPlace(o)'
  BY <1>1 DEF SwitchTypeOK, CallInv, TokenAtPlace, Succeeded, isExpectedCardResetSignal,
     Failing,
     Goto, Report
<1>7. Story(o)'
  <2> SUFFICES ASSUME token[o] # 0 PROVE Story(o)'
    BY DEF Story, Failing
  <2>1. ~Succeeded(o) /\ Untold(token[o]) /\ phases[token[o]] \in {Begun, Settled}
    BY <1>1 DEF CallInv, Story, TokenAtPlace, Failing
  <2>2. kind[o] # "rename"
    BY <1>1 DEF CallInv, TokenAtPlace
  <2>3. phases'[token[o]] \in Failures
    BY <1>0, <1>1, <2>1, <2>2, Telling DEF SwitchTypeOK, Failing, Report
  <2>4. at'[o] = "unlock" /\ token' = token /\ Untold(token[o])' /\ ~Succeeded(o)'
    BY <1>1, <2>1 DEF SwitchTypeOK, Untold, Succeeded, isExpectedCardResetSignal, Failing, Goto
  <2>5. QED
    BY <2>3, <2>4 DEF Story
<1>8. QED
  BY <1>2, <1>3, <1>4, <1>5, <1>6, <1>7 DEF SwitchInv, CallInv

LEMMA UnlockKeeps ==
  ASSUME SwitchInv, NEW o \in Op, Unlock(o)
  PROVE  SwitchInv'
<1>1. CallInv(o) /\ SwitchTypeOK /\ TokensOwned
  BY DEF SwitchInv
<1>2. SwitchTypeOK'
  BY <1>1, SwitchAssumption DEF SwitchTypeOK, Place, Unlock, Goto
<1>3. TokensOwned'
  BY <1>1 DEF SwitchTypeOK, TokensOwned, Unlock, Goto
<1>4. ASSUME NEW p \in Op, p # o PROVE CallInv(p)'
  <2>1. CallInv(p) /\ (token[p] # 0 => token[p] # token[o])
    BY <1>1, <1>4 DEF SwitchInv, TokensOwned
  <2>2. Untouched(p)
    BY <1>1, <1>4, <2>1, SwitchAssumption DEF Untouched, SwitchTypeOK, Token, CallInv, HoldsOwn,
       Locked, Place, InCard, TokenAtPlace, Unlock, Goto
  <2>3. QED
    BY <2>2, OthersKeep
<1>5. HoldsOwn(o)' /\ ClientClosed(o)'
  BY <1>1, SwitchAssumption DEF SwitchTypeOK, CallInv, HoldsOwn, ClientClosed, Locked, Place,
     InCard,
     TokenAtPlace, Unlock, Goto
<1>6. TokenAtPlace(o)'
  BY <1>1 DEF SwitchTypeOK, CallInv, TokenAtPlace, Succeeded, isExpectedCardResetSignal,
     Unlock, Goto
<1>7. Story(o)'
  BY <1>1 DEF SwitchTypeOK, Token, CallInv, TokenAtPlace, Story, Untold, Accepted, Succeeded,
     isExpectedCardResetSignal, Unlock, Goto
<1>8. QED
  BY <1>2, <1>3, <1>4, <1>5, <1>6, <1>7 DEF SwitchInv, CallInv

LEMMA ReportFailureKeeps ==
  ASSUME SwitchInv, NEW o \in Op, ReportFailure(o)
  PROVE  SwitchInv'
<1>1. CallInv(o) /\ SwitchTypeOK /\ TokensOwned
  BY DEF SwitchInv
<1>0. token[o] # 0 /\ token[o] \in Token
  BY <1>1, HeldToken DEF CallInv, TokenAtPlace, ReportFailure
<1>2. SwitchTypeOK'
  <2>1. hooks' \in [Token -> Seq(Hook)]
    BY <1>0, <1>1, AppendProperties DEF SwitchTypeOK, Hook, ReportFailure
  <2>2. QED
    BY <1>1, <2>1 DEF SwitchTypeOK, Place, ReportFailure, Goto
<1>3. TokensOwned'
  BY <1>1 DEF SwitchTypeOK, TokensOwned, ReportFailure, Goto
<1>4. ASSUME NEW p \in Op, p # o PROVE CallInv(p)'
  <2>1. CallInv(p) /\ (token[p] # 0 => token[p] # token[o])
    BY <1>1, <1>4 DEF SwitchInv, TokensOwned
  <2>2. Untouched(p)
    BY <1>1, <1>4, <2>1, SwitchAssumption DEF Untouched, SwitchTypeOK, Token, CallInv, HoldsOwn,
       Locked, Place, InCard, TokenAtPlace, ReportFailure, Goto
  <2>3. QED
    BY <2>2, OthersKeep
<1>5. HoldsOwn(o)' /\ ClientClosed(o)'
  BY <1>1, SwitchAssumption DEF SwitchTypeOK, CallInv, HoldsOwn, ClientClosed, Locked, Place,
     InCard,
     TokenAtPlace, ReportFailure, Goto
<1>6. TokenAtPlace(o)'
  BY <1>1 DEF SwitchTypeOK, CallInv, TokenAtPlace, Succeeded, isExpectedCardResetSignal,
     ReportFailure, Goto
<1>7. Story(o)'
  <2>1. ~Succeeded(o) /\ Untold(token[o]) /\ phases[token[o]] \in Failures
    BY <1>0, <1>1 DEF CallInv, Story, TokenAtPlace, ReportFailure
  <2>2. hooks'[token[o]] = <<"before", "failed">>
    BY <1>0, <1>1, <2>1, Telling DEF SwitchTypeOK, Untold, ReportFailure
  <2>3. /\ at'[o] = "over" /\ token' = token /\ phases' = phases /\ recovering' = recovering
        /\ ~Succeeded(o)'
    BY <1>1, <2>1 DEF SwitchTypeOK, Succeeded, isExpectedCardResetSignal, ReportFailure, Goto
  <2>4. QED
    BY <2>1, <2>2, <2>3 DEF Story, Untold
<1>8. QED
  BY <1>2, <1>3, <1>4, <1>5, <1>6, <1>7 DEF SwitchInv, CallInv

LEMMA AnnounceKeeps ==
  ASSUME SwitchInv, NEW o \in Op, Announce(o)
  PROVE  SwitchInv'
<1> DEFINE new == tokens + 1
<1>1. CallInv(o) /\ SwitchTypeOK /\ TokensOwned
  BY DEF SwitchInv
<1>2. new \in Token /\ tokens' = new /\ \A p \in Op : token[p] # new
  BY <1>1, SwitchAssumption DEF SwitchTypeOK, Token, Announce
<1>3. /\ token' = [token EXCEPT ![o] = new] /\ hooks' = [hooks EXCEPT ![new] = <<"before">>]
      /\ phases' = [phases EXCEPT ![new] = Begun] /\ at' = [at EXCEPT ![o] = "barrier"]
  BY <1>2 DEF Announce, Goto, Begun
<1>4. SwitchTypeOK'
  <2>1. token' \in [Op -> 0..new] /\ new \in 0..MaxTokens
    BY <1>1, <1>2, <1>3, SwitchAssumption DEF SwitchTypeOK, Token
  <2>2. <<"before">> \in Seq(Hook) /\ <<"apdu_switching">> \in Seq(Phase)
    BY DEF Hook, Phase
  <2>3. hooks' \in [Token -> Seq(Hook)] /\ phases' \in [Token -> Seq(Phase)]
    BY <1>1, <1>2, <1>3, <2>2 DEF SwitchTypeOK, Begun
  <2>4. recovering' \subseteq 1..new
    BY <1>1, <1>2 DEF SwitchTypeOK, Announce
  <2>5. at' \in [Op -> Place]
    BY <1>1, <1>3 DEF SwitchTypeOK, Place
  <2>6. QED
    BY <1>1, <1>2, <2>1, <2>3, <2>4, <2>5 DEF SwitchTypeOK, Announce
<1>5. TokensOwned'
  <2>1. token[o] = 0
    BY <1>1 DEF CallInv, TokenAtPlace, Announce
  <2>2. \A p, q \in Op : token'[p] = token'[q] /\ token'[p] # 0 => p = q
    BY <1>1, <1>2, <1>3 DEF SwitchTypeOK, TokensOwned
  <2>3. ASSUME NEW t \in 1..tokens' PROVE \E p \in Op : token'[p] = t
    <3>1. CASE t = new
      BY <1>1, <1>3, <3>1 DEF SwitchTypeOK
    <3>2. CASE t # new
      <4>1. t \in 1..tokens
        BY <1>1, <1>2, <2>3, <3>2 DEF SwitchTypeOK
      <4>2. PICK p \in Op : token[p] = t
        BY <1>1, <4>1 DEF TokensOwned
      <4>3. token'[p] = t
        BY <1>1, <1>3, <2>1, <4>1, <4>2 DEF SwitchTypeOK
      <4>4. QED
        BY <4>3
    <3>3. QED
      BY <3>1, <3>2
  <2>4. QED
    BY <2>2, <2>3 DEF TokensOwned
<1>6. ASSUME NEW p \in Op, p # o PROVE CallInv(p)'
  <2>1. CallInv(p)
    BY DEF SwitchInv
  <2>2. Untouched(p)
    BY <1>1, <1>2, <1>3, <1>6, <2>1 DEF Untouched, SwitchTypeOK, Announce
  <2>3. QED
    BY <2>2, OthersKeep
<1>7. HoldsOwn(o)' /\ ClientClosed(o)' /\ TokenAtPlace(o)'
  BY <1>1, <1>2, <1>3 DEF SwitchTypeOK, CallInv, HoldsOwn, ClientClosed, Locked, Place, InCard,
     TokenAtPlace, Token, Announce
<1>8. Story(o)'
  <2>1. new \notin recovering'
    BY <1>1, <1>2 DEF SwitchTypeOK, Announce
  <2>2. /\ token'[o] = new /\ at'[o] = "barrier"
        /\ hooks'[new] = <<"before">> /\ phases'[new] = Begun
    BY <1>1, <1>2, <1>3 DEF SwitchTypeOK
  <2>3. QED
    BY <2>1, <2>2 DEF Story, Untold
<1>9. QED
  BY <1>4, <1>5, <1>6, <1>7, <1>8 DEF SwitchInv, CallInv

LEMMA PostSwitchKeeps ==
  ASSUME SwitchInv, NEW t \in Token, PostSwitch(t)
  PROVE  SwitchInv'
<1>1. SwitchTypeOK /\ TokensOwned /\ t \in 1..tokens
  BY DEF SwitchInv, SwitchTypeOK, PostSwitch
<1>2. SwitchTypeOK'
  <2>1. hooks' \in [Token -> Seq(Hook)]
    BY <1>1, AppendProperties DEF SwitchTypeOK, Hook, PostSwitch
  <2>2. QED
    BY <1>1, <2>1 DEF SwitchTypeOK, PostSwitch
<1>3. TokensOwned'
  BY <1>1 DEF TokensOwned, PostSwitch
<1>4. ASSUME NEW p \in Op PROVE CallInv(p)'
  <2>1. CallInv(p) /\ (Succeeded(p)' <=> Succeeded(p))
    BY DEF SwitchInv, Succeeded, isExpectedCardResetSignal, PostSwitch
  <2>2. CASE token[p] # t
    <3>1. Untouched(p)
      BY <1>1, <2>2, HeldToken DEF Untouched, SwitchTypeOK, PostSwitch
    <3>2. QED
      BY <3>1, OthersKeep
  <2>3. CASE token[p] = t
    <3>1. token[p] # 0
      BY <1>1, <2>3 DEF SwitchTypeOK
    <3>2. at[p] \in {"deferred", "unlock", "over"} /\ Succeeded(p) /\ Accepted(t)
      <4>1. at[p] \in Place /\ t \in recovering
        BY <1>1 DEF SwitchTypeOK, PostSwitch
      <4>2. ~Untold(t)
        BY <4>1 DEF Untold
      <4>3. QED
        BY <2>1, <2>3, <3>1, <4>1, <4>2 DEF CallInv, Story, TokenAtPlace, Place
    <3>3. hooks[t] = <<"before">> /\ hooks'[t] = <<"before", "after">>
      BY <1>1, <3>2, Telling DEF SwitchTypeOK, Accepted, PostSwitch
    <3>4. Accepted(t)'
      BY <3>2, <3>3 DEF Accepted, PostSwitch
    <3>5. Story(p)'
      BY <2>1, <2>3, <3>2, <3>4 DEF Story, PostSwitch
    <3>6. HoldsOwn(p)' /\ ClientClosed(p)' /\ TokenAtPlace(p)'
      BY <2>1 DEF CallInv, HoldsOwn, ClientClosed, TokenAtPlace, PostSwitch
    <3>7. QED
      BY <3>5, <3>6 DEF CallInv
  <2>4. QED
    BY <2>2, <2>3
<1>5. QED
  BY <1>2, <1>3, <1>4 DEF SwitchInv

\* The holder from outside takes the card only from nobody, and leaves only itself.
LEMMA AkaKeeps ==
  ASSUME SwitchInv, AkaEnters \/ AkaLeaves \/ UNCHANGED switchVars
  PROVE  SwitchInv'
<1>1. SwitchTypeOK /\ TokensOwned
  BY DEF SwitchInv
<1>2. SwitchTypeOK' /\ TokensOwned'
  BY <1>1 DEF SwitchTypeOK, TokensOwned, AkaEnters, AkaLeaves, switchVars
<1>3. ASSUME NEW p \in Op PROVE CallInv(p)'
  <2>1. Untouched(p)
    BY SwitchAssumption DEF Untouched, AkaEnters, AkaLeaves, switchVars
  <2>2. QED
    BY <2>1, OthersKeep
<1>4. QED
  BY <1>2, <1>3 DEF SwitchInv

----------------------------------------------------------------------------
(* The invariant and what follows from it.                                 *)

LEMMA InitSwitch ==
  ASSUME SwitchInit
  PROVE  SwitchInv
<1>1. SwitchTypeOK
  <2>1. <<>> \in Seq(Hook) /\ <<>> \in Seq(Phase)
    OBVIOUS
  <2>2. QED
    BY <2>1, SwitchAssumption DEF SwitchInit, SwitchTypeOK, Place, MaxCatBusyRetries
<1>2. TokensOwned
  BY DEF SwitchInit, TokensOwned
<1>3. ASSUME NEW o \in Op PROVE CallInv(o)
  BY SwitchAssumption DEF SwitchInit, CallInv, HoldsOwn, ClientClosed, TokenAtPlace, Story,
     Locked, Place, InCard
<1>4. QED
  BY <1>1, <1>2, <1>3 DEF SwitchInv

LEMMA NextSwitch ==
  ASSUME SwitchInv, [SwitchNext]_switchVars
  PROVE  SwitchInv'
<1>1. ASSUME NEW o \in Op, Step(o) PROVE SwitchInv'
  BY <1>1, BeginKeeps, PrepareFailsKeeps, PrepareSucceedsKeeps, AnnounceKeeps,
     EnterBarrierKeeps, BarrierTimeoutKeeps, CommandKeeps, CatBusyKeeps,
     CloseBeforeRefreshKeeps, SettleKeeps, FinalizeKeeps, DeferredKeeps, FailingKeeps,
     UnlockKeeps, ReportFailureKeeps DEF Step
<1>2. QED
  BY <1>1, PostSwitchKeeps, AkaKeeps DEF SwitchNext

LEMMA SwitchInvariantKept ==
  SwitchSpec => []SwitchInv
<1>1. SwitchInit => SwitchInv
  BY InitSwitch
<1>2. SwitchInv /\ [SwitchNext]_switchVars => SwitchInv'
  BY NextSwitch
<1>3. QED
  BY <1>1, <1>2, PTL DEF SwitchSpec

\* The variables keep their types: no call counts past its three retries, and no hook
\* waits for a switch that was never announced.
THEOREM SwitchTypeCorrect ==
  SwitchSpec => []SwitchTypeOK
<1>1. SwitchInv => SwitchTypeOK
  BY DEF SwitchInv
<1>2. QED
  BY <1>1, SwitchInvariantKept, PTL

\* While the command that replaces the profile may be in the card, nobody else uses
\* it: between the barrier and the 200 ms after the channel was closed, retries for a
\* busy card toolkit included, whatever other calls and authentications do.
THEOREM QuietSwitch ==
  SwitchSpec => []QuietWhileSwitching
<1>1. SwitchInv => QuietWhileSwitching
  BY DEF SwitchInv, CallInv, HoldsOwn, InCard, QuietWhileSwitching
<1>2. QED
  BY <1>1, SwitchInvariantKept, PTL


\* What each end of a switch looks like in its phases, and which hooks may go with it.
LEMMA LastPhase ==
  /\ Begun[Len(Begun)] = "apdu_switching" /\ Settled[Len(Settled)] = "card_reset_settling"
  /\ \A f \in Failures : f[Len(f)] = "failed"
BY DEF Begun, Settled, Failures

LEMMA Called ==
  ASSUME NEW t, NEW a, hooks[t] = <<"before">> \/ hooks[t] = <<"before", a>>
  PROVE  \A i \in DOMAIN hooks[t] : hooks[t][i] \in {"before", a}
<1>1. CASE hooks[t] = <<"before">>
  BY <1>1
<1>2. CASE hooks[t] = <<"before", a>>
  BY <1>2
<1>3. QED
  BY <1>1, <1>2

LEMMA PhasesAgree ==
  ASSUME SwitchInv
  PROVE  PhasesAgreeWithHooks
<1> SUFFICES ASSUME NEW t \in 1..tokens
             PROVE  /\ phases[t] \in {Begun, Settled} \cup Failures
                    /\ LET last == phases[t][Len(phases[t])]
                           called == {hooks[t][i] : i \in DOMAIN hooks[t]}
                       IN /\ "after" \in called => last = "card_reset_settling"
                          /\ "failed" \in called => last = "failed"
  BY DEF PhasesAgreeWithHooks, Begun, Settled, Failures
<1>1. PICK o \in Op : token[o] = t
  BY DEF SwitchInv, TokensOwned
<1>2. CallInv(o) /\ at[o] \in Place /\ token[o] # 0
  BY <1>1 DEF SwitchInv, SwitchTypeOK
<1>3. \/ hooks[t] = <<"before">> /\ phases[t] \in {Begun, Settled} \cup Failures
      \/ hooks[t] = <<"before", "after">> /\ phases[t] = Settled
      \/ hooks[t] = <<"before", "failed">> /\ phases[t] \in Failures
  BY <1>1, <1>2 DEF CallInv, TokenAtPlace, Story, Untold, Accepted, Place
<1>4. CASE hooks[t] = <<"before">> /\ phases[t] \in {Begun, Settled} \cup Failures
  <2>1. \A i \in DOMAIN hooks[t] : hooks[t][i] = "before"
    BY <1>4, Called
  <2>2. QED
    BY <1>4, <2>1
<1>5. CASE hooks[t] = <<"before", "after">> /\ phases[t] = Settled
  <2>1. \A i \in DOMAIN hooks[t] : hooks[t][i] \in {"before", "after"}
    BY <1>5, Called
  <2>2. QED
    BY <1>5, <2>1, LastPhase
<1>6. CASE hooks[t] = <<"before", "failed">> /\ phases[t] \in Failures
  <2>1. \A i \in DOMAIN hooks[t] : hooks[t][i] \in {"before", "failed"}
    BY <1>6, Called
  <2>2. QED
    BY <1>6, <2>1, LastPhase
<1>7. QED
  BY <1>3, <1>4, <1>5, <1>6

\* A call that is over holds neither lock nor barrier nor an open channel; its switch was
\* told as a success or as a failure, never both and never neither; and the phases that
\* were reported of it end as its hooks do.
THEOREM EachSwitchToldOnce ==
  SwitchSpec => []SwitchToldOnce
<1>1. ASSUME SwitchInv, NEW o \in Op, at[o] = "over"
      PROVE  /\ opMu # o /\ device # o /\ client[o] # "open"
             /\ token[o] # 0 =>
                  LET h == hooks[token[o]] IN
                    IF token[o] \in recovering THEN h = <<"before">>
                    ELSE h = <<"before", IF Succeeded(o) THEN "after" ELSE "failed">>
  <2>1. CallInv(o)
    BY <1>1 DEF SwitchInv
  <2>2. opMu # o /\ device # o /\ client[o] # "open"
    BY <1>1, <2>1 DEF CallInv, HoldsOwn, ClientClosed, Locked, Place, InCard
  <2>3. CASE Succeeded(o)
    BY <1>1, <2>1, <2>2, <2>3 DEF CallInv, Story, Accepted
  <2>4. CASE ~Succeeded(o)
    BY <1>1, <2>1, <2>2, <2>4 DEF CallInv, Story
  <2>5. QED
    BY <2>3, <2>4
<1>2. SwitchInv => SwitchToldOnce
  BY <1>1, PhasesAgree DEF NothingLeftBehind, SwitchToldOnce
<1>3. QED
  BY <1>2, SwitchInvariantKept, PTL

(***************************************************************************)
(* ESIMNotifications.                                                      *)
(***************************************************************************)
Note == [seq : Nat \ {0}, event : {"enable", "disable", "install", "delete"}, iccid : Profile]

Runs ==
  [op : {"none", "download", "delete", "recover", "retry", "list"},
   at : {"idle", "list", "change", "find", "retrieve", "handle", "clean", "remove"},
   iccid : Profile \cup {"none"}, baseline : Nat, found : Nat, pending : SUBSET Note,
   own : Nat, listed : BOOLEAN, named : BOOLEAN, todo : SUBSET Nat,
   result : {"none", "ok", "warning", "error", "recovered"}]

\* The variables keep their types, and no notification is newer than the newest.
NotesTypeOK ==
  /\ installed \subseteq Profile /\ seq \in Nat /\ sent \subseteq Nat
  /\ notes \subseteq Note /\ \A n \in notes : n.seq <= seq
  /\ run \in Runs

\* A number is that of one notification.
Numbered == \A m, n \in notes : m.seq = n.seq => m = n

\* The operation is where its kind may be, and has in hand what it looked for.
Placed ==
  /\ run.at \in {"list", "clean", "remove"} => run.op \in {"download", "delete", "list"}
  /\ run.at \in {"clean", "remove"} => run.op = "list"
  /\ run.at = "change" => run.op \in {"download", "delete"}
  /\ run.at \in {"list", "change"} => ~run.named
  /\ run.op \in {"download", "delete"} => run.iccid \in Profile
  /\ run.at = "find" => run.op \in {"download", "delete", "recover"}
  /\ run.at = "handle" => Seqs(run.pending) \subseteq {run.found}
  /\ run.at = "remove" => run.found \in sent

\* The clean-up has to do with notifications of switches alone.
Cleanable ==
  run.op = "list" =>
    \A n \in notes :
      n.seq = run.found \/ n.seq \in run.todo => n.event \in {"enable", "disable"}

\* Before the change, lastSeq is beyond every notification that could be taken for the
\* operation's own.
Listed ==
  run.at = "change" /\ run.listed =>
    \A n \in notes : run.op = "delete" \/ n.event = "install" => n.seq <= run.baseline

\* What is found is the operation's own, if anything is known of the numbers before.
OwnFound ==
  run.op \in {"download", "delete", "recover"} /\ (run.listed \/ run.named) =>
    /\ run.at = "find" => \A n \in Matching : n.seq = run.own
    /\ run.at \in {"retrieve", "handle"} => run.found = run.own

\* A download is looked into only if the list was read, and what it then finds was
\* installed.
Recovering ==
  run.op = "recover" /\ run.at # "idle" =>
    /\ run.listed
    /\ run.own # 0 => run.iccid \in installed
    /\ run.at \in {"retrieve", "handle"} => run.own # 0

NotesInv ==
  /\ NotesTypeOK /\ Numbered /\ Placed /\ Cleanable /\ Listed /\ OwnFound /\ Recovering
  /\ ReportsTrue

-----------------------------------------------------------------------------
\* The greatest of numbers up to a bound is one of them and beyond none.
LEMMA MaxOfIs ==
  ASSUME NEW b \in Nat, NEW S \in SUBSET (0..b), S # {}
  PROVE  MaxOf(S) \in S /\ \A y \in S : y <= MaxOf(S)
<1> DEFINE T == {b - x : x \in S}
<1>1. T \subseteq Nat /\ T # {}
  <2>1. \A x \in S : x \in Nat /\ b - x \in Nat
    OBVIOUS
  <2>2. QED
    BY <2>1
<1>2. PICK t \in T : \A u \in T : <<u, t>> \notin OpToRel(<, Nat)
  <2> HIDE DEF T
  <2>1. QED
    BY <1>1, WFMin, NatLessThanWellFounded
<1>3. \A u \in T : ~(u < t)
  BY <1>1, <1>2 DEF OpToRel
<1>4. \E x \in S : \A y \in S : y <= x
  <2>1. PICK x \in S : t = b - x
    OBVIOUS
  <2>2. \A y \in S : ~(b - y < b - x)
    BY <1>3, <2>1
  <2>3. QED
    BY <2>2
<1>5. QED
  BY <1>4 DEF MaxOf

\* maxNotificationSequence is a number, and beyond each that could be taken for the
\* operation's own.
LEMMA MaxSequenceIs ==
  ASSUME NotesTypeOK
  PROVE  /\ maxNotificationSequence \in Nat
         /\ \A n \in notes : run.op # "download" \/ n.event = "install"
                               => n.seq <= maxNotificationSequence
<1> DEFINE looked == IF run.op = "download" THEN {n \in notes : n.event = "install"} ELSE notes
<1>1. looked \subseteq notes /\ maxNotificationSequence = MaxOf(Seqs(looked))
  BY DEF maxNotificationSequence
<1>2. \A n \in notes : run.op # "download" \/ n.event = "install" => n \in looked
  OBVIOUS
<1> HIDE DEF looked
<1>3. CASE Seqs(looked) = {}
  BY <1>1, <1>2, <1>3 DEF MaxOf, Seqs
<1>4. CASE Seqs(looked) # {}
  <2>1. Seqs(looked) \subseteq 0..seq /\ seq \in Nat
    BY <1>1 DEF NotesTypeOK, Note, Seqs
  <2>2. /\ MaxOf(Seqs(looked)) \in Seqs(looked)
        /\ \A y \in Seqs(looked) : y <= MaxOf(Seqs(looked))
    BY <1>4, <2>1, MaxOfIs
  <2>3. QED
    BY <1>1, <1>2, <2>1, <2>2 DEF Seqs
<1>5. QED
  BY <1>3, <1>4

\* The number in the result of a download is beyond every older one.
LEMMA BaselineIs ==
  ASSUME NotesTypeOK, NEW named \in BOOLEAN
  PROVE  /\ downloadNotificationBaseline(named) \in Nat
         /\ run.baseline <= downloadNotificationBaseline(named)
         /\ named => seq <= downloadNotificationBaseline(named)
<1>1. run.baseline \in Nat /\ seq \in Nat
  BY DEF NotesTypeOK, Runs
<1>2. /\ {run.baseline, seq} \in SUBSET (0..(run.baseline + seq))
      /\ {run.baseline, seq} # {} /\ run.baseline + seq \in Nat
  BY <1>1
<1>3. /\ MaxOf({run.baseline, seq}) \in {run.baseline, seq}
      /\ \A y \in {run.baseline, seq} : y <= MaxOf({run.baseline, seq})
  BY <1>2, MaxOfIs
<1>4. QED
  BY <1>1, <1>3 DEF downloadNotificationBaseline

-----------------------------------------------------------------------------
\* A notification of the card is new, and the newest.
LEMMA NewNoteTyped ==
  ASSUME NotesTypeOK, NEW p \in Profile, NEW event \in {"enable", "disable", "install",
  "delete"},
         CardNotes(event, p)
  PROVE  /\ seq' = seq + 1 /\ notes' \subseteq Note /\ \A n \in notes' : n.seq <= seq'
         /\ \A n \in notes' : n \in notes \/ (n.seq = seq + 1 /\ n.event = event /\ n.iccid = p)
<1>1. NewNote(event, p) \in Note /\ NewNote(event, p).seq = seq + 1
  BY DEF NotesTypeOK, Note, NewNote
<1>2. notes' = notes \cup {NewNote(event, p)} /\ seq' = seq + 1
  BY DEF CardNotes
<1>3. NewNote(event, p).event = event /\ NewNote(event, p).iccid = p
  BY DEF NewNote
<1>4. /\ \A n \in notes' : n \in notes \/ n = NewNote(event, p)
      /\ seq \in Nat /\ \A n \in notes : n \in Note /\ n.seq \in Nat /\ n.seq <= seq
  BY <1>2 DEF NotesTypeOK, Note
<1>5. seq + 1 <= seq + 1 /\ \A k \in Nat : k <= seq => k <= seq + 1
  BY <1>4
<1>6. \A n \in notes' : n \in Note /\ n.seq <= seq + 1
  BY <1>1, <1>4, <1>5
<1>7. \A n \in notes' : n \in notes \/ (n.seq = seq + 1 /\ n.event = event /\ n.iccid = p)
  BY <1>1, <1>3, <1>4
<1>8. QED
  BY <1>2, <1>6, <1>7

LEMMA QuietTyped == Quiet \in Runs
<1>1. {} \in SUBSET Note /\ {} \in SUBSET Nat
  OBVIOUS
<1>2. QED
  BY <1>1 DEF Quiet, Runs

\* An operation ends with its result.
LEMMA FinishTyped ==
  ASSUME NotesTypeOK, NEW result \in {"ok", "warning", "error", "recovered"}, Finish(result)
  PROVE  run' \in Runs
BY DEF NotesTypeOK, Runs, Finish

LEMMA SeqsTyped ==
  ASSUME NEW S \in SUBSET Note
  PROVE  Seqs(S) \subseteq Nat
BY DEF Seqs, Note

LEMMA TypesKept ==
  ASSUME NotesInv, [NotesNext]_noteVars
  PROVE  NotesTypeOK'
<1>0. NotesTypeOK /\ run \in Runs /\ seq \in Nat /\ MaxSeq \in Nat
  BY NotesAssumption DEF NotesInv, NotesTypeOK
<1>1. CASE SwitchOrDisable
  BY <1>0, <1>1, NewNoteTyped DEF NotesTypeOK, SwitchOrDisable
<1>2. CASE BeginDownload \/ BeginDelete \/ BeginRetry \/ BeginList
  <2>1. \/ \E op \in {"download", "delete", "list"}, p \in Profile \cup {"none"} :
             StartRun(op, p)
        \/ \E s \in Nat : run' = [Quiet EXCEPT !.op = "retry", !.at = "retrieve", !.found = s]
    <3>1. CASE BeginDownload \/ BeginDelete \/ BeginList
      BY <1>0, <3>1 DEF NotesTypeOK, BeginDownload, BeginDelete, BeginList
    <3>2. CASE BeginRetry
      <4>1. PICK s \in 1..MaxSeq :
              run' = [Quiet EXCEPT !.op = "retry", !.at = "retrieve", !.found = s]
        BY <3>2 DEF BeginRetry
      <4>2. s \in Nat
        BY <1>0
      <4>3. QED
        BY <4>1, <4>2
    <3>3. QED
      BY <1>2, <3>1, <3>2
  <2>2. run' \in Runs
    BY <2>1, QuietTyped, ZenonT(40) DEF Runs, StartRun
  <2>3. QED
    BY <1>0, <1>2, <2>2 DEF NotesTypeOK, BeginDownload, BeginDelete, BeginRetry, BeginList
<1>3. CASE ListBefore
  <2>1. maxNotificationSequence \in Nat
    BY <1>0, MaxSequenceIs
  <2>2. PICK listed \in BOOLEAN, baseline \in Nat :
          run' = [run EXCEPT !.at = "change", !.listed = listed, !.baseline = baseline]
    BY <1>3, <2>1 DEF ListBefore
  <2>3. run' \in Runs
    BY <1>0, <2>2 DEF Runs
  <2>4. QED
    BY <1>0, <1>3, <2>3 DEF NotesTypeOK, ListBefore
<1>4. CASE ChangeFails \/ FindNothing
  <2>1. run' \in Runs
    BY <1>0, <1>4, FinishTyped DEF ChangeFails, FindNothing, unconfirmed
  <2>2. QED
    BY <1>0, <1>4, <2>1 DEF NotesTypeOK, ChangeFails, FindNothing
<1>5. CASE Downloaded
  <2>1. seq + 1 \in Nat /\ \A named \in BOOLEAN : downloadNotificationBaseline(named) \in Nat
    BY <1>0, BaselineIs
  <2>2. PICK own \in Nat, baseline \in Nat, named \in BOOLEAN :
          run' = [run EXCEPT !.at = "find", !.own = own, !.named = named,
                             !.baseline = baseline]
    BY <1>5, <2>1 DEF Downloaded
  <2>3. run' \in Runs
    BY <1>0, <2>2 DEF Runs
  <2>4. run.iccid \in Profile
    BY <1>0, <1>5 DEF NotesInv, Placed, Runs, Downloaded
  <2>5. QED
    BY <1>0, <1>5, <2>3, <2>4, NewNoteTyped DEF NotesTypeOK, Downloaded
<1>6. CASE FinalizeFails
  <2>0. seq + 1 \in Nat
    BY <1>0
  <2>1. run' \in Runs
    <3>1. PICK own \in Nat, place \in {"find", "idle"}, result \in {"none", "error"} :
            run' = [run EXCEPT !.op = "recover", !.own = own, !.at = place, !.result = result]
      BY <1>6, <2>0 DEF FinalizeFails
    <3>2. QED
      BY <1>0, <3>1 DEF Runs
  <2>2. run.iccid \in Profile
    BY <1>0, <1>6 DEF NotesInv, Placed, Runs, FinalizeFails
  <2>3. QED
    BY <1>0, <1>6, <2>1, <2>2, NewNoteTyped DEF NotesTypeOK, FinalizeFails
<1>7. CASE Deleted
  <2>0. seq + 1 \in Nat
    BY <1>0
  <2>1. run' \in Runs
    <3>1. PICK own \in Nat : \/ run' = [run EXCEPT !.at = "find", !.own = own]
                             \/ run' = [run EXCEPT !.at = "idle", !.own = own,
                                                   !.result = "error"]
      BY <1>7, <2>0 DEF Deleted
    <3>2. QED
      BY <1>0, <3>1, ZenonT(40) DEF Runs
  <2>2. run.iccid \in Profile
    BY <1>0, <1>7 DEF NotesInv, Placed, Runs, Deleted
  <2>3. QED
    BY <1>0, <1>7, <2>1, <2>2, NewNoteTyped DEF NotesTypeOK, Deleted
<1>8. CASE Find
  BY <1>0, <1>8 DEF NotesTypeOK, Runs, Note, Find, Matching
<1>9. CASE Retrieve
  <2>1. PICK p \in {{}, {n \in notes : n.seq = run.found}} :
          run' = [run EXCEPT !.at = "handle", !.pending = p]
    BY <1>9 DEF Retrieve
  <2>2. p \in SUBSET Note
    BY <1>0, <2>1 DEF NotesTypeOK
  <2>3. run' \in Runs
    BY <1>0, <2>1, <2>2 DEF Runs
  <2>4. QED
    BY <1>0, <1>9, <2>3 DEF NotesTypeOK, Retrieve
<1>10. CASE RetrieveFails
  <2>1. CASE run.op = "list"
    BY <1>0, <1>10, <2>1 DEF NotesTypeOK, Runs, RetrieveFails
  <2>2. CASE run.op # "list"
    BY <1>0, <1>10, <2>2, FinishTyped DEF NotesTypeOK, RetrieveFails, unconfirmed
  <2>3. QED
    BY <2>1, <2>2
<1>11. CASE Handled \/ HandleFails
  <2>1. run.pending \in SUBSET Note
    BY <1>0 DEF Runs
  <2>2. sent' \subseteq Nat
    BY <1>0, <1>11, <2>1, SeqsTyped DEF NotesTypeOK, Handled, HandleFails
  <2>3. CASE run.op = "list"
    <3>1. \E place \in {"clean", "remove"} : run' = [run EXCEPT !.at = place]
      BY <1>11, <2>3 DEF Handled, HandleFails
    <3>2. run' \in Runs
      BY <1>0, <3>1 DEF Runs
    <3>3. QED
      BY <1>0, <1>11, <2>2, <3>2 DEF NotesTypeOK, Handled, HandleFails
  <2>4. CASE run.op # "list"
    <3>1. \E result \in {"ok", "warning", "error", "recovered"} : Finish(result)
      BY <1>11, <2>4 DEF Handled, HandleFails, unconfirmed
    <3>2. run' \in Runs
      BY <1>0, <3>1, FinishTyped
    <3>3. QED
      BY <1>0, <1>11, <2>2, <3>2 DEF NotesTypeOK, Handled, HandleFails
  <2>5. QED
    BY <2>3, <2>4
<1>12. CASE ListNotifications
  <2>1. CASE Finish("error")
    BY <1>0, <1>12, <2>1, FinishTyped DEF NotesTypeOK, ListNotifications
  <2>2. CASE run' = [run EXCEPT !.at = "clean",
                       !.todo = Seqs({n \in notes : isAutoCleanableLoadedNotification(n)})]
    <3>1. Seqs({n \in notes : isAutoCleanableLoadedNotification(n)}) \in SUBSET Nat
      BY <1>0, SeqsTyped DEF NotesTypeOK
    <3>2. run' \in Runs
      BY <1>0, <2>2, <3>1 DEF Runs
    <3>3. QED
      BY <1>0, <1>12, <3>2 DEF NotesTypeOK, ListNotifications
  <2>3. QED
    BY <1>12, <2>1, <2>2 DEF ListNotifications
<1>13. CASE CleanNext
  <2>1. CASE run.todo = {}
    BY <1>0, <1>13, <2>1, FinishTyped DEF NotesTypeOK, CleanNext
  <2>2. CASE run.todo # {}
    <3>1. PICK s \in run.todo :
            run' = [run EXCEPT !.at = "retrieve", !.found = s, !.todo = @ \ {s}]
      BY <1>13, <2>2 DEF CleanNext
    <3>2. run.todo \in SUBSET Nat
      BY <1>0 DEF Runs
    <3>3. s \in Nat /\ run.todo \ {s} \in SUBSET Nat
      BY <3>2
    <3>4. run' \in Runs
      BY <1>0, <3>1, <3>3 DEF Runs
    <3>5. QED
      BY <1>0, <1>13, <3>4 DEF NotesTypeOK, CleanNext
  <2>3. QED
    BY <2>1, <2>2
<1>14. CASE Remove
  BY <1>0, <1>14 DEF NotesTypeOK, Runs, Remove
<1>15. CASE UNCHANGED noteVars
  BY <1>0, <1>15 DEF NotesTypeOK, noteVars
<1>16. QED
  BY <1>1, <1>2, <1>3, <1>4, <1>5, <1>6, <1>7, <1>8, <1>9, <1>10, <1>11, <1>12, <1>13,
     <1>14, <1>15 DEF NotesNext

-----------------------------------------------------------------------------
LEMMA NumberedKept ==
  ASSUME NotesInv, [NotesNext]_noteVars
  PROVE  Numbered'
<1>0. Numbered /\ \A n \in notes : n.seq \in Nat /\ n.seq <= seq /\ seq \in Nat
  BY DEF NotesInv, NotesTypeOK, Note
<1>1. CASE SwitchOrDisable \/ Downloaded \/ FinalizeFails \/ Deleted
  <2>1. notes' = notes \/ \E event, p : notes' = notes \cup {NewNote(event, p)}
    BY <1>1 DEF SwitchOrDisable, Downloaded, FinalizeFails, Deleted, CardNotes
  <2>2. CASE notes' = notes
    BY <1>0, <2>2 DEF Numbered
  <2>3. ASSUME NEW event, NEW p, notes' = notes \cup {NewNote(event, p)} PROVE Numbered'
    <3>1. NewNote(event, p).seq = seq + 1 /\ \A n \in notes : n.seq # seq + 1
      BY <1>0 DEF NewNote
    <3>2. QED
      BY <1>0, <2>3, <3>1 DEF Numbered
  <2>4. QED
    BY <2>1, <2>2, <2>3
<1>2. CASE Remove
  BY <1>0, <1>2 DEF Numbered, Remove
<1>3. CASE UNCHANGED notes
  BY <1>0, <1>3 DEF Numbered
<1>4. QED
  BY <1>1, <1>2, <1>3 DEF NotesNext, noteVars, BeginDownload, BeginDelete, BeginRetry,
     BeginList, ListBefore, ChangeFails, Find, FindNothing, Retrieve, RetrieveFails, Handled,
     HandleFails, ListNotifications, CleanNext

LEMMA PlacedKept ==
  ASSUME NotesInv, [NotesNext]_noteVars
  PROVE  Placed'
<1>0. /\ Placed /\ run \in Runs /\ installed \subseteq Profile
      /\ run.op \in {"download", "delete"} => run.iccid \in Profile
  BY DEF NotesInv, NotesTypeOK, Placed
<1>1. CASE SwitchOrDisable
  BY <1>0, <1>1 DEF Placed, SwitchOrDisable
<1>2. CASE BeginDownload \/ BeginDelete \/ BeginRetry \/ BeginList
  <2>1. CASE BeginDownload \/ BeginDelete
    <3>1. PICK op \in {"download", "delete"}, p \in Profile : StartRun(op, p)
      BY <1>0, <2>1 DEF BeginDownload, BeginDelete
    <3>2. QED
      BY <3>1 DEF Placed, StartRun, Quiet
  <2>2. CASE BeginRetry
    BY <2>2 DEF Placed, BeginRetry, Quiet
  <2>3. CASE BeginList
    BY <2>3 DEF Placed, BeginList, StartRun, Quiet
  <2>4. QED
    BY <1>2, <2>1, <2>2, <2>3
<1>3. CASE ListBefore
  <2>1. ~run.named
    BY <1>0, <1>3 DEF Placed, ListBefore
  <2>2. QED
    BY <1>0, <1>3, <2>1 DEF Placed, Runs, ListBefore
<1>4. CASE ChangeFails \/ FindNothing
  BY <1>0, <1>4, ZenonT(40) DEF Placed, Runs, Finish, ChangeFails, FindNothing
<1>5. CASE Downloaded
  BY <1>0, <1>5 DEF Placed, Runs, Downloaded
<1>6. CASE FinalizeFails
  BY <1>0, <1>6 DEF Placed, Runs, FinalizeFails
<1>7. CASE Deleted
  BY <1>0, <1>7 DEF Placed, Runs, Deleted
<1>8. CASE Find
  BY <1>0, <1>8 DEF Placed, Runs, Find
<1>9. CASE Retrieve
  BY <1>0, <1>9 DEF Placed, Runs, Retrieve, Seqs
<1>10. CASE RetrieveFails
  BY <1>0, <1>10, ZenonT(40) DEF Placed, Runs, Finish, RetrieveFails
<1>11. CASE Handled
  <2>1. CASE run.op = "list"
    <3>1. run.pending # {} => run.found \in sent'
      BY <1>0, <1>11 DEF Placed, Handled, Seqs
    <3>2. run' = [run EXCEPT !.at = IF run.pending = {} THEN "clean" ELSE "remove"]
      BY <1>11, <2>1 DEF Handled
    <3>3. QED
      BY <1>0, <2>1, <3>1, <3>2 DEF Placed, Runs
  <2>2. CASE run.op # "list"
    <3>1. \E result : Finish(result)
      BY <1>11, <2>2 DEF Handled
    <3>2. QED
      BY <1>0, <3>1 DEF Placed, Runs, Finish
  <2>3. QED
    BY <2>1, <2>2
<1>12. CASE HandleFails
  <2>1. CASE run.op = "list"
    <3>1. run' = [run EXCEPT !.at = "clean"]
      BY <1>12, <2>1 DEF HandleFails
    <3>2. QED
      BY <1>0, <2>1, <3>1 DEF Placed, Runs
  <2>2. CASE run.op # "list"
    <3>1. \E result : Finish(result)
      BY <1>12, <2>2 DEF HandleFails
    <3>2. QED
      BY <1>0, <3>1 DEF Placed, Runs, Finish
  <2>3. QED
    BY <2>1, <2>2
<1>13. CASE ListNotifications
  BY <1>0, <1>13 DEF Placed, Runs, Finish, ListNotifications
<1>14. CASE CleanNext
  BY <1>0, <1>14, ZenonT(40) DEF Placed, Runs, Finish, CleanNext
<1>15. CASE Remove
  BY <1>0, <1>15 DEF Placed, Runs, Remove
<1>16. CASE UNCHANGED noteVars
  BY <1>0, <1>16 DEF Placed, noteVars
<1>17. QED
  BY <1>1, <1>2, <1>3, <1>4, <1>5, <1>6, <1>7, <1>8, <1>9, <1>10, <1>11, <1>12, <1>13,
     <1>14, <1>15, <1>16 DEF NotesNext

LEMMA CleanableKept ==
  ASSUME NotesInv, [NotesNext]_noteVars
  PROVE  Cleanable'
<1>0. /\ Cleanable /\ Numbered /\ Placed /\ run \in Runs /\ seq \in Nat
      /\ \A n \in notes : n.seq \in Nat \ {0}
  BY DEF NotesInv, NotesTypeOK, Note
<1>1. CASE SwitchOrDisable
  BY <1>0, <1>1 DEF Cleanable, SwitchOrDisable, CardNotes, NewNote
<1>2. CASE BeginDownload \/ BeginDelete \/ BeginRetry \/ BeginList
  BY <1>0, <1>2, ZenonT(40)
  DEF Cleanable, BeginDownload, BeginDelete, BeginRetry, BeginList, StartRun, Quiet
<1>3. CASE \/ ListBefore \/ ChangeFails \/ Downloaded \/ FinalizeFails \/ Deleted
           \/ Find \/ FindNothing
  <2>1. run'.op # "list"
    BY <1>0, <1>3, ZenonT(40) DEF Placed, Runs, Finish, ListBefore, ChangeFails, Downloaded,
       FinalizeFails,
       Deleted, Find, FindNothing
  <2>2. QED
    BY <2>1 DEF Cleanable
<1>4. CASE Retrieve \/ RetrieveFails \/ Handled \/ HandleFails
  <2>1. notes' = notes /\ run'.op = run.op /\ run'.found = run.found /\ run'.todo = run.todo
    BY <1>0, <1>4, ZenonT(40) DEF Runs, Finish, Retrieve, RetrieveFails, Handled, HandleFails
  <2>2. QED
    BY <1>0, <2>1 DEF Cleanable
<1>5. CASE ListNotifications
  <2>1. CASE Finish("error")
    BY <1>0, <1>5, <2>1 DEF Cleanable, Runs, Finish, ListNotifications
  <2>2. CASE run' = [run EXCEPT !.at = "clean",
                       !.todo = Seqs({n \in notes : isAutoCleanableLoadedNotification(n)})]
    <3>1. run'.found = run.found /\ notes' = notes /\ run.op = "list"
          /\ run'.todo = Seqs({n \in notes : isAutoCleanableLoadedNotification(n)})
      BY <1>0, <1>5, <2>2 DEF Runs, ListNotifications
    <3>2. \A n \in notes : n.seq \in run'.todo => n.event \in {"enable", "disable"}
      BY <1>0, <3>1 DEF Seqs, isAutoCleanableLoadedNotification, Numbered
    <3>3. QED
      BY <1>0, <3>1, <3>2 DEF Cleanable
  <2>3. QED
    BY <1>5, <2>1, <2>2 DEF ListNotifications
<1>6. CASE CleanNext
  <2>1. CASE run.todo = {}
    BY <1>0, <1>6, <2>1, ZenonT(40) DEF Cleanable, Runs, Finish, CleanNext
  <2>2. CASE run.todo # {}
    <3>1. PICK s \in run.todo :
            run' = [run EXCEPT !.at = "retrieve", !.found = s, !.todo = @ \ {s}]
      BY <1>6, <2>2 DEF CleanNext
    <3>2. /\ run'.op = run.op /\ run'.found = s /\ run'.todo = run.todo \ {s}
          /\ notes' = notes
      BY <1>0, <1>6, <3>1 DEF Runs, CleanNext
    <3>3. QED
      BY <1>0, <3>2 DEF Cleanable
  <2>3. QED
    BY <2>1, <2>2
<1>7. CASE Remove
  BY <1>0, <1>7 DEF Cleanable, Runs, Remove
<1>8. CASE UNCHANGED noteVars
  BY <1>0, <1>8 DEF Cleanable, noteVars
<1>9. QED
  BY <1>1, <1>2, <1>3, <1>4, <1>5, <1>6, <1>7, <1>8 DEF NotesNext

LEMMA ListedKept ==
  ASSUME NotesInv, [NotesNext]_noteVars
  PROVE  Listed'
<1>0. NotesTypeOK /\ Listed /\ run \in Runs
  BY DEF NotesInv, NotesTypeOK
<1>1. CASE ListBefore
  BY <1>0, <1>1, MaxSequenceIs DEF Listed, Runs, ListBefore
<1>2. CASE SwitchOrDisable \/ UNCHANGED noteVars
  BY <1>0, <1>2 DEF Listed, SwitchOrDisable, noteVars
<1>3. CASE ~(ListBefore \/ SwitchOrDisable \/ UNCHANGED noteVars)
  <2>1. run'.at # "change"
    BY <1>0, <1>3, ZenonT(40) DEF NotesNext, Runs, Finish, StartRun, Quiet, BeginDownload,
       BeginDelete,
       BeginRetry, BeginList, ChangeFails, Downloaded, FinalizeFails, Deleted, Find,
       FindNothing, Retrieve, RetrieveFails, Handled, HandleFails, ListNotifications,
       CleanNext, Remove
  <2>2. QED
    BY <2>1 DEF Listed
<1>4. QED
  BY <1>1, <1>2, <1>3

\* What matches after a change whose earlier notifications are known is the new one.
LEMMA MatchIsOwn ==
  ASSUME NotesInv, run.at = "change", NEW event \in {"install", "delete"},
         notes' = notes \/ CardNotes(event, run.iccid),
         run'.op \in {"download", "delete", "recover"},
         run.op = "delete" <=> run'.op = "delete",
         run'.baseline \in Nat, run.listed => run.baseline <= run'.baseline,
         run.listed \/ seq <= run'.baseline
  PROVE  \A n \in Matching' : notes' # notes /\ n.seq = seq + 1
<1>1. /\ NotesTypeOK /\ Listed /\ Placed /\ seq \in Nat /\ run.baseline \in Nat
      /\ \A n \in notes : n.seq \in Nat /\ n.seq <= seq
  BY DEF NotesInv, NotesTypeOK, Runs, Note
<1>2. \A n \in notes' : n \in notes \/ (notes' # notes /\ n.seq = seq + 1)
  BY <1>1 DEF CardNotes, NewNote
<1>3. ASSUME NEW n \in notes, run'.op = "delete" \/ n.event = "install"
      PROVE  n.seq <= run'.baseline
  BY <1>1, <1>3 DEF Listed
<1>4. QED
  BY <1>1, <1>2, <1>3 DEF Matching

LEMMA OwnFoundKept ==
  ASSUME NotesInv, [NotesNext]_noteVars
  PROVE  OwnFound' /\ Recovering'
<1>0. /\ NotesTypeOK /\ Placed /\ OwnFound /\ Recovering /\ run \in Runs /\ seq \in Nat
      /\ \A n \in notes : n.seq \in Nat \ {0}
  BY DEF NotesInv, NotesTypeOK, Note
<1>1. CASE SwitchOrDisable
  BY <1>0, <1>1 DEF OwnFound, Recovering, SwitchOrDisable
<1>2. CASE BeginDownload \/ BeginDelete \/ BeginRetry \/ BeginList
  BY <1>2, ZenonT(40)
  DEF OwnFound, Recovering, BeginDownload, BeginDelete, BeginRetry, BeginList, StartRun, Quiet
<1>3. CASE ListBefore
  BY <1>0, <1>3 DEF OwnFound, Recovering, Runs, ListBefore
<1>4. CASE Downloaded
  <2>1. PICK named \in BOOLEAN :
          run' = [run EXCEPT !.at = "find", !.own = seq + 1, !.named = named,
                             !.baseline = downloadNotificationBaseline(named)]
    BY <1>4 DEF Downloaded
  <2>2. /\ run'.op = "download" /\ run'.at = "find" /\ run'.own = seq + 1
        /\ run'.listed = run.listed /\ run'.named = named
        /\ run'.baseline = downloadNotificationBaseline(named)
    BY <1>0, <1>4, <2>1 DEF Runs, Downloaded
  <2>3. run'.listed \/ run'.named => \A n \in Matching' : n.seq = seq + 1
    BY <1>0, <1>4, <2>2, BaselineIs, MatchIsOwn DEF Downloaded
  <2>4. QED
    BY <2>2, <2>3 DEF OwnFound, Recovering
<1>5. CASE FinalizeFails
  <2>1. PICK executed \in BOOLEAN, error \in {"transport", "package"} :
          /\ IF executed
             THEN /\ CardNotes("install", run.iccid)
                  /\ installed' = installed \cup {run.iccid}
             ELSE UNCHANGED <<installed, seq, notes>>
          /\ run' = [run EXCEPT !.op = "recover",
                                !.own = IF executed THEN seq + 1 ELSE 0,
                                !.at = IF Recoverable(error) THEN "find" ELSE "idle",
                                !.result = IF Recoverable(error) THEN "none" ELSE "error"]
    BY <1>5 DEF FinalizeFails
  <2>2. /\ run'.op = "recover" /\ run'.at = IF Recoverable(error) THEN "find" ELSE "idle"
        /\ run'.own = (IF executed THEN seq + 1 ELSE 0) /\ run'.iccid = run.iccid
        /\ run'.listed = run.listed /\ run'.baseline = run.baseline /\ run.baseline \in Nat
    BY <1>0, <2>1 DEF Runs
  <2>3. CASE ~Recoverable(error)
    BY <2>2, <2>3 DEF OwnFound, Recovering
  <2>4. CASE Recoverable(error)
    <3>1. run.listed /\ run.at = "change" /\ run.op = "download"
      BY <1>5, <2>4 DEF Recoverable, FinalizeFails
    <3>2. \A n \in Matching' : notes' # notes /\ n.seq = seq + 1
      BY <2>1, <2>2, <3>1, MatchIsOwn
    <3>3. \A n \in Matching' : n.seq = run'.own
      BY <2>1, <2>2, <3>2
    <3>4. run'.own # 0 => run'.iccid \in installed'
      BY <2>1, <2>2
    <3>5. QED
      BY <2>2, <2>4, <3>1, <3>3, <3>4 DEF OwnFound, Recovering
  <2>5. QED
    BY <2>3, <2>4
<1>6. CASE Deleted
  <2>1. /\ run'.op = "delete" /\ run'.at \in {"find", "idle"} /\ run'.own = seq + 1
        /\ run'.listed = run.listed /\ run'.named = run.named
        /\ run'.baseline = run.baseline /\ run.baseline \in Nat
    BY <1>0, <1>6 DEF Runs, Deleted
  <2>2. ~run.named
    BY <1>0, <1>6 DEF Placed, Deleted
  <2>3. run'.listed \/ run'.named => \A n \in Matching' : n.seq = seq + 1
    BY <1>6, <2>1, <2>2, MatchIsOwn DEF Deleted
  <2>4. QED
    BY <2>1, <2>3 DEF OwnFound, Recovering
<1>7. CASE Find
  <2>1. PICK n \in Matching : run' = [run EXCEPT !.at = "retrieve", !.found = n.seq]
    BY <1>7 DEF Find
  <2>2. n.seq # 0
    BY <1>0, <2>1 DEF Matching
  <2>3. QED
    BY <1>0, <1>7, <2>1, <2>2 DEF OwnFound, Recovering, Runs, Find
<1>8. CASE Retrieve
  BY <1>0, <1>8 DEF OwnFound, Recovering, Runs, Retrieve
<1>9. CASE \/ ChangeFails \/ FindNothing \/ RetrieveFails \/ Handled \/ HandleFails
           \/ ListNotifications \/ CleanNext \/ Remove
  <2>1. run'.op = "list" \/ run'.at = "idle"
    BY <1>0, <1>9, ZenonT(40) DEF Placed, Runs, Finish, ChangeFails, FindNothing, RetrieveFails,
       Handled,
       HandleFails, ListNotifications, CleanNext, Remove
  <2>2. QED
    BY <2>1 DEF OwnFound, Recovering
<1>10. CASE UNCHANGED noteVars
  BY <1>0, <1>10 DEF OwnFound, Recovering, Matching, noteVars
<1>11. QED
  BY <1>1, <1>2, <1>3, <1>4, <1>5, <1>6, <1>7, <1>8, <1>9, <1>10 DEF NotesNext

LEMMA ReportsKept ==
  ASSUME NotesInv, [NotesNext]_noteVars
  PROVE  ReportsTrue'
<1>0. /\ ReportsTrue /\ Placed /\ OwnFound /\ Recovering /\ run \in Runs
  BY DEF NotesInv, NotesTypeOK
<1>1. CASE SwitchOrDisable \/ UNCHANGED noteVars
  BY <1>0, <1>1 DEF ReportsTrue, QuietMeansDelivered, RecoveredMeansInstalled, Over,
     SwitchOrDisable, noteVars
<1>2. CASE Handled
  <2>1. run.pending # {} => run.found \in sent'
    BY <1>0, <1>2 DEF Placed, Handled, Seqs
  <2>2. installed' = installed /\ run.at = "handle"
    BY <1>2 DEF Handled
  <2>3. CASE run.op \in {"download", "delete"}
    <3>1. run' = [run EXCEPT !.at = "idle", !.result = "ok"]
      BY <1>2, <2>3 DEF Handled, Finish
    <3>2. QED
      BY <1>0, <2>1, <2>2, <2>3, <3>1
      DEF ReportsTrue, QuietMeansDelivered, RecoveredMeansInstalled, OwnFound, Runs
  <2>4. CASE run.op = "recover"
    <3>1. run' = [run EXCEPT !.at = "idle", !.result = "recovered"]
      BY <1>2, <2>4 DEF Handled, Finish
    <3>2. run.found = run.own /\ run.own # 0 /\ run.iccid \in installed
      BY <1>0, <2>2, <2>4 DEF OwnFound, Recovering
    <3>3. QED
      BY <1>0, <2>1, <2>2, <2>4, <3>1, <3>2
      DEF ReportsTrue, QuietMeansDelivered, RecoveredMeansInstalled, Runs
  <2>5. CASE run.op \notin {"download", "delete", "recover"}
    <3>1. run'.op = run.op
      BY <1>0, <1>2, <2>5 DEF Handled, Finish, Runs
    <3>2. QED
      BY <2>5, <3>1 DEF ReportsTrue, QuietMeansDelivered, RecoveredMeansInstalled
  <2>6. QED
    BY <2>3, <2>4, <2>5
<1>3. CASE CleanNext
  <2>1. run'.op = "list"
    BY <1>0, <1>3 DEF Placed, Runs, Finish, CleanNext
  <2>2. QED
    BY <2>1 DEF ReportsTrue, QuietMeansDelivered, RecoveredMeansInstalled
<1>4. CASE ~(SwitchOrDisable \/ UNCHANGED noteVars \/ Handled \/ CleanNext)
  <2>1. run'.at # "idle" \/ run'.result \in {"error", "warning"}
    BY <1>0, <1>4, ZenonT(40) DEF NotesNext, Runs, Finish, unconfirmed, StartRun, Quiet,
       BeginDownload,
       BeginDelete, BeginRetry, BeginList, ListBefore, ChangeFails, Downloaded, FinalizeFails,
       Deleted, Find, FindNothing, Retrieve, RetrieveFails, HandleFails, ListNotifications,
       Remove
  <2>2. QED
    BY <2>1 DEF ReportsTrue, QuietMeansDelivered, RecoveredMeansInstalled, Over
<1>5. QED
  BY <1>1, <1>2, <1>3, <1>4

-----------------------------------------------------------------------------
LEMMA InitNotes ==
  ASSUME NotesInit
  PROVE  NotesInv
<1>1. NotesTypeOK
  BY QuietTyped DEF NotesInit, NotesTypeOK
<1>2. QED
  BY <1>1 DEF NotesInit, NotesInv, Quiet, Numbered, Placed, Cleanable, Listed, OwnFound,
     Recovering, ReportsTrue, QuietMeansDelivered, RecoveredMeansInstalled

LEMMA NotesInvariantKept == NotesSpec => []NotesInv
<1>1. NotesInit => NotesInv
  BY InitNotes
<1>2. NotesInv /\ [NotesNext]_noteVars => NotesInv'
  BY TypesKept, NumberedKept, PlacedKept, CleanableKept, ListedKept, OwnFoundKept,
     ReportsKept DEF NotesInv
<1>3. QED
  BY <1>1, <1>2, PTL DEF NotesSpec

\* The variables keep their types.
THEOREM NotesTypeCorrect == NotesSpec => []NotesTypeOK
<1>1. NotesInv => NotesTypeOK
  BY DEF NotesInv
<1>2. QED
  BY <1>1, NotesInvariantKept, PTL

\* A download or a deletion that ends without a warning sent its own notification, and a
\* download that is reported as installed all the same did install
\* (downloadProfileWithNotificationHandling, DeleteProfileWithNotification).
THEOREM ReportsAlwaysTrue == NotesSpec => []ReportsTrue
<1>1. NotesInv => ReportsTrue
  BY DEF NotesInv
<1>2. QED
  BY <1>1, NotesInvariantKept, PTL

\* A notification leaves the card after the server has it, and only one of a switch
\* (autoCleanLoadedNotifications).
THEOREM OnlyDeliveredRemoved == NotesSpec => RemovedOnlyDelivered
<1>1. ASSUME NotesInv, [NotesNext]_noteVars
      PROVE  [\A n \in notes \ notes' :
                n.seq \in sent /\ n.event \in {"enable", "disable"}]_noteVars
  <2>0. Placed /\ Cleanable
    BY <1>1 DEF NotesInv
  <2>1. CASE Remove
    BY <2>0, <2>1 DEF Remove, Placed, Cleanable
  <2>2. CASE ~Remove
    <3>1. notes \subseteq notes' \/ UNCHANGED noteVars
      BY <1>1, <2>2 DEF NotesNext, CardNotes, noteVars, SwitchOrDisable, BeginDownload,
         BeginDelete, BeginRetry, BeginList, ListBefore, ChangeFails, Downloaded,
         FinalizeFails, Deleted, Find, FindNothing, Retrieve, RetrieveFails, Handled,
         HandleFails, ListNotifications, CleanNext
    <3>2. QED
      BY <3>1
  <2>3. QED
    BY <2>1, <2>2
<1>2. QED
  BY <1>1, NotesInvariantKept, PTL DEF NotesSpec, RemovedOnlyDelivered

==============================================================================
