---------------------------- MODULE SIMAuthReady ----------------------------
(***************************************************************************)
(* The SIM-authentication readiness gate of the arbiter                    *)
(* (internal/apduarbiter/simauth_ready.go): callers share one probe, and   *)
(* an invalidation while the probe runs makes its success worthless.       *)
(* The fields are those of simAuthReadyState under a.mu; waitC is open     *)
(* exactly while somebody probes, and the callers blocked on it are the    *)
(* ones that are "parked".                                                 *)
(***************************************************************************)
EXTENDS Naturals

CONSTANTS
  Caller,          \* goroutines that call WaitSIMAuthReady
  MaxGeneration    \* bound on the invalidations of a run

ASSUME GenerationAssumption == MaxGeneration \in Nat

VARIABLES
  generation, ready, probing,
  pc,         \* [Caller -> where the goroutine is]
  started,    \* [Caller -> generation at which its probe started]
  cardOK      \* history: the card answered a probe since it was last reset

vars == <<generation, ready, probing, pc, started, cardOK>>

PC == {"idle", "loop", "parked", "probe", "answered", "done"}

TypeOK ==
  /\ generation \in Nat
  /\ ready \in BOOLEAN
  /\ probing \in BOOLEAN
  /\ pc \in [Caller -> PC]
  /\ started \in [Caller -> Nat]
  /\ cardOK \in BOOLEAN

Init ==
  /\ generation = 0
  /\ ready = FALSE
  /\ probing = FALSE
  /\ pc = [c \in Caller |-> "idle"]
  /\ started = [c \in Caller |-> 0]
  /\ cardOK = FALSE

\* The card is reset or switched: what was known of it is void.
InvalidateSIMAuthReady ==
  /\ generation < MaxGeneration
  /\ generation' = generation + 1
  /\ ready' = FALSE
  /\ cardOK' = FALSE
  /\ UNCHANGED <<probing, pc, started>>

Call(c) ==
  /\ pc[c] = "idle"
  /\ pc' = [pc EXCEPT ![c] = "loop"]
  /\ UNCHANGED <<generation, ready, probing, started, cardOK>>

\* One turn of the loop: ready, or wait for the running probe, or probe.
Turn(c) ==
  /\ pc[c] = "loop"
  /\ \/ /\ ready
        /\ pc' = [pc EXCEPT ![c] = "done"]
        /\ UNCHANGED <<probing, started>>
     \/ /\ ~ready /\ probing
        /\ pc' = [pc EXCEPT ![c] = "parked"]
        /\ UNCHANGED <<probing, started>>
     \/ /\ ~ready /\ ~probing
        /\ probing' = TRUE
        /\ started' = [started EXCEPT ![c] = generation]
        /\ pc' = [pc EXCEPT ![c] = "probe"]
  /\ UNCHANGED <<generation, ready, cardOK>>

\* The card answers the probe, outside the mutex.
Answer(c) ==
  /\ pc[c] = "probe"
  /\ cardOK' = TRUE
  /\ pc' = [pc EXCEPT ![c] = "answered"]
  /\ UNCHANGED <<generation, ready, probing, started>>

\* Mutant: the waiters are not woken.
WakeNobody(c, s) == pc' = [pc EXCEPT ![c] = s]

WakeParked(c, s) ==
  pc' = [ d \in Caller |-> IF d = c THEN s
                           ELSE IF pc[d] = "parked" THEN "loop"
                           ELSE pc[d] ]

\* Mutant: the generation is not compared.
ProbeSucceedsStale(c) ==
  /\ pc[c] = "answered"
  /\ ready' = TRUE
  /\ WakeParked(c, "done")
  /\ probing' = FALSE
  /\ UNCHANGED <<generation, started, cardOK>>

\* Mutant: a stale success is not published, yet its caller gets nil.
ProbeStaleReturns(c) ==
  /\ pc[c] = "answered"
  /\ ready' = (ready \/ generation = started[c])
  /\ WakeParked(c, "done")
  /\ probing' = FALSE
  /\ UNCHANGED <<generation, started, cardOK>>

\* The probe returned nil: publish it unless the generation moved on, wake
\* the waiters, and start over when it was stale.
ProbeSucceeds(c) ==
  /\ pc[c] = "answered"
  /\ LET stale == generation # started[c] IN
     /\ ready' = IF stale THEN ready ELSE TRUE
     /\ WakeParked(c, IF stale THEN "loop" ELSE "done")
  /\ probing' = FALSE
  /\ UNCHANGED <<generation, started, cardOK>>

\* The probe returned an error, whether or not the card had answered: the
\* caller gets it, waiters try themselves.
ProbeFails(c) ==
  /\ pc[c] \in {"probe", "answered"}
  /\ ready' = IF generation # started[c] THEN ready ELSE FALSE
  /\ WakeParked(c, "idle")
  /\ probing' = FALSE
  /\ UNCHANGED <<generation, started, cardOK>>

\* ctx ended at the top of the loop or while waiting.
GiveUp(c) ==
  /\ pc[c] \in {"loop", "parked"}
  /\ pc' = [pc EXCEPT ![c] = "idle"]
  /\ UNCHANGED <<generation, ready, probing, started, cardOK>>

\* The caller got nil and goes on.
Return(c) ==
  /\ pc[c] = "done"
  /\ pc' = [pc EXCEPT ![c] = "idle"]
  /\ UNCHANGED <<generation, ready, probing, started, cardOK>>

CallerStep(c) ==
  \/ Turn(c) \/ Answer(c) \/ ProbeSucceeds(c) \/ ProbeFails(c) \/ Return(c)

Next ==
  \/ InvalidateSIMAuthReady
  \/ \E c \in Caller : Call(c) \/ GiveUp(c) \/ CallerStep(c)

Spec == Init /\ [][Next]_vars

\* Goroutines run and a probe returns, with or without an error.
Fairness == \A c \in Caller : WF_vars(CallerStep(c))

FairSpec == Spec /\ Fairness

----------------------------------------------------------------------------
\* The gate is open only if the card itself answered a probe after the last
\* invalidation: a probe that straddles a card switch never opens it.
ReadyMeansProbed == ready => cardOK

\* A caller gets nil only while that is still so.
NilMeansProbed ==
  [][ \A c \in Caller : pc[c] # "done" /\ pc'[c] = "done" => ready' /\ cardOK' ]_vars

\* One probe at a time, and whoever is parked has a prober that will wake it.
isProber(c) == pc[c] \in {"probe", "answered"}

OneProber ==
  /\ \A c, d \in Caller : isProber(c) /\ isProber(d) => c = d
  /\ probing <=> \E c \in Caller : isProber(c)
  /\ \A c \in Caller : pc[c] = "parked" => probing

\* A parked caller does not stay parked, whether or not the probe it waits for
\* fails, is overtaken by an invalidation, or belongs to a cancelled context.
ParkedWake == \A c \in Caller : pc[c] = "parked" ~> pc[c] # "parked"
============================================================================
