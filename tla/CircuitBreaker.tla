--------------------------- MODULE CircuitBreaker ---------------------------
(***************************************************************************)
(* The half-open circuit breaker of @qadi/audit, which guards the writes   *)
(* to the audit trail.                                                     *)
(*                                                                         *)
(* The state is one Ref; every transition is one atomic modification of    *)
(* it.  The clock is read in a step of its own before the modification     *)
(* that uses it, so a reading may be stale by the time it is used.  Times  *)
(* are kept as ages: since is the age of openedAt or halfOpenAt, lag the   *)
(* age of a reading not used yet.                                          *)
(***************************************************************************)
EXTENDS Integers

CONSTANTS
    Calls,             \* fibers calling withPermit, again and again
    Watchers,          \* fibers reading status, again and again
    FailureThreshold,  \* options.failureThreshold
    Reset,             \* options.resetTimeoutMs, in ticks
    MaxLag,            \* bound on the age of a clock reading when it is used
    MaxGeneration      \* bound: the clock stops once generation reaches it

(* The threshold is used as given: 0 trips on the first failure, as 1 does. *)
ASSUME OptionsAssumption == FailureThreshold \in Nat /\ Reset \in Nat
ASSUME FibersAreDistinct == Calls \cap Watchers = {}
ASSUME BoundsAssumption == MaxLag \in Nat /\ MaxGeneration \in Nat

VARIABLES
    breaker,           \* the Ref: Closed, Open or HalfOpen
    calls              \* the fibers inside withPermit or status

breakerVars == <<breaker, calls>>

Fibers == Calls \cup Watchers

(* Nothing tells ages apart beyond this one.                               *)
MaxAge == Reset + MaxLag

(* One record for the three variants; a field a variant does not have is   *)
(* 0 or FALSE.                                                             *)
State == [tag : {"Closed", "Open", "HalfOpen"},
          generation : Nat,
          failures : Nat,            \* consecutiveFailures, when Closed
          since : 0..MaxAge,         \* when Open or HalfOpen
          probeClaimed : BOOLEAN]    \* when HalfOpen

Closed(g, n) ==
    [tag |-> "Closed", generation |-> g, failures |-> n, since |-> 0, probeClaimed |-> FALSE]
Open(g, age) ==
    [tag |-> "Open", generation |-> g, failures |-> 0, since |-> age, probeClaimed |-> FALSE]
HalfOpen(g, age, claimed) ==
    [tag |-> "HalfOpen", generation |-> g, failures |-> 0, since |-> age,
     probeClaimed |-> claimed]

(* admit is observing, claiming, lost (the claim) and reobserving; use is   *)
(* using, writing and the recording of an outcome (succeeded, failed,      *)
(* tripping); the release of a probe is aborting and releasing.            *)
Pc == {"idle", "observing", "claiming", "lost", "reobserving", "using", "writing",
       "succeeded", "failed", "tripping", "aborting", "releasing"}

Call == [pc : Pc,
         lag : 0..MaxLag,
         permit : {"none", "refused", "plain", "probe"},
         generation : Nat,           \* the generation it was admitted under
         settled : BOOLEAN]          \* attempt has recorded an outcome

AtRest == [pc |-> "idle", lag |-> 0, permit |-> "none", generation |-> 0, settled |-> FALSE]
Holding(permit, g) ==
    [pc |-> "using", lag |-> 0, permit |-> permit, generation |-> g, settled |-> FALSE]

BreakerInit ==
    /\ breaker = Closed(0, 0)
    /\ calls = [c \in Fibers |-> AtRest]

Moves(c, state) == calls' = [calls EXCEPT ![c].pc = state, ![c].lag = 0]
Becomes(c, call) == calls' = [calls EXCEPT ![c] = call]

----------------------------------------------------------------------------
(* The clock.                                                              *)

Pending == {"observing", "reobserving", "tripping", "releasing"}

(* Clock.currentTimeMillis.                                                *)
ReadClock(c) ==
    /\ \/ calls[c].pc = "idle" /\ Moves(c, "observing")
       \/ calls[c].pc = "lost" /\ Moves(c, "reobserving")
       \/ calls[c].pc = "failed" /\ Moves(c, "tripping")
       \/ calls[c].pc = "aborting" /\ Moves(c, "releasing")
    /\ UNCHANGED breaker

Older(age, limit) == IF age < limit THEN age + 1 ELSE limit

Tick ==
    /\ breaker.generation < MaxGeneration
    /\ \A c \in Fibers : calls[c].pc \in Pending => calls[c].lag < MaxLag
    /\ breaker' = IF breaker.tag = "Closed" THEN breaker
                                            ELSE [breaker EXCEPT !.since = Older(@, MaxAge)]
    /\ calls' = [c \in Fibers |->
           IF calls[c].pc \in Pending THEN [calls[c] EXCEPT !.lag = Older(@, MaxLag)]
                                      ELSE calls[c]]

----------------------------------------------------------------------------
(* observe: what a reading makes of the state.  An Open breaker whose time *)
(* is up half-opens, a half-open window that outlived it reopens.          *)

Expired(c) == breaker.tag # "Closed" /\ breaker.since - calls[c].lag >= Reset

(* Mutations: a window that reopens keeps its generation; one that expires *)
(* half-open stays so.                                                     *)
ObservedSameGeneration(c) ==
    CASE ~Expired(c) -> breaker
      [] Expired(c) /\ breaker.tag = "HalfOpen" -> Open(breaker.generation, calls[c].lag)
      [] OTHER -> HalfOpen(breaker.generation + 1, calls[c].lag, FALSE)

ObservedOpenOnly(c) ==
    IF Expired(c) /\ breaker.tag = "Open"
      THEN HalfOpen(breaker.generation + 1, calls[c].lag, FALSE)
      ELSE breaker

Observed(c) ==
    CASE ~Expired(c) -> breaker
      [] Expired(c) /\ breaker.tag = "HalfOpen" -> Open(breaker.generation + 1, calls[c].lag)
      [] OTHER -> HalfOpen(breaker.generation + 1, calls[c].lag, FALSE)

Observe(c) ==
    /\ calls[c].pc = "observing"
    /\ breaker' = Observed(c)
    /\ IF c \in Watchers
         THEN Becomes(c, AtRest)
         ELSE CASE breaker'.tag = "Closed" -> Becomes(c, Holding("plain", breaker'.generation))
                [] breaker'.tag = "Open" -> Becomes(c, Holding("refused", 0))
                [] breaker'.tag = "HalfOpen" -> Moves(c, "claiming")

(* A mutation: a window already claimed is claimed again.                  *)
ClaimTwice(c) ==
    /\ calls[c].pc = "claiming"
    /\ IF breaker.tag = "HalfOpen"
         THEN /\ breaker' = [breaker EXCEPT !.probeClaimed = TRUE]
              /\ Becomes(c, Holding("probe", breaker.generation))
         ELSE /\ UNCHANGED breaker
              /\ Moves(c, "lost")

(* claimProbe.  The window it claims may not be the one it observed.       *)
Claim(c) ==
    /\ calls[c].pc = "claiming"
    /\ IF breaker.tag = "HalfOpen" /\ ~breaker.probeClaimed
         THEN /\ breaker' = [breaker EXCEPT !.probeClaimed = TRUE]
              /\ Becomes(c, Holding("probe", breaker.generation))
         ELSE /\ UNCHANGED breaker
              /\ Moves(c, "lost")

(* The second observe, after a lost claim.                                 *)
Reobserve(c) ==
    /\ calls[c].pc = "reobserving"
    /\ breaker' = Observed(c)
    /\ IF breaker'.tag = "Closed"
         THEN Becomes(c, Holding("plain", breaker'.generation))
         ELSE Becomes(c, Holding("refused", 0))

----------------------------------------------------------------------------
(* use(permit), and attempt inside it.                                     *)

Admitted(c) == calls[c].permit \in {"plain", "probe"}

Attempt(c) ==
    /\ calls[c].pc = "using"
    /\ Admitted(c)
    /\ Moves(c, "writing")
    /\ UNCHANGED breaker

(* The write's Exit, and settled read and set: only the first is recorded. *)
WriteEnds(c, ok) ==
    /\ calls[c].pc = "writing"
    /\ calls' = [calls EXCEPT ![c].settled = TRUE,
                              ![c].pc = CASE calls[c].settled -> "using"
                                          [] ~calls[c].settled /\ ok -> "succeeded"
                                          [] OTHER -> "failed"]
    /\ UNCHANGED breaker

Current(c) == breaker.generation = calls[c].generation

RecordSuccess(c) ==
    /\ calls[c].pc = "succeeded"
    /\ breaker' = CASE Current(c) /\ breaker.tag = "Closed" -> Closed(breaker.generation, 0)
                    [] Current(c) /\ breaker.tag = "HalfOpen" ->
                         Closed(breaker.generation + 1, 0)
                    [] OTHER -> breaker
    /\ Moves(c, "using")

Failed(c) ==
    IF breaker.tag = "Closed" /\ breaker.failures + 1 < FailureThreshold
      THEN Closed(breaker.generation, breaker.failures + 1)
      ELSE Open(breaker.generation + 1, calls[c].lag)

(* A mutation: a late failure restarts the open window.                    *)
RecordFailureLate(c) ==
    /\ calls[c].pc = "tripping"
    /\ breaker' = CASE breaker.tag = "Open" -> [breaker EXCEPT !.since = calls[c].lag]
                    [] breaker.tag # "Open" /\ Current(c) -> Failed(c)
                    [] OTHER -> breaker
    /\ Moves(c, "using")

RecordFailure(c) ==
    /\ calls[c].pc = "tripping"
    /\ breaker' = IF Current(c) /\ breaker.tag # "Open" THEN Failed(c) ELSE breaker
    /\ Moves(c, "using")

UseSucceeds(c) ==
    /\ calls[c].pc = "using"
    /\ Becomes(c, AtRest)
    /\ UNCHANGED breaker

(* A mutation: the probe is not released.                                  *)
UseFailsUnreleased(c) ==
    /\ calls[c].pc \in {"using", "writing", "succeeded", "failed", "tripping"}
    /\ Becomes(c, AtRest)
    /\ UNCHANGED breaker

(* use fails, or its caller interrupts it, between any two steps.          *)
UseFails(c) ==
    /\ calls[c].pc \in {"using", "writing", "succeeded", "failed", "tripping"}
    /\ IF calls[c].permit = "probe" THEN Moves(c, "aborting") ELSE Becomes(c, AtRest)
    /\ UNCHANGED breaker

(* releaseProbe, the finalizer of a probe whose use did not succeed.       *)
Release(c) ==
    /\ calls[c].pc = "releasing"
    /\ breaker' = IF breaker.tag = "HalfOpen" /\ breaker.probeClaimed /\ Current(c)
                    THEN Open(breaker.generation + 1, calls[c].lag)
                    ELSE breaker
    /\ Becomes(c, AtRest)

AdmitStep(c) == ReadClock(c) \/ Observe(c) \/ Claim(c) \/ Reobserve(c)
RecordStep(c) == RecordSuccess(c) \/ RecordFailure(c) \/ Release(c)
WriteStep(c) == \E ok \in BOOLEAN : WriteEnds(c, ok)

BreakerNext ==
    \/ Tick
    \/ \E c \in Fibers : AdmitStep(c)
    \/ \E c \in Calls : RecordStep(c) \/ Attempt(c) \/ WriteStep(c) \/ UseSucceeds(c) \/ UseFails(c)

BreakerSpec == BreakerInit /\ [][BreakerNext]_breakerVars

(* Time passes, a fiber inside the breaker's own code keeps running, and   *)
(* status is read now and then.  No write is obliged to end.               *)
BreakerFairness ==
    /\ WF_breakerVars(Tick)
    /\ \A w \in Watchers : WF_breakerVars(ReadClock(w)) /\ WF_breakerVars(Observe(w))
    /\ \A c \in Calls :
         /\ WF_breakerVars(calls[c].pc # "idle" /\ ReadClock(c))
         /\ WF_breakerVars(Observe(c) \/ Claim(c) \/ Reobserve(c))
         /\ WF_breakerVars(RecordStep(c))

----------------------------------------------------------------------------
(* Types.                                                                  *)
BreakerTypeOK == breaker \in State /\ calls \in [Fibers -> Call]

(* A permit of the current generation is a plain one exactly when the      *)
(* breaker is Closed, and the claimed probe when it is HalfOpen: so no     *)
(* outcome is ever recorded against Open, and a half-open window is only   *)
(* ever settled by its own probe.  "A half-open breaker admits exactly one *)
(* concurrent probe": however long probes linger, no two of them belong to *)
(* the same window.  (CircuitBreaker.ts:280-376)                           *)
WindowsOwnTheirProbe ==
    \A c \in Calls :
        /\ Admitted(c) /\ Current(c) =>
               \/ calls[c].permit = "plain" /\ breaker.tag = "Closed"
               \/ calls[c].permit = "probe" /\ breaker.tag = "HalfOpen" /\ breaker.probeClaimed
        /\ \A d \in Calls \ {c} :
               calls[c].permit = "probe" /\ calls[d].permit = "probe"
                 => calls[c].generation # calls[d].generation

(* A late outcome "MUST NOT restart the open window": while a breaker does *)
(* not change its generation, it does not change its status and the age of *)
(* its window does not go down.                                            *)
WindowsNeverRestart ==
    [][breaker'.generation = breaker.generation
         => breaker'.tag = breaker.tag /\ breaker'.since >= breaker.since]_breakerVars

(* A half-open window ends, though its probe hang forever in its write:    *)
(* "none of these can wedge the breaker HalfOpen forever".                 *)
HalfOpenEnds ==
    breaker.tag = "HalfOpen" /\ breaker.generation < MaxGeneration
      ~> breaker.tag # "HalfOpen"

=============================================================================
