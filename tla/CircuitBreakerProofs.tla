------------------------ MODULE CircuitBreakerProofs ------------------------
(***************************************************************************)
(* Proofs about CircuitBreaker, for any number of callers and watchers,    *)
(* any threshold and any reset time.                                       *)
(***************************************************************************)
EXTENDS CircuitBreaker, TLAPS

(* No permit comes from a window that has not begun.                       *)
NoPermitFromTheFuture ==
    \A c \in Calls : Admitted(c) => calls[c].generation <= breaker.generation

(* Only a caller inside use, or releasing its probe, has a permit.         *)
PermitsAreInUse ==
    \A c \in Fibers :
        /\ calls[c].permit # "none" =>
             calls[c].pc \in {"using", "writing", "succeeded", "failed", "tripping",
                              "aborting", "releasing"}
        /\ calls[c].pc \in {"writing", "succeeded", "failed", "tripping", "aborting", "releasing"}
             => Admitted(c)
        /\ c \in Watchers => calls[c].pc \in {"idle", "observing"}

(* The two parts of WindowsOwnTheirProbe.                                  *)
PermitsMatchWindow ==
    \A c \in Calls : Admitted(c) /\ Current(c) =>
        \/ calls[c].permit = "plain" /\ breaker.tag = "Closed"
        \/ calls[c].permit = "probe" /\ breaker.tag = "HalfOpen" /\ breaker.probeClaimed

OneProbePerWindow ==
    \A c, d \in Calls :
        c # d /\ calls[c].permit = "probe" /\ calls[d].permit = "probe"
          => calls[c].generation # calls[d].generation

BreakerInv ==
    /\ BreakerTypeOK
    /\ NoPermitFromTheFuture
    /\ PermitsAreInUse
    /\ PermitsMatchWindow
    /\ OneProbePerWindow

----------------------------------------------------------------------------
(* What the constructors build.                                            *)

(* The three variants are states, a call at rest or with a fresh permit is *)
(* a call.                                                                 *)
LEMMA Constructors ==
    /\ \A g, n \in Nat : Closed(g, n) \in State
    /\ \A g \in Nat, age \in 0..MaxLag, b \in BOOLEAN :
         Open(g, age) \in State /\ HalfOpen(g, age, b) \in State
    /\ AtRest \in Call
    /\ \A p \in {"refused", "plain", "probe"}, g \in Nat : Holding(p, g) \in Call
BY OptionsAssumption, BoundsAssumption
   DEF State, MaxAge, Closed, Open, HalfOpen, Call, Pc, AtRest, Holding

(* A call that moves to another control state, or is replaced, stays a     *)
(* call.                                                                   *)
LEMMA MovesTyped ==
    ASSUME BreakerTypeOK, NEW c \in Fibers, NEW state \in Pc, Moves(c, state)
    PROVE  calls' \in [Fibers -> Call]
<1> DEFINE r1 == [calls[c] EXCEPT !.pc = state]
<1>1. calls[c] \in Call /\ calls \in [Fibers -> Call]
  BY DEF BreakerTypeOK
<1>2. r1 \in Call
  BY <1>1 DEF Call
<1> HIDE DEF r1
<1>3. [r1 EXCEPT !.lag = 0] \in Call
  BY <1>2, BoundsAssumption DEF Call
<1> USE DEF r1
<1>4. calls' = [calls EXCEPT ![c] = [r1 EXCEPT !.lag = 0]]
  BY <1>1 DEF Moves
<1> QED
  BY <1>1, <1>3, <1>4

(* A fiber whose call is replaced by a call leaves the table well typed.   *)
LEMMA BecomesTyped ==
    ASSUME BreakerTypeOK, NEW c \in Fibers, NEW call \in Call, Becomes(c, call)
    PROVE  calls' \in [Fibers -> Call]
BY DEF BreakerTypeOK, Becomes

(* Observing leaves the state alone, or begins a window nobody has claimed *)
(* with the next generation.                                               *)
LEMMA ObservedFacts ==
    ASSUME BreakerTypeOK, NEW c \in Fibers
    PROVE  /\ Observed(c) \in State
           /\ \/ Observed(c) = breaker
              \/ /\ Observed(c).generation = breaker.generation + 1
                 /\ Observed(c).tag # "Closed"
<1>1. breaker \in State /\ calls[c].lag \in 0..MaxLag
  BY DEF BreakerTypeOK, Call
<1>2. breaker.generation \in Nat /\ breaker.generation + 1 \in Nat
  BY <1>1 DEF State
<1>3. CASE ~Expired(c)
  BY <1>1, <1>3 DEF Observed
<1>4. CASE Expired(c) /\ breaker.tag = "HalfOpen"
  <2>1. Observed(c) = Open(breaker.generation + 1, calls[c].lag)
    BY <1>4 DEF Observed
  <2>2. Observed(c) \in State
    BY <2>1, <1>1, <1>2, Constructors
  <2>3. Observed(c).generation = breaker.generation + 1 /\ Observed(c).tag # "Closed"
    BY <2>1 DEF Open
  <2> QED
    BY <2>2, <2>3
<1>5. CASE Expired(c) /\ breaker.tag # "HalfOpen"
  <2>1. Observed(c) = HalfOpen(breaker.generation + 1, calls[c].lag, FALSE)
    BY <1>5 DEF Observed
  <2>2. Observed(c) \in State
    BY <2>1, <1>1, <1>2, Constructors
  <2>3. Observed(c).generation = breaker.generation + 1 /\ Observed(c).tag # "Closed"
    BY <2>1 DEF HalfOpen
  <2> QED
    BY <2>2, <2>3
<1> QED
  BY <1>3, <1>4, <1>5

----------------------------------------------------------------------------
(* One lemma per action: the invariant survives it.                        *)

(* A tick only ages the window and the pending clock readings.             *)
LEMMA TickStep ==
    ASSUME BreakerInv, Tick
    PROVE  BreakerInv'
<1> USE OptionsAssumption, BoundsAssumption DEF BreakerInv
<1>1. BreakerTypeOK'
  BY DEF Tick, BreakerTypeOK, State, Call, Pc, MaxAge, Older, Pending
<1>2. NoPermitFromTheFuture'
  BY DEF Tick, Older, Pending, NoPermitFromTheFuture, BreakerTypeOK, State, Call, Fibers, Admitted
<1>3. PermitsAreInUse'
  BY FibersAreDistinct
     DEF Tick, Older, Pending, PermitsAreInUse, BreakerTypeOK, Call, Fibers, Admitted
<1>4. PermitsMatchWindow'
  BY DEF Tick, Older, Pending, PermitsMatchWindow, NoPermitFromTheFuture, PermitsAreInUse, BreakerTypeOK, State, Call, Fibers, Current, Admitted
<1>5. OneProbePerWindow'
  BY DEF Tick, Older, Pending, OneProbePerWindow, PermitsMatchWindow, BreakerTypeOK, State, Call, Fibers, Current, Admitted
<1> QED
  BY <1>1, <1>2, <1>3, <1>4, <1>5

(* Reading the clock only moves a call on.                                 *)
LEMMA ReadClockStep ==
    ASSUME BreakerInv, NEW c \in Fibers, ReadClock(c)
    PROVE  BreakerInv'
<1> USE DEF BreakerInv
<1>1. BreakerTypeOK'
  BY MovesTyped DEF ReadClock, BreakerTypeOK, Pc
<1>2. NoPermitFromTheFuture'
  BY DEF ReadClock, Moves, NoPermitFromTheFuture, BreakerTypeOK, State, Call, Fibers, Admitted
<1>3. PermitsAreInUse'
  BY FibersAreDistinct
     DEF ReadClock, Moves, PermitsAreInUse, BreakerTypeOK, Call, Fibers, Admitted
<1>4. PermitsMatchWindow'
  BY DEF ReadClock, Moves, PermitsMatchWindow, NoPermitFromTheFuture, PermitsAreInUse, BreakerTypeOK, State, Call, Fibers, Current, Admitted
<1>5. OneProbePerWindow'
  BY DEF ReadClock, Moves, OneProbePerWindow, PermitsMatchWindow, BreakerTypeOK, State, Call, Fibers, Current, Admitted
<1> QED
  BY <1>1, <1>2, <1>3, <1>4, <1>5

(* A won claim is the only probe of its window, a lost one no permit.      *)
LEMMA ClaimStep ==
    ASSUME BreakerInv, NEW c \in Fibers, Claim(c)
    PROVE  BreakerInv'
<1> USE DEF BreakerInv
<1>1. BreakerTypeOK'
  <2>1. breaker \in State /\ breaker.generation \in Nat
    BY DEF BreakerTypeOK, State
  <2>2. CASE breaker.tag = "HalfOpen" /\ ~breaker.probeClaimed
    <3>1. breaker' \in State
      BY <2>1, <2>2 DEF Claim, State
    <3>2. Becomes(c, Holding("probe", breaker.generation))
      BY <2>2 DEF Claim
    <3> QED
      BY <3>1, <3>2, <2>1, BecomesTyped, Constructors DEF BreakerTypeOK
  <2>3. CASE ~(breaker.tag = "HalfOpen" /\ ~breaker.probeClaimed)
    <3>1. breaker' = breaker /\ Moves(c, "lost")
      BY <2>3 DEF Claim
    <3> QED
      BY <3>1, <2>1, MovesTyped DEF BreakerTypeOK, Pc
  <2> QED
    BY <2>2, <2>3
<1>2. NoPermitFromTheFuture'
  BY DEF Claim, Moves, Becomes, Holding, NoPermitFromTheFuture, BreakerTypeOK, State, Call, Fibers, Admitted
<1>3. PermitsAreInUse'
  BY FibersAreDistinct
     DEF Claim, Moves, Becomes, Holding, PermitsAreInUse, BreakerTypeOK, Call, Fibers, Admitted
<1>4. PermitsMatchWindow'
  BY DEF Claim, Moves, Becomes, Holding, PermitsMatchWindow, NoPermitFromTheFuture, PermitsAreInUse, BreakerTypeOK, State, Call, Fibers, Current, Admitted
<1>5. OneProbePerWindow'
  BY DEF Claim, Moves, Becomes, Holding, OneProbePerWindow, PermitsMatchWindow, BreakerTypeOK, State, Call, Fibers, Current, Admitted
<1> QED
  BY <1>1, <1>2, <1>3, <1>4, <1>5

(* Starting a write keeps the permit.                                      *)
LEMMA AttemptStep ==
    ASSUME BreakerInv, NEW c \in Calls, Attempt(c)
    PROVE  BreakerInv'
<1> USE DEF BreakerInv
<1>1. BreakerTypeOK'
  BY MovesTyped DEF Attempt, BreakerTypeOK, Pc, Fibers
<1>2. NoPermitFromTheFuture'
  BY DEF Attempt, Moves, NoPermitFromTheFuture, BreakerTypeOK, State, Call, Fibers, Admitted
<1>3. PermitsAreInUse'
  BY FibersAreDistinct
     DEF Attempt, Moves, PermitsAreInUse, BreakerTypeOK, Call, Fibers, Admitted
<1>4. PermitsMatchWindow'
  BY DEF Attempt, Moves, PermitsMatchWindow, NoPermitFromTheFuture, PermitsAreInUse, BreakerTypeOK, State, Call, Fibers, Current, Admitted
<1>5. OneProbePerWindow'
  BY DEF Attempt, Moves, OneProbePerWindow, PermitsMatchWindow, BreakerTypeOK, State, Call, Fibers, Current, Admitted
<1> QED
  BY <1>1, <1>2, <1>3, <1>4, <1>5

(* A write that ends keeps the permit.                                     *)
LEMMA WriteEndsStep ==
    ASSUME BreakerInv, NEW c \in Calls, NEW ok \in BOOLEAN, WriteEnds(c, ok)
    PROVE  BreakerInv'
<1> USE DEF BreakerInv
<1>1. BreakerTypeOK'
  BY DEF WriteEnds, BreakerTypeOK, Call, Pc, Fibers
<1>2. NoPermitFromTheFuture'
  BY DEF WriteEnds, NoPermitFromTheFuture, BreakerTypeOK, State, Call, Fibers, Admitted
<1>3. PermitsAreInUse'
  BY FibersAreDistinct
     DEF WriteEnds, PermitsAreInUse, BreakerTypeOK, Call, Fibers, Admitted
<1>4. PermitsMatchWindow'
  BY DEF WriteEnds, PermitsMatchWindow, NoPermitFromTheFuture, PermitsAreInUse, BreakerTypeOK, State, Call, Fibers, Current, Admitted
<1>5. OneProbePerWindow'
  BY DEF WriteEnds, OneProbePerWindow, PermitsMatchWindow, BreakerTypeOK, State, Call, Fibers, Current, Admitted
<1> QED
  BY <1>1, <1>2, <1>3, <1>4, <1>5

(* A success of the current generation closes a half-open breaker under a  *)
(* new generation, or clears the failures of a Closed one.                 *)
LEMMA RecordSuccessStep ==
    ASSUME BreakerInv, NEW c \in Calls, RecordSuccess(c)
    PROVE  BreakerInv'
<1> USE DEF BreakerInv
<1>1. BreakerTypeOK'
  <2>1. breaker \in State /\ breaker.generation \in Nat /\ breaker.generation + 1 \in Nat
    BY DEF BreakerTypeOK, State
  <2>2. breaker' \in State
    BY <2>1, Constructors DEF RecordSuccess
  <2> QED
    BY <2>2, MovesTyped DEF RecordSuccess, BreakerTypeOK, Pc, Fibers
<1>2. NoPermitFromTheFuture'
  BY DEF RecordSuccess, Moves, Closed, NoPermitFromTheFuture, BreakerTypeOK, State, Call, Fibers, Admitted
<1>3. PermitsAreInUse'
  BY FibersAreDistinct
     DEF RecordSuccess, Moves, Closed, PermitsAreInUse, BreakerTypeOK, Call, Fibers, Admitted
<1>4. PermitsMatchWindow'
  BY DEF RecordSuccess, Moves, Closed, PermitsMatchWindow, NoPermitFromTheFuture, PermitsAreInUse, BreakerTypeOK, State, Call, Fibers, Current, Admitted
<1>5. OneProbePerWindow'
  BY DEF RecordSuccess, Moves, Closed, OneProbePerWindow, PermitsMatchWindow, BreakerTypeOK, State, Call, Fibers, Current, Admitted
<1> QED
  BY <1>1, <1>2, <1>3, <1>4, <1>5

(* A failure of the current generation opens the breaker under a new       *)
(* generation, or adds to the failures of a Closed one.                    *)
LEMMA RecordFailureStep ==
    ASSUME BreakerInv, NEW c \in Calls, RecordFailure(c)
    PROVE  BreakerInv'
<1> USE DEF BreakerInv
<1>1. BreakerTypeOK'
  <2>1. /\ breaker \in State
        /\ {breaker.generation, breaker.generation + 1, breaker.failures + 1} \subseteq Nat
        /\ calls[c].lag \in 0..MaxLag
    BY DEF BreakerTypeOK, State, Call, Fibers
  <2>2. breaker' \in State
    BY <2>1, Constructors DEF RecordFailure, Failed
  <2> QED
    BY <2>2, MovesTyped DEF RecordFailure, BreakerTypeOK, Pc, Fibers
<1>2. NoPermitFromTheFuture'
  BY DEF RecordFailure, Moves, Failed, Closed, Open, NoPermitFromTheFuture, BreakerTypeOK, State, Call, Fibers, Admitted
<1>3. PermitsAreInUse'
  BY FibersAreDistinct
     DEF RecordFailure, Moves, Failed, Closed, Open, PermitsAreInUse, BreakerTypeOK, Call, Fibers, Admitted
<1>4. PermitsMatchWindow'
  BY DEF RecordFailure, Moves, Failed, Closed, Open, PermitsMatchWindow, NoPermitFromTheFuture, PermitsAreInUse, BreakerTypeOK, State, Call, Fibers, Current, Admitted
<1>5. OneProbePerWindow'
  BY DEF RecordFailure, Moves, Failed, Closed, Open, OneProbePerWindow, PermitsMatchWindow, BreakerTypeOK, State, Call, Fibers, Current, Admitted
<1> QED
  BY <1>1, <1>2, <1>3, <1>4, <1>5

(* A use that is over gives its permit up.                                 *)
LEMMA UseSucceedsStep ==
    ASSUME BreakerInv, NEW c \in Calls, UseSucceeds(c)
    PROVE  BreakerInv'
<1> USE DEF BreakerInv
<1>1. BreakerTypeOK'
  BY BecomesTyped, Constructors DEF UseSucceeds, BreakerTypeOK, Fibers
<1>2. NoPermitFromTheFuture'
  BY DEF UseSucceeds, Becomes, AtRest, NoPermitFromTheFuture, BreakerTypeOK, State, Call, Fibers, Admitted
<1>3. PermitsAreInUse'
  BY FibersAreDistinct
     DEF UseSucceeds, Becomes, AtRest, PermitsAreInUse, BreakerTypeOK, Call, Fibers, Admitted
<1>4. PermitsMatchWindow'
  BY DEF UseSucceeds, Becomes, AtRest, PermitsMatchWindow, NoPermitFromTheFuture, PermitsAreInUse, BreakerTypeOK, State, Call, Fibers, Current, Admitted
<1>5. OneProbePerWindow'
  BY DEF UseSucceeds, Becomes, AtRest, OneProbePerWindow, PermitsMatchWindow, BreakerTypeOK, State, Call, Fibers, Current, Admitted
<1> QED
  BY <1>1, <1>2, <1>3, <1>4, <1>5

(* A use that fails gives its permit up, unless it has a claim to release. *)
LEMMA UseFailsStep ==
    ASSUME BreakerInv, NEW c \in Calls, UseFails(c)
    PROVE  BreakerInv'
<1> USE DEF BreakerInv
<1>1. BreakerTypeOK'
  BY BecomesTyped, MovesTyped, Constructors DEF UseFails, BreakerTypeOK, Fibers, Pc
<1>2. NoPermitFromTheFuture'
  BY DEF UseFails, Moves, Becomes, AtRest, NoPermitFromTheFuture, BreakerTypeOK, State, Call, Fibers, Admitted
<1>3. PermitsAreInUse'
  BY FibersAreDistinct
     DEF UseFails, Moves, Becomes, AtRest, PermitsAreInUse, BreakerTypeOK, Call, Fibers, Admitted
<1>4. PermitsMatchWindow'
  BY DEF UseFails, Moves, Becomes, AtRest, PermitsMatchWindow, NoPermitFromTheFuture, PermitsAreInUse, BreakerTypeOK, State, Call, Fibers, Current, Admitted
<1>5. OneProbePerWindow'
  BY DEF UseFails, Moves, Becomes, AtRest, OneProbePerWindow, PermitsMatchWindow, BreakerTypeOK, State, Call, Fibers, Current, Admitted
<1> QED
  BY <1>1, <1>2, <1>3, <1>4, <1>5

(* Releasing a claim opens the breaker under a new generation.             *)
LEMMA ReleaseStep ==
    ASSUME BreakerInv, NEW c \in Calls, Release(c)
    PROVE  BreakerInv'
<1> USE DEF BreakerInv
<1>1. BreakerTypeOK'
  <2>1. /\ breaker \in State
        /\ breaker.generation + 1 \in Nat
        /\ calls[c].lag \in 0..MaxLag
    BY DEF BreakerTypeOK, State, Call, Fibers
  <2>2. breaker' \in State
    BY <2>1, Constructors DEF Release
  <2> QED
    BY <2>2, BecomesTyped, Constructors DEF Release, BreakerTypeOK, Fibers
<1>2. NoPermitFromTheFuture'
  BY DEF Release, Becomes, AtRest, Open, NoPermitFromTheFuture, BreakerTypeOK, State, Call, Fibers, Admitted
<1>3. PermitsAreInUse'
  BY FibersAreDistinct
     DEF Release, Becomes, AtRest, Open, PermitsAreInUse, BreakerTypeOK, Call, Fibers, Admitted
<1>4. PermitsMatchWindow'
  BY DEF Release, Becomes, AtRest, Open, PermitsMatchWindow, NoPermitFromTheFuture, PermitsAreInUse, BreakerTypeOK, State, Call, Fibers, Current, Admitted
<1>5. OneProbePerWindow'
  BY DEF Release, Becomes, AtRest, Open, OneProbePerWindow, PermitsMatchWindow, BreakerTypeOK, State, Call, Fibers, Current, Admitted
<1> QED
  BY <1>1, <1>2, <1>3, <1>4, <1>5

(* Observing grants a plain permit of the generation it sees, or           *)
(* no permit yet.                                                          *)
LEMMA ObserveStep ==
    ASSUME BreakerInv, NEW c \in Fibers, Observe(c)
    PROVE  BreakerInv'
<1> USE DEF BreakerInv
<1>1. /\ breaker' \in State
      /\ breaker.generation \in Nat /\ breaker'.generation \in Nat
      /\ \/ breaker' = breaker
         \/ breaker'.generation = breaker.generation + 1 /\ breaker'.tag # "Closed"
  BY ObservedFacts DEF Observe, BreakerTypeOK, State
<1>2. \/ Becomes(c, AtRest)
      \/ c \notin Watchers /\ breaker'.tag = "Closed" /\ Becomes(c, Holding("plain", breaker'.generation))
      \/ c \notin Watchers /\ Becomes(c, Holding("refused", 0))
      \/ c \notin Watchers /\ Moves(c, "claiming")
  BY <1>1 DEF Observe, State, PermitsAreInUse
<1>3. calls' \in [Fibers -> Call]
  BY <1>1, <1>2, Constructors, BecomesTyped, MovesTyped DEF Pc
<1>4. NoPermitFromTheFuture'
  BY <1>1, <1>2 DEF NoPermitFromTheFuture, BreakerTypeOK, Call, Fibers, Admitted, Becomes, Moves, AtRest, Holding
<1>5. PermitsAreInUse'
  BY <1>2, <1>3 DEF Observe, PermitsAreInUse, BreakerTypeOK, Call, Fibers, Admitted, Becomes, Moves, AtRest, Holding
<1>6. PermitsMatchWindow'
  BY <1>1, <1>2 DEF PermitsMatchWindow, NoPermitFromTheFuture, BreakerTypeOK, Call, Fibers, Current, Admitted, Becomes, Moves, AtRest, Holding
<1>7. OneProbePerWindow'
  BY <1>2 DEF OneProbePerWindow, BreakerTypeOK, Call, Fibers, Becomes, Moves, AtRest, Holding
<1> QED
  BY <1>1, <1>3, <1>4, <1>5, <1>6, <1>7 DEF BreakerTypeOK

(* Observing again after a lost claim grants a plain permit of the generation it sees,*)
(* or refuses.                                                             *)
LEMMA ReobserveStep ==
    ASSUME BreakerInv, NEW c \in Fibers, Reobserve(c)
    PROVE  BreakerInv'
<1> USE DEF BreakerInv
<1>1. /\ breaker' \in State
      /\ breaker.generation \in Nat /\ breaker'.generation \in Nat
      /\ \/ breaker' = breaker
         \/ breaker'.generation = breaker.generation + 1 /\ breaker'.tag # "Closed"
  BY ObservedFacts DEF Reobserve, BreakerTypeOK, State
<1>2. \/ Becomes(c, AtRest)
      \/ c \notin Watchers /\ breaker'.tag = "Closed" /\ Becomes(c, Holding("plain", breaker'.generation))
      \/ c \notin Watchers /\ Becomes(c, Holding("refused", 0))
      \/ c \notin Watchers /\ Moves(c, "claiming")
  BY <1>1 DEF Reobserve, State, PermitsAreInUse
<1>3. calls' \in [Fibers -> Call]
  BY <1>1, <1>2, Constructors, BecomesTyped, MovesTyped DEF Pc
<1>4. NoPermitFromTheFuture'
  BY <1>1, <1>2 DEF NoPermitFromTheFuture, BreakerTypeOK, Call, Fibers, Admitted, Becomes, Moves, AtRest, Holding
<1>5. PermitsAreInUse'
  BY <1>2, <1>3 DEF Reobserve, PermitsAreInUse, BreakerTypeOK, Call, Fibers, Admitted, Becomes, Moves, AtRest, Holding
<1>6. PermitsMatchWindow'
  BY <1>1, <1>2 DEF PermitsMatchWindow, NoPermitFromTheFuture, BreakerTypeOK, Call, Fibers, Current, Admitted, Becomes, Moves, AtRest, Holding
<1>7. OneProbePerWindow'
  BY <1>2 DEF OneProbePerWindow, BreakerTypeOK, Call, Fibers, Becomes, Moves, AtRest, Holding
<1> QED
  BY <1>1, <1>3, <1>4, <1>5, <1>6, <1>7 DEF BreakerTypeOK

----------------------------------------------------------------------------
(* The theorems.                                                           *)

(* The initial state satisfies the invariant: Closed, and nobody inside.   *)
LEMMA InitInv == BreakerInit => BreakerInv
<1> SUFFICES ASSUME BreakerInit PROVE BreakerInv
  OBVIOUS
<1>1. BreakerTypeOK
  BY Constructors DEF BreakerInit, BreakerTypeOK
<1> QED
  BY <1>1 DEF BreakerInit, BreakerInv, NoPermitFromTheFuture, PermitsAreInUse, PermitsMatchWindow,
     OneProbePerWindow, Admitted, AtRest, Fibers

(* Every step of the breaker preserves the invariant.                      *)
LEMMA NextInv == BreakerInv /\ [BreakerNext]_breakerVars => BreakerInv'
<1> SUFFICES ASSUME BreakerInv, [BreakerNext]_breakerVars PROVE BreakerInv'
  OBVIOUS
<1>1. CASE Tick
  BY <1>1, TickStep
<1>2. CASE \E c \in Fibers : AdmitStep(c)
  BY <1>2, ReadClockStep, ObserveStep, ClaimStep, ReobserveStep DEF AdmitStep
<1>3. CASE \E c \in Calls : RecordStep(c)
  BY <1>3, RecordSuccessStep, RecordFailureStep, ReleaseStep DEF RecordStep
<1>4. CASE \E c \in Calls : Attempt(c) \/ WriteStep(c)
  BY <1>4, AttemptStep, WriteEndsStep DEF WriteStep
<1>5. CASE \E c \in Calls : UseSucceeds(c) \/ UseFails(c)
  BY <1>5, UseSucceedsStep, UseFailsStep
<1>6. CASE UNCHANGED breakerVars
  BY <1>6 DEF breakerVars, BreakerInv, BreakerTypeOK, NoPermitFromTheFuture, PermitsAreInUse,
     PermitsMatchWindow, OneProbePerWindow, Admitted, Current
<1> QED
  BY <1>1, <1>2, <1>3, <1>4, <1>5, <1>6 DEF BreakerNext

(* The inductive invariant holds in every reachable state.                 *)
THEOREM BreakerInvariant == BreakerSpec => []BreakerInv
<1> QED
  BY InitInv, NextInv, PTL DEF BreakerSpec

(* The breaker and its calls keep their types.                             *)
THEOREM BreakerTypesHold == BreakerSpec => []BreakerTypeOK
<1>1. BreakerInv => BreakerTypeOK
  BY DEF BreakerInv
<1> QED
  BY <1>1, BreakerInvariant, PTL

(* A permit still current is a plain one of a Closed breaker or the probe  *)
(* of a half-open one: no outcome is recorded against an Open breaker, and *)
(* nobody but its probe settles a half-open window, which admits one       *)
(* probe, however many callers race for it and however long probes of      *)
(* earlier windows linger.                                                 *)
THEOREM OnlyTheProbeSettles == BreakerSpec => []WindowsOwnTheirProbe
<1>1. BreakerInv => WindowsOwnTheirProbe
  BY DEF BreakerInv, PermitsMatchWindow, OneProbePerWindow, WindowsOwnTheirProbe
<1> QED
  BY <1>1, BreakerInvariant, PTL

----------------------------------------------------------------------------
(* Windows.                                                                *)

ClosedHasNoWindow == breaker.tag = "Closed" => breaker.since = 0

NoRestart ==
    breaker'.generation = breaker.generation
      => breaker'.tag = breaker.tag /\ breaker'.since >= breaker.since

(* No step starts a window over without a new generation.                  *)
LEMMA WindowStep ==
    BreakerInv /\ ClosedHasNoWindow /\ [BreakerNext]_breakerVars => ClosedHasNoWindow' /\ NoRestart
<1> SUFFICES ASSUME BreakerInv, ClosedHasNoWindow, [BreakerNext]_breakerVars
             PROVE  ClosedHasNoWindow' /\ NoRestart
  OBVIOUS
<1> USE DEF ClosedHasNoWindow, NoRestart
<1>1. /\ breaker \in State /\ breaker.generation \in Nat /\ breaker.since \in Int
      /\ breaker.generation + 1 # breaker.generation
      /\ breaker.since >= breaker.since /\ 0 >= 0
  BY OptionsAssumption, BoundsAssumption DEF BreakerInv, BreakerTypeOK, State, MaxAge
<1>2. CASE Tick
  <2>1. Older(breaker.since, MaxAge) >= breaker.since
    BY <1>1, OptionsAssumption, BoundsAssumption
       DEF Older, MaxAge, BreakerInv, BreakerTypeOK, State
  <2> QED
    BY <1>1, <1>2, <2>1 DEF Tick, State
<1>3. CASE \E c \in Fibers : Observe(c) \/ Reobserve(c)
  <2> PICK c \in Fibers : Observe(c) \/ Reobserve(c)
    BY <1>3
  <2>1. breaker' = Observed(c)
    BY DEF Observe, Reobserve
  <2>2. \/ breaker' = breaker
        \/ breaker'.generation = breaker.generation + 1 /\ breaker'.tag # "Closed"
    BY <2>1, ObservedFacts DEF BreakerInv
  <2> QED
    BY <1>1, <2>2
<1>4. CASE \E c \in Fibers : ReadClock(c) \/ Claim(c)
  BY <1>1, <1>4 DEF ReadClock, Claim, State
<1>5. CASE \E c \in Calls : RecordSuccess(c)
  BY <1>1, <1>5 DEF RecordSuccess, Closed
<1>6. CASE \E c \in Calls : RecordFailure(c)
  BY <1>1, <1>6 DEF RecordFailure, Failed, Closed, Open
<1>7. CASE \E c \in Calls : Release(c)
  BY <1>1, <1>7 DEF Release, Open
<1>8. CASE UNCHANGED breaker
  BY <1>1, <1>8
<1> QED
  BY <1>2, <1>3, <1>4, <1>5, <1>6, <1>7, <1>8
     DEF BreakerNext, AdmitStep, RecordStep, WriteStep, Attempt, WriteEnds, UseSucceeds, UseFails,
         breakerVars

(* While the generation stands, so does the status, and the window's age   *)
(* does not go down: no late outcome keeps the breaker Open for longer.    *)
THEOREM WindowsAreNotRestarted == BreakerSpec => WindowsNeverRestart
<1>1. BreakerInit => ClosedHasNoWindow
  BY DEF BreakerInit, Closed, ClosedHasNoWindow
<1>2. BreakerInv /\ ClosedHasNoWindow /\ [BreakerNext]_breakerVars
        => [breaker'.generation = breaker.generation
              => breaker'.tag = breaker.tag /\ breaker'.since >= breaker.since]_breakerVars
  BY WindowStep DEF NoRestart
<1> QED
  BY <1>1, <1>2, WindowStep, BreakerInvariant, PTL DEF BreakerSpec, WindowsNeverRestart

=============================================================================
