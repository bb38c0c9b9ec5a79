-------------------------- MODULE AuditSinkProofs --------------------------
(***************************************************************************)
(* Proofs about AuditSink, for any number of concurrent records: where an  *)
(* outcome says a record is, it is; a probe's claim is never left behind;  *)
(* and nothing is written while the breaker is Open.  Then, about the      *)
(* trail so written and AuditArchive: nothing of it is lost.               *)
(***************************************************************************)
EXTENDS AuditSink, CircuitBreakerProofs, AuditArchive, FiniteSetTheorems

(* How far a record got and where its fiber is in the breaker go together, *)
(* and an attempt that is still to end has recorded no outcome.            *)
StepFitsCall(row, call) ==
    /\ call.pc = "idle" => row.step \in {"none", "reported"} /\ ~call.settled
    /\ call.pc \in {"observing", "claiming", "lost", "reobserving"} => row.step = "admitting"
    /\ call.pc = "using" => row.step \notin {"none", "attempting"}
    /\ call.pc = "writing" => row.step = "attempting"
    /\ call.pc \in {"succeeded", "failed", "tripping"} => row.step \in {"written", "unwritten"}
    /\ call.pc \in {"aborting", "releasing"} => row.step = "none"
    /\ row.step \in {"admitting", "staging", "staged", "attempting"} => ~call.settled

(* What is in the staging store and the trail by then.                     *)
RowIsWhere(row) ==
    /\ row.step \in {"none", "admitting"} => row.copy = "none"
    /\ row.step \in {"none", "admitting", "staging", "staged"} => ~row.inTrail
    /\ row.step = "staging" => row.copy = "staged"
    /\ row.step \in {"staged", "attempting", "unwritten", "written"} =>
           row.copy # "committed" /\ (row.staging = "Staged" => row.copy = "staged")
    /\ row.step \in {"written", "committing"} => row.inTrail
    /\ row.step # "reported" => row.outcome = "none"

(* What EndsAreAccounted says of one record.                               *)
RowIsAccounted(row) ==
    /\ row.outcome # "none" =>
           /\ Durability(row) = "Trail" => row.inTrail
           /\ Durability(row) = "StagingOnly" => row.copy = "staged"
           /\ row.outcome \in {"Refused", "Skipped"} => ~row.inTrail
    /\ row.copy = "committed" => row.inTrail

RowsOK == \A c \in Calls : /\ StepFitsCall(rows[c], calls[c])
                           /\ RowIsWhere(rows[c])
                           /\ RowIsAccounted(rows[c])

Holds(c) == calls[c].permit = "probe" /\ Current(c)

(* A probe whose write has ended has settled its window, or lost it.       *)
WriteIsOver(c) ==
    calls[c].pc = "using" /\ rows[c].step \in {"written", "unwritten", "committing", "reported"}

ProbesHaveSettled == \A c \in Calls : WriteIsOver(c) => ~Holds(c)

(* A claim is some caller's.                                               *)
ClaimIsHeld ==
    breaker.tag = "HalfOpen" /\ breaker.probeClaimed => \E c \in Calls : Holds(c)

SinkInv == TypeOK /\ RowsOK /\ ProbesHaveSettled /\ ClaimIsHeld

----------------------------------------------------------------------------
(* The sink drives the breaker, and never touches it otherwise.            *)

LEMMA InitBreaker == Init => BreakerInit
<1> QED
  BY DEF Init

LEMMA StepBreaker == [Next]_vars => [BreakerNext]_breakerVars
<1> SUFFICES ASSUME Next PROVE [BreakerNext]_breakerVars
  BY DEF vars, breakerVars
<1>1. CASE Tick
  BY <1>1 DEF BreakerNext
<1>2. CASE \E w \in Watchers : ReadStatus(w)
  BY <1>2 DEF ReadStatus, BreakerNext, Fibers
<1>3. ASSUME NEW c \in Calls, RefuseToEncode(c) \/ Receive(c) \/ BreakerRuns(c)
      PROVE  [BreakerNext]_breakerVars
  BY <1>3 DEF RefuseToEncode, Receive, BreakerRuns, BreakerNext, AdmitStep, Fibers
<1>4. ASSUME NEW c \in Calls, PortStep(c)
      PROVE  [BreakerNext]_breakerVars
  BY <1>4 DEF PortStep, NoStaging, CopyLands, StageReturns, StageFails, RowLands, WriteReturns,
     CommitLands, CommitReturns, CommitFails, BreakerNext, WriteStep
<1>5. ASSUME NEW c \in Calls, SinkStep(c)
      PROVE  [BreakerNext]_breakerVars
  BY <1>5 DEF SinkStep, Skip, Write, WriteFailed, Written, Finish, BreakerNext
<1>6. ASSUME NEW c \in Calls, Interrupt(c)
      PROVE  [BreakerNext]_breakerVars
  BY <1>6 DEF Interrupt, BreakerNext
<1> QED
  BY <1>1, <1>2, <1>3, <1>4, <1>5, <1>6 DEF Next

(* So all that is proved of the breaker holds of the sink's.               *)
THEOREM SinkRunsBreaker == Spec => BreakerSpec
<1> QED
  BY InitBreaker, StepBreaker, PTL DEF Spec, BreakerSpec

LEMMA BreakerInvHolds == Spec => []BreakerInv
<1> QED
  BY SinkRunsBreaker, BreakerInvariant, PTL

----------------------------------------------------------------------------
(* Records, step by step.  A step that moves one fiber of the breaker and  *)
(* leaves the rows alone, or moves one row, leaves the others as they fit. *)

Kept(c) == \A d \in Calls \ {c} : rows'[d] = rows[d] /\ calls'[d] = calls[d]

Sound(row, call) == StepFitsCall(row, call) /\ RowIsWhere(row) /\ RowIsAccounted(row)

LEMMA OneRow ==
    ASSUME TypeOK, RowsOK, NEW c \in Calls, Kept(c),
           rows' \in [Calls -> Row], Sound(rows'[c], calls'[c])
    PROVE  RowsOK'
<1> SUFFICES ASSUME NEW d \in Calls PROVE Sound(rows'[d], calls'[d])
  <2> SUFFICES (\A d \in Calls : Sound(rows'[d], calls'[d])) => RowsOK'
    OBVIOUS
  <2> QED
    BY DEF RowsOK, Sound
<1>1. CASE d = c
  BY <1>1
<1>2. CASE d # c
  BY <1>2 DEF Kept, RowsOK, Sound
<1> QED
  BY <1>1, <1>2

LEMMA DurabilityFacts ==
    ASSUME NEW row \in Row, row.outcome # "none"
    PROVE  /\ Durability(row) = "Trail" <=> row.outcome = "Written"
           /\ Durability(row) = "StagingOnly"
                <=> row.outcome \in {"WriteFailed", "Skipped"} /\ row.staging = "Staged"
<1> QED
  BY DEF Durability, unwrittenDurability, Row, Outcome

LEMMA RefuseRow ==
    ASSUME SinkInv, BreakerInv, NEW c \in Calls, RefuseToEncode(c)
    PROVE  rows' \in [Calls -> Row] /\ RowsOK' /\ Kept(c)
<1> USE DEF SinkInv
<1>1. rows' \in [Calls -> Row]
  BY DEF TypeOK, RefuseToEncode, Row, Fresh, Step, Staging, Outcome
<1>2. Sound(rows'[c], calls'[c])
  BY DEF TypeOK, RefuseToEncode, Fresh, Sound, breakerVars, StepFitsCall, RowIsWhere, RowIsAccounted,
     Durability, RowsOK
<1>3. Kept(c)
  BY DEF TypeOK, RefuseToEncode, breakerVars, Kept
<1> QED
  BY <1>1, <1>2, <1>3, OneRow

LEMMA ReceiveRow ==
    ASSUME SinkInv, BreakerInv, NEW c \in Calls, Receive(c)
    PROVE  rows' \in [Calls -> Row] /\ RowsOK' /\ Kept(c)
<1> USE DEF SinkInv
<1>1. rows' \in [Calls -> Row]
  BY DEF TypeOK, Receive, Row, Fresh, Step, Staging, Outcome
<1>2. calls'[c] = [calls[c] EXCEPT !.pc = "observing", !.lag = 0]
  BY DEF TypeOK, BreakerTypeOK, Receive, ReadClock, Moves, Fibers, Call
<1>3. Sound(rows'[c], calls'[c])
  BY <1>2 DEF TypeOK, BreakerTypeOK, Fibers, Call, Receive, Fresh, Sound, StepFitsCall, RowIsWhere,
     RowIsAccounted, Durability, RowsOK
<1>4. Kept(c)
  BY DEF TypeOK, BreakerTypeOK, Fibers, Receive, ReadClock, Moves, Kept
<1> QED
  BY <1>1, <1>3, <1>4, OneRow

(* A record that observes is admitted, refused, or goes on to claim.       *)
LEMMA ObserveMoves ==
    ASSUME BreakerTypeOK, NEW c \in Calls, Observe(c) \/ Reobserve(c)
    PROVE  \/ \E permit \in {"plain", "refused"}, g \in Nat : Becomes(c, Holding(permit, g))
           \/ Moves(c, "claiming")
<1>1. breaker' \in State /\ breaker'.generation \in Nat /\ 0 \in Nat
  BY ObservedFacts DEF Observe, Reobserve, State, Fibers
<1>2. breaker'.tag = "Closed" \/ breaker'.tag = "Open" \/ breaker'.tag = "HalfOpen"
  BY <1>1 DEF State
<1>3. c \notin Watchers
  BY FibersAreDistinct
<1> QED
  BY <1>1, <1>2, <1>3 DEF Observe, Reobserve

(* Whatever the breaker does with a fiber that is in it, its record stays. *)
LEMMA BreakerRunsRow ==
    ASSUME SinkInv, BreakerInv, NEW c \in Calls, BreakerRuns(c)
    PROVE  rows' \in [Calls -> Row] /\ RowsOK' /\ Kept(c)
<1> USE DEF SinkInv, BreakerRuns
<1>1. rows' \in [Calls -> Row]
  BY DEF TypeOK
<1>2. Kept(c)
  <2>1. CASE \E s \in Pc : Moves(c, s)
    BY <2>1 DEF TypeOK, BreakerTypeOK, Fibers, Moves, Kept
  <2>2. CASE \E call : Becomes(c, call)
    BY <2>2 DEF TypeOK, BreakerTypeOK, Fibers, Becomes, Kept
  <2>3. CASE ReadClock(c) \/ Claim(c) \/ RecordSuccess(c) \/ RecordFailure(c) \/ Release(c)
    BY <2>1, <2>2, <2>3 DEF ReadClock, Claim, RecordSuccess, RecordFailure, Release, Pc
  <2>4. CASE Observe(c) \/ Reobserve(c)
    BY <2>1, <2>2, <2>4, ObserveMoves DEF BreakerInv, TypeOK, Pc
  <2> QED
    BY <2>3, <2>4 DEF AdmitStep, RecordStep
<1>3. calls[c] \in Call /\ c \notin Watchers /\ calls[c].pc # "idle"
  BY FibersAreDistinct DEF TypeOK, BreakerTypeOK, Fibers
<1>4. CASE ReadClock(c)
  <2>1. StepFitsCall(rows[c], calls'[c])
    BY <1>3, <1>4 DEF TypeOK, BreakerTypeOK, Fibers, Call, ReadClock, Moves, RowsOK, StepFitsCall
  <2> QED
    BY <1>1, <1>2, <2>1, OneRow DEF Sound, RowsOK
<1>5. CASE Observe(c) \/ Claim(c) \/ Reobserve(c)
  <2>1. rows[c].step = "admitting" /\ ~calls[c].settled
    BY <1>5 DEF Observe, Claim, Reobserve, RowsOK, StepFitsCall
  <2>2. calls'[c].pc \in {"using", "claiming", "lost"} /\ ~calls'[c].settled
    <3>1. CASE Claim(c)
      BY <1>3, <2>1, <3>1 DEF TypeOK, BreakerTypeOK, Fibers, Call, Claim, Moves, Becomes, Holding
    <3>2. CASE Observe(c) \/ Reobserve(c)
      <4>1. CASE \E permit \in {"plain", "refused"}, g \in Nat : Becomes(c, Holding(permit, g))
        BY <4>1 DEF TypeOK, BreakerTypeOK, Fibers, Becomes, Holding
      <4>2. CASE Moves(c, "claiming")
        BY <2>1, <4>2 DEF TypeOK, BreakerTypeOK, Fibers, Call, Moves
      <4> QED
        BY <3>2, <4>1, <4>2, ObserveMoves DEF TypeOK
    <3> QED
      BY <1>5, <3>1, <3>2
  <2>3. StepFitsCall(rows[c], calls'[c])
    BY <2>1, <2>2 DEF StepFitsCall
  <2> QED
    BY <1>1, <1>2, <2>3, OneRow DEF Sound, RowsOK
<1>6. CASE RecordStep(c)
  <2>1. StepFitsCall(rows[c], calls'[c])
    BY <1>3, <1>6 DEF TypeOK, BreakerTypeOK, Fibers, Call, RecordStep, RecordSuccess, RecordFailure,
       Release, Moves, Becomes, AtRest, RowsOK, StepFitsCall
  <2> QED
    BY <1>1, <1>2, <2>1, OneRow DEF Sound, RowsOK
<1> QED
  BY <1>4, <1>5, <1>6 DEF AdmitStep

LEMMA NoStagingRow ==
    ASSUME SinkInv, BreakerInv, NEW c \in Calls, NoStaging(c)
    PROVE  rows' \in [Calls -> Row] /\ RowsOK' /\ Kept(c)
<1> USE DEF SinkInv, At, NoStaging, Staged
<1>1. rows' \in [Calls -> Row]
  <2>1. rows[c] \in Row
    BY DEF TypeOK
  <2>2. rows'[c] \in Row
    BY <2>1 DEF TypeOK, Row, Step, Staging, Outcome
  <2> QED
    BY <2>2 DEF TypeOK
<1>2. rows[c] \in Row /\ rows'[c] \in Row /\ StepFitsCall(rows[c], calls[c]) /\ RowIsWhere(rows[c])
  BY <1>1 DEF TypeOK, RowsOK
<1>3. Sound(rows'[c], calls'[c])
  BY <1>2, DurabilityFacts
     DEF TypeOK, Row, breakerVars, Sound, StepFitsCall, RowIsWhere, RowIsAccounted
<1>4. Kept(c)
  BY DEF TypeOK, breakerVars, Kept
<1> QED
  BY <1>1, <1>3, <1>4, OneRow

LEMMA CopyLandsRow ==
    ASSUME SinkInv, BreakerInv, NEW c \in Calls, CopyLands(c)
    PROVE  rows' \in [Calls -> Row] /\ RowsOK' /\ Kept(c)
<1> USE DEF SinkInv, At, CopyLands
<1>1. rows' \in [Calls -> Row]
  <2>1. rows[c] \in Row
    BY DEF TypeOK
  <2>2. rows'[c] \in Row
    BY <2>1 DEF TypeOK, Row, Step, Staging, Outcome
  <2> QED
    BY <2>2 DEF TypeOK
<1>2. rows[c] \in Row /\ rows'[c] \in Row /\ StepFitsCall(rows[c], calls[c]) /\ RowIsWhere(rows[c])
  BY <1>1 DEF TypeOK, RowsOK
<1>3. Sound(rows'[c], calls'[c])
  BY <1>2, DurabilityFacts
     DEF TypeOK, Row, breakerVars, Sound, StepFitsCall, RowIsWhere, RowIsAccounted
<1>4. Kept(c)
  BY DEF TypeOK, breakerVars, Kept
<1> QED
  BY <1>1, <1>3, <1>4, OneRow

LEMMA StageReturnsRow ==
    ASSUME SinkInv, BreakerInv, NEW c \in Calls, StageReturns(c)
    PROVE  rows' \in [Calls -> Row] /\ RowsOK' /\ Kept(c)
<1> USE DEF SinkInv, At, StageReturns, Staged
<1>1. rows' \in [Calls -> Row]
  <2>1. rows[c] \in Row
    BY DEF TypeOK
  <2>2. rows'[c] \in Row
    BY <2>1 DEF TypeOK, Row, Step, Staging, Outcome
  <2> QED
    BY <2>2 DEF TypeOK
<1>2. rows[c] \in Row /\ rows'[c] \in Row /\ StepFitsCall(rows[c], calls[c]) /\ RowIsWhere(rows[c])
  BY <1>1 DEF TypeOK, RowsOK
<1>3. Sound(rows'[c], calls'[c])
  BY <1>2, DurabilityFacts
     DEF TypeOK, Row, breakerVars, Sound, StepFitsCall, RowIsWhere, RowIsAccounted
<1>4. Kept(c)
  BY DEF TypeOK, breakerVars, Kept
<1> QED
  BY <1>1, <1>3, <1>4, OneRow

LEMMA StageFailsRow ==
    ASSUME SinkInv, BreakerInv, NEW c \in Calls, StageFails(c)
    PROVE  rows' \in [Calls -> Row] /\ RowsOK' /\ Kept(c)
<1> USE DEF SinkInv, At, StageFails, Staged
<1>1. rows' \in [Calls -> Row]
  <2>1. rows[c] \in Row
    BY DEF TypeOK
  <2>2. rows'[c] \in Row
    BY <2>1 DEF TypeOK, Row, Step, Staging, Outcome
  <2> QED
    BY <2>2 DEF TypeOK
<1>2. rows[c] \in Row /\ rows'[c] \in Row /\ StepFitsCall(rows[c], calls[c]) /\ RowIsWhere(rows[c])
  BY <1>1 DEF TypeOK, RowsOK
<1>3. Sound(rows'[c], calls'[c])
  BY <1>2, DurabilityFacts
     DEF TypeOK, Row, breakerVars, Sound, StepFitsCall, RowIsWhere, RowIsAccounted
<1>4. Kept(c)
  BY DEF TypeOK, breakerVars, Kept
<1> QED
  BY <1>1, <1>3, <1>4, OneRow

LEMMA SkipRow ==
    ASSUME SinkInv, BreakerInv, NEW c \in Calls, Skip(c)
    PROVE  rows' \in [Calls -> Row] /\ RowsOK' /\ Kept(c)
<1> USE DEF SinkInv, At, Skip, Report
<1>1. rows' \in [Calls -> Row]
  <2>1. rows[c] \in Row
    BY DEF TypeOK
  <2>2. rows'[c] \in Row
    BY <2>1 DEF TypeOK, Row, Step, Staging, Outcome
  <2> QED
    BY <2>2 DEF TypeOK
<1>2. rows[c] \in Row /\ rows'[c] \in Row /\ StepFitsCall(rows[c], calls[c]) /\ RowIsWhere(rows[c])
  BY <1>1 DEF TypeOK, RowsOK
<1>3. Sound(rows'[c], calls'[c])
  BY <1>2, DurabilityFacts
     DEF TypeOK, Row, breakerVars, Sound, StepFitsCall, RowIsWhere, RowIsAccounted
<1>4. Kept(c)
  BY DEF TypeOK, breakerVars, Kept
<1> QED
  BY <1>1, <1>3, <1>4, OneRow

LEMMA RowLandsRow ==
    ASSUME SinkInv, BreakerInv, NEW c \in Calls, RowLands(c)
    PROVE  rows' \in [Calls -> Row] /\ RowsOK' /\ Kept(c)
<1> USE DEF SinkInv, At, RowLands
<1>1. rows' \in [Calls -> Row]
  <2>1. rows[c] \in Row
    BY DEF TypeOK
  <2>2. rows'[c] \in Row
    BY <2>1 DEF TypeOK, Row, Step, Staging, Outcome
  <2> QED
    BY <2>2 DEF TypeOK
<1>2. rows[c] \in Row /\ rows'[c] \in Row /\ StepFitsCall(rows[c], calls[c]) /\ RowIsWhere(rows[c])
  BY <1>1 DEF TypeOK, RowsOK
<1>3. Sound(rows'[c], calls'[c])
  BY <1>2, DurabilityFacts
     DEF TypeOK, Row, breakerVars, Sound, StepFitsCall, RowIsWhere, RowIsAccounted
<1>4. Kept(c)
  BY DEF TypeOK, breakerVars, Kept
<1> QED
  BY <1>1, <1>3, <1>4, OneRow

LEMMA WriteFailedRow ==
    ASSUME SinkInv, BreakerInv, NEW c \in Calls, WriteFailed(c)
    PROVE  rows' \in [Calls -> Row] /\ RowsOK' /\ Kept(c)
<1> USE DEF SinkInv, At, WriteFailed, Report
<1>1. rows' \in [Calls -> Row]
  <2>1. rows[c] \in Row
    BY DEF TypeOK
  <2>2. rows'[c] \in Row
    BY <2>1 DEF TypeOK, Row, Step, Staging, Outcome
  <2> QED
    BY <2>2 DEF TypeOK
<1>2. rows[c] \in Row /\ rows'[c] \in Row /\ StepFitsCall(rows[c], calls[c]) /\ RowIsWhere(rows[c])
  BY <1>1 DEF TypeOK, RowsOK
<1>3. Sound(rows'[c], calls'[c])
  BY <1>2, DurabilityFacts
     DEF TypeOK, Row, breakerVars, Sound, StepFitsCall, RowIsWhere, RowIsAccounted
<1>4. Kept(c)
  BY DEF TypeOK, breakerVars, Kept
<1> QED
  BY <1>1, <1>3, <1>4, OneRow

LEMMA WrittenRow ==
    ASSUME SinkInv, BreakerInv, NEW c \in Calls, Written(c)
    PROVE  rows' \in [Calls -> Row] /\ RowsOK' /\ Kept(c)
<1> USE DEF SinkInv, At, Written, Report
<1>1. rows' \in [Calls -> Row]
  <2>1. rows[c] \in Row
    BY DEF TypeOK
  <2>2. rows'[c] \in Row
    BY <2>1 DEF TypeOK, Row, Step, Staging, Outcome
  <2> QED
    BY <2>2 DEF TypeOK
<1>2. rows[c] \in Row /\ rows'[c] \in Row /\ StepFitsCall(rows[c], calls[c]) /\ RowIsWhere(rows[c])
  BY <1>1 DEF TypeOK, RowsOK
<1>3. Sound(rows'[c], calls'[c])
  BY <1>2, DurabilityFacts
     DEF TypeOK, Row, breakerVars, Sound, StepFitsCall, RowIsWhere, RowIsAccounted
<1>4. Kept(c)
  BY DEF TypeOK, breakerVars, Kept
<1> QED
  BY <1>1, <1>3, <1>4, OneRow

LEMMA CommitLandsRow ==
    ASSUME SinkInv, BreakerInv, NEW c \in Calls, CommitLands(c)
    PROVE  rows' \in [Calls -> Row] /\ RowsOK' /\ Kept(c)
<1> USE DEF SinkInv, At, CommitLands
<1>1. rows' \in [Calls -> Row]
  <2>1. rows[c] \in Row
    BY DEF TypeOK
  <2>2. rows'[c] \in Row
    BY <2>1 DEF TypeOK, Row, Step, Staging, Outcome
  <2> QED
    BY <2>2 DEF TypeOK
<1>2. rows[c] \in Row /\ rows'[c] \in Row /\ StepFitsCall(rows[c], calls[c]) /\ RowIsWhere(rows[c])
  BY <1>1 DEF TypeOK, RowsOK
<1>3. Sound(rows'[c], calls'[c])
  BY <1>2, DurabilityFacts
     DEF TypeOK, Row, breakerVars, Sound, StepFitsCall, RowIsWhere, RowIsAccounted
<1>4. Kept(c)
  BY DEF TypeOK, breakerVars, Kept
<1> QED
  BY <1>1, <1>3, <1>4, OneRow

LEMMA CommitReturnsRow ==
    ASSUME SinkInv, BreakerInv, NEW c \in Calls, CommitReturns(c)
    PROVE  rows' \in [Calls -> Row] /\ RowsOK' /\ Kept(c)
<1> USE DEF SinkInv, At, CommitReturns, Report
<1>1. rows' \in [Calls -> Row]
  <2>1. rows[c] \in Row
    BY DEF TypeOK
  <2>2. rows'[c] \in Row
    BY <2>1 DEF TypeOK, Row, Step, Staging, Outcome
  <2> QED
    BY <2>2 DEF TypeOK
<1>2. rows[c] \in Row /\ rows'[c] \in Row /\ StepFitsCall(rows[c], calls[c]) /\ RowIsWhere(rows[c])
  BY <1>1 DEF TypeOK, RowsOK
<1>3. Sound(rows'[c], calls'[c])
  BY <1>2, DurabilityFacts
     DEF TypeOK, Row, breakerVars, Sound, StepFitsCall, RowIsWhere, RowIsAccounted
<1>4. Kept(c)
  BY DEF TypeOK, breakerVars, Kept
<1> QED
  BY <1>1, <1>3, <1>4, OneRow

LEMMA CommitFailsRow ==
    ASSUME SinkInv, BreakerInv, NEW c \in Calls, CommitFails(c)
    PROVE  rows' \in [Calls -> Row] /\ RowsOK' /\ Kept(c)
<1> USE DEF SinkInv, At, CommitFails, Report
<1>1. rows' \in [Calls -> Row]
  <2>1. rows[c] \in Row
    BY DEF TypeOK
  <2>2. rows'[c] \in Row
    BY <2>1 DEF TypeOK, Row, Step, Staging, Outcome
  <2> QED
    BY <2>2 DEF TypeOK
<1>2. rows[c] \in Row /\ rows'[c] \in Row /\ StepFitsCall(rows[c], calls[c]) /\ RowIsWhere(rows[c])
  BY <1>1 DEF TypeOK, RowsOK
<1>3. Sound(rows'[c], calls'[c])
  BY <1>2, DurabilityFacts
     DEF TypeOK, Row, breakerVars, Sound, StepFitsCall, RowIsWhere, RowIsAccounted
<1>4. Kept(c)
  BY DEF TypeOK, breakerVars, Kept
<1> QED
  BY <1>1, <1>3, <1>4, OneRow
LEMMA WriteRow ==
    ASSUME SinkInv, BreakerInv, NEW c \in Calls, Write(c)
    PROVE  rows' \in [Calls -> Row] /\ RowsOK' /\ Kept(c)
<1> USE DEF SinkInv, Write, Attempt, Moves, At
<1>1. rows' \in [Calls -> Row]
  <2>1. rows[c] \in Row
    BY DEF TypeOK
  <2>2. rows'[c] \in Row
    BY <2>1 DEF TypeOK, Row, Step, Staging, Outcome
  <2> QED
    BY <2>2 DEF TypeOK
<1>2. rows[c] \in Row /\ rows'[c] \in Row /\ StepFitsCall(rows[c], calls[c]) /\ RowIsWhere(rows[c])
  BY <1>1 DEF TypeOK, RowsOK
<1>3. Sound(rows'[c], calls'[c])
  BY <1>2 DEF TypeOK, BreakerTypeOK, Fibers, Call, Row, Sound, StepFitsCall, RowIsWhere, RowIsAccounted
<1>4. Kept(c)
  BY DEF TypeOK, BreakerTypeOK, Fibers, Call, Row, Kept
<1> QED
  BY <1>1, <1>3, <1>4, OneRow

LEMMA WriteReturnsRow ==
    ASSUME SinkInv, BreakerInv, NEW c \in Calls, NEW ok \in BOOLEAN, WriteReturns(c, ok)
    PROVE  rows' \in [Calls -> Row] /\ RowsOK' /\ Kept(c)
<1> USE DEF SinkInv, WriteReturns, WriteEnds
<1>1. rows' \in [Calls -> Row]
  <2>1. rows[c] \in Row
    BY DEF TypeOK
  <2>2. rows'[c] \in Row
    BY <2>1 DEF TypeOK, Row, Step, Staging, Outcome
  <2> QED
    BY <2>2 DEF TypeOK
<1>2. rows[c] \in Row /\ rows'[c] \in Row /\ StepFitsCall(rows[c], calls[c]) /\ RowIsWhere(rows[c])
  BY <1>1 DEF TypeOK, RowsOK
<1>3. Sound(rows'[c], calls'[c])
  BY <1>2 DEF TypeOK, BreakerTypeOK, Fibers, Call, Row, Sound, StepFitsCall, RowIsWhere, RowIsAccounted
<1>4. Kept(c)
  BY DEF TypeOK, BreakerTypeOK, Fibers, Call, Row, Kept
<1> QED
  BY <1>1, <1>3, <1>4, OneRow

LEMMA FinishRow ==
    ASSUME SinkInv, BreakerInv, NEW c \in Calls, Finish(c)
    PROVE  rows' \in [Calls -> Row] /\ RowsOK' /\ Kept(c)
<1> USE DEF SinkInv, Finish, Over, UseSucceeds, Becomes
<1>1. rows' \in [Calls -> Row]
  BY DEF TypeOK, Row, Step, Staging, Outcome, Fresh
<1>2. rows[c] \in Row /\ rows'[c] \in Row /\ StepFitsCall(rows[c], calls[c]) /\ RowIsWhere(rows[c])
  BY <1>1 DEF TypeOK, RowsOK
<1>3. Sound(rows'[c], calls'[c])
  BY <1>2 DEF TypeOK, BreakerTypeOK, Fibers, Call, Row, Sound, StepFitsCall, RowIsWhere, RowIsAccounted, Fresh, AtRest
<1>4. Kept(c)
  BY DEF TypeOK, BreakerTypeOK, Fibers, Call, Row, Kept
<1> QED
  BY <1>1, <1>3, <1>4, OneRow

LEMMA InterruptRow ==
    ASSUME SinkInv, BreakerInv, NEW c \in Calls, Interrupt(c)
    PROVE  rows' \in [Calls -> Row] /\ RowsOK' /\ Kept(c)
<1> USE DEF SinkInv, Interrupt, Over, UseFails, Becomes, Moves
<1>1. rows' \in [Calls -> Row]
  BY DEF TypeOK, Row, Step, Staging, Outcome, Fresh
<1>2. rows[c] \in Row /\ rows'[c] \in Row /\ StepFitsCall(rows[c], calls[c]) /\ RowIsWhere(rows[c])
  BY <1>1 DEF TypeOK, RowsOK
<1>3. Sound(rows'[c], calls'[c])
  BY <1>2 DEF TypeOK, BreakerTypeOK, Fibers, Call, Row, Sound, StepFitsCall, RowIsWhere, RowIsAccounted, Fresh, AtRest
<1>4. Kept(c)
  BY DEF TypeOK, BreakerTypeOK, Fibers, Call, Row, Kept
<1> QED
  BY <1>1, <1>3, <1>4, OneRow

(* A reader of status moves no caller.                                     *)
LEMMA WatcherStep ==
    ASSUME BreakerInv, NEW w \in Watchers, AdmitStep(w)
    PROVE  \A c \in Calls : calls'[c] = calls[c]
<1>1. w \in Fibers /\ w \notin Calls /\ calls \in [Fibers -> Call] /\ Calls \subseteq Fibers
  BY FibersAreDistinct DEF BreakerInv, BreakerTypeOK, Fibers
<1>2. CASE \E s \in Pc : Moves(w, s)
  BY <1>1, <1>2 DEF Moves
<1>3. CASE \E call : Becomes(w, call)
  BY <1>1, <1>3 DEF Becomes
<1>4. calls[w].pc \in {"idle", "observing"}
  BY <1>1 DEF BreakerInv, PermitsAreInUse
<1> QED
  BY <1>2, <1>3, <1>4 DEF AdmitStep, ReadClock, Observe, Claim, Reobserve, Pc

(* Time and a reader of status leave every record as it fits.              *)
LEMMA BesideRow ==
    ASSUME SinkInv, BreakerInv, UNCHANGED rows, Tick \/ \E w \in Watchers : AdmitStep(w)
    PROVE  rows' \in [Calls -> Row] /\ RowsOK'
<1> USE DEF SinkInv
<1>1. \A c \in Calls : calls'[c].pc = calls[c].pc /\ calls'[c].settled = calls[c].settled
  <2>1. CASE Tick
    BY <2>1 DEF Tick, TypeOK, BreakerTypeOK, Fibers, Call
  <2> QED
    BY <2>1, WatcherStep
<1> QED
  BY <1>1 DEF TypeOK, RowsOK, StepFitsCall

LEMMA RowsNext ==
    ASSUME SinkInv, BreakerInv, [Next]_vars
    PROVE  rows' \in [Calls -> Row] /\ RowsOK'
<1>1. CASE UNCHANGED vars
  BY <1>1 DEF vars, SinkInv, TypeOK, RowsOK
<1>2. CASE Tick /\ UNCHANGED rows
  BY <1>2, BesideRow
<1>3. CASE \E w \in Watchers : ReadStatus(w)
  BY <1>3, BesideRow DEF ReadStatus
<1>4. ASSUME NEW c \in Calls, RefuseToEncode(c) \/ Receive(c) \/ BreakerRuns(c)
      PROVE  rows' \in [Calls -> Row] /\ RowsOK'
  BY <1>4, RefuseRow, ReceiveRow, BreakerRunsRow
<1>5. ASSUME NEW c \in Calls, PortStep(c)
      PROVE  rows' \in [Calls -> Row] /\ RowsOK'
  BY <1>5, NoStagingRow, CopyLandsRow, StageReturnsRow, StageFailsRow, RowLandsRow, WriteReturnsRow,
     CommitLandsRow, CommitReturnsRow, CommitFailsRow DEF PortStep
<1>6. ASSUME NEW c \in Calls, SinkStep(c) \/ Interrupt(c)
      PROVE  rows' \in [Calls -> Row] /\ RowsOK'
  BY <1>6, SkipRow, WriteRow, WriteFailedRow, WrittenRow, FinishRow, InterruptRow DEF SinkStep
<1> QED
  BY <1>1, <1>2, <1>3, <1>4, <1>5, <1>6 DEF Next
----------------------------------------------------------------------------
(* The probe of a half-open window.                                        *)

(* A generation is never taken back.                                       *)
LEMMA GenerationGrows ==
    ASSUME BreakerInv, [BreakerNext]_breakerVars
    PROVE  /\ breaker.generation \in Nat /\ breaker'.generation \in Nat
           /\ breaker'.generation >= breaker.generation
<1>1. breaker \in State /\ breaker.generation \in Nat /\ breaker.generation + 1 \in Nat
      /\ breaker.generation + 1 >= breaker.generation /\ breaker.generation >= breaker.generation
  BY DEF BreakerInv, BreakerTypeOK, State
<1>2. CASE Tick \/ UNCHANGED breaker
  BY <1>1, <1>2 DEF Tick, State
<1>3. CASE \E c \in Fibers : Observe(c) \/ Reobserve(c)
  BY <1>1, <1>3, ObservedFacts DEF Observe, Reobserve, BreakerInv
<1>4. CASE \E c \in Fibers : Claim(c)
  BY <1>1, <1>4 DEF Claim, State
<1>5. CASE \E c \in Calls : RecordStep(c)
  BY <1>1, <1>5 DEF RecordStep, RecordSuccess, RecordFailure, Release, Failed, Closed, Open
<1> QED
  BY <1>2, <1>3, <1>4, <1>5
     DEF BreakerNext, AdmitStep, ReadClock, WriteStep, Attempt, WriteEnds, UseSucceeds, UseFails,
         breakerVars

(* A window that is over for a probe is over for good.                     *)
LEMMA OverStays ==
    ASSUME BreakerInv, [BreakerNext]_breakerVars, NEW c \in Calls,
           calls[c].permit = "probe", ~Current(c), calls'[c].generation = calls[c].generation
    PROVE  ~Holds(c)'
<1>1. calls[c].generation <= breaker.generation /\ calls[c].generation \in Nat
  BY DEF BreakerInv, NoPermitFromTheFuture, Admitted, BreakerTypeOK, Fibers, Call
<1> QED
  BY <1>1, GenerationGrows DEF Current, Holds

(* A claim outlives every step but the end of the window or of a use that  *)
(* succeeds.                                                               *)
NoUseSucceeds ==
    \/ Tick
    \/ \E c \in Fibers : AdmitStep(c)
    \/ \E c \in Calls : RecordStep(c) \/ Attempt(c) \/ WriteStep(c) \/ UseFails(c)
    \/ UNCHANGED breakerVars

LEMMA ClaimOutlives ==
    ASSUME BreakerInv, ClaimIsHeld, NoUseSucceeds
    PROVE  ClaimIsHeld'
<1>1. breaker \in State /\ calls \in [Fibers -> Call] /\ Calls \subseteq Fibers
  BY DEF BreakerInv, BreakerTypeOK, Fibers
<1>2. CASE Tick \/ UNCHANGED breakerVars
  BY <1>1, <1>2 DEF Tick, State, Call, breakerVars, ClaimIsHeld, Holds, Current
<1>3. CASE \E c \in Fibers : ReadClock(c)
  BY <1>1, <1>3 DEF ReadClock, Moves, Call, ClaimIsHeld, Holds, Current
<1>4. ASSUME NEW c \in Fibers, Observe(c) \/ Reobserve(c) PROVE ClaimIsHeld'
  <2>1. breaker' = breaker \/ ~breaker'.probeClaimed
    <3>1. breaker' = Observed(c)
      BY <1>4 DEF Observe, Reobserve
    <3>2. \/ Observed(c) = breaker
          \/ Observed(c) = Open(breaker.generation + 1, calls[c].lag)
          \/ Observed(c) = HalfOpen(breaker.generation + 1, calls[c].lag, FALSE)
      BY DEF Observed
    <3> QED
      BY <3>1, <3>2 DEF Open, HalfOpen
  <2>2. calls[c].permit = "none"
    BY <1>1, <1>4 DEF Observe, Reobserve, BreakerInv, PermitsAreInUse, Call
  <2>3. \A d \in Fibers \ {c} : calls'[d] = calls[d]
    <3>1. CASE \E s \in Pc : Moves(c, s)
      BY <1>1, <3>1 DEF Moves
    <3>2. CASE \E call : Becomes(c, call)
      BY <1>1, <3>2 DEF Becomes
    <3>3. breaker'.tag = "Closed" \/ breaker'.tag = "Open" \/ breaker'.tag = "HalfOpen"
      BY <1>4, ObservedFacts DEF Observe, Reobserve, State, BreakerInv
    <3> QED
      BY <1>4, <3>1, <3>2, <3>3 DEF Observe, Reobserve, Pc
  <2> QED
    BY <1>1, <2>1, <2>2, <2>3 DEF ClaimIsHeld, Holds, Current
<1>5. ASSUME NEW c \in Fibers, Claim(c) PROVE ClaimIsHeld'
  <2>1. c \in Calls
    BY <1>5 DEF Claim, BreakerInv, PermitsAreInUse, Fibers
  <2> QED
    BY <1>1, <1>5, <2>1 DEF Claim, Becomes, Moves, Holding, State, Call, ClaimIsHeld, Holds, Current
<1>6. ASSUME NEW c \in Calls, RecordSuccess(c) \/ RecordFailure(c) PROVE ClaimIsHeld'
  <2>1. breaker' = breaker \/ breaker'.tag # "HalfOpen"
    BY <1>6 DEF RecordSuccess, RecordFailure, Failed, Closed, Open
  <2>2. Moves(c, "using")
    BY <1>6 DEF RecordSuccess, RecordFailure
  <2> QED
    BY <1>1, <2>1, <2>2 DEF Moves, Call, ClaimIsHeld, Holds, Current
<1>7. ASSUME NEW c \in Calls, Release(c) PROVE ClaimIsHeld'
  <2>1. \/ breaker'.tag # "HalfOpen"
        \/ breaker' = breaker /\ ~(breaker.tag = "HalfOpen" /\ breaker.probeClaimed /\ Current(c))
    BY <1>7 DEF Release, Open
  <2>2. \A d \in Fibers \ {c} : calls'[d] = calls[d]
    BY <1>1, <1>7 DEF Release, Becomes
  <2> QED
    BY <1>1, <2>1, <2>2 DEF ClaimIsHeld, Holds, Current
<1>8. ASSUME NEW c \in Calls, Attempt(c) \/ WriteStep(c) PROVE ClaimIsHeld'
  BY <1>1, <1>8 DEF Attempt, WriteStep, WriteEnds, Moves, Call, ClaimIsHeld, Holds, Current
<1>9. ASSUME NEW c \in Calls, UseFails(c) PROVE ClaimIsHeld'
  BY <1>1, <1>9 DEF UseFails, Moves, Becomes, AtRest, Call, ClaimIsHeld, Holds, Current
<1> QED
  BY <1>2, <1>3, <1>4, <1>5, <1>6, <1>7, <1>8, <1>9
     DEF NoUseSucceeds, AdmitStep, RecordStep
(* A use that succeeds is not the current probe's: it has settled.         *)
LEMMA FinishKeepsClaim ==
    ASSUME SinkInv, BreakerInv, NEW c \in Calls, Finish(c)
    PROVE  ClaimIsHeld'
<1>1. ~Holds(c) /\ breaker' = breaker
  BY DEF Finish, At, UseSucceeds, SinkInv, ProbesHaveSettled, WriteIsOver
<1>2. \A d \in Calls \ {c} : calls'[d] = calls[d]
  BY DEF Finish, UseSucceeds, Becomes, SinkInv, TypeOK, BreakerTypeOK, Fibers
<1> QED
  BY <1>1, <1>2 DEF SinkInv, ClaimIsHeld, Holds, Current

LEMMA ClaimNext ==
    ASSUME SinkInv, BreakerInv, [Next]_vars
    PROVE  ClaimIsHeld'
<1>1. ASSUME NEW c \in Calls, Finish(c) PROVE ClaimIsHeld'
  BY <1>1, FinishKeepsClaim
<1>2. CASE ~\E c \in Calls : Finish(c)
  <2>1. UNCHANGED breakerVars \/ Tick \/ (\E w \in Watchers : ReadStatus(w)) => NoUseSucceeds
    BY DEF NoUseSucceeds, ReadStatus, Fibers
  <2>2. ASSUME NEW c \in Calls,
               RefuseToEncode(c) \/ Receive(c) \/ BreakerRuns(c) \/ PortStep(c) \/ Interrupt(c)
                 \/ (SinkStep(c) /\ ~Finish(c))
        PROVE  NoUseSucceeds
    <3>1. CASE RefuseToEncode(c) \/ Receive(c) \/ BreakerRuns(c) \/ Interrupt(c)
      BY <3>1, c \in Fibers
         DEF RefuseToEncode, Receive, BreakerRuns, Interrupt, AdmitStep, NoUseSucceeds, Fibers
    <3>2. CASE PortStep(c)
      BY <3>2 DEF PortStep, NoStaging, CopyLands, StageReturns, StageFails, RowLands, WriteReturns,
         CommitLands, CommitReturns, CommitFails, NoUseSucceeds, WriteStep
    <3>3. CASE SinkStep(c) /\ ~Finish(c)
      BY <3>3 DEF SinkStep, Skip, Write, WriteFailed, Written, NoUseSucceeds
    <3> QED
      BY <2>2, <3>1, <3>2, <3>3
  <2>3. NoUseSucceeds
    <3>1. CASE UNCHANGED vars
      BY <2>1, <3>1 DEF vars, breakerVars, NoUseSucceeds
    <3> QED
      BY <1>2, <2>1, <2>2, <3>1 DEF Next, NoUseSucceeds, ReadStatus, Fibers
  <2> QED
    BY <2>3, ClaimOutlives DEF SinkInv
<1> QED
  BY <1>1, <1>2

(* Recording an outcome settles the window of a current probe.             *)
LEMMA RecordSettles ==
    ASSUME BreakerInv, NEW c \in Calls, RecordStep(c), calls[c].permit = "probe"
    PROVE  ~Holds(c)'
<1>1. /\ breaker \in State /\ calls[c] \in Call /\ c \in Fibers
      /\ breaker.generation + 1 # breaker.generation
  BY DEF BreakerInv, BreakerTypeOK, State, Fibers
<1>2. Current(c) => breaker.tag = "HalfOpen" /\ breaker.probeClaimed
  BY DEF BreakerInv, PermitsMatchWindow, Admitted
<1>3. CASE RecordSuccess(c)
  BY <1>1, <1>2, <1>3
     DEF RecordSuccess, Closed, Moves, Holds, Current, BreakerInv, BreakerTypeOK, Call
<1>4. CASE RecordFailure(c)
  BY <1>1, <1>2, <1>4
     DEF RecordFailure, Failed, Open, Moves, Holds, Current, BreakerInv, BreakerTypeOK, Call
<1>5. CASE Release(c)
  BY <1>1, <1>5 DEF Release, Becomes, AtRest, Holds, BreakerInv, BreakerTypeOK
<1> QED
  BY <1>3, <1>4, <1>5 DEF RecordStep
LEMMA OneProbe ==
    ASSUME SinkInv, BreakerInv, [Next]_vars, NEW c \in Calls, Kept(c),
           WriteIsOver(c)' => ~Holds(c)'
    PROVE  ProbesHaveSettled'
<1> SUFFICES ASSUME NEW d \in Calls, WriteIsOver(d)' PROVE ~Holds(d)'
  BY DEF ProbesHaveSettled
<1>1. CASE d = c
  BY <1>1
<1>2. CASE d # c
  <2>1. WriteIsOver(d) /\ calls'[d] = calls[d]
    BY <1>2 DEF Kept, WriteIsOver
  <2>2. ~Holds(d)
    BY <2>1 DEF SinkInv, ProbesHaveSettled
  <2> QED
    BY <2>1, <2>2, OverStays, StepBreaker DEF Holds
<1> QED
  BY <1>1, <1>2

(* Nobody but the probe whose write ends, or is already over, gets there.  *)
LEMMA ProbesNext ==
    ASSUME SinkInv, BreakerInv, [Next]_vars
    PROVE  ProbesHaveSettled'
<1> USE DEF SinkInv
<1>1. CASE UNCHANGED vars
  BY <1>1 DEF vars, breakerVars, ProbesHaveSettled, WriteIsOver, Holds, Current
<1>2. CASE UNCHANGED rows /\ (Tick \/ \E w \in Watchers : ReadStatus(w))
  <2>1. \A c \in Calls : /\ calls'[c].pc = calls[c].pc /\ calls'[c].permit = calls[c].permit
                         /\ calls'[c].generation = calls[c].generation
    <3>1. CASE Tick
      BY <3>1 DEF Tick, TypeOK, BreakerTypeOK, Fibers, Call
    <3>2. ASSUME NEW w \in Watchers, AdmitStep(w) PROVE \A c \in Calls : calls'[c] = calls[c]
      BY <3>2, WatcherStep DEF TypeOK
    <3> QED
      BY <1>2, <3>1, <3>2 DEF ReadStatus
  <2> SUFFICES ASSUME NEW d \in Calls, WriteIsOver(d)' PROVE ~Holds(d)'
    BY DEF ProbesHaveSettled
  <2>2. WriteIsOver(d)
    BY <1>2, <2>1 DEF WriteIsOver
  <2>3. ~Holds(d)
    BY <2>2 DEF ProbesHaveSettled
  <2> QED
    BY <2>1, <2>3, OverStays, StepBreaker DEF Holds
<1>3. ASSUME NEW c \in Calls, RefuseToEncode(c) \/ Receive(c) PROVE ProbesHaveSettled'
  <2>1. calls'[c].pc # "using"
    BY <1>3 DEF RefuseToEncode, Receive, ReadClock, Moves, breakerVars, TypeOK, BreakerTypeOK, Fibers, Call
  <2> QED
    BY <1>3, <2>1, OneProbe, RefuseRow, ReceiveRow DEF WriteIsOver
<1>4. ASSUME NEW c \in Calls, BreakerRuns(c) PROVE ProbesHaveSettled'
  <2>1. CASE RecordStep(c)
    <3>1. calls[c].permit = "probe" => ~Holds(c)'
      BY <2>1, RecordSettles
    <3>2. calls[c].permit # "probe" => calls'[c].permit # "probe"
      BY <2>1 DEF RecordStep, RecordSuccess, RecordFailure, Release, Moves, Becomes, AtRest,
         TypeOK, BreakerTypeOK, Fibers, Call
    <3> QED
      BY <1>4, <3>1, <3>2, OneProbe, BreakerRunsRow DEF Holds
  <2>2. CASE AdmitStep(c)
    <3>1. \/ rows[c].step = "admitting"
          \/ ReadClock(c)
      BY <2>2 DEF AdmitStep, Observe, Claim, Reobserve, RowsOK, StepFitsCall
    <3>2. ReadClock(c) => calls'[c].pc # "using"
      BY DEF ReadClock, Moves, TypeOK, BreakerTypeOK, Fibers, Call
    <3>3. rows' = rows
      BY <1>4 DEF BreakerRuns
    <3> QED
      BY <1>4, <3>1, <3>2, <3>3, OneProbe, BreakerRunsRow DEF WriteIsOver
  <2> QED
    BY <1>4, <2>1, <2>2 DEF BreakerRuns
<1>5. ASSUME NEW c \in Calls,
             \/ NoStaging(c) \/ CopyLands(c) \/ StageReturns(c) \/ StageFails(c) \/ Write(c)
             \/ RowLands(c) \/ (\E ok \in BOOLEAN : WriteReturns(c, ok)) \/ Finish(c) \/ Interrupt(c)
      PROVE  ProbesHaveSettled'
  <2>1. Kept(c)
    BY <1>5, NoStagingRow, CopyLandsRow, StageReturnsRow, StageFailsRow, WriteRow, RowLandsRow,
       WriteReturnsRow, FinishRow, InterruptRow
  <2>2. rows[c] \in Row /\ calls[c] \in Call /\ StepFitsCall(rows[c], calls[c]) /\ c \in Fibers
    BY DEF TypeOK, BreakerTypeOK, RowsOK, Fibers
  <2>3. ~WriteIsOver(c)'
    <3>1. CASE NoStaging(c) \/ StageReturns(c) \/ StageFails(c) \/ CopyLands(c)
      <4>1. CASE NoStaging(c)
        BY <2>2, <4>1 DEF NoStaging, Staged, WriteIsOver, TypeOK, Row
      <4>2. CASE StageReturns(c)
        BY <2>2, <4>2 DEF StageReturns, Staged, WriteIsOver, TypeOK, Row
      <4>3. CASE StageFails(c)
        BY <2>2, <4>3 DEF StageFails, Staged, WriteIsOver, TypeOK, Row
      <4>4. CASE CopyLands(c)
        BY <2>2, <4>4 DEF CopyLands, WriteIsOver, TypeOK, Row
      <4> QED
        BY <3>1, <4>1, <4>2, <4>3, <4>4
    <3>2. CASE Write(c) \/ RowLands(c) \/ Finish(c)
      BY <2>2, <3>2 DEF Write, Attempt, RowLands, Finish, UseSucceeds, Moves, Becomes, AtRest, breakerVars,
         WriteIsOver, TypeOK, BreakerTypeOK, Call
    <3>3. CASE Interrupt(c)
      BY <2>2, <3>3 DEF Interrupt, UseFails, Moves, Becomes, AtRest, WriteIsOver, TypeOK, BreakerTypeOK, Call
    <3>4. ASSUME NEW ok \in BOOLEAN, WriteReturns(c, ok) PROVE ~WriteIsOver(c)'
      BY <2>2, <3>4 DEF WriteReturns, WriteEnds, StepFitsCall, WriteIsOver, TypeOK, BreakerTypeOK, Call
    <3> QED
      BY <1>5, <3>1, <3>2, <3>3, <3>4
  <2> QED
    BY <2>1, <2>3, OneProbe
<1>6. ASSUME NEW c \in Calls,
             \/ Skip(c) \/ WriteFailed(c) \/ Written(c)
             \/ CommitLands(c) \/ CommitReturns(c) \/ CommitFails(c)
      PROVE  ProbesHaveSettled'
  <2>1. Kept(c) /\ calls' = calls /\ breaker' = breaker
    BY <1>6, SkipRow, WriteFailedRow, WrittenRow, CommitLandsRow, CommitReturnsRow, CommitFailsRow
       DEF Skip, WriteFailed, Written, CommitLands, CommitReturns, CommitFails, breakerVars
  <2>2. WriteIsOver(c) \/ ~Admitted(c)
    BY <1>6 DEF Skip, WriteFailed, Written, CommitLands, CommitReturns, CommitFails, At, WriteIsOver
  <2>3. ~Holds(c)
    BY <2>2 DEF ProbesHaveSettled, Holds, Admitted
  <2> QED
    BY <2>1, <2>3, OneProbe DEF Holds, Current
<1> QED
  BY <1>1, <1>2, <1>3, <1>4, <1>5, <1>6 DEF Next, PortStep, SinkStep, ReadStatus
----------------------------------------------------------------------------
(* The theorems.                                                           *)

LEMMA SinkInitInv == Init => SinkInv
<1> SUFFICES ASSUME Init PROVE SinkInv
  OBVIOUS
<1>1. TypeOK /\ breaker.tag = "Closed"
  BY InitInv DEF Init, TypeOK, Row, Fresh, Step, Staging, Outcome, BreakerInit, Closed, BreakerInv
<1>2. RowsOK
  BY DEF Init, BreakerInit, AtRest, Fibers, Fresh, RowsOK, StepFitsCall, RowIsWhere, RowIsAccounted
<1>3. ProbesHaveSettled
  BY DEF Init, BreakerInit, AtRest, Fibers, ProbesHaveSettled, WriteIsOver
<1> QED
  BY <1>1, <1>2, <1>3 DEF SinkInv, ClaimIsHeld

LEMMA SinkNextInv == SinkInv /\ BreakerInv /\ [Next]_vars => SinkInv'
<1> SUFFICES ASSUME SinkInv, BreakerInv, [Next]_vars PROVE SinkInv'
  OBVIOUS
<1>1. BreakerInv'
  BY NextInv, StepBreaker
<1>2. stagingWired' \in BOOLEAN
  BY DEF Next, vars, SinkInv, TypeOK
<1> QED
  BY <1>1, <1>2, RowsNext, ProbesNext, ClaimNext DEF SinkInv, TypeOK, BreakerInv

(* What the theorems about the sink rest on: its types, the breaker's own  *)
(* invariant, and what each call's row and permit say of its place in      *)
(* record().  (AuditDecisionSinkLive.ts)                                   *)
THEOREM SinkInvariant == Spec => []SinkInv
<1> QED
  BY SinkInitInv, SinkNextInv, BreakerInvHolds, PTL DEF Spec

(* The records, the breaker and its calls keep their types.                *)
THEOREM SinkTypesHold == Spec => []TypeOK
<1>1. SinkInv => TypeOK
  BY DEF SinkInv
<1> QED
  BY <1>1, SinkInvariant, PTL

(* However many records are handed in at once, fail or are interrupted: an *)
(* entry is where its outcome says, a staged copy is given up only for a   *)
(* row in the trail, and no half-open claim is left behind.                *)
THEOREM RecordsAreAccounted == Spec => []EndsAreAccounted
<1>1. ASSUME SinkInv, BreakerInv PROVE EndsAreAccounted
  <2>1. ASSUME NEW c \in Calls, Holds(c) PROVE calls[c].pc # "idle"
    BY <1>1, <2>1 DEF Holds, BreakerInv, PermitsAreInUse, Fibers
  <2>2. \A c \in Calls : RowIsAccounted(rows[c])
    BY <1>1 DEF SinkInv, RowsOK
  <2>3. breaker.tag = "HalfOpen" /\ breaker.probeClaimed =>
            \E c \in Calls : calls[c].permit = "probe" /\ Current(c) /\ calls[c].pc # "idle"
    BY <1>1, <2>1 DEF SinkInv, ClaimIsHeld, Holds
  <2> QED
    BY <2>2, <2>3 DEF RowIsAccounted, EndsAreAccounted
<1> QED
  BY <1>1, SinkInvariant, BreakerInvHolds, PTL

(* What is proved of the breaker alone, of the breaker the sink drives.    *)
THEOREM SinkKeepsWindows == Spec => []WindowsOwnTheirProbe /\ WindowsNeverRestart
<1> QED
  BY SinkRunsBreaker, OnlyTheProbeSettles, WindowsAreNotRestarted, PTL

-----------------------------------------------------------------------------
(* A finite set in a total order has a member of each rank.                *)
Orders(S, order) ==
    /\ IsFiniteSet(S)
    /\ \A i \in S : <<i, i>> \notin order
    /\ \A i, j \in S : i = j \/ <<i, j>> \in order \/ <<j, i>> \in order
    /\ \A i, j, k \in S : <<i, j>> \in order /\ <<j, k>> \in order => <<i, k>> \in order

Below(S, order, i) == {j \in S : <<j, i>> \in order}
RankOf(S, order, i) == Cardinality(Below(S, order, i))

LEMMA RanksAreBounded ==
    ASSUME NEW S, NEW order, Orders(S, order), NEW i \in S
    PROVE  /\ IsFiniteSet(Below(S, order, i))
           /\ Cardinality(Below(S, order, i)) \in Nat
           /\ Cardinality(Below(S, order, i)) < Cardinality(S)
<1>1. IsFiniteSet(S) /\ Below(S, order, i) \subseteq S \ {i}
  BY DEF Orders, Below
<1>2. /\ IsFiniteSet(S \ {i}) /\ Cardinality(S \ {i}) = Cardinality(S) - 1
      /\ Cardinality(S) \in Nat
  BY <1>1, FS_RemoveElement, FS_CardinalityType
<1>3. /\ IsFiniteSet(Below(S, order, i))
      /\ Cardinality(Below(S, order, i)) <= Cardinality(S \ {i})
  BY <1>1, <1>2, FS_Subset
<1>4. Cardinality(Below(S, order, i)) \in Nat
  BY <1>3, FS_CardinalityType
<1> QED
  BY <1>2, <1>3, <1>4

LEMMA RanksGrow ==
    ASSUME NEW S, NEW order, Orders(S, order), NEW i \in S, NEW j \in S, <<i, j>> \in order
    PROVE  Cardinality(Below(S, order, i)) < Cardinality(Below(S, order, j))
<1> DEFINE A == Below(S, order, i)
           B == Below(S, order, j)
<1>1. A \cup {i} \subseteq B /\ i \notin A
  BY DEF Orders, Below
<1>2. IsFiniteSet(A) /\ IsFiniteSet(B) /\ Cardinality(A) \in Nat /\ Cardinality(B) \in Nat
  BY RanksAreBounded
<1> HIDE DEF A, B
<1>3. Cardinality(A \cup {i}) = Cardinality(A) + 1
  BY <1>1, <1>2, FS_AddElement
<1>4. Cardinality(A \cup {i}) <= Cardinality(B)
  BY <1>1, <1>2, FS_Subset
<1> QED
  BY <1>2, <1>3, <1>4 DEF A, B

LEMMA RanksAreAll ==
    ASSUME NEW S, NEW order, Orders(S, order)
    PROVE  \A k \in 1 .. Cardinality(S) :
               \E i \in S : Cardinality(Below(S, order, i)) = k - 1
<1> DEFINE n == Cardinality(S)
           g == [i \in S |-> Cardinality(Below(S, order, i)) + 1]
<1>1. n \in Nat /\ IsFiniteSet(S)
  BY FS_CardinalityType DEF Orders
<1>2. \A i \in S : Cardinality(Below(S, order, i)) \in Nat /\ Cardinality(Below(S, order, i)) < n
  BY RanksAreBounded
<1>3. IsFiniteSet(1 .. n) /\ Cardinality(1 .. n) = n
  <2>1. 1 \in Int /\ n \in Int /\ (1 > n => n = 0)
    BY <1>1
  <2>2. IsFiniteSet(1 .. n) /\ Cardinality(1 .. n) = IF 1 > n THEN 0 ELSE n - 1 + 1
    BY <2>1, FS_Interval
  <2> HIDE DEF n
  <2> QED
    BY <2>1, <2>2
<1>4. \A i, j \in S : i # j => g[i] # g[j]
  <2> SUFFICES ASSUME NEW i \in S, NEW j \in S, i # j PROVE g[i] # g[j]
    OBVIOUS
  <2>1. CASE <<i, j>> \in order
    BY <1>2, <2>1, RanksGrow
  <2>2. CASE <<j, i>> \in order
    BY <1>2, <2>2, RanksGrow
  <2> QED
    BY <2>1, <2>2 DEF Orders
<1>5. g \in [S -> 1 .. n]
  BY <1>1, <1>2
<1> HIDE DEF g
<1>6. g \in Injection(S, 1 .. n)
  BY <1>4, <1>5 DEF Injection, IsInjective
<1>7. g \in Surjection(S, 1 .. n)
  BY <1>3, <1>6, FS_Injection
<1>8. \A k \in 1 .. n : \E i \in S : g[i] = k
  BY <1>7 DEF Surjection
<1> QED
  BY <1>1, <1>2, <1>8 DEF g

LEMMA RankedIs ==
    ASSUME NEW S, NEW order, Orders(S, order),
           NEW n, n = Cardinality(S), NEW f, f = Ranked(S, order)
    PROVE  /\ f \in [1 .. n -> S]
           /\ \A k \in 1 .. n : RankOf(S, order, f[k]) = k - 1
           /\ \A i \in S : \E k \in 1 .. n : f[k] = i
           /\ \A k, l \in 1 .. n : k # l => f[k] # f[l]
           /\ \A k, l \in 1 .. n : k < l => <<f[k], f[l]>> \in order
<1> DEFINE Rank(i) == Cardinality(Below(S, order, i))
<1>0. n \in Nat
  BY FS_CardinalityType DEF Orders
<1>1. DOMAIN f = 1 .. n /\ f = [k \in DOMAIN f |-> f[k]]
  <2> DEFINE g(k) == CHOOSE i \in S : Cardinality({j \in S : <<j, i>> \in order}) = k - 1
  <2>1. f = [k \in 1 .. n |-> g(k)]
    BY DEF Ranked
  <2> HIDE DEF g
  <2> QED
    BY <2>1
<1>2. \A k \in 1 .. n : f[k] \in S /\ Rank(f[k]) = k - 1
  <2> TAKE k \in 1 .. n
  <2> DEFINE Fits(i) == Cardinality({j \in S : <<j, i>> \in order}) = k - 1
  <2>1. \E i \in S : Fits(i)
    BY RanksAreAll DEF Below
  <2>2. f[k] = CHOOSE i \in S : Fits(i)
    BY DEF Ranked
  <2> HIDE DEF Fits
  <2>3. f[k] \in S /\ Fits(f[k])
    BY <2>1, <2>2
  <2> QED
    BY <2>3 DEF Fits, Below
<1>3. \A i \in S : Rank(i) \in Nat /\ Rank(i) < n
  BY RanksAreBounded
<1>4. \A i, j \in S : <<i, j>> \in order => Rank(i) < Rank(j)
  BY RanksGrow
<1>5. \A i, j \in S : i = j \/ <<i, j>> \in order \/ <<j, i>> \in order
  BY DEF Orders
<1> HIDE DEF Rank
<1>6. \A i, j \in S : Rank(i) = Rank(j) => i = j
  <2> TAKE i, j \in S
  <2> HAVE Rank(i) = Rank(j)
  <2>1. ~(Rank(i) < Rank(j)) /\ ~(Rank(j) < Rank(i))
    BY <1>3
  <2> QED
    BY <1>4, <1>5, <2>1
<1>7. \A i \in S : \E k \in 1 .. n : f[k] = i
  <2> TAKE i \in S
  <2> DEFINE k == Rank(i) + 1
  <2>1. k \in 1 .. n /\ k - 1 = Rank(i)
    BY <1>0, <1>3
  <2>2. f[k] = i
    BY <1>2, <1>6, <2>1
  <2> QED
    BY <2>1, <2>2
<1>8. \A k, l \in 1 .. n : k # l => f[k] # f[l]
  BY <1>0, <1>2
<1>9. \A k, l \in 1 .. n : k < l => <<f[k], f[l]>> \in order
  <2> SUFFICES ASSUME NEW k \in 1 .. n, NEW l \in 1 .. n, k < l
               PROVE  <<f[k], f[l]>> \in order
    OBVIOUS
  <2>1. f[k] \in S /\ f[l] \in S /\ Rank(f[k]) = k - 1 /\ Rank(f[l]) = l - 1 /\ f[k] # f[l]
    BY <1>2, <1>8
  <2>2. ~(Rank(f[l]) < Rank(f[k]))
    BY <1>0, <2>1
  <2> QED
    BY <1>4, <1>5, <2>1, <2>2
<1>10. f \in [1 .. n -> S]
  BY <1>1, <1>2
<1> QED
  BY <1>2, <1>7, <1>8, <1>9, <1>10 DEF Rank, RankOf

-----------------------------------------------------------------------------
(* How many of a sequence are of some kind.                                *)
HowMany(entries, X) == Cardinality({i \in DOMAIN entries : entries[i] \in X})

LEMMA HowManyIs ==
    ASSUME NEW T, NEW entries \in Seq(T), NEW X
    PROVE  HowMany(entries, X) \in Nat
<1>1. IsFiniteSet(DOMAIN entries)
  <2>1. DOMAIN entries = 1 .. Len(entries) /\ Len(entries) \in Nat
    OBVIOUS
  <2> QED
    BY <2>1, FS_Interval
<1>2. IsFiniteSet({i \in DOMAIN entries : entries[i] \in X})
  BY <1>1, FS_Subset
<1> QED
  BY <1>2, FS_CardinalityType DEF HowMany

LEMMA CountIsHowMany ==
    ASSUME NEW entries, NEW e
    PROVE  CountOf(entries, e) = HowMany(entries, {e})
BY DEF CountOf, HowMany

(* Each of some places once: as many of any kind as there.                 *)
Enumerates(f, n, S) ==
    /\ f \in [1 .. n -> S]
    /\ \A k, l \in 1 .. n : k # l => f[k] # f[l]
    /\ \A i \in S : \E k \in 1 .. n : f[k] = i

PlacesOf(entries, S, X) == {i \in S : entries[i] \in X}

LEMMA AsManyAtThePlaces ==
    ASSUME NEW entries, NEW S, NEW n \in Nat, NEW f, Enumerates(f, n, S),
           NEW t, t = [k \in 1 .. n |-> entries[f[k]]], NEW X
    PROVE  HowMany(t, X) = Cardinality(PlacesOf(entries, S, X))
<1> DEFINE A == {k \in DOMAIN t : t[k] \in X}
           B == PlacesOf(entries, S, X)
           g == [k \in A |-> f[k]]
<1>0. /\ A \subseteq 1 .. n /\ \A k \in 1 .. n : k \in A <=> entries[f[k]] \in X
      /\ B \subseteq S /\ \A i \in S : i \in B <=> entries[i] \in X
  BY DEF PlacesOf
<1>1. IsFiniteSet(A)
  <2>1. IsFiniteSet(1 .. n)
    BY FS_Interval
  <2> QED
    BY <1>0, <2>1, FS_Subset
<1>2. /\ f \in [1 .. n -> S]
      /\ \A k, l \in 1 .. n : k # l => f[k] # f[l]
      /\ \A i \in S : \E k \in 1 .. n : f[k] = i
  BY DEF Enumerates
<1> HIDE DEF A, B
<1>3. g \in [A -> B] /\ \A k, l \in A : g[k] = g[l] => k = l
  BY <1>0, <1>2
<1>4. \A i \in B : \E k \in A : g[k] = i
  <2> TAKE i \in B
  <2>1. PICK k \in 1 .. n : f[k] = i
    BY <1>0, <1>2
  <2>2. k \in A /\ g[k] = i
    BY <1>0, <2>1
  <2> QED
    BY <2>2
<1> HIDE DEF g
<1>5. g \in Bijection(A, B)
  BY <1>3, <1>4 DEF Bijection, Injection, IsInjective, Surjection
<1>6. ExistsBijection(A, B)
  BY <1>5 DEF ExistsBijection
<1>7. Cardinality(B) = Cardinality(A)
  BY <1>1, <1>6, FS_Bijection
<1> QED
  BY <1>7 DEF HowMany, A, B

LEMMA AllThePlaces ==
    ASSUME NEW entries, NEW X
    PROVE  HowMany(entries, X) = Cardinality(PlacesOf(entries, DOMAIN entries, X))
BY DEF HowMany, PlacesOf

(* A sequence in another order has as many of each kind.                   *)
LEMMA ReorderedHasAsMany ==
    ASSUME NEW T, NEW s \in Seq(T), NEW t \in Seq(T), Len(t) = Len(s),
           NEW f, Enumerates(f, Len(s), 1 .. Len(s)),
           \A k \in 1 .. Len(s) : t[k] = s[f[k]]
    PROVE  \A X : HowMany(t, X) = HowMany(s, X)
<1> TAKE X
<1>1. Len(s) \in Nat /\ DOMAIN s = 1 .. Len(s)
  OBVIOUS
<1>2. t = [k \in 1 .. Len(s) |-> s[f[k]]]
  OBVIOUS
<1> QED
  BY <1>1, <1>2, AsManyAtThePlaces, AllThePlaces

LEMMA ArrangedIs ==
    ASSUME NEW T, NEW entries \in Seq(T), NEW S, S \subseteq DOMAIN entries,
           NEW order, Orders(S, order), NEW n, n = Cardinality(S),
           NEW f, f = Ranked(S, order), NEW t, t = Arranged(entries, S, order)
    PROVE  /\ t \in Seq(T) /\ Len(t) = n /\ DOMAIN t = 1 .. n
           /\ \A k \in 1 .. n : t[k] = entries[f[k]]
           /\ \A X : HowMany(t, X) = Cardinality(PlacesOf(entries, S, X))
<1>0. n \in Nat
  BY FS_CardinalityType DEF Orders
<1>1. Enumerates(f, n, S)
  BY RankedIs DEF Enumerates
<1>2. f \in [1 .. n -> S]
  BY <1>1 DEF Enumerates
<1>3. t = [k \in DOMAIN f |-> entries[f[k]]]
  BY DEF Arranged
<1>4. t = [k \in 1 .. n |-> entries[f[k]]]
  BY <1>2, <1>3
<1>5. \A i \in S : entries[i] \in T
  OBVIOUS
<1>6. t \in [1 .. n -> T]
  BY <1>2, <1>4, <1>5
<1>7. t \in Seq(T) /\ Len(t) = n /\ DOMAIN t = 1 .. n
  BY <1>0, <1>6
<1>8. \A X : HowMany(t, X) = Cardinality(PlacesOf(entries, S, X))
  BY <1>0, <1>1, <1>4, AsManyAtThePlaces
<1>9. \A k \in 1 .. n : t[k] = entries[f[k]]
  BY <1>4
<1> QED
  BY <1>7, <1>8, <1>9

LEMMA PlacesAreFinite ==
    ASSUME NEW T, NEW entries \in Seq(T), NEW S, S \subseteq DOMAIN entries
    PROVE  IsFiniteSet(S) /\ Cardinality(S) \in Nat
<1>1. DOMAIN entries = 1 .. Len(entries) /\ Len(entries) \in Nat
  OBVIOUS
<1>2. IsFiniteSet(DOMAIN entries)
  BY <1>1, FS_Interval
<1> QED
  BY <1>2, FS_Subset, FS_CardinalityType

LEMMA AllPlaces ==
    ASSUME NEW T, NEW entries \in Seq(T)
    PROVE  Cardinality(DOMAIN entries) = Len(entries)
<1> DEFINE n == Len(entries)
<1>1. DOMAIN entries = 1 .. n /\ n \in Nat
  OBVIOUS
<1> HIDE DEF n
<1>2. Cardinality(1 .. n) = IF 1 > n THEN 0 ELSE n - 1 + 1
  BY <1>1, FS_Interval
<1>3. Cardinality(DOMAIN entries) = n
  BY <1>1, <1>2
<1> QED
  BY <1>3 DEF n

InputOrder(entries) == {p \in (DOMAIN entries) \X (DOMAIN entries) : p[1] < p[2]}

LEMMA InputOrders ==
    ASSUME NEW T, NEW entries \in Seq(T), NEW S, S \subseteq DOMAIN entries
    PROVE  Orders(S, InputOrder(entries))
<1>1. DOMAIN entries \subseteq Int
  OBVIOUS
<1>2. \A i, j \in S : <<i, j>> \in InputOrder(entries) <=> i < j
  BY DEF InputOrder
<1>3. \A i, j, k \in S : i < j /\ j < k => i < k
  BY <1>1
<1>4. \A i, j \in S : ~(i < i) /\ (i = j \/ i < j \/ j < i)
  BY <1>1
<1> QED
  BY <1>2, <1>3, <1>4, PlacesAreFinite DEF Orders

-----------------------------------------------------------------------------
(* Rows by number.                                                         *)
ArchiveRow == [record : {0, 1}, at : -1 .. MaxClock + 1, sequenceNumber : 0 .. MaxNumber]

Before(entries, i, j) ==
    \/ Precedes(entries[i], entries[j])
    \/ ~Precedes(entries[j], entries[i]) /\ i < j

LEMMA PrecedesIs ==
    ASSUME NEW a \in ArchiveRow, NEW b \in ArchiveRow
    PROVE  /\ a.sequenceNumber \in Nat /\ b.sequenceNumber \in Nat
           /\ Precedes(a, b) <=>
                  /\ a.sequenceNumber # 0
                  /\ b.sequenceNumber = 0 \/ a.sequenceNumber < b.sequenceNumber
<1> DEFINE m == a.sequenceNumber
           n == b.sequenceNumber
<1>1. m \in Nat /\ n \in Nat
  BY DEF ArchiveRow
<1>2. Precedes(a, b) <=> (m # 0 /\ ~(n # 0)) \/ (m # 0 /\ m < n)
  BY DEF Precedes, IsSequenced, Unsequenced
<1> HIDE DEF m, n
<1>3. Precedes(a, b) <=> m # 0 /\ (n = 0 \/ m < n)
  BY <1>1, <1>2
<1> QED
  BY <1>1, <1>3 DEF m, n

LEMMA SortOrders ==
    ASSUME NEW entries \in Seq(ArchiveRow)
    PROVE  /\ Orders(DOMAIN entries, SortOrder(entries))
           /\ \A i, j \in DOMAIN entries :
                  <<i, j>> \in SortOrder(entries) <=> Before(entries, i, j)
<1> DEFINE S == DOMAIN entries
           n(i) == entries[i].sequenceNumber
           P(i, j) == Precedes(entries[i], entries[j])
<1>1. S \subseteq Int
  OBVIOUS
<1>2. \A i \in S : entries[i] \in ArchiveRow
  OBVIOUS
<1>3. /\ \A i \in S : n(i) \in Nat
      /\ \A i, j \in S : P(i, j) <=> n(i) # 0 /\ (n(j) = 0 \/ n(i) < n(j))
  BY <1>2, PrecedesIs
<1>4. \A i, j \in S : <<i, j>> \in SortOrder(entries) <=> P(i, j) \/ (~P(j, i) /\ i < j)
  BY DEF SortOrder
<1> HIDE DEF n, P
<1>5. \A i \in S : <<i, i>> \notin SortOrder(entries)
  BY <1>1, <1>3, <1>4
<1>6. \A i, j \in S :
          i = j \/ <<i, j>> \in SortOrder(entries) \/ <<j, i>> \in SortOrder(entries)
  <2> TAKE i, j \in S
  <2>1. i \in Int /\ j \in Int
    BY <1>1
  <2>2. i = j \/ i < j \/ j < i
    BY <2>1
  <2> QED
    BY <1>4, <2>2
<1>7. \A i, j, k \in S :
          <<i, j>> \in SortOrder(entries) /\ <<j, k>> \in SortOrder(entries)
              => <<i, k>> \in SortOrder(entries)
  <2> TAKE i, j, k \in S
  <2>1. n(i) \in Nat /\ n(j) \in Nat /\ n(k) \in Nat /\ i \in Int /\ j \in Int /\ k \in Int
    BY <1>1, <1>3
  <2>2. (P(i, j) \/ (~P(j, i) /\ i < j)) /\ (P(j, k) \/ (~P(k, j) /\ j < k))
            => P(i, k) \/ (~P(k, i) /\ i < k)
    BY <1>3, <2>1
  <2> QED
    BY <1>4, <2>2
<1>8. Orders(S, SortOrder(entries))
  BY <1>5, <1>6, <1>7, PlacesAreFinite DEF Orders
<1> QED
  BY <1>4, <1>8 DEF P, Before

(* Sorting keeps what is there and leaves nothing before what precedes it. *)
LEMMA SortedIs ==
    ASSUME NEW entries \in Seq(ArchiveRow), NEW t, t = ToSorted(entries)
    PROVE  /\ t \in Seq(ArchiveRow)
           /\ Len(t) = Len(entries)
           /\ \A X : HowMany(t, X) = HowMany(entries, X)
           /\ \A k \in DOMAIN t : \E i \in DOMAIN entries : t[k] = entries[i]
           /\ \A j, i \in DOMAIN t : j < i => ~Precedes(t[i], t[j])
<1> DEFINE S == DOMAIN entries
           order == SortOrder(entries)
           n == Cardinality(S)
           f == Ranked(S, order)
<1>1. t = Arranged(entries, S, order)
  BY DEF ToSorted
<1>2. Orders(S, order) /\ n = Len(entries)
  BY SortOrders, AllPlaces
<1>3. \A i, j \in S : <<i, j>> \in order => Before(entries, i, j)
  BY SortOrders
<1> HIDE DEF n, f, order
<1>4. /\ t \in Seq(ArchiveRow) /\ Len(t) = n /\ DOMAIN t = 1 .. n
      /\ \A k \in 1 .. n : t[k] = entries[f[k]]
      /\ \A X : HowMany(t, X) = Cardinality(PlacesOf(entries, S, X))
  BY <1>1, <1>2, ArrangedIs DEF n, f
<1>5. \A X : HowMany(t, X) = HowMany(entries, X)
  BY <1>4, AllThePlaces
<1>6. /\ f \in [1 .. n -> S]
      /\ \A k, l \in 1 .. n : k < l => <<f[k], f[l]>> \in order
  BY <1>2, RankedIs DEF n, f
<1>7. ASSUME NEW j \in DOMAIN t, NEW i \in DOMAIN t, j < i PROVE ~Precedes(t[i], t[j])
  <2>1. f[j] \in S /\ f[i] \in S /\ <<f[j], f[i]>> \in order
    BY <1>4, <1>6, <1>7
  <2>2. Before(entries, f[j], f[i])
    BY <1>3, <2>1
  <2>3. t[i] = entries[f[i]] /\ t[j] = entries[f[j]]
    BY <1>4
  <2>4. t[i] \in ArchiveRow /\ t[j] \in ArchiveRow
    BY <2>1, <2>3
  <2>5. Precedes(t[j], t[i]) => ~Precedes(t[i], t[j])
    BY <2>4, PrecedesIs
  <2> QED
    BY <2>2, <2>3, <2>5 DEF Before
<1> QED
  BY <1>2, <1>4, <1>5, <1>6, <1>7

(* And what is in order is left as it is.                                  *)
LEMMA SortOfSorted ==
    ASSUME NEW t \in Seq(ArchiveRow), \A j, i \in DOMAIN t : j < i => ~Precedes(t[i], t[j])
    PROVE  ToSorted(t) = t
<1> DEFINE S == DOMAIN t
           order == SortOrder(t)
           n == Cardinality(S)
           f == Ranked(S, order)
           sorted == ToSorted(t)
<1>1. sorted = Arranged(t, S, order)
  BY DEF ToSorted
<1>2. Orders(S, order) /\ n = Len(t) /\ S = 1 .. Len(t) /\ Len(t) \in Nat
  BY SortOrders, AllPlaces
<1>3. \A i, j \in S : <<i, j>> \in order <=> Before(t, i, j)
  BY SortOrders
<1> HIDE DEF n, f, order, sorted
<1>4. \A i, j \in S : <<i, j>> \in order <=> i < j
  <2> TAKE i, j \in S
  <2>1. i \in Int /\ j \in Int /\ (i = j \/ i < j \/ j < i) /\ (i < j => ~(j < i) /\ i # j)
    BY <1>2
  <2>2. ~Precedes(t[i], t[i])
    <3>1. t[i] \in ArchiveRow
      OBVIOUS
    <3> QED
      BY <3>1, PrecedesIs
  <2>3. (i < j => ~Precedes(t[j], t[i])) /\ (j < i => ~Precedes(t[i], t[j]))
    OBVIOUS
  <2> QED
    BY <1>3, <2>1, <2>2, <2>3 DEF Before
<1>5. /\ sorted \in Seq(ArchiveRow) /\ Len(sorted) = n /\ DOMAIN sorted = 1 .. n
      /\ \A k \in 1 .. n : sorted[k] = t[f[k]]
  BY <1>1, <1>2, ArrangedIs DEF n, f
<1>6. /\ f \in [1 .. n -> S]
      /\ \A k \in 1 .. n : RankOf(S, order, f[k]) = k - 1
  <2>1. n = Cardinality(S) /\ f = Ranked(S, order)
    BY DEF n, f
  <2>2. Orders(S, order)
    BY <1>2
  <2> HIDE DEF S
  <2> QED
    BY <2>1, <2>2, RankedIs
<1>7. ASSUME NEW i \in S PROVE RankOf(S, order, i) = i - 1
  <2>1. i \in Int /\ 1 <= i /\ i <= Len(t)
    BY <1>2
  <2>2. \A j : j \in Below(S, order, i) <=> j \in 1 .. i - 1
    BY <1>2, <1>4, <2>1 DEF Below
  <2>3. Below(S, order, i) = 1 .. i - 1
    BY <2>2
  <2> DEFINE m == i - 1
  <2>4. m \in Nat
    BY <2>1
  <2>5. Cardinality(1 .. m) = m
    <3> HIDE DEF m
    <3>1. Cardinality(1 .. m) = IF 1 > m THEN 0 ELSE m - 1 + 1
      BY <2>4, FS_Interval
    <3> QED
      BY <2>4, <3>1
  <2> QED
    BY <2>3, <2>5 DEF RankOf
<1>8. \A k \in 1 .. n : f[k] = k
  BY <1>2, <1>6, <1>7
<1>9. \A k \in 1 .. n : sorted[k] = t[k]
  BY <1>5, <1>8
<1>10. sorted = t
  BY <1>2, <1>5, <1>9
<1> QED
  BY <1>10 DEF sorted

-----------------------------------------------------------------------------
(* Bags of the same counts.                                                *)

LEMMA HeldIsCounted ==
    ASSUME NEW T, NEW s \in Seq(T), NEW e
    PROVE  e \in ToSet(s) <=> HowMany(s, {e}) # 0
<1> DEFINE A == {i \in DOMAIN s : s[i] \in {e}}
<1>1. e \in ToSet(s) <=> A # {}
  BY DEF ToSet
<1>2. IsFiniteSet(A)
  BY PlacesAreFinite
<1> HIDE DEF A
<1>3. Cardinality(A) = 0 <=> A = {}
  BY <1>2, FS_EmptySet
<1> QED
  BY <1>1, <1>3 DEF HowMany, A

LEMMA BagIs ==
    ASSUME NEW s
    PROVE  ToBag(s) = [e \in ToSet(s) |-> HowMany(s, {e})]
<1>1. Range(s) = ToSet(s)
  BY DEF Range, ToSet
<1>2. ASSUME NEW e PROVE Cardinality({i \in DOMAIN s : s[i] = e}) = HowMany(s, {e})
  BY CountIsHowMany DEF CountOf
<1> QED
  BY <1>1, <1>2 DEF ToBag

LEMMA SameCountsSameBag ==
    ASSUME NEW T, NEW s \in Seq(T), NEW t \in Seq(T), \A X : HowMany(s, X) = HowMany(t, X)
    PROVE  ToBag(s) = ToBag(t)
<1>1. \A e : e \in ToSet(s) <=> e \in ToSet(t)
  BY HeldIsCounted
<1>2. ToSet(s) = ToSet(t)
  BY <1>1
<1> QED
  BY <1>2, BagIs

LEMMA AddedCountsAddBags ==
    ASSUME NEW T, NEW s \in Seq(T), NEW t \in Seq(T), NEW u \in Seq(T),
           \A X : HowMany(s, X) + HowMany(t, X) = HowMany(u, X)
    PROVE  ToBag(s) (+) ToBag(t) = ToBag(u)
<1> DEFINE A == ToSet(s)
           B == ToSet(t)
           C == ToSet(u)
           m(e) == HowMany(s, {e})
           n(e) == HowMany(t, {e})
           o(e) == HowMany(u, {e})
<1>1. \A e : m(e) \in Nat /\ n(e) \in Nat /\ m(e) + n(e) = o(e)
  BY HowManyIs
<1>2. \A e : (e \in A <=> m(e) # 0) /\ (e \in B <=> n(e) # 0) /\ (e \in C <=> o(e) # 0)
  BY HeldIsCounted
<1>3. ToBag(s) = [e \in A |-> m(e)] /\ ToBag(t) = [e \in B |-> n(e)] /\ ToBag(u) = [e \in C |-> o(e)]
  BY BagIs
<1> HIDE DEF A, B, C, m, n, o
<1>4. \A e : e \in A \cup B <=> e \in C
  BY <1>1, <1>2
<1>5. A \cup B = C
  BY <1>4
<1>6. ToBag(s) (+) ToBag(t)
          = [e \in A \cup B |-> (IF e \in A THEN m(e) ELSE 0) + (IF e \in B THEN n(e) ELSE 0)]
  BY <1>3 DEF (+)
<1>7. \A e \in C : (IF e \in A THEN m(e) ELSE 0) + (IF e \in B THEN n(e) ELSE 0) = o(e)
  BY <1>1, <1>2
<1> QED
  BY <1>3, <1>5, <1>6, <1>7

-----------------------------------------------------------------------------
(* Appending and joining.                                                  *)

LEMMA JoinedIs ==
    ASSUME NEW T, NEW u \in Seq(T), NEW v \in Seq(T)
    PROVE  u \o v \in Seq(T) /\ Len(u \o v) = Len(u) + Len(v)
OBVIOUS

LEMMA JoinedHasBoth ==
    ASSUME NEW T, NEW s \in Seq(T), NEW u \in Seq(T), NEW X
    PROVE  HowMany(s \o u, X) = HowMany(s, X) + HowMany(u, X)
<1> DEFINE m == Len(s)
           n == Len(u)
           t == s \o u
           A == {i \in DOMAIN s : s[i] \in X}
           B == {i \in DOMAIN u : u[i] \in X}
           C == {i \in DOMAIN t : t[i] \in X /\ m < i}
           D == {i \in DOMAIN t : t[i] \in X}
           g == [i \in B |-> m + i]
<1>1. /\ m \in Nat /\ n \in Nat /\ DOMAIN s = 1 .. m /\ DOMAIN u = 1 .. n
      /\ DOMAIN t = 1 .. m + n
      /\ \A i \in 1 .. m : t[i] = s[i]
      /\ \A i \in 1 .. n : t[m + i] = u[i]
  OBVIOUS
<1>2. /\ \A i \in A : i \in 1 .. m /\ i \in D
      /\ \A i \in C : i \in m + 1 .. m + n /\ i \in D
      /\ \A i \in D : i \in A \/ i \in C
  <2>1. \A i \in 1 .. m : i \in 1 .. m + n
    BY <1>1
  <2>2. \A i \in 1 .. m + n : m < i => i \in m + 1 .. m + n
    BY <1>1
  <2>3. \A i \in 1 .. m + n : ~(m < i) => i \in 1 .. m
    BY <1>1
  <2> HIDE DEF m, n, t
  <2> QED
    BY <1>1, <2>1, <2>2, <2>3
<1>3. g \in [B -> C] /\ (\A i, j \in B : g[i] = g[j] => i = j)
  <2>1. \A i \in B : i \in 1 .. n /\ u[i] \in X
    BY <1>1
  <2>2. \A i \in 1 .. n : m + i \in 1 .. m + n /\ m < m + i /\ t[m + i] = u[i]
    BY <1>1
  <2>3. \A i \in B : m + i \in C
    <3> HIDE DEF m, n, t
    <3> QED
      BY <1>1, <2>1, <2>2
  <2>4. \A i, j \in 1 .. n : m + i = m + j => i = j
    BY <1>1
  <2> HIDE DEF B, C
  <2> QED
    BY <2>1, <2>3, <2>4
<1>4. \A k \in C : \E i \in B : g[i] = k
  <2> TAKE k \in C
  <2>1. k \in 1 .. m + n /\ m < k /\ t[k] \in X
    BY <1>1
  <2> DEFINE i == k - m
  <2>2. i \in 1 .. n /\ m + i = k
    BY <1>1, <2>1
  <2>3. u[i] \in X
    BY <1>1, <2>1, <2>2
  <2>4. i \in B
    BY <1>1, <2>2, <2>3
  <2> HIDE DEF i
  <2> QED
    BY <2>2, <2>4
<1>5. IsFiniteSet(A) /\ IsFiniteSet(B)
  BY PlacesAreFinite
<1>6. Cardinality(A) = HowMany(s, X) /\ Cardinality(B) = HowMany(u, X) /\ Cardinality(D) = HowMany(t, X)
  BY DEF HowMany
<1> HIDE DEF A, B, C, D, g
<1>7. g \in Bijection(B, C)
  BY <1>3, <1>4 DEF Bijection, Injection, IsInjective, Surjection
<1>8. ExistsBijection(B, C)
  BY <1>7 DEF ExistsBijection
<1>9. IsFiniteSet(C) /\ Cardinality(C) = Cardinality(B)
  BY <1>5, <1>8, FS_Bijection
<1>10. A \cap C = {}
  <2>1. \A i : ~(i \in 1 .. m /\ i \in m + 1 .. m + n)
    BY <1>1
  <2> QED
    BY <1>2, <2>1
<1>11. D = A \cup C
  <2>1. \A i : i \in D <=> i \in A \cup C
    BY <1>2
  <2> QED
    BY <2>1
<1>12. Cardinality(A \cap C) = 0
  BY <1>10, FS_EmptySet
<1>13. Cardinality(D) = Cardinality(A) + Cardinality(C) - Cardinality(A \cap C)
  BY <1>5, <1>9, <1>11, FS_Union
<1>14. Cardinality(A) \in Nat /\ Cardinality(C) \in Nat
  BY <1>5, <1>9, FS_CardinalityType
<1> QED
  BY <1>6, <1>9, <1>12, <1>13, <1>14 DEF t

LEMMA AppendedHasOneMore ==
    ASSUME NEW T, NEW s \in Seq(T), NEW e \in T, NEW X
    PROVE  HowMany(Append(s, e), X) = HowMany(s, X) + HowMany(<<e>>, X)
<1> DEFINE u == <<e>>
<1>1. u \in Seq(T) /\ Append(s, e) = s \o u
  OBVIOUS
<1> HIDE DEF u
<1>2. HowMany(s \o u, X) = HowMany(s, X) + HowMany(u, X)
  BY <1>1, JoinedHasBoth
<1> QED
  BY <1>1, <1>2 DEF u

-----------------------------------------------------------------------------
(* A purge parts the rows.                                                 *)
LEMMA PurgeParts ==
    ASSUME NEW T, NEW entries \in Seq(T), NEW maxAgeMs, NEW now, NEW archive,
           NEW gone, gone = Purgeable(entries, maxAgeMs, now, archive),
           NEW plan, plan = planPurge(entries, maxAgeMs, now, archive)
    PROVE  /\ plan.purge \in Seq(T) /\ plan.retain \in Seq(T)
           /\ \A X : HowMany(plan.purge, X) + HowMany(plan.retain, X) = HowMany(entries, X)
           /\ \A k \in DOMAIN plan.purge : \E i \in gone : plan.purge[k] = entries[i]
<1> DEFINE S == DOMAIN entries
           kept == S \ gone
           order == InputOrder(entries)
<1>1. gone \subseteq S /\ kept \subseteq S
  BY DEF Purgeable
<1>2. Orders(gone, order) /\ Orders(kept, order)
  BY <1>1, InputOrders
<1>3. plan.purge = Arranged(entries, gone, order) /\ plan.retain = Arranged(entries, kept, order)
  BY DEF planPurge, InputOrder
<1> DEFINE n == Cardinality(gone)
           f == Ranked(gone, order)
<1> HIDE DEF order, kept
<1>4. /\ plan.purge \in Seq(T) /\ DOMAIN plan.purge = 1 .. n
      /\ \A k \in 1 .. n : plan.purge[k] = entries[f[k]]
      /\ \A X : HowMany(plan.purge, X) = Cardinality(PlacesOf(entries, gone, X))
  <2>1. n = Cardinality(gone) /\ f = Ranked(gone, order)
    OBVIOUS
  <2> HIDE DEF n, f
  <2> QED
    BY <1>1, <1>2, <1>3, <2>1, ArrangedIs
<1>5. /\ plan.retain \in Seq(T)
      /\ \A X : HowMany(plan.retain, X) = Cardinality(PlacesOf(entries, kept, X))
  <2> DEFINE m == Cardinality(kept)
             g == Ranked(kept, order)
  <2>1. m = Cardinality(kept) /\ g = Ranked(kept, order)
    OBVIOUS
  <2> HIDE DEF m, g
  <2> QED
    BY <1>1, <1>2, <1>3, <2>1, ArrangedIs
<1>6. f \in [1 .. n -> gone]
  <2>1. n = Cardinality(gone) /\ f = Ranked(gone, order)
    OBVIOUS
  <2> HIDE DEF n, f
  <2> QED
    BY <1>2, <2>1, RankedIs
<1>7. ASSUME NEW X
      PROVE  HowMany(plan.purge, X) + HowMany(plan.retain, X) = HowMany(entries, X)
  <2> DEFINE A == PlacesOf(entries, gone, X)
             B == PlacesOf(entries, kept, X)
             C == PlacesOf(entries, S, X)
  <2>1. C = A \cup B /\ A \cap B = {} /\ A \subseteq S /\ B \subseteq S
    BY <1>1 DEF PlacesOf, kept
  <2>2. IsFiniteSet(A) /\ IsFiniteSet(B) /\ Cardinality(A) \in Nat /\ Cardinality(B) \in Nat
    BY <2>1, PlacesAreFinite
  <2>3. HowMany(entries, X) = Cardinality(C)
    BY AllThePlaces
  <2>4. HowMany(plan.purge, X) = Cardinality(A) /\ HowMany(plan.retain, X) = Cardinality(B)
    BY <1>4, <1>5
  <2> HIDE DEF A, B, C
  <2>5. Cardinality(A \cup B) = Cardinality(A) + Cardinality(B) - Cardinality(A \cap B)
    BY <2>2, FS_Union
  <2>6. Cardinality(A \cap B) = 0
    BY <2>1, FS_EmptySet
  <2> QED
    BY <2>1, <2>2, <2>3, <2>4, <2>5, <2>6
<1>8. ASSUME NEW k \in DOMAIN plan.purge PROVE \E i \in gone : plan.purge[k] = entries[i]
  BY <1>4, <1>6
<1> QED
  BY <1>4, <1>5, <1>7, <1>8

-----------------------------------------------------------------------------
(* What a bundle that reads back is.                                       *)
Numbered == {r \in ArchiveRow : r.sequenceNumber # Unsequenced}

LEMMA ClaimIs ==
    ASSUME NEW entries \in Seq(ArchiveRow)
    PROVE  IntegrityVerified(entries) <=> HowMany(entries, Numbered) >= 2
<1>1. \A i \in DOMAIN entries : IsSequenced(entries[i]) <=> entries[i] \in Numbered
  <2>1. \A i \in DOMAIN entries : entries[i] \in ArchiveRow
    OBVIOUS
  <2> QED
    BY <2>1 DEF IsSequenced, Numbered
<1> DEFINE A == {i \in DOMAIN entries : IsSequenced(entries[i])}
           B == {i \in DOMAIN entries : entries[i] \in Numbered}
<1>2. A = B
  BY <1>1
<1>3. IntegrityVerified(entries) <=> Cardinality(A) >= 2
  BY DEF IntegrityVerified
<1>4. HowMany(entries, Numbered) = Cardinality(B)
  BY DEF HowMany
<1> HIDE DEF A, B
<1> QED
  BY <1>2, <1>3, <1>4

LEMMA ReadsWhole ==
    ASSUME NEW b
    PROVE  readAuditArchive(b) = "none" <=>
               /\ b.version # "none" /\ b.version = ARCHIVE_VERSION
               /\ \A e \in ToSet(b.entries) : RowDecodes(e)
               /\ b.entryCount = Len(b.entries)
               /\ firstSequenceBreak(b.entries) = {}
               /\ firstOutOfOrder(b.entries) = {}
               /\ b.sequenceIntegrityVerified = IntegrityVerified(b.entries)
<1> DEFINE None == b.version = "none"
           Unsupported == b.version # ARCHIVE_VERSION
           Undecodable == \E e \in ToSet(b.entries) : ~RowDecodes(e)
           Miscounted == b.entryCount # Len(b.entries)
           Broken == firstSequenceBreak(b.entries) # {}
           Unordered == firstOutOfOrder(b.entries) # {}
           Unbacked == b.sequenceIntegrityVerified # IntegrityVerified(b.entries)
<1>1. readAuditArchive(b) =
          IF None THEN "Malformed" ELSE IF Unsupported THEN "UnsupportedArchiveVersion"
          ELSE IF Undecodable THEN "EntryNotDecodable"
          ELSE IF Miscounted THEN "CountMismatch" ELSE IF Broken THEN "SequenceBroken"
          ELSE IF Unordered THEN "NotInSequenceOrder"
          ELSE IF Unbacked THEN "UnbackedClaim" ELSE "none"
  BY DEF readAuditArchive
<1> HIDE DEF None, Unsupported, Undecodable, Miscounted, Broken, Unordered, Unbacked
<1>2. readAuditArchive(b) = "none" <=>
          ~None /\ ~Unsupported /\ ~Undecodable /\ ~Miscounted /\ ~Broken /\ ~Unordered /\ ~Unbacked
  BY <1>1
<1> QED
  BY <1>2 DEF None, Unsupported, Undecodable, Miscounted, Broken, Unordered, Unbacked

(* An archive just made reads back if each of its rows does.               *)
LEMMA MadeReadsBack ==
    ASSUME NEW entries \in Seq(ArchiveRow), NEW now, NEW b, b = archiveAuditTrail(entries, now),
           firstSequenceBreak(entries) = {}
    PROVE  readAuditArchive(b) = "none" <=> \A e \in ToSet(entries) : RowDecodes(e)
<1> DEFINE t == ToSorted(entries)
<1>1. /\ b.version = ARCHIVE_VERSION /\ b.entryCount = Len(entries) /\ b.entries = t
      /\ b.sequenceIntegrityVerified = IntegrityVerified(entries)
  BY DEF archiveAuditTrail
<1>2. b.version # "none"
  BY <1>1 DEF ARCHIVE_VERSION
<1>3. firstSequenceBreak(entries)
          = {i \in 2 .. Len(t) : IsSequenced(t[i])
                                 /\ t[i].sequenceNumber # t[i - 1].sequenceNumber + 1}
  BY DEF firstSequenceBreak
<1>4. t = ToSorted(entries)
  OBVIOUS
<1> HIDE DEF t
<1>5. /\ t \in Seq(ArchiveRow) /\ Len(t) = Len(entries)
      /\ \A X : HowMany(t, X) = HowMany(entries, X)
      /\ \A k \in DOMAIN t : \E i \in DOMAIN entries : t[k] = entries[i]
      /\ \A j, i \in DOMAIN t : j < i => ~Precedes(t[i], t[j])
  BY <1>4, SortedIs
<1>6. ToSet(t) = ToSet(entries)
  <2>1. \A e : e \in ToSet(t) <=> e \in ToSet(entries)
    BY <1>5, HeldIsCounted
  <2> QED
    BY <2>1
<1>7. firstSequenceBreak(t) = {}
  <2>1. ToSorted(t) = t
    BY <1>5, SortOfSorted
  <2>2. firstSequenceBreak(t)
            = {i \in 2 .. Len(t) : IsSequenced(t[i])
                                   /\ t[i].sequenceNumber # t[i - 1].sequenceNumber + 1}
    BY <2>1 DEF firstSequenceBreak
  <2> QED
    BY <1>3, <2>2
<1>8. firstOutOfOrder(t) = {}
  <2> SUFFICES ASSUME NEW i \in DOMAIN t, NEW j \in 1 .. i - 1, IsSequenced(t[i]),
                      ~IsSequenced(t[j]) \/ t[j].sequenceNumber > t[i].sequenceNumber
               PROVE  FALSE
    BY DEF firstOutOfOrder
  <2>1. DOMAIN t = 1 .. Len(t) /\ Len(t) \in Nat
    BY <1>5
  <2>2. j \in DOMAIN t /\ j < i
    BY <2>1
  <2>3. ~Precedes(t[i], t[j]) /\ t[i] \in ArchiveRow /\ t[j] \in ArchiveRow
    BY <1>5, <2>2
  <2>4. t[i].sequenceNumber \in Nat /\ t[j].sequenceNumber \in Nat
    BY <2>3, PrecedesIs
  <2> QED
    BY <2>3, <2>4 DEF Precedes
<1>9. IntegrityVerified(entries) = IntegrityVerified(t)
  <2>1. IntegrityVerified(entries) \in BOOLEAN /\ IntegrityVerified(t) \in BOOLEAN
    BY DEF IntegrityVerified
  <2> QED
    BY <1>5, <2>1, ClaimIs
<1> QED
  BY <1>1, <1>2, <1>5, <1>6, <1>7, <1>8, <1>9, ReadsWhole

-----------------------------------------------------------------------------
(* Damage.                                                                 *)

(* Taking a row out of its place and putting it at the end.                *)
Moved(s, i) == Append(RemoveAt(s, i), s[i])

LEMMA MovedHasAsMany ==
    ASSUME NEW T, NEW s \in Seq(T), NEW i \in DOMAIN s,
           NEW t, t = Moved(s, i)
    PROVE  t \in Seq(T) /\ \A X : HowMany(t, X) = HowMany(s, X)
<1> DEFINE n == Len(s)
           r == RemoveAt(s, i)
           f == [k \in 1 .. n |-> IF k < i THEN k ELSE IF k < n THEN k + 1 ELSE i]
<1>1. n \in Nat /\ i \in 1 .. n /\ DOMAIN s = 1 .. n
  OBVIOUS
<1>2. /\ r \in Seq(T) /\ Len(r) = n - 1
      /\ \A k \in 1 .. n - 1 : r[k] = IF k < i THEN s[k] ELSE s[k + 1]
  <2> DEFINE u == SubSeq(s, 1, i - 1)
             v == SubSeq(s, i + 1, n)
  <2>1. /\ u \in Seq(T) /\ Len(u) = i - 1 /\ \A k \in 1 .. i - 1 : u[k] = s[k]
    BY <1>1
  <2>2. /\ v \in Seq(T) /\ Len(v) = n - i /\ \A k \in 1 .. n - i : v[k] = s[k + i]
    BY <1>1
  <2>3. r = u \o v
    BY DEF RemoveAt
  <2> HIDE DEF u, v, r, n
  <2>4. r \in Seq(T) /\ Len(r) = n - 1
    <3>1. r \in Seq(T) /\ Len(r) = Len(u) + Len(v)
      BY <2>1, <2>2, <2>3, JoinedIs
    <3>2. i - 1 + (n - i) = n - 1
      BY <1>1
    <3> QED
      BY <2>1, <2>2, <3>1, <3>2
  <2>5. ASSUME NEW k \in 1 .. n - 1 PROVE r[k] = IF k < i THEN s[k] ELSE s[k + 1]
    <3>1. CASE k < i
      <4>1. k \in 1 .. i - 1
        BY <1>1, <3>1
      <4>2. r[k] = u[k]
        BY <2>1, <2>2, <2>3, <4>1
      <4> QED
        BY <2>1, <3>1, <4>1, <4>2
    <3>2. CASE ~(k < i)
      <4> DEFINE l == k - (i - 1)
      <4>1. l \in 1 .. n - i /\ k = (i - 1) + l /\ l + i = k + 1
        BY <1>1, <3>2
      <4> HIDE DEF l
      <4>2. \A j \in 1 .. Len(v) : (u \o v)[Len(u) + j] = v[j]
        BY <2>1, <2>2
      <4>3. r[k] = v[l]
        BY <2>1, <2>2, <2>3, <4>1, <4>2
      <4> QED
        BY <2>2, <3>2, <4>1, <4>3
    <3> QED
      BY <3>1, <3>2
  <2> QED
    BY <2>4, <2>5 
<1>3. t \in Seq(T) /\ Len(t) = n /\ \A k \in 1 .. n : t[k] = IF k < n THEN r[k] ELSE s[i]
  <2>1. t = Append(r, s[i]) /\ s[i] \in T
    BY <1>1 DEF Moved
  <2> HIDE DEF r, n
  <2> QED
    BY <1>1, <1>2, <2>1
<1>4. \A k \in 1 .. n : t[k] = s[f[k]]
  <2> TAKE k \in 1 .. n
  <2>1. f[k] = IF k < i THEN k ELSE IF k < n THEN k + 1 ELSE i
    OBVIOUS
  <2>2. k < n => k \in 1 .. n - 1
    BY <1>1
  <2>3. k < i => k < n
    BY <1>1
  <2> HIDE DEF f, r, n
  <2> QED
    BY <1>2, <1>3, <2>1, <2>2, <2>3
<1>5. Enumerates(f, n, 1 .. n)
  <2>1. f \in [1 .. n -> 1 .. n]
    BY <1>1
  <2>2. \A k \in 1 .. n : f[k] = IF k < i THEN k ELSE IF k < n THEN k + 1 ELSE i
    OBVIOUS
  <2> HIDE DEF f, n
  <2>3. \A k, l \in 1 .. n : k # l => f[k] # f[l]
    <3> TAKE k, l \in 1 .. n
    <3>1. k \in Int /\ l \in Int /\ i \in Int /\ n \in Int /\ k <= n /\ l <= n
      BY <1>1
    <3>2. /\ k < i => f[k] = k
          /\ ~(k < i) /\ k < n => f[k] = k + 1
          /\ ~(k < i) /\ ~(k < n) => f[k] = i /\ k = n
          /\ l < i => f[l] = l
          /\ ~(l < i) /\ l < n => f[l] = l + 1
          /\ ~(l < i) /\ ~(l < n) => f[l] = i /\ l = n
      BY <2>2, <3>1
    <3> QED
      BY <3>1, <3>2
  <2>4. \A j \in 1 .. n : \E k \in 1 .. n : f[k] = j
    <3> TAKE j \in 1 .. n
    <3> DEFINE k == IF j < i THEN j ELSE IF j = i THEN n ELSE j - 1
    <3>1. k \in 1 .. n
      BY <1>1
    <3>2. f[k] = IF k < i THEN k ELSE IF k < n THEN k + 1 ELSE i
      BY <2>2, <3>1
    <3>3. (IF k < i THEN k ELSE IF k < n THEN k + 1 ELSE i) = j
      BY <1>1
    <3> QED
      BY <3>1, <3>2, <3>3
  <2> QED
    BY <2>1, <2>3, <2>4 DEF Enumerates
<1> HIDE DEF f
<1> QED
  BY <1>3, <1>4, <1>5, ReorderedHasAsMany

LEMMA DroppedIsShorter ==
    ASSUME NEW T, NEW s \in Seq(T), NEW i \in DOMAIN s, NEW t, t = RemoveAt(s, i)
    PROVE  /\ t \in Seq(T) /\ Len(t) = Len(s) - 1
           /\ \A k \in DOMAIN t : \E j \in DOMAIN s : t[k] = s[j]
<1> DEFINE n == Len(s)
           u == SubSeq(s, 1, i - 1)
           v == SubSeq(s, i + 1, n)
<1>1. n \in Nat /\ i \in 1 .. n /\ DOMAIN s = 1 .. n
  OBVIOUS
<1> DEFINE There == {s[j] : j \in DOMAIN s}
<1>2. s \in Seq(There)
  BY <1>1
<1>3. u \in Seq(There) /\ Len(u) = i - 1 /\ u \in Seq(T)
  BY <1>1, <1>2
<1>4. v \in Seq(There) /\ Len(v) = n - i /\ v \in Seq(T)
  BY <1>1, <1>2
<1>5. t = u \o v
  BY DEF RemoveAt
<1>6. \A e \in There : \E j \in DOMAIN s : e = s[j]
  OBVIOUS
<1> HIDE DEF u, v, There, n
<1>7. t \in Seq(There) /\ t \in Seq(T) /\ Len(t) = n - 1
  <2>1. t \in Seq(There) /\ Len(t) = Len(u) + Len(v)
    BY <1>3, <1>4, <1>5, JoinedIs
  <2>2. t \in Seq(T)
    BY <1>3, <1>4, <1>5, JoinedIs
  <2>3. i - 1 + (n - i) = n - 1
    BY <1>1
  <2> QED
    BY <1>3, <1>4, <2>1, <2>2, <2>3
<1>8. \A k \in DOMAIN t : t[k] \in There
  BY <1>7
<1> QED
  BY <1>6, <1>7, <1>8 DEF n

LEMMA RepeatedIsLonger ==
    ASSUME NEW T, NEW s \in Seq(T), NEW i \in DOMAIN s, NEW t, t = InsertAt(s, i, s[i])
    PROVE  /\ t \in Seq(T) /\ Len(t) = Len(s) + 1
           /\ \A k \in DOMAIN t : \E j \in DOMAIN s : t[k] = s[j]
<1> DEFINE n == Len(s)
           u == SubSeq(s, 1, i - 1)
           m == <<s[i]>>
           v == SubSeq(s, i, n)
<1>1. n \in Nat /\ i \in 1 .. n /\ DOMAIN s = 1 .. n
  OBVIOUS
<1> DEFINE There == {s[j] : j \in DOMAIN s}
<1>2. s \in Seq(There)
  BY <1>1
<1>3. u \in Seq(There) /\ Len(u) = i - 1 /\ u \in Seq(T)
  BY <1>1, <1>2
<1>4. v \in Seq(There) /\ Len(v) = n - i + 1 /\ v \in Seq(T)
  BY <1>1, <1>2
<1>5. t = u \o m \o v
  BY DEF InsertAt
<1>6. \A e \in There : \E j \in DOMAIN s : e = s[j]
  OBVIOUS
<1>7. m \in Seq(There) /\ m \in Seq(T) /\ Len(m) = 1
  BY <1>1
<1> HIDE DEF u, v, m, There, n
<1>8. t \in Seq(There) /\ t \in Seq(T) /\ Len(t) = n + 1
  <2> DEFINE w == u \o m
  <2>1. w \in Seq(There) /\ w \in Seq(T) /\ Len(w) = Len(u) + Len(m)
    BY <1>3, <1>7, JoinedIs
  <2>2. t = w \o v
    BY <1>5
  <2> HIDE DEF w
  <2>4. t \in Seq(There) /\ Len(t) = Len(w) + Len(v)
    BY <1>4, <2>1, <2>2, JoinedIs
  <2>5. t \in Seq(T)
    BY <1>4, <2>1, <2>2, JoinedIs
  <2>3. i - 1 + 1 + (n - i + 1) = n + 1
    BY <1>1
  <2> QED
    BY <1>3, <1>4, <1>7, <2>1, <2>3, <2>4, <2>5
<1>9. \A k \in DOMAIN t : t[k] \in There
  BY <1>8
<1> QED
  BY <1>6, <1>8, <1>9 DEF n

LEMMA MadeIs ==
    ASSUME NEW s \in Seq(ArchiveRow), NEW now, NEW b, b = archiveAuditTrail(s, now)
    PROVE  /\ b.version = ARCHIVE_VERSION /\ b.entryCount = Len(s)
           /\ b.sequenceIntegrityVerified = IntegrityVerified(s)
           /\ b.entries \in Seq(ArchiveRow) /\ Len(b.entries) = Len(s)
           /\ \A X : HowMany(b.entries, X) = HowMany(s, X)
           /\ \A k \in DOMAIN b.entries : \E i \in DOMAIN s : b.entries[k] = s[i]
<1> DEFINE t == ToSorted(s)
<1>1. /\ b.version = ARCHIVE_VERSION /\ b.entryCount = Len(s) /\ b.entries = t
      /\ b.sequenceIntegrityVerified = IntegrityVerified(s)
  BY DEF archiveAuditTrail
<1>2. t = ToSorted(s)
  OBVIOUS
<1> HIDE DEF t
<1>3. /\ t \in Seq(ArchiveRow) /\ Len(t) = Len(s)
      /\ \A X : HowMany(t, X) = HowMany(s, X)
      /\ \A k \in DOMAIN t : \E i \in DOMAIN s : t[k] = s[i]
  BY <1>2, SortedIs
<1> QED
  BY <1>1, <1>3

MadeFields == {"version", "createdAt", "entryCount", "sequenceIntegrityVerified", "entries"}

(* Reading back a damaged bundle with success: it holds all it was given.  *)
LEMMA DamagedIsRefused ==
    ASSUME NEW s \in Seq(ArchiveRow), NEW now, NEW whole, whole = archiveAuditTrail(s, now),
           NEW kind \in Kinds, kind # "edited", NEW i \in DOMAIN whole.entries,
           NEW b, b = Damaged(kind, whole, i), readAuditArchive(b) = "none"
    PROVE  b.entries \in Seq(ArchiveRow) /\ \A X : HowMany(b.entries, X) = HowMany(s, X)
<1> DEFINE t == whole.entries
<1>1. /\ whole.version = ARCHIVE_VERSION /\ whole.entryCount = Len(s)
      /\ whole.sequenceIntegrityVerified = IntegrityVerified(s)
      /\ t \in Seq(ArchiveRow) /\ Len(t) = Len(s)
      /\ \A X : HowMany(t, X) = HowMany(s, X)
  BY MadeIs
<1>2. DOMAIN whole = MadeFields
  BY DEF archiveAuditTrail, MadeFields
<1>3. /\ b.version # "none" /\ b.version = ARCHIVE_VERSION
      /\ \A e \in ToSet(b.entries) : RowDecodes(e)
      /\ b.entryCount = Len(b.entries)
      /\ b.sequenceIntegrityVerified = IntegrityVerified(b.entries)
  BY ReadsWhole
<1>4. Len(t) \in Nat /\ i \in DOMAIN t /\ t[i] \in ArchiveRow
  BY <1>1
<1>5. CASE kind = "dropped"
  <2>1. b = [whole EXCEPT !.entries = RemoveAt(@, i)]
    BY <1>5 DEF Damaged
  <2>2. b.entries = RemoveAt(t, i) /\ b.entryCount = whole.entryCount
    BY <1>2, <2>1 DEF MadeFields
  <2>3. Len(b.entries) = Len(t) - 1
    BY <1>1, <1>4, <2>2, DroppedIsShorter
  <2> QED
    BY <1>1, <1>3, <1>4, <2>2, <2>3
<1>6. CASE kind = "repeated"
  <2>1. b = [whole EXCEPT !.entries = InsertAt(@, i, whole.entries[i])]
    BY <1>6 DEF Damaged
  <2>2. b.entries = InsertAt(t, i, t[i]) /\ b.entryCount = whole.entryCount
    BY <1>2, <2>1 DEF MadeFields
  <2>3. Len(b.entries) = Len(t) + 1
    BY <1>1, <1>4, <2>2, RepeatedIsLonger
  <2> QED
    BY <1>1, <1>3, <1>4, <2>2, <2>3
<1>7. CASE kind = "moved"
  <2>1. b = [whole EXCEPT !.entries = Append(RemoveAt(@, i), whole.entries[i])]
    BY <1>7 DEF Damaged
  <2>2. b.entries = Append(RemoveAt(t, i), t[i])
    BY <1>2, <2>1 DEF MadeFields
  <2>3. b.entries \in Seq(ArchiveRow) /\ \A X : HowMany(b.entries, X) = HowMany(t, X)
    <3> DEFINE moved == b.entries
    <3>1. moved = Moved(t, i) /\ t \in Seq(ArchiveRow) /\ i \in DOMAIN t
      BY <1>1, <1>4, <2>2 DEF Moved
    <3> HIDE DEF moved, t
    <3>2. moved \in Seq(ArchiveRow) /\ \A X : HowMany(moved, X) = HowMany(t, X)
      BY <3>1, MovedHasAsMany
    <3> QED
      BY <3>2 DEF moved
  <2> QED
    BY <1>1, <2>3
<1>8. CASE kind = "spoiled"
  <2>1. b = [whole EXCEPT !.entries[i].record = Spoiled]
    BY <1>8 DEF Damaged
  <2>2. b.entries = [t EXCEPT ![i].record = Spoiled]
    BY <1>2, <2>1 DEF MadeFields
  <2>3. DOMAIN b.entries = DOMAIN t /\ b.entries[i] = [t[i] EXCEPT !.record = Spoiled]
    BY <1>1, <1>4, <2>2
  <2>4. b.entries[i].record = Spoiled
    BY <1>4, <2>3 DEF ArchiveRow
  <2> QED
    BY <1>3, <1>4, <2>3, <2>4 DEF ToSet, RowDecodes
<1>9. CASE kind = "claimed"
  <2>1. b = [whole EXCEPT !.sequenceIntegrityVerified = ~@]
    BY <1>9 DEF Damaged
  <2>2. b.entries = t /\ b.sequenceIntegrityVerified = ~whole.sequenceIntegrityVerified
    BY <1>2, <2>1 DEF MadeFields
  <2>3. IntegrityVerified(t) <=> IntegrityVerified(s)
    BY <1>1, ClaimIs
  <2>4. IntegrityVerified(t) \in BOOLEAN /\ IntegrityVerified(s) \in BOOLEAN
    BY DEF IntegrityVerified
  <2> QED
    BY <1>1, <1>3, <2>2, <2>3, <2>4
<1>10. CASE kind = "aged"
  <2>1. b = [whole EXCEPT !.version = "0"]
    BY <1>10 DEF Damaged
  <2>2. b.version = "0"
    BY <1>2, <2>1 DEF MadeFields
  <2> QED
    BY <1>3, <2>2 DEF ARCHIVE_VERSION
<1>11. CASE kind = "lost"
  <2>1. b = NoBundle
    BY <1>11 DEF Damaged
  <2> QED
    BY <1>3, <2>1 DEF NoBundle
<1> QED
  BY <1>5, <1>6, <1>7, <1>8, <1>9, <1>10, <1>11 DEF Kinds

(* A row of a bundle was given, or does not decode, or was edited.         *)
Odd(e) == e.record = Spoiled \/ e.at = MaxClock + 1

LEMMA DamagedHoldsGiven ==
    ASSUME NEW s \in Seq(ArchiveRow), NEW now, NEW whole, whole = archiveAuditTrail(s, now),
           NEW kind \in Kinds, NEW i \in DOMAIN whole.entries,
           NEW b, b = Damaged(kind, whole, i), NEW k \in DOMAIN b.entries
    PROVE  Odd(b.entries[k]) \/ \E j \in DOMAIN s : b.entries[k] = s[j]
<1> DEFINE t == whole.entries
<1>1. /\ t \in Seq(ArchiveRow)
      /\ \A l \in DOMAIN t : \E j \in DOMAIN s : t[l] = s[j]
  BY MadeIs
<1>2. DOMAIN whole = MadeFields
  BY DEF archiveAuditTrail, MadeFields
<1>3. i \in DOMAIN t /\ t[i] \in ArchiveRow
  BY <1>1
<1>4. CASE kind = "dropped"
  <2>1. b = [whole EXCEPT !.entries = RemoveAt(@, i)]
    BY <1>4 DEF Damaged
  <2>2. b.entries = RemoveAt(t, i)
    BY <1>2, <2>1 DEF MadeFields
  <2>3. \E l \in DOMAIN t : b.entries[k] = t[l]
    BY <1>1, <1>3, <2>2, DroppedIsShorter
  <2> QED
    BY <1>1, <2>3
<1>5. CASE kind = "repeated"
  <2>1. b = [whole EXCEPT !.entries = InsertAt(@, i, whole.entries[i])]
    BY <1>5 DEF Damaged
  <2>2. b.entries = InsertAt(t, i, t[i])
    BY <1>2, <2>1 DEF MadeFields
  <2>3. \E l \in DOMAIN t : b.entries[k] = t[l]
    BY <1>1, <1>3, <2>2, RepeatedIsLonger
  <2> QED
    BY <1>1, <2>3
<1>6. CASE kind = "moved"
  <2>1. b = [whole EXCEPT !.entries = Append(RemoveAt(@, i), whole.entries[i])]
    BY <1>6 DEF Damaged
  <2>2. b.entries = Append(RemoveAt(t, i), t[i])
    BY <1>2, <2>1 DEF MadeFields
  <2>3. b.entries \in Seq(ArchiveRow) /\ HowMany(b.entries, {b.entries[k]}) = HowMany(t, {b.entries[k]})
    <3> DEFINE moved == b.entries
    <3>1. moved = Moved(t, i) /\ t \in Seq(ArchiveRow) /\ i \in DOMAIN t
      BY <1>1, <1>3, <2>2 DEF Moved
    <3> HIDE DEF moved, t
    <3>2. moved \in Seq(ArchiveRow) /\ \A X : HowMany(moved, X) = HowMany(t, X)
      BY <3>1, MovedHasAsMany
    <3> QED
      BY <3>2 DEF moved
  <2>4. b.entries[k] \in ToSet(b.entries)
    BY DEF ToSet
  <2>5. b.entries[k] \in ToSet(t)
    BY <1>1, <2>3, <2>4, HeldIsCounted
  <2> QED
    BY <1>1, <2>5 DEF ToSet
<1>7. CASE kind = "spoiled"
  <2>1. b = [whole EXCEPT !.entries[i].record = Spoiled]
    BY <1>7 DEF Damaged
  <2>2. b.entries = [t EXCEPT ![i].record = Spoiled]
    BY <1>2, <2>1 DEF MadeFields
  <2>3. b.entries[i] = [t[i] EXCEPT !.record = Spoiled] /\ k \in DOMAIN t
        /\ (k # i => b.entries[k] = t[k])
    BY <1>1, <1>3, <2>2
  <2>4. b.entries[i].record = Spoiled
    BY <1>3, <2>3 DEF ArchiveRow
  <2>5. k = i => Odd(b.entries[k])
    BY <2>4 DEF Odd
  <2>6. k # i => \E j \in DOMAIN s : b.entries[k] = s[j]
    BY <1>1, <2>3
  <2> QED
    BY <2>5, <2>6
<1>8. CASE kind = "edited"
  <2>1. b = [whole EXCEPT !.entries[i].at = MaxClock + 1]
    BY <1>8 DEF Damaged
  <2>2. b.entries = [t EXCEPT ![i].at = MaxClock + 1]
    BY <1>2, <2>1 DEF MadeFields
  <2>3. b.entries[i] = [t[i] EXCEPT !.at = MaxClock + 1] /\ k \in DOMAIN t
        /\ (k # i => b.entries[k] = t[k])
    BY <1>1, <1>3, <2>2
  <2>4. b.entries[i].at = MaxClock + 1
    BY <1>3, <2>3 DEF ArchiveRow
  <2>5. k = i => Odd(b.entries[k])
    BY <2>4 DEF Odd
  <2>6. k # i => \E j \in DOMAIN s : b.entries[k] = s[j]
    BY <1>1, <2>3
  <2> QED
    BY <2>5, <2>6
<1>9. CASE kind = "claimed"
  <2>1. b = [whole EXCEPT !.sequenceIntegrityVerified = ~@]
    BY <1>9 DEF Damaged
  <2>2. b.entries = t
    BY <1>2, <2>1 DEF MadeFields
  <2> QED
    BY <1>1, <2>2
<1>10. CASE kind = "aged"
  <2>1. b = [whole EXCEPT !.version = "0"]
    BY <1>10 DEF Damaged
  <2>2. b.entries = t
    BY <1>2, <2>1 DEF MadeFields
  <2> QED
    BY <1>1, <2>2
<1>11. CASE kind = "lost"
  <2>1. b.entries = <<>>
    BY <1>11 DEF Damaged, NoBundle
  <2> QED
    BY <2>1
<1> QED
  BY <1>4, <1>5, <1>6, <1>7, <1>8, <1>9, <1>10, <1>11 DEF Kinds

-----------------------------------------------------------------------------
(* The invariant: what the store keeps are rows as it takes them in; a     *)
(* bundle is what was made of rows without a break, or that damaged once;  *)
(* and what was read back is given, or odd, and no row kept is odd.        *)
TrailRow == {r \in ArchiveRow : r.record = 1 /\ r.at \in -1 .. MaxClock}

RowsAreKept ==
    /\ clock \in 0 .. MaxClock
    /\ trail \in Seq(TrailRow) /\ written \in Seq(TrailRow)
    /\ bundled \in Seq(TrailRow) /\ purged \in Seq(TrailRow)

BundleIsMade ==
    \/ bundle = NoBundle
    \/ /\ firstSequenceBreak(bundled) = {}
       /\ \A i \in DOMAIN bundled : bundled[i] \in archived
       /\ \E now, whole :
              /\ whole = archiveAuditTrail(bundled, now)
              /\ \/ damage = "none" /\ bundle = whole
                 \/ /\ damage \in Kinds
                    /\ \E i \in DOMAIN whole.entries : bundle = Damaged(damage, whole, i)

VerifiedIsGiven ==
    \A k \in DOMAIN verified.entries :
        Odd(verified.entries[k]) \/ verified.entries[k] \in archived

RowsAreCounted == \A X : HowMany(trail, X) + HowMany(purged, X) = HowMany(written, X)

PurgedWasGiven ==
    \A k \in DOMAIN purged : purged[k].at \in 0 .. clock - 1 /\ purged[k] \in archived

ArchiveInv ==
    RowsAreKept /\ BundleIsMade /\ VerifiedIsGiven /\ RowsAreCounted /\ PurgedWasGiven

LEMMA KeptAreRows ==
    /\ TrailRow \subseteq ArchiveRow
    /\ \A s : s \in Seq(TrailRow) => s \in Seq(ArchiveRow)
    /\ \A r \in TrailRow : ~Odd(r) /\ r.record # Spoiled /\ r.at \in Int
<1>1. TrailRow \subseteq ArchiveRow
  BY DEF TrailRow
<1>2. \A r \in TrailRow : ~Odd(r) /\ r.record # Spoiled /\ r.at \in Int
  BY ArchiveAssumption DEF TrailRow, Odd, Spoiled
<1>3. \A s : s \in Seq(TrailRow) => s \in Seq(ArchiveRow)
  BY <1>1
<1> QED
  BY <1>1, <1>2, <1>3

LEMMA ArchiveStarts == ArchiveInit => ArchiveInv
<1> SUFFICES ASSUME ArchiveInit PROVE ArchiveInv
  OBVIOUS
<1>1. RowsAreKept
  BY ArchiveAssumption DEF ArchiveInit, RowsAreKept
<1>2. BundleIsMade /\ VerifiedIsGiven /\ PurgedWasGiven
  BY DEF ArchiveInit, BundleIsMade, VerifiedIsGiven, PurgedWasGiven, NoArchive
<1>3. RowsAreCounted
  <2> SUFFICES ASSUME NEW X PROVE HowMany(trail, X) + HowMany(purged, X) = HowMany(written, X)
    BY DEF RowsAreCounted
  <2> DEFINE none == {i \in DOMAIN <<>> : <<>>[i] \in X}
  <2>1. none = {}
    OBVIOUS
  <2>2. HowMany(trail, X) = Cardinality(none) /\ HowMany(purged, X) = Cardinality(none)
        /\ HowMany(written, X) = Cardinality(none)
    BY DEF ArchiveInit, HowMany
  <2> HIDE DEF none
  <2>3. Cardinality(none) = 0
    BY <2>1, FS_EmptySet
  <2> QED
    BY <2>2, <2>3
<1> QED
  BY <1>1, <1>2, <1>3 DEF ArchiveInv

(* A purge deletes only rows that were given to be archived.               *)
LEMMA PurgedAreGiven ==
    ASSUME ArchiveInv, NEW maxAgeMs, NEW now \in {clock, NotFinite}, Purge(maxAgeMs, now),
           maxAgeMs \in Int
    PROVE  ArchiveInv'
<1> DEFINE plan == planPurge(trail, maxAgeMs, now, verified)
           gone == Purgeable(trail, maxAgeMs, now, verified)
<1>1. /\ verified # NoArchive /\ ~RetentionInputInvalid(maxAgeMs, now)
      /\ trail' = plan.retain /\ purged' = purged \o plan.purge
      /\ UNCHANGED <<clock, written, bundle, bundled, archived, damage, verified>>
  BY DEF Purge
<1>2. RowsAreKept /\ BundleIsMade /\ VerifiedIsGiven /\ RowsAreCounted /\ PurgedWasGiven
  BY DEF ArchiveInv
<1>3. now = clock /\ maxAgeMs >= 0 /\ clock \in Nat
  BY <1>1, <1>2, ArchiveAssumption DEF RetentionInputInvalid, NotFinite, RowsAreKept
<1>4. /\ plan.purge \in Seq(TrailRow) /\ plan.retain \in Seq(TrailRow)
      /\ \A X : HowMany(plan.purge, X) + HowMany(plan.retain, X) = HowMany(trail, X)
      /\ \A k \in DOMAIN plan.purge : \E i \in gone : plan.purge[k] = trail[i]
  <2>1. trail \in Seq(TrailRow) /\ plan = planPurge(trail, maxAgeMs, now, verified)
        /\ gone = Purgeable(trail, maxAgeMs, now, verified)
    BY <1>2 DEF RowsAreKept
  <2> HIDE DEF plan, gone
  <2> QED
    BY <2>1, PurgeParts
<1>5. \A i \in gone : trail[i].at \in 0 .. clock - 1 /\ trail[i] \in archived
  <2> TAKE i \in gone
  <2>1. /\ i \in DOMAIN trail /\ IsExpired(trail[i], maxAgeMs, now)
        /\ Cardinality({j \in 1 .. i - 1 : trail[j] = trail[i]}) < copies(verified, trail[i])
    BY DEF Purgeable
  <2>2. trail[i] \in TrailRow
    BY <1>2, <2>1 DEF RowsAreKept
  <2>3. trail[i].at \in -1 .. MaxClock /\ trail[i].at # -1 /\ clock - trail[i].at > maxAgeMs
    BY <1>3, <2>1, <2>2 DEF IsExpired, NotFinite, TrailRow
  <2>4. trail[i].at \in 0 .. clock - 1
    <3> DEFINE at == trail[i].at
    <3>1. at \in -1 .. MaxClock /\ at # -1 /\ clock - at > maxAgeMs
      BY <2>3
    <3> HIDE DEF at
    <3>2. at \in 0 .. clock - 1
      BY <1>3, <3>1, ArchiveAssumption
    <3> QED
      BY <3>2 DEF at
  <2>5. copies(verified, trail[i]) # 0
    <3> DEFINE A == {j \in 1 .. i - 1 : trail[j] = trail[i]}
    <3>1. A \subseteq DOMAIN trail /\ trail \in Seq(TrailRow)
      BY <1>2, <2>1 DEF RowsAreKept
    <3>2. Cardinality(A) < copies(verified, trail[i])
      BY <2>1
    <3> HIDE DEF A
    <3>3. Cardinality(A) \in Nat
      BY <3>1, PlacesAreFinite
    <3> QED
      BY <3>2, <3>3
  <2>6. \E k \in DOMAIN verified.entries : verified.entries[k] = trail[i]
    <3> SUFFICES ASSUME \A k \in DOMAIN verified.entries : verified.entries[k] # trail[i]
                 PROVE  FALSE
      OBVIOUS
    <3> DEFINE C == {k \in DOMAIN verified.entries : verified.entries[k] = trail[i]}
    <3>1. C = {}
      OBVIOUS
    <3>2. copies(verified, trail[i]) = Cardinality(C)
      BY DEF copies, CountOf
    <3> HIDE DEF C
    <3> QED
      BY <2>5, <3>1, <3>2, FS_EmptySet
  <2>7. trail[i] \in archived
    BY <1>2, <2>2, <2>6, KeptAreRows DEF VerifiedIsGiven
  <2> QED
    BY <2>4, <2>7
<1> HIDE DEF plan, gone
<1>6. RowsAreKept'
  BY <1>1, <1>2, <1>4, JoinedIs DEF RowsAreKept
<1>7. BundleIsMade' /\ VerifiedIsGiven'
  BY <1>1, <1>2 DEF BundleIsMade, VerifiedIsGiven
<1>8. RowsAreCounted'
  <2> SUFFICES ASSUME NEW X
               PROVE  HowMany(trail', X) + HowMany(purged', X) = HowMany(written', X)
    BY DEF RowsAreCounted
  <2>1. HowMany(purged', X) = HowMany(purged, X) + HowMany(plan.purge, X)
    BY <1>1, <1>2, <1>4, JoinedHasBoth DEF RowsAreKept
  <2>2. /\ HowMany(purged, X) \in Nat /\ HowMany(plan.purge, X) \in Nat
        /\ HowMany(plan.retain, X) \in Nat /\ HowMany(trail, X) \in Nat
    BY <1>2, <1>4, HowManyIs DEF RowsAreKept
  <2>3. /\ HowMany(plan.purge, X) + HowMany(plan.retain, X) = HowMany(trail, X)
        /\ HowMany(trail, X) + HowMany(purged, X) = HowMany(written, X)
    BY <1>2, <1>4 DEF RowsAreCounted
  <2>4. HowMany(trail', X) = HowMany(plan.retain, X) /\ HowMany(written', X) = HowMany(written, X)
    BY <1>1
  <2> QED
    BY <2>1, <2>2, <2>3, <2>4
<1>9. PurgedWasGiven'
  <2> DEFINE p == plan.purge
             Given(r) == r.at \in 0 .. clock - 1 /\ r \in archived
  <2>1. \A k \in DOMAIN purged : Given(purged[k])
    BY <1>2 DEF PurgedWasGiven
  <2>2. \A k \in DOMAIN p : Given(p[k])
    BY <1>4, <1>5
  <2>3. purged \in Seq(TrailRow) /\ p \in Seq(TrailRow) /\ purged' = purged \o p
    BY <1>1, <1>2, <1>4 DEF RowsAreKept
  <2> HIDE DEF p, Given
  <2>4. \A k \in DOMAIN purged' : Given(purged'[k])
    <3> DEFINE G == {r \in TrailRow : Given(r)}
    <3>1. purged \in Seq(G) /\ p \in Seq(G)
      BY <2>1, <2>2, <2>3
    <3>2. \A r \in G : Given(r)
      OBVIOUS
    <3> HIDE DEF G
    <3>3. purged' \in Seq(G)
      BY <2>3, <3>1, JoinedIs
    <3> QED
      BY <3>2, <3>3
  <2> QED
    BY <1>1, <2>4 DEF PurgedWasGiven, Given
<1> QED
  BY <1>6, <1>7, <1>8, <1>9 DEF ArchiveInv

LEMMA ArchiveSteps == ArchiveInv /\ [ArchiveNext]_archiveVars => ArchiveInv'
<1> SUFFICES ASSUME ArchiveInv, [ArchiveNext]_archiveVars PROVE ArchiveInv'
  OBVIOUS
<1>0. RowsAreKept /\ BundleIsMade /\ VerifiedIsGiven /\ RowsAreCounted /\ PurgedWasGiven
  BY DEF ArchiveInv
<1>1. CASE ClockAdvances
  <2>1. /\ clock < MaxClock /\ clock' = clock + 1
        /\ UNCHANGED <<trail, written, bundle, bundled, archived, damage, verified, purged>>
    BY <1>1 DEF ClockAdvances
  <2>2. RowsAreKept' /\ VerifiedIsGiven' /\ RowsAreCounted'
    BY <1>0, <2>1, ArchiveAssumption DEF RowsAreKept, VerifiedIsGiven, RowsAreCounted
  <2>3. BundleIsMade'
    BY <1>0, <2>1 DEF BundleIsMade
  <2>4. PurgedWasGiven'
    <3>1. clock \in Int /\ clock' = clock + 1 /\ purged' = purged /\ archived' = archived
      BY <1>0, <2>1, ArchiveAssumption DEF RowsAreKept
    <3>2. \A at \in 0 .. clock - 1 : at \in 0 .. clock' - 1
      BY <3>1
    <3>3. \A k \in DOMAIN purged : purged[k].at \in 0 .. clock' - 1 /\ purged[k] \in archived
      BY <1>0, <3>2 DEF PurgedWasGiven
    <3> QED
      BY <3>1, <3>3 DEF PurgedWasGiven
  <2> QED
    BY <2>2, <2>3, <2>4 DEF ArchiveInv
<1>2. CASE Archive
  <2>1. /\ firstSequenceBreak(trail) = {}
        /\ bundle' = archiveAuditTrail(trail, clock)
        /\ bundled' = trail /\ archived' = archived \cup ToSet(trail) /\ damage' = "none"
        /\ UNCHANGED <<clock, trail, written, verified, purged>>
    BY <1>2 DEF Archive
  <2>2. RowsAreKept' /\ VerifiedIsGiven' /\ RowsAreCounted'
    BY <1>0, <2>1 DEF RowsAreKept, VerifiedIsGiven, RowsAreCounted
  <2>3. BundleIsMade'
    BY <2>1 DEF BundleIsMade, ToSet
  <2>4. PurgedWasGiven'
    BY <1>0, <2>1 DEF PurgedWasGiven
  <2> QED
    BY <2>2, <2>3, <2>4 DEF ArchiveInv
<1>3. CASE ReadBack
  <2>1. /\ readAuditArchive(bundle) = "none" /\ verified' = VerifiedArchive(bundle)
        /\ UNCHANGED <<clock, trail, written, bundle, bundled, archived, damage, purged>>
    BY <1>3 DEF ReadBack
  <2>2. RowsAreKept' /\ RowsAreCounted' /\ PurgedWasGiven'
    BY <1>0, <2>1 DEF RowsAreKept, RowsAreCounted, PurgedWasGiven
  <2>3. BundleIsMade'
    BY <1>0, <2>1 DEF BundleIsMade
  <2>4. verified'.entries = bundle.entries
    BY <2>1 DEF VerifiedArchive
  <2>5. bundle # NoBundle
    BY <2>1, ReadsWhole DEF NoBundle
  <2>6. PICK now, whole :
            /\ whole = archiveAuditTrail(bundled, now)
            /\ \/ damage = "none" /\ bundle = whole
               \/ /\ damage \in Kinds
                  /\ \E i \in DOMAIN whole.entries : bundle = Damaged(damage, whole, i)
    BY <1>0, <2>5 DEF BundleIsMade
  <2>7. bundled \in Seq(ArchiveRow) /\ \A i \in DOMAIN bundled : bundled[i] \in archived
    BY <1>0, <2>5, KeptAreRows DEF BundleIsMade, RowsAreKept
  <2>8. ASSUME NEW k \in DOMAIN bundle.entries
        PROVE  Odd(bundle.entries[k]) \/ bundle.entries[k] \in archived
    <3>1. CASE bundle = whole
      <4>1. \E j \in DOMAIN bundled : bundle.entries[k] = bundled[j]
        BY <2>6, <2>7, <3>1, MadeIs
      <4> QED
        BY <2>7, <4>1
    <3>2. ASSUME damage \in Kinds, NEW i \in DOMAIN whole.entries,
                 bundle = Damaged(damage, whole, i)
          PROVE  Odd(bundle.entries[k]) \/ bundle.entries[k] \in archived
      <4>1. Odd(bundle.entries[k]) \/ \E j \in DOMAIN bundled : bundle.entries[k] = bundled[j]
        BY <2>6, <2>7, <3>2, DamagedHoldsGiven
      <4> QED
        BY <2>7, <4>1
    <3> QED
      BY <2>6, <3>1, <3>2
  <2>9. VerifiedIsGiven'
    BY <2>1, <2>4, <2>8 DEF VerifiedIsGiven
  <2> QED
    BY <2>2, <2>3, <2>9 DEF ArchiveInv
<1>4. ASSUME NEW at \in {clock, NotFinite}, NEW number \in 0 .. MaxNumber,
             TakeIn(AuditRow(1, at, number))
      PROVE  ArchiveInv'
  <2> DEFINE r == AuditRow(1, at, number)
  <2>1. /\ trail' = Append(trail, r) /\ written' = Append(written, r)
        /\ UNCHANGED <<clock, bundle, bundled, archived, damage, verified, purged>>
    BY <1>4 DEF TakeIn
  <2>2. r \in TrailRow
    <3>1. at \in -1 .. MaxClock /\ at \in -1 .. MaxClock + 1
      BY <1>0, ArchiveAssumption DEF RowsAreKept, NotFinite
    <3> QED
      BY <3>1 DEF AuditRow, TrailRow, ArchiveRow
  <2> HIDE DEF r
  <2>3. RowsAreKept'
    BY <1>0, <2>1, <2>2 DEF RowsAreKept
  <2>4. BundleIsMade' /\ VerifiedIsGiven' /\ PurgedWasGiven'
    BY <1>0, <2>1 DEF BundleIsMade, VerifiedIsGiven, PurgedWasGiven
  <2>5. RowsAreCounted'
    <3> SUFFICES ASSUME NEW X
                 PROVE  HowMany(trail', X) + HowMany(purged', X) = HowMany(written', X)
      BY DEF RowsAreCounted
    <3>1. /\ HowMany(trail', X) = HowMany(trail, X) + HowMany(<<r>>, X)
          /\ HowMany(written', X) = HowMany(written, X) + HowMany(<<r>>, X)
      BY <1>0, <2>1, <2>2, AppendedHasOneMore DEF RowsAreKept
    <3>2. <<r>> \in Seq(TrailRow)
      BY <2>2
    <3> DEFINE one == <<r>>
    <3> HIDE DEF one
    <3>3. HowMany(one, X) \in Nat
      BY <3>2, HowManyIs DEF one
    <3>4. HowMany(trail, X) \in Nat /\ HowMany(written, X) \in Nat /\ HowMany(purged, X) \in Nat
      BY <1>0, HowManyIs DEF RowsAreKept
    <3>5. HowMany(trail, X) + HowMany(purged, X) = HowMany(written, X) /\ purged' = purged
      BY <1>0, <2>1 DEF RowsAreCounted
    <3>6. /\ HowMany(trail', X) = HowMany(trail, X) + HowMany(one, X)
          /\ HowMany(written', X) = HowMany(written, X) + HowMany(one, X)
      BY <3>1 DEF one
    <3> QED
      BY <3>3, <3>4, <3>5, <3>6
  <2> QED
    BY <2>3, <2>4, <2>5 DEF ArchiveInv
<1>5. ASSUME NEW kind \in Kinds, NEW i \in DOMAIN bundle.entries, Damage(kind, i)
      PROVE  ArchiveInv'
  <2>1. /\ bundle # NoBundle /\ damage = "none"
        /\ bundle' = Damaged(kind, bundle, i) /\ damage' = kind
        /\ UNCHANGED <<clock, trail, written, bundled, archived, verified, purged>>
    BY <1>5 DEF Damage
  <2>2. RowsAreKept' /\ VerifiedIsGiven' /\ RowsAreCounted' /\ PurgedWasGiven'
    BY <1>0, <2>1 DEF RowsAreKept, VerifiedIsGiven, RowsAreCounted, PurgedWasGiven
  <2>3. PICK now, whole :
            /\ whole = archiveAuditTrail(bundled, now)
            /\ \/ damage = "none" /\ bundle = whole
               \/ damage \in Kinds
    BY <1>0, <2>1 DEF BundleIsMade
  <2>4. bundle = archiveAuditTrail(bundled, now)
    BY <2>1, <2>3 DEF Kinds
  <2>5. BundleIsMade'
    BY <1>0, <2>1, <2>4 DEF BundleIsMade
  <2> QED
    BY <2>2, <2>5 DEF ArchiveInv
<1>6. ASSUME NEW maxAgeMs \in Ages, NEW now \in {clock, NotFinite}, Purge(maxAgeMs, now)
      PROVE  ArchiveInv'
  BY <1>6, PurgedAreGiven, ArchiveAssumption
<1>7. CASE UNCHANGED archiveVars
  <2>1. UNCHANGED <<clock, trail, written, bundle, bundled, archived, damage, verified, purged>>
    BY <1>7 DEF archiveVars
  <2>2. RowsAreKept' /\ VerifiedIsGiven' /\ RowsAreCounted' /\ PurgedWasGiven'
    BY <1>0, <2>1 DEF RowsAreKept, VerifiedIsGiven, RowsAreCounted, PurgedWasGiven
  <2>3. BundleIsMade'
    BY <1>0, <2>1 DEF BundleIsMade
  <2> QED
    BY <2>2, <2>3 DEF ArchiveInv
<1> QED
  BY <1>1, <1>2, <1>3, <1>4, <1>5, <1>6, <1>7 DEF ArchiveNext

LEMMA ArchiveInvKeepsTheTrail == ArchiveInv => NothingIsLost
<1> SUFFICES ASSUME ArchiveInv PROVE NothingIsLost
  OBVIOUS
<1>0. RowsAreKept /\ BundleIsMade /\ RowsAreCounted /\ PurgedWasGiven
  BY DEF ArchiveInv
<1>1. bundled \in Seq(ArchiveRow) /\ trail \in Seq(TrailRow) /\ purged \in Seq(TrailRow) /\ written \in Seq(TrailRow)
  BY <1>0, KeptAreRows DEF RowsAreKept
<1>2. ASSUME bundle # NoBundle, damage = "none"
      PROVE  readAuditArchive(bundle) = "none" <=> \A row \in ToSet(bundled) : RowDecodes(row)
  <2>1. firstSequenceBreak(bundled) = {} /\ \E now : bundle = archiveAuditTrail(bundled, now)
    BY <1>0, <1>2 DEF BundleIsMade, Kinds
  <2> QED
    BY <1>1, <2>1, MadeReadsBack
<1>3. ASSUME readAuditArchive(bundle) = "none", damage # "edited"
      PROVE  ToBag(bundle.entries) = ToBag(bundled)
  <2>1. bundle # NoBundle
    BY <1>3, ReadsWhole DEF NoBundle
  <2>2. PICK now, whole :
            /\ whole = archiveAuditTrail(bundled, now)
            /\ \/ damage = "none" /\ bundle = whole
               \/ /\ damage \in Kinds
                  /\ \E i \in DOMAIN whole.entries : bundle = Damaged(damage, whole, i)
    BY <1>0, <2>1 DEF BundleIsMade
  <2>3. bundle.entries \in Seq(ArchiveRow) /\ \A X : HowMany(bundle.entries, X) = HowMany(bundled, X)
    <3>1. CASE bundle = whole
      BY <1>1, <2>2, <3>1, MadeIs
    <3>2. ASSUME damage \in Kinds, NEW i \in DOMAIN whole.entries,
                 bundle = Damaged(damage, whole, i)
          PROVE  bundle.entries \in Seq(ArchiveRow)
                 /\ \A X : HowMany(bundle.entries, X) = HowMany(bundled, X)
      BY <1>1, <1>3, <2>2, <3>2, DamagedIsRefused
    <3> QED
      BY <2>2, <3>1, <3>2
  <2> QED
    BY <1>1, <2>3, SameCountsSameBag
<1>4. ToBag(trail) (+) ToBag(purged) = ToBag(written)
  BY <1>0, <1>1, AddedCountsAddBags DEF RowsAreCounted
<1>5. \A row \in ToSet(purged) : row.at \in 0 .. clock - 1 /\ row \in archived
  BY <1>0 DEF PurgedWasGiven, ToSet
<1> QED
  BY <1>2, <1>3, <1>4, <1>5 DEF NothingIsLost

(* A bundle not damaged reads back if each of its rows has a date, one that reads back holds all it was   *)
(* given unless a row was edited in place, every row written is in the     *)
(* trail or was purged, and what was purged was due and had been given to  *)
(* be archived: for any number of rows, clock, numbers and limits.         *)
(* (AuditArchive.ts:110-134, 296-338, Retention.ts:129-162)                *)
THEOREM TrailIsKept == ArchiveSpec => []NothingIsLost
<1>1. ArchiveInit => ArchiveInv
  BY ArchiveStarts
<1>2. ArchiveInv /\ [ArchiveNext]_archiveVars => ArchiveInv'
  BY ArchiveSteps
<1>3. ArchiveInv => NothingIsLost
  BY ArchiveInvKeepsTheTrail
<1> QED
  BY <1>1, <1>2, <1>3, PTL DEF ArchiveSpec

=============================================================================
