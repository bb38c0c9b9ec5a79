----------------------------- MODULE AuditSink -----------------------------
(***************************************************************************)
(* record() of AuditDecisionSinkLive in @qadi/audit: encode a decision,    *)
(* ask the breaker for a permit, stage the entry, write it to the trail,   *)
(* commit the staged copy, and report one outcome.                         *)
(*                                                                         *)
(* The trail and the staging store are the caller's ports.  What a call to *)
(* one does and what it answers are two steps, so that a call may fail or  *)
(* be interrupted with its work already done.                              *)
(***************************************************************************)
EXTENDS CircuitBreaker

VARIABLES
    stagingWired,          \* was an AuditStagingPort provided when the layer was built?
    rows                   \* what became of the record each fiber is handing in

vars == <<breaker, calls, stagingWired, rows>>

(* How far record() got: admission (not staged yet), the stage call, the   *)
(* attempt, the commit, and reported once its outcome is emitted.          *)
Step == {"none", "admitting", "staging", "staged", "attempting", "written", "unwritten",
         "committing", "reported"}
Staging == {"unknown", "NotWired", "Staged", "StageFailed", "Committed", "CommitFailed"}
Outcome == {"none", "Refused", "Written", "WriteFailed", "Skipped"}

Row == [step : Step,
        staging : Staging,                      \* StageResult, then WrittenStaging
        copy : {"none", "staged", "committed"}, \* the staging store's copy
        inTrail : BOOLEAN,                      \* the trail's row
        outcome : Outcome]                      \* the AuditWriteOutcome emitted

Fresh(step, outcome) ==
    [step |-> step, staging |-> "unknown", copy |-> "none", inTrail |-> FALSE,
     outcome |-> outcome]

Init ==
    /\ BreakerInit
    /\ stagingWired \in BOOLEAN
    /\ rows = [c \in Calls |-> Fresh("none", "none")]

At(c, step) == calls[c].pc = "using" /\ rows[c].step = step

Staged(c, how) == rows' = [rows EXCEPT ![c] = [@ EXCEPT !.step = "staged", !.staging = how]]

Report(c, outcome, staging) ==
    rows' = [rows EXCEPT ![c] =
                [@ EXCEPT !.step = "reported", !.outcome = outcome, !.staging = staging]]

----------------------------------------------------------------------------
(* Encode, and enter withPermit.                                           *)

RefuseToEncode(c) ==
    /\ calls[c].pc = "idle"
    /\ rows' = [rows EXCEPT ![c] = Fresh("reported", "Refused")]
    /\ UNCHANGED breakerVars

Receive(c) ==
    /\ calls[c].pc = "idle"
    /\ ReadClock(c)
    /\ rows' = [rows EXCEPT ![c] = Fresh("admitting", "none")]

BreakerRuns(c) ==
    /\ calls[c].pc # "idle"
    /\ AdmitStep(c) \/ RecordStep(c)
    /\ UNCHANGED rows

----------------------------------------------------------------------------
(* stageEntry, whatever the permit.                                        *)

NoStaging(c) ==
    /\ ~stagingWired
    /\ At(c, "admitting")
    /\ Staged(c, "NotWired")
    /\ UNCHANGED breakerVars

CopyLands(c) ==
    /\ stagingWired
    /\ At(c, "admitting")
    /\ rows' = [rows EXCEPT ![c] = [@ EXCEPT !.step = "staging", !.copy = "staged"]]
    /\ UNCHANGED breakerVars

StageReturns(c) ==
    /\ At(c, "staging")
    /\ Staged(c, "Staged")
    /\ UNCHANGED breakerVars

StageFails(c) ==
    /\ stagingWired
    /\ At(c, "admitting") \/ At(c, "staging")
    /\ Staged(c, "StageFailed")
    /\ UNCHANGED breakerVars

----------------------------------------------------------------------------
(* attemptWrite: skip, or write under the permit.                          *)

Skip(c) ==
    /\ At(c, "staged")
    /\ ~Admitted(c)
    /\ Report(c, "Skipped", rows[c].staging)
    /\ UNCHANGED breakerVars

Write(c) ==
    /\ At(c, "staged")
    /\ Attempt(c)
    /\ rows' = [rows EXCEPT ![c].step = "attempting"]

RowLands(c) ==
    /\ calls[c].pc = "writing"
    /\ rows' = [rows EXCEPT ![c].inTrail = TRUE]
    /\ UNCHANGED breakerVars

WriteReturns(c, ok) ==
    /\ ok => rows[c].inTrail
    /\ WriteEnds(c, ok)
    /\ rows' = [rows EXCEPT ![c].step = IF ok THEN "written" ELSE "unwritten"]

WriteFailed(c) ==
    /\ At(c, "unwritten")
    /\ Report(c, "WriteFailed", rows[c].staging)
    /\ UNCHANGED breakerVars

----------------------------------------------------------------------------
(* writtenStaging: commit the staged copy, if there is one.                *)

Written(c) ==
    /\ At(c, "written")
    /\ rows[c].staging # "Staged"
    /\ Report(c, "Written", rows[c].staging)
    /\ UNCHANGED breakerVars

CommitLands(c) ==
    /\ At(c, "written")
    /\ rows[c].staging = "Staged"
    /\ rows' = [rows EXCEPT ![c] = [@ EXCEPT !.step = "committing", !.copy = "committed"]]
    /\ UNCHANGED breakerVars

CommitReturns(c) ==
    /\ At(c, "committing")
    /\ Report(c, "Written", "Committed")
    /\ UNCHANGED breakerVars

CommitFails(c) ==
    /\ At(c, "written") \/ At(c, "committing")
    /\ rows[c].staging = "Staged"
    /\ Report(c, "Written", "CommitFailed")
    /\ UNCHANGED breakerVars

----------------------------------------------------------------------------
(* The end of use, and of the record.  Nothing in it fails, so only the    *)
(* caller's interruption ends it otherwise, wherever it is.                *)

Over(c) == rows' = [rows EXCEPT ![c] = Fresh("none", "none")]

Finish(c) ==
    /\ At(c, "reported")
    /\ UseSucceeds(c)
    /\ Over(c)

Interrupt(c) == UseFails(c) /\ Over(c)

PortStep(c) ==
    \/ NoStaging(c) \/ CopyLands(c) \/ StageReturns(c) \/ StageFails(c)
    \/ RowLands(c)
    \/ \E ok \in BOOLEAN : WriteReturns(c, ok)
    \/ CommitLands(c) \/ CommitReturns(c) \/ CommitFails(c)

SinkStep(c) == Skip(c) \/ Write(c) \/ WriteFailed(c) \/ Written(c) \/ Finish(c)

(* status, read beside the records.                                        *)
ReadStatus(w) == AdmitStep(w) /\ UNCHANGED rows

Next ==
    /\ UNCHANGED stagingWired
    /\ \/ Tick /\ UNCHANGED rows
       \/ \E w \in Watchers : ReadStatus(w)
       \/ \E c \in Calls :
            \/ RefuseToEncode(c)
            \/ Receive(c)
            \/ BreakerRuns(c)
            \/ PortStep(c)
            \/ SinkStep(c)
            \/ Interrupt(c)

Spec == Init /\ [][Next]_vars

(* Where a staging port is provided.                                       *)
StagedInit == Init /\ stagingWired
StagedSpec == StagedInit /\ [][Next]_vars

(* No port is obliged to answer: only the breaker keeps running.           *)
FairSpec == Spec /\ BreakerFairness

----------------------------------------------------------------------------
TypeOK == BreakerTypeOK /\ stagingWired \in BOOLEAN /\ rows \in [Calls -> Row]

(* durabilityOf, of a record whose outcome is reported.                    *)
unwrittenDurability(staging) == IF staging = "Staged" THEN "StagingOnly" ELSE "Lost"

Durability(row) ==
    CASE row.outcome = "Refused" -> "Refused"
      [] row.outcome = "Written" -> "Trail"
      [] row.outcome \in {"WriteFailed", "Skipped"} -> unwrittenDurability(row.staging)

(* However a record() ends, interrupted included, it leaves what it says:  *)
(* where its outcome says the entry is, it is, in the trail, or staged and *)
(* left uncommitted for reconciliation; a skipped or refused record has no *)
(* row in the trail; a staged copy is given up only once the entry is in   *)
(* the trail; and a probe's claim is given back, for while one is held a   *)
(* record that is still running holds it.                                  *)
(* (AuditDecisionSinkLive.ts:138-160, AuditWriteOutcome.ts; "A half-open   *)
(* probe claim MUST be released on every exit path")                       *)
EndsAreAccounted ==
    /\ \A c \in Calls :
           /\ rows[c].outcome # "none" =>
                  /\ Durability(rows[c]) = "Trail" => rows[c].inTrail
                  /\ Durability(rows[c]) = "StagingOnly" => rows[c].copy = "staged"
                  /\ rows[c].outcome \in {"Refused", "Skipped"} => ~rows[c].inTrail
           /\ rows[c].copy = "committed" => rows[c].inTrail
    /\ breaker.tag = "HalfOpen" /\ breaker.probeClaimed =>
           \E c \in Calls : calls[c].permit = "probe" /\ Current(c) /\ calls[c].pc # "idle"

(* While the breaker is Open, record() never calls write - not even under  *)
(* concurrent records racing to trip or read it.  (INV-QD-052; not so      *)
(* where a record is staged between its permit and its write: see          *)
(* AuditDecisionSinkLive.ts:145-157)                                       *)
NoWriteWhileOpen ==
    [][\A c \in Calls :
         calls[c].pc # "writing" /\ calls'[c].pc = "writing" => breaker.tag # "Open"]_vars

=============================================================================
