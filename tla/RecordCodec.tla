----------------------------- MODULE RecordCodec -----------------------------
(***************************************************************************)
(* The wire of a sink's records: SinkCodec.ts, with the decision's own     *)
(* wire, and the two envelopes records are kept in, the log's and the      *)
(* audit trail's.  A record is encoded or refused, its bytes lie where     *)
(* others can write, and what is read there is decoded as untrusted.       *)
(*                                                                         *)
(* A record is a function on the keys any record has, one it lacks being   *)
(* Unset.  A policy, a trace and a resource are what the wire tells apart  *)
(* of them: how many nodes deep they are, how many levels their JSON nests *)
(* and the one value they hold that JSON has no plain form for, which is   *)
(* at the deepest of those levels.                                         *)
(***************************************************************************)
EXTENDS Naturals, Sequences

CONSTANTS Unset,       \* A key that is not there, or is undefined
          JsonNull,    \* JSON's null: no object, no text and no number
          WireDepth    \* MAX_DECODE_DEPTH, the levels a reader will follow

ASSUME WireAssumption == WireDepth \in Nat

VARIABLES record,   \* The record being kept
          way,      \* "bare" as forwarded, "stored" as streamed, "row" as audited
          text,     \* Is it kept as text, or as the value it was encoded to?
          bytes,    \* What is kept, or Unset
          result    \* What encoding or decoding last gave

codecVars == <<record, way, text, bytes, result>>

Pending == [tag |-> "Pending"]
SinkRecordNotEncodable(refusal) == [tag |-> "NotEncodable", refusal |-> refusal]
SinkRecordNotDecodable(refusal) == [tag |-> "NotDecodable", refusal |-> refusal]
ReadRecord(r) ==
    [tag |-> "Read", record |-> r, environment |-> Unset, entry |-> Unset]

Has(r, keys) == \A k \in keys : r[k] # Unset
HasOnly(r, keys) == \A k \in DOMAIN r \ keys : r[k] = Unset

-----------------------------------------------------------------------------
(* A decision is what its trace makes of its stamp; its wire says the same *)
(* again beside the trace.                                                 *)

reasonText(trace) == IF trace.reason = Unset THEN "denied" ELSE trace.reason

DecisionStamp(id, subject, duration) ==
    [id |-> id, subject |-> subject, duration |-> duration]

makeDecision(stamp, trace) ==
    LET granted(x) == IF trace.allowed THEN x ELSE Unset
    IN  [tag |-> IF trace.allowed THEN "Allow" ELSE "Deny",
         id |-> stamp.id, subject |-> stamp.subject, duration |-> stamp.duration,
         trace |-> trace, unknown |-> Unset,
         fields |-> granted(trace.fields), owed |-> granted(trace.owed),
         reason |-> IF trace.allowed THEN Unset ELSE reasonText(trace)]

encodeDecision(decision) ==
    IF decision.tag = "Deny" THEN [decision EXCEPT !.owed = {}] ELSE decision

DecisionIsWire(wire) ==
    LET common == {"tag", "id", "subject", "duration", "trace", "owed"}
        keys == common \cup IF wire.tag = "Deny" THEN {"reason"} ELSE {}
    IN  /\ wire.tag \in {"Allow", "Deny"}
        /\ Has(wire, keys)
        /\ HasOnly(wire, keys \cup IF wire.tag = "Allow" THEN {"fields"} ELSE {})

TraceIsWire(trace) ==
    Has(trace, {"tag", "allowed", "owed"}) /\ trace.unknown = Unset

(* The first of a wire's claims that its own trace root denies.            *)
decisionDisagreement(claim, trace) ==
    LET allow == claim.tag = "Allow"
    IN  CASE allow # trace.allowed -> "Verdict"
          [] allow /\ trace.allowed ->
                 IF claim.fields # trace.fields THEN "VisibleFields"
                 ELSE IF claim.owed # trace.owed THEN "Obligations" ELSE "none"
          [] ~allow /\ ~trace.allowed ->
                 IF claim.owed # {} THEN "DenyObligations"
                 ELSE IF claim.reason # reasonText(trace) THEN "Reason" ELSE "none"

decodeDecision(wire) ==
    makeDecision(DecisionStamp(wire.id, wire.subject, wire.duration), wire.trace)

-----------------------------------------------------------------------------
(* A trace is of its policy, node by node; a record is of the decision it  *)
(* keeps, or of the failure there was instead.                             *)

TraceOf(policy, allowed, reason, fields, owed) ==
    [tag |-> policy.tag, nodes |-> policy.nodes,
     levels |-> IF owed = {} THEN 2 * policy.nodes - 1 ELSE 2 * policy.nodes + 1,
     holds |-> "plain", unknown |-> Unset,
     allowed |-> allowed, reason |-> reason, fields |-> fields, owed |-> owed]

OutcomeOf(tag, decision, error, cause) ==
    [tag |-> tag, decision |-> decision, error |-> error, cause |-> cause,
     unknown |-> Unset]

DecidedAs(subject, duration, trace) ==
    OutcomeOf("Decided", makeDecision(DecisionStamp(1, subject, duration), trace),
              Unset, Unset)
FailedAs(error, cause) == OutcomeOf("Failed", Unset, error, cause)

DecisionRecordOf(subject, policy, resource, action, cache, outcome) ==
    [tag |-> "Decision", version |-> Unset, id |-> 1, at |-> "finite",
     subject |-> subject, policy |-> policy, resource |-> resource, action |-> action,
     cache |-> cache, outcome |-> outcome,
     ids |-> Unset, resourceId |-> Unset, unknown |-> Unset]

ObligationRecordOf(outcome, ids, subject, action, resourceId) ==
    [tag |-> "Obligations", version |-> Unset, id |-> 1, at |-> "finite",
     subject |-> subject, policy |-> Unset, resource |-> Unset, action |-> action,
     cache |-> Unset, outcome |-> OutcomeOf(outcome, Unset, Unset, Unset),
     ids |-> ids, resourceId |-> resourceId, unknown |-> Unset]

-----------------------------------------------------------------------------
(* Encoding: the projection, the schema's own encoding, and two walks for  *)
(* what would not come back, one before the schema recurses and one over   *)
(* what it made.                                                           *)

optionalInDecision == {"resource", "action", "cache"}
decisionV2Fields ==
    optionalInDecision \cup {"tag", "version", "id", "at", "subject", "policy", "outcome"}
optionalInObligations == {"subject", "action", "resourceId"}
obligationsV2Fields ==
    optionalInObligations \cup {"tag", "version", "id", "at", "outcome", "ids"}
WIRE_VERSION == 2

(* The errors that say what caused them say so on the wire.                *)
CausedErrors == {"AttributeResolveError", "RelationshipResolveError",
                 "DecisionHistoryUnavailable", "SignatureHistoryUnavailable"}
EvaluationErrors ==
    CausedErrors \cup {"MissingResource", "MissingAction", "MissingResourceId",
                       "PolicyTooDeep", "CustomPredicateError"}
CacheOutcomes == {"hit", "coalesced", "miss"}
ObligationOutcomes == {"Discharged", "HandlerFailed", "Refused", "NotRequired"}

outcomeWire(outcome) ==
    IF outcome.tag = "Decided"
    THEN [outcome EXCEPT !.decision = encodeDecision(@)] ELSE outcome

projectRecord(r) ==
    [r EXCEPT !.version = WIRE_VERSION, !.outcome = outcomeWire(@)]

(* Schema.Defect: an Error stays one, anything else is described.          *)
Defect(cause) == IF cause \in {Unset, "Error"} THEN cause ELSE "described"

(* The wire's own encoding takes a finite time only.                       *)
encodesWire(w) == w.at = "finite"
encodeWire(w) ==
    IF w.outcome.tag = "Failed" THEN [w EXCEPT !.outcome.cause = Defect(@)] ELSE w

(* A policy inside itself has no depth to find.                            *)
preEncodeHazard(r) ==
    LET deep(part) == part.nodes > WireDepth
    IN  CASE r.tag = "Obligations" -> "none"
          [] r.tag = "Decision" /\ r.policy.holds = "itself" -> "Circular"
          [] r.tag = "Decision" /\ r.policy.holds # "itself" ->
                 IF \/ deep(r.policy)
                    \/ r.outcome.tag = "Decided" /\ deep(r.outcome.decision.trace)
                 THEN "TooDeep" ELSE "none"

(* The parts that nest and the one number that need not be finite, in the  *)
(* order they are written, and the level of each in the record.            *)
PartsOf(w) ==
    LET Part(level, part) ==
            IF part = Unset THEN <<>> ELSE <<[level |-> level, part |-> part]>>
        Number(n) == [levels |-> 0, holds |-> IF n = "Infinity" THEN "NonFinite" ELSE "plain"]
        decision == w.outcome.decision
    IN  Part(1, w.policy) \o Part(1, w.resource)
        \o (IF decision = Unset THEN <<>>
            ELSE Part(3, Number(decision.duration)) \o Part(3, decision.trace))

(* What the walk says of the value a part holds: an undefined entry, a     *)
(* valid Date and an object met twice cross, and nothing else that JSON    *)
(* would change.                                                           *)
refusalOf(holds) ==
    CASE holds \in {"plain", "undefined", "Date", "shared"} -> "none"
      [] holds = "hole" -> "Unrepresentable"
      [] holds = "throws" -> "EncodeFailed"
      [] OTHER -> holds

(* An undefined value is met, and a getter throws, before its own level is *)
(* counted; any other value after.                                         *)
hazardOf(p) ==
    LET met == IF p.part.holds \in {"undefined", "hole", "throws"} THEN 1 ELSE 0
    IN  IF p.level + p.part.levels > WireDepth + met THEN "TooDeep"
        ELSE refusalOf(p.part.holds)

wireHazardOf(w) ==
    LET hazards == {i \in DOMAIN PartsOf(w) : hazardOf(PartsOf(w)[i]) # "none"}
    IN  IF hazards = {} THEN "none"
        ELSE hazardOf(PartsOf(w)[CHOOSE i \in hazards : \A j \in hazards : i <= j])

encodeSinkRecord(r) ==
    LET before == preEncodeHazard(r)
        json == encodeWire(projectRecord(r))
        hazard == IF ~encodesWire(json) THEN "EncodeFailed" ELSE wireHazardOf(json)
    IN  CASE before # "none" -> SinkRecordNotEncodable(before)
          [] before = "none" /\ hazard # "none" -> SinkRecordNotEncodable(hazard)
          [] before = "none" /\ hazard = "none" -> [tag |-> "Encoded", json |-> json]

(* JSON.stringify: what text leaves of a part.                             *)
PlainPart(part) ==
    CASE part = Unset -> Unset
      [] part # Unset /\ part.holds = "undefined" ->
             [part EXCEPT !.holds = "plain", !.levels = @ - 1]
      [] part # Unset /\ part.holds = "Date" -> [part EXCEPT !.holds = "plain"]
      [] OTHER -> part

stringify(w) == [w EXCEPT !.policy = PlainPart(@), !.resource = PlainPart(@)]

-----------------------------------------------------------------------------
(* Decoding, of anything: depth, then version, then the strict schema over *)
(* the keys this version declares, then what the wire says twice.          *)

exceedsJsonLevels(w) ==
    w # JsonNull /\ \E i \in DOMAIN PartsOf(w) :
       PartsOf(w)[i].level + PartsOf(w)[i].part.levels > WireDepth

envelopeOf(w) ==
    LET keys == IF w.tag = "Obligations" THEN obligationsV2Fields ELSE decisionV2Fields
    IN  [k \in DOMAIN w |-> IF k \in keys THEN w[k] ELSE Unset]

OutcomeIsWire(outcome) ==
    CASE outcome.tag = "Decided" ->
             /\ Has(outcome, {"decision"}) /\ HasOnly(outcome, {"tag", "decision"})
             /\ DecisionIsWire(outcome.decision)
             /\ TraceIsWire(outcome.decision.trace)
      [] outcome.tag = "Failed" ->
             /\ outcome.error \in EvaluationErrors
             /\ (outcome.cause # Unset) = (outcome.error \in CausedErrors)
             /\ HasOnly(outcome, {"tag", "error", "cause"})
      [] OTHER -> FALSE

decodesWire(w) ==
    CASE w.tag = "Decision" ->
             /\ Has(w, decisionV2Fields \ optionalInDecision)
             /\ w.at = "finite" /\ w.cache \in CacheOutcomes \cup {Unset}
             /\ w.policy.unknown = Unset
             /\ OutcomeIsWire(w.outcome)
      [] w.tag = "Obligations" ->
             /\ Has(w, obligationsV2Fields \ optionalInObligations)
             /\ w.at = "finite"
             /\ w.outcome.tag \in ObligationOutcomes
      [] OTHER -> FALSE

(* A mutation: the trace is not asked which policy it is of.               *)
disagreementButPolicy(w, wire) ==
    IF wire.id # w.id THEN "EvaluationId"
    ELSE IF wire.subject # w.subject THEN "SubjectId"
    ELSE decisionDisagreement(wire, wire.trace)

(* A decided outcome says again whose decision it is, and of which policy; *)
(* that first, and then the decision's own claims.                         *)
recordDisagreement(w, wire) ==
    IF wire.id # w.id THEN "EvaluationId"
    ELSE IF wire.subject # w.subject THEN "SubjectId"
    ELSE IF wire.trace.tag # w.policy.tag THEN "PolicyTag"
    ELSE decisionDisagreement(wire, wire.trace)

rebuildOutcome(w) ==
    IF w.outcome.tag # "Decided" THEN "none"
    ELSE recordDisagreement(w, w.outcome.decision)

rebuild(w) ==
    LET read == [w EXCEPT !.version = Unset]
    IN  IF w.outcome.tag # "Decided" THEN read
        ELSE [read EXCEPT !.outcome.decision = decodeDecision(@)]

decoded(w) ==
    CASE ~decodesWire(w) -> SinkRecordNotDecodable("Malformed")
      [] decodesWire(w) /\ rebuildOutcome(w) # "none" -> SinkRecordNotDecodable("Inconsistent")
      [] decodesWire(w) /\ rebuildOutcome(w) = "none" -> ReadRecord(rebuild(w))

decodeSinkRecord(w) ==
    CASE exceedsJsonLevels(w) -> SinkRecordNotDecodable("TooDeep")
      [] w = JsonNull -> SinkRecordNotDecodable("Malformed")
      [] OTHER -> IF w.version = WIRE_VERSION THEN decoded(envelopeOf(w))
                  ELSE SinkRecordNotDecodable("UnsupportedVersion")

-----------------------------------------------------------------------------
(* The envelopes.  The log's ignores a key it does not know, the audit     *)
(* trail's refuses it, once its record has been read.                      *)

Bare(w) == [form |-> "object", json |-> w, environment |-> Unset,
            number |-> Unset, unknown |-> Unset]

encodeStoredRecord(w) == [Bare(w) EXCEPT !.environment = "production"]
encodeAuditEntry(w) == Bare(w)

Enveloped(w) ==
    CASE way = "bare" -> Bare(w)
      [] way = "stored" -> encodeStoredRecord(w)
      [] way = "row" -> encodeAuditEntry(w)

decodeSinkRecordString(b) ==
    CASE b.form = "garbled" -> SinkRecordNotDecodable("NotJson")
      [] b.form = "null" -> decodeSinkRecord(JsonNull)
      [] b.form = "object" -> decodeSinkRecord(b.json)

stampRecord(read, environment) ==
    IF read.tag # "Read" THEN read ELSE [read EXCEPT !.environment = environment]

decodeStoredRecord(b) ==
    CASE b.form = "garbled" -> SinkRecordNotDecodable("NotJson")
      [] \/ b.form = "null"
         \/ b.form = "object" /\ (b.environment \in {Unset, JsonNull} \/ b.json = Unset) ->
             SinkRecordNotDecodable("Malformed")
      [] OTHER -> stampRecord(decodeSinkRecord(b.json), b.environment)

(* A row hands on its record as this version describes it.                 *)
decodeAuditEntry(b) ==
    IF b.form = "null" \/ b.json = Unset THEN SinkRecordNotDecodable("Malformed")
    ELSE LET read == decodeSinkRecord(b.json)
             decodesRow == b.unknown = Unset /\ b.number \in {Unset, "whole"}
         IN  CASE read.tag # "Read" -> read
               [] read.tag = "Read" /\ ~decodesRow -> SinkRecordNotDecodable("Malformed")
               [] read.tag = "Read" /\ decodesRow ->
                      [read EXCEPT !.entry = [record |-> envelopeOf(b.json), number |-> b.number]]

-----------------------------------------------------------------------------
Encode ==
    /\ bytes = Unset /\ result = Pending
    /\ LET encoded == encodeSinkRecord(record)
           kept == IF text THEN stringify(encoded.json) ELSE encoded.json
       IN  IF encoded.tag = "NotEncodable"
           THEN result' = encoded /\ UNCHANGED bytes
           ELSE bytes' = Enveloped(kept) /\ UNCHANGED result
    /\ UNCHANGED <<record, way, text>>

(* Others write over one key of what is kept, or over the whole of a text. *)
WrittenOver(b, part, key, value) ==
    CASE part = "envelope" -> [b EXCEPT ![key] = value]
      [] part = "record" -> [b EXCEPT !.json[key] = value]
      [] part = "policy" -> [b EXCEPT !.json.policy[key] = value]
      [] part = "outcome" -> [b EXCEPT !.json.outcome[key] = value]
      [] part = "decision" -> [b EXCEPT !.json.outcome.decision[key] = value]
      [] part = "trace" -> [b EXCEPT !.json.outcome.decision.trace[key] = value]

EnvelopeKeys == [bare |-> {}, stored |-> {"json", "environment", "unknown"},
                 row |-> {"json", "number", "unknown"}]

(* An outcome of duties is its tag alone, and a policy's tag is one of     *)
(* many that have a list.                                                  *)
HasPart(w, part, key) ==
    CASE part \in {"envelope", "record"} -> TRUE
      [] part = "policy" -> w.policy # Unset /\ (key = "tag" => w.policy.tag = "AllOf")
      [] part = "outcome" -> w.tag = "Decision" \/ key = "tag"
      [] part \in {"decision", "trace"} -> w.outcome.tag = "Decided"

IsKept == bytes # Unset /\ result = Pending
IsIntact ==
    LET json == encodeSinkRecord(record).json
        kept == IF text THEN stringify(json) ELSE json
    IN  bytes = Enveloped(kept)

WriteOver(part, key, value) ==
    /\ IsKept /\ IsIntact /\ HasPart(bytes.json, part, key)
    /\ part = "envelope" => key \in EnvelopeKeys[way]
    /\ bytes' = WrittenOver(bytes, part, key, value)
    /\ UNCHANGED <<record, way, text, result>>

(* What is kept is cut short, or is another value altogether.              *)
Replace(form) ==
    /\ IsKept /\ IsIntact
    /\ form = "garbled" => text /\ way # "row"
    /\ bytes' = [bytes EXCEPT !.form = form]
    /\ UNCHANGED <<record, way, text, result>>

Decode ==
    /\ IsKept
    /\ result' = CASE way = "bare" -> decodeSinkRecordString(bytes)
                   [] way = "stored" -> decodeStoredRecord(bytes)
                   [] way = "row" -> decodeAuditEntry(bytes)
    /\ UNCHANGED <<record, way, text, bytes>>

-----------------------------------------------------------------------------
(* What the encoder's walk lets through and the reader refuses: a value    *)
(* with an undefined property one level past the last, which the walk      *)
(* skips before it looks at the depth (JsonHazard.ts:100-103) and the      *)
(* reader counts.  Kept as text the property is gone.                      *)
UndefinedPast ==
    ~text /\ IsIntact /\ exceedsJsonLevels(bytes.json) /\ wireHazardOf(bytes.json) = "none"

Representable(r) ==
    r.at = "finite" /\ \A i \in DOMAIN PartsOf(r) :
       LET p == PartsOf(r)[i]
       IN  /\ p.part.holds \in {"plain", "undefined", "Date", "shared"}
           /\ p.level + PlainPart(p.part).levels <= WireDepth

ReadAs(r) ==
    LET crossed == encodeWire(r)
    IN  IF text THEN stringify(crossed) ELSE crossed

(* A record is refused for what JSON has no form for, or for its depth,    *)
(* never for an error's cause; what is kept untouched is read back as it   *)
(* was, up to the cause and what text makes plain, from where it was kept, *)
(* but for UndefinedPast; and whatever is read from bytes others have      *)
(* written is a decision made of its own trace, of the record's own        *)
(* evaluation, subject and policy, that says all the bytes say in the keys *)
(* this version knows, which is also what a row hands on.                  *)
(* (SinkCodec.ts, DecisionWire.ts, decodeAuditEntry)                       *)
(*                                                                         *)
(* The code promises more: what encodeSinkRecord returns decodeSinkRecord  *)
(* accepts (INV-QD-096; SinkCodec.ts:19-21, 399-401, 501-502), as the walk *)
(* refuses exactly what the reader's depth guard would                     *)
(* (JsonHazard.ts:82-84).  UndefinedPast is emitted, and is TooDeep.       *)
RecordsReadBack ==
    /\ result.tag = "NotEncodable" => ~Representable(record)
    /\ bytes # Unset => Representable(record)
    /\ bytes # Unset /\ result # Pending =>
           /\ IsIntact =>
                  IF UndefinedPast THEN result = SinkRecordNotDecodable("TooDeep")
                  ELSE /\ result.tag = "Read" /\ result.record = ReadAs(record)
                       /\ result.environment = IF way = "stored" THEN "production" ELSE Unset
           /\ result.tag = "Read" =>
                  LET read == result.record
                      decision == read.outcome.decision
                  IN  /\ projectRecord(read) = envelopeOf(bytes.json)
                      /\ result.environment = bytes.environment
                      /\ way = "row" => result.entry = [record |-> projectRecord(read),
                                                       number |-> bytes.number]
                      /\ read.outcome.tag = "Decided" =>
                             /\ decision = makeDecision(decision, decision.trace)
                             /\ decision.id = read.id /\ decision.subject = read.subject
                             /\ decision.trace.tag = read.policy.tag

=============================================================================
