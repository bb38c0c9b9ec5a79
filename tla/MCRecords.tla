------------------------------ MODULE MCRecords ------------------------------
(***************************************************************************)
(* What is kept of decisions, each by itself from the state where it       *)
(* begins: the log and its stream to a panel, the wire of its records, the *)
(* archive of an audit trail, and the ledger of signatures.                *)
(***************************************************************************)
EXTENDS SignatureLedger, RecordCodec, MCDecisionStream, AuditArchive

-----------------------------------------------------------------------------
(***************************************************************************)
(* Duties to sign, of two subjects and two documents, a resource without a *)
(* text for its id and no resource at all, captured and recorded in any    *)
(* order.                                                                  *)
(***************************************************************************)

Signers == {Text(<<"me">>), Text(<<"you">>)}
Meanings == {"approved", "reviewed"}
ADocument(id) == <<"object", 31, "id" :> id>>
Signables == {ADocument(Text(<<"d1">>)), ADocument(Text(<<"d2">>)),
              ADocument(Number(1)), Undefined}
Signings ==
    {[subject |-> [id |-> s], action |-> Undefined, resource |-> r] :
        s \in Signers, r \in Signables}

LedgerNext ==
    \/ \E question \in Signings, meaning \in Meanings : Discharge(question, meaning)
    \/ \E i \in DOMAIN signing :
           \/ FailCapture(i)
           \/ \E signer \in Signers, meaning \in Meanings :
                  EndCapture(i, [signerId |-> signer, meaning |-> meaning,
                                 signerRole |-> "lead"])

(* A leaf about a signature, evaluated on the ledger.                      *)
SignatureSays(meaning, scope, question) ==
    LET leaf == hasSignature(meaning, Absent, scope, AllFields)
        scopeId == ScopeId(leaf, question)
    IN  evaluateHasSignature(leaf, question,
            [signatures |-> scopeId :>
                signatureHistoryFromLedger(<<question.subject.id, scopeId>>)])

(* A signature recorded for a discharge answers the question discharged    *)
(* and no other: of a document, whoever signed it there and for that, and  *)
(* of none, only what was signed with no document.                         *)
(* (INV-QD-120, INV-QD-055; SignatureLedger.ts:101-115)                    *)
SignedIsFoundThereOnly ==
    captures > 0 =>
    \A question \in Signings, meaning \in Meanings :
        LET Attested(id) ==
                \E a \in attested :
                    /\ a.meaning = meaning
                    /\ a.question.subject = question.subject
                    /\ KeyedId(a.question.resource) = id
            id == KeyedId(question.resource)
        IN  /\ id # Undefined =>
                   SignatureSays(meaning, "Resource", question).allowed = Attested(id)
            /\ SignatureSays(meaning, "Any", question).allowed = Attested(Undefined)

-----------------------------------------------------------------------------
(***************************************************************************)
(* The records a run encodes, and what others write over what is kept.     *)
(***************************************************************************)

Part(tag, nodes, levels, inside) ==
    [tag |-> tag, nodes |-> nodes, levels |-> levels, holds |-> inside, unknown |-> Unset]

(* A chain of AllOf nodes nests two levels each, a Not one.                *)
Listed(nodes, inside) == Part("AllOf", nodes, 2 * nodes, inside)
Wrapped(nodes, inside) == Part("Not", nodes, nodes + 1, inside)

Unwritable == {"NonFinite", "Unrepresentable", "hole", "Opaque", "throws", "Circular"}
Writable == {"plain", "undefined", "Date", "shared"}

AllowedOutcomes(policy) ==
    {DecidedAs("alice", "finite", TraceOf(policy, TRUE, Unset, fields, owed)) :
        fields \in {Unset, {"name"}}, owed \in {{}, {"notify"}}}
DeniedOutcomes(policy) ==
    {DecidedAs("alice", "finite", TraceOf(policy, FALSE, reason, Unset, {})) :
        reason \in {Unset, "missing role"}}
FailedOutcomes ==
    {FailedAs(error, Unset) : error \in EvaluationErrors \ CausedErrors}
    \cup {FailedAs(error, cause) : error \in CausedErrors, cause \in {"Error", "cyclic"}}

Decisive(policy, resource, outcome) ==
    DecisionRecordOf("alice", policy, resource, Unset, Unset, outcome)

Everyday ==
    LET policy == Listed(1, "plain")
        resources == {Unset, Part("resource", 1, 2, "plain")}
    IN  {DecisionRecordOf("alice", policy, resource, action, cache, outcome) :
            resource \in resources, action \in {Unset, "read"}, cache \in {Unset, "hit"},
            outcome \in AllowedOutcomes(policy) \cup DeniedOutcomes(policy)}
        \cup {Decisive(policy, Unset, outcome) : outcome \in FailedOutcomes}

(* What a resource or a custom predicate's parameters hold, and numbers    *)
(* that are none.                                                          *)
Holding ==
    LET held == Unwritable \cup Writable
        missing == FailedAs("MissingResource", Unset)
        denied == TraceOf(Listed(1, "plain"), FALSE, Unset, Unset, {})
    IN  {Decisive(Listed(1, "plain"), Part("resource", 1, levels, inside), missing) :
            inside \in held, levels \in {2} \cup WireDepth - 1 .. WireDepth + 1}
        \cup {Decisive(Listed(2, inside), Unset, outcome) :
                 inside \in held, outcome \in DeniedOutcomes(Listed(2, "plain"))}
        \cup {Decisive(Listed(1, "plain"), Unset, DecidedAs("alice", "Infinity", denied)),
              [Decisive(Listed(1, "plain"), Unset, missing) EXCEPT !.at = "Infinity"]}

(* Policies as deep as evaluation goes, and deeper, which it refuses; and  *)
(* a decision of a trace nothing evaluated.                                *)
Deep ==
    LET deepest == Listed(64, "plain")
        made == TraceOf(Listed(WireDepth + 1, "plain"), FALSE, Unset, Unset, {})
    IN  {Decisive(deepest, Unset, outcome) : outcome \in AllowedOutcomes(deepest)}
        \cup {Decisive(policy, Unset, FailedAs("PolicyTooDeep", Unset)) :
                 policy \in {Listed(65, "plain"), Listed(130, "plain"),
                             Wrapped(200, "plain"), Wrapped(300, "plain"),
                             Wrapped(1, "itself")}}
        \cup {Decisive(Listed(1, "plain"), Unset, DecidedAs("alice", "finite", made))}

Obligated ==
    {ObligationRecordOf(outcome, {"notify"}, subject, action, resourceId) :
        outcome \in ObligationOutcomes, subject \in {Unset, "alice"},
        action \in {Unset, "read"}, resourceId \in {Unset, "r1"}}

Rewrites ==
    [envelope |-> [environment |-> {Unset, JsonNull, "staging"}, json |-> {Unset, JsonNull},
                   number |-> {"whole", "half"}, unknown |-> {"more"}],
     record |-> [tag |-> {"Decision", "Obligations", "Decisions"},
                 version |-> {1, Unset, JsonNull}, id |-> {2, Unset}, at |-> {"Infinity", Unset},
                 subject |-> {"mallory", Unset}, action |-> {"write", Unset},
                 cache |-> {"hit", "stale", Unset},
                 resource |-> {Unset, Part("resource", 1, 1, "plain"),
                               Part("resource", 1, WireDepth, "plain")},
                 policy |-> {Unset}, ids |-> {Unset}, unknown |-> {"more"}],
     policy |-> [tag |-> {"AnyOf"}, unknown |-> {"more"}],
     outcome |-> [tag |-> {"Decided", "Failed", "Refused"}, cause |-> {"Error", Unset},
                  error |-> {"NoError"}, unknown |-> {"more"}],
     decision |-> [tag |-> {"Allow", "Deny"}, id |-> {2}, subject |-> {"mallory"},
                   duration |-> {"Infinity", Unset},
                   fields |-> {Unset, {"name"}, {"name", "pay"}}, owed |-> {{}, {"notify"}},
                   reason |-> {Unset, "denied", "other"}, trace |-> {Unset},
                   unknown |-> {"more"}],
     trace |-> [tag |-> {"AnyOf"}, allowed |-> BOOLEAN, reason |-> {Unset, "other"},
                fields |-> {Unset, {"name", "pay"}}, owed |-> {{}, {"notify"}},
                unknown |-> {"more"}]]

CodecInit ==
    /\ record \in Everyday \cup Holding \cup Deep \cup Obligated
    /\ way \in {"bare", "stored", "row"} /\ text \in BOOLEAN
    /\ bytes = Unset /\ result = Pending

CodecNext ==
    \/ Encode \/ Decode \/ \E form \in {"garbled", "null"} : Replace(form)
    \/ \E part \in DOMAIN Rewrites : \E field \in DOMAIN Rewrites[part] :
          \E value \in Rewrites[part][field] : WriteOver(part, field, value)

-----------------------------------------------------------------------------

VARIABLE kept
keptVars == <<kept, vars, archiveVars, ledgerVars, codecVars>>

PurgeAges == {-1, 0}

NoRecord == record = Unset /\ way = "bare" /\ text = TRUE /\ bytes = Unset /\ result = Pending

RecordsInit ==
    /\ Init /\ ArchiveInit /\ LedgerInit
    /\ \/ kept \in {"stream", "archive", "ledger"} /\ NoRecord
       \/ kept = "bytes" /\ CodecInit

KeepDecisions ==
    kept = "stream" /\ Next /\ UNCHANGED <<archiveVars, ledgerVars, codecVars>>
KeepTrail ==
    kept = "archive" /\ ArchiveNext /\ UNCHANGED <<vars, ledgerVars, codecVars>>
KeepSignatures ==
    kept = "ledger" /\ LedgerNext /\ UNCHANGED <<vars, archiveVars, codecVars>>
KeepBytes ==
    kept = "bytes" /\ CodecNext /\ UNCHANGED <<vars, archiveVars, ledgerVars>>

RecordsNext ==
    UNCHANGED kept /\ (KeepDecisions \/ KeepTrail \/ KeepSignatures \/ KeepBytes)

RecordsSpec == RecordsInit /\ [][RecordsNext]_keptVars
=============================================================================
