-------------------------- MODULE SignatureLedger ---------------------------
(***************************************************************************)
(* Signing (packages/audit: SignatureCapturePort.ts, SignatureLedger.ts,   *)
(* SignatureLedgerTest.ts): an allow that carries the duty to sign is      *)
(* discharged by signing a signature and recording it, and what was        *)
(* recorded is what hasSignature is answered from.  What captures is       *)
(* external: it declines, or signs, as who and what it likes.              *)
(***************************************************************************)
EXTENDS Ports

CONSTANT MaxCaptures  \* captures begun in all

VARIABLES
    signing,  \* the requests whose capture has not answered, in order
    captures,   \* how many there were
    signed,    \* the ledger
    attested    \* the discharges that succeeded: their questions and meanings

ledgerVars == <<signing, captures, signed, attested>>

-----------------------------------------------------------------------------
IdOf(resource) == ResourceId([resource |-> resource])
KeyedId(resource) == IF IsText(IdOf(resource)) THEN IdOf(resource) ELSE Undefined

captureRequestOf(question, meaning) ==
    [signerId |-> question.subject.id, meaning |-> meaning,
     resourceId |-> KeyedId(question.resource), question |-> question]

(* A mutation: under the signer alone.                                     *)
entryOfSigner(request, signature) ==
    [subjectId |-> signature.signerId, resourceId |-> Undefined, signature |-> signature]

ledgerEntryOf(request, signature) ==
    [subjectId |-> signature.signerId, resourceId |-> request.resourceId,
     signature |-> signature]

signaturesFor(subjectId, resourceId) ==
    {e.signature : e \in {f \in Range(signed) :
        signatureKey(f.subjectId, f.resourceId) = signatureKey(subjectId, resourceId)}}

signatureHistoryFromLedger(args) == Answer(signaturesFor(args[1], args[2]))

-----------------------------------------------------------------------------
LedgerInit == signing = <<>> /\ captures = 0 /\ signed = <<>> /\ attested = {}

(* A discharge begins, and waits for the capture.                          *)
Discharge(question, meaning) ==
    /\ captures < MaxCaptures /\ captures' = captures + 1
    /\ signing' = Append(signing, captureRequestOf(question, meaning))
    /\ UNCHANGED <<signed, attested>>

(* The capture declines, or the ledger cannot record: the duty is not met. *)
FailCapture(i) ==
    /\ signing' = RemoveAt(signing, i)
    /\ UNCHANGED <<captures, signed, attested>>

(* One that attests to something else discharges nothing.                  *)
EndCapture(i, signature) ==
    LET request == signing[i]
        matches == /\ signature.signerId = request.signerId
                   /\ signature.meaning = request.meaning
    IN  /\ signing' = RemoveAt(signing, i)
        /\ signed' = IF matches THEN Append(signed, ledgerEntryOf(request, signature))
                      ELSE signed
        /\ attested' = IF matches
                       THEN attested \cup {[question |-> request.question,
                                            meaning |-> request.meaning]}
                       ELSE attested
        /\ UNCHANGED captures

=============================================================================
