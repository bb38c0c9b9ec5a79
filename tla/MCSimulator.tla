----------------------------- MODULE MCSimulator -----------------------------
(***************************************************************************)
(* What must be true of one policy, of whatever shape: of asking its ports *)
(* over a wire, of replaying what a live run captured, of the edits that   *)
(* are proposed for it, of comparing a logged decision with a new one, and *)
(* of a session of runs.                                                   *)
(***************************************************************************)
EXTENDS WhatIf

SimDoc == Text(<<"d">>)
SimMe == Text(<<"me">>)
Editing == <<"edit">>
Clearance == "clearance"

IsEditor == hasRole(<<"editor">>, AllFields)
MayEdit == hasPermission(permission(<<"doc">>, Editing), AllFields)
IsEditing == hasAction(Editing, AllFields)
Trusted == hasAttribute(Clearance, gte(Number(2)), AllFields)
OddlyTrusted == hasAttribute(Clearance, eq(LiteralRef(NaN)), AllFields)
Untrusted == hasAttribute(Clearance, lt(Number(1)), AllFields)
Owns == hasRelationship(<<"owner">>, Undefined, AllFields)
HasReviewed == hasActed(<<"review">>, "Resource", AllFields)
NeverEdited == hasNotActed(<<"edit">>, "Any", AllFields)
InQuota == hasCustom("quota", <<"object", 9, "limit" :> Number(2)>>, AllFields)
Signed == hasSignature("approved", Absent, "Resource", AllFields)
IsDraft == hasResourceAttribute("status", eq(LiteralRef(Text(<<"draft">>))), AllFields)
OfTheTeam == hasResourceAttribute("team", eq(SubjectRef(<<"team">>)), AllFields)
Tagged == hasAttribute("tags", someMatch(fieldMatch("x", neq(ActionRef))), AllFields)
Sized == hasAttribute("tags", size(lt(Number(0))), AllFields)

SimulatorLeaves == <<
    <<IsEditor, Trusted, NeverEdited>>, <<Owns, OddlyTrusted, HasReviewed>>,
    <<InQuota, Signed, Untrusted>>, <<IsEditing, MayEdit, Tagged>>,
    <<OfTheTeam, Sized, IsDraft>> >>

-----------------------------------------------------------------------------
(* Inputs, from one that grants everything to one that says nothing, and   *)
(* one of values that are no finite number and a resource without an id.   *)
SimSubject(roles, permissions, attributes) ==
    [id |-> SimMe, roles |-> roles, permissions |-> permissions,
     attributes |-> attributes]

ASignature(signedAt) ==
    [meaning |-> "approved", signerRole |-> "lead", signedAt |-> signedAt]

Granting ==
    [subject |-> SimSubject({<<"editor">>}, {permissionKey(MayEdit.permission)},
                            "team" :> Text(<<"red">>)),
     action |-> Text(Editing),
     resource |-> <<"object", 1, "id" :> SimDoc @@ "status" :> Text(<<"draft">>)
                                 @@ "team" :> Text(<<"red">>)>>,
     fixtures |-> "AttributeResolver" :> (Clearance :> Number(3))
        @@ "RelationshipResolver" :> {<<SimMe, <<"owner">>, SimDoc>>}
        @@ "DecisionHistory" :> {<<SimMe, <<"review">>, SimDoc>>}
        @@ "CustomPredicate" :> ("quota" :> TRUE)
        @@ "SignatureHistory" :> {[subjectId |-> SimMe, resourceId |-> SimDoc,
                                   signature |-> ASignature(Number(1))]}]

Blank == [subject |-> SimSubject({}, {}, <<>>), action |-> Undefined,
          resource |-> Undefined, fixtures |-> <<>>]

Odd == [subject |-> SimSubject({}, {}, "team" :> NaN), action |-> Text(<<"read">>),
        resource |-> <<"object", 2, "id" :> Number(7) @@ "team" :> Infinity>>,
        fixtures |-> "AttributeResolver" :> (Clearance :> NaN)]

Plain == [Blank EXCEPT !.action = Text(<<"read">>),
                       !.resource = <<"object", 3, "id" :> SimDoc>>]

Inputs == {Granting, Blank, Odd, Plain}

(* Environments: one that says yes, one whose history is down, one whose   *)
(* answers have no form on a wire, one whose resolver breaks.              *)
Environment(attribute, acted, signedAt) ==
    portsLayer("AttributeResolver" :> Store(attribute)
        @@ "RelationshipResolver" :> Store(Answer("Related"))
        @@ "DecisionHistory" :> Store(acted)
        @@ "CustomPredicate" :> Store(Answer(TRUE))
        @@ "SignatureHistory" :> Store(Answer({ASignature(signedAt)})))

Environments ==
    {Environment(Answer(Number(3)), Answer("Acted"), Number(1)),
     Environment(Answer(Number(0)), Fail, Number(1)),
     Environment(Answer(Infinity), Answer("NotActed"), NaN),
     Environment(Die, Answer("NotActed"), Number(1))}

AskOf(environment, d, args) == invokeLocal(d, environment[d], args)

MadeBy(p, input, environment) ==
    LET q == evaluationOptionsOf(input)
    IN  RequestsMade(p, q, Answers(LAMBDA d, args : AskOf(environment, d, args), p, q))

-----------------------------------------------------------------------------
(* A policy whose ports are asked over the wire, of a server that serves   *)
(* what the policy names, decides as it does beside its ports; it fails    *)
(* instead only when a question it asks, or the answer, has no JSON form.  *)
(* (INV-QD-241; PortRemote.ts:75, 147, 193)                                *)
HasNoForm(environment, r) ==
    LET answer == AskOf(environment, r[1], r[2])
    IN  ~encodeQuestion(r[1], r[2]) \/ (answer[1] = "ok" /\ ~encodeAnswer(r[1], answer[2]))

DecidesRemotelyAsLocally(p) ==
    \A input \in Inputs, environment \in Environments :
        LET q == evaluationOptionsOf(input)
            send(d, args) == portRoutes(servingFor({p}), d, environment, q.subject, args)
            remote == Evaluate(p, q, Answers(
                          LAMBDA d, args : remotePorts(send(d, args), PortName, d, args), p, q))
        IN  \/ remote = simulate(p, input, live(environment))
            \/ /\ remote.error = "PortError"
               /\ \E r \in MadeBy(p, input, environment) : HasNoForm(environment, r)

(* A snapshot of what a live run captured decides the same input as the    *)
(* live run did, an outage as an outage, when no port it asked broke down. *)
(* (INV-QD-043; Capture.ts:7-14)                                           *)
ReplaysWhatItCaptured(p) ==
    \A input \in Inputs, environment \in Environments :
        (\A r \in MadeBy(p, input, environment) : AskOf(environment, r[1], r[2]) # Die)
            => simulate(p, input, snapshot(captureOf(p, input, live(environment))))
                   = simulate(p, input, live(environment))

(* Every remedy that is proposed for a requirement does remedy it, what is *)
(* said to be met is, and what is neither is told as skipped.              *)
(* (BEH-QD-223; Remedies.ts:9-15)                                          *)
RemediesWork(p) ==
    \A input \in Inputs : \A n \in requirementsOf(p) :
        LET remedy == remedyFor(n, input)
            given == IF remedy[1] = "edit" THEN apply(remedy[2], input) ELSE input
        IN  remedy[1] # "skip" => simulate(n, given, fixtures).allowed

(* A logged decision is said to match a new one when both decided, and     *)
(* every node of the two traces agrees, and then only: a trace of which    *)
(* only the root was disclosed never matches one that has parts, and a     *)
(* composite that stopped early is no such trace.  (Replay.ts:106-173,     *)
(* TraceDiff.ts:156, Inspect.ts:148)                                       *)
Logged(p, input, outcome) ==
    [policy |-> p, subjectId |-> input.subject.id, action |-> input.action,
     resource |-> input.resource, outcome |-> outcome]

RootOnly(t) == [t EXCEPT !.children = <<>>]

BaselinesAreHonest(p) ==
    \A before, after \in Inputs :
        LET full == simulate(p, before, fixtures)
            again == simulate(p, after, fixtures)
            Matches(outcome) ==
                matchesBaseline(baselineDiff(Logged(p, before, outcome), again))
        IN  /\ Matches(full) <=> ~Failed(full) /\ full = again
            /\ Matches(RootOnly(full)) => full.children = <<>>

=============================================================================
