----------------------------- MODULE Evaluation -----------------------------
(***************************************************************************)
(* What a policy answers a question (packages/core/src/Walk.ts, its leaves *)
(* and its combinators, with the port calls of PortAccess.ts), for the     *)
(* sequential evaluator; Walk.tla walks the same tree step by step.        *)
(*                                                                         *)
(* A question `q` has the subject, the resource and the action (either     *)
(* undefined), and `ports` answers what is asked outside of it: one answer *)
(* per port and query, <<"ok", answer>>, <<"fail">>, <<"defect">> or       *)
(* <<"interrupt">>.                                                        *)
(***************************************************************************)
EXTENDS Policy

Trace(p, allowed, reason, children, fields, obligations) ==
    [policyTag |-> p.tag, label |-> <<>>, allowed |-> allowed,
     reason |-> reason, children |-> children, visibleFields |-> fields,
     obligations |-> obligations, error |-> "none"]

allow(p, fields, children, obligations) ==
    Trace(p, TRUE, <<>>, children, fields, obligations)
deny(p, reason, children) == Trace(p, FALSE, reason, children, AllFields, {})

Failure(p, error) == [deny(p, <<>>, <<>>) EXCEPT !.error = error]
Failed(t) == t.error # "none"

Decide(p, allowed, reason) ==
    IF allowed THEN allow(p, fieldsOf(p), <<>>, {})
    ELSE deny(p, <<p.tag>> \o reason, <<>>)

-----------------------------------------------------------------------------
(* The ports.  A pure defect becomes the port's typed error; a failure and *)
(* an interruption pass as they are.                                       *)
catchPortDefect(answer) ==
    CASE answer[1] = "ok" -> "none"
      [] answer[1] = "interrupt" -> "Interrupted"
      [] OTHER -> "PortError"

FromPort(p, answer, reply) ==
    IF catchPortDefect(answer) # "none"
    THEN Failure(p, catchPortDefect(answer)) ELSE reply

ResourceId(q) ==
    IF q.resource = Undefined THEN Undefined
    ELSE OwnProperty(q.resource, "id")

clampRelationshipDepth(depth) ==
    CASE depth = Undefined -> Undefined
      [] depth = NaN -> Number(0)
      [] depth = Infinity -> Number(DEFAULT_MAX_DEPTH)
      [] OTHER -> Number(Min({Max({depth[2], 0}), DEFAULT_MAX_DEPTH}))

(* The subject's own attribute, whatever it holds, or the resolver's.      *)
readAttribute(q, ports, attribute) ==
    IF attribute \in DOMAIN q.subject.attributes[3]
    THEN <<"ok", q.subject.attributes[3][attribute]>>
    ELSE ports.attribute[attribute]

-----------------------------------------------------------------------------
(* The leaves.                                                             *)

context(q) ==
    [subject |-> q.subject.attributes, subjectId |-> q.subject.id,
     resource |-> q.resource, action |-> q.action]

evaluateHasAttribute(p, q, ports) ==
    LET value == readAttribute(q, ports, p.attribute)
    IN  IF q.action = Undefined /\ referencesAction(p.matcher)
        THEN Failure(p, "MissingAction")
        ELSE IF q.resource = Undefined /\ referencesResource(p.matcher)
        THEN Failure(p, "MissingResource")
        ELSE FromPort(p, value,
                LET verdict == judgeMatcher(p.matcher, value[2], context(q))
                IN  Decide(p, holds(verdict), <<p.attribute, verdict>>))

evaluateHasResourceAttribute(p, q) ==
    LET value == OwnProperty(q.resource, p.attribute)
        verdict == judgeMatcher(p.matcher, value, context(q))
    IN  IF q.resource = Undefined THEN Failure(p, "MissingResource")
        ELSE IF q.action = Undefined /\ referencesAction(p.matcher)
        THEN Failure(p, "MissingAction")
        ELSE Decide(p, holds(verdict), <<p.attribute, verdict>>)

(* A question of scope Resource needs the id of one, a text.               *)
Scoped(p, q, reply) ==
    IF p.scope = "Resource" /\ ~IsText(ResourceId(q))
    THEN Failure(p, "MissingResourceId") ELSE reply

ScopeId(p, q) == IF p.scope = "Resource" THEN ResourceId(q) ELSE Undefined

evaluateActed(p, q, ports) ==
    LET answer == ports.acted[<<p.event, ScopeId(p, q)>>]
        wanted == IF p.tag = "HasActed" THEN "Acted" ELSE "NotActed"
    IN  Scoped(p, q, FromPort(p, answer,
            Decide(p, answer[2] = wanted, <<p.event, answer[2]>>)))

evaluateHasRelationship(p, q, ports) ==
    LET answer == ports.related[<<p.relation, ResourceId(q),
                                  clampRelationshipDepth(p.depth)>>]
    IN  IF ~IsText(ResourceId(q)) THEN Failure(p, "MissingResourceId")
        ELSE FromPort(p, answer,
                Decide(p, answer[2] = "Related", <<p.relation, answer[2]>>))

askCustom(p, ports) == ports.custom[<<p.name, p.params>>]

evaluateHasCustom(p, ports) ==
    LET answer == askCustom(p, ports)
    IN  FromPort(p, answer, Decide(p, answer[2], <<p.name>>))

(* What the signatures on file say: whether one is the required one, and   *)
(* whether there is none at all.                                           *)
askSignature(p, onFile) ==
    [matched |-> \E s \in onFile :
                    /\ s.meaning = p.meaning
                    /\ p.signerRole = Absent \/ s.signerRole = p.signerRole,
     none |-> onFile = {}]

evaluateHasSignature(p, q, ports) ==
    LET answer == ports.signatures[ScopeId(p, q)]
        said == askSignature(p, answer[2])
    IN  Scoped(p, q, FromPort(p, answer, Decide(p, said.matched, <<p.meaning, said.none>>)))

evaluateLeaf(p, q, ports) ==
    CASE p.tag = "HasPermission" ->
             Decide(p, permissionKey(p.permission) \in q.subject.permissions,
                    <<permissionKey(p.permission)>>)
      [] p.tag = "HasRole" -> Decide(p, p.role \in q.subject.roles, <<p.role>>)
      [] p.tag = "HasAttribute" -> evaluateHasAttribute(p, q, ports)
      [] p.tag = "HasResourceAttribute" -> evaluateHasResourceAttribute(p, q)
      [] p.tag = "HasRelationship" -> evaluateHasRelationship(p, q, ports)
      [] p.tag = "HasAction" ->
             IF q.action = Undefined THEN Failure(p, "MissingAction")
             ELSE Decide(p, q.action = Text(p.action), <<p.action>>)
      [] p.tag \in {"HasActed", "HasNotActed"} -> evaluateActed(p, q, ports)
      [] p.tag = "HasCustom" -> evaluateHasCustom(p, ports)
      [] p.tag = "HasSignature" -> evaluateHasSignature(p, q, ports)

-----------------------------------------------------------------------------
(* The combinators.                                                        *)

isCombining(c) == c \in Combining
effectiveCombining(c) == IF isCombining(c) THEN c ELSE "DenyOverrides"

(* The effect that settles a table; "none" when the first row to apply does. *)
rulesDecisiveEffect(c) ==
    CASE effectiveCombining(c) = "DenyOverrides" -> "Deny"
      [] effectiveCombining(c) = "PermitOverrides" -> "Permit"
      [] OTHER -> "none"

anyOfStopsAtAllow(strategy) == fieldStrategyLaws(strategy).decidedByFirst

(* Whether the composite's question is settled by its k-th child's answer. *)
Settles(p, k, t) ==
    \/ Failed(t)
    \/ p.tag = "AllOf" /\ ~t.allowed
    \/ p.tag = "AnyOf" /\ t.allowed /\ anyOfStopsAtAllow(p.fieldStrategy)
    \/ p.tag = "Rules" /\ t.allowed
         /\ rulesDecisiveEffect(p.combining) \in {"none", p.rules[k].effect}

(* The children asked, in order, up to the one that settles the question.  *)
RECURSIVE Asked(_, _, _)
Asked(p, answer(_), k) ==
    IF k > Len(childrenOf(p)) THEN <<>>
    ELSE LET t == answer(childrenOf(p)[k])
         IN  IF Settles(p, k, t) THEN <<t>> ELSE <<t>> \o Asked(p, answer, k + 1)

Merge(p, ts) ==
    LET granted == SelectSeq(ts, LAMBDA t : t.allowed)
    IN  allow(p, mergeFields(p.fieldStrategy,
                             [i \in DOMAIN granted |-> granted[i].visibleFields]),
              ts, UNION {granted[i].obligations : i \in DOMAIN granted})

DecideAllOf(p, ts) ==
    IF \A i \in DOMAIN ts : ts[i].allowed THEN Merge(p, ts)
    ELSE deny(p, ts[Len(ts)].reason, ts)

DecideAnyOf(p, ts) ==
    IF \E i \in DOMAIN ts : ts[i].allowed THEN Merge(p, ts)
    ELSE deny(p, IF ts = <<>> THEN <<"empty">> ELSE ts[Len(ts)].reason, ts)

(* The row that decides: the one that settled, or the first that applied.  *)
DecideRules(p, ts) ==
    LET applying == {i \in DOMAIN ts : ts[i].allowed}
        row == IF Settles(p, Len(ts), Last(ts)) THEN Len(ts) ELSE Min(applying)
    IN  IF applying = {} THEN deny(p, <<"no rule applied">>, ts)
        ELSE IF p.rules[row].effect = "Deny" THEN deny(p, <<"rule", row>>, ts)
        ELSE allow(p, ts[row].visibleFields, ts, ts[row].obligations)

DecideComposite(p, ts) ==
    IF ts # <<>> /\ Failed(ts[Len(ts)]) THEN ts[Len(ts)]
    ELSE CASE p.tag = "AllOf" -> DecideAllOf(p, ts)
           [] p.tag = "AnyOf" -> DecideAnyOf(p, ts)
           [] p.tag = "Rules" -> DecideRules(p, ts)

DecideWrapper(p, t) ==
    CASE Failed(t) -> t
      [] ~Failed(t) /\ p.tag = "Not" ->
             IF t.allowed THEN deny(p, <<"negated">>, <<t>>)
             ELSE allow(p, AllFields, <<t>>, {})
      [] ~Failed(t) /\ p.tag = "Obliged" ->
             IF t.allowed
             THEN allow(p, t.visibleFields, <<t>>, {p.obligation} \cup t.obligations)
             ELSE deny(p, t.reason, <<t>>)
      [] ~Failed(t) /\ p.tag = "Labeled" ->
             [t EXCEPT !.policyTag = "Labeled", !.label = p.label,
                       !.children = <<t>>]

RECURSIVE evaluateNode(_, _, _)
evaluateNode(p, q, ports) ==
    CASE IsLeaf(p) -> evaluateLeaf(p, q, ports)
      [] p.tag \in {"AllOf", "AnyOf", "Rules"} ->
             DecideComposite(p, Asked(p, LAMBDA c : evaluateNode(c, q, ports), 1))
      [] p.tag \in {"Not", "Obliged", "Labeled"} ->
             DecideWrapper(p, evaluateNode(p.policy, q, ports))

(* What a policy is asked under: an option left out is undefined, and the  *)
(* limit on the depth is the library's.                                    *)
questionOf(subject, options) ==
    options @@ [action |-> Undefined, resource |-> Undefined, maxDepth |-> DEFAULT_MAX_DEPTH]
            @@ [subject |-> subject]

admit(p, maxDepth) == policyDepth(p) <= maxDepth

Evaluate(p, q, ports) ==
    IF admit(p, q.maxDepth) THEN evaluateNode(p, q, ports)
    ELSE Failure(p, "PolicyTooDeep")

=============================================================================
