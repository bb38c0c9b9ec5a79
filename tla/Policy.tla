-------------------------------- MODULE Policy --------------------------------
(***************************************************************************)
(* Policies (packages/core/src/Policy.ts and Permission.ts): the tree, the *)
(* constructors, the schema that decodes one, and its depth.               *)
(*                                                                         *)
(* A policy is a record with its tag.  A name is a sequence of pieces, of  *)
(* which the piece ":" is the separator; `fields` is a visible-field set,  *)
(* AllFields where the key is absent; other absent keys are `Absent`.      *)
(***************************************************************************)
EXTENDS Matcher, FieldLattice

CONSTANT DEFAULT_MAX_DEPTH

ASSUME DefaultMaxDepthAssumption == DEFAULT_MAX_DEPTH \in Nat

Absent == "absent"
OrElse(option, default) == IF option = Absent THEN default ELSE option

(* The union: the keys of each tag, and the literals of its closed keys.   *)
PolicyKeys ==
    "HasPermission" :> {"permission", "fields"} @@ "HasRole" :> {"role", "fields"} @@
    [tag \in {"HasAttribute", "HasResourceAttribute"} |->
        {"attribute", "matcher", "fields"}] @@
    "HasRelationship" :> {"relation", "depth", "fields"} @@
    "HasAction" :> {"action", "fields"} @@
    [tag \in {"HasActed", "HasNotActed"} |-> {"event", "scope", "fields"}] @@
    "HasCustom" :> {"name", "params", "fields"} @@
    "HasSignature" :> {"meaning", "signerRole", "scope", "fields"} @@
    [tag \in {"AllOf", "AnyOf"} |-> {"policies", "fieldStrategy"}] @@
    "Rules" :> {"rules", "combining"} @@ "Not" :> {"policy"} @@
    "Obliged" :> {"obligation", "policy"} @@ "Labeled" :> {"label", "policy"}

POLICY_TAGS == DOMAIN PolicyKeys

HistoryScope == {"Resource", "Any"}
Combining == {"FirstApplicable", "DenyOverrides", "PermitOverrides"}
RuleEffect == {"Permit", "Deny"}

isValidSegment(name) == name # <<>> /\ ":" \notin Range(name)

permission(res, act) == [resource |-> res, action |-> act]
permissionKey(p) == p.resource \o <<":">> \o p.action

-----------------------------------------------------------------------------
(* The constructors.  None of them judges what it is given.                *)

hasPermission(p, fields) ==
    [tag |-> "HasPermission", permission |-> p, fields |-> fields]
hasRole(role, fields) == [tag |-> "HasRole", role |-> role, fields |-> fields]
hasAttribute(attribute, matcher, fields) ==
    [tag |-> "HasAttribute", attribute |-> attribute, matcher |-> matcher,
     fields |-> fields]
hasResourceAttribute(attribute, matcher, fields) ==
    [tag |-> "HasResourceAttribute", attribute |-> attribute,
     matcher |-> matcher, fields |-> fields]
hasRelationship(relation, depth, fields) ==
    [tag |-> "HasRelationship", relation |-> relation, depth |-> depth,
     fields |-> fields]
hasAction(act, fields) == [tag |-> "HasAction", action |-> act, fields |-> fields]
hasActed(event, scope, fields) ==
    [tag |-> "HasActed", event |-> event, scope |-> OrElse(scope, "Resource"),
     fields |-> fields]
hasNotActed(event, scope, fields) ==
    [tag |-> "HasNotActed", event |-> event,
     scope |-> OrElse(scope, "Resource"), fields |-> fields]
hasCustom(name, params, fields) ==
    [tag |-> "HasCustom", name |-> name, params |-> params, fields |-> fields]
hasSignature(meaning, signerRole, scope, fields) ==
    [tag |-> "HasSignature", meaning |-> meaning, signerRole |-> signerRole,
     scope |-> OrElse(scope, "Resource"), fields |-> fields]

defaultFieldStrategy(kind) == IF kind = "AllOf" THEN "Intersection" ELSE "First"

allOf(policies, fieldStrategy) ==
    [tag |-> "AllOf", policies |-> policies,
     fieldStrategy |-> OrElse(fieldStrategy, defaultFieldStrategy("AllOf"))]
anyOf(policies, fieldStrategy) ==
    [tag |-> "AnyOf", policies |-> policies,
     fieldStrategy |-> OrElse(fieldStrategy, defaultFieldStrategy("AnyOf"))]

permitWhen(condition) == [condition |-> condition, effect |-> "Permit"]
denyWhen(condition) == [condition |-> condition, effect |-> "Deny"]
rules(rows, combining) ==
    [tag |-> "Rules", rules |-> rows,
     combining |-> OrElse(combining, "FirstApplicable")]

not(policy) == [tag |-> "Not", policy |-> policy]
obliged(obligation, policy) ==
    [tag |-> "Obliged", obligation |-> obligation, policy |-> policy]
labeled(label, policy) == [tag |-> "Labeled", label |-> label, policy |-> policy]

anyOfRoles(roles) == anyOf([i \in DOMAIN roles |-> hasRole(roles[i], AllFields)], Absent)
allOfRoles(roles) == allOf([i \in DOMAIN roles |-> hasRole(roles[i], AllFields)], Absent)

-----------------------------------------------------------------------------
(* The tree.                                                               *)

childrenOf(p) ==
    CASE p.tag \in {"AllOf", "AnyOf"} -> p.policies
      [] p.tag = "Rules" -> [i \in DOMAIN p.rules |-> p.rules[i].condition]
      [] p.tag \in {"Not", "Obliged", "Labeled"} -> <<p.policy>>
      [] OTHER -> <<>>

IsLeaf(p) == p.tag \notin {"AllOf", "AnyOf", "Rules", "Not", "Obliged", "Labeled"}

fieldsOf(p) == IF IsLeaf(p) THEN p.fields ELSE AllFields

leafNesting(p) ==
    IF p.tag \in {"HasAttribute", "HasResourceAttribute"}
    THEN matcherDepth(p.matcher) ELSE 0

Deepest(depths) == Max({0} \cup Range(depths))

(* The fold of a policy: a leaf's own nesting, else one above its deepest. *)
RECURSIVE policyDepth(_)
policyDepth(p) ==
    LET children == childrenOf(p)
    IN  IF children = <<>> THEN leafNesting(p)
        ELSE 1 + Deepest([i \in DOMAIN children |-> policyDepth(children[i])])

-----------------------------------------------------------------------------
(* Decoding.  How deep a policy's JSON nests, the root at 0: the levels    *)
(* `exceedsJsonDepth` walks, scalars included.                             *)

RECURSIVE ValueDepth(_)
ValueDepth(v) ==
    IF isObject(v) /\ DOMAIN v[3] # {}
    THEN 1 + Max({ValueDepth(v[3][k]) : k \in DOMAIN v[3]}) ELSE 0

RefDepth(ref) == IF ref.tag = "LiteralRef" THEN 1 + ValueDepth(ref.value) ELSE 1

RECURSIVE MatcherJsonDepth(_)
MatcherJsonDepth(m) ==
    CASE m.tag \in {"Eq", "Neq", "Dominates"} -> 1 + RefDepth(m.ref)
      [] m.tag = "In" -> 1 + ValueDepth(<<"array", 0, m.values>>)
      [] m.tag = "Contains" -> 1 + ValueDepth(m.value)
      [] m.tag \in {"Exists", "Gte", "Lt"} -> 1
      [] OTHER -> 1 + MatcherJsonDepth(m.matcher)

RECURSIVE JsonDepth(_)
JsonDepth(p) ==
    LET inner(levels) ==
            levels + Deepest([i \in DOMAIN childrenOf(p) |->
                                  JsonDepth(childrenOf(p)[i])])
        fields == IF fieldsOf(p).specs = {} THEN 1 ELSE 2
        own == CASE p.tag = "HasPermission" -> 2
                 [] p.tag \in {"HasAttribute", "HasResourceAttribute"} ->
                        1 + MatcherJsonDepth(p.matcher)
                 [] p.tag = "HasCustom" /\ p.params # Undefined ->
                        1 + ValueDepth(p.params)
                 [] p.tag \in {"AllOf", "AnyOf"} ->
                        IF p.policies = <<>> THEN 1 ELSE inner(2)
                 [] p.tag = "Rules" -> IF p.rules = <<>> THEN 1 ELSE inner(3)
                 [] p.tag = "Obliged" ->
                        Max({inner(1), 2 + ValueDepth(p.obligation.attributes)})
                 [] p.tag \in {"Not", "Labeled"} -> inner(1)
                 [] OTHER -> 1
    IN  Max({own, fields})

(* A mutation: headroom for two levels per node.                           *)
TwoLevelsPerNode == DEFAULT_MAX_DEPTH * 2

MAX_DECODE_DEPTH == DEFAULT_MAX_DEPTH * 4

exceedsJsonDepth(p) == JsonDepth(p) > MAX_DECODE_DEPTH

(* RelationshipDepth: a whole number up to the deepest evaluation.         *)
RelationshipDepth(v) == Kind(v) = "number" /\ v[2] \in 0 .. DEFAULT_MAX_DEPTH

RECURSIVE MatcherDecodes(_)
MatcherDecodes(m) ==
    /\ m.tag \in {"Gte", "Lt"} => isFiniteNumber(m.value)
    /\ \A i \in DOMAIN matcherChildrenOf(m) :
           MatcherDecodes(matcherChildrenOf(m)[i])

RuleDecodes(rule) == rule.effect \in RuleEffect

(* What the schema asks of one node: no key it does not know, and of the   *)
(* value of each key.                                                      *)
NodeDecodes(p) ==
    /\ p.tag \in POLICY_TAGS
    /\ DOMAIN p = {"tag"} \cup PolicyKeys[p.tag]
    /\ CASE p.tag = "HasPermission" -> /\ isValidSegment(p.permission.resource)
                                       /\ isValidSegment(p.permission.action)
         [] p.tag = "HasRole" -> isValidSegment(p.role)
         [] p.tag \in {"HasAttribute", "HasResourceAttribute"} ->
                MatcherDecodes(p.matcher)
         [] p.tag = "HasRelationship" ->
                /\ isValidSegment(p.relation)
                /\ p.depth = Undefined \/ RelationshipDepth(p.depth)
         [] p.tag = "HasAction" -> isValidSegment(p.action)
         [] p.tag \in {"HasActed", "HasNotActed"} ->
                isValidSegment(p.event) /\ p.scope \in HistoryScope
         [] p.tag = "HasSignature" -> p.scope \in HistoryScope
         [] p.tag \in {"AllOf", "AnyOf"} -> isFieldStrategy(p.fieldStrategy)
         [] p.tag = "Rules" -> /\ p.combining \in Combining
                               /\ \A i \in DOMAIN p.rules : RuleDecodes(p.rules[i])
         [] p.tag = "Labeled" -> isValidSegment(p.label)
         [] OTHER -> TRUE

RECURSIVE Decodes(_)
Decodes(p) ==
    /\ NodeDecodes(p)
    /\ \A i \in DOMAIN childrenOf(p) : Decodes(childrenOf(p)[i])

(* Depth is judged before the schema.                                      *)
fromJsonValue(p) ==
    IF exceedsJsonDepth(p) THEN "PolicyDecodeTooDeep"
    ELSE IF Decodes(p) THEN "decoded" ELSE "SchemaError"

(* A text is what parsing it gave: <<policy>>, or <<>> when it is no JSON. *)
fromJson(text) == IF text = <<>> THEN "SchemaError" ELSE fromJsonValue(text[1])

-----------------------------------------------------------------------------
(***************************************************************************)
(* Rewriting a policy into a shorter one that decides alike                *)
(* (packages/core/src/Simplify.ts).                                        *)
(***************************************************************************)

(* A mutation: an empty composite is absorbed like any other.              *)
AbsorbsEmpty(child, tag, strategy) ==
    child.tag = tag /\ child.fieldStrategy = strategy

absorbable(child, tag, strategy) ==
    /\ child.tag = tag
    /\ child.fieldStrategy = strategy
    /\ \/ tag = "AnyOf" \/ child.policies # <<>>
       \/ fieldStrategyLaws(strategy).emptyIsUnit

unwrappable(strategy) == fieldStrategyLaws(strategy).singletonIsIdentity

flatten(policies, tag, strategy) ==
    FlattenSeq([i \in DOMAIN policies |->
                   IF absorbable(policies[i], tag, strategy)
                   THEN policies[i].policies ELSE <<policies[i]>>])

simplifyComposite(p, simplified) ==
    LET children == flatten(simplified, p.tag, p.fieldStrategy)
    IN  IF Len(children) = 1 /\ unwrappable(p.fieldStrategy) THEN children[1]
        ELSE [p EXCEPT !.policies = children]

RECURSIVE simplify(_)
simplify(p) ==
    LET simplified == [i \in DOMAIN childrenOf(p) |-> simplify(childrenOf(p)[i])]
    IN  CASE IsLeaf(p) -> p
          [] p.tag \in {"AllOf", "AnyOf"} -> simplifyComposite(p, simplified)
          [] p.tag = "Rules" ->
                 [p EXCEPT !.rules = [i \in DOMAIN @ |->
                                         [@[i] EXCEPT !.condition = simplified[i]]]]
          [] p.tag \in {"Not", "Obliged", "Labeled"} ->
                 [p EXCEPT !.policy = simplified[1]]
-----------------------------------------------------------------------------
(* The loop that folds a policy, a matcher or an explanation without       *)
(* recursion (TreeFold.ts).  Nodes are objects, and `children` gives each  *)
(* its children in order; a node's result is here the node with its        *)
(* children's results, of which any other is a function.                   *)

FoldFrame(children, node) == [node |-> node, pending |-> children[node], results |-> <<>>]

(* A frame takes the result of the next child, or of the one it waited for.*)
Pushed(frame, value) == [frame EXCEPT !.results = Append(@, value)]
Advanced(frame) == [frame EXCEPT !.pending = Tail(@)]

RECURSIVE walk(_, _, _, _)
walk(children, ancestors, frame, memo) ==
    LET child == Head(frame.pending)
        onPath == {frame.node} \cup {a.node : a \in Range(ancestors)}
        value == <<frame.node, frame.results>>
        finished == memo @@ (frame.node :> value)
    IN  CASE frame.pending = <<>> /\ ancestors = <<>> ->
                 [throws |-> FALSE, value |-> value]
          [] frame.pending = <<>> /\ ancestors # <<>> ->
                 walk(children, Front(ancestors), Pushed(Last(ancestors), value), finished)
          [] frame.pending # <<>> /\ child \in DOMAIN memo ->
                 walk(children, ancestors, Pushed(Advanced(frame), memo[child]), memo)
          [] frame.pending # <<>> /\ child \notin DOMAIN memo /\ child \in onPath ->
                 [throws |-> TRUE]
          [] OTHER ->
                 walk(children, Append(ancestors, Advanced(frame)),
                      FoldFrame(children, child), memo)

foldTree(children, root) == walk(children, <<>>, FoldFrame(children, root), <<>>)

=============================================================================
