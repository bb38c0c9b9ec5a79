----------------------------- MODULE Predicate ------------------------------
(***************************************************************************)
(* Partial evaluation: a policy and a subject made into a predicate over a *)
(* resource's columns (packages/core/src/Predicate.ts).                    *)
(*                                                                         *)
(* `compileTree` judges the tree alone and gives a plan or a refusal;      *)
(* `run` asks the ports the plan still needs, in order, stopping where the *)
(* evaluator would, and folds what is known.                               *)
(***************************************************************************)
EXTENDS Evaluation

True == [tag |-> "True"]
False == [tag |-> "False"]
constant(b) == IF b THEN True ELSE False
Compare(column, op, value) ==
    [tag |-> "Compare", column |-> column, op |-> op, value |-> value]
MemberOf(column, values) ==
    [tag |-> "MemberOf", column |-> column, values |-> values]

Collapse(kept, unit, tag) ==
    CASE Len(kept) = 0 -> unit
      [] Len(kept) = 1 -> kept[1]
      [] OTHER -> [tag |-> tag, predicates |-> kept]

Holds(ps, tag) == \E i \in DOMAIN ps : ps[i].tag = tag

and(ps) ==
    IF Holds(ps, "False") THEN False
    ELSE Collapse(SelectSeq(ps, LAMBDA p : p.tag # "True"), True, "And")

or(ps) ==
    IF Holds(ps, "True") THEN True
    ELSE Collapse(SelectSeq(ps, LAMBDA p : p.tag # "False"), False, "Or")

negate(p) ==
    CASE p.tag = "True" -> False
      [] p.tag = "False" -> True
      [] OTHER -> [tag |-> "Negate", predicate |-> p]

(* The reference meaning of a predicate, over a row of columns.            *)
RECURSIVE evaluatePredicate(_, _)
evaluatePredicate(p, row) ==
    CASE p.tag = "True" -> TRUE
      [] p.tag = "False" -> FALSE
      [] p.tag = "Compare" -> holds(compareVerdict(p.op, row[p.column], p.value))
      [] p.tag = "MemberOf" -> holds(memberVerdict(row[p.column], p.values))
      [] p.tag = "And" ->
            \A i \in DOMAIN p.predicates : evaluatePredicate(p.predicates[i], row)
      [] p.tag = "Or" ->
            \E i \in DOMAIN p.predicates : evaluatePredicate(p.predicates[i], row)
      [] p.tag = "Negate" -> ~evaluatePredicate(p.predicate, row)

-----------------------------------------------------------------------------
(* Compiling.                                                              *)

planRefused == [tag |-> "Refusal"]
NeedAction == [tag |-> "NeedAction"]
IsRefused(plan) == plan.tag = "Refusal"

(* A reference that is the same for every row, or nothing.                 *)
constantRef(ref, ctx) ==
    IF ref.tag = "ResourceRef" THEN <<>> ELSE <<resolveRef(ref, ctx)>>

columnPredicate(column, m, ctx) ==
    CASE m.tag \in {"Eq", "Neq"} /\ constantRef(m.ref, ctx) # <<>> ->
             <<Compare(column, m.tag, constantRef(m.ref, ctx)[1])>>
      [] m.tag \in {"Gte", "Lt"} -> <<Compare(column, m.tag, m.value)>>
      [] m.tag = "In" -> <<MemberOf(column, m.values)>>
      [] OTHER -> <<>>

RECURSIVE restrictsFields(_)
restrictsFields(p) ==
    \/ ~fieldsOf(p).all
    \/ \E i \in DOMAIN childrenOf(p) : restrictsFields(childrenOf(p)[i])

Constant(b) == [tag |-> "Constant", value |-> b]

compileLeaf(p, q) ==
    LET noAction(m) == q.action = Undefined /\ referencesAction(m)
    IN  CASE p.tag = "HasRole" -> Constant(p.role \in q.subject.roles)
          [] p.tag = "HasPermission" ->
                 Constant(permissionKey(p.permission) \in q.subject.permissions)
          [] p.tag = "HasAction" ->
                 IF q.action = Undefined THEN NeedAction
                 ELSE Constant(q.action = Text(p.action))
          [] p.tag = "HasAttribute" ->
                 IF referencesResource(p.matcher) THEN planRefused
                 ELSE IF noAction(p.matcher) THEN NeedAction
                 ELSE [tag |-> "AskAttribute", leaf |-> p]
          [] p.tag = "HasResourceAttribute" ->
                 LET column == columnPredicate(p.attribute, p.matcher, context(q))
                 IN  IF noAction(p.matcher) THEN NeedAction
                     ELSE IF column = <<>> THEN planRefused
                     ELSE [tag |-> "Column", predicate |-> column[1]]
          [] p.tag \in {"HasActed", "HasNotActed"} ->
                 IF p.scope = "Resource" THEN planRefused
                 ELSE [tag |-> "AskActed", leaf |-> p]
          [] OTHER -> planRefused

RECURSIVE compileTree(_, _)
compileTree(p, q) ==
    LET plans == [i \in DOMAIN childrenOf(p) |-> compileTree(childrenOf(p)[i], q)]
    IN  CASE IsLeaf(p) -> compileLeaf(p, q)
          [] p.tag = "Obliged" \/ \E i \in DOMAIN plans : IsRefused(plans[i]) ->
                 planRefused
          [] p.tag = "Labeled" -> plans[1]
          [] OTHER -> [tag |-> p.tag, of |-> p, plans |-> plans]

-----------------------------------------------------------------------------
(* Running a plan: the predicate, the ports asked in order, and the error  *)
(* that stopped it.                                                        *)

Ran(predicate, asks) == [predicate |-> predicate, asks |-> asks, error |-> "none"]
Stopped(error, asks) == [predicate |-> False, asks |-> asks, error |-> error]

(* The rows of a table that were translated, as one formula.               *)
formulaFor(combining, effects, conditions) ==
    LET Of(effect) == [i \in DOMAIN conditions |->
                          IF effects[i] = effect THEN conditions[i] ELSE False]
        Unmet(k) == [i \in 1 .. k - 1 |-> negate(conditions[i])]
    IN  CASE combining = "PermitOverrides" -> or(Of("Permit"))
          [] combining = "DenyOverrides" ->
                 and(<<negate(or(Of("Deny"))), or(Of("Permit"))>>)
          [] combining = "FirstApplicable" ->
                 or([k \in DOMAIN conditions |->
                        IF effects[k] = "Permit"
                        THEN and(Append(Unmet(k), conditions[k])) ELSE False])

(* A mutation: a composite that cannot stop early stops all the same.      *)
StopsAlways(p, k, predicate) == predicate.tag \in {"True", "False"}

(* Whether the k-th part's predicate leaves nothing to ask.                *)
StopsAt(p, k, predicate) ==
    \/ p.tag = "AllOf" /\ predicate.tag = "False"
    \/ p.tag = "AnyOf" /\ predicate.tag = "True"
         /\ anyOfStopsAtAllow(p.fieldStrategy)
    \/ p.tag = "Rules" /\ predicate.tag = "True"
         /\ rulesDecisiveEffect(p.combining) \in {"none", p.rules[k].effect}

(* The parts run, in order, up to one that fails or stops.                 *)
RECURSIVE RunParts(_, _, _, _)
RunParts(p, plans, runPart(_), k) ==
    IF k > Len(plans) THEN <<>>
    ELSE LET r == runPart(plans[k])
         IN  IF r.error # "none" \/ StopsAt(p, k, r.predicate) THEN <<r>>
             ELSE <<r>> \o RunParts(p, plans, runPart, k + 1)

Conclude(p, ps) ==
    CASE p.tag = "AllOf" -> and(ps)
      [] p.tag = "AnyOf" -> or(ps)
      [] p.tag = "Not" -> negate(ps[1])
      [] p.tag = "Rules" ->
             formulaFor(effectiveCombining(p.combining),
                        [i \in DOMAIN ps |-> p.rules[i].effect], ps)

FromAnswer(answer, asks, predicate) ==
    IF catchPortDefect(answer) # "none"
    THEN Stopped(catchPortDefect(answer), asks) ELSE Ran(predicate, asks)

runAsk(leaf, q, ports) ==
    IF leaf.tag = "HasAttribute"
    THEN LET own == leaf.attribute \in DOMAIN q.subject.attributes[3]
             answer == readAttribute(q, ports, leaf.attribute)
         IN  FromAnswer(answer, IF own THEN <<>> ELSE <<leaf.attribute>>,
                 constant(evaluateMatcher(leaf.matcher, answer[2], context(q))))
    ELSE LET answer == ports.acted[<<leaf.event, Undefined>>]
         IN  FromAnswer(answer, <<leaf.event>>,
                 constant(answer[2] = IF leaf.tag = "HasActed"
                                      THEN "Acted" ELSE "NotActed"))

RECURSIVE run(_, _, _)
run(plan, q, ports) ==
    CASE plan.tag = "Constant" -> Ran(constant(plan.value), <<>>)
      [] plan.tag = "Column" -> Ran(plan.predicate, <<>>)
      [] plan.tag = "NeedAction" -> Stopped("MissingAction", <<>>)
      [] plan.tag \in {"AskAttribute", "AskActed"} -> runAsk(plan.leaf, q, ports)
      [] OTHER ->
             LET rs == RunParts(plan.of, plan.plans,
                                LAMBDA inner : run(inner, q, ports), 1)
                 asks == FlattenSeq([i \in DOMAIN rs |-> rs[i].asks])
             IN  IF rs # <<>> /\ rs[Len(rs)].error # "none"
                 THEN Stopped(rs[Len(rs)].error, asks)
                 ELSE Ran(Conclude(plan.of, [i \in DOMAIN rs |-> rs[i].predicate]),
                          asks)

(* The question is asked without a resource: columns stand for it.         *)
toPredicate(p, question, ports) ==
    LET q == [question EXCEPT !.resource = Undefined]
        plan == compileTree(p, q)
    IN  IF ~admit(p, q.maxDepth) THEN Stopped("PolicyTooDeep", <<>>)
        ELSE IF restrictsFields(p) \/ IsRefused(plan)
        THEN Stopped("PolicyNotTranslatable", <<>>)
        ELSE run(plan, q, ports)

=============================================================================
