-------------------------------- MODULE Walk --------------------------------
(***************************************************************************)
(* One walk of a policy (packages/core/src/Walk.ts, with the admission of  *)
(* Admission.ts, the stop rules of ShortCircuit.ts and the duties of       *)
(* Obligation.ts).                                                         *)
(*                                                                         *)
(* A policy is a function from its node numbers to its nodes: node 1 is    *)
(* the root, and a node's kids have larger numbers.  Every node has a tag  *)
(* and its kids; the other fields are the ones its tag reads:              *)
(*   Leaf     fields, nesting   any tag that reads the subject, the        *)
(*                              resource or a port, with what it shows     *)
(*                              when it allows and its matcher's nesting   *)
(*   AllOf, AnyOf   strategy                                               *)
(*   Rules    combining, effects    one effect per kid, its condition      *)
(*   Obliged  duty;  Not;  Labeled                                         *)
(*                                                                         *)
(* Each node of the policy is walked by the fiber that evaluates it; under *)
(* a concurrency limit the kids of a composite run at once.  Which way a   *)
(* leaf's question will be answered is fixed at the start, when it is      *)
(* answered is not.                                                        *)
(***************************************************************************)
EXTENDS FieldLattice, FiniteSets, FiniteSetsExt

CONSTANTS
    Policies,   \* the policies asked about
    Limits,     \* values of `concurrency`; 0 stands for undefined
    MaxDepths   \* values of `maxDepth`

ASSUME LimitsAssumption == Limits \subseteq Nat
ASSUME MaxDepthsAssumption == MaxDepths \subseteq Nat

Composites == {"AllOf", "AnyOf", "Rules"}
Wrappers == {"Not", "Obliged", "Labeled"}

(* A policy is a finite tree: every node but the root is a kid once, of one *)
(* node.                                                                   *)
IsTree(p) ==
    LET nodes == DOMAIN p
    IN  /\ nodes \subseteq Nat \ {0} /\ 1 \in nodes /\ IsFiniteSet(nodes)
        /\ \A n \in nodes :
            /\ p[n].tag \in Composites \cup Wrappers \cup {"Leaf"}
            /\ p[n].kids \in Seq({k \in nodes : k > n})
            /\ p[n].tag = "Leaf" => p[n].kids = <<>> /\ p[n].nesting \in Nat
            /\ p[n].tag \in Wrappers => Len(p[n].kids) = 1
        /\ \A n \in nodes \ {1} :
              \E m \in nodes : \E k \in DOMAIN p[m].kids : p[m].kids[k] = n
        /\ \A m, n \in nodes : \A j \in DOMAIN p[m].kids, k \in DOMAIN p[n].kids :
              p[m].kids[j] = p[n].kids[k] => m = n /\ j = k

ASSUME PoliciesAssumption == \A p \in Policies : IsTree(p)

VARIABLES
    question,   \* the policy, maxDepth and concurrency of this walk
    answers,    \* what each leaf will answer: "allow", "deny" or "fail"
    pc,         \* per node: "unasked", "open" or "done"
    fold,       \* per node: a composite's fold over its kids' outcomes
    result      \* per node: its outcome once done
vars == <<question, answers, pc, fold, result>>

Nodes == DOMAIN question.policy
Root == 1
Tag(n) == question.policy[n].tag
Kids(n) == question.policy[n].kids
Leaves == {n \in Nodes : Tag(n) = "Leaf"}
Parent(n) == CHOOSE m \in Nodes : \E k \in DOMAIN Kids(m) : Kids(m)[k] = n
Position(n) == CHOOSE k \in DOMAIN Kids(Parent(n)) : Kids(Parent(n))[k] = n
sequential == question.concurrency = 0

-----------------------------------------------------------------------------
(* Outcomes.  A trace's reason is named by the node whose sentence it is,  *)
(* with the row for a rule table; <<>> is undefined.  `children` counts    *)
(* the child traces it holds: they are the results of its first kids.      *)

Trace(allowed, reason, children, fields, obligations) ==
    [error |-> <<>>, allowed |-> allowed, reason |-> reason,
     children |-> children, visibleFields |-> fields,
     obligations |-> obligations]

allow(reason, children, fields, obligations) ==
    Trace(TRUE, reason, children, fields, obligations)

(* A denial permits nothing: no restriction to carry, and no duty.         *)
deny(reason, children) == Trace(FALSE, reason, children, AllFields, {})

Failure(error) == [deny(<<>>, 0) EXCEPT !.error = error]
PolicyTooDeep == <<"too deep">>
Failed(outcome) == outcome.error # <<>>

unionObligations(a, b) == a \cup b

-----------------------------------------------------------------------------
(* Depth and admission.                                                    *)

depthOf[n \in Nodes] == IF n = Root THEN 0 ELSE depthOf[Parent(n)] + 1

(* A mutation: the depth of a matcher is not counted.                      *)
DepthOfNodesOnly ==
    LET depth[n \in Nodes] ==
            IF Kids(n) = <<>> THEN 0
            ELSE 1 + Max({depth[Kids(n)[k]] : k \in DOMAIN Kids(n)})
    IN  depth[Root]

depthBelow[n \in Nodes] ==
    IF Kids(n) = <<>>
    THEN IF Tag(n) = "Leaf" THEN question.policy[n].nesting ELSE 0
    ELSE 1 + Max({depthBelow[Kids(n)[k]] : k \in DOMAIN Kids(n)})

policyDepth == depthBelow[Root]

admit == policyDepth <= question.maxDepth

-----------------------------------------------------------------------------
(* The folds: the decision rules of each composite, stepped over its kids' *)
(* outcomes in declaration order.  `verdict` is <<>> while the question is *)
(* open.                                                                   *)

anyOfStopsAtAllow(strategy) == fieldStrategyLaws(strategy).decidedByFirst

isCombining(c) == c \in {"DenyOverrides", "PermitOverrides", "FirstApplicable"}
effectiveCombining(c) == IF isCombining(c) THEN c ELSE "DenyOverrides"

rulesDecisiveEffect(c) ==
    CASE effectiveCombining(c) = "DenyOverrides" -> "Deny"
      [] effectiveCombining(c) = "PermitOverrides" -> "Permit"
      [] OTHER -> "none"

begin == [children |-> 0, fieldSets |-> <<>>, obligations |-> {},
          lastReason |-> <<>>, firstApplying |-> 0, firstDecisive |-> 0,
          verdict |-> <<>>]

(* A mutation: only the last allowing child's duties are kept.             *)
LastDutiesOnly(f, t) ==
    LET children == f.children + 1
    IN  IF t.allowed
        THEN [f EXCEPT !.children = children,
                       !.fieldSets = Append(@, t.visibleFields),
                       !.obligations = t.obligations]
        ELSE [f EXCEPT !.children = children,
                       !.verdict = <<deny(t.reason, children)>>]

stepAllOf(f, t) ==
    LET children == f.children + 1
    IN  IF t.allowed
        THEN [f EXCEPT !.children = children,
                       !.fieldSets = Append(@, t.visibleFields),
                       !.obligations = unionObligations(@, t.obligations)]
        ELSE [f EXCEPT !.children = children,
                       !.verdict = <<deny(t.reason, children)>>]

stepAnyOf(n, f, t) ==
    LET children == f.children + 1
        duties == unionObligations(f.obligations, t.obligations)
    IN  IF ~t.allowed
        THEN [f EXCEPT !.children = children, !.lastReason = t.reason]
        ELSE [f EXCEPT !.children = children,
                       !.fieldSets = Append(@, t.visibleFields),
                       !.obligations = duties,
                       !.verdict =
                           IF anyOfStopsAtAllow(question.policy[n].strategy)
                           THEN <<allow(<<>>, children, t.visibleFields, duties)>>
                           ELSE <<>>]

(* The deciding rule: the first decisive one, or else the first to apply.  *)
decideRules(n, f) ==
    LET row == IF f.firstDecisive # 0 THEN f.firstDecisive ELSE f.firstApplying
        t == result[Kids(n)[row]]
    IN  IF row = 0 THEN deny(<<n>>, f.children)
        ELSE IF question.policy[n].effects[row] = "Deny"
             THEN deny(<<n, row>>, f.children)
             ELSE allow(<<n, row>>, f.children, t.visibleFields, t.obligations)

stepRules(n, f, t) ==
    LET row == f.children + 1
        decisive == rulesDecisiveEffect(question.policy[n].combining)
        settles == decisive \in {"none", question.policy[n].effects[row]}
        g == [f EXCEPT !.children = row,
                       !.firstApplying =
                           IF t.allowed /\ @ = 0 THEN row ELSE @,
                       !.firstDecisive =
                           IF t.allowed /\ decisive # "none" /\ settles
                           THEN row ELSE @]
    IN  IF t.allowed /\ settles THEN [g EXCEPT !.verdict = <<decideRules(n, g)>>]
        ELSE g

(* One child's outcome, unless the question is settled: a failure settles  *)
(* it too, as itself.                                                      *)
step(n, f, kid) ==
    LET t == result[kid]
    IN  IF f.verdict # <<>> THEN f
        ELSE IF Failed(t) THEN [f EXCEPT !.verdict = <<t>>]
        ELSE CASE Tag(n) = "AllOf" -> stepAllOf(f, t)
               [] Tag(n) = "AnyOf" -> stepAnyOf(n, f, t)
               [] Tag(n) = "Rules" -> stepRules(n, f, t)

finishAllOf(n, f) ==
    allow(<<>>, f.children, mergeFields(question.policy[n].strategy, f.fieldSets),
          f.obligations)

finishAnyOf(n, f) ==
    IF f.fieldSets # <<>>
    THEN allow(<<>>, f.children,
               mergeFields(question.policy[n].strategy, f.fieldSets),
               f.obligations)
    ELSE deny(IF f.lastReason # <<>> THEN f.lastReason ELSE <<n>>, f.children)

CompositeOutcome(n, f) ==
    CASE f.verdict # <<>> -> f.verdict[1]
      [] f.verdict = <<>> /\ Tag(n) = "AllOf" -> finishAllOf(n, f)
      [] f.verdict = <<>> /\ Tag(n) = "AnyOf" -> finishAnyOf(n, f)
      [] f.verdict = <<>> /\ Tag(n) = "Rules" -> decideRules(n, f)

WrapperOutcome(n, t) ==
    CASE Failed(t) -> t
      [] ~Failed(t) /\ Tag(n) = "Not" ->
            IF t.allowed THEN deny(<<n>>, 1) ELSE allow(<<>>, 1, AllFields, {})
      [] ~Failed(t) /\ Tag(n) = "Obliged" ->
            IF t.allowed
            THEN allow(<<>>, 1, t.visibleFields,
                       unionObligations({question.policy[n].duty}, t.obligations))
            ELSE deny(t.reason, 1)
      [] ~Failed(t) /\ Tag(n) = "Labeled" -> [t EXCEPT !.children = 1]

LeafOutcome(n) ==
    CASE answers[n] = "allow" -> allow(<<>>, 0, question.policy[n].fields, {})
      [] answers[n] = "deny" -> deny(<<n>>, 0)
      [] answers[n] = "fail" -> Failure(<<"leaf", n>>)

-----------------------------------------------------------------------------
Unwalked == Failure(<<"unwalked">>)

Init ==
    /\ question \in [policy : Policies, maxDepth : MaxDepths,
                     concurrency : Limits]
    /\ answers \in [Leaves -> {"allow", "deny", "fail"}]
    /\ pc = [n \in Nodes |-> "unasked"]
    /\ fold = [n \in Nodes |-> begin]
    /\ result = [n \in Nodes |-> Unwalked]

Done(n) == pc[n] = "done"

Finish(n, outcome) ==
    /\ pc' = [pc EXCEPT ![n] = "done"]
    /\ result' = [result EXCEPT ![n] = outcome]
    /\ UNCHANGED <<question, answers>>

(* evaluateNode at its depth: its own guard, or the node is opened.        *)
Enter(n) ==
    IF depthOf[n] > question.maxDepth THEN Finish(n, Failure(PolicyTooDeep))
    ELSE /\ pc' = [pc EXCEPT ![n] = "open"]
         /\ UNCHANGED <<question, answers, result>>

(* Depth is judged on the policy, before any node.                         *)
AdmitRoot ==
    /\ pc[Root] = "unasked"
    /\ IF admit THEN Enter(Root) ELSE Finish(Root, Failure(PolicyTooDeep))
    /\ UNCHANGED fold

(* A mutation: a kid is asked as soon as the one before is answered,       *)
(* before its answer is folded.                                            *)
NextUnfolded(m, k) == \A j \in 1 .. k - 1 : Done(Kids(m)[j])

(* The kid the sequential loop, and a wrapper, comes to next: the loop has *)
(* folded every kid before it and is still open.                           *)
NextInTurn(m, k) == k = fold[m].children + 1

Running(m) == {j \in DOMAIN Kids(m) : pc[Kids(m)[j]] = "open"}

(* A mutation: a slot is taken for the composite itself.                   *)
NextAndSelf(m, k) ==
    /\ \A j \in 1 .. k - 1 : pc[Kids(m)[j]] # "unasked"
    /\ Cardinality(Running(m)) + 1 < question.concurrency

(* The kid Effect.forEach starts next: in input order, within the limit.   *)
NextInForEach(m, k) ==
    /\ \A j \in 1 .. k - 1 : pc[Kids(m)[j]] # "unasked"
    /\ Cardinality(Running(m)) < question.concurrency

(* Node m comes to its k-th kid.                                           *)
AskKid(m, k) ==
    /\ pc[m] = "open" /\ pc[Kids(m)[k]] = "unasked"
    /\ IF sequential \/ Tag(m) \in Wrappers
       THEN NextInTurn(m, k) ELSE NextInForEach(m, k)
    /\ Enter(Kids(m)[k])
    /\ UNCHANGED fold

(* The leaf's question is answered.                                        *)
Answer(n) ==
    /\ Tag(n) = "Leaf" /\ pc[n] = "open"
    /\ Finish(n, LeafOutcome(n))
    /\ UNCHANGED fold

Unwrap(n) ==
    /\ Tag(n) \in Wrappers /\ pc[n] = "open" /\ Done(Kids(n)[1])
    /\ Finish(n, WrapperOutcome(n, result[Kids(n)[1]]))
    /\ UNCHANGED fold

(* A mutation: forEach fails fast, so a failure of a later sibling is      *)
(* folded before an earlier sibling's outcome.                             *)
TakeFailFast(m) ==
    /\ Tag(m) \in Composites /\ pc[m] = "open"
    /\ \E k \in DOMAIN Kids(m) :
        /\ sequential => k = fold[m].children + 1
        /\ Done(Kids(m)[k])
        /\ sequential \/ \A j \in DOMAIN Kids(m) : Done(Kids(m)[j])
        /\ k = fold[m].children + 1 \/ Failed(result[Kids(m)[k]])
        /\ LET f == step(m, fold[m], Kids(m)[k])
           IN  /\ fold' = [fold EXCEPT ![m] = f]
               /\ IF f.verdict # <<>> \/ k = Len(Kids(m))
                  THEN Finish(m, CompositeOutcome(m, f))
                  ELSE UNCHANGED <<question, answers, pc, result>>

(* A kid's outcome is folded: by the sequential loop when it has it, by the*)
(* concurrent path in declaration order once every kid has one.  At a      *)
(* verdict, or past the last kid, the composite returns.                   *)
TakeKid(m) ==
    /\ Tag(m) \in Composites /\ pc[m] = "open"
    /\ \E k \in DOMAIN Kids(m) :
        /\ k = fold[m].children + 1
        /\ Done(Kids(m)[k])
        /\ sequential \/ \A j \in DOMAIN Kids(m) : Done(Kids(m)[j])
        /\ LET f == step(m, fold[m], Kids(m)[k])
           IN  /\ fold' = [fold EXCEPT ![m] = f]
               /\ IF f.verdict # <<>> \/ k = Len(Kids(m))
                  THEN Finish(m, CompositeOutcome(m, f))
                  ELSE UNCHANGED <<question, answers, pc, result>>

(* A composite of nothing has nothing to fold.                             *)
ReturnEmpty(m) ==
    /\ Tag(m) \in Composites /\ pc[m] = "open" /\ Kids(m) = <<>>
    /\ Finish(m, CompositeOutcome(m, fold[m]))
    /\ UNCHANGED fold

NodeStep(n) ==
    \/ \E k \in DOMAIN Kids(n) : AskKid(n, k)
    \/ Answer(n) \/ Unwrap(n) \/ TakeKid(n) \/ ReturnEmpty(n)

Next == AdmitRoot \/ \E n \in Nodes : NodeStep(n)

(* Every port answers in the end, and a fiber that can run does.           *)
Fairness == WF_vars(Next)

Spec == Init /\ [][Next]_vars /\ Fairness

-----------------------------------------------------------------------------
(* What a policy means, whoever walks it and in whatever order.            *)

(* The kid that settles a composite: the first that fails, denies an       *)
(* allOf, allows a first-strategy anyOf, or is an applying rule nothing    *)
(* later can override.                                                     *)
Settles(n, k, t) ==
    \/ Failed(t)
    \/ Tag(n) = "AllOf" /\ ~t.allowed
    \/ Tag(n) = "AnyOf" /\ t.allowed /\ question.policy[n].strategy = "First"
    \/ /\ Tag(n) = "Rules" /\ t.allowed
       /\ CASE question.policy[n].combining = "FirstApplicable" -> TRUE
            [] question.policy[n].combining = "PermitOverrides" ->
                   question.policy[n].effects[k] = "Permit"
            [] OTHER -> question.policy[n].effects[k] = "Deny"

(* The numbers of a set, least first.                                      *)
InOrder(ks) ==
    [i \in 1 .. Cardinality(ks) |->
        CHOOSE k \in ks : Cardinality({j \in ks : j <= k}) = i]

CompositeMeaning(n, ts) ==
    LET settling == {k \in DOMAIN ts : Settles(n, k, ts[k])}
        last == IF settling = {} THEN Len(ts) ELSE Min(settling)
        applying == {k \in 1 .. last : ts[k].allowed}
        row == IF settling # {} THEN last ELSE Min(applying)
        merged == mergeFields(question.policy[n].strategy,
                      [i \in 1 .. Cardinality(applying) |->
                          ts[InOrder(applying)[i]].visibleFields])
        duties == UNION {ts[k].obligations : k \in applying}
    IN  IF settling # {} /\ Failed(ts[last]) THEN ts[last]
        ELSE CASE Tag(n) = "AllOf" /\ settling = {} -> allow(<<>>, last, merged, duties)
               [] Tag(n) = "AnyOf" /\ applying # {} -> allow(<<>>, last, merged, duties)
               [] Tag(n) = "Rules" /\ applying # {} ->
                     IF question.policy[n].effects[row] = "Deny"
                     THEN deny(<<n, row>>, last)
                     ELSE allow(<<n, row>>, last, ts[row].visibleFields,
                                ts[row].obligations)
               [] OTHER -> deny(IF Tag(n) = "Rules" \/ ts = <<>> THEN <<n>>
                                ELSE ts[last].reason, last)

Meaning[n \in Nodes] ==
    IF Tag(n) = "Leaf" THEN LeafOutcome(n)
    ELSE IF Tag(n) \in Wrappers THEN WrapperOutcome(n, Meaning[Kids(n)[1]])
    ELSE CompositeMeaning(n, [k \in DOMAIN Kids(n) |-> Meaning[Kids(n)[k]]])

-----------------------------------------------------------------------------
(* The values stay in their types, and control is a tree: a node is asked  *)
(* only by an open parent, only done nodes have outcomes, and no composite *)
(* runs more kids at once than the limit allows (one at a time without     *)
(* one).  (Walk.ts, evaluateAllOf, evaluateAnyOf, evaluateRules)           *)
WalkTypeOK ==
    /\ question \in [policy : Policies, maxDepth : MaxDepths,
                     concurrency : Limits]
    /\ answers \in [Leaves -> {"allow", "deny", "fail"}]
    /\ pc \in [Nodes -> {"unasked", "open", "done"}]
    /\ DOMAIN fold = Nodes
    /\ DOMAIN result = Nodes
    /\ \A n \in Nodes : ~Done(n) => result[n] = Unwalked
    /\ \A m \in Nodes :
        /\ \A k \in DOMAIN Kids(m) :
              /\ pc[m] = "unasked" => pc[Kids(m)[k]] = "unasked"
              /\ Done(m) => pc[Kids(m)[k]] # "open"
        /\ Cardinality(Running(m)) <= IF sequential THEN 1
                                      ELSE question.concurrency

(* Without a concurrency limit no question is asked that an earlier        *)
(* sibling's answer had already made needless.  (INV-QD-005, INV-QD-017)   *)
NothingNeedlessAsked ==
    sequential =>
        \A m \in Nodes : Tag(m) \in Composites =>
            \A k \in DOMAIN Kids(m) : pc[Kids(m)[k]] # "unasked" =>
                \A j \in 1 .. k - 1 :
                    /\ Done(Kids(m)[j])
                    /\ ~Settles(m, j, result[Kids(m)[j]])

(* Whatever the concurrency and whichever way the answers come in, a node  *)
(* that is done has the outcome the policy means: the same verdict, reason,*)
(* fields, duties and children, and the same failure when it fails.        *)
(* (INV-QD-020; Walk.ts, the folds)                                        *)
ConcurrencyChangesNothing ==
    \A n \in Nodes :
        Done(n) /\ result[n].error # PolicyTooDeep => result[n] = Meaning[n]

(* How deep a walk of everything would go to look at n.                    *)
DepthToReach(n) ==
    depthOf[n] + IF Tag(n) = "Leaf" THEN question.policy[n].nesting ELSE 0

(* A policy is refused as too deep exactly when some node of it lies past  *)
(* the bound, whoever asks and whatever would have been skipped, and then  *)
(* no node is walked; the guard at each node never refuses an admitted one.*)
(* (INV-QD-037; Admission.ts, Policy.ts policyDepth)                       *)
TooDeepIsThePolicys ==
    LET tooDeep == \E n \in Nodes : DepthToReach(n) > question.maxDepth
    IN  /\ pc[Root] = "open" => ~tooDeep
        /\ \A n \in Nodes :
              result[n].error = PolicyTooDeep => n = Root /\ tooDeep
        /\ tooDeep => \A n \in Nodes \ {Root} : pc[n] = "unasked"

(* A node counts towards the root's grant when every node above it allowed *)
(* with it among the children that its trace holds, or as the deciding     *)
(* row of a rule table.                                                    *)
Counts[n \in Nodes] ==
    \/ n = Root
    \/ LET m == Parent(n)
       IN  /\ Counts[m] /\ result[m].allowed
           /\ Position(n) <= result[m].children
           /\ Tag(m) = "Rules" => result[m].reason[2] = Position(n)

(* A grant owes exactly the duties of the obliged branches that granted    *)
(* it: none is dropped where branches are combined, none comes from a      *)
(* branch that denied or did not decide, and a denial owes nothing.        *)
(* (INV-QD-012; Obligation.ts, unionObligations)                           *)
DutiesAreTheGranted ==
    Done(Root) =>
        result[Root].obligations =
            {question.policy[n].duty :
                n \in {m \in Nodes : /\ Tag(m) = "Obliged" /\ Counts[m]
                                     /\ result[m].allowed}}

=============================================================================
