------------------------------ MODULE MCStudies ------------------------------
(***************************************************************************)
(* Role graphs, field sets and policies built one piece at a time, and     *)
(* what must be true of each: of resolving and flattening the roles, of    *)
(* merging the fields, of translating a policy to a query, of simplifying, *)
(* decoding and simulating it.  Beside them what they are used through,    *)
(* each by itself: a simulator's session and the guards of an HTTP API.    *)
(***************************************************************************)
EXTENDS FiniteSets, FiniteSetsExt, Compilers, Role, MCSimulator, MCSession, HttpGuards

-----------------------------------------------------------------------------
(***************************************************************************)
(* The field lattice over bounded inputs: a resource is fixed, and the     *)
(* allowing children of a composite are met one after the other, each with *)
(* its visible-field set.                                                  *)
(***************************************************************************)

CONSTANTS
    MaxSets,    \* allowing children of the composite
    MaxSpecs    \* specs their sets hold, all together

VARIABLES data, sets
fieldVars == <<data, sets>>

Objects(ps) == [p \in ps |-> "object"]
Scalars(ps) == [p \in ps |-> "scalar"]

(* A resource where everything a spec names is an object, one where `a` or *)
(* `a.b` is a scalar, one with an empty object, and one with a real key    *)
(* named "*".                                                              *)
FieldResources ==
    {Objects({<<>>, <<"a">>, <<"a", "b">>})
        @@ Scalars({<<"c">>, <<"a", "c">>, <<"a", "b", "c">>, <<"a", "b", "d">>}),
     Objects({<<>>, <<"a">>}) @@ Scalars({<<"a", "b">>, <<"c">>}),
     Objects({<<>>, <<"a">>, <<"a", "b">>, <<"c">>}),
     Objects({<<>>, <<"a">>, <<"a", "*">>})
        @@ Scalars({<<"a", "*", "b">>, <<"a", "c">>})}

Specs ==
    {<<"a">>, <<"a", "**">>, <<"a", "*">>, <<"a", "b">>, <<"a", "b", "*">>,
     <<"a", "b", "c">>, <<"*">>, <<"a", "*", "b">>, <<"**">>}

FieldSets == {AllFields} \cup {Only(S) : S \in kSubset(0, Specs)
                 \cup kSubset(1, Specs) \cup kSubset(2, Specs)}

SpecsHeld(ss) == FoldLeft(LAMBDA n, s : n + Cardinality(s.specs), 0, ss)

FieldInit == data \in FieldResources /\ sets = <<>>

(* One more allowing child.                                                *)
Take(s) ==
    /\ Len(sets) < MaxSets
    /\ SpecsHeld(Append(sets, s)) <= MaxSpecs
    /\ sets' = Append(sets, s)
    /\ UNCHANGED data

FieldNext == \E s \in FieldSets : Take(s)

-----------------------------------------------------------------------------
projectVisible(f) == IF f.all THEN DOMAIN data ELSE project(data, f.specs)

Held == UNION {sets[i].specs : i \in DOMAIN sets}

Merged(s) == projectVisible(mergeFields(s, sets))
Shown(i) == projectVisible(sets[i])

(* Projecting under several specs at once, by the frame walk with its      *)
(* overlapping tails, shows the root and what each spec discloses by       *)
(* itself: no spec hides or widens what another one grants.  And no merge  *)
(* shows a field no allowing child granted: an intersection shows only     *)
(* what every child shows, a union exactly what some child shows, a first  *)
(* exactly the first child's, and an unknown strategy nothing.             *)
(* (INV-QD-004 and INV-QD-093; FieldPath.ts, projectAt and starOneView;    *)
(* FieldLattice.ts, mergeFields)                                           *)
MergeNeverWidens ==
    /\ project(data, Held) = {<<>>} \cup UNION {Disclosed(data, s) : s \in Held}
    /\ sets # <<>> =>
           /\ \A i \in DOMAIN sets : Merged("Intersection") \subseteq Shown(i)
           /\ Merged("Union") = UNION {Shown(i) : i \in DOMAIN sets}
           /\ Merged("First") = Shown(1)
           /\ Merged("toString") = {<<>>}

-----------------------------------------------------------------------------
(***************************************************************************)
(* Policies built one piece at a time from some leaves, each taken at most *)
(* once and in order: what has no composite yet is put together, in each   *)
(* way there is, or what is whole is wrapped.                              *)
(***************************************************************************)

CONSTANTS
    MaxComposites,   \* composites in one policy
    MaxWraps         \* wrappers in one policy

VARIABLES
    built,  \* the policies not yet in a composite
    spent   \* the last leaf taken, the composites and wrappers so far
builderVars == <<built, spent>>

BuilderInit ==
    /\ built = <<>>
    /\ spent = [leaf |-> 0, composites |-> 0, wraps |-> 0]

PushLeaf(leaves) ==
    \E i \in spent.leaf + 1 .. Len(leaves) :
        /\ built' = Append(built, leaves[i])
        /\ spent' = [spent EXCEPT !.leaf = i]

(* Tables whose rows permit and deny in turn.                              *)
Turns(ps, first) ==
    [i \in DOMAIN ps |-> IF (i % 2 = 1) = first THEN permitWhen(ps[i])
                         ELSE denyWhen(ps[i])]
Tables(ps) ==
    {rules(Turns(ps, first), "FirstApplicable") : first \in BOOLEAN}
        \cup {rules(Turns(ps, TRUE), "DenyOverrides"),
              rules(Turns(ps, FALSE), "PermitOverrides")}

Compose(strategies) ==
    /\ spent.composites < MaxComposites
    /\ Len(built) = 1 => spent.composites = 0
    /\ \/ \E s \in strategies : \E p \in {allOf(built, s), anyOf(built, s)} :
              built' = <<p>>
       \/ Len(built) > 1 /\ \E p \in Tables(built) : built' = <<p>>
    /\ spent' = [spent EXCEPT !.composites = @ + 1]

Wrap ==
    /\ Len(built) = 1 /\ spent.wraps < MaxWraps
    /\ spent.composites < MaxComposites
    /\ \/ built' = <<not(built[1])>>
       \/ /\ spent.composites > 0
          /\ \/ built' = <<labeled(<<"why">>, built[1])>>
             \/ built' = <<obliged([attributes |-> Null], built[1])>>
    /\ spent' = [spent EXCEPT !.wraps = @ + 1]

(* The policies to speak of, once one is whole.                            *)
Whole == {built[i] : i \in IF Len(built) = 1 THEN {1} ELSE {}}

-----------------------------------------------------------------------------

CONSTANT MaxDefinitions  \* role definitions resolved together

VARIABLES
    study,       \* which leaves are composed, or what else is built
    definitions  \* role definitions so far

vars == <<study, definitions, builderVars, fieldVars, sessionVars, guardVars>>

-----------------------------------------------------------------------------
(* Leaves, worlds and rows.                                                *)

Doc == <<"doc">>
Read == <<"read">>
Open == Text(<<"open">>)
Shut == Text(<<"shut">>)

MayRead == hasPermission(permission(Doc, Read), AllFields)
MayWrite == hasPermission(permission(Doc, <<"write">>), AllFields)
Editor == hasRole(<<"editor">>, AllFields)
Reading == hasAction(Read, AllFields)
Cleared == hasAttribute("clearance", gte(Number(2)), AllFields)
InTeam == hasAttribute("team", eq(LiteralRef(Text(<<"red">>))), AllFields)
Approved == hasActed(<<"approve">>, "Any", AllFields)
NotApproved == hasNotActed(<<"approve">>, "Any", AllFields)
IsOpen == hasResourceAttribute("status", eq(LiteralRef(Open)), AllFields)
NotOpen == hasResourceAttribute("status", neq(LiteralRef(Open)), AllFields)
AnyStatus == hasResourceAttribute("status", inArray(<<Null, Shut>>), AllFields)
HasStatus == hasResourceAttribute("status", neq(LiteralRef(Null)), AllFields)
HighScore == hasResourceAttribute("score", gte(Number(1)), AllFields)
LowScore == hasResourceAttribute("score", lt(Number(2)), AllFields)
OddBound == hasResourceAttribute("score", gte(Infinity), AllFields)
Mine == hasResourceAttribute("owner", eq(SubjectIdRef), AllFields)
ByAction == hasResourceAttribute("owner", eq(ActionRef), AllFields)
OwnTeam == hasAttribute("team", eq(ResourceRef(<<"status">>)), AllFields)
SeesTitle == hasRole(<<"editor">>, Only({<<"title">>}))
SeesBody == hasPermission(permission(Doc, Read), Only({<<"body">>, <<"title">>}))
SeesNothing == hasRole(<<"reader">>, Only({}))
Nested == hasAttribute("team", fieldMatch("x", someMatch(size(gte(Number(1))))), AllFields)
DeepLiteral == hasAttribute("team",
    eq(LiteralRef(<<"object", 7, "a" :> <<"object", 8, "b" :> Null>>>>)), AllFields)
BadName == hasRole(<<"a", ":", "b">>, AllFields)

(* Each study: the leaves a policy of it has, each at most once and in the *)
(* order told.                                                             *)
Studies == <<
    <<MayRead, Cleared, Approved>>, <<MayWrite, NotApproved, Reading>>,
    <<Cleared, IsOpen, NotApproved>>, <<Editor, IsOpen, HighScore>>,
    <<NotOpen, LowScore, MayWrite>>, <<AnyStatus, Mine, HasStatus>>,
    <<HighScore, OddBound, Reading>>, <<ByAction, Cleared, InTeam>>,
    <<OwnTeam, MayRead, Approved>>, <<SeesTitle, SeesBody, SeesNothing>>,
    <<SeesBody, Cleared, SeesTitle>>, <<Nested, MayRead, DeepLiteral>>,
    <<BadName, MayRead, InTeam>> >>

Record(id, status, score, owner) ==
    <<"object", id, "id" :> Text(<<"r">>) @@ "status" :> status
                    @@ "score" :> score @@ "owner" :> owner>>

Resources == <<
    Record(1, Open, Number(2), Text(<<"me">>)),
    Record(2, Null, Null, Null),
    Record(3, Shut, Number(0), Text(<<"you">>)),
    Record(4, Open, NaN, Text(<<"me">>)),
    Record(5, Null, Infinity, Text(<<"read">>)) >>

(* The worlds: everything answers yes; everything answers no and the       *)
(* resolver fails; the history breaks down.                                *)
World(clearance, history) ==
    [attribute |-> "clearance" :> clearance,
     acted |-> <<<<"approve">>, Undefined>> :> history,
     related |-> <<>>, custom |-> <<>>, signatures |-> <<>>]
Worlds == << World(<<"ok", Number(3)>>, <<"ok", "Acted">>),
             World(<<"ok", Undefined>>, <<"ok", "NotActed">>),
             World(<<"fail">>, <<"ok", "NotActed">>),
             World(<<"ok", Number(1)>>, <<"defect">>) >>

(* The subject's roles: an editor is a reader, and readers may read.       *)
Definition(name, permissions, inherits) ==
    [name |-> name, permissions |-> permissions, inherits |-> inherits]
House == resolveRoleGraph(<<
    Definition(<<"editor">>, {}, << <<"reader">> >>),
    Definition(<<"reader">>, {permissionKey(permission(Doc, Read))}, <<>>)>>)
Me == fromRoles(Text(<<"me">>), House.resolved, {<<"editor">>}, {},
                <<"object", 9, "team" :> Text(<<"red">>)>>)

(* A policy that never reads the action is asked without one only.         *)
RECURSIVE ReadsAction(_)
ReadsAction(p) ==
    \/ p.tag = "HasAction"
    \/ p.tag \in {"HasAttribute", "HasResourceAttribute"} /\ referencesAction(p.matcher)
    \/ \E i \in DOMAIN childrenOf(p) : ReadsAction(childrenOf(p)[i])

Actions(p) == {Undefined} \cup IF ReadsAction(p) THEN {Text(Read)} ELSE {}
Question(act, resource) ==
    questionOf(Me, [action |-> act, resource |-> resource])

-----------------------------------------------------------------------------
(* Building.                                                               *)

RoleNames == {"a", "b", "c"}
Parents == {<<>>, <<"a">>, <<"b">>, <<"c">>, <<"b", "c">>, <<"c", "b">>, <<"d">>}

(* Above nought, the number of the leaves a policy is composed of: first   *)
(* those to query by, then those to simulate.                              *)
RolesStudy == 0
FieldsStudy == -1
SessionStudy == -2
GuardsStudy == -3
QueryStudies == DOMAIN Studies
(* Those with leaves that grant fields: elsewhere every merge is the same. *)
FieldSeeing == {i \in QueryStudies : SeesTitle \in Range(Studies[i])}
SimulatorStudies == {Len(Studies) + i : i \in DOMAIN SimulatorLeaves}
FieldsAtRest == data = CHOOSE d \in FieldResources : TRUE

Init ==
    /\ study \in {RolesStudy, FieldsStudy, SessionStudy, GuardsStudy}
                    \cup QueryStudies \cup SimulatorStudies
    /\ FieldInit /\ (study # FieldsStudy => FieldsAtRest)
    /\ definitions = <<>> /\ BuilderInit /\ GuardsInit
    /\ IF study = SessionStudy THEN SessionInit
       ELSE makeSimulationSession(<<>>, Nothing, Nothing)

Define ==
    /\ study = RolesStudy /\ Len(definitions) < MaxDefinitions
    /\ \E name \in RoleNames, inherits \in Parents :
           definitions' = Append(definitions, Definition(name, {name}, inherits))
    /\ UNCHANGED <<study, builderVars, fieldVars, sessionVars, guardVars>>

BuildPolicy ==
    /\ study > 0
    /\ \/ PushLeaf((Studies \o SimulatorLeaves)[study])
       \/ Compose(IF study \in FieldSeeing THEN FieldStrategy ELSE {"Intersection"})
       \/ Wrap
    /\ UNCHANGED <<study, definitions, fieldVars, sessionVars, guardVars>>

MergeFields ==
    /\ study = FieldsStudy
    /\ FieldNext
    /\ UNCHANGED <<study, definitions, builderVars, sessionVars, guardVars>>

UseSession ==
    /\ study = SessionStudy
    /\ SessionNext
    /\ UNCHANGED <<study, definitions, builderVars, fieldVars, guardVars>>

GuardAnApi ==
    /\ study = GuardsStudy
    /\ GuardsNext
    /\ UNCHANGED <<study, definitions, builderVars, fieldVars, sessionVars>>

Next == Define \/ BuildPolicy \/ MergeFields \/ UseSession \/ GuardAnApi

(* The policies that are whole, to query by and to simulate.               *)
Queried == IF study \in QueryStudies THEN Whole ELSE {}
Simulated == IF study \in SimulatorStudies THEN Whole ELSE {}

Spec == Init /\ [][Next]_vars

-----------------------------------------------------------------------------
(* A policy that translates to a predicate is decided, of every row and    *)
(* whatever the ports say, as the predicate says.                          *)
PredicateDecides ==
    \A p \in Queried : \A act \in Actions(p), w \in DOMAIN Worlds :
        LET r == toPredicate(p, Question(act, Undefined), Worlds[w])
        IN  r.error = "none" =>
                \A i \in DOMAIN Resources :
                    LET t == Evaluate(p, Question(act, Resources[i]), Worlds[w])
                    IN  /\ ~Failed(t)
                        /\ t.allowed = evaluatePredicate(r.predicate, Resources[i][3])

(* The ports an evaluation asks, in order.                                 *)
RECURSIVE AsksOf(_, _, _)
AsksOf(p, q, world) ==
    LET reached == Len(Asked(p, LAMBDA c : evaluateNode(c, q, world), 1))
    IN  CASE p.tag = "HasAttribute" ->
                 IF p.attribute \in DOMAIN q.subject.attributes[3]
                 THEN <<>> ELSE <<p.attribute>>
          [] p.tag \in {"HasActed", "HasNotActed"} -> <<p.event>>
          [] p.tag \in {"AllOf", "AnyOf", "Rules"} ->
                 FlattenSeq([i \in 1 .. reached |->
                                AsksOf(childrenOf(p)[i], q, world)])
          [] p.tag \in {"Not", "Labeled", "Obliged"} -> AsksOf(p.policy, q, world)
          [] OTHER -> <<>>

RECURSIVE ReadsNoRow(_)
ReadsNoRow(p) ==
    /\ p.tag # "HasResourceAttribute"
    /\ p.tag = "HasAttribute" => ~referencesResource(p.matcher)
    /\ \A i \in DOMAIN childrenOf(p) : ReadsNoRow(childrenOf(p)[i])

(* Of a policy that reads nothing of a row, translating asks the ports     *)
(* what evaluating asks them, in the same order, and ends alike: the same  *)
(* verdict or the same error.  (INV-QD-058; Predicate.ts:570)              *)
TranslationAsksAsEvaluation ==
    \A p \in Queried : \A act \in Actions(p), w \in DOMAIN Worlds :
        LET q == Question(act, Undefined)
            r == toPredicate(p, q, Worlds[w])
            t == Evaluate(p, q, Worlds[w])
        IN  ReadsNoRow(p) /\ r.error \notin {"PolicyNotTranslatable", "PolicyTooDeep"} =>
                /\ r.asks = AsksOf(p, q, Worlds[w])
                /\ r.error = t.error
                /\ r.error = "none" => r.predicate = constant(t.allowed)

-----------------------------------------------------------------------------
(* The query that is rendered selects the predicate's rows: of a column    *)
(* whose nullability is declared right or not at all exactly those, and    *)
(* none besides when it is declared NOT NULL and is not.  A database that  *)
(* has no such number holds no row with one.                               *)
(* (INV-QD-059; RenderablePredicate.ts, predicate-sql, predicate-prisma)   *)

Declared(columns) == [tag |-> "Declared", nullable |-> columns]
Nullabilities ==
    {[tag |-> "Unknown"], Declared({"status", "score", "owner"}), Declared({})}
IsFalselyDeclared(nullability) == nullability = Declared({})

Model(nullable) ==
    {[name |-> c, kind |-> "scalar", isRequired |-> ~nullable,
      type |-> IF c = "score" THEN "Float" ELSE "String"] :
        c \in {"status", "score", "owner"}}

Finite == {i \in DOMAIN Resources : Resources[i][3]["score"] \notin {NaN, Infinity}}

Agrees(selects, predicate, row, falselyDeclared) ==
    IF falselyDeclared THEN selects => evaluatePredicate(predicate, row)
    ELSE selects = evaluatePredicate(predicate, row)

SqlAgrees(predicate) ==
    \A dialect \in SqlDialects, nullability \in Nullabilities :
        LET node == toRenderable(predicate, SqlRules(dialect, nullability, 2))
        IN  IsRefusal(node) \/
                \A i \in IF dialect = "mysql" THEN Finite ELSE DOMAIN Resources :
                    Agrees(SqlSelects(node, Resources[i][3]), predicate,
                           Resources[i][3], IsFalselyDeclared(nullability))

PrismaAgrees(predicate) ==
    \A nullable \in BOOLEAN :
        LET node == toRenderable(predicate, PrismaRules(Model(nullable), 2))
        IN  IsRefusal(node) \/
                \A i \in DOMAIN Resources :
                    Agrees(PrismaSelects(prismaRenderNode(node), Resources[i][3]),
                           predicate, Resources[i][3], ~nullable)

RenderedQueryAgrees ==
    \A p \in Queried :
        LET r == toPredicate(p, Question(Text(Read), Undefined), Worlds[1])
        IN  r.error = "none" => SqlAgrees(r.predicate) /\ PrismaAgrees(r.predicate)

(* The rows a query selects are those the policy it was made of allows, of *)
(* every row and whatever the ports say, and none of them fails: the       *)
(* predicate decides as the policy does, and what a database is asked in   *)
(* SQL or through Prisma selects as the predicate does.  (INV-QD-058;      *)
(* Predicate.ts, Walk.ts, RenderablePredicate.ts, both compilers)          *)
QuerySelectsTheAllowed == PredicateDecides /\ RenderedQueryAgrees

-----------------------------------------------------------------------------
(* A simplified policy decides every question as the policy does, with the *)
(* same visible fields, the same duties and the same failure, and is never *)
(* deeper.  (INV-QD-027; Simplify.ts)                                      *)
SimplifyKeepsTheDecision ==
    \A p \in Queried : simplify(p) # p =>
        /\ policyDepth(simplify(p)) <= policyDepth(p)
        /\ \A act \in Actions(p), w \in DOMAIN Worlds, i \in DOMAIN Resources :
               LET q == Question(act, Resources[i])
                   t == evaluateNode(p, q, Worlds[w])
                   u == evaluateNode(simplify(p), q, Worlds[w])
               IN  /\ <<t.error, t.allowed, t.obligations>>
                          = <<u.error, u.allowed, u.obligations>>
                   /\ sameVisibleFields(t.visibleFields, u.visibleFields)

(* How deep the data in a policy nests.                                    *)
RECURSIVE DataDepth(_)
DataDepth(p) ==
    LET own == IF p.tag = "HasAttribute" /\ p.matcher.tag = "Eq"
               THEN RefDepth(p.matcher.ref) - 1 ELSE 0
    IN  Max({own} \cup {DataDepth(childrenOf(p)[i]) : i \in DOMAIN childrenOf(p)})

(* A policy that evaluation would admit and whose names are well formed is *)
(* not refused by the guard on a document's depth, unless the values in it *)
(* nest deeper than the headroom.  (Policy.ts:955-965)                     *)
AdmittedIsDecodable ==
    \A p \in Queried :
        admit(p, DEFAULT_MAX_DEPTH) /\ Decodes(p) /\ DataDepth(p) <= DEFAULT_MAX_DEPTH - 3
            => fromJson(<<p>>) = "decoded"

-----------------------------------------------------------------------------
(* What MCSimulator says of a policy, of each that is simulated: its ports *)
(* asked over a wire, a capture replayed, the remedies for it, and a       *)
(* logged decision compared with a new one.  What stands in for the ports, *)
(* a client of them or a capture, is decided by as they are.               *)
(* (PortRemote.ts; Capture.ts:7-14, INV-QD-043)                            *)
StandInsDecideAsThePorts ==
    \A p \in Simulated : DecidesRemotelyAsLocally(p) /\ ReplaysWhatItCaptured(p)

(* What a simulator tells of its runs is so: a remedy it proposes does     *)
(* remedy, and a run said to match the logged decision does match it.      *)
(* (Remedies.ts:9-15, BEH-QD-223; Replay.ts:106-173, TraceDiff.ts:156)     *)
AdviceIsTrue == \A p \in Simulated : RemediesWork(p) /\ BaselinesAreHonest(p)

-----------------------------------------------------------------------------
(* What a name inherits, by the definitions.                               *)
Defined == {definitions[i].name : i \in DOMAIN definitions}
ParentsOf(name) == Range(byName(definitions, name).inherits)

RECURSIVE Ancestry(_)
Ancestry(names) ==
    LET more == names \cup UNION {ParentsOf(n) : n \in names \cap Defined}
    IN  IF more = names THEN names ELSE Ancestry(more)

Resolution == resolveRoleGraph(definitions)

(* A role graph is refused when a name is defined twice or inherits        *)
(* itself, however far round; the cycle told is one, each name inheriting  *)
(* the next; and the names nothing defines are told.                       *)
RefusedRightly ==
    IF DuplicateNames(definitions) # {}
    THEN Resolution.error = "DuplicateRoleDefinition"
    ELSE
        LET circular == {n \in Defined : n \in Ancestry(ParentsOf(n))}
            cycle == Resolution.cycle
        IN  /\ (Resolution.error = "CircularRoleInheritance") <=> circular # {}
            /\ cycle # <<>> =>
                   /\ \A i \in 1 .. Len(cycle) - 1 : cycle[i + 1] \in ParentsOf(cycle[i])
                   /\ Last(cycle) \in Range(Front(cycle))
            /\ circular = {} =>
                   /\ DOMAIN Resolution.resolved = Defined
                   /\ Resolution.unknown = Ancestry(Defined) \ Defined

(* A role grants what it and its ancestors define and nothing else, and    *)
(* the provenance tells each grant once, by a path that inherits all the   *)
(* way from the role to the one that grants it.                            *)
GrantsAreTheClosure ==
    Resolution.error = "none" =>
        \A name \in Defined :
            LET graph == Resolution.resolved
                grants == permissionProvenance(graph, name)
                From(path) == /\ Head(path) = name
                              /\ \A i \in 1 .. Len(path) - 1 :
                                    path[i + 1] \in ParentsOf(path[i])
            IN  /\ flattenPermissions(graph, name) = Ancestry({name}) \cap Defined
                /\ {g.permission : g \in Range(grants)} = flattenPermissions(graph, name)
                /\ \A g \in Range(grants) : From(g.path) /\ Last(g.path) = g.grantedBy
                /\ Cardinality(Range(grants)) = Len(grants)
                /\ \A i, j \in DOMAIN grants :
                       grants[i].permission = grants[j].permission => i = j

(* The explorer's tree shows every role there is under a role, one of its  *)
(* showings not marked a repetition; and its two counts are of the grants. *)
RECURSIVE ShownIn(_)
ShownIn(node) ==
    FoldLeft(LAMBDA shown, kid : shown \o ShownIn(kid), <<node>>, node.children)

ExplorerShowsTheRoles ==
    Resolution.error = "none" =>
        \A name \in Defined :
            LET graph == Resolution.resolved
                summary == roleSummary(graph, name)
                first == SelectSeq(ShownIn(summary.tree), LAMBDA n : ~n.repeated)
            IN  /\ Len(first) = Cardinality({n.name : n \in Range(first)})
                /\ {n.name : n \in Range(ShownIn(summary.tree))} = roleNames(graph, name)
                /\ {n.name : n \in Range(first)} = roleNames(graph, name)
                /\ UNION {n.own : n \in Range(first)} = flattenPermissions(graph, name)
                /\ summary.ownCount = Cardinality(graph[name].permissions)
                /\ summary.ownCount + summary.inheritedCount
                       = Cardinality(flattenPermissions(graph, name))

(* The definitions are objects to fold over, too: a fold gives what the    *)
(* recursion over the tree gives, whatever is shared in it, and it throws  *)
(* where there is a cycle below and nowhere else.                          *)
ObjectsBelow == [n \in Defined |-> SelectSeq(byName(definitions, n).inherits,
                                            LAMBDA m : m \in Defined)]

RECURSIVE Unshared(_)
Unshared(n) ==
    <<n, [i \in DOMAIN ObjectsBelow[n] |-> Unshared(ObjectsBelow[n][i])]>>

FoldsAsTheTree ==
    \A n \in Defined :
        LET folded == foldTree(ObjectsBelow, n)
            onCycle == {m \in Defined : m \in Ancestry(ParentsOf(m))}
        IN  /\ folded.throws <=> Ancestry({n}) \cap onCycle # {}
            /\ ~folded.throws => folded.value = Unshared(n)

(* Of every graph of role definitions: circular and repeated ones are      *)
(* refused and no others, and in what is resolved a role grants exactly    *)
(* what it inherits, which is what the explorer shows of it.  The same     *)
(* graphs, as objects, fold as the trees they unfold to.                   *)
(* (Role.ts:58, 134, 270; RoleTree.ts:21-26; TreeFold.ts:15-27)            *)
RolesResolve ==
    RefusedRightly /\ GrantsAreTheClosure /\ ExplorerShowsTheRoles /\ FoldsAsTheTree

=============================================================================
