-------------------------------- MODULE WhatIf --------------------------------
(***************************************************************************)
(* The what-if sweep (packages/devtools/src/model/Edits.ts, Remedies.ts,   *)
(* SimulationEdit.ts, WhatIf.ts and Replay.ts): the edits of an input that *)
(* take away one thing it grants, those that supply one thing the policy   *)
(* asks for, each evaluated and compared with the decision before it.      *)
(*                                                                         *)
(* An edit has its kind, what it is about, the value it sets and the label *)
(* it is told by; a pair has its two parts.                                *)
(***************************************************************************)
EXTENDS Ports, TraceDiff

-----------------------------------------------------------------------------
(***************************************************************************)
(* What-if evaluations (packages/devtools/src/model/Simulation.ts,         *)
(* SimulationInput.ts, SimulationSource.ts and Capture.ts): a policy       *)
(* evaluated on an input made up, against ports made from the input, the   *)
(* live ones, or those that answer what a live run captured.               *)
(*                                                                         *)
(* An input has a subject (its id, its sets of roles and permissions, and  *)
(* its attributes), an action and a resource (either undefined), and       *)
(* `fixtures`, the data of the ports it has any for.                       *)
(***************************************************************************)

subjectOf(self) ==
    [id |-> self.id, roles |-> self.roles, permissions |-> self.permissions,
     attributes |-> <<"object", "subject", self.attributes>>]

evaluationOptionsOf(input) ==
    [subject |-> subjectOf(input.subject), action |-> input.action,
     resource |-> input.resource, maxDepth |-> DEFAULT_MAX_DEPTH]

-----------------------------------------------------------------------------
(* Captures: what each port answered to each key it was asked about.       *)

emptyAnswers == [d \in PortName |-> <<>>]

(* What is kept of one answer: an answer, a failure, or nothing.           *)

record(answer) == IF answer[1] \in {"ok", "fail"} THEN {answer} ELSE {}

(* The live evaluation's requests, each answered by the live ports.        *)
capturing(p, q, ask(_, _)) ==
    LET made == RequestsMade(p, q, Answers(ask, p, q))
        kept(d) == {r \in made : r[1] = d /\ record(ask(d, r[2])) # {}}
    IN  [d \in PortName |->
            [k \in {key(d, r[2]) : r \in kept(d)} |->
                CHOOSE a \in UNION {record(ask(d, r[2])) : r \in
                                       {r \in kept(d) : key(d, r[2]) = k}} : TRUE]]

answerCount(answers) ==
    MapThenSumSet(LAMBDA d : Cardinality(DOMAIN answers[d]), PortName)

(* A captured answer is given again, a captured failure fails again, and   *)
(* what was not captured is what the port answers with nothing wired.      *)
replyOf(captured, d, args) ==
    IF key(d, args) \in DOMAIN captured THEN captured[key(d, args)]
    ELSE Answer(none(d))

replayLayer(answers, d, args) == replyOf(answers[d], d, args)

-----------------------------------------------------------------------------
(* Sources: the ports a simulation is evaluated against.                   *)

fixtures == [tag |-> "Fixtures"]
snapshot(answers) == [tag |-> "Snapshot", answers |-> answers]
live(store) == [tag |-> "Live", store |-> store]

causesIO(source) == source.tag = "Live"

portsOf(source, input, d, args) ==
    CASE source.tag = "Fixtures" ->
             invokeLocal(d, fixturePortsLayer(input.fixtures, <<>>)[d], args)
      [] source.tag = "Snapshot" -> replayLayer(source.answers, d, args)
      [] source.tag = "Live" -> invokeLocal(d, source.store[d], args)

simulate(p, input, source) ==
    LET q == evaluationOptionsOf(input)
    IN  Evaluate(p, q, Answers(LAMBDA d, args : portsOf(source, input, d, args), p, q))

(* A live simulation, and the capture taken of it.                         *)
captureOf(p, input, source) ==
    capturing(p, evaluationOptionsOf(input),
              LAMBDA d, args : portsOf(source, input, d, args))

-----------------------------------------------------------------------------

SubjectId(input) == input.subject.id

FixtureOf(input, d) ==
    IF d \in DOMAIN input.fixtures THEN input.fixtures[d] ELSE {}

AttributeTable(input) ==
    IF "AttributeResolver" \in DOMAIN input.fixtures
    THEN input.fixtures["AttributeResolver"] ELSE <<>>

WithFixture(input, d, data) ==
    [input EXCEPT !.fixtures = (d :> data) @@ input.fixtures]

omitKey(f, k) == [j \in DOMAIN f \ {k} |-> f[j]]

-----------------------------------------------------------------------------
(* Applying an edit.  A drop from a list the input has not is nothing.     *)

Edit(kind, direction, at, value, label) ==
    [kind |-> kind, direction |-> direction, at |-> at, value |-> value,
     label |-> <<kind, label>>]

composeEdits(first, second) ==
    [kind |-> "Pair", parts |-> <<first, second>>,
     direction |-> IF first.direction = second.direction
                   THEN first.direction ELSE "Mixed",
     label |-> <<"Pair", first.label, second.label>>]

ApplyOne(edit, input) ==
    CASE edit.kind = "DropRole" -> [input EXCEPT !.subject.roles = @ \ {edit.at}]
      [] edit.kind = "DropPermission" ->
             [input EXCEPT !.subject.permissions = @ \ {edit.at}]
      [] edit.kind = "DropSubjectAttribute" ->
             [input EXCEPT !.subject.attributes = omitKey(@, edit.at)]
      [] edit.kind = "DropFixtureAttribute" ->
             WithFixture(input, "AttributeResolver",
                         omitKey(AttributeTable(input), edit.at))
      [] edit.kind = "DropRelationship" ->
             WithFixture(input, "RelationshipResolver",
                         FixtureOf(input, "RelationshipResolver") \ {edit.at})
      [] edit.kind = "DropEvent" ->
             WithFixture(input, "DecisionHistory",
                         FixtureOf(input, "DecisionHistory") \ {edit.at})
      [] edit.kind = "GrantRole" ->
             [input EXCEPT !.subject.roles = @ \cup {edit.at}]
      [] edit.kind = "GrantPermission" ->
             [input EXCEPT !.subject.permissions = @ \cup {edit.at}]
      [] edit.kind = "SetSubjectAttribute" ->
             [input EXCEPT !.subject.attributes = (edit.at :> edit.value) @@ @]
      [] edit.kind = "SetResourceAttribute" ->
             [input EXCEPT !.resource =
                 <<"object", <<"edited", @[2]>>, (edit.at :> edit.value) @@ @[3]>>]
      [] edit.kind = "SetAction" -> [input EXCEPT !.action = Text(edit.at)]
      [] edit.kind = "AddRelationship" ->
             WithFixture(input, "RelationshipResolver",
                         FixtureOf(input, "RelationshipResolver") \cup {edit.at})
      [] edit.kind = "AddEvent" ->
             WithFixture(input, "DecisionHistory",
                         FixtureOf(input, "DecisionHistory") \cup {edit.at})

RECURSIVE apply(_, _)
apply(edit, input) ==
    IF edit.kind = "Pair" THEN apply(edit.parts[2], apply(edit.parts[1], input))
    ELSE ApplyOne(edit, input)

RECURSIVE editParts(_)
editParts(edit) ==
    IF edit.kind = "Pair" THEN editParts(edit.parts[1]) \o editParts(edit.parts[2])
    ELSE <<edit>>

applyEdits(input, edits) == FoldLeft(LAMBDA i, edit : apply(edit, i), input, edits)

-----------------------------------------------------------------------------
(* The weakenings.                                                         *)

weaken(kind, at, label) == Edit(kind, "Weaken", at, Undefined, label)

roleDrops(input) == {weaken("DropRole", r, r) : r \in input.subject.roles}
permissionDrops(input) ==
    {weaken("DropPermission", p, p) : p \in input.subject.permissions}
subjectAttributeDrops(input) ==
    {weaken("DropSubjectAttribute", a, a) : a \in DOMAIN input.subject.attributes}
fixtureAttributeDrops(input) ==
    {weaken("DropFixtureAttribute", a, a) : a \in DOMAIN AttributeTable(input)}

(* The subject of a fact is told when it is another's.                     *)
FactLabel(fact, input) ==
    IF fact[1] = SubjectId(input) THEN Tail(fact) ELSE Tail(fact) \o <<fact[1]>>

relationshipDrops(input) ==
    {weaken("DropRelationship", edge, FactLabel(edge, input)) :
        edge \in FixtureOf(input, "RelationshipResolver")}
eventDrops(input) ==
    {weaken("DropEvent", event, FactLabel(event, input)) :
        event \in FixtureOf(input, "DecisionHistory")}

RECURSIVE Listed(_)
Listed(edits) ==
    IF edits = {} THEN <<>>
    ELSE LET edit == CHOOSE e \in edits : TRUE
         IN  <<edit>> \o Listed(edits \ {edit})

(* The first of each label.                                                *)
dedupeByLabel(edits) ==
    LET kept == {i \in DOMAIN edits :
                    \A j \in 1 .. i - 1 : edits[j].label # edits[i].label}
        nth(n) == CHOOSE i \in kept : Cardinality({j \in kept : j < i}) = n - 1
    IN  [n \in 1 .. Cardinality(kept) |-> edits[nth(n)]]

singleEdits(input) ==
    dedupeByLabel(Listed(roleDrops(input)) \o Listed(permissionDrops(input))
        \o Listed(subjectAttributeDrops(input)) \o Listed(fixtureAttributeDrops(input))
        \o Listed(relationshipDrops(input)) \o Listed(eventDrops(input)))

combinations(edits) ==
    FlattenSeq([i \in DOMAIN edits |->
        [j \in 1 .. Len(edits) - i |-> <<edits[i], edits[i + j]>>]])

pairEdits(edits, max) ==
    LET all == combinations(edits)
        pairs == [i \in 1 .. Min({max, Len(all)}) |->
                     composeEdits(all[i][1], all[i][2])]
    IN  [pairs |-> pairs, omitted |-> Len(all) - Len(pairs)]

-----------------------------------------------------------------------------
(* A value a matcher accepts, <<"value", v>>, or <<"cannot">>.             *)

Witness(v) == <<"value", v>>
Cannot == <<"cannot">>

contextOf(input) == context(evaluationOptionsOf(input))

refValue(ref, input) ==
    LET found == resolveRef(ref, contextOf(input))
    IN  IF ref.tag \in {"ActionRef", "SubjectRef", "ResourceRef"} /\ found = Undefined
        THEN Cannot ELSE Witness(found)

(* A mutation: a witness is built and not judged.                          *)
unchecked(m, found, input) == found

checked(m, found, input) ==
    IF found # Cannot /\ judgeMatcher(m, found[2], contextOf(input)) # "Held"
    THEN Cannot ELSE found

MAX_SYNTHESISED_LENGTH == 64

Made(kind, m, children) == Witness(<<kind, <<"made", m>>, children>>)

LeafWitness(m, input) ==
    LET found == IF refOf(m) = <<>> THEN Cannot ELSE refValue(m.ref, input)
    IN  CASE m.tag = "Eq" -> found
          [] m.tag = "Neq" ->
                 IF found = Cannot THEN Cannot
                 ELSE Witness(IF found[2] = Null THEN <<"boolean", FALSE>> ELSE Null)
          [] m.tag = "Dominates" ->
                 IF found # Cannot /\ isSecurityLabel(found[2]) THEN found ELSE Cannot
          [] m.tag = "In" -> IF m.values = <<>> THEN Cannot ELSE Witness(m.values[1])
          [] m.tag = "Exists" -> Witness(<<"boolean", TRUE>>)
          [] m.tag = "Gte" -> IF isFiniteNumber(m.value) THEN Witness(m.value) ELSE Cannot
          [] m.tag = "Lt" ->
                 IF isFiniteNumber(m.value) THEN Witness(Number(m.value[2] - 1)) ELSE Cannot
          [] m.tag = "Contains" -> Made("array", m, <<m.value>>)

WrapperWitness(m, child) ==
    CASE m.tag = "FieldMatch" -> Made("object", m, m.field :> child)
      [] m.tag \in {"SomeMatch", "EveryMatch"} -> Made("array", m, <<child>>)
      [] m.tag = "Size" ->
             IF Kind(child) = "number" /\ child[2] \in 0 .. MAX_SYNTHESISED_LENGTH
             THEN Made("array", m, [i \in 1 .. child[2] |-> Null]) ELSE Cannot

RECURSIVE satisfyingValue(_, _)
satisfyingValue(m, input) ==
    IF matcherChildrenOf(m) = <<>> THEN checked(m, LeafWitness(m, input), input)
    ELSE LET child == satisfyingValue(m.matcher, input)
         IN  IF child = Cannot THEN Cannot ELSE WrapperWitness(m, child[2])

-----------------------------------------------------------------------------
(* The remedies: an edit per requirement the input does not meet, a skip   *)
(* where none can be built, and nothing where it is met.                   *)

RECURSIVE requirementsOf(_)
requirementsOf(p) ==
    CASE p.tag \in {"HasNotActed", "HasCustom", "HasSignature", "Not"} -> {}
      [] p.tag = "Rules" ->
             UNION {requirementsOf(p.rules[i].condition) :
                       i \in {i \in DOMAIN p.rules : p.rules[i].effect = "Permit"}}
      [] IsLeaf(p) /\ p.tag \notin {"HasNotActed", "HasCustom", "HasSignature"} -> {p}
      [] OTHER -> UNION {requirementsOf(childrenOf(p)[i]) : i \in DOMAIN childrenOf(p)}

strengthen(kind, at, value, label) ==
    <<"edit", Edit(kind, "Strengthen", at, value, label)>>
skip(named) == <<"skip", named>>
Met == <<"met">>

resourceIdOf(input) == ResourceId(evaluationOptionsOf(input))

(* As a label writes it: a text bare, anything else as JSON.               *)
render(v) ==
    CASE v = <<"boolean", TRUE>> -> Text(<<"true">>)
      [] v = <<"boolean", FALSE>> -> Text(<<"false">>)
      [] v \in {Null, NaN, Infinity} -> Text(<<"null">>)
      [] OTHER -> v

AttributeRemedy(kind, p, input) ==
    LET witness == satisfyingValue(p.matcher, input)
    IN  IF witness = Cannot THEN skip(<<p.tag, p.attribute>>)
        ELSE strengthen(kind, p.attribute, witness[2],
                        <<p.attribute, render(witness[2])>>)

FactRemedy(kind, d, name, input) ==
    LET fact == <<SubjectId(input), name, resourceIdOf(input)>>
    IN  IF ~IsText(resourceIdOf(input)) THEN skip(<<kind, name>>)
        ELSE IF fact \in FixtureOf(input, d) THEN Met
        ELSE strengthen(kind, fact, Undefined, fact)

remedyFor(p, input) ==
    CASE p.tag = "HasRole" ->
             IF p.role \in input.subject.roles THEN Met
             ELSE strengthen("GrantRole", p.role, Undefined, p.role)
      [] p.tag = "HasPermission" ->
             LET held == permissionKey(p.permission)
             IN  IF held \in input.subject.permissions THEN Met
                 ELSE strengthen("GrantPermission", held, Undefined, held)
      [] p.tag = "HasAction" ->
             IF input.action = Text(p.action) THEN Met
             ELSE strengthen("SetAction", p.action, Undefined, p.action)
      [] p.tag = "HasAttribute" -> AttributeRemedy("SetSubjectAttribute", p, input)
      [] p.tag = "HasResourceAttribute" ->
             IF input.resource = Undefined THEN skip(<<p.tag, p.attribute>>)
             ELSE AttributeRemedy("SetResourceAttribute", p, input)
      [] p.tag = "HasRelationship" ->
             FactRemedy("AddRelationship", "RelationshipResolver", p.relation, input)
      [] p.tag = "HasActed" ->
             FactRemedy("AddEvent", "DecisionHistory", p.event, input)

remedyEdits(p, input) ==
    LET built == {remedyFor(n, input) : n \in requirementsOf(p)}
        chosen(tag) == {b[2] : b \in {b \in built : b[1] = tag}}
    IN  [edits |-> dedupeByLabel(Listed(chosen("edit"))), skipped |-> chosen("skip")]

-----------------------------------------------------------------------------
(* Comparing outcomes, and the sweep.  Errors are told apart by their tag. *)

compareOutcomes(baseline, edited) ==
    CASE Failed(baseline) /\ Failed(edited) ->
             [tag |-> "StillFailed", same |-> baseline.error = edited.error]
      [] Failed(baseline) /\ ~Failed(edited) -> [tag |-> "Recovered"]
      [] ~Failed(baseline) /\ Failed(edited) -> [tag |-> "BecameError"]
      [] OTHER -> [tag |-> "Compared", differences |-> diffTraces(baseline, edited)]

isChanged(comparison) ==
    CASE comparison.tag = "Compared" -> comparison.differences # <<>>
      [] comparison.tag = "StillFailed" -> ~comparison.same
      [] OTHER -> TRUE

sweepPlan(p, input, source, options) ==
    LET weakenings == IF options.weakenings THEN singleEdits(input) ELSE <<>>
        remedies == IF options.remedies THEN remedyEdits(p, input)
                    ELSE [edits |-> <<>>, skipped |-> {}]
        derived == weakenings \o remedies.edits
        paired == IF options.pairs THEN pairEdits(derived, options.maxPairs)
                  ELSE [pairs |-> <<>>, omitted |-> 0]
    IN  [edits |-> derived \o paired.pairs, skipped |-> remedies.skipped,
         omittedPairs |-> paired.omitted, causesIO |-> causesIO(source),
         evaluations |-> Len(derived) + Len(paired.pairs) + 1]

whatIf(p, input, source, options) ==
    LET plan == sweepPlan(p, input, source, options)
        baseline == simulate(p, input, source)
        row(edit) == LET edited == apply(edit, input)
                         outcome == simulate(p, edited, source)
                     IN  [edit |-> edit, input |-> edited, outcome |-> outcome,
                          comparison |-> compareOutcomes(baseline, outcome)]
    IN  [plan |-> plan, baseline |-> baseline,
         rows |-> [i \in DOMAIN plan.edits |-> row(plan.edits[i])]]

changedRows(report) == SelectSeq(report.rows, LAMBDA row : isChanged(row.comparison))

-----------------------------------------------------------------------------
(* A logged decision run again.  Its record names the policy, the action   *)
(* and the resource, of the subject the id only, and its outcome's trace.  *)

replayInput(decision) ==
    [subject |-> [id |-> decision.subjectId, roles |-> {}, permissions |-> {},
                  attributes |-> <<>>],
     action |-> decision.action, resource |-> decision.resource, fixtures |-> <<>>]

caveatOf(p, outcome) ==
    CASE Failed(outcome) -> "BaselineFailed"
      [] ~Failed(outcome) /\ isTruncated(inspect(p, outcome)) -> "TraceUndisclosed"
      [] OTHER -> Absent

baselineDiff(decision, simulated) ==
    [comparison |-> compareOutcomes(decision.outcome, simulated),
     caveat |-> caveatOf(decision.policy, decision.outcome)]

matchesBaseline(b) == b.caveat = Absent /\ ~isChanged(b.comparison)
=============================================================================
