------------------------------- MODULE Matcher -------------------------------
(***************************************************************************)
(* Matchers (packages/core/src/Matcher.ts): what a policy requires of one  *)
(* attribute's value.  A matcher is a record with its tag; a reference is  *)
(* one of the tags of ValueRef, a path the sequence of its parts.          *)
(***************************************************************************)
EXTENDS Integers, Sequences, FiniteSets, SequencesExt, FiniteSetsExt, Functions

-----------------------------------------------------------------------------
(***************************************************************************)
(* The values a matcher is asked about and how two of them compare         *)
(* (packages/core/src/Compare.ts and SecurityLabel.ts).                    *)
(*                                                                         *)
(* A value is a tuple that starts with its kind:                           *)
(*   <<"undefined">>, <<"null">>, <<"NaN">>, <<"Infinity">>                *)
(*   <<"number", n>>   a finite number                                     *)
(*   <<"string", s>>   a text, as the sequence of its letters              *)
(*   <<"boolean", b>>                                                      *)
(*   <<"array", id, elements>>, <<"object", id, properties>>               *)
(* where `id` is the identity `===` compares, and the properties are a     *)
(* function from the object's own keys.                                    *)
(***************************************************************************)

Undefined == <<"undefined">>
Null == <<"null">>
NaN == <<"NaN">>
Infinity == <<"Infinity">>
Number(n) == <<"number", n>>
Text(s) == <<"string", s>>

Kind(v) == v[1]
IsArray(v) == Kind(v) = "array"
IsText(v) == Kind(v) = "string"

(* typeof v === "object" && v !== null *)
isObject(v) == Kind(v) \in {"array", "object"}

isFiniteNumber(v) == Kind(v) = "number"

(* `===`: nothing equals NaN, and an array or an object equals itself only. *)
StrictlyEqual(a, b) ==
    /\ Kind(a) = Kind(b) /\ Kind(a) # "NaN"
    /\ IF isObject(a) THEN a[2] = b[2] ELSE a = b

(* What Array.prototype.includes finds: `===`, and NaN.                    *)
Includes(elements, v) ==
    \E i \in DOMAIN elements :
        \/ StrictlyEqual(elements[i], v)
        \/ Kind(v) = "NaN" /\ Kind(elements[i]) = "NaN"

-----------------------------------------------------------------------------
(* Security labels: an object with a finite level and a list of texts.     *)

(* Schema.is of the label's struct; other keys are no objection.           *)
isSecurityLabel(v) ==
    /\ Kind(v) = "object" /\ {"level", "compartments"} \subseteq DOMAIN v[3]
    /\ isFiniteNumber(v[3]["level"])
    /\ IsArray(v[3]["compartments"])
    /\ \A i \in DOMAIN v[3]["compartments"][3] :
           IsText(v[3]["compartments"][3][i])

Level(label) == label[3]["level"][2]
Compartments(label) == ToSet(label[3]["compartments"][3])

covers(wider, narrower) == narrower \subseteq wider

compareLabels(a, b) ==
    LET aOverB == Level(a) >= Level(b) /\ covers(Compartments(a), Compartments(b))
        bOverA == Level(b) >= Level(a) /\ covers(Compartments(b), Compartments(a))
    IN  CASE aOverB /\ bOverA -> "Equal"
          [] aOverB /\ ~bOverA -> "Dominates"
          [] ~aOverB /\ bOverA -> "DominatedBy"
          [] OTHER -> "Incomparable"

labelDominates(a, b) == compareLabels(a, b) \in {"Equal", "Dominates"}

-----------------------------------------------------------------------------
(* Verdicts: an absent side is told before an incomparable one.            *)

holds(verdict) == verdict = "Held"
heldOrNot(held) == IF held THEN "Held" ELSE "NotHeld"

Judged(value, reference, comparable, held) ==
    IF value = Undefined THEN "ValueAbsent"
    ELSE IF reference = Undefined THEN "ReferenceAbsent"
    ELSE IF ~comparable THEN "Incomparable"
    ELSE heldOrNot(held)

BothFinite(a, b) == isFiniteNumber(a) /\ isFiniteNumber(b)

equalsVerdict(value, reference) ==
    Judged(value, reference, TRUE, StrictlyEqual(value, reference))

differsVerdict(value, reference) ==
    Judged(value, reference, TRUE, ~StrictlyEqual(value, reference))

atLeastVerdict(value, bound) ==
    LET finite == BothFinite(value, bound)
    IN  Judged(value, bound, finite, finite /\ value[2] >= bound[2])

belowVerdict(value, bound) ==
    LET finite == BothFinite(value, bound)
    IN  Judged(value, bound, finite, finite /\ value[2] < bound[2])

memberVerdict(value, values) ==
    Judged(value, Null, TRUE, Includes(values, value))

dominatesVerdict(value, reference) ==
    LET labels == isSecurityLabel(value) /\ isSecurityLabel(reference)
    IN  Judged(value, reference, labels,
               labels /\ labelDominates(value, reference))

CompareOps == {"Eq", "Neq", "Gte", "Lt"}

compareVerdict(op, value, reference) ==
    CASE op = "Eq" -> equalsVerdict(value, reference)
      [] op = "Neq" -> differsVerdict(value, reference)
      [] op = "Gte" -> atLeastVerdict(value, reference)
      [] op = "Lt" -> belowVerdict(value, reference)

-----------------------------------------------------------------------------

eq(ref) == [tag |-> "Eq", ref |-> ref]
neq(ref) == [tag |-> "Neq", ref |-> ref]
dominates(ref) == [tag |-> "Dominates", ref |-> ref]
inArray(values) == [tag |-> "In", values |-> values]
exists == [tag |-> "Exists"]
gte(value) == [tag |-> "Gte", value |-> value]
lt(value) == [tag |-> "Lt", value |-> value]
contains(value) == [tag |-> "Contains", value |-> value]
fieldMatch(field, matcher) ==
    [tag |-> "FieldMatch", field |-> field, matcher |-> matcher]
someMatch(matcher) == [tag |-> "SomeMatch", matcher |-> matcher]
everyMatch(matcher) == [tag |-> "EveryMatch", matcher |-> matcher]
size(matcher) == [tag |-> "Size", matcher |-> matcher]

SubjectRef(path) == [tag |-> "SubjectRef", path |-> path]
SubjectIdRef == [tag |-> "SubjectIdRef"]
ResourceRef(path) == [tag |-> "ResourceRef", path |-> path]
ActionRef == [tag |-> "ActionRef"]
LiteralRef(value) == [tag |-> "LiteralRef", value |-> value]

-----------------------------------------------------------------------------
(* An own property, or undefined: never an inherited one.  An array's own  *)
(* keys, its indices and its length, are left out.                         *)
OwnProperty(v, key) ==
    IF Kind(v) = "object" /\ key \in DOMAIN v[3] THEN v[3][key] ELSE Undefined

RECURSIVE getByPath(_, _)
getByPath(input, path) ==
    IF path = <<>> THEN input
    ELSE getByPath(OwnProperty(input, Head(path)), Tail(path))

lengthOf(v) ==
    CASE IsArray(v) -> Number(Len(v[3]))
      [] IsText(v) -> Number(Len(v[2]))
      [] OTHER -> Undefined

containsValue(v, needle) ==
    \/ IsArray(v) /\ Includes(v[3], needle)
    \/ /\ IsText(v) /\ IsText(needle)
       /\ \E i \in 0 .. Len(v[2]) - Len(needle[2]) :
             SubSeq(v[2], i + 1, i + Len(needle[2])) = needle[2]

(* The context: the subject's attributes and its id, the resource and the  *)
(* action, where either of the last two may be undefined.                  *)
resolveRef(ref, context) ==
    CASE ref.tag = "SubjectRef" -> getByPath(context.subject, ref.path)
      [] ref.tag = "SubjectIdRef" -> context.subjectId
      [] ref.tag = "ResourceRef" -> getByPath(context.resource, ref.path)
      [] ref.tag = "ActionRef" -> context.action
      [] ref.tag = "LiteralRef" -> ref.value

-----------------------------------------------------------------------------
matcherChildrenOf(m) ==
    IF m.tag \in {"FieldMatch", "SomeMatch", "EveryMatch", "Size"}
    THEN <<m.matcher>> ELSE <<>>

refOf(m) == IF m.tag \in {"Eq", "Neq", "Dominates"} THEN <<m.ref>> ELSE <<>>

(* The fold of a matcher, each step one deeper than what it holds.         *)
RECURSIVE matcherDepth(_)
matcherDepth(m) ==
    IF matcherChildrenOf(m) = <<>> THEN 0
    ELSE 1 + matcherDepth(matcherChildrenOf(m)[1])

RECURSIVE referencesRef(_, _)
referencesRef(m, leafTag) ==
    \/ \E ref \in Range(refOf(m)) : ref.tag = leafTag
    \/ \E child \in Range(matcherChildrenOf(m)) : referencesRef(child, leafTag)

referencesAction(m) == referencesRef(m, "ActionRef")
referencesResource(m) == referencesRef(m, "ResourceRef")

-----------------------------------------------------------------------------
RECURSIVE judgeMatcher(_, _, _)
judgeMatcher(m, value, context) ==
    LET inner(v) == holds(judgeMatcher(m.matcher, v, context))
        Needs(comparable, held) == Judged(value, Null, comparable, held)
    IN  CASE m.tag = "Eq" -> equalsVerdict(value, resolveRef(m.ref, context))
          [] m.tag = "Neq" -> differsVerdict(value, resolveRef(m.ref, context))
          [] m.tag = "Dominates" ->
                dominatesVerdict(value, resolveRef(m.ref, context))
          [] m.tag = "In" -> memberVerdict(value, m.values)
          [] m.tag = "Exists" -> Needs(TRUE, value # Null)
          [] m.tag = "Gte" -> atLeastVerdict(value, m.value)
          [] m.tag = "Lt" -> belowVerdict(value, m.value)
          [] m.tag = "Contains" ->
                Needs(IsArray(value) \/ IsText(value),
                      containsValue(value, m.value))
          [] m.tag = "FieldMatch" ->
                Needs(isObject(value), inner(OwnProperty(value, m.field)))
          [] m.tag = "SomeMatch" ->
                Needs(IsArray(value),
                      IsArray(value) /\ \E i \in DOMAIN value[3] : inner(value[3][i]))
          [] m.tag = "EveryMatch" ->
                Needs(IsArray(value),
                      IsArray(value) /\ \A i \in DOMAIN value[3] : inner(value[3][i]))
          [] m.tag = "Size" ->
                Needs(lengthOf(value) # Undefined, inner(lengthOf(value)))

evaluateMatcher(m, value, context) == holds(judgeMatcher(m, value, context))
=============================================================================
