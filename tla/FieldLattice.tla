----------------------------- MODULE FieldLattice -----------------------------
(***************************************************************************)
(* The visible-field lattice and its merges                                *)
(* (packages/core/src/FieldLattice.ts).                                    *)
(*                                                                         *)
(* A visible-field set is `undefined`, the lattice's top (every field), or *)
(* a present array of specs, kept here as the set of its specs: the code   *)
(* sorts every array it builds.                                            *)
(***************************************************************************)
EXTENDS Naturals, Sequences, SequencesExt

-----------------------------------------------------------------------------
(***************************************************************************)
(* What a field spec means (packages/core/src/FieldPath.ts).               *)
(*                                                                         *)
(* A spec is the text of a dot-path; `parseFieldPath` splits it on ".",    *)
(* which loses nothing, so a spec here is its nonempty sequence of         *)
(* segments.  Only the last segment may be a wildcard.                     *)
(*                                                                         *)
(* A resource is a function from the paths it has (a prefix-closed set     *)
(* that holds the root <<>>) to "object" for a plain object and "scalar"   *)
(* for anything else, an array included.  A projection is the set of paths *)
(* it shows: an object whose path is shown without any below it is shown   *)
(* present and empty.                                                      *)
(***************************************************************************)

Unbounded == "unbounded"

(* The concrete segments before the terminal, and how far past them the    *)
(* spec reaches: one level for "*", without bound for "**" and a literal.  *)
shapeOf(spec) ==
    IF Last(spec) = "*" THEN [path |-> Front(spec), reach |-> "one"]
    ELSE IF Last(spec) = "**" THEN [path |-> Front(spec), reach |-> Unbounded]
    ELSE [path |-> spec, reach |-> Unbounded]

(* A mutation: a bounded spec above is taken to contain what lies below.   *)
AncestorContains(a, b) ==
    IF a.path = b.path
    THEN IF a.reach = b.reach THEN "Equal"
         ELSE IF a.reach = "one" THEN "ALessB" ELSE "BLessA"
    ELSE IF IsStrictPrefix(a.path, b.path) THEN "BLessA"
    ELSE IF IsStrictPrefix(b.path, a.path) THEN "ALessB"
    ELSE "Incomparable"

(* "ALessB": a discloses a subset of what b discloses, of any data.        *)
compareShapes(a, b) ==
    IF a.path = b.path
    THEN IF a.reach = b.reach THEN "Equal"
         ELSE IF a.reach = "one" THEN "ALessB" ELSE "BLessA"
    ELSE IF IsStrictPrefix(a.path, b.path) /\ a.reach = Unbounded THEN "BLessA"
    ELSE IF IsStrictPrefix(b.path, a.path) /\ b.reach = Unbounded THEN "ALessB"
    ELSE "Incomparable"

-----------------------------------------------------------------------------
(* Projecting: the walk keeps, at each path it descends to, the tails of   *)
(* the specs that led there.                                               *)

Wildcard(tail) == tail \in {<<"*">>, <<"**">>}

grantsWhole(tails) == <<>> \in tails \/ <<"**">> \in tails

starOne(tails) == <<"*">> \in tails

(* The tails that descend into `key`, each with that segment consumed.     *)
Descend(tails, key) ==
    {Tail(t) : t \in {u \in tails : ~Wildcard(u) /\ u # <<>> /\ Head(u) = key}}

Beneath(data, p) == {q \in DOMAIN data : IsPrefix(p, q)}
Children(data, p) ==
    {q \in DOMAIN data : Len(q) = Len(p) + 1 /\ IsPrefix(p, q)}

(* What the specs show of the data.  out[p] is what the frame at p         *)
(* assembles: a child whose tails grant it whole, or whose own frame (an   *)
(* object's) shows something, or which a "*" at p grants by itself.        *)
project(data, specs) ==
    LET tails[p \in DOMAIN data] ==
            IF p = <<>> THEN specs ELSE Descend(tails[Front(p)], Last(p))
        out[p \in DOMAIN data] ==
            UNION {LET inner == IF grantsWhole(tails[q]) THEN Beneath(data, q)
                                ELSE IF data[q] = "object" THEN out[q] ELSE {}
                   IN  IF inner # {} \/ starOne(tails[p])
                       THEN {q} \cup inner ELSE {} :
                   q \in Children(data, p)}
    IN  IF grantsWhole(specs) THEN DOMAIN data ELSE {<<>>} \cup out[<<>>]

-----------------------------------------------------------------------------
(* What one spec discloses, read off its shape alone: everything at or     *)
(* below its path, or exactly the children of its path, and the way there. *)
Disclosed(data, spec) ==
    LET s == shapeOf(spec)
        reached == {p \in DOMAIN data :
                        /\ IsPrefix(s.path, p)
                        /\ s.reach = "one" => Len(p) = Len(s.path) + 1}
    IN  {p \in DOMAIN data : \E q \in reached : IsPrefix(p, q)}

-----------------------------------------------------------------------------

AllFields == [all |-> TRUE, specs |-> {}]
Only(specs) == [all |-> FALSE, specs |-> specs]

(* Which of two specs an intersection keeps of a pair, as the set of what  *)
(* is kept.  Two specs of equal shape differ only in a trailing "**", so   *)
(* the one whose text is smaller is the shorter one.                       *)
Smaller(a, b) == IF Len(a) <= Len(b) THEN a ELSE b

Keep(a, b) ==
    LET cmp == compareShapes(shapeOf(a), shapeOf(b))
    IN  IF cmp = "Equal" THEN {Smaller(a, b)}
        ELSE IF cmp = "ALessB" THEN {a}
        ELSE IF cmp = "BLessA" THEN {b}
        ELSE {}

intersectFields(a, b) ==
    IF a.all THEN b
    ELSE IF b.all THEN a
    ELSE Only(UNION {Keep(x, y) : x \in a.specs, y \in b.specs})

unionFields(a, b) ==
    IF a.all \/ b.all THEN AllFields ELSE Only(a.specs \cup b.specs)

(* Every spec of `narrow` is covered by one spec of `wide`.                *)
CoveredBy(narrow, wide) ==
    \A n \in narrow : \E w \in wide :
        compareShapes(shapeOf(n), shapeOf(w)) \in {"Equal", "ALessB"}

sameVisibleFields(a, b) ==
    IF a.all \/ b.all THEN a.all = b.all
    ELSE CoveredBy(a.specs, b.specs) /\ CoveredBy(b.specs, a.specs)

-----------------------------------------------------------------------------
(* The n-ary merges, one per strategy, over the allowing children's sets.  *)

mergeIntersection(sets) == FoldLeft(intersectFields, AllFields, sets)

mergeUnion(sets) ==
    IF sets = <<>> \/ \E i \in DOMAIN sets : sets[i].all THEN AllFields
    ELSE Only(UNION {sets[i].specs : i \in DOMAIN sets})

mergeFirst(sets) == IF sets = <<>> THEN AllFields ELSE sets[1]

FieldStrategy == {"Intersection", "Union", "First"}
isFieldStrategy(s) == s \in FieldStrategy

(* The three laws other modules read of a strategy.                        *)
LAWS ==
    [Intersection |-> [decidedByFirst |-> FALSE, emptyIsUnit |-> TRUE,
                       singletonIsIdentity |-> TRUE],
     Union |-> [decidedByFirst |-> FALSE, emptyIsUnit |-> FALSE,
                singletonIsIdentity |-> TRUE],
     First |-> [decidedByFirst |-> TRUE, emptyIsUnit |-> FALSE,
                singletonIsIdentity |-> TRUE]]

(* A strategy outside the union fails closed: no law, and no field.        *)
FAIL_CLOSED ==
    [decidedByFirst |-> FALSE, emptyIsUnit |-> FALSE,
     singletonIsIdentity |-> FALSE]

fieldStrategyLaws(s) == IF isFieldStrategy(s) THEN LAWS[s] ELSE FAIL_CLOSED

mergeFields(s, sets) ==
    CASE s = "Intersection" -> mergeIntersection(sets)
      [] s = "Union" -> mergeUnion(sets)
      [] s = "First" -> mergeFirst(sets)
      [] OTHER -> Only({})
=============================================================================
