------------------------------ MODULE WalkProofs ------------------------------
(***************************************************************************)
(* For every policy, limit and bound on depth: the control of a walk stays *)
(* a tree, no composite runs more kids than its limit, a sequential walk   *)
(* asks nothing that an earlier answer had made needless, every node has   *)
(* the outcome the policy means, a policy is refused as too deep exactly   *)
(* when a node of it is, and a grant owes the duties of what granted it.   *)
(***************************************************************************)
EXTENDS Walk, FiniteSetTheorems, WellFoundedInduction, TLAPS

-----------------------------------------------------------------------------
(***************************************************************************)
(* For every spec and every resource: what the comparison of two specs     *)
(* claims is true of what they disclose, and an intersection keeps the     *)
(* same texts in whatever order it meets its operands.                     *)
(***************************************************************************)

Path == Seq(STRING)
FieldSpec == Path \ {<<>>}
FieldSets == {f \in [all : BOOLEAN, specs : SUBSET FieldSpec] :
                 f.all => f.specs = {}}

-----------------------------------------------------------------------------
(* Prefixes.                                                               *)

LEMMA PrefixByPlace ==
    ASSUME NEW s \in Path, NEW t \in Path
    PROVE  IsPrefix(s, t) <=>
               Len(s) <= Len(t) /\ \A i \in 1 .. Len(s) : s[i] = t[i]
<1>1. ASSUME Len(s) <= Len(t)
      PROVE  /\ SubSeq(s, 1, Len(s)) = [i \in 1 .. Len(s) |-> s[i]]
             /\ SubSeq(t, 1, Len(s)) = [i \in 1 .. Len(s) |-> t[i]]
  BY <1>1 DEF Path
<1>2. QED
  BY <1>1 DEF IsPrefix

LEMMA PrefixTransitive ==
    ASSUME NEW s \in Path, NEW t \in Path, NEW u \in Path,
           IsPrefix(s, t), IsPrefix(t, u)
    PROVE  IsPrefix(s, u)
<1>1. Len(s) \in Nat /\ Len(t) \in Nat /\ Len(u) \in Nat
  BY DEF Path
<1>2. QED
  BY <1>1, PrefixByPlace

LEMMA PrefixAntisymmetric ==
    ASSUME NEW s \in Path, NEW t \in Path, IsPrefix(s, t), IsPrefix(t, s)
    PROVE  s = t
<1>1. Len(s) = Len(t)
  BY PrefixByPlace DEF Path
<1>2. \A i \in 1 .. Len(s) : s[i] = t[i]
  BY PrefixByPlace
<1>3. QED
  BY <1>1, <1>2 DEF Path

(* Two prefixes of one path lie on one line.                               *)
LEMMA PrefixesOfOne ==
    ASSUME NEW s \in Path, NEW t \in Path, NEW u \in Path,
           IsPrefix(s, u), IsPrefix(t, u)
    PROVE  IsPrefix(s, t) \/ IsPrefix(t, s)
<1>1. Len(s) \in Nat /\ Len(t) \in Nat
  BY DEF Path
<1>2. QED
  BY <1>1, PrefixByPlace

LEMMA StrictPrefixTransitive ==
    ASSUME NEW s \in Path, NEW t \in Path, NEW u \in Path,
           IsStrictPrefix(s, t), IsStrictPrefix(t, u)
    PROVE  IsStrictPrefix(s, u)
  BY PrefixTransitive, PrefixAntisymmetric DEF IsStrictPrefix

-----------------------------------------------------------------------------
(* Shapes.                                                                 *)

LEMMA ShapeType ==
    ASSUME NEW a \in FieldSpec
    PROVE  /\ shapeOf(a).path \in Path
           /\ shapeOf(a).reach \in {"one", Unbounded}
           /\ shapeOf(a) = [path |-> shapeOf(a).path, reach |-> shapeOf(a).reach]
<1>1. Front(a) \in Path
  BY DEF FieldSpec, Path, Front
<1>2. a \in Path
  BY DEF FieldSpec
<1>3. QED
  BY <1>1, <1>2 DEF shapeOf

(* Two specs of one shape and one length are one spec.                     *)
LEMMA SpecOfShape ==
    ASSUME NEW a \in FieldSpec, NEW b \in FieldSpec,
           shapeOf(a).path = shapeOf(b).path, shapeOf(a).reach = shapeOf(b).reach,
           Len(a) = Len(b)
    PROVE  a = b
<1>1. /\ a \in Path /\ b \in Path
      /\ Len(a) \in Nat \ {0} /\ Len(b) \in Nat \ {0}
  BY DEF FieldSpec, Path
<1>2. Len(Front(a)) = Len(a) - 1 /\ Len(Front(b)) = Len(b) - 1
  BY <1>1 DEF Front, Path
<1>3. ASSUME Front(a) = Front(b), Last(a) = Last(b) PROVE a = b
  <2>1. \A i \in 1 .. Len(a) - 1 : Front(a)[i] = a[i] /\ Front(b)[i] = b[i]
    BY <1>1 DEF Front, Path
  <2>2. \A i \in 1 .. Len(a) : a[i] = b[i]
    BY <1>1, <1>3, <2>1 DEF Last
  <2>3. QED
    BY <1>1, <2>2 DEF Path
<1>4. CASE Last(a) = "*" \/ Last(b) = "*"
  BY <1>3, <1>4 DEF shapeOf, Unbounded
<1>5. CASE Last(a) = "**" /\ Last(b) = "**"
  BY <1>3, <1>5 DEF shapeOf
<1>6. CASE Last(a) # "*" /\ Last(b) # "*" /\ ~(Last(a) = "**" /\ Last(b) = "**")
  BY <1>1, <1>2, <1>6 DEF shapeOf
<1>7. QED
  BY <1>4, <1>5, <1>6

(* A shape at or below another one, and no wider, reaches no further.      *)
LEMMA ShapeNarrows ==
    ASSUME NEW data, DOMAIN data \subseteq Path,
           NEW a \in FieldSpec, NEW b \in FieldSpec,
           LET s == shapeOf(a)
               t == shapeOf(b)
           IN  \/ s.path = t.path /\ (s.reach = t.reach \/ t.reach # "one")
               \/ IsStrictPrefix(t.path, s.path) /\ t.reach # "one"
    PROVE  Disclosed(data, a) \subseteq Disclosed(data, b)
<1> DEFINE s == shapeOf(a)
           t == shapeOf(b)
<1>1. s.path \in Path /\ t.path \in Path
  BY ShapeType
<1>2. \/ s.path = t.path /\ (s.reach = t.reach \/ t.reach # "one")
      \/ IsStrictPrefix(t.path, s.path) /\ t.reach # "one"
  OBVIOUS
<1> HIDE DEF s, t
<1>3. ASSUME NEW q \in DOMAIN data, IsPrefix(s.path, q),
             s.reach = "one" => Len(q) = Len(s.path) + 1
      PROVE  IsPrefix(t.path, q) /\ (t.reach = "one" => Len(q) = Len(t.path) + 1)
  BY <1>1, <1>2, <1>3, PrefixTransitive DEF IsStrictPrefix
<1>4. QED
  BY <1>3 DEF Disclosed, s, t

(* A spec judged equal to or less than another discloses a subset of it,   *)
(* of every resource. (FieldPath.ts, compareShapes)                        *)
THEOREM ContainmentIsTrue ==
    ASSUME NEW data, DOMAIN data \subseteq Path,
           NEW a \in FieldSpec, NEW b \in FieldSpec,
           compareShapes(shapeOf(a), shapeOf(b)) \in {"Equal", "ALessB"}
    PROVE  Disclosed(data, a) \subseteq Disclosed(data, b)
  BY ShapeType, ShapeNarrows DEF compareShapes, Unbounded

-----------------------------------------------------------------------------
(* The order an intersection goes by: a is kept against b.                 *)

Under(a, b) ==
    LET s == shapeOf(a)
        t == shapeOf(b)
    IN  \/ s.path = t.path /\ s.reach = t.reach /\ Len(a) <= Len(b)
        \/ s.path = t.path /\ s.reach = "one" /\ t.reach # "one"
        \/ IsStrictPrefix(t.path, s.path) /\ t.reach # "one"

LEMMA UnderAntisymmetric ==
    ASSUME NEW a \in FieldSpec, NEW b \in FieldSpec, Under(a, b), Under(b, a)
    PROVE  a = b
<1>1. Len(a) \in Nat /\ Len(b) \in Nat
  BY DEF FieldSpec, Path
<1>2. shapeOf(a).path = shapeOf(b).path /\ shapeOf(a).reach = shapeOf(b).reach
  BY ShapeType, PrefixAntisymmetric DEF Under, IsStrictPrefix
<1>3. Len(a) = Len(b)
  BY <1>1, <1>2 DEF Under, IsStrictPrefix
<1>4. QED
  BY <1>2, <1>3, SpecOfShape

LEMMA UnderTransitive ==
    ASSUME NEW a \in FieldSpec, NEW b \in FieldSpec, NEW c \in FieldSpec,
           Under(a, b), Under(b, c)
    PROVE  Under(a, c)
<1>1. Len(a) \in Nat /\ Len(b) \in Nat /\ Len(c) \in Nat
  BY DEF FieldSpec, Path
<1>2. /\ shapeOf(a).path \in Path /\ shapeOf(b).path \in Path
      /\ shapeOf(c).path \in Path
  BY ShapeType
<1>3. IsStrictPrefix(shapeOf(b).path, shapeOf(a).path)
        /\ IsStrictPrefix(shapeOf(c).path, shapeOf(b).path)
        => IsStrictPrefix(shapeOf(c).path, shapeOf(a).path)
  BY <1>2, StrictPrefixTransitive
<1>4. QED
  BY <1>1, <1>3 DEF Under

(* The specs above one spec lie on one line.                               *)
LEMMA UnderIsAForest ==
    ASSUME NEW a \in FieldSpec, NEW b \in FieldSpec, NEW c \in FieldSpec,
           Under(a, b), Under(a, c)
    PROVE  Under(b, c) \/ Under(c, b)
<1> DEFINE s == shapeOf(a)
           t == shapeOf(b)
           u == shapeOf(c)
<1>1. Len(b) \in Nat /\ Len(c) \in Nat
  BY DEF FieldSpec, Path
<1>2. /\ s.path \in Path /\ t.path \in Path /\ u.path \in Path
      /\ s.reach \in {"one", Unbounded} /\ t.reach \in {"one", Unbounded}
      /\ u.reach \in {"one", Unbounded}
  BY ShapeType
<1>3. \/ t.path = u.path
      \/ IsStrictPrefix(t.path, u.path)
      \/ IsStrictPrefix(u.path, t.path)
  <2>1. \A p \in Path : IsPrefix(p, p)
    BY PrefixByPlace DEF Path
  <2>2. IsPrefix(t.path, s.path) /\ IsPrefix(u.path, s.path)
    BY <1>2, <2>1 DEF Under, IsStrictPrefix
  <2>3. IsPrefix(t.path, u.path) \/ IsPrefix(u.path, t.path)
    BY <1>2, <2>2, PrefixesOfOne
  <2>4. QED
    BY <2>3 DEF IsStrictPrefix
<1>4. CASE t.path = u.path
  BY <1>1, <1>2, <1>4 DEF Under, Unbounded
<1>5. CASE IsStrictPrefix(t.path, u.path)
  <2>1. t.path # s.path
    BY <1>2, <1>5, PrefixAntisymmetric DEF Under, IsStrictPrefix
  <2>2. QED
    BY <1>5, <2>1 DEF Under
<1>6. CASE IsStrictPrefix(u.path, t.path)
  <2>1. u.path # s.path
    BY <1>2, <1>6, PrefixAntisymmetric DEF Under, IsStrictPrefix
  <2>2. QED
    BY <1>6, <2>1 DEF Under
<1>7. QED
  BY <1>3, <1>4, <1>5, <1>6

LEMMA KeepIsLower ==
    ASSUME NEW a \in FieldSpec, NEW b \in FieldSpec
    PROVE  Keep(a, b) = {c \in {a, b} : Under(c, a) /\ Under(c, b)}
<1>1. Len(a) \in Nat /\ Len(b) \in Nat
  BY DEF FieldSpec, Path
<1>2. /\ shapeOf(a).path \in Path /\ shapeOf(b).path \in Path
      /\ shapeOf(a).reach \in {"one", Unbounded}
      /\ shapeOf(b).reach \in {"one", Unbounded}
  BY ShapeType
<1>3. Under(a, a) /\ Under(b, b)
  BY <1>1 DEF Under
<1>4. ~(IsStrictPrefix(shapeOf(a).path, shapeOf(b).path)
          /\ IsStrictPrefix(shapeOf(b).path, shapeOf(a).path))
  BY <1>2, PrefixAntisymmetric DEF IsStrictPrefix
<1>5. Under(a, b) /\ Under(b, a) => a = b
  BY UnderAntisymmetric
<1>6. Keep(a, b) = IF Under(a, b) THEN {a} ELSE IF Under(b, a) THEN {b} ELSE {}
  <2> DEFINE s == shapeOf(a)
             t == shapeOf(b)
  <2>1. Keep(a, b) =
          IF compareShapes(s, t) = "Equal"
          THEN {IF Len(a) <= Len(b) THEN a ELSE b}
          ELSE IF compareShapes(s, t) = "ALessB" THEN {a}
          ELSE IF compareShapes(s, t) = "BLessA" THEN {b} ELSE {}
    BY DEF Keep, Smaller
  <2>2. Under(a, b) <=>
          \/ s.path = t.path /\ s.reach = t.reach /\ Len(a) <= Len(b)
          \/ s.path = t.path /\ s.reach = "one" /\ t.reach # "one"
          \/ IsStrictPrefix(t.path, s.path) /\ t.reach # "one"
    BY DEF Under
  <2>3. Under(b, a) <=>
          \/ s.path = t.path /\ s.reach = t.reach /\ Len(b) <= Len(a)
          \/ s.path = t.path /\ t.reach = "one" /\ s.reach # "one"
          \/ IsStrictPrefix(s.path, t.path) /\ s.reach # "one"
    BY DEF Under
  <2> HIDE DEF s, t
  <2>4. CASE s.path = t.path
    <3>1. ~IsStrictPrefix(s.path, t.path) /\ ~IsStrictPrefix(t.path, s.path)
      BY <2>4 DEF IsStrictPrefix
    <3>2. CASE s.reach = t.reach
      <4>1. compareShapes(s, t) = "Equal"
        BY <2>4, <3>2 DEF compareShapes
      <4>2. QED
        BY <1>1, <2>1, <2>2, <2>3, <2>4, <3>1, <3>2, <4>1
    <3>3. CASE s.reach # t.reach
      <4>1. compareShapes(s, t) = IF s.reach = "one" THEN "ALessB" ELSE "BLessA"
        BY <2>4, <3>3 DEF compareShapes
      <4>2. (s.reach = "one" /\ t.reach # "one") \/ (s.reach # "one" /\ t.reach = "one")
        BY <1>2, <3>3 DEF s, t
      <4>3. QED
        BY <2>1, <2>2, <2>3, <2>4, <3>1, <3>3, <4>1, <4>2
    <3>4. QED
      BY <3>2, <3>3
  <2>5. CASE s.path # t.path
    <3>1. compareShapes(s, t) =
            IF IsStrictPrefix(s.path, t.path) /\ s.reach # "one" THEN "BLessA"
            ELSE IF IsStrictPrefix(t.path, s.path) /\ t.reach # "one" THEN "ALessB"
            ELSE "Incomparable"
      BY <1>2, <2>5 DEF compareShapes, Unbounded, s, t
    <3>2. ~(IsStrictPrefix(s.path, t.path) /\ IsStrictPrefix(t.path, s.path))
      BY <1>4 DEF s, t
    <3>3. QED
      BY <2>1, <2>2, <2>3, <2>5, <3>1, <3>2
  <2>6. QED
    BY <2>4, <2>5
<1>7. QED
  BY <1>3, <1>5, <1>6

(* What an intersection keeps of two sets of specs.                        *)
Kept(A, B) == UNION {Keep(x, y) : x \in A, y \in B}

LEMMA KeptIsLower ==
    ASSUME NEW A \in SUBSET FieldSpec, NEW B \in SUBSET FieldSpec
    PROVE  /\ Kept(A, B) \in SUBSET FieldSpec
           /\ Kept(A, B) = {d \in FieldSpec : \E x \in A, y \in B :
                                d \in {x, y} /\ Under(d, x) /\ Under(d, y)}
  BY KeepIsLower DEF Kept

LEMMA KeptCommutes ==
    ASSUME NEW A \in SUBSET FieldSpec, NEW B \in SUBSET FieldSpec
    PROVE  Kept(A, B) = Kept(B, A)
<1>1. Kept(A, B) = {d \in FieldSpec : \E x \in A, y \in B :
                       d \in {x, y} /\ Under(d, x) /\ Under(d, y)}
  BY KeptIsLower
<1>2. Kept(B, A) = {d \in FieldSpec : \E y \in B, x \in A :
                       d \in {y, x} /\ Under(d, y) /\ Under(d, x)}
  BY KeptIsLower
<1>3. QED
  BY <1>1, <1>2

(* Three sets: what is below one of each, and is one of the three.         *)
LEMMA KeptOfThree ==
    ASSUME NEW A \in SUBSET FieldSpec, NEW B \in SUBSET FieldSpec,
           NEW C \in SUBSET FieldSpec
    PROVE  Kept(Kept(A, B), C) =
               {d \in FieldSpec : \E x \in A, y \in B, z \in C :
                    /\ d \in {x, y, z}
                    /\ Under(d, x) /\ Under(d, y) /\ Under(d, z)}
<1> DEFINE AB == Kept(A, B)
<1>1. AB \in SUBSET FieldSpec
      /\ AB = {d \in FieldSpec : \E x \in A, y \in B :
                  d \in {x, y} /\ Under(d, x) /\ Under(d, y)}
  BY KeptIsLower
<1> HIDE DEF AB
<1>2. Kept(AB, C) = {d \in FieldSpec : \E e \in AB, z \in C :
                         d \in {e, z} /\ Under(d, e) /\ Under(d, z)}
  BY <1>1, KeptIsLower
<1>3. ASSUME NEW d \in FieldSpec, NEW e \in AB, NEW z \in C,
             d \in {e, z}, Under(d, e), Under(d, z)
      PROVE  \E x \in A, y \in B : /\ d \in {x, y, z}
                                   /\ Under(d, x) /\ Under(d, y)
  <2>1. PICK x \in A, y \in B : e \in {x, y} /\ Under(e, x) /\ Under(e, y)
    BY <1>1
  <2>2. Under(d, x) /\ Under(d, y)
    BY <1>1, <1>3, <2>1, UnderTransitive
  <2>3. QED
    BY <1>3, <2>1, <2>2
<1>4. ASSUME NEW d \in FieldSpec, NEW x \in A, NEW y \in B, NEW z \in C,
             d \in {x, y, z}, Under(d, x), Under(d, y), Under(d, z)
      PROVE  \E e \in AB : d \in {e, z} /\ Under(d, e)
  <2>1. CASE d \in {x, y}
    BY <1>1, <1>4, <2>1
  <2>2. CASE d = z
    <3>1. Under(x, y) \/ Under(y, x)
      BY <1>4, UnderIsAForest
    <3>2. Under(x, x) /\ Under(y, y)
      BY DEF Under, FieldSpec, Path
    <3>3. x \in AB \/ y \in AB
      BY <1>1, <3>1, <3>2
    <3>4. QED
      BY <1>4, <2>2, <3>3
  <2>3. QED
    BY <1>4, <2>1, <2>2
<1>5. QED
  BY <1>2, <1>3, <1>4 DEF AB

LEMMA IntersectCases ==
    ASSUME NEW a \in FieldSets, NEW b \in FieldSets
    PROVE  /\ a.all \in BOOLEAN /\ a.specs \in SUBSET FieldSpec
           /\ a.all => intersectFields(a, b) = b
           /\ b.all => intersectFields(a, b) = a
           /\ ~a.all /\ ~b.all =>
                 intersectFields(a, b) = Only(Kept(a.specs, b.specs))
<1>1. a.all \in BOOLEAN /\ a.specs \in SUBSET FieldSpec
  BY DEF FieldSets
<1>2. a.all /\ b.all => a = b
  BY DEF FieldSets
<1>3. QED
  BY <1>1, <1>2 DEF intersectFields, Kept

LEMMA OnlyType ==
    ASSUME NEW S \in SUBSET FieldSpec
    PROVE  Only(S) \in FieldSets /\ ~Only(S).all /\ Only(S).specs = S
  BY DEF Only, FieldSets

LEMMA IntersectType ==
    ASSUME NEW a \in FieldSets, NEW b \in FieldSets
    PROVE  intersectFields(a, b) \in FieldSets
<1>1. CASE a.all \/ b.all
  BY <1>1, IntersectCases
<1>2. CASE ~a.all /\ ~b.all
  <2>1. /\ a.specs \in SUBSET FieldSpec /\ b.specs \in SUBSET FieldSpec
        /\ intersectFields(a, b) = Only(Kept(a.specs, b.specs))
    BY <1>2, IntersectCases
  <2>2. Kept(a.specs, b.specs) \in SUBSET FieldSpec
    BY <2>1, KeptIsLower
  <2>3. QED
    BY <2>1, <2>2, OnlyType
<1>3. QED
  BY <1>1, <1>2

(* What an intersection of two sets discloses, both of them disclose, of   *)
(* every resource. (FieldLattice.ts, intersectFields)                      *)
THEOREM IntersectNarrows ==
    ASSUME NEW data, DOMAIN data \subseteq Path,
           NEW a \in FieldSets, NEW b \in FieldSets, ~a.all, ~b.all,
           NEW d \in intersectFields(a, b).specs
    PROVE  /\ \E x \in a.specs : Disclosed(data, d) \subseteq Disclosed(data, x)
           /\ \E y \in b.specs : Disclosed(data, d) \subseteq Disclosed(data, y)
<1> DEFINE A == a.specs
           B == b.specs
<1>1. /\ A \in SUBSET FieldSpec /\ B \in SUBSET FieldSpec
      /\ intersectFields(a, b) = Only(Kept(A, B))
  BY IntersectCases
<1> HIDE DEF A, B
<1>2. d \in Kept(A, B)
  BY <1>1 DEF Only
<1>3. PICK x \in A, y \in B : d \in FieldSpec /\ Under(d, x) /\ Under(d, y)
  <2>1. Kept(A, B) = {e \in FieldSpec : \E x \in A, y \in B :
                         e \in {x, y} /\ Under(e, x) /\ Under(e, y)}
    BY <1>1, KeptIsLower
  <2>2. QED
    BY <1>2, <2>1
<1>4. x \in FieldSpec /\ y \in FieldSpec
  BY <1>1
<1>5. \A e \in FieldSpec :
          Under(d, e) => Disclosed(data, d) \subseteq Disclosed(data, e)
  BY <1>3, ShapeNarrows DEF Under
<1>6. QED
  BY <1>3, <1>4, <1>5 DEF A, B

(* An intersection is the same whichever operand comes first.              *)
(* (FieldLattice.ts, intersectFields)                                      *)
THEOREM IntersectCommutes ==
    ASSUME NEW a \in FieldSets, NEW b \in FieldSets
    PROVE  intersectFields(a, b) = intersectFields(b, a)
<1>1. CASE a.all \/ b.all
  BY <1>1, IntersectCases
<1>2. CASE ~a.all /\ ~b.all
  <2>1. Kept(a.specs, b.specs) = Kept(b.specs, a.specs)
    BY IntersectCases, KeptCommutes
  <2>2. QED
    BY <1>2, <2>1, IntersectCases
<1>3. QED
  BY <1>1, <1>2

(* An intersection of three is the same whichever two are met first: with  *)
(* IntersectCommutes, a fold over the children does not depend on their    *)
(* order. (FieldLattice.ts, mergeIntersection)                             *)
THEOREM IntersectAssociates ==
    ASSUME NEW a \in FieldSets, NEW b \in FieldSets, NEW c \in FieldSets
    PROVE  intersectFields(intersectFields(a, b), c)
               = intersectFields(a, intersectFields(b, c))
<1>1. CASE a.all
  <2>1. intersectFields(a, b) = b
    BY <1>1, IntersectCases
  <2>2. \A d \in FieldSets : intersectFields(a, d) = d
    BY <1>1, IntersectCases
  <2>3. intersectFields(b, c) \in FieldSets
    BY IntersectType
  <2>4. QED
    BY <2>1, <2>2, <2>3
<1>2. CASE b.all
  BY <1>2, IntersectCases
<1>3. CASE c.all
  <2>1. intersectFields(b, c) = b
    BY <1>3, IntersectCases
  <2>2. \A d \in FieldSets : intersectFields(d, c) = d
    BY <1>3, IntersectCases
  <2>3. intersectFields(a, b) \in FieldSets
    BY IntersectType
  <2>4. QED
    BY <2>1, <2>2, <2>3
<1>4. CASE ~a.all /\ ~b.all /\ ~c.all
  <2> DEFINE A == a.specs
             B == b.specs
             C == c.specs
  <2>1. A \in SUBSET FieldSpec /\ B \in SUBSET FieldSpec /\ C \in SUBSET FieldSpec
    BY IntersectCases
  <2>2. intersectFields(a, b) = Only(Kept(A, B))
        /\ intersectFields(b, c) = Only(Kept(B, C))
    BY <1>4, IntersectCases
  <2> HIDE DEF A, B, C
  <2>3. /\ Kept(A, B) \in SUBSET FieldSpec /\ Kept(B, C) \in SUBSET FieldSpec
        /\ Only(Kept(A, B)) \in FieldSets /\ Only(Kept(B, C)) \in FieldSets
        /\ ~Only(Kept(A, B)).all /\ Only(Kept(A, B)).specs = Kept(A, B)
        /\ ~Only(Kept(B, C)).all /\ Only(Kept(B, C)).specs = Kept(B, C)
    BY <2>1, KeptIsLower, OnlyType
  <2>4. intersectFields(Only(Kept(A, B)), c) = Only(Kept(Kept(A, B), C))
    BY <1>4, <2>3, IntersectCases DEF C
  <2>5. intersectFields(a, Only(Kept(B, C))) = Only(Kept(A, Kept(B, C)))
    BY <1>4, <2>3, IntersectCases DEF A
  <2>6. Kept(A, Kept(B, C)) = Kept(Kept(B, C), A)
    BY <2>1, <2>3, KeptCommutes
  <2>7. Kept(Kept(A, B), C) = Kept(Kept(B, C), A)
    <3>1. Kept(Kept(A, B), C) =
            {d \in FieldSpec : \E x \in A, y \in B, z \in C :
                /\ d \in {x, y, z}
                /\ Under(d, x) /\ Under(d, y) /\ Under(d, z)}
      BY <2>1, KeptOfThree
    <3>2. Kept(Kept(B, C), A) =
            {d \in FieldSpec : \E y \in B, z \in C, x \in A :
                /\ d \in {y, z, x}
                /\ Under(d, y) /\ Under(d, z) /\ Under(d, x)}
      BY <2>1, KeptOfThree
    <3>3. QED
      BY <3>1, <3>2
  <2>8. QED
    BY <2>2, <2>4, <2>5, <2>6, <2>7
<1>5. QED
  BY <1>1, <1>2, <1>3, <1>4

-----------------------------------------------------------------------------

FoldFields == {"children", "fieldSets", "obligations", "lastReason",
               "firstApplying", "firstDecisive", "verdict"}

(* What the two safety properties rest on: an open composite has folded a  *)
(* prefix of its kids, all done, none of which settles it; and a           *)
(* sequential one has asked at most one kid past that prefix.              *)
FoldsOK ==
    \A m \in Nodes : Tag(m) \in Composites =>
        /\ DOMAIN fold[m] = FoldFields
        /\ fold[m].children \in Nat
        /\ pc[m] = "unasked" => fold[m].children = 0
        /\ pc[m] = "open" =>
              \A j \in DOMAIN Kids(m) : j <= fold[m].children =>
                  /\ Done(Kids(m)[j])
                  /\ ~Settles(m, j, result[Kids(m)[j]])
        /\ sequential /\ pc[m] = "open" =>
              \A k \in DOMAIN Kids(m) : pc[Kids(m)[k]] # "unasked" =>
                  k <= fold[m].children + 1

Inv == WalkTypeOK /\ FoldsOK /\ NothingNeedlessAsked

(* The shape of the policy, as the steps of the proofs use it.             *)
Tree ==
    /\ Root \in Nodes
    /\ \A n \in Nodes :
        /\ Tag(n) \in Composites \cup Wrappers \cup {"Leaf"}
        /\ Kids(n) \in Seq(Nodes)
        /\ \A k \in DOMAIN Kids(n) : Kids(n)[k] \in Nodes /\ Kids(n)[k] # Root
                                       /\ Kids(n)[k] # n
        /\ Tag(n) = "Leaf" => Kids(n) = <<>>
        /\ Tag(n) \in Wrappers => Len(Kids(n)) = 1
    /\ \A m, n \in Nodes : \A j \in DOMAIN Kids(m), k \in DOMAIN Kids(n) :
          Kids(m)[j] = Kids(n)[k] => m = n /\ j = k

(* Every policy that is asked about is a tree. (Policy.ts, Policy)         *)
LEMMA PolicyIsTree == ASSUME WalkTypeOK PROVE Tree
<1> DEFINE p == question.policy
<1>1. p \in Policies
  BY DEF WalkTypeOK
<1>2. IsTree(p)
  BY <1>1, PoliciesAssumption
<1> HIDE DEF p
<1>3. DOMAIN p \subseteq Nat \ {0}
  BY <1>2 DEF IsTree
<1>4. ASSUME NEW n \in DOMAIN p
      PROVE  /\ p[n].kids \in Seq(DOMAIN p)
             /\ \A k \in DOMAIN p[n].kids :
                   p[n].kids[k] \in DOMAIN p /\ p[n].kids[k] > n
  <2> DEFINE Later == {k \in DOMAIN p : k > n}
             ks == p[n].kids
  <2>1. ks \in Seq(Later)
    BY <1>2 DEF IsTree
  <2>2. \A k \in Later : k \in DOMAIN p /\ k > n
    OBVIOUS
  <2> HIDE DEF Later, ks
  <2>3. ks \in Seq(DOMAIN p) /\ \A k \in DOMAIN ks : ks[k] \in Later
    BY <2>1, <2>2
  <2>4. QED
    BY <2>2, <2>3 DEF ks
<1>5. \A n \in DOMAIN p : \A k \in DOMAIN p[n].kids :
        p[n].kids[k] # 1 /\ p[n].kids[k] # n
  BY <1>3, <1>4
<1>6. QED
  BY <1>2, <1>4, <1>5 DEF IsTree, Tree, Root, Nodes, Kids, Tag, p

(* A strategy that any composite may stop at is First.                     *)
LEMMA FirstStops == anyOfStopsAtAllow("First")
  BY DEF anyOfStopsAtAllow, fieldStrategyLaws, isFieldStrategy, FieldStrategy, LAWS

(* A step of a fold that leaves the question open took one child, and that *)
(* child does not settle the composite. (Walk.ts, stepAllOf, stepAnyOf and *)
(* the step of evaluateRules)                                              *)
LEMMA StepLeavesOpen ==
    ASSUME NEW n, Tag(n) \in Composites, NEW f, NEW kid,
           DOMAIN f = FoldFields, f.children \in Nat
    PROVE  LET g == step(n, f, kid)
           IN  /\ DOMAIN g = FoldFields
               /\ g.children \in Nat
               /\ g.verdict = <<>> =>
                     /\ g.children = f.children + 1
                     /\ ~Settles(n, f.children + 1, result[kid])
<1> DEFINE t == result[kid]
           g == step(n, f, kid)
           Good == /\ DOMAIN g = FoldFields
                   /\ g.children \in Nat
                   /\ g.verdict = <<>> =>
                         /\ g.children = f.children + 1
                         /\ ~Settles(n, f.children + 1, t)
<1> SUFFICES Good
  OBVIOUS
<1>1. CASE f.verdict # <<>>
  BY <1>1 DEF step
<1>2. CASE f.verdict = <<>> /\ Failed(t)
  BY <1>2 DEF step, FoldFields
<1>3. CASE f.verdict = <<>> /\ ~Failed(t) /\ Tag(n) = "AllOf"
  <2>1. g = stepAllOf(f, t)
    BY <1>3 DEF step
  <2> HIDE DEF g
  <2>2. CASE t.allowed
    BY <2>1, <2>2, <1>3 DEF stepAllOf, FoldFields, Settles
  <2>3. CASE ~t.allowed
    BY <2>1, <2>3 DEF stepAllOf, FoldFields
  <2>4. QED
    BY <2>2, <2>3
<1>4. CASE f.verdict = <<>> /\ ~Failed(t) /\ Tag(n) = "AnyOf"
  <2>1. g = stepAnyOf(n, f, t)
    BY <1>4 DEF step
  <2> HIDE DEF g
  <2>2. CASE t.allowed /\ question.policy[n].strategy = "First"
    BY <2>1, <2>2, FirstStops DEF stepAnyOf, FoldFields
  <2>3. CASE t.allowed /\ question.policy[n].strategy # "First"
    BY <2>1, <2>3, <1>4 DEF stepAnyOf, FoldFields, Settles
  <2>4. CASE ~t.allowed
    BY <2>1, <2>4, <1>4 DEF stepAnyOf, FoldFields, Settles
  <2>5. QED
    BY <2>2, <2>3, <2>4
<1>5. CASE f.verdict = <<>> /\ ~Failed(t) /\ Tag(n) = "Rules"
  <2> DEFINE e == question.policy[n].effects[f.children + 1]
             c == question.policy[n].combining
  <2>1. g = stepRules(n, f, t)
    BY <1>5 DEF step
  <2>2. rulesDecisiveEffect(c) =
          CASE c = "FirstApplicable" -> "none"
            [] c = "PermitOverrides" -> "Permit"
            [] OTHER -> "Deny"
    BY DEF rulesDecisiveEffect, effectiveCombining, isCombining
  <2> HIDE DEF g
  <2>3. CASE t.allowed /\ rulesDecisiveEffect(c) \in {"none", e}
    BY <2>1, <2>3 DEF stepRules, FoldFields
  <2>4. CASE ~(t.allowed /\ rulesDecisiveEffect(c) \in {"none", e})
    <3>1. ~Settles(n, f.children + 1, t)
      BY <2>2, <2>4, <1>5 DEF Settles
    <3>2. DOMAIN g = FoldFields /\ g.children = f.children + 1
      BY <2>1, <2>4 DEF stepRules, FoldFields
    <3>3. QED
      BY <3>1, <3>2
  <2>5. QED
    BY <2>3, <2>4
<1>6. QED
  BY <1>1, <1>2, <1>3, <1>4, <1>5 DEF Composites

Limit == IF sequential THEN 1 ELSE question.concurrency

(* One node moves on: it is opened, or it is done.                         *)
Moves(c, v) ==
    /\ v \in {"open", "done"}
    /\ ~Done(c) /\ (v = "open" => pc[c] = "unasked")
    /\ pc' = [pc EXCEPT ![c] = v]
    /\ UNCHANGED <<question, answers>>
    /\ DOMAIN fold' = Nodes /\ DOMAIN result' = Nodes
    /\ \A n \in Nodes : n # c \/ v = "open" =>
          result'[n] = result[n] /\ fold'[n] = fold[n]

(* What a node that moves on owes the tree around it.                      *)
MayMove(c, v) ==
    /\ \A m \in Nodes : \A k \in DOMAIN Kids(m) : Kids(m)[k] = c =>
          /\ pc[m] = "open"
          /\ v = "open" => Cardinality(Running(m)) < Limit
          /\ sequential /\ Tag(m) \in Composites /\ pc[c] = "unasked" =>
                k = fold[m].children + 1
    /\ v = "done" => \A k \in DOMAIN Kids(c) : pc[Kids(c)[k]] # "open"
    /\ v = "done" /\ Tag(c) \in Composites =>
          DOMAIN fold'[c] = FoldFields /\ fold'[c].children \in Nat

(* What is done stays done, with its outcome.                              *)
LEMMA MoveFacts ==
    ASSUME WalkTypeOK, Tree, NEW c \in Nodes, NEW v, Moves(c, v)
    PROVE  /\ Nodes' = Nodes /\ Leaves' = Leaves
           /\ sequential' = sequential
           /\ \A n \in Nodes :
                /\ Kids(n)' = Kids(n) /\ Tag(n)' = Tag(n)
                /\ pc'[n] = IF n = c THEN v ELSE pc[n]
                /\ Done(n) => Done(n)' /\ result'[n] = result[n]
  BY DEF WalkTypeOK, Moves, Nodes, Leaves, Kids, Tag, sequential, Done

LEMMA RunningFinite ==
    ASSUME Tree, NEW m \in Nodes
    PROVE  IsFiniteSet(Running(m)) /\ Cardinality(Running(m)) \in Nat
<1>1. Kids(m) \in Seq(Nodes)
  BY DEF Tree
<1>2. DOMAIN Kids(m) = 1 .. Len(Kids(m)) /\ Len(Kids(m)) \in Nat
  BY <1>1
<1>3. IsFiniteSet(DOMAIN Kids(m))
  BY <1>2, FS_Interval
<1>4. QED
  BY <1>3, FS_Subset, FS_CardinalityType DEF Running

(* Moving one node changes the count of running kids of its parent alone.  *)
LEMMA MoveKeepsLimit ==
    ASSUME WalkTypeOK, Tree, NEW c \in Nodes, NEW v, Moves(c, v), MayMove(c, v),
           NEW m \in Nodes
    PROVE  Cardinality(Running(m)') <= Limit
<1>0. v \in {"open", "done"} /\ pc[c] # "done"
  BY DEF Moves, Done
<1>1. /\ Kids(m)' = Kids(m)
      /\ \A n \in Nodes : pc'[n] = IF n = c THEN v ELSE pc[n]
  BY MoveFacts
<1>2. \A k \in DOMAIN Kids(m) : Kids(m)[k] \in Nodes
  BY DEF Tree
<1>3. Running(m)' = {j \in DOMAIN Kids(m) : pc'[Kids(m)[j]] = "open"}
  BY <1>1 DEF Running
<1>4. IsFiniteSet(Running(m)) /\ Cardinality(Running(m)) \in Nat
  BY RunningFinite
<1>5. Cardinality(Running(m)) <= Limit /\ Limit \in Int
  <2>1. question.concurrency \in Nat
    BY LimitsAssumption DEF WalkTypeOK
  <2>2. Cardinality(Running(m)) <= IF sequential THEN 1 ELSE question.concurrency
    BY DEF WalkTypeOK
  <2>3. QED
    BY <2>1, <2>2 DEF Limit
<1>6. CASE \E k \in DOMAIN Kids(m) : Kids(m)[k] = c /\ v = "open"
  <2>1. PICK k \in DOMAIN Kids(m) : Kids(m)[k] = c /\ v = "open"
    BY <1>6
  <2>2. Running(m)' = Running(m) \cup {k}
    BY <1>0, <1>1, <1>2, <1>3, <2>1 DEF Running, Tree
  <2>3. Cardinality(Running(m)) < Limit
    BY <2>1 DEF MayMove
  <2>4. Cardinality(Running(m)') \in {Cardinality(Running(m)),
                                      Cardinality(Running(m)) + 1}
    BY <1>4, <2>2, FS_AddElement
  <2>5. QED
    BY <1>4, <1>5, <2>3, <2>4
<1>7. CASE ~\E k \in DOMAIN Kids(m) : Kids(m)[k] = c /\ v = "open"
  <2>1. Running(m)' \subseteq Running(m)
    BY <1>0, <1>1, <1>2, <1>3, <1>7 DEF Running
  <2>2. Cardinality(Running(m)') <= Cardinality(Running(m))
        /\ Cardinality(Running(m)') \in Nat
    BY <1>4, <2>1, FS_Subset, FS_CardinalityType
  <2>3. QED
    BY <1>4, <1>5, <2>2
<1>8. QED
  BY <1>6, <1>7

LEMMA MoveKeepsTypes ==
    ASSUME WalkTypeOK, Tree, NEW c \in Nodes, NEW v, Moves(c, v), MayMove(c, v)
    PROVE  WalkTypeOK'
<1>1. /\ Nodes' = Nodes /\ Leaves' = Leaves /\ sequential' = sequential
      /\ \A n \in Nodes :
            /\ Kids(n)' = Kids(n)
            /\ pc'[n] = IF n = c THEN v ELSE pc[n]
  BY MoveFacts
<1>2. /\ question' = question /\ answers' = answers
      /\ pc' \in [Nodes -> {"unasked", "open", "done"}]
      /\ DOMAIN fold' = Nodes /\ DOMAIN result' = Nodes
  BY DEF WalkTypeOK, Moves
<1>3. ASSUME NEW n \in Nodes, pc'[n] # "done" PROVE result'[n] = Unwalked'
  BY <1>1, <1>3 DEF WalkTypeOK, Moves, Done, Unwalked, Failure, deny, Trace, AllFields
<1>4. ASSUME NEW m \in Nodes, NEW k \in DOMAIN Kids(m)
      PROVE  /\ pc'[m] = "unasked" => pc'[Kids(m)[k]] = "unasked"
             /\ pc'[m] = "done" => pc'[Kids(m)[k]] # "open"
  <2>1. Kids(m)[k] \in Nodes /\ Kids(m)[k] # m
    BY DEF Tree
  <2>2. /\ pc[m] = "unasked" => pc[Kids(m)[k]] = "unasked"
        /\ pc[m] = "done" => pc[Kids(m)[k]] # "open"
    BY DEF WalkTypeOK, Done
  <2>3. Kids(m)[k] = c => pc[m] = "open"
    BY DEF MayMove
  <2>4. m = c /\ v = "done" => pc[Kids(m)[k]] # "open"
    BY DEF MayMove
  <2>5. v \in {"open", "done"}
    BY DEF Moves
  <2>6. QED
    BY <1>1, <2>1, <2>2, <2>3, <2>4, <2>5
<1>5. \A m \in Nodes :
        Cardinality(Running(m)') <= IF sequential THEN 1 ELSE question.concurrency
  BY MoveKeepsLimit DEF Limit
<1>6. QED
  BY <1>1, <1>2, <1>3, <1>4, <1>5 DEF WalkTypeOK, Done

(* A node that moves on disturbs neither the prefixes already folded nor   *)
(* the order of the questions already asked.                               *)
LEMMA MoveKeepsOrder ==
    ASSUME Inv, Tree, NEW c \in Nodes, NEW v, Moves(c, v), MayMove(c, v)
    PROVE  FoldsOK' /\ NothingNeedlessAsked'
<1>0. WalkTypeOK /\ FoldsOK /\ NothingNeedlessAsked
  BY DEF Inv
<1>1. /\ Nodes' = Nodes /\ sequential' = sequential
      /\ \A n \in Nodes :
            /\ Kids(n)' = Kids(n) /\ Tag(n)' = Tag(n)
            /\ pc'[n] = IF n = c THEN v ELSE pc[n]
            /\ pc[n] = "done" => pc'[n] = "done" /\ result'[n] = result[n]
  BY <1>0, MoveFacts DEF Done
<1>2. question' = question /\ v \in {"open", "done"} /\ pc[c] # "done"
      /\ (v = "open" => pc[c] = "unasked")
  BY DEF Moves, Done
<1>3. \A m \in Nodes, j \in Nat : \A t : Settles(m, j, t)' <=> Settles(m, j, t)
  BY <1>1, <1>2 DEF Settles, Failed
<1>4. \A m \in Nodes : \A k \in DOMAIN Kids(m) : k \in Nat /\ Kids(m)[k] \in Nodes
  BY DEF Tree
<1>5. ASSUME NEW m \in Nodes, Tag(m) \in Composites
      PROVE  /\ DOMAIN fold'[m] = FoldFields
             /\ fold'[m].children \in Nat
             /\ pc'[m] = "unasked" => fold'[m].children = 0
             /\ pc'[m] = "open" =>
                   \A j \in DOMAIN Kids(m) : j <= fold'[m].children =>
                       /\ pc'[Kids(m)[j]] = "done"
                       /\ ~Settles(m, j, result'[Kids(m)[j]])
             /\ sequential /\ pc'[m] = "open" =>
                   \A k \in DOMAIN Kids(m) : pc'[Kids(m)[k]] # "unasked" =>
                       k <= fold'[m].children + 1
  <2>1. /\ DOMAIN fold[m] = FoldFields
        /\ fold[m].children \in Nat
        /\ pc[m] = "unasked" => fold[m].children = 0
        /\ pc[m] = "open" =>
              \A j \in DOMAIN Kids(m) : j <= fold[m].children =>
                  pc[Kids(m)[j]] = "done" /\ ~Settles(m, j, result[Kids(m)[j]])
        /\ sequential /\ pc[m] = "open" =>
              \A k \in DOMAIN Kids(m) : pc[Kids(m)[k]] # "unasked" =>
                  k <= fold[m].children + 1
    BY <1>0, <1>5 DEF FoldsOK, Done
  <2>2. \A k \in DOMAIN Kids(m) : k >= 1
    BY DEF Tree
  <2>3. CASE m = c /\ v = "done"
    BY <1>1, <1>5, <2>3 DEF MayMove
  <2>4. CASE m = c /\ v = "open"
    <3>1. fold'[m] = fold[m]
      BY <2>4 DEF Moves
    <3>2. \A k \in DOMAIN Kids(m) : pc[Kids(m)[k]] = "unasked" /\ Kids(m)[k] # c
      BY <1>0, <1>2, <2>4 DEF WalkTypeOK, Tree
    <3>3. QED
      BY <1>1, <1>2, <1>4, <2>1, <2>2, <2>4, <3>1, <3>2
  <2>5. CASE m # c
    <3>1. fold'[m] = fold[m] /\ pc'[m] = pc[m]
      BY <1>1, <2>5 DEF Moves
    <3>2. ASSUME NEW k \in DOMAIN Kids(m), sequential, pc[m] = "open",
                 pc'[Kids(m)[k]] # "unasked"
          PROVE  k <= fold[m].children + 1
      <4>1. CASE pc[Kids(m)[k]] # "unasked"
        BY <2>1, <3>2, <4>1
      <4>2. CASE pc[Kids(m)[k]] = "unasked"
        <5>1. Kids(m)[k] = c
          BY <1>1, <1>4, <3>2, <4>2
        <5>2. k = fold[m].children + 1
          BY <1>5, <3>2, <4>2, <5>1 DEF MayMove
        <5>3. QED
          BY <1>4, <2>1, <5>2
      <4>3. QED
        BY <4>1, <4>2
    <3>3. QED
      BY <1>1, <1>4, <2>1, <3>1, <3>2
  <2>6. QED
    BY <1>2, <2>3, <2>4, <2>5
<1>6. ASSUME sequential, NEW m \in Nodes, Tag(m) \in Composites,
             NEW k \in DOMAIN Kids(m), pc'[Kids(m)[k]] # "unasked",
             NEW j \in 1 .. k - 1
      PROVE  /\ pc'[Kids(m)[j]] = "done"
             /\ ~Settles(m, j, result'[Kids(m)[j]])
  <2>1. j \in DOMAIN Kids(m) /\ j \in Nat /\ j < k
    BY DEF Tree
  <2>2. pc[Kids(m)[j]] = "done" /\ ~Settles(m, j, result[Kids(m)[j]])
    <3>1. CASE pc[Kids(m)[k]] # "unasked"
      BY <1>0, <1>6, <3>1 DEF NothingNeedlessAsked, Done
    <3>2. CASE pc[Kids(m)[k]] = "unasked"
      <4>1. Kids(m)[k] = c
        BY <1>1, <1>4, <1>6, <3>2
      <4>2. k = fold[m].children + 1 /\ pc[m] = "open"
        BY <1>6, <3>2, <4>1 DEF MayMove
      <4>3. fold[m].children \in Nat
        BY <1>0, <1>6 DEF FoldsOK
      <4>4. j <= fold[m].children
        BY <1>4, <2>1, <4>2, <4>3
      <4>5. QED
        BY <1>0, <1>6, <2>1, <4>2, <4>4 DEF FoldsOK, Done
    <3>3. QED
      BY <3>1, <3>2
  <2>3. QED
    BY <1>1, <1>4, <2>1, <2>2
<1>7. FoldsOK'
  BY <1>1, <1>3, <1>4, <1>5 DEF FoldsOK, Done
<1>8. NothingNeedlessAsked'
  <2>1. \A m \in Nodes : \A k \in DOMAIN Kids(m) : \A j \in 1 .. k - 1 : j \in Nat
    BY <1>4
  <2>2. QED
    BY <1>1, <1>3, <1>6, <2>1 DEF NothingNeedlessAsked, Done
<1>9. QED
  BY <1>7, <1>8

LEMMA MovePreserves ==
    ASSUME Inv, Tree, NEW c \in Nodes, NEW v, Moves(c, v), MayMove(c, v)
    PROVE  Inv'
  BY MoveKeepsTypes, MoveKeepsOrder DEF Inv

(* A node that is asked is opened, or is refused by its own guard.         *)
LEMMA EnterPreserves ==
    ASSUME Inv, Tree, NEW c \in Nodes, pc[c] = "unasked", Enter(c), UNCHANGED fold,
           \A m \in Nodes : \A k \in DOMAIN Kids(m) : Kids(m)[k] = c =>
                /\ pc[m] = "open" /\ Cardinality(Running(m)) < Limit
                /\ sequential /\ Tag(m) \in Composites =>
                      k = fold[m].children + 1
    PROVE  Inv'
<1>0. WalkTypeOK /\ FoldsOK
  BY DEF Inv
<1>1. PICK v \in {"open", "done"} :
        /\ pc' = [pc EXCEPT ![c] = v]
        /\ UNCHANGED <<question, answers>>
        /\ v = "open" => result' = result
        /\ v = "done" => \E o : result' = [result EXCEPT ![c] = o]
  BY DEF Enter, Finish
<1>2. Moves(c, v)
  BY <1>0, <1>1 DEF Moves, WalkTypeOK, Done
<1>3. \A k \in DOMAIN Kids(c) : pc[Kids(c)[k]] # "open"
  BY <1>0 DEF WalkTypeOK
<1>4. Tag(c) \in Composites =>
        DOMAIN fold'[c] = FoldFields /\ fold'[c].children \in Nat
  BY <1>0 DEF FoldsOK
<1>5. MayMove(c, v)
  BY <1>3, <1>4 DEF MayMove
<1>6. QED
  BY <1>2, <1>5, MovePreserves

(* A node that is open and has no open kid may return.                     *)
LEMMA FinishPreserves ==
    ASSUME Inv, Tree, NEW c \in Nodes, NEW o, pc[c] = "open", Finish(c, o),
           DOMAIN fold' = Nodes, \A n \in Nodes : n # c => fold'[n] = fold[n],
           Tag(c) \in Composites =>
               DOMAIN fold'[c] = FoldFields /\ fold'[c].children \in Nat,
           \A k \in DOMAIN Kids(c) : pc[Kids(c)[k]] # "open"
    PROVE  Inv'
<1>0. WalkTypeOK
  BY DEF Inv
<1>1. Moves(c, "done")
  BY <1>0 DEF Moves, WalkTypeOK, Done, Finish
<1>2. \A m \in Nodes : \A k \in DOMAIN Kids(m) : Kids(m)[k] = c => pc[m] = "open"
  BY <1>0 DEF WalkTypeOK, Done
<1>3. MayMove(c, "done")
  BY <1>2 DEF MayMove
<1>4. QED
  BY <1>1, <1>3, MovePreserves

LEMMA InitInv == Init => Inv
<1> SUFFICES ASSUME Init PROVE Inv
  OBVIOUS
<1>1. /\ question \in [policy : Policies, maxDepth : MaxDepths,
                        concurrency : Limits]
      /\ \A n \in Nodes : pc[n] = "unasked" /\ fold[n] = begin
                             /\ result[n] = Unwalked
      /\ pc \in [Nodes -> {"unasked", "open", "done"}]
      /\ DOMAIN fold = Nodes /\ DOMAIN result = Nodes
      /\ answers \in [Leaves -> {"allow", "deny", "fail"}]
  BY DEF Init
<1>2. IsTree(question.policy)
  BY <1>1, PoliciesAssumption
<1>3. \A m \in Nodes : \A k \in DOMAIN Kids(m) : Kids(m)[k] \in Nodes
  <2> SUFFICES ASSUME NEW m \in Nodes PROVE Kids(m) \in Seq(Nodes)
    OBVIOUS
  <2>1. Kids(m) \in Seq({k \in Nodes : k > m})
    BY <1>2 DEF IsTree, Kids, Nodes
  <2>2. QED
    BY <2>1
<1>4. \A m \in Nodes : Cardinality(Running(m)) = 0
  BY <1>1, <1>3, FS_EmptySet DEF Running
<1>5. 0 <= IF sequential THEN 1 ELSE question.concurrency
  <2>1. question.concurrency \in Nat
    BY <1>1, LimitsAssumption
  <2>2. QED
    BY <2>1
<1>6. WalkTypeOK
  BY <1>1, <1>3, <1>4, <1>5 DEF WalkTypeOK, Done
<1>7. FoldsOK
  BY <1>1 DEF FoldsOK, begin, FoldFields
<1>8. NothingNeedlessAsked
  BY <1>1, <1>3 DEF NothingNeedlessAsked
<1>9. QED
  BY <1>6, <1>7, <1>8 DEF Inv

LEMMA NextInv == Inv /\ [Next]_vars => Inv'
<1> SUFFICES ASSUME Inv, [Next]_vars PROVE Inv'
  OBVIOUS
<1>0. WalkTypeOK /\ FoldsOK /\ NothingNeedlessAsked /\ Tree
  BY PolicyIsTree DEF Inv
<1>1. CASE AdmitRoot
  <2>1. Root \in Nodes /\ pc[Root] = "unasked" /\ UNCHANGED fold
        /\ \A m \in Nodes : \A k \in DOMAIN Kids(m) : Kids(m)[k] # Root
    BY <1>0, <1>1 DEF AdmitRoot, Tree
  <2>2. CASE Enter(Root)
    BY <1>0, <2>1, <2>2, EnterPreserves
  <2>3. CASE Finish(Root, Failure(PolicyTooDeep))
    <3>1. Moves(Root, "done")
      BY <1>0, <2>1, <2>3 DEF Moves, WalkTypeOK, Done, Finish
    <3>2. \A k \in DOMAIN Kids(Root) : pc[Kids(Root)[k]] # "open"
      BY <1>0, <2>1 DEF WalkTypeOK
    <3>3. MayMove(Root, "done")
      BY <1>0, <2>1, <3>2 DEF MayMove, FoldsOK
    <3>4. QED
      BY <1>0, <2>1, <3>1, <3>3, MovePreserves
  <2>4. QED
    BY <1>1, <2>2, <2>3 DEF AdmitRoot
<1>2. ASSUME NEW m \in Nodes, NEW k \in DOMAIN Kids(m), AskKid(m, k)
      PROVE  Inv'
  <2> DEFINE c == Kids(m)[k]
  <2>1. /\ c \in Nodes /\ pc[m] = "open" /\ pc[c] = "unasked"
        /\ Enter(c) /\ UNCHANGED fold /\ k \in Nat
        /\ Tag(m) \in Composites \cup Wrappers
    BY <1>0, <1>2 DEF AskKid, Tree
  <2>2. \A i \in Nodes : \A j \in DOMAIN Kids(i) : Kids(i)[j] = c => i = m /\ j = k
    BY <1>0, <1>2 DEF Tree
  <2>3. sequential /\ Tag(m) \in Composites => k = fold[m].children + 1
    BY <1>2 DEF AskKid, NextInTurn
  <2>4. sequential \/ Tag(m) \in Wrappers => Running(m) = {}
    <3>1. CASE Tag(m) \in Wrappers
      BY <1>0, <1>2, <2>1, <3>1 DEF Tree, Running
    <3>2. CASE sequential /\ Tag(m) \in Composites
      <4>1. fold[m].children \in Nat
        BY <1>0, <3>2 DEF FoldsOK
      <4>2. ASSUME NEW j \in DOMAIN Kids(m) PROVE pc[Kids(m)[j]] # "open"
        <5>1. j \in Nat
          BY <1>0 DEF Tree
        <5>2. CASE j <= fold[m].children
          BY <1>0, <2>1, <3>2, <5>2 DEF FoldsOK, Done
        <5>3. CASE j = k
          BY <2>1, <5>3
        <5>4. CASE j > k
          BY <1>0, <2>1, <2>3, <3>2, <4>1, <5>1, <5>4 DEF FoldsOK
        <5>5. QED
          BY <2>1, <2>3, <3>2, <4>1, <5>1, <5>2, <5>3, <5>4
      <4>3. QED
        BY <4>2 DEF Running
    <3>3. QED
      BY <2>1, <3>1, <3>2
  <2>5. Cardinality(Running(m)) < Limit
    <3>1. CASE sequential \/ Tag(m) \in Wrappers
      <4>1. Cardinality(Running(m)) = 0
        BY <2>4, <3>1, FS_EmptySet
      <4>2. question.concurrency \in Nat
        BY <1>0, LimitsAssumption DEF WalkTypeOK
      <4>3. QED
        BY <4>1, <4>2 DEF Limit, sequential
    <3>2. CASE ~(sequential \/ Tag(m) \in Wrappers)
      BY <1>2, <3>2 DEF AskKid, NextInForEach, Limit
    <3>3. QED
      BY <3>1, <3>2
  <2>6. QED
    BY <1>0, <2>1, <2>2, <2>3, <2>5, EnterPreserves
<1>3. ASSUME NEW n \in Nodes, Answer(n) PROVE Inv'
  <2>1. pc[n] = "open" /\ Finish(n, LeafOutcome(n)) /\ UNCHANGED fold
        /\ Tag(n) \notin Composites /\ DOMAIN Kids(n) = {}
    BY <1>0, <1>3 DEF Answer, Tree, Composites
  <2>2. QED
    BY <1>0, <2>1, FinishPreserves DEF WalkTypeOK
<1>4. ASSUME NEW n \in Nodes, Unwrap(n) PROVE Inv'
  <2>1. pc[n] = "open" /\ Finish(n, WrapperOutcome(n, result[Kids(n)[1]]))
        /\ UNCHANGED fold /\ Tag(n) \notin Composites /\ Done(Kids(n)[1])
    BY <1>0, <1>4 DEF Unwrap, Composites, Wrappers
  <2>2. \A k \in DOMAIN Kids(n) : pc[Kids(n)[k]] # "open"
    BY <1>0, <1>4, <2>1 DEF Unwrap, Tree, Done
  <2>3. QED
    BY <1>0, <2>1, <2>2, FinishPreserves DEF WalkTypeOK
<1>5. ASSUME NEW m \in Nodes, TakeKid(m) PROVE Inv'
  <2>1. PICK k \in DOMAIN Kids(m) :
          /\ k = fold[m].children + 1
          /\ Done(Kids(m)[k])
          /\ sequential \/ \A j \in DOMAIN Kids(m) : Done(Kids(m)[j])
          /\ fold' = [fold EXCEPT ![m] = step(m, fold[m], Kids(m)[k])]
          /\ IF step(m, fold[m], Kids(m)[k]).verdict # <<>> \/ k = Len(Kids(m))
             THEN Finish(m, CompositeOutcome(m, step(m, fold[m], Kids(m)[k])))
             ELSE UNCHANGED <<question, answers, pc, result>>
    BY <1>5 DEF TakeKid
  <2> DEFINE g == step(m, fold[m], Kids(m)[k])
  <2>2. Tag(m) \in Composites /\ pc[m] = "open"
    BY <1>5 DEF TakeKid
  <2>3. DOMAIN fold[m] = FoldFields /\ fold[m].children \in Nat
    BY <1>0, <2>2 DEF FoldsOK
  <2>4. /\ DOMAIN g = FoldFields /\ g.children \in Nat
        /\ g.verdict = <<>> => g.children = k /\ ~Settles(m, k, result[Kids(m)[k]])
    BY <2>1, <2>2, <2>3, StepLeavesOpen
  <2> HIDE DEF g
  <2>5. fold'[m] = g /\ DOMAIN fold' = Nodes
        /\ \A n \in Nodes : n # m => fold'[n] = fold[n]
    BY <1>0, <2>1 DEF WalkTypeOK, g
  <2>6. \A j \in DOMAIN Kids(m) : j \in Nat
    BY <1>0 DEF Tree
  <2>7. CASE g.verdict # <<>> \/ k = Len(Kids(m))
    <3>1. Finish(m, CompositeOutcome(m, g))
      BY <2>1, <2>7 DEF g
    <3>2. ASSUME NEW j \in DOMAIN Kids(m) PROVE pc[Kids(m)[j]] # "open"
      <4>1. CASE j <= fold[m].children
        BY <1>0, <2>2, <4>1 DEF FoldsOK, Done
      <4>2. CASE j = k
        BY <2>1, <4>2 DEF Done
      <4>3. CASE j > k
        BY <1>0, <2>1, <2>2, <2>3, <2>6, <4>3 DEF FoldsOK, Done
      <4>4. QED
        BY <2>1, <2>3, <2>6, <4>1, <4>2, <4>3
    <3>3. QED
      BY <1>0, <2>2, <2>4, <2>5, <3>1, <3>2, FinishPreserves
  <2>8. CASE g.verdict = <<>> /\ k # Len(Kids(m))
    <3>1. UNCHANGED <<question, answers, pc, result>>
      BY <2>1, <2>8 DEF g
    <3>2. /\ Nodes' = Nodes /\ Leaves' = Leaves /\ sequential' = sequential
          /\ \A n \in Nodes : /\ Kids(n)' = Kids(n) /\ Tag(n)' = Tag(n)
                               /\ Running(n)' = Running(n)
      BY <3>1 DEF Nodes, Leaves, Kids, Tag, sequential, Running
    <3>3. \A n \in Nodes, j \in Nat : \A t : Settles(n, j, t)' <=> Settles(n, j, t)
      BY <3>1, <3>2 DEF Settles, Failed
    <3>4. WalkTypeOK'
      BY <1>0, <2>5, <3>1, <3>2 DEF WalkTypeOK, Done, Unwalked
    <3>5. ASSUME NEW n \in Nodes, Tag(n) \in Composites
          PROVE  /\ DOMAIN fold'[n] = FoldFields
                 /\ fold'[n].children \in Nat
                 /\ pc[n] = "unasked" => fold'[n].children = 0
                 /\ pc[n] = "open" =>
                       \A j \in DOMAIN Kids(n) : j <= fold'[n].children =>
                           /\ pc[Kids(n)[j]] = "done"
                           /\ ~Settles(n, j, result[Kids(n)[j]])
                 /\ sequential /\ pc[n] = "open" =>
                       \A j \in DOMAIN Kids(n) : pc[Kids(n)[j]] # "unasked" =>
                           j <= fold'[n].children + 1
      <4>1. CASE n # m
        BY <1>0, <2>5, <3>5, <4>1 DEF FoldsOK, Done
      <4>2. CASE n = m
        <5>1. g.children = k /\ ~Settles(m, k, result[Kids(m)[k]])
          BY <2>4, <2>8
        <5>2. \A j \in DOMAIN Kids(m) : j <= fold[m].children =>
                pc[Kids(m)[j]] = "done" /\ ~Settles(m, j, result[Kids(m)[j]])
          BY <1>0, <2>2 DEF FoldsOK, Done
        <5>3. sequential => \A j \in DOMAIN Kids(m) : pc[Kids(m)[j]] # "unasked" =>
                j <= fold[m].children + 1
          BY <1>0, <2>2 DEF FoldsOK
        <5>4. pc[Kids(m)[k]] = "done"
          BY <2>1 DEF Done
        <5>5. \A j \in DOMAIN Kids(m) : j <= k => j <= fold[m].children \/ j = k
          BY <2>1, <2>3, <2>6
        <5>6. \A j \in DOMAIN Kids(m) : j <= k =>
                pc[Kids(m)[j]] = "done" /\ ~Settles(m, j, result[Kids(m)[j]])
          BY <5>1, <5>2, <5>4, <5>5
        <5>7. sequential => \A j \in DOMAIN Kids(m) : pc[Kids(m)[j]] # "unasked" =>
                j <= k + 1
          BY <2>1, <2>3, <2>6, <5>3
        <5>8. QED
          BY <2>2, <2>4, <2>5, <4>2, <5>1, <5>6, <5>7
      <4>3. QED
        BY <4>1, <4>2
    <3>6. FoldsOK'
      <4>1. \A n \in Nodes : \A j \in DOMAIN Kids(n) : j \in Nat
        BY <1>0 DEF Tree
      <4>2. QED
        BY <3>1, <3>2, <3>3, <3>5, <4>1 DEF FoldsOK, Done
    <3>7. NothingNeedlessAsked'
      <4>1. \A n \in Nodes : \A i \in DOMAIN Kids(n) : \A j \in 1 .. i - 1 : j \in Nat
        BY <1>0 DEF Tree
      <4>2. QED
        BY <1>0, <3>1, <3>2, <3>3, <4>1 DEF NothingNeedlessAsked, Done
    <3>8. QED
      BY <3>4, <3>6, <3>7 DEF Inv
  <2>9. QED
    BY <2>7, <2>8
<1>6. ASSUME NEW m \in Nodes, ReturnEmpty(m) PROVE Inv'
  <2>1. pc[m] = "open" /\ Finish(m, CompositeOutcome(m, fold[m])) /\ UNCHANGED fold
        /\ Tag(m) \in Composites /\ DOMAIN Kids(m) = {}
    BY <1>0, <1>6 DEF ReturnEmpty
  <2>2. DOMAIN fold[m] = FoldFields /\ fold[m].children \in Nat
    BY <1>0, <2>1 DEF FoldsOK
  <2>3. QED
    BY <1>0, <2>1, <2>2, FinishPreserves DEF WalkTypeOK
<1>7. CASE UNCHANGED vars
  <2>1. UNCHANGED <<question, answers, pc, fold, result>>
    BY <1>7 DEF vars
  <2>2. /\ Nodes' = Nodes /\ Leaves' = Leaves /\ sequential' = sequential
        /\ \A n \in Nodes : /\ Kids(n)' = Kids(n) /\ Tag(n)' = Tag(n)
                             /\ Running(n)' = Running(n)
    BY <2>1 DEF Nodes, Leaves, Kids, Tag, sequential, Running
  <2>3. \A n \in Nodes, j \in Nat : \A t : Settles(n, j, t)' <=> Settles(n, j, t)
    BY <2>1, <2>2 DEF Settles, Failed
  <2>4. \A n \in Nodes : \A i \in DOMAIN Kids(n) :
          i \in Nat /\ \A j \in 1 .. i - 1 : j \in Nat
    BY <1>0 DEF Tree
  <2>5. WalkTypeOK'
    BY <1>0, <2>1, <2>2 DEF WalkTypeOK, Done, Unwalked
  <2>6. FoldsOK'
    BY <1>0, <2>1, <2>2, <2>3, <2>4 DEF FoldsOK, Done
  <2>7. NothingNeedlessAsked'
    BY <1>0, <2>1, <2>2, <2>3, <2>4 DEF NothingNeedlessAsked, Done
  <2>8. QED
    BY <2>5, <2>6, <2>7 DEF Inv
<1>8. QED
  BY <1>1, <1>2, <1>3, <1>4, <1>5, <1>6, <1>7 DEF Next, NodeStep

(* Inv is an invariant of every walk.                                      *)
LEMMA WalkInv == Spec => []Inv
<1>1. Init => Inv
  BY InitInv
<1>2. Inv /\ [Next]_vars => Inv'
  BY NextInv
<1>3. QED
  BY <1>1, <1>2, PTL DEF Spec

(* For every policy the control of a walk is a tree of fibers in which no  *)
(* composite runs more kids than its limit. (Walk.ts, the composites)      *)
THEOREM WalkTypeCorrect == Spec => []WalkTypeOK
<1>1. Inv => WalkTypeOK
  BY DEF Inv
<1>2. QED
  BY <1>1, WalkInv, PTL

(* For every policy a sequential walk asks nothing that an earlier answer  *)
(* had made needless. (INV-QD-005, INV-QD-017)                             *)
THEOREM SequentialAsksOnlyNeeded == Spec => []NothingNeedlessAsked
<1>1. Inv => NothingNeedlessAsked
  BY DEF Inv
<1>2. QED
  BY <1>1, WalkInv, PTL

-----------------------------------------------------------------------------
(* Least and greatest numbers, and induction over a set of numbers.        *)

LEMMA HasLeast ==
    ASSUME NEW S \in SUBSET Nat, S # {}
    PROVE  /\ Min(S) \in S /\ \A y \in S : Min(S) <= y
           /\ \A x \in S : (\A y \in S : x <= y) => Min(S) = x
<1>1. PICK x \in S : \A y \in S : ~(<<y, x>> \in OpToRel(<, Nat))
  BY NatLessThanWellFounded, WFMin
<1>2. \A y \in S : x <= y
  <2> SUFFICES ASSUME NEW y \in S, y < x PROVE FALSE
    OBVIOUS
  <2>1. <<y, x>> \in OpToRel(<, Nat)
    BY DEF OpToRel
  <2>2. QED
    BY <1>1, <2>1
<1>3. Min(S) \in S /\ \A y \in S : Min(S) <= y
  BY <1>2 DEF Min
<1>4. ASSUME NEW z \in S, \A y \in S : z <= y PROVE Min(S) = z
  <2> DEFINE m == Min(S)
  <2>1. m \in S /\ m <= z /\ z <= m /\ m \in Nat /\ z \in Nat
    BY <1>3, <1>4
  <2> HIDE DEF m
  <2>2. m = z
    BY <2>1
  <2>3. QED
    BY <2>2 DEF m
<1>5. QED
  BY <1>3, <1>4

LEMMA CountUp ==
    ASSUME NEW G \in SUBSET Nat, 0 \in G, \A k \in G : k + 1 \in G
    PROVE  G = Nat
<1> SUFFICES ASSUME Nat \ G # {} PROVE FALSE
  OBVIOUS
<1> DEFINE k == Min(Nat \ G)
<1>1. k \in Nat \ G /\ \A y \in Nat \ G : k <= y
  BY HasLeast
<1> HIDE DEF k
<1>2. k - 1 \in Nat /\ k - 1 \in G
  BY <1>1
<1>3. QED
  BY <1>1, <1>2

LEMMA CountDown ==
    ASSUME NEW G \in SUBSET Nat, NEW b \in G, \A k \in Nat : k + 1 \in G => k \in G
    PROVE  0 \in G
<1> DEFINE k == Min(G)
<1>1. k \in G /\ \A y \in G : k <= y
  BY HasLeast
<1> HIDE DEF k
<1>2. CASE k # 0
  <2>1. k - 1 \in Nat /\ (k - 1) + 1 = k
    BY <1>1, <1>2
  <2>2. QED
    BY <1>1, <2>1
<1>3. QED
  BY <1>1, <1>2

LEMMA HasGreatest ==
    ASSUME NEW T \in SUBSET Nat, T # {}, IsFiniteSet(T)
    PROVE  Max(T) \in T /\ \A y \in T : Max(T) >= y
<1> DEFINE G == {n \in Nat : \A S \in SUBSET Nat :
                    S # {} /\ IsFiniteSet(S) /\ Cardinality(S) = n =>
                        \E x \in S : \A y \in S : x >= y}
<1>1. 0 \in G
  BY FS_EmptySet
<1>2. ASSUME NEW n \in G PROVE n + 1 \in G
  <2> SUFFICES ASSUME NEW S \in SUBSET Nat, S # {}, IsFiniteSet(S),
                      Cardinality(S) = n + 1
               PROVE  \E x \in S : \A y \in S : x >= y
    OBVIOUS
  <2>0. n \in Nat
    OBVIOUS
  <2>1. PICK x : x \in S
    OBVIOUS
  <2>2. IsFiniteSet(S \ {x}) /\ Cardinality(S \ {x}) = n
    <3>1. IsFiniteSet(S \ {x}) /\ Cardinality(S \ {x}) = Cardinality(S) - 1
      BY <2>1, FS_RemoveElement
    <3>2. QED
      BY <2>0, <3>1
  <2>3. CASE S \ {x} = {}
    BY <2>1, <2>3
  <2>4. CASE S \ {x} # {}
    <3>1. PICK z \in S \ {x} : \A y \in S \ {x} : z >= y
      BY <1>2, <2>2, <2>4
    <3>2. CASE z >= x
      BY <3>1, <3>2
    <3>3. CASE x >= z
      BY <2>1, <3>1, <3>3
    <3>4. QED
      BY <2>1, <3>1, <3>2, <3>3
  <2>5. QED
    BY <2>3, <2>4
<1>3. Cardinality(T) \in G
  <2>1. G = Nat
    <3> HIDE DEF G
    <3>1. G \in SUBSET Nat
      BY DEF G
    <3>2. QED
      BY <1>1, <1>2, <3>1, CountUp
  <2> HIDE DEF G
  <2>2. QED
    BY <2>1, FS_CardinalityType
<1>4. \E x \in T : \A y \in T : x >= y
  BY <1>3
<1>5. QED
  BY <1>4 DEF Max

-----------------------------------------------------------------------------
(* Where a node stands: every node but the root has one parent, before it. *)

LEMMA NodesNumbered ==
    ASSUME WalkTypeOK
    PROVE  /\ Nodes \in SUBSET Nat /\ IsFiniteSet(Nodes) /\ Root \in Nodes
           /\ \A n \in Nodes : n # 0
           /\ \A n \in Nodes : \A k \in DOMAIN Kids(n) :
                 Kids(n)[k] \in Nodes /\ Kids(n)[k] > n
           /\ \A n \in Nodes : Tag(n) = "Leaf" => question.policy[n].nesting \in Nat
           /\ \A n \in Nodes \ {Root} :
                 \E m \in Nodes : \E k \in DOMAIN Kids(m) : Kids(m)[k] = n
<1> DEFINE p == question.policy
<1>1. IsTree(p)
  BY PoliciesAssumption DEF WalkTypeOK
<1> HIDE DEF p
<1>2. ASSUME NEW n \in DOMAIN p, NEW k \in DOMAIN p[n].kids
      PROVE  p[n].kids[k] \in DOMAIN p /\ p[n].kids[k] > n
  <2> DEFINE Later == {j \in DOMAIN p : j > n}
  <2>1. p[n].kids \in Seq(Later)
    BY <1>1 DEF IsTree
  <2> HIDE DEF Later
  <2>2. p[n].kids[k] \in Later
    BY <2>1
  <2>3. QED
    BY <2>2 DEF Later
<1>3. QED
  BY <1>1, <1>2 DEF IsTree, Root, Nodes, Kids, Tag, p

LEMMA ParentOf ==
    ASSUME WalkTypeOK, NEW m \in Nodes, NEW k \in DOMAIN Kids(m)
    PROVE  Parent(Kids(m)[k]) = m /\ Position(Kids(m)[k]) = k
<1>1. \A i, n \in Nodes : \A j \in DOMAIN Kids(i), l \in DOMAIN Kids(n) :
          Kids(i)[j] = Kids(n)[l] => i = n /\ j = l
  BY PolicyIsTree DEF Tree
<1>2. Parent(Kids(m)[k]) = m
  BY <1>1 DEF Parent
<1>3. QED
  BY <1>1, <1>2 DEF Position

LEMMA ParentIs ==
    ASSUME WalkTypeOK, NEW n \in Nodes \ {Root}
    PROVE  /\ Parent(n) \in Nodes /\ Parent(n) < n
           /\ Position(n) \in DOMAIN Kids(Parent(n))
           /\ Kids(Parent(n))[Position(n)] = n
<1>1. PICK m \in Nodes : \E k \in DOMAIN Kids(m) : Kids(m)[k] = n
  BY NodesNumbered
<1>2. PICK k \in DOMAIN Kids(m) : Kids(m)[k] = n
  BY <1>1
<1>3. QED
  BY <1>2, ParentOf, NodesNumbered

-----------------------------------------------------------------------------
(* The equations of the recursive functions of a policy, each by induction *)
(* over the numbers of its nodes.                                          *)

LEMMA LastNode == ASSUME WalkTypeOK PROVE \E b \in Nat : \A n \in Nodes : n < b
<1>1. Max(Nodes) \in Nat /\ \A n \in Nodes : Max(Nodes) >= n
  BY NodesNumbered, HasGreatest
<1>2. Max(Nodes) + 1 \in Nat /\ \A n \in Nodes : n < Max(Nodes) + 1
  BY <1>1, NodesNumbered
<1>3. QED
  BY <1>2

MeaningStep(mean, n) ==
    IF Tag(n) = "Leaf" THEN LeafOutcome(n)
    ELSE IF Tag(n) \in Wrappers THEN WrapperOutcome(n, mean[Kids(n)[1]])
    ELSE CompositeMeaning(n, [k \in DOMAIN Kids(n) |-> mean[Kids(n)[k]]])

LEMMA MeaningOfKids ==
    ASSUME WalkTypeOK, NEW n \in Nodes, NEW f, NEW g,
           \A k \in DOMAIN Kids(n) : f[Kids(n)[k]] = g[Kids(n)[k]]
    PROVE  MeaningStep(f, n) = MeaningStep(g, n)
<1>1. Tag(n) \in Wrappers => 1 \in DOMAIN Kids(n)
  BY PolicyIsTree DEF Tree
<1>2. [k \in DOMAIN Kids(n) |-> f[Kids(n)[k]]] = [k \in DOMAIN Kids(n) |-> g[Kids(n)[k]]]
  OBVIOUS
<1>3. QED
  BY <1>1, <1>2 DEF MeaningStep

(* What a policy means satisfies its own equation.                         *)
LEMMA MeaningEquation ==
    ASSUME WalkTypeOK, NEW n \in Nodes
    PROVE  Meaning[n] = MeaningStep(Meaning, n)
<1> DEFINE From(k) == {m \in Nodes : m >= k}
           G == {k \in Nat : \E f : f = [m \in From(k) |-> MeaningStep(f, m)]}
<1>1. PICK b \in Nat : \A m \in Nodes : m < b
  BY LastNode
<1>2. b \in G
  <2>1. From(b) = {}
    BY <1>1, NodesNumbered
  <2>2. QED
    BY <2>1
<1>3. ASSUME NEW k \in Nat, k + 1 \in G PROVE k \in G
  <2>1. PICK f : f = [m \in From(k + 1) |-> MeaningStep(f, m)]
    BY <1>3
  <2> DEFINE g == [m \in From(k) |-> IF m = k THEN MeaningStep(f, k) ELSE f[m]]
  <2>2. ASSUME NEW m \in From(k) PROVE MeaningStep(g, m) = MeaningStep(f, m)
    <3>1. \A j \in DOMAIN Kids(m) : Kids(m)[j] \in From(k) /\ Kids(m)[j] # k
      BY NodesNumbered
    <3>2. m \in Nodes /\ \A j \in DOMAIN Kids(m) : f[Kids(m)[j]] = g[Kids(m)[j]]
      BY <3>1
    <3>3. QED
      BY <3>2, MeaningOfKids
  <2>3. \A m \in From(k) : m # k => m \in From(k + 1)
    BY NodesNumbered
  <2>4. \A m \in From(k) : g[m] = MeaningStep(g, m)
    BY <2>1, <2>2, <2>3
  <2>5. g = [m \in From(k) |-> MeaningStep(g, m)]
    BY <2>4
  <2>6. QED
    BY <2>5
<1>4. 0 \in G
  <2>1. G \in SUBSET Nat
    OBVIOUS
  <2> HIDE DEF G
  <2>2. QED
    BY <1>2, <1>3, <2>1, CountDown
<1>5. From(0) = Nodes
  BY NodesNumbered
<1>6. \E f : f = [m \in Nodes |-> MeaningStep(f, m)]
  BY <1>4, <1>5
<1>7. Meaning = CHOOSE f : f = [m \in Nodes |-> MeaningStep(f, m)]
  BY DEF Meaning, MeaningStep
<1> HIDE DEF From, G
<1>8. Meaning = [m \in Nodes |-> MeaningStep(Meaning, m)]
  BY <1>6, <1>7
<1>9. QED
  BY <1>8

-----------------------------------------------------------------------------
DepthStep(depth, n) ==
    IF Kids(n) = <<>>
    THEN IF Tag(n) = "Leaf" THEN question.policy[n].nesting ELSE 0
    ELSE 1 + Max({depth[Kids(n)[k]] : k \in DOMAIN Kids(n)})

LEMMA DepthOfKids ==
    ASSUME WalkTypeOK, NEW n \in Nodes, NEW f, NEW g,
           \A k \in DOMAIN Kids(n) : f[Kids(n)[k]] = g[Kids(n)[k]]
    PROVE  DepthStep(f, n) = DepthStep(g, n)
<1>1. {f[Kids(n)[k]] : k \in DOMAIN Kids(n)} = {g[Kids(n)[k]] : k \in DOMAIN Kids(n)}
  OBVIOUS
<1>2. QED
  BY <1>1 DEF DepthStep

(* The depth below a node satisfies its own equation.                      *)
LEMMA DepthEquation ==
    ASSUME WalkTypeOK, NEW n \in Nodes
    PROVE  depthBelow[n] = DepthStep(depthBelow, n)
<1> DEFINE From(k) == {m \in Nodes : m >= k}
           G == {k \in Nat : \E f : f = [m \in From(k) |-> DepthStep(f, m)]}
<1>1. PICK b \in Nat : \A m \in Nodes : m < b
  BY LastNode
<1>2. b \in G
  <2>1. From(b) = {}
    BY <1>1, NodesNumbered
  <2>2. QED
    BY <2>1
<1>3. ASSUME NEW k \in Nat, k + 1 \in G PROVE k \in G
  <2>1. PICK f : f = [m \in From(k + 1) |-> DepthStep(f, m)]
    BY <1>3
  <2> DEFINE g == [m \in From(k) |-> IF m = k THEN DepthStep(f, k) ELSE f[m]]
  <2>2. ASSUME NEW m \in From(k) PROVE DepthStep(g, m) = DepthStep(f, m)
    <3>1. \A j \in DOMAIN Kids(m) : Kids(m)[j] \in From(k) /\ Kids(m)[j] # k
      BY NodesNumbered
    <3>2. m \in Nodes /\ \A j \in DOMAIN Kids(m) : f[Kids(m)[j]] = g[Kids(m)[j]]
      BY <3>1
    <3>3. QED
      BY <3>2, DepthOfKids
  <2>3. \A m \in From(k) : m # k => m \in From(k + 1)
    BY NodesNumbered
  <2>4. \A m \in From(k) : g[m] = DepthStep(g, m)
    BY <2>1, <2>2, <2>3
  <2>5. g = [m \in From(k) |-> DepthStep(g, m)]
    BY <2>4
  <2>6. QED
    BY <2>5
<1>4. 0 \in G
  <2>1. G \in SUBSET Nat
    OBVIOUS
  <2> HIDE DEF G
  <2>2. QED
    BY <1>2, <1>3, <2>1, CountDown
<1>5. From(0) = Nodes
  BY NodesNumbered
<1>6. \E f : f = [m \in Nodes |-> DepthStep(f, m)]
  BY <1>4, <1>5
<1>7. depthBelow = CHOOSE f : f = [m \in Nodes |-> DepthStep(f, m)]
  BY DEF depthBelow, DepthStep
<1> HIDE DEF From, G
<1>8. depthBelow = [m \in Nodes |-> DepthStep(depthBelow, m)]
  BY <1>6, <1>7
<1>9. QED
  BY <1>8

-----------------------------------------------------------------------------
(* Downwards from the root: the depth of a node, and whether it counts.    *)

AboveStep(f, n) == IF n = Root THEN 0 ELSE f[Parent(n)] + 1

LEMMA DepthOfEquation ==
    ASSUME WalkTypeOK, NEW n \in Nodes
    PROVE  depthOf[n] = IF n = Root THEN 0 ELSE depthOf[Parent(n)] + 1
<1> DEFINE To(k) == {m \in Nodes : m <= k}
           G == {k \in Nat : \E f : f = [m \in To(k) |-> AboveStep(f, m)]}
<1>1. PICK b \in Nat : \A m \in Nodes : m < b
  BY LastNode
<1>2. 0 \in G
  <2>1. To(0) = {}
    BY NodesNumbered
  <2>2. QED
    BY <2>1
<1>3. ASSUME NEW k \in G PROVE k + 1 \in G
  <2>1. k \in Nat /\ \E f : f = [m \in To(k) |-> AboveStep(f, m)]
    OBVIOUS
  <2>2. PICK f : f = [m \in To(k) |-> AboveStep(f, m)]
    BY <2>1
  <2> DEFINE g == [m \in To(k + 1) |-> IF m = k + 1 THEN AboveStep(f, m) ELSE f[m]]
  <2>3. ASSUME NEW m \in To(k + 1) PROVE AboveStep(g, m) = AboveStep(f, m)
    <3>1. m \in Nodes /\ m \in Nat /\ m <= k + 1
      BY NodesNumbered
    <3>2. m # Root => Parent(m) \in Nodes /\ Parent(m) \in Nat /\ Parent(m) < m
      BY <3>1, ParentIs, NodesNumbered
    <3>3. m # Root => Parent(m) \in To(k + 1) /\ Parent(m) # k + 1
      BY <2>1, <3>1, <3>2
    <3>4. QED
      BY <3>3 DEF AboveStep
  <2>4. \A m \in To(k + 1) : m # k + 1 => m \in To(k)
    BY <2>1, NodesNumbered
  <2>5. \A m \in To(k + 1) : g[m] = AboveStep(g, m)
    BY <2>2, <2>3, <2>4
  <2>6. g = [m \in To(k + 1) |-> AboveStep(g, m)]
    BY <2>5
  <2>7. \E h : h = [m \in To(k + 1) |-> AboveStep(h, m)]
    BY <2>6
  <2> HIDE DEF g
  <2>8. k + 1 \in Nat
    BY <2>1
  <2>9. QED
    BY <2>7, <2>8
<1>4. b \in G
  <2>1. G \in SUBSET Nat
    OBVIOUS
  <2> HIDE DEF G
  <2>2. QED
    BY <1>2, <1>3, <2>1, CountUp
<1>5. To(b) = Nodes
  BY <1>1, NodesNumbered
<1>6. \E f : f = [m \in Nodes |-> AboveStep(f, m)]
  BY <1>4, <1>5
<1>7. depthOf = CHOOSE f : f = [m \in Nodes |-> AboveStep(f, m)]
  BY DEF depthOf, AboveStep
<1> HIDE DEF To, G
<1>8. depthOf = [m \in Nodes |-> AboveStep(depthOf, m)]
  BY <1>6, <1>7
<1>9. QED
  BY <1>8 DEF AboveStep

CountsStep(f, n) ==
    \/ n = Root
    \/ LET m == Parent(n)
       IN  /\ f[m] /\ result[m].allowed
           /\ Position(n) <= result[m].children
           /\ Tag(m) = "Rules" => result[m].reason[2] = Position(n)

LEMMA CountsEquation ==
    ASSUME WalkTypeOK, NEW n \in Nodes
    PROVE  Counts[n] = CountsStep(Counts, n)
<1> DEFINE To(k) == {m \in Nodes : m <= k}
           G == {k \in Nat : \E f : f = [m \in To(k) |-> CountsStep(f, m)]}
<1>1. PICK b \in Nat : \A m \in Nodes : m < b
  BY LastNode
<1>2. 0 \in G
  <2>1. To(0) = {}
    BY NodesNumbered
  <2>2. QED
    BY <2>1
<1>3. ASSUME NEW k \in G PROVE k + 1 \in G
  <2>1. k \in Nat /\ \E f : f = [m \in To(k) |-> CountsStep(f, m)]
    OBVIOUS
  <2>2. PICK f : f = [m \in To(k) |-> CountsStep(f, m)]
    BY <2>1
  <2> DEFINE g == [m \in To(k + 1) |-> IF m = k + 1 THEN CountsStep(f, m) ELSE f[m]]
  <2>3. ASSUME NEW m \in To(k + 1) PROVE CountsStep(g, m) = CountsStep(f, m)
    <3>1. m \in Nodes /\ m \in Nat /\ m <= k + 1
      BY NodesNumbered
    <3>2. m # Root => Parent(m) \in Nodes /\ Parent(m) \in Nat /\ Parent(m) < m
      BY <3>1, ParentIs, NodesNumbered
    <3>3. m # Root => Parent(m) \in To(k + 1) /\ Parent(m) # k + 1
      BY <2>1, <3>1, <3>2
    <3>4. QED
      BY <3>3 DEF CountsStep
  <2>4. \A m \in To(k + 1) : m # k + 1 => m \in To(k)
    BY <2>1, NodesNumbered
  <2>5. \A m \in To(k + 1) : g[m] = CountsStep(g, m)
    BY <2>2, <2>3, <2>4
  <2>6. g = [m \in To(k + 1) |-> CountsStep(g, m)]
    BY <2>5
  <2>7. \E h : h = [m \in To(k + 1) |-> CountsStep(h, m)]
    BY <2>6
  <2> HIDE DEF g
  <2>8. k + 1 \in Nat
    BY <2>1
  <2>9. QED
    BY <2>7, <2>8
<1>4. b \in G
  <2>1. G \in SUBSET Nat
    OBVIOUS
  <2> HIDE DEF G
  <2>2. QED
    BY <1>2, <1>3, <2>1, CountUp
<1>5. To(b) = Nodes
  BY <1>1, NodesNumbered
<1>6. \E f : f = [m \in Nodes |-> CountsStep(f, m)]
  BY <1>4, <1>5
<1>7. Counts = CHOOSE f : f = [m \in Nodes |-> CountsStep(f, m)]
  BY DEF Counts, CountsStep
<1> HIDE DEF To, G
<1>8. Counts = [m \in Nodes |-> CountsStep(Counts, m)]
  BY <1>6, <1>7
<1>9. QED
  BY <1>8

-----------------------------------------------------------------------------
(* Depth: what `policyDepth` computes bottom up is the furthest any node   *)
(* reaches, counted top down.                                              *)

LEMMA KidsFinite ==
    ASSUME WalkTypeOK, NEW n \in Nodes
    PROVE  /\ DOMAIN Kids(n) = 1 .. Len(Kids(n)) /\ Len(Kids(n)) \in Nat
           /\ DOMAIN Kids(n) \in SUBSET Nat /\ IsFiniteSet(DOMAIN Kids(n))
           /\ Kids(n) # <<>> => 1 \in DOMAIN Kids(n)
<1>1. Kids(n) \in Seq(Nodes)
  BY PolicyIsTree DEF Tree
<1>2. DOMAIN Kids(n) = 1 .. Len(Kids(n)) /\ Len(Kids(n)) \in Nat
  BY <1>1
<1>3. QED
  BY <1>1, <1>2, FS_Interval

LEMMA DepthBelowKids ==
    ASSUME WalkTypeOK, NEW n \in Nodes, Kids(n) # <<>>,
           \A k \in DOMAIN Kids(n) : depthBelow[Kids(n)[k]] \in Nat
    PROVE  /\ depthBelow[n] \in Nat
           /\ \A k \in DOMAIN Kids(n) : depthBelow[Kids(n)[k]] + 1 <= depthBelow[n]
           /\ \E k \in DOMAIN Kids(n) : depthBelow[Kids(n)[k]] + 1 = depthBelow[n]
<1> DEFINE D == {depthBelow[Kids(n)[k]] : k \in DOMAIN Kids(n)}
<1>1. D \in SUBSET Nat /\ D # {}
  BY KidsFinite
<1>2. IsFiniteSet(D)
  <2>1. IsFiniteSet(DOMAIN Kids(n))
    BY KidsFinite
  <2>2. D = {depthBelow[Kids(n)[k]] : k \in DOMAIN Kids(n)}
    OBVIOUS
  <2> DEFINE f == [k \in DOMAIN Kids(n) |-> depthBelow[Kids(n)[k]]]
  <2>3. f \in Surjection(DOMAIN Kids(n), D)
    BY DEF Surjection
  <2> HIDE DEF D, f
  <2>4. QED
    BY <2>1, <2>3, FS_Surjection
<1>3. depthBelow[n] = 1 + Max(D)
  BY DepthEquation DEF DepthStep
<1>4. /\ \A k \in DOMAIN Kids(n) : depthBelow[Kids(n)[k]] \in D
      /\ \A y \in D : \E k \in DOMAIN Kids(n) : y = depthBelow[Kids(n)[k]]
  OBVIOUS
<1> HIDE DEF D
<1>5. PICK x \in D : depthBelow[n] = 1 + x /\ \A y \in D : x >= y
  BY <1>1, <1>2, <1>3, HasGreatest
<1>6. x \in Nat /\ \A k \in DOMAIN Kids(n) : x >= depthBelow[Kids(n)[k]]
  BY <1>1, <1>4, <1>5
<1>7. PICK k \in DOMAIN Kids(n) : x = depthBelow[Kids(n)[k]]
  BY <1>4
<1>8. QED
  BY <1>5, <1>6, <1>7

LEMMA DepthsAreNumbers ==
    ASSUME WalkTypeOK, NEW n \in Nodes
    PROVE  depthBelow[n] \in Nat /\ depthOf[n] \in Nat
<1> DEFINE D == {m \in Nodes : depthBelow[m] \notin Nat}
           U == {m \in Nodes : depthOf[m] \notin Nat}
<1>1. D = {}
  <2> SUFFICES ASSUME D # {} PROVE FALSE
    OBVIOUS
  <2>1. D \in SUBSET Nat /\ IsFiniteSet(D)
    BY NodesNumbered, FS_Subset
  <2>2. PICK m \in D : \A y \in D : m >= y
    <3> HIDE DEF D
    <3>1. QED
      BY <2>1, HasGreatest
  <2>3. m \in Nodes /\ m \in Nat /\ \A k \in DOMAIN Kids(m) : Kids(m)[k] \in Nodes
          /\ Kids(m)[k] \in Nat /\ Kids(m)[k] > m
    BY NodesNumbered
  <2>4. \A k \in DOMAIN Kids(m) : depthBelow[Kids(m)[k]] \in Nat
    BY <2>2, <2>3
  <2>5. CASE Kids(m) # <<>>
    BY <2>3, <2>4, <2>5, DepthBelowKids
  <2>6. CASE Kids(m) = <<>>
    <3>1. depthBelow[m] = IF Tag(m) = "Leaf" THEN question.policy[m].nesting ELSE 0
      BY <2>3, <2>6, DepthEquation DEF DepthStep
    <3>2. QED
      BY <2>3, <3>1, NodesNumbered
  <2>7. QED
    BY <2>5, <2>6
<1>2. U = {}
  <2> SUFFICES ASSUME U # {} PROVE FALSE
    OBVIOUS
  <2>1. U \in SUBSET Nat
    BY NodesNumbered
  <2>2. PICK m \in U : \A y \in U : m <= y
    <3> HIDE DEF U
    <3>1. QED
      BY <2>1, HasLeast
  <2>3. m # Root
    BY DepthOfEquation
  <2>4. Parent(m) \in Nodes /\ Parent(m) < m /\ Parent(m) \in Nat /\ m \in Nat
    BY <2>3, ParentIs, NodesNumbered
  <2>5. depthOf[Parent(m)] \in Nat
    BY <2>2, <2>4
  <2>6. QED
    BY <2>3, <2>5, DepthOfEquation
<1>3. QED
  BY <1>1, <1>2

LEMMA KidDepth ==
    ASSUME WalkTypeOK, NEW n \in Nodes, NEW k \in DOMAIN Kids(n)
    PROVE  depthOf[Kids(n)[k]] = depthOf[n] + 1
<1>1. Kids(n)[k] \in Nodes /\ Kids(n)[k] # Root
  BY PolicyIsTree DEF Tree
<1>2. QED
  BY <1>1, ParentOf, DepthOfEquation

(* The admission of a policy is about the nodes of it and nothing else.    *)
(* (Policy.ts, policyDepth; Admission.ts, admit)                           *)
LEMMA AdmitIsOfTheNodes ==
    ASSUME WalkTypeOK
    PROVE  admit <=> \A n \in Nodes : DepthToReach(n) <= question.maxDepth
<1> DEFINE far(n) == depthOf[n] + depthBelow[n]
           F == {n \in Nodes : far(n) = policyDepth}
           H == {n \in Nodes : far(n) > policyDepth}
<1>1. /\ policyDepth \in Nat /\ question.maxDepth \in Nat /\ Root \in Nodes
      /\ \A n \in Nodes : /\ n \in Nat /\ far(n) \in Nat
                          /\ depthOf[n] \in Nat /\ depthBelow[n] \in Nat
  <2>1. \A n \in Nodes : n \in Nat /\ depthOf[n] \in Nat /\ depthBelow[n] \in Nat
    BY DepthsAreNumbers, NodesNumbered
  <2>2. question.maxDepth \in Nat
    BY MaxDepthsAssumption DEF WalkTypeOK
  <2>3. policyDepth \in Nat /\ Root \in Nodes
    BY <2>1, NodesNumbered DEF policyDepth
  <2>4. QED
    BY <2>1, <2>2, <2>3
<1>2. H = {}
  <2> SUFFICES ASSUME H # {} PROVE FALSE
    OBVIOUS
  <2>1. PICK m \in H : \A y \in H : m <= y
    <3>1. H \in SUBSET Nat
      BY <1>1
    <3> HIDE DEF H
    <3>2. QED
      BY <3>1, HasLeast
  <2>2. depthOf[Root] = 0
    BY <1>1, DepthOfEquation
  <2>3. m # Root
    BY <1>1, <2>2 DEF policyDepth
  <2> DEFINE u == Parent(m)
             j == Position(m)
  <2>4. u \in Nodes /\ u < m /\ j \in DOMAIN Kids(u) /\ Kids(u)[j] = m
    BY <2>3, ParentIs
  <2> HIDE DEF u, j
  <2>5. depthOf[m] = depthOf[u] + 1
    BY <2>4, KidDepth
  <2>6. depthBelow[m] + 1 <= depthBelow[u]
    <3>1. Kids(u) # <<>>
      BY <2>4
    <3>2. \A k \in DOMAIN Kids(u) : depthBelow[Kids(u)[k]] \in Nat
      BY <1>1, <2>4, NodesNumbered
    <3>3. QED
      BY <2>4, <3>1, <3>2, DepthBelowKids
  <2>7. u \in H
    BY <1>1, <2>4, <2>5, <2>6
  <2>8. QED
    BY <1>1, <2>1, <2>4, <2>7
<1>3. \A n \in Nodes : DepthToReach(n) <= far(n)
  <2> SUFFICES ASSUME NEW n \in Nodes PROVE DepthToReach(n) <= far(n)
    OBVIOUS
  <2>1. CASE Tag(n) = "Leaf"
    <3>1. Kids(n) = <<>>
      BY <2>1, PolicyIsTree DEF Tree
    <3>2. depthBelow[n] = question.policy[n].nesting
      BY <2>1, <3>1, DepthEquation DEF DepthStep
    <3>3. QED
      BY <1>1, <2>1, <3>2 DEF DepthToReach
  <2>2. CASE Tag(n) # "Leaf"
    BY <1>1, <2>2 DEF DepthToReach
  <2>3. QED
    BY <2>1, <2>2
<1>4. \E n \in Nodes : DepthToReach(n) = policyDepth
  <2>1. Root \in F
    BY <1>1, DepthOfEquation DEF policyDepth
  <2>2. PICK m \in F : \A y \in F : m >= y
    <3>1. F \in SUBSET Nat /\ IsFiniteSet(F)
      BY NodesNumbered, FS_Subset
    <3> HIDE DEF F
    <3>2. QED
      BY <2>1, <3>1, HasGreatest
  <2>3. Kids(m) = <<>>
    <3> SUFFICES ASSUME Kids(m) # <<>> PROVE FALSE
      OBVIOUS
    <3>1. \A k \in DOMAIN Kids(m) : Kids(m)[k] \in Nodes /\ Kids(m)[k] > m
      BY NodesNumbered
    <3>2. PICK k \in DOMAIN Kids(m) : depthBelow[Kids(m)[k]] + 1 = depthBelow[m]
      BY <1>1, <3>1, DepthBelowKids
    <3>3. depthOf[Kids(m)[k]] = depthOf[m] + 1
      BY KidDepth
    <3>4. Kids(m)[k] \in F
      <4> DEFINE v == Kids(m)[k]
      <4>1. v \in Nodes /\ m \in Nodes /\ far(m) = policyDepth
        BY <2>2, <3>1, <3>2
      <4>2. far(v) = far(m)
        <5>1. /\ depthOf[v] \in Nat /\ depthBelow[v] \in Nat
              /\ depthOf[m] \in Nat /\ depthBelow[m] \in Nat
          BY <1>1, <4>1
        <5> HIDE DEF v
        <5>2. QED
          BY <3>2, <3>3, <5>1 DEF v
      <4> HIDE DEF v, far
      <4>3. v \in F
        BY <4>1, <4>2
      <4>4. QED
        BY <4>3 DEF v
    <3>5. QED
      BY <1>1, <2>2, <3>1, <3>4
  <2>4. DepthToReach(m) = depthOf[m] + depthBelow[m]
    BY <2>3, DepthEquation DEF DepthStep, DepthToReach
  <2>5. QED
    BY <2>4
<1>5. \A n \in Nodes : DepthToReach(n) \in Nat /\ DepthToReach(n) <= policyDepth
  <2> SUFFICES ASSUME NEW n \in Nodes
               PROVE  DepthToReach(n) \in Nat /\ DepthToReach(n) <= policyDepth
    OBVIOUS
  <2>1. DepthToReach(n) \in Nat
    BY <1>1, NodesNumbered DEF DepthToReach
  <2>2. far(n) <= policyDepth
    BY <1>1, <1>2
  <2>3. QED
    BY <1>1, <1>3, <2>1, <2>2
<1> HIDE DEF far, F, H
<1>6. QED
  BY <1>1, <1>4, <1>5 DEF admit

-----------------------------------------------------------------------------
(* The folds, over the outcomes of a composite's kids.                     *)

(* A set of numbers can be counted off.                                    *)
Ranked(A) ==
    /\ A \in SUBSET Nat /\ IsFiniteSet(A)
    /\ \A i \in 1 .. Cardinality(A) : \E k \in A : Cardinality({j \in A : j <= k}) = i

LEMMA RankedEmpty == Ranked({}) /\ Cardinality({}) = 0
  BY FS_EmptySet DEF Ranked

(* Adding a number past the others puts it last and moves none.            *)
LEMMA RankedAdd ==
    ASSUME NEW A, Ranked(A), NEW z \in Nat, \A k \in A : k < z
    PROVE  /\ Ranked(A \cup {z})
           /\ Cardinality(A) \in Nat /\ Cardinality(A \cup {z}) = Cardinality(A) + 1
           /\ InOrder(A \cup {z})[Cardinality(A) + 1] = z
           /\ \A i \in 1 .. Cardinality(A) :
                 InOrder(A \cup {z})[i] = InOrder(A)[i] /\ InOrder(A)[i] \in A
<1> DEFINE B == A \cup {z}
           N == Cardinality(A)
           upto(S, k) == {j \in S : j <= k}
<1>1. /\ A \in SUBSET Nat /\ IsFiniteSet(A) /\ z \notin A /\ N \in Nat
      /\ B \in SUBSET Nat /\ IsFiniteSet(B) /\ Cardinality(B) = N + 1
  BY FS_AddElement, FS_CardinalityType DEF Ranked
<1>0. \A k \in A : k \in Nat /\ k <= z
  BY <1>1
<1>2. \A k \in A : upto(B, k) = upto(A, k)
  BY <1>1
<1>3. upto(B, z) = B
  <2>1. \A j : j \in B <=> j \in upto(B, z)
    BY <1>0
  <2>2. QED
    BY <2>1
<1>4. \A k \in A : Cardinality(upto(A, k)) \in Nat /\ Cardinality(upto(A, k)) <= N
  <2> SUFFICES ASSUME NEW k \in A
               PROVE  Cardinality(upto(A, k)) \in Nat /\ Cardinality(upto(A, k)) <= N
    OBVIOUS
  <2>1. upto(A, k) \in SUBSET A
    OBVIOUS
  <2>2. QED
    BY <1>1, <2>1, FS_Subset, FS_CardinalityType
<1>5. ASSUME NEW k \in A, NEW l \in A, Cardinality(upto(A, k)) = Cardinality(upto(A, l))
      PROVE  k = l
  <2>1. IsFiniteSet(upto(A, k)) /\ IsFiniteSet(upto(A, l))
    BY <1>1, FS_Subset
  <2>2. CASE k <= l
    <3>1. upto(A, k) \in SUBSET upto(A, l)
      BY <1>0, <2>2
    <3>2. upto(A, k) = upto(A, l)
      <4> HIDE DEF upto
      <4>1. QED
        BY <1>5, <2>1, <3>1, FS_Subset
    <3>3. QED
      BY <1>1, <2>2, <3>2
  <2>3. CASE l <= k
    <3>1. upto(A, l) \in SUBSET upto(A, k)
      BY <1>0, <2>3
    <3>2. upto(A, k) = upto(A, l)
      <4> HIDE DEF upto
      <4>1. QED
        BY <1>5, <2>1, <3>1, FS_Subset
    <3>3. QED
      BY <1>1, <2>3, <3>2
  <2>4. QED
    BY <1>1, <2>2, <2>3
<1>6. \A i \in 1 .. N : \E k \in A : Cardinality(upto(A, k)) = i
  BY DEF Ranked
<1>7. /\ \A k \in A : Cardinality(upto(B, k)) = Cardinality(upto(A, k))
      /\ Cardinality(upto(B, z)) = N + 1
  BY <1>1, <1>2, <1>3
<1>8. /\ InOrder(B) = [i \in 1 .. N + 1 |->
                          CHOOSE k \in B : Cardinality(upto(B, k)) = i]
      /\ InOrder(A) = [i \in 1 .. N |->
                          CHOOSE k \in A : Cardinality(upto(A, k)) = i]
  BY <1>1 DEF InOrder
<1>9. B = A \cup {z}
  OBVIOUS
<1> HIDE DEF upto, B
<1>10. ASSUME NEW i \in 1 .. N
       PROVE  InOrder(B)[i] = InOrder(A)[i] /\ InOrder(A)[i] \in A
  <2>1. PICK k \in A : Cardinality(upto(A, k)) = i
    BY <1>6
  <2>2. (CHOOSE l \in A : Cardinality(upto(A, l)) = i) = k
    BY <1>5, <2>1
  <2>3. i # N + 1 /\ i \in 1 .. N + 1
    BY <1>1
  <2>4. (CHOOSE l \in B : Cardinality(upto(B, l)) = i) = k
    <3>1. k \in B /\ Cardinality(upto(B, k)) = i
      BY <1>7, <1>9, <2>1
    <3>2. \A l \in B : Cardinality(upto(B, l)) = i => l = k
      BY <1>5, <1>7, <1>9, <2>1, <2>3
    <3>3. QED
      BY <3>1, <3>2
  <2>5. InOrder(A)[i] = k /\ InOrder(B)[i] = k
    <3>1. i \in 1 .. N
      OBVIOUS
    <3> HIDE DEF N
    <3>2. /\ InOrder(A)[i] = CHOOSE l \in A : Cardinality(upto(A, l)) = i
          /\ InOrder(B)[i] = CHOOSE l \in B : Cardinality(upto(B, l)) = i
      BY <1>8, <2>3, <3>1
    <3>3. QED
      BY <2>2, <2>4, <3>2
  <2>6. QED
    BY <2>5
<1>11. InOrder(B)[N + 1] = z
  <2>1. N + 1 \in 1 .. N + 1
    BY <1>1
  <2>2. z \in B /\ Cardinality(upto(B, z)) = N + 1
    BY <1>7, <1>9
  <2>3. \A l \in B : Cardinality(upto(B, l)) = N + 1 => l = z
    BY <1>1, <1>4, <1>7, <1>9
  <2>4. (CHOOSE l \in B : Cardinality(upto(B, l)) = N + 1) = z
    BY <2>2, <2>3
  <2>5. QED
    BY <1>8, <2>1, <2>4
<1>12. Ranked(B)
  <2>1. \A i \in 1 .. N + 1 : i \in 1 .. N \/ i = N + 1
    BY <1>1
  <2>2. \A i \in 1 .. N + 1 : \E k \in B : Cardinality(upto(B, k)) = i
    BY <1>6, <1>7, <1>9, <2>1
  <2>3. QED
    BY <1>1, <2>2 DEF Ranked, upto
<1>13. QED
  BY <1>1, <1>10, <1>11, <1>12 DEF B

OutcomeFields ==
    {"error", "allowed", "reason", "children", "visibleFields", "obligations"}

(* The fields of the outcomes at the places of A, in order.                *)
FieldsOf(ts, A) ==
    [i \in 1 .. Cardinality(A) |-> ts[InOrder(A)[i]].visibleFields]

DutiesOf(ts, A) == UNION {ts[k].obligations : k \in A}

AllowingUpTo(ts, c) == {k \in 1 .. c : ts[k].allowed}

(* What the fold of a composite holds, once it has folded the first        *)
(* `f.children` of its kids' outcomes and is still open.                   *)
FoldOver(tag, f, ts) ==
    LET c == f.children
        A == AllowingUpTo(ts, c)
    IN  /\ c \in Nat /\ DOMAIN f = FoldFields /\ f.verdict = <<>>
        /\ Ranked(A)
        /\ tag \in {"AllOf", "AnyOf"} =>
              f.fieldSets = FieldsOf(ts, A) /\ f.obligations = DutiesOf(ts, A)
        /\ tag = "AnyOf" =>
              /\ c = 0 => f.lastReason = <<>>
              /\ c > 0 /\ A = {} => f.lastReason = ts[c].reason
        /\ tag = "Rules" =>
              /\ f.firstDecisive = 0
              /\ f.firstApplying = IF A = {} THEN 0 ELSE Min(A)

(* A fold that begins has folded nothing. (Walk.ts, beginAllOf)            *)
LEMMA BeginFold == ASSUME NEW tag, NEW ts PROVE FoldOver(tag, begin, ts)
<1>1. AllowingUpTo(ts, 0) = {}
  BY DEF AllowingUpTo
<1>2. FieldsOf(ts, {}) = <<>> /\ DutiesOf(ts, {}) = {}
  BY RankedEmpty DEF FieldsOf, DutiesOf
<1>3. /\ DOMAIN begin = FoldFields /\ begin.children = 0 /\ begin.verdict = <<>>
      /\ begin.fieldSets = <<>> /\ begin.obligations = {}
      /\ begin.lastReason = <<>> /\ begin.firstDecisive = 0 /\ begin.firstApplying = 0
  BY DEF begin, FoldFields
<1>4. AllowingUpTo(ts, begin.children) = {}
  BY <1>1, <1>3
<1> DEFINE b == begin
<1>5. /\ DOMAIN b = FoldFields /\ b.children = 0 /\ b.verdict = <<>>
      /\ b.fieldSets = <<>> /\ b.obligations = {}
      /\ b.lastReason = <<>> /\ b.firstDecisive = 0 /\ b.firstApplying = 0
      /\ AllowingUpTo(ts, b.children) = {}
  BY <1>3, <1>4
<1> HIDE DEF b
<1>6. FoldOver(tag, b, ts)
  <2> DEFINE A == AllowingUpTo(ts, b.children)
  <2>1. A = {} /\ ~(b.children > 0) /\ b.children \in Nat
    BY <1>5
  <2> HIDE DEF A
  <2>2. Ranked(A)
    BY <2>1, RankedEmpty
  <2>3. b.fieldSets = FieldsOf(ts, A) /\ b.obligations = DutiesOf(ts, A)
    BY <1>2, <1>5, <2>1
  <2>4. b.firstApplying = IF A = {} THEN 0 ELSE Min(A)
    BY <1>5, <2>1
  <2>5. QED
    BY <1>5, <2>1, <2>2, <2>3, <2>4 DEF FoldOver, A
<1>7. QED
  BY <1>6 DEF b

(* A fold depends on the outcomes it has folded only.                      *)
LEMMA FoldOverSame ==
    ASSUME NEW tag, NEW f, NEW ts, NEW us, FoldOver(tag, f, ts),
           \A k \in 1 .. f.children : us[k] = ts[k]
    PROVE  FoldOver(tag, f, us)
<1> DEFINE A == AllowingUpTo(ts, f.children)
<1>1. AllowingUpTo(us, f.children) = A
  BY DEF AllowingUpTo
<1>2. \A k \in A : us[k] = ts[k]
  BY DEF AllowingUpTo
<1>3. FieldsOf(us, A) = FieldsOf(ts, A)
  <2>1. \A i \in 1 .. Cardinality(A) : InOrder(A)[i] \in A
    <3> DEFINE here(i) == CHOOSE k \in A : Cardinality({j \in A : j <= k}) = i
    <3>1. Ranked(A)
      BY DEF FoldOver
    <3>2. \A i \in 1 .. Cardinality(A) : \E k \in A : Cardinality({j \in A : j <= k}) = i
      BY <3>1 DEF Ranked
    <3>3. \A i \in 1 .. Cardinality(A) : InOrder(A)[i] = here(i)
      BY DEF InOrder
    <3> HIDE DEF A
    <3>4. \A i \in 1 .. Cardinality(A) : here(i) \in A
      BY <3>2
    <3>5. QED
      BY <3>3, <3>4
  <2> HIDE DEF A
  <2>2. QED
    BY <1>2, <2>1 DEF FieldsOf
<1>4. DutiesOf(us, A) = DutiesOf(ts, A)
  BY <1>2 DEF DutiesOf
<1>5. f.children \in Nat /\ (f.children > 0 => us[f.children] = ts[f.children])
  BY DEF FoldOver
<1> HIDE DEF A
<1>6. QED
  BY <1>1, <1>3, <1>4, <1>5 DEF FoldOver, A

(* One more outcome.                                                       *)
LEMMA AllowingAdd ==
    ASSUME NEW ts, NEW c \in Nat, Ranked(AllowingUpTo(ts, c))
    PROVE  LET A == AllowingUpTo(ts, c)
               B == AllowingUpTo(ts, c + 1)
           IN  /\ Ranked(B)
               /\ ts[c + 1].allowed =>
                     /\ B = A \cup {c + 1}
                     /\ FieldsOf(ts, B) = Append(FieldsOf(ts, A), ts[c + 1].visibleFields)
                     /\ DutiesOf(ts, B) = DutiesOf(ts, A) \cup ts[c + 1].obligations
                     /\ Min(B) = IF A = {} THEN c + 1 ELSE Min(A)
               /\ ~ts[c + 1].allowed => B = A
<1> DEFINE A == AllowingUpTo(ts, c)
           B == AllowingUpTo(ts, c + 1)
<1>1. A \in SUBSET Nat /\ (\A k \in A : k < c + 1 /\ k \in Nat)
  BY DEF AllowingUpTo
<1>2. B = IF ts[c + 1].allowed THEN A \cup {c + 1} ELSE A
  <2>1. \A k : k \in 1 .. c + 1 <=> k \in 1 .. c \/ k = c + 1
    OBVIOUS
  <2>2. \A k : k \in B <=> k \in A \/ (k = c + 1 /\ ts[c + 1].allowed)
    BY <2>1 DEF AllowingUpTo
  <2> HIDE DEF A, B
  <2>3. QED
    BY <2>2
<1>3. Ranked(A)
  OBVIOUS
<1> HIDE DEF A, B
<1>4. ASSUME ts[c + 1].allowed
      PROVE  /\ Ranked(B)
             /\ FieldsOf(ts, B) = Append(FieldsOf(ts, A), ts[c + 1].visibleFields)
             /\ DutiesOf(ts, B) = DutiesOf(ts, A) \cup ts[c + 1].obligations
             /\ Min(B) = IF A = {} THEN c + 1 ELSE Min(A)
  <2>1. B = A \cup {c + 1}
    BY <1>2, <1>4
  <2> DEFINE N == Cardinality(A)
  <2>2. /\ Ranked(B) /\ N \in Nat /\ Cardinality(B) = N + 1
        /\ InOrder(B)[N + 1] = c + 1
        /\ \A i \in 1 .. N : InOrder(B)[i] = InOrder(A)[i]
    <3> DEFINE z == c + 1
    <3>1. z \in Nat /\ \A k \in A : k < z
      BY <1>1
    <3> HIDE DEF z
    <3>2. B = A \cup {z}
      BY <2>1 DEF z
    <3>3. /\ Ranked(A \cup {z})
          /\ Cardinality(A) \in Nat /\ Cardinality(A \cup {z}) = Cardinality(A) + 1
          /\ InOrder(A \cup {z})[Cardinality(A) + 1] = z
          /\ \A i \in 1 .. Cardinality(A) : InOrder(A \cup {z})[i] = InOrder(A)[i]
      BY <1>3, <3>1, RankedAdd
    <3>4. QED
      BY <3>2, <3>3 DEF z
  <2>3. FieldsOf(ts, B) = Append(FieldsOf(ts, A), ts[c + 1].visibleFields)
    <3> HIDE DEF N
    <3>1. FieldsOf(ts, B) = [i \in 1 .. N + 1 |-> ts[InOrder(B)[i]].visibleFields]
      BY <2>2 DEF FieldsOf
    <3>2. FieldsOf(ts, A) = [i \in 1 .. N |-> ts[InOrder(A)[i]].visibleFields]
      BY DEF FieldsOf, N
    <3> DEFINE s == [i \in 1 .. N |-> ts[InOrder(A)[i]].visibleFields]
               v == ts[c + 1].visibleFields
    <3>3. Len(s) = N /\ Append(s, v) = [i \in 1 .. N + 1 |-> IF i = N + 1 THEN v ELSE s[i]]
      BY <2>2
    <3>4. \A i \in 1 .. N + 1 : i \in 1 .. N \/ i = N + 1
      BY <2>2
    <3>5. \A i \in 1 .. N + 1 :
            ts[InOrder(B)[i]].visibleFields = IF i = N + 1 THEN v ELSE s[i]
      BY <2>2, <3>4
    <3>6. QED
      BY <3>1, <3>2, <3>3, <3>5
  <2>4. DutiesOf(ts, B) = DutiesOf(ts, A) \cup ts[c + 1].obligations
    BY <2>1 DEF DutiesOf
  <2>5. Min(B) = IF A = {} THEN c + 1 ELSE Min(A)
    <3>1. B \in SUBSET Nat /\ c + 1 \in B /\ B # {}
      BY <1>1, <2>1
    <3>2. CASE A = {}
      BY <1>1, <2>1, <3>1, <3>2, HasLeast
    <3>3. CASE A # {}
      <4>1. Min(A) \in A /\ \A y \in A : Min(A) <= y
        BY <1>1, <3>3, HasLeast
      <4>2. PICK x \in A : x = Min(A)
        BY <4>1
      <4>3. x \in B /\ \A y \in B : x <= y
        BY <1>1, <2>1, <4>1, <4>2
      <4>4. Min(B) = x
        BY <3>1, <4>3, HasLeast
      <4>5. QED
        BY <3>3, <4>2, <4>4
    <3>4. QED
      BY <3>2, <3>3
  <2>6. QED
    BY <2>2, <2>3, <2>4, <2>5
<1>5. QED
  BY <1>2, <1>3, <1>4 DEF A, B

-----------------------------------------------------------------------------
(* What every outcome of a walk is like: one that allows did not fail, and *)
(* one that does not owes nothing and, unless it failed, gives a reason.   *)
GoodOutcome(o) ==
    /\ DOMAIN o = OutcomeFields
    /\ o.allowed \in BOOLEAN
    /\ o.allowed => o.error = <<>>
    /\ ~o.allowed => o.obligations = {}
    /\ ~o.allowed /\ o.error = <<>> => o.reason # <<>>

(* The outcome of a composite that looked at its first `last` kids, the    *)
(* last of which settled it (by = last) or did not (by = 0).               *)
OutcomeAt(n, ts, last, by) ==
    LET settled == by # 0
        applying == AllowingUpTo(ts, last)
        row == IF settled THEN last ELSE Min(applying)
        merged == mergeFields(question.policy[n].strategy, FieldsOf(ts, applying))
        duties == DutiesOf(ts, applying)
    IN  IF settled /\ Failed(ts[last]) THEN ts[last]
        ELSE CASE Tag(n) = "AllOf" /\ ~settled -> allow(<<>>, last, merged, duties)
               [] Tag(n) = "AnyOf" /\ applying # {} -> allow(<<>>, last, merged, duties)
               [] Tag(n) = "Rules" /\ applying # {} ->
                     IF question.policy[n].effects[row] = "Deny"
                     THEN deny(<<n, row>>, last)
                     ELSE allow(<<n, row>>, last, ts[row].visibleFields,
                                ts[row].obligations)
               [] OTHER -> deny(IF Tag(n) = "Rules" \/ ts = <<>> THEN <<n>>
                                ELSE ts[last].reason, last)

LEMMA MeaningAtLast ==
    ASSUME NEW n, NEW ts, NEW L \in Nat, DOMAIN ts = 1 .. L, Len(ts) = L,
           NEW last \in 0 .. L, NEW by \in {0, last},
           \A j \in 1 .. last : j # last => ~Settles(n, j, ts[j]),
           last > 0 => (by # 0 <=> Settles(n, last, ts[last])),
           by # 0 \/ last = L
    PROVE  CompositeMeaning(n, ts) = OutcomeAt(n, ts, last, by)
<1> DEFINE settling == {k \in DOMAIN ts : Settles(n, k, ts[k])}
           stop == IF settling = {} THEN Len(ts) ELSE Min(settling)
<1>1. settling # {} <=> by # 0
  OBVIOUS
<1>2. stop = last
  <2>1. CASE by # 0
    <3>1. settling \in SUBSET Nat /\ last \in settling
      BY <2>1
    <3>2. \A y \in settling : last <= y
      OBVIOUS
    <3> HIDE DEF settling
    <3>3. Min(settling) = last
      BY <3>1, <3>2, HasLeast
    <3>4. QED
      BY <3>1, <3>3
  <2>2. CASE by = 0
    BY <1>1, <2>2
  <2>3. QED
    BY <2>1, <2>2
<1> HIDE DEF settling
<1>3. CompositeMeaning(n, ts) = OutcomeAt(n, ts, stop, by)
  BY <1>1 DEF CompositeMeaning, OutcomeAt, AllowingUpTo, FieldsOf, DutiesOf, settling
<1>4. QED
  BY <1>2, <1>3

LEMMA FirstAlone == anyOfStopsAtAllow("First") /\
    \A s : s # "First" => ~anyOfStopsAtAllow(s)
  BY DEF anyOfStopsAtAllow, fieldStrategyLaws, isFieldStrategy, FieldStrategy, LAWS,
         FAIL_CLOSED

LEMMA FirstOfOne == \A x : mergeFields("First", <<x>>) = x
  BY DEF mergeFields, mergeFirst

(* The next outcome, when it leaves the composite's question open.         *)
LEMMA StepFolds ==
    ASSUME NEW n, Tag(n) \in Composites, NEW f, NEW ts, NEW kid,
           FoldOver(Tag(n), f, ts), ts[f.children + 1] = result[kid],
           ~Settles(n, f.children + 1, result[kid]),
           GoodOutcome(result[kid])
    PROVE  LET g == step(n, f, kid)
           IN  FoldOver(Tag(n), g, ts) /\ g.children = f.children + 1
<1> DEFINE t == result[kid]
           c == f.children
           g == step(n, f, kid)
           A == AllowingUpTo(ts, c)
           B == AllowingUpTo(ts, c + 1)
<1> SUFFICES FoldOver(Tag(n), g, ts) /\ g.children = f.children + 1
  OBVIOUS
<1>1. /\ c \in Nat /\ DOMAIN f = FoldFields /\ f.verdict = <<>> /\ ~Failed(t)
      /\ Ranked(A) /\ ts[c + 1] = t
      /\ Tag(n) \in {"AllOf", "AnyOf"} =>
              f.fieldSets = FieldsOf(ts, A) /\ f.obligations = DutiesOf(ts, A)
      /\ Tag(n) = "AnyOf" =>
              /\ c = 0 => f.lastReason = <<>>
              /\ c > 0 /\ A = {} => f.lastReason = ts[c].reason
      /\ Tag(n) = "Rules" =>
              /\ f.firstDecisive = 0
              /\ f.firstApplying = IF A = {} THEN 0 ELSE Min(A)
  BY DEF FoldOver, Settles
<1>2. /\ Ranked(B)
      /\ t.allowed =>
            /\ B = A \cup {c + 1}
            /\ FieldsOf(ts, B) = Append(FieldsOf(ts, A), t.visibleFields)
            /\ DutiesOf(ts, B) = DutiesOf(ts, A) \cup t.obligations
            /\ Min(B) = IF A = {} THEN c + 1 ELSE Min(A)
      /\ ~t.allowed => B = A
  <2> HIDE DEF t, g
  <2>1. c \in Nat /\ Ranked(AllowingUpTo(ts, c))
    BY <1>1
  <2> HIDE DEF c
  <2>2. /\ Ranked(B)
        /\ ts[c + 1].allowed =>
              /\ B = A \cup {c + 1}
              /\ FieldsOf(ts, B) = Append(FieldsOf(ts, A), ts[c + 1].visibleFields)
              /\ DutiesOf(ts, B) = DutiesOf(ts, A) \cup ts[c + 1].obligations
              /\ Min(B) = IF A = {} THEN c + 1 ELSE Min(A)
        /\ ~ts[c + 1].allowed => B = A
    BY <2>1, AllowingAdd
  <2>3. QED
    BY <1>1, <2>2
<1>3. A = {} \/ Min(A) # 0
  <2>1. A \in SUBSET Nat /\ 0 \notin A
    BY DEF AllowingUpTo
  <2> HIDE DEF A
  <2>2. QED
    BY <2>1, HasLeast
<1> HIDE DEF A, B
<1>4. ASSUME /\ DOMAIN g = FoldFields /\ g.verdict = <<>> /\ g.children = c + 1
             /\ Tag(n) \in {"AllOf", "AnyOf"} =>
                   g.fieldSets = FieldsOf(ts, B) /\ g.obligations = DutiesOf(ts, B)
             /\ Tag(n) = "AnyOf" /\ B = {} => g.lastReason = t.reason
             /\ Tag(n) = "Rules" =>
                   /\ g.firstDecisive = 0
                   /\ g.firstApplying = IF B = {} THEN 0 ELSE Min(B)
      PROVE  FoldOver(Tag(n), g, ts) /\ g.children = f.children + 1
  <2> HIDE DEF g
  <2>1. QED
    BY <1>1, <1>2, <1>4 DEF FoldOver, B
<1>5. CASE Tag(n) = "AllOf"
  <2>1. t.allowed /\ g = stepAllOf(f, t)
    BY <1>1, <1>5 DEF step, Settles
  <2>2. g = [f EXCEPT !.children = c + 1,
                      !.fieldSets = Append(f.fieldSets, t.visibleFields),
                      !.obligations = f.obligations \cup t.obligations]
    BY <2>1, <1>1 DEF stepAllOf, unionObligations, FoldFields
  <2> HIDE DEF g
  <2>3. /\ DOMAIN g = FoldFields /\ g.verdict = <<>> /\ g.children = c + 1
        /\ g.fieldSets = Append(f.fieldSets, t.visibleFields)
        /\ g.obligations = f.obligations \cup t.obligations
    BY <1>1, <2>2 DEF FoldFields
  <2>4. g.fieldSets = FieldsOf(ts, B) /\ g.obligations = DutiesOf(ts, B)
    BY <1>1, <1>2, <1>5, <2>1, <2>3
  <2>5. QED
    BY <1>4, <1>5, <2>3, <2>4
<1>6. CASE Tag(n) = "AnyOf"
  <2>1. g = stepAnyOf(n, f, t)
    BY <1>1, <1>6 DEF step
  <2>2. CASE t.allowed
    <3>1. ~anyOfStopsAtAllow(question.policy[n].strategy)
      BY <1>1, <1>6, <2>2, FirstAlone DEF Settles
    <3>2. g = [f EXCEPT !.children = c + 1,
                        !.fieldSets = Append(f.fieldSets, t.visibleFields),
                        !.obligations = f.obligations \cup t.obligations,
                        !.verdict = <<>>]
      BY <1>1, <2>1, <2>2, <3>1 DEF stepAnyOf, unionObligations, FoldFields
    <3> HIDE DEF g
    <3>3. /\ DOMAIN g = FoldFields /\ g.verdict = <<>> /\ g.children = c + 1
          /\ g.fieldSets = Append(f.fieldSets, t.visibleFields)
          /\ g.obligations = f.obligations \cup t.obligations
      BY <1>1, <3>2 DEF FoldFields
    <3>4. g.fieldSets = FieldsOf(ts, B) /\ g.obligations = DutiesOf(ts, B) /\ B # {}
      BY <1>1, <1>2, <1>6, <2>2, <3>3
    <3>5. QED
      BY <1>4, <1>6, <3>3, <3>4
  <2>3. CASE ~t.allowed
    <3>1. g = [f EXCEPT !.children = c + 1, !.lastReason = t.reason]
      BY <2>1, <2>3 DEF stepAnyOf
    <3> HIDE DEF g
    <3>2. /\ DOMAIN g = FoldFields /\ g.verdict = <<>> /\ g.children = c + 1
          /\ g.fieldSets = f.fieldSets /\ g.obligations = f.obligations
          /\ g.lastReason = t.reason
      BY <1>1, <3>1 DEF FoldFields
    <3>3. g.fieldSets = FieldsOf(ts, B) /\ g.obligations = DutiesOf(ts, B)
      BY <1>1, <1>2, <1>6, <2>3, <3>2
    <3>4. QED
      BY <1>4, <1>6, <3>2, <3>3
  <2>4. QED
    BY <2>2, <2>3
<1>7. CASE Tag(n) = "Rules"
  <2> DEFINE e == question.policy[n].effects[c + 1]
             d == rulesDecisiveEffect(question.policy[n].combining)
  <2>1. g = stepRules(n, f, t)
    BY <1>1, <1>7 DEF step
  <2>2. ~(t.allowed /\ d \in {"none", e})
    BY <1>1, <1>7 DEF Settles, rulesDecisiveEffect, effectiveCombining, isCombining
  <2>3. g = [f EXCEPT !.children = c + 1,
                      !.firstApplying =
                          IF t.allowed /\ f.firstApplying = 0 THEN c + 1
                          ELSE f.firstApplying,
                      !.firstDecisive = f.firstDecisive]
    BY <1>1, <2>1, <2>2 DEF stepRules, FoldFields
  <2> HIDE DEF g
  <2>4. /\ DOMAIN g = FoldFields /\ g.verdict = <<>> /\ g.children = c + 1
        /\ g.firstApplying = IF t.allowed /\ f.firstApplying = 0 THEN c + 1
                              ELSE f.firstApplying
        /\ g.firstDecisive = 0
    BY <1>1, <1>7, <2>3 DEF FoldFields
  <2>5. g.firstApplying = IF B = {} THEN 0 ELSE Min(B)
    BY <1>1, <1>2, <1>3, <1>7, <2>4
  <2>6. QED
    BY <1>4, <1>7, <2>4, <2>5
<1>8. QED
  BY <1>5, <1>6, <1>7 DEF Composites

(* The next outcome, when it settles the composite.                        *)
LEMMA StepSettles ==
    ASSUME NEW n, Tag(n) \in Composites, NEW f, NEW ts, NEW L \in Nat,
           DOMAIN ts = 1 .. L, f.children + 1 \in 1 .. L,
           FoldOver(Tag(n), f, ts),
           \A j \in 1 .. f.children + 1 : ts[j] = result[Kids(n)[j]],
           \A j \in 1 .. f.children : ~Settles(n, j, ts[j]),
           Settles(n, f.children + 1, ts[f.children + 1])
    PROVE  step(n, f, Kids(n)[f.children + 1]).verdict
               = <<OutcomeAt(n, ts, f.children + 1, f.children + 1)>>
<1> DEFINE c == f.children
           t == ts[c + 1]
           g == step(n, f, Kids(n)[c + 1])
           A == AllowingUpTo(ts, c)
           B == AllowingUpTo(ts, c + 1)
           o == OutcomeAt(n, ts, c + 1, c + 1)
<1> SUFFICES g.verdict = <<o>>
  OBVIOUS
<1>1. /\ c \in Nat /\ DOMAIN f = FoldFields /\ f.verdict = <<>>
      /\ Ranked(A) /\ ts # <<>>
      /\ Tag(n) \in {"AllOf", "AnyOf"} =>
              f.fieldSets = FieldsOf(ts, A) /\ f.obligations = DutiesOf(ts, A)
      /\ Tag(n) = "Rules" =>
              /\ f.firstDecisive = 0
              /\ f.firstApplying = IF A = {} THEN 0 ELSE Min(A)
  BY DEF FoldOver
<1>2. result[Kids(n)[c + 1]] = t
  BY <1>1
<1>3. /\ t.allowed =>
            /\ B = A \cup {c + 1}
            /\ FieldsOf(ts, B) = Append(FieldsOf(ts, A), t.visibleFields)
            /\ DutiesOf(ts, B) = DutiesOf(ts, A) \cup t.obligations
      /\ ~t.allowed => B = A
  <2> HIDE DEF t, g, o
  <2>1. c \in Nat /\ Ranked(AllowingUpTo(ts, c))
    BY <1>1
  <2> HIDE DEF c
  <2>2. /\ ts[c + 1].allowed =>
              /\ B = A \cup {c + 1}
              /\ FieldsOf(ts, B) = Append(FieldsOf(ts, A), ts[c + 1].visibleFields)
              /\ DutiesOf(ts, B) = DutiesOf(ts, A) \cup ts[c + 1].obligations
        /\ ~ts[c + 1].allowed => B = A
    BY <2>1, AllowingAdd
  <2>3. QED
    BY <2>2 DEF t
<1>4. o = IF Failed(t) THEN t
          ELSE CASE Tag(n) = "AllOf" -> deny(t.reason, c + 1)
                 [] Tag(n) = "AnyOf" /\ B # {} ->
                       allow(<<>>, c + 1,
                             mergeFields(question.policy[n].strategy, FieldsOf(ts, B)),
                             DutiesOf(ts, B))
                 [] Tag(n) = "Rules" /\ B # {} ->
                       IF question.policy[n].effects[c + 1] = "Deny"
                       THEN deny(<<n, c + 1>>, c + 1)
                       ELSE allow(<<n, c + 1>>, c + 1, t.visibleFields, t.obligations)
                 [] OTHER -> o
  <2> HIDE DEF t, c, B
  <2>1. t = ts[c + 1] /\ B = AllowingUpTo(ts, c + 1)
    BY DEF t, B
  <2>2. QED
    BY <1>1, <2>1 DEF OutcomeAt
<1>5. CASE Failed(t)
  <2>1. g = [f EXCEPT !.verdict = <<t>>]
    BY <1>1, <1>2, <1>5 DEF step
  <2> HIDE DEF g, o
  <2>2. QED
    BY <1>1, <1>4, <1>5, <2>1 DEF FoldFields
<1>6. CASE ~Failed(t) /\ Tag(n) = "AllOf"
  <2>1. ~t.allowed
    BY <1>6 DEF Settles
  <2>2. g = stepAllOf(f, t)
    BY <1>1, <1>2, <1>6 DEF step
  <2>3. g = [f EXCEPT !.children = c + 1, !.verdict = <<deny(t.reason, c + 1)>>]
    BY <2>1, <2>2 DEF stepAllOf
  <2> HIDE DEF g, o
  <2>4. QED
    BY <1>1, <1>4, <1>6, <2>3 DEF FoldFields
<1>7. CASE ~Failed(t) /\ Tag(n) = "AnyOf"
  <2>1. t.allowed /\ question.policy[n].strategy = "First"
    BY <1>7 DEF Settles
  <2>2. A = {}
    <3>1. \A j \in 1 .. c : ~ts[j].allowed
      BY <1>7, <2>1 DEF Settles
    <3>2. QED
      BY <3>1 DEF AllowingUpTo
  <2> HIDE DEF A, B
  <2>3. FieldsOf(ts, A) = <<>> /\ DutiesOf(ts, A) = {}
    BY <2>2, RankedEmpty DEF FieldsOf, DutiesOf
  <2>4. FieldsOf(ts, B) = <<t.visibleFields>> /\ DutiesOf(ts, B) = t.obligations
        /\ B # {}
    <3> HIDE DEF t, g, o, c
    <3>1. \A x : Append(<<>>, x) = <<x>>
      OBVIOUS
    <3>2. QED
      BY <1>3, <2>1, <2>3, <3>1
  <2>5. mergeFields(question.policy[n].strategy, FieldsOf(ts, B)) = t.visibleFields
    BY <2>1, <2>4, FirstOfOne
  <2>6. o = allow(<<>>, c + 1, t.visibleFields, t.obligations)
    <3> HIDE DEF o, c, t
    <3>1. QED
      BY <1>4, <1>7, <2>4, <2>5
  <2>7. g = stepAnyOf(n, f, t)
    BY <1>1, <1>2, <1>7 DEF step
  <2>8. f.obligations \cup t.obligations = t.obligations
    BY <1>1, <1>7, <2>3
  <2>9. g = [f EXCEPT !.children = c + 1,
                      !.fieldSets = Append(f.fieldSets, t.visibleFields),
                      !.obligations = t.obligations,
                      !.verdict = <<allow(<<>>, c + 1, t.visibleFields, t.obligations)>>]
    BY <1>1, <2>1, <2>7, <2>8, FirstAlone DEF stepAnyOf, unionObligations, FoldFields
  <2> HIDE DEF g, o
  <2>10. QED
    BY <1>1, <2>6, <2>9 DEF FoldFields
<1>8. CASE ~Failed(t) /\ Tag(n) = "Rules"
  <2> DEFINE e == question.policy[n].effects[c + 1]
             d == rulesDecisiveEffect(question.policy[n].combining)
             h == [f EXCEPT !.children = c + 1,
                       !.firstApplying =
                           IF f.firstApplying = 0 THEN c + 1 ELSE f.firstApplying,
                       !.firstDecisive =
                           IF d # "none" THEN c + 1 ELSE f.firstDecisive]
  <2>1. t.allowed /\ d \in {"none", e}
    BY <1>8 DEF Settles, rulesDecisiveEffect, effectiveCombining, isCombining
  <2>2. B # {}
    BY <1>3, <2>1
  <2>3. o = IF e = "Deny" THEN deny(<<n, c + 1>>, c + 1)
            ELSE allow(<<n, c + 1>>, c + 1, t.visibleFields, t.obligations)
    <3> HIDE DEF o, c, t, B
    <3>1. QED
      BY <1>4, <1>8, <2>2
  <2>4. g = stepRules(n, f, t)
    BY <1>1, <1>2, <1>8 DEF step
  <2>5. g = [h EXCEPT !.verdict = <<decideRules(n, h)>>]
    BY <1>1, <2>1, <2>4 DEF stepRules, FoldFields
  <2>6. d = "none" => A = {}
    <3>1. ASSUME d = "none" PROVE question.policy[n].combining = "FirstApplicable"
      BY <3>1 DEF rulesDecisiveEffect, effectiveCombining, isCombining
    <3>2. d = "none" => \A j \in 1 .. c : ~ts[j].allowed
      BY <1>8, <3>1 DEF Settles
    <3>3. QED
      BY <3>2 DEF AllowingUpTo
  <2>7. /\ h.children = c + 1
        /\ (IF h.firstDecisive # 0 THEN h.firstDecisive ELSE h.firstApplying) = c + 1
        /\ DOMAIN h = FoldFields
    <3> HIDE DEF A, d
    <3>1. f.firstDecisive = 0 /\ (d = "none" => f.firstApplying = 0)
      BY <1>1, <1>8, <2>6
    <3>2. QED
      BY <1>1, <3>1 DEF FoldFields
  <2> HIDE DEF h, g, o
  <2>8. decideRules(n, h) = o
    BY <1>1, <1>2, <2>3, <2>7 DEF decideRules
  <2>9. QED
    BY <2>5, <2>7, <2>8 DEF FoldFields
<1>9. QED
  BY <1>5, <1>6, <1>7, <1>8 DEF Composites

(* The outcome of a composite that folded every kid without settling.      *)
LEMMA OpenOutcome ==
    ASSUME NEW n, Tag(n) \in Composites, NEW g, NEW ts, NEW L \in Nat,
           DOMAIN ts = 1 .. L, g.children = L, FoldOver(Tag(n), g, ts),
           \A j \in 1 .. L : /\ ts[j] = result[Kids(n)[j]]
                             /\ GoodOutcome(ts[j]) /\ ~Settles(n, j, ts[j])
    PROVE  CompositeOutcome(n, g) = OutcomeAt(n, ts, L, 0)
<1> DEFINE A == AllowingUpTo(ts, L)
           o == OutcomeAt(n, ts, L, 0)
<1> SUFFICES CompositeOutcome(n, g) = o
  OBVIOUS
<1>1. /\ DOMAIN g = FoldFields /\ g.verdict = <<>> /\ Ranked(A)
      /\ A \in SUBSET 1 .. L
      /\ Tag(n) \in {"AllOf", "AnyOf"} =>
              g.fieldSets = FieldsOf(ts, A) /\ g.obligations = DutiesOf(ts, A)
      /\ Tag(n) = "AnyOf" =>
              /\ L = 0 => g.lastReason = <<>>
              /\ L > 0 /\ A = {} => g.lastReason = ts[L].reason
      /\ Tag(n) = "Rules" =>
              /\ g.firstDecisive = 0
              /\ g.firstApplying = IF A = {} THEN 0 ELSE Min(A)
  BY DEF FoldOver, AllowingUpTo
<1>2. o = CASE Tag(n) = "AllOf" ->
                  allow(<<>>, L,
                        mergeFields(question.policy[n].strategy, FieldsOf(ts, A)),
                        DutiesOf(ts, A))
            [] Tag(n) = "AnyOf" ->
                  IF A # {}
                  THEN allow(<<>>, L,
                             mergeFields(question.policy[n].strategy, FieldsOf(ts, A)),
                             DutiesOf(ts, A))
                  ELSE deny(IF ts = <<>> THEN <<n>> ELSE ts[L].reason, L)
            [] Tag(n) = "Rules" ->
                  IF A # {}
                  THEN IF question.policy[n].effects[Min(A)] = "Deny"
                       THEN deny(<<n, Min(A)>>, L)
                       ELSE allow(<<n, Min(A)>>, L, ts[Min(A)].visibleFields,
                                  ts[Min(A)].obligations)
                  ELSE deny(<<n>>, L)
  BY DEF OutcomeAt, Composites
<1> HIDE DEF A, o
<1>3. CASE Tag(n) = "AllOf"
  BY <1>1, <1>2, <1>3 DEF CompositeOutcome, finishAllOf
<1>4. CASE Tag(n) = "AnyOf"
  <2>1. CompositeOutcome(n, g) = finishAnyOf(n, g)
    BY <1>1, <1>4 DEF CompositeOutcome
  <2>2. A = {} <=> g.fieldSets = <<>>
    <3>1. Cardinality(A) \in Nat /\ (Cardinality(A) = 0 <=> A = {})
      BY <1>1, FS_EmptySet, FS_CardinalityType DEF Ranked
    <3>2. g.fieldSets = [i \in 1 .. Cardinality(A) |-> ts[InOrder(A)[i]].visibleFields]
      BY <1>1, <1>4 DEF FieldsOf
    <3>3. A # {} => 1 \in DOMAIN g.fieldSets
      BY <3>1, <3>2
    <3>4. A = {} => g.fieldSets = <<>>
      BY <3>1, <3>2
    <3>5. QED
      BY <3>3, <3>4
  <2>3. CASE A # {}
    BY <1>1, <1>2, <1>4, <2>1, <2>2, <2>3 DEF finishAnyOf
  <2>4. CASE A = {} /\ L = 0
    <3>1. ts = <<>>
      BY <2>4
    <3>2. QED
      BY <1>1, <1>2, <1>4, <2>1, <2>2, <2>4, <3>1 DEF finishAnyOf
  <2>5. CASE A = {} /\ L > 0
    <3>1. ts # <<>> /\ L \in 1 .. L
      BY <2>5
    <3>2. ~ts[L].allowed /\ ts[L].error = <<>>
      <4>1. ts[L].allowed => L \in AllowingUpTo(ts, L)
        BY <3>1 DEF AllowingUpTo
      <4>2. QED
        BY <2>5, <3>1, <4>1 DEF Settles, Failed, A
    <3>3. g.lastReason = ts[L].reason /\ g.lastReason # <<>>
      BY <1>1, <1>4, <2>5, <3>1, <3>2 DEF GoodOutcome
    <3>4. QED
      BY <1>1, <1>2, <1>4, <2>1, <2>2, <2>5, <3>1, <3>3 DEF finishAnyOf
  <2>6. QED
    BY <2>3, <2>4, <2>5
<1>5. CASE Tag(n) = "Rules"
  <2>1. CompositeOutcome(n, g) = decideRules(n, g)
    BY <1>1, <1>5 DEF CompositeOutcome
  <2>2. CASE A = {}
    BY <1>1, <1>2, <1>5, <2>1, <2>2 DEF decideRules
  <2>3. CASE A # {}
    <3>1. A \in SUBSET Nat
      BY <1>1
    <3>2. Min(A) \in A
      BY <2>3, <3>1, HasLeast
    <3>3. Min(A) \in 1 .. L
      BY <1>1, <3>2
    <3>4. Min(A) # 0 /\ ts[Min(A)] = result[Kids(n)[Min(A)]]
      BY <3>3
    <3>5. g.firstDecisive = 0 /\ g.firstApplying = Min(A)
      BY <1>1, <1>5, <2>3
    <3>6. QED
      BY <1>2, <1>5, <2>1, <2>3, <3>4, <3>5 DEF decideRules
  <2>4. QED
    BY <2>2, <2>3
<1>6. QED
  BY <1>3, <1>4, <1>5 DEF Composites

-----------------------------------------------------------------------------
(* What the other three properties rest on, of each node by itself: its    *)
(* outcome, once done, is a good one; its fold, while open, is the fold of *)
(* the outcomes it has taken; and the duties of its grant are its own and  *)
(* those of the kids that granted it.                                      *)
ResultsOf(m) == [k \in DOMAIN Kids(m) |-> result[Kids(m)[k]]]

OutcomesOK == \A n \in Nodes : GoodOutcome(result[n])

FoldsMean ==
    \A m \in Nodes : Tag(m) \in Composites =>
        /\ pc[m] = "unasked" => fold[m] = begin
        /\ pc[m] = "open" => /\ FoldOver(Tag(m), fold[m], ResultsOf(m))
                             /\ fold[m].children <= Len(Kids(m))

OwnDuty(n) == IF Tag(n) = "Obliged" THEN {question.policy[n].duty} ELSE {}

GrantingKids(n, o) ==
    {k \in DOMAIN Kids(n) : k <= o.children /\ (Tag(n) = "Rules" => o.reason[2] = k)}

Owes(n, o) ==
    o.allowed =>
        o.obligations = OwnDuty(n) \cup
            UNION {result[Kids(n)[k]].obligations : k \in GrantingKids(n, o)}

DutiesPassUp == \A n \in Nodes : Done(n) => Owes(n, result[n])

EndInv ==
    /\ OutcomesOK /\ FoldsMean /\ DutiesPassUp
    /\ TooDeepIsThePolicys /\ ConcurrencyChangesNothing

TooDeep == \E n \in Nodes : DepthToReach(n) > question.maxDepth

(* What depends on the policy and the answers alone stays as it is.        *)
LEMMA QuestionKept ==
    ASSUME question' = question, answers' = answers
    PROVE  /\ Nodes' = Nodes /\ Meaning' = Meaning /\ TooDeep' = TooDeep
           /\ \A n : /\ Kids(n)' = Kids(n) /\ Tag(n)' = Tag(n)
                     /\ OwnDuty(n)' = OwnDuty(n)
                     /\ DepthToReach(n)' = DepthToReach(n)
                     /\ \A o : GrantingKids(n, o)' = GrantingKids(n, o)
<1>1. Nodes' = Nodes
  BY DEF Nodes
<1>2. Meaning' = Meaning
  BY DEF Meaning, Nodes, Kids, Tag, LeafOutcome, WrapperOutcome, CompositeMeaning,
         Settles
<1>3. depthOf' = depthOf
  BY DEF depthOf, Nodes, Root, Parent, Kids
<1>4. \A n : Kids(n)' = Kids(n) /\ Tag(n)' = Tag(n)
  BY DEF Kids, Tag
<1>5. \A n : DepthToReach(n)' = DepthToReach(n)
  BY <1>3, <1>4 DEF DepthToReach
<1>6. TooDeep' = TooDeep
  BY <1>1, <1>5 DEF TooDeep
<1>7. \A n : OwnDuty(n)' = OwnDuty(n)
  BY <1>4 DEF OwnDuty
<1>8. \A n : \A o : GrantingKids(n, o)' = GrantingKids(n, o)
  BY <1>4 DEF GrantingKids
<1>9. QED
  BY <1>1, <1>2, <1>4, <1>5, <1>6, <1>7, <1>8

(* The kids an open composite has folded are done.                         *)
LEMMA FoldedAreDone ==
    ASSUME Inv, Tree, NEW m \in Nodes, Tag(m) \in Composites, pc[m] = "open",
           NEW j \in DOMAIN Kids(m), j <= fold[m].children
    PROVE  Done(Kids(m)[j]) /\ ~Settles(m, j, result[Kids(m)[j]])
  BY DEF Inv, FoldsOK

LEMMA FinishKeeps ==
    ASSUME Inv, Tree, EndInv, NEW c \in Nodes, NEW o, Finish(c, o), ~Done(c),
           c # Root => pc[c] = "open",
           \A n \in Nodes : n # c => fold'[n] = fold[n],
           GoodOutcome(o), Owes(c, o),
           o.error = PolicyTooDeep => c = Root /\ TooDeep,
           o.error # PolicyTooDeep => o = Meaning[c]
    PROVE  EndInv'
<1>0. WalkTypeOK /\ FoldsOK /\ OutcomesOK /\ FoldsMean /\ DutiesPassUp
      /\ TooDeepIsThePolicys /\ ConcurrencyChangesNothing
  BY DEF Inv, EndInv
<1>1. /\ question' = question /\ answers' = answers
      /\ \A n \in Nodes : pc'[n] = IF n = c THEN "done" ELSE pc[n]
      /\ \A n \in Nodes : result'[n] = IF n = c THEN o ELSE result[n]
  BY <1>0 DEF Finish, WalkTypeOK
<1>2. /\ Nodes' = Nodes /\ Meaning' = Meaning /\ TooDeep' = TooDeep
      /\ \A n : /\ Kids(n)' = Kids(n) /\ Tag(n)' = Tag(n)
                /\ OwnDuty(n)' = OwnDuty(n)
                /\ \A p : GrantingKids(n, p)' = GrantingKids(n, p)
  BY <1>1, QuestionKept
<1>3. /\ \A n \in Nodes : \A k \in DOMAIN Kids(n) :
            Kids(n)[k] \in Nodes /\ Kids(n)[k] # Root /\ Kids(n)[k] # n
      /\ Root \in Nodes
  BY DEF Tree
<1>4. OutcomesOK'
  BY <1>0, <1>1, <1>2 DEF OutcomesOK
<1>5. FoldsMean'
  <2> SUFFICES ASSUME NEW m \in Nodes, Tag(m) \in Composites
               PROVE  /\ pc'[m] = "unasked" => fold'[m] = begin
                      /\ pc'[m] = "open" =>
                            /\ FoldOver(Tag(m), fold'[m], ResultsOf(m)')
                            /\ fold'[m].children <= Len(Kids(m))
    BY <1>2 DEF FoldsMean, begin
  <2>1. CASE m = c
    BY <1>1, <2>1
  <2>2. CASE m # c
    <3>1. fold'[m] = fold[m] /\ pc'[m] = pc[m]
      BY <1>1, <2>2
    <3>2. ASSUME pc[m] = "open" PROVE FoldOver(Tag(m), fold[m], ResultsOf(m)')
      <4>1. FoldOver(Tag(m), fold[m], ResultsOf(m)) /\ fold[m].children <= Len(Kids(m))
        BY <1>0, <3>2 DEF FoldsMean
      <4>2. DOMAIN Kids(m) = 1 .. Len(Kids(m)) /\ Len(Kids(m)) \in Nat
            /\ fold[m].children \in Nat
        BY <1>0, <4>1, KidsFinite DEF FoldOver
      <4>3. ResultsOf(m)' = [k \in DOMAIN Kids(m) |-> result'[Kids(m)[k]]]
        BY <1>2 DEF ResultsOf
      <4>4. \A k \in 1 .. fold[m].children : ResultsOf(m)'[k] = ResultsOf(m)[k]
        <5> SUFFICES ASSUME NEW k \in 1 .. fold[m].children
                     PROVE  ResultsOf(m)'[k] = ResultsOf(m)[k]
          OBVIOUS
        <5>1. k \in DOMAIN Kids(m)
          BY <4>1, <4>2
        <5>2. Done(Kids(m)[k])
          BY <3>2, <4>2, <5>1, FoldedAreDone
        <5>3. Kids(m)[k] # c /\ Kids(m)[k] \in Nodes
          BY <1>3, <5>1, <5>2
        <5>4. QED
          BY <1>1, <4>3, <5>1, <5>3 DEF ResultsOf
      <4>5. QED
        BY <4>1, <4>4, FoldOverSame
    <3>3. QED
      BY <1>0, <3>1, <3>2 DEF FoldsMean
  <2>3. QED
    BY <2>1, <2>2
<1>6. DutiesPassUp'
  <2> SUFFICES ASSUME NEW n \in Nodes, pc'[n] = "done"
               PROVE  Owes(n, result[n])'
    BY <1>2 DEF DutiesPassUp, Done
  <2>1. Owes(n, result'[n])
    BY <1>0, <1>1 DEF DutiesPassUp, Done
  <2>2. \A k \in DOMAIN Kids(n) : result'[Kids(n)[k]] = result[Kids(n)[k]]
    <3> SUFFICES ASSUME NEW k \in DOMAIN Kids(n), Kids(n)[k] = c PROVE FALSE
      BY <1>1, <1>3
    <3>1. n # c /\ c # Root
      BY <1>3
    <3>2. pc[n] = "done" /\ pc[c] = "open"
      BY <1>1, <3>1
    <3>3. QED
      BY <1>0, <3>2 DEF WalkTypeOK, Done
  <2>3. \A k \in GrantingKids(n, result'[n]) :
            k \in DOMAIN Kids(n) /\ result'[Kids(n)[k]] = result[Kids(n)[k]]
    BY <2>2 DEF GrantingKids
  <2>4. UNION {result'[Kids(n)[k]].obligations : k \in GrantingKids(n, result'[n])}
          = UNION {result[Kids(n)[k]].obligations : k \in GrantingKids(n, result'[n])}
    BY <2>3
  <2>5. GrantingKids(n, result[n])' = GrantingKids(n, result'[n])
    BY <1>2 DEF GrantingKids
  <2>6. QED
    BY <1>2, <2>1, <2>4, <2>5 DEF Owes
<1>7. TooDeepIsThePolicys'
  <2>1. /\ pc[Root] = "open" => ~TooDeep
        /\ \A n \in Nodes : result[n].error = PolicyTooDeep => n = Root /\ TooDeep
        /\ TooDeep => \A n \in Nodes \ {Root} : pc[n] = "unasked"
    BY <1>0 DEF TooDeepIsThePolicys, TooDeep
  <2>2. /\ pc'[Root] = "open" => ~TooDeep
        /\ \A n \in Nodes : result'[n].error = PolicyTooDeep => n = Root /\ TooDeep
        /\ TooDeep => \A n \in Nodes \ {Root} : pc'[n] = "unasked"
    BY <1>1, <1>3, <2>1
  <2>3. TooDeepIsThePolicys' <=>
          /\ pc'[Root] = "open" => ~TooDeep'
          /\ \A n \in Nodes' : result'[n].error = PolicyTooDeep => n = Root /\ TooDeep'
          /\ TooDeep' => \A n \in Nodes' \ {Root} : pc'[n] = "unasked"
    BY DEF TooDeepIsThePolicys, TooDeep, PolicyTooDeep, Root
  <2>4. QED
    BY <1>2, <2>2, <2>3
<1>8. ConcurrencyChangesNothing'
  BY <1>0, <1>1, <1>2 DEF ConcurrencyChangesNothing, Done, PolicyTooDeep
<1>9. QED
  BY <1>4, <1>5, <1>6, <1>7, <1>8 DEF EndInv

-----------------------------------------------------------------------------
(* What each step of a walk keeps.                                         *)

LEMMA OpenKeeps ==
    ASSUME Inv, Tree, EndInv, NEW c \in Nodes, pc[c] = "unasked",
           pc' = [pc EXCEPT ![c] = "open"],
           UNCHANGED <<question, answers, fold, result>>, ~TooDeep
    PROVE  EndInv'
<1>0. WalkTypeOK /\ FoldsOK /\ OutcomesOK /\ FoldsMean /\ DutiesPassUp
      /\ TooDeepIsThePolicys /\ ConcurrencyChangesNothing
  BY DEF Inv, EndInv
<1>1. /\ question' = question /\ answers' = answers /\ fold' = fold /\ result' = result
      /\ \A n \in Nodes : pc'[n] = IF n = c THEN "open" ELSE pc[n]
  BY <1>0 DEF WalkTypeOK
<1>2. /\ Nodes' = Nodes /\ Meaning' = Meaning /\ TooDeep' = TooDeep
      /\ \A n : /\ Kids(n)' = Kids(n) /\ Tag(n)' = Tag(n)
                /\ OwnDuty(n)' = OwnDuty(n)
                /\ \A p : GrantingKids(n, p)' = GrantingKids(n, p)
  BY <1>1, QuestionKept
<1>3. OutcomesOK'
  BY <1>0, <1>1, <1>2 DEF OutcomesOK
<1>4. FoldsMean'
  <2> SUFFICES ASSUME NEW m \in Nodes, Tag(m) \in Composites
               PROVE  /\ pc'[m] = "unasked" => fold[m] = begin
                      /\ pc'[m] = "open" =>
                            /\ FoldOver(Tag(m), fold[m], ResultsOf(m)')
                            /\ fold[m].children <= Len(Kids(m))
    BY <1>1, <1>2 DEF FoldsMean, begin
  <2>1. ResultsOf(m)' = ResultsOf(m)
    BY <1>1, <1>2 DEF ResultsOf
  <2>2. /\ pc[m] = "unasked" => fold[m] = begin
        /\ pc[m] = "open" => /\ FoldOver(Tag(m), fold[m], ResultsOf(m))
                             /\ fold[m].children <= Len(Kids(m))
    BY <1>0 DEF FoldsMean
  <2>3. Len(Kids(m)) \in Nat /\ begin.children = 0
    BY <1>0, KidsFinite DEF begin
  <2>4. FoldOver(Tag(m), begin, ResultsOf(m))
    BY BeginFold
  <2>5. CASE m = c
    BY <1>1, <2>1, <2>2, <2>3, <2>4, <2>5
  <2>6. CASE m # c
    BY <1>1, <2>1, <2>2, <2>6
  <2>7. QED
    BY <2>5, <2>6
<1>5. DutiesPassUp'
  <2>1. \A n \in Nodes : pc'[n] = "done" => pc[n] = "done"
    BY <1>1
  <2>2. \A n \in Nodes : Owes(n, result[n])' <=> Owes(n, result[n])
    BY <1>1, <1>2 DEF Owes
  <2>3. QED
    BY <1>0, <1>2, <2>1, <2>2 DEF DutiesPassUp, Done
<1>6. TooDeepIsThePolicys'
  <2>1. \A n \in Nodes : result[n].error = PolicyTooDeep => n = Root /\ TooDeep
    BY <1>0 DEF TooDeepIsThePolicys, TooDeep
  <2>2. TooDeepIsThePolicys' <=>
          /\ pc'[Root] = "open" => ~TooDeep'
          /\ \A n \in Nodes' : result'[n].error = PolicyTooDeep => n = Root /\ TooDeep'
          /\ TooDeep' => \A n \in Nodes' \ {Root} : pc'[n] = "unasked"
    BY DEF TooDeepIsThePolicys, TooDeep, PolicyTooDeep, Root
  <2>3. QED
    BY <1>1, <1>2, <2>1, <2>2
<1>7. ConcurrencyChangesNothing'
  <2>1. \A n \in Nodes : pc'[n] = "done" => pc[n] = "done"
    BY <1>1
  <2>2. QED
    BY <1>0, <1>1, <1>2, <2>1 DEF ConcurrencyChangesNothing, Done, PolicyTooDeep
<1>8. QED
  BY <1>3, <1>4, <1>5, <1>6, <1>7 DEF EndInv

(* A composite takes a kid's outcome and stays open.                       *)
LEMMA FoldKeeps ==
    ASSUME Inv, Tree, EndInv, NEW m \in Nodes, NEW g,
           UNCHANGED <<question, answers, pc, result>>,
           fold' = [fold EXCEPT ![m] = g], Tag(m) \in Composites, pc[m] = "open",
           FoldOver(Tag(m), g, ResultsOf(m)), g.children <= Len(Kids(m))
    PROVE  EndInv'
<1>0. WalkTypeOK /\ FoldsOK /\ OutcomesOK /\ FoldsMean /\ DutiesPassUp
      /\ TooDeepIsThePolicys /\ ConcurrencyChangesNothing
  BY DEF Inv, EndInv
<1>1. /\ question' = question /\ answers' = answers /\ pc' = pc /\ result' = result
      /\ \A n \in Nodes : fold'[n] = IF n = m THEN g ELSE fold[n]
  BY <1>0 DEF WalkTypeOK
<1>2. /\ Nodes' = Nodes /\ Meaning' = Meaning /\ TooDeep' = TooDeep
      /\ \A n : /\ Kids(n)' = Kids(n) /\ Tag(n)' = Tag(n)
                /\ OwnDuty(n)' = OwnDuty(n)
                /\ \A p : GrantingKids(n, p)' = GrantingKids(n, p)
  BY <1>1, QuestionKept
<1>3. OutcomesOK'
  BY <1>0, <1>1, <1>2 DEF OutcomesOK
<1>4. FoldsMean'
  <2> SUFFICES ASSUME NEW n \in Nodes, Tag(n) \in Composites
               PROVE  /\ pc[n] = "unasked" => fold'[n] = begin
                      /\ pc[n] = "open" =>
                            /\ FoldOver(Tag(n), fold'[n], ResultsOf(n)')
                            /\ fold'[n].children <= Len(Kids(n))
    BY <1>1, <1>2 DEF FoldsMean, begin
  <2>1. ResultsOf(n)' = ResultsOf(n)
    BY <1>1, <1>2 DEF ResultsOf
  <2>2. QED
    BY <1>0, <1>1, <2>1 DEF FoldsMean
<1>5. DutiesPassUp'
  <2>1. \A n \in Nodes : Owes(n, result[n])' <=> Owes(n, result[n])
    BY <1>1, <1>2 DEF Owes
  <2>2. QED
    BY <1>0, <1>1, <1>2, <2>1 DEF DutiesPassUp, Done
<1>6. TooDeepIsThePolicys'
  <2>1. TooDeepIsThePolicys <=>
          /\ pc[Root] = "open" => ~TooDeep
          /\ \A n \in Nodes : result[n].error = PolicyTooDeep => n = Root /\ TooDeep
          /\ TooDeep => \A n \in Nodes \ {Root} : pc[n] = "unasked"
    BY DEF TooDeepIsThePolicys, TooDeep
  <2>2. TooDeepIsThePolicys' <=>
          /\ pc'[Root] = "open" => ~TooDeep'
          /\ \A n \in Nodes' : result'[n].error = PolicyTooDeep => n = Root /\ TooDeep'
          /\ TooDeep' => \A n \in Nodes' \ {Root} : pc'[n] = "unasked"
    BY DEF TooDeepIsThePolicys, TooDeep, PolicyTooDeep, Root
  <2>3. QED
    BY <1>0, <1>1, <1>2, <2>1, <2>2
<1>7. ConcurrencyChangesNothing'
  BY <1>0, <1>1, <1>2 DEF ConcurrencyChangesNothing, Done, PolicyTooDeep
<1>8. QED
  BY <1>3, <1>4, <1>5, <1>6, <1>7 DEF EndInv

-----------------------------------------------------------------------------
(* What each kind of node returns.                                         *)

LEMMA ErrorsDiffer ==
    /\ PolicyTooDeep # <<>> /\ <<"unwalked">> # PolicyTooDeep
    /\ \A n : <<"leaf", n>> # PolicyTooDeep /\ <<"leaf", n>> # <<>>
<1>1. PolicyTooDeep # <<>>
  BY DEF PolicyTooDeep
<1>2. <<"unwalked">> # PolicyTooDeep
  <2>1. <<"unwalked">>[1] = "unwalked" /\ PolicyTooDeep[1] = "too deep"
    BY DEF PolicyTooDeep
  <2>2. QED
    BY <2>1
<1>3. ASSUME NEW n PROVE <<"leaf", n>> # PolicyTooDeep /\ <<"leaf", n>> # <<>>
  <2>1. DOMAIN <<"leaf", n>> = 1 .. 2 /\ DOMAIN PolicyTooDeep = 1 .. 1 /\ DOMAIN <<>> = {}
    BY DEF PolicyTooDeep
  <2>2. 2 \in 1 .. 2 /\ 2 \notin 1 .. 1
    OBVIOUS
  <2>3. QED
    BY <2>1, <2>2
<1>4. QED
  BY <1>1, <1>2, <1>3

(* Denials and failures are good outcomes.                                 *)
LEMMA Denials ==
    ASSUME NEW r, NEW k, NEW o, o = deny(r, k), r # <<>>
    PROVE  /\ GoodOutcome(o) /\ o.error = <<>> /\ o.error # PolicyTooDeep
           /\ ~o.allowed /\ o.reason = r /\ o.children = k
<1>1. /\ DOMAIN o = OutcomeFields /\ o.error = <<>> /\ o.allowed = FALSE
      /\ o.reason = r /\ o.children = k /\ o.obligations = {}
  BY DEF deny, Trace, OutcomeFields
<1>2. GoodOutcome(o)
  BY <1>1 DEF GoodOutcome
<1>3. QED
  BY <1>1, <1>2, ErrorsDiffer

LEMMA Failures ==
    ASSUME NEW e, NEW o, o = Failure(e), e # <<>>
    PROVE  GoodOutcome(o) /\ o.error = e /\ ~o.allowed
<1>1. DOMAIN o = OutcomeFields /\ o.error = e /\ o.allowed = FALSE /\ o.obligations = {}
  BY DEF Failure, deny, Trace, OutcomeFields
<1>2. QED
  BY <1>1 DEF GoodOutcome

LEMMA LeafReturns ==
    ASSUME Inv, Tree, NEW n \in Nodes, Tag(n) = "Leaf"
    PROVE  LET o == LeafOutcome(n)
           IN  GoodOutcome(o) /\ Owes(n, o) /\ o = Meaning[n] /\ o.error # PolicyTooDeep
<1> DEFINE o == LeafOutcome(n)
<1> SUFFICES GoodOutcome(o) /\ Owes(n, o) /\ o = Meaning[n] /\ o.error # PolicyTooDeep
  OBVIOUS
<1>1. answers[n] \in {"allow", "deny", "fail"}
  BY DEF Inv, WalkTypeOK, Leaves
<1>2. \/ o = allow(<<>>, 0, question.policy[n].fields, {})
      \/ o = deny(<<n>>, 0)
      \/ o = Failure(<<"leaf", n>>)
  BY <1>1 DEF LeafOutcome
<1>3. Meaning[n] = o
  BY MeaningEquation DEF MeaningStep, Inv
<1>4. OwnDuty(n) = {} /\ GrantingKids(n, o) = {}
  BY DEF OwnDuty, GrantingKids, Tree
<1> HIDE DEF o
<1>5. <<n>> # <<>>
  OBVIOUS
<1>6. GoodOutcome(o) /\ o.error # PolicyTooDeep
  <2>1. CASE o = allow(<<>>, 0, question.policy[n].fields, {})
    <3>1. DOMAIN o = OutcomeFields /\ o.error = <<>> /\ o.allowed = TRUE
      BY <2>1 DEF allow, Trace, OutcomeFields
    <3>2. QED
      BY <3>1, ErrorsDiffer DEF GoodOutcome
  <2>2. CASE o = deny(<<n>>, 0)
    BY <2>2, <1>5, Denials
  <2>3. CASE o = Failure(<<"leaf", n>>)
    <3>1. <<"leaf", n>> # <<>> /\ <<"leaf", n>> # PolicyTooDeep
      BY ErrorsDiffer
    <3>2. QED
      BY <2>3, <3>1, Failures
  <2>4. QED
    BY <1>2, <2>1, <2>2, <2>3
<1>7. o.allowed => o.obligations = {}
  <2>1. CASE o = allow(<<>>, 0, question.policy[n].fields, {})
    BY <2>1 DEF allow, Trace
  <2>2. CASE o = deny(<<n>>, 0)
    BY <2>2, <1>5, Denials
  <2>3. CASE o = Failure(<<"leaf", n>>)
    BY <2>3, ErrorsDiffer, Failures
  <2>4. QED
    BY <1>2, <2>1, <2>2, <2>3
<1>8. Owes(n, o)
  BY <1>4, <1>7 DEF Owes
<1>9. QED
  BY <1>3, <1>6, <1>8

LEMMA WrapperReturns ==
    ASSUME Inv, Tree, EndInv, NEW n \in Nodes, Tag(n) \in Wrappers, Done(Kids(n)[1])
    PROVE  LET o == WrapperOutcome(n, result[Kids(n)[1]])
           IN  GoodOutcome(o) /\ Owes(n, o) /\ o = Meaning[n] /\ o.error # PolicyTooDeep
<1> DEFINE t == result[Kids(n)[1]]
           o == WrapperOutcome(n, t)
<1> SUFFICES GoodOutcome(o) /\ Owes(n, o) /\ o = Meaning[n] /\ o.error # PolicyTooDeep
  OBVIOUS
<1>1. /\ DOMAIN Kids(n) = {1} /\ Kids(n)[1] \in Nodes /\ Kids(n)[1] # Root
      /\ Tag(n) # "Leaf" /\ Tag(n) # "Rules"
  BY DEF Tree, Wrappers
<1>2. GoodOutcome(t) /\ t.error # PolicyTooDeep /\ t = Meaning[Kids(n)[1]]
  BY <1>1 DEF EndInv, OutcomesOK, TooDeepIsThePolicys, ConcurrencyChangesNothing
<1>3. o = Meaning[n]
  BY <1>1, <1>2, MeaningEquation DEF MeaningStep, Inv
<1>4. \/ Failed(t) /\ o = t
      \/ ~Failed(t) /\ Tag(n) = "Not" /\ t.allowed /\ o = deny(<<n>>, 1)
      \/ ~Failed(t) /\ Tag(n) = "Not" /\ ~t.allowed /\ o = allow(<<>>, 1, AllFields, {})
      \/ /\ ~Failed(t) /\ Tag(n) = "Obliged" /\ t.allowed
         /\ o = allow(<<>>, 1, t.visibleFields,
                      {question.policy[n].duty} \cup t.obligations)
      \/ ~Failed(t) /\ Tag(n) = "Obliged" /\ ~t.allowed /\ o = deny(t.reason, 1)
      \/ ~Failed(t) /\ Tag(n) = "Labeled" /\ o = [t EXCEPT !.children = 1]
  BY DEF WrapperOutcome, unionObligations, Wrappers
<1>5. Tag(n) # "Obliged" => OwnDuty(n) = {}
  BY DEF OwnDuty
<1>6. \A p : p.children = 1 => GrantingKids(n, p) = {1}
  BY <1>1 DEF GrantingKids
<1>7. \A p : (p.allowed => /\ p.children = 1
                          /\ p.obligations = OwnDuty(n) \cup t.obligations)
               => Owes(n, p)
  <2> SUFFICES ASSUME NEW p,
                      p.allowed => /\ p.children = 1
                                   /\ p.obligations = OwnDuty(n) \cup t.obligations
               PROVE  Owes(n, p)
    OBVIOUS
  <2>1. QED
    BY <1>6 DEF Owes
<1> HIDE DEF t, o
<1>8. CASE Failed(t) /\ o = t
  <2>1. ~o.allowed
    BY <1>2, <1>8 DEF GoodOutcome, Failed
  <2>2. Owes(n, o)
    BY <2>1 DEF Owes
  <2>3. QED
    BY <1>2, <1>3, <1>8, <2>2
<1>9. CASE o = deny(<<n>>, 1)
  <2>1. <<n>> # <<>>
    OBVIOUS
  <2>2. ~o.allowed /\ GoodOutcome(o) /\ o.error # PolicyTooDeep
    BY <1>9, <2>1, Denials
  <2>3. Owes(n, o)
    BY <2>2 DEF Owes
  <2>4. QED
    BY <1>3, <2>2, <2>3
<1>10. CASE Tag(n) = "Not" /\ ~t.allowed /\ o = allow(<<>>, 1, AllFields, {})
  <2>1. GoodOutcome(o) /\ o.error # PolicyTooDeep /\ o.children = 1 /\ o.obligations = {}
    <3>1. /\ DOMAIN o = OutcomeFields /\ o.error = <<>> /\ o.allowed = TRUE
          /\ o.children = 1 /\ o.obligations = {}
      BY <1>10 DEF allow, Trace, OutcomeFields
    <3>2. QED
      BY <3>1, ErrorsDiffer DEF GoodOutcome
  <2>2. OwnDuty(n) = {} /\ t.obligations = {}
    BY <1>2, <1>5, <1>10 DEF GoodOutcome
  <2>3. Owes(n, o)
    BY <1>7, <2>1, <2>2
  <2>4. QED
    BY <1>3, <2>1, <2>3
<1>11. CASE /\ Tag(n) = "Obliged"
            /\ o = allow(<<>>, 1, t.visibleFields,
                         {question.policy[n].duty} \cup t.obligations)
  <2>1. GoodOutcome(o) /\ o.error # PolicyTooDeep /\ o.children = 1
        /\ o.obligations = {question.policy[n].duty} \cup t.obligations
    <3>1. /\ DOMAIN o = OutcomeFields /\ o.error = <<>> /\ o.allowed = TRUE
          /\ o.children = 1
          /\ o.obligations = {question.policy[n].duty} \cup t.obligations
      BY <1>11 DEF allow, Trace, OutcomeFields
    <3>2. QED
      BY <3>1, ErrorsDiffer DEF GoodOutcome
  <2>2. OwnDuty(n) = {question.policy[n].duty}
    BY <1>11 DEF OwnDuty
  <2>3. Owes(n, o)
    BY <1>7, <2>1, <2>2
  <2>4. QED
    BY <1>3, <2>1, <2>3
<1>12. CASE ~Failed(t) /\ ~t.allowed /\ o = deny(t.reason, 1)
  <2>1. t.reason # <<>>
    BY <1>2, <1>12 DEF GoodOutcome, Failed
  <2>2. ~o.allowed /\ GoodOutcome(o) /\ o.error # PolicyTooDeep
    BY <1>12, <2>1, Denials
  <2>3. Owes(n, o)
    BY <2>2 DEF Owes
  <2>4. QED
    BY <1>3, <2>2, <2>3
<1>13. CASE Tag(n) = "Labeled" /\ o = [t EXCEPT !.children = 1]
  <2>1. /\ DOMAIN o = OutcomeFields /\ o.children = 1 /\ o.error = t.error
        /\ o.allowed = t.allowed /\ o.reason = t.reason /\ o.obligations = t.obligations
    BY <1>2, <1>13 DEF GoodOutcome, OutcomeFields
  <2>2. GoodOutcome(o) /\ o.error # PolicyTooDeep
    BY <1>2, <2>1 DEF GoodOutcome
  <2>3. OwnDuty(n) = {}
    BY <1>5, <1>13
  <2>4. Owes(n, o)
    BY <1>7, <2>1, <2>3
  <2>5. QED
    BY <1>3, <2>2, <2>4
<1>14. QED
  BY <1>4, <1>8, <1>9, <1>10, <1>11, <1>12, <1>13

(* The outcome of a composite that looked at its first `last` kids is a    *)
(* good one, and owes what the kids that granted it owe.                   *)
LEMMA OutcomeAtGood ==
    ASSUME Tree, NEW n \in Nodes, Tag(n) \in Composites,
           NEW ts, NEW L \in Nat, DOMAIN ts = 1 .. L, DOMAIN Kids(n) = 1 .. L,
           NEW last \in 0 .. L, NEW by \in {0, last},
           \A j \in 1 .. last : ts[j] = result[Kids(n)[j]] /\ GoodOutcome(ts[j]),
           last > 0 => (by # 0 <=> Settles(n, last, ts[last])),
           by # 0 \/ last = L,
           \A j \in 1 .. last : ts[j].error # PolicyTooDeep
    PROVE  LET o == OutcomeAt(n, ts, last, by)
           IN  GoodOutcome(o) /\ Owes(n, o) /\ o.error # PolicyTooDeep
<1> DEFINE A == AllowingUpTo(ts, last)
           o == OutcomeAt(n, ts, last, by)
           row == IF by # 0 THEN last ELSE Min(A)
           merged == mergeFields(question.policy[n].strategy, FieldsOf(ts, A))
           effect == question.policy[n].effects[row]
<1> SUFFICES GoodOutcome(o) /\ Owes(n, o) /\ o.error # PolicyTooDeep
  OBVIOUS
<1>1. OwnDuty(n) = {}
  BY DEF OwnDuty, Composites
<1>2. A \in SUBSET (1 .. last) /\ A \in SUBSET Nat
  BY DEF AllowingUpTo
<1>3. A # {} => row \in 1 .. last
  <2>1. A # {} => Min(A) \in A
    <3> HIDE DEF A
    <3>1. QED
      BY <1>2, HasLeast
  <2>2. by # 0 => last \in 1 .. last
    OBVIOUS
  <2> HIDE DEF A
  <2>3. QED
    BY <1>2, <2>1, <2>2
<1>4. DutiesOf(ts, A) = UNION {ts[k].obligations : k \in 1 .. last}
  <2>1. \A k \in 1 .. last : k \notin A => ts[k].obligations = {}
    BY DEF AllowingUpTo, GoodOutcome
  <2> HIDE DEF A
  <2>2. QED
    BY <1>2, <2>1 DEF DutiesOf
<1>5. o = IF by # 0 /\ Failed(ts[last]) THEN ts[last]
          ELSE CASE Tag(n) = "AllOf" /\ by = 0 ->
                        allow(<<>>, last, merged, DutiesOf(ts, A))
                 [] Tag(n) = "AnyOf" /\ A # {} ->
                        allow(<<>>, last, merged, DutiesOf(ts, A))
                 [] Tag(n) = "Rules" /\ A # {} ->
                        IF effect = "Deny" THEN deny(<<n, row>>, last)
                        ELSE allow(<<n, row>>, last, ts[row].visibleFields,
                                   ts[row].obligations)
                 [] OTHER -> deny(IF Tag(n) = "Rules" \/ ts = <<>> THEN <<n>>
                                  ELSE ts[last].reason, last)
  BY DEF OutcomeAt
<1>6. \A j \in 1 .. last : j \in DOMAIN Kids(n)
  OBVIOUS
<1>7. A = {} => \A j \in 1 .. last : ~ts[j].allowed
  BY DEF AllowingUpTo
<1>8. ASSUME NEW r, r # <<>>, o = deny(r, last)
      PROVE  GoodOutcome(o) /\ Owes(n, o) /\ o.error # PolicyTooDeep
  <2> HIDE DEF o
  <2>1. GoodOutcome(o) /\ ~o.allowed /\ o.error # PolicyTooDeep
    BY <1>8, Denials
  <2>2. QED
    BY <2>1 DEF Owes
<1> HIDE DEF o, A, row, merged, effect
<1>9. CASE by # 0 /\ Failed(ts[last])
  <2>1. o = ts[last] /\ last \in 1 .. last
    BY <1>5, <1>9
  <2>2. GoodOutcome(o) /\ ~o.allowed /\ o.error # PolicyTooDeep
    BY <1>9, <2>1 DEF GoodOutcome, Failed
  <2>3. QED
    BY <2>2 DEF Owes
<1>10. CASE o = allow(<<>>, last, merged, DutiesOf(ts, A)) /\ Tag(n) # "Rules"
  <2>1. /\ DOMAIN o = OutcomeFields /\ o.error = <<>> /\ o.allowed = TRUE
        /\ o.children = last /\ o.obligations = DutiesOf(ts, A)
    BY <1>10 DEF allow, Trace, OutcomeFields
  <2>2. GoodOutcome(o) /\ o.error # PolicyTooDeep
    BY <2>1, ErrorsDiffer DEF GoodOutcome
  <2>3. GrantingKids(n, o) = 1 .. last
    BY <1>6, <1>10, <2>1 DEF GrantingKids
  <2>4. UNION {result[Kids(n)[k]].obligations : k \in 1 .. last}
          = UNION {ts[k].obligations : k \in 1 .. last}
    OBVIOUS
  <2>5. Owes(n, o)
    BY <1>1, <1>4, <2>1, <2>3, <2>4 DEF Owes
  <2>6. QED
    BY <2>2, <2>5
<1>11. CASE /\ Tag(n) = "Rules" /\ A # {}
            /\ o = allow(<<n, row>>, last, ts[row].visibleFields, ts[row].obligations)
  <2>1. /\ DOMAIN o = OutcomeFields /\ o.error = <<>> /\ o.allowed = TRUE
        /\ o.children = last /\ o.obligations = ts[row].obligations
        /\ o.reason = <<n, row>>
    BY <1>11 DEF allow, Trace, OutcomeFields
  <2>2. GoodOutcome(o) /\ o.error # PolicyTooDeep
    BY <2>1, ErrorsDiffer DEF GoodOutcome
  <2>3. o.reason[2] = row /\ row \in 1 .. last
    BY <1>3, <1>11, <2>1
  <2>4. GrantingKids(n, o) = {row}
    BY <1>6, <1>11, <2>1, <2>3 DEF GrantingKids
  <2>5. ts[row] = result[Kids(n)[row]]
    BY <2>3
  <2>6. Owes(n, o)
    BY <1>1, <2>1, <2>4, <2>5 DEF Owes
  <2>7. QED
    BY <2>2, <2>6
<1>12. CASE o = deny(<<n, row>>, last)
  BY <1>8, <1>12
<1>13. CASE o = deny(<<n>>, last)
  BY <1>8, <1>13
<1>14. CASE /\ ~(by # 0 /\ Failed(ts[last])) /\ ts # <<>>
            /\ \/ Tag(n) = "AllOf" /\ by # 0
               \/ Tag(n) = "AnyOf" /\ A = {}
            /\ o = deny(ts[last].reason, last)
  <2>1. last \in 1 .. last
    <3>1. L # 0
      BY <1>14
    <3>2. QED
      BY <3>1
  <2>2. ~ts[last].allowed
    BY <1>7, <1>14, <2>1 DEF Settles
  <2>3. ts[last].error = <<>>
    BY <1>14, <2>1 DEF Settles, Failed
  <2>4. ts[last].reason # <<>>
    BY <2>1, <2>2, <2>3 DEF GoodOutcome
  <2>5. QED
    BY <1>8, <1>14, <2>4
<1>15. QED
  <2>1. CASE Tag(n) = "AllOf"
    BY <1>5, <1>9, <1>10, <1>13, <1>14, <2>1
  <2>2. CASE Tag(n) = "AnyOf"
    BY <1>5, <1>9, <1>10, <1>13, <1>14, <2>2
  <2>3. CASE Tag(n) = "Rules"
    BY <1>5, <1>9, <1>11, <1>12, <1>13, <2>3
  <2>4. QED
    BY <2>1, <2>2, <2>3 DEF Composites

(* What the kids of a composite mean, in order.                            *)
MeaningsOf(m) == [k \in DOMAIN Kids(m) |-> Meaning[Kids(m)[k]]]

LEMMA DoneMeans ==
    ASSUME Inv, Tree, EndInv, NEW m \in Nodes, NEW k \in DOMAIN Kids(m),
           Done(Kids(m)[k])
    PROVE  LET t == result[Kids(m)[k]]
           IN  /\ GoodOutcome(t) /\ t.error # PolicyTooDeep
               /\ t = Meaning[Kids(m)[k]]
<1>1. Kids(m)[k] \in Nodes /\ Kids(m)[k] # Root
  BY DEF Tree
<1>2. QED
  BY <1>1 DEF EndInv, OutcomesOK, TooDeepIsThePolicys, ConcurrencyChangesNothing

LEMMA CompositeMeans ==
    ASSUME Inv, NEW m \in Nodes, Tag(m) \in Composites
    PROVE  Meaning[m] = CompositeMeaning(m, MeaningsOf(m))
<1>1. WalkTypeOK
  BY DEF Inv
<1>2. Meaning[m] = MeaningStep(Meaning, m)
  BY <1>1, MeaningEquation
<1>3. Tag(m) # "Leaf" /\ Tag(m) \notin Wrappers
  BY DEF Composites, Wrappers
<1>4. QED
  BY <1>2, <1>3 DEF MeaningStep, MeaningsOf

(* An open composite folds the outcome of its next kid: it returns what it *)
(* means, or goes on with the fold of what it has taken.                   *)
LEMMA CompositeTakes ==
    ASSUME Inv, Tree, EndInv, NEW m \in Nodes, Tag(m) \in Composites,
           pc[m] = "open", NEW k \in DOMAIN Kids(m), k = fold[m].children + 1,
           Done(Kids(m)[k])
    PROVE  LET g == step(m, fold[m], Kids(m)[k])
               o == CompositeOutcome(m, g)
           IN  /\ g.verdict # <<>> \/ k = Len(Kids(m)) =>
                      /\ GoodOutcome(o) /\ Owes(m, o) /\ o = Meaning[m]
                      /\ o.error # PolicyTooDeep
               /\ ~(g.verdict # <<>> \/ k = Len(Kids(m))) =>
                      /\ FoldOver(Tag(m), g, ResultsOf(m))
                      /\ g.children <= Len(Kids(m))
<1> DEFINE f == fold[m]
           L == Len(Kids(m))
           ts == MeaningsOf(m)
           g == step(m, f, Kids(m)[k])
           o == CompositeOutcome(m, g)
           Returns == /\ GoodOutcome(o) /\ Owes(m, o) /\ o = Meaning[m]
                      /\ o.error # PolicyTooDeep
           GoesOn == FoldOver(Tag(m), g, ResultsOf(m)) /\ g.children <= L
<1> SUFFICES /\ g.verdict # <<>> \/ k = L => Returns
             /\ ~(g.verdict # <<>> \/ k = L) => GoesOn
  OBVIOUS
<1>1. /\ L \in Nat /\ DOMAIN Kids(m) = 1 .. L /\ k \in 1 .. L
      /\ DOMAIN ts = 1 .. L /\ Len(ts) = L
  <2>1. L \in Nat /\ DOMAIN Kids(m) = 1 .. L
    BY KidsFinite DEF Inv
  <2>2. ts = [j \in 1 .. L |-> Meaning[Kids(m)[j]]]
    BY <2>1 DEF MeaningsOf
  <2> HIDE DEF L
  <2>3. QED
    BY <2>1, <2>2
<1>2. FoldOver(Tag(m), f, ResultsOf(m)) /\ f.children \in Nat
  BY DEF EndInv, FoldsMean, FoldOver
<1>3. \A j \in 1 .. f.children : /\ j \in DOMAIN Kids(m) /\ Done(Kids(m)[j])
                                /\ ~Settles(m, j, result[Kids(m)[j]])
  <2>1. \A j \in 1 .. f.children : j \in DOMAIN Kids(m)
    BY <1>1, <1>2
  <2>2. QED
    BY <2>1, FoldedAreDone
<1>4. \A j \in 1 .. k : /\ j \in DOMAIN Kids(m) /\ ts[j] = result[Kids(m)[j]]
                        /\ GoodOutcome(ts[j]) /\ ts[j].error # PolicyTooDeep
  <2> SUFFICES ASSUME NEW j \in 1 .. k
               PROVE  /\ j \in DOMAIN Kids(m) /\ ts[j] = result[Kids(m)[j]]
                      /\ GoodOutcome(ts[j]) /\ ts[j].error # PolicyTooDeep
    OBVIOUS
  <2>1. j \in 1 .. f.children \/ j = k
    BY <1>1, <1>2
  <2>2. j \in DOMAIN Kids(m) /\ Done(Kids(m)[j])
    BY <1>3, <2>1
  <2>3. ts[j] = Meaning[Kids(m)[j]]
    BY <2>2 DEF MeaningsOf
  <2>4. QED
    BY <2>2, <2>3, DoneMeans
<1>5. FoldOver(Tag(m), f, ts)
  <2>1. \A j \in 1 .. f.children : ts[j] = ResultsOf(m)[j]
    BY <1>1, <1>2, <1>3, <1>4 DEF ResultsOf
  <2>2. QED
    BY <1>2, <2>1, FoldOverSame
<1>6. \A j \in 1 .. f.children : ~Settles(m, j, ts[j])
  BY <1>1, <1>2, <1>3, <1>4
<1>7. Meaning[m] = CompositeMeaning(m, ts)
  BY CompositeMeans
<1> HIDE DEF f, L, ts, g, o
<1>8. CASE Settles(m, k, ts[k])
  <2> DEFINE p == OutcomeAt(m, ts, k, k)
  <2>1. g.verdict = <<p>>
    <3>1. /\ f.children + 1 \in 1 .. L
          /\ \A j \in 1 .. f.children + 1 : ts[j] = result[Kids(m)[j]]
          /\ Settles(m, f.children + 1, ts[f.children + 1])
      BY <1>1, <1>4, <1>8 DEF f
    <3>2. step(m, f, Kids(m)[f.children + 1]).verdict
            = <<OutcomeAt(m, ts, f.children + 1, f.children + 1)>>
      BY <1>1, <1>5, <1>6, <3>1, StepSettles
    <3>3. QED
      BY <3>2 DEF f, g
  <2> HIDE DEF p
  <2>2. g.verdict # <<>> /\ o = p
    BY <2>1 DEF o, CompositeOutcome
  <2>3. CompositeMeaning(m, ts) = p
    <3>1. \A j \in 1 .. k : j # k => ~Settles(m, j, ts[j])
      BY <1>1, <1>2, <1>6 DEF f
    <3>2. k \in 0 .. L
      BY <1>1
    <3>3. k > 0
      BY <1>1
    <3>4. CompositeMeaning(m, ts) = OutcomeAt(m, ts, k, k)
      BY <1>1, <1>8, <3>1, <3>2, <3>3, MeaningAtLast
    <3>5. QED
      BY <3>4 DEF p
  <2>4. GoodOutcome(p) /\ Owes(m, p) /\ p.error # PolicyTooDeep
    <3>1. k \in 0 .. L /\ k > 0
      BY <1>1
    <3>2. QED
      BY <1>1, <1>4, <1>8, <3>1, OutcomeAtGood DEF p
  <2>5. QED
    BY <1>7, <2>2, <2>3, <2>4
<1>9. CASE ~Settles(m, k, ts[k])
  <2>1. FoldOver(Tag(m), g, ts) /\ g.children = k
    <3>1. /\ ts[f.children + 1] = result[Kids(m)[k]]
          /\ ~Settles(m, f.children + 1, result[Kids(m)[k]])
          /\ GoodOutcome(result[Kids(m)[k]])
      <4>1. k = f.children + 1 /\ k \in 1 .. k
        BY <1>1 DEF f
      <4>2. QED
        BY <1>4, <1>9, <4>1
    <3>2. /\ FoldOver(Tag(m), step(m, f, Kids(m)[k]), ts)
          /\ step(m, f, Kids(m)[k]).children = f.children + 1
      BY <1>5, <3>1, StepFolds
    <3>3. QED
      BY <3>2 DEF f, g
  <2>2. g.verdict = <<>>
    BY <2>1 DEF FoldOver
  <2>3. CASE k = L
    <3>1. \A j \in 1 .. L : /\ ts[j] = result[Kids(m)[j]]
                            /\ GoodOutcome(ts[j]) /\ ~Settles(m, j, ts[j])
                            /\ ts[j].error # PolicyTooDeep
      <4>1. \A j \in 1 .. L : j \in 1 .. f.children \/ j = k
        BY <1>1, <1>2, <2>3 DEF f
      <4>2. QED
        BY <1>4, <1>6, <1>9, <2>3, <4>1
    <3>0. L \in 0 .. L /\ (L > 0 => ~Settles(m, L, ts[L]))
      BY <1>1, <1>9, <2>3
    <3>2. o = OutcomeAt(m, ts, L, 0)
      BY <1>1, <2>1, <2>3, <3>1, OpenOutcome DEF o
    <3>3. CompositeMeaning(m, ts) = OutcomeAt(m, ts, L, 0)
      BY <1>1, <3>0, <3>1, MeaningAtLast
    <3>4. LET p == OutcomeAt(m, ts, L, 0)
          IN  GoodOutcome(p) /\ Owes(m, p) /\ p.error # PolicyTooDeep
      BY <1>1, <3>0, <3>1, OutcomeAtGood
    <3>5. QED
      BY <1>7, <2>3, <3>2, <3>3, <3>4
  <2>4. CASE k # L
    <3>1. \A j \in 1 .. g.children : ResultsOf(m)[j] = ts[j]
      BY <1>4, <2>1 DEF ResultsOf
    <3>2. FoldOver(Tag(m), g, ResultsOf(m))
      BY <2>1, <3>1, FoldOverSame
    <3>3. QED
      BY <1>1, <2>1, <2>2, <2>4, <3>2
  <2>5. QED
    BY <2>3, <2>4
<1>10. QED
  BY <1>8, <1>9

(* A composite of nothing returns what it means.                           *)
LEMMA EmptyReturns ==
    ASSUME Inv, Tree, EndInv, NEW m \in Nodes, Tag(m) \in Composites,
           pc[m] = "open", Kids(m) = <<>>
    PROVE  LET o == CompositeOutcome(m, fold[m])
           IN  GoodOutcome(o) /\ Owes(m, o) /\ o = Meaning[m] /\ o.error # PolicyTooDeep
<1> DEFINE ts == MeaningsOf(m)
           f == fold[m]
           o == CompositeOutcome(m, f)
<1> SUFFICES GoodOutcome(o) /\ Owes(m, o) /\ o = Meaning[m] /\ o.error # PolicyTooDeep
  OBVIOUS
<1>1. DOMAIN Kids(m) = 1 .. 0 /\ DOMAIN ts = 1 .. 0 /\ Len(ts) = 0 /\ Len(Kids(m)) = 0
  <2>1. ts = <<>>
    BY DEF MeaningsOf
  <2>2. QED
    BY <2>1
<1>2. FoldOver(Tag(m), f, ResultsOf(m)) /\ f.children \in Nat /\ f.children <= Len(Kids(m))
  BY DEF EndInv, FoldsMean, FoldOver
<1>3. f.children = 0
  BY <1>1, <1>2
<1>4. FoldOver(Tag(m), f, ts)
  <2>1. \A k \in 1 .. f.children : ts[k] = ResultsOf(m)[k]
    BY <1>3
  <2> HIDE DEF f, ts
  <2>2. QED
    BY <1>2, <2>1, FoldOverSame
<1>5. Meaning[m] = CompositeMeaning(m, ts)
  BY CompositeMeans
<1> HIDE DEF ts, f, o
<1>6. o = OutcomeAt(m, ts, 0, 0)
  BY <1>1, <1>3, <1>4, OpenOutcome DEF o
<1>7. CompositeMeaning(m, ts) = OutcomeAt(m, ts, 0, 0)
  BY <1>1, MeaningAtLast
<1>8. LET p == OutcomeAt(m, ts, 0, 0)
      IN  GoodOutcome(p) /\ Owes(m, p) /\ p.error # PolicyTooDeep
  BY <1>1, OutcomeAtGood
<1>9. QED
  BY <1>5, <1>6, <1>7, <1>8

-----------------------------------------------------------------------------
(* The steps of a walk.                                                    *)

LEMMA ReachIsNumber ==
    ASSUME WalkTypeOK, NEW n \in Nodes
    PROVE  /\ DepthToReach(n) \in Nat /\ question.maxDepth \in Nat
           /\ depthOf[n] \in Nat /\ depthOf[n] <= DepthToReach(n)
<1> DEFINE nesting == IF Tag(n) = "Leaf" THEN question.policy[n].nesting ELSE 0
           d == depthOf[n]
<1>1. nesting \in Nat
  BY NodesNumbered
<1>2. d \in Nat
  BY DepthsAreNumbers
<1>3. DepthToReach(n) = d + nesting
  BY DEF DepthToReach
<1>4. question.maxDepth \in Nat
  BY MaxDepthsAssumption DEF WalkTypeOK
<1> HIDE DEF nesting, d
<1>5. d + nesting \in Nat /\ d <= d + nesting
  BY <1>1, <1>2
<1>6. QED
  BY <1>2, <1>3, <1>4, <1>5 DEF d

(* A node that is asked within the bound is opened. (Walk.ts, evaluateNode)*)
LEMMA WithinTheBound ==
    ASSUME Inv, ~TooDeep, NEW n \in Nodes
    PROVE  depthOf[n] <= question.maxDepth
<1>1. ~(DepthToReach(n) > question.maxDepth)
  BY DEF TooDeep
<1>2. QED
  BY <1>1, ReachIsNumber DEF Inv

LEMMA EnterOpens ==
    ASSUME Inv, Tree, EndInv, ~TooDeep, NEW n \in Nodes, pc[n] = "unasked",
           Enter(n), UNCHANGED fold
    PROVE  EndInv'
<1>1. depthOf[n] <= question.maxDepth /\ depthOf[n] \in Nat /\ question.maxDepth \in Nat
  BY WithinTheBound, DepthsAreNumbers, MaxDepthsAssumption DEF Inv, WalkTypeOK
<1>2. ~(depthOf[n] > question.maxDepth)
  BY <1>1
<1>3. pc' = [pc EXCEPT ![n] = "open"] /\ UNCHANGED <<question, answers, result>>
  BY <1>2 DEF Enter
<1>4. QED
  BY <1>3, OpenKeeps

LEMMA AdmitEnds == ASSUME Inv, EndInv, AdmitRoot PROVE EndInv'
<1>1. Tree /\ WalkTypeOK
  BY PolicyIsTree DEF Inv
<1>2. Root \in Nodes /\ pc[Root] = "unasked" /\ UNCHANGED fold
  BY <1>1 DEF Tree, AdmitRoot
<1>3. admit <=> ~TooDeep
  <2>1. admit <=> \A n \in Nodes : DepthToReach(n) <= question.maxDepth
    BY <1>1, AdmitIsOfTheNodes
  <2>2. \A n \in Nodes : DepthToReach(n) \in Nat /\ question.maxDepth \in Nat
    BY <1>1, ReachIsNumber
  <2>3. \A n \in Nodes :
          DepthToReach(n) <= question.maxDepth <=> ~(DepthToReach(n) > question.maxDepth)
    BY <2>2
  <2>4. QED
    BY <2>1, <2>3 DEF TooDeep
<1>4. CASE ~TooDeep
  <2>1. Enter(Root)
    BY <1>3, <1>4 DEF AdmitRoot
  <2>2. QED
    BY <1>1, <1>2, <1>4, <2>1, EnterOpens
<1>5. CASE TooDeep
  <2> DEFINE o == Failure(PolicyTooDeep)
  <2>1. Finish(Root, o)
    BY <1>3, <1>5 DEF AdmitRoot
  <2>2. GoodOutcome(o) /\ o.error = PolicyTooDeep /\ ~o.allowed
    BY ErrorsDiffer, Failures
  <2> HIDE DEF o
  <2>3. Owes(Root, o)
    BY <2>2 DEF Owes
  <2>4. ~Done(Root) /\ \A n \in Nodes : fold'[n] = fold[n]
    BY <1>2 DEF Done
  <2>5. QED
    BY <1>1, <1>2, <1>5, <2>1, <2>2, <2>3, <2>4, FinishKeeps
<1>6. QED
  BY <1>4, <1>5

LEMMA AskEnds ==
    ASSUME Inv, EndInv, NEW m \in Nodes, NEW k \in DOMAIN Kids(m), AskKid(m, k)
    PROVE  EndInv'
<1>1. Tree
  BY PolicyIsTree DEF Inv
<1>2. Kids(m)[k] \in Nodes
  BY <1>1 DEF Tree
<1>3. pc[m] = "open" /\ pc[Kids(m)[k]] = "unasked" /\ Enter(Kids(m)[k]) /\ UNCHANGED fold
  BY DEF AskKid
<1>4. ~TooDeep
  <2>1. TooDeepIsThePolicys
    BY DEF EndInv
  <2>2. CASE m = Root
    BY <1>3, <2>1, <2>2 DEF TooDeepIsThePolicys, TooDeep
  <2>3. CASE m # Root
    BY <1>3, <2>1, <2>3 DEF TooDeepIsThePolicys, TooDeep
  <2>4. QED
    BY <2>2, <2>3
<1>5. QED
  BY <1>1, <1>2, <1>3, <1>4, EnterOpens

(* A node that returns what it means.                                      *)
LEMMA ReturnEnds ==
    ASSUME Inv, Tree, EndInv, NEW n \in Nodes, pc[n] = "open", NEW o,
           Finish(n, o), \A m \in Nodes : m # n => fold'[m] = fold[m],
           GoodOutcome(o), Owes(n, o), o = Meaning[n], o.error # PolicyTooDeep
    PROVE  EndInv'
<1>1. ~Done(n)
  BY DEF Done
<1>2. QED
  BY <1>1, FinishKeeps

LEMMA AnswerEnds == ASSUME Inv, EndInv, NEW n \in Nodes, Answer(n) PROVE EndInv'
<1>1. Tree
  BY PolicyIsTree DEF Inv
<1> DEFINE o == LeafOutcome(n)
<1>2. Tag(n) = "Leaf" /\ pc[n] = "open" /\ Finish(n, o) /\ UNCHANGED fold
  BY DEF Answer
<1>3. GoodOutcome(o) /\ Owes(n, o) /\ o = Meaning[n] /\ o.error # PolicyTooDeep
  BY <1>1, <1>2, LeafReturns
<1> HIDE DEF o
<1>4. QED
  BY <1>1, <1>2, <1>3, ReturnEnds

LEMMA UnwrapEnds == ASSUME Inv, EndInv, NEW n \in Nodes, Unwrap(n) PROVE EndInv'
<1>1. Tree
  BY PolicyIsTree DEF Inv
<1> DEFINE o == WrapperOutcome(n, result[Kids(n)[1]])
<1>2. /\ Tag(n) \in Wrappers /\ pc[n] = "open" /\ Done(Kids(n)[1]) /\ Finish(n, o)
      /\ UNCHANGED fold
  BY DEF Unwrap
<1>3. GoodOutcome(o) /\ Owes(n, o) /\ o = Meaning[n] /\ o.error # PolicyTooDeep
  BY <1>1, <1>2, WrapperReturns
<1> HIDE DEF o
<1>4. QED
  BY <1>1, <1>2, <1>3, ReturnEnds

LEMMA TakeEnds == ASSUME Inv, EndInv, NEW m \in Nodes, TakeKid(m) PROVE EndInv'
<1>1. Tree
  BY PolicyIsTree DEF Inv
<1>2. PICK k \in DOMAIN Kids(m) :
        /\ k = fold[m].children + 1 /\ Done(Kids(m)[k])
        /\ LET f == step(m, fold[m], Kids(m)[k])
           IN  /\ fold' = [fold EXCEPT ![m] = f]
               /\ IF f.verdict # <<>> \/ k = Len(Kids(m))
                  THEN Finish(m, CompositeOutcome(m, f))
                  ELSE UNCHANGED <<question, answers, pc, result>>
  BY DEF TakeKid
<1> DEFINE g == step(m, fold[m], Kids(m)[k])
           o == CompositeOutcome(m, g)
<1>3. Tag(m) \in Composites /\ pc[m] = "open"
  BY DEF TakeKid
<1>4. /\ g.verdict # <<>> \/ k = Len(Kids(m)) =>
             /\ GoodOutcome(o) /\ Owes(m, o) /\ o = Meaning[m]
             /\ o.error # PolicyTooDeep
      /\ ~(g.verdict # <<>> \/ k = Len(Kids(m))) =>
             /\ FoldOver(Tag(m), g, ResultsOf(m))
             /\ g.children <= Len(Kids(m))
  BY <1>1, <1>2, <1>3, CompositeTakes
<1>5. /\ fold' = [fold EXCEPT ![m] = g]
      /\ IF g.verdict # <<>> \/ k = Len(Kids(m)) THEN Finish(m, o)
         ELSE UNCHANGED <<question, answers, pc, result>>
  BY <1>2
<1> HIDE DEF g, o
<1>6. CASE g.verdict # <<>> \/ k = Len(Kids(m))
  <2>1. \A n \in Nodes : n # m => fold'[n] = fold[n]
    BY <1>5 DEF Inv, WalkTypeOK
  <2>2. QED
    BY <1>1, <1>3, <1>4, <1>5, <1>6, <2>1, ReturnEnds
<1>7. CASE ~(g.verdict # <<>> \/ k = Len(Kids(m)))
  BY <1>1, <1>3, <1>4, <1>5, <1>7, FoldKeeps
<1>8. QED
  BY <1>6, <1>7

LEMMA EmptyEnds == ASSUME Inv, EndInv, NEW m \in Nodes, ReturnEmpty(m) PROVE EndInv'
<1>1. Tree
  BY PolicyIsTree DEF Inv
<1> DEFINE o == CompositeOutcome(m, fold[m])
<1>2. /\ Tag(m) \in Composites /\ pc[m] = "open" /\ Kids(m) = <<>> /\ Finish(m, o)
      /\ UNCHANGED fold
  BY DEF ReturnEmpty
<1>3. GoodOutcome(o) /\ Owes(m, o) /\ o = Meaning[m] /\ o.error # PolicyTooDeep
  BY <1>1, <1>2, EmptyReturns
<1> HIDE DEF o
<1>4. QED
  BY <1>1, <1>2, <1>3, ReturnEnds

(* A step that changes nothing.                                            *)
LEMMA StutterEnds == ASSUME Inv, EndInv, UNCHANGED vars PROVE EndInv'
<1>1. /\ question' = question /\ answers' = answers /\ fold' = fold /\ result' = result
      /\ pc' = pc
  BY DEF vars
<1>2. /\ Nodes' = Nodes /\ Meaning' = Meaning /\ TooDeep' = TooDeep
      /\ \A n : /\ Kids(n)' = Kids(n) /\ Tag(n)' = Tag(n)
                /\ OwnDuty(n)' = OwnDuty(n)
                /\ \A p : GrantingKids(n, p)' = GrantingKids(n, p)
  BY <1>1, QuestionKept
<1>3. OutcomesOK'
  BY <1>1, <1>2 DEF EndInv, OutcomesOK
<1>4. FoldsMean'
  <2>1. \A n : ResultsOf(n)' = ResultsOf(n)
    BY <1>1, <1>2 DEF ResultsOf
  <2>2. QED
    BY <1>1, <1>2, <2>1 DEF EndInv, FoldsMean, begin
<1>5. DutiesPassUp'
  <2>1. \A n \in Nodes : Owes(n, result[n])' <=> Owes(n, result[n])
    BY <1>1, <1>2 DEF Owes
  <2>2. QED
    BY <1>1, <1>2, <2>1 DEF EndInv, DutiesPassUp, Done
<1>6. TooDeepIsThePolicys'
  <2>1. TooDeepIsThePolicys <=>
          /\ pc[Root] = "open" => ~TooDeep
          /\ \A n \in Nodes : result[n].error = PolicyTooDeep => n = Root /\ TooDeep
          /\ TooDeep => \A n \in Nodes \ {Root} : pc[n] = "unasked"
    BY DEF TooDeepIsThePolicys, TooDeep
  <2>2. TooDeepIsThePolicys' <=>
          /\ pc'[Root] = "open" => ~TooDeep'
          /\ \A n \in Nodes' : result'[n].error = PolicyTooDeep => n = Root /\ TooDeep'
          /\ TooDeep' => \A n \in Nodes' \ {Root} : pc'[n] = "unasked"
    BY DEF TooDeepIsThePolicys, TooDeep, PolicyTooDeep, Root
  <2>3. TooDeepIsThePolicys
    BY DEF EndInv
  <2>4. QED
    BY <1>1, <1>2, <2>1, <2>2, <2>3
<1>7. ConcurrencyChangesNothing'
  BY <1>1, <1>2 DEF EndInv, ConcurrencyChangesNothing, Done, PolicyTooDeep
<1>8. QED
  BY <1>3, <1>4, <1>5, <1>6, <1>7 DEF EndInv

(* At the start nothing is done.                                           *)
LEMMA InitEnd == Init => EndInv
<1> SUFFICES ASSUME Init PROVE EndInv
  OBVIOUS
<1>1. /\ \A n \in Nodes : /\ pc[n] = "unasked" /\ fold[n] = begin
                          /\ result[n] = Unwalked
      /\ Root \in Nodes
  BY InitInv, PolicyIsTree DEF Init, Inv, Tree
<1>2. GoodOutcome(Unwalked) /\ Unwalked.error # PolicyTooDeep /\ ~Unwalked.allowed
  <2>1. <<"unwalked">> # <<>>
    OBVIOUS
  <2>2. Unwalked.error = <<"unwalked">> /\ GoodOutcome(Unwalked) /\ ~Unwalked.allowed
    BY <2>1, Failures DEF Unwalked
  <2>3. QED
    BY <2>2, ErrorsDiffer
<1>3. OutcomesOK
  BY <1>1, <1>2 DEF OutcomesOK
<1>4. FoldsMean
  BY <1>1 DEF FoldsMean
<1>5. DutiesPassUp /\ ConcurrencyChangesNothing
  BY <1>1 DEF DutiesPassUp, ConcurrencyChangesNothing, Done
<1>6. TooDeepIsThePolicys
  BY <1>1, <1>2 DEF TooDeepIsThePolicys
<1>7. QED
  BY <1>3, <1>4, <1>5, <1>6 DEF EndInv

LEMMA NextEnd == Inv /\ EndInv /\ [Next]_vars => EndInv'
<1> SUFFICES ASSUME Inv, EndInv, [Next]_vars PROVE EndInv'
  OBVIOUS
<1>1. ASSUME NEW n \in Nodes, NodeStep(n) PROVE EndInv'
  <2>1. CASE \E k \in DOMAIN Kids(n) : AskKid(n, k)
    BY <2>1, AskEnds
  <2>2. CASE Answer(n)
    BY <2>2, AnswerEnds
  <2>3. CASE Unwrap(n)
    BY <2>3, UnwrapEnds
  <2>4. CASE TakeKid(n)
    BY <2>4, TakeEnds
  <2>5. CASE ReturnEmpty(n)
    BY <2>5, EmptyEnds
  <2>6. QED
    BY <1>1, <2>1, <2>2, <2>3, <2>4, <2>5 DEF NodeStep
<1>2. QED
  BY <1>1, AdmitEnds, StutterEnds DEF Next

LEMMA EndsHold == Spec => [](Inv /\ EndInv)
<1>1. Init => Inv /\ EndInv
  BY InitInv, InitEnd
<1>2. Inv /\ EndInv /\ [Next]_vars => (Inv /\ EndInv)'
  BY NextInv, NextEnd
<1>3. QED
  BY <1>1, <1>2, PTL DEF Spec

(* Whatever the policy, whatever the concurrency and whichever way the     *)
(* answers come in, a node that is done has the outcome the policy means.  *)
(* (INV-QD-020; Walk.ts, the folds)                                        *)
THEOREM OutcomesAreThePolicys == Spec => []ConcurrencyChangesNothing
<1>1. Inv /\ EndInv => ConcurrencyChangesNothing
  BY DEF EndInv
<1>2. QED
  BY <1>1, EndsHold, PTL

(* A policy is refused as too deep exactly when some node of it lies past  *)
(* the bound, and then no node is walked. (INV-QD-037; Admission.ts,       *)
(* Policy.ts policyDepth)                                                  *)
THEOREM DepthIsThePolicys == Spec => []TooDeepIsThePolicys
<1>1. Inv /\ EndInv => TooDeepIsThePolicys
  BY DEF EndInv
<1>2. QED
  BY <1>1, EndsHold, PTL

LEMMA KidCounts ==
    ASSUME Inv, NEW n \in Nodes, Counts[n], result[n].allowed,
           NEW k \in GrantingKids(n, result[n])
    PROVE  Counts[Kids(n)[k]]
<1>1. /\ k \in DOMAIN Kids(n) /\ k <= result[n].children
      /\ Tag(n) = "Rules" => result[n].reason[2] = k
  BY DEF GrantingKids
<1>2. /\ Kids(n)[k] \in Nodes
      /\ Parent(Kids(n)[k]) = n /\ Position(Kids(n)[k]) = k
  BY <1>1, NodesNumbered, ParentOf DEF Inv
<1>3. Counts[Kids(n)[k]] = CountsStep(Counts, Kids(n)[k])
  BY <1>2, CountsEquation DEF Inv
<1>4. CountsStep(Counts, Kids(n)[k])
  BY <1>1, <1>2 DEF CountsStep
<1>5. QED
  BY <1>3, <1>4

LEMMA CountedByParent ==
    ASSUME Inv, NEW n \in Nodes \ {Root}, Counts[n]
    PROVE  /\ Parent(n) \in Nodes /\ Parent(n) < n
           /\ Counts[Parent(n)] /\ result[Parent(n)].allowed
           /\ Position(n) \in GrantingKids(Parent(n), result[Parent(n)])
           /\ Kids(Parent(n))[Position(n)] = n
<1>1. /\ Parent(n) \in Nodes /\ Parent(n) < n
      /\ Position(n) \in DOMAIN Kids(Parent(n))
      /\ Kids(Parent(n))[Position(n)] = n
  BY ParentIs DEF Inv
<1>2. CountsStep(Counts, n)
  BY CountsEquation DEF Inv
<1>3. /\ Counts[Parent(n)] /\ result[Parent(n)].allowed
      /\ Position(n) <= result[Parent(n)].children
      /\ Tag(Parent(n)) = "Rules" => result[Parent(n)].reason[2] = Position(n)
  BY <1>2 DEF CountsStep
<1>4. QED
  BY <1>1, <1>3 DEF GrantingKids

LEMMA GrantOwes ==
    ASSUME Inv, EndInv, NEW n \in Nodes, result[n].allowed
    PROVE  result[n].obligations = OwnDuty(n) \cup
               UNION {result[Kids(n)[k]].obligations : k \in GrantingKids(n, result[n])}
<1>1. Done(n)
  <2>1. ~Unwalked.allowed
    BY DEF Unwalked, Failure, deny, Trace
  <2>2. QED
    BY <2>1 DEF Inv, WalkTypeOK
<1>2. QED
  BY <1>1 DEF EndInv, DutiesPassUp, Owes

(* What a node that counts owes, the grant of the root owes.               *)
LEMMA DutiesReachRoot ==
    ASSUME Inv, EndInv, NEW n \in Nodes, Counts[n], result[n].allowed
    PROVE  result[n].obligations \subseteq result[Root].obligations
<1> DEFINE Lost == {m \in Nodes : /\ Counts[m] /\ result[m].allowed
                                  /\ ~(result[m].obligations
                                         \subseteq result[Root].obligations)}
<1> SUFFICES ASSUME Lost # {} PROVE FALSE
  OBVIOUS
<1>1. Lost \in SUBSET Nat
  BY NodesNumbered DEF Inv
<1>2. PICK m \in Lost : \A y \in Lost : m <= y
  <2> HIDE DEF Lost
  <2>1. QED
    BY <1>1, HasLeast
<1>3. /\ m \in Nodes \ {Root} /\ m \in Nat /\ Counts[m] /\ result[m].allowed
      /\ ~(result[m].obligations \subseteq result[Root].obligations)
  BY <1>1, <1>2
<1> DEFINE p == Parent(m)
<1>4. /\ p \in Nodes /\ p < m /\ Counts[p] /\ result[p].allowed
      /\ Position(m) \in GrantingKids(p, result[p]) /\ Kids(p)[Position(m)] = m
  BY <1>3, CountedByParent
<1>5. p \in Nat
  BY <1>4, NodesNumbered DEF Inv
<1> HIDE DEF p
<1>6. result[m].obligations \subseteq result[p].obligations
  <2>1. result[p].obligations = OwnDuty(p) \cup
            UNION {result[Kids(p)[k]].obligations : k \in GrantingKids(p, result[p])}
    BY <1>4, GrantOwes
  <2>2. QED
    BY <1>4, <2>1
<1>7. p \in Lost
  BY <1>3, <1>4, <1>6
<1> HIDE DEF Lost
<1>8. m <= p
  BY <1>2, <1>7
<1>9. QED
  BY <1>3, <1>4, <1>5, <1>8

(* What the root owes, a counted obliged node below it that allowed owes.  *)
LEMMA DutiesComeFrom ==
    ASSUME Inv, EndInv, NEW d \in result[Root].obligations
    PROVE  \E n \in Nodes : /\ Tag(n) = "Obliged" /\ Counts[n] /\ result[n].allowed
                            /\ question.policy[n].duty = d
<1> DEFINE T == {n \in Nodes : Counts[n] /\ d \in result[n].obligations}
<1>1. /\ Nodes \in SUBSET Nat /\ IsFiniteSet(Nodes) /\ Root \in Nodes
      /\ \A n \in Nodes : \A k \in DOMAIN Kids(n) :
            Kids(n)[k] \in Nodes /\ Kids(n)[k] > n
  BY NodesNumbered DEF Inv
<1>2. Root \in T
  <2>1. CountsStep(Counts, Root)
    BY DEF CountsStep
  <2>2. Counts[Root]
    BY <1>1, <2>1, CountsEquation DEF Inv
  <2>3. QED
    BY <1>1, <2>2
<1>3. T \in SUBSET Nat /\ T \subseteq Nodes /\ IsFiniteSet(T)
  BY <1>1, FS_Subset
<1>4. PICK n \in T : \A y \in T : n >= y
  <2> HIDE DEF T
  <2>1. QED
    BY <1>2, <1>3, HasGreatest
<1>5. n \in Nodes /\ n \in Nat /\ Counts[n] /\ d \in result[n].obligations
  BY <1>1, <1>4
<1>6. result[n].allowed
  BY <1>5 DEF EndInv, OutcomesOK, GoodOutcome
<1>7. d \in OwnDuty(n) \/ \E k \in GrantingKids(n, result[n]) :
                              d \in result[Kids(n)[k]].obligations
  <2>1. result[n].obligations = OwnDuty(n) \cup
            UNION {result[Kids(n)[k]].obligations : k \in GrantingKids(n, result[n])}
    BY <1>5, <1>6, GrantOwes
  <2>2. QED
    BY <1>5, <2>1
<1>8. CASE d \in OwnDuty(n)
  <2>1. Tag(n) = "Obliged" /\ question.policy[n].duty = d
    BY <1>8 DEF OwnDuty
  <2>2. QED
    BY <1>5, <1>6, <2>1
<1>9. ASSUME NEW k \in GrantingKids(n, result[n]), d \in result[Kids(n)[k]].obligations
      PROVE  FALSE
  <2>1. k \in DOMAIN Kids(n)
    BY DEF GrantingKids
  <2>2. Kids(n)[k] \in Nodes /\ Kids(n)[k] > n /\ Kids(n)[k] \in Nat
    BY <1>1, <1>5, <2>1
  <2>3. Counts[Kids(n)[k]]
    BY <1>5, <1>6, KidCounts
  <2>4. Kids(n)[k] \in T
    BY <1>9, <2>2, <2>3
  <2> HIDE DEF T
  <2>5. n >= Kids(n)[k]
    BY <1>4, <2>4
  <2>6. QED
    BY <1>5, <2>2, <2>5
<1>10. QED
  BY <1>7, <1>8, <1>9

(* A grant owes exactly the duties of the obliged branches that granted    *)
(* it: none is dropped where branches are combined, none comes from a      *)
(* branch that denied or did not decide. (INV-QD-012; Obligation.ts,       *)
(* unionObligations)                                                       *)
THEOREM GrantsOweTheirDuties == Spec => []DutiesAreTheGranted
<1>1. ASSUME Inv, EndInv PROVE DutiesAreTheGranted
  <2> DEFINE R == result[Root].obligations
             G == {m \in Nodes : /\ Tag(m) = "Obliged" /\ Counts[m]
                                 /\ result[m].allowed}
             D == {question.policy[n].duty : n \in G}
  <2>1. ASSUME NEW n \in G PROVE question.policy[n].duty \in R
    <3>1. result[n].obligations \subseteq R
      BY <1>1, <2>1, DutiesReachRoot
    <3>2. question.policy[n].duty \in OwnDuty(n)
      BY <2>1 DEF OwnDuty
    <3>3. OwnDuty(n) \subseteq result[n].obligations
      BY <1>1, <2>1, GrantOwes
    <3>4. QED
      BY <3>1, <3>2, <3>3
  <2>2. \A d \in R : \E n \in G : question.policy[n].duty = d
    BY <1>1, DutiesComeFrom
  <2>3. R = D
    <3> HIDE DEF R, G
    <3>1. QED
      BY <2>1, <2>2
  <2>4. QED
    BY <2>3 DEF DutiesAreTheGranted
<1>2. QED
  BY <1>1, EndsHold, PTL
=============================================================================
