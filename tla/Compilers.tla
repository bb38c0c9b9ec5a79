------------------------------ MODULE Compilers ------------------------------
(***************************************************************************)
(* The two compilers of a predicate to a query, and what a database makes  *)
(* of the query on one row.                                                *)
(***************************************************************************)
EXTENDS Predicate

-----------------------------------------------------------------------------
(***************************************************************************)
(* Which predicates a query language can say, and with which guards        *)
(* (packages/core/src/RenderablePredicate.ts and PredicateLiteral.ts).     *)
(*                                                                         *)
(* The rules of a target are a record: reservedColumns, maxInValues,       *)
(* nullability, negation, finiteness, finiteExclusion.  `nullability` and  *)
(* `finiteness` have a tag and, when declared, a set of columns.           *)
(***************************************************************************)

CONSTANT UnsafeIdentifiers  \* the names an identifier rule refuses

Refused(why) == [tag |-> "Refused", why |-> why]
IsRefusal(node) == node.tag = "Refused"

isSafeLiteral(v) == v = Null \/ Kind(v) \in {"string", "number", "boolean"}
isRangeBound(v) == isFiniteNumber(v)

isRequired(nullability, column) ==
    nullability.tag = "Declared" /\ column \notin nullability.nullable

(* A mutation: a column declared NOT NULL is never guarded.                *)
DeclarationTrusted(required, admits, negation, polarity) ==
    CASE ~required /\ admits -> "AdmitNull"
      [] ~required /\ ~admits /\ negation = "ThreeValued"
             /\ polarity = "Negative" -> "ExcludeNull"
      [] OTHER -> "None"

(* What makes a leaf say of NULL what the reference says of it, given what *)
(* the reference says, how the target negates, and whether the leaf is     *)
(* under a negation.                                                       *)
NULL_GUARD(required, admits, negation, polarity) ==
    CASE ~required /\ admits -> "AdmitNull"
      [] required /\ admits /\ negation = "TwoValued"
             /\ polarity = "Negative" -> "AdmitNull"
      [] ~required /\ ~admits /\ negation = "ThreeValued"
             /\ polarity = "Negative" -> "ExcludeNull"
      [] OTHER -> "None"

nullGuardFor(leaf, ctx) ==
    NULL_GUARD(isRequired(ctx.rules.nullability, leaf.column),
               evaluatePredicate(leaf, leaf.column :> Null),
               ctx.rules.negation, ctx.polarity)

mayHoldNonFinite(finiteness, column) ==
    \/ finiteness.tag = "Unknown"
    \/ finiteness.tag = "Declared" /\ column \in finiteness.floating

finiteGuardFor(leaf, rules_) ==
    IF /\ mayHoldNonFinite(rules_.finiteness, leaf.column)
       /\ \E v \in {Infinity, NaN} : ~evaluatePredicate(leaf, leaf.column :> v)
    THEN "ExcludeNonFinite" ELSE "None"

FLIP(polarity) == IF polarity = "Positive" THEN "Negative" ELSE "Positive"

-----------------------------------------------------------------------------
columnRefusal(column, rules_) ==
    CASE column \in UnsafeIdentifiers -> "UnsafeColumn"
      [] column \in rules_.reservedColumns -> "ReservedColumn"
      [] OTHER -> "none"

Value(b) == [tag |-> "Constant", value |-> b]

classifyNull(leaf, negated, ctx) ==
    IF isRequired(ctx.rules.nullability, leaf.column)
    THEN Refused("NullOnNonNullableColumn")
    ELSE [tag |-> "IsNull", column |-> leaf.column, negated |-> negated]

classifyRange(leaf, ctx) ==
    LET guard == finiteGuardFor(leaf, ctx.rules)
    IN  IF ~isRangeBound(leaf.value) THEN Value(FALSE)
        ELSE IF guard = "ExcludeNonFinite"
                    /\ ctx.rules.finiteExclusion = "Inexpressible"
        THEN Refused("NonFiniteColumn")
        ELSE [tag |-> "Range", column |-> leaf.column, op |-> leaf.op,
              bound |-> leaf.value, nullGuard |-> nullGuardFor(leaf, ctx),
              finiteGuard |-> guard]

classifyCompare(leaf, ctx) ==
    IF columnRefusal(leaf.column, ctx.rules) # "none"
    THEN Refused(columnRefusal(leaf.column, ctx.rules))
    ELSE IF ~isSafeLiteral(leaf.value) THEN Refused("UnsafeValue")
    ELSE IF leaf.op \in {"Gte", "Lt"} THEN classifyRange(leaf, ctx)
    ELSE IF leaf.value = Null THEN classifyNull(leaf, leaf.op = "Neq", ctx)
    ELSE [tag |-> "Equals", column |-> leaf.column, negated |-> leaf.op = "Neq",
          value |-> leaf.value, nullGuard |-> nullGuardFor(leaf, ctx)]

classifyMemberOf(leaf, ctx) ==
    LET nonNull == SelectSeq(leaf.values, LAMBDA v : v # Null)
    IN  IF columnRefusal(leaf.column, ctx.rules) # "none"
        THEN Refused(columnRefusal(leaf.column, ctx.rules))
        ELSE IF leaf.values = <<>> THEN Value(FALSE)
        ELSE IF Len(leaf.values) > ctx.rules.maxInValues
        THEN Refused("TooManyValues")
        ELSE IF \E i \in DOMAIN leaf.values : ~isSafeLiteral(leaf.values[i])
        THEN Refused("UnsafeValue")
        ELSE IF nonNull = <<>> THEN classifyNull(leaf, FALSE, ctx)
        ELSE [tag |-> "OneOf", column |-> leaf.column, values |-> nonNull,
              nullGuard |-> nullGuardFor(leaf, ctx)]

(* The first refusal among the parts is the whole's.                       *)
AllRendered(parts, tag) ==
    LET refusedAt == {i \in DOMAIN parts : IsRefusal(parts[i])}
    IN  IF refusedAt = {} THEN [tag |-> tag, parts |-> parts]
        ELSE parts[Min(refusedAt)]

RECURSIVE classify(_, _)
classify(p, ctx) ==
    LET parts == [i \in DOMAIN p.predicates |-> classify(p.predicates[i], ctx)]
        inner == classify(p.predicate, [ctx EXCEPT !.polarity = FLIP(@)])
    IN  CASE p.tag = "True" -> Value(TRUE)
          [] p.tag = "False" -> Value(FALSE)
          [] p.tag = "Compare" -> classifyCompare(p, ctx)
          [] p.tag = "MemberOf" -> classifyMemberOf(p, ctx)
          [] p.tag = "And" -> AllRendered(parts, "All")
          [] p.tag = "Or" -> AllRendered(parts, "Any")
          [] p.tag = "Negate" ->
                 IF IsRefusal(inner) THEN inner
                 ELSE [tag |-> "Not", inner |-> inner]

toRenderable(p, rules_) == classify(p, [rules |-> rules_, polarity |-> "Positive"])

-----------------------------------------------------------------------------

-----------------------------------------------------------------------------
(***************************************************************************)
(* What a database makes of a condition on one row: SQL's three-valued     *)
(* logic, and its comparison of a column with a parameter.  A WHERE clause *)
(* admits a row whose condition is "true".                                 *)
(***************************************************************************)

Truth(b) == IF b THEN "true" ELSE "false"

SqlAnd(ts) == IF "false" \in ts THEN "false"
              ELSE IF "unknown" \in ts THEN "unknown" ELSE "true"
SqlNot(t) == CASE t = "true" -> "false" [] t = "false" -> "true" [] OTHER -> t
SqlOr(ts) == SqlNot(SqlAnd({SqlNot(t) : t \in ts}))

SqlIsNull(v) == Truth(v = Null)

(* Of the numbers, NaN is the greatest and equals itself, and infinity     *)
(* comes next.                                                             *)
Rank(v) == CASE v = NaN -> 2 [] v = Infinity -> 1 [] OTHER -> 0

SqlLess(a, b) ==
    \/ Rank(a) < Rank(b)
    \/ Rank(a) = 0 /\ Rank(b) = 0 /\ a[2] < b[2]

SqlCompare(op, v, parameter) ==
    CASE v = Null -> "unknown"
      [] v # Null /\ op = "=" -> Truth(v = parameter)
      [] v # Null /\ op = "!=" -> Truth(v # parameter)
      [] v # Null /\ op = "<" -> Truth(SqlLess(v, parameter))
      [] v # Null /\ op = ">=" -> Truth(~SqlLess(v, parameter))

(* col - col = 0: of NULL unknown, of a non-finite number false.           *)
SqlSelfDifferenceIsZero(v) ==
    IF v = Null THEN "unknown" ELSE Truth(isFiniteNumber(v))

-----------------------------------------------------------------------------
(***************************************************************************)
(* The SQL renderer (packages/predicate-sql/src/index.ts).  A text is      *)
(* modelled by what its condition says of a row; quoting, placeholders and *)
(* the order of the bound parameters are left out.                         *)
(***************************************************************************)

SqlDialects == {"postgres", "mysql", "sqlite"}

FINITENESS(dialect) ==
    IF dialect = "mysql" THEN [tag |-> "Unrepresentable"] ELSE [tag |-> "Unknown"]

SqlRules(dialect, nullability, maxInValues) ==
    [reservedColumns |-> {}, maxInValues |-> maxInValues,
     nullability |-> nullability, negation |-> "TwoValued",
     finiteness |-> FINITENESS(dialect), finiteExclusion |-> "Expressible"]

FINITE_GUARDED(guard, v, t) ==
    IF guard = "ExcludeNonFinite"
    THEN SqlAnd({t, SqlSelfDifferenceIsZero(v)}) ELSE t

GUARDED(guard, v, t) ==
    CASE guard = "AdmitNull" -> SqlOr({t, SqlIsNull(v)})
      [] guard = "ExcludeNull" -> SqlAnd({t, SqlNot(SqlIsNull(v))})
      [] OTHER -> t

(* CASE WHEN (t) THEN FALSE ELSE TRUE END                                  *)
CaseNot(t) == Truth(t # "true")

RECURSIVE sqlRenderNode(_, _)
sqlRenderNode(n, row) ==
    LET v == row[n.column]
        parts == {sqlRenderNode(n.parts[i], row) : i \in DOMAIN n.parts}
    IN  CASE n.tag = "Constant" -> Truth(n.value)
          [] n.tag = "IsNull" ->
                 IF n.negated THEN SqlNot(SqlIsNull(v)) ELSE SqlIsNull(v)
          [] n.tag = "Equals" ->
                 GUARDED(n.nullGuard, v,
                         SqlCompare(IF n.negated THEN "!=" ELSE "=", v, n.value))
          [] n.tag = "Range" ->
                 GUARDED(n.nullGuard, v,
                         FINITE_GUARDED(n.finiteGuard, v,
                             SqlCompare(IF n.op = "Gte" THEN ">=" ELSE "<",
                                        v, n.bound)))
          [] n.tag = "OneOf" ->
                 GUARDED(n.nullGuard, v,
                         SqlOr({SqlCompare("=", v, n.values[i]) : i \in DOMAIN n.values}))
          [] n.tag = "All" -> SqlAnd(parts)
          [] n.tag = "Any" -> SqlOr(parts)
          [] n.tag = "Not" -> CaseNot(sqlRenderNode(n.inner, row))

SqlSelects(node, row) == sqlRenderNode(node, row) = "true"

-----------------------------------------------------------------------------
(***************************************************************************)
(* The Prisma renderer (packages/predicate-prisma/src/index.ts), and what  *)
(* the engine makes of what it renders.                                    *)
(*                                                                         *)
(* A WhereInput is a record: a Field with a column and its filter, a       *)
(* function from the filter's keys ("equals", "not", "gte", "lt", "in") to *)
(* their operands, or an AND or OR with its members, or a NOT.             *)
(***************************************************************************)

Field(column, filter) == [tag |-> "Field", column |-> column, filter |-> filter]
AND(members) == [tag |-> "AND", members |-> members]
OR(members) == [tag |-> "OR", members |-> members]
NOT(inner) == [tag |-> "NOT", inner |-> inner]

VacuousTrue == AND(<<>>)
VacuousFalse == OR(<<>>)
isVacuousTrue(w) == w.tag = "AND" /\ w.members = <<>>
isVacuousFalse(w) == w.tag = "OR" /\ w.members = <<>>

(* Columns are floating or nullable by declaration: of Float or Decimal    *)
(* type, and not required.                                                 *)
nullableFieldsOf(model) ==
    {f.name : f \in {g \in model : g.kind # "object" /\ ~g.isRequired}}
floatingFieldsOf(model) ==
    {f.name : f \in {g \in model : g.kind = "scalar" /\ g.type \in {"Float", "Decimal"}}}

RESERVED_PRISMA_KEYS ==
    {"AND", "OR", "NOT", "equals", "not", "in", "notIn", "lt", "lte", "gt",
     "gte", "is", "isNot"}

PrismaRules(model, maxInValues) ==
    [reservedColumns |-> RESERVED_PRISMA_KEYS, maxInValues |-> maxInValues,
     nullability |-> [tag |-> "Declared", nullable |-> nullableFieldsOf(model)],
     negation |-> "ThreeValued",
     finiteness |-> [tag |-> "Declared", floating |-> floatingFieldsOf(model)],
     finiteExclusion |-> "Inexpressible"]

-----------------------------------------------------------------------------
orNull(plain, column) == OR(<<plain, Field(column, "equals" :> Null)>>)

(* A second "not" cannot join a filter that holds one.                     *)
excludeNull(column, filter) ==
    IF "not" \in DOMAIN filter
    THEN AND(<<Field(column, filter), Field(column, "not" :> Null)>>)
    ELSE Field(column, filter @@ ("not" :> Null))

NullGuarded(guard, column, filter) ==
    CASE guard = "AdmitNull" -> orNull(Field(column, filter), column)
      [] guard = "ExcludeNull" -> excludeNull(column, filter)
      [] OTHER -> Field(column, filter)

foldAll(parts) ==
    IF \E i \in DOMAIN parts : isVacuousFalse(parts[i]) THEN VacuousFalse
    ELSE AND(SelectSeq(parts, LAMBDA w : ~isVacuousTrue(w)))

foldAny(parts) ==
    IF \E i \in DOMAIN parts : isVacuousTrue(parts[i]) THEN VacuousTrue
    ELSE OR(SelectSeq(parts, LAMBDA w : ~isVacuousFalse(w)))

foldNot(inner) ==
    CASE isVacuousTrue(inner) -> VacuousFalse
      [] isVacuousFalse(inner) -> VacuousTrue
      [] OTHER -> NOT(inner)

RECURSIVE prismaRenderNode(_)
prismaRenderNode(n) ==
    LET parts == [i \in DOMAIN n.parts |-> prismaRenderNode(n.parts[i])]
    IN  CASE n.tag = "Constant" -> IF n.value THEN VacuousTrue ELSE VacuousFalse
          [] n.tag = "IsNull" ->
                 Field(n.column, (IF n.negated THEN "not" ELSE "equals") :> Null)
          [] n.tag = "Equals" ->
                 NullGuarded(n.nullGuard, n.column,
                             (IF n.negated THEN "not" ELSE "equals") :> n.value)
          [] n.tag = "Range" ->
                 NullGuarded(n.nullGuard, n.column,
                             (IF n.op = "Gte" THEN "gte" ELSE "lt") :> n.bound)
          [] n.tag = "OneOf" -> NullGuarded(n.nullGuard, n.column, "in" :> n.values)
          [] n.tag = "All" -> foldAll(parts)
          [] n.tag = "Any" -> foldAny(parts)
          [] n.tag = "Not" -> foldNot(prismaRenderNode(n.inner))

-----------------------------------------------------------------------------
(* The engine.  An empty AND or OR beneath the top of a query is stripped  *)
(* as no restriction, and so is a NOT of one.                              *)
KeyHolds(key, operand, v) ==
    CASE operand = Null /\ key = "equals" -> SqlIsNull(v)
      [] operand = Null /\ key = "not" -> SqlNot(SqlIsNull(v))
      [] operand # Null /\ key = "equals" -> SqlCompare("=", v, operand)
      [] operand # Null /\ key = "not" -> SqlCompare("!=", v, operand)
      [] key = "gte" -> SqlCompare(">=", v, operand)
      [] key = "lt" -> SqlCompare("<", v, operand)
      [] key = "in" ->
             SqlOr({SqlCompare("=", v, operand[i]) : i \in DOMAIN operand})

RECURSIVE Stripped(_)
Stripped(w) ==
    \/ w.tag \in {"AND", "OR"} /\ \A i \in DOMAIN w.members : Stripped(w.members[i])
    \/ w.tag = "NOT" /\ Stripped(w.inner)

RECURSIVE EngineSays(_, _)
EngineSays(w, row) ==
    LET kept == {i \in DOMAIN w.members : ~Stripped(w.members[i])}
        parts == {EngineSays(w.members[i], row) : i \in kept}
    IN  CASE w.tag = "Field" ->
                 SqlAnd({KeyHolds(key, w.filter[key], row[w.column]) :
                            key \in DOMAIN w.filter})
          [] w.tag = "AND" -> SqlAnd(parts)
          [] w.tag = "OR" -> IF parts = {} THEN "true" ELSE SqlOr(parts)
          [] w.tag = "NOT" -> IF Stripped(w.inner) THEN "true"
                              ELSE SqlNot(EngineSays(w.inner, row))

PrismaSelects(w, row) ==
    ~isVacuousFalse(w) /\ (isVacuousTrue(w) \/ EngineSays(w, row) = "true")
=============================================================================
