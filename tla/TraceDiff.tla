------------------------------ MODULE TraceDiff ------------------------------
(***************************************************************************)
(* Reading decisions (packages/core/src/Explanation.ts and TraceDiff.ts,   *)
(* packages/devtools/src/model/Inspect.ts): a policy explained, a trace    *)
(* laid beside its explanation, and where two traces differ.               *)
(***************************************************************************)
EXTENDS Ports

RequirementKind ==
    [tag \in {"HasPermission", "HasRole", "HasAttribute", "HasResourceAttribute",
              "HasRelationship", "HasAction", "HasActed", "HasNotActed",
              "HasCustom", "HasSignature"} |->
        CASE tag = "HasPermission" -> "permission"
          [] tag = "HasRole" -> "role"
          [] tag \in {"HasAttribute", "HasResourceAttribute"} -> "attribute"
          [] tag = "HasRelationship" -> "relationship"
          [] tag = "HasAction" -> "action"
          [] tag \in {"HasActed", "HasNotActed"} -> "history"
          [] tag = "HasCustom" -> "custom"
          [] tag = "HasSignature" -> "signature"]

requirement(p) ==
    [tag |-> "Requirement", kind |-> RequirementKind[p.tag], fields |-> p.fields]

RECURSIVE explain(_)
explain(p) ==
    LET parts == [i \in DOMAIN childrenOf(p) |-> explain(childrenOf(p)[i])]
    IN  CASE IsLeaf(p) -> requirement(p)
          [] p.tag = "AllOf" -> [tag |-> "All", parts |-> parts,
                                 fieldStrategy |-> p.fieldStrategy]
          [] p.tag = "AnyOf" -> [tag |-> "Any", parts |-> parts,
                                 fieldStrategy |-> p.fieldStrategy]
          [] p.tag = "Rules" -> [tag |-> "Table", parts |-> parts,
                                 effects |-> [i \in DOMAIN parts |-> p.rules[i].effect],
                                 combining |-> p.combining]
          [] p.tag = "Not" -> [tag |-> "Negated", parts |-> parts]
          [] p.tag = "Labeled" -> [tag |-> "Named", parts |-> parts,
                                   label |-> p.label]
          [] p.tag = "Obliged" -> [tag |-> "Owing", parts |-> parts,
                                   obligation |-> p.obligation]

explanationChildrenOf(e) == IF e.tag = "Requirement" THEN <<>> ELSE e.parts

(* Told without brackets: a requirement, or a composite of nothing.        *)
isAtomic(e) ==
    CASE e.tag = "Requirement" -> TRUE
      [] e.tag = "All" -> e.parts = <<>> /\ isFieldStrategy(e.fieldStrategy)
      [] e.tag \in {"Any", "Table"} -> e.parts = <<>>
      [] OTHER -> FALSE

-----------------------------------------------------------------------------
(* The inspector's tree: the i-th part beside the i-th child of the trace, *)
(* where there is one.                                                     *)

NoTrace == [policyTag |-> "none"]

statusOf(t) ==
    CASE t = NoTrace -> "NeverResolved"
      [] t # NoTrace /\ t.allowed -> "Allowed"
      [] OTHER -> "Denied"

RECURSIVE foldAligned(_, _, _, _)
foldAligned(e, t, effect, path) ==
    LET child(i) == IF t # NoTrace /\ i \in DOMAIN t.children
                    THEN t.children[i] ELSE NoTrace
        beside(i) == IF e.tag = "Table" THEN e.effects[i] ELSE Absent
    IN  [path |-> path, kind |-> e.tag, status |-> statusOf(t), effect |-> effect,
         visibleFields |-> IF t = NoTrace THEN AllFields ELSE t.visibleFields,
         obligations |-> IF t = NoTrace THEN {} ELSE t.obligations,
         children |-> [i \in DOMAIN explanationChildrenOf(e) |->
                          foldAligned(explanationChildrenOf(e)[i], child(i),
                                      beside(i), Append(path, i))]]

inspect(p, t) == foldAligned(explain(p), t, Absent, <<>>)

isNeverResolved(node) == node.status = "NeverResolved"

isTruncated(node) ==
    /\ ~isNeverResolved(node) /\ node.children # <<>>
    /\ \A i \in DOMAIN node.children : isNeverResolved(node.children[i])

RECURSIVE flattenTree(_)
flattenTree(node) ==
    <<node>> \o FlattenSeq([i \in DOMAIN node.children |->
                               flattenTree(node.children[i])])

-----------------------------------------------------------------------------
(* Where two traces differ, the root first and each subtree before the     *)
(* next; below a node whose children differ in number nothing is compared. *)

Difference(tag, path) == <<[tag |-> tag, path |-> path]>>
When(cond, difference) == IF cond THEN difference ELSE <<>>

NodeDifferences(a, b, path) ==
    When(a.policyTag # b.policyTag, Difference("PolicyTagChanged", path))
    \o When(a.label # b.label, Difference("LabelChanged", path))
    \o (IF a.allowed # b.allowed THEN Difference("VerdictChanged", path)
        ELSE When(a.reason # b.reason, Difference("ReasonChanged", path)))
    \o When(a.visibleFields # b.visibleFields, Difference("FieldsChanged", path))
    \o When(a.obligations # b.obligations, Difference("ObligationsChanged", path))

RECURSIVE DiffAt(_, _, _)
DiffAt(a, b, path) ==
    NodeDifferences(a, b, path)
    \o IF Len(a.children) # Len(b.children) THEN Difference("ChildCountChanged", path)
       ELSE FlattenSeq([i \in DOMAIN a.children |->
                DiffAt(a.children[i], b.children[i], Append(path, i))])

diffTraces(before, after) == DiffAt(before, after, <<>>)

flippedAt(before, after) ==
    LET flips == SelectSeq(diffTraces(before, after),
                           LAMBDA d : d.tag = "VerdictChanged")
    IN  IF flips = <<>> THEN Absent ELSE flips[1].path

=============================================================================
