------------------------------- MODULE MCWalk -------------------------------
(***************************************************************************)
(* Small policies to walk, and that every walk of one ends.                *)
(***************************************************************************)
EXTENDS Walk

AllNode(kids, s) == [tag |-> "AllOf", kids |-> kids, strategy |-> s]
AnyNode(kids, s) == [tag |-> "AnyOf", kids |-> kids, strategy |-> s]
Table(kids, c, es) ==
    [tag |-> "Rules", kids |-> kids, combining |-> c, effects |-> es]
Wrap(t, kid) == [tag |-> t, kids |-> <<kid>>]
Oblige(kid, d) == [tag |-> "Obliged", kids |-> <<kid>>, duty |-> d]
Leaf(f, nesting) ==
    [tag |-> "Leaf", kids |-> <<>>, fields |-> f, nesting |-> nesting]

Wide == Only({<<"a">>})
Narrow == Only({<<"a", "b">>})
Strategies == {"Intersection", "Union", "First", "toString"}
Algorithms == {"DenyOverrides", "PermitOverrides", "FirstApplicable", "Xor"}
Effects(n) == [1 .. n -> {"Permit", "Deny"}]

(* Every composite over three leaves, the last with a nested matcher.      *)
FlatRoots ==
    {AllNode(<<2, 3, 4>>, s) : s \in Strategies}
        \cup {AnyNode(<<2, 3, 4>>, s) : s \in Strategies}
        \cup {Table(<<2, 3, 4>>, c, es) : c \in Algorithms, es \in Effects(3)}
Flat == {<<root, Leaf(AllFields, 0), Leaf(Narrow, 0), Leaf(Wide, 1)>> :
            root \in FlatRoots}

(* A composite of a composite and a wrapper, with duties in both branches. *)
NestedRoots ==
    {AllNode(<<2, 3>>, "Union"), AnyNode(<<2, 3>>, "Union"), AnyNode(<<2, 3>>, "First"),
     Table(<<2, 3>>, "DenyOverrides", <<"Permit", "Permit">>)}
Inner ==
    {AllNode(<<4, 5>>, "Intersection"), AnyNode(<<5, 4>>, "First"),
     AnyNode(<<4, 5>>, "Union"), Table(<<4, 5>>, "FirstApplicable", <<"Permit", "Permit">>)}
Nested == {<<root, inner, wrapper, Oblige(7, "d1"), Leaf(Narrow, 0),
             Leaf(Wide, 0), Leaf(AllFields, 0)>> :
            root \in NestedRoots, inner \in Inner,
            wrapper \in {Oblige(6, "d2"), Wrap("Not", 6), Wrap("Labeled", 6)}}

(* Composites of nothing, and a chain of wrappers over one.                *)
Empty == {<<root>> : root \in {AllNode(<<>>, "Union"), AnyNode(<<>>, "First"),
                               Table(<<>>, "DenyOverrides", <<>>)}}
            \cup {<<Wrap("Labeled", 2), Wrap("Not", 3), Oblige(4, "d1"), root>> :
                    root \in {AllNode(<<>>, "First"), AnyNode(<<>>, "Union")}}

MCPolicies == Flat \cup Nested \cup Empty

-----------------------------------------------------------------------------
(* Every walk ends: no composite waits on a kid that it never starts.      *)
(* (Walk.ts, walk)                                                         *)
WalkEnds == <>Done(Root)

=============================================================================
