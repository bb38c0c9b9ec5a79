-------------------------------- MODULE Role --------------------------------
(***************************************************************************)
(* Roles, their permissions and how they inherit (packages/core/src/       *)
(* Role.ts), and the subject they make (AuthSubject.ts).                   *)
(*                                                                         *)
(* Role objects are the nodes of a graph: a function from identities to    *)
(* records with the role's name, its own permission keys and the           *)
(* identities it inherits, in order.  Two objects may share a name.        *)
(***************************************************************************)
EXTENDS Sequences, SequencesExt, FiniteSets, FiniteSetsExt, Functions, Naturals

(* Walking up from the roles on the stack, each object once: what was seen.*)
RECURSIVE Walked(_, _, _)
Walked(graph, stack, seen) ==
    IF stack = <<>> THEN seen
    ELSE IF Last(stack) \in seen THEN Walked(graph, Front(stack), seen)
    ELSE Walked(graph, Front(stack) \o graph[Last(stack)].inherits,
                seen \cup {Last(stack)})

flattenPermissions(graph, self) ==
    UNION {graph[r].permissions : r \in Walked(graph, <<self>>, {})}

roleNames(graph, self) == {graph[r].name : r \in Walked(graph, <<self>>, {})}

flattenAll(graph, roles) == UNION {flattenPermissions(graph, r) : r \in roles}

(* A mutation: a role reached again grants again.                          *)
EnterAgain(graph, r, path, found) ==
    [found EXCEPT !.grants = @ \o SetToSeq({[permission |-> key,
        grantedBy |-> graph[r].name, path |-> Append(path, graph[r].name)] :
            key \in graph[r].permissions})]

(* Entering a role for the first time, its grants are told with the path   *)
(* it was first reached by.                                                *)
Enter(graph, r, path, found) ==
    [seen |-> found.seen \cup {r},
     grants |-> found.grants \o SetToSeq({[permission |-> key,
         grantedBy |-> graph[r].name, path |-> Append(path, graph[r].name)] :
             key \in graph[r].permissions})]

RECURSIVE Provenance(_, _, _, _)
Provenance(graph, r, path, found) ==
    IF r \in found.seen THEN found
    ELSE FoldLeft(LAMBDA f, parent :
                      Provenance(graph, parent, Append(path, graph[r].name), f),
                  Enter(graph, r, path, found), graph[r].inherits)

permissionProvenance(graph, self) ==
    Provenance(graph, self, <<>>, [seen |-> {}, grants |-> <<>>]).grants

(* The tree an explorer shows, told in the order it is read: a role met    *)
(* again is marked and shown with what it inherits all the same.           *)
RECURSIVE nodeOf(_, _, _, _)
nodeOf(graph, r, path, seen) ==
    LET name == graph[r].name
        inherits == graph[r].inherits
        under == FoldLeft(LAMBDA s, i :
                     LET kid == nodeOf(graph, inherits[i], Append(path, i - 1), s.seen)
                     IN  [children |-> Append(s.children, kid.node), seen |-> kid.seen],
                     [children |-> <<>>, seen |-> seen \cup {name}],
                     [i \in DOMAIN inherits |-> i])
    IN  [node |-> [name |-> name, path |-> path, own |-> graph[r].permissions,
                   children |-> under.children, repeated |-> name \in seen],
         seen |-> under.seen]

roleSummary(graph, self) ==
    LET grants == permissionProvenance(graph, self)
        own == SelectSeq(grants, LAMBDA g : Len(g.path) = 1)
    IN  [tree |-> nodeOf(graph, self, <<>>, {}).node, grants |-> grants,
         ownCount |-> Len(own), inheritedCount |-> Len(grants) - Len(own)]

-----------------------------------------------------------------------------
(* Resolving definitions, which name the roles they inherit.               *)

DuplicateNames(definitions) ==
    {definitions[i].name : i \in {j \in DOMAIN definitions :
        \E k \in DOMAIN definitions :
            k # j /\ definitions[k].name = definitions[j].name}}

byName(definitions, name) ==
    definitions[CHOOSE i \in DOMAIN definitions : definitions[i].name = name]

IsSettled(name, ancestors, st) ==
    st.cycle # <<>> \/ name \in DOMAIN st.resolved

(* Visiting a name under its ancestors: the roles resolved so far, the     *)
(* names nothing defines, and the cycle that ended it.  A role is resolved *)
(* once all its parents are; an unknown parent is left out of it.          *)
RECURSIVE visit(_, _, _, _)
visit(definitions, name, ancestors, st) ==
    LET known == \E i \in DOMAIN definitions : definitions[i].name = name
        definition == byName(definitions, name)
        under == FoldLeft(LAMBDA s, parent :
                              visit(definitions, parent, Append(ancestors, name), s),
                          st, definition.inherits)
        built == [name |-> name, permissions |-> definition.permissions,
                  inherits |-> SelectSeq(definition.inherits,
                                         LAMBDA n : n \in DOMAIN under.resolved)]
    IN  CASE IsSettled(name, ancestors, st) -> st
          [] ~IsSettled(name, ancestors, st) /\ name \in Range(ancestors) ->
                 [st EXCEPT !.cycle = Append(ancestors, name)]
          [] ~IsSettled(name, ancestors, st) /\ ~known -> [st EXCEPT !.unknown = @ \cup {name}]
          [] OTHER -> IF under.cycle # <<>> THEN under
                      ELSE [under EXCEPT !.resolved = @ @@ (name :> built)]

resolveRoleGraph(definitions) ==
    LET nothing == [resolved |-> <<>>, unknown |-> {}, cycle |-> <<>>]
        visited == FoldLeft(LAMBDA s, d : visit(definitions, d.name, <<>>, s),
                            nothing, definitions)
    IN  IF DuplicateNames(definitions) # {}
        THEN [error |-> "DuplicateRoleDefinition"] @@ nothing
        ELSE [error |-> IF visited.cycle = <<>> THEN "none"
                        ELSE "CircularRoleInheritance"] @@ visited

(* A subject holds the names and the permissions of its roles and of all   *)
(* they inherit, and what it is given besides.                             *)
fromRoles(id, graph, roles, permissions, attributes) ==
    [id |-> id, roles |-> UNION {roleNames(graph, r) : r \in roles},
     permissions |-> flattenAll(graph, roles) \cup permissions,
     attributes |-> attributes]

=============================================================================
