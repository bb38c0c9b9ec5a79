------------------------------ MODULE MCClient ------------------------------
(***************************************************************************)
(* The parts of the React client, each watched by itself from the state    *)
(* where a page begins: one question's answers, the book of questions, the *)
(* registry of gates, and the payload a page is hydrated from.             *)
(***************************************************************************)
EXTENDS Client, GateRegistry, Hydration

CONSTANTS q1, a1, a2

VARIABLE study
studyVars == <<study, clientVars, gateVars, page>>

(* One question of one registry, whatever becomes of its subject.          *)
Answers ==
    /\ ClientNext
    /\ \A h \in Handles(book') : h = 1 /\ book'.made[h] = q1
    /\ \E r \in Registries : subject'[r] = "unborn"

(* Any questions of registries that have no subject yet.                   *)
Book ==
    /\ ClientNext
    /\ \A r \in Registries : subject'[r] \in {"unborn", Nobody}
    /\ UNCHANGED <<hydrated, changes>>

Init ==
    /\ study \in {"answers", "book", "gates", "payload"}
    /\ ClientInit /\ GatesInit /\ HydrationInit
    /\ study # "gates" => \A g, h \in Hooks : minted[g] = minted[h]

Next ==
    /\ UNCHANGED study
    /\ \/ study = "answers" /\ Answers /\ UNCHANGED <<gateVars, page>>
       \/ study = "book" /\ Book /\ UNCHANGED <<gateVars, page>>
       \/ study = "gates" /\ GatesNext /\ UNCHANGED <<clientVars, page>>
       \/ study = "payload" /\ HydrationNext /\ UNCHANGED <<clientVars, gateVars>>

Spec == Init /\ [][Next]_studyVars

-----------------------------------------------------------------------------
Question(name, atom) == [name |-> name, atom |-> atom]

TwoAtoms == {a1, a2}

(* A guard of one question, and records of two written in either order.    *)
Written ==
    {<<Question("n1", a1)>>, <<Question("n1", a2)>>,
     <<Question("n1", a1), Question("n2", a2)>>,
     <<Question("n2", a2), Question("n1", a1)>>,
     <<Question("n2", a2), Question("n1", a2)>>}

(* Two policies of one tag, and one of another.                            *)
Tag(question) == IF question = "other" THEN "AnyOf" ELSE "AllOf"

Symmetry ==
    UNION {Permutations(S) : S \in {Gates, Subjects, Registries, Hooks, Bases}}

(* The two lists a panel is shown: the book's names no question twice and  *)
(* counts the registries that hold each open, and the gates' is of the     *)
(* guards on the page and of all of them, as the panel groups them.        *)
(* (QuestionBook.ts:20-38, GateRegistry.ts:38-41, Gates.ts:4-9)            *)
ListsAreOfTheMounted == OpenAreCounted /\ GatesAreListed /\ PanelGroupsTheListed

=============================================================================
