-------------------------- MODULE MCDecisionCache --------------------------
EXTENDS DecisionCache, TLC

(* Callers, questions and claims are interchangeable.                      *)
Symmetry == Permutations(Callers) \cup Permutations(Questions) \cup Permutations(Claims)
=============================================================================
