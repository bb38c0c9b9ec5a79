------------------------------ MODULE Monitor ------------------------------
(***************************************************************************)
(* What enforcement promises of each question asked for a protected thing  *)
(* (packages/core/src/Qadi.ts): it is handed over, once, after the policy  *)
(* allowed it and after every duty that binds was met, or not at all.      *)
(***************************************************************************)
CONSTANT Asks   \* the questions

VARIABLES
    verdict,   \* per ask: "none", "Allow", "Deny" or "Failed"
    duty,      \* per ask: "none", "owed" or "met"
    released   \* the asks whose thing was handed over

vars == <<verdict, duty, released>>

Init ==
    /\ verdict = [a \in Asks |-> "none"]
    /\ duty = [a \in Asks |-> "none"]
    /\ released = {}

Judge(a) ==
    /\ verdict[a] = "none"
    /\ \E v \in {"Allow", "Deny", "Failed"} : verdict' = [verdict EXCEPT ![a] = v]
    /\ \E d \in {"none", "owed"} :
           /\ d = "owed" => verdict'[a] = "Allow"
           /\ duty' = [duty EXCEPT ![a] = d]
    /\ UNCHANGED released

Meet(a) ==
    /\ duty[a] = "owed"
    /\ duty' = [duty EXCEPT ![a] = "met"]
    /\ UNCHANGED <<verdict, released>>

(* Several may be handed over together, each on its own merit.             *)
Release(as) ==
    /\ \A a \in as : verdict[a] = "Allow" /\ duty[a] # "owed" /\ a \notin released
    /\ released' = released \cup as
    /\ UNCHANGED <<verdict, duty>>

Next ==
    \/ \E a \in Asks : Judge(a) \/ Meet(a)
    \/ \E as \in SUBSET Asks : Release(as)

Spec == Init /\ [][Next]_vars

=============================================================================
