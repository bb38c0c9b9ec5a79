-------------------------- MODULE MCDecisionStream --------------------------
(* One evaluation of the server and the re-check of it by a client, whose  *)
(* records the server's log ingests: they share their evaluation, and the  *)
(* client's clock is behind.                                               *)
EXTENDS DecisionStream

CONSTANTS Panel1

Of(tag, environment, at) ==
    [tag |-> tag, evaluation |-> "e1", environment |-> environment, at |-> at]

Decided == Of("Decision", "Server", 2)
Discharged == Of("Obligations", "Server", 3)
Rechecked == Of("Decision", "Client", 1)
Reported == Of("Obligations", "Client", 2)

ThreeRecords == {Decided, Rechecked, Reported}
FourRecords == {Decided, Discharged, Rechecked, Reported}
OnePanel == {Panel1}
AllFramed == {}
OneRefused == {Discharged}
=============================================================================
