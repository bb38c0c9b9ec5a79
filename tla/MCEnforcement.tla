--------------------------- MODULE MCEnforcement ---------------------------
(***************************************************************************)
(* Calls of the entry points and, each by itself beside them, what goes on *)
(* around a running client: the wrapped calls of a port that an evaluation *)
(* makes, and the developer's dock that shows its records and readings.    *)
(***************************************************************************)
EXTENDS Enforcement, PortWrappers, Dock

VARIABLE under     \* what this behaviour is about
dockVars == <<timelineVars, dialVars>>
callVars == <<under, vars, wrapperVars, dockVars>>

NoWrapping ==
    /\ wrapping = <<>> /\ permits = 1 /\ free = 1 /\ holding = {}
    /\ trip = [c \in Wrapped |-> OnTheWay(0, "none", "none")]
    /\ attempts = [c \in Wrapped |-> 0] /\ annotated = attempts /\ reached = attempts

(* A host hands the dock a layer, or a reading of its own instead of one.  *)
HandedDials ==
    /\ makeDiagnosticsStore
    /\ (supplied = {"wiring"}) = (layer = "none")
    /\ layer # "built" => \A c \in CallCapacities : collector.capacity <= c

NoDials == HandedDials /\ layer = "none"

CallsInit ==
    /\ Init /\ makeTimelineStore
    /\ \/ under = "enforcement" /\ NoWrapping /\ NoDials
       \/ under = "port" /\ WrappersInit /\ NoDials
       \/ under = "timeline" /\ NoWrapping /\ NoDials
       \/ under = "dials" /\ NoWrapping /\ HandedDials

CallsNext ==
    /\ UNCHANGED under
    /\ \/ under = "enforcement" /\ Next /\ UNCHANGED <<wrapperVars, dockVars>>
       \/ under = "port" /\ WrappersNext /\ UNCHANGED <<vars, dockVars>>
       \/ under = "timeline" /\ TimelineStoreNext /\ UNCHANGED <<vars, wrapperVars, dialVars>>
       \/ under = "dials" /\ DiagnosticsNext /\ UNCHANGED <<vars, wrapperVars, timelineVars>>

CallsSpec ==
    /\ CallsInit /\ [][CallsNext]_callVars
    /\ under = "enforcement" => Fairness
    /\ under = "port" => WrappersFairness

----------------------------------------------------------------------------
(* One evaluation of a server and a client's re-check of it, and what was  *)
(* discharged of each: a source delivers them in any order and repeatedly. *)
Of(tag, environment, at) ==
    [tag |-> tag, evaluation |-> "e1", environment |-> environment, at |-> at]

FourRecords ==
    {Of("Decision", "Server", 2), Of("Obligations", "Server", 3),
     Of("Decision", "Client", 1), Of("Obligations", "Client", 2)}
=============================================================================
