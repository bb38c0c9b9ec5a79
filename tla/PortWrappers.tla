---------------------------- MODULE PortWrappers -----------------------------
(***************************************************************************)
(* The wrappers every port has: retrying, bounded and timing out, stacked  *)
(* in any order round one store that answers, fails, dies or never         *)
(* settles.  Each call goes in through the stack, outermost first, and its *)
(* reply comes out the same way.  What a call holds and has done is state; *)
(* time is only that a deadline may pass while a call is inside it, and a  *)
(* schedule's delays are left out.                                         *)
(***************************************************************************)
EXTENDS Integers, Sequences, FiniteSets

CONSTANTS
    Wrapped,         \* the calls that may be in progress together
    Permits,         \* the permit counts a bounded wrapper may be built with
    MaxRecurrences   \* bound: how often a retry schedule recurs

VARIABLES
    wrapping,   \* the wrappers, the outermost first
    permits,    \* what the bounded wrapper was asked to allow
    free,       \* permits nobody holds
    trip,       \* per call: the layer it stands at, which way, and its reply
    holding,    \* the calls that hold a permit
    attempts,   \* per call: how often the retrying wrapper ran it
    annotated,  \* per call: the attempts its span was told of
    reached     \* per call: how often it reached the store

wrapperVars == <<wrapping, permits, free, trip, holding, attempts, annotated, reached>>

-----------------------------------------------------------------------------
WrapperLayers == {"retrying", "bounded", "timing out"}

(* Every order of any of the three.  A stack holds each of them once.      *)
Stackings == UNION {{s \in [1 .. n -> WrapperLayers] :
                        \A i, j \in 1 .. n : i # j => s[i] # s[j]} : n \in 0 .. 3}

Has(layer) == \E i \in DOMAIN wrapping : wrapping[i] = layer
Place(layer) == CHOOSE i \in DOMAIN wrapping : wrapping[i] = layer
Store == Len(wrapping) + 1

At(c, layer, way) ==
    trip[c].way = way /\ trip[c].at \in DOMAIN wrapping /\ wrapping[trip[c].at] = layer

(* Past a wrapper's entry and not yet back at its exit.                    *)
Inside(c, layer) == trip[c].way = "in" /\ Has(layer) /\ trip[c].at > Place(layer)
Underway(c) == trip[c].way \in {"in", "out"}

OnTheWay(at, way, reply) == [at |-> at, way |-> way, reply |-> reply]

(* A semaphore of no permits would keep every call waiting: the layer's    *)
(* construction fails instead.                                             *)
boundedPermits(n) == n > 0

boundedPort == Has("bounded") => boundedPermits(permits)

WrappersInit ==
    /\ wrapping \in Stackings /\ permits \in Permits
    /\ ~Has("bounded") => permits = CHOOSE n \in Permits : TRUE
    /\ free = permits /\ holding = {}
    /\ trip = [c \in Wrapped |-> OnTheWay(0, "none", "none")]
    /\ attempts = [c \in Wrapped |-> 0] /\ annotated = attempts /\ reached = attempts

-----------------------------------------------------------------------------
(* The service is asked: the outermost wrapper is called.  A stack that    *)
(* failed to build has no service.                                         *)
wrapPort(c) ==
    /\ boundedPort /\ trip[c].way = "none"
    /\ trip' = [trip EXCEPT ![c] = OnTheWay(1, "in", "none")]
    /\ UNCHANGED <<wrapping, permits, free, holding, attempts, annotated, reached>>

Inwards(c) == trip' = [trip EXCEPT ![c].at = @ + 1]

(* Each attempt is counted as it starts.                                   *)
retryCountingAttempts(c) ==
    /\ At(c, "retrying", "in") /\ Inwards(c)
    /\ attempts' = [attempts EXCEPT ![c] = @ + 1]
    /\ UNCHANGED <<wrapping, permits, free, holding, annotated, reached>>

AcquirePermit(c) ==
    /\ At(c, "bounded", "in") /\ free > 0 /\ Inwards(c)
    /\ free' = free - 1 /\ holding' = holding \cup {c}
    /\ UNCHANGED <<wrapping, permits, attempts, annotated, reached>>

(* The deadline runs from here until the call is back.                     *)
timingOutPort(c) ==
    /\ At(c, "timing out", "in") /\ Inwards(c)
    /\ UNCHANGED <<wrapping, permits, free, holding, attempts, annotated, reached>>

(* The store settles, or the call stays here for ever.                     *)
Invoke(c) ==
    /\ trip[c].way = "in" /\ trip[c].at = Store
    /\ \E reply \in {"answer", "failure", "defect"} :
           trip' = [trip EXCEPT ![c] = OnTheWay(Len(wrapping), "out", reply)]
    /\ reached' = [reached EXCEPT ![c] = @ + 1]
    /\ UNCHANGED <<wrapping, permits, free, holding, attempts, annotated>>

-----------------------------------------------------------------------------
Outwards(c) == trip' = [trip EXCEPT ![c].at = @ - 1]

ReleasePermit(c) ==
    /\ At(c, "bounded", "out") /\ Outwards(c)
    /\ free' = free + 1 /\ holding' = holding \ {c}
    /\ UNCHANGED <<wrapping, permits, attempts, annotated, reached>>

InTime(c) ==
    /\ At(c, "timing out", "out") /\ Outwards(c)
    /\ UNCHANGED <<wrapping, permits, free, holding, attempts, annotated, reached>>

(* A typed failure invokes what is wrapped again while the schedule        *)
(* recurs.  What comes out in the end is annotated on the span.            *)
retryingPort(c) ==
    /\ At(c, "retrying", "out")
    /\ IF trip[c].reply = "failure" /\ attempts[c] <= MaxRecurrences
       THEN /\ trip' = [trip EXCEPT ![c] = OnTheWay(trip[c].at, "in", "none")]
            /\ UNCHANGED annotated
       ELSE /\ Outwards(c)
            /\ annotated' = [annotated EXCEPT ![c] = attempts[c]]
    /\ UNCHANGED <<wrapping, permits, free, holding, attempts, reached>>

wrapService(c) ==
    /\ trip[c].way = "out" /\ trip[c].at = 0
    /\ trip' = [trip EXCEPT ![c].way = "over"]
    /\ UNCHANGED <<wrapping, permits, free, holding, attempts, annotated, reached>>

(* A mutation: what is interrupted keeps its permit.                       *)
PermitForgotten(c, depth) ==
    /\ UNCHANGED <<free, holding>>
    /\ annotated' = [annotated EXCEPT ![c] = attempts[c]]

(* What is interrupted inside a layer runs its finalizers: a permit taken  *)
(* there is given back, and the attempts made there are annotated.         *)
Finalize(c, depth) ==
    LET released == c \in holding /\ depth < Place("bounded")
    IN  /\ free' = IF released THEN free + 1 ELSE free
        /\ holding' = IF released THEN holding \ {c} ELSE holding
        /\ annotated' = IF Has("retrying") /\ depth < Place("retrying")
                        THEN [annotated EXCEPT ![c] = attempts[c]] ELSE annotated

(* The deadline passes: whatever the call was doing inside is interrupted, *)
(* and the port's own failure is the reply.                                *)
TimeOut(c) ==
    /\ Has("timing out")
    /\ Underway(c) /\ trip[c].at > Place("timing out")
    /\ Finalize(c, Place("timing out"))
    /\ trip' = [trip EXCEPT ![c] = OnTheWay(Place("timing out") - 1, "out", "failure")]
    /\ UNCHANGED <<wrapping, permits, attempts, reached>>

(* The asking fiber is interrupted wherever its call is.                   *)
Abandon(c) ==
    /\ Underway(c) /\ Finalize(c, 0)
    /\ trip' = [trip EXCEPT ![c] = OnTheWay(0, "over", "interrupted")]
    /\ UNCHANGED <<wrapping, permits, attempts, reached>>

Moves(c) ==
    \/ retryCountingAttempts(c) \/ AcquirePermit(c) \/ timingOutPort(c)
    \/ ReleasePermit(c) \/ InTime(c) \/ retryingPort(c) \/ wrapService(c) \/ TimeOut(c)

(* Every call is over, or there is no service to call.                     *)
NothingLeft ==
    /\ ~boundedPort \/ \A c \in Wrapped : trip[c].way = "over"
    /\ UNCHANGED wrapperVars

WrappersNext ==
    \/ \E c \in Wrapped : wrapPort(c) \/ Moves(c) \/ Invoke(c) \/ Abandon(c)
    \/ NothingLeft

(* A stack's own steps happen, and deadlines pass.  Nothing makes a store  *)
(* settle, nor a caller give up.                                           *)
WrappersFairness == \A c \in Wrapped : WF_wrapperVars(Moves(c))

-----------------------------------------------------------------------------
(* What must be true.                                                      *)

(* boundedPort: every permit is free or held by a call that is inside the  *)
(* wrapper, whichever way calls before it ended, so the store never has    *)
(* more calls in it than the permits.                                      *)
PermitsAreAccounted ==
    /\ free + Cardinality(holding) = permits
    /\ \A c \in holding : Underway(c)
    /\ Has("bounded") =>
           Cardinality({c \in Wrapped : trip[c].way = "in" /\ trip[c].at = Store}) <= permits

(* retryCountingAttempts: a call's span is told of every attempt that      *)
(* reached the store, and of no more attempts than the schedule allows,    *)
(* however the call ended.                                                 *)
SpansTellTheAttempts ==
    \A c \in Wrapped : trip[c].way = "over" /\ Has("retrying") =>
        /\ reached[c] <= annotated[c] /\ annotated[c] <= MaxRecurrences + 1
        /\ trip[c].reply = "answer" => annotated[c] >= 1

(* timingOutPort: with a deadline anywhere in the stack every call that is *)
(* made comes back, though the store never settles and other calls hold    *)
(* every permit.                                                           *)
DeadlinesEndCalls ==
    \A c \in Wrapped : (Underway(c) /\ Has("timing out")) ~> (trip[c].way = "over")

(* However the wrappers of a port are stacked, no permit is lost or lent   *)
(* twice, a call's span is told its attempts, and a call under a deadline  *)
(* comes back.  (PortDerivation.ts)                                        *)
WrappedCallsSettle == [](PermitsAreAccounted /\ SpansTellTheAttempts) /\ DeadlinesEndCalls

=============================================================================
