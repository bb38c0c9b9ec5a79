---------------------------- MODULE Enforcement ----------------------------
(***************************************************************************)
(* The enforcement entry points (packages/core/src/Qadi.ts and             *)
(* SubjectSet.ts) over the lifecycle of an evaluation (Lifecycle.ts): each *)
(* call asks one question per item, the decision sinks are told of the     *)
(* answer before it is used, an allow's duties go through the obligation   *)
(* gate, and only then is the protected thing handed over.                 *)
(*                                                                         *)
(* The walk that answers a question, the caller's loader and handler, and  *)
(* each sink are chosen: any answer, any failure, at any time.             *)
(***************************************************************************)
EXTENDS Naturals, Sequences, FiniteSets

CONSTANTS
    Calls,      \* calls of an entry point
    MaxItems,   \* the most items a call is given
    Sinks,      \* the number of decision sinks, told in the order 1..Sinks
    Flaky       \* the sinks that may lose a record

ASSUME EnforcementAssumption ==
    /\ MaxItems \in Nat \ {0}
    /\ Sinks \in Nat
    /\ Flaky \subseteq 1 .. Sinks

VARIABLES
    call,       \* per call: its entry point and options, and how far it is
    step,       \* per question: where it is between asked and settled
    answer,     \* per question: what the walk answered
    duties,     \* per question: the strongest duty its allow carries
    gate,       \* per question: what became of the duties
    next,       \* per question: the sink to tell next
    kept,       \* per sink and question: the records it kept, in order
    released    \* the questions whose protected thing was handed over

askVars == <<step, answer, duties, gate, next, kept>>
vars == <<call, step, answer, duties, gate, next, kept, released>>

Asks == Calls \X (1 .. MaxItems)

(* decide and check report; assert hands over its success, enforce and     *)
(* guard the effect they protect, enforceLoaded what it loaded.            *)
Single == {"decide", "assert", "enforce", "enforceLoaded"}
Many == {"filter", "filterStream", "decideSubjects"}
Reporting == {"decide", "decideSubjects"}

Over == {"returned", "failed", "died", "interrupted"}
InFlight == {"deciding", "telling", "handling", "recording"}

Steps == InFlight \cup {"unasked", "settled", "failed", "stopped"}
Answers == {"Allow", "Deny", "Failed"}
Outcomes == {"Discharged", "HandlerFailed", "NotRequired", "Refused"}

Idle == [op |-> "decide", handler |-> FALSE, limit |-> 1, width |-> 0,
         pc |-> "idle", passed |-> 0]

Init ==
    /\ call = [c \in Calls |-> Idle]
    /\ step = [a \in Asks |-> "unasked"]
    /\ answer = [a \in Asks |-> "none"]
    /\ duties = [a \in Asks |-> "none"]
    /\ gate = [a \in Asks |-> "none"]
    /\ next = [a \in Asks |-> 1]
    /\ kept = [s \in 1 .. Sinks |-> [a \in Asks |-> <<>>]]
    /\ released = {}

-----------------------------------------------------------------------------
Op(a) == call[a[1]].op
Handler(a) == call[a[1]].handler
AsksOf(c) == {<<c, i>> : i \in 1 .. call[c].width}
Live(c) == call[c].pc \in {"asking", "failing"}

(* An entry point is called: one question, or one per item. A handler of   *)
(* duties is an option of the enforcing ones only, and only the filters    *)
(* are given a concurrency.                                                *)
Start(c) ==
    /\ call[c].pc = "idle"
    /\ \E op \in Single \cup Many, h \in BOOLEAN, n \in 1 .. MaxItems, w \in 0 .. MaxItems :
           /\ op \in Reporting => ~h
           /\ op \in Single => w = 1
           /\ op \notin {"filter", "filterStream"} => n = 1
           /\ call' = [call EXCEPT ![c] =
                  [op |-> op, handler |-> h, limit |-> n, width |-> w, passed |-> 0,
                   pc |-> IF op = "enforceLoaded" THEN "loading" ELSE "asking"]]
    /\ UNCHANGED <<askVars, released>>

(* enforceLoaded loads first, and decides on what it loaded. A load that   *)
(* fails asks nothing.                                                     *)
Load(c) ==
    /\ call[c].pc = "loading"
    /\ \E pc \in {"asking", "failed"} : call' = [call EXCEPT ![c].pc = pc]
    /\ UNCHANGED <<askVars, released>>

(* A mutation: a slot of the concurrency is never given back.              *)
BusyOnceAsked(c) == {a \in AsksOf(c) : step[a] # "unasked"}

Busy(c) == {a \in AsksOf(c) : step[a] \in InFlight}

(* The next item's question is asked, in input order, when the concurrency *)
(* has room.                                                               *)
Ask(a) ==
    /\ call[a[1]].pc = "asking"
    /\ a \in AsksOf(a[1])
    /\ step[a] = "unasked"
    /\ \A b \in AsksOf(a[1]) : b[2] < a[2] => step[b] # "unasked"
    /\ Cardinality(Busy(a[1])) < call[a[1]].limit
    /\ step' = [step EXCEPT ![a] = "deciding"]
    /\ UNCHANGED <<call, answer, duties, gate, next, kept, released>>

(* decideQuestion: the walk ends. Its answer, a failure included, is told  *)
(* to the sinks before anyone else sees it.                                *)
Decide(a) ==
    /\ Live(a[1])
    /\ step[a] = "deciding"
    /\ \E v \in Answers, d \in {"none", "advisory", "binding"} :
           /\ v # "Allow" => d = "none"
           /\ answer' = [answer EXCEPT ![a] = v]
           /\ duties' = [duties EXCEPT ![a] = d]
    /\ step' = [step EXCEPT ![a] = "telling"]
    /\ UNCHANGED <<call, gate, next, kept, released>>

(* A mutation: a sink that fails ends the telling.                         *)
HeardUntilOneFails(s, ok) == IF ok THEN s + 1 ELSE Sinks + 1

(* decisionSinkAll: the sinks are told one after the other, whatever       *)
(* became of the record at the one before.                                 *)
Heard(s, ok) == s + 1

MoreToTell(a) == next[a] <= Sinks

Tell(a, record) ==
    /\ MoreToTell(a)
    /\ \E ok \in BOOLEAN :
           /\ next[a] \notin Flaky => ok
           /\ kept' = IF ok THEN [kept EXCEPT ![next[a]][a] = Append(@, record)] ELSE kept
           /\ next' = [next EXCEPT ![a] = Heard(@, ok)]
    /\ UNCHANGED <<call, step, answer, duties, gate, released>>

TellDecision(a) ==
    /\ Live(a[1])
    /\ step[a] = "telling"
    /\ Tell(a, answer[a])

TellOutcome(a) ==
    /\ Live(a[1])
    /\ step[a] = "recording"
    /\ Tell(a, gate[a])

-----------------------------------------------------------------------------
(* A question that fails fails its call. A filter interrupts the items     *)
(* still being decided; a stream may first emit what it had ready.         *)
StoppedWith(a) == {b \in AsksOf(a[1]) : b # a /\ step[b] \in InFlight}

Fails(a, pc) ==
    IF Op(a) = "filterStream"
    THEN /\ step' = [step EXCEPT ![a] = "failed"]
         /\ call' = [call EXCEPT ![a[1]].pc = "failing"]
    ELSE /\ step' = [b \in Asks |-> IF b = a THEN "failed"
                                    ELSE IF b \in StoppedWith(a) THEN "stopped" ELSE step[b]]
         /\ call' = [call EXCEPT ![a[1]].pc = pc]

Settles(a) ==
    /\ step' = [step EXCEPT ![a] = "settled"]
    /\ UNCHANGED call

(* A mutation: filter treats a failed item as it treats a denied one.      *)
FilterCapturesFailure(op) == op \in {"decideSubjects", "filter"}

(* decideSubject keeps an evaluation's failure as a row of its own.        *)
CapturesFailure(op) == op = "decideSubjects"

(* A report ends here: a failure fails decide, and is one of the failures  *)
(* of decideSubjects. In the others a failure fails the call; a denial     *)
(* does, except in the filters, which leave the item out.                  *)
ReturnAnswer(a) ==
    /\ Live(a[1])
    /\ step[a] = "telling"
    /\ ~MoreToTell(a)
    /\ \/ /\ answer[a] = "Failed"
          /\ IF CapturesFailure(Op(a)) THEN Settles(a) ELSE Fails(a, "failed")
       \/ /\ answer[a] = "Deny"
          /\ IF Op(a) \in Reporting \cup Many THEN Settles(a) ELSE Fails(a, "failed")
       \/ /\ answer[a] = "Allow"
          /\ Op(a) \in Reporting \/ duties[a] = "none"
          /\ Settles(a)
    /\ UNCHANGED <<answer, duties, gate, next, kept, released>>

(* What the gate answers without a handler: only a binding duty blocks.    *)
Unhandled(a) == IF duties[a] = "binding" THEN "Refused" ELSE "NotRequired"

(* discharge: an allow with duties goes through the gate. A handler is     *)
(* given every duty, the advisory ones too; without one, a binding duty    *)
(* refuses the call.                                                       *)
Discharge(a) ==
    /\ Live(a[1])
    /\ step[a] = "telling"
    /\ ~MoreToTell(a)
    /\ answer[a] = "Allow"
    /\ Op(a) \notin Reporting
    /\ duties[a] # "none"
    /\ next' = [next EXCEPT ![a] = 1]
    /\ IF Handler(a)
       THEN /\ step' = [step EXCEPT ![a] = "handling"]
            /\ UNCHANGED gate
       ELSE /\ step' = [step EXCEPT ![a] = "recording"]
            /\ gate' = [gate EXCEPT ![a] = Unhandled(a)]
    /\ UNCHANGED <<call, answer, duties, kept, released>>

(* The handler ends: it met the duties, or it failed.                      *)
Handle(a) ==
    /\ Live(a[1])
    /\ step[a] = "handling"
    /\ \E g \in {"Discharged", "HandlerFailed"} : gate' = [gate EXCEPT ![a] = g]
    /\ step' = [step EXCEPT ![a] = "recording"]
    /\ UNCHANGED <<call, answer, duties, next, kept, released>>

(* A handler that dies fails the call with its defect and records nothing. *)
HandlerDies(a) ==
    /\ Live(a[1])
    /\ step[a] = "handling"
    /\ Fails(a, "died")
    /\ UNCHANGED <<answer, duties, gate, next, kept, released>>

(* A mutation: a handler's failure is recorded and then forgotten.         *)
PassesHandlerFailed == {"Discharged", "NotRequired", "HandlerFailed"}

Passes == {"Discharged", "NotRequired"}

(* The sinks know what became of the duties: the allow passes the gate, or *)
(* the call fails with the handler's error or the undischarged duties.     *)
PassGate(a) ==
    /\ Live(a[1])
    /\ step[a] = "recording"
    /\ ~MoreToTell(a)
    /\ IF gate[a] \in Passes THEN Settles(a) ELSE Fails(a, "failed")
    /\ UNCHANGED <<answer, duties, gate, next, kept, released>>

-----------------------------------------------------------------------------
Settled(c) == \A a \in AsksOf(c) : step[a] = "settled"
Allowed(c) == {a \in AsksOf(c) : answer[a] = "Allow"}

(* Every question is settled: the call hands over what was allowed, all at *)
(* once. A report hands over nothing, and a stream has done so already.    *)
Return(c) ==
    /\ call[c].pc = "asking"
    /\ Settled(c)
    /\ call[c].op = "filterStream" => call[c].passed = call[c].width
    /\ call' = [call EXCEPT ![c].pc = "returned"]
    /\ released' = IF call[c].op \in Reporting \cup {"filterStream"} THEN released
                   ELSE released \cup Allowed(c)
    /\ UNCHANGED askVars

(* filterStream emits in input order: an item is passed on, or left out,   *)
(* once every item before it was.                                          *)
Emit(c) ==
    LET a == <<c, call[c].passed + 1>> IN
    /\ Live(c)
    /\ call[c].op = "filterStream"
    /\ a \in AsksOf(c)
    /\ step[a] = "settled"
    /\ call' = [call EXCEPT ![c].passed = @ + 1]
    /\ released' = IF answer[a] = "Allow" THEN released \cup {a} ELSE released
    /\ UNCHANGED askVars

Stopped(c) ==
    step' = [a \in Asks |-> IF a \in Busy(c) THEN "stopped" ELSE step[a]]

(* A stream with a failed item ends with its error.                        *)
EndStream(c) ==
    /\ call[c].pc = "failing"
    /\ call' = [call EXCEPT ![c].pc = "failed"]
    /\ Stopped(c)
    /\ UNCHANGED <<answer, duties, gate, next, kept, released>>

(* The caller stops waiting: whatever the call was doing is interrupted,   *)
(* between two sinks too.                                                  *)
Interrupt(c) ==
    /\ Live(c) \/ call[c].pc = "loading"
    /\ call' = [call EXCEPT ![c].pc = "interrupted"]
    /\ Stopped(c)
    /\ UNCHANGED <<answer, duties, gate, next, kept, released>>

AllOver ==
    /\ \A c \in Calls : call[c].pc \in Over
    /\ UNCHANGED vars

CallStep(c) == Load(c) \/ Return(c) \/ Emit(c) \/ EndStream(c)

AskStep(a) ==
    \/ Ask(a) \/ Decide(a) \/ TellDecision(a) \/ ReturnAnswer(a)
    \/ Discharge(a) \/ Handle(a) \/ HandlerDies(a) \/ TellOutcome(a) \/ PassGate(a)

Next ==
    \/ \E c \in Calls : Start(c) \/ CallStep(c) \/ Interrupt(c)
    \/ \E a \in Asks : AskStep(a)
    \/ AllOver

Spec == Init /\ [][Next]_vars

(* A walk, a loader, a handler and a sink end, with whatever they return;  *)
(* nobody has to call or to interrupt.                                     *)
Fairness ==
    /\ \A c \in Calls : WF_vars(CallStep(c))
    /\ \A a \in Asks : WF_vars(AskStep(a))

FairSpec == Spec /\ Fairness

-----------------------------------------------------------------------------
CallRecords ==
    [op : Single \cup Many, handler : BOOLEAN, limit : 1 .. MaxItems, width : 0 .. MaxItems,
     pc : Over \cup {"idle", "loading", "asking", "failing"}, passed : 0 .. MaxItems]

(* The type invariant.  (Qadi.ts, Lifecycle.ts)                            *)
EnforcementTypeOK ==
    /\ call \in [Calls -> CallRecords]
    /\ step \in [Asks -> Steps]
    /\ answer \in [Asks -> Answers \cup {"none"}]
    /\ duties \in [Asks -> {"none", "advisory", "binding"}]
    /\ gate \in [Asks -> Outcomes \cup {"none"}]
    /\ next \in [Asks -> 1 .. Sinks + 1]
    /\ kept \in [1 .. Sinks -> [Asks -> Seq(Answers \cup Outcomes)]]
    /\ released \subseteq Asks

(* The duties of an allow that must be met before it is used: the binding  *)
(* ones, and every one of them when a handler takes them.                  *)
Owes(a) ==
    /\ answer[a] = "Allow"
    /\ duties[a] = "binding" \/ (duties[a] = "advisory" /\ Handler(a))

Duty == [a \in Asks |-> IF ~Owes(a) THEN "none"
                        ELSE IF gate[a] = "Discharged" THEN "met" ELSE "owed"]

Promise == INSTANCE Monitor WITH verdict <- answer, duty <- Duty

(* Every entry point is a reference monitor: nothing is handed over before *)
(* it was allowed and before what the allow obliges was met, and no answer *)
(* and no met duty is ever taken back.  (Qadi.ts, permitted and decideOne) *)
ImplementsMonitor == Promise!Spec

(* What the records of a question say once it is over.                     *)
Story(a) ==
    IF answer[a] # "Allow" \/ duties[a] = "none" \/ Op(a) \in Reporting
    THEN <<answer[a]>>
    ELSE <<"Allow",
           IF ~Handler(a) THEN Unhandled(a)
           ELSE IF step[a] = "settled" THEN "Discharged" ELSE "HandlerFailed">>

(* A sink that keeps what it is told has the whole story of every question *)
(* that was settled, so of everything handed over, and of every one that   *)
(* failed its call, in order and once, whatever the other sinks do. Only a *)
(* handler that died and an interruption leave it unfinished.              *)
(* (Lifecycle.ts, decideQuestion; Qadi.ts, discharge; decisionSinkAll)     *)
SinksTellTheOutcome ==
    \A a \in Asks, s \in (1 .. Sinks) \ Flaky :
        step[a] \in {"settled", "failed"} =>
            \/ kept[s][a] = Story(a)
            \/ /\ step[a] = "failed" /\ Handler(a) /\ gate[a] = "none"
               /\ kept[s][a] = <<"Allow">>

(* A filter hands over every allowed item or nothing, and only when each   *)
(* of its items has an answer; a stream the allowed ones of the items that *)
(* went through, none of which failed.  (Qadi.ts, filter and filterStream) *)
WhatIsReturnedIsWhole ==
    \A c \in Calls :
        LET out == released \cap AsksOf(c)
            through == {a \in AsksOf(c) : a[2] <= call[c].passed}
        IN /\ call[c].op = "filter" /\ out # {} =>
                  /\ call[c].pc = "returned"
                  /\ \A a \in AsksOf(c) : answer[a] \in {"Allow", "Deny"}
                  /\ out = Allowed(c)
           /\ call[c].op = "filter" /\ call[c].pc = "returned" =>
                  \A a \in AsksOf(c) : answer[a] \in {"Allow", "Deny"}
           /\ call[c].op = "filterStream" =>
                  /\ out = through \cap Allowed(c)
                  /\ \A a \in through : answer[a] \in {"Allow", "Deny"} /\ step[a] = "settled"

(* Every call ends, whatever its walks, handlers and sinks answer.         *)
(* (Qadi.ts and Lifecycle.ts)                                              *)
EveryCallEnds ==
    \A c \in Calls : call[c].pc \in {"loading", "asking", "failing"} ~> call[c].pc \in Over

=============================================================================
