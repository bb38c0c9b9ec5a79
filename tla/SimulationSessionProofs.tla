----------------------- MODULE SimulationSessionProofs -----------------------
(***************************************************************************)
(* What a simulator's session shows, for any calls, policies, ports and    *)
(* rows, and any number of commands; and what the guards of an HTTP API    *)
(* list and answer, for any permissions and an API of any size.            *)
(***************************************************************************)
EXTENDS SimulationSession, HttpGuards, FiniteSetTheorems, TLAPS

(* A session made of any rail, row and ports.                              *)
SessionInit ==
    \E list \in Seq(Sightable), row \in Rows \cup {Nothing}, layer \in Layers \cup {Nothing} :
        makeSimulationSession(list, row, layer)

Session == SessionInit /\ [][SessionNext]_sessionVars

(* A run that still has the generation it was forked in was not superseded *)
(* since.                                                                  *)
AwaitedIsCurrent ==
    \A c \in Calls : call[c].pc = "awaiting" =>
        /\ call[c].mine \in Nat /\ call[c].mine <= generation
        /\ call[c].mine = generation => overtaken[c] # "evaluated"

(* A call forks one evaluation, so what was superseded while evaluated is  *)
(* never forked again.                                                     *)
Forked(c) == call[c].pc \in {"awaiting", "ended", "interrupted"}

ForksOnce ==
    \A c \in Calls : overtaken[c] = "evaluated" => Forked(c)

(* When a result is shown its run is over, and nothing supersedes it.      *)
ShownIsOver ==
    runState.tag \in {"Ran", "Broke"} =>
        /\ runState.by \in Calls /\ call[runState.by].pc = "ended"
        /\ overtaken[runState.by] # "evaluated"

(* A run that is shown as running is awaited by its call, was abandoned    *)
(* with it, or is about to be replaced by what another call shows.         *)
WillReport(c) ==
    \/ call[c].pc = "awaiting" /\ call[c].mine = generation
    \/ call[c].pc = "reaping" /\ call[c].then \in {"fork", "refuse"}
    \/ call[c].pc = "interrupted"

SomebodyReports == runState.tag = "Running" => \E c \in Calls : WillReport(c)

SessionInv ==
    /\ DOMAIN call = Calls
    /\ generation \in Nat
    /\ AwaitedIsCurrent
    /\ ForksOnce
    /\ ShownIsOver
    /\ SomebodyReports

(* What a step leaves alone when it touches no call, and no generation.    *)
LEMMA SessionFrame ==
    ASSUME SessionInv, UNCHANGED <<call, generation, current, overtaken>>,
           runState' = runState \/ runState'.tag \in {"Idle", "Refused"}
    PROVE  SessionInv'
BY DEF SessionInv, AwaitedIsCurrent, ForksOnce, Forked, ShownIsOver, SomebodyReports, WillReport

(* Whatever supersedes the current run lets nothing older land.            *)
LEMMA SupersedeStep ==
    ASSUME SessionInv, Supersede
    PROVE  /\ generation' \in Nat
           /\ \A c \in Calls : overtaken'[c] = "evaluated" => Forked(c)
           /\ \A c \in Calls : call[c].pc = "awaiting" =>
                call[c].mine \in Nat /\ call[c].mine < generation'
           /\ runState.tag \in {"Ran", "Broke"} =>
                /\ runState.by \in Calls /\ call[runState.by].pc = "ended"
                /\ overtaken'[runState.by] # "evaluated"
BY DEF SessionInv, AwaitedIsCurrent, ForksOnce, Forked, ShownIsOver, Supersede, Overtaken, Waits

(* A command that supersedes shows nothing any more.                       *)
LEMMA RetireStep ==
    ASSUME SessionInv, Supersede, runState' = Idle, UNCHANGED call
    PROVE  SessionInv'
<1>1. AwaitedIsCurrent'
  BY SupersedeStep DEF AwaitedIsCurrent
<1>2. ForksOnce'
  BY SupersedeStep DEF ForksOnce, Forked
<1>3. ShownIsOver' /\ SomebodyReports'
  BY DEF ShownIsOver, SomebodyReports, Idle
<1>. QED  BY <1>1, <1>2, <1>3, SupersedeStep DEF SessionInv

LEMMA CommandStep == ASSUME SessionInv, SessionCommand  PROVE SessionInv'
<1>1. ASSUME NEW list, setSightings(list)  PROVE SessionInv'
  BY <1>1, SessionFrame DEF setSightings, Command, supersessionVars
<1>2. ASSUME NEW p, choosePolicy(p)  PROVE SessionInv'
  BY <1>2, RetireStep DEF choosePolicy, Command, retire
<1>3. ASSUME NEW row, seed(row)  PROVE SessionInv'
  BY <1>3, RetireStep DEF seed, Command, retire
<1>4. ASSUME NEW layer, setPorts(layer)  PROVE SessionInv'
  <2>1. CASE runState.tag = "Running"
    BY <1>4, <2>1, RetireStep DEF setPorts, Command, retire
  <2>2. CASE runState.tag # "Running"
    BY <1>4, <2>2, SessionFrame DEF setPorts, Command, supersessionVars
  <2>. QED  BY <2>1, <2>2
<1>5. ASSUME NEW choice, chooseSource(choice)  PROVE SessionInv'
  BY <1>5, SessionFrame DEF chooseSource, Command, supersessionVars
<1>6. CASE edit
  BY <1>6, SessionFrame DEF edit, Command, supersessionVars
<1>. QED  BY <1>1, <1>2, <1>3, <1>4, <1>5, <1>6 DEF SessionCommand

(* A call moves on without awaiting anything; the others stay.             *)
Moves(c, entry) == call' = [call EXCEPT ![c] = entry]

LEMMA MovesStep ==
    ASSUME SessionInv, NEW c \in Calls, NEW entry, Moves(c, entry)
    PROVE  /\ DOMAIN call' = Calls /\ call'[c] = entry
           /\ \A d \in Calls \ {c} : call'[d] = call[d]
BY DEF SessionInv, Moves

(* A call that has forked nothing and was not to report moves on without a *)
(* supersession, and is not awaited.                                       *)
LEMMA QuietStep ==
    ASSUME SessionInv, NEW c \in Calls, NEW entry, Moves(c, entry),
           ~WillReport(c), ~Forked(c),
           entry.pc # "awaiting",
           UNCHANGED <<runState, generation, current, overtaken>>
    PROVE  SessionInv'
<1>1. AwaitedIsCurrent'
  BY MovesStep DEF SessionInv, AwaitedIsCurrent
<1>2. ForksOnce'
  BY MovesStep DEF SessionInv, ForksOnce, Forked
<1>3. SomebodyReports'
  BY MovesStep DEF SessionInv, SomebodyReports, WillReport
<1>4. ShownIsOver'
  BY MovesStep DEF SessionInv, ShownIsOver, Forked
<1>. QED  BY <1>1, <1>2, <1>3, <1>4, MovesStep DEF SessionInv

(* A call that moves on as it supersedes the current run, and has its own  *)
(* result to report where one is shown as running.                         *)
LEMMA SupersedingStep ==
    ASSUME SessionInv, NEW c \in Calls, NEW entry, Moves(c, entry), Supersede,
           ~Forked(c), entry.pc = "reaping",
           \/ runState' = runState /\ entry.then \in {"fork", "refuse"}
           \/ runState' = IF runState.tag = "Running" THEN Idle ELSE runState
    PROVE  SessionInv'
<1>1. AwaitedIsCurrent'
  BY MovesStep, SupersedeStep DEF AwaitedIsCurrent
<1>2. ForksOnce'
  BY MovesStep, SupersedeStep DEF ForksOnce, Forked
<1>3. ShownIsOver'
  BY MovesStep, SupersedeStep DEF ShownIsOver, Forked, Idle
<1>4. SomebodyReports'
  BY MovesStep DEF SomebodyReports, WillReport, Idle
<1>. QED  BY <1>1, <1>2, <1>3, <1>4, MovesStep, SupersedeStep DEF SessionInv

(* Where a call is once it has come to reap.                               *)
LEMMA ReapMoves ==
    ASSUME NEW c, NEW parked, NEW then, NEW asked, Reap(c, parked, then, asked)
    PROVE  \E entry : Moves(c, entry) /\ entry.pc = "reaping" /\ entry.then = then
<1>. DEFINE entry == [pc |-> "reaping", parked |-> parked, then |-> then, asked |-> asked,
                      waits |-> \E f \in ToSet(parked) : fiber[f] \in {"going", "stopping"}]
<1>1. Moves(c, entry)
  BY DEF Reap, Moves
<1>2. entry.pc = "reaping" /\ entry.then = then
  OBVIOUS
<1>. QED  BY <1>1, <1>2

LEMMA StartStep ==
    ASSUME SessionInv, NEW c \in Calls, StartRun(c) \/ StartReap(c)  PROVE SessionInv'
<1>1. PICK then : Start(c, then)
  BY DEF StartRun, StartReap
<1>2. PICK entry : Moves(c, entry) /\ entry.pc = "reaping"
  BY <1>1, ReapMoves DEF Start
<1>3. ~WillReport(c) /\ ~Forked(c)
  BY <1>1 DEF Start, WillReport, Forked
<1>4. UNCHANGED <<runState, generation, current, overtaken>>
  BY <1>1 DEF Start
<1>. QED  BY <1>2, <1>3, <1>4, QuietStep

LEMMA AskStep ==
    ASSUME SessionInv, NEW c \in Calls, Ask(c)  PROVE SessionInv'
<1>1. ~WillReport(c) /\ ~Forked(c) /\ runState' = runState
  BY DEF Ask, Reaped, WillReport, Forked
<1>2. CASE policyNow = Nothing
  <2>1. Moves(c, CallAt("ended")) /\ UNCHANGED <<generation, current, overtaken>>
    BY <1>2 DEF Ask, Moves, supersessionVars
  <2>. QED  BY <1>1, <2>1, QuietStep DEF CallAt
<1>3. CASE policyNow # Nothing
  <2>1. PICK entry : Moves(c, entry) /\ entry.pc = "reaping" /\ entry.then \in {"fork", "refuse"}
    BY <1>3, ReapMoves DEF Ask
  <2>2. Supersede
    BY <1>3 DEF Ask
  <2>. QED  BY <1>1, <2>1, <2>2, SupersedingStep
<1>. QED  BY <1>2, <1>3

LEMMA DisposeStep ==
    ASSUME SessionInv, NEW c \in Calls, StartDispose(c)  PROVE SessionInv'
<1>1. PICK entry : Moves(c, entry) /\ entry.pc = "reaping"
  BY ReapMoves DEF StartDispose
<1>2. ~Forked(c) /\ Supersede /\ runState' = IF runState.tag = "Running" THEN Idle ELSE runState
  BY DEF StartDispose, Forked
<1>. QED  BY <1>1, <1>2, SupersedingStep

(* What is still reaped keeps what its call goes on to.                    *)
LEMMA ReapNextStep ==
    ASSUME SessionInv, NEW c \in Calls, ReapNext(c)  PROVE SessionInv'
<1>1. UNCHANGED <<runState, generation, current, overtaken>> /\ call[c].pc = "reaping"
  BY DEF ReapNext, supersessionVars
<1>2. /\ DOMAIN call' = Calls /\ \A d \in Calls \ {c} : call'[d] = call[d]
      /\ call'[c] = [call[c] EXCEPT !.parked = Tail(@)]
  BY DEF ReapNext, SessionInv
<1>3. call'[c].pc = call[c].pc /\ call'[c].then = call[c].then
  BY <1>2
<1>4. AwaitedIsCurrent'
  BY <1>1, <1>2, <1>3 DEF SessionInv, AwaitedIsCurrent
<1>5. ForksOnce'
  BY <1>1, <1>2, <1>3 DEF SessionInv, ForksOnce, Forked
<1>6. SomebodyReports'
  BY <1>1, <1>2, <1>3 DEF SessionInv, SomebodyReports, WillReport
<1>. QED  BY <1>1, <1>2, <1>4, <1>5, <1>6 DEF SessionInv, ShownIsOver

LEMMA EndReapStep ==
    ASSUME SessionInv, NEW c \in Calls, EndReap(c)  PROVE SessionInv'
<1>1. Moves(c, CallAt("ended")) /\ UNCHANGED <<runState, generation, current, overtaken>>
  BY DEF EndReap, Moves, supersessionVars
<1>2. ~WillReport(c) /\ ~Forked(c)
  BY DEF EndReap, Reaped, WillReport, Forked
<1>. QED  BY <1>1, <1>2, QuietStep DEF CallAt

(* A refusal is shown whatever ran.                                        *)
LEMMA RefuseStep ==
    ASSUME SessionInv, NEW c \in Calls, Refuse(c)  PROVE SessionInv'
<1>1. /\ Moves(c, CallAt("ended")) /\ runState'.tag = "Refused"
      /\ UNCHANGED <<generation, current, overtaken>>
  BY DEF Refuse, Moves, supersessionVars
<1>2. ~Forked(c)
  BY DEF Refuse, Reaped, Forked
<1>3. AwaitedIsCurrent'
  BY <1>1, MovesStep DEF SessionInv, AwaitedIsCurrent, CallAt
<1>4. ForksOnce'
  BY <1>1, <1>2, MovesStep DEF SessionInv, ForksOnce, Forked
<1>. QED  BY <1>1, <1>3, <1>4, MovesStep DEF SessionInv, ShownIsOver, SomebodyReports

(* A run is fenced by the generation it finds when it is forked.           *)
LEMMA ForkStep ==
    ASSUME SessionInv, NEW c \in Calls, Fork(c)  PROVE SessionInv'
<1>1. /\ runState'.tag = "Running" /\ current' = c
      /\ UNCHANGED <<generation, overtaken>>
  BY DEF Fork
<1>. DEFINE entry == [pc |-> "awaiting", parked |-> <<>>, mine |-> generation,
                      asked |-> call[c].asked]
<1>2. Moves(c, entry) /\ entry.pc = "awaiting" /\ entry.mine = generation
  BY DEF Fork, Moves
<1>. HIDE DEF entry
<1>3. ~Forked(c)
  BY DEF Fork, Reaped, Forked
<1>4. AwaitedIsCurrent'
  BY <1>1, <1>2, <1>3, MovesStep DEF SessionInv, AwaitedIsCurrent, ForksOnce
<1>5. ForksOnce'
  BY <1>1, <1>2, <1>3, MovesStep DEF SessionInv, ForksOnce, Forked
<1>6. SomebodyReports'
  BY <1>1, <1>2, MovesStep DEF SomebodyReports, WillReport
<1>. QED  BY <1>1, <1>2, <1>4, <1>5, <1>6, MovesStep DEF SessionInv, ShownIsOver

(* A run superseded since its fork shows nothing when it ends.             *)
LEMMA LandStep ==
    ASSUME SessionInv, NEW c \in Calls, Land(c)  PROVE SessionInv'
<1>1. /\ Moves(c, CallAt("ended")) /\ UNCHANGED <<generation, overtaken>>
      /\ call[c].pc = "awaiting"
  BY DEF Land, Moves
<1>2. AwaitedIsCurrent'
  BY <1>1, MovesStep DEF SessionInv, AwaitedIsCurrent, CallAt
<1>3. CASE call[c].mine # generation
  <2>1. UNCHANGED <<current, runState>>
    BY <1>3 DEF Land
  <2>2. ForksOnce'
    BY <1>1, <2>1, MovesStep DEF SessionInv, ForksOnce, Forked, CallAt
  <2>3. SomebodyReports'
    BY <1>1, <1>3, <2>1, MovesStep DEF SessionInv, SomebodyReports, WillReport
  <2>. QED  BY <1>1, <1>2, <2>1, <2>2, <2>3, MovesStep DEF SessionInv, ShownIsOver
<1>4. CASE call[c].mine = generation
  <2>1. current' = Nothing /\ runState'.tag \in {"Ran", "Broke"} /\ runState'.by = c
    BY <1>4 DEF Land
  <2>2. ForksOnce'
    BY <1>1, <2>1, NothingAssumption, MovesStep DEF SessionInv, ForksOnce, Forked, CallAt
  <2>3. ShownIsOver'
    BY <1>1, <1>4, <2>1, MovesStep DEF SessionInv, ShownIsOver, AwaitedIsCurrent, CallAt
  <2>. QED  BY <1>1, <1>2, <2>1, <2>2, <2>3, MovesStep DEF SessionInv, SomebodyReports
<1>. QED  BY <1>3, <1>4

LEMMA InterruptCallStep ==
    ASSUME SessionInv, NEW c \in Calls, InterruptCall(c)  PROVE SessionInv'
<1>1. /\ Moves(c, CallAt("interrupted"))
      /\ UNCHANGED <<runState, generation, current, overtaken>>
      /\ call[c].pc # "ended"
  BY DEF InterruptCall, Moves, supersessionVars
<1>2. AwaitedIsCurrent'
  BY <1>1, MovesStep DEF SessionInv, AwaitedIsCurrent, CallAt
<1>3. ForksOnce'
  BY <1>1, MovesStep DEF SessionInv, ForksOnce, Forked, CallAt
<1>4. SomebodyReports'
  BY <1>1, MovesStep DEF SessionInv, SomebodyReports, WillReport, CallAt
<1>. QED  BY <1>1, <1>2, <1>3, <1>4, MovesStep DEF SessionInv, ShownIsOver

LEMMA SessionStep == ASSUME SessionInv, [SessionNext]_sessionVars  PROVE SessionInv'
<1>1. ASSUME NEW c \in Calls, Settle(c)  PROVE SessionInv'
  BY <1>1, SessionFrame DEF Settle, supersessionVars
<1>2. CASE UNCHANGED sessionVars
  BY <1>2, SessionFrame DEF sessionVars
<1>. QED  BY <1>1, <1>2, CommandStep, StartStep, DisposeStep, ReapNextStep, EndReapStep, AskStep,
              RefuseStep, ForkStep, LandStep, InterruptCallStep DEF SessionNext, SessionCall

LEMMA SessionStarts == ASSUME SessionInit  PROVE SessionInv
BY NothingAssumption DEF SessionInit, makeSimulationSession, SessionInv, AwaitedIsCurrent,
    ForksOnce, ShownIsOver, SomebodyReports, Idle, CallAt

(* What a session shows is never the result of a run that something later  *)
(* superseded while it was evaluated (one superseded in its wait, before   *)
(* the fork, does land), and no order of commands, runs and disposals      *)
(* leaves a run shown that nobody awaits.                                  *)
(* (SimulationSession.ts:415-487, 537)                                     *)
THEOREM LastRunLands == Session => []OnlyTheLastRunLands
<1>1. SessionInit => SessionInv
  BY SessionStarts
<1>2. SessionInv /\ [SessionNext]_sessionVars => SessionInv'
  BY SessionStep
<1>3. SessionInv => OnlyTheLastRunLands
  BY DEF SessionInv, ShownIsOver, SomebodyReports, WillReport, OnlyTheLastRunLands
<1>. QED  BY <1>1, <1>2, <1>3, PTL DEF Session

-----------------------------------------------------------------------------
(* What the failures a request may meet are answered with.                 *)
LEMMA HttpTags ==
    /\ HTTP_ENFORCEMENT_TAGS = EnforcementError \cup {"SubjectExtractionFailed"}
    /\ \A t \in EnforcementError : HTTP_ENFORCEMENT_CLASSES[t] = ENFORCEMENT_ERROR_CLASSES[t]
    /\ HTTP_ENFORCEMENT_CLASSES["SubjectExtractionFailed"] = "outage"
<1>1. "SubjectExtractionFailed" \notin EnforcementError
  BY DEF EnforcementError, EvaluationError
<1>2. DOMAIN ENFORCEMENT_ERROR_CLASSES = EnforcementError
  BY DEF ENFORCEMENT_ERROR_CLASSES
<1> QED
  BY <1>1, <1>2 DEF HTTP_ENFORCEMENT_TAGS, HTTP_ENFORCEMENT_CLASSES

LEMMA DenialTags ==
    ENFORCEMENT_DENIAL_TAGS = {"AccessDenied", "UndischargedObligation"}
<1>1. \A t \in EnforcementError :
        ENFORCEMENT_ERROR_CLASSES[t] = "denied" <=>
            t \in {"AccessDenied", "UndischargedObligation"}
  BY DEF ENFORCEMENT_ERROR_CLASSES, EnforcementError, EvaluationError
<1> QED
  BY <1>1 DEF ENFORCEMENT_DENIAL_TAGS, EnforcementErrorTagOf, classifyEnforcementError,
              EnforcementError

LEMMA Statuses ==
    /\ StatusOf("AccessDenied") = 403
    /\ StatusOf("UndischargedObligation") = 403
    /\ StatusOf("AttributeResolveError") = 502
    /\ StatusOf("CustomPredicateError") = 502
    /\ StatusOf("SubjectExtractionFailed") = 502
    /\ StatusOf("PolicyTooDeep") = 500
    /\ StatusOf("MissingAction") = 500
<1>1. \A t \in EnforcementError : StatusOf(t) = HTTP_STATUS_BY_CLASS(ENFORCEMENT_ERROR_CLASSES[t])
  BY HttpTags DEF StatusOf, classifyHttpEnforcementFailure
<1>2. StatusOf("SubjectExtractionFailed") = HTTP_STATUS_BY_CLASS("outage")
  BY HttpTags DEF StatusOf, classifyHttpEnforcementFailure
<1>3. \A t \in EnforcementError : ENFORCEMENT_ERROR_CLASSES[t] =
        CASE t \in {"AccessDenied", "UndischargedObligation"} -> "denied"
          [] t \in {"MissingAction", "MissingResource", "MissingResourceId",
                      "PolicyTooDeep"} -> "wiringMistake"
          [] OTHER -> "outage"
  BY DEF ENFORCEMENT_ERROR_CLASSES
<1>4. {"AccessDenied", "UndischargedObligation", "AttributeResolveError", "CustomPredicateError",
       "PolicyTooDeep", "MissingAction"} \subseteq EnforcementError
  BY DEF EnforcementError, EvaluationError
<1>5. /\ HTTP_STATUS_BY_CLASS("denied") = 403
      /\ HTTP_STATUS_BY_CLASS("outage") = 502
      /\ HTTP_STATUS_BY_CLASS("wiringMistake") = 500
  BY DEF HTTP_STATUS_BY_CLASS
<1> HIDE DEF StatusOf, HTTP_STATUS_BY_CLASS
<1>6. /\ ENFORCEMENT_ERROR_CLASSES["AccessDenied"] = "denied"
      /\ ENFORCEMENT_ERROR_CLASSES["UndischargedObligation"] = "denied"
      /\ ENFORCEMENT_ERROR_CLASSES["AttributeResolveError"] = "outage"
      /\ ENFORCEMENT_ERROR_CLASSES["CustomPredicateError"] = "outage"
      /\ ENFORCEMENT_ERROR_CLASSES["PolicyTooDeep"] = "wiringMistake"
      /\ ENFORCEMENT_ERROR_CLASSES["MissingAction"] = "wiringMistake"
  BY <1>3, <1>4
<1> QED
  BY <1>1, <1>2, <1>4, <1>5, <1>6

(* What an endpoint's guard and its handler may answer.                    *)
Answers ==
    {"AccessDenied", "UndischargedObligation", "AttributeResolveError", "PolicyTooDeep",
     "MissingAction", "CustomPredicateError", "SubjectExtractionFailed"}

LEMMA Wires ==
    \A t \in Answers : projectHttpEnforcementFailure(t) \cap {"trace", "cause"} = {}
BY DEF Answers, projectHttpEnforcementFailure, ENFORCEMENT_ERROR_WIRE, toAccessDeniedPublic,
       AccessDenied, CustomPredicateError, AttributeResolveError, MissingAction, PolicyTooDeep

(* What a request meets first: a failed extraction, the guard's answer, or  *)
(* the handler's.                                                          *)
FirstError(request) ==
    IF extract(request) = "SubjectExtractionFailed" THEN "SubjectExtractionFailed"
    ELSE IF request.guard # "none" THEN request.guard ELSE request.handler

StatusFor(error) ==
    IF error = "none" THEN 200
    ELSE IF error \in Answers THEN StatusOf(error) ELSE Unhandled

RanAs(request) ==
    IF extract(request) = "SubjectExtractionFailed" \/ request.guard # "none"
    THEN Nobody ELSE extract(request)

LogsOf(request) ==
    IF extract(request) = "SubjectExtractionFailed" THEN <<"extraction">>
    ELSE IF request.guard # "none" THEN Denied(request.guard, "edge")
    ELSE Denied(request.handler, "handler")

AskedOf(permission, request) ==
    IF extract(request) = "SubjectExtractionFailed" THEN NoPermission ELSE permission

LEMMA AnswersAreTags ==
    /\ Answers \subseteq HTTP_ENFORCEMENT_TAGS
    /\ "none" \notin HTTP_ENFORCEMENT_TAGS /\ "handlers" \notin HTTP_ENFORCEMENT_TAGS
BY HttpTags DEF Answers, EnforcementError, EvaluationError

LEMMA RequestIs ==
    ASSUME NEW request \in Requests
    PROVE  /\ request.header \in {"absent", "basic", "token"}
           /\ request.lookup \in {"caller", "SubjectExtractionFailed"}
           /\ request.guard \in {"none", "AccessDenied", "UndischargedObligation",
                  "AttributeResolveError", "PolicyTooDeep"}
           /\ request.handler \in {"none", "AccessDenied", "MissingAction",
                  "CustomPredicateError", "SubjectExtractionFailed", "handlers"}
           /\ extract(request) \in {Anonymous, "caller", "SubjectExtractionFailed"}
           /\ extract(request) = "SubjectExtractionFailed" <=> Extracted(request) = {}
           /\ extract(request) # "SubjectExtractionFailed" =>
                  Extracted(request) = {extract(request)}
<1>1. /\ request.header \in {"absent", "basic", "token"}
      /\ request.lookup \in {"caller", "SubjectExtractionFailed"}
      /\ request.guard \in {"none", "AccessDenied", "UndischargedObligation",
                  "AttributeResolveError", "PolicyTooDeep"}
      /\ request.handler \in {"none", "AccessDenied", "MissingAction",
                  "CustomPredicateError", "SubjectExtractionFailed", "handlers"}
  <2>1. PICK h \in {"absent", "basic", "token"},
             l \in {"caller", "SubjectExtractionFailed"},
             g \in {"none", "AccessDenied", "UndischargedObligation",
                    "AttributeResolveError", "PolicyTooDeep"},
             f \in {"none", "AccessDenied", "MissingAction", "CustomPredicateError",
                    "SubjectExtractionFailed", "handlers"} :
            request = [header |-> h, lookup |-> l, guard |-> g, handler |-> f]
    BY DEF Requests
  <2>2. request.header = h /\ request.lookup = l /\ request.guard = g /\ request.handler = f
    BY <2>1
  <2> QED
    BY <2>2
<1>2. CASE request.header # "token"
  <2>1. extract(request) = Anonymous
    BY <1>2 DEF extract
  <2>2. Extracted(request) = {Anonymous}
    BY <1>2 DEF Extracted
  <2> QED
    BY <1>1, <2>1, <2>2 DEF Anonymous
<1>3. CASE request.header = "token" /\ request.lookup = "caller"
  BY <1>1, <1>3 DEF extract, Extracted, Anonymous
<1>4. CASE request.header = "token" /\ request.lookup = "SubjectExtractionFailed"
  BY <1>1, <1>4 DEF extract, Extracted, Anonymous
<1> QED
  BY <1>1, <1>2, <1>3, <1>4

LEMMA EnforceIs ==
    ASSUME NEW p, NEW request \in Requests
    PROVE  enforce(p, request) =
               Responded(RanAs(request), AskedOf(p, request), StatusFor(FirstError(request)),
                  IF FirstError(request) \in Answers
                  THEN {"tag"} \cup projectHttpEnforcementFailure(FirstError(request)) ELSE {},
                  LogsOf(request))
<1> DEFINE subject == extract(request)
           failed == subject = "SubjectExtractionFailed"
           logs == Denied(request.handler, "handler")
<1>1. Denied("none", "edge") = <<>>
  BY DenialTags DEF Denied
<1>2. <<>> \o logs = logs
  BY DEF Denied
<1>3. CASE failed
  BY <1>3, AnswersAreTags
     DEF enforce, Guarded, authorizeRequest, Reply, RanAs, AskedOf, StatusFor, FirstError, LogsOf, Answers
<1>4. CASE ~failed /\ request.guard # "none"
  <2>1. request.guard \in Answers
    BY <1>4, RequestIs DEF Answers
  <2> QED
    BY <1>4, <2>1, AnswersAreTags
       DEF enforce, Guarded, authorizeRequest, Reply, RanAs, AskedOf, StatusFor, FirstError, LogsOf
<1>5. CASE ~failed /\ request.guard = "none"
  <2>1. enforce(p, request) = Reply(request.handler, subject, p, logs, projectHttpEnforcementFailure)
    BY <1>5, <1>1, <1>2 DEF enforce, Guarded, authorizeRequest
  <2>2. request.handler \in Answers \cup {"none", "handlers"}
    BY RequestIs DEF Answers
  <2>3. "none" \notin Answers /\ "handlers" \notin Answers
    BY DEF Answers
  <2> QED
    BY <1>5, <2>1, <2>2, <2>3, AnswersAreTags
       DEF Reply, RanAs, AskedOf, StatusFor, FirstError, LogsOf
<1> QED
  BY <1>3, <1>4, <1>5

LEMMA GuardRouteIs ==
    ASSUME NEW p, NEW request \in Requests
    PROVE  /\ guardRoute(p, request).ran = RanAs(request)
           /\ guardRoute(p, request).status = StatusFor(FirstError(request))
           /\ guardRoute(p, request).logs = LogsOf(request)
           /\ guardRoute(p, request).body \subseteq {"tag"}
<1> DEFINE subject == extract(request)
           failed == subject = "SubjectExtractionFailed"
           logs == Denied(request.handler, "handler")
           bare1 == Guarded(p, request, LAMBDA tag : {})
<1>1. Denied("none", "edge") = <<>>
  BY DenialTags DEF Denied
<1>2. <<>> \o logs = logs
  BY DEF Denied
<1>6. bare1 = Responded(RanAs(request), AskedOf(p, request), StatusFor(FirstError(request)),
                  IF FirstError(request) \in Answers THEN {"tag"} ELSE {}, LogsOf(request))
  <2>3. CASE failed
    BY <2>3, AnswersAreTags
       DEF Guarded, authorizeRequest, Reply, RanAs, AskedOf, StatusFor, FirstError, LogsOf, Answers
  <2>4. CASE ~failed /\ request.guard # "none"
    <3>1. request.guard \in Answers
      BY <2>4, RequestIs DEF Answers
    <3> QED
      BY <2>4, <3>1, AnswersAreTags
         DEF Guarded, authorizeRequest, Reply, RanAs, AskedOf, StatusFor, FirstError, LogsOf
  <2>5. CASE ~failed /\ request.guard = "none"
    <3>1. bare1 = Reply(request.handler, subject, p, logs, LAMBDA tag : {})
      BY <2>5, <1>1, <1>2 DEF Guarded, authorizeRequest
    <3>2. request.handler \in Answers \cup {"none", "handlers"}
      BY RequestIs DEF Answers
    <3>3. "none" \notin Answers /\ "handlers" \notin Answers
      BY DEF Answers
    <3> QED
      BY <2>5, <3>1, <3>2, <3>3, AnswersAreTags
         DEF Reply, RanAs, AskedOf, StatusFor, FirstError, LogsOf
  <2> QED
    BY <2>3, <2>4, <2>5
<1> HIDE DEF bare1
<1>7. guardRoute(p, request) = bare1 \/ guardRoute(p, request) = [bare1 EXCEPT !.body = {}]
  BY DEF guardRoute, bare1
<1>8. /\ bare1.ran = RanAs(request) /\ bare1.status = StatusFor(FirstError(request))
      /\ bare1.logs = LogsOf(request) /\ bare1.body \subseteq {"tag"}
  BY <1>6 DEF Responded
<1>9. /\ [bare1 EXCEPT !.body = {}].ran = RanAs(request)
      /\ [bare1 EXCEPT !.body = {}].status = StatusFor(FirstError(request))
      /\ [bare1 EXCEPT !.body = {}].logs = LogsOf(request)
      /\ [bare1 EXCEPT !.body = {}].body = {}
  BY <1>6 DEF Responded
<1> QED
  BY <1>7, <1>8, <1>9

(* What an API is answered with depends on no state.                       *)
LEMMA FailuresAreTold == FailureIsNotDenial
<1> DEFINE Told(p, request) ==
      LET r == enforce(p, request)
          b == guardRoute(p, request)
          error == IF Extracted(request) = {} THEN "SubjectExtractionFailed"
                   ELSE IF request.guard # "none" THEN request.guard
                   ELSE request.handler
      IN  /\ <<r.status, r.ran, r.logs>> = <<b.status, b.ran, b.logs>>
          /\ r.status = 403 <=> error \in ENFORCEMENT_DENIAL_TAGS
          /\ r.status = 502 <=> error \in {"AttributeResolveError",
                                           "CustomPredicateError",
                                           "SubjectExtractionFailed"}
          /\ Len(r.logs) = IF error \in ENFORCEMENT_DENIAL_TAGS
                               \/ Extracted(request) = {} THEN 1 ELSE 0
          /\ (r.body \cup b.body) \cap {"trace", "cause"} = {}
<1>0. FailureIsNotDenial <=> \A p \in bare, request \in Requests : Told(p, request)
  BY DEF FailureIsNotDenial
<1> HIDE DEF Told
<1> SUFFICES ASSUME NEW p \in bare, NEW request \in Requests PROVE Told(p, request)
  BY <1>0
<1> DEFINE r == enforce(p, request)
           b == guardRoute(p, request)
           error == FirstError(request)
<1>1. error = IF Extracted(request) = {} THEN "SubjectExtractionFailed"
                     ELSE IF request.guard # "none" THEN request.guard
                     ELSE request.handler
  BY RequestIs DEF FirstError
<1>2. error \in Answers \cup {"none", "handlers"}
  BY <1>1, RequestIs DEF Answers
<1>3. /\ r.status = StatusFor(error) /\ r.ran = RanAs(request) /\ r.logs = LogsOf(request)
      /\ r.body = IF error \in Answers
                  THEN {"tag"} \cup projectHttpEnforcementFailure(error) ELSE {}
  BY EnforceIs DEF Responded
<1>4. /\ b.status = StatusFor(error) /\ b.ran = RanAs(request) /\ b.logs = LogsOf(request)
      /\ b.body \subseteq {"tag"}
  BY GuardRouteIs
<1>5. Len(LogsOf(request)) = IF error \in ENFORCEMENT_DENIAL_TAGS
                                 \/ Extracted(request) = {} THEN 1 ELSE 0
  <2>2. Len(<<"extraction">>) = 1 /\ Len(<<"edge">>) = 1 /\ Len(<<"handler">>) = 1
    OBVIOUS
  <2>3. Len(<<>>) = 0
    OBVIOUS
  <2>4. Len(Denied(request.guard, "edge"))
           = IF request.guard \in ENFORCEMENT_DENIAL_TAGS THEN 1 ELSE 0
    BY <2>2, <2>3 DEF Denied
  <2>5. Len(Denied(request.handler, "handler"))
           = IF request.handler \in ENFORCEMENT_DENIAL_TAGS THEN 1 ELSE 0
    BY <2>2, <2>3 DEF Denied
  <2>6. extract(request) = "SubjectExtractionFailed" <=> Extracted(request) = {}
    BY RequestIs
  <2> QED
    BY <2>2, <2>4, <2>5, <2>6 DEF LogsOf, FirstError
<1>6. /\ StatusFor(error) = 403 <=> error \in ENFORCEMENT_DENIAL_TAGS
      /\ StatusFor(error) = 502 <=> error \in {"AttributeResolveError",
                                             "CustomPredicateError",
                                             "SubjectExtractionFailed"}
  <2>1. "none" \notin Answers /\ "handlers" \notin Answers
    BY DEF Answers
  <2>2. CASE error = "none"
    <3> HIDE DEF error
    <3>1. StatusFor(error) = 200
      BY <2>2 DEF StatusFor
    <3> QED
      BY <2>2, <3>1, DenialTags
  <2>3. CASE error = "handlers"
    <3> HIDE DEF error
    <3>1. StatusFor(error) = 0
      BY <2>1, <2>3 DEF StatusFor, Unhandled
    <3> QED
      BY <2>3, <3>1, DenialTags
  <2>4. CASE error \in Answers
    <3> HIDE DEF error
    <3>1. StatusFor(error) = StatusOf(error)
      BY <2>1, <2>4 DEF StatusFor
    <3> QED
      BY <2>4, <3>1, Statuses, DenialTags DEF Answers
  <2> QED
    BY <1>2, <2>2, <2>3, <2>4
<1>7. (r.body \cup b.body) \cap {"trace", "cause"} = {}
  BY <1>3, <1>4, Wires
<1> HIDE DEF r, b, error
<1>8. /\ <<r.status, r.ran, r.logs>> = <<b.status, b.ran, b.logs>>
      /\ r.status = 403 <=> error \in ENFORCEMENT_DENIAL_TAGS
      /\ r.status = 502 <=> error \in {"AttributeResolveError",
                                             "CustomPredicateError",
                                             "SubjectExtractionFailed"}
      /\ Len(r.logs) = IF error \in ENFORCEMENT_DENIAL_TAGS
                                 \/ Extracted(request) = {} THEN 1 ELSE 0
  BY <1>3, <1>4, <1>5, <1>6
<1> QED
  BY <1>1, <1>7, <1>8 DEF Told, r, b, error

-----------------------------------------------------------------------------
(* What is written: endpoints and groups, each named by its place.         *)
WrittenEndpoint ==
    [name : Nat, requires : Guardable \cup {NoPermission}, public : BOOLEAN, attached : BOOLEAN]

Numbered(endpoints) ==
    /\ endpoints \in Seq(WrittenEndpoint)
    /\ \A j \in DOMAIN endpoints : endpoints[j].name = j

WrittenGroup == [name : Nat, declares : SUBSET Declarations, endpoints : Seq(WrittenEndpoint)]

WrittenApi == [name : {0}, declares : SUBSET Declarations, groups : Seq(WrittenGroup)]

NumberedApi(a) ==
    /\ a \in WrittenApi
    /\ \A i \in DOMAIN a.groups : a.groups[i].name = i /\ Numbered(a.groups[i].endpoints)

WritingOK ==
    /\ group \in WrittenGroup /\ Numbered(group.endpoints)
    /\ NumberedApi(api)
    /\ group.name = Len(api.groups) + 1

(* What guardApi answered is what it read of the API it was given.         *)
Answer(a) ==
    [of |-> a, refusal |-> walkApi(a).refusal,
     members |-> IF walkApi(a).refusal = "none" THEN walkApi(a).members ELSE {}]

GuardedOK == guarded = Unbuilt \/ \E a : NumberedApi(a) /\ guarded = Answer(a)

(* The registry lists once the bare routes and, if the API was accepted,   *)
(* the endpoints found in it.                                              *)
Accepted == guarded # Unbuilt /\ guarded.refusal = "none"

ListedOK ==
    /\ DOMAIN listed = {<<p, BareRoute>> : p \in bare}
          \cup {r \in {Registration(guarded.of, m) : m \in Found(guarded.of)} : Accepted}
    /\ \A r \in DOMAIN listed : listed[r] = 1

GuardsInv == WritingOK /\ GuardedOK /\ ListedOK

LEMMA EndpointEdits ==
    ASSUME NEW e \in WrittenEndpoint, NEW p \in Guardable
    PROVE  /\ Attach(e) \in WrittenEndpoint /\ Attach(e).name = e.name
           /\ [e EXCEPT !.requires = p] \in WrittenEndpoint
           /\ [e EXCEPT !.requires = p].name = e.name
BY DEF WrittenEndpoint, Attach

LEMMA AttachIsWritten ==
    ASSUME NEW e \in WrittenEndpoint
    PROVE  Attach(e) \in WrittenEndpoint /\ Attach(e).name = e.name
BY DEF WrittenEndpoint, Attach

LEMMA AttachAll ==
    ASSUME NEW es, Numbered(es)
    PROVE  Numbered(OfEach(es, Attach)) /\ Len(OfEach(es, Attach)) = Len(es)
<1> DEFINE at == [i \in DOMAIN es |-> Attach(es[i])]
<1>1. OfEach(es, Attach) = at
  BY DEF OfEach
<1>2. es \in Seq(WrittenEndpoint) /\ \A j \in DOMAIN es : es[j].name = j
  BY DEF Numbered
<1>3. \A j \in DOMAIN es : es[j] \in WrittenEndpoint
  BY <1>2
<1>4. \A j \in DOMAIN es : Attach(es[j]) \in WrittenEndpoint /\ Attach(es[j]).name = j
  BY <1>2, <1>3, AttachIsWritten
<1>5. at \in Seq(WrittenEndpoint) /\ Len(at) = Len(es) /\ DOMAIN at = DOMAIN es
  BY <1>2, <1>4
<1> QED
  BY <1>1, <1>4, <1>5 DEF Numbered

LEMMA AnnotateAll ==
    ASSUME NEW es, Numbered(es), NEW p \in Guardable
    PROVE  Numbered(OfEach(es, LAMBDA e : [e EXCEPT !.requires = p]))
<1> DEFINE at == [i \in DOMAIN es |-> [es[i] EXCEPT !.requires = p]]
<1>1. OfEach(es, LAMBDA e : [e EXCEPT !.requires = p]) = at
  BY DEF OfEach
<1>2. es \in Seq(WrittenEndpoint) /\ \A j \in DOMAIN es : es[j].name = j
  BY DEF Numbered
<1>3. \A j \in DOMAIN es : es[j] \in WrittenEndpoint
  BY <1>2
<1>4. \A j \in DOMAIN es : at[j] \in WrittenEndpoint /\ at[j].name = j
  BY <1>2, <1>3, EndpointEdits
<1>5. at \in Seq(WrittenEndpoint) /\ Len(at) = Len(es) /\ DOMAIN at = DOMAIN es
  <2>1. DOMAIN at = 1 .. Len(es) /\ Len(es) \in Nat
    BY <1>2
  <2> QED
    BY <2>1, <1>4, <1>2
<1> QED
  BY <1>1, <1>4, <1>5 DEF Numbered

LEMMA AnnotateOne ==
    ASSUME NEW es, Numbered(es), NEW p \in Guardable, NEW i \in DOMAIN es
    PROVE  Numbered([es EXCEPT ![i].requires = p])
<1> DEFINE at == [es EXCEPT ![i].requires = p]
<1>2. es \in Seq(WrittenEndpoint) /\ \A j \in DOMAIN es : es[j].name = j
  BY DEF Numbered
<1>3. \A j \in DOMAIN es : es[j] \in WrittenEndpoint
  BY <1>2
<1>4. DOMAIN at = DOMAIN es /\ \A j \in DOMAIN es : at[j] = es[j] \/ at[j] = [es[j] EXCEPT !.requires = p]
  BY <1>2
<1>5. \A j \in DOMAIN es : at[j] \in WrittenEndpoint /\ at[j].name = j
  BY <1>2, <1>3, <1>4, EndpointEdits
<1>6. at \in Seq(WrittenEndpoint)
  BY <1>2, <1>4, <1>5
<1> QED
  BY <1>4, <1>5, <1>6 DEF Numbered

LEMMA AppendOne ==
    ASSUME NEW es, Numbered(es), NEW e \in WrittenEndpoint, e.name = Len(es) + 1
    PROVE  Numbered(Append(es, e))
BY DEF Numbered

LEMMA GroupWith ==
    ASSUME NEW es, WritingOK, Numbered(es), group' = [group EXCEPT !.endpoints = es], api' = api
    PROVE  WritingOK'
<1>1. group' \in WrittenGroup /\ group'.endpoints = es /\ group'.name = group.name
  BY DEF WritingOK, WrittenGroup, Numbered
<1> QED
  BY <1>1 DEF WritingOK, NumberedApi

LEMMA AddEndpointWrites == WritingOK /\ AddEndpoint => WritingOK'
<1> SUFFICES ASSUME WritingOK, AddEndpoint PROVE WritingOK'
  OBVIOUS
<1> DEFINE es == group.endpoints
           E(public) == [name |-> Len(es) + 1, requires |-> NoPermission,
                         public |-> public, attached |-> FALSE]
<1>1. PICK public \in BOOLEAN : group' = [group EXCEPT !.endpoints = Append(es, E(public))]
  BY DEF AddEndpoint
<1>2. Numbered(es) /\ Len(es) \in Nat
  BY DEF WritingOK, Numbered
<1>3. E(public) \in WrittenEndpoint /\ E(public).name = Len(es) + 1
  BY <1>2 DEF WrittenEndpoint
<1>4. api' = api
  BY DEF AddEndpoint
<1> HIDE DEF es, E
<1> QED
  BY <1>1, <1>2, <1>3, <1>4, AppendOne, GroupWith

LEMMA RequiresWrites ==
    ASSUME NEW p \in Guardable, NEW i \in DOMAIN group.endpoints,
           WritingOK, requiresPermission(i, p)
    PROVE  WritingOK'
<1> DEFINE es == [group.endpoints EXCEPT ![i].requires = p]
<1>1. Numbered(es)
  BY AnnotateOne DEF WritingOK
<1>2. group' = [group EXCEPT !.endpoints = es]
  BY DEF requiresPermission, WritingOK, WrittenGroup
<1>3. api' = api
  BY DEF requiresPermission
<1> HIDE DEF es
<1> QED
  BY <1>1, <1>2, <1>3, GroupWith

LEMMA GroupMiddlewareWrites == WritingOK /\ GroupMiddleware => WritingOK'
<1> DEFINE es == OfEach(group.endpoints, Attach)
<1>1. WritingOK => Numbered(es)
  BY AttachAll DEF WritingOK
<1>2. GroupMiddleware => group' = [group EXCEPT !.endpoints = es] /\ api' = api
  BY DEF GroupMiddleware
<1> HIDE DEF es
<1> QED
  BY <1>1, <1>2, GroupWith

LEMMA AnnotateEndpointsWrites ==
    ASSUME NEW p \in Guardable, WritingOK, annotateEndpoints(p)
    PROVE  WritingOK'
<1> DEFINE es == OfEach(group.endpoints, LAMBDA e : [e EXCEPT !.requires = p])
<1>1. Numbered(es)
  BY AnnotateAll DEF WritingOK
<1>2. group' = [group EXCEPT !.endpoints = es] /\ api' = api
  BY DEF annotateEndpoints
<1> HIDE DEF es
<1> QED
  BY <1>1, <1>2, GroupWith

LEMMA AnnotationsWrite ==
    ASSUME NEW key \in Declarations, WritingOK, AnnotateGroup(key) \/ AnnotateApi(key)
    PROVE  WritingOK'
<1>1. CASE AnnotateGroup(key)
  <2>1. group' \in WrittenGroup /\ group'.endpoints = group.endpoints /\ group'.name = group.name
    BY <1>1 DEF AnnotateGroup, WritingOK, WrittenGroup
  <2>2. api' = api
    BY <1>1 DEF AnnotateGroup
  <2> QED
    BY <2>1, <2>2 DEF WritingOK
<1>2. CASE AnnotateApi(key)
  <2>1. api' \in WrittenApi /\ api'.groups = api.groups
    BY <1>2 DEF AnnotateApi, WritingOK, NumberedApi, WrittenApi
  <2>2. group' = group
    BY <1>2 DEF AnnotateApi
  <2> QED
    BY <2>1, <2>2 DEF WritingOK, NumberedApi
<1> QED
  BY <1>1, <1>2

LEMMA AddGroupWrites == WritingOK /\ AddGroup => WritingOK'
<1> SUFFICES ASSUME WritingOK, AddGroup PROVE WritingOK'
  OBVIOUS
<1> DEFINE gs == api.groups
<1>1. /\ group \in WrittenGroup /\ Numbered(group.endpoints) /\ group.name = Len(gs) + 1
      /\ gs \in Seq(WrittenGroup) /\ Len(gs) \in Nat
      /\ \A i \in DOMAIN gs : gs[i].name = i /\ Numbered(gs[i].endpoints)
  BY DEF WritingOK, NumberedApi, WrittenApi
<1>2. api' \in WrittenApi /\ api'.groups = Append(gs, group)
  <2> DEFINE hs == Append(gs, group)
  <2>1. hs \in Seq(WrittenGroup)
    BY <1>1
  <2>2. api' = [api EXCEPT !.groups = hs]
    BY DEF AddGroup
  <2>3. api \in WrittenApi
    BY DEF WritingOK, NumberedApi
  <2> HIDE DEF hs
  <2>4. api' \in WrittenApi /\ api'.groups = hs
    BY <2>1, <2>2, <2>3 DEF WrittenApi
  <2> QED
    BY <2>4 DEF hs
<1>3. group' = NewGroup(Len(gs) + 2)
  BY DEF AddGroup
<1> HIDE DEF gs
<1>4. \A i \in DOMAIN Append(gs, group) :
         Append(gs, group)[i].name = i /\ Numbered(Append(gs, group)[i].endpoints)
  BY <1>1
<1>5. Len(Append(gs, group)) = Len(gs) + 1
  BY <1>1
<1>6. /\ NewGroup(Len(gs) + 2) \in WrittenGroup
      /\ NewGroup(Len(gs) + 2).name = Len(gs) + 2
      /\ NewGroup(Len(gs) + 2).endpoints = <<>>
  BY <1>1 DEF NewGroup, WrittenGroup
<1>7. Numbered(<<>>)
  BY DEF Numbered
<1> QED
  BY <1>1, <1>2, <1>3, <1>4, <1>5, <1>6, <1>7 DEF WritingOK, NumberedApi

LEMMA ApiMiddlewareWrites == WritingOK /\ ApiMiddleware => WritingOK'
<1> SUFFICES ASSUME WritingOK, ApiMiddleware PROVE WritingOK'
  OBVIOUS
<1> DEFINE gs == api.groups
           G(i) == [gs[i] EXCEPT !.endpoints = OfEach(gs[i].endpoints, Attach)]
           hs == [i \in DOMAIN gs |-> G(i)]
<1>1. /\ gs \in Seq(WrittenGroup) /\ Len(gs) \in Nat
      /\ \A i \in DOMAIN gs : gs[i].name = i /\ Numbered(gs[i].endpoints)
  BY DEF WritingOK, NumberedApi, WrittenApi
<1>2. group' = group /\ api' = [api EXCEPT !.groups = hs]
  BY DEF ApiMiddleware, OfEach
<1>3. \A i \in DOMAIN gs : /\ G(i) \in WrittenGroup /\ G(i).name = i
                           /\ Numbered(G(i).endpoints)
  <2> TAKE i \in DOMAIN gs
  <2> DEFINE es == OfEach(gs[i].endpoints, Attach)
  <2>1. gs[i] \in WrittenGroup /\ gs[i].name = i /\ Numbered(es)
    BY <1>1, AttachAll
  <2>2. es \in Seq(WrittenEndpoint)
    BY <2>1 DEF Numbered
  <2>3. G(i) = [gs[i] EXCEPT !.endpoints = es]
    OBVIOUS
  <2> HIDE DEF es, G
  <2>4. G(i) \in WrittenGroup /\ G(i).name = gs[i].name /\ G(i).endpoints = es
    BY <2>1, <2>2, <2>3 DEF WrittenGroup
  <2> QED
    BY <2>1, <2>4
<1> HIDE DEF G
<1>4. hs \in Seq(WrittenGroup) /\ Len(hs) = Len(gs) /\ DOMAIN hs = DOMAIN gs
      /\ \A i \in DOMAIN gs : hs[i] = G(i)
  BY <1>1, <1>3
<1> HIDE DEF hs
<1>5. api' \in WrittenApi /\ api'.groups = hs
  BY <1>2, <1>4 DEF WritingOK, NumberedApi, WrittenApi
<1> QED
  BY <1>2, <1>3, <1>4, <1>5 DEF WritingOK, NumberedApi

-----------------------------------------------------------------------------
(* A place of an API is an endpoint's name, and no bare route's.           *)
LEMMA PlacesAreNames ==
    ASSUME NEW a, NumberedApi(a), NEW m \in Places(a)
    PROVE  /\ NameAt(a, m) = m /\ m # BareRoute
           /\ m[1] \in DOMAIN a.groups /\ m[2] \in DOMAIN a.groups[m[1]].endpoints
           /\ m = <<m[1], m[2]>>
<1>1. PICK i \in DOMAIN a.groups : \E j \in DOMAIN a.groups[i].endpoints : m = <<i, j>>
  BY DEF Places
<1>2. PICK j \in DOMAIN a.groups[i].endpoints : m = <<i, j>>
  BY <1>1
<1>3. a.groups[i].name = i /\ a.groups[i].endpoints[j].name = j
  BY DEF NumberedApi, Numbered
<1>4. i \in Nat \ {0}
  BY DEF NumberedApi, WrittenApi
<1> QED
  BY <1>2, <1>3, <1>4 DEF NameAt, EndpointAt, BareRoute

LEMMA AnswerIsBuilt ==
    ASSUME NEW a
    PROVE  /\ Answer(a) # Unbuilt /\ Answer(a).of = a
           /\ Answer(a).refusal = walkApi(a).refusal
           /\ Answer(a).refusal = "none" => Answer(a).members = MembersOf(a)
<1>1. walkApi(a).refusal # "unbuilt"
  BY DEF walkApi
<1>2. walkApi(a).members = MembersOf(a)
  BY DEF walkApi
<1> QED
  BY <1>1, <1>2 DEF Answer, Unbuilt

(* Each endpoint found is listed once, whatever else is.                   *)
LEMMA RegistersOnce ==
    ASSUME NEW a, NumberedApi(a), NEW data,
           \A r \in DOMAIN data : r[2] = BareRoute /\ data[r] = 1
    PROVE  LET all == Registered(data, a, Found(a))
               new == {Registration(a, m) : m \in Found(a)}
           IN  /\ DOMAIN all = DOMAIN data \cup new
               /\ \A r \in DOMAIN all : all[r] = 1
<1> DEFINE found == Found(a)
           new == {Registration(a, m) : m \in found}
           Times(r) == Cardinality({m \in found : Registration(a, m) = r})
           bag == [r \in new |-> Times(r)]
<1>1. \A m \in found : m \in Places(a)
  BY DEF Found
<1>2. \A m \in found : Registration(a, m) = <<EndpointAt(a, m).requires, m>> /\ m # BareRoute
  BY <1>1, PlacesAreNames DEF Registration
<1>3. \A m \in found : Times(Registration(a, m)) = 1
  <2> TAKE n \in found
  <2>1. {m \in found : Registration(a, m) = Registration(a, n)} = {n}
    BY <1>2
  <2> QED
    BY <2>1, FS_Singleton
<1>4. \A r \in new : r[2] # BareRoute /\ bag[r] = 1
  BY <1>2, <1>3
<1>5. Registered(data, a, found) = data (+) bag
  BY DEF Registered
<1>6. DOMAIN bag = new
  OBVIOUS
<1> HIDE DEF new, Times, bag, found
<1>7. DOMAIN (data (+) bag) = DOMAIN data \cup new
  BY <1>6 DEF (+)
<1>8. \A r \in DOMAIN data : (data (+) bag)[r] = 1
  BY <1>4, <1>6 DEF (+)
<1>9. \A r \in new : (data (+) bag)[r] = 1
  BY <1>4, <1>6 DEF (+)
<1> QED
  BY <1>5, <1>7, <1>8, <1>9 DEF new, found

LEMMA GuardApiAnswers ==
    ASSUME GuardsInv, guardApi
    PROVE  GuardedOK' /\ ListedOK'
<1>1. NumberedApi(api) /\ guarded = Unbuilt /\ ~Accepted
  BY DEF GuardsInv, WritingOK, guardApi, Accepted
<1>2. guarded' = Answer(api) /\ bare' = bare
  BY DEF guardApi, Answer
<1>3. /\ DOMAIN listed = {<<p, BareRoute>> : p \in bare}
      /\ \A r \in DOMAIN listed : listed[r] = 1
  BY <1>1 DEF GuardsInv, ListedOK
<1>4. /\ guarded' # Unbuilt /\ guarded'.of = api
      /\ guarded'.refusal = walkApi(api).refusal
  BY <1>2, AnswerIsBuilt
<1>5. GuardedOK'
  BY <1>1, <1>2 DEF GuardedOK
<1> DEFINE new == {Registration(api, m) : m \in Found(api)}
           all == Registered(listed, api, Found(api))
<1>6. CASE walkApi(api).refusal # "none"
  <2>1. listed' = listed /\ ~Accepted'
    BY <1>4, <1>6 DEF guardApi, Accepted
  <2> QED
    BY <1>2, <1>3, <1>5, <2>1 DEF ListedOK
<1>7. CASE walkApi(api).refusal = "none"
  <2>1. listed' = all
    BY <1>7 DEF guardApi, walkApi
  <2>2. Accepted'
    BY <1>4, <1>7 DEF Accepted
  <2>3. \A r \in DOMAIN listed : r[2] = BareRoute /\ listed[r] = 1
    BY <1>3
  <2>4. DOMAIN all = DOMAIN listed \cup new /\ \A r \in DOMAIN all : all[r] = 1
    BY <1>1, <2>3, RegistersOnce
  <2> HIDE DEF all
  <2>5. new = {r \in {Registration(guarded'.of, m) : m \in Found(guarded'.of)} : Accepted'}
    BY <1>4, <2>2
  <2> HIDE DEF new
  <2> QED
    BY <1>2, <1>3, <1>5, <2>1, <2>4, <2>5 DEF ListedOK
<1> QED
  BY <1>6, <1>7

LEMMA AddGuardedRouteLists ==
    ASSUME GuardsInv, NEW p \in Guardable, addGuardedRoute(p)
    PROVE  GuardedOK' /\ ListedOK'
<1> DEFINE route == <<p, BareRoute>>
           found == {r \in {Registration(guarded.of, m) : m \in Found(guarded.of)} : Accepted}
<1>1. /\ p \notin bare /\ bare' = bare \cup {p} /\ guarded' = guarded
      /\ listed' = listed (+) SetToBag({route})
  BY DEF addGuardedRoute, addDescriptor
<1>2. /\ DOMAIN listed = {<<q, BareRoute>> : q \in bare} \cup found
      /\ \A r \in DOMAIN listed : listed[r] = 1
  BY DEF GuardsInv, ListedOK
<1>3. \A r \in found : r[2] # BareRoute
  <2> SUFFICES ASSUME NEW r \in found PROVE r[2] # BareRoute
    OBVIOUS
  <2>1. PICK m \in Found(guarded.of) : r = Registration(guarded.of, m)
    OBVIOUS
  <2>2. PICK a : NumberedApi(a) /\ guarded = Answer(a)
    BY DEF GuardsInv, GuardedOK, Accepted
  <2>3. guarded.of = a
    BY <2>2, AnswerIsBuilt
  <2>4. m \in Places(a)
    BY <2>3 DEF Found
  <2> QED
    BY <2>1, <2>2, <2>3, <2>4, PlacesAreNames DEF Registration
<1>4. found' = found
  BY <1>1 DEF Accepted
<1> HIDE DEF found
<1>5. route \notin DOMAIN listed
  BY <1>1, <1>2, <1>3
<1>6. /\ DOMAIN listed' = DOMAIN listed \cup {route}
      /\ \A r \in DOMAIN listed' : listed'[r] = 1
  BY <1>1, <1>2, <1>5 DEF (+), SetToBag
<1>7. DOMAIN listed' = {<<q, BareRoute>> : q \in bare'} \cup found'
  BY <1>1, <1>2, <1>4, <1>6
<1> QED
  BY <1>1, <1>6, <1>7 DEF GuardsInv, GuardedOK, ListedOK, found

LEMMA NothingListed ==
    ASSUME GuardsInv, UNCHANGED <<guarded, listed, bare>>
    PROVE  GuardedOK' /\ ListedOK'
BY DEF GuardsInv, GuardedOK, ListedOK, Accepted

LEMMA GuardsInvInitially == GuardsInit => GuardsInv
<1> SUFFICES ASSUME GuardsInit PROVE GuardsInv
  OBVIOUS
<1>1. Numbered(<<>>)
  BY DEF Numbered
<1>2. group \in WrittenGroup /\ group.endpoints = <<>> /\ group.name = 1
  BY DEF GuardsInit, NewGroup, WrittenGroup
<1>3. api \in WrittenApi /\ api.groups = <<>>
  BY DEF GuardsInit, WrittenApi
<1>4. WritingOK
  BY <1>1, <1>2, <1>3 DEF WritingOK, NumberedApi
<1>5. GuardedOK /\ ~Accepted
  BY DEF GuardsInit, GuardedOK, Accepted
<1>6. DOMAIN listed = {} /\ bare = {}
  BY DEF GuardsInit, EmptyBag, SetToBag
<1> QED
  BY <1>4, <1>5, <1>6 DEF GuardsInv, ListedOK

LEMMA GuardsInvHolds == GuardsInv /\ [GuardsNext]_guardVars => GuardsInv'
<1> SUFFICES ASSUME GuardsInv, [GuardsNext]_guardVars PROVE GuardsInv'
  OBVIOUS
<1>0. WritingOK
  BY DEF GuardsInv
<1>1. CASE AddEndpoint \/ GroupMiddleware \/ AddGroup \/ ApiMiddleware
  <2>1. WritingOK'
    BY <1>0, <1>1, AddEndpointWrites, GroupMiddlewareWrites, AddGroupWrites, ApiMiddlewareWrites
  <2>2. UNCHANGED <<guarded, listed, bare>>
    BY <1>1 DEF AddEndpoint, GroupMiddleware, AddGroup, ApiMiddleware
  <2> QED
    BY <2>1, <2>2, NothingListed DEF GuardsInv
<1>2. CASE guardApi
  <2>1. WritingOK'
    BY <1>0, <1>2 DEF guardApi, WritingOK, NumberedApi
  <2> QED
    BY <1>2, <2>1, GuardApiAnswers DEF GuardsInv
<1>3. ASSUME NEW p \in Guardable, annotateEndpoints(p)
      PROVE  GuardsInv'
  <2>1. WritingOK'
    BY <1>0, <1>3, AnnotateEndpointsWrites
  <2>2. UNCHANGED <<guarded, listed, bare>>
    BY <1>3 DEF annotateEndpoints
  <2> QED
    BY <2>1, <2>2, NothingListed DEF GuardsInv
<1>4. ASSUME NEW p \in Guardable, addGuardedRoute(p)
      PROVE  GuardsInv'
  <2>1. WritingOK'
    BY <1>0, <1>4 DEF addGuardedRoute, WritingOK, NumberedApi
  <2> QED
    BY <1>4, <2>1, AddGuardedRouteLists DEF GuardsInv
<1>5. ASSUME NEW p \in Guardable, NEW i \in DOMAIN group.endpoints, requiresPermission(i, p)
      PROVE  GuardsInv'
  <2>1. WritingOK'
    BY <1>0, <1>5, RequiresWrites
  <2>2. UNCHANGED <<guarded, listed, bare>>
    BY <1>5 DEF requiresPermission
  <2> QED
    BY <2>1, <2>2, NothingListed DEF GuardsInv
<1>6. ASSUME NEW key \in Declarations, AnnotateGroup(key) \/ AnnotateApi(key)
      PROVE  GuardsInv'
  <2>1. WritingOK'
    BY <1>0, <1>6, AnnotationsWrite
  <2>2. UNCHANGED <<guarded, listed, bare>>
    BY <1>6 DEF AnnotateGroup, AnnotateApi
  <2> QED
    BY <2>1, <2>2, NothingListed DEF GuardsInv
<1>7. CASE UNCHANGED guardVars
  <2>1. WritingOK'
    BY <1>0, <1>7 DEF guardVars, WritingOK, NumberedApi
  <2> QED
    BY <1>7, <2>1, NothingListed DEF GuardsInv, guardVars
<1> QED
  BY <1>1, <1>2, <1>3, <1>4, <1>5, <1>6, <1>7 DEF GuardsNext

-----------------------------------------------------------------------------
(* An endpoint of an API and its place.                                    *)
LEMMA EndpointsHavePlaces ==
    ASSUME NEW a, NumberedApi(a)
    PROVE  /\ \A m \in EndpointsOf(a) : \E n \in Places(a) :
                  /\ m = <<a.groups[n[1]], EndpointAt(a, n)>>
                  /\ <<m[1].name, m[2].name>> = n
           /\ \A n \in Places(a) : <<a.groups[n[1]], EndpointAt(a, n)>> \in EndpointsOf(a)
<1>1. ASSUME NEW m \in EndpointsOf(a)
      PROVE  \E n \in Places(a) : /\ m = <<a.groups[n[1]], EndpointAt(a, n)>>
                                  /\ <<m[1].name, m[2].name>> = n
  <2>1. PICK i \in DOMAIN a.groups : \E e \in ToSet(a.groups[i].endpoints) : m = <<a.groups[i], e>>
    BY <1>1 DEF EndpointsOf, ToSet
  <2>2. PICK j \in DOMAIN a.groups[i].endpoints : m = <<a.groups[i], a.groups[i].endpoints[j]>>
    BY <2>1 DEF ToSet
  <2>3. <<i, j>> \in Places(a)
    BY DEF Places
  <2>4. NameAt(a, <<i, j>>) = <<i, j>>
    BY <2>3, PlacesAreNames
  <2> QED
    BY <2>2, <2>3, <2>4 DEF NameAt, EndpointAt
<1>2. ASSUME NEW n \in Places(a)
      PROVE  <<a.groups[n[1]], EndpointAt(a, n)>> \in EndpointsOf(a)
  <2>1. n[1] \in DOMAIN a.groups /\ n[2] \in DOMAIN a.groups[n[1]].endpoints
    BY PlacesAreNames
  <2> DEFINE g == a.groups[n[1]]
             e == g.endpoints[n[2]]
  <2>2. g \in ToSet(a.groups) /\ e \in ToSet(g.endpoints)
    BY <2>1 DEF ToSet
  <2>3. e = EndpointAt(a, n)
    BY DEF EndpointAt
  <2> HIDE DEF g, e
  <2>4. <<g, e>> \in EndpointsOf(a)
    BY <2>2 DEF EndpointsOf
  <2> QED
    BY <2>3, <2>4 DEF g
<1> QED
  BY <1>1, <1>2

(* What a request to an endpoint of an API that was accepted is answered   *)
(* with, whatever the endpoint is.                                         *)
LEMMA AcceptedIsServed ==
    ASSUME NEW a, NumberedApi(a), walkApi(a).refusal = "none",
           NEW n \in Places(a), NEW request
    PROVE  LET g == a.groups[n[1]]
               e == EndpointAt(a, n)
               s == Serve(MembersOf(a), g, e, request)
           IN  /\ e.attached
               /\ e.requires # NoPermission => s = enforce(e.requires, request)
               /\ e.requires = NoPermission /\ e.public =>
                      s.asks = NoPermission /\ s.ran = Anonymous
               /\ e.requires = NoPermission /\ ~e.public =>
                      s.asks = NoPermission /\ s.ran = Nobody
<1> DEFINE g == a.groups[n[1]]
           e == EndpointAt(a, n)
           s == Serve(MembersOf(a), g, e, request)
<1>1. Unattached(a) = {} /\ ~Misplaced(a)
  BY DEF walkApi
<1>2. e.attached
  BY <1>1 DEF Unattached
<1>3. g \in ToSet(a.groups)
  BY PlacesAreNames DEF ToSet
<1>4. misplacedDeclarations(g) = {}
  BY <1>1, <1>3 DEF Misplaced
<1>5. <<g.name, e.name>> \in MembersOf(a)
  BY DEF MembersOf, NameAt
<1> HIDE DEF g, e
<1>6. s = IF endpointAccess(e) = "Undeclared" THEN refuse
          ELSE IF endpointAccess(e) = "Required" THEN enforce(e.requires, request)
          ELSE Responded(Anonymous, NoPermission,
                   IF request.handler = "none" THEN 200 ELSE Unhandled, {}, <<>>)
  BY <1>2, <1>4, <1>5 DEF Serve, middleware
<1>7. endpointAccess(e) = IF e.requires # NoPermission THEN "Required"
                          ELSE IF e.public THEN "Public" ELSE "Undeclared"
  BY DEF endpointAccess
<1> HIDE DEF s
<1>8. CASE e.requires # NoPermission
  BY <1>2, <1>6, <1>7, <1>8 DEF s, g, e
<1>9. CASE e.requires = NoPermission /\ e.public
  <2>1. s = Responded(Anonymous, NoPermission,
                   IF request.handler = "none" THEN 200 ELSE Unhandled, {}, <<>>)
    BY <1>6, <1>7, <1>9
  <2>2. s.asks = NoPermission /\ s.ran = Anonymous
    BY <2>1 DEF Responded
  <2> QED
    BY <1>2, <1>9, <2>2 DEF s, g, e
<1>10. CASE e.requires = NoPermission /\ ~e.public
  <2>1. s = refuse
    BY <1>6, <1>7, <1>10
  <2>2. s.asks = NoPermission /\ s.ran = Nobody
    BY <2>1 DEF refuse, Responded
  <2> QED
    BY <1>2, <1>10, <2>2 DEF s, g, e
<1> QED
  BY <1>8, <1>9, <1>10

LEMMA AnyoneAsks == \E request \in Requests :
    request.guard = "AccessDenied" /\ extract(request) # "SubjectExtractionFailed"
<1> DEFINE q == [header |-> "absent", lookup |-> "caller", guard |-> "AccessDenied",
                 handler |-> "none"]
<1>1. q \in Requests
  BY DEF Requests
<1>2. extract(q) = Anonymous /\ q.guard = "AccessDenied"
  BY DEF extract
<1> QED
  BY <1>1, <1>2 DEF Anonymous

LEMMA EnforceAsks ==
    ASSUME NEW p, NEW request \in Requests
    PROVE  /\ enforce(p, request).asks = AskedOf(p, request)
           /\ enforce(p, request).ran = RanAs(request)
BY EnforceIs DEF Responded

(* A permission is asked of the guard at the endpoints found for it, and   *)
(* nowhere else.                                                           *)
LEMMA AskedWhereFound ==
    ASSUME NEW a, NumberedApi(a), walkApi(a).refusal = "none",
           NEW members, members = MembersOf(a), NEW p \in Guardable
    PROVE  {<<m[1].name, m[2].name>> : m \in {n \in EndpointsOf(a) :
                \E request \in Requests :
                    request.guard = "AccessDenied" /\ Serve(members, n[1], n[2], request).asks = p}}
             = {n \in Found(a) : EndpointAt(a, n).requires = p}
<1> DEFINE Asks(g, e) == \E request \in Requests :
              request.guard = "AccessDenied" /\ Serve(members, g, e, request).asks = p
           asked == {m \in EndpointsOf(a) : Asks(m[1], m[2])}
           names == {<<m[1].name, m[2].name>> : m \in asked}
           found == {n \in Found(a) : EndpointAt(a, n).requires = p}
<1>0. p # NoPermission
  BY GuardableAssumption
<1>1. \A n \in Found(a) : n \in Places(a)
  BY DEF Found
<1>2. ASSUME NEW n \in Places(a)
      PROVE  Asks(a.groups[n[1]], EndpointAt(a, n)) <=> EndpointAt(a, n).requires = p
  <2> DEFINE g == a.groups[n[1]]
             e == EndpointAt(a, n)
  <2>1. CASE e.requires = p
    <3>1. PICK q \in Requests :
             q.guard = "AccessDenied" /\ extract(q) # "SubjectExtractionFailed"
      BY AnyoneAsks
    <3>2. Serve(members, g, e, q) = enforce(p, q)
      BY <1>0, <2>1, AcceptedIsServed
    <3>3. enforce(p, q).asks = p
      BY <3>1, EnforceAsks DEF AskedOf
    <3> QED
      BY <2>1, <3>1, <3>2, <3>3
  <2>2. CASE e.requires # p
    <3>1. ASSUME NEW q \in Requests
          PROVE  Serve(members, g, e, q).asks # p
      <4>1. CASE e.requires # NoPermission
        <5>1. Serve(members, g, e, q) = enforce(e.requires, q)
          BY <4>1, AcceptedIsServed
        <5>2. enforce(e.requires, q).asks \in {e.requires, NoPermission}
          BY EnforceAsks DEF AskedOf
        <5> QED
          BY <1>0, <2>2, <5>1, <5>2
      <4>2. CASE e.requires = NoPermission
        <5>1. e.public \in BOOLEAN
          <6>1. n[1] \in DOMAIN a.groups /\ n[2] \in DOMAIN a.groups[n[1]].endpoints
            BY PlacesAreNames
          <6>2. Numbered(a.groups[n[1]].endpoints)
            BY <6>1 DEF NumberedApi
          <6>3. e \in WrittenEndpoint
            BY <6>1, <6>2 DEF Numbered, EndpointAt
          <6> QED
            BY <6>3 DEF WrittenEndpoint
        <5>2. Serve(members, g, e, q).asks = NoPermission
          BY <4>2, <5>1, AcceptedIsServed
        <5> QED
          BY <1>0, <5>2
      <4> QED
        BY <4>1, <4>2
    <3> QED
      BY <2>2, <3>1
  <2> QED
    BY <2>1, <2>2
<1>3. \A n \in Places(a) : EndpointAt(a, n).requires = p => n \in Found(a)
  <2> TAKE n \in Places(a)
  <2> HAVE EndpointAt(a, n).requires = p
  <2>1. EndpointAt(a, n).attached
    BY AcceptedIsServed
  <2>2. endpointAccess(EndpointAt(a, n)) = "Required"
    BY <1>0 DEF endpointAccess
  <2> QED
    BY <2>1, <2>2 DEF Found
<1> HIDE DEF Asks
<1>4. names \subseteq found
  <2> SUFFICES ASSUME NEW m \in asked PROVE <<m[1].name, m[2].name>> \in found
    OBVIOUS
  <2>1. m \in EndpointsOf(a) /\ Asks(m[1], m[2])
    OBVIOUS
  <2>2. PICK n \in Places(a) : /\ m = <<a.groups[n[1]], EndpointAt(a, n)>>
                               /\ <<m[1].name, m[2].name>> = n
    BY <2>1, EndpointsHavePlaces
  <2>3. m[1] = a.groups[n[1]] /\ m[2] = EndpointAt(a, n)
    BY <2>2
  <2> QED
    BY <1>2, <1>3, <2>1, <2>2, <2>3
<1>5. found \subseteq names
  <2> SUFFICES ASSUME NEW n \in found PROVE n \in names
    OBVIOUS
  <2> DEFINE m == <<a.groups[n[1]], EndpointAt(a, n)>>
  <2>1. n \in Places(a) /\ EndpointAt(a, n).requires = p
    BY <1>1
  <2>2. m \in EndpointsOf(a)
    BY <2>1, EndpointsHavePlaces
  <2>3. m[1] = a.groups[n[1]] /\ m[2] = EndpointAt(a, n)
    OBVIOUS
  <2>4. <<m[1].name, m[2].name>> = n
    BY <2>1, <2>3, PlacesAreNames DEF NameAt
  <2>5. Asks(m[1], m[2])
    BY <1>2, <2>1, <2>3
  <2> QED
    BY <2>2, <2>4, <2>5
<1>6. names = found
  BY <1>4, <1>5
<1> QED
  BY <1>6 DEF Asks

(* A handler that runs runs as someone it was extracted as and the guard   *)
(* let through, or as anonymous where that is declared.                    *)
LEMMA HandlersRunAsAllowed ==
    ASSUME NEW a, NumberedApi(a), walkApi(a).refusal = "none",
           NEW members, members = MembersOf(a),
           NEW m \in EndpointsOf(a), NEW request \in Requests,
           Serve(members, m[1], m[2], request).ran # Nobody
    PROVE  \/ /\ m[2].requires # NoPermission
              /\ request.guard = "none"
              /\ Serve(members, m[1], m[2], request).ran \in Extracted(request)
           \/ /\ m[2].requires = NoPermission /\ m[2].public
              /\ Serve(members, m[1], m[2], request).ran = Anonymous
<1> DEFINE ran == Serve(members, m[1], m[2], request).ran
<1>1. PICK n \in Places(a) : m = <<a.groups[n[1]], EndpointAt(a, n)>>
  BY EndpointsHavePlaces
<1>2. m[1] = a.groups[n[1]] /\ m[2] = EndpointAt(a, n)
  BY <1>1
<1>3. /\ m[2].requires # NoPermission =>
             ran = enforce(m[2].requires, request).ran
      /\ m[2].requires = NoPermission /\ m[2].public => ran = Anonymous
      /\ m[2].requires = NoPermission /\ ~m[2].public => ran = Nobody
  BY <1>2, AcceptedIsServed
<1>4. enforce(m[2].requires, request).ran = RanAs(request)
  BY EnforceAsks
<1>5. RanAs(request) # Nobody =>
         request.guard = "none" /\ RanAs(request) \in Extracted(request)
  BY RequestIs DEF RanAs
<1> HIDE DEF ran
<1>6. ran # Nobody
  BY DEF ran
<1>7. \/ /\ m[2].requires # NoPermission
         /\ request.guard = "none"
         /\ ran \in Extracted(request)
      \/ /\ m[2].requires = NoPermission /\ m[2].public
         /\ ran = Anonymous
  BY <1>3, <1>4, <1>5, <1>6
<1> QED
  BY <1>7 DEF ran

LEMMA ListedRightly == GuardsInv => ListedAreEnforced
<1> SUFFICES ASSUME GuardsInv, guarded # Unbuilt PROVE ListedAreEnforced
  BY DEF ListedAreEnforced
<1>1. PICK a : NumberedApi(a) /\ guarded = Answer(a)
  BY DEF GuardsInv, GuardedOK
<1>2. /\ guarded.of = a /\ guarded.refusal = walkApi(a).refusal
      /\ guarded.refusal = "none" => guarded.members = MembersOf(a)
  BY <1>1, AnswerIsBuilt
<1>3. /\ DOMAIN listed = {<<p, BareRoute>> : p \in bare}
            \cup {r \in {Registration(a, m) : m \in Found(a)} : guarded.refusal = "none"}
      /\ \A r \in DOMAIN listed : listed[r] = 1
  BY <1>2 DEF GuardsInv, ListedOK, Accepted
<1> DEFINE At(m, request) == Serve(guarded.members, m[1], m[2], request)
           Name(m) == <<m[1].name, m[2].name>>
           Enforced(p) == {Name(m) : m \in {n \in EndpointsOf(guarded.of) :
                           \E request \in Requests :
                               request.guard = "AccessDenied" /\ At(n, request).asks = p}}
           Under(p) == {r[2] : r \in {l \in DOMAIN listed : l[1] = p}}
           BareOf(p) == {BareRoute : q \in bare \cap {p}}
<1>4. ASSUME NEW p \in Guardable
      PROVE  Under(p) = BareOf(p) \cup IF guarded.refusal = "none" THEN Enforced(p) ELSE {}
  <2>1. CASE guarded.refusal = "none"
    <3>0. /\ NumberedApi(guarded.of) /\ walkApi(guarded.of).refusal = "none"
          /\ guarded.members = MembersOf(guarded.of)
      BY <1>1, <1>2, <2>1
    <3>1. Enforced(p) = {n \in Found(guarded.of) : EndpointAt(guarded.of, n).requires = p}
      BY <3>0, AskedWhereFound
    <3>2. \A n \in Found(a) : Registration(a, n) = <<EndpointAt(a, n).requires, n>>
      BY <1>1, PlacesAreNames DEF Found, Registration
    <3>3. DOMAIN listed = {<<q, BareRoute>> : q \in bare}
             \cup {<<EndpointAt(a, n).requires, n>> : n \in Found(a)}
      BY <1>3, <2>1, <3>2
    <3> DEFINE found == {n \in Found(a) : EndpointAt(a, n).requires = p}
    <3>4. \A x : x \in Under(p) <=> <<p, x>> \in DOMAIN listed
      <4>1. \A l \in DOMAIN listed : l = <<l[1], l[2]>>
        BY <3>3
      <4> QED
        BY <4>1
    <3>5. \A x : <<p, x>> \in DOMAIN listed <=> x \in BareOf(p) \/ x \in found
      BY <3>3
    <3>6. found = {n \in Found(guarded.of) : EndpointAt(guarded.of, n).requires = p}
      BY <1>2
    <3> HIDE DEF Under, BareOf, Enforced, found
    <3> QED
      BY <2>1, <3>1, <3>4, <3>5, <3>6
  <2>2. CASE guarded.refusal # "none"
    <3>1. DOMAIN listed = {<<q, BareRoute>> : q \in bare}
      BY <1>3, <2>2
    <3>2. \A x : x \in Under(p) <=> <<p, x>> \in DOMAIN listed
      <4>1. \A l \in DOMAIN listed : l = <<l[1], l[2]>>
        BY <3>1
      <4> QED
        BY <4>1
    <3>3. \A x : <<p, x>> \in DOMAIN listed <=> x \in BareOf(p)
      BY <3>1
    <3> HIDE DEF Under, BareOf, Enforced
    <3> QED
      BY <2>2, <3>2, <3>3
  <2> QED
    BY <2>1, <2>2
<1>5. ASSUME guarded.refusal = "none", NEW m \in EndpointsOf(guarded.of), NEW request \in Requests,
             At(m, request).ran # Nobody
      PROVE  \/ /\ m[2].requires # NoPermission
                /\ request.guard = "none"
                /\ At(m, request).ran \in Extracted(request)
             \/ /\ m[2].requires = NoPermission /\ m[2].public
                /\ At(m, request).ran = Anonymous
  <2>1. /\ NumberedApi(guarded.of) /\ walkApi(guarded.of).refusal = "none"
        /\ guarded.members = MembersOf(guarded.of)
    BY <1>1, <1>2, <1>5
  <2> QED
    BY <1>5, <2>1, HandlersRunAsAllowed
<1>6. ASSUME NEW m \in EndpointsOf(api), m[2].attached /\ Name(m) \notin guarded.members,
             NEW request \in Requests
      PROVE  At(m, request) = refuse
  BY <1>6 DEF Serve, middleware
<1>7. \A r \in DOMAIN listed : listed[r] = 1
  BY <1>3
<1> DEFINE Shown ==
      /\ \A r \in DOMAIN listed : listed[r] = 1
      /\ \A p \in Guardable : Under(p) = BareOf(p) \cup
                        IF guarded.refusal = "none" THEN Enforced(p) ELSE {}
      /\ guarded.refusal = "none" =>
               \A m \in EndpointsOf(guarded.of), request \in Requests :
                   At(m, request).ran # Nobody =>
                       \/ /\ m[2].requires # NoPermission
                          /\ request.guard = "none"
                          /\ At(m, request).ran \in Extracted(request)
                       \/ /\ m[2].requires = NoPermission /\ m[2].public
                          /\ At(m, request).ran = Anonymous
      /\ \A m \in EndpointsOf(api) :
               m[2].attached /\ Name(m) \notin guarded.members =>
                   \A request \in Requests : At(m, request) = refuse
<1>8. ListedAreEnforced <=> (guarded # Unbuilt => Shown)
  BY DEF ListedAreEnforced
<1> HIDE DEF At, Name, Under, BareOf, Enforced
<1>9. Shown
  BY <1>4, <1>5, <1>6, <1>7
<1> HIDE DEF Shown
<1> QED
  BY <1>8, <1>9

(* What an API lists as guarded is what it enforces, and no failure is     *)
(* answered as a denial, for any permissions and an API of any size,       *)
(* whatever order it was written and its routes were added in.             *)
(* (GuardApi.ts:168-176, AuthorizeRequest.ts:97-101)                       *)
THEOREM GuardedAsListed == GuardsSpec => []GuardsHold
<1>1. GuardsInv => GuardsHold
  BY ListedRightly, FailuresAreTold DEF GuardsHold
<1> QED
  BY <1>1, GuardsInvInitially, GuardsInvHolds, PTL DEF GuardsSpec

=============================================================================
