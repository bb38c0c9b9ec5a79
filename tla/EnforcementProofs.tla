------------------------- MODULE EnforcementProofs -------------------------
(***************************************************************************)
(* For any calls, any number of items and sinks: every entry point is a    *)
(* reference monitor, and a sound sink has the story of what was enforced. *)
(***************************************************************************)
EXTENDS Enforcement, SequenceTheorems, TLAPS

(* What a question still being decided, at the gate or settled owes.       *)
Undecided(a) ==
    /\ step[a] \in {"unasked", "deciding"} =>
           answer[a] = "none" /\ duties[a] = "none" /\ gate[a] = "none" /\ next[a] = 1
    /\ call[a[1]].pc = "idle" => step[a] = "unasked"

AtGate(a) ==
    /\ step[a] = "telling" => answer[a] \in Answers /\ gate[a] = "none"
    /\ step[a] \in {"handling", "recording"} =>
           answer[a] = "Allow" /\ duties[a] # "none" /\ Op(a) \notin Reporting
    /\ step[a] = "handling" => Handler(a) /\ gate[a] = "none" /\ next[a] = 1
    /\ step[a] = "recording" =>
           IF Handler(a) THEN gate[a] \in {"Discharged", "HandlerFailed"}
           ELSE gate[a] = Unhandled(a)

Paid(a) ==
    step[a] = "settled" /\ Op(a) \notin Reporting => ~Owes(a) \/ gate[a] = "Discharged"

(* What was handed over was emitted, or its call has returned.             *)
HandedOver(a) ==
    a \in released =>
        \/ call[a[1]].pc = "returned"
        \/ call[a[1]].op = "filterStream" /\ a[2] <= call[a[1]].passed /\ call[a[1]].pc # "idle"

AskInv(a) == Undecided(a) /\ AtGate(a) /\ Paid(a) /\ HandedOver(a)

IInv == EnforcementTypeOK /\ \A a \in Asks : AskInv(a)

USE EnforcementAssumption

LEMMA TypeInit == Init => EnforcementTypeOK
  BY DEF Init, EnforcementTypeOK, CallRecords, Idle, Single, Many, Over, Steps, InFlight,
         Answers, Outcomes

LEMMA AsksAre == \A c \in Calls, i \in 1 .. MaxItems : <<c, i>> \in Asks
  BY DEF Asks

LEMMA AsksAreOfCalls == \A a \in Asks : a[1] \in Calls /\ a[2] \in 1 .. MaxItems
  BY DEF Asks

(* A call's place and the items a stream has passed on.                    *)
LEMMA CallType ==
  ASSUME call \in [Calls -> CallRecords], NEW c \in Calls
  PROVE  /\ \A p \in Over \cup {"asking", "failing"} :
                call' = [call EXCEPT ![c].pc = p] => call' \in [Calls -> CallRecords]
         /\ \A n \in 0 .. MaxItems :
                call' = [call EXCEPT ![c].passed = n] => call' \in [Calls -> CallRecords]
<1>1. ASSUME NEW p \in Over \cup {"asking", "failing"}, call' = [call EXCEPT ![c].pc = p]
      PROVE  call' \in [Calls -> CallRecords]
  BY <1>1 DEF CallRecords
<1>2. ASSUME NEW n \in 0 .. MaxItems, call' = [call EXCEPT ![c].passed = n]
      PROVE  call' \in [Calls -> CallRecords]
  BY <1>2 DEF CallRecords
<1> QED BY <1>1, <1>2

(* Failing or interrupting a call keeps every type.                        *)
LEMMA FailsType ==
  ASSUME EnforcementTypeOK, NEW a \in Asks, NEW pc \in Over, Fails(a, pc)
  PROVE  call' \in [Calls -> CallRecords] /\ step' \in [Asks -> Steps]
<1>1. /\ a[1] \in Calls
      /\ call \in [Calls -> CallRecords]
      /\ step \in [Asks -> Steps]
  BY AsksAreOfCalls DEF EnforcementTypeOK
<1>2. ASSUME NEW p \in Over \cup {"failing"}, call' = [call EXCEPT ![a[1]].pc = p]
      PROVE  call' \in [Calls -> CallRecords]
  BY <1>1, <1>2, CallType
<1>3. call' \in [Calls -> CallRecords]
  BY <1>2 DEF Fails
<1>4. step' \in [Asks -> Steps]
  <2>1. ASSUME NEW T, step' = [b \in Asks |-> IF b = a THEN "failed" ELSE IF b \in T THEN "stopped" ELSE step[b]]
        PROVE  step' \in [Asks -> Steps]
    BY <1>1, <2>1 DEF Steps
  <2>2. CASE Op(a) = "filterStream"
    BY <1>1, <2>2 DEF Fails, Steps
  <2> QED BY <2>1, <2>2 DEF Fails
<1> QED BY <1>3, <1>4

(* Interrupting a call, or ending a failing stream.                        *)
LEMMA StopsType ==
  ASSUME EnforcementTypeOK, NEW c \in Calls, NEW pc \in Over, Stopped(c),
         call' = [call EXCEPT ![c].pc = pc]
  PROVE  call' \in [Calls -> CallRecords] /\ step' \in [Asks -> Steps]
<1>1. call' \in [Calls -> CallRecords]
  BY CallType DEF EnforcementTypeOK
<1>2. ASSUME NEW T, step' = [b \in Asks |-> IF b \in T THEN "stopped" ELSE step[b]]
      PROVE  step' \in [Asks -> Steps]
  BY <1>2 DEF EnforcementTypeOK, Steps
<1> QED BY <1>1, <1>2 DEF Stopped

LEMMA TypeStep == IInv /\ [Next]_vars => EnforcementTypeOK'
<1> SUFFICES ASSUME EnforcementTypeOK, \A a \in Asks : AskInv(a), [Next]_vars
             PROVE  EnforcementTypeOK'
  BY DEF IInv
<1> USE DEF EnforcementTypeOK
<1>1. ASSUME NEW c \in Calls, Start(c) PROVE EnforcementTypeOK'
  BY <1>1 DEF Start, CallRecords, Over, askVars, Single, Many, Reporting
<1>2. ASSUME NEW c \in Calls, CallStep(c) PROVE EnforcementTypeOK'
  <2>1. CASE Load(c)
    <3>1. PICK pc \in {"asking", "failed"} : call' = [call EXCEPT ![c].pc = pc]
      BY <2>1 DEF Load
    <3>2. call' \in [Calls -> CallRecords]
      BY <3>1, CallType DEF Over
    <3> QED BY <2>1, <3>2 DEF Load, askVars
  <2>2. CASE Return(c)
    <3>1. call' \in [Calls -> CallRecords]
      BY <2>2, CallType DEF Return, Over
    <3>2. Allowed(c) \subseteq Asks
      BY DEF Allowed, AsksOf, Asks, CallRecords
    <3> QED BY <2>2, <3>1, <3>2 DEF Return, askVars
  <2>3. CASE Emit(c)
    <3> DEFINE a == <<c, call[c].passed + 1>>
    <3>1. PICK i \in 1 .. call[c].width : a = <<c, i>>
      BY <2>3 DEF Emit, AsksOf
    <3>2. call[c].passed + 1 \in 1 .. MaxItems
      BY <3>1 DEF CallRecords
    <3>3. a \in Asks
      BY <3>2, AsksAre
    <3>4. call' \in [Calls -> CallRecords]
      <4>1. call[c].passed + 1 \in 0 .. MaxItems
        BY <3>2
      <4> QED BY <2>3, <4>1, CallType DEF Emit
    <3> QED BY <2>3, <3>3, <3>4 DEF Emit, askVars
  <2>4. CASE EndStream(c)
    BY <2>4, StopsType DEF EndStream, Over
  <2> QED BY <1>2, <2>1, <2>2, <2>3, <2>4 DEF CallStep
<1>3. ASSUME NEW c \in Calls, Interrupt(c) PROVE EnforcementTypeOK'
  BY <1>3, StopsType DEF Interrupt, Over
<1>4. ASSUME NEW a \in Asks, AskStep(a) PROVE EnforcementTypeOK'
  <2>1. CASE Ask(a) BY <2>1 DEF Ask, Steps, InFlight
  <2>2. CASE Decide(a) BY <2>2 DEF Decide, Steps, InFlight, Answers
  <2>3. ASSUME NEW r \in Answers \cup Outcomes, Tell(a, r) PROVE EnforcementTypeOK'
    <3>1. next[a] \in 1 .. Sinks
      BY <2>3 DEF Tell, MoreToTell
    <3>2. next' \in [Asks -> 1 .. Sinks + 1]
      BY <2>3, <3>1 DEF Tell, Heard
    <3>3. kept' \in [1 .. Sinks -> [Asks -> Seq(Answers \cup Outcomes)]]
      <4>1. CASE kept' = kept
        BY <4>1
      <4>2. CASE kept' = [kept EXCEPT ![next[a]][a] = Append(@, r)]
        <5>1. kept[next[a]] \in [Asks -> Seq(Answers \cup Outcomes)]
          BY <3>1
        <5>2. Append(kept[next[a]][a], r) \in Seq(Answers \cup Outcomes)
          BY <2>3, <5>1
        <5>3. [kept[next[a]] EXCEPT ![a] = Append(@, r)] \in [Asks -> Seq(Answers \cup Outcomes)]
          BY <5>1, <5>2
        <5> QED BY <3>1, <4>2, <5>3
      <4> QED BY <2>3, <4>1, <4>2 DEF Tell
    <3> QED BY <2>3, <3>2, <3>3 DEF Tell
  <2>4. CASE TellDecision(a)
    BY <2>3, <2>4 DEF TellDecision, AskInv, AtGate
  <2>5. CASE ReturnAnswer(a)
    BY <2>5, FailsType DEF ReturnAnswer, Settles, Steps, Over
  <2>6. CASE Discharge(a)
    <3>1. step' \in [Asks -> Steps]
      BY <2>6 DEF Discharge, Steps, InFlight
    <3>2. gate' \in [Asks -> Outcomes \cup {"none"}]
      BY <2>6 DEF Discharge, Outcomes, Unhandled
    <3> QED BY <2>6, <3>1, <3>2 DEF Discharge
  <2>7. CASE Handle(a) BY <2>7 DEF Handle, Steps, InFlight, Outcomes
  <2>8. CASE HandlerDies(a) BY <2>8, FailsType DEF HandlerDies, Over
  <2>9. CASE TellOutcome(a)
    <3>1. gate[a] \in Outcomes
      BY <2>9 DEF TellOutcome, AskInv, AtGate, Outcomes, Unhandled
    <3> QED BY <2>3, <2>9, <3>1 DEF TellOutcome
  <2>10. CASE PassGate(a)
    BY <2>10, FailsType DEF PassGate, Settles, Steps, Over
  <2> QED BY <1>4, <2>1, <2>2, <2>4, <2>5, <2>6, <2>7, <2>8, <2>9, <2>10 DEF AskStep
<1>5. CASE AllOver \/ UNCHANGED vars
  BY <1>5 DEF AllOver, vars
<1> QED BY <1>1, <1>2, <1>3, <1>4, <1>5 DEF Next

-----------------------------------------------------------------------------
SameOptions(b) ==
    /\ call'[b[1]].op = call[b[1]].op
    /\ call'[b[1]].handler = call[b[1]].handler

SameAnswer(b) ==
    /\ answer'[b] = answer[b]
    /\ duties'[b] = duties[b]
    /\ gate'[b] = gate[b]
    /\ next'[b] = next[b]

(* A question a step leaves alone, or stops.                               *)
LEMMA LeftAlone ==
  ASSUME NEW b \in Asks, AskInv(b), SameOptions(b), SameAnswer(b), HandedOver(b)',
         \/ step'[b] = step[b] /\ (call'[b[1]].pc = "idle" => call[b[1]].pc = "idle")
         \/ step'[b] \in {"stopped", "failed"} /\ call'[b[1]].pc # "idle"
  PROVE  AskInv(b)'
  BY DEF AskInv, Undecided, AtGate, Paid, Owes, Op, Handler, Unhandled, SameOptions, SameAnswer

(* A question already handed over, while its call goes on or ends.         *)
LEMMA StillHandedOver ==
  ASSUME NEW b \in Asks, EnforcementTypeOK, HandedOver(b), b \in released' => b \in released,
         \/ call'[b[1]] = call[b[1]]
         \/ /\ call'[b[1]].op = call[b[1]].op
            /\ call'[b[1]].passed = call[b[1]].passed
            /\ call[b[1]].pc # "returned"
            /\ call'[b[1]].pc # "idle"
  PROVE  HandedOver(b)'
  BY DEF HandedOver

(* A step of one question that leaves its call alone.                      *)
LEMMA OneQuestion ==
  ASSUME IInv, NEW a \in Asks, UNCHANGED <<call, released>>,
         \A b \in Asks \ {a} : step'[b] = step[b] /\ SameAnswer(b),
         Undecided(a)', AtGate(a)', Paid(a)'
  PROVE  \A b \in Asks : AskInv(b)'
<1> SUFFICES ASSUME NEW b \in Asks PROVE AskInv(b)'
  OBVIOUS
<1>1. AskInv(b) /\ EnforcementTypeOK
  BY DEF IInv
<1>2. HandedOver(b)'
  BY <1>1, StillHandedOver DEF AskInv
<1>3. CASE b = a
  BY <1>2, <1>3 DEF AskInv
<1>4. CASE b # a
  BY <1>1, <1>2, <1>4, LeftAlone DEF SameOptions
<1> QED BY <1>3, <1>4

(* A failing question, and those its failure stops.                        *)
LEMMA FailsInv ==
  ASSUME IInv, NEW a \in Asks, NEW pc \in Over \ {"returned"}, Live(a[1]), Fails(a, pc),
         UNCHANGED <<answer, duties, gate, next, released>>
  PROVE  \A b \in Asks : AskInv(b)'
<1> SUFFICES ASSUME NEW b \in Asks PROVE AskInv(b)'
  OBVIOUS
<1>1. AskInv(b) /\ EnforcementTypeOK /\ a[1] \in Calls /\ b[1] \in Calls
  BY AsksAreOfCalls DEF IInv
<1>2. PICK p \in Over \cup {"failing"} : p # "returned" /\ call' = [call EXCEPT ![a[1]].pc = p]
  BY DEF Fails
<1>3. /\ call \in [Calls -> CallRecords]
      /\ step \in [Asks -> Steps]
  BY <1>1 DEF EnforcementTypeOK
<1>4. /\ SameOptions(b)
      /\ call'[b[1]].passed = call[b[1]].passed
      /\ b[1] # a[1] => call'[b[1]] = call[b[1]]
      /\ b[1] = a[1] => call'[b[1]].pc = p
  BY <1>1, <1>2, <1>3 DEF SameOptions, CallRecords
<1>5. p # "idle" /\ call[a[1]].pc \notin {"idle", "returned"}
  BY <1>2 DEF Over, Live
<1>6. HandedOver(b)'
  BY <1>1, <1>4, <1>5, <1>2, StillHandedOver DEF AskInv, SameOptions
<1>7. \/ step'[b] = step[b]
      \/ step'[b] \in {"stopped", "failed"} /\ b[1] = a[1]
  <2>1. ASSUME NEW T, \A x \in T : x[1] = a[1],
               step' = [x \in Asks |-> IF x = a THEN "failed" ELSE IF x \in T THEN "stopped" ELSE step[x]]
        PROVE  \/ step'[b] = step[b]
               \/ step'[b] \in {"stopped", "failed"} /\ b[1] = a[1]
    BY <2>1
  <2>2. CASE Op(a) = "filterStream"
    BY <1>3, <2>2 DEF Fails
  <2>3. \A x \in StoppedWith(a) : x[1] = a[1]
    BY DEF StoppedWith, AsksOf
  <2> QED BY <2>1, <2>2, <2>3 DEF Fails
<1> QED BY <1>1, <1>4, <1>5, <1>6, <1>7, LeftAlone DEF SameAnswer

LEMMA StopsInv ==
  ASSUME IInv, NEW c \in Calls, NEW pc \in Over \ {"returned"}, Stopped(c),
         call[c].pc \notin {"idle", "returned"},
         call' = [call EXCEPT ![c].pc = pc],
         UNCHANGED <<answer, duties, gate, next, released>>
  PROVE  \A b \in Asks : AskInv(b)'
<1> SUFFICES ASSUME NEW b \in Asks PROVE AskInv(b)'
  OBVIOUS
<1>1. AskInv(b) /\ EnforcementTypeOK /\ b[1] \in Calls
  BY AsksAreOfCalls DEF IInv
<1>2. /\ call \in [Calls -> CallRecords]
      /\ step \in [Asks -> Steps]
  BY <1>1 DEF EnforcementTypeOK
<1>3. /\ SameOptions(b)
      /\ call'[b[1]].passed = call[b[1]].passed
      /\ b[1] # c => call'[b[1]] = call[b[1]]
      /\ b[1] = c => call'[b[1]].pc = pc
  BY <1>1, <1>2 DEF SameOptions, CallRecords
<1>4. pc # "idle"
  BY DEF Over
<1>5. HandedOver(b)'
  BY <1>1, <1>3, <1>4, StillHandedOver DEF AskInv, SameOptions
<1>6. \/ step'[b] = step[b]
      \/ step'[b] = "stopped" /\ b[1] = c
  <2>1. \A x \in Busy(c) : x[1] = c
    BY DEF Busy, AsksOf
  <2> QED BY <2>1 DEF Stopped
<1> QED BY <1>1, <1>3, <1>4, <1>5, <1>6, LeftAlone DEF SameAnswer

LEMMA FailsAreNotSettles ==
  ASSUME NEW a \in Asks, step \in [Asks -> Steps], Settles(a)
  PROVE  ~Fails(a, "failed")
<1>1. step'[a] = "settled"
  BY DEF Settles
<1>2. Fails(a, "failed") => step'[a] = "failed"
  BY DEF Fails
<1> QED BY <1>1, <1>2

(* What one question's own step makes of it.                               *)
LEMMA AskInvStep ==
  ASSUME IInv, NEW a \in Asks, AskStep(a)
  PROVE  \A b \in Asks : AskInv(b)'
<1>1. /\ AskInv(a) /\ EnforcementTypeOK /\ a[1] \in Calls
      /\ step \in [Asks -> Steps]
      /\ answer \in [Asks -> Answers \cup {"none"}]
      /\ duties \in [Asks -> {"none", "advisory", "binding"}]
      /\ gate \in [Asks -> Outcomes \cup {"none"}]
      /\ next \in [Asks -> 1 .. Sinks + 1]
  BY AsksAreOfCalls DEF IInv, EnforcementTypeOK
<1>2. ASSUME Settles(a), UNCHANGED <<answer, duties, gate, next, released>>,
             Op(a) \in Reporting \/ ~Owes(a) \/ gate[a] = "Discharged", call[a[1]].pc # "idle"
      PROVE  \A b \in Asks : AskInv(b)'
  <2>1. Undecided(a)' /\ AtGate(a)' /\ Paid(a)'
    BY <1>1, <1>2 DEF Settles, Undecided, AtGate, Paid, Owes, Op, Handler
  <2>2. \A b \in Asks \ {a} : step'[b] = step[b] /\ SameAnswer(b)
    BY <1>1, <1>2 DEF Settles, SameAnswer
  <2> QED BY <1>2, <2>1, <2>2, OneQuestion DEF Settles
<1>3. CASE Ask(a)
  <2>1. Undecided(a)' /\ AtGate(a)' /\ Paid(a)'
    BY <1>1, <1>3 DEF Ask, AskInv, Undecided, AtGate, Paid
  <2>2. \A b \in Asks \ {a} : step'[b] = step[b] /\ SameAnswer(b)
    BY <1>1, <1>3 DEF Ask, SameAnswer
  <2> QED BY <1>3, <2>1, <2>2, OneQuestion DEF Ask
<1>4. CASE Decide(a)
  <2>1. Undecided(a)' /\ AtGate(a)' /\ Paid(a)'
    BY <1>1, <1>4 DEF Decide, Live, AskInv, Undecided, AtGate, Paid
  <2>2. \A b \in Asks \ {a} : step'[b] = step[b] /\ SameAnswer(b)
    BY <1>1, <1>4 DEF Decide, SameAnswer
  <2> QED BY <1>4, <2>1, <2>2, OneQuestion DEF Decide
<1>5. ASSUME NEW r, Tell(a, r), step[a] \in {"telling", "recording"}, Live(a[1])
      PROVE  \A b \in Asks : AskInv(b)'
  <2>1. Undecided(a)' /\ AtGate(a)' /\ Paid(a)'
    BY <1>1, <1>5 DEF Tell, Live, AskInv, Undecided, AtGate, Paid, Op, Handler, Unhandled
  <2>2. \A b \in Asks \ {a} : step'[b] = step[b]
    BY <1>5 DEF Tell
  <2>3. ASSUME NEW b \in Asks \ {a} PROVE AskInv(b)'
    <3>1. AskInv(b) /\ EnforcementTypeOK
      BY <2>3 DEF IInv
    <3>2. HandedOver(b)'
      BY <1>5, <3>1, <2>3, StillHandedOver DEF AskInv, Tell
    <3>3. next'[b] = next[b]
      BY <1>1, <1>5, <2>3 DEF Tell
    <3> QED BY <1>5, <2>2, <2>3, <3>1, <3>2, <3>3, LeftAlone DEF Tell, SameAnswer, SameOptions
  <2>4. HandedOver(a)'
    BY <1>1, <1>5, StillHandedOver DEF AskInv, Tell
  <2> QED BY <2>1, <2>3, <2>4 DEF AskInv
<1>6. CASE TellDecision(a)
  BY <1>5, <1>6 DEF TellDecision
<1>7. CASE TellOutcome(a)
  BY <1>5, <1>7 DEF TellOutcome
<1>8. CASE ReturnAnswer(a)
  <2>1. CASE Settles(a)
    <3>1. Op(a) \in Reporting \/ ~Owes(a)
      BY <1>1, <1>8, <2>1, FailsAreNotSettles DEF ReturnAnswer, Owes
    <3>2. call[a[1]].pc # "idle"
      BY <1>8 DEF ReturnAnswer, Live
    <3> QED BY <1>2, <1>8, <2>1, <3>1, <3>2 DEF ReturnAnswer
  <2>2. CASE Fails(a, "failed")
    BY <1>8, <2>2, FailsInv DEF ReturnAnswer, Over
  <2> QED BY <1>8, <2>1, <2>2 DEF ReturnAnswer
<1>9. CASE Discharge(a)
  <2>1. Undecided(a)' /\ AtGate(a)' /\ Paid(a)'
    <3>1. CASE Handler(a)
      BY <1>1, <1>9, <3>1 DEF Discharge, Live, AskInv, Undecided, AtGate, Paid, Op, Handler
    <3>2. CASE ~Handler(a)
      BY <1>1, <1>9, <3>2 DEF Discharge, Live, AskInv, Undecided, AtGate, Paid, Op, Handler, Unhandled
    <3> QED BY <3>1, <3>2
  <2>2. \A b \in Asks \ {a} : step'[b] = step[b] /\ SameAnswer(b)
    BY <1>1, <1>9 DEF Discharge, SameAnswer
  <2> QED BY <1>9, <2>1, <2>2, OneQuestion DEF Discharge
<1>10. CASE Handle(a)
  <2>1. Undecided(a)' /\ AtGate(a)' /\ Paid(a)'
    BY <1>1, <1>10 DEF Handle, Live, AskInv, Undecided, AtGate, Paid, Op, Handler
  <2>2. \A b \in Asks \ {a} : step'[b] = step[b] /\ SameAnswer(b)
    BY <1>1, <1>10 DEF Handle, SameAnswer
  <2> QED BY <1>10, <2>1, <2>2, OneQuestion DEF Handle
<1>11. CASE HandlerDies(a)
  BY <1>11, FailsInv DEF HandlerDies, Over
<1>12. CASE PassGate(a)
  <2>1. CASE gate[a] \in Passes
    <3>1. ~Owes(a) \/ gate[a] = "Discharged"
      BY <1>1, <1>12, <2>1 DEF PassGate, Passes, Owes, AskInv, AtGate, Unhandled
    <3>2. call[a[1]].pc # "idle"
      BY <1>12 DEF PassGate, Live
    <3> QED BY <1>2, <1>12, <2>1, <3>1, <3>2 DEF PassGate
  <2>2. CASE gate[a] \notin Passes
    BY <1>12, <2>2, FailsInv DEF PassGate, Over
  <2> QED BY <2>1, <2>2
<1> QED BY <1>3, <1>4, <1>6, <1>7, <1>8, <1>9, <1>10, <1>11, <1>12 DEF AskStep

LEMMA CallInvStep ==
  ASSUME IInv, NEW c \in Calls, Start(c) \/ CallStep(c) \/ Interrupt(c)
  PROVE  \A b \in Asks : AskInv(b)'
<1>1. EnforcementTypeOK /\ call \in [Calls -> CallRecords] /\ \A b \in Asks : AskInv(b)
  BY DEF IInv, EnforcementTypeOK
<1>2. CASE Start(c)
  <2> SUFFICES ASSUME NEW b \in Asks PROVE AskInv(b)'
    OBVIOUS
  <2>1. b[1] \in Calls
    BY AsksAreOfCalls
  <2>2. CASE b[1] # c
    <3>1. call'[b[1]] = call[b[1]]
      BY <1>1, <1>2, <2>1, <2>2 DEF Start
    <3>2. HandedOver(b)'
      BY <1>1, <1>2, <3>1, StillHandedOver DEF Start, AskInv
    <3> QED BY <1>1, <1>2, <3>1, <3>2, LeftAlone DEF Start, askVars, SameOptions, SameAnswer
  <2>3. CASE b[1] = c
    <3>1. step[b] = "unasked" /\ b \notin released
      BY <1>1, <1>2, <2>3 DEF Start, AskInv, Undecided, HandedOver
    <3> QED BY <1>1, <1>2, <2>1, <2>3, <3>1
            DEF Start, askVars, AskInv, Undecided, AtGate, Paid, HandedOver, Op, Handler
  <2> QED BY <2>2, <2>3
<1>3. CASE Load(c)
  <2> SUFFICES ASSUME NEW b \in Asks PROVE AskInv(b)'
    OBVIOUS
  <2>1. PICK pc \in {"asking", "failed"} : call' = [call EXCEPT ![c].pc = pc]
    BY <1>3 DEF Load
  <2>2. /\ SameOptions(b)
        /\ call'[b[1]].passed = call[b[1]].passed
        /\ b[1] # c => call'[b[1]] = call[b[1]]
        /\ b[1] = c => call'[b[1]].pc = pc
    BY <1>1, <2>1, AsksAreOfCalls DEF SameOptions, CallRecords
  <2>3. HandedOver(b)'
    BY <1>1, <1>3, <2>2, StillHandedOver DEF AskInv, SameOptions, Load
  <2> QED BY <1>1, <1>3, <2>2, <2>3, LeftAlone DEF Load, askVars, SameAnswer
<1>4. CASE Return(c)
  <2> SUFFICES ASSUME NEW b \in Asks PROVE AskInv(b)'
    OBVIOUS
  <2>1. /\ SameOptions(b)
        /\ call'[b[1]].passed = call[b[1]].passed
        /\ b[1] # c => call'[b[1]] = call[b[1]]
        /\ b[1] = c => call'[b[1]].pc = "returned"
    BY <1>1, <1>4, AsksAreOfCalls DEF Return, SameOptions, CallRecords
  <2>2. HandedOver(b)'
    <3>1. CASE b[1] = c
      BY <2>1, <3>1 DEF HandedOver
    <3>2. CASE b[1] # c
      <4>1. b \in released' => b \in released
        BY <1>4, <3>2 DEF Return, Allowed, AsksOf
      <4> QED BY <1>1, <2>1, <3>2, <4>1, StillHandedOver DEF AskInv
    <3> QED BY <3>1, <3>2
  <2> QED BY <1>1, <1>4, <2>1, <2>2, LeftAlone DEF Return, askVars, SameAnswer
<1>5. CASE Emit(c)
  <2> SUFFICES ASSUME NEW b \in Asks PROVE AskInv(b)'
    OBVIOUS
  <2> DEFINE a == <<c, call[c].passed + 1>>
  <2>1. /\ SameOptions(b)
        /\ call'[b[1]].pc = call[b[1]].pc
        /\ b[1] # c => call'[b[1]] = call[b[1]]
        /\ b[1] = c => call'[b[1]].passed = call[b[1]].passed + 1
    BY <1>1, <1>5, AsksAreOfCalls DEF Emit, SameOptions, CallRecords
  <2>2. HandedOver(b)'
    <3>1. CASE b[1] = c
      <4>1. call[c].passed \in Nat /\ b[2] \in Nat /\ call[c].op = "filterStream"
            /\ call[c].pc \in {"asking", "failing"}
        BY <1>1, <1>5, <3>1, AsksAreOfCalls DEF Emit, CallRecords, Live
      <4>2. b \in released' => b \in released \/ b = a
        BY <1>5 DEF Emit
      <4>3. HandedOver(b)
        BY <1>1 DEF AskInv
      <4> QED BY <2>1, <3>1, <4>1, <4>2, <4>3 DEF HandedOver, SameOptions
    <3>2. CASE b[1] # c
      <4>1. b \in released' => b \in released
        BY <1>5, <3>2 DEF Emit
      <4> QED BY <1>1, <2>1, <3>2, <4>1, StillHandedOver DEF AskInv
    <3> QED BY <3>1, <3>2
  <2> QED BY <1>1, <1>5, <2>1, <2>2, LeftAlone DEF Emit, askVars, SameAnswer
<1>6. CASE EndStream(c)
  BY <1>6, StopsInv DEF EndStream, Over
<1>7. CASE Interrupt(c)
  BY <1>7, StopsInv DEF Interrupt, Over, Live
<1> QED BY <1>2, <1>3, <1>4, <1>5, <1>6, <1>7 DEF CallStep

LEMMA InvInit == Init => IInv
<1> SUFFICES ASSUME Init PROVE \A b \in Asks : AskInv(b)
  BY TypeInit DEF IInv
<1> QED BY AsksAreOfCalls DEF Init, Idle, AskInv, Undecided, AtGate, Paid, HandedOver

LEMMA InvStep == IInv /\ [Next]_vars => IInv'
<1> SUFFICES ASSUME IInv, [Next]_vars PROVE \A b \in Asks : AskInv(b)'
  BY TypeStep DEF IInv
<1>1. CASE AllOver \/ UNCHANGED vars
  BY <1>1 DEF AllOver, vars, IInv, AskInv, Undecided, AtGate, Paid, Owes, HandedOver, Op,
              Handler, Unhandled
<1> QED BY <1>1, CallInvStep, AskInvStep DEF Next

LEMMA Invariance == Spec => []IInv
  BY InvInit, InvStep, PTL DEF Spec

(* Every variable keeps its type.  (Qadi.ts, Lifecycle.ts)                 *)
THEOREM TypeCorrect == Spec => []EnforcementTypeOK
<1>1. IInv => EnforcementTypeOK
  BY DEF IInv
<1> QED BY <1>1, Invariance, PTL

-----------------------------------------------------------------------------
(* The refinement: a step judges one question, meets one duty, hands over, *)
(* or is invisible to the monitor.                                         *)
LEMMA RefInit == Init => Promise!Init
  BY DEF Init, Promise!Init, Duty, Owes

(* The duty of a question depends on its answer, its gate and its call's   *)
(* handler, which only matters once it was answered.                       *)
LEMMA SameDuty ==
  ASSUME \A b \in Asks :
             /\ answer'[b] = answer[b]
             /\ duties'[b] = duties[b]
             /\ (gate'[b] = "Discharged") = (gate[b] = "Discharged")
             /\ answer[b] = "none" \/ call'[b[1]].handler = call[b[1]].handler
  PROVE  Duty' = Duty
<1>1. ASSUME NEW b \in Asks PROVE Owes(b)' = Owes(b)
  BY DEF Owes, Handler
<1> QED BY <1>1 DEF Duty

LEMMA SameHandlers ==
  ASSUME EnforcementTypeOK, NEW c \in Calls,
         \/ UNCHANGED call
         \/ \E p : call' = [call EXCEPT ![c].pc = p]
         \/ \E n : call' = [call EXCEPT ![c].passed = n]
  PROVE  \A b \in Asks : call'[b[1]].handler = call[b[1]].handler
<1>1. /\ call \in [Calls -> CallRecords]
      /\ \A b \in Asks : b[1] \in Calls
  BY AsksAreOfCalls DEF EnforcementTypeOK
<1> QED BY <1>1 DEF CallRecords

LEMMA AskRefines ==
  ASSUME IInv, NEW a \in Asks, AskStep(a)
  PROVE  [Promise!Next]_(Promise!vars)
<1>1. /\ AskInv(a) /\ EnforcementTypeOK /\ a[1] \in Calls
      /\ answer \in [Asks -> Answers \cup {"none"}]
      /\ duties \in [Asks -> {"none", "advisory", "binding"}]
      /\ gate \in [Asks -> Outcomes \cup {"none"}]
  BY AsksAreOfCalls DEF IInv, EnforcementTypeOK
<1>2. ASSUME UNCHANGED <<answer, duties, released>>,
             \A b \in Asks : (gate'[b] = "Discharged") = (gate[b] = "Discharged"),
             \/ UNCHANGED call
             \/ \E p : call' = [call EXCEPT ![a[1]].pc = p]
      PROVE  UNCHANGED Promise!vars
  BY <1>1, <1>2, SameHandlers, SameDuty DEF Promise!vars
<1>3. ASSUME NEW pc, Fails(a, pc) PROVE \E p : call' = [call EXCEPT ![a[1]].pc = p]
  BY <1>3 DEF Fails
<1>4. CASE Ask(a)
  BY <1>2, <1>4 DEF Ask
<1>5. CASE Decide(a)
  <2>1. answer[a] = "none" /\ duties[a] = "none" /\ gate[a] = "none"
    BY <1>1, <1>5 DEF Decide, AskInv, Undecided
  <2>2. PICK v \in Answers, d \in {"none", "advisory", "binding"} :
            /\ v # "Allow" => d = "none"
            /\ answer' = [answer EXCEPT ![a] = v]
            /\ duties' = [duties EXCEPT ![a] = d]
    BY <1>5 DEF Decide
  <2> DEFINE o == IF Owes(a)' THEN "owed" ELSE "none"
  <2>3. Duty' = [Duty EXCEPT ![a] = o]
    <3>1. ASSUME NEW b \in Asks, b # a PROVE Owes(b)' = Owes(b) /\ gate'[b] = gate[b]
      BY <1>1, <1>5, <2>2, <3>1 DEF Decide, Owes, Handler
    <3>2. gate'[a] = "none"
      BY <1>5, <2>1 DEF Decide
    <3> QED BY <3>1, <3>2 DEF Duty
  <2>4. o = "owed" => answer'[a] = "Allow"
    BY DEF Owes
  <2>5. Promise!Judge(a)
    BY <1>1, <1>5, <2>1, <2>2, <2>3, <2>4 DEF Promise!Judge, Decide, Answers
  <2> QED BY <2>5 DEF Promise!Next
<1>6. ASSUME NEW r, Tell(a, r) PROVE UNCHANGED Promise!vars
  BY <1>2, <1>6 DEF Tell
<1>7. CASE TellDecision(a) \/ TellOutcome(a)
  BY <1>6, <1>7 DEF TellDecision, TellOutcome
<1>8. CASE ReturnAnswer(a)
  BY <1>2, <1>3, <1>8 DEF ReturnAnswer, Settles
<1>9. CASE Discharge(a)
  <2>1. gate[a] = "none"
    BY <1>1, <1>9 DEF Discharge, AskInv, AtGate
  <2>2. \A b \in Asks : (gate'[b] = "Discharged") = (gate[b] = "Discharged")
    BY <1>1, <1>9, <2>1 DEF Discharge, Unhandled
  <2> QED BY <1>2, <1>9, <2>2 DEF Discharge
<1>10. CASE Handle(a)
  <2>1. /\ gate[a] = "none" /\ answer[a] = "Allow" /\ duties[a] # "none" /\ Handler(a)
    BY <1>1, <1>10 DEF Handle, AskInv, AtGate
  <2>2. PICK g \in {"Discharged", "HandlerFailed"} : gate' = [gate EXCEPT ![a] = g]
    BY <1>10 DEF Handle
  <2>3. CASE g = "HandlerFailed"
    <3>1. \A b \in Asks : (gate'[b] = "Discharged") = (gate[b] = "Discharged")
      BY <1>1, <2>1, <2>2, <2>3
    <3> QED BY <1>2, <1>10, <3>1 DEF Handle
  <2>4. CASE g = "Discharged"
    <3>1. Owes(a)
      BY <1>1, <2>1 DEF Owes
    <3>2. Duty[a] = "owed"
      BY <2>1, <3>1 DEF Duty
    <3>3. \A b \in Asks : Owes(b)' = Owes(b)
      BY <1>10 DEF Handle, Owes, Handler
    <3>4. Duty' = [Duty EXCEPT ![a] = "met"]
      BY <1>1, <2>2, <2>4, <3>1, <3>3 DEF Duty
    <3>5. Promise!Meet(a)
      BY <1>10, <3>2, <3>4 DEF Promise!Meet, Handle
    <3> QED BY <3>5 DEF Promise!Next
  <2> QED BY <2>3, <2>4
<1>11. CASE HandlerDies(a)
  BY <1>2, <1>3, <1>11 DEF HandlerDies
<1>12. CASE PassGate(a)
  BY <1>2, <1>3, <1>12 DEF PassGate, Settles
<1> QED BY <1>4, <1>5, <1>7, <1>8, <1>9, <1>10, <1>11, <1>12 DEF AskStep

LEMMA CallRefines ==
  ASSUME IInv, NEW c \in Calls, Start(c) \/ CallStep(c) \/ Interrupt(c)
  PROVE  [Promise!Next]_(Promise!vars)
<1>1. /\ EnforcementTypeOK /\ \A b \in Asks : AskInv(b) /\ b[1] \in Calls
      /\ call \in [Calls -> CallRecords]
  BY AsksAreOfCalls DEF IInv, EnforcementTypeOK
<1>2. ASSUME UNCHANGED <<answer, duties, gate>>,
             \/ UNCHANGED call
             \/ \E p : call' = [call EXCEPT ![c].pc = p]
             \/ \E n : call' = [call EXCEPT ![c].passed = n]
      PROVE  UNCHANGED <<answer, Duty>>
  BY <1>1, <1>2, SameHandlers, SameDuty
<1>3. ASSUME NEW as \in SUBSET Asks, UNCHANGED <<answer, Duty>>, released' = released \cup as,
             \A a \in as : /\ step[a] = "settled" /\ answer[a] = "Allow"
                          /\ Op(a) \notin Reporting /\ a \notin released
      PROVE  [Promise!Next]_(Promise!vars)
  <2>1. \A a \in as : Duty[a] # "owed"
    BY <1>1, <1>3 DEF AskInv, Paid, Duty
  <2>2. Promise!Release(as)
    BY <1>3, <2>1 DEF Promise!Release
  <2> QED BY <2>2 DEF Promise!Next
<1>4. CASE Start(c)
  <2>1. \A b \in Asks : answer[b] = "none" \/ call'[b[1]].handler = call[b[1]].handler
    <3> SUFFICES ASSUME NEW b \in Asks
                 PROVE  answer[b] = "none" \/ call'[b[1]].handler = call[b[1]].handler
      OBVIOUS
    <3>1. CASE b[1] = c
      BY <1>1, <1>4, <3>1 DEF Start, AskInv, Undecided
    <3>2. CASE b[1] # c
      BY <1>1, <1>4, <3>2 DEF Start
    <3> QED BY <3>1, <3>2
  <2> QED BY <1>4, <2>1, SameDuty DEF Start, askVars, Promise!vars
<1>5. CASE Load(c)
  BY <1>2, <1>5 DEF Load, askVars, Promise!vars
<1>6. CASE Return(c)
  <2>1. UNCHANGED <<answer, Duty>>
    BY <1>2, <1>6 DEF Return, askVars
  <2>2. CASE call[c].op \in Reporting \cup {"filterStream"}
    BY <1>6, <2>1, <2>2 DEF Return, Promise!vars
  <2>3. CASE call[c].op \notin Reporting \cup {"filterStream"}
    <3>1. Allowed(c) \in SUBSET Asks
      BY <1>1 DEF Allowed, AsksOf, Asks, CallRecords
    <3>2. \A a \in Allowed(c) : a[1] = c
      BY DEF Allowed, AsksOf
    <3>3. \A a \in Allowed(c) : step[a] = "settled" /\ answer[a] = "Allow" /\ Op(a) \notin Reporting
      BY <1>6, <2>3, <3>2 DEF Return, Settled, Allowed, Op
    <3>4. \A a \in Allowed(c) : a \notin released
      BY <1>1, <1>6, <2>3, <3>1, <3>2 DEF Return, AskInv, HandedOver
    <3> QED BY <1>3, <1>6, <2>1, <2>3, <3>1, <3>3, <3>4 DEF Return
  <2> QED BY <2>2, <2>3
<1>7. CASE Emit(c)
  <2> DEFINE a == <<c, call[c].passed + 1>>
  <2>1. UNCHANGED <<answer, Duty>>
    <3>1. \E n : call' = [call EXCEPT ![c].passed = n]
      BY <1>7 DEF Emit
    <3> QED BY <1>2, <1>7, <3>1 DEF Emit, askVars
  <2>2. CASE answer[a] # "Allow"
    BY <1>7, <2>1, <2>2 DEF Emit, Promise!vars
  <2>3. CASE answer[a] = "Allow"
    <3>1. PICK i \in 1 .. call[c].width : a = <<c, i>>
      BY <1>7 DEF Emit, AsksOf
    <3>2. a \in Asks /\ call[c].passed \in Nat
      BY <1>1, <3>1, AsksAre DEF CallRecords
    <3>3. a \notin released
      BY <1>1, <1>7, <3>2 DEF Emit, Live, AskInv, HandedOver
    <3>4. step[a] = "settled" /\ Op(a) \notin Reporting
      BY <1>7 DEF Emit, Op, Reporting
    <3> HIDE DEF a
    <3>5. released' = released \cup {a}
      BY <1>7, <2>3 DEF Emit, a
    <3> DEFINE as == {a}
    <3>6. /\ as \in SUBSET Asks
          /\ \A x \in as : /\ step[x] = "settled" /\ answer[x] = "Allow"
                          /\ Op(x) \notin Reporting /\ x \notin released
      BY <2>3, <3>2, <3>3, <3>4
    <3>7. released' = released \cup as
      BY <3>5
    <3> HIDE DEF as
    <3> QED BY <1>3, <2>1, <3>6, <3>7
  <2> QED BY <2>2, <2>3
<1>8. CASE EndStream(c) \/ Interrupt(c)
  BY <1>2, <1>8 DEF EndStream, Interrupt, Promise!vars
<1> QED BY <1>4, <1>5, <1>6, <1>7, <1>8 DEF CallStep

LEMMA RefStep == IInv /\ [Next]_vars => [Promise!Next]_(Promise!vars)
<1> SUFFICES ASSUME IInv, [Next]_vars PROVE [Promise!Next]_(Promise!vars)
  OBVIOUS
<1>1. CASE AllOver \/ UNCHANGED vars
  BY <1>1 DEF AllOver, vars, Promise!vars, Duty, Owes, Handler
<1> QED BY <1>1, AskRefines, CallRefines DEF Next

(* Whatever the entry points, the items, the handlers and the sinks, what  *)
(* is handed over was allowed and its duties were met, once and for all.   *)
(* (Qadi.ts, permitted and decideOne)                                      *)
THEOREM EnforcementIsAMonitor == Spec => ImplementsMonitor
  BY RefInit, RefStep, Invariance, PTL DEF Spec, ImplementsMonitor, Promise!Spec

-----------------------------------------------------------------------------
(* How far the sinks are with a question: those before the next one have   *)
(* the record being told, the others what was told before.                 *)
Sound == (1 .. Sinks) \ Flaky

Told(a, s) ==
    /\ step[a] \in {"unasked", "deciding"} => kept[s][a] = <<>>
    /\ step[a] = "telling" => kept[s][a] = IF s < next[a] THEN <<answer[a]>> ELSE <<>>
    /\ step[a] = "handling" => kept[s][a] = <<"Allow">>
    /\ step[a] = "recording" =>
           kept[s][a] = IF s < next[a] THEN <<"Allow", gate[a]>> ELSE <<"Allow">>
    /\ step[a] \in {"settled", "failed"} =>
           \/ kept[s][a] = Story(a)
           \/ /\ step[a] = "failed" /\ Handler(a) /\ gate[a] = "none"
              /\ kept[s][a] = <<"Allow">>

TInv == IInv /\ \A a \in Asks, s \in Sound : Told(a, s)

LEMMA ToldLeftAlone ==
  ASSUME NEW b \in Asks, NEW s \in Sound, Told(b, s), SameAnswer(b),
         kept'[s][b] = kept[s][b],
         SameOptions(b) \/ step[b] = "unasked",
         step'[b] = step[b] \/ step'[b] = "stopped"
  PROVE  Told(b, s)'
<1>1. CASE step'[b] = "stopped"
  BY <1>1 DEF Told
<1>2. CASE step'[b] = step[b] /\ step[b] = "unasked"
  BY <1>2 DEF Told
<1>3. CASE step'[b] = step[b] /\ SameOptions(b)
  <2>1. Story(b)' = Story(b) /\ Handler(b)' = Handler(b)
    BY <1>3 DEF Story, Op, Handler, Unhandled, SameAnswer, SameOptions
  <2> QED BY <1>3, <2>1 DEF Told, SameAnswer
<1> QED BY <1>1, <1>2, <1>3

LEMMA OptionsStay ==
  ASSUME EnforcementTypeOK, NEW c \in Calls,
         \/ UNCHANGED call
         \/ \E p : call' = [call EXCEPT ![c].pc = p]
         \/ \E n : call' = [call EXCEPT ![c].passed = n]
  PROVE  \A b \in Asks : SameOptions(b)
<1>1. /\ call \in [Calls -> CallRecords]
      /\ \A b \in Asks : b[1] \in Calls
  BY AsksAreOfCalls DEF EnforcementTypeOK
<1> QED BY <1>1 DEF CallRecords, SameOptions

LEMMA CallTold ==
  ASSUME TInv, NEW c \in Calls, Start(c) \/ CallStep(c) \/ Interrupt(c)
  PROVE  \A b \in Asks, s \in Sound : Told(b, s)'
<1> SUFFICES ASSUME NEW b \in Asks, NEW s \in Sound PROVE Told(b, s)'
  OBVIOUS
<1>1. /\ EnforcementTypeOK /\ AskInv(b) /\ Told(b, s) /\ b[1] \in Calls
      /\ step \in [Asks -> Steps] /\ call \in [Calls -> CallRecords]
  BY AsksAreOfCalls DEF TInv, IInv, EnforcementTypeOK
<1>2. SameAnswer(b) /\ kept'[s][b] = kept[s][b]
  BY DEF Start, CallStep, Load, Return, Emit, EndStream, Interrupt, askVars, SameAnswer
<1>3. step'[b] = step[b] \/ step'[b] = "stopped"
  BY <1>1 DEF Start, CallStep, Load, Return, Emit, EndStream, Interrupt, askVars, Stopped
<1>4. SameOptions(b) \/ step[b] = "unasked"
  <2>1. CASE Start(c)
    BY <1>1, <2>1 DEF Start, SameOptions, AskInv, Undecided
  <2>2. CASE ~Start(c)
    <3>1. \/ \E p : call' = [call EXCEPT ![c].pc = p]
          \/ \E n : call' = [call EXCEPT ![c].passed = n]
      BY <2>2 DEF CallStep, Load, Return, Emit, EndStream, Interrupt
    <3> QED BY <1>1, <3>1, OptionsStay
  <2> QED BY <2>1, <2>2
<1> QED BY <1>1, <1>2, <1>3, <1>4, ToldLeftAlone

LEMMA AppendToOne ==
  ASSUME NEW S, NEW g \in S, NEW h \in S
  PROVE  Append(<<h>>, g) = <<h, g>>
<1> DEFINE s == Append(<<h>>, g)
           t == <<h, g>>
<1>1. s \in Seq(S) /\ Len(s) = 2 /\ s[1] = h /\ s[2] = g
  BY AppendProperties
<1>2. t \in Seq(S) /\ Len(t) = 2 /\ t[1] = h /\ t[2] = g
  OBVIOUS
<1> HIDE DEF s, t
<1>3. \A i \in 1 .. Len(s) : s[i] = t[i]
  BY <1>1, <1>2
<1>4. s = t
  BY <1>1, <1>2, <1>3, SeqEqual
<1> QED BY <1>4 DEF s, t

(* Telling: a sound sink whose turn it is keeps the record.                *)
LEMMA TellKeeps ==
  ASSUME EnforcementTypeOK, NEW a \in Asks, NEW b \in Asks, NEW s \in Sound, NEW r, Tell(a, r)
  PROVE  /\ next[a] \in 1 .. Sinks
         /\ next'[a] = next[a] + 1
         /\ kept'[s][b] = IF b = a /\ s = next[a] THEN Append(kept[s][a], r) ELSE kept[s][b]
<1>1. /\ next \in [Asks -> 1 .. Sinks + 1]
      /\ kept \in [1 .. Sinks -> [Asks -> Seq(Answers \cup Outcomes)]]
      /\ s \in 1 .. Sinks /\ s \notin Flaky
  BY DEF EnforcementTypeOK, Sound
<1>2. PICK ok \in BOOLEAN :
          /\ next[a] \notin Flaky => ok
          /\ kept' = IF ok THEN [kept EXCEPT ![next[a]][a] = Append(kept[next[a]][a], r)] ELSE kept
          /\ next' = [next EXCEPT ![a] = next[a] + 1]
  BY DEF Tell, Heard
<1>3. next[a] \in 1 .. Sinks
  BY <1>1 DEF Tell, MoreToTell
<1>4. next'[a] = next[a] + 1
  BY <1>1, <1>2
<1>5. CASE ~ok
  BY <1>1, <1>2, <1>3, <1>4, <1>5
<1>6. CASE ok
  <2>1. DOMAIN kept = 1 .. Sinks /\ DOMAIN kept[next[a]] = Asks
    BY <1>1, <1>3
  <2>2. kept' = [kept EXCEPT ![next[a]] = [kept[next[a]] EXCEPT ![a] = Append(kept[next[a]][a], r)]]
    BY <1>2, <1>6
  <2>3. CASE s # next[a]
    <3>1. kept'[s] = kept[s]
      BY <1>1, <2>1, <2>2, <2>3
    <3> QED BY <1>3, <1>4, <2>3, <3>1
  <2>4. CASE s = next[a]
    <3>1. kept'[s] = [kept[s] EXCEPT ![a] = Append(kept[s][a], r)]
      BY <1>1, <2>2, <2>4
    <3>2. kept[s] \in [Asks -> Seq(Answers \cup Outcomes)]
      BY <1>1
    <3>3. kept'[s][a] = Append(kept[s][a], r)
      BY <3>1, <3>2
    <3>4. b # a => kept'[s][b] = kept[s][b]
      BY <3>1, <3>2
    <3> QED BY <1>3, <1>4, <2>4, <3>3, <3>4
  <2> QED BY <2>3, <2>4
<1> QED BY <1>3, <1>4, <1>5, <1>6

LEMMA AskTold ==
  ASSUME TInv, NEW a \in Asks, AskStep(a)
  PROVE  \A b \in Asks, s \in Sound : Told(b, s)'
<1> SUFFICES ASSUME NEW b \in Asks, NEW s \in Sound PROVE Told(b, s)'
  OBVIOUS
<1>1. /\ EnforcementTypeOK /\ AskInv(a) /\ AskInv(b) /\ Told(b, s) /\ Told(a, s) /\ a[1] \in Calls
      /\ step \in [Asks -> Steps]
      /\ call \in [Calls -> CallRecords]
      /\ answer \in [Asks -> Answers \cup {"none"}]
      /\ duties \in [Asks -> {"none", "advisory", "binding"}]
      /\ gate \in [Asks -> Outcomes \cup {"none"}]
      /\ next \in [Asks -> 1 .. Sinks + 1]
      /\ kept \in [1 .. Sinks -> [Asks -> Seq(Answers \cup Outcomes)]]
      /\ s \in 1 .. Sinks /\ s \notin Flaky
  BY AsksAreOfCalls DEF TInv, IInv, EnforcementTypeOK, Sound
<1>2. SameOptions(a) /\ SameOptions(b)
  <2>1. \/ UNCHANGED call
        \/ \E p : call' = [call EXCEPT ![a[1]].pc = p]
    BY DEF AskStep, Ask, Decide, TellDecision, TellOutcome, Tell, ReturnAnswer, Settles, Fails,
           Discharge, Handle, HandlerDies, PassGate
  <2> QED BY <1>1, <2>1, OptionsStay
<1>3. CASE b # a
  <2>1. SameAnswer(b)
    BY <1>1, <1>3 DEF AskStep, Ask, Decide, TellDecision, TellOutcome, Tell, ReturnAnswer,
           Discharge, Handle, HandlerDies, PassGate, SameAnswer
  <2>2. kept'[s][b] = kept[s][b]
    <3>1. CASE TellDecision(a) \/ TellOutcome(a)
      BY <1>1, <1>3, <3>1, TellKeeps DEF TellDecision, TellOutcome
    <3>2. CASE ~(TellDecision(a) \/ TellOutcome(a))
      BY <3>2 DEF AskStep, Ask, Decide, ReturnAnswer, Discharge, Handle, HandlerDies, PassGate
    <3> QED BY <3>1, <3>2
  <2>3. step'[b] = step[b] \/ step'[b] = "stopped"
    <3>1. ASSUME NEW pc, Fails(a, pc) PROVE step'[b] = step[b] \/ step'[b] = "stopped"
      BY <1>1, <1>3, <3>1 DEF Fails
    <3>2. CASE Settles(a)
      BY <1>1, <1>3, <3>2 DEF Settles
    <3> QED BY <1>1, <1>3, <3>1, <3>2
            DEF AskStep, Ask, Decide, TellDecision, TellOutcome, Tell, ReturnAnswer,
                Discharge, Handle, HandlerDies, PassGate
  <2> QED BY <1>1, <1>2, <2>1, <2>2, <2>3, ToldLeftAlone
<1>4. CASE b = a
  <2>0. Told(a, s)' => Told(b, s)'
    BY <1>4
  <2> SUFFICES Told(a, s)'
    BY <2>0
  <2>1. ASSUME UNCHANGED kept, Story(a)' = kept[s][a], step'[a] \in {"settled", "failed"}
        PROVE  Told(a, s)'
    BY <2>1 DEF Told
  <2>2. ASSUME NEW pc, Fails(a, pc) PROVE step'[a] = "failed"
    BY <1>1, <2>2 DEF Fails
  <2>3. CASE Ask(a)
    BY <1>1, <2>3 DEF Ask, Told
  <2>4. CASE Decide(a)
    <3>1. next[a] = 1
      BY <1>1, <2>4 DEF Decide, AskInv, Undecided
    <3> QED BY <1>1, <2>4, <3>1 DEF Decide, Told
  <2>5. ASSUME NEW r, Tell(a, r)
        PROVE  /\ next[a] \in 1 .. Sinks
               /\ next'[a] = next[a] + 1
               /\ kept'[s][a] = IF s = next[a] THEN Append(kept[s][a], r) ELSE kept[s][a]
    BY <1>1, <2>5, TellKeeps
  <2>6. CASE TellDecision(a)
    <3>1. kept'[s][a] = IF s = next[a] THEN Append(kept[s][a], answer[a]) ELSE kept[s][a]
      BY <2>5, <2>6 DEF TellDecision
    <3>2. kept'[s][a] = IF s < next'[a] THEN <<answer[a]>> ELSE <<>>
      <4>1. next[a] \in 1 .. Sinks /\ next'[a] = next[a] + 1
        BY <2>5, <2>6 DEF TellDecision
      <4>2. kept[s][a] = IF s < next[a] THEN <<answer[a]>> ELSE <<>>
        BY <1>1, <2>6 DEF TellDecision, Told
      <4>3. Append(<<>>, answer[a]) = <<answer[a]>>
        OBVIOUS
      <4>4. CASE s = next[a]
        <5>1. kept[s][a] = <<>> /\ s < next'[a]
          BY <1>1, <4>1, <4>2, <4>4
        <5> QED BY <3>1, <4>3, <4>4, <5>1
      <4>5. CASE s # next[a]
        <5>1. (s < next[a]) = (s < next'[a])
          BY <1>1, <4>1, <4>5
        <5> QED BY <3>1, <4>2, <4>5, <5>1
      <4> QED BY <4>4, <4>5
    <3> QED BY <2>6, <3>2 DEF TellDecision, Tell, Told
  <2>7. CASE TellOutcome(a)
    <3>1. kept'[s][a] = IF s = next[a] THEN Append(kept[s][a], gate[a]) ELSE kept[s][a]
      BY <2>5, <2>7 DEF TellOutcome
    <3>2. kept'[s][a] = IF s < next'[a] THEN <<"Allow", gate[a]>> ELSE <<"Allow">>
      <4>1. next[a] \in 1 .. Sinks /\ next'[a] = next[a] + 1
        BY <2>5, <2>7 DEF TellOutcome
      <4>2. kept[s][a] = IF s < next[a] THEN <<"Allow", gate[a]>> ELSE <<"Allow">>
        BY <1>1, <2>7 DEF TellOutcome, Told
      <4>3. Append(<<"Allow">>, gate[a]) = <<"Allow", gate[a]>>
        <5>1. gate[a] \in Answers \cup Outcomes /\ "Allow" \in Answers \cup Outcomes
          BY <1>1, <2>7 DEF TellOutcome, AskInv, AtGate, Unhandled, Answers, Outcomes
        <5> QED BY <5>1, AppendToOne
      <4>4. CASE s = next[a]
        <5>1. kept[s][a] = <<"Allow">> /\ s < next'[a]
          BY <1>1, <4>1, <4>2, <4>4
        <5> QED BY <3>1, <4>3, <4>4, <5>1
      <4>5. CASE s # next[a]
        <5>1. (s < next[a]) = (s < next'[a])
          BY <1>1, <4>1, <4>5
        <5> QED BY <3>1, <4>2, <4>5, <5>1
      <4> QED BY <4>4, <4>5
    <3> QED BY <2>7, <3>2 DEF TellOutcome, Tell, Told
  <2>8. CASE ReturnAnswer(a)
    <3>1. kept[s][a] = <<answer[a]>>
      BY <1>1, <2>8 DEF ReturnAnswer, MoreToTell, Told
    <3>2. step'[a] \in {"settled", "failed"}
      BY <1>1, <2>2, <2>8 DEF ReturnAnswer, Settles
    <3>3. Story(a)' = <<answer[a]>>
      BY <1>1, <1>2, <2>8 DEF ReturnAnswer, Story, Op, SameOptions
    <3> QED BY <2>1, <2>8, <3>1, <3>2, <3>3 DEF ReturnAnswer
  <2>9. CASE Discharge(a)
    <3>1. kept[s][a] = <<"Allow">>
      BY <1>1, <2>9 DEF Discharge, MoreToTell, Told
    <3>2. next'[a] = 1 /\ step'[a] \in {"handling", "recording"}
      BY <1>1, <2>9 DEF Discharge
    <3> QED BY <1>1, <2>9, <3>1, <3>2 DEF Discharge, Told
  <2>10. CASE Handle(a)
    <3>1. kept[s][a] = <<"Allow">> /\ next[a] = 1
      BY <1>1, <2>10 DEF Handle, Told, AskInv, AtGate
    <3> QED BY <1>1, <2>10, <3>1 DEF Handle, Told
  <2>11. CASE HandlerDies(a)
    <3>1. kept[s][a] = <<"Allow">> /\ gate[a] = "none" /\ Handler(a)
      BY <1>1, <2>11 DEF HandlerDies, Told, AskInv, AtGate
    <3>2. step'[a] = "failed" /\ Handler(a)'
      BY <1>2, <2>2, <2>11, <3>1 DEF HandlerDies, SameOptions, Handler
    <3> QED BY <2>11, <3>1, <3>2 DEF HandlerDies, Told
  <2>12. CASE PassGate(a)
    <3>1. kept[s][a] = <<"Allow", gate[a]>>
      BY <1>1, <2>12 DEF PassGate, MoreToTell, Told
    <3>2. step'[a] = IF gate[a] \in Passes THEN "settled" ELSE "failed"
      BY <1>1, <2>2, <2>12 DEF PassGate, Settles
    <3>3. /\ answer[a] = "Allow" /\ duties[a] # "none" /\ Op(a) \notin Reporting
          /\ IF Handler(a) THEN gate[a] \in {"Discharged", "HandlerFailed"}
             ELSE gate[a] = Unhandled(a)
      BY <1>1, <2>12 DEF PassGate, AskInv, AtGate
    <3>4. /\ Op(a)' = Op(a) /\ Handler(a)' = Handler(a) /\ Unhandled(a)' = Unhandled(a)
          /\ answer'[a] = answer[a] /\ duties'[a] = duties[a]
      BY <1>2, <2>12 DEF PassGate, SameOptions, Op, Handler, Unhandled
    <3>5. Story(a)' = <<"Allow", gate[a]>>
      BY <3>2, <3>3, <3>4 DEF Story, Passes
    <3> QED BY <2>1, <2>12, <3>1, <3>2, <3>5 DEF PassGate
  <2> QED BY <2>3, <2>4, <2>6, <2>7, <2>8, <2>9, <2>10, <2>11, <2>12 DEF AskStep
<1> QED BY <1>3, <1>4

LEMMA TInvInit == Init => TInv
<1> SUFFICES ASSUME Init PROVE \A a \in Asks, s \in Sound : Told(a, s)
  BY InvInit DEF TInv
<1> QED BY DEF Init, Told, Sound

LEMMA TInvStep == TInv /\ [Next]_vars => TInv'
<1> SUFFICES ASSUME TInv, [Next]_vars PROVE \A a \in Asks, s \in Sound : Told(a, s)'
  BY InvStep DEF TInv, Sound
<1>1. CASE AllOver \/ UNCHANGED vars
  <2>1. UNCHANGED vars
    BY <1>1 DEF AllOver
  <2> SUFFICES ASSUME NEW a \in Asks, NEW s \in Sound PROVE Told(a, s)'
    BY DEF Sound
  <2>2. Told(a, s)
    BY DEF TInv
  <2>3. Story(a)' = Story(a)
    BY <2>1 DEF vars, Story, Op, Handler, Unhandled
  <2>4. /\ Handler(a)' = Handler(a) /\ step'[a] = step[a] /\ kept'[s][a] = kept[s][a] /\ next'[a] = next[a]
        /\ answer'[a] = answer[a] /\ gate'[a] = gate[a]
    BY <2>1 DEF vars, Handler
  <2> QED BY <2>2, <2>3, <2>4 DEF Told
<1> QED BY <1>1, CallTold, AskTold DEF Next

(* However many sinks are told, and whichever of them lose records, every  *)
(* other one has the whole story of what was enforced or refused.          *)
(* (Lifecycle.ts, decideQuestion; Qadi.ts, discharge; decisionSinkAll)     *)
THEOREM SoundSinksTellTheOutcome == Spec => []SinksTellTheOutcome
<1>1. TInv => SinksTellTheOutcome
  BY DEF TInv, Told, Sound, SinksTellTheOutcome
<1> QED BY <1>1, TInvInit, TInvStep, PTL DEF Spec

-----------------------------------------------------------------------------
(* A settled question has a verdict, unless a report keeps its failure; a  *)
(* filter that returned has settled every question and handed over what it *)
(* allowed; a stream has handed over what it allowed of those it passed.   *)
Verdicts(a) ==
    step[a] = "settled" => answer[a] \in {"Allow", "Deny"} \/ CapturesFailure(Op(a))

Filtered(a) ==
    Op(a) = "filter" /\ call[a[1]].pc = "returned" /\ a[2] <= call[a[1]].width =>
        /\ step[a] = "settled"
        /\ a \in released <=> answer[a] = "Allow"

Streamed(a) ==
    Op(a) = "filterStream" /\ a[2] <= call[a[1]].width =>
        /\ a[2] <= call[a[1]].passed => step[a] = "settled"
        /\ a \in released <=> a[2] <= call[a[1]].passed /\ answer[a] = "Allow"

Whole(a) == Verdicts(a) /\ Filtered(a) /\ Streamed(a)

WInv == IInv /\ \A a \in Asks : Whole(a)

(* Asks of one call are those within its width.                            *)
LEMMA AsksWithin ==
  ASSUME call \in [Calls -> CallRecords], NEW c \in Calls
  PROVE  AsksOf(c) = {a \in Asks : a[1] = c /\ a[2] <= call[c].width}
<1>1. call[c].width \in 0 .. MaxItems /\ MaxItems \in Nat
  BY DEF CallRecords
<1>2. AsksOf(c) \subseteq {a \in Asks : a[1] = c /\ a[2] <= call[c].width}
  BY <1>1 DEF AsksOf, Asks
<1>3. ASSUME NEW a \in Asks, a[1] = c, a[2] <= call[c].width PROVE a \in AsksOf(c)
  <2>1. a = <<c, a[2]>> /\ a[2] \in 1 .. call[c].width
    BY <1>1, <1>3 DEF Asks
  <2> QED BY <2>1 DEF AsksOf
<1> QED BY <1>2, <1>3

(* A question whose call goes on, or ends without returning.               *)
LEMMA WholeAlone ==
  ASSUME NEW b \in Asks, Whole(b), SameOptions(b),
         call'[b[1]].width = call[b[1]].width,
         call'[b[1]].passed = call[b[1]].passed,
         call'[b[1]].pc = "returned" => call[b[1]].pc = "returned",
         (b \in released') = (b \in released),
         step[b] = "settled" => step'[b] = "settled" /\ answer'[b] = answer[b],
         step'[b] = "settled" => step[b] = "settled" \/ Verdicts(b)'
  PROVE  Whole(b)'
  BY DEF Whole, Verdicts, Filtered, Streamed, SameOptions, Op

LEMMA CallWhole ==
  ASSUME WInv, NEW c \in Calls, Start(c) \/ CallStep(c) \/ Interrupt(c)
  PROVE  \A b \in Asks : Whole(b)'
<1> SUFFICES ASSUME NEW b \in Asks PROVE Whole(b)'
  OBVIOUS
<1>1. /\ EnforcementTypeOK /\ AskInv(b) /\ Whole(b) /\ b[1] \in Calls /\ b[2] \in 1 .. MaxItems
      /\ step \in [Asks -> Steps] /\ call \in [Calls -> CallRecords]
      /\ b = <<b[1], b[2]>>
      /\ call[c].passed \in Nat /\ call[b[1]].passed \in Nat
      /\ call[b[1]].width \in Nat
  <2>1. EnforcementTypeOK /\ AskInv(b) /\ Whole(b)
    BY DEF WInv, IInv
  <2>2. b[1] \in Calls /\ b[2] \in 1 .. MaxItems /\ b = <<b[1], b[2]>>
    BY DEF Asks
  <2>3. step \in [Asks -> Steps] /\ call \in [Calls -> CallRecords]
    BY <2>1 DEF EnforcementTypeOK
  <2>4. \A d \in Calls : call[d].passed \in 0 .. MaxItems /\ call[d].width \in 0 .. MaxItems
    BY <2>3 DEF CallRecords
  <2> QED BY <2>1, <2>2, <2>3, <2>4
<1>2. answer' = answer
  BY DEF Start, CallStep, Load, Return, Emit, EndStream, Interrupt, askVars
<1>3. /\ step[b] = "settled" => step'[b] = "settled"
      /\ step'[b] = "settled" => step[b] = "settled"
  BY <1>1 DEF Start, CallStep, Load, Return, Emit, EndStream, Interrupt, askVars, Stopped, Busy, InFlight
<1>4. ASSUME call'[b[1]] = call[b[1]], (b \in released') = (b \in released) PROVE Whole(b)'
  BY <1>1, <1>2, <1>3, <1>4, WholeAlone DEF SameOptions
<1>5. ASSUME NEW pc, pc # "returned", call' = [call EXCEPT ![c].pc = pc], released' = released
      PROVE  Whole(b)'
  <2>1. CASE b[1] = c
    <3>1. /\ call'[b[1]].op = call[b[1]].op /\ call'[b[1]].handler = call[b[1]].handler
          /\ call'[b[1]].width = call[b[1]].width /\ call'[b[1]].passed = call[b[1]].passed
          /\ call'[b[1]].pc = pc
      BY <1>1, <1>5, <2>1 DEF CallRecords
    <3> QED BY <1>1, <1>2, <1>3, <1>5, <3>1, WholeAlone DEF SameOptions
  <2>2. CASE b[1] # c
    BY <1>1, <1>4, <1>5, <2>2
  <2> QED BY <2>1, <2>2
<1>6. CASE Start(c)
  <2>1. CASE b[1] = c
    <3>1. step[b] = "unasked" /\ b \notin released /\ released' = released /\ step' = step
      BY <1>1, <1>6, <2>1 DEF Start, AskInv, Undecided, HandedOver, askVars
    <3>2. call'[c].passed = 0 /\ call'[c].pc \in {"loading", "asking"}
      BY <1>1, <1>6 DEF Start
    <3> QED BY <1>1, <2>1, <3>1, <3>2 DEF Whole, Verdicts, Filtered, Streamed
  <2>2. CASE b[1] # c
    BY <1>1, <1>4, <1>6, <2>2 DEF Start
  <2> QED BY <2>1, <2>2
<1>7. CASE Load(c)
  BY <1>5, <1>7 DEF Load
<1>8. CASE Return(c)
  <2>1. CASE b[1] # c
    <3>1. b \notin Allowed(c)
      BY <2>1 DEF Allowed, AsksOf
    <3> QED BY <1>1, <1>4, <1>8, <2>1, <3>1 DEF Return
  <2>2. CASE b[1] = c
    <3>1. /\ call'[c].op = call[c].op /\ call'[c].handler = call[c].handler
          /\ call'[c].width = call[c].width /\ call'[c].passed = call[c].passed
      BY <1>1, <1>8 DEF Return, CallRecords
    <3>2. AsksOf(c) = {a \in Asks : a[1] = c /\ a[2] <= call[c].width}
      BY <1>1, AsksWithin
    <3>3. CASE call[c].op = "filter"
      <4>1. released' = released \cup Allowed(c)
        BY <1>8, <3>3 DEF Return, Reporting
      <4>2. b \notin released
        BY <1>1, <1>8, <2>2, <3>3 DEF Return, AskInv, HandedOver
      <4>3. b[2] <= call[c].width => step[b] = "settled" /\ (b \in Allowed(c) <=> answer[b] = "Allow")
        BY <1>8, <2>2, <3>2 DEF Return, Settled, Allowed
      <4> QED BY <1>1, <1>2, <1>3, <2>2, <3>1, <3>3, <4>1, <4>2, <4>3
              DEF Whole, Verdicts, Filtered, Streamed, Op
    <3>4. CASE call[c].op = "filterStream"
      <4>1. released' = released
        BY <1>8, <3>4 DEF Return
      <4> QED BY <1>1, <1>2, <1>3, <2>2, <3>1, <3>4, <4>1 DEF Whole, Verdicts, Filtered, Streamed, Op
    <3>5. CASE call[c].op \notin {"filter", "filterStream"}
      BY <1>1, <1>2, <1>3, <2>2, <3>1, <3>5 DEF Whole, Verdicts, Filtered, Streamed, Op
    <3> QED BY <3>3, <3>4, <3>5
  <2> QED BY <2>1, <2>2
<1>9. CASE Emit(c)
  <2> DEFINE n == call[c].passed + 1
  <2>1. call' = [call EXCEPT ![c].passed = n]
    BY <1>9 DEF Emit
  <2>2. /\ <<c, n>> \in AsksOf(c) /\ step[<<c, n>>] = "settled" /\ call[c].op = "filterStream"
        /\ released' = IF answer[<<c, n>>] = "Allow" THEN released \cup {<<c, n>>} ELSE released
    BY <1>9 DEF Emit
  <2>3. CASE b[1] # c
    <3>1. b # <<c, n>>
      BY <2>3
    <3>2. call'[b[1]] = call[b[1]] /\ ((b \in released') = (b \in released))
      BY <1>1, <2>1, <2>2, <2>3, <3>1
    <3> QED BY <1>4, <3>2
  <2>4. CASE b[1] = c
    <3>1. /\ call'[c].op = call[c].op /\ call'[c].width = call[c].width
          /\ call'[c].pc = call[c].pc /\ call'[c].passed = n
      BY <1>1, <2>1 DEF CallRecords
    <3>2. CASE b[2] = n
      <4>1. b = <<c, n>>
        BY <1>1, <2>4, <3>2
      <4>2. b \notin released
        BY <1>1, <1>9, <2>4, <3>2 DEF Emit, Live, AskInv, HandedOver
      <4>3. step[b] = "settled" /\ released' = IF answer[b] = "Allow" THEN released \cup {b} ELSE released
        BY <2>2, <4>1
      <4> HIDE DEF n
      <4> QED BY <1>1, <1>2, <1>3, <2>2, <2>4, <3>1, <3>2, <4>2, <4>3
              DEF Whole, Verdicts, Filtered, Streamed, Op
    <3>3. CASE b[2] # n
      <4>1. b # <<c, n>>
        BY <3>3
      <4>2. (b \in released') = (b \in released)
        BY <2>2, <4>1
      <4>3. (b[2] <= n) = (b[2] <= call[c].passed)
        BY <1>1, <3>3
      <4> HIDE DEF n
      <4> QED BY <1>1, <1>2, <1>3, <2>2, <2>4, <3>1, <4>2, <4>3
              DEF Whole, Verdicts, Filtered, Streamed, Op
    <3> QED BY <3>2, <3>3
  <2> QED BY <2>3, <2>4
<1>10. CASE EndStream(c)
  BY <1>5, <1>10 DEF EndStream
<1>11. CASE Interrupt(c)
  BY <1>5, <1>11 DEF Interrupt
<1> QED BY <1>6, <1>7, <1>8, <1>9, <1>10, <1>11 DEF CallStep

LEMMA AskWhole ==
  ASSUME WInv, NEW a \in Asks, AskStep(a)
  PROVE  \A b \in Asks : Whole(b)'
<1> SUFFICES ASSUME NEW b \in Asks PROVE Whole(b)'
  OBVIOUS
<1>1. /\ EnforcementTypeOK /\ AskInv(a) /\ Whole(a) /\ Whole(b) /\ a[1] \in Calls /\ b[1] \in Calls
      /\ step \in [Asks -> Steps] /\ call \in [Calls -> CallRecords]
      /\ answer \in [Asks -> Answers \cup {"none"}]
      /\ released' = released
  BY AsksAreOfCalls
  DEF WInv, IInv, EnforcementTypeOK, AskStep, Ask, Decide, TellDecision, TellOutcome, Tell, ReturnAnswer,
      Discharge, Handle, HandlerDies, PassGate
<1>2. PICK pc \in (Over \cup {"failing"}) \ {"returned"} :
          call' = call \/ call' = [call EXCEPT ![a[1]].pc = pc]
  <2>1. ASSUME NEW p \in {"failed", "died"}, Fails(a, p)
        PROVE  call' = [call EXCEPT ![a[1]].pc = "failing"] \/ call' = [call EXCEPT ![a[1]].pc = p]
    BY <2>1 DEF Fails
  <2>2. /\ Fails(a, "failed") \/ Fails(a, "died") \/ call' = call
        /\ {"failing", "failed", "died"} \subseteq (Over \cup {"failing"}) \ {"returned"}
    BY DEF AskStep, Ask, Decide, TellDecision, TellOutcome, Tell, ReturnAnswer, Settles,
           Discharge, Handle, HandlerDies, PassGate, Over
  <2> QED BY <2>1, <2>2
<1>3. /\ SameOptions(b)
      /\ call'[b[1]].width = call[b[1]].width
      /\ call'[b[1]].passed = call[b[1]].passed
      /\ call'[b[1]].pc = "returned" => call[b[1]].pc = "returned"
  BY <1>1, <1>2 DEF SameOptions, CallRecords
<1>4. step[a] # "settled"
  BY DEF AskStep, Ask, Decide, TellDecision, TellOutcome, ReturnAnswer, Discharge, Handle, HandlerDies,
         PassGate
<1>5. ASSUME NEW pc2, Fails(a, pc2)
      PROVE  /\ step'[a] = "failed"
             /\ step'[b] = step[b] \/ (step'[b] = "stopped" /\ step[b] \in InFlight) \/ b = a
  <2>1. ASSUME NEW T, step' = [x \in Asks |-> IF x = a THEN "failed" ELSE IF x \in T THEN "stopped" ELSE step[x]],
               \A x \in T : step[x] \in InFlight
        PROVE  /\ step'[a] = "failed"
               /\ step'[b] = step[b] \/ (step'[b] = "stopped" /\ step[b] \in InFlight) \/ b = a
    BY <2>1
  <2>2. CASE Op(a) = "filterStream"
    BY <1>1, <1>5, <2>2 DEF Fails
  <2>3. CASE Op(a) # "filterStream"
    <3>1. \A x \in StoppedWith(a) : step[x] \in InFlight
      BY DEF StoppedWith
    <3> QED BY <1>5, <2>1, <2>3, <3>1 DEF Fails
  <2> QED BY <2>2, <2>3
<1>6. \/ b = a
      \/ /\ answer'[b] = answer[b]
         /\ step'[b] = step[b] \/ (step'[b] = "stopped" /\ step[b] \in InFlight)
  BY <1>1, <1>5
  DEF AskStep, Ask, Decide, TellDecision, TellOutcome, Tell, ReturnAnswer, Settles, Discharge, Handle,
      HandlerDies, PassGate
<1>7. step'[a] = "settled" => Verdicts(a)'
  <2>1. CASE ReturnAnswer(a)
    <3>1. answer' = answer /\ Op(a)' = Op(a)
      BY <1>1, <1>2, <2>1 DEF ReturnAnswer, Op, CallRecords
    <3>2. step'[a] = "settled" => answer[a] \in {"Allow", "Deny"} \/ CapturesFailure(Op(a))
      BY <1>5, <2>1 DEF ReturnAnswer
    <3> QED BY <3>1, <3>2 DEF Verdicts, CapturesFailure
  <2>2. CASE PassGate(a)
    BY <1>1, <2>2 DEF PassGate, AskInv, AtGate, Verdicts
  <2>3. CASE ~ReturnAnswer(a) /\ ~PassGate(a)
    BY <1>1, <1>4, <1>5, <2>3
    DEF AskStep, Ask, Decide, TellDecision, TellOutcome, Tell, Discharge, Handle, HandlerDies
  <2> QED BY <2>1, <2>2, <2>3
<1>8. CASE b = a
  BY <1>1, <1>3, <1>4, <1>7, <1>8, WholeAlone
<1>9. CASE b # a
  <2>1. step[b] = "settled" => step'[b] = "settled" /\ answer'[b] = answer[b]
    BY <1>6, <1>9 DEF InFlight
  <2>2. step'[b] = "settled" => step[b] = "settled"
    BY <1>6, <1>9
  <2> QED BY <1>1, <1>3, <2>1, <2>2, WholeAlone
<1> QED BY <1>8, <1>9

LEMMA WholeInit == Init => WInv
<1> SUFFICES ASSUME Init PROVE \A a \in Asks : Whole(a)
  BY InvInit DEF WInv
<1> QED BY AsksAreOfCalls DEF Init, Whole, Verdicts, Filtered, Streamed, Idle, Op

LEMMA WholeStep == WInv /\ [Next]_vars => WInv'
<1> SUFFICES ASSUME WInv, [Next]_vars PROVE \A a \in Asks : Whole(a)'
  BY InvStep DEF WInv
<1>1. CASE AllOver \/ UNCHANGED vars
  BY <1>1 DEF AllOver, vars, WInv, Whole, Verdicts, Filtered, Streamed, Op
<1> QED BY <1>1, CallWhole, AskWhole DEF Next

LEMMA WholeIsReturned == WInv => WhatIsReturnedIsWhole
<1> SUFFICES ASSUME WInv, NEW c \in Calls
             PROVE  LET out == released \cap AsksOf(c)
                        through == {a \in AsksOf(c) : a[2] <= call[c].passed}
                    IN /\ call[c].op = "filter" /\ out # {} =>
                              /\ call[c].pc = "returned"
                              /\ \A a \in AsksOf(c) : answer[a] \in {"Allow", "Deny"}
                              /\ out = Allowed(c)
                       /\ call[c].op = "filter" /\ call[c].pc = "returned" =>
                              \A a \in AsksOf(c) : answer[a] \in {"Allow", "Deny"}
                       /\ call[c].op = "filterStream" =>
                              /\ out = through \cap Allowed(c)
                              /\ \A a \in through : answer[a] \in {"Allow", "Deny"} /\ step[a] = "settled"
  BY DEF WhatIsReturnedIsWhole
<1> DEFINE out == released \cap AsksOf(c)
           through == {a \in AsksOf(c) : a[2] <= call[c].passed}
<1>1. call \in [Calls -> CallRecords]
  BY DEF WInv, IInv, EnforcementTypeOK
<1>2. \A a \in AsksOf(c) : /\ a[1] = c /\ a[2] <= call[c].width
                           /\ AskInv(a) /\ Whole(a) /\ Op(a) = call[c].op
  BY <1>1, AsksWithin DEF WInv, IInv, Op
<1>3. call[c].op = "filter" /\ out # {} => call[c].pc = "returned"
  BY <1>2 DEF AskInv, HandedOver
<1>4. call[c].op = "filter" /\ call[c].pc = "returned" =>
          /\ \A a \in AsksOf(c) : answer[a] \in {"Allow", "Deny"}
          /\ out = Allowed(c)
  BY <1>2 DEF Whole, Filtered, Verdicts, CapturesFailure, Allowed
<1>5. call[c].op = "filterStream" =>
          /\ out = through \cap Allowed(c)
          /\ \A a \in through : answer[a] \in {"Allow", "Deny"} /\ step[a] = "settled"
  BY <1>2 DEF Whole, Streamed, Verdicts, CapturesFailure, Allowed
<1> QED BY <1>3, <1>4, <1>5

(* However many items, and in whatever order their questions are settled,  *)
(* fail or are stopped, a filter hands over every allowed item or nothing, *)
(* and a stream the allowed ones of those that went through.               *)
(* (Qadi.ts, filter and filterStream)                                      *)
THEOREM FiltersReturnTheWhole == Spec => []WhatIsReturnedIsWhole
  BY WholeInit, WholeStep, WholeIsReturned, PTL DEF Spec

=============================================================================
