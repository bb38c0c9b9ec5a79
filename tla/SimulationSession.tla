------------------------- MODULE SimulationSession --------------------------
(***************************************************************************)
(* A simulator's session (packages/devtools/src/model/SimulationSession.ts *)
(* and HeldChoice.ts): which policy, input and source a run is asked with, *)
(* which run is current, what a superseded one may still do, and when a    *)
(* capture of live answers is taken and dropped.                           *)
(*                                                                         *)
(* A call of `run`, `reap` or `dispose` waits where the code yields, and   *)
(* the commands come in between.  A run's evaluation is a fiber of its     *)
(* own, that may take any time to end once it is interrupted.  The clock,  *)
(* the pairs and the text of the resource field are left out: they are     *)
(* kept, handed to the next run and nothing else.                          *)
(***************************************************************************)
EXTENDS Integers, Sequences, FiniteSets, SequencesExt

CONSTANTS
    Calls,        \* calls of run, reap and dispose
    Sightable,    \* the policies a rail may list
    Layers,       \* the ports a host may pass
    Rows,         \* logged rows: [tag, policy], a decision or an orphan
    Nothing,      \* stands for undefined
    MaxCommands   \* commands given to one session

ASSUME NothingAssumption == Nothing \notin Calls

VARIABLES
    sightings,    \* the rail, a sequence of policies
    held,         \* the chosen policy
    seedEntry,    \* the logged row the form was seeded from
    seeded,       \* whether its policy is the chosen one
    draft,        \* the input in the form
    sourceChoice, ports, capture,
    runState,     \* what is shown
    generation, current, retired,
    call,         \* where each call is
    fiber,        \* each run's evaluation
    overtaken,    \* where each run was when something later last superseded it
    commands      \* how many commands were given

sessionVars == <<sightings, held, seedEntry, seeded, draft, sourceChoice, ports,
                 capture, runState, generation, current, retired, call, fiber,
                 overtaken, commands>>

SourceChoice == {"Fixtures", "Snapshot", "Live"}
Idle == [tag |-> "Idle"]
CallAt(pc) == [pc |-> pc, parked |-> <<>>]

-----------------------------------------------------------------------------
(* The choice: held by value, the head of the rail where nothing is.       *)

pinHead(list, choice) ==
    IF choice = Nothing /\ list # <<>> THEN Head(list) ELSE choice

policyNow ==
    IF seeded THEN seedEntry.policy ELSE pinHead(sightings, held)

isDecision(row) == row # Nothing /\ row.tag = "decision"

seedOf ==
    IF seeded \/ ~isDecision(seedEntry) THEN seedEntry ELSE Nothing

(* What a chosen source answers from, or why it cannot be honoured: never  *)
(* the fixtures instead.                                                   *)
resolveSource ==
    CASE sourceChoice = "Fixtures" -> <<"Available", "Fixtures">>
      [] sourceChoice = "Snapshot" ->
             IF capture = Nothing THEN <<"Unavailable", "SnapshotWithoutCapture">>
             ELSE <<"Available", "Snapshot", capture>>
      [] sourceChoice = "Live" ->
             IF ports = Nothing THEN <<"Unavailable", "LiveWithoutPorts">>
             ELSE <<"Available", "Live", ports>>

HasQuestion == runState.tag # "Idle"

stale ==
    /\ HasQuestion
    /\ \/ runState.question.input # draft
       \/ policyNow = Nothing \/ runState.question.policy # policyNow
       \/ runState.question.seed # seedOf

baseline ==
    IF runState.tag = "Ran" /\ ~stale THEN seedOf ELSE Nothing

-----------------------------------------------------------------------------
(* Superseding a run: the generation moves and its fiber is parked.        *)

Parked == IF current = Nothing THEN retired ELSE Append(retired, current)

(* Its question read and its evaluation not forked yet.                    *)
Waits(c) == call[c].pc = "reaping" /\ call[c].then \in {"fork", "refuse"}

Overtaken ==
    [c \in Calls |-> IF call[c].pc = "awaiting" THEN "evaluated"
                     ELSE IF Waits(c) THEN "waiting"
                     ELSE overtaken[c]]

(* A mutation: the generation stays.                                       *)
ParkOnly ==
    /\ generation' = generation
    /\ current' = Nothing
    /\ overtaken' = Overtaken

Supersede ==
    /\ generation' = generation + 1
    /\ current' = Nothing
    /\ overtaken' = Overtaken

retire == Supersede /\ retired' = Parked

supersessionVars == <<generation, retired, current, overtaken>>

(* Interrupting what is parked, one after the other, each awaited.         *)
Interrupted(f, c) == IF f[c] = "going" THEN [f EXCEPT ![c] = "stopping"] ELSE f

(* The call takes what is parked and interrupts the first.  It goes on at  *)
(* once, before anything else happens, when none of it is still to end.    *)
(* Then it reads its question, forks or refuses what it asked, or ends.    *)
Reap(c, parked, then, asked) ==
    /\ call' = [call EXCEPT ![c] = [pc |-> "reaping", parked |-> parked,
                    then |-> then, asked |-> asked,
                    waits |-> \E f \in ToSet(parked) : fiber[f] \in {"going", "stopping"}]]
    /\ fiber' = IF parked = <<>> THEN fiber ELSE Interrupted(fiber, Head(parked))

GoesOn(c) == call[c].pc = "reaping" /\ ~call[c].waits

ReapNext(c) ==
    /\ call[c].pc = "reaping" /\ call[c].parked # <<>>
    /\ fiber[Head(call[c].parked)] \notin {"going", "stopping"}
    /\ call' = [call EXCEPT ![c].parked = Tail(@)]
    /\ fiber' = IF Len(call[c].parked) = 1 THEN fiber
                ELSE Interrupted(fiber, call[c].parked[2])
    /\ UNCHANGED <<sightings, held, seedEntry, seeded, draft, sourceChoice, ports,
                   capture, runState, supersessionVars, commands>>

Reaped(c, then) == call[c].pc = "reaping" /\ call[c].parked = <<>> /\ call[c].then = then

-----------------------------------------------------------------------------
(* The commands.                                                           *)

Command ==
    /\ commands < MaxCommands
    /\ commands' = commands + 1
    /\ UNCHANGED <<call, fiber>>

setSightings(list) ==
    /\ Command /\ list # sightings
    /\ sightings' = list
    /\ held' = IF seeded THEN held ELSE pinHead(list, held)
    /\ UNCHANGED <<seedEntry, seeded, draft, sourceChoice, ports, capture, runState,
                   supersessionVars>>

choosePolicy(p) ==
    /\ Command
    /\ seeded \/ held # p \/ runState.tag # "Idle"
    /\ held' = p /\ seeded' = FALSE
    /\ retire /\ runState' = Idle
    /\ UNCHANGED <<sightings, seedEntry, draft, sourceChoice, ports, capture>>

seed(row) ==
    /\ Command /\ row # seedEntry
    /\ seedEntry' = row /\ seeded' = isDecision(row)
    /\ draft' = IF isDecision(row) THEN <<"row", row>> ELSE draft
    /\ held' = IF isDecision(row) THEN held ELSE pinHead(sightings, held)
    /\ retire /\ runState' = Idle
    /\ UNCHANGED <<sightings, sourceChoice, ports, capture>>

setPorts(layer) ==
    /\ Command /\ layer # ports
    /\ ports' = layer /\ capture' = Nothing
    /\ IF runState.tag = "Running" THEN retire /\ runState' = Idle
       ELSE UNCHANGED <<runState, supersessionVars>>
    /\ UNCHANGED <<sightings, held, seedEntry, seeded, draft, sourceChoice>>

chooseSource(choice) ==
    /\ Command /\ choice # sourceChoice
    /\ sourceChoice' = choice
    /\ UNCHANGED <<sightings, held, seedEntry, seeded, draft, ports, capture, runState,
                   supersessionVars>>

edit ==
    /\ Command
    /\ draft' = <<"edit", commands>>
    /\ UNCHANGED <<sightings, held, seedEntry, seeded, sourceChoice, ports, capture,
                   runState, supersessionVars>>

-----------------------------------------------------------------------------
(* The effects.                                                            *)

UntouchedByCalls ==
    UNCHANGED <<sightings, held, seedEntry, seeded, draft, sourceChoice, ports, commands>>

Start(c, then) ==
    /\ call[c].pc = "idle"
    /\ Reap(c, retired, then, Nothing)
    /\ retired' = <<>>
    /\ UntouchedByCalls
    /\ UNCHANGED <<capture, runState, generation, current, overtaken>>

StartRun(c) == Start(c, "ask")
StartReap(c) == Start(c, "end")

(* The question is read, what runs is superseded, and reaped.              *)
Ask(c) ==
    /\ Reaped(c, "ask")
    /\ LET question == [policy |-> policyNow, input |-> draft, seed |-> seedOf,
                        source |-> sourceChoice]
           then == IF resolveSource[1] = "Available" THEN "fork" ELSE "refuse"
       IN  IF policyNow = Nothing
           THEN /\ call' = [call EXCEPT ![c] = CallAt("ended")]
                /\ UNCHANGED <<supersessionVars, fiber>>
           ELSE /\ Supersede /\ retired' = <<>>
                /\ Reap(c, Parked, then, [question |-> question, source |-> resolveSource])
    /\ UntouchedByCalls
    /\ UNCHANGED <<capture, runState>>

Refuse(c) ==
    /\ Reaped(c, "refuse")
    /\ runState' = [tag |-> "Refused", question |-> call[c].asked.question,
               refusal |-> call[c].asked.source[2]]
    /\ call' = [call EXCEPT ![c] = CallAt("ended")]
    /\ UntouchedByCalls
    /\ UNCHANGED <<capture, supersessionVars, fiber>>

Fork(c) ==
    /\ Reaped(c, "fork")
    /\ runState' = [tag |-> "Running", question |-> call[c].asked.question]
    /\ fiber' = [fiber EXCEPT ![c] = "going"]
    /\ current' = c
    /\ call' = [call EXCEPT ![c] = [pc |-> "awaiting", parked |-> <<>>, mine |-> generation,
                                    asked |-> @.asked]]
    /\ UntouchedByCalls
    /\ UNCHANGED <<capture, generation, retired, overtaken>>

(* The evaluation answers or breaks, or has ended once it was interrupted. *)
Settle(c) ==
    /\ \/ fiber[c] = "going" /\ \E end \in {"ok", "broke"} : fiber' = [fiber EXCEPT ![c] = end]
       \/ fiber[c] = "stopping" /\ fiber' = [fiber EXCEPT ![c] = "stopped"]
    /\ UntouchedByCalls
    /\ UNCHANGED <<capture, runState, supersessionVars, call>>

(* What it answered is shown, unless the generation moved since the fork.  *)
Land(c) ==
    /\ call[c].pc = "awaiting" /\ fiber[c] \in {"ok", "broke", "stopped"}
    /\ call' = [call EXCEPT ![c] = CallAt("ended")]
    /\ IF call[c].mine # generation THEN UNCHANGED <<current, capture, runState>>
       ELSE /\ current' = Nothing
            /\ runState' = [tag |-> IF fiber[c] = "ok" THEN "Ran" ELSE "Broke",
                       question |-> call[c].asked.question, by |-> c,
                       source |-> call[c].asked.source]
            /\ capture' = IF fiber[c] = "ok" /\ call[c].asked.source[2] = "Live"
                          THEN call[c].asked.source[3] ELSE capture
    /\ UntouchedByCalls
    /\ UNCHANGED <<generation, retired, overtaken, fiber>>

(* The call itself is interrupted: what it awaits is interrupted, what it  *)
(* had parked and not come to yet is not.                                  *)
InterruptCall(c) ==
    /\ call[c].pc \in {"reaping", "awaiting"} /\ ~GoesOn(c)
    /\ call' = [call EXCEPT ![c] = CallAt("interrupted")]
    /\ fiber' = IF call[c].pc = "awaiting" THEN Interrupted(fiber, c) ELSE fiber
    /\ UntouchedByCalls
    /\ UNCHANGED <<capture, runState, supersessionVars>>

StartDispose(c) ==
    /\ call[c].pc = "idle"
    /\ runState' = IF runState.tag = "Running" THEN Idle ELSE runState
    /\ Supersede /\ Reap(c, Parked, "end", Nothing) /\ retired' = <<>>
    /\ UntouchedByCalls
    /\ UNCHANGED capture

EndReap(c) ==
    /\ Reaped(c, "end")
    /\ call' = [call EXCEPT ![c] = CallAt("ended")]
    /\ UntouchedByCalls
    /\ UNCHANGED <<capture, runState, supersessionVars, fiber>>

-----------------------------------------------------------------------------
(* A session as it is made: of a rail, a row and ports.                    *)
makeSimulationSession(list, row, layer) ==
    /\ sightings = list /\ ports = layer /\ seedEntry = row
    /\ seeded = isDecision(row)
    /\ held = IF isDecision(row) THEN Nothing ELSE pinHead(list, Nothing)
    /\ draft = IF isDecision(row) THEN <<"row", row>> ELSE <<"blank">>
    /\ sourceChoice = "Fixtures" /\ capture = Nothing /\ runState = Idle
    /\ generation = 0 /\ current = Nothing /\ retired = <<>>
    /\ call = [c \in Calls |-> CallAt("idle")]
    /\ fiber = [c \in Calls |-> "none"]
    /\ overtaken = [c \in Calls |-> "never"] /\ commands = 0

SessionCommand ==
    \/ \E list \in {<<>>} \cup {<<p>> : p \in Sightable} : setSightings(list)
    \/ \E p \in Sightable : choosePolicy(p)
    \/ \E row \in Rows \cup {Nothing} : seed(row)
    \/ \E layer \in Layers \cup {Nothing} : setPorts(layer)
    \/ \E choice \in SourceChoice : chooseSource(choice)
    \/ edit

SessionCall(c) ==
    \/ StartRun(c) \/ StartReap(c) \/ StartDispose(c)
    \/ ReapNext(c) \/ EndReap(c) \/ Ask(c) \/ Refuse(c) \/ Fork(c)
    \/ Settle(c) \/ Land(c) \/ InterruptCall(c)

SessionNext ==
    \/ (\A c \in Calls : ~GoesOn(c)) /\ SessionCommand
    \/ \E c \in Calls : (\A o \in Calls \ {c} : ~GoesOn(o)) /\ SessionCall(c)

-----------------------------------------------------------------------------
(* What a session shows is never the result of a run that a command, a     *)
(* later run or a disposal superseded while it was evaluated, however late *)
(* it ends; and when every call has ended of itself nothing is shown as    *)
(* running: no order of commands, runs and disposals leaves the screen     *)
(* waiting for a run that will never report.  (SimulationSession.ts:       *)
(* 415-487, 537)                                                           *)
(*                                                                         *)
(* "A run that was superseded never lands" (:16) is more than that: a run  *)
(* superseded in its wait reads the generation after it (:445-447), and    *)
(* lands.                                                                  *)
OnlyTheLastRunLands ==
    /\ runState.tag \in {"Ran", "Broke"} => overtaken[runState.by] # "evaluated"
    /\ (\A c \in Calls : call[c].pc \in {"idle", "ended"}) => runState.tag # "Running"

(* The capture is of the ports the session has: a different layer drops    *)
(* what was taken from the old one.  (SimulationSession.ts:208)            *)
CaptureIsOfThesePorts == capture # Nothing => capture = ports

=============================================================================
