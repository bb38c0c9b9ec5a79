--------------------------- MODULE DecisionCache ---------------------------
(***************************************************************************)
(* The decision cache of @qadi/core: one memo table in front of policy     *)
(* evaluation, where concurrent asks for the same question share a single  *)
(* evaluation ("compute") running on a detached fiber.                     *)
(*                                                                         *)
(* A claim is the InFlightClaim object a compute is tracked by.  The trace *)
(* a compute produces is named by its claim, so that two answers to one    *)
(* question are told apart.  A claim nothing refers to any more is garbage *)
(* and may be allocated again.                                             *)
(***************************************************************************)
EXTENDS Integers, Sequences, FiniteSets, FiniteSetsExt, Functions

CONSTANTS
    Callers,          \* fibers calling getOrCompute
    Questions,        \* cache keys
    Claims,           \* InFlightClaim objects
    Capacity,         \* options.capacity, or Unbounded
    Unbounded,        \* the capacity option left out
    NoClaim,          \* a caller that has not asked yet
    PortsMayShield,   \* may a port put the compute in an uninterruptible region?
    MaxGeneration     \* bound on the number of calls of clear

(* decisionCacheLayer throws on anything but a non-negative integer.       *)
ASSUME CapacityAssumption == Capacity = Unbounded \/ Capacity \in Nat
ASSUME UnboundedAssumption == Unbounded \notin Nat
ASSUME SetsAssumption == IsFiniteSet(Callers) /\ IsFiniteSet(Questions)
ASSUME ClaimAssumption == NoClaim \notin Claims
ASSUME ShieldAssumption == PortsMayShield \in BOOLEAN
ASSUME BoundAssumption == MaxGeneration \in Nat

VARIABLES
    entries,          \* completed answers: question -> the claim that computed it
    inFlight,         \* question -> the claim whose compute is running
    insertionOrder,   \* the keys of entries, oldest first, kept when bounded
    generation,       \* number of clears so far
    claims,           \* the InFlightClaim objects and their compute fibers
    callers           \* the fibers inside getOrCompute

vars == <<entries, inFlight, insertionOrder, generation, claims, callers>>

(* A compute fiber is forked by its claimant, waits for its first turn,    *)
(* runs, may be inside an uninterruptible region of a port, and on every   *)
(* exit of its run goes through the finalizer: store the answer, release   *)
(* the key, complete the claim.  It is dead when it was interrupted before *)
(* its first turn, when it had no finalizer yet.                           *)
Phase == {"unforked", "forked", "running", "shielded", "exited", "stored", "released",
          "done", "dead"}
Exit == {"nothing", "success", "failure", "interruption"}

Claim == [question : Questions,
          generation : Nat,       \* generation when claimed (myGeneration)
          phase : Phase,
          exit : Exit,
          interrupting : BOOLEAN, \* an interrupt is recorded, not delivered
          waiters : Int]

(* A caller is not asking, forking its compute, waiting on a claim,        *)
(* waiting for the fiber it interrupted to exit, or has its outcome.       *)
Caller == [pc : {"idle", "forking", "waiting", "leaving", "returned"},
           claim : Claims \cup {NoClaim},
           askedIn : Nat,         \* generation when it asked
           cancelled : BOOLEAN,   \* its own caller interrupted it
           got : {"nothing", "answer", "failure", "interruption"}]

bounded == Capacity # Unbounded

(* A claim object not allocated yet; whatever its question, nobody reads it. *)
Unused(q) == [question |-> q, generation |-> 0, phase |-> "done", exit |-> "nothing",
              interrupting |-> FALSE, waiters |-> 0]

(* A caller that refers to no claim: before it asks, or after it came back *)
(* without an answer.                                                      *)
Resting(state, outcome, byCaller) ==
    [pc |-> state, claim |-> NoClaim, askedIn |-> 0, cancelled |-> byCaller, got |-> outcome]

Init ==
    /\ entries = [q \in {} |-> NoClaim]
    /\ inFlight = [q \in {} |-> NoClaim]
    /\ insertionOrder = <<>>
    /\ generation = 0
    /\ \E q \in Questions : claims = [k \in Claims |-> Unused(q)]
    /\ callers = [c \in Callers |-> Resting("idle", "nothing", FALSE)]

(* No table, no caller and no running fiber refers to the claim.           *)
Garbage(k) ==
    /\ claims[k].phase \in {"done", "dead"}
    /\ \A q \in DOMAIN entries : entries[q] # k
    /\ \A q \in DOMAIN inFlight : inFlight[q] # k
    /\ \A c \in Callers : callers[c].claim # k

Asking(c, k, state, outcome) ==
    callers' = [callers EXCEPT ![c] =
        [pc |-> state, claim |-> k, askedIn |-> generation, cancelled |-> FALSE,
         got |-> outcome]]

MayAsk(c) == callers[c].pc \in {"idle", "returned"}

----------------------------------------------------------------------------
(* getOrCompute.  Hit, join and claim are one synchronous step.            *)

Hit(c, q) ==
    /\ MayAsk(c)
    /\ q \in DOMAIN entries
    /\ Asking(c, entries[q], "returned", "answer")
    /\ UNCHANGED <<entries, inFlight, insertionOrder, generation, claims>>

(* A mutation: the joining caller is not counted.                          *)
JoinUncounted(c, q) ==
    /\ MayAsk(c)
    /\ q \notin DOMAIN entries
    /\ q \in DOMAIN inFlight
    /\ Asking(c, inFlight[q], "waiting", "nothing")
    /\ UNCHANGED <<entries, inFlight, insertionOrder, generation, claims>>

Join(c, q) ==
    /\ MayAsk(c)
    /\ q \notin DOMAIN entries
    /\ q \in DOMAIN inFlight
    /\ Asking(c, inFlight[q], "waiting", "nothing")
    /\ claims' = [claims EXCEPT ![inFlight[q]].waiters = @ + 1]
    /\ UNCHANGED <<entries, inFlight, insertionOrder, generation>>

NewClaim(c, q, k) ==
    /\ MayAsk(c)
    /\ q \notin DOMAIN entries
    /\ q \notin DOMAIN inFlight
    /\ Garbage(k)
    /\ Asking(c, k, "forking", "nothing")
    /\ inFlight' = [r \in DOMAIN inFlight \cup {q} |-> IF r = q THEN k ELSE inFlight[r]]
    /\ claims' = [claims EXCEPT ![k] =
           [question |-> q, generation |-> generation, phase |-> "unforked",
            exit |-> "nothing", interrupting |-> FALSE, waiters |-> 1]]
    /\ UNCHANGED <<entries, insertionOrder, generation>>

(* forkDetach, which only queues the fiber, and the assignment of          *)
(* entry.fiber, still masked.                                              *)
Fork(c) ==
    /\ callers[c].pc = "forking"
    /\ claims' = [claims EXCEPT ![callers[c].claim].phase = "forked"]
    /\ callers' = [callers EXCEPT ![c].pc = "waiting"]
    /\ UNCHANGED <<entries, inFlight, insertionOrder, generation>>

----------------------------------------------------------------------------
(* The compute fiber.  What happens inside compute is the caller's         *)
(* business; here it only runs, may be uninterruptible, and exits.         *)

(* The fiber's first turn: from here on its exit runs the finalizer.       *)
Begin(k) ==
    /\ claims[k].phase = "forked"
    /\ claims' = [claims EXCEPT ![k].phase = "running"]
    /\ UNCHANGED <<entries, inFlight, insertionOrder, generation, callers>>

BeginShield(k) ==
    /\ PortsMayShield
    /\ claims[k].phase = "running"
    /\ claims' = [claims EXCEPT ![k].phase = "shielded"]
    /\ UNCHANGED <<entries, inFlight, insertionOrder, generation, callers>>

(* Leaving the region delivers an interrupt recorded meanwhile.            *)
EndShield(k) ==
    /\ claims[k].phase = "shielded"
    /\ claims' = [claims EXCEPT ![k] =
           IF @.interrupting THEN [@ EXCEPT !.phase = "exited", !.exit = "interruption"]
                             ELSE [@ EXCEPT !.phase = "running"]]
    /\ UNCHANGED <<entries, inFlight, insertionOrder, generation, callers>>

ComputeExits(k, exit) ==
    /\ claims[k].phase = "running"
    /\ claims' = [claims EXCEPT ![k] = [@ EXCEPT !.phase = "exited", !.exit = exit]]
    /\ UNCHANGED <<entries, inFlight, insertionOrder, generation, callers>>

(* The table with an answer added, and its key queued for eviction.        *)
WithAnswer(q, k) == [r \in DOMAIN entries \cup {q} |-> IF r = q THEN k ELSE entries[r]]
WithKey(q) == Append(insertionOrder, q)

(* The eviction loop: the oldest keys leave until the table fits.          *)
Without(table, order, n) == Restrict(table, DOMAIN table \ {order[i] : i \in 1..n})

Evictions(table, order) ==
    Min({n \in 0..Len(order) : Cardinality(DOMAIN Without(table, order, n)) <= Capacity})

(* A mutation: the generation is not looked at.                            *)
KeptAcrossClears(k) == claims[k].exit = "success"

(* onExit, first step: keep a success, unless a clear came in between.     *)
Kept(k) == claims[k].exit = "success" /\ claims[k].generation = generation

StoreAnswer(k) ==
    LET q == claims[k].question
        n == Evictions(WithAnswer(q, k), WithKey(q))
    IN IF bounded
         THEN /\ entries' = Without(WithAnswer(q, k), WithKey(q), n)
              /\ insertionOrder' = SubSeq(WithKey(q), n + 1, Len(WithKey(q)))
         ELSE entries' = WithAnswer(q, k) /\ insertionOrder' = insertionOrder

Store(k) ==
    /\ claims[k].phase = "exited"
    /\ IF Kept(k) THEN StoreAnswer(k) ELSE UNCHANGED <<entries, insertionOrder>>
    /\ claims' = [claims EXCEPT ![k].phase = "stored"]
    /\ UNCHANGED <<inFlight, generation, callers>>

(* A mutation: release whatever claim holds the key.                       *)
ReleasedByKey(k) == Restrict(inFlight, DOMAIN inFlight \ {claims[k].question})

(* onExit, second step: release the key if this claim still holds it.      *)
Released(k) ==
    LET q == claims[k].question
    IN IF q \in DOMAIN inFlight /\ inFlight[q] = k
         THEN Restrict(inFlight, DOMAIN inFlight \ {q})
         ELSE inFlight

Release(k) ==
    /\ claims[k].phase = "stored"
    /\ inFlight' = Released(k)
    /\ claims' = [claims EXCEPT ![k].phase = "released"]
    /\ UNCHANGED <<entries, insertionOrder, generation, callers>>

(* onExit, third step: Deferred.done resumes everyone waiting.             *)
Complete(k) ==
    /\ claims[k].phase = "released"
    /\ claims' = [claims EXCEPT ![k].phase = "done"]
    /\ UNCHANGED <<entries, inFlight, insertionOrder, generation, callers>>

----------------------------------------------------------------------------
(* awaitShared.                                                            *)

(* The claim completed.  An interrupted exit runs onInterrupt too, which   *)
(* detaches this caller; by then there is no fiber left to interrupt.      *)
Resume(c) ==
    LET k == callers[c].claim
        exit == claims[k].exit
    IN /\ callers[c].pc = "waiting"
       /\ claims[k].phase = "done"
       /\ callers' = [callers EXCEPT ![c] =
              IF exit = "success" THEN [@ EXCEPT !.pc = "returned", !.got = "answer"]
                                  ELSE Resting("returned", exit, FALSE)]
       /\ claims' = IF exit = "interruption"
                      THEN [claims EXCEPT ![k].waiters = @ - 1]
                      ELSE claims
       /\ UNCHANGED <<entries, inFlight, insertionOrder, generation>>

(* Interrupting the compute fiber.  A fiber that is running its compute    *)
(* interruptibly takes the interrupt at once and its finalizer runs in the *)
(* same synchronous cascade; in an uninterruptible region the interrupt is *)
(* only recorded; the finalizer is not disturbed.  A fiber still to have   *)
(* its first turn exits too, with nothing to release its key or complete   *)
(* its claim.                                                              *)
AbandonCompute(k) ==
    CASE claims[k].phase = "running" ->
           /\ inFlight' = Released(k)
           /\ claims' = [claims EXCEPT ![k] =
                  [@ EXCEPT !.waiters = 0, !.phase = "done", !.exit = "interruption"]]
      [] claims[k].phase = "forked" ->
           /\ inFlight' = inFlight
           /\ claims' = [claims EXCEPT ![k] = [@ EXCEPT !.waiters = 0, !.phase = "dead"]]
      [] claims[k].phase = "shielded" ->
           /\ inFlight' = inFlight
           /\ claims' = [claims EXCEPT ![k] = [@ EXCEPT !.waiters = 0, !.interrupting = TRUE]]
      [] OTHER ->
           /\ inFlight' = inFlight
           /\ claims' = [claims EXCEPT ![k].waiters = 0]

(* A waiting caller is interrupted: it detaches, and the last one to leave *)
(* interrupts the compute and waits for that fiber to exit.                *)
Interrupt(c) ==
    LET k == callers[c].claim
        last == claims[k].waiters - 1 = 0
    IN /\ callers[c].pc = "waiting"
       /\ callers' = [callers EXCEPT ![c] =
              IF last THEN [@ EXCEPT !.pc = "leaving", !.cancelled = TRUE]
                      ELSE Resting("returned", "interruption", TRUE)]
       /\ IF last
            THEN AbandonCompute(k)
            ELSE /\ claims' = [claims EXCEPT ![k].waiters = @ - 1]
                 /\ inFlight' = inFlight
       /\ UNCHANGED <<entries, insertionOrder, generation>>

Leave(c) ==
    /\ callers[c].pc = "leaving"
    /\ claims[callers[c].claim].phase \in {"done", "dead"}
    /\ callers' = [callers EXCEPT ![c] = Resting("returned", "interruption", TRUE)]
    /\ UNCHANGED <<entries, inFlight, insertionOrder, generation, claims>>

----------------------------------------------------------------------------
(* clear.                                                                  *)

(* A mutation: the order of insertion survives.                            *)
ClearKeepingOrder ==
    /\ generation < MaxGeneration
    /\ entries' = [q \in {} |-> NoClaim]
    /\ inFlight' = [q \in {} |-> NoClaim]
    /\ generation' = generation + 1
    /\ UNCHANGED <<insertionOrder, claims, callers>>

Clear ==
    /\ generation < MaxGeneration
    /\ entries' = [q \in {} |-> NoClaim]
    /\ insertionOrder' = <<>>
    /\ inFlight' = [q \in {} |-> NoClaim]
    /\ generation' = generation + 1
    /\ UNCHANGED <<claims, callers>>

CallerStep(c) ==
    \/ \E q \in Questions : Hit(c, q) \/ Join(c, q)
    \/ \E q \in Questions, k \in Claims : NewClaim(c, q, k)
    \/ Fork(c)
    \/ Resume(c)
    \/ Interrupt(c)
    \/ Leave(c)

ComputeStep(k) ==
    \/ Begin(k)
    \/ BeginShield(k)
    \/ EndShield(k)
    \/ \E exit \in {"success", "failure"} : ComputeExits(k, exit)
    \/ Store(k)
    \/ Release(k)
    \/ Complete(k)

Next ==
    \/ \E c \in Callers : CallerStep(c)
    \/ \E k \in Claims : ComputeStep(k)
    \/ Clear

Spec == Init /\ [][Next]_vars

(* The runtime keeps running a fiber that can run, and a compute that is   *)
(* scheduled again and again comes to an exit.  Nobody is obliged to ask,  *)
(* to interrupt or to clear.                                               *)
Fairness ==
    /\ \A c \in Callers : WF_vars(Fork(c)) /\ WF_vars(Resume(c)) /\ WF_vars(Leave(c))
    /\ \A k \in Claims :
         /\ WF_vars(Begin(k))
         /\ WF_vars(EndShield(k))
         /\ SF_vars(\E exit \in {"success", "failure"} : ComputeExits(k, exit))
         /\ WF_vars(Store(k)) /\ WF_vars(Release(k)) /\ WF_vars(Complete(k))

FairSpec == Spec /\ Fairness

----------------------------------------------------------------------------
(* Types.                                                                  *)
TypeOK ==
    /\ DOMAIN entries \subseteq Questions
    /\ entries \in [DOMAIN entries -> Claims]
    /\ DOMAIN inFlight \subseteq Questions
    /\ inFlight \in [DOMAIN inFlight -> Claims]
    /\ insertionOrder \in Seq(Questions)
    /\ generation \in Nat
    /\ claims \in [Claims -> Claim]
    /\ callers \in [Callers -> Caller]

(* "Chunk.size(insertionOrder) === HashMap.size(entries) always": the      *)
(* eviction loop never runs out of keys to evict, never evicts an answer   *)
(* through a stale copy of its key, and the table is within capacity       *)
(* whenever the loop is not running.                                       *)
OrderMatchesEntries ==
    IF bounded
      THEN /\ Len(insertionOrder) = Cardinality(DOMAIN entries)
           /\ Range(insertionOrder) = DOMAIN entries
           /\ Cardinality(DOMAIN entries) <= Capacity
      ELSE insertionOrder = <<>>

(* A clear is a fence: whoever asks after it is never answered, from the   *)
(* table or by joining, with a trace whose compute was claimed before it.  *)
NoStaleAnswer ==
    /\ \A q \in DOMAIN entries : claims[entries[q]].generation = generation
    /\ \A c \in Callers :
         callers[c].claim # NoClaim => claims[callers[c].claim].generation = callers[c].askedIn

Computing(k) == claims[k].phase \in {"unforked", "forked", "running", "shielded"}

(* Between two clears no question is evaluated twice at the same time, nor *)
(* while its answer is in the table.                                       *)
OneComputePerQuestion ==
    \A k \in Claims : Computing(k) /\ claims[k].generation = generation =>
        /\ claims[k].question \notin DOMAIN entries
        /\ \A l \in Claims \ {k} :
             Computing(l) /\ claims[l].generation = generation
               => claims[l].question # claims[k].question

Attached(k) == {c \in Callers : callers[c].claim = k /\ callers[c].pc \in {"forking", "waiting"}}

Over == {"exited", "stored", "released", "dead"}

(* waiters counts the fibers attached to an unfinished claim; so a compute *)
(* nobody wants is interrupted, and one somebody wants is not, except by   *)
(* an interrupt that was recorded, or that killed it, before they joined.  *)
WaitersAreCounted ==
    \A k \in Claims : claims[k].phase # "done" =>
        /\ claims[k].waiters = Cardinality(Attached(k))
        /\ claims[k].waiters = 0 => claims[k].interrupting \/ claims[k].phase \in Over

(* Once a claim is complete no ask can join it: whoever resumes from it    *)
(* and asks again starts afresh.  A dead claim is never complete.          *)
CompletedIsReleased ==
    \A q \in DOMAIN inFlight : claims[inFlight[q]].phase # "done"

(* The tables and the counter agree at every step of every fiber, and not  *)
(* only when all of them are at rest: the queue of keys with the table it  *)
(* bounds, waiters with the fibers that wait, and no key held by a claim   *)
(* that completed.  (DecisionCache.ts:355, 498-541)                        *)
TablesAgree == OrderMatchesEntries /\ WaitersAreCounted /\ CompletedIsReleased

(* A cached answer is never replaced by another one in place: it leaves by *)
(* eviction or by a clear before the question is evaluated again.          *)
AnswerNeverReplaced ==
    [][\A q \in DOMAIN entries \cap DOMAIN entries' : entries'[q] = entries[q]]_vars

(* One caller's interruption is not every caller's: an ask ends in         *)
(* interruption only when its own caller was interrupted, or when the      *)
(* interrupt had been recorded while a port shielded the compute, the gap  *)
(* DecisionCache.ts:327-349 leaves open.                                   *)
OnlyTheCancelledAreInterrupted ==
    [][\A c \in Callers :
         callers[c].pc # "returned" /\ callers'[c].pc = "returned"
             /\ callers'[c].got = "interruption"
         => callers'[c].cancelled \/ claims[callers[c].claim].interrupting]_vars

(* Every ask comes back, with an answer, a failure or its interruption:    *)
(* "onExit's finalizer is guaranteed to run on every path compute can end  *)
(* on, interruption included, which is exactly the guarantee this needs".  *)
(* Not one that joins a compute interrupted before its first turn.         *)
(* (DecisionCache.ts:464-470, 546)                                         *)
EveryAskReturns ==
    \A c \in Callers :
        callers[c].pc \in {"forking", "waiting", "leaving"} ~> callers[c].pc = "returned"

=============================================================================
