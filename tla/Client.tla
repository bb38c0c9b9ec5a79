-------------------------------- MODULE Client --------------------------------
(***************************************************************************)
(* A page guarded by @qadi/react: one atom set, the registries of its      *)
(* providers, and the guards mounted under them (packages/react/src:       *)
(* QadiAtoms.ts, HydrationEngine.ts, QuestionBook.ts, QadiProvider.tsx,    *)
(* DecisionOutcome.ts).                                                    *)
(*                                                                         *)
(* Every registry has a node of each question it reads: the client's own   *)
(* answer, and the server's seed that covers for it until there is one.    *)
(* The registries, their notifications and the runtime's services are the  *)
(* effect library's.  An answer is `old` once the decisions it was asked   *)
(* with have been invalidated.                                             *)
(***************************************************************************)
EXTENDS Integers, Sequences, SequencesExt, TLC

-----------------------------------------------------------------------------
(***************************************************************************)
(* The book of questions an atom set has been asked                        *)
(* (packages/react/src/QuestionBook.ts).  A handle is the number of the    *)
(* entry it was built for; the atoms behind it are Client's.               *)
(***************************************************************************)

CONSTANTS Questions, Capacity

ASSUME CapacityAssumption == Capacity \in Nat \ {0}

(* made: the question of every entry built; live: how many readers hold    *)
(* each open; entries: the handle that owns each question, 0 for none;     *)
(* order: the handles in the book, oldest first.                           *)
EmptyBook == [made |-> <<>>, live |-> <<>>, entries |-> [q \in Questions |-> 0],
              order |-> <<>>]

Handles(b) == DOMAIN b.made
InBook(b, h) == h \in Range(b.order)

admit(b, h) ==
    [b EXCEPT !.entries[b.made[h]] = h, !.order = Append(@, h)]

open(b, q) ==
    IF b.entries[q] # 0 THEN b
    ELSE admit([b EXCEPT !.made = Append(@, q), !.live = Append(@, 0)],
               Len(b.made) + 1)

(* A mutation: a swept entry is not put back.                              *)
liveUnadmitted(b, h) == [b EXCEPT !.live[h] = @ + 1]

(* A swept entry whose atom a registry still holds is put back, unless a   *)
(* newer entry owns the question now.                                      *)
live(b, h) ==
    LET c == IF ~InBook(b, h) /\ b.entries[b.made[h]] = 0 THEN admit(b, h) ELSE b
    IN  [c EXCEPT !.live[h] = @ + 1]

release(b, h) == [b EXCEPT !.live[h] = @ - 1]

(* The oldest cold handles, as many as the book is over its capacity.      *)
Swept(b) ==
    LET cold == SelectSeq(b.order, LAMBDA h : b.live[h] = 0)
        excess == Len(b.order) - Capacity
    IN  {cold[i] : i \in {j \in DOMAIN cold : j <= excess}}

sweep(b) ==
    [b EXCEPT !.order = SelectSeq(@, LAMBDA h : h \notin Swept(b)),
              !.entries = [q \in Questions |-> IF @[q] \in Swept(b) THEN 0 ELSE @[q]]]

asked(b) == [i \in DOMAIN b.order |-> b.made[b.order[i]]]

-----------------------------------------------------------------------------

CONSTANTS
    Subjects,
    Registries,       \* providers, each with a registry of its own
    Gates,            \* guards in the tree
    MaxHandles,       \* bound: handles the book builds
    MaxChanges        \* bound: changes of subject and invalidations

ASSUME RegistriesAssumption == "none" \notin Registries
ASSUME BoundsAssumption == MaxHandles \in Nat /\ MaxChanges \in Nat

VARIABLES
    book,             \* the QuestionBook
    hydrated,         \* the seeds hydrateDecisions returned, by handle
    subject,          \* each registry's subject, or "unborn"
    nodes,            \* each registry's node of each handle
    cache,            \* each runtime's DecisionCache
    invalidation,     \* how far each registry's invalidate got
    gates,            \* the handle each guard asked for, and where it reads it
    changes           \* changes of subject and invalidations so far

clientVars == <<book, hydrated, subject, nodes, cache, invalidation, gates, changes>>

Verdicts == {"Allow", "Deny"}
Outcomes == Verdicts \cup {"Failed"}

(* No subject yet, no seed, no answer, no evaluation.                      *)
Nobody == "nobody"
None == "none"
Initial == [outcome |-> "Initial", of |-> Nobody, old |-> FALSE]

Answer(outcome, of, old) == [outcome |-> outcome, of |-> of, old |-> old]
Seed(verdict, of) == [verdict |-> verdict, of |-> of]
NoSeed == Seed(None, Nobody)

(* The computed atom: its result, whether that is being checked again, and *)
(* the evaluation in flight.  The seed atom.  The announcement state: the  *)
(* first answer is told once, with the seed it is compared to.             *)
Blank == [result |-> Initial, waiting |-> FALSE, run |-> Initial,
          seed |-> NoSeed, observed |-> NoSeed,
          announced |-> FALSE, rechecks |-> 0, mismatches |-> 0, first |-> None]

ClientInit ==
    /\ book = EmptyBook
    /\ hydrated = [h \in 1 .. MaxHandles |-> NoSeed]
    /\ subject = [r \in Registries |-> "unborn"]
    /\ nodes = [r \in Registries |-> [h \in 1 .. MaxHandles |-> Blank]]
    /\ cache = [r \in Registries |-> [k \in Questions \X Subjects |-> Initial]]
    /\ invalidation = [r \in Registries |-> "idle"]
    /\ gates = [g \in Gates |-> [handle |-> 0, home |-> None]]
    /\ changes = 0

Mounted(r, h) == \E g \in Gates : gates[g] = [handle |-> h, home |-> r]
Readers(r) == {h \in 1 .. MaxHandles : Mounted(r, h)}
Born(r) == subject[r] # "unborn"

-----------------------------------------------------------------------------
(* makeSeededQuestion: the atom a guard reads.                             *)

isMismatch(seed, outcome) == outcome \in Verdicts /\ outcome # seed.verdict

(* The first answer is counted, with whether the seed it is compared to    *)
(* said otherwise.                                                         *)
Told(node, seeded) ==
    LET told == [node EXCEPT !.announced = TRUE, !.first = node.result.outcome]
    IN  IF seeded = NoSeed THEN told
        ELSE [told EXCEPT !.rechecks = @ + 1,
                          !.mismatches = IF isMismatch(seeded, node.result.outcome)
                                         THEN @ + 1 ELSE @]

(* A mutation: the seed is compared only if the registry still holds it.   *)
announceHeld(node) == Told(node, node.seed)

(* The registry's seed, or the first one this registry read of it.         *)
announce(node) ==
    Told(node, IF node.seed # NoSeed THEN node.seed ELSE node.observed)

(* What the read of a node leaves behind.                                  *)
Reading(node) ==
    IF node.result = Initial
    THEN IF node.seed = NoSeed THEN node ELSE [node EXCEPT !.observed = node.seed]
    ELSE IF node.announced THEN node ELSE announce(node)

(* A mutation: a result being checked again reads as it was.               *)
outcomeOfStale(node) ==
    CASE node.result = Initial ->
             IF node.seed = NoSeed THEN "Pending" ELSE node.seed.verdict
      [] OTHER -> node.result.outcome

(* The outcome a guard shows: the seed while this client never answered,   *)
(* and never an answer that is being checked again.                        *)
outcomeOf(node) ==
    CASE node.result = Initial ->
             IF node.seed = NoSeed THEN "Pending" ELSE node.seed.verdict
      [] node.waiting -> "Rechecking"
      [] OTHER -> node.result.outcome

(* What Can and Cannot render of an outcome, what useCan answers, and what *)
(* useProjected discloses.                                                 *)
chosen(outcome) ==
    CASE outcome \in {"Pending", "Rechecking"} -> "pending"
      [] outcome = "Failed" -> "failure"
      [] outcome = "Allow" -> "children"
      [] outcome = "Deny" -> "fallback"

refused(outcome) ==
    CASE outcome \in {"Pending", "Rechecking"} -> "pending"
      [] outcome = "Failed" -> "failure"
      [] outcome = "Allow" -> "nothing"
      [] outcome = "Deny" -> "children"

useCan(outcome) == outcome = "Allow"
useProjected(outcome) == IF outcome = "Allow" THEN "visible" ELSE "nothing"

RendersAnAnswer(outcome) ==
    \/ chosen(outcome) # "pending" \/ refused(outcome) # "pending"
    \/ useCan(outcome) \/ useProjected(outcome) = "visible"

-----------------------------------------------------------------------------
(* The computed atom: evaluate for the current subject, through the cache. *)

(* The registry may have dropped a seed that it only read to cover.        *)
KeptSeeds(node) == {node.seed} \cup (IF node.observed = NoSeed THEN {} ELSE {NoSeed})

Settled(node, answer) ==
    {Reading([node EXCEPT !.result = answer, !.waiting = FALSE, !.run = Initial,
                          !.seed = kept]) : kept \in KeptSeeds(node)}

Begun(node, run) == {Reading([node EXCEPT !.waiting = TRUE, !.run = run])}

(* Nothing is decided of nobody.  An evaluation that asks no port settles  *)
(* at once, and so does one a cache is wired for and answers.              *)
Evaluated(node, s, known) ==
    IF s = Nobody THEN Begun(node, Initial)
    ELSE Begun(node, Answer("pending", s, FALSE))
             \cup (UNION {Settled(node, Answer(o, s, FALSE)) : o \in Outcomes})
             \cup (IF known = Initial THEN {} ELSE Settled(node, known))

(* A cache keeps verdicts, and none of an evaluation begun before a clear. *)
Remembers(q, s, node) ==
    /\ ~node.waiting /\ node.result.outcome \in Verdicts /\ ~node.result.old
    /\ node.result.of = s

(* The readers of these handles run again: each is released and live again *)
(* without a pause.                                                        *)
ReadAgain(b, hs) ==
    FoldLeft(LAMBDA c, h : IF h \in hs THEN live(release(c, h), h) ELSE c,
             b, [h \in Handles(b) |-> h])

(* The nodes of a registry become these, and its cache learns from them:   *)
(* of two nodes of one question it keeps what the later one answered.      *)
Learned(next, q, s) == {h \in DOMAIN next : Remembers(q, s, next[h]) /\ book.made[h] = q}

Become(r, next) ==
    /\ nodes' = [nodes EXCEPT ![r] =
           [h \in 1 .. MaxHandles |-> IF h \in DOMAIN next THEN next[h] ELSE @[h]]]
    /\ cache' = [cache EXCEPT ![r] =
           [k \in Questions \X Subjects |->
               LET learned == Learned(next, k[1], k[2])
               IN  IF learned = {} THEN @[k] ELSE next[Max(learned)].result]]

(* Of nobody nothing is known.                                             *)
Known(r, h, s) ==
    LET key == <<book.made[h], s>>
    IN  IF key \in DOMAIN cache[r] THEN cache[r][key] ELSE Initial

(* Every mounted question of a registry is evaluated again, for s.         *)
Recompute(r, s) ==
    LET again == [h \in Readers(r) |-> Evaluated(nodes[r][h], s, Known(r, h, s))]
    IN  /\ \E next \in [Readers(r) -> UNION Range(again)] :
               (\A h \in Readers(r) : next[h] \in again[h]) /\ Become(r, next)
        /\ book' = ReadAgain(book, Readers(r))

-----------------------------------------------------------------------------
(* The server's payload, and the provider.                                 *)

(* hydrateDecisions, for one entry: the question is asked and its seed     *)
(* kept for the registry to be made.  A payload is of one subject.         *)
Hydrate(q, seed) ==
    LET b == open(book, q)
        h == b.entries[q]
    IN  /\ \E r \in Registries : ~Born(r)
        /\ h <= MaxHandles /\ hydrated[h] = NoSeed
        /\ \A i \in DOMAIN hydrated : hydrated[i].of \in {Nobody, seed.of}
        /\ book' = b
        /\ hydrated' = [hydrated EXCEPT ![h] = seed]
        /\ UNCHANGED <<subject, nodes, cache, invalidation, gates, changes>>

(* The first render: the payload was hydrated for this subject, or for the *)
(* one that is still loading.                                              *)
Provide(r, s) ==
    /\ ~Born(r)
    /\ \A h \in DOMAIN hydrated : hydrated[h] # NoSeed => s \in {hydrated[h].of, Nobody}
    /\ subject' = [subject EXCEPT ![r] = s]
    /\ nodes' = [nodes EXCEPT ![r] = [h \in DOMAIN @ |-> [Blank EXCEPT !.seed = hydrated[h]]]]
    /\ UNCHANGED <<book, hydrated, cache, invalidation, gates, changes>>

(* The provider's effect, when its subject is another one.                 *)
SetSubject(r, s) ==
    /\ Born(r) /\ subject[r] # s
    /\ changes < MaxChanges
    /\ subject' = [subject EXCEPT ![r] = s]
    /\ Recompute(r, s)
    /\ changes' = changes + 1
    /\ UNCHANGED <<hydrated, invalidation, gates>>

-----------------------------------------------------------------------------
(* Guards.                                                                 *)

(* A guard that reads nothing yet asks for its question's atom.            *)
Ask(g, q) ==
    LET b == open(book, q)
    IN  /\ gates[g].home = None /\ b.entries[q] \in 1 .. MaxHandles
        /\ book' = b
        /\ gates' = [gates EXCEPT ![g].handle = b.entries[q]]
        /\ UNCHANGED <<hydrated, subject, nodes, cache, invalidation, changes>>

(* It reads the atom it asked for, however long ago.  The first reader of  *)
(* a registry builds the node.                                             *)
Mount(g, r) ==
    LET h == gates[g].handle
    IN  /\ Born(r) /\ h # 0 /\ gates[g].home = None
        /\ gates' = [gates EXCEPT ![g].home = r]
        /\ IF Mounted(r, h) THEN UNCHANGED <<book, nodes, cache>>
           ELSE /\ book' = live(book, h)
                /\ \E node \in Evaluated(nodes[r][h], subject[r], Known(r, h, subject[r])) :
                       Become(r, [i \in {h} |-> node])
        /\ UNCHANGED <<hydrated, subject, invalidation, changes>>

(* The last reader of a registry takes the node with it, but for what the  *)
(* announcement remembers, and whatever runs is interrupted.               *)
Unmount(g) ==
    LET h == gates[g].handle
        r == gates[g].home
    IN  /\ r # None
        /\ gates' = [gates EXCEPT ![g].home = None]
        /\ IF \E f \in Gates \ {g} : gates[f] = gates[g] THEN UNCHANGED <<book, nodes>>
           ELSE /\ book' = release(book, h)
                /\ \E kept \in KeptSeeds(nodes[r][h]) :
                       nodes' = [nodes EXCEPT ![r][h] =
                           [@ EXCEPT !.result = Initial, !.waiting = FALSE,
                                     !.run = Initial, !.seed = kept]]
        /\ UNCHANGED <<hydrated, subject, cache, invalidation, changes>>

(* The evaluation in flight ends.                                          *)
Settle(r, h, outcome) ==
    LET run == nodes[r][h].run
    IN  /\ h \in Readers(r) /\ run # Initial
        /\ \E node \in Settled(nodes[r][h], Answer(outcome, run.of, run.old)) :
               Become(r, [i \in {h} |-> node])
        /\ book' = ReadAgain(book, {h})
        /\ UNCHANGED <<hydrated, subject, invalidation, gates, changes>>

-----------------------------------------------------------------------------
(* invalidate, and the provider's sweep.                                   *)

Invalidate(r) ==
    /\ Born(r) /\ invalidation[r] = "idle"
    /\ changes < MaxChanges
    /\ invalidation' = [invalidation EXCEPT ![r] = "asked"]
    /\ changes' = changes + 1
    /\ UNCHANGED <<book, hydrated, subject, nodes, cache, gates>>

Outdated(answer) == IF answer = Initial THEN answer ELSE [answer EXCEPT !.old = TRUE]

(* From here on, what was asked before is old.                             *)
OutdatedNodes(r) ==
    [h \in DOMAIN nodes[r] |-> [nodes[r][h] EXCEPT !.result = Outdated(@), !.run = Outdated(@)]]

ClearCache(r) ==
    /\ invalidation[r] = "asked"
    /\ cache' = [cache EXCEPT ![r] = [k \in DOMAIN @ |-> Initial]]
    /\ nodes' = [nodes EXCEPT ![r] = OutdatedNodes(r)]
    /\ invalidation' = [invalidation EXCEPT ![r] = "cleared"]
    /\ UNCHANGED <<book, hydrated, subject, gates, changes>>

Refresh(r) ==
    /\ invalidation[r] = "cleared"
    /\ Recompute(r, subject[r])
    /\ invalidation' = [invalidation EXCEPT ![r] = "idle"]
    /\ UNCHANGED <<hydrated, subject, gates, changes>>

Sweep ==
    /\ book' = sweep(book)
    /\ UNCHANGED <<hydrated, subject, nodes, cache, invalidation, gates, changes>>

Seeds == [verdict : Verdicts, of : Subjects]

GuardStep(g) ==
    \/ \E q \in Questions : Ask(g, q)
    \/ \E r \in Registries : Mount(g, r)
    \/ Unmount(g)

RegistryStep(r) ==
    \/ \E s \in Subjects \cup {Nobody} : Provide(r, s) \/ SetSubject(r, s)
    \/ \E h \in Handles(book), o \in Outcomes : Settle(r, h, o)
    \/ Invalidate(r) \/ ClearCache(r) \/ Refresh(r)

ClientNext ==
    \/ \E q \in Questions, seed \in Seeds : Hydrate(q, seed)
    \/ \E r \in Registries : RegistryStep(r)
    \/ \E g \in Gates : GuardStep(g)
    \/ Sweep

-----------------------------------------------------------------------------
(* No guard ever renders an answer of this client's own that is of another *)
(* subject than the one its registry was last told, nor one asked for      *)
(* before the decisions were last invalidated: those render as pending     *)
(* until they have been asked again.                                       *)
(* (ADR-QD-017, INV-QD-094; QadiAtoms.ts, invalidate)                      *)
CurrentAnswersOnly ==
    \A r \in Registries, h \in 1 .. MaxHandles :
        LET node == nodes[r][h]
        IN  Mounted(r, h) /\ node.result # Initial /\ RendersAnAnswer(outcomeOf(node)) =>
                /\ node.result.of = subject[r]
                /\ invalidation[r] # "cleared" => ~node.result.old

(* The first answer of a registry to a question whose seed it showed is    *)
(* counted once, and told to differ exactly when it is the other verdict,  *)
(* whatever the registry dropped, unmounted or asked again in between.     *)
(* (BEH-QD-152; HydrationEngine.ts, makeSeededQuestion)                    *)
AnnouncedAsShown ==
    \A r \in Registries, h \in 1 .. MaxHandles :
        LET node == nodes[r][h]
        IN  node.first # None /\ node.observed # NoSeed =>
                /\ node.rechecks = 1
                /\ node.mismatches = IF isMismatch(node.observed, node.first) THEN 1 ELSE 0

(* The book counts the registries that hold a question open, and lists a   *)
(* question once at most.  (QuestionBook.ts:20-38)                         *)
OpenAreCounted ==
    /\ \A h \in Handles(book) :
           book.live[h] = Cardinality({r \in Registries : Mounted(r, h)})
    /\ IsInjective(asked(book))

(* A question that a registry comes to hold open is listed, and while it   *)
(* is held open it is not dropped with the handle it is held by.           *)
(* (QuestionBook.ts:20-38)                                                 *)
(*                                                                         *)
(* "Never one a mounted gate still has open" (QadiAtoms.ts:131-133) is     *)
(* more than that: of a question built twice the later handle is listed,   *)
(* and a sweep drops it when it is cold, whoever has the earlier one open. *)
OpenQuestionsStayListed ==
    [][\A h \in Handles(book') :
           book'.live[h] > 0 /\ book'.made[h] \notin Range(asked(book')) =>
               h \in Handles(book) /\ book.live[h] > 0 /\ ~InBook(book, h)]_book

(* "A hydrated decision belongs to the subject that hydrates it": a seed   *)
(* is shown to its subject, or while there is none yet.                    *)
SeedIsItsSubjects ==
    \A r \in Registries, h \in Handles(book) :
        Mounted(r, h) /\ nodes[r][h].result = Initial /\ nodes[r][h].seed # NoSeed
            => subject[r] \in {nodes[r][h].seed.of, Nobody}
=============================================================================
