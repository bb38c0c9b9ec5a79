----------------------------- MODULE ClientProofs -----------------------------
(***************************************************************************)
(* What the guards of a page show, for any questions, subjects, registries *)
(* and guards: the answers they render, the one that is announced, and the *)
(* seeds a page begins with.                                               *)
(***************************************************************************)
EXTENDS Client, Hydration, FiniteSetTheorems, WellFoundedInduction, TLAPS

ClientSpec == ClientInit /\ [][ClientNext]_clientVars

Someone == Subjects \cup {Nobody, "unborn"}

Answers == [outcome : Outcomes \cup {"Initial", "pending"}, of : Someone, old : BOOLEAN]
HeldSeeds == [verdict : Verdicts \cup {None}, of : Someone]

Node == [result : Answers, waiting : BOOLEAN, run : Answers,
         seed : HeldSeeds, observed : HeldSeeds,
         announced : BOOLEAN, rechecks : Nat, mismatches : Nat,
         first : Outcomes \cup {"Initial", "pending", None}]

ClientTypeOK ==
    /\ hydrated \in [1 .. MaxHandles -> HeldSeeds]
    /\ subject \in [Registries -> Someone]
    /\ nodes \in [Registries -> [1 .. MaxHandles -> Node]]
    /\ cache \in [Registries -> [Questions \X Subjects -> Answers]]
    /\ DOMAIN invalidation = Registries
    /\ gates \in [Gates -> [handle : 0 .. MaxHandles, home : Registries \cup {None}]]

(* The seed an announcement compares with is the one that was shown, and   *)
(* the registry never holds two.                                           *)
Compared(node) == IF node.seed # NoSeed THEN node.seed ELSE node.observed

ToldOnce(node) ==
    /\ node.seed # NoSeed /\ node.observed # NoSeed => node.seed = node.observed
    /\ ~node.announced =>
           node.rechecks = 0 /\ node.mismatches = 0 /\ node.first = None
    /\ node.announced /\ Compared(node) # NoSeed =>
           /\ node.rechecks = 1
           /\ node.mismatches = IF isMismatch(Compared(node), node.first) THEN 1 ELSE 0

(* What a mounted node evaluates, or answered and does not check again, is *)
(* of the registry's subject, and current unless the cache was just        *)
(* cleared.                                                                *)
Fresh(node, s, cleared) ==
    /\ node.run # Initial => node.run.of = s /\ (~cleared => ~node.run.old)
    /\ node.result # Initial /\ ~node.waiting =>
           node.result.of = s /\ (~cleared => ~node.result.old)

NodesAreFresh ==
    \A r \in Registries, h \in 1 .. MaxHandles :
        /\ ToldOnce(nodes[r][h])
        /\ Mounted(r, h) => Fresh(nodes[r][h], subject[r], invalidation[r] = "cleared")

(* A cache answers for the subject it is asked about, and nothing old.     *)
KnownOf(answer, s) == answer = Initial \/ (answer \in Answers /\ answer.of = s /\ ~answer.old)

CacheIsFresh ==
    \A r \in Registries : \A k \in Questions \X Subjects : KnownOf(cache[r][k], k[2])

ClientInv == ClientTypeOK /\ NodesAreFresh /\ CacheIsFresh

----------------------------------------------------------------------------
(* The reading of a node: what it may leave behind.                        *)

LEMMA InitialIsAnswer == Initial \in Answers /\ NoSeed \in HeldSeeds
BY DEF Initial, Answers, NoSeed, Seed, HeldSeeds, Someone, Nobody, None

LEMMA BlankIsFresh ==
    ASSUME NEW seed \in HeldSeeds
    PROVE  /\ [Blank EXCEPT !.seed = seed] \in Node
           /\ ToldOnce([Blank EXCEPT !.seed = seed])
           /\ \A s, cleared : Fresh([Blank EXCEPT !.seed = seed], s, cleared)
<1>. DEFINE node == [Blank EXCEPT !.seed = seed]
<1>1. Blank \in Node
  BY InitialIsAnswer DEF Blank, Node
<1>2. node \in Node
  BY <1>1 DEF Node
<1>3. /\ node.result = Initial /\ node.run = Initial /\ node.seed = seed
      /\ node.observed = NoSeed /\ ~node.announced
      /\ node.rechecks = 0 /\ node.mismatches = 0 /\ node.first = None
  <2>1. /\ node.result = Blank.result /\ node.run = Blank.run /\ node.seed = seed
        /\ node.observed = Blank.observed /\ node.announced = Blank.announced
        /\ node.rechecks = Blank.rechecks /\ node.mismatches = Blank.mismatches
        /\ node.first = Blank.first
    BY <1>1 DEF Node
  <2>. QED  BY <2>1 DEF Blank
<1>4. ToldOnce(node) /\ \A s, cleared : Fresh(node, s, cleared)
  <2>. HIDE DEF node
  <2>. QED  BY <1>3 DEF ToldOnce, Fresh
<1>. QED  BY <1>2, <1>4

(* Reading a node moves neither its answer nor what it evaluates, and      *)
(* tells the first answer once.                                            *)
LEMMA ReadingStep ==
    ASSUME NEW node \in Node, ToldOnce(node)
    PROVE  /\ Reading(node) \in Node /\ ToldOnce(Reading(node))
           /\ Reading(node).result = node.result
           /\ Reading(node).waiting = node.waiting
           /\ Reading(node).run = node.run
<1>1. CASE node.result = Initial
  <2>1. CASE node.seed = NoSeed
    BY <1>1, <2>1 DEF Reading
  <2>2. CASE node.seed # NoSeed
    <3>1. Reading(node) = [node EXCEPT !.observed = node.seed]
      BY <1>1, <2>2 DEF Reading
    <3>. QED  BY <2>2, <3>1 DEF Node, ToldOnce, Compared
  <2>. QED  BY <2>1, <2>2
<1>2. CASE node.result # Initial /\ node.announced
  BY <1>2 DEF Reading
<1>3. CASE node.result # Initial /\ ~node.announced
  <2>. DEFINE seeded == Compared(node)
              told == [node EXCEPT !.announced = TRUE, !.first = node.result.outcome]
  <2>1. Reading(node) = Told(node, seeded)
    BY <1>3 DEF Reading, announce, Compared
  <2>2. told \in Node /\ told.rechecks = 0 /\ told.mismatches = 0
    BY <1>3 DEF Node, Answers, ToldOnce
  <2>3. CASE seeded = NoSeed
    <3>1. Reading(node) = told
      BY <2>1, <2>3 DEF Told
    <3>2. Compared(told) = seeded
      BY DEF Compared, Node
    <3>. QED  BY <1>3, <2>2, <2>3, <3>1, <3>2 DEF Node, ToldOnce
  <2>4. CASE seeded # NoSeed
    <3>. DEFINE miss == IF isMismatch(seeded, node.result.outcome) THEN 1 ELSE 0
                new == [told EXCEPT !.rechecks = 1, !.mismatches = miss]
    <3>1. Reading(node) = new
      <4>1. Told(node, seeded) = [told EXCEPT !.rechecks = @ + 1,
                 !.mismatches = IF isMismatch(seeded, node.result.outcome) THEN @ + 1 ELSE @]
        BY <2>4 DEF Told
      <4>2. Reading(node) = [told EXCEPT !.rechecks = 0 + 1,
                 !.mismatches = IF isMismatch(seeded, node.result.outcome) THEN 0 + 1 ELSE 0]
        BY <2>1, <2>2, <4>1
      <4>. QED  BY <4>2
    <3>2. new \in Node
      BY <2>2 DEF Node
    <3>3. /\ new.result = node.result /\ new.waiting = node.waiting /\ new.run = node.run
          /\ new.seed = node.seed /\ new.observed = node.observed /\ new.announced
          /\ new.rechecks = 1 /\ new.mismatches = miss /\ new.first = node.result.outcome
      BY <2>2 DEF Node
    <3>4. Compared(new) = seeded
      BY <3>3 DEF Compared
    <3>. HIDE DEF new
    <3>. QED  BY <3>1, <3>2, <3>3, <3>4 DEF ToldOnce
  <2>. QED  BY <2>3, <2>4
<1>. QED  BY <1>1, <1>2, <1>3

(* A node that settles forgets nothing of the seed it showed.              *)
LEMMA KeptSeedStep ==
    ASSUME NEW node \in Node, ToldOnce(node), NEW seed \in KeptSeeds(node), NEW new \in Node,
           new.seed = seed, new.observed = node.observed, new.announced = node.announced,
           new.rechecks = node.rechecks, new.mismatches = node.mismatches,
           new.first = node.first
    PROVE  ToldOnce(new)
BY DEF ToldOnce, Compared, KeptSeeds

LEMMA SettledStep ==
    ASSUME NEW node \in Node, ToldOnce(node), NEW answer \in Answers,
           NEW new \in Settled(node, answer)
    PROVE  /\ new \in Node /\ ToldOnce(new)
           /\ new.result = answer /\ ~new.waiting /\ new.run = Initial
<1>1. PICK seed \in KeptSeeds(node) :
        new = Reading([node EXCEPT !.result = answer, !.waiting = FALSE, !.run = Initial,
                                   !.seed = seed])
  BY DEF Settled
<1>. DEFINE ended == [node EXCEPT !.result = answer, !.waiting = FALSE, !.run = Initial,
                                  !.seed = seed]
<1>2. seed \in HeldSeeds
  BY InitialIsAnswer DEF KeptSeeds, Node
<1>3. ended \in Node
  BY <1>2, InitialIsAnswer DEF Node
<1>4. /\ ended.result = answer /\ ended.waiting = FALSE /\ ended.run = Initial
      /\ ended.seed = seed /\ ended.observed = node.observed
      /\ ended.announced = node.announced /\ ended.rechecks = node.rechecks
      /\ ended.mismatches = node.mismatches /\ ended.first = node.first
  BY DEF Node
<1>5. new = Reading(ended)
  BY <1>1
<1>. HIDE DEF ended
<1>6. ToldOnce(ended)
  BY <1>3, <1>4, KeptSeedStep
<1>. QED  BY <1>3, <1>4, <1>5, <1>6, ReadingStep

LEMMA BegunStep ==
    ASSUME NEW node \in Node, ToldOnce(node), NEW run \in Answers, NEW new \in Begun(node, run)
    PROVE  /\ new \in Node /\ ToldOnce(new)
           /\ new.result = node.result /\ new.waiting /\ new.run = run
<1>. DEFINE begun == [node EXCEPT !.waiting = TRUE, !.run = run]
<1>1. new = Reading(begun)
  BY DEF Begun
<1>2. begun \in Node
  BY DEF Node
<1>3. /\ begun.result = node.result /\ begun.waiting = TRUE /\ begun.run = run
      /\ begun.seed = node.seed /\ begun.observed = node.observed
      /\ begun.announced = node.announced /\ begun.rechecks = node.rechecks
      /\ begun.mismatches = node.mismatches /\ begun.first = node.first
  BY DEF Node
<1>. HIDE DEF begun
<1>4. ToldOnce(begun)
  BY <1>3 DEF ToldOnce, Compared
<1>. QED  BY <1>1, <1>2, <1>3, <1>4, ReadingStep

(* An evaluation is of the subject it is asked for, and not old.           *)
LEMMA EvaluatedStep ==
    ASSUME NEW node \in Node, ToldOnce(node), NEW s \in Someone, NEW known,
           KnownOf(known, s), NEW new \in Evaluated(node, s, known)
    PROVE  /\ new \in Node /\ ToldOnce(new)
           /\ \A cleared : Fresh(new, s, cleared)
<1>1. CASE s = Nobody
  <2>1. new \in Begun(node, Initial)
    BY <1>1 DEF Evaluated
  <2>. QED  BY <2>1, InitialIsAnswer, BegunStep DEF Fresh
<1>2. CASE s # Nobody
  <2>1. Evaluated(node, s, known) =
          (Begun(node, Answer("pending", s, FALSE))
             \cup (UNION {Settled(node, Answer(o, s, FALSE)) : o \in Outcomes}))
             \cup (IF known = Initial THEN {} ELSE Settled(node, known))
    BY <1>2 DEF Evaluated
  <2>2. \/ new \in Begun(node, Answer("pending", s, FALSE))
        \/ \E o \in Outcomes : new \in Settled(node, Answer(o, s, FALSE))
        \/ known # Initial /\ new \in Settled(node, known)
    BY <2>1, Zenon
  <2>3. ASSUME NEW o \in Outcomes \cup {"pending"}
        PROVE  /\ Answer(o, s, FALSE) \in Answers
               /\ Answer(o, s, FALSE).of = s /\ ~Answer(o, s, FALSE).old
    BY DEF Answer, Answers
  <2>4. CASE new \in Begun(node, Answer("pending", s, FALSE))
    <3>. DEFINE run == Answer("pending", s, FALSE)
    <3>1. run \in Answers /\ run.of = s /\ ~run.old
      BY <2>3
    <3>2. new \in Begun(node, run)
      BY <2>4
    <3>. HIDE DEF run
    <3>3. new \in Node /\ ToldOnce(new) /\ new.waiting /\ new.run = run
      BY <3>1, <3>2, BegunStep
    <3>. QED  BY <3>1, <3>3 DEF Fresh
  <2>5. ASSUME NEW answer \in Answers, answer.of = s, ~answer.old, new \in Settled(node, answer)
        PROVE  /\ new \in Node /\ ToldOnce(new) /\ \A cleared : Fresh(new, s, cleared)
    <3>1. /\ new \in Node /\ ToldOnce(new)
          /\ new.result = answer /\ ~new.waiting /\ new.run = Initial
      BY <2>5, SettledStep
    <3>. QED  BY <2>5, <3>1 DEF Fresh
  <2>6. ASSUME NEW o \in Outcomes, new \in Settled(node, Answer(o, s, FALSE))
        PROVE  /\ new \in Node /\ ToldOnce(new) /\ \A cleared : Fresh(new, s, cleared)
    BY <2>3, <2>5, <2>6
  <2>7. CASE known # Initial /\ new \in Settled(node, known)
    BY <2>5, <2>7 DEF KnownOf
  <2>. QED  BY <2>2, <2>4, <2>6, <2>7
<1>. QED  BY <1>1, <1>2

----------------------------------------------------------------------------
(* The nodes of a registry, and what its cache learns.                     *)

(* A set of numbers up to a bound has a largest one: by how far each is    *)
(* from the bound, which is well ordered.                                  *)
LEMMA LargestOfBounded ==
    ASSUME NEW n \in Nat, NEW S \in SUBSET (1 .. n), S # {}
    PROVE  Max(S) \in S
<1>. DEFINE T == {n - x : x \in S}
<1>1. T \subseteq Nat /\ T # {}
  <2>1. PICK x \in S : TRUE
    OBVIOUS
  <2>2. n - x \in T
    OBVIOUS
  <2>. QED  BY <2>2
<1>2. PICK m \in T : \A k \in T : <<k, m>> \notin OpToRel(<, Nat)
  BY <1>1, WFMin, NatLessThanWellFounded, Zenon
<1>3. \A k \in T : ~(k < m)
  BY <1>1, <1>2, Zenon DEF OpToRel
<1>4. PICK x \in S : m = n - x
  OBVIOUS
<1>5. \A y \in S : x >= y
  <2>. SUFFICES ASSUME NEW y \in S  PROVE x >= y
    OBVIOUS
  <2>1. n - y \in T
    OBVIOUS
  <2>2. ~(n - y < n - x)
    BY <1>3, <1>4, <2>1
  <2>. QED  BY <2>2
<1>. QED  BY <1>5 DEF Max

LEMMA BecomeStep ==
    ASSUME ClientInv, NEW r \in Registries, NEW next, DOMAIN next \subseteq 1 .. MaxHandles,
           \A h \in DOMAIN next : next[h] \in Node /\ ToldOnce(next[h]),
           Become(r, next)
    PROVE  /\ nodes' \in [Registries -> [1 .. MaxHandles -> Node]]
           /\ cache' \in [Registries -> [Questions \X Subjects -> Answers]]
           /\ CacheIsFresh'
           /\ \A q \in Registries, h \in 1 .. MaxHandles :
                /\ ToldOnce(nodes'[q][h])
                /\ nodes'[q][h] = IF q = r /\ h \in DOMAIN next THEN next[h] ELSE nodes[q][h]
<1>1. nodes' = [nodes EXCEPT ![r] =
          [h \in 1 .. MaxHandles |-> IF h \in DOMAIN next THEN next[h] ELSE nodes[r][h]]]
  BY DEF Become
<1>2. /\ nodes \in [Registries -> [1 .. MaxHandles -> Node]]
      /\ cache \in [Registries -> [Questions \X Subjects -> Answers]]
  BY DEF ClientInv, ClientTypeOK
<1>3. \A q \in Registries, h \in 1 .. MaxHandles :
          nodes'[q][h] = IF q = r /\ h \in DOMAIN next THEN next[h] ELSE nodes[q][h]
  BY <1>1, <1>2
<1>4. nodes' \in [Registries -> [1 .. MaxHandles -> Node]]
  BY <1>1, <1>2
<1>5. \A q \in Registries, h \in 1 .. MaxHandles : ToldOnce(nodes'[q][h])
  BY <1>3 DEF ClientInv, NodesAreFresh
<1>. DEFINE learned(k) == Learned(next, k[1], k[2])
            remained == [k \in Questions \X Subjects |->
                             IF learned(k) = {} THEN cache[r][k] ELSE next[Max(learned(k))].result]
<1>6. cache' = [cache EXCEPT ![r] = remained]
  BY DEF Become
<1>7. ASSUME NEW k \in Questions \X Subjects
      PROVE  remained[k] \in Answers /\ KnownOf(remained[k], k[2])
  <2>1. CASE learned(k) = {}
    BY <1>2, <2>1 DEF ClientInv, CacheIsFresh
  <2>2. CASE learned(k) # {}
    <3>. DEFINE h == Max(learned(k))
    <3>1. learned(k) \in SUBSET (1 .. MaxHandles)
      BY DEF Learned
    <3>2. h \in learned(k)
      BY <2>2, <3>1, BoundsAssumption, LargestOfBounded
    <3>3. h \in DOMAIN next /\ Remembers(k[1], k[2], next[h])
      BY <3>2 DEF Learned
    <3>4. next[h].result \in Answers
      BY <3>3 DEF Node
    <3>5. remained[k] = next[h].result
      BY <2>2
    <3>. HIDE DEF remained, h, learned
    <3>. QED  BY <3>3, <3>4, <3>5 DEF Remembers, KnownOf
  <2>. QED  BY <2>1, <2>2
<1>. HIDE DEF remained, learned
<1>8. remained \in [Questions \X Subjects -> Answers]
  BY <1>7 DEF remained
<1>9. cache' \in [Registries -> [Questions \X Subjects -> Answers]]
  BY <1>2, <1>6, <1>8
<1>10. CacheIsFresh'
  BY <1>2, <1>6, <1>7 DEF ClientInv, CacheIsFresh
<1>. QED  BY <1>3, <1>4, <1>5, <1>9, <1>10

LEMMA RecomputeStep ==
    ASSUME ClientInv, NEW r \in Registries, NEW s \in Someone, Recompute(r, s)
    PROVE  /\ nodes' \in [Registries -> [1 .. MaxHandles -> Node]]
           /\ cache' \in [Registries -> [Questions \X Subjects -> Answers]]
           /\ CacheIsFresh'
           /\ \A q \in Registries, h \in 1 .. MaxHandles :
                /\ ToldOnce(nodes'[q][h])
                /\ q # r => nodes'[q][h] = nodes[q][h]
           /\ \A h \in 1 .. MaxHandles : \A cleared :
                Mounted(r, h) => Fresh(nodes'[r][h], s, cleared)
<1>. DEFINE again == [h \in Readers(r) |-> Evaluated(nodes[r][h], s, Known(r, h, s))]
<1>1. PICK next \in [Readers(r) -> UNION Range(again)] :
        (\A h \in Readers(r) : next[h] \in again[h]) /\ Become(r, next)
  BY DEF Recompute
<1>2. DOMAIN next = Readers(r) /\ Readers(r) \subseteq 1 .. MaxHandles
  BY <1>1 DEF Readers
<1>3. ASSUME NEW h \in Readers(r)
      PROVE  next[h] \in Node /\ ToldOnce(next[h]) /\ \A cleared : Fresh(next[h], s, cleared)
  <2>1. nodes[r][h] \in Node /\ ToldOnce(nodes[r][h])
    BY <1>2 DEF ClientInv, ClientTypeOK, NodesAreFresh
  <2>2. KnownOf(Known(r, h, s), s)
    BY DEF Known, KnownOf, ClientInv, ClientTypeOK, CacheIsFresh
  <2>3. next[h] \in Evaluated(nodes[r][h], s, Known(r, h, s))
    BY <1>1
  <2>. QED  BY <2>1, <2>2, <2>3, EvaluatedStep
<1>4. \A h \in 1 .. MaxHandles : Mounted(r, h) => h \in Readers(r)
  BY DEF Readers
<1>. HIDE DEF again
<1>5. /\ nodes' \in [Registries -> [1 .. MaxHandles -> Node]]
      /\ cache' \in [Registries -> [Questions \X Subjects -> Answers]]
      /\ CacheIsFresh'
      /\ \A q \in Registries, h \in 1 .. MaxHandles :
           /\ ToldOnce(nodes'[q][h])
           /\ nodes'[q][h] = IF q = r /\ h \in DOMAIN next THEN next[h] ELSE nodes[q][h]
  BY <1>1, <1>2, <1>3, BecomeStep
<1>6. \A q \in Registries, h \in 1 .. MaxHandles : q # r => nodes'[q][h] = nodes[q][h]
  BY <1>5
<1>7. ASSUME NEW h \in 1 .. MaxHandles, NEW cleared, Mounted(r, h)
      PROVE  Fresh(nodes'[r][h], s, cleared)
  <2>1. h \in Readers(r) /\ nodes'[r][h] = next[h]
    BY <1>2, <1>4, <1>5, <1>7
  <2>. QED  BY <1>3, <2>1
<1>. QED  BY <1>5, <1>6, <1>7

----------------------------------------------------------------------------
(* One lemma per action, or for those that touch no node together.         *)

LEMMA QuietClientStep ==
    ASSUME ClientInv, UNCHANGED <<subject, nodes, cache, invalidation>>,
           hydrated' \in [1 .. MaxHandles -> HeldSeeds],
           gates' \in [Gates -> [handle : 0 .. MaxHandles, home : Registries \cup {None}]],
           \A r \in Registries : \A h : Mounted(r, h)' => Mounted(r, h)
    PROVE  ClientInv'
<1>1. ClientTypeOK'
  BY DEF ClientInv, ClientTypeOK
<1>2. NodesAreFresh'
  BY DEF ClientInv, NodesAreFresh
<1>. QED  BY <1>1, <1>2 DEF ClientInv, CacheIsFresh

LEMMA HydrateStep ==
    ASSUME ClientInv, NEW q \in Questions, NEW seed \in Seeds, Hydrate(q, seed)
    PROVE  ClientInv'
<1>1. seed \in HeldSeeds
  BY DEF Seeds, HeldSeeds, Someone
<1>2. hydrated' \in [1 .. MaxHandles -> HeldSeeds]
  BY <1>1 DEF Hydrate, ClientInv, ClientTypeOK
<1>. QED  BY <1>2, QuietClientStep DEF Hydrate, Mounted, ClientInv, ClientTypeOK

LEMMA ProvideStep ==
    ASSUME ClientInv, NEW r \in Registries, NEW s \in Subjects \cup {Nobody}, Provide(r, s)
    PROVE  ClientInv'
<1>. DEFINE blank(h) == [Blank EXCEPT !.seed = hydrated[h]]
<1>1. nodes' = [nodes EXCEPT ![r] = [h \in 1 .. MaxHandles |-> blank(h)]]
  BY DEF Provide, ClientInv, ClientTypeOK
<1>2. \A h \in 1 .. MaxHandles :
        /\ blank(h) \in Node /\ ToldOnce(blank(h))
        /\ \A t, cleared : Fresh(blank(h), t, cleared)
  BY BlankIsFresh DEF ClientInv, ClientTypeOK
<1>. HIDE DEF blank
<1>3. ClientTypeOK'
  <2>1. nodes' \in [Registries -> [1 .. MaxHandles -> Node]]
    BY <1>1, <1>2 DEF ClientInv, ClientTypeOK
  <2>2. subject' \in [Registries -> Someone]
    BY DEF Provide, Someone, ClientInv, ClientTypeOK
  <2>. QED  BY <2>1, <2>2 DEF Provide, ClientInv, ClientTypeOK
<1>4. NodesAreFresh'
  <2>. SUFFICES ASSUME NEW q \in Registries, NEW h \in 1 .. MaxHandles
                PROVE  /\ ToldOnce(nodes'[q][h])
                       /\ Mounted(q, h)' => Fresh(nodes'[q][h], subject'[q],
                                                  invalidation'[q] = "cleared")
    BY DEF NodesAreFresh
  <2>1. CASE q = r
    <3>1. nodes'[q][h] = blank(h)
      BY <1>1, <2>1 DEF ClientInv, ClientTypeOK
    <3>. QED  BY <1>2, <3>1
  <2>2. CASE q # r
    <3>1. nodes'[q][h] = nodes[q][h] /\ subject'[q] = subject[q]
      BY <1>1, <2>2 DEF Provide, ClientInv, ClientTypeOK
    <3>. QED  BY <3>1 DEF Provide, Mounted, ClientInv, NodesAreFresh
  <2>. QED  BY <2>1, <2>2
<1>5. CacheIsFresh'
  BY DEF Provide, ClientInv, CacheIsFresh
<1>. QED  BY <1>3, <1>4, <1>5 DEF ClientInv

(* SetSubject and Refresh: what is mounted is evaluated again, for the     *)
(* subject the registry has now.                                           *)
LEMMA RecomputedStep ==
    ASSUME ClientInv, NEW r \in Registries, NEW s \in Someone, Recompute(r, s),
           subject' = [subject EXCEPT ![r] = s], UNCHANGED <<hydrated, gates>>,
           DOMAIN invalidation' = Registries,
           \A q \in Registries \ {r} : invalidation'[q] = invalidation[q]
    PROVE  ClientInv'
<1>1. ClientTypeOK'
  BY RecomputeStep DEF ClientInv, ClientTypeOK
<1>2. NodesAreFresh'
  <2>. SUFFICES ASSUME NEW q \in Registries, NEW h \in 1 .. MaxHandles
                PROVE  /\ ToldOnce(nodes'[q][h])
                       /\ Mounted(q, h)' => Fresh(nodes'[q][h], subject'[q],
                                                  invalidation'[q] = "cleared")
    BY DEF NodesAreFresh
  <2>1. Mounted(q, h)' => Mounted(q, h)
    BY DEF Mounted
  <2>2. CASE q = r
    BY <2>1, <2>2, RecomputeStep DEF ClientInv, ClientTypeOK
  <2>3. CASE q # r
    <3>1. subject'[q] = subject[q] /\ invalidation'[q] = invalidation[q]
      BY <2>3 DEF ClientInv, ClientTypeOK
    <3>. QED  BY <2>1, <2>3, <3>1, RecomputeStep DEF ClientInv, NodesAreFresh
  <2>. QED  BY <2>2, <2>3
<1>. QED  BY <1>1, <1>2, RecomputeStep DEF ClientInv

LEMMA AskGuardStep ==
    ASSUME ClientInv, NEW g \in Gates, NEW q \in Questions, Ask(g, q)
    PROVE  ClientInv'
<1>. DEFINE h == open(book, q).entries[q]
<1>1. h \in 0 .. MaxHandles /\ gates' = [gates EXCEPT ![g].handle = h] /\ gates[g].home = None
  BY BoundsAssumption DEF Ask
<1>. HIDE DEF h
<1>2. gates' \in [Gates -> [handle : 0 .. MaxHandles, home : Registries \cup {None}]]
  BY <1>1 DEF ClientInv, ClientTypeOK
<1>3. \A r \in Registries : \A i : Mounted(r, i)' => Mounted(r, i)
  BY <1>1, RegistriesAssumption DEF Mounted, ClientInv, ClientTypeOK, None
<1>. QED  BY <1>2, <1>3, QuietClientStep DEF Ask, ClientInv, ClientTypeOK

(* The first reader of a registry builds the node, for its subject.        *)
LEMMA MountStep ==
    ASSUME ClientInv, NEW g \in Gates, NEW r \in Registries, Mount(g, r)
    PROVE  ClientInv'
<1>. DEFINE h == gates[g].handle
<1>1. /\ h \in 1 .. MaxHandles /\ gates[g].home = None
      /\ gates' = [gates EXCEPT ![g].home = r]
      /\ UNCHANGED <<hydrated, subject, invalidation>>
  BY BoundsAssumption DEF Mount, ClientInv, ClientTypeOK
<1>2. gates' \in [Gates -> [handle : 0 .. MaxHandles, home : Registries \cup {None}]]
  BY <1>1 DEF ClientInv, ClientTypeOK
<1>3. \A q \in Registries : \A i :
        Mounted(q, i)' => Mounted(q, i) \/ (q = r /\ i = h)
  BY <1>1 DEF Mounted, ClientInv, ClientTypeOK
<1>4. CASE Mounted(r, h)
  <2>1. UNCHANGED <<nodes, cache>>
    BY <1>4 DEF Mount
  <2>. QED  BY <1>1, <1>2, <1>3, <1>4, <2>1, QuietClientStep DEF ClientInv, ClientTypeOK
<1>5. CASE ~Mounted(r, h)
  <2>1. PICK node \in Evaluated(nodes[r][h], subject[r], Known(r, h, subject[r])) :
          Become(r, [i \in {h} |-> node])
    BY <1>5 DEF Mount
  <2>2. subject[r] \in Someone /\ nodes[r][h] \in Node /\ ToldOnce(nodes[r][h])
    BY <1>1 DEF ClientInv, ClientTypeOK, NodesAreFresh
  <2>3. KnownOf(Known(r, h, subject[r]), subject[r])
    BY DEF Known, KnownOf, ClientInv, ClientTypeOK, CacheIsFresh
  <2>4. node \in Node /\ ToldOnce(node) /\ \A cleared : Fresh(node, subject[r], cleared)
    BY <2>2, <2>3, EvaluatedStep
  <2>. DEFINE next == [i \in {h} |-> node]
  <2>5. /\ DOMAIN next = {h} /\ next[h] = node
        /\ \A i \in DOMAIN next : next[i] \in Node /\ ToldOnce(next[i])
    BY <2>4
  <2>6. Become(r, next)
    BY <2>1
  <2>. HIDE DEF next
  <2>7. /\ nodes' \in [Registries -> [1 .. MaxHandles -> Node]]
        /\ cache' \in [Registries -> [Questions \X Subjects -> Answers]]
        /\ CacheIsFresh'
        /\ \A q \in Registries, i \in 1 .. MaxHandles :
             /\ ToldOnce(nodes'[q][i])
             /\ nodes'[q][i] = IF q = r /\ i \in DOMAIN next THEN next[i] ELSE nodes[q][i]
    <3>1. DOMAIN next \subseteq 1 .. MaxHandles
      BY <1>1, <2>5
    <3>. HIDE DEF h
    <3>. QED  BY <2>5, <2>6, <3>1, BecomeStep
  <2>8. NodesAreFresh'
    <3>. SUFFICES ASSUME NEW q \in Registries, NEW i \in 1 .. MaxHandles, Mounted(q, i)'
                  PROVE  Fresh(nodes'[q][i], subject[q], invalidation[q] = "cleared")
      BY <1>1, <2>7 DEF NodesAreFresh
    <3>1. CASE q = r /\ i = h
      BY <2>4, <2>5, <2>7, <3>1
    <3>2. CASE ~(q = r /\ i = h)
      BY <1>3, <2>5, <2>7, <3>2 DEF ClientInv, NodesAreFresh
    <3>. QED  BY <3>1, <3>2
  <2>9. ClientTypeOK'
    BY <1>1, <1>2, <2>7 DEF ClientInv, ClientTypeOK
  <2>. QED  BY <2>7, <2>8, <2>9 DEF ClientInv
<1>. QED  BY <1>4, <1>5

(* The last reader of a registry leaves a node that forgot its answer.     *)
LEMMA UnmountStep ==
    ASSUME ClientInv, NEW g \in Gates, Unmount(g)
    PROVE  ClientInv'
<1>. DEFINE h == gates[g].handle
            r == gates[g].home
<1>1. /\ r \in Registries /\ gates' = [gates EXCEPT ![g].home = None]
      /\ UNCHANGED <<hydrated, subject, cache, invalidation>>
  BY DEF Unmount, ClientInv, ClientTypeOK
<1>2. gates' \in [Gates -> [handle : 0 .. MaxHandles, home : Registries \cup {None}]]
  BY <1>1 DEF ClientInv, ClientTypeOK
<1>3. \A q \in Registries : \A i : Mounted(q, i)' => Mounted(q, i)
  BY <1>1, RegistriesAssumption DEF Mounted, ClientInv, ClientTypeOK, None
<1>4. CASE \E f \in Gates \ {g} : gates[f] = gates[g]
  <2>1. UNCHANGED nodes
    BY <1>4 DEF Unmount
  <2>. QED  BY <1>1, <1>2, <1>3, <2>1, QuietClientStep DEF ClientInv, ClientTypeOK
<1>5. CASE ~\E f \in Gates \ {g} : gates[f] = gates[g]
  <2>1. \A q \in Registries : \A i : q = r /\ i = h => ~Mounted(q, i)'
    BY <1>1, <1>5, RegistriesAssumption DEF Mounted, ClientInv, ClientTypeOK, None
  <2>2. PICK seed \in KeptSeeds(nodes[r][h]) : nodes' = [nodes EXCEPT ![r][h] =
            [@ EXCEPT !.result = Initial, !.waiting = FALSE, !.run = Initial, !.seed = seed]]
    BY <1>5 DEF Unmount
  <2>. DEFINE left == [nodes[r][h] EXCEPT !.result = Initial, !.waiting = FALSE,
                                          !.run = Initial, !.seed = seed]
  <2>3. CASE h \notin 1 .. MaxHandles
    <3>1. nodes' = nodes
      <4>1. /\ nodes \in [Registries -> [1 .. MaxHandles -> Node]]
            /\ nodes[r] \in [1 .. MaxHandles -> Node]
        BY <1>1 DEF ClientInv, ClientTypeOK
      <4>2. nodes' = [nodes EXCEPT ![r] = [nodes[r] EXCEPT ![h] = left]]
        BY <2>2
      <4>. HIDE DEF left
      <4>3. [nodes[r] EXCEPT ![h] = left] = nodes[r]
        BY <2>3, <4>1
      <4>. QED  BY <1>1, <4>1, <4>2, <4>3
    <3>. QED  BY <1>1, <1>2, <1>3, <3>1, QuietClientStep DEF ClientInv, ClientTypeOK
  <2>4. CASE h \in 1 .. MaxHandles
    <3>1. nodes[r][h] \in Node /\ ToldOnce(nodes[r][h])
      BY <1>1, <2>4 DEF ClientInv, ClientTypeOK, NodesAreFresh
    <3>2. seed \in HeldSeeds
      BY <3>1, InitialIsAnswer DEF KeptSeeds, Node
    <3>3. left \in Node
      BY <3>1, <3>2, InitialIsAnswer DEF Node
    <3>4. ToldOnce(left)
      <4>1. /\ left.seed = seed /\ left.observed = nodes[r][h].observed
            /\ left.announced = nodes[r][h].announced /\ left.rechecks = nodes[r][h].rechecks
            /\ left.mismatches = nodes[r][h].mismatches /\ left.first = nodes[r][h].first
        BY <3>1 DEF Node
      <4>. HIDE DEF left
      <4>. QED  BY <3>1, <3>3, <4>1, KeptSeedStep
    <3>5. nodes' = [nodes EXCEPT ![r][h] = left]
      BY <2>2
    <3>. HIDE DEF left
    <3>6. /\ nodes' \in [Registries -> [1 .. MaxHandles -> Node]]
          /\ \A q \in Registries, i \in 1 .. MaxHandles :
               nodes'[q][i] = IF q = r /\ i = h THEN left ELSE nodes[q][i]
      BY <1>1, <3>3, <3>5 DEF ClientInv, ClientTypeOK
    <3>7. NodesAreFresh'
      <4>. SUFFICES ASSUME NEW q \in Registries, NEW i \in 1 .. MaxHandles
                    PROVE  /\ ToldOnce(nodes'[q][i])
                           /\ Mounted(q, i)' => Fresh(nodes'[q][i], subject[q],
                                                      invalidation[q] = "cleared")
        BY <1>1 DEF NodesAreFresh
      <4>1. CASE q = r /\ i = h
        BY <2>1, <3>4, <3>6, <4>1
      <4>2. CASE ~(q = r /\ i = h)
        BY <1>3, <3>6, <4>2 DEF ClientInv, NodesAreFresh
      <4>. QED  BY <4>1, <4>2
    <3>8. ClientTypeOK'
      BY <1>1, <1>2, <3>6 DEF ClientInv, ClientTypeOK
    <3>. QED  BY <1>1, <3>7, <3>8 DEF ClientInv, CacheIsFresh
  <2>. QED  BY <2>3, <2>4
<1>. QED  BY <1>4, <1>5

LEMMA SettleStep ==
    ASSUME ClientInv, NEW r \in Registries, NEW h, NEW outcome \in Outcomes,
           Settle(r, h, outcome)
    PROVE  ClientInv'
<1>. DEFINE run == nodes[r][h].run
            answer == Answer(outcome, run.of, run.old)
<1>1. h \in 1 .. MaxHandles /\ Mounted(r, h) /\ run # Initial
  BY DEF Settle, Readers
<1>2. /\ nodes[r][h] \in Node /\ ToldOnce(nodes[r][h])
      /\ Fresh(nodes[r][h], subject[r], invalidation[r] = "cleared")
  BY <1>1 DEF ClientInv, ClientTypeOK, NodesAreFresh
<1>3. /\ answer \in Answers /\ answer.of = subject[r]
      /\ invalidation[r] # "cleared" => ~answer.old
  BY <1>1, <1>2 DEF Answer, Answers, Node, Fresh
<1>4. PICK node \in Settled(nodes[r][h], answer) : Become(r, [i \in {h} |-> node])
  BY DEF Settle
<1>. HIDE DEF answer, run
<1>5. /\ node \in Node /\ ToldOnce(node)
      /\ node.result = answer /\ ~node.waiting /\ node.run = Initial
  BY <1>2, <1>3, <1>4, SettledStep
<1>6. Fresh(node, subject[r], invalidation[r] = "cleared")
  BY <1>3, <1>5 DEF Fresh
<1>. DEFINE next == [i \in {h} |-> node]
<1>7. /\ DOMAIN next = {h} /\ next[h] = node /\ DOMAIN next \subseteq 1 .. MaxHandles
      /\ \A i \in DOMAIN next : next[i] \in Node /\ ToldOnce(next[i])
  BY <1>1, <1>5
<1>8. Become(r, next)
  BY <1>4
<1>. HIDE DEF next
<1>9. /\ nodes' \in [Registries -> [1 .. MaxHandles -> Node]]
      /\ cache' \in [Registries -> [Questions \X Subjects -> Answers]]
      /\ CacheIsFresh'
      /\ \A q \in Registries, i \in 1 .. MaxHandles :
           /\ ToldOnce(nodes'[q][i])
           /\ nodes'[q][i] = IF q = r /\ i \in DOMAIN next THEN next[i] ELSE nodes[q][i]
  BY <1>7, <1>8, BecomeStep
<1>10. UNCHANGED <<hydrated, subject, invalidation, gates>>
  BY DEF Settle
<1>11. ClientTypeOK'
  BY <1>9, <1>10 DEF ClientInv, ClientTypeOK
<1>12. NodesAreFresh'
  <2>. SUFFICES ASSUME NEW q \in Registries, NEW i \in 1 .. MaxHandles, Mounted(q, i)
                PROVE  Fresh(nodes'[q][i], subject[q], invalidation[q] = "cleared")
    BY <1>9, <1>10 DEF NodesAreFresh, Mounted
  <2>1. CASE q = r /\ i = h
    BY <1>6, <1>7, <1>9, <2>1
  <2>2. CASE ~(q = r /\ i = h)
    BY <1>7, <1>9, <2>2 DEF ClientInv, NodesAreFresh
  <2>. QED  BY <2>1, <2>2
<1>. QED  BY <1>9, <1>11, <1>12 DEF ClientInv

LEMMA InvalidateStep ==
    ASSUME ClientInv, NEW r \in Registries, Invalidate(r)
    PROVE  ClientInv'
<1>1. /\ UNCHANGED <<hydrated, subject, nodes, cache, gates>>
      /\ DOMAIN invalidation' = Registries
      /\ \A q \in Registries :
           (invalidation'[q] = "cleared") = (invalidation[q] = "cleared")
  BY DEF Invalidate, ClientInv, ClientTypeOK
<1>2. NodesAreFresh'
  BY <1>1 DEF ClientInv, NodesAreFresh, Mounted
<1>. QED  BY <1>1, <1>2 DEF ClientInv, ClientTypeOK, CacheIsFresh

(* From the clear to the refresh, what is shown may be old, but is still   *)
(* of the registry's subject; and the cache knows nothing.                 *)
LEMMA ClearCacheStep ==
    ASSUME ClientInv, NEW r \in Registries, ClearCache(r)
    PROVE  ClientInv'
<1>. DEFINE old(h) == [nodes[r][h] EXCEPT !.result = Outdated(@), !.run = Outdated(@)]
<1>1. /\ UNCHANGED <<hydrated, subject, gates>>
      /\ invalidation' = [invalidation EXCEPT ![r] = "cleared"]
      /\ nodes' = [nodes EXCEPT ![r] = [h \in 1 .. MaxHandles |-> old(h)]]
      /\ cache' = [cache EXCEPT ![r] = [k \in Questions \X Subjects |-> Initial]]
  BY DEF ClearCache, OutdatedNodes, ClientInv, ClientTypeOK
<1>2. ASSUME NEW answer \in Answers
      PROVE  /\ Outdated(answer) \in Answers
             /\ (Outdated(answer) # Initial => answer # Initial)
             /\ Outdated(answer).of = answer.of
  BY DEF Outdated, Answers
<1>3. ASSUME NEW h \in 1 .. MaxHandles
      PROVE  /\ old(h) \in Node /\ ToldOnce(old(h))
             /\ Mounted(r, h) => Fresh(old(h), subject[r], TRUE)
  <2>1. nodes[r][h] \in Node /\ ToldOnce(nodes[r][h])
    BY DEF ClientInv, ClientTypeOK, NodesAreFresh
  <2>2. nodes[r][h].result \in Answers /\ nodes[r][h].run \in Answers
    BY <2>1 DEF Node
  <2>3. /\ old(h) = [nodes[r][h] EXCEPT !.result = Outdated(nodes[r][h].result),
                                        !.run = Outdated(nodes[r][h].run)]
        /\ Outdated(nodes[r][h].result) \in Answers /\ Outdated(nodes[r][h].run) \in Answers
    BY <1>2, <2>2
  <2>4. old(h) \in Node
    BY <2>1, <2>3 DEF Node
  <2>5. /\ old(h).result = Outdated(nodes[r][h].result) /\ old(h).run = Outdated(nodes[r][h].run)
        /\ old(h).waiting = nodes[r][h].waiting
        /\ old(h).seed = nodes[r][h].seed /\ old(h).observed = nodes[r][h].observed
        /\ old(h).announced = nodes[r][h].announced /\ old(h).rechecks = nodes[r][h].rechecks
        /\ old(h).mismatches = nodes[r][h].mismatches /\ old(h).first = nodes[r][h].first
    BY <2>1, <2>3 DEF Node
  <2>. HIDE DEF old
  <2>6. ToldOnce(old(h))
    BY <2>1, <2>5 DEF ToldOnce, Compared
  <2>7. Mounted(r, h) => Fresh(nodes[r][h], subject[r], invalidation[r] = "cleared")
    BY DEF ClientInv, NodesAreFresh
  <2>8. Mounted(r, h) => Fresh(old(h), subject[r], TRUE)
    BY <1>2, <2>2, <2>5, <2>7 DEF Fresh
  <2>. QED  BY <2>4, <2>6, <2>8
<1>. HIDE DEF old
<1>4. ClientTypeOK'
  BY <1>1, <1>3, InitialIsAnswer DEF ClientInv, ClientTypeOK
<1>5. NodesAreFresh'
  <2>. SUFFICES ASSUME NEW q \in Registries, NEW i \in 1 .. MaxHandles
                PROVE  /\ ToldOnce(nodes'[q][i])
                       /\ Mounted(q, i) => Fresh(nodes'[q][i], subject[q],
                                                 invalidation'[q] = "cleared")
    BY <1>1 DEF NodesAreFresh, Mounted
  <2>1. CASE q = r
    BY <1>1, <1>3, <2>1 DEF ClientInv, ClientTypeOK
  <2>2. CASE q # r
    <3>1. nodes'[q][i] = nodes[q][i] /\ invalidation'[q] = invalidation[q]
      BY <1>1, <2>2 DEF ClientInv, ClientTypeOK
    <3>. QED  BY <3>1 DEF ClientInv, NodesAreFresh
  <2>. QED  BY <2>1, <2>2
<1>6. CacheIsFresh'
  BY <1>1 DEF ClientInv, ClientTypeOK, CacheIsFresh, KnownOf
<1>. QED  BY <1>4, <1>5, <1>6 DEF ClientInv

LEMMA ClientStarts == ASSUME ClientInit  PROVE ClientInv
<1>1. Blank \in Node /\ ToldOnce(Blank)
  <2>1. Blank \in Node
    BY InitialIsAnswer DEF Blank, Node
  <2>2. /\ Blank.seed = NoSeed /\ Blank.observed = NoSeed /\ ~Blank.announced
        /\ Blank.rechecks = 0 /\ Blank.mismatches = 0 /\ Blank.first = None
    BY DEF Blank
  <2>. QED  BY <2>1, <2>2 DEF ToldOnce
<1>2. ClientTypeOK
  BY <1>1, InitialIsAnswer, BoundsAssumption DEF ClientInit, ClientTypeOK, Someone
<1>3. NodesAreFresh
  BY <1>1, RegistriesAssumption DEF ClientInit, NodesAreFresh, Mounted, None
<1>4. CacheIsFresh
  BY DEF ClientInit, CacheIsFresh, KnownOf
<1>. QED  BY <1>2, <1>3, <1>4 DEF ClientInv

LEMMA ClientStep == ASSUME ClientInv, [ClientNext]_clientVars  PROVE ClientInv'
<1>1. ASSUME NEW r \in Registries, NEW s \in Subjects \cup {Nobody}, SetSubject(r, s)
      PROVE  ClientInv'
  BY <1>1, RecomputedStep DEF SetSubject, Someone, ClientInv, ClientTypeOK
<1>2. ASSUME NEW r \in Registries, Refresh(r)  PROVE ClientInv'
  <2>1. /\ subject[r] \in Someone /\ subject' = [subject EXCEPT ![r] = subject[r]]
        /\ Recompute(r, subject[r]) /\ UNCHANGED <<hydrated, gates>>
    BY <1>2 DEF Refresh, ClientInv, ClientTypeOK
  <2>2. /\ DOMAIN invalidation' = Registries
        /\ \A q \in Registries \ {r} : invalidation'[q] = invalidation[q]
    BY <1>2 DEF Refresh, ClientInv, ClientTypeOK
  <2>. QED  BY <2>1, <2>2, RecomputedStep
<1>3. CASE Sweep
  BY <1>3, QuietClientStep DEF Sweep, Mounted, ClientInv, ClientTypeOK
<1>4. CASE UNCHANGED clientVars
  BY <1>4, QuietClientStep DEF clientVars, Mounted, ClientInv, ClientTypeOK
<1>. QED  BY <1>1, <1>2, <1>3, <1>4, HydrateStep, ProvideStep, AskGuardStep, MountStep, UnmountStep,
              SettleStep, InvalidateStep, ClearCacheStep
          DEF ClientNext, RegistryStep, GuardStep

(* The inductive invariant: types, nodes that are told once and are of     *)
(* their registry's subject, and a cache that knows nothing old.           *)
THEOREM ClientInvariant == ClientSpec => []ClientInv
<1>1. ClientInit => ClientInv
  BY ClientStarts
<1>2. ClientInv /\ [ClientNext]_clientVars => ClientInv'
  BY ClientStep
<1>. QED  BY <1>1, <1>2, PTL DEF ClientSpec

(* What a guard renders of this client's own answers is always of the      *)
(* registry's subject, and not older than the last invalidation.           *)
(* (ADR-QD-017, INV-QD-094; QadiAtoms.ts, invalidate)                      *)
THEOREM AnswersAreCurrent == ClientSpec => []CurrentAnswersOnly
<1>1. ASSUME ClientInv  PROVE CurrentAnswersOnly
  <2>. SUFFICES ASSUME NEW r \in Registries, NEW h \in 1 .. MaxHandles, Mounted(r, h),
                       nodes[r][h].result # Initial, RendersAnAnswer(outcomeOf(nodes[r][h]))
                PROVE  /\ nodes[r][h].result.of = subject[r]
                       /\ invalidation[r] # "cleared" => ~nodes[r][h].result.old
    BY DEF CurrentAnswersOnly
  <2>1. Fresh(nodes[r][h], subject[r], invalidation[r] = "cleared")
    BY <1>1 DEF ClientInv, NodesAreFresh
  <2>2. ~nodes[r][h].waiting
    <3>1. ~RendersAnAnswer("Rechecking")
      BY DEF RendersAnAnswer, chosen, refused, useCan, useProjected
    <3>. QED  BY <3>1 DEF outcomeOf
  <2>. QED  BY <2>1, <2>2 DEF Fresh
<1>. QED  BY <1>1, ClientInvariant, PTL

(* The first answer to a question whose seed was shown is counted once,    *)
(* and told to differ exactly when it is the other verdict.                *)
(* (BEH-QD-152; HydrationEngine.ts, makeSeededQuestion)                    *)
THEOREM AnnouncementsAreTrue == ClientSpec => []AnnouncedAsShown
<1>1. ASSUME ClientInv  PROVE AnnouncedAsShown
  <2>. SUFFICES ASSUME NEW r \in Registries, NEW h \in 1 .. MaxHandles, NEW node,
                       node = nodes[r][h], node.first # None, node.observed # NoSeed
                PROVE  /\ node.rechecks = 1
                       /\ node.mismatches = IF isMismatch(node.observed, node.first) THEN 1 ELSE 0
    BY DEF AnnouncedAsShown
  <2>1. ToldOnce(node) /\ node \in Node
    BY <1>1 DEF ClientInv, ClientTypeOK, NodesAreFresh
  <2>2. node.announced /\ Compared(node) = node.observed
    BY <2>1 DEF ToldOnce, Compared
  <2>. QED  BY <2>1, <2>2 DEF ToldOnce
<1>. QED  BY <1>1, ClientInvariant, PTL

-----------------------------------------------------------------------------
(***************************************************************************)
(* A page hydrated from decisions made on a server.                        *)
(***************************************************************************)
TraceOf(d) == [tag |-> TagOf(d.question), allowed |-> d.allowed, grant |-> d.grant]

PageEntry == [question : Asked, allowed : BOOLEAN, grant : Grants,
              fault : EntryFaults \cup {"none"}, edited : BOOLEAN,
              disclosed : SUBSET {TraceOf(d) : d \in Decisions}]

(* What is disclosed of a decision stays its own trace whatever becomes of *)
(* the entry, and an entry nobody edited is the decision.                  *)
Carries(e, d) ==
    /\ e \in PageEntry /\ e.disclosed \subseteq {TraceOf(d)}
    /\ ~e.edited => e.question = d.question /\ e.allowed = d.allowed

AtPlaces(T) == UNION {[places -> T] : places \in SUBSET Nat}

Payloads == [fault : EnvelopeFaults \cup {"none"}, subjectId : Users \cup {NoOne},
             entries : AtPlaces(PageEntry)]

PageSeed == [question : Asked, allowed : BOOLEAN, of : Users]

PageTypeOK ==
    page \in [phase : {"deciding", "sent", "hydrated"}, offered : Seq(Decisions),
              payload : Payloads, foreign : Int, dehydrated : Nat, by : Users \cup {NoOne},
              seeded : AtPlaces(PageSeed), dropped : [ClientHydrationDropReason -> Nat]]

(* The payload is of the subject of the first decision, and of each of its *)
(* decisions there is an entry in its place.                               *)
PayloadIsOffered ==
    page.phase # "deciding" =>
        /\ page.dehydrated + page.foreign = Len(page.offered)
        /\ DOMAIN page.payload.entries = kept(page.offered)
        /\ page.offered # <<>> => page.payload.subjectId = page.offered[1].of
        /\ \A i \in kept(page.offered) : Carries(page.payload.entries[i], page.offered[i])

SeedsAreThePayloads ==
    Hydrated =>
        /\ page.by \in Users
        /\ page.seeded = hydrateWith(page.payload, page.by).seeded
        /\ page.dropped = hydrateWith(page.payload, page.by).dropped

PageInv == PageTypeOK /\ PayloadIsOffered /\ SeedsAreThePayloads

LEMMA PlacesTyped ==
  /\ \A T : <<>> \in AtPlaces(T)
  /\ \A T, f : \A places \in SUBSET Nat : f \in [places -> T] => f \in AtPlaces(T)
<1>1. \A T : <<>> \in [{} -> T] /\ {} \in SUBSET Nat
  OBVIOUS
<1> QED BY <1>1 DEF AtPlaces

LEMMA KeptIsFinite ==
  ASSUME NEW offered \in Seq(Decisions)
  PROVE  /\ kept(offered) \subseteq DOMAIN offered /\ IsFiniteSet(kept(offered))
         /\ Cardinality(kept(offered)) \in Nat
<1>1. IsFiniteSet(1 .. Len(offered))
  BY FS_Interval
<1>2. kept(offered) \subseteq 1 .. Len(offered) /\ kept(offered) \subseteq DOMAIN offered
  BY DEF kept
<1>3. IsFiniteSet(kept(offered))
  BY <1>1, <1>2, FS_Subset
<1> QED BY <1>2, <1>3, FS_CardinalityType

LEMMA DisjointUnion ==
  ASSUME NEW S, NEW T, IsFiniteSet(S), IsFiniteSet(T), S \cap T = {}
  PROVE  IsFiniteSet(S \cup T) /\ Cardinality(S \cup T) = Cardinality(S) + Cardinality(T)
<1>1. Cardinality(S) \in Nat /\ Cardinality(T) \in Nat /\ Cardinality(S \cap T) = 0
  BY FS_CardinalityType, FS_EmptySet
<1>2. /\ IsFiniteSet(S \cup T)
      /\ Cardinality(S \cup T) = Cardinality(S) + Cardinality(T) - Cardinality(S \cap T)
  BY FS_Union
<1> QED BY <1>1, <1>2

(* Every entry of a payload is refused for one of three reasons, or for    *)
(* none.                                                                   *)
LEMMA EntriesAreParted ==
  ASSUME NEW p, IsFiniteSet(DOMAIN p.entries),
         \A i \in DOMAIN p.entries : p.entries[i].fault \in EntryFaults \cup {"none"}
  PROVE  /\ \A reason : /\ IsFiniteSet(RefusedFor(p, reason))
                        /\ Cardinality(RefusedFor(p, reason)) \in Nat
         /\ Cardinality(RefusedFor(p, "none")) + Cardinality(RefusedFor(p, "EntryTooDeep"))
              + Cardinality(RefusedFor(p, "MalformedEntry"))
              + Cardinality(RefusedFor(p, "UndecodablePolicy")) = Cardinality(DOMAIN p.entries)
         /\ Cardinality(RefusedFor(p, "PayloadSubjectMismatch")) = 0
         /\ Cardinality(RefusedFor(p, "UnsupportedPayloadVersion")) = 0
         /\ Cardinality(RefusedFor(p, "MalformedPayload")) = 0
<1> DEFINE D == DOMAIN p.entries
           R(reason) == RefusedFor(p, reason)
           Reasons == {"none", "EntryTooDeep", "MalformedEntry", "UndecodablePolicy"}
<1>1. \A i \in D : reasonOf(p.entries[i]) \in Reasons
  BY DEF reasonOf, EntryFaults
<1>2. \A reason : R(reason) = {i \in D : reasonOf(p.entries[i]) = reason}
  BY DEF RefusedFor
<1>3. ASSUME NEW reason PROVE IsFiniteSet(R(reason)) /\ Cardinality(R(reason)) \in Nat
  <2>1. R(reason) \subseteq D
    BY <1>2
  <2>2. IsFiniteSet(R(reason))
    BY <2>1, FS_Subset
  <2> QED BY <2>2, FS_CardinalityType
<1>4. /\ R("PayloadSubjectMismatch") = {} /\ R("UnsupportedPayloadVersion") = {}
      /\ R("MalformedPayload") = {}
  BY <1>1, <1>2
<1> DEFINE A == R("none") \cup R("EntryTooDeep")
           B == R("MalformedEntry") \cup R("UndecodablePolicy")
<1>6. /\ D = A \cup B /\ A \cap B = {}
      /\ R("none") \cap R("EntryTooDeep") = {}
      /\ R("MalformedEntry") \cap R("UndecodablePolicy") = {}
  BY <1>1, <1>2
<1>7. /\ IsFiniteSet(A)
      /\ Cardinality(A) = Cardinality(R("none")) + Cardinality(R("EntryTooDeep"))
  BY <1>3, <1>6, DisjointUnion
<1>8. /\ IsFiniteSet(B)
      /\ Cardinality(B) = Cardinality(R("MalformedEntry")) + Cardinality(R("UndecodablePolicy"))
  BY <1>3, <1>6, DisjointUnion
<1>9. Cardinality(D) = Cardinality(A) + Cardinality(B)
  BY <1>6, <1>7, <1>8, DisjointUnion
<1> HIDE DEF A, B
<1>10. Cardinality(D) = Cardinality(R("none")) + Cardinality(R("EntryTooDeep"))
           + Cardinality(R("MalformedEntry")) + Cardinality(R("UndecodablePolicy"))
  BY <1>3, <1>7, <1>8, <1>9
<1> QED BY <1>3, <1>4, <1>10, FS_EmptySet

(* A payload refused whole is counted under one reason.                    *)
LEMMA WholeIsCountedOnce ==
  ASSUME NEW p, Cardinality(DOMAIN p.entries) \in Nat
  PROVE  \E reason \in ClientHydrationDropReason, n \in Nat :
            /\ WholePayload(p) = [r \in ClientHydrationDropReason |-> IF r = reason THEN n ELSE 0]
            /\ p.fault \in {"NotAnObject", "OldVersion", "NoEnvelope"} => n > 0
            /\ p.fault # "NotAnObject" => n >= Cardinality(DOMAIN p.entries)
            /\ n > Cardinality(DOMAIN p.entries) => n = 1
            /\ p.fault = "NotAnObject" => n = 1
<1> DEFINE visible == IF p.fault = "NotAnObject" THEN 0 ELSE Cardinality(DOMAIN p.entries)
           atLeastOne == IF visible > 1 THEN visible ELSE 1
<1>1. ASSUME NEW reason \in ClientHydrationDropReason, NEW n \in Nat
      PROVE  Refused(reason, n) = [r \in ClientHydrationDropReason |-> IF r = reason THEN n ELSE 0]
  BY <1>1 DEF Refused, countDropped, NoDrops
<1> DEFINE size == Cardinality(DOMAIN p.entries)
           Counted(reason, n) ==
             /\ WholePayload(p) =
                   [r \in ClientHydrationDropReason |-> IF r = reason THEN n ELSE 0]
             /\ p.fault \in {"NotAnObject", "OldVersion", "NoEnvelope"} => n > 0
             /\ p.fault # "NotAnObject" => n >= size
             /\ n > size => n = 1
             /\ p.fault = "NotAnObject" => n = 1
<1>2. /\ visible \in Nat /\ size \in Nat
      /\ p.fault = "NotAnObject" => visible = 0
      /\ p.fault # "NotAnObject" => visible = size
  OBVIOUS
<1> HIDE DEF visible, size
<1>3. /\ atLeastOne \in Nat /\ atLeastOne > 0 /\ atLeastOne >= visible
      /\ atLeastOne > visible => atLeastOne = 1
      /\ visible = 0 => atLeastOne = 1
  BY <1>2
<1> HIDE DEF atLeastOne
<1>4. CASE p.fault \in {"NotAnObject", "NoEnvelope"}
  <2>1. WholePayload(p) = Refused("MalformedPayload", atLeastOne)
    BY <1>4 DEF WholePayload, atLeastOne, visible
  <2>2. "MalformedPayload" \in ClientHydrationDropReason
    BY DEF ClientHydrationDropReason
  <2>3. WholePayload(p) = [r \in ClientHydrationDropReason |->
                              IF r = "MalformedPayload" THEN atLeastOne ELSE 0]
    BY <1>1, <1>3, <2>1, <2>2
  <2>4. Counted("MalformedPayload", atLeastOne)
    BY <1>2, <1>4, <1>3, <2>3
  <2> QED BY <1>3, <2>2, <2>4 DEF size
<1>5. CASE p.fault = "OldVersion"
  <2>1. WholePayload(p) = Refused("UnsupportedPayloadVersion", atLeastOne)
    BY <1>5 DEF WholePayload, atLeastOne, visible
  <2>2. "UnsupportedPayloadVersion" \in ClientHydrationDropReason
    BY DEF ClientHydrationDropReason
  <2>3. WholePayload(p) = [r \in ClientHydrationDropReason |->
                              IF r = "UnsupportedPayloadVersion" THEN atLeastOne ELSE 0]
    BY <1>1, <1>3, <2>1, <2>2
  <2>4. Counted("UnsupportedPayloadVersion", atLeastOne)
    BY <1>2, <1>5, <1>3, <2>3
  <2> QED BY <1>3, <2>2, <2>4 DEF size
<1>6. CASE p.fault \notin {"NotAnObject", "NoEnvelope", "OldVersion"}
  <2>1. WholePayload(p) = Refused("PayloadSubjectMismatch", visible)
    BY <1>6 DEF WholePayload, visible
  <2>2. "PayloadSubjectMismatch" \in ClientHydrationDropReason
    BY DEF ClientHydrationDropReason
  <2>3. WholePayload(p) = [r \in ClientHydrationDropReason |->
                              IF r = "PayloadSubjectMismatch" THEN visible ELSE 0]
    BY <1>1, <1>2, <2>1, <2>2
  <2>4. Counted("PayloadSubjectMismatch", visible)
    BY <1>2, <1>6, <2>3
  <2> QED BY <1>2, <2>2, <2>4 DEF size
<1> QED BY <1>4, <1>5, <1>6

(* What hydration answers is typed, and accounts for what arrived.         *)
LEMMA HydrateTyped ==
  ASSUME NEW p, NEW user \in Users, NEW places \in SUBSET Nat, IsFiniteSet(places),
         p.entries \in [places -> PageEntry]
  PROVE  /\ hydrateWith(p, user).seeded \in AtPlaces(PageSeed)
         /\ hydrateWith(p, user).dropped \in [ClientHydrationDropReason -> Nat]
<1>1. DOMAIN p.entries = places /\ Cardinality(places) \in Nat
  BY FS_CardinalityType
<1>2. CASE ~Readable(p, user)
  <2>1. hydrateWith(p, user) = [seeded |-> <<>>, dropped |-> WholePayload(p)]
    BY <1>2 DEF hydrateWith
  <2>2. <<>> \in AtPlaces(PageSeed)
    BY PlacesTyped
  <2>3. WholePayload(p) \in [ClientHydrationDropReason -> Nat]
    BY <1>1, WholeIsCountedOnce
  <2> QED BY <2>1, <2>2, <2>3
<1>3. CASE Readable(p, user)
  <2> DEFINE good == RefusedFor(p, "none")
             seeded == [i \in good |-> rebuild(p.entries[i], user)]
             dropped == [reason \in ClientHydrationDropReason |-> Cardinality(RefusedFor(p, reason))]
  <2>1. hydrateWith(p, user) = [seeded |-> seeded, dropped |-> dropped]
    BY <1>3 DEF hydrateWith
  <2>2. good \in SUBSET Nat /\ good \subseteq places
    BY <1>1 DEF RefusedFor
  <2>3. \A i \in good : rebuild(p.entries[i], user) \in PageSeed
    BY <2>2 DEF rebuild, PageEntry, PageSeed
  <2>4. seeded \in [good -> PageSeed]
    BY <2>3
  <2>5. \A i \in DOMAIN p.entries : p.entries[i].fault \in EntryFaults \cup {"none"}
    BY <1>1 DEF PageEntry
  <2>6. \A reason : Cardinality(RefusedFor(p, reason)) \in Nat
    BY <1>1, <2>5, EntriesAreParted
  <2>7. dropped \in [ClientHydrationDropReason -> Nat]
    BY <2>6
  <2> HIDE DEF good, seeded, dropped
  <2>8. seeded \in AtPlaces(PageSeed)
    BY <2>2, <2>4, PlacesTyped
  <2> QED BY <2>1, <2>7, <2>8
<1> QED BY <1>2, <1>3

LEMMA PageInvAtFirst ==
  ASSUME HydrationInit
  PROVE  PageInv
<1>1. <<>> \in AtPlaces(PageEntry) /\ <<>> \in AtPlaces(PageSeed) /\ <<>> \in Seq(Decisions)
  BY PlacesTyped
<1>2. NoDrops \in [ClientHydrationDropReason -> Nat]
  BY DEF NoDrops
<1>3. dehydratedPayload(NoOne, <<>>) \in Payloads
  BY <1>1 DEF dehydratedPayload, Payloads
<1>4. PageTypeOK
  BY <1>1, <1>2, <1>3 DEF HydrationInit, PageTypeOK
<1> QED BY <1>4 DEF HydrationInit, PageInv, PayloadIsOffered, SeedsAreThePayloads, Hydrated

LEMMA DecideKeeps ==
  ASSUME PageInv, NEW decision \in Decisions, Decide(decision)
  PROVE  PageInv'
<1>1. page.offered \in Seq(Decisions) /\ page.phase = "deciding"
  BY DEF PageInv, PageTypeOK, Decide
<1>2. Append(page.offered, decision) \in Seq(Decisions)
  BY <1>1
<1>3. page' = [page EXCEPT !.offered = Append(page.offered, decision)]
  BY DEF Decide
<1>4. PageTypeOK'
  BY <1>2, <1>3 DEF PageInv, PageTypeOK
<1>5. page'.phase = "deciding"
  BY <1>1, <1>3 DEF PageInv, PageTypeOK
<1> QED BY <1>4, <1>5 DEF PageInv, PayloadIsOffered, SeedsAreThePayloads, Hydrated

LEMMA DehydrateKeeps ==
  ASSUME PageInv, NEW includeTrace \in BOOLEAN, Dehydrate(includeTrace)
  PROVE  PageInv'
<1> DEFINE keep == kept(page.offered)
           subjectId == IF page.offered = <<>> THEN NoOne ELSE page.offered[1].of
           Entry(i) == dehydrateEntry(page.offered[i], includeTrace)
           entries == [i \in keep |-> Entry(i)]
           payload == dehydratedPayload(subjectId, entries)
<1>1. page.offered \in Seq(Decisions) /\ PageTypeOK
  BY DEF PageInv, PageTypeOK
<1>2. keep \subseteq DOMAIN page.offered /\ keep \in SUBSET Nat /\ Cardinality(keep) \in Nat
      /\ \A i \in keep : page.offered[i] \in Decisions
  BY <1>1, KeptIsFinite
<1>3. ASSUME NEW i \in keep
      PROVE  Entry(i) \in PageEntry /\ Carries(Entry(i), page.offered[i])
  <2> DEFINE d == page.offered[i]
  <2>1. d \in Decisions /\ d.question \in Asked /\ d.allowed \in BOOLEAN /\ d.grant \in Grants
    BY <1>2, <1>3 DEF Decisions
  <2>2. TraceOf(d) \in {TraceOf(e) : e \in Decisions}
    BY <2>1
  <2>3. Entry(i) = [question |-> d.question, allowed |-> d.allowed, grant |-> d.grant,
                    fault |-> "none", edited |-> FALSE,
                    disclosed |-> IF includeTrace THEN {TraceOf(d)} ELSE {}]
    BY DEF dehydrateEntry, TraceOf
  <2> HIDE DEF d, Entry
  <2>4. Entry(i) \in PageEntry
    BY <2>1, <2>2, <2>3 DEF PageEntry
  <2>5. Carries(Entry(i), d)
    BY <2>3, <2>4 DEF Carries
  <2> QED BY <2>4, <2>5 DEF d
<1>4. subjectId \in Users \cup {NoOne}
  <2>1. page.offered # <<>> => page.offered[1] \in Decisions
    BY <1>1
  <2> QED BY <2>1 DEF Decisions
<1>5. page.phase = "deciding"
      /\ page' = [page EXCEPT !.phase = "sent", !.foreign = Len(page.offered) - Cardinality(keep),
                               !.dehydrated = Cardinality(keep), !.payload = payload]
  BY DEF Dehydrate
<1>6. payload.entries = entries /\ payload.subjectId = subjectId /\ payload.fault = "none"
      /\ payload = [fault |-> "none", subjectId |-> subjectId, entries |-> entries]
  BY DEF dehydratedPayload
<1>7. entries \in [keep -> PageEntry]
  BY <1>3
<1> DEFINE foreign == Len(page.offered) - Cardinality(keep)
           dehydrated == Cardinality(keep)
<1>8. foreign \in Int /\ dehydrated \in Nat /\ dehydrated + foreign = Len(page.offered)
  BY <1>1, <1>2
<1> HIDE DEF keep, subjectId, entries, payload, Entry
<1>9. payload \in Payloads
  BY <1>2, <1>4, <1>6, <1>7, PlacesTyped DEF Payloads
<1>10. /\ page' = [page EXCEPT !.phase = "sent", !.foreign = foreign,
                                !.dehydrated = dehydrated, !.payload = payload]
  BY <1>5
<1> HIDE DEF foreign, dehydrated
<1>11. PageTypeOK'
  BY <1>1, <1>8, <1>9, <1>10 DEF PageTypeOK
<1>12. /\ page'.phase = "sent" /\ page'.offered = page.offered /\ page'.payload = payload
       /\ page'.dehydrated + page'.foreign = Len(page.offered)
  BY <1>1, <1>8, <1>10 DEF PageTypeOK
<1>13. DOMAIN page'.payload.entries = kept(page.offered)
       /\ \A i \in kept(page.offered) : Carries(page'.payload.entries[i], page.offered[i])
  BY <1>3, <1>6, <1>12 DEF keep, entries
<1>14. page.offered # <<>> => page'.payload.subjectId = page.offered[1].of
  BY <1>6, <1>12 DEF subjectId
<1> QED BY <1>11, <1>12, <1>13, <1>14 DEF PageInv, PayloadIsOffered, SeedsAreThePayloads, Hydrated

(* Damage and edits put another entry in the place of an untouched one.    *)
InPlace(i, e) ==
    [page EXCEPT !.payload = [page.payload EXCEPT !.entries = [page.payload.entries EXCEPT ![i] = e]]]

LEMMA ReplaceKeeps ==
  ASSUME PageInv, page.phase = "sent", NEW i \in DOMAIN page.payload.entries, NEW e,
         Carries(e, page.offered[i]),
         page' = InPlace(i, e)
  PROVE  PageInv'
<1> DEFINE old == page.payload.entries
           entries == [old EXCEPT ![i] = e]
           payload == [page.payload EXCEPT !.entries = entries]
<1>1. page.payload \in Payloads /\ PageTypeOK
  BY DEF PageInv, PageTypeOK
<1>2. PICK places \in SUBSET Nat : old \in [places -> PageEntry]
  BY <1>1 DEF Payloads, AtPlaces
<1>3. e \in PageEntry
  BY DEF Carries
<1>4. entries \in [places -> PageEntry] /\ DOMAIN entries = DOMAIN old
      /\ \A j \in DOMAIN old : entries[j] = IF j = i THEN e ELSE old[j]
  BY <1>2, <1>3
<1>5. DOMAIN old = kept(page.offered) /\ \A j \in DOMAIN old : Carries(old[j], page.offered[j])
      /\ page.dehydrated + page.foreign = Len(page.offered)
      /\ (page.offered # <<>> => page.payload.subjectId = page.offered[1].of)
  BY DEF PageInv, PayloadIsOffered
<1>6. \A j \in DOMAIN old : Carries(entries[j], page.offered[j])
  BY <1>4, <1>5
<1> HIDE DEF old, entries
<1>7. payload \in Payloads /\ payload.entries = entries
      /\ payload.subjectId = page.payload.subjectId
  BY <1>1, <1>4, PlacesTyped DEF Payloads
<1>8. page' = [page EXCEPT !.payload = payload]
  BY DEF old, entries, InPlace
<1> HIDE DEF payload
<1>9. PageTypeOK' /\ page'.phase = "sent" /\ page'.payload = payload
      /\ page'.offered = page.offered /\ page'.dehydrated = page.dehydrated
      /\ page'.foreign = page.foreign
  BY <1>1, <1>7, <1>8 DEF PageTypeOK
<1> QED BY <1>4, <1>5, <1>6, <1>7, <1>9
        DEF PageInv, PayloadIsOffered, SeedsAreThePayloads, Hydrated

LEMMA UntouchedCarries ==
  ASSUME PageInv, NEW i, Untouched(i)
  PROVE  /\ page.phase = "sent" /\ i \in DOMAIN page.payload.entries
         /\ page.payload.entries[i] \in PageEntry
         /\ Carries(page.payload.entries[i], page.offered[i])
<1>1. page.phase = "sent" /\ i \in DOMAIN page.payload.entries
  BY DEF Untouched, InTransit
<1>2. Carries(page.payload.entries[i], page.offered[i])
  BY <1>1 DEF PageInv, PayloadIsOffered
<1> QED BY <1>1, <1>2 DEF Carries

LEMMA DamageEntryKeeps ==
  ASSUME PageInv, NEW i, NEW fault \in EntryFaults, DamageEntry(i, fault)
  PROVE  PageInv'
<1> DEFINE old == page.payload.entries[i]
           e == [old EXCEPT !.fault = fault]
<1>1. Untouched(i) /\ page' = [page EXCEPT !.payload.entries[i].fault = fault]
  BY DEF DamageEntry
<1>2. /\ page.phase = "sent" /\ i \in DOMAIN page.payload.entries
      /\ old \in PageEntry /\ Carries(old, page.offered[i])
  BY <1>1, UntouchedCarries
<1>3. page' = InPlace(i, e)
  BY <1>1 DEF InPlace
<1> HIDE DEF old
<1>4. e \in PageEntry /\ e.disclosed = old.disclosed /\ e.edited = old.edited
      /\ e.question = old.question /\ e.allowed = old.allowed
  BY <1>2 DEF PageEntry
<1>5. Carries(e, page.offered[i])
  BY <1>2, <1>4 DEF Carries
<1> HIDE DEF e
<1> QED BY <1>2, <1>3, <1>5, ReplaceKeeps

(* Several fields of an entry are written one after another.              *)
LEMMA InPlaceTwice ==
  ASSUME PageTypeOK, NEW i \in DOMAIN page.payload.entries, NEW e, NEW f,
         NEW there, there = InPlace(i, e)
  PROVE  /\ there.payload.entries[i] = e
         /\ [there EXCEPT !.payload = [there.payload EXCEPT !.entries =
                 [there.payload.entries EXCEPT ![i] = f]]] = InPlace(i, f)
<1> DEFINE old == page.payload.entries
           payload == [page.payload EXCEPT !.entries = [old EXCEPT ![i] = e]]
<1>1. page.payload \in Payloads
  BY DEF PageTypeOK
<1>2. payload.entries = [old EXCEPT ![i] = e]
      /\ \A x : [payload EXCEPT !.entries = x] = [page.payload EXCEPT !.entries = x]
  BY <1>1 DEF Payloads
<1>3. [old EXCEPT ![i] = e][i] = e
      /\ [[old EXCEPT ![i] = e] EXCEPT ![i] = f] = [old EXCEPT ![i] = f]
  OBVIOUS
<1>4. there = [page EXCEPT !.payload = payload]
  BY DEF InPlace
<1> HIDE DEF payload, old
<1>5. there.payload = payload
      /\ \A x : [there EXCEPT !.payload = x] = [page EXCEPT !.payload = x]
  BY <1>4 DEF PageTypeOK
<1>6. there.payload.entries[i] = e
  BY <1>2, <1>3, <1>5
<1>7. [there EXCEPT !.payload = [there.payload EXCEPT !.entries =
          [there.payload.entries EXCEPT ![i] = f]]] = InPlace(i, f)
  <2> DEFINE new == [old EXCEPT ![i] = f]
  <2>1. [there.payload.entries EXCEPT ![i] = f] = new
    BY <1>2, <1>3, <1>5
  <2> HIDE DEF new
  <2>2. [there.payload EXCEPT !.entries = new] = [page.payload EXCEPT !.entries = new]
    BY <1>2, <1>5
  <2>3. InPlace(i, f) = [page EXCEPT !.payload = [page.payload EXCEPT !.entries = new]]
    BY DEF InPlace, old, new
  <2> QED BY <1>5, <2>1, <2>2, <2>3
<1> QED BY <1>6, <1>7

LEMMA EditEntryKeeps ==
  ASSUME PageInv, NEW i, NEW question \in Asked, NEW allowed \in BOOLEAN, NEW grant \in Grants,
         EditEntry(i, question, allowed, grant)
  PROVE  PageInv'
<1> DEFINE old == page.payload.entries[i]
<1>1. Untouched(i) /\ page' = [page EXCEPT
           !.payload.entries[i].question = question, !.payload.entries[i].allowed = allowed,
           !.payload.entries[i].grant = grant, !.payload.entries[i].edited = TRUE]
  BY DEF EditEntry
<1>2. /\ page.phase = "sent" /\ i \in DOMAIN page.payload.entries
      /\ old \in PageEntry /\ Carries(old, page.offered[i])
  BY <1>1, UntouchedCarries
<1> DEFINE e1 == [old EXCEPT !.question = question]
           e2 == [e1 EXCEPT !.allowed = allowed]
           e3 == [e2 EXCEPT !.grant = grant]
           e == [e3 EXCEPT !.edited = TRUE]
           p1 == [page EXCEPT !.payload.entries[i].question = question]
           p2 == [p1 EXCEPT !.payload.entries[i].allowed = allowed]
           p3 == [p2 EXCEPT !.payload.entries[i].grant = grant]
           p4 == [p3 EXCEPT !.payload.entries[i].edited = TRUE]
<1>3. page' = InPlace(i, e)
  <2>1. PageTypeOK
    BY DEF PageInv
  <2>2. p1 = InPlace(i, e1)
    BY DEF InPlace
  <2> HIDE DEF p1, p2, p3, p4, e1, e2, e3, e
  <2>3. p2 = InPlace(i, e2)
    <3>1. p1.payload.entries[i] = e1
      BY <1>2, <2>1, <2>2, InPlaceTwice
    <3>2. p2 = [p1 EXCEPT !.payload = [p1.payload EXCEPT !.entries =
                  [p1.payload.entries EXCEPT ![i] = e2]]]
      BY <3>1 DEF p2, e2
    <3> QED BY <1>2, <2>1, <2>2, <3>2, InPlaceTwice
  <2>4. p3 = InPlace(i, e3)
    <3>1. p2.payload.entries[i] = e2
      BY <1>2, <2>1, <2>3, InPlaceTwice
    <3>2. p3 = [p2 EXCEPT !.payload = [p2.payload EXCEPT !.entries =
                  [p2.payload.entries EXCEPT ![i] = e3]]]
      BY <3>1 DEF p3, e3
    <3> QED BY <1>2, <2>1, <2>3, <3>2, InPlaceTwice
  <2>5. p4 = InPlace(i, e)
    <3>1. p3.payload.entries[i] = e3
      BY <1>2, <2>1, <2>4, InPlaceTwice
    <3>2. p4 = [p3 EXCEPT !.payload = [p3.payload EXCEPT !.entries =
                  [p3.payload.entries EXCEPT ![i] = e]]]
      BY <3>1 DEF p4, e
    <3> QED BY <1>2, <2>1, <2>4, <3>2, InPlaceTwice
  <2>6. page' = p4
    BY <1>1 DEF p1, p2, p3, p4
  <2> QED BY <2>5, <2>6
<1> HIDE DEF old
<1>4. e \in PageEntry /\ e.disclosed = old.disclosed /\ e.edited
  BY <1>2 DEF PageEntry
<1>5. Carries(e, page.offered[i])
  BY <1>2, <1>4 DEF Carries
<1> HIDE DEF e
<1> QED BY <1>2, <1>3, <1>5, ReplaceKeeps

LEMMA DamageEnvelopeKeeps ==
  ASSUME PageInv, NEW fault \in EnvelopeFaults, DamageEnvelope(fault)
  PROVE  PageInv'
<1> DEFINE payload == [page.payload EXCEPT !.fault = fault]
<1>1. page.payload \in Payloads /\ PageTypeOK /\ page.phase = "sent"
  BY DEF PageInv, PageTypeOK, DamageEnvelope, InTransit
<1>2. page' = [page EXCEPT !.payload = payload]
  BY DEF DamageEnvelope
<1>3. payload \in Payloads /\ payload.entries = page.payload.entries
      /\ payload.subjectId = page.payload.subjectId
  BY <1>1 DEF Payloads
<1> HIDE DEF payload
<1>4. PageTypeOK' /\ page'.phase = "sent" /\ page'.payload = payload
      /\ page'.offered = page.offered /\ page'.dehydrated = page.dehydrated
      /\ page'.foreign = page.foreign
  BY <1>1, <1>2, <1>3 DEF PageTypeOK
<1> QED BY <1>1, <1>3, <1>4
        DEF PageInv, PayloadIsOffered, SeedsAreThePayloads, Hydrated

LEMMA HydrateKeeps ==
  ASSUME PageInv, NEW user \in Users, HydratePage(user)
  PROVE  PageInv'
<1> DEFINE result == hydrateWith(page.payload, user)
<1>1. page.payload \in Payloads /\ PageTypeOK /\ page.phase = "sent"
      /\ page.offered \in Seq(Decisions)
  BY DEF PageInv, PageTypeOK, HydratePage
<1>2. PICK places \in SUBSET Nat : page.payload.entries \in [places -> PageEntry]
  BY <1>1 DEF Payloads, AtPlaces
<1>3. places = kept(page.offered)
  BY <1>1, <1>2 DEF PageInv, PayloadIsOffered
<1>4. result.seeded \in AtPlaces(PageSeed)
      /\ result.dropped \in [ClientHydrationDropReason -> Nat]
  BY <1>1, <1>2, <1>3, KeptIsFinite, HydrateTyped
<1>5. page' = [page EXCEPT !.phase = "hydrated", !.by = user,
                           !.seeded = result.seeded, !.dropped = result.dropped]
  BY DEF HydratePage
<1> HIDE DEF result
<1>6. PageTypeOK' /\ page'.phase = "hydrated" /\ page'.payload = page.payload
      /\ page'.offered = page.offered /\ page'.dehydrated = page.dehydrated
      /\ page'.foreign = page.foreign /\ page'.by = user
      /\ page'.seeded = result.seeded /\ page'.dropped = result.dropped
  BY <1>1, <1>4, <1>5 DEF PageTypeOK
<1>7. PayloadIsOffered'
  BY <1>1, <1>6 DEF PageInv, PayloadIsOffered
<1>8. SeedsAreThePayloads'
  BY <1>6 DEF SeedsAreThePayloads, result
<1> QED BY <1>6, <1>7, <1>8 DEF PageInv

LEMMA PageInvHolds == HydrationSpec => []PageInv
<1>1. PageInv /\ [HydrationNext]_page => PageInv'
  <2> SUFFICES ASSUME PageInv, [HydrationNext]_page PROVE PageInv'
    OBVIOUS
  <2>1. ASSUME NEW decision \in Decisions, Decide(decision) PROVE PageInv'
    BY <2>1, DecideKeeps
  <2>2. ASSUME NEW includeTrace \in BOOLEAN, Dehydrate(includeTrace) PROVE PageInv'
    BY <2>2, DehydrateKeeps
  <2>3. ASSUME NEW i, NEW fault \in EntryFaults, DamageEntry(i, fault) PROVE PageInv'
    BY <2>3, DamageEntryKeeps
  <2>4. ASSUME NEW i, NEW question \in Asked, NEW allowed \in BOOLEAN, NEW grant \in Grants,
               EditEntry(i, question, allowed, grant)
        PROVE  PageInv'
    BY <2>4, EditEntryKeeps
  <2>5. ASSUME NEW fault \in EnvelopeFaults, DamageEnvelope(fault) PROVE PageInv'
    BY <2>5, DamageEnvelopeKeeps
  <2>6. ASSUME NEW user \in Users, HydratePage(user) PROVE PageInv'
    BY <2>6, HydrateKeeps
  <2>7. CASE UNCHANGED page
    BY <2>7 DEF PageInv, PageTypeOK, PayloadIsOffered, SeedsAreThePayloads, Hydrated
  <2> QED BY <2>1, <2>2, <2>3, <2>4, <2>5, <2>6, <2>7 DEF HydrationNext
<1> QED BY <1>1, PageInvAtFirst, PTL DEF HydrationSpec

(* What arrives is seeded or counted.                                      *)
LEMMA ArrivalsAreCounted ==
  ASSUME PageInv, Hydrated
  PROVE  LET dropped == DroppedInAll
             sent == Cardinality(DOMAIN page.payload.entries)
             arrived == hydrationSeededTotal + dropped
         IN  /\ page.payload.fault # "NotAnObject" => arrived >= sent
             /\ arrived > sent => hydrationSeededTotal = 0 /\ dropped = 1
             /\ page.payload.fault \in {"NotAnObject", "OldVersion", "NoEnvelope"} => dropped > 0
<1> DEFINE p == page.payload
           sent == Cardinality(DOMAIN p.entries)
<1>1. p \in Payloads /\ page.offered \in Seq(Decisions) /\ page.dropped \in [ClientHydrationDropReason -> Nat]
  BY DEF PageInv, PageTypeOK
<1>2. PICK places \in SUBSET Nat : p.entries \in [places -> PageEntry]
  BY <1>1 DEF Payloads, AtPlaces
<1>3. IsFiniteSet(DOMAIN p.entries) /\ sent \in Nat
  BY <1>1, KeptIsFinite DEF PageInv, PayloadIsOffered, Hydrated
<1>4. \A i \in DOMAIN p.entries : p.entries[i].fault \in EntryFaults \cup {"none"}
  BY <1>2 DEF PageEntry
<1>5. DroppedInAll =
          page.dropped["PayloadSubjectMismatch"] + page.dropped["MalformedEntry"]
            + page.dropped["UndecodablePolicy"] + page.dropped["EntryTooDeep"]
            + page.dropped["UnsupportedPayloadVersion"] + page.dropped["MalformedPayload"]
  BY DEF DroppedInAll, hydrationDroppedTotal, hydrationDropReasons, ClientHydrationDropReason
<1>6. CASE Readable(p, page.by)
  <2>1. page.seeded = [i \in RefusedFor(p, "none") |-> rebuild(p.entries[i], page.by)]
        /\ page.dropped = [reason \in ClientHydrationDropReason |-> Cardinality(RefusedFor(p, reason))]
    BY <1>6 DEF PageInv, SeedsAreThePayloads, hydrateWith
  <2>2. hydrationSeededTotal = Cardinality(RefusedFor(p, "none"))
    BY <2>1 DEF hydrationSeededTotal
  <2>3. /\ page.dropped["PayloadSubjectMismatch"] = Cardinality(RefusedFor(p, "PayloadSubjectMismatch"))
        /\ page.dropped["MalformedEntry"] = Cardinality(RefusedFor(p, "MalformedEntry"))
        /\ page.dropped["UndecodablePolicy"] = Cardinality(RefusedFor(p, "UndecodablePolicy"))
        /\ page.dropped["EntryTooDeep"] = Cardinality(RefusedFor(p, "EntryTooDeep"))
        /\ page.dropped["UnsupportedPayloadVersion"] = Cardinality(RefusedFor(p, "UnsupportedPayloadVersion"))
        /\ page.dropped["MalformedPayload"] = Cardinality(RefusedFor(p, "MalformedPayload"))
    BY <2>1 DEF ClientHydrationDropReason
  <2>4. hydrationSeededTotal + DroppedInAll = sent /\ DroppedInAll \in Nat
        /\ hydrationSeededTotal \in Nat
    BY <1>3, <1>4, <1>5, <2>2, <2>3, EntriesAreParted
  <2>5. p.fault = "none"
    BY <1>6 DEF Readable
  <2> QED BY <1>3, <2>4, <2>5
<1>7. CASE ~Readable(p, page.by)
  <2>1. page.seeded = <<>> /\ page.dropped = WholePayload(p)
    BY <1>7 DEF PageInv, SeedsAreThePayloads, hydrateWith
  <2>2. hydrationSeededTotal = 0
    BY <2>1, FS_EmptySet DEF hydrationSeededTotal
  <2>3. PICK reason \in ClientHydrationDropReason, n \in Nat :
            /\ WholePayload(p) = [r \in ClientHydrationDropReason |-> IF r = reason THEN n ELSE 0]
            /\ p.fault \in {"NotAnObject", "OldVersion", "NoEnvelope"} => n > 0
            /\ p.fault # "NotAnObject" => n >= Cardinality(DOMAIN p.entries)
            /\ n > Cardinality(DOMAIN p.entries) => n = 1
            /\ p.fault = "NotAnObject" => n = 1
    <3> HIDE DEF p
    <3> QED BY <1>3, WholeIsCountedOnce
  <2>4. DroppedInAll = n
    BY <1>5, <2>1, <2>3 DEF ClientHydrationDropReason
  <2> QED BY <1>3, <2>2, <2>3, <2>4
<1> QED BY <1>6, <1>7

(* A seed is an entry of the page that was not refused.                    *)
LEMMA SeedsAreSent ==
  ASSUME PageInv, Hydrated, NEW seed \in Range(page.seeded)
  PROVE  Sent(seed) \/ EditedFrom(seed)
<1> DEFINE p == page.payload
           offered == page.offered
<1>1. p \in Payloads /\ offered \in Seq(Decisions) /\ kept(offered) = DOMAIN p.entries
  BY DEF PageInv, PageTypeOK, PayloadIsOffered, Hydrated
<1>2. Readable(p, page.by)
        /\ page.seeded = [i \in RefusedFor(p, "none") |-> rebuild(p.entries[i], page.by)]
  <2>1. Range(page.seeded) # {}
    OBVIOUS
  <2>2. page.seeded # <<>>
    BY <2>1 DEF Range
  <2> QED BY <2>2 DEF PageInv, SeedsAreThePayloads, hydrateWith
<1>3. PICK i \in RefusedFor(p, "none") : seed = rebuild(p.entries[i], page.by)
  BY <1>2 DEF Range
<1> DEFINE e == p.entries[i]
           d == offered[i]
<1>4. i \in kept(offered) /\ i \in DOMAIN p.entries /\ reasonOf(e) = "none"
  BY <1>1, <1>3 DEF RefusedFor
<1>5. Carries(e, d) /\ d \in Decisions /\ d \in Range(offered)
  BY <1>1, <1>4, KeptIsFinite DEF PageInv, PayloadIsOffered, Hydrated, Range
<1>6. d.of = page.by
  BY <1>1, <1>2, <1>4 DEF PageInv, PayloadIsOffered, Hydrated, Readable, kept
<1>7. e \in PageEntry /\ e \in Range(p.entries)
  BY <1>4, <1>5 DEF Carries, Range
<1>8. seed.question = e.question /\ seed.allowed = e.allowed
  BY <1>3 DEF rebuild
<1> HIDE DEF e, d
<1>9. entryAgrees(e)
  BY <1>4, <1>7 DEF reasonOf, PageEntry, EntryFaults
<1>10. CASE ~e.edited
  BY <1>5, <1>6, <1>8, <1>10 DEF Carries, Sent
<1>11. CASE e.edited
  <2>1. e.disclosed # {} => TraceOf(d) \in e.disclosed
    BY <1>5 DEF Carries
  <2>2. e.disclosed # {} => /\ TagOf(d.question) = TagOf(e.question)
                            /\ d.allowed = e.allowed /\ d.grant = e.grant
    BY <1>9, <2>1 DEF entryAgrees, decisionDisagreement, TraceOf
  <2> QED BY <1>5, <1>6, <1>7, <1>8, <1>11, <2>2 DEF EditedFrom
<1> QED BY <1>10, <1>11

(* A page is seeded with what the server decided of the subject that       *)
(* hydrates it, unless its text was edited, and then the word of a         *)
(* disclosed trace is still the server's; and every entry offered is sent  *)
(* or counted, every one that arrives seeded or counted: for any payload,  *)
(* any damage to it and any edit.  (INV-QD-022, INV-QD-045, INV-QD-170;    *)
(* HydrationEngine.ts, hydrateWith)                                        *)
THEOREM PagesAreSeededByTheServer == HydrationSpec => []SeedsAreTheServers
<1>1. PageInv => SeedsAreTheServers
  <2> SUFFICES ASSUME PageInv PROVE SeedsAreTheServers
    OBVIOUS
  <2>1. page.phase # "deciding" =>
            hydrationDehydratedTotal + hydrationDroppedTotal["ForeignSubject"] = Len(page.offered)
    BY DEF PageInv, PayloadIsOffered, hydrationDehydratedTotal, hydrationDroppedTotal,
           hydrationDropReasons, DehydrationDropReason
  <2> QED BY <2>1, ArrivalsAreCounted, SeedsAreSent DEF SeedsAreTheServers, EveryEntryIsAccounted
<1> QED BY <1>1, PageInvHolds, PTL
=============================================================================
