---------------------------- MODULE GateRegistry ----------------------------
(***************************************************************************)
(* Every live guard under an atom set (packages/react/src/GateRegistry.ts) *)
(* and the effects that register a hook's guards while it is mounted       *)
(* (GateWriter.ts, useGateRegistrations; hooks.ts, useQuestionsAs).        *)
(*                                                                         *)
(* A question is a name and the atom it is asked through; a hook renders   *)
(* its questions in the order its caller wrote them, each with the outcome *)
(* of its atom.  React runs the effects of one commit together.            *)
(***************************************************************************)
EXTENDS Integers, SequencesExt

CONSTANTS
    Hooks,          \* calls of usePolicies, useQuestions and useGate
    Bases,          \* the ids useId mints: two hydrated roots may mint the same
    Atoms,
    Questionnaires, \* records of questions, as their callers write them
    States,         \* what a guard may have rendered
    MaxCollisions   \* bound: ids disambiguated

VARIABLES
    minted,         \* each hook's id
    hooks,          \* what each hook last rendered and registered
    registry        \* the GateRegistry

gateVars == <<minted, hooks, registry>>

(* entries is a Map: in the order first registered.                        *)
Entry(key, atom, state) == [key |-> key, atom |-> atom, state |-> state]

(* wrote: the questions as written; identities: the ones the effects key   *)
(* on; shown: the outcome rendered for each as written; on: instrumented;  *)
(* held: the key of each live handle, by name.                             *)
Unmounted == [wrote |-> <<>>, identities |-> <<>>, shown |-> <<>>, on |-> FALSE,
              held |-> <<>>]

GatesInit ==
    /\ minted \in [Hooks -> Bases]
    /\ hooks = [h \in Hooks |-> Unmounted]
    /\ registry = [entries |-> <<>>, collisions |-> 0]

-----------------------------------------------------------------------------
(* The registry.  A key is an id, made of a base and a name, and the       *)
(* number that tells it from others of the same id.                        *)

Keys(r) == {e.key : e \in Range(r.entries)}

(* A mutation: a colliding id takes the entry over.                        *)
keyForAny(r, id) == [id |-> id, n |-> 0]

keyFor(r, id) ==
    [id |-> id, n |-> IF [id |-> id, n |-> 0] \in Keys(r) THEN r.collisions + 1 ELSE 0]

(* Map.set: an entry of the same key is replaced where it is.              *)
Put(entries, e) ==
    IF \E f \in Range(entries) : f.key = e.key
    THEN [i \in DOMAIN entries |-> IF entries[i].key = e.key THEN e ELSE entries[i]]
    ELSE Append(entries, e)

register(r, id, atom, state) ==
    LET key == keyFor(r, id)
    IN  [entries |-> Put(r.entries, Entry(key, atom, state)),
         collisions |-> IF key.n = 0 THEN r.collisions ELSE key.n]

update(r, key, state) ==
    [r EXCEPT !.entries = [i \in DOMAIN @ |->
        IF @[i].key = key THEN [@[i] EXCEPT !.state = state] ELSE @[i]]]

unregister(r, keys) ==
    [r EXCEPT !.entries = SelectSeq(@, LAMBDA e : e.key \notin keys)]

instances(r) == r.entries

-----------------------------------------------------------------------------
(* useQuestionsAs: the identities are made again only if the record of     *)
(* questions is another one, and two records are equal in any order.       *)

sameRecord(asked, again) == Range(asked) = Range(again)

identitiesOf(hook, questions) ==
    IF sameRecord(hook.identities, questions) THEN hook.identities ELSE questions

(* The first two effects, over a registry and the handles held: what is    *)
(* gone or asks another question is unregistered, what is new registered   *)
(* with the state at its index.                                            *)
Kept(hook, identities) ==
    {name \in DOMAIN hook.held :
        \E i \in DOMAIN identities : identities[i] \in Range(hook.identities)
                                     /\ identities[i].name = name}

Withdrawn(r, hook, names) == unregister(r, {hook.held[name] : name \in DOMAIN hook.held \ names})

Registered(base, identities, shown, start) ==
    FoldLeft(LAMBDA s, i :
        LET name == identities[i].name
        IN  IF name \in DOMAIN s.held THEN s
            ELSE LET id == <<base, name>>
                     key == keyFor(s.registry, id)
                 IN  [registry |-> register(s.registry, id, identities[i].atom, shown[i]),
                      held |-> [n \in DOMAIN s.held \cup {name} |->
                                   IF n = name THEN key ELSE s.held[n]]],
        start, [i \in DOMAIN identities |-> i])

(* The third: each registered question is given the state at its index.    *)
Restated(s, identities, shown) ==
    [s EXCEPT !.registry =
        FoldLeft(LAMBDA r, i : update(r, s.held[identities[i].name], shown[i]),
                 @, [i \in DOMAIN identities |-> i])]

(* A commit of a hook, and the effects it runs.                            *)
Commit(h, questions, shown, on) ==
    LET hook == hooks[h]
        identities == identitiesOf(hook, questions)
        keep == IF on THEN Kept(hook, identities) ELSE {}
        start == [registry |-> Withdrawn(registry, hook, keep),
                  held |-> [name \in keep |-> hook.held[name]]]
        done == IF on THEN Restated(Registered(minted[h], identities, shown, start),
                                    identities, shown)
                ELSE start
    IN  /\ done.registry.collisions <= MaxCollisions
        /\ registry' = done.registry
        /\ hooks' = [hooks EXCEPT ![h] =
               [wrote |-> questions, identities |-> identities, shown |-> shown, on |-> on,
                held |-> done.held]]
        /\ UNCHANGED minted

Render(h, questions, outcome, on) ==
    /\ hooks[h].wrote # <<>> => on = hooks[h].on
    /\ Commit(h, questions, [i \in DOMAIN questions |-> outcome[questions[i].atom]], on)

(* The provider's `instrument` is flipped.                                 *)
Instrument(h) ==
    /\ hooks[h].wrote # <<>>
    /\ Commit(h, hooks[h].wrote, hooks[h].shown, ~hooks[h].on)

Unmounts(h) ==
    /\ hooks[h].wrote # <<>>
    /\ registry' = Withdrawn(registry, hooks[h], {})
    /\ hooks' = [hooks EXCEPT ![h] = Unmounted]
    /\ UNCHANGED minted

GatesNext ==
    \E h \in Hooks :
        \/ \E questions \in Questionnaires, outcome \in [Atoms -> States], on \in BOOLEAN :
               Render(h, questions, outcome, on)
        \/ Instrument(h)
        \/ Unmounts(h)

-----------------------------------------------------------------------------
(* The panel of guards (packages/devtools/src/model/Gates.ts): grouped by  *)
(* the question, which is an atom, in the order mounted, with the states   *)
(* that occur counted worst first.  What a lens can point at is left out.  *)

GATE_STATES == <<"Failed", "Denied", "Rechecking", "Pending", "Allowed">>

rank(state) ==
    Cardinality({i \in DOMAIN GATE_STATES :
        \A j \in 1 .. i : GATE_STATES[j] # state})

gateCountsOf(members) ==
    LET in(state) == SelectSeq(members, LAMBDA e : e.state = state)
        states == SetToSortSeq({e.state : e \in Range(members)},
                               LAMBDA s, t : rank(s) < rank(t))
    IN  [i \in DOMAIN states |-> [state |-> states[i], count |-> Len(in(states[i]))]]

grouped(members) ==
    FoldLeft(LAMBDA groups, e :
        IF \E i \in DOMAIN groups : groups[i][1].atom = e.atom
        THEN [i \in DOMAIN groups |-> IF groups[i][1].atom = e.atom
                                      THEN Append(groups[i], e) ELSE groups[i]]
        ELSE Append(groups, <<e>>), <<>>, members)

gateGroups(members) ==
    LET groups == grouped(members)
    IN  [i \in DOMAIN groups |->
            [atom |-> groups[i][1].atom, instances |-> groups[i],
             counts |-> gateCountsOf(groups[i])]]

instancesAsking(groups, atom) ==
    LET found == SelectSeq(groups, LAMBDA g : g.atom = atom)
    IN  IF found = <<>> THEN <<>> ELSE found[1].instances

-----------------------------------------------------------------------------
ListedAs(h, name) == {e \in Range(registry.entries) : e.key = hooks[h].held[name]}

ReportsItsPlace(h, i) ==
    {e.state : e \in ListedAs(h, hooks[h].identities[i].name)} = {hooks[h].shown[i]}

(* The registry lists each instrumented guard once, with the question it   *)
(* asks, and nothing else: no registration of a hook takes over one of     *)
(* another, whatever ids they minted and in whatever order they mounted,   *)
(* changed their questions or left.  A hook reports of each question the   *)
(* state at its place among the questions as first written.  And a         *)
(* question finds, in the panel, as many guards as are asking it.          *)
(* (GateRegistry.ts:38-41, Gates.ts:4-9)                                   *)
(*                                                                         *)
(* That state is "what the instance rendered" (GateWriter.ts:36-37) only   *)
(* while the questions are written in that order: an equal record in       *)
(* another order keeps the identities and brings states in its own order   *)
(* (hooks.ts:114-132), so that two questions swap what is reported.        *)
GatesAreListed ==
    LET guards == {<<h, i>> \in Hooks \X (1 .. 2) : hooks[h].on /\ i \in DOMAIN hooks[h].wrote}
        asked(g) == hooks[g[1]].wrote[g[2]]
        groups == gateGroups(instances(registry))
    IN  /\ \A g \in guards :
               /\ asked(g).name \in DOMAIN hooks[g[1]].held
               /\ {e.atom : e \in ListedAs(g[1], asked(g).name)} = {asked(g).atom}
        /\ \A f, g \in guards :
               f # g => hooks[f[1]].held[asked(f).name] # hooks[g[1]].held[asked(g).name]
        /\ Len(registry.entries) = Cardinality(guards)
        /\ \A h \in Hooks : hooks[h].on =>
               \A i \in DOMAIN hooks[h].identities : ReportsItsPlace(h, i)
        /\ \A a \in Atoms :
               Len(instancesAsking(groups, a))
                   = Cardinality({g \in guards : asked(g).atom = a})

(* The panel has one group for a question, in which the worst states come  *)
(* first and every guard is counted.                                       *)
PanelGroupsTheListed ==
    LET groups == gateGroups(instances(registry))
    IN  /\ \A i, j \in DOMAIN groups : groups[i].atom = groups[j].atom => i = j
        /\ \A g \in Range(groups) :
               /\ FoldLeft(LAMBDA n, c : n + c.count, 0, g.counts) = Len(g.instances)
               /\ \A i, j \in DOMAIN g.counts :
                      i < j => rank(g.counts[i].state) < rank(g.counts[j].state)

=============================================================================
