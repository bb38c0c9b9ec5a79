# Qadi: the TLA+ project

Qadi is an authorization library for TypeScript built on Effect: policies are
data, `evaluate` walks one against a subject and a resource, and companion
packages enforce decisions over HTTP, render them in React, audit them, and
compile policies to queries. This directory holds the specifications kept beside
that code, the TLC runs that check them and the proofs TLAPS checks.

Everything is under `src/packages/` of the repository; paths below are relative
to it. A *fiber* is Effect's green thread: code between two `yield*` runs
without interleaving, so the steps of a model are the pieces between the points
where a fiber can be descheduled or interrupted.

## 1. The system

| part | state it keeps | operations | what is hard |
|---|---|---|---|
| Decision cache, `core/src/DecisionCache.ts` | completed answers, claims in flight, insertion order, generation | `getOrCompute`, `clear`, the finalizer of a compute | coalesced asks, interruption, a flush racing a compute, eviction |
| Circuit breaker, `audit/src/CircuitBreaker.ts` | one `Ref`: Closed, Open or HalfOpen with a generation | `status`, `withPermit`, `attempt` | one probe per window, late outcomes, stale clock readings, interrupted probes |
| Audit sink, `audit/src/AuditDecisionSinkLive.ts`, `AuditWriteOutcome.ts`, `AuditWriteReport.ts` | none of its own: the breaker, the caller's trail and staging store | `record` | partial failure between two stores, interruption, the breaker moving while a record is staged |
| Policy evaluation, `core/src/Walk.ts`, `ShortCircuit.ts`, `Admission.ts`, `Obligation.ts`, `Matcher.ts`, `Compare.ts` | none between calls; fibers per child when concurrent | `evaluateNode`, the folds of `AllOf`, `AnyOf`, `Rules`, the leaves | concurrency must not change the answer, short circuits, errors against decisions, absent values |
| Field visibility, `core/src/FieldLattice.ts`, `FieldPath.ts` | none | merges by intersection, union or first; projection | wildcards, prefixes, merge order |
| Enforcement and lifecycle, `core/src/Qadi.ts`, `Lifecycle.ts`, `SubjectSet.ts` | none between calls | `check`, `assert`, `enforce`, `guard`, `filter`, `filterStream`, subject sets, discharge of obligations | sinks that fail, duties before release, one item of many failing, interruption |
| Sinks and wire forms, `core/src/DecisionSinkForwarding.ts`, `SinkEmit.ts`, `SinkCodec.ts` | none | emit, encode, decode | a sink that fails must not change a decision; a decision the decoder cannot trust |
| Decision log and stream, `core/src/DecisionLog.ts`, `http/src/DecisionStreamRoute.ts` | the last records, a counter, a PubSub with a subscription per reader | append, publish, subscribe, snapshot, pull, clear, resume | writers between the steps of a read, a slow reader, a dropped connection, a restart |
| Roles, `core/src/Role.ts` | none | resolving and flattening a role graph | cycles, shared ancestors |
| Ports, `core/src/Ports.ts`, `PortAccess.ts`, `PortDerivation.ts`, `PortRemote.ts` | the permits of a bounded wrapper | ask, retry, bound, time out, ask a server | deadlines against permits and retries, a server asked what it did not agree to |
| Predicates, `core/src/Predicate.ts`, `RenderablePredicate.ts`, `Simplify.ts`, `predicate-sql`, `predicate-prisma` | none | partial evaluation of a policy to a query | the query must agree with evaluation, in a logic with unknowns |
| Archive, retention, signatures, `audit/src/AuditArchive.ts`, `Retention.ts`, `Signature*.ts`, `Sequence*.ts` | the caller's store, a ledger of signatures | archive, verify, purge, capture, look up | a purge on the word of a damaged bundle, a key computed twice from different things |
| HTTP guards, `http/src/GuardApi.ts`, `RequirePermission.ts`, `PermissionRegistry.ts` | the registry | guard, register, answer a request | a route left unguarded by the order of declarations, a failure told as a denial |
| React, `react/src/QadiAtoms.ts`, `QuestionBook.ts`, `HydrationEngine.ts`, `GateRegistry.ts` | open questions, answers, seeds, registered gates | ask, seed, invalidate, register | seeds against live answers, a subject that changes meanwhile, unmounting in another order |
| Devtools, `devtools/src/model/` | timeline and its view, readings, simulator session, capture | fold, pause, sample, simulate, edit | records late, repeated and out of order; a run overtaken by a newer one |

How they meet: enforcement builds a question, asks the cache if one is provided,
which runs the walk on a miss; the walk calls the ports, through whatever wrappers
the host stacked on them; the decision goes to the sinks, one of which may be the
audit sink, whose writes go through the breaker; another is the decision log that
the HTTP stream and the devtools follow. React asks through the same entry point
and can be seeded with decisions made on a server.

`PROJECT.json` lists under "hazards" what is hard to test in this code, at the
line where it bites, with the properties that watch it.

## 2. The modules

| module | models | checked by | proved in |
|---|---|---|---|
| `DecisionCache` | `core/src/DecisionCache.ts` | `cache_safety`, `cache_unstarted` | `DecisionCacheProofs` |
| `CircuitBreaker` | `audit/src/CircuitBreaker.ts` | `audit_sink`, `audit_open` | `CircuitBreakerProofs` |
| `AuditSink`, over `CircuitBreaker` | `audit/src/AuditDecisionSinkLive.ts`, its outcome and report | the same | `AuditSinkProofs` |
| `FieldLattice` | `core/src/FieldLattice.ts`, `FieldPath.ts` | `studies`, and inside `walk` | `WalkProofs` |
| `Walk`, over `FieldLattice` | `core/src/Walk.ts`, `Admission.ts`, `ShortCircuit.ts`, `Obligation.ts`, the shape and depth of `Policy.ts` | `walk` | `WalkProofs` |
| `Monitor` | what `core/src/Qadi.ts` promises: the abstract specification of enforcement | `enforcement` | `EnforcementProofs` |
| `Enforcement` | `core/src/Qadi.ts`, `Lifecycle.ts`, `SinkEmit.ts`, `DecisionSinkForwarding.ts`, `SubjectSet.ts` | `enforcement` | `EnforcementProofs` |
| `PortWrappers` | `core/src/PortDerivation.ts` and its use in the five ports | `enforcement` | |
| `Dock`, over `Timeline` | `devtools/src/model/`: `TimelineStore.ts`, `ExternalStore.ts`, `Pairing.ts`, `DiagnosticsStore.ts`, `PortCalls.ts`, `Wiring.ts`, `Hydration.ts` | `enforcement` | `DecisionStreamProofs` |
| `DecisionLog` | `core/src/DecisionLog.ts` | `records`, `stream_resume` | `DecisionStreamProofs` |
| `Timeline` | `devtools/src/model/Timeline.ts` | `records`, `enforcement` | `DecisionStreamProofs` |
| `DecisionStream`, over both | `http/src/DecisionStreamRoute.ts`, `devtools/src/model/Source.ts` | `records`, `stream_resume` | `DecisionStreamProofs` |
| `RecordCodec` | `core/src/SinkCodec.ts`, `SinkWire.ts`, `DecisionWire.ts`, `JsonHazard.ts` | `records` | |
| `AuditArchive` | `audit/src/AuditArchive.ts`, `Retention.ts`, `SequenceBreak.ts` | `records` | `AuditSinkProofs` |
| `SignatureLedger`, over `Ports` | `audit/src/SignatureCapturePort.ts`, `SignatureLedger.ts` | `records` | |
| `Matcher` | `core/src/Compare.ts`, `SecurityLabel.ts`, `Matcher.ts` | `studies` | |
| `Policy`, over `Matcher` and `FieldLattice` | `core/src/Policy.ts`, `Permission.ts`, `DecodeDepthGuard.ts`, `Simplify.ts`, `TreeFold.ts` | `studies` | |
| `Evaluation`, over `Policy` | the leaves of `core/src/Walk.ts`, `PortAccess.ts`, `Question.ts` | `studies` | |
| `Ports` | `core/src/Ports.ts` and the five ports; `PortRemote.ts`, `PortWire.ts`, `http/src/PortRoutes.ts` | `studies` | |
| `Predicate`, `Compilers` | `core/src/Predicate.ts`; `RenderablePredicate.ts`; `predicate-sql`, `predicate-prisma` and the database behind them | `studies` | |
| `Role` | `core/src/Role.ts`, `AuthSubject.ts`; `devtools/src/model/RoleTree.ts` | `studies` | |
| `TraceDiff`, `WhatIf` | `core/src/Explanation.ts`, `TraceDiff.ts`; the simulation, edits, remedies and table of the devtools | `studies` | |
| `SimulationSession` | `devtools/src/model/SimulationSession.ts`, `HeldChoice.ts` | `studies`, `session_ports` | `SimulationSessionProofs` |
| `HttpGuards` | `http/src/GuardApi.ts`, `RequirePermission*.ts`, `GuardRoute.ts`, `AuthorizeRequest.ts`, `PermissionRegistry.ts`, `QadiHttpError.ts`; `core/src/Errors.ts` | `studies` | `SimulationSessionProofs` |
| `Client` | `react/src/QadiAtoms.ts`, `QuestionBook.ts`, `HydrationEngine.ts`, `QadiProvider.tsx` | `client`, `client_seed` | `ClientProofs` |
| `GateRegistry` | `react/src/GateRegistry.ts`, `GateWriter.ts`, `hooks.ts`, `devtools/src/model/Gates.ts` | `client` | |
| `Hydration` | `react/src/Hydration.ts`, `HydrationEngine.ts`, `HydrationCounts.ts`, `core/src/HydrationMetrics.ts` | `client` | `ClientProofs` |

The `MC...` modules hold the bounded inputs and the properties only TLC evaluates.
Four of them put several components side by side: `MCRecords`, `MCStudies`,
`MCEnforcement` and `MCClient` have a variable that names the component a
behaviour is about, which is the only one that moves. A definition whose comment
begins "A mutation:" is not used by any specification: it is a plausible bug in
the definition that follows it, kept so that each property can be seen to fail
when the code is wrong in that way. `PROJECT.json` pairs them ("mutants"), and
its "map" gives the source lines behind every definition.

### DecisionCache

`getOrCompute` is one fiber per caller and one per compute. A caller's steps are
`Hit`, `Join`, `NewClaim` (the answered table, the in-flight table, a new claim:
one synchronous stretch of the code each), `Fork`, and then it waits. `Fork` only
schedules the compute's fiber: with `Begin` it has its first turn, and from then on
`ComputeExits` with a success, a failure or an interruption and runs the finalizer in
the order the code has it: `Store`, `Release`, `Complete`. A waiter `Resume`s, or is
`Interrupt`ed: the last one to go marks the compute for interruption and waits for it
(`Leave`). Interrupted before it began, a compute is dead: no finalizer runs, and its
claim keeps its key. `Clear` empties both tables and moves the
generation. A claim stands for the `InFlightClaim` object; its identity names the
trace it computed, so a stale answer is told from a fresh one.

Assumed: an interruption that lands inside a masked region is
delivered at the first point that waits; the decision to interrupt the compute and
the decrement before it are one step, as the comment at lines 303-325 argues.

### CircuitBreaker and AuditSink

The `Ref` is `breaker`; every modification of it is one action, and every clock
reading before one is an action of its own, so that a fiber may modify the `Ref`
with a reading that has aged by up to `MaxLag` ticks. Times are kept as ages and
saturate at `Reset + MaxLag`, beyond which nothing can tell them apart. `admit` is
`Observe`, `Claim`, `Reobserve`; `attempt` is `Attempt` and `WriteEnds` followed
by `RecordSuccess` or `RecordFailure`; a probe that never settled gives its claim
back in `Release`. Watchers call `status` and move the window like everyone else.
The flag that makes an outcome settle once is taken together with the end of the
write, so two attempts at once on a single permit are not modelled: the sink, the
only caller, makes one.

The sink extends the breaker and follows `record()`: `RefuseToEncode` or
`Receive`, then the staging call, the attempt of the write, the commit, the
report. A call to one of the caller's stores takes effect in one step and answers
in another (`CopyLands` and `StageReturns`, `RowLands` and `WriteReturns`,
`CommitLands` and `CommitReturns`), so a store may fail, or the caller may be
interrupted, with the work already done. `Interrupt` stops a record at any of
these points and lets the breaker's finalizer run.

### FieldLattice

A spec is its sequence of segments; a resource is a function from its paths to
"object" or "scalar", so projecting it is a set of paths. `project` follows the
frames of the code's walk: the tails that lead to a path, what is granted whole,
what a "*" grants, and what a deeper spec finds. `Disclosed` is what a single spec
means, read off its shape without walking. Arrays of specs are sets, since the
code sorts each one that it builds; an operand passed through untouched keeps its
authored order there, which no property here reads. Two specs of the same shape
differ only by a trailing "**", so the smaller text is the shorter spec.

### Walk

A policy is a finite tree, as `Policy.ts` builds one: a function from node numbers to
nodes in which a kid has the larger number and every node but the root is the kid of one
node, once (`IsTree`). So nothing in the walk is recursive: each node has a control state
and a composite has its fold so far.
What the walk is compared with is in the module too: `Meaning`, a node's outcome as a
function of its kids' meanings, `DepthToReach`, how deep each node lies, and `Counts`, the
branches a grant rests on. `MCWalk` has only the policies and the liveness.
`AdmitRoot` measures the policy, `AskKid` starts a kid in turn or under the limit,
`Answer` ends a leaf, `Unwrap` a wrapper, `TakeKid` folds the next kid in order of
index, `ReturnEmpty` ends a composite without kids. What each leaf will answer is
fixed at the start and when it answers is free, so one state space holds every
interleaving of every walk. The outcome of a failing leaf names the leaf, a reason
names the node and, for a rule table, the row: two failures or two reasons are
never confused. Leaves of all tags share one tag, since what differs between them
is only the question they put to a port (`Evaluation` has each of them);
synchronous leaves therefore answer in a step of their own, which nobody can
observe. The interruption of a walk by its caller is left out: an abandoned walk
has no outcome.

### Enforcement and Monitor

`Enforcement` is every entry point of `Qadi.ts` and the subject sets. A call is one
of `Single`, `Many` or `Reporting` entry points; `Start` chooses it, `Load` runs the
loader of `enforceLoaded`, and each of its questions goes through `Ask`, `Decide`
(the walk: any answer, or a failure), `TellDecision` (the sinks, one after another),
`Discharge`, `Handle` or `HandlerDies`, `TellOutcome` and `PassGate` or
`ReturnAnswer`. Filters ask up to their concurrency at once and fail as one;
a stream hands over in order (`Emit`, `EndStream`). `Interrupt` may come between any
two steps. Sinks in `Flaky` may lose what they are told, as a sink whose failure was
contained does.

`Monitor` is what all of it promises, in three actions: a question is judged once
(`Judge`), a duty it owes is met once (`Meet`), and its thing is released once, after an
allow and with no duty owed. `Promise == INSTANCE Monitor WITH ...` maps the answers,
the gates and what was handed over onto it, and `ImplementsMonitor` is that the detailed
specification implements it. Model-checked and proved.

### PortWrappers

One store behind a stack of the three wrappers every port has, in any order. A call
goes in layer by layer, waits for a permit, reaches the store, fails, is repeated or
times out, and comes out; a deadline passes at any time while a call is inside it;
the store may never settle and the caller may give up. Delays of a schedule are left
out, and schedules are finite.

### Dock

`TimelineStore` records while its view is paused; `DiagnosticsStore` copies readings
field by field from a client that goes on working between two of its reads; both are
an `ExternalStore`, whose listeners read when they are told and never otherwise.
`DockIsCurrent` is that what was last painted is what the stores now hold.

### DecisionLog, Timeline and DecisionStream

Each record is written by its own fiber in two steps, `AppendRecord` and
`Publish`; a reader makes two, `Subscribe` and `Snapshot`, and then pulls with
`Take`. What is published is kept as a history in which each reader has a
position; the sliding PubSub is the rule that a pull starts no further back than
`Capacity`. A pull may take one entry or several, as a stream takes chunks.
`Interrupt` ends a writer between its two steps, `Clear` empties the backlog, and
`Restart` is a new process: a new epoch, an empty log, no readers.

`Timeline` holds operators: a record is its tag, evaluation, environment and time,
and `Ingest` folds one into the rows. `DecisionStream` puts a connection between a
read and a panel. The frames of a connection follow from its read (`Frames`) and
arrive one by one (`Deliver`); `Connect` hands the log the last id the panel saw;
`Drop` and `ServerRestarts` lose what was not delivered. Filters are folds (`Filtered`) and
the prelude's order is the one arrangement `ComesBefore` allows (`Presented`): tlapm
knows nothing of the library's `SelectSeq` and `SortSeq`. The frames a panel has not
taken from its queue are counted with those it takes later, since only their order
can be observed. A panel folds nothing until `synced` arrives or `SyncTimesOut`.
The re-authorization that ends a stream is a `Drop`. Times are known numbers: a
record with another one does not cross the wire.

### RecordCodec, AuditArchive and SignatureLedger

`RecordCodec` encodes one record, keeps it bare, in the log's envelope or in the
audit trail's, as text or as a value, lets its bytes be garbled or any key of them be
written over where others can write, and decodes them: the depth first, then the
shape, key by key, then whether the decision is what its trace makes of its stamp.
A policy, a trace and a resource are what the wire tells apart of them: their nodes,
their levels of JSON, and the one value JSON has no form for.

`AuditArchive` is a trail whose store numbers its rows or does not: rows are written
(`TakeIn`), bundled, damaged, read back and purged by age on the word of the archive
read last. Its store is external, and a purge may be asked at a time that is no date.

`SignatureLedger` puts captures of a duty to sign between a question and the
ledger: `Discharge` asks, `EndCapture` signs for whoever and whatever it likes,
`FailCapture` declines, in any order, and the ledger is then asked as a port.

### Matcher, Policy, Evaluation and Ports

These are operators. `Matcher` has the values (undefined, null, NaN, infinities,
dates, arrays, nested objects), their comparison and every matcher. `Policy` has the
constructors, the keys and literals a document must have to decode, the guards on
depth, the simplifier, and the loop that folds a tree of objects without recursion;
`Evaluation` every leaf of the
walk with the port it calls, and the combinators evaluated sequentially: `Walk` has
the interleavings of the same tree. Traces keep their verdicts, reasons, fields and
duties and no text. `Ports` is what each port may be asked and answer, and the
adapters built here: the one that knows nothing, the fixtures, the script.
It also has a port across a wire: the question encoded, a custom predicate's parameters
and all, what the server serves
and for whom, the reply decoded, and every refusal as the port's typed error.

### Predicate and Compilers

`Predicate` translates a policy, a subject and an action into a condition on columns:
the judgment of the tree alone (`compileTree`), then the port calls it still needs in
the evaluator's order (`run`). `Compilers` decides which predicates a query language
can say and where a null or an infinity must be guarded, and renders them for
three dialects of SQL and for Prisma, as conditions that a database, also here,
evaluates in a logic with unknowns on one row.

### Role, TraceDiff, WhatIf and SimulationSession

`Role` resolves a graph of role objects, two of which may share a name, and draws the
explorer's tree of it. `TraceDiff`
lays a trace beside the policy that made it and finds where two traces differ.
`WhatIf` is the simulator's evaluation over fixtures, a capture or live ports, the
edits of its input and the remedies among them. `SimulationSession` is the only one
that moves: commands of the panel between the steps of the calls of `run`, `reap` and
`dispose`, whose fibers take their time to end.

### HttpGuards

The API is written step by step (`AddEndpoint`, annotations and middleware of a group
or of the API, `AddGroup`), since Effect applies what is put on a group only to the
endpoints it has by then; `guardApi` then reads it. A request is what it meets: its
header, what the token's lookup, the guard and the handler answer. The module has the
middleware, the bare guarded route, every error with the fields it carries and the
class, status and public shape it is told as, and the registry. The registry is a bag of
permissions with what they are asked of: nothing reads the order in which it was filled.

### Client, GateRegistry and Hydration

`Client` is one atom set with its book of questions and the registries of its
providers: an answer is asked, settles late, is invalidated, is evicted from the book
or is covered by a seed until it exists. `GateRegistry` is the effects by which hooks
register guards, for hooks whose ids may collide, with the groups the panel makes of
them. `Hydration` follows a page's payload
from the decisions of the server to the seeds of the page, through damage and edits, and the
counters that say what was lost on the way. An entry and its seed are known by the place
the decision had among those offered, so what was filtered out leaves a gap.

## 3. The runs

| run | instance | what it shows |
|---|---|---|
| `cache_safety` | 2 callers, 2 questions, 3 claims, capacity 1, 2 clears, ports that may shield | no stale answer after a clear, one compute for a question, tables, queue and waiters agree, nobody is interrupted but those who were cancelled and those who join a compute that a shield keeps from an interrupt |
| `cache_unstarted` | 2 callers, 1 question, 2 claims, no clear, no shielding | **violation**: see the findings |
| `audit_sink` | 2 records at once with and without staging, 1 reader of the status, threshold 2, reset 2, lag 1, 4 generations | windows are settled by their own probe, are not restarted and end; however a record ends, what its outcome says of the stores is true and no claim is leaked |
| `audit_open` | 2 records at once, both staged, threshold 1 | **violation**: see the findings |
| `walk` | every composite over 3 leaves and composites of composites, limits 0 to 3, bounds 1 and 3 | concurrency changes nothing, nothing needless is asked, duties, depth, termination |
| `records` | a log of 2 with 3 records, 1 panel, 1 drop and 1 restart; a trail of up to 2 rows with numbers 1 to 3; 2 captures; one record of every shape | a read is exact, the timeline is the set received, a resume in order loses nothing; a purge loses nothing; a signature answers its own question only; a record reads back, or is one the findings tell of |
| `stream_resume` | 4 records, one refused by the codec, 1 drop | **violation**: see the findings |
| `studies` | policies of up to 3 leaves, 2 composites and a wrapper over 5 rows and 4 worlds of ports; roles of up to 3 definitions; up to 3 field sets of up to 3 specs, 4 resources; sessions of 2 calls and 2 commands; APIs of 2 groups, 2 endpoints and 6 edits | a query selects what the policy allows and asks what evaluation asks; simplifying, decoding, roles and the explorer's tree of them, folds, merges, stand-ins for ports and remedies are true; a run superseded while it is evaluated never lands; what is listed as guarded is |
| `enforcement` | 1 call of each entry point over up to 2 items, 2 sinks of which one may lose records; 2 calls through every stack of wrappers, permits 0 and 1, 1 repeat; 4 records, 1 clear; 2 spans | every entry point is a reference monitor, sinks have the whole story, filters are whole, every call ends; no permit is lost, deadlines end calls; the dock is current |
| `client` | 2 registries, subjects, gates and hooks, 3 handles, 2 changes; payloads of 2 entries | no guard shows an answer of another subject or from before an invalidation; drift is announced as shown; every gate is listed, and an open question is not dropped with its handle; seeds are the server's |
| `client_seed`, `session_ports` | the same client; sessions of 2 calls and 2 commands | **violations**: see the findings |

Why the bounds are enough. Two callers are one that waits and one that joins,
abandons or asks again; three claims let a new compute run beside two that were
cut off by a clear; capacity 1 makes every second answer evict. Two records let one
trip the breaker while the other is being staged; with a reader they are a probe, a
rival and someone who moves the window, and four generations hold an opening, a
half-open window, its expiry and a late outcome. Three specs are a deep one, a "*"
and a whole grant meeting in one frame; the resources have a scalar where an object
was expected, an empty object and a real key "*". Three kids are the least that have
a kid before and one after the one that settles; limit 0 stands for the sequential
walk. Three records overflow a log of two, and are an outcome, its decision and a
decision of another process that shares their evaluation; one drop makes a resume
within the epoch and one restart a resume across two. Two items are one that settles
and one that fails its call, or two that come in either order; calls do not share
state except through their sinks, so one call is what a second would not see. Two
wrapped calls are one that holds the only permit and one that waits for it. Two
rows are a row that is purged and one that is kept, repeated or written since, and
three numbers make a gap of two rows. Two questions with a book of one make
each new one evict; two registries are what a single atom set shares. Three leaves
under two composites are a branch with a branch inside it; the rows of the queries
hold nulls, a NaN, an infinity and ordinary values.

Deadlock is checked in `cache_*`, `audit_*` and `enforcement`, where a finished
behaviour is a step of its own or work never ends. The other runs stop when their
bound is reached: the walk is over, the rows are written, the policy is built.

Fairness. `cache_unstarted` gives weak fairness to each caller's own steps and
to a compute's first turn, its finalizer and its leaving a shielded region, since Effect's
scheduler runs every ready fiber, and strong fairness to the compute's exit, since
it may enter and leave such regions on the way: a port answers or fails in the
end. Asking, being cancelled and clearing are not fair: nobody has to. `audit_sink`
gives weak fairness to the steps of admission and recording and to the clock, which
cannot stand still; a write need not end. `walk` gives it to the whole walk, which
assumes only that each port answers in the end. `enforcement` gives it to each
call's and each question's steps: a walk, a loader, a handler and a sink end with
whatever they return. For the wrappers it is given to the steps of the stack and to
the passing of deadlines only, and never to the store: that a call comes back is
claimed only where a deadline was stacked.

## 4. Findings

- `cache_unstarted`: the finalizer of a compute is said to run "on every path
  `compute` can end on, interruption included" (`DecisionCache.ts:465-467`).
  `Effect.forkDetach` schedules the compute and does not start it; if the only waiter
  is interrupted before its first turn, that fiber ends without having installed the
  finalizer. The claim is never completed and keeps its key, and every later ask of
  that question joins it and hangs, until a `clear`. The package's tests interrupt a
  compute that has begun.
- `audit_open`: INV-QD-052 says that no write is attempted while the breaker is
  open. A record is admitted while the breaker is closed and is being staged when
  another one trips it; when the staging call comes back, even as a failure, the
  breaker is not looked at again, and the write is attempted while it is open.
- `stream_resume`: a reconnecting reader is said to be sent what it missed. The
  prelude is in order of time and resumes by number; a drop inside a prelude that
  began with a late number loses the records of lower ones that were not yet sent.
- `client_seed`: a hydrated decision is said to belong to the subject that hydrates
  it. The seed covers for whichever subject the provider has by then, until that
  subject's own evaluation settles.
- `session_ports`: setting other ports is said to drop the capture taken from the old
  ones. A run that chose its source before, and was still waiting for another to be
  interrupted, reads the generation afterwards and lands its capture of the old ports.

Met while modelling, in the behaviours of the runs but not a run of their own. Where a
property could not say what a doc says, it says what holds, and its comment names what
it leaves out:

- the counters of the audit report say "Every record `record()` is handed is counted
  exactly once" (`AuditWriteReport.ts:147`); a caller interrupted inside `record()`
  leaves with no outcome and is counted nowhere.
- INV-QD-100 says of a log's read that "every record appended after is delivered on its
  `live` stream", bar a reader slower than the capacity, and `DecisionLog.ts:15-18` that
  a record is "never neither" in the backlog nor live. A writer interrupted between
  append and publish (`DecisionLog.ts:296-312`) leaves a record that the log retains and
  no open read is handed. `ReadIsExact` excepts these (`NeverPublished`).
- INV-QD-096 says that whatever the record codec emits it accepts, and that its value
  form agrees with its text form (also `SinkCodec.ts:19-21`, `399-401`, `501-502`);
  `JsonHazard.ts:82-84` that the encoder's walk "refuses exactly what a receiver's depth
  guard would". The walk passes over an `undefined` property before it looks at the
  depth (lines 100-103) and the reader counts it: with such a property one level past
  the last, `encodeSinkRecord` emits a value that `decodeSinkRecord` refuses as
  `TooDeep`, while the text of the same record is read. `RecordsReadBack` expects the
  refusal of exactly these (`UndefinedPast`).
- "A run that was superseded never lands" (`SimulationSession.ts:16`). A run that is
  superseded while it waits for earlier ones to be interrupted reads the generation
  after that wait (lines 445-447), and lands. `OnlyTheLastRunLands` is of runs
  superseded while they are evaluated; `session_ports` shows what the others can do.
- `sweepEvictions` is said to drop "never one a mounted gate still has open"
  (`QadiAtoms.ts:131-133`). A handle that was swept may be mounted later, when its
  question has been asked again and a newer handle is in the book: a sweep drops the
  newer one, which nobody reads, and the mounted gate's question is listed no more.
  `OpenQuestionsStayListed` is of the handle by which a question is held open.
- A gate's state is "what the instance rendered" (`GateWriter.ts:36-37`), at the index
  of its question. An equal record of questions written in another order keeps the
  identities of the first one, and its states come in the new order
  (`hooks.ts:114-132`), so that two guards swap the states they report until a record
  that is not equal comes. `GatesAreListed` says that a state is the one at the same
  index, and no more.

## 5. The proofs

TLAPS checks these for every value of the constants that satisfies the named
assumptions; none is taken on trust.

**EnforcementProofs.** `IInv` is the types and, of every question, four facts:
while it is undecided it owes nothing (`Undecided`); what the gate handles or
records is an allow with duties (`AtGate`); what is settled owes nothing or was
discharged (`Paid`); and what was handed over belongs to a call that has returned or
to the part of a stream that went through (`HandedOver`). `Paid` is what the
refinement needs and is not inductive alone: that a settled question was discharged
comes from what stood at the gate before. `EnforcementIsAMonitor` is the refinement,
one step of the monitor or a stutter for every action of every entry point.
`SoundSinksTellTheOutcome` adds an invariant about what each sound sink has been told
at each point of a question, over any number of sinks, of which any may lose records.
`FiltersReturnTheWhole` adds, of each question, that once settled it has a verdict, or a
report keeps its failure (`Verdicts`); that a filter which returned has settled it
(`Filtered`); and that a stream has settled those it let through (`Streamed`). What is
handed over is then tied to the verdicts in both directions.

**DecisionCacheProofs.** `CacheInv` is the inductive invariant: the type
invariant; a claim that holds a key is live, and every live claim of the current
generation holds its key (`HolderIsLive`, `LiveIsHolder`); no claim is from a
later generation; every ask in progress has a claim, which only its maker forks;
the order lists the table's keys exactly once. `NoStaleAnswer` and
`OneComputePerQuestion` are not inductive alone: both need to know which claims a
later ask may still join. From it follow `OrderAlwaysMatches`, `ClearIsAFence`,
`SingleFlight`, `CompletedAreReleased` and `AnswersArePermanent`.
`WaitersAlwaysCounted` has its own invariant, which counts the attached callers of
each claim by cardinality and needs the callers finite; `TablesAlwaysAgree` puts
them together into the property the run checks. `OthersAreNotInterrupted`: unless a
shield keeps it running after it was told to stop, a compute is interrupted in the one
step in which its last waiter leaves, who by the count of waiters is alone on it.

**CircuitBreakerProofs.** `BreakerInv` adds to `WindowsOwnTheirProbe` (permits match
their window, and a window has one probe) that no permit is from a later generation
than the breaker's and that a call holding one is in use. `OnlyTheProbeSettles` and
`WindowsAreNotRestarted` follow; the last is an action property and also needs that a
closed breaker has no window.

**AuditSinkProofs.** `SinkRunsBreaker` is that the sink drives the breaker by the
breaker's own operations, so what is proved of the breaker holds of the sink
(`SinkKeepsWindows`). `RecordsAreAccounted` is `EndsAreAccounted`: what an outcome says of
the stores is so, a staged copy is committed only once the row is in the trail, and a
half-open claim has a holder who is still running. It is not inductive: `SinkInv` ties
each record's step to its call's place in the breaker (`StepFitsCall`), each step to
what has by then landed in the two stores (`RowIsWhere`), says that a probe whose write
is over holds the window no longer (`ProbesHaveSettled`), and that a claim in the `Ref`
is some caller's (`ClaimIsHeld`).

The trail so written is then kept: `TrailIsKept` is `NothingIsLost` of `AuditArchive`,
for any number of rows and any limits. A row that has no date is bundled like any other,
and has the whole bundle refused when it is read back (`RowDecodes`), so that a bundle
nothing happened to reads back exactly if all its rows decode. Sequences are compared by
how many of their members are of any kind (`HowMany`), which a sort keeps, a join adds
and a purge parts. That a sort has as many of each, leaves nothing before what precedes
it and leaves alone what is in order (`SortedIs`, `SortOfSorted`) follows from ranks: in
a finite total order each rank is some member's (`RanksAreAll`). `ArchiveInv` is then
that the counts of the trail and of the purged rows make those of the written ones
(`RowsAreCounted`), that a bundle is what was made of rows without a break or that
damaged once (`BundleIsMade`), and that what was read back last was given to be
archived, or is odd in a way no row of the trail is (`VerifiedIsGiven`), without which a
purge might trust a damaged bundle. Each kind of damage but an edit in place is refused
or only moves a row (`DamagedIsRefused`).

**WalkProofs.** `Inv` is `WalkTypeOK`, `NothingNeedlessAsked` and `FoldsOK`, for
any set of trees (`PoliciesAssumption`), any limits and any bounds. `FoldsOK` says
that a fold has taken a prefix of the kids, all of them done, and that it goes on
only while no kid taken so far settled it; without it, nothing connects the kid asked
last to those taken before. The theorems are `WalkTypeCorrect` and
`SequentialAsksOnlyNeeded`.

`EndInv` is what is true of outcomes, and needs `Inv` beside it. An open composite's
fold is what its rule makes of the outcomes it has taken (`FoldsMean`, in terms of
`FoldOver`: which kids granted, which was the first to apply, whose reason was last);
what is done has a well-formed outcome (`OutcomesOK`), that owes its own duty and those
of the kids which granted it (`DutiesPassUp`); and then the two properties themselves.
`OutcomesAreThePolicys` is the theorem that a sequential walk and a concurrent one give
a node the same outcome, the one that the policy means. It needs that a fold stops where
the meaning stops and that what an intersection keeps does not depend on the order in
which fields are merged, which are the lemmas on `mergeFields` and `InOrder`.
`DepthIsThePolicys` compares the depth measured from the leaves up with the depth
counted from the root down; `GrantsOweTheirDuties` follows from `DutiesPassUp` down the
tree. The recursive functions behind all three (`Meaning`, `depthBelow`, `depthOf`,
`Counts`) are each shown to be the one solution of its equation, by an induction on node
numbers stated with a set of counterexamples and its least element, which the provers
can do where they cannot instantiate the library's induction rule.

The same module has the theorems about `FieldLattice`, over which the walk is built.
They are about its operators, for every spec and every resource, over paths of any
length. `ContainmentIsTrue` says a judgment of containment is true of what is disclosed,
`IntersectNarrows` that an intersection discloses nothing either side does not,
`IntersectCommutes` and `IntersectAssociates` that the fold over the children keeps
the same texts in any order. The argument: `Under`, the order by which one spec of a
pair is kept, is a partial order in which the specs above any spec form a chain.
So what an intersection of three sets keeps is the set of specs that are below one
of each and are one of the three, however it was bracketed.

**DecisionStreamProofs.** `LogInv` adds to the types that a record is published at most
once and by a fiber that is then done (`Filed`), and that a reader has pulled each
position it passed at most once, with a backlog that stops at its mark (`Pulled`).
`ReadIsExact` alone is not inductive: without `Filed` a later publish might repeat an
entry already pulled. `Filed` also says that a record is published unless its writer is
still at it or was interrupted, so that what a read misses of the records appended after
its mark is down to these or to its own lag (`LiveHalfIsWhole`). `LogReadsAreExact` is
the theorem about the log; `StreamImplementsLog`, that the route and the panel only use
the log's own operations, carries it to the stream (`StreamReadsAreExact`).

The module also proves the dock, over the same timeline. `DockShowsWhatItHolds` is
`DockIsCurrent` under `DockSpec`, the dock by itself, as the `enforcement` run has it.
`Folded` is the invariant of a timeline: its rows are those the set of arrived records
makes (`RowsOf`), each once and in order of time. That one `Ingest` keeps it is a case for
each way a record meets the rows: a decision beside an orphan or without one, a
record come before, an obligation before or after its decision. From order
and uniqueness it follows that a family of rows has one origin. The theorem has a
hypothesis, room in the timeline for all of its records: past its capacity a timeline
drops the oldest, and the property is then false of the code (see section 6).
`DialsInv`, on the other side, is that the collector of spans keeps a suffix of
them and counts the rest, whatever is sampled between two of the reader's steps.

`TimelinesAreTheirSets` carries `Folded` over the wire. `Folds` gives a fold of the
library as a chain of intermediate values, so that a filter, a sort by time and
`IngestAll` can be reasoned about one element at a time: a filter keeps its members in
order, a sort by time is an arrangement of its argument, and a run of `Ingest`s makes
the rows of what was there and of all it was given. The prelude exists and is unique
because entries have distinct numbers (`Numbered`, `Presentable`). `PanelsHold` is then
the invariant: the rows of a live panel are those of the records it was sent, and the
rows of a waiting one are still empty, with those records in its queue. Like the dock's
theorem it assumes room in the timeline and that of an evaluation each environment
records one decision and one outcome (`Ingestible`).

`ResumesMissNothing` assumes only that times are natural numbers, which the codec
enforces. `Identified` says that a number names one entry wherever it is,
`PulledInOrder` that a reader pulls in the order of the publishes, and `AllFollow` that
a panel's last id is of numbers the log has given out and that a read in progress was
asked for from there. `Resumes` is the heart: up to the id a panel saw last, and up to
the mark of its read but for the backlog still to come, every entry the log retains was
received or is `Excused`, and the frames that arrived are among what was received. It is
not inductive without `AllFollow`, since a `Drop` turns a position in the frames into an
id. `Excused` is the exception the run `stream_resume` refutes the doc with: publishes
out of the order of numbers, or a later number of an earlier time.

**ClientProofs.** `ClientInv` is the types; of each node, that it is told once and that a
mounted one holds or evaluates an answer of its registry's subject, current unless the
cache was just cleared (`NodesAreFresh`); and that a cache has nothing old for any
subject (`CacheIsFresh`), without which a remount could bring an old answer back.
`AnswersAreCurrent` and `AnnouncementsAreTrue` follow, for any number of hooks,
registries, questions and changes.

`PagesAreSeededByTheServer` is `SeedsAreTheServers` of `Hydration`, for any payload.
`PageInv` says which entries a payload carries and that each is one that was offered
(`PayloadIsOffered`), that seeds are made of the payload that came, less what was refused
(`SeedsAreThePayloads`), and has the types (`PageTypeOK`). The counts add up because every
place of the payload is in one of the sets that are counted, and no two of them meet
(`EntriesAreParted`).

**SimulationSessionProofs.** `SessionInv` says that a run which still has the generation
it was forked in was not superseded since, that a call forks once, that nothing is current
when a result is shown, and that a session shown as running has somebody who will
report. `LastRunLands` is `OnlyTheLastRunLands` for any calls and commands.

The module also proves the guards of an API. `GuardsInv` says that groups and endpoints are
named by their places while the API is written (`WritingOK`), that what `guardApi`
answered is what it read of some API so written (`GuardedOK`), and that the registry holds
once each bare route and each endpoint found in an accepted API (`ListedOK`).
`GuardedAsListed` is then `GuardsHold` for APIs of any size: what was found is what asks the
guard (`AskedWhereFound`), since in an accepted API every endpoint has the middleware and no
group declares anything. That a failure is not told as a denial depends on no state, and is
proved over what a request may meet (`FailuresAreTold`). The proof assumes that the
value for no permission is not a permission (`GuardableAssumption`).

The assumptions are about the constants alone, each named in the module that declares
it: capacities, limits and thresholds are natural numbers (a cache's may be unbounded, a
log's and a book's are not zero), the value that stands for nothing is none of the
values (`ClaimAssumption`, `NothingAssumption`, `RegistriesAssumption`), callers and
questions are finite where they are counted (`SetsAssumption`), policies are trees
(`PoliciesAssumption`), the limits of a purge are numbers (`ArchiveAssumption`), times
are natural numbers, and of an evaluation each environment records one decision and one
outcome of its duties, at natural times (`RecordsAssumption`).

Only model-checked, and why:

- liveness (`HalfOpenEnds`, `WalkEnds`, `EveryCallEnds`, the deadlines of
  `WrappedCallsSettle`) and `ENABLED`, which the provers cannot treat;
- everything of `studies` but `OnlyTheLastRunLands` and `GuardsHold`: most of its
  modules declare RECURSIVE operators over values, graphs, documents and resources, with
  which tlapm has no SMT backend. A recursive function over numbers can be treated as in
  `WalkProofs`; these are not over numbers;
- what is a filter, a sort or a bag of a sequence of any length and has not been given
  the treatment of `DecisionStreamProofs` or of `AuditSinkProofs`: the lists of
  `ListsAreOfTheMounted`;
- `SignedIsFoundThereOnly`, whose ledger is over the ports, which declare RECURSIVE
  operators;
- `RecordsReadBack`, whose statement is a comparison of two projections of one record,
  key by key: the run takes every shape, and a proof would only repeat the cases;
- `WrappedCallsSettle`, whose stacks of wrappers are sequences that calls descend.

## 6. Not modelled, and the plan

Left out on purpose: metrics but the counters of hydration, log lines, spans' names and
hooks; the wording of explanations and health reports; the text of a query, the order of
its bound parameters and its placeholders (a query here is the condition it states); the
text codecs of the simulator's form, its clock and its pairs; the keys of groups and
endpoints that hold a slash; the route that serves a backlog once, which only reads;
rows of the trail forged with valid digests; a capture wired without a ledger; schedules
that repeat for ever; filters, text search and catalogue of the devtools, and the panels
that display its values; the Promise facade, which runs the same entry points, and the
test layers, which are the doubles modelled in `Ports`; a port that interrupts its own
fiber, a resource loader that dies, and the guard in front of a port's route; remedies
of leaves that compare a subject with itself; a seed replaced by a later payload's; the
website and the repository's own scripts. The Effect runtime, React, databases and the
caller's stores are external and modelled as they are used.

Two hazards have no property, and two more only one that leaves a part of them out: a
report skipped by an interruption (`AuditDecisionSinkLive.ts:138`) and a record appended
and never published (`DecisionLog.ts:322`), both described above. A handler that dies
leaves an allow with no record of its duties (`Qadi.ts:163`): the model has it, and what
the sinks are promised excepts it, as the code does. A timeline at its capacity
(`Timeline.ts:243`) drops its oldest rows by time, so what it shows then depends on the
order records came in; the runs give it room.

What is worth adding: a memo table as the abstract specification of the cache; the
interval at which a stream is authorized again, with the decision that ends it; a
timeline at its capacity; the permits of the wrappers, counted by a proof; and the lists
of the registry, whose folds could be proved about as those of the stream are.
