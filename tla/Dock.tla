-------------------------------- MODULE Dock --------------------------------
(***************************************************************************)
(* What the devtools dock shows (devtools/src/model/): the timeline store  *)
(* that goes on recording while its view is paused (TimelineStore.ts), its *)
(* rows paired by evaluation (Pairing.ts), and the readings sampled field  *)
(* by field from a running client (DiagnosticsStore.ts, Wiring.ts,         *)
(* PortCalls.ts, Hydration.ts).                                            *)
(*                                                                         *)
(* Both stores are ExternalStore.ts: a value and listeners, told after a   *)
(* `set` that changed it and after every `publish`.  A listener reads what *)
(* it renders when it is told, and never otherwise.                        *)
(***************************************************************************)
EXTENDS Timeline, FiniteSets

CONSTANTS
    DockRecords,    \* records a source may deliver, in any order and again
    MaxClears,      \* bound: times the timeline is cleared
    SpanPorts,      \* ports whose calls have a span
    CallCapacities, \* capacities a collector may be made with
    MaxSpans,       \* bound: spans begun
    MaxCounted      \* bound: what the other counters come to together

(* An evaluation has an id of its own, and each environment records one    *)
(* decision of it and one outcome of its duties.                           *)
ASSUME RecordsAssumption ==
    /\ IsFiniteSet(DockRecords)
    /\ \A x \in DockRecords : x.tag \in {"Decision", "Obligations"} /\ x.at \in Nat
    /\ \A x, y \in DockRecords : x.tag = y.tag /\ SameEvaluation(x, y) => x = y

ASSUME CallCapacitiesAssumption == CallCapacities \subseteq Nat

VARIABLES
    timeline,       \* TimelineStore: everything since the last clear
    frozen,         \* {}, or the timeline a pause froze
    view,           \* its ExternalStore: what getSnapshot returns
    painted,        \* what its listeners last read: the rows and isPaused
    arrived,        \* history: the records since the last clear
    arrivedAtPause, \* history: those there when it was paused
    clears          \* times cleared so far

timelineVars == <<timeline, frozen, view, painted, arrived, arrivedAtPause, clears>>

VARIABLES
    layer,          \* runDiagnostics was handed no layer, or one that failed, or was built
    cached,         \* the size of the client's DecisionCache
    counted,        \* the metrics of each port
    hydrated,       \* the metrics of hydration
    asked,          \* questions the host's thunk lists
    spans,          \* every span begun: its port, and whether it has ended
    collector,      \* collectPortCalls: the spans kept, and how many it dropped
    sample,         \* the fields read so far by the sample under way
    diagnostics,    \* DiagnosticsStore: what getSnapshot returns
    shown,          \* what its listeners last read
    supplied        \* the fields the host gives the dock itself

dialVars == <<layer, cached, counted, hydrated, asked, spans, collector, sample,
              diagnostics, shown, supplied>>

----------------------------------------------------------------------------
(* The timeline store.                                                     *)

isPaused == frozen # {}

(* notify(): each listener reads the snapshot and isPaused.                *)
notify == painted' = [rows |-> view', paused |-> frozen' # {}]

(* ExternalStore.set and publish.                                          *)
set(next) ==
    /\ view' = next
    /\ IF next = view THEN UNCHANGED painted ELSE notify

publish(next) == view' = next /\ notify

makeTimelineStore ==
    /\ timeline = <<>> /\ frozen = {} /\ view = <<>>
    /\ painted = [rows |-> <<>>, paused |-> FALSE]
    /\ arrived = {} /\ arrivedAtPause = {} /\ clears = 0

accept(record) ==
    /\ timeline' = Ingest(timeline, record)
    /\ arrived' = arrived \cup {record}
    /\ UNCHANGED <<frozen, arrivedAtPause, clears>>
    /\ IF isPaused \/ timeline' = timeline THEN UNCHANGED <<view, painted>> ELSE set(timeline')

clear ==
    /\ clears < MaxClears
    /\ clears' = clears + 1
    /\ timeline' = <<>> /\ frozen' = {} /\ arrived' = {}
    /\ publish(timeline')
    /\ UNCHANGED arrivedAtPause

(* A mutation: listeners are told only of a view that moved.               *)
SetPausedQuietly(paused) ==
    /\ paused # isPaused
    /\ frozen' = IF paused THEN {timeline} ELSE {}
    /\ set(timeline)
    /\ arrivedAtPause' = IF paused THEN arrived ELSE arrivedAtPause
    /\ UNCHANGED <<timeline, arrived, clears>>

(* Either way it is the live timeline that is published: a pause froze it. *)
setPaused(paused) ==
    /\ paused # isPaused
    /\ frozen' = IF paused THEN {timeline} ELSE {}
    /\ publish(timeline)
    /\ arrivedAtPause' = IF paused THEN arrived ELSE arrivedAtPause
    /\ UNCHANGED <<timeline, arrived, clears>>

TimelineStoreNext ==
    \/ \E record \in DockRecords : accept(record)
    \/ clear
    \/ \E paused \in BOOLEAN : setPaused(paused)

----------------------------------------------------------------------------
(* The pairing of its rows: by evaluation id alone, so that a decision and *)
(* the re-check of it in another environment are one family.               *)

familyOf(rows, i) == {j \in DOMAIN rows : rows[j].evaluation = rows[i].evaluation}

roleOf(rows, i) ==
    LET family == familyOf(rows, i)
    IN  IF Cardinality(family) < 2 THEN "Alone"
        ELSE IF \A j \in family : i <= j THEN "Origin" ELSE "Continuation"

pairedEntries(rows) ==
    [i \in DOMAIN rows |->
        [entry |-> rows[i], role |-> roleOf(rows, i), partners |-> familyOf(rows, i) \ {i}]]

(* The evaluations more than one row is of.                                *)
pairsOf(rows) ==
    {rows[i].evaluation : i \in {i \in DOMAIN rows : Cardinality(familyOf(rows, i)) > 1}}

----------------------------------------------------------------------------
(* The readings.                                                           *)

Fields == <<"wiring", "activity", "hydration", "portCalls", "questions">>
Metrics == {"calls", "retries", "timeouts", "translationCalls"}
HydrationMetrics == {"dehydrated", "seeded", "rechecked", "mismatched", "dropped"}
NotHanded == [tag |-> "NotHanded"]

(* A field read is a singleton; one never read, or never handed, is empty. *)
noDiagnostics ==
    [wiring |-> NotHanded, activity |-> [p \in {} |-> 0], hydration |-> {},
     portCalls |-> {}, questions |-> {}]

(* wiringReader: the layer is built once, and a failed one is read as such *)
(* from then on.  Of a report only the cache's size may change.            *)
wiringReader ==
    CASE layer = "none" -> NotHanded
      [] layer = "failed" -> [tag |-> "Failed"]
      [] layer = "built" -> [tag |-> "Read", size |-> cached]

(* The ports with anything counted.                                        *)
portActivity ==
    LET busy == {p \in SpanPorts : \E m \in Metrics : counted[m][p] > 0}
    IN  [p \in busy |-> [m \in Metrics |-> counted[m][p]]]

hydrationActivity == {hydrated}

(* PortCallCollector.snapshot: each row is decoded now, from its span now. *)
snapshot ==
    {[calls |-> [i \in DOMAIN collector.kept |->
                    [number |-> collector.kept[i], of |-> spans[collector.kept[i]]]],
      dropped |-> collector.dropped, capacity |-> collector.capacity]}

ReadingOf(field) ==
    CASE field = "wiring" -> wiringReader
      [] field = "activity" -> portActivity
      [] field = "hydration" -> hydrationActivity
      [] field = "portCalls" -> snapshot
      [] field = "questions" -> {asked}

(* Field by field: an absent one falls through to the sample.              *)
mergeReading(sampled, given) ==
    [f \in DOMAIN sampled |-> IF f \in given THEN "supplied" ELSE sampled[f]]

makeDiagnosticsStore ==
    /\ layer \in {"none", "failed", "built"}
    /\ cached = 0 /\ asked = 0
    /\ counted = [m \in Metrics |-> [p \in SpanPorts |-> 0]]
    /\ hydrated = [m \in HydrationMetrics |-> 0]
    /\ spans = <<>>
    /\ collector \in [kept : {<<>>}, dropped : {0}, capacity : CallCapacities]
    /\ sample = <<>>
    /\ supplied \in {{}, {"wiring"}}
    /\ diagnostics = noDiagnostics /\ shown = mergeReading(noDiagnostics, supplied)

(* The tracer: a span of a port is kept, and the oldest dropped for it.    *)
SpanBegins(port) ==
    /\ Len(spans) < MaxSpans
    /\ spans' = Append(spans, [port |-> port, ended |-> FALSE])
    /\ LET kept == Append(collector.kept, Len(spans'))
           over == IF Len(kept) > collector.capacity THEN 1 ELSE 0
       IN  collector' = [collector EXCEPT !.kept = SubSeq(kept, 1 + over, Len(kept)),
                                          !.dropped = @ + over]
    /\ UNCHANGED <<layer, cached, counted, hydrated, asked, sample, diagnostics, shown, supplied>>

SpanEnds(i) ==
    /\ ~spans[i].ended
    /\ spans' = [spans EXCEPT ![i].ended = TRUE]
    /\ UNCHANGED <<layer, cached, counted, hydrated, asked, collector, sample, diagnostics,
                   shown, supplied>>

(* The rest of the client, as the readings see it: a decision cached, a    *)
(* flush, a port's call counted, a seed counted, a question asked.         *)
Total == cached + asked + hydrated["seeded"] + FoldFunction(+, 0, counted["calls"])

ClientWorks ==
    /\ \/ Total < MaxCounted /\ cached' = cached + 1 /\ UNCHANGED <<counted, hydrated, asked>>
       \/ cached > 0 /\ cached' = 0 /\ UNCHANGED <<counted, hydrated, asked>>
       \/ \E p \in SpanPorts :
             /\ Total < MaxCounted
             /\ counted' = [counted EXCEPT !["calls"][p] = @ + 1]
             /\ UNCHANGED <<cached, hydrated, asked>>
       \/ /\ Total < MaxCounted
          /\ hydrated' = [hydrated EXCEPT !["seeded"] = @ + 1]
          /\ UNCHANGED <<cached, counted, asked>>
       \/ Total < MaxCounted /\ asked' = asked + 1 /\ UNCHANGED <<cached, counted, hydrated>>
    /\ UNCHANGED <<layer, spans, collector, sample, diagnostics, shown, supplied>>

(* runDiagnostics: one field after another, with whatever the client does  *)
(* in between, and then the store.                                         *)
ReadField ==
    /\ Len(sample) < Len(Fields)
    /\ sample' = Append(sample, ReadingOf(Fields[Len(sample) + 1]))
    /\ UNCHANGED <<layer, cached, counted, hydrated, asked, spans, collector, diagnostics,
                   shown, supplied>>

(* An equal reading tells nobody.                                          *)
AcceptReading ==
    /\ Len(sample) = Len(Fields)
    /\ sample' = <<>>
    /\ diagnostics' = [f \in ToSet(Fields) |-> sample[CHOOSE i \in DOMAIN Fields : Fields[i] = f]]
    /\ shown' = IF diagnostics' = diagnostics THEN shown ELSE mergeReading(diagnostics', supplied)
    /\ UNCHANGED <<layer, cached, counted, hydrated, asked, spans, collector, supplied>>

DiagnosticsNext ==
    \/ \E p \in SpanPorts : SpanBegins(p)
    \/ \E i \in DOMAIN spans : SpanEnds(i)
    \/ ClientWorks \/ ReadField \/ AcceptReading

DockInit == makeTimelineStore /\ makeDiagnosticsStore

DockNext == \/ TimelineStoreNext /\ UNCHANGED dialVars
            \/ DiagnosticsNext /\ UNCHANGED timelineVars

DockSpec == DockInit /\ [][DockNext]_<<timelineVars, dialVars>>

----------------------------------------------------------------------------
(* A panel shows what its store holds: every row that has arrived, or      *)
(* those that had when it was paused, and whether it is; and each family   *)
(* of rows begins with its one earliest.  Going on recording while paused, *)
(* and telling listeners of a pause that moves no row, is makeTimelineStore. *)
TimelineIsCurrent ==
    /\ painted = [rows |-> view, paused |-> isPaused]
    /\ ToSet(painted.rows) = RowsOf(IF isPaused THEN arrivedAtPause ELSE arrived)
    /\ LET paired == pairedEntries(painted.rows)
           Of(evaluation) == {i \in DOMAIN paired : paired[i].entry.evaluation = evaluation}
       IN  \A evaluation \in pairsOf(painted.rows) :
              \E origin \in Of(evaluation) :
                 /\ {i \in Of(evaluation) : paired[i].role = "Origin"} = {origin}
                 /\ \A i \in Of(evaluation) :
                       paired[origin].entry.at <= paired[i].entry.at

(* The dials show the last sample whole, except what the host supplies;    *)
(* and the port calls in it are the last ones begun by then, in order,     *)
(* with the rest counted.  This is accept and collectPortCalls.            *)
DialsAreCurrent ==
    /\ shown = mergeReading(diagnostics, supplied)
    /\ Len(collector.kept) + collector.dropped = Len(spans)
    /\ \A log \in diagnostics.portCalls :
          /\ Len(log.calls) <= log.capacity
          /\ log.dropped > 0 => Len(log.calls) = log.capacity
          /\ \A i \in DOMAIN log.calls :
                /\ log.calls[i].number = log.dropped + i
                /\ log.calls[i].of.ended => spans[log.calls[i].number].ended

(* Whatever came while the timeline was paused, cleared or sampled, what   *)
(* the dock renders is what its stores hold: nothing is missed on resuming, *)
(* no pause goes untold, and no call is left out of the count.             *)
(* (TimelineStore.ts:54-78, DiagnosticsStore.ts:159-178, PortCalls.ts:197) *)
DockIsCurrent == TimelineIsCurrent /\ DialsAreCurrent
=============================================================================
