--------------------------- MODULE DecisionStream ---------------------------
(***************************************************************************)
(* A decision log served over SSE and read by a devtools panel: the route  *)
(* (http/src/DecisionStreamRoute.ts), the reader (devtools/src/model/      *)
(* Source.ts) and the store its records are folded into                    *)
(* (TimelineStore.ts), over connections that drop and a process that       *)
(* restarts.  Each connection is one read of the log.                      *)
(***************************************************************************)
EXTENDS DecisionLog, Timeline

CONSTANTS
    Refused,        \* records encodeStoredRecordString refuses
    MaxDrops        \* bound: connections dropped

VARIABLES
    panels,         \* the panel at the end of each reader's connection
    received,       \* history: the records each panel was ever sent
    drops           \* connections dropped so far

vars == <<logVars, panels, received, drops>>

(* A panel waits for the prelude, keeping what comes `early`, and then is   *)
(* live and folds into `rows`.  `sent` counts the frames of this connection *)
(* that arrived; lastId is the last id the EventSource saw.                 *)
Init ==
    /\ LogInit
    /\ panels = [r \in Readers |-> [phase |-> "waiting", sent |-> 0, lastId |-> NoCursor,
                                    early |-> <<>>, rows |-> <<>>]]
    /\ received = [r \in Readers |-> {}]
    /\ drops = 0

----------------------------------------------------------------------------
(* The frames of a connection: its backlog by time, one synced, then what  *)
(* its live half lets through; a record that cannot be framed has none.    *)

Frame(event, e) == [event |-> event, entry |-> e]
Framed(e) == e.record \notin Refused

(* presented(): by time, and in number order within a time.                *)
ComesBefore(a, b) ==
    \/ a.record.at < b.record.at
    \/ a.record.at = b.record.at /\ a.seq < b.seq

Presented(backlog) ==
    CHOOSE s \in SetToSeqs(backlog) :
        \A i, j \in DOMAIN s : i < j => ComesBefore(s[i], s[j])

(* What of s is in T, in the order of s.                                    *)
Filtered(s, T) == FoldLeft(LAMBDA t, e : IF e \in T THEN Append(t, e) ELSE t, <<>>, s)

Frames(r) ==
    LET prelude == Presented({e \in reads[r].backlog : Framed(e)})
        live == Filtered(reads[r].taken,
                         {e \in Elements(reads[r].taken) : IsLive(r, e) /\ Framed(e)})
    IN  [i \in DOMAIN prelude |-> Frame("backlog", prelude[i])]
        \o <<[event |-> "synced"]>>
        \o [i \in DOMAIN live |-> Frame("message", live[i])]

(* The EventSource opens, or opens again, naming the last id it saw.       *)
Connect(r) ==
    /\ Subscribe(r, panels[r].lastId)
    /\ UNCHANGED <<panels, received, drops>>

Drop(r) ==
    /\ drops < MaxDrops
    /\ drops' = drops + 1
    /\ Close(r)
    /\ panels' = [panels EXCEPT ![r].sent = 0]
    /\ UNCHANGED received

(* A restart drops every connection.                                       *)
ServerRestarts ==
    /\ Restart
    /\ panels' = [r \in Readers |-> [panels[r] EXCEPT !.sent = 0]]
    /\ UNCHANGED <<received, drops>>

----------------------------------------------------------------------------
(* sourceFromEventSource and runSource.                                    *)

RecordsOf(frames) == [i \in DOMAIN frames |-> frames[i].entry.record]

(* The prelude completed: its backlog frames are the backlog, and what was *)
(* live before it comes after.                                             *)
Synced(panel) ==
    LET Early(event) == RecordsOf(Filtered(panel.early,
                                           {f \in Elements(panel.early) : f.event = event}))
    IN  [panel EXCEPT !.phase = "live", !.early = <<>>,
                      !.rows = IngestAll(@, ByTime(Early("backlog")) \o Early("message"))]

(* A synced once live is a reconnect's.                                    *)
Arrived(panel, f) ==
    CASE f.event = "synced" /\ panel.phase = "waiting" -> Synced(panel)
      [] f.event = "synced" /\ panel.phase = "live" -> panel
      [] f.event # "synced" /\ panel.phase = "waiting" -> [panel EXCEPT !.early = Append(@, f)]
      [] OTHER -> [panel EXCEPT !.rows = Ingest(@, f.entry.record)]

(* A synced frame carries no id.                                           *)
Deliver(r) ==
    /\ reads[r].phase = "streaming"
    /\ panels[r].sent < Len(Frames(r))
    /\ LET f == Frames(r)[panels[r].sent + 1]
           id == IF f.event = "synced" THEN panels[r].lastId
                                       ELSE [epoch |-> epoch, seq |-> f.entry.seq]
       IN  /\ panels' = [panels EXCEPT ![r] = [Arrived(panels[r], f) EXCEPT !.sent = @ + 1,
                                                                            !.lastId = id]]
           /\ received' = IF f.event = "synced" THEN received
                          ELSE [received EXCEPT ![r] = @ \cup {f.entry.record}]
    /\ UNCHANGED <<logVars, drops>>

(* No prelude in time: the backlog is absent, and what came while waiting  *)
(* starts the live half as it came.                                        *)
SyncTimesOut(r) ==
    /\ panels[r].phase = "waiting"
    /\ panels' = [panels EXCEPT ![r].phase = "live", ![r].early = <<>>,
                                ![r].rows = IngestAll(@, RecordsOf(panels[r].early))]
    /\ UNCHANGED <<logVars, received, drops>>

----------------------------------------------------------------------------
LogStep ==
    \/ \E x \in Records : AppendRecord(x) \/ Publish(x) \/ Interrupt(x)
    \/ Clear
    \/ \E r \in Readers : Snapshot(r) \/ Take(r)

Next ==
    \/ LogStep /\ UNCHANGED <<panels, received, drops>>
    \/ ServerRestarts
    \/ \E r \in Readers : Connect(r) \/ Drop(r) \/ Deliver(r) \/ SyncTimesOut(r)

Spec == Init /\ [][Next]_vars

----------------------------------------------------------------------------
(* The type invariant: an id was given by this log or an earlier one, and  *)
(* no more frames arrived than there are.                                  *)
TypeOK ==
    /\ LogTypeOK
    /\ DOMAIN panels = Readers
    /\ \A r \in Readers :
         /\ panels[r].phase \in {"waiting", "live"}
         /\ panels[r].lastId \in Cursor
         /\ panels[r].lastId.epoch <= epoch
         /\ panels[r].lastId.epoch = epoch => panels[r].lastId.seq <= seq
         /\ Len(panels[r].rows) <= TimelineCapacity
         /\ reads[r].phase = "streaming" => panels[r].sent <= Len(Frames(r))
    /\ received \in [Readers -> SUBSET (Records \ Refused)]

(* INV-QD-039: what the timeline shows is a function of the set of records *)
(* it was sent, whatever the order, the repeats and the reconnects, and it *)
(* is in time order.                                                       *)
TimelineIsTheSet ==
    \A r \in Readers : panels[r].phase = "live" =>
        /\ ToSet(panels[r].rows) = RowsOf(received[r])
        /\ Len(panels[r].rows) = Cardinality(RowsOf(received[r]))
        /\ \A i, j \in DOMAIN panels[r].rows :
             i < j => panels[r].rows[i].at <= panels[r].rows[j].at

Retained == {e \in Elements(entries) : Framed(e)}

(* BEH-QD-316: a reconnect costs what was missed.  Of what the log retains *)
(* when it is read, all the panel was not sent before is in the prelude.   *)
ResumeMissesNothing ==
    \A r \in Readers : reads[r].phase = "streaming" =>
        \A e \in Retained : e.seq <= reads[r].highWater =>
            e.record \in received[r] \/ e \in reads[r].backlog

(* Numbers, times and publishes in one order, with no publish skipped.     *)
InOrder ==
    /\ \A i \in DOMAIN published : published[i].seq = i
    /\ \A a, b \in Elements(entries) \cup Elements(published) :
         a.seq < b.seq => a.record.at <= b.record.at

(* While the log's numbers follow its times and its publishes, resuming by *)
(* number loses nothing.                                                   *)
ResumeInOrderMissesNothing == InOrder => ResumeMissesNothing
=============================================================================
