---------------------------- MODULE DecisionLog ----------------------------
(***************************************************************************)
(* makeDecisionLog (core/src/DecisionLog.ts): a bounded log of records and *)
(* the live stream of what is recorded next.  A reader is handed both by   *)
(* one read, and the two must neither overlap nor leave a gap, whatever    *)
(* writers do between the steps of the read.                               *)
(*                                                                         *)
(* A record is written by a fiber of its own: an evaluation of this        *)
(* process (environment Local), whose obligation outcome follows its       *)
(* decision, or an ingest of another process's record, in any order.       *)
(***************************************************************************)
EXTENDS Naturals, Sequences, FiniteSets

CONSTANTS
    Records,        \* [tag, evaluation, environment, at], each recorded once
    Local,          \* the environment of the process that owns the log
    Capacity,       \* records retained, and how far a live reader may lag
    Readers,
    MaxRestarts     \* bound: restarts of the process

ASSUME LogAssumption == Capacity \in Nat \ {0} /\ MaxRestarts \in Nat

VARIABLES
    epoch,          \* when the log was made: the restart it was made after
    seq,            \* the number of the last record appended
    entries,        \* the backlog, oldest number first
    published,      \* everything published on the PubSub, in order
    writers,        \* how far the fiber recording each record got
    reads           \* the read of each reader

logVars == <<epoch, seq, entries, published, writers, reads>>

Entry == [seq : Nat, record : Records]
Cursor == [epoch : Nat, seq : Nat]
NoCursor == [epoch |-> 0, seq |-> 0]
Writer == [pc : {"idle", "appended", "done", "interrupted"}, seq : Nat]

(* Subscribed at position `next` of what is published; then, with the      *)
(* snapshot taken, streaming: `backlog` and the high-water mark are set,   *)
(* and `taken` is what the live half has pulled so far, unfiltered.  The   *)
(* cursor is the caller's: a route takes it from a request header.         *)
ReadAt(cursor) ==
    [phase : {"closed", "subscribed", "streaming"}, cursor : {cursor}, next : Nat,
     highWater : Nat, backlog : SUBSET Entry, taken : Seq(Entry)]

NewRead(phase, cursor, next) ==
    [phase |-> phase, cursor |-> cursor, next |-> next, highWater |-> 0,
     backlog |-> {}, taken |-> <<>>]

Closed == NewRead("closed", NoCursor, 0)

EntryOf(x) == [seq |-> writers[x].seq, record |-> x]
Elements(s) == {s[i] : i \in DOMAIN s}

LogInit ==
    /\ epoch = 1
    /\ seq = 0
    /\ entries = <<>>
    /\ published = <<>>
    /\ writers = [x \in Records |-> [pc |-> "idle", seq |-> 0]]
    /\ reads = [r \in Readers |-> Closed]

----------------------------------------------------------------------------
(* accept: append, then publish.  A fiber switch may fall between them.    *)

(* An evaluation reports its obligations only after it recorded its        *)
(* decision.                                                               *)
Reportable(x) ==
    x.tag = "Obligations" /\ x.environment = Local =>
        \A d \in Records : d.tag = "Decision" /\ d.environment = Local
                             /\ d.evaluation = x.evaluation => writers[d].pc = "done"

Retain(x) ==
    LET longer == Append(entries, [seq |-> seq + 1, record |-> x])
    IN  entries' = IF Len(longer) > Capacity THEN Tail(longer) ELSE longer

AppendRecord(x) ==
    /\ writers[x].pc = "idle"
    /\ Reportable(x)
    /\ seq' = seq + 1
    /\ Retain(x)
    /\ writers' = [writers EXCEPT ![x] = [pc |-> "appended", seq |-> seq + 1]]
    /\ UNCHANGED <<epoch, published, reads>>

Publish(x) ==
    /\ writers[x].pc = "appended"
    /\ published' = Append(published, EntryOf(x))
    /\ writers' = [writers EXCEPT ![x].pc = "done"]
    /\ UNCHANGED <<epoch, seq, entries, reads>>

(* The recording fiber is interrupted where it was switched out.           *)
Interrupt(x) ==
    /\ writers[x].pc = "appended"
    /\ writers' = [writers EXCEPT ![x].pc = "interrupted"]
    /\ UNCHANGED <<epoch, seq, entries, published, reads>>

Clear ==
    /\ entries' = <<>>
    /\ UNCHANGED <<epoch, seq, published, writers, reads>>

----------------------------------------------------------------------------
(* readEntries: subscribe, then snapshot; then the live half.              *)

Subscribe(r, cursor) ==
    /\ reads[r].phase = "closed"
    /\ reads' = [reads EXCEPT ![r] = NewRead("subscribed", cursor, Len(published))]
    /\ UNCHANGED <<epoch, seq, entries, published, writers>>

(* A mutation: the cursor of an earlier log is taken for this one's.       *)
ResumeAfterAnyEpoch(cursor) == cursor.seq

(* A cursor of another epoch says nothing about this log.                  *)
ResumeAfter(cursor) == IF cursor.epoch = epoch THEN cursor.seq ELSE 0

Missed(cursor) == {e \in Elements(entries) : e.seq > ResumeAfter(cursor)}

Snapshot(r) ==
    /\ reads[r].phase = "subscribed"
    /\ reads' = [reads EXCEPT ![r].phase = "streaming",
                              ![r].highWater = seq,
                              ![r].backlog = Missed(reads[r].cursor)]
    /\ UNCHANGED <<epoch, seq, entries, published, writers>>

(* The sliding PubSub keeps the newest Capacity a reader has not pulled.   *)
OldestKept(r) ==
    IF reads[r].next + Capacity < Len(published) THEN Len(published) - Capacity + 1
                                                 ELSE reads[r].next + 1

(* A pull takes one or more of them.                                       *)
Take(r) ==
    /\ reads[r].phase = "streaming"
    /\ \E last \in OldestKept(r)..Len(published) :
         reads' = [reads EXCEPT ![r].taken = @ \o SubSeq(published, OldestKept(r), last),
                                ![r].next = last]
    /\ UNCHANGED <<epoch, seq, entries, published, writers>>

(* A mutation: the record at the high-water mark is let through.           *)
IsLiveAtMark(r, e) == e.seq >= reads[r].highWater

(* The live half lets through what the snapshot did not cover.             *)
IsLive(r, e) == e.seq > reads[r].highWater

(* The scope of the read closes and takes its subscription with it.        *)
Close(r) ==
    /\ reads[r].phase # "closed"
    /\ reads' = [reads EXCEPT ![r] = Closed]
    /\ UNCHANGED <<epoch, seq, entries, published, writers>>

(* The process dies: the log with its numbers, its readers and the         *)
(* recording fibers go.                                                    *)
Restart ==
    /\ epoch <= MaxRestarts
    /\ epoch' = epoch + 1
    /\ seq' = 0
    /\ entries' = <<>>
    /\ published' = <<>>
    /\ writers' = [x \in Records |->
                     [pc |-> IF writers[x].pc = "appended" THEN "interrupted"
                                                           ELSE writers[x].pc,
                      seq |-> 0]]
    /\ reads' = [r \in Readers |-> Closed]

LogNext ==
    \/ \E x \in Records : AppendRecord(x) \/ Publish(x) \/ Interrupt(x)
    \/ Clear
    \/ \E r \in Readers :
         \/ \E cursor : Subscribe(r, cursor)
         \/ Snapshot(r) \/ Take(r) \/ Close(r)
    \/ Restart

LogSpec == LogInit /\ [][LogNext]_logVars

----------------------------------------------------------------------------
(* The type invariant: the backlog never outgrows its capacity, numbers    *)
(* never pass the counter, and a reader is never ahead of the PubSub.      *)
LogTypeOK ==
    /\ epoch \in Nat /\ seq \in Nat
    /\ entries \in Seq(Entry) /\ Len(entries) <= Capacity
    /\ published \in Seq(Entry)
    /\ writers \in [Records -> Writer]
    /\ DOMAIN reads = Readers
    /\ \A r \in Readers : /\ reads[r] \in ReadAt(reads[r].cursor)
                          /\ reads[r].next <= Len(published)
    /\ \A e \in Elements(entries) \cup Elements(published) : e.seq <= seq

(* Nothing reaches one read twice: not in its backlog and live, and not    *)
(* live twice.                                                             *)
NoRepeat(r) ==
    \A i \in DOMAIN reads[r].taken : IsLive(r, reads[r].taken[i]) =>
        /\ reads[r].taken[i] \notin reads[r].backlog
        /\ \A j \in DOMAIN reads[r].taken :
             reads[r].taken[i] = reads[r].taken[j] => i = j

(* What the log retained when the read was taken, past the cursor, is in   *)
(* the backlog.                                                            *)
BacklogIsWhole(r) ==
    \A e \in Elements(entries) :
        e.seq <= reads[r].highWater /\ e.seq > ResumeAfter(reads[r].cursor)
            => e \in reads[r].backlog

(* Appended, and its writer stopped before it published.                   *)
NeverPublished(x) == writers[x].pc = "interrupted"

(* Every record appended since the snapshot is published to this reader,   *)
(* which has pulled it or is to, or lags Capacity behind: it loses its     *)
(* oldest unread, never its newest.  Two are not, or not yet: one whose    *)
(* writer is between append and publish, and one whose writer was          *)
(* interrupted there, which this reader is never handed.                   *)
LiveIsWhole(r) ==
    \A x \in Records : IsLive(r, EntryOf(x)) =>
        \/ writers[x].pc = "appended" \/ NeverPublished(x)
        \/ \E i \in DOMAIN published :
              /\ published[i] = EntryOf(x)
              /\ \/ i > reads[r].next
                 \/ EntryOf(x) \in Elements(reads[r].taken)
                 \/ i + Capacity <= Len(published)

(* INV-QD-100, but for the records NeverPublished: one read hands its      *)
(* reader every record exactly once, from the backlog or live, whatever is *)
(* recorded between its steps.  The invariant (spec/invariants.md:2926-    *)
(* 2932) excepts only a lagging reader, and DecisionLog.ts:15-18 says      *)
(* "never neither": a record whose writer is interrupted between append    *)
(* and publish is in neither half of the reads open by then.               *)
ReadIsExact ==
    \A r \in Readers : reads[r].phase = "streaming" =>
        NoRepeat(r) /\ BacklogIsWhole(r) /\ LiveIsWhole(r)
=============================================================================
