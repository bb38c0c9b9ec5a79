------------------------------ MODULE Timeline ------------------------------
(***************************************************************************)
(* The devtools timeline (devtools/src/model/Timeline.ts): stored records  *)
(* folded, in whatever order and as often as they arrive, into one row per *)
(* decision with its obligations joined to it.                             *)
(*                                                                         *)
(* A record is its tag, the evaluation and environment it belongs to and   *)
(* its time; what was decided is left out.  A row's `obligations` is empty *)
(* or holds the outcome joined to it.                                      *)
(***************************************************************************)
EXTENDS Naturals, Sequences, SequencesExt

CONSTANT TimelineCapacity    \* rows kept

SameEvaluation(a, b) == a.evaluation = b.evaluation /\ a.environment = b.environment
SameSlot(a, b) == SameEvaluation(a, b) /\ a.at = b.at

(* Before the first one that must come after it, so last among its equals. *)
Insert(rows, row) ==
    LET after == SelectInSeq(rows, LAMBDA e : e.at > row.at)
    IN  InsertAt(rows, IF after = 0 THEN Len(rows) + 1 ELSE after, row)

Bound(rows) ==
    SubSeq(rows, IF Len(rows) > TimelineCapacity THEN Len(rows) - TimelineCapacity + 1 ELSE 1,
           Len(rows))

Row(tag, record, obligations) ==
    [tag |-> tag, evaluation |-> record.evaluation, environment |-> record.environment,
     at |-> record.at, obligations |-> obligations]

(* A mutation: the orphan stays beside the decision it was joined to.      *)
IngestDecisionBesideOrphan(rows, record) ==
    LET orphan == SelectInSeq(rows, LAMBDA e : e.tag = "Orphan" /\ SameEvaluation(e, record))
        waiting == IF orphan = 0 THEN {} ELSE rows[orphan].obligations
    IN  IF \E e \in ToSet(rows) : e.tag = "Decision" /\ SameSlot(e, record)
        THEN rows
        ELSE Bound(Insert(rows, Row("Decision", record, waiting)))

(* A repeat changes nothing; an outcome that came first is waiting here.   *)
IngestDecision(rows, record) ==
    LET orphan == SelectInSeq(rows, LAMBDA e : e.tag = "Orphan" /\ SameEvaluation(e, record))
        waiting == IF orphan = 0 THEN {} ELSE rows[orphan].obligations
        kept == IF orphan = 0 THEN rows ELSE RemoveAt(rows, orphan)
    IN  IF \E e \in ToSet(rows) : e.tag = "Decision" /\ SameSlot(e, record)
        THEN rows
        ELSE Bound(Insert(kept, Row("Decision", record, waiting)))

(* Joined to the latest decision of its evaluation, or kept as an orphan.  *)
IngestObligations(rows, record) ==
    LET target == SelectLastInSeq(rows, LAMBDA e : e.tag = "Decision" /\ SameEvaluation(e, record))
    IN  IF target # 0
        THEN [rows EXCEPT ![target].obligations = {record}]
        ELSE IF \E e \in ToSet(rows) : SameSlot(e, record)
             THEN rows
             ELSE Bound(Insert(rows, Row("Orphan", record, {record})))

Ingest(rows, record) ==
    IF record.tag = "Decision" THEN IngestDecision(rows, record)
                               ELSE IngestObligations(rows, record)

IngestAll(rows, records) == FoldLeft(Ingest, rows, records)

(* backlog.sort(storedRecordOrder): a stable sort by time.                 *)
ByTime(records) == FoldLeft(Insert, <<>>, records)

----------------------------------------------------------------------------
(* The timeline a set of records makes: a row for every decision, with its *)
(* outcome if that is known, and an orphan for an outcome alone.           *)
RowsOf(records) ==
    LET Of(tag) == {x \in records : x.tag = tag}
        Partners(x, tag) == {y \in Of(tag) : SameEvaluation(x, y)}
    IN  {Row("Decision", d, Partners(d, "Obligations")) : d \in Of("Decision")}
        \cup {Row("Orphan", o, {o}) :
                o \in {o \in Of("Obligations") : Partners(o, "Decision") = {}}}
=============================================================================
