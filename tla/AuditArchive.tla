---------------------------- MODULE AuditArchive -----------------------------
(***************************************************************************)
(* Keeping an audit trail (packages/audit: AuditArchive.ts, Retention.ts,  *)
(* SequenceBreak.ts): rows are bundled into an archive, the archive is     *)
(* read back from where it was stored, and rows past their age that it     *)
(* holds are purged.                                                        *)
(*                                                                         *)
(* The store is external: it numbers its rows or does not, dates them by a *)
(* clock or badly, and what it hands back of a bundle may have been        *)
(* damaged.  One who keeps the trail holds on to the archive read last.     *)
(***************************************************************************)
EXTENDS Integers, Sequences, FiniteSets, SequencesExt

CONSTANTS
    MaxRows,    \* rows written in all
    MaxClock,   \* the clock's last reading
    MaxNumber,  \* the highest number a row is given
    Ages        \* the limits a purge is asked with

ASSUME ArchiveAssumption == MaxClock \in Nat /\ MaxNumber \in Nat /\ Ages \subseteq Int

VARIABLES
    clock,     \* milliseconds, as it were
    trail,     \* the rows of the store, in the order it hands them back
    written,   \* every row there ever was
    bundle,    \* the stored bundle, as its bytes say, or NoBundle
    bundled,   \* the rows it was made of
    archived,  \* every row that was ever given to be archived
    damage,    \* what happened to the bundle since
    verified,  \* the archive read last and found whole, or NoArchive
    purged     \* the rows deleted, the last selection last

archiveVars ==
    <<clock, trail, written, bundle, bundled, archived, damage, verified, purged>>

Unsequenced == 0
NotFinite == -1   \* of a date
NoBundle == [entries |-> <<>>, version |-> "none"]
NoArchive == [entries |-> <<>>, sequenceIntegrityVerified |-> FALSE, of |-> "none"]

ARCHIVE_VERSION == "1"
Spoiled == 0      \* a record that no longer decodes
AuditRow(record, at, number) == [record |-> record, at |-> at, sequenceNumber |-> number]

-----------------------------------------------------------------------------
(* The entries at some places, in an order of them: pairs of places.       *)
Ranked(places, order) ==
    [k \in 1 .. Cardinality(places) |->
        CHOOSE i \in places : Cardinality({j \in places : <<j, i>> \in order}) = k - 1]

Arranged(entries, places, order) ==
    LET ranked == Ranked(places, order) IN [k \in DOMAIN ranked |-> entries[ranked[k]]]

CountOf(entries, entry) == Cardinality({i \in DOMAIN entries : entries[i] = entry})

-----------------------------------------------------------------------------
(* Sequence integrity and archiving.                                       *)
IsSequenced(entry) == entry.sequenceNumber # Unsequenced

(* Stably, by number; those without one after the others.                  *)
Precedes(a, b) ==
    \/ IsSequenced(a) /\ ~IsSequenced(b)
    \/ IsSequenced(a) /\ a.sequenceNumber < b.sequenceNumber

SortOrder(entries) ==
    {p \in (DOMAIN entries) \X (DOMAIN entries) :
        \/ Precedes(entries[p[1]], entries[p[2]])
        \/ ~Precedes(entries[p[2]], entries[p[1]]) /\ p[1] < p[2]}

ToSorted(entries) == Arranged(entries, DOMAIN entries, SortOrder(entries))

(* The places in a sorted run where a number is not the next one.          *)
firstSequenceBreak(entries) ==
    LET sorted == ToSorted(entries)
    IN  {i \in 2 .. Len(sorted) :
            /\ IsSequenced(sorted[i])
            /\ sorted[i].sequenceNumber # sorted[i - 1].sequenceNumber + 1}

(* The claim: of fewer than two numbers there is nothing to verify.        *)
IntegrityVerified(entries) ==
    Cardinality({i \in DOMAIN entries : IsSequenced(entries[i])}) >= 2

archiveAuditTrail(entries, now) ==
    [version |-> ARCHIVE_VERSION, createdAt |-> now, entryCount |-> Len(entries),
     sequenceIntegrityVerified |-> IntegrityVerified(entries),
     entries |-> ToSorted(entries)]

-----------------------------------------------------------------------------
(* Reading back.                                                           *)

(* An entry out of the writer's order: after one without a number, or with *)
(* a smaller one than an entry before it.                                  *)
firstOutOfOrder(entries) ==
    {i \in DOMAIN entries :
        /\ IsSequenced(entries[i])
        /\ \E j \in 1 .. i - 1 :
               \/ ~IsSequenced(entries[j])
               \/ entries[j].sequenceNumber > entries[i].sequenceNumber}

(* A row decodes only with a record that does, and its date: a finite      *)
(* number (SinkCodec.ts: decodeSinkRecord).                                *)
RowDecodes(entry) == entry.record # Spoiled /\ entry.at # NotFinite

readAuditArchive(b) ==
    IF b.version = "none" THEN "Malformed"
    ELSE IF b.version # ARCHIVE_VERSION THEN "UnsupportedArchiveVersion"
    ELSE IF \E e \in ToSet(b.entries) : ~RowDecodes(e) THEN "EntryNotDecodable"
    ELSE IF b.entryCount # Len(b.entries) THEN "CountMismatch"
    ELSE IF firstSequenceBreak(b.entries) # {} THEN "SequenceBroken"
    ELSE IF firstOutOfOrder(b.entries) # {} THEN "NotInSequenceOrder"
    ELSE IF b.sequenceIntegrityVerified # IntegrityVerified(b.entries) THEN "UnbackedClaim"
    ELSE "none"

VerifiedArchive(b) ==
    [entries |-> b.entries, of |-> "bytes",
     sequenceIntegrityVerified |-> b.sequenceIntegrityVerified]

(* A mutation: rows are told apart by their numbers.                       *)
CopiesOfNumber(archive, entry) ==
    Cardinality({i \in DOMAIN archive.entries :
                    archive.entries[i].sequenceNumber = entry.sequenceNumber})

(* The copies of a row, by structure.                                      *)
copies(archive, entry) == CountOf(archive.entries, entry)

-----------------------------------------------------------------------------
(* Retention.                                                              *)
RetentionInputInvalid(maxAgeMs, now) == now = NotFinite \/ ~(maxAgeMs >= 0)

IsExpired(entry, maxAgeMs, now) ==
    entry.at # NotFinite /\ now - entry.at > maxAgeMs

(* Each expired row uses up a copy that the archive holds.                  *)
Purgeable(entries, maxAgeMs, now, archive) ==
    {i \in DOMAIN entries :
        /\ IsExpired(entries[i], maxAgeMs, now)
        /\ Cardinality({j \in 1 .. i - 1 : entries[j] = entries[i]})
             < copies(archive, entries[i])}

planPurge(entries, maxAgeMs, now, archive) ==
    LET gone == Purgeable(entries, maxAgeMs, now, archive)
        InputOrder == {p \in (DOMAIN entries) \X (DOMAIN entries) : p[1] < p[2]}
    IN  [purge |-> Arranged(entries, gone, InputOrder),
         retain |-> Arranged(entries, DOMAIN entries \ gone, InputOrder)]

-----------------------------------------------------------------------------
ArchiveInit ==
    /\ clock = 0 /\ trail = <<>> /\ written = <<>>
    /\ bundle = NoBundle /\ bundled = <<>> /\ archived = {} /\ damage = "none"
    /\ verified = NoArchive /\ purged = <<>>

ClockAdvances ==
    /\ clock < MaxClock /\ clock' = clock + 1
    /\ UNCHANGED <<trail, written, bundle, bundled, archived, damage, verified, purged>>

(* External: the store takes a row in.                                     *)
TakeIn(entry) ==
    /\ Len(written) < MaxRows
    /\ trail' = Append(trail, entry) /\ written' = Append(written, entry)
    /\ UNCHANGED <<clock, bundle, bundled, archived, damage, verified, purged>>

(* Refused when the trail's numbers have a gap or a duplicate.             *)
Archive ==
    /\ firstSequenceBreak(trail) = {}
    /\ bundle' = archiveAuditTrail(trail, clock)
    /\ bundled' = trail /\ archived' = archived \cup ToSet(trail)
    /\ damage' = "none"
    /\ UNCHANGED <<clock, trail, written, verified, purged>>

(* External: what becomes of one bundle where it is stored.  An edit is    *)
(* one that makes no other row of the trail of it: nothing here could tell *)
(* a forged row.                                                           *)
Damaged(kind, b, i) ==
    CASE kind = "dropped" -> [b EXCEPT !.entries = RemoveAt(@, i)]
      [] kind = "repeated" -> [b EXCEPT !.entries = InsertAt(@, i, b.entries[i])]
      [] kind = "moved" ->
             [b EXCEPT !.entries = Append(RemoveAt(@, i), b.entries[i])]
      [] kind = "spoiled" -> [b EXCEPT !.entries[i].record = Spoiled]
      [] kind = "edited" -> [b EXCEPT !.entries[i].at = MaxClock + 1]
      [] kind = "claimed" -> [b EXCEPT !.sequenceIntegrityVerified = ~@]
      [] kind = "aged" -> [b EXCEPT !.version = "0"]
      [] kind = "lost" -> NoBundle
Kinds == {"dropped", "repeated", "moved", "spoiled", "edited", "claimed",
          "aged", "lost"}

Damage(kind, i) ==
    /\ bundle # NoBundle /\ damage = "none"
    /\ bundle' = Damaged(kind, bundle, i) /\ damage' = kind
    /\ UNCHANGED <<clock, trail, written, bundled, archived, verified, purged>>

ReadBack ==
    /\ readAuditArchive(bundle) = "none"
    /\ verified' = VerifiedArchive(bundle)
    /\ UNCHANGED <<clock, trail, written, bundle, bundled, archived, damage, purged>>

Purge(maxAgeMs, now) ==
    /\ verified # NoArchive
    /\ ~RetentionInputInvalid(maxAgeMs, now)
    /\ LET plan == planPurge(trail, maxAgeMs, now, verified)
       IN  /\ trail' = plan.retain
           /\ purged' = purged \o plan.purge
    /\ UNCHANGED <<clock, written, bundle, bundled, archived, damage, verified>>

ArchiveNext ==
    \/ ClockAdvances \/ Archive \/ ReadBack
    \/ \E at \in {clock, NotFinite}, number \in 0 .. MaxNumber :
           TakeIn(AuditRow(1, at, number))
    \/ \E kind \in Kinds, i \in DOMAIN bundle.entries : Damage(kind, i)
    \/ \E maxAgeMs \in Ages, now \in {clock, NotFinite} : Purge(maxAgeMs, now)

ArchiveSpec == ArchiveInit /\ [][ArchiveNext]_archiveVars

-----------------------------------------------------------------------------
(* A bundle reads back whole: untouched, and of rows that all decode, it   *)
(* is found verified (one undated row, which is bundled like any other,    *)
(* has the whole bundle refused); and after anything but an edit of a row  *)
(* in place it is either refused or holds every row it was given, in as    *)
(* many copies.  And nothing is lost: each row there ever was is in the    *)
(* trail or was purged, and what was purged was written before now, has a  *)
(* date, and is what was given to be archived, whatever became of the      *)
(* bundle and whatever was written since the archive was read.             *)
(* (INV-QD-130, INV-QD-101; AuditArchive.ts:110-134, 296-338,              *)
(* Retention.ts:129-162)                                                   *)
NothingIsLost ==
    /\ bundle # NoBundle /\ damage = "none" =>
           (readAuditArchive(bundle) = "none" <=> \A row \in ToSet(bundled) : RowDecodes(row))
    /\ readAuditArchive(bundle) = "none" /\ damage # "edited" =>
           ToBag(bundle.entries) = ToBag(bundled)
    /\ ToBag(trail) (+) ToBag(purged) = ToBag(written)
    /\ \A row \in ToSet(purged) :
           /\ row.at \in 0 .. clock - 1
           /\ row \in archived

=============================================================================
