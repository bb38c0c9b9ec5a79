------------------------ MODULE DecisionStreamProofs ------------------------
(***************************************************************************)
(* That a read of the decision log is exact (INV-QD-100, but for the       *)
(* records whose writer was interrupted between append and publish), for   *)
(* any number of records, readers and restarts and any capacity, and that  *)
(* a log served over SSE is used through its own operations only, so that  *)
(* each connection inherits it.  That the developer's dock, which folds those   *)
(* records into a timeline, shows what its stores hold.  And that the      *)
(* panel at the end of a connection holds the rows of what it was sent     *)
(* (INV-QD-039), and by resuming in order misses nothing (BEH-QD-316).     *)
(***************************************************************************)
EXTENDS DecisionStream, Dock, SequenceTheorems, FiniteSetTheorems, WellFoundedInduction,
        TLAPS

Published(x) == \E i \in DOMAIN published : published[i] = EntryOf(x)

(* A record is published at most once, by the fiber that is then done, and *)
(* a number in hand was given out.  A fiber that is done, and was numbered *)
(* by this log, did publish.                                               *)
Filed ==
    /\ \A i \in DOMAIN published : writers[published[i].record].pc = "done"
    /\ \A i, j \in DOMAIN published : published[i].record = published[j].record => i = j
    /\ \A x \in Records : writers[x].pc = "appended" => writers[x].seq <= seq
    /\ \A x \in Records : writers[x].pc = "idle" => writers[x].seq = 0
    /\ \A x \in Records :
         writers[x].pc = "done" /\ writers[x].seq # 0 => Published(x)

(* What was published since the snapshot is pulled, or waits to be, unless *)
(* the reader lags by Capacity.                                            *)
PublishedIsPulled(r) ==
    \A i \in DOMAIN published :
        /\ IsLive(r, published[i])
        /\ i + Capacity > Len(published)
        => i > reads[r].next \/ published[i] \in Elements(reads[r].taken)

(* A reader pulled each position it passed at most once, and its backlog   *)
(* stops at its mark.                                                      *)
Pulled(r) ==
    /\ reads[r].phase # "streaming" => reads[r].taken = <<>>
    /\ \A k \in DOMAIN reads[r].taken :
         \E i \in DOMAIN published : i <= reads[r].next /\ reads[r].taken[k] = published[i]
    /\ \A k, l \in DOMAIN reads[r].taken : reads[r].taken[k] = reads[r].taken[l] => k = l
    /\ reads[r].phase = "streaming" =>
         /\ reads[r].highWater <= seq
         /\ \A e \in reads[r].backlog : e.seq <= reads[r].highWater
         /\ BacklogIsWhole(r)
         /\ PublishedIsPulled(r)

LogInv == LogTypeOK /\ Filed /\ \A r \in Readers : Pulled(r)

(* A record the snapshot did not cover has a writer of this log; one that  *)
(* is done published it, and what is published is pulled.                  *)
LEMMA LiveHalfIsWhole ==
  ASSUME LogInv, LogAssumption, NEW r \in Readers, PublishedIsPulled(r)
  PROVE  LiveIsWhole(r)
  <1> SUFFICES ASSUME NEW x \in Records, IsLive(r, EntryOf(x)),
                      writers[x].pc # "appended", ~NeverPublished(x)
               PROVE  \E i \in DOMAIN published :
                        /\ published[i] = EntryOf(x)
                        /\ \/ i > reads[r].next
                           \/ EntryOf(x) \in Elements(reads[r].taken)
                           \/ i + Capacity <= Len(published)
    BY DEF LiveIsWhole
  <1>1. /\ writers[x] \in Writer /\ reads[r].highWater \in Nat /\ Capacity \in Nat
        /\ published \in Seq(Entry) /\ Len(published) \in Nat
        /\ DOMAIN published = 1..Len(published)
    BY DEF LogInv, LogTypeOK, ReadAt, LogAssumption
  <1>2. writers[x].seq > reads[r].highWater /\ writers[x].seq # 0
    BY <1>1 DEF IsLive, EntryOf, Writer
  <1>3. writers[x].pc = "done"
    BY <1>1, <1>2 DEF Writer, NeverPublished, LogInv, Filed
  <1>4. PICK i \in DOMAIN published : published[i] = EntryOf(x)
    BY <1>2, <1>3 DEF LogInv, Filed, Published
  <1>5. CASE i + Capacity > Len(published)
    BY <1>4, <1>5 DEF PublishedIsPulled
  <1>6. CASE ~(i + Capacity > Len(published))
    BY <1>1, <1>4, <1>6
  <1> QED
    BY <1>4, <1>5, <1>6

LEMMA InvImpliesExact == LogInv /\ LogAssumption => ReadIsExact
  <1> SUFFICES ASSUME LogInv, LogAssumption, NEW r \in Readers, reads[r].phase = "streaming"
               PROVE  NoRepeat(r) /\ BacklogIsWhole(r) /\ LiveIsWhole(r)
    BY DEF ReadIsExact
  <1>1. NoRepeat(r) /\ BacklogIsWhole(r) /\ PublishedIsPulled(r)
    BY DEF LogInv, Pulled, NoRepeat, IsLive, LogTypeOK, ReadAt, Entry
  <1> QED
    BY <1>1, LiveHalfIsWhole

----------------------------------------------------------------------------
(* What the two shapes of step do to sequences.                            *)

LEMMA AppendFacts ==
  ASSUME NEW S, NEW s \in Seq(S), NEW e \in S
  PROVE  /\ Append(s, e) \in Seq(S)
         /\ Len(Append(s, e)) = Len(s) + 1
         /\ DOMAIN s = 1..Len(s)
         /\ DOMAIN Append(s, e) = 1..(Len(s) + 1)
         /\ \A i \in 1..Len(s) : Append(s, e)[i] = s[i]
         /\ Append(s, e)[Len(s) + 1] = e
  OBVIOUS

LEMMA ElementsTyped ==
  ASSUME LogTypeOK
  PROVE  /\ \A i \in DOMAIN published : published[i] \in Entry
         /\ \A e \in Elements(entries) \cup Elements(published) : e \in Entry
  <1>1. published \in Seq(Entry) /\ entries \in Seq(Entry)
    BY DEF LogTypeOK
  <1>2. /\ \A i \in DOMAIN published : published[i] \in Entry
        /\ \A i \in DOMAIN entries : entries[i] \in Entry
    <2> HIDE DEF Entry
    <2> QED
      BY <1>1, ElementOfSeq
  <1> QED
    BY <1>2 DEF Elements

LEMMA RetainKeeps ==
  ASSUME LogTypeOK, LogAssumption, NEW x \in Records, Retain(x)
  PROVE  /\ entries' \in Seq(Entry) /\ Len(entries') <= Capacity
         /\ Elements(entries') \subseteq Elements(entries) \cup {[seq |-> seq + 1, record |-> x]}
  <1> DEFINE e == [seq |-> seq + 1, record |-> x]
             longer == Append(entries, e)
  <1>1. e \in Entry /\ entries \in Seq(Entry) /\ Len(entries) <= Capacity /\ Capacity \in Nat \ {0}
    BY DEF LogTypeOK, Entry, LogAssumption
  <1>2. /\ longer \in Seq(Entry) /\ Len(longer) = Len(entries) + 1
        /\ DOMAIN entries = 1..Len(entries) /\ DOMAIN longer = 1..(Len(entries) + 1)
        /\ \A i \in 1..Len(entries) : longer[i] = entries[i]
        /\ longer[Len(entries) + 1] = e
    BY <1>1, AppendFacts
  <1>3. Elements(longer) = Elements(entries) \cup {e}
    BY <1>1, <1>2 DEF Elements
  <1>4. entries' = IF Len(longer) > Capacity THEN Tail(longer) ELSE longer
    BY DEF Retain
  <1>5. CASE Len(longer) > Capacity
    <2> HIDE DEF longer, e
    <2>1. longer # <<>>
      BY <1>2, <1>1
    <2>2. /\ Tail(longer) \in Seq(Entry) /\ Len(Tail(longer)) = Len(longer) - 1
          /\ \A i \in 1..Len(Tail(longer)) : Tail(longer)[i] = longer[i + 1]
      BY <1>2, <2>1, HeadTailProperties
    <2>3. Elements(Tail(longer)) \subseteq Elements(longer)
      BY <1>1, <1>2, <2>2 DEF Elements
    <2>4. Len(entries) \in Nat /\ entries' = Tail(longer)
      BY <1>1, <1>4, <1>5
    <2> QED
      BY <1>1, <1>2, <1>3, <2>2, <2>3, <2>4 DEF e
  <1>6. CASE ~(Len(longer) > Capacity)
    BY <1>1, <1>2, <1>3, <1>4, <1>6
  <1> QED
    BY <1>5, <1>6

(* A pull adds the positions from the oldest kept to the one it stops at.  *)
Pull(r, last) == SubSeq(published, OldestKept(r), last)

LEMMA TakeFacts ==
  ASSUME LogTypeOK, LogAssumption, NEW r \in Readers,
         NEW last \in OldestKept(r)..Len(published)
  PROVE  /\ OldestKept(r) \in Nat /\ OldestKept(r) >= 1 /\ OldestKept(r) > reads[r].next
         /\ reads[r].taken \o Pull(r, last) \in Seq(Entry)
         /\ Len(reads[r].taken) \in Nat
         /\ DOMAIN reads[r].taken = 1..Len(reads[r].taken)
         /\ DOMAIN (reads[r].taken \o Pull(r, last)) =
              1..(Len(reads[r].taken) + (last - OldestKept(r) + 1))
         /\ \A k \in 1..Len(reads[r].taken) :
              (reads[r].taken \o Pull(r, last))[k] = reads[r].taken[k]
         /\ \A k \in (Len(reads[r].taken) + 1)
                     ..(Len(reads[r].taken) + (last - OldestKept(r) + 1)) :
              (reads[r].taken \o Pull(r, last))[k] =
                published[OldestKept(r) + (k - Len(reads[r].taken)) - 1]
  <1>1. /\ reads[r].next \in Nat /\ reads[r].next <= Len(published) /\ reads[r].taken \in Seq(Entry)
        /\ published \in Seq(Entry) /\ Capacity \in Nat \ {0}
    BY DEF LogTypeOK, ReadAt, LogAssumption
  <1>2. /\ OldestKept(r) \in Nat /\ OldestKept(r) >= 1 /\ OldestKept(r) > reads[r].next
        /\ last \in Nat /\ last >= OldestKept(r) /\ last <= Len(published)
    BY <1>1 DEF OldestKept
  <1>3. /\ Pull(r, last) \in Seq(Entry) /\ Len(Pull(r, last)) = last - OldestKept(r) + 1
        /\ \A k \in 1..(last - OldestKept(r) + 1) :
             Pull(r, last)[k] = published[OldestKept(r) + k - 1]
    BY <1>1, <1>2, SubSeqProperties DEF Pull
  <1>4. /\ reads[r].taken \o Pull(r, last) \in Seq(Entry)
        /\ Len(reads[r].taken \o Pull(r, last)) = Len(reads[r].taken) + Len(Pull(r, last))
        /\ \A k \in 1..(Len(reads[r].taken) + Len(Pull(r, last))) :
             (reads[r].taken \o Pull(r, last))[k] =
               IF k <= Len(reads[r].taken) THEN reads[r].taken[k]
                                           ELSE Pull(r, last)[k - Len(reads[r].taken)]
    <2> DEFINE a == reads[r].taken
               b == Pull(r, last)
    <2>1. a \in Seq(Entry) /\ b \in Seq(Entry)
      BY <1>1, <1>3
    <2> HIDE DEF a, b
    <2>2. /\ a \o b \in Seq(Entry) /\ Len(a \o b) = Len(a) + Len(b)
          /\ \A k \in 1..(Len(a) + Len(b)) :
               (a \o b)[k] = IF k <= Len(a) THEN a[k] ELSE b[k - Len(a)]
      BY <2>1, ConcatProperties
    <2> QED
      BY <2>2 DEF a, b
  <1>5. /\ Len(reads[r].taken) \in Nat /\ DOMAIN reads[r].taken = 1..Len(reads[r].taken)
        /\ DOMAIN (reads[r].taken \o Pull(r, last)) =
              1..(Len(reads[r].taken) + (last - OldestKept(r) + 1))
    BY <1>1, <1>3, <1>4
  <1>6. \A k \in 1..Len(reads[r].taken) :
           (reads[r].taken \o Pull(r, last))[k] = reads[r].taken[k]
    BY <1>2, <1>3, <1>4, <1>5
  <1>7. \A k \in (Len(reads[r].taken) + 1)
                 ..(Len(reads[r].taken) + (last - OldestKept(r) + 1)) :
           (reads[r].taken \o Pull(r, last))[k] =
             published[OldestKept(r) + (k - Len(reads[r].taken)) - 1]
    <2> SUFFICES ASSUME NEW k \in (Len(reads[r].taken) + 1)
                              ..(Len(reads[r].taken) + (last - OldestKept(r) + 1))
                 PROVE  (reads[r].taken \o Pull(r, last))[k] =
                          published[OldestKept(r) + (k - Len(reads[r].taken)) - 1]
      OBVIOUS
    <2>0. Len(reads[r].taken) \in Nat /\ OldestKept(r) \in Nat /\ last \in Nat
      BY <1>2, <1>5
    <2>1. k \in Nat /\ k - Len(reads[r].taken) \in 1..(last - OldestKept(r) + 1)
          /\ ~(k <= Len(reads[r].taken))
      <3>1. \A n \in Nat, m \in Int : \A j \in (n + 1)..(n + m) :
              j \in Nat /\ j - n \in 1..m /\ ~(j <= n)
        OBVIOUS
      <3>2. last - OldestKept(r) + 1 \in Int
        BY <2>0
      <3> QED
        BY <2>0, <3>1, <3>2
    <2>2. (reads[r].taken \o Pull(r, last))[k] = Pull(r, last)[k - Len(reads[r].taken)]
      BY <1>2, <1>3, <1>4, <1>5, <2>1
    <2> QED
      BY <1>3, <2>1, <2>2
  <1> QED
    BY <1>2, <1>4, <1>5, <1>6, <1>7

----------------------------------------------------------------------------
(* The writers.                                                            *)

(* A reader no step of its own moved keeps what it pulled when the log     *)
(* grows at its end and nothing it should have is added.                   *)
LEMMA ReaderWaits ==
  ASSUME LogInv, NEW r \in Readers, reads'[r] = reads[r], epoch' = epoch,
         published' = published, seq' >= seq, seq' \in Nat,
         \A e \in Elements(entries') : e \in Elements(entries) \/ (e \in Entry /\ e.seq > seq)
  PROVE  Pulled(r)'
  <1>1. Pulled(r) /\ seq \in Nat /\ reads[r] \in ReadAt(reads[r].cursor)
    BY DEF LogInv, LogTypeOK
  <1>2. ASSUME reads[r].phase = "streaming"
        PROVE  BacklogIsWhole(r)' /\ PublishedIsPulled(r)'
    <2>1. BacklogIsWhole(r) /\ PublishedIsPulled(r) /\ reads[r].highWater <= seq
      BY <1>1, <1>2 DEF Pulled
    <2>2. reads[r].highWater \in Nat /\ entries \in Seq(Entry)
      BY <1>1 DEF ReadAt, LogInv, LogTypeOK
    <2>3. PublishedIsPulled(r)'
      BY <2>1 DEF PublishedIsPulled, IsLive
    <2>4. ASSUME NEW e \in Elements(entries'), e.seq <= reads[r].highWater
          PROVE  e \in Elements(entries)
      BY <1>1, <2>1, <2>2, <2>4 DEF Entry
    <2>5. BacklogIsWhole(r)'
      BY <2>1, <2>4 DEF BacklogIsWhole, ResumeAfter
    <2> QED
      BY <2>3, <2>5
  <1>3. reads'[r].phase = "streaming" => reads'[r].highWater <= seq'
    BY <1>1 DEF Pulled, ReadAt
  <1> QED
    BY <1>1, <1>2, <1>3 DEF Pulled

LEMMA AppendRecordKeeps ==
  ASSUME LogInv, LogAssumption, NEW x \in Records, AppendRecord(x)
  PROVE  LogInv'
  <1> DEFINE e == [seq |-> seq + 1, record |-> x]
  <1>1. /\ entries' \in Seq(Entry) /\ Len(entries') <= Capacity
        /\ Elements(entries') \subseteq Elements(entries) \cup {e}
    BY RetainKeeps DEF AppendRecord, LogInv
  <1>0. e \in Entry
    BY DEF LogInv, LogTypeOK, Entry
  <1>2. /\ seq \in Nat /\ seq' = seq + 1 /\ e.seq = seq + 1
        /\ \A f \in Elements(entries) \cup Elements(published) : f.seq \in Nat /\ f.seq <= seq
    BY ElementsTyped DEF LogInv, LogTypeOK, AppendRecord, Entry
  <1>3. LogTypeOK'
    <2>1. writers' \in [Records -> Writer]
      BY <1>2 DEF LogInv, LogTypeOK, AppendRecord, Writer
    <2>2. \A f \in Elements(entries') \cup Elements(published') : f.seq <= seq'
      BY <1>1, <1>2 DEF AppendRecord
    <2> QED
      BY <1>1, <1>2, <2>1, <2>2 DEF LogInv, LogTypeOK, AppendRecord, ReadAt
  <1>4. Filed'
    <2>1. \A i \in DOMAIN published : published[i].record \in Records /\ published[i].record # x
      BY ElementsTyped DEF LogInv, LogTypeOK, Filed, AppendRecord, Entry
    <2>2. \A y \in Records : y # x => writers'[y] = writers[y]
      BY DEF LogInv, LogTypeOK, AppendRecord
    <2>3. writers'[x].seq = seq + 1
      BY DEF LogInv, LogTypeOK, AppendRecord
    <2>4. \A y \in Records : writers[y].seq \in Nat
      BY DEF LogInv, LogTypeOK, Writer
    <2>5. writers'[x].pc = "appended"
      BY DEF LogInv, LogTypeOK, AppendRecord
    <2>6. ASSUME NEW y \in Records, writers'[y].pc = "done", writers'[y].seq # 0
          PROVE  Published(y)'
      BY <2>2, <2>5, <2>6 DEF LogInv, Filed, Published, EntryOf, AppendRecord
    <2> QED
      BY <1>2, <2>1, <2>2, <2>3, <2>4, <2>5, <2>6 DEF LogInv, Filed, AppendRecord
  <1>5. ASSUME NEW r \in Readers PROVE Pulled(r)'
    <2>1. /\ reads'[r] = reads[r] /\ epoch' = epoch /\ published' = published
          /\ seq' >= seq /\ seq' \in Nat
      BY <1>2 DEF AppendRecord
    <2>2. \A f \in Elements(entries') : f \in Elements(entries) \/ (f \in Entry /\ f.seq > seq)
      <3>1. e.seq > seq
        BY <1>2
      <3> HIDE DEF e
      <3> QED
        BY <1>0, <1>1, <3>1
    <2> QED
      BY <2>1, <2>2, ReaderWaits
  <1> QED
    BY <1>3, <1>4, <1>5 DEF LogInv

LEMMA PublishKeeps ==
  ASSUME LogInv, LogAssumption, NEW x \in Records, Publish(x)
  PROVE  LogInv'
  <1>1. /\ EntryOf(x) \in Entry /\ EntryOf(x).record = x /\ EntryOf(x).seq <= seq
        /\ published \in Seq(Entry) /\ Len(published) \in Nat
    BY DEF LogInv, LogTypeOK, Filed, Publish, EntryOf, Entry, Writer
  <1>2. /\ published' \in Seq(Entry) /\ Len(published') = Len(published) + 1
        /\ DOMAIN published = 1..Len(published)
        /\ DOMAIN published' = 1..(Len(published) + 1)
        /\ \A i \in 1..Len(published) : published'[i] = published[i]
        /\ published'[Len(published) + 1] = EntryOf(x)
    BY <1>1, AppendFacts DEF Publish
  <1>3. \A i \in 1..Len(published) : published[i].record \in Records /\ published[i].record # x
    BY <1>2, ElementsTyped DEF LogInv, LogTypeOK, Filed, Publish, Entry
  <1>4. /\ \A y \in Records : y # x => writers'[y] = writers[y]
        /\ writers'[x].pc = "done" /\ writers' \in [Records -> Writer]
    BY DEF LogInv, LogTypeOK, Publish, Writer
  <1>5. LogTypeOK'
    <2>1. Elements(published') = Elements(published) \cup {EntryOf(x)}
      BY <1>1, <1>2 DEF Elements
    <2>2. \A r \in Readers : reads[r].next <= Len(published')
      BY <1>1, <1>2 DEF LogInv, LogTypeOK, ReadAt
    <2>3. \A e \in Elements(entries') \cup Elements(published') : e.seq <= seq'
      BY <1>1, <2>1 DEF LogInv, LogTypeOK, Publish
    <2> QED
      BY <1>2, <1>4, <2>2, <2>3 DEF LogInv, LogTypeOK, Publish, ReadAt
  <1>6. Filed'
    <2>1. \A i \in DOMAIN published' : writers'[published'[i].record].pc = "done"
      BY <1>1, <1>2, <1>3, <1>4 DEF LogInv, Filed
    <2>2. \A i, j \in DOMAIN published' : published'[i].record = published'[j].record => i = j
      BY <1>1, <1>2, <1>3 DEF LogInv, Filed
    <2>3. \A y \in Records : writers'[y].pc = "appended" => writers'[y].seq <= seq'
      BY <1>4 DEF LogInv, Filed, Publish
    <2>4. \A y \in Records : writers'[y].pc = "idle" => writers'[y].seq = 0
      BY <1>4 DEF LogInv, Filed
    <2>5. ASSUME NEW y \in Records, writers'[y].pc = "done", writers'[y].seq # 0
          PROVE  Published(y)'
      <3>1. CASE y = x
        <4>1. EntryOf(x)' = EntryOf(x)
          BY DEF LogInv, LogTypeOK, Publish, EntryOf, Writer
        <4> QED
          BY <1>1, <1>2, <3>1, <4>1 DEF Published
      <3>2. CASE y # x
        <4>1. PICK i \in DOMAIN published : published[i] = EntryOf(y)
          BY <1>4, <2>5, <3>2 DEF LogInv, Filed, Published
        <4>2. EntryOf(y)' = EntryOf(y) /\ i \in DOMAIN published' /\ published'[i] = published[i]
          BY <1>1, <1>2, <1>4, <3>2 DEF EntryOf
        <4> QED
          BY <4>1, <4>2 DEF Published
      <3> QED
        BY <3>1, <3>2
    <2> QED
      BY <2>1, <2>2, <2>3, <2>4, <2>5 DEF Filed
  <1>7. ASSUME NEW r \in Readers PROVE Pulled(r)'
    <2>1. /\ reads' = reads /\ entries' = entries /\ epoch' = epoch /\ seq' = seq /\ Pulled(r)
          /\ reads[r].next \in Nat /\ reads[r].next <= Len(published) /\ Capacity \in Nat
      BY DEF LogInv, LogTypeOK, Publish, ReadAt, LogAssumption
    <2>2. BacklogIsWhole(r) => BacklogIsWhole(r)'
      BY <2>1 DEF BacklogIsWhole, ResumeAfter
    <2>3. PublishedIsPulled(r) => PublishedIsPulled(r)'
      <3> SUFFICES ASSUME PublishedIsPulled(r), NEW i \in DOMAIN published', IsLive(r, published'[i]),
                          i + Capacity > Len(published')
                   PROVE  i > reads[r].next \/ published'[i] \in Elements(reads[r].taken)
        BY <2>1 DEF PublishedIsPulled, IsLive
      <3>1. CASE i = Len(published) + 1
        BY <1>1, <2>1, <3>1
      <3>2. CASE i \in 1..Len(published)
        BY <1>1, <1>2, <2>1, <3>2 DEF PublishedIsPulled
      <3> QED
        BY <1>1, <1>2, <3>1, <3>2
    <2> QED
      BY <1>2, <2>1, <2>2, <2>3 DEF Pulled
  <1> QED
    BY <1>5, <1>6, <1>7 DEF LogInv

LEMMA InterruptKeeps ==
  ASSUME LogInv, NEW x \in Records, Interrupt(x)
  PROVE  LogInv'
  <1>1. /\ \A y \in Records : y # x => writers'[y] = writers[y]
        /\ writers'[x].pc = "interrupted" /\ writers' \in [Records -> Writer]
    BY DEF LogInv, LogTypeOK, Interrupt, Writer
  <1>2. LogTypeOK'
    BY <1>1 DEF LogInv, LogTypeOK, Interrupt, ReadAt
  <1>3. Filed'
    <2>1. \A i \in DOMAIN published : published[i].record \in Records /\ published[i].record # x
      BY ElementsTyped DEF LogInv, LogTypeOK, Filed, Interrupt, Entry
    <2>2. ASSUME NEW y \in Records, writers'[y].pc = "done", writers'[y].seq # 0
          PROVE  Published(y)'
      BY <1>1, <2>2 DEF LogInv, Filed, Published, EntryOf, Interrupt
    <2> QED
      BY <1>1, <2>1, <2>2 DEF LogInv, Filed, Interrupt
  <1>4. ASSUME NEW r \in Readers PROVE Pulled(r)'
    <2>1. /\ reads'[r] = reads[r] /\ epoch' = epoch /\ published' = published
          /\ seq' >= seq /\ seq' \in Nat /\ entries' = entries
      BY DEF Interrupt, LogInv, LogTypeOK
    <2>2. \A e \in Elements(entries') : e \in Elements(entries) \/ (e \in Entry /\ e.seq > seq)
      BY <2>1 DEF Elements
    <2> QED
      BY <2>1, <2>2, ReaderWaits
  <1> QED
    BY <1>2, <1>3, <1>4 DEF LogInv

LEMMA ClearKeeps ==
  ASSUME LogInv, LogAssumption, Clear
  PROVE  LogInv'
  <1>1. entries' \in Seq(Entry) /\ Len(entries') = 0 /\ Elements(entries') = {}
    BY DEF Clear, Elements
  <1>2. LogTypeOK'
    BY <1>1 DEF LogInv, LogTypeOK, Clear, ReadAt, LogAssumption
  <1>3. Filed'
    BY DEF LogInv, Filed, Clear, Published, EntryOf
  <1>4. ASSUME NEW r \in Readers PROVE Pulled(r)'
    BY <1>1, ReaderWaits DEF Clear, LogInv, LogTypeOK
  <1> QED
    BY <1>2, <1>3, <1>4 DEF LogInv

----------------------------------------------------------------------------
(* The readers.                                                            *)

(* A step of one reader leaves the log and the other readers alone.        *)
LEMMA OthersWait ==
  ASSUME LogInv, NEW r \in Readers, NEW q \in Readers, q # r, NEW read,
         reads' = [reads EXCEPT ![r] = read],
         UNCHANGED <<epoch, seq, entries, published, writers>>
  PROVE  Pulled(q)'
  <1>1. /\ reads'[q] = reads[q] /\ epoch' = epoch /\ published' = published
        /\ seq' >= seq /\ seq' \in Nat
    BY DEF LogInv, LogTypeOK
  <1>2. \A e \in Elements(entries') : e \in Elements(entries) \/ (e \in Entry /\ e.seq > seq)
    BY DEF Elements
  <1> QED
    BY <1>1, <1>2, ReaderWaits

LEMMA ReaderTypes ==
  ASSUME LogInv, NEW r \in Readers, NEW read,
         reads' = [reads EXCEPT ![r] = read], read \in ReadAt(read.cursor),
         read.next <= Len(published),
         UNCHANGED <<epoch, seq, entries, published, writers>>
  PROVE  LogTypeOK' /\ Filed'
  <1>1. \A q \in Readers : reads'[q] = IF q = r THEN read ELSE reads[q]
    BY DEF LogInv, LogTypeOK
  <1>2. DOMAIN reads' = Readers
    BY DEF LogInv, LogTypeOK
  <1>3. \A q \in Readers : reads'[q] \in ReadAt(reads'[q].cursor) /\ reads'[q].next <= Len(published')
    BY <1>1 DEF LogInv, LogTypeOK
  <1>4. LogTypeOK'
    <2>1. ReadAt(0)' = ReadAt(0) /\ Elements(entries)' = Elements(entries)
          /\ Elements(published)' = Elements(published)
      BY DEF ReadAt, Elements, Entry
    <2> QED
      BY <1>2, <1>3, <2>1 DEF LogInv, LogTypeOK
  <1> QED
    BY <1>4 DEF LogInv, Filed, Published, EntryOf

LEMMA SubscribeKeeps ==
  ASSUME LogInv, NEW r \in Readers, NEW cursor, Subscribe(r, cursor)
  PROVE  LogInv'
  <1> DEFINE read == NewRead("subscribed", cursor, Len(published))
  <1>1. /\ read.phase = "subscribed" /\ read.taken = <<>> /\ read.next = Len(published)
        /\ Len(published) \in Nat /\ read.next <= Len(published)
        /\ read \in ReadAt(read.cursor)
    <2>1. Len(published) \in Nat
      BY DEF LogInv, LogTypeOK
    <2> QED
      BY <2>1 DEF ReadAt, NewRead
  <1>2. reads' = [reads EXCEPT ![r] = read] /\ reads'[r] = read
        /\ UNCHANGED <<epoch, seq, entries, published, writers>>
    BY DEF Subscribe, LogInv, LogTypeOK
  <1> HIDE DEF read
  <1>3. LogTypeOK' /\ Filed'
    BY <1>1, <1>2, ReaderTypes
  <1>4. Pulled(r)'
    BY <1>1, <1>2 DEF Pulled
  <1> QED
    BY <1>2, <1>3, <1>4, OthersWait DEF LogInv

LEMMA SnapshotKeeps ==
  ASSUME LogInv, NEW r \in Readers, Snapshot(r)
  PROVE  LogInv'
  <1> DEFINE read == [reads[r] EXCEPT !.phase = "streaming", !.highWater = seq,
                                      !.backlog = Missed(reads[r].cursor)]
  <1>1. /\ reads[r] \in ReadAt(reads[r].cursor) /\ reads[r].next <= Len(published)
        /\ reads[r].taken = <<>> /\ seq \in Nat
    BY DEF LogInv, LogTypeOK, Snapshot, Pulled
  <1>2. /\ Missed(reads[r].cursor) \subseteq Elements(entries)
        /\ Elements(entries) \subseteq Entry
    BY ElementsTyped DEF Missed, LogInv
  <1>3. /\ read.taken = <<>> /\ read.next = reads[r].next /\ read.highWater = seq
        /\ read.backlog = Missed(reads[r].cursor) /\ read.cursor = reads[r].cursor
        /\ read \in ReadAt(read.cursor)
    BY <1>1, <1>2 DEF ReadAt
  <1>4. reads' = [reads EXCEPT ![r] = read] /\ reads'[r] = read
        /\ UNCHANGED <<epoch, seq, entries, published, writers>>
    BY DEF Snapshot, LogInv, LogTypeOK
  <1> HIDE DEF read
  <1>5. LogTypeOK' /\ Filed'
    BY <1>1, <1>3, <1>4, ReaderTypes
  <1>6. /\ \A e \in Elements(entries) : e.seq <= seq
        /\ \A i \in DOMAIN published : published[i] \in Entry /\ published[i].seq <= seq
    BY ElementsTyped DEF LogInv, LogTypeOK, Elements
  <1>7. BacklogIsWhole(r)'
    BY <1>3, <1>4 DEF BacklogIsWhole, Missed, ResumeAfter, Elements
  <1>8. PublishedIsPulled(r)'
    BY <1>1, <1>3, <1>4, <1>6 DEF PublishedIsPulled, IsLive, Entry
  <1>9. Pulled(r)'
    BY <1>1, <1>2, <1>3, <1>4, <1>6, <1>7, <1>8 DEF Pulled
  <1> QED
    BY <1>4, <1>5, <1>9, OthersWait DEF LogInv

LEMMA CloseKeeps ==
  ASSUME LogInv, NEW r \in Readers, Close(r)
  PROVE  LogInv'
  <1>1. Closed \in ReadAt(Closed.cursor) /\ Closed.next <= Len(published)
        /\ Closed.phase = "closed" /\ Closed.taken = <<>>
    BY DEF ReadAt, Closed, NewRead, LogInv, LogTypeOK
  <1>2. reads' = [reads EXCEPT ![r] = Closed] /\ reads'[r] = Closed
        /\ UNCHANGED <<epoch, seq, entries, published, writers>>
    BY DEF Close, LogInv, LogTypeOK
  <1>3. LogTypeOK' /\ Filed'
    BY <1>1, <1>2, ReaderTypes
  <1>4. Pulled(r)'
    BY <1>1, <1>2 DEF Pulled
  <1> QED
    BY <1>2, <1>3, <1>4, OthersWait DEF LogInv

LEMMA TakeKeeps ==
  ASSUME LogInv, LogAssumption, NEW r \in Readers, Take(r)
  PROVE  LogInv'
  <1> USE DEF LogInv
  <1>1. PICK last \in OldestKept(r)..Len(published) :
          reads' = [reads EXCEPT ![r].taken = @ \o SubSeq(published, OldestKept(r), last),
                                 ![r].next = last]
    BY DEF Take
  <1> DEFINE first == OldestKept(r)
             taken == reads[r].taken
             more == taken \o Pull(r, last)
             read == [reads[r] EXCEPT !.taken = more, !.next = last]
  <1>2. /\ first \in Nat /\ first >= 1 /\ first > reads[r].next
        /\ more \in Seq(Entry) /\ Len(taken) \in Nat /\ DOMAIN taken = 1..Len(taken)
        /\ DOMAIN more = 1..(Len(taken) + (last - first + 1))
        /\ \A k \in 1..Len(taken) : more[k] = taken[k]
        /\ \A k \in (Len(taken) + 1)..(Len(taken) + (last - first + 1)) :
             more[k] = published[first + (k - Len(taken)) - 1]
    BY <1>1, TakeFacts
  <1>3. /\ reads[r] \in ReadAt(reads[r].cursor) /\ reads[r].next \in Nat
        /\ reads[r].next <= Len(published) /\ Len(published) \in Nat
        /\ DOMAIN published = 1..Len(published) /\ Capacity \in Nat \ {0}
        /\ reads[r].phase = "streaming"
        /\ last \in Nat /\ last >= first /\ last <= Len(published)
    <2>1. published \in Seq(Entry) /\ reads[r] \in ReadAt(reads[r].cursor)
          /\ reads[r].phase = "streaming" /\ reads[r].next <= Len(published)
      BY DEF LogTypeOK, Take
    <2>2. Len(published) \in Nat /\ DOMAIN published = 1..Len(published)
      BY <2>1
    <2>3. reads[r].next \in Nat /\ Capacity \in Nat \ {0}
      BY <2>1 DEF ReadAt, LogAssumption
    <2> QED
      BY <1>2, <2>1, <2>2, <2>3
  <1> HIDE DEF first, taken, more
  <1>4. /\ reads' = [reads EXCEPT ![r] = read] /\ reads'[r] = read
        /\ UNCHANGED <<epoch, seq, entries, published, writers>>
    BY <1>1 DEF Take, LogTypeOK, Pull, first, taken, more
  <1>5. /\ read.phase = "streaming" /\ read.cursor = reads[r].cursor /\ read.next = last
        /\ read.taken = more /\ read.highWater = reads[r].highWater
        /\ read.backlog = reads[r].backlog /\ read \in ReadAt(read.cursor)
    BY <1>2, <1>3 DEF ReadAt
  <1> HIDE DEF read
  <1>6. LogTypeOK' /\ Filed'
    BY <1>3, <1>4, <1>5, ReaderTypes
  <1>7. /\ Pulled(r) /\ BacklogIsWhole(r) /\ PublishedIsPulled(r)
        /\ \A k \in DOMAIN taken :
             \E i \in DOMAIN published : i <= reads[r].next /\ taken[k] = published[i]
        /\ \A k, l \in DOMAIN taken : taken[k] = taken[l] => k = l
    BY <1>3 DEF Pulled, taken
  <1>8. \A k \in DOMAIN more \ DOMAIN taken :
          LET i == first + (k - Len(taken)) - 1
          IN  i \in DOMAIN published /\ i <= last /\ i > reads[r].next /\ more[k] = published[i]
    <2> SUFFICES ASSUME NEW k \in DOMAIN more \ DOMAIN taken
                 PROVE  LET i == first + (k - Len(taken)) - 1
                        IN  /\ i \in DOMAIN published /\ i <= last /\ i > reads[r].next
                            /\ more[k] = published[i]
      OBVIOUS
    <2>1. k \in (Len(taken) + 1)..(Len(taken) + (last - first + 1))
      BY <1>2, <1>3
    <2>2. more[k] = published[first + (k - Len(taken)) - 1]
      BY <1>2, <2>1
    <2>3. /\ first + (k - Len(taken)) - 1 \in 1..Len(published)
          /\ first + (k - Len(taken)) - 1 <= last /\ first + (k - Len(taken)) - 1 > reads[r].next
      <3>1. \A f, h, n, x, m \in Nat :
              f > x /\ f >= 1 /\ h <= m
              => \A j \in (n + 1)..(n + (h - f + 1)) :
                    f + (j - n) - 1 \in 1..m /\ f + (j - n) - 1 <= h /\ f + (j - n) - 1 > x
        OBVIOUS
      <3>2. /\ first \in Nat /\ last \in Nat /\ Len(taken) \in Nat /\ reads[r].next \in Nat
            /\ Len(published) \in Nat /\ first > reads[r].next /\ first >= 1
            /\ last <= Len(published)
        BY <1>2, <1>3
      <3> QED
        BY <2>1, <3>1, <3>2
    <2> QED
      BY <1>3, <2>2, <2>3
  <1>9. \A k \in DOMAIN more : \E i \in DOMAIN published : i <= last /\ more[k] = published[i]
    <2>1. ASSUME NEW k \in DOMAIN taken
          PROVE  \E i \in DOMAIN published : i <= last /\ more[k] = published[i]
      <3>1. PICK i \in DOMAIN published : i <= reads[r].next /\ taken[k] = published[i]
        BY <1>7, <2>1
      <3> QED
        BY <1>2, <1>3, <2>1, <3>1
    <2> QED
      BY <1>8, <2>1
  <1>10. ASSUME NEW i \in DOMAIN published, NEW j \in DOMAIN published,
                published[i] = published[j]
         PROVE  i = j
    BY <1>10 DEF Filed
  <1>11. \A k, l \in DOMAIN more : more[k] = more[l] => k = l
    <2> SUFFICES ASSUME NEW k \in DOMAIN more, NEW l \in DOMAIN more, more[k] = more[l], k <= l
                 PROVE  k = l
      BY <1>2, <1>3
    <2>1. CASE l \in DOMAIN taken
      <3>1. k \in DOMAIN taken
        BY <1>2, <1>3, <2>1
      <3>2. taken[k] = taken[l]
        BY <1>2, <2>1, <3>1
      <3> QED
        BY <1>7, <2>1, <3>1, <3>2
    <2>2. CASE k \in DOMAIN taken /\ l \notin DOMAIN taken
      <3>1. PICK i \in DOMAIN published : i <= reads[r].next /\ taken[k] = published[i]
        BY <1>7, <2>2
      <3>2. PICK j \in DOMAIN published : j > reads[r].next /\ more[l] = published[j]
        BY <1>8, <2>2
      <3>3. published[i] = published[j]
        BY <1>2, <2>2, <3>1, <3>2
      <3> QED
        BY <1>3, <1>10, <3>1, <3>2, <3>3
    <2>3. CASE k \notin DOMAIN taken /\ l \notin DOMAIN taken
      <3>1. first + (k - Len(taken)) - 1 = first + (l - Len(taken)) - 1
        BY <1>8, <1>10, <2>3
      <3> QED
        BY <1>2, <1>3, <3>1
    <2> QED
      BY <2>1, <2>2, <2>3
  <1>12. Elements(taken) \subseteq Elements(more)
    BY <1>2, <1>3 DEF Elements
  <1>13. PublishedIsPulled(r)'
    <2> SUFFICES ASSUME NEW i \in DOMAIN published, published[i].seq > reads[r].highWater,
                        i + Capacity > Len(published)
                 PROVE  i > last \/ published[i] \in Elements(more)
      BY <1>4, <1>5 DEF PublishedIsPulled, IsLive
    <2>1. CASE i <= reads[r].next
      <3>1. published[i] \in Elements(taken)
        BY <1>3, <1>7, <2>1 DEF PublishedIsPulled, IsLive, taken
      <3> QED
        BY <1>12, <3>1
    <2>2. CASE i > reads[r].next /\ i <= last
      <3>1. i >= first
        BY <1>3, <2>2 DEF first, OldestKept
      <3> DEFINE k == Len(taken) + (i - first + 1)
      <3>2. k \in (Len(taken) + 1)..(Len(taken) + (last - first + 1))
            /\ first + (k - Len(taken)) - 1 = i
        BY <1>2, <1>3, <2>2, <3>1
      <3>3. k \in DOMAIN more /\ more[k] = published[i]
        <4> HIDE DEF k
        <4>1. more[k] = published[first + (k - Len(taken)) - 1]
          BY <1>2, <3>2
        <4>2. DOMAIN more = 1..(Len(taken) + (last - first + 1)) /\ Len(taken) \in Nat
          BY <1>2, <1>3
        <4>3. \A n \in Nat, m \in Int : (n + 1)..m \subseteq 1..m
          OBVIOUS
        <4>4. last - first + 1 \in Int
          BY <1>2, <1>3
        <4> QED
          BY <3>2, <4>1, <4>2, <4>3, <4>4
      <3> HIDE DEF k
      <3> QED
        BY <3>3 DEF Elements
    <2> QED
      BY <1>3, <2>1, <2>2
  <1>14. BacklogIsWhole(r)'
    BY <1>4, <1>5, <1>7 DEF BacklogIsWhole, ResumeAfter
  <1>15. Pulled(r)'
    BY <1>3, <1>4, <1>5, <1>7, <1>9, <1>11, <1>13, <1>14 DEF Pulled
  <1> QED
    BY <1>4, <1>6, <1>15, OthersWait

LEMMA RestartKeeps ==
  ASSUME LogInv, LogAssumption, Restart
  PROVE  LogInv'
  <1>1. /\ \A x \in Records : writers'[x] \in Writer /\ writers'[x].pc # "appended"
                                /\ writers'[x].seq = 0
        /\ writers' \in [Records -> Writer]
    BY DEF LogInv, LogTypeOK, Restart, Writer
  <1>2. Closed \in ReadAt(Closed.cursor) /\ Closed.next = 0
        /\ Closed.phase = "closed" /\ Closed.taken = <<>>
    BY DEF ReadAt, Closed, NewRead
  <1>3. DOMAIN published' = {} /\ Elements(entries') = {} /\ Elements(published') = {}
    BY DEF Restart, Elements
  <1>4. DOMAIN reads' = Readers /\ \A r \in Readers : reads'[r] = Closed
    BY DEF Restart
  <1>5. LogTypeOK'
    BY <1>1, <1>2, <1>3, <1>4 DEF LogInv, LogTypeOK, Restart, LogAssumption, ReadAt
  <1>6. Filed'
    BY <1>1, <1>3 DEF Filed
  <1>7. ASSUME NEW r \in Readers PROVE Pulled(r)'
    BY <1>2, <1>4 DEF Pulled
  <1> QED
    BY <1>5, <1>6, <1>7 DEF LogInv

----------------------------------------------------------------------------
LEMMA LogInitHolds == LogAssumption /\ LogInit => LogInv
  <1> SUFFICES ASSUME LogAssumption, LogInit PROVE LogInv
    OBVIOUS
  <1>1. Closed \in ReadAt(Closed.cursor) /\ Closed.next = 0
        /\ Closed.phase = "closed" /\ Closed.taken = <<>>
    BY DEF ReadAt, Closed, NewRead
  <1>2. DOMAIN published = {} /\ Elements(entries) = {} /\ Elements(published) = {}
    BY DEF LogInit, Elements
  <1>3. LogTypeOK
    BY <1>1, <1>2 DEF LogInit, LogTypeOK, LogAssumption, Writer
  <1>4. Filed
    BY <1>2 DEF LogInit, Filed
  <1>5. ASSUME NEW r \in Readers PROVE Pulled(r)
    BY <1>1 DEF LogInit, Pulled
  <1> QED
    BY <1>3, <1>4, <1>5 DEF LogInv

LEMMA LogNextKeeps == LogAssumption /\ LogInv /\ [LogNext]_logVars => LogInv'
  <1> SUFFICES ASSUME LogAssumption, LogInv, [LogNext]_logVars PROVE LogInv'
    OBVIOUS
  <1>1. CASE \E x \in Records : AppendRecord(x) \/ Publish(x) \/ Interrupt(x)
    BY <1>1, AppendRecordKeeps, PublishKeeps, InterruptKeeps
  <1>2. CASE Clear
    BY <1>2, ClearKeeps
  <1>3. CASE \E r \in Readers : (\E cursor : Subscribe(r, cursor))
                                \/ Snapshot(r) \/ Take(r) \/ Close(r)
    BY <1>3, SubscribeKeeps, SnapshotKeeps, TakeKeeps, CloseKeeps
  <1>4. CASE Restart
    BY <1>4, RestartKeeps
  <1>5. CASE UNCHANGED logVars
    BY <1>5 DEF logVars, LogInv, LogTypeOK, Filed, Pulled, BacklogIsWhole, PublishedIsPulled, IsLive,
                Published, EntryOf, ResumeAfter, Elements, ReadAt
  <1> QED
    BY <1>1, <1>2, <1>3, <1>4, <1>5 DEF LogNext

(* INV-QD-100 for any number of writers and readers, any capacity and any  *)
(* number of restarts: one read hands over exactly once every record whose *)
(* writer was not interrupted between append and publish.                  *)
THEOREM LogReadsAreExact == LogSpec => []ReadIsExact
  <1>1. LogInit => LogInv
    BY LogInitHolds, LogAssumption
  <1>2. LogInv /\ [LogNext]_logVars => LogInv'
    BY LogNextKeeps, LogAssumption
  <1>3. LogInv => ReadIsExact
    BY InvImpliesExact, LogAssumption
  <1> QED
    BY <1>1, <1>2, <1>3, PTL DEF LogSpec

----------------------------------------------------------------------------
(* The route and the panel change the log by its own operations only.      *)
THEOREM StreamImplementsLog == Spec => LogSpec
  <1>1. Init => LogInit
    BY DEF Init
  <1>2. [Next]_vars => [LogNext]_logVars
    BY DEF Next, LogStep, Connect, Drop, ServerRestarts, Deliver, SyncTimesOut, LogNext,
           vars, logVars
  <1> QED
    BY <1>1, <1>2, PTL DEF Spec, LogSpec

(* So the read behind each connection of the stream is exact too.          *)
THEOREM StreamReadsAreExact == Spec => []ReadIsExact
  BY StreamImplementsLog, LogReadsAreExact, PTL

(* And the log never holds more than its capacity, whoever reads it.       *)
THEOREM LogTypesHold == Spec => []LogTypeOK
  <1>1. LogInit => LogInv
    BY LogInitHolds, LogAssumption
  <1>2. LogInv /\ [LogNext]_logVars => LogInv'
    BY LogNextKeeps, LogAssumption
  <1>3. LogInv => LogTypeOK
    BY DEF LogInv
  <1> QED
    BY <1>1, <1>2, <1>3, StreamImplementsLog, PTL DEF LogSpec

----------------------------------------------------------------------------
(* The dock.                                                               *)

(* The least of some numbers.                                              *)
LEMMA LeastOfNumbers ==
  ASSUME NEW S \in SUBSET Nat, S # {}
  PROVE  Min(S) \in S /\ \A y \in S : Min(S) <= y
<1>1. PICK m \in S : \A k \in S : <<k, m>> \notin OpToRel(<, Nat)
  BY WFMin, NatLessThanWellFounded, Zenon
<1>2. \A k \in S : ~(k < m)
  BY <1>1, Zenon DEF OpToRel
<1>3. \A y \in S : m <= y
  BY <1>2
<1> QED BY <1>3 DEF Min

LEMMA GreatestOfNumbers ==
  ASSUME NEW n \in Nat, NEW S \in SUBSET (1 .. n), S # {}
  PROVE  Max(S) \in S /\ \A y \in S : Max(S) >= y
<1> DEFINE T == {n - x : x \in S}
<1>1. T \subseteq Nat /\ T # {}
  <2>1. PICK x \in S : TRUE
    OBVIOUS
  <2>2. n - x \in T
    OBVIOUS
  <2> QED BY <2>2
<1>2. Min(T) \in T /\ \A y \in T : Min(T) <= y
  BY <1>1, LeastOfNumbers
<1>3. PICK x \in S : Min(T) = n - x
  BY <1>2
<1>4. \A y \in S : x >= y
  <2> SUFFICES ASSUME NEW y \in S PROVE x >= y
    OBVIOUS
  <2>1. n - y \in T
    OBVIOUS
  <2> HIDE DEF T
  <2>2. n - x <= n - y
    BY <1>2, <1>3, <2>1
  <2> QED BY <2>2
<1> QED BY <1>4 DEF Max

(* A sequence with one element more, or one less.                          *)
LEMMA Inserted ==
  ASSUME NEW T, NEW s \in Seq(T), NEW i \in 1 .. Len(s) + 1, NEW e \in T
  PROVE  /\ InsertAt(s, i, e) \in Seq(T)
         /\ Len(InsertAt(s, i, e)) = Len(s) + 1
         /\ \A j \in 1 .. Len(s) + 1 : InsertAt(s, i, e)[j] =
                IF j < i THEN s[j] ELSE IF j = i THEN e ELSE s[j - 1]
<1> DEFINE a == SubSeq(s, 1, i - 1)
           b == SubSeq(s, i, Len(s))
           c == a \o <<e>>
<1>1. a \in Seq(T) /\ Len(a) = i - 1 /\ \A j \in 1 .. i - 1 : a[j] = s[j]
  <2>1. \A j \in 1 .. i - 1 : s[j] \in T
    OBVIOUS
  <2> QED BY <2>1, SubSeqProperties
<1>2. b \in Seq(T) /\ Len(b) = Len(s) - i + 1 /\ \A j \in 1 .. Len(s) - i + 1 : b[j] = s[i + j - 1]
  <2>1. \A j \in i .. Len(s) : s[j] \in T
    OBVIOUS
  <2> QED BY <2>1, SubSeqProperties
<1> HIDE DEF a, b
<1>3. <<e>> \in Seq(T) /\ Len(<<e>>) = 1 /\ <<e>>[1] = e
  OBVIOUS
<1>4. c \in Seq(T) /\ Len(c) = i /\ \A j \in 1 .. i : c[j] = IF j <= i - 1 THEN a[j] ELSE <<e>>[j - (i - 1)]
  BY <1>1, <1>3, ConcatProperties
<1>5. c \in Seq(T) /\ Len(c) = i /\ \A j \in 1 .. i : c[j] = IF j < i THEN s[j] ELSE e
  BY <1>1, <1>3, <1>4
<1> HIDE DEF c
<1>6. /\ c \o b \in Seq(T) /\ Len(c \o b) = Len(s) + 1
      /\ \A j \in 1 .. Len(s) + 1 : (c \o b)[j] = IF j <= i THEN c[j] ELSE b[j - i]
  BY <1>2, <1>5, ConcatProperties
<1>7. InsertAt(s, i, e) = c \o b
  BY DEF InsertAt, a, b, c
<1> QED BY <1>2, <1>5, <1>6, <1>7

LEMMA Removed ==
  ASSUME NEW T, NEW s \in Seq(T), NEW i \in 1 .. Len(s)
  PROVE  /\ RemoveAt(s, i) \in Seq(T)
         /\ Len(RemoveAt(s, i)) = Len(s) - 1
         /\ \A j \in 1 .. Len(s) - 1 : RemoveAt(s, i)[j] = IF j < i THEN s[j] ELSE s[j + 1]
<1> DEFINE a == SubSeq(s, 1, i - 1)
           b == SubSeq(s, i + 1, Len(s))
<1>1. a \in Seq(T) /\ Len(a) = i - 1 /\ \A j \in 1 .. i - 1 : a[j] = s[j]
  <2>1. \A j \in 1 .. i - 1 : s[j] \in T
    OBVIOUS
  <2> QED BY <2>1, SubSeqProperties
<1>2. b \in Seq(T) /\ Len(b) = Len(s) - i /\ \A j \in 1 .. Len(s) - i : b[j] = s[i + j]
  <2>1. \A j \in i + 1 .. Len(s) : s[j] \in T
    OBVIOUS
  <2> QED BY <2>1, SubSeqProperties
<1> HIDE DEF a, b
<1>3. /\ a \o b \in Seq(T) /\ Len(a \o b) = Len(a) + Len(b)
      /\ \A j \in 1 .. Len(a) + Len(b) : (a \o b)[j] = IF j <= Len(a) THEN a[j] ELSE b[j - Len(a)]
  BY <1>1, <1>2, ConcatProperties
<1>4. Len(a) + Len(b) = Len(s) - 1
  BY <1>1, <1>2
<1>5. \A j \in 1 .. Len(s) - 1 : (a \o b)[j] = IF j < i THEN s[j] ELSE s[j + 1]
  <2> SUFFICES ASSUME NEW j \in 1 .. Len(s) - 1
               PROVE  (a \o b)[j] = IF j < i THEN s[j] ELSE s[j + 1]
    OBVIOUS
  <2>1. (a \o b)[j] = IF j <= i - 1 THEN a[j] ELSE b[j - (i - 1)]
    BY <1>1, <1>3, <1>4
  <2>2. CASE j < i
    BY <1>1, <2>1, <2>2
  <2>3. CASE ~(j < i)
    <3>1. j - (i - 1) \in 1 .. Len(s) - i /\ i + (j - (i - 1)) = j + 1
      BY <2>3
    <3>2. b[j - (i - 1)] = s[j + 1]
      BY <1>2, <3>1
    <3> QED BY <2>1, <2>3, <3>2
  <2> QED BY <2>2, <2>3
<1>6. RemoveAt(s, i) = a \o b
  BY DEF RemoveAt, a, b
<1> QED BY <1>3, <1>4, <1>5, <1>6

----------------------------------------------------------------------------
InOrderOfTime(rows) == \A i, j \in DOMAIN rows : i < j => rows[i].at <= rows[j].at
EachOnce(rows) == \A i, j \in DOMAIN rows : rows[i] = rows[j] => i = j

(* Before the first later row, a row is in its place.                      *)
LEMMA InsertPlaces ==
  ASSUME NEW T, \A e \in T : e.at \in Nat, NEW rows \in Seq(T), NEW row \in T,
         InOrderOfTime(rows)
  PROVE  /\ Insert(rows, row) \in Seq(T)
         /\ Len(Insert(rows, row)) = Len(rows) + 1
         /\ InOrderOfTime(Insert(rows, row))
         /\ ToSet(Insert(rows, row)) = ToSet(rows) \cup {row}
         /\ EachOnce(rows) /\ row \notin ToSet(rows) => EachOnce(Insert(rows, row))
<1> DEFINE I == {i \in 1 .. Len(rows) : rows[i].at > row.at}
           k == IF I = {} THEN Len(rows) + 1 ELSE Min(I)
           t == InsertAt(rows, k, row)
<1>1. I # {} => Min(I) \in I /\ \A y \in I : Min(I) <= y
  <2>1. I \in SUBSET Nat
    OBVIOUS
  <2> HIDE DEF I
  <2> QED BY <2>1, LeastOfNumbers
<1>2. /\ k \in 1 .. Len(rows) + 1
      /\ \A j \in 1 .. Len(rows) : IF j < k THEN rows[j].at <= row.at ELSE rows[j].at > row.at
  <2>1. CASE I = {}
    <3>1. \A j \in 1 .. Len(rows) : rows[j].at \in Nat /\ ~(rows[j].at > row.at)
      BY <2>1
    <3> QED BY <2>1, <3>1
  <2>2. CASE I # {}
    <3>1. k = Min(I) /\ k \in 1 .. Len(rows) /\ rows[k].at > row.at
      BY <1>1, <2>2
    <3>2. \A j \in 1 .. Len(rows) : j < k => ~(rows[j].at > row.at)
      <4> SUFFICES ASSUME NEW j \in 1 .. Len(rows), j < k, rows[j].at > row.at PROVE FALSE
        OBVIOUS
      <4>1. j \in I
        OBVIOUS
      <4> HIDE DEF I
      <4>2. k <= j
        BY <1>1, <2>2, <4>1
      <4> HIDE DEF k
      <4> QED BY <3>1, <4>2
    <3>3. \A j \in 1 .. Len(rows) : rows[j].at \in Nat
      OBVIOUS
    <3> HIDE DEF k
    <3>4. \A j \in 1 .. Len(rows) : j > k => rows[j].at >= rows[k].at
      BY <3>1 DEF InOrderOfTime
    <3>5. row.at \in Nat
      OBVIOUS
    <3> HIDE DEF I
    <3>6. k \in 1 .. Len(rows) + 1
      BY <3>1
    <3>7. ASSUME NEW j \in 1 .. Len(rows)
          PROVE  IF j < k THEN rows[j].at <= row.at ELSE rows[j].at > row.at
      <4>1. CASE j < k
        BY <3>2, <3>3, <3>5, <4>1
      <4>2. CASE ~(j < k)
        <5>1. j = k \/ j > k
          BY <3>6, <4>2
        <5>2. rows[j].at >= rows[k].at /\ rows[k].at > row.at
          BY <3>1, <3>3, <3>4, <5>1
        <5> QED BY <3>1, <3>3, <3>5, <4>2, <5>2
      <4> QED BY <4>1, <4>2
    <3> QED BY <3>6, <3>7
  <2> QED BY <2>1, <2>2
<1>3. Insert(rows, row) = t
  <2>1. SelectInSeq(rows, LAMBDA e : e.at > row.at) = IF I # {} THEN Min(I) ELSE 0
    BY DEF SelectInSeq
  <2>2. I # {} => Min(I) # 0
    <3>1. I # {} => Min(I) \in I
      BY <1>1
    <3> QED BY <3>1
  <2> HIDE DEF I
  <2> QED BY <2>1, <2>2 DEF Insert
<1> HIDE DEF k, I
<1>4. /\ t \in Seq(T) /\ Len(t) = Len(rows) + 1
      /\ \A j \in 1 .. Len(rows) + 1 : t[j] = IF j < k THEN rows[j] ELSE IF j = k THEN row ELSE rows[j - 1]
  BY <1>2, Inserted
<1> HIDE DEF t
<1>5. DOMAIN t = 1 .. Len(rows) + 1 /\ DOMAIN rows = 1 .. Len(rows) /\ Len(rows) \in Nat
  BY <1>4
<1>6. InOrderOfTime(t)
  <2> SUFFICES ASSUME NEW i \in 1 .. Len(rows) + 1, NEW j \in 1 .. Len(rows) + 1, i < j
               PROVE  t[i].at <= t[j].at
    BY <1>5 DEF InOrderOfTime
  <2>1. row.at \in Nat /\ \A n \in 1 .. Len(rows) : rows[n].at \in Nat
    OBVIOUS
  <2>2. CASE j < k
    <3>1. t[i] = rows[i] /\ t[j] = rows[j] /\ i \in 1 .. Len(rows) /\ j \in 1 .. Len(rows)
      BY <1>2, <1>4, <1>5, <2>2
    <3> QED BY <1>5, <3>1 DEF InOrderOfTime
  <2>3. CASE j = k
    <3>1. t[i] = rows[i] /\ t[j] = row /\ i \in 1 .. Len(rows) /\ i < k
      BY <1>2, <1>4, <1>5, <2>3
    <3> QED BY <1>2, <3>1
  <2>4. CASE j > k /\ i < k
    <3>1. t[i] = rows[i] /\ t[j] = rows[j - 1] /\ i \in 1 .. Len(rows) /\ j - 1 \in 1 .. Len(rows)
      BY <1>2, <1>4, <1>5, <2>4
    <3>2. rows[i].at <= row.at /\ rows[j - 1].at > row.at
      BY <1>2, <1>5, <2>4, <3>1
    <3> QED BY <2>1, <3>1, <3>2
  <2>5. CASE j > k /\ i = k
    <3>1. t[i] = row /\ t[j] = rows[j - 1] /\ j - 1 \in 1 .. Len(rows)
      BY <1>2, <1>4, <1>5, <2>5
    <3>2. rows[j - 1].at > row.at
      BY <1>2, <1>5, <2>5, <3>1
    <3> QED BY <2>1, <3>1, <3>2
  <2>6. CASE j > k /\ i > k
    <3>1. t[i] = rows[i - 1] /\ t[j] = rows[j - 1]
      BY <1>2, <1>4, <1>5, <2>6
    <3>2. i - 1 \in 1 .. Len(rows) /\ j - 1 \in 1 .. Len(rows) /\ i - 1 < j - 1
      BY <1>2, <1>5, <2>6
    <3> QED BY <1>5, <3>1, <3>2 DEF InOrderOfTime
  <2> QED BY <1>2, <2>2, <2>3, <2>4, <2>5, <2>6
<1>7. ToSet(t) = ToSet(rows) \cup {row}
  <2>1. \A j \in 1 .. Len(rows) : \E n \in 1 .. Len(rows) + 1 : t[n] = rows[j]
    <3> SUFFICES ASSUME NEW j \in 1 .. Len(rows) PROVE \E n \in 1 .. Len(rows) + 1 : t[n] = rows[j]
      OBVIOUS
    <3>1. CASE j < k
      BY <1>4, <1>5, <3>1
    <3>2. CASE j >= k
      <4>1. j + 1 \in 1 .. Len(rows) + 1 /\ t[j + 1] = rows[j]
        BY <1>2, <1>4, <1>5, <3>2
      <4> QED BY <4>1
    <3> QED BY <1>2, <3>1, <3>2
  <2>2. t[k] = row
    BY <1>2, <1>4
  <2>3. \A n \in 1 .. Len(rows) + 1 : t[n] = row \/ \E j \in 1 .. Len(rows) : t[n] = rows[j]
    <3> SUFFICES ASSUME NEW n \in 1 .. Len(rows) + 1
                 PROVE  t[n] = row \/ \E j \in 1 .. Len(rows) : t[n] = rows[j]
      OBVIOUS
    <3>1. CASE n < k
      BY <1>2, <1>4, <1>5, <3>1
    <3>2. CASE n > k
      <4>1. n - 1 \in 1 .. Len(rows) /\ t[n] = rows[n - 1]
        BY <1>2, <1>4, <1>5, <3>2
      <4> QED BY <4>1
    <3> QED BY <1>2, <2>2, <3>1, <3>2
  <2>4. k \in DOMAIN t
    BY <1>2, <1>5
  <2>5. ToSet(t) = {t[n] : n \in 1 .. Len(rows) + 1} /\ ToSet(rows) = {rows[j] : j \in 1 .. Len(rows)}
    BY <1>5 DEF ToSet
  <2>6. ToSet(t) \subseteq ToSet(rows) \cup {row}
    BY <2>3, <2>5
  <2>7. ToSet(rows) \cup {row} \subseteq ToSet(t)
    <3>1. row \in ToSet(t)
      BY <1>5, <2>2, <2>4, <2>5
    <3>2. ToSet(rows) \subseteq ToSet(t)
      BY <2>1, <2>5
    <3> QED BY <3>1, <3>2
  <2> QED BY <2>6, <2>7
<1>8. EachOnce(rows) /\ row \notin ToSet(rows) => EachOnce(t)
  <2> SUFFICES ASSUME EachOnce(rows), row \notin ToSet(rows),
                      NEW i \in 1 .. Len(rows) + 1, NEW j \in 1 .. Len(rows) + 1, i < j, t[i] = t[j]
               PROVE  FALSE
    BY <1>5 DEF EachOnce
  <2>1. \A n \in 1 .. Len(rows) : rows[n] # row
    BY <1>5 DEF ToSet
  <2>2. \A m, n \in 1 .. Len(rows) : rows[m] = rows[n] => m = n
    BY <1>5 DEF EachOnce
  <2>3. CASE j < k
    BY <1>2, <1>4, <1>5, <2>2, <2>3
  <2>4. CASE j = k
    BY <1>2, <1>4, <1>5, <2>1, <2>4
  <2>5. CASE j > k
    <3>1. j - 1 \in 1 .. Len(rows) /\ t[j] = rows[j - 1]
      BY <1>2, <1>4, <1>5, <2>5
    <3>2. CASE i < k
      <4>1. i \in 1 .. Len(rows) /\ t[i] = rows[i] /\ i # j - 1
        BY <1>2, <1>4, <1>5, <2>5, <3>2
      <4> QED BY <2>2, <3>1, <4>1
    <3>3. CASE i = k
      BY <1>4, <2>1, <3>1, <3>3
    <3>4. CASE i > k
      <4>1. i - 1 \in 1 .. Len(rows) /\ t[i] = rows[i - 1] /\ i - 1 # j - 1
        BY <1>2, <1>4, <1>5, <2>5, <3>4
      <4> QED BY <2>2, <3>1, <4>1
    <3> QED BY <1>2, <3>2, <3>3, <3>4
  <2> QED BY <1>2, <2>3, <2>4, <2>5
<1> QED BY <1>3, <1>4, <1>6, <1>7, <1>8

----------------------------------------------------------------------------
(* The records one may ingest, and the rows they make.                     *)
Ingestible(R) ==
    /\ IsFiniteSet(R)
    /\ \A x \in R : x.tag \in {"Decision", "Obligations"} /\ x.at \in Nat
    /\ \A x, y \in R : x.tag = y.tag /\ SameEvaluation(x, y) => x = y

Rows(R) == [tag : {"Decision", "Orphan"}, evaluation : {x.evaluation : x \in R},
            environment : {x.environment : x \in R}, at : Nat, obligations : SUBSET R]

Outcomes(S, d) == {y \in S : y.tag = "Obligations" /\ SameEvaluation(d, y)}
Waits(S, o) == \A y \in S : y.tag = "Decision" => ~SameEvaluation(o, y)

LEMMA RowFields ==
  ASSUME NEW tag, NEW x, NEW o
  PROVE  /\ Row(tag, x, o).tag = tag /\ Row(tag, x, o).at = x.at
         /\ Row(tag, x, o).evaluation = x.evaluation /\ Row(tag, x, o).environment = x.environment
         /\ Row(tag, x, o).obligations = o
         /\ \A p : [Row(tag, x, o) EXCEPT !.obligations = p] = Row(tag, x, p)
BY DEF Row

(* A row as a row of its record: the membership both ways.                 *)
LEMMA RowsMade ==
  ASSUME NEW S, NEW r
  PROVE  r \in RowsOf(S) <=>
            \/ \E d \in S : d.tag = "Decision" /\ r = Row("Decision", d, Outcomes(S, d))
            \/ \E o \in S : o.tag = "Obligations" /\ Waits(S, o) /\ r = Row("Orphan", o, {o})
<1> DEFINE Of(tag) == {x \in S : x.tag = tag}
           Partners(x, tag) == {y \in Of(tag) : SameEvaluation(x, y)}
<1>1. \A d : Partners(d, "Obligations") = Outcomes(S, d)
  BY DEF Outcomes
<1>2. \A o : Partners(o, "Decision") = {} <=> Waits(S, o)
  BY DEF Waits
<1>3. RowsOf(S) = {Row("Decision", d, Partners(d, "Obligations")) : d \in Of("Decision")}
                  \cup {Row("Orphan", o, {o}) :
                          o \in {o \in Of("Obligations") : Partners(o, "Decision") = {}}}
  BY DEF RowsOf
<1> HIDE DEF Partners
<1> QED BY <1>1, <1>2, <1>3

(* Which record a row is of, and what is known of it by that.              *)
Makes(S, x, r) ==
    /\ x.at = r.at /\ x.evaluation = r.evaluation /\ x.environment = r.environment
    /\ \A z : SameEvaluation(r, z) <=> SameEvaluation(x, z)
    /\ \/ /\ x.tag = "Decision" /\ r.tag = "Decision" /\ r = Row("Decision", x, Outcomes(S, x))
       \/ /\ x.tag = "Obligations" /\ r.tag = "Orphan" /\ Waits(S, x)
          /\ r = Row("Orphan", x, {x})

LEMMA RowCases ==
  ASSUME NEW S, NEW r \in RowsOf(S)
  PROVE  \E x \in S : Makes(S, x, r)
<1>1. CASE \E d \in S : d.tag = "Decision" /\ r = Row("Decision", d, Outcomes(S, d))
  <2>1. PICK d \in S : d.tag = "Decision" /\ r = Row("Decision", d, Outcomes(S, d))
    BY <1>1
  <2>2. r.at = d.at /\ r.evaluation = d.evaluation /\ r.environment = d.environment /\ r.tag = "Decision"
    BY <2>1, RowFields
  <2> QED BY <2>1, <2>2 DEF SameEvaluation, Makes
<1>2. CASE \E o \in S : o.tag = "Obligations" /\ Waits(S, o) /\ r = Row("Orphan", o, {o})
  <2>1. PICK o \in S : o.tag = "Obligations" /\ Waits(S, o) /\ r = Row("Orphan", o, {o})
    BY <1>2
  <2>2. r.at = o.at /\ r.evaluation = o.evaluation /\ r.environment = o.environment /\ r.tag = "Orphan"
    BY <2>1, RowFields
  <2> QED BY <2>1, <2>2 DEF SameEvaluation, Makes
<1>3. \/ \E d \in S : d.tag = "Decision" /\ r = Row("Decision", d, Outcomes(S, d))
      \/ \E o \in S : o.tag = "Obligations" /\ Waits(S, o) /\ r = Row("Orphan", o, {o})
  BY RowsMade
<1> QED BY <1>1, <1>2, <1>3

LEMMA DecisionRow ==
  ASSUME NEW S, NEW d \in S, d.tag = "Decision"
  PROVE  Row("Decision", d, Outcomes(S, d)) \in RowsOf(S)
BY RowsMade

LEMMA WaitingRow ==
  ASSUME NEW S, NEW o \in S, o.tag = "Obligations", Waits(S, o)
  PROVE  Row("Orphan", o, {o}) \in RowsOf(S)
BY RowsMade

(* Records of a set have one row to an evaluation.                         *)
LEMMA RowsKeyed ==
  ASSUME NEW R, Ingestible(R), NEW S \in SUBSET R, NEW a \in RowsOf(S), NEW b \in RowsOf(S),
         SameEvaluation(a, b)
  PROVE  a = b
<1>01. PICK x \in S : Makes(S, x, a)
  BY RowCases
<1>1. /\ \A z : SameEvaluation(a, z) <=> SameEvaluation(x, z)
      /\ \/ x.tag = "Decision" /\ a = Row("Decision", x, Outcomes(S, x))
         \/ x.tag = "Obligations" /\ Waits(S, x) /\ a = Row("Orphan", x, {x})
  BY <1>01 DEF Makes
<1>02. PICK y \in S : Makes(S, y, b)
  BY RowCases
<1>2. /\ \A z : SameEvaluation(b, z) <=> SameEvaluation(y, z)
      /\ \/ y.tag = "Decision" /\ b = Row("Decision", y, Outcomes(S, y))
         \/ y.tag = "Obligations" /\ Waits(S, y) /\ b = Row("Orphan", y, {y})
  BY <1>02 DEF Makes
<1>3. \A u, v : SameEvaluation(u, v) <=> SameEvaluation(v, u)
  BY DEF SameEvaluation
<1>4. SameEvaluation(x, y) /\ SameEvaluation(y, x)
  BY <1>1, <1>2, <1>3
<1>5. x.tag = y.tag
  BY <1>1, <1>2, <1>4 DEF Waits
<1>6. x = y
  BY <1>4, <1>5 DEF Ingestible
<1> QED BY <1>1, <1>2, <1>5, <1>6

LEMMA RowsTyped ==
  ASSUME NEW R, Ingestible(R), NEW S \in SUBSET R
  PROVE  RowsOf(S) \subseteq Rows(R)
<1> SUFFICES ASSUME NEW r \in RowsOf(S) PROVE r \in Rows(R)
  OBVIOUS
<1>01. PICK x \in S : Makes(S, x, r)
  BY RowCases
<1>1. \/ r = Row("Decision", x, Outcomes(S, x))
      \/ r = Row("Orphan", x, {x})
  BY <1>01 DEF Makes
<1>2. x \in R /\ x.at \in Nat /\ Outcomes(S, x) \in SUBSET R /\ {x} \in SUBSET R
  BY DEF Ingestible, Outcomes
<1> QED BY <1>1, <1>2 DEF Row, Rows

(* A decision takes the place of the outcome that waited for it.           *)
LEMMA DecisionAdds ==
  ASSUME NEW R, Ingestible(R), NEW S \in SUBSET R, NEW x \in R, x \notin S, x.tag = "Decision"
  PROVE  /\ RowsOf(S \cup {x}) =
              {r \in RowsOf(S) : ~(r.tag = "Orphan" /\ SameEvaluation(r, x))}
              \cup {Row("Decision", x, Outcomes(S, x))}
         /\ \A r \in RowsOf(S) : r.tag = "Orphan" /\ SameEvaluation(r, x) =>
                r.obligations = Outcomes(S, x)
         /\ (\A r \in RowsOf(S) : ~(r.tag = "Orphan" /\ SameEvaluation(r, x))) => Outcomes(S, x) = {}
         /\ \A r \in RowsOf(S) : r.tag = "Decision" => ~SameEvaluation(r, x)
<1> DEFINE N == S \cup {x}
<1>1. \A d : Outcomes(N, d) = Outcomes(S, d)
  BY DEF Outcomes
<1>2. \A d \in S : d.tag = "Decision" => ~SameEvaluation(d, x) /\ ~SameEvaluation(x, d)
  BY DEF Ingestible
<1>3. \A o \in S : Waits(N, o) <=> Waits(S, o) /\ ~SameEvaluation(o, x)
  BY DEF Waits
<1>4. \A y, z : SameEvaluation(y, z) <=> SameEvaluation(z, y)
  BY DEF SameEvaluation
<1>5. \A tag, y, o, z : SameEvaluation(Row(tag, y, o), z) <=> SameEvaluation(y, z)
  BY RowFields DEF SameEvaluation
<1>6. \A o \in S : o.tag = "Obligations" /\ SameEvaluation(x, o) => Waits(S, o) /\ Outcomes(S, x) = {o}
  <2> SUFFICES ASSUME NEW o \in S, o.tag = "Obligations", SameEvaluation(x, o)
               PROVE  Waits(S, o) /\ Outcomes(S, x) = {o}
    OBVIOUS
  <2>1. Waits(S, o)
    <3> SUFFICES ASSUME NEW y \in S, y.tag = "Decision", SameEvaluation(o, y) PROVE FALSE
      BY DEF Waits
    <3>1. SameEvaluation(x, y)
      BY DEF SameEvaluation
    <3> QED BY <1>2, <3>1
  <2>2. \A y \in S : y.tag = "Obligations" /\ SameEvaluation(x, y) => y = o
    <3> SUFFICES ASSUME NEW y \in S, y.tag = "Obligations", SameEvaluation(x, y) PROVE y = o
      OBVIOUS
    <3>1. SameEvaluation(y, o)
      BY DEF SameEvaluation
    <3> QED BY <3>1 DEF Ingestible
  <2> QED BY <2>1, <2>2 DEF Outcomes
<1>7. \A r \in RowsOf(S) : r.tag = "Decision" => ~SameEvaluation(r, x)
  <2> SUFFICES ASSUME NEW r \in RowsOf(S), r.tag = "Decision", SameEvaluation(r, x) PROVE FALSE
    OBVIOUS
  <2>01. PICK d \in S : Makes(S, d, r)
    BY RowCases
  <2>1. d.tag = "Decision" /\ SameEvaluation(d, x)
    BY <2>01 DEF Makes
  <2> QED BY <1>2, <2>1
<1>8. \A r \in RowsOf(S) : r.tag = "Orphan" /\ SameEvaluation(r, x) => r.obligations = Outcomes(S, x)
  <2> SUFFICES ASSUME NEW r \in RowsOf(S), r.tag = "Orphan", SameEvaluation(r, x)
               PROVE  r.obligations = Outcomes(S, x)
    OBVIOUS
  <2>01. PICK o \in S : Makes(S, o, r)
    BY RowCases
  <2>1. o.tag = "Obligations" /\ SameEvaluation(o, x) /\ r = Row("Orphan", o, {o})
    BY <2>01 DEF Makes
  <2>2. r.obligations = {o}
    BY <2>1, RowFields
  <2> QED BY <1>4, <1>6, <2>1, <2>2
<1>9. (\A r \in RowsOf(S) : ~(r.tag = "Orphan" /\ SameEvaluation(r, x))) => Outcomes(S, x) = {}
  <2> SUFFICES ASSUME NEW o \in Outcomes(S, x)
               PROVE  \E r \in RowsOf(S) : r.tag = "Orphan" /\ SameEvaluation(r, x)
    OBVIOUS
  <2>1. o \in S /\ o.tag = "Obligations" /\ SameEvaluation(x, o)
    BY DEF Outcomes
  <2>2. Row("Orphan", o, {o}) \in RowsOf(S)
    BY <1>6, <2>1, WaitingRow
  <2> QED BY <1>4, <1>5, <2>1, <2>2, RowFields
<1>10. ASSUME NEW r \in RowsOf(N)
       PROVE  \/ r = Row("Decision", x, Outcomes(S, x))
              \/ r \in RowsOf(S) /\ ~(r.tag = "Orphan" /\ SameEvaluation(r, x))
  <2>01. PICK y \in N : Makes(N, y, r)
    BY <1>10, RowCases
  <2>1. /\ \A z : SameEvaluation(r, z) <=> SameEvaluation(y, z)
        /\ \/ /\ y.tag = "Decision" /\ r.tag = "Decision" /\ r = Row("Decision", y, Outcomes(N, y))
           \/ /\ y.tag = "Obligations" /\ Waits(N, y) /\ r = Row("Orphan", y, {y})
    BY <2>01 DEF Makes
  <2>2. CASE y.tag = "Decision" /\ y # x
    BY <1>1, <2>1, <2>2, DecisionRow
  <2>3. CASE y.tag = "Obligations"
    <3>1. y \in S /\ Waits(S, y) /\ ~SameEvaluation(y, x)
      BY <1>3, <2>1, <2>3
    <3>2. r = Row("Orphan", y, {y})
      BY <2>1, <2>3
    <3>3. r \in RowsOf(S)
      BY <2>3, <3>1, <3>2, WaitingRow
    <3> QED BY <2>1, <3>1, <3>3
  <2> QED BY <1>1, <2>1, <2>2, <2>3
<1>11. ASSUME NEW r \in RowsOf(S), ~(r.tag = "Orphan" /\ SameEvaluation(r, x)) PROVE r \in RowsOf(N)
  <2>01. PICK y \in S : Makes(S, y, r)
    BY RowCases
  <2>1. /\ \A z : SameEvaluation(r, z) <=> SameEvaluation(y, z)
        /\ \/ /\ y.tag = "Decision" /\ r = Row("Decision", y, Outcomes(S, y))
           \/ /\ y.tag = "Obligations" /\ r.tag = "Orphan" /\ Waits(S, y)
              /\ r = Row("Orphan", y, {y})
    BY <2>01 DEF Makes
  <2>2. CASE y.tag = "Decision"
    <3>1. y \in N /\ r = Row("Decision", y, Outcomes(N, y))
      BY <1>1, <2>1, <2>2
    <3> QED BY <2>2, <3>1, DecisionRow
  <2>3. CASE y.tag = "Obligations"
    <3>1. y \in N /\ Waits(N, y) /\ r = Row("Orphan", y, {y})
      BY <1>3, <1>11, <2>1, <2>3
    <3> QED BY <2>3, <3>1, WaitingRow
  <2> QED BY <2>1, <2>2, <2>3
<1>12. Row("Decision", x, Outcomes(S, x)) \in RowsOf(N)
  <2>1. x \in N /\ Outcomes(N, x) = Outcomes(S, x)
    BY <1>1
  <2> QED BY <2>1, DecisionRow
<1>13. RowsOf(N) = {r \in RowsOf(S) : ~(r.tag = "Orphan" /\ SameEvaluation(r, x))}
                   \cup {Row("Decision", x, Outcomes(S, x))}
  BY <1>10, <1>11, <1>12
<1> QED BY <1>7, <1>8, <1>9, <1>13

(* An outcome is joined to the decision of its evaluation, or waits.       *)
LEMMA OnlyOutcome ==
  ASSUME NEW R, Ingestible(R), NEW S \in SUBSET R, NEW x \in R, x \notin S, x.tag = "Obligations",
         NEW r \in RowsOf(S), r.tag = "Orphan"
  PROVE  ~SameEvaluation(r, x)
<1>1. \A o \in S : o.tag = "Obligations" => ~SameEvaluation(o, x)
  BY DEF Ingestible
<1>2. PICK o \in S : Makes(S, o, r)
  BY RowCases
<1> QED BY <1>1, <1>2 DEF Makes

LEMMA OutcomeWaits ==
  ASSUME NEW R, Ingestible(R), NEW S \in SUBSET R, NEW x \in R, x \notin S, x.tag = "Obligations",
         Waits(S, x)
  PROVE  RowsOf(S \cup {x}) = RowsOf(S) \cup {Row("Orphan", x, {x})}
<1> DEFINE N == S \cup {x}
<1>1. \A y, z : SameEvaluation(y, z) <=> SameEvaluation(z, y)
  BY DEF SameEvaluation
<1>2. \A tag, y, o, z : SameEvaluation(Row(tag, y, o), z) <=> SameEvaluation(y, z)
  BY RowFields DEF SameEvaluation
<1>3. \A o \in S : o.tag = "Obligations" => ~SameEvaluation(o, x)
  BY DEF Ingestible
<1>4. \A o : Waits(N, o) <=> Waits(S, o)
  BY DEF Waits
<1>5. \A d : ~SameEvaluation(d, x) => Outcomes(N, d) = Outcomes(S, d)
  BY DEF Outcomes
<1>8. RowsOf(N) = RowsOf(S) \cup {Row("Orphan", x, {x})}
  <2>1. \A d \in S : d.tag = "Decision" => Outcomes(N, d) = Outcomes(S, d)
    BY <1>1, <1>5 DEF Waits
  <2>2. ASSUME NEW r \in RowsOf(N) PROVE r \in RowsOf(S) \/ r = Row("Orphan", x, {x})
    <3>01. PICK y \in N : Makes(N, y, r)
      BY <2>2, RowCases
    <3>1. \/ y.tag = "Decision" /\ r = Row("Decision", y, Outcomes(N, y))
          \/ y.tag = "Obligations" /\ Waits(N, y) /\ r = Row("Orphan", y, {y})
      BY <3>01 DEF Makes
    <3>2. CASE y = x
      BY <3>1, <3>2
    <3>3. CASE y \in S /\ y.tag = "Decision"
      BY <2>1, <3>1, <3>3, DecisionRow
    <3>4. CASE y \in S /\ y.tag = "Obligations"
      BY <1>4, <3>1, <3>4, WaitingRow
    <3> QED BY <3>1, <3>2, <3>3, <3>4
  <2>3. ASSUME NEW r \in RowsOf(S) PROVE r \in RowsOf(N)
    <3>01. PICK y \in S : Makes(S, y, r)
      BY <2>3, RowCases
    <3>1. \/ y.tag = "Decision" /\ r = Row("Decision", y, Outcomes(S, y))
          \/ y.tag = "Obligations" /\ Waits(S, y) /\ r = Row("Orphan", y, {y})
      BY <3>01 DEF Makes
    <3>2. y \in N
      OBVIOUS
    <3>3. CASE y.tag = "Decision"
      BY <2>1, <3>1, <3>2, <3>3, DecisionRow
    <3>4. CASE y.tag = "Obligations"
      BY <1>4, <3>1, <3>2, <3>4, WaitingRow
    <3> QED BY <3>1, <3>3, <3>4
  <2>4. Row("Orphan", x, {x}) \in RowsOf(N)
    BY <1>4, WaitingRow
  <2> QED BY <2>2, <2>3, <2>4
<1> QED BY <1>8

LEMMA OutcomeJoins ==
  ASSUME NEW R, Ingestible(R), NEW S \in SUBSET R, NEW x \in R, x \notin S, x.tag = "Obligations",
         NEW d \in S, d.tag = "Decision", SameEvaluation(d, x)
  PROVE  /\ Row("Decision", d, {}) \in RowsOf(S)
         /\ RowsOf(S \cup {x}) =
              (RowsOf(S) \ {Row("Decision", d, {})}) \cup {Row("Decision", d, {x})}
<1> DEFINE N == S \cup {x}
<1>1. \A y, z : SameEvaluation(y, z) <=> SameEvaluation(z, y)
  BY DEF SameEvaluation
<1>2. \A tag, y, o, z : SameEvaluation(Row(tag, y, o), z) <=> SameEvaluation(y, z)
  BY RowFields DEF SameEvaluation
<1>3. \A o \in S : o.tag = "Obligations" => ~SameEvaluation(o, x)
  BY DEF Ingestible
<1>4. \A o : Waits(N, o) <=> Waits(S, o)
  BY DEF Waits
<1>5. \A e : ~SameEvaluation(e, x) => Outcomes(N, e) = Outcomes(S, e)
  BY DEF Outcomes
<1>6. \A e : SameEvaluation(e, x) => Outcomes(S, e) = {} /\ Outcomes(N, e) = {x}
  <2> SUFFICES ASSUME NEW e, SameEvaluation(e, x) PROVE Outcomes(S, e) = {} /\ Outcomes(N, e) = {x}
    OBVIOUS
  <2>1. \A y \in S : y.tag = "Obligations" => ~SameEvaluation(e, y)
    <3> SUFFICES ASSUME NEW y \in S, y.tag = "Obligations", SameEvaluation(e, y) PROVE FALSE
      OBVIOUS
    <3>1. SameEvaluation(y, x)
      BY DEF SameEvaluation
    <3> QED BY <1>3, <3>1
  <2> QED BY <2>1 DEF Outcomes
<1>9. /\ Row("Decision", d, {}) \in RowsOf(S)
      /\ RowsOf(N) = (RowsOf(S) \ {Row("Decision", d, {})}) \cup {Row("Decision", d, {x})}
  <2>1. \A e \in S : e.tag = "Decision" /\ e # d => ~SameEvaluation(e, x)
    <3> SUFFICES ASSUME NEW e \in S, e.tag = "Decision", SameEvaluation(e, x) PROVE e = d
      OBVIOUS
    <3>1. SameEvaluation(e, d)
      BY DEF SameEvaluation
    <3> QED BY <3>1 DEF Ingestible
  <2>2. ~Waits(S, x)
    BY <1>1 DEF Waits
  <2>3. Row("Decision", d, {}) \in RowsOf(S)
    <3>1. Outcomes(S, d) = {}
      BY <1>6
    <3> QED BY <3>1, DecisionRow
  <2>4. Row("Decision", d, {x}) \in RowsOf(N)
    <3>1. d \in N /\ Outcomes(N, d) = {x}
      BY <1>6
    <3> QED BY <3>1, DecisionRow
  <2>5. ASSUME NEW r \in RowsOf(N), r # Row("Decision", d, {x})
        PROVE  r \in RowsOf(S) /\ r # Row("Decision", d, {})
    <3>01. PICK e \in N : Makes(N, e, r)
      BY <2>5, RowCases
    <3>1. \/ e.tag = "Decision" /\ r = Row("Decision", e, Outcomes(N, e))
          \/ /\ e.tag = "Obligations" /\ r.tag = "Orphan" /\ Waits(N, e)
             /\ r = Row("Orphan", e, {e})
      BY <3>01 DEF Makes
    <3>2. CASE e.tag = "Decision"
      <4>1. e \in S /\ r = Row("Decision", e, Outcomes(N, e))
        BY <3>1, <3>2
      <4>2. e # d /\ ~SameEvaluation(e, x)
        BY <1>6, <2>1, <2>5, <3>2, <4>1
      <4>3. r = Row("Decision", e, Outcomes(S, e))
        BY <1>5, <4>1, <4>2
      <4>4. r \in RowsOf(S)
        BY <3>2, <4>1, <4>3, DecisionRow
      <4>5. r # Row("Decision", d, {})
        BY <1>2, <4>1, <4>2
      <4> QED BY <4>4, <4>5
    <3>3. CASE e.tag = "Obligations"
      <4>1. e \in S /\ Waits(S, e) /\ r = Row("Orphan", e, {e}) /\ r.tag = "Orphan"
        BY <1>4, <2>2, <3>1, <3>3
      <4>2. r \in RowsOf(S)
        BY <3>3, <4>1, WaitingRow
      <4> QED BY <4>1, <4>2, RowFields
    <3> QED BY <3>1, <3>2, <3>3
  <2>6. ASSUME NEW r \in RowsOf(S), r # Row("Decision", d, {}) PROVE r \in RowsOf(N)
    <3>01. PICK e \in S : Makes(S, e, r)
      BY <2>6, RowCases
    <3>1. \/ e.tag = "Decision" /\ r = Row("Decision", e, Outcomes(S, e))
          \/ e.tag = "Obligations" /\ Waits(S, e) /\ r = Row("Orphan", e, {e})
      BY <3>01 DEF Makes
    <3>2. e \in N
      OBVIOUS
    <3>3. CASE e.tag = "Decision"
      <4>1. r = Row("Decision", e, Outcomes(S, e))
        BY <3>1, <3>3
      <4>2. ~SameEvaluation(e, x)
        BY <1>6, <2>1, <2>6, <3>3, <4>1
      <4>3. r = Row("Decision", e, Outcomes(N, e))
        BY <1>5, <4>1, <4>2
      <4> QED BY <3>2, <3>3, <4>3, DecisionRow
    <3>4. CASE e.tag = "Obligations"
      BY <1>4, <3>1, <3>2, <3>4, WaitingRow
    <3> QED BY <3>1, <3>3, <3>4
  <2>7. Row("Decision", d, {x}) # Row("Decision", d, {})
    <3>1. {x} # {}
      OBVIOUS
    <3> QED BY <3>1, RowFields
  <2> QED BY <2>3, <2>4, <2>5, <2>6
<1> QED BY <1>9

----------------------------------------------------------------------------
(* Rows in order, each once, stay so without one of them, and with one     *)
(* exchanged for another of its time.                                      *)
LEMMA RemovePlaces ==
  ASSUME NEW T, \A e \in T : e.at \in Nat, NEW rows \in Seq(T), NEW i \in 1 .. Len(rows),
         InOrderOfTime(rows), EachOnce(rows)
  PROVE  /\ RemoveAt(rows, i) \in Seq(T)
         /\ Len(RemoveAt(rows, i)) = Len(rows) - 1
         /\ InOrderOfTime(RemoveAt(rows, i)) /\ EachOnce(RemoveAt(rows, i))
         /\ ToSet(RemoveAt(rows, i)) = ToSet(rows) \ {rows[i]}
<1> DEFINE t == RemoveAt(rows, i)
           from(j) == IF j < i THEN j ELSE j + 1
<1>1. /\ t \in Seq(T) /\ Len(t) = Len(rows) - 1
      /\ \A j \in 1 .. Len(rows) - 1 : t[j] = IF j < i THEN rows[j] ELSE rows[j + 1]
  BY Removed
<1> HIDE DEF t
<1>2. DOMAIN t = 1 .. Len(rows) - 1 /\ DOMAIN rows = 1 .. Len(rows) /\ Len(rows) \in Nat
  BY <1>1
<1>3. \A j \in 1 .. Len(rows) - 1 :
         from(j) \in 1 .. Len(rows) /\ from(j) # i /\ t[j] = rows[from(j)]
  BY <1>1, <1>2
<1>4. \A j, k \in 1 .. Len(rows) - 1 : j < k => from(j) < from(k)
  BY <1>2
<1>5. \A k \in 1 .. Len(rows) : k # i => \E j \in 1 .. Len(rows) - 1 : from(j) = k
  <2> SUFFICES ASSUME NEW k \in 1 .. Len(rows), k # i
               PROVE  \E j \in 1 .. Len(rows) - 1 : from(j) = k
    OBVIOUS
  <2>1. CASE k < i
    <3>1. k \in 1 .. Len(rows) - 1 /\ from(k) = k
      BY <1>2, <2>1
    <3> QED BY <3>1
  <2>2. CASE k > i
    <3>1. k - 1 \in 1 .. Len(rows) - 1 /\ from(k - 1) = k
      BY <1>2, <2>2
    <3> QED BY <3>1
  <2> QED BY <1>2, <2>1, <2>2
<1> HIDE DEF from
<1>6. InOrderOfTime(t)
  BY <1>2, <1>3, <1>4 DEF InOrderOfTime
<1>7. EachOnce(t)
  <2> SUFFICES ASSUME NEW j \in 1 .. Len(rows) - 1, NEW k \in 1 .. Len(rows) - 1, t[j] = t[k]
               PROVE  j = k
    BY <1>2 DEF EachOnce
  <2>1. from(j) \in 1 .. Len(rows) /\ from(k) \in 1 .. Len(rows) /\ from(j) = from(k)
    BY <1>2, <1>3 DEF EachOnce
  <2>2. ~(from(j) < from(k)) /\ ~(from(k) < from(j))
    BY <2>1
  <2>3. ~(j < k) /\ ~(k < j)
    BY <1>4, <2>2
  <2> QED BY <1>2, <2>3
<1>8. ToSet(t) = ToSet(rows) \ {rows[i]}
  <2>1. ToSet(t) = {t[j] : j \in 1 .. Len(rows) - 1} /\ ToSet(rows) = {rows[k] : k \in 1 .. Len(rows)}
    BY <1>2 DEF ToSet
  <2>2. \A k \in 1 .. Len(rows) : k # i => rows[k] # rows[i]
    BY <1>2 DEF EachOnce
  <2>3. ToSet(t) \subseteq ToSet(rows) \ {rows[i]}
    BY <1>3, <2>1, <2>2
  <2>4. ToSet(rows) \ {rows[i]} \subseteq ToSet(t)
    <3> SUFFICES ASSUME NEW k \in 1 .. Len(rows), k # i PROVE rows[k] \in ToSet(t)
      BY <2>1
    <3>1. PICK j \in 1 .. Len(rows) - 1 : from(j) = k
      BY <1>5
    <3> QED BY <1>3, <2>1, <3>1
  <2> QED BY <2>3, <2>4
<1>9. Len(t) = Len(rows) - 1
  BY <1>1
<1> QED BY <1>1, <1>6, <1>7, <1>8, <1>9 DEF t

Exchanged(t, T, rows, i, e) ==
    /\ t \in Seq(T) /\ Len(t) = Len(rows)
    /\ InOrderOfTime(t) /\ EachOnce(t)
    /\ ToSet(t) = (ToSet(rows) \ {rows[i]}) \cup {e}

LEMMA ExchangePlaces ==
  ASSUME NEW T, NEW rows \in Seq(T), NEW i \in 1 .. Len(rows), NEW e \in T,
         e.at = rows[i].at, InOrderOfTime(rows), EachOnce(rows), e \in ToSet(rows) => e = rows[i],
         NEW t, t = [rows EXCEPT ![i] = e]
  PROVE  Exchanged(t, T, rows, i, e)
<1>1. /\ t \in Seq(T) /\ Len(t) = Len(rows) /\ DOMAIN t = 1 .. Len(rows) /\ DOMAIN rows = 1 .. Len(rows)
      /\ t[i] = e /\ \A j \in 1 .. Len(rows) : j # i => t[j] = rows[j]
  BY ExceptSeq
<1>2. InOrderOfTime(t)
  <2>1. \A j \in 1 .. Len(rows) : t[j].at = rows[j].at
    BY <1>1
  <2> QED BY <1>1, <2>1 DEF InOrderOfTime
<1>3. \A j \in 1 .. Len(rows) : rows[j] = rows[i] => j = i
  BY <1>1 DEF EachOnce
<1>4. \A j \in 1 .. Len(rows) : j # i => rows[j] # e
  BY <1>1, <1>3 DEF ToSet
<1>5. EachOnce(t)
  BY <1>1, <1>4 DEF EachOnce
<1>6. ToSet(t) = (ToSet(rows) \ {rows[i]}) \cup {e}
  <2>1. ToSet(t) = {t[j] : j \in 1 .. Len(rows)} /\ ToSet(rows) = {rows[k] : k \in 1 .. Len(rows)}
    BY <1>1 DEF ToSet
  <2>2. ToSet(t) \subseteq (ToSet(rows) \ {rows[i]}) \cup {e}
    BY <1>1, <1>3, <2>1
  <2>3. (ToSet(rows) \ {rows[i]}) \cup {e} \subseteq ToSet(t)
    BY <1>1, <2>1
  <2> QED BY <2>2, <2>3
<1> QED BY <1>1, <1>2, <1>5, <1>6 DEF Exchanged

----------------------------------------------------------------------------
(* A timeline of the records there have been.                              *)
Folded(rows, S, R) ==
    /\ rows \in Seq(Rows(R))
    /\ ToSet(rows) = RowsOf(S)
    /\ EachOnce(rows) /\ InOrderOfTime(rows)
    /\ Len(rows) <= Cardinality(S)

LEMMA BoundKeeps ==
  ASSUME NEW T, NEW rows \in Seq(T), TimelineCapacity \in Nat, Len(rows) <= TimelineCapacity
  PROVE  Bound(rows) = rows
<1>1. Bound(rows) = SubSeq(rows, 1, Len(rows))
  <2>1. ~(Len(rows) > TimelineCapacity)
    OBVIOUS
  <2> QED BY <2>1, Zenon DEF Bound
<1>2. \A i \in 1 .. Len(rows) : rows[i] \in T
  OBVIOUS
<1>3. /\ SubSeq(rows, 1, Len(rows)) \in Seq(T) /\ Len(SubSeq(rows, 1, Len(rows))) = Len(rows)
      /\ \A i \in 1 .. Len(rows) : SubSeq(rows, 1, Len(rows))[i] = rows[i]
  <2>1. Len(rows) \in Nat
    OBVIOUS
  <2> QED BY <1>2, <2>1, SubSeqProperties
<1> QED BY <1>1, <1>3, SeqEqual

(* A decision ingested.                                                    *)
LEMMA DecisionFolds ==
  ASSUME NEW R, Ingestible(R), TimelineCapacity \in Nat, Cardinality(R) <= TimelineCapacity,
         NEW S \in SUBSET R, NEW x \in R, x.tag = "Decision", NEW rows, Folded(rows, S, R)
  PROVE  Folded(IngestDecision(rows, x), S \cup {x}, R)
<1> DEFINE Same(e) == e.tag = "Orphan" /\ SameEvaluation(e, x)
           I == {i \in 1 .. Len(rows) : Same(rows[i])}
           orphan == SelectInSeq(rows, Same)
           waiting == IF orphan = 0 THEN {} ELSE rows[orphan].obligations
           kept == IF orphan = 0 THEN rows ELSE RemoveAt(rows, orphan)
           there == \E e \in ToSet(rows) : e.tag = "Decision" /\ SameSlot(e, x)
<1>1. rows \in Seq(Rows(R)) /\ DOMAIN rows = 1 .. Len(rows) /\ Len(rows) \in Nat
  BY DEF Folded
<1>2. \A e \in Rows(R) : e.at \in Nat
  BY DEF Rows
<1>3. IngestDecision(rows, x) =
        IF there THEN rows ELSE Bound(Insert(kept, Row("Decision", x, waiting)))
  BY DEF IngestDecision
<1>4. orphan = IF I # {} THEN Min(I) ELSE 0
  BY DEF SelectInSeq
<1>5. I \in SUBSET Nat
  BY <1>1
<1>6. I # {} => orphan \in I /\ orphan # 0
  <2> HIDE DEF I, orphan
  <2>1. I # {} => Min(I) \in I
    BY <1>5, LeastOfNumbers
  <2>2. 0 \notin I
    BY DEF I
  <2> QED BY <1>4, <2>1, <2>2
<1>7. ToSet(rows) = RowsOf(S) /\ ToSet(rows) = {rows[i] : i \in 1 .. Len(rows)}
  BY <1>1 DEF Folded, ToSet
<1>8. IsFiniteSet(S) /\ IsFiniteSet(R) /\ Cardinality(S) \in Nat /\ Cardinality(R) \in Nat
  BY FS_Subset, FS_CardinalityType DEF Ingestible
<1>9. CASE x \in S
  <2>1. S \cup {x} = S
    BY <1>9
  <2>2. Row("Decision", x, Outcomes(S, x)) \in ToSet(rows)
    BY <1>7, <1>9, DecisionRow
  <2>3. there
    BY <2>2, RowFields DEF SameSlot, SameEvaluation
  <2> HIDE DEF there
  <2> QED BY <1>3, <2>1, <2>3
<1>10. CASE x \notin S
  <2> DEFINE w == Outcomes(S, x)
             row == Row("Decision", x, w)
  <2>1. /\ RowsOf(S \cup {x}) = {r \in RowsOf(S) : ~Same(r)} \cup {row}
        /\ \A r \in RowsOf(S) : Same(r) => r.obligations = w
        /\ (\A r \in RowsOf(S) : ~Same(r)) => w = {}
        /\ \A r \in RowsOf(S) : r.tag = "Decision" => ~SameEvaluation(r, x)
    BY <1>10, DecisionAdds
  <2>2. ~there
    BY <1>7, <2>1 DEF SameSlot
  <2>3. row \in Rows(R)
    <3>1. row \in RowsOf(S \cup {x}) /\ S \cup {x} \in SUBSET R
      BY <2>1
    <3> QED BY <3>1, RowsTyped
  <2>4. row \notin RowsOf(S)
    <3>1. row.tag = "Decision" /\ SameEvaluation(row, x)
      BY RowFields DEF SameEvaluation
    <3> QED BY <2>1, <3>1
  <2>5. /\ kept \in Seq(Rows(R)) /\ InOrderOfTime(kept) /\ EachOnce(kept)
        /\ ToSet(kept) = {r \in RowsOf(S) : ~Same(r)}
        /\ Len(kept) <= Len(rows) /\ waiting = w
    <3>1. CASE I = {}
      <4>1. orphan = 0
        BY <1>4, <3>1
      <4>2. \A r \in RowsOf(S) : ~Same(r)
        BY <1>7, <3>1
      <4>3. {r \in RowsOf(S) : ~Same(r)} = RowsOf(S)
        BY <4>2
      <4>4. kept = rows /\ waiting = {} /\ w = {}
        BY <2>1, <4>1, <4>2
      <4> HIDE DEF kept, waiting, w, Same
      <4> QED BY <1>1, <1>7, <4>3, <4>4 DEF Folded
    <3>2. CASE I # {}
      <4>1. orphan \in 1 .. Len(rows) /\ Same(rows[orphan]) /\ orphan # 0
        BY <1>6, <3>2
      <4>2. kept = RemoveAt(rows, orphan) /\ waiting = rows[orphan].obligations
        BY <4>1
      <4>3. rows[orphan] \in RowsOf(S)
        BY <1>7, <4>1
      <4>4. waiting = w
        BY <2>1, <4>1, <4>2, <4>3
      <4>5. \A r \in RowsOf(S) : Same(r) => r = rows[orphan]
        <5> SUFFICES ASSUME NEW r \in RowsOf(S), Same(r) PROVE r = rows[orphan]
          OBVIOUS
        <5>1. SameEvaluation(r, rows[orphan])
          BY <4>1 DEF SameEvaluation
        <5> QED BY <4>3, <5>1, RowsKeyed
      <4>6. {r \in RowsOf(S) : ~Same(r)} = RowsOf(S) \ {rows[orphan]}
        BY <4>1, <4>5
      <4> HIDE DEF orphan, kept, waiting, w, Same
      <4>7. InOrderOfTime(rows) /\ EachOnce(rows)
        BY DEF Folded
      <4>8. /\ kept \in Seq(Rows(R)) /\ InOrderOfTime(kept) /\ EachOnce(kept)
            /\ ToSet(kept) = RowsOf(S) \ {rows[orphan]} /\ Len(kept) = Len(rows) - 1
        BY <1>1, <1>2, <1>7, <4>1, <4>2, <4>7, RemovePlaces
      <4> QED BY <1>1, <4>4, <4>6, <4>8
    <3> QED BY <3>1, <3>2
  <2>6. IngestDecision(rows, x) = Bound(Insert(kept, row))
    BY <1>3, <2>2, <2>5
  <2> HIDE DEF kept, row, waiting
  <2>7. row \notin ToSet(kept)
    BY <2>4, <2>5
  <2>8. /\ Insert(kept, row) \in Seq(Rows(R)) /\ Len(Insert(kept, row)) = Len(kept) + 1
        /\ InOrderOfTime(Insert(kept, row)) /\ EachOnce(Insert(kept, row))
        /\ ToSet(Insert(kept, row)) = ToSet(kept) \cup {row}
    <3>1. kept \in Seq(Rows(R)) /\ InOrderOfTime(kept) /\ EachOnce(kept)
      BY <2>5
    <3> QED BY <1>2, <2>3, <2>7, <3>1, InsertPlaces
  <2>9. Cardinality(S \cup {x}) = Cardinality(S) + 1 /\ Cardinality(S \cup {x}) <= Cardinality(R)
    <3>1. Cardinality(S \cup {x}) = Cardinality(S) + 1
      BY <1>8, <1>10, FS_AddElement
    <3>2. S \cup {x} \subseteq R
      OBVIOUS
    <3> QED BY <1>8, <3>1, <3>2, FS_Subset
  <2>10. Len(Insert(kept, row)) <= Cardinality(S \cup {x})
    <3>1. Len(rows) <= Cardinality(S) /\ Len(kept) \in Nat
      BY <2>5 DEF Folded
    <3> QED BY <1>1, <1>8, <2>5, <2>8, <2>9, <3>1
  <2>11. Bound(Insert(kept, row)) = Insert(kept, row)
    <3>1. Len(Insert(kept, row)) \in Nat
      BY <2>8
    <3>2. Len(Insert(kept, row)) <= TimelineCapacity
      BY <1>8, <2>9, <2>10, <3>1
    <3> QED BY <2>8, <3>2, BoundKeeps
  <2> QED BY <2>1, <2>5, <2>6, <2>8, <2>10, <2>11 DEF Folded
<1> QED BY <1>9, <1>10

LEMMA ObligationsFold ==
  ASSUME NEW R, Ingestible(R), TimelineCapacity \in Nat, Cardinality(R) <= TimelineCapacity,
         NEW S \in SUBSET R, NEW x \in R, x.tag = "Obligations", NEW rows, Folded(rows, S, R)
  PROVE  Folded(IngestObligations(rows, x), S \cup {x}, R)
<1> DEFINE Same(e) == e.tag = "Decision" /\ SameEvaluation(e, x)
           I == {i \in 1 .. Len(rows) : Same(rows[i])}
           target == SelectLastInSeq(rows, Same)
           there == \E e \in ToSet(rows) : SameSlot(e, x)
           row == Row("Orphan", x, {x})
           joined == [rows[target] EXCEPT !.obligations = {x}]
           t == [rows EXCEPT ![target] = joined]
<1>1. rows \in Seq(Rows(R)) /\ DOMAIN rows = 1 .. Len(rows) /\ Len(rows) \in Nat
  BY DEF Folded
<1>2. \A e \in Rows(R) : e.at \in Nat
  BY DEF Rows
<1>3. IngestObligations(rows, x) =
        IF target # 0 THEN t ELSE IF there THEN rows ELSE Bound(Insert(rows, row))
  BY DEF IngestObligations
<1>4. target = IF I # {} THEN Max(I) ELSE 0
  BY DEF SelectLastInSeq
<1>5. I \in SUBSET (1 .. Len(rows))
  OBVIOUS
<1>6. I # {} => target \in I /\ target # 0
  <2> HIDE DEF I, target
  <2>1. I # {} => Max(I) \in I
    BY <1>1, <1>5, GreatestOfNumbers
  <2>2. 0 \notin I
    BY DEF I
  <2> QED BY <1>4, <2>1, <2>2
<1>7. ToSet(rows) = RowsOf(S) /\ ToSet(rows) = {rows[i] : i \in 1 .. Len(rows)}
  BY <1>1 DEF Folded, ToSet
<1>8. IsFiniteSet(S) /\ IsFiniteSet(R) /\ Cardinality(S) \in Nat /\ Cardinality(R) \in Nat
  BY FS_Subset, FS_CardinalityType DEF Ingestible
<1>9. x \notin S => Cardinality(S \cup {x}) = Cardinality(S) + 1
  BY <1>8, FS_AddElement
<1>10. Cardinality(S \cup {x}) <= Cardinality(R)
  <2>1. S \cup {x} \subseteq R
    OBVIOUS
  <2> QED BY <1>8, <2>1, FS_Subset
<1>11. Len(rows) <= Cardinality(S) /\ InOrderOfTime(rows) /\ EachOnce(rows)
  BY DEF Folded
<1>12. Len(rows) <= Cardinality(S \cup {x})
  <2>1. x \in S => S \cup {x} = S
    OBVIOUS
  <2>2. CASE x \in S
    BY <1>11, <2>1, <2>2
  <2>3. CASE x \notin S
    BY <1>1, <1>8, <1>9, <1>11, <2>3
  <2> QED BY <2>2, <2>3
<1>13. \A y, z : SameEvaluation(y, z) <=> SameEvaluation(z, y)
  BY DEF SameEvaluation
<1>14. CASE I # {}
  <2>1. target \in 1 .. Len(rows) /\ Same(rows[target]) /\ target # 0
    BY <1>6, <1>14
  <2>2. rows[target] \in RowsOf(S)
    BY <1>7, <2>1
  <2>3. PICK d \in S : Makes(S, d, rows[target])
    BY <2>2, RowCases
  <2>4. /\ d.tag = "Decision" /\ SameEvaluation(d, x)
        /\ rows[target] = Row("Decision", d, Outcomes(S, d))
    BY <2>1, <2>3 DEF Makes
  <2>5. joined = Row("Decision", d, {x}) /\ joined.at = rows[target].at
    <3>1. [Row("Decision", d, Outcomes(S, d)) EXCEPT !.obligations = {x}] = Row("Decision", d, {x})
      BY DEF Row
    <3>2. Row("Decision", d, {x}).at = d.at /\ Row("Decision", d, Outcomes(S, d)).at = d.at
      BY RowFields
    <3> QED BY <2>4, <3>1, <3>2, Zenon
  <2>6. x \in S => Outcomes(S, d) = {x}
    <3> SUFFICES ASSUME x \in S, NEW y \in S, y.tag = "Obligations", SameEvaluation(d, y) PROVE y = x
      BY <2>4 DEF Outcomes
    <3>1. SameEvaluation(y, x)
      BY <2>4 DEF SameEvaluation
    <3> QED BY <3>1 DEF Ingestible
  <2>7. x \notin S => /\ Row("Decision", d, {}) \in RowsOf(S) /\ rows[target] = Row("Decision", d, {})
                      /\ RowsOf(S \cup {x}) = (RowsOf(S) \ {rows[target]}) \cup {joined}
    <3> SUFFICES ASSUME x \notin S
                 PROVE  /\ Row("Decision", d, {}) \in RowsOf(S) /\ rows[target] = Row("Decision", d, {})
                        /\ RowsOf(S \cup {x}) = (RowsOf(S) \ {rows[target]}) \cup {joined}
      OBVIOUS
    <3>1. /\ Row("Decision", d, {}) \in RowsOf(S)
          /\ RowsOf(S \cup {x}) = (RowsOf(S) \ {Row("Decision", d, {})}) \cup {Row("Decision", d, {x})}
      BY <2>4, OutcomeJoins
    <3>2. SameEvaluation(rows[target], Row("Decision", d, {}))
      BY <2>4, RowFields DEF SameEvaluation
    <3>3. rows[target] = Row("Decision", d, {})
      BY <2>2, <3>1, <3>2, RowsKeyed
    <3> QED BY <2>5, <3>1, <3>3
  <2>8. x \in S => joined = rows[target]
    BY <2>4, <2>5, <2>6
  <2>9. joined \in Rows(R)
    <3>1. rows[target] \in Rows(R) /\ {x} \in SUBSET R
      BY <1>1, <2>1
    <3> QED BY <3>1 DEF Rows
  <2>10. joined \in RowsOf(S) => joined = rows[target]
    <3>1. SameEvaluation(joined, rows[target])
      BY <2>4, <2>5, RowFields DEF SameEvaluation
    <3> QED BY <2>2, <3>1, RowsKeyed
  <2>11. RowsOf(S \cup {x}) = (RowsOf(S) \ {rows[target]}) \cup {joined}
    <3>1. CASE x \in S
      <4>1. S \cup {x} = S
        BY <3>1
      <4> QED BY <2>2, <2>8, <3>1, <4>1
    <3>2. CASE x \notin S
      BY <2>7, <3>2
    <3> QED BY <3>1, <3>2
  <2>12. IngestObligations(rows, x) = t
    BY <1>3, <2>1
  <2> HIDE DEF joined, target
  <2>13. /\ t \in Seq(Rows(R)) /\ Len(t) = Len(rows) /\ InOrderOfTime(t) /\ EachOnce(t)
         /\ ToSet(t) = (ToSet(rows) \ {rows[target]}) \cup {joined}
    <3>1. joined \in ToSet(rows) => joined = rows[target]
      BY <1>7, <2>10
    <3>2. target \in 1 .. Len(rows) /\ joined.at = rows[target].at
      BY <2>1, <2>5
    <3>3. t = [rows EXCEPT ![target] = joined]
      OBVIOUS
    <3>4. rows[target] \in Rows(R)
      BY <1>1, <2>1
    <3>5. rows \in Seq(Rows(R)) /\ joined \in Rows(R)
      BY <1>1, <2>9
    <3> HIDE DEF t
    <3>6. Exchanged(t, Rows(R), rows, target, joined)
      BY <1>1, <1>11, <3>1, <3>2, <3>3, <3>5, ExchangePlaces
    <3> QED BY <3>6 DEF Exchanged
  <2> HIDE DEF t
  <2> QED BY <1>7, <1>12, <2>11, <2>12, <2>13 DEF Folded
<1>15. CASE I = {}
  <2>1. \A r \in RowsOf(S) : ~Same(r)
    BY <1>7, <1>15
  <2>2. Waits(S, x)
    <3> SUFFICES ASSUME NEW d \in S, d.tag = "Decision", SameEvaluation(x, d) PROVE FALSE
      BY DEF Waits
    <3>1. Row("Decision", d, Outcomes(S, d)) \in RowsOf(S)
      BY DecisionRow
    <3>2. Same(Row("Decision", d, Outcomes(S, d)))
      BY <1>13, RowFields DEF SameEvaluation
    <3> QED BY <2>1, <3>1, <3>2
  <2>3. target = 0
    BY <1>4, <1>15
  <2>4. CASE x \in S
    <3>1. row \in ToSet(rows)
      BY <1>7, <2>2, <2>4, WaitingRow
    <3>2. there
      BY <3>1, RowFields DEF SameSlot, SameEvaluation
    <3>3. S \cup {x} = S
      BY <2>4
    <3> HIDE DEF there
    <3> QED BY <1>3, <2>3, <3>2, <3>3
  <2>5. CASE x \notin S
    <3>1. /\ RowsOf(S \cup {x}) = RowsOf(S) \cup {row}
          /\ \A r \in RowsOf(S) : r.tag = "Orphan" => ~SameEvaluation(r, x)
      BY <2>2, <2>5, OutcomeWaits, OnlyOutcome
    <3>2. \A r \in RowsOf(S) : ~SameEvaluation(r, x)
      <4> SUFFICES ASSUME NEW r \in RowsOf(S), SameEvaluation(r, x) PROVE FALSE
        OBVIOUS
      <4>1. r.tag = "Decision" \/ r.tag = "Orphan"
        <5>1. PICK y \in S : Makes(S, y, r)
          BY RowCases
        <5> QED BY <5>1 DEF Makes
      <4> QED BY <2>1, <3>1, <4>1
    <3>3. ~there
      BY <1>7, <3>2 DEF SameSlot
    <3>4. row \notin ToSet(rows)
      <4>1. SameEvaluation(row, x)
        BY RowFields DEF SameEvaluation
      <4> QED BY <1>7, <3>2, <4>1
    <3>5. row \in Rows(R)
      <4>1. row \in RowsOf(S \cup {x}) /\ S \cup {x} \in SUBSET R
        BY <3>1
      <4> QED BY <4>1, RowsTyped
    <3>6. IngestObligations(rows, x) = Bound(Insert(rows, row))
      BY <1>3, <2>3, <3>3
    <3> HIDE DEF row
    <3>7. /\ Insert(rows, row) \in Seq(Rows(R)) /\ Len(Insert(rows, row)) = Len(rows) + 1
          /\ InOrderOfTime(Insert(rows, row)) /\ EachOnce(Insert(rows, row))
          /\ ToSet(Insert(rows, row)) = ToSet(rows) \cup {row}
      BY <1>1, <1>2, <1>11, <3>4, <3>5, InsertPlaces
    <3>8. Len(Insert(rows, row)) <= Cardinality(S \cup {x})
      BY <1>1, <1>8, <1>9, <1>11, <2>5, <3>7
    <3>9. Bound(Insert(rows, row)) = Insert(rows, row)
      <4>1. Len(Insert(rows, row)) \in Nat
        BY <3>7
      <4>2. Len(Insert(rows, row)) <= TimelineCapacity
        BY <1>8, <1>9, <1>10, <2>5, <3>8, <4>1
      <4> QED BY <3>7, <4>2, BoundKeeps
    <3> QED BY <1>7, <3>1, <3>6, <3>7, <3>8, <3>9 DEF Folded
  <2> QED BY <2>4, <2>5
<1> QED BY <1>14, <1>15

LEMMA IngestFolds ==
  ASSUME NEW R, Ingestible(R), TimelineCapacity \in Nat, Cardinality(R) <= TimelineCapacity,
         NEW S \in SUBSET R, NEW x \in R, NEW rows, Folded(rows, S, R)
  PROVE  Folded(Ingest(rows, x), S \cup {x}, R)
<1>1. x.tag = "Decision" \/ x.tag = "Obligations"
  BY DEF Ingestible
<1>2. CASE x.tag = "Decision"
  BY <1>2, DecisionFolds DEF Ingest
<1>3. CASE x.tag = "Obligations"
  BY <1>3, ObligationsFold DEF Ingest
<1> QED BY <1>1, <1>2, <1>3

----------------------------------------------------------------------------
(* The rows of one evaluation, in the order of their time: the first is    *)
(* their one origin.                                                       *)
LEMMA FamiliesHaveAnOrigin ==
  ASSUME NEW T, \A e \in T : e.at \in Nat, NEW rows \in Seq(T), InOrderOfTime(rows)
  PROVE  LET paired == pairedEntries(rows)
             Of(evaluation) == {i \in DOMAIN paired : paired[i].entry.evaluation = evaluation}
         IN  \A evaluation \in pairsOf(rows) :
                \E origin \in Of(evaluation) :
                   /\ {i \in Of(evaluation) : paired[i].role = "Origin"} = {origin}
                   /\ \A i \in Of(evaluation) : paired[origin].entry.at <= paired[i].entry.at
<1> DEFINE paired == pairedEntries(rows)
           Of(evaluation) == {i \in DOMAIN paired : paired[i].entry.evaluation = evaluation}
<1> SUFFICES ASSUME NEW evaluation \in pairsOf(rows)
             PROVE  \E origin \in Of(evaluation) :
                       /\ {i \in Of(evaluation) : paired[i].role = "Origin"} = {origin}
                       /\ \A i \in Of(evaluation) : paired[origin].entry.at <= paired[i].entry.at
  OBVIOUS
<1> DEFINE F == {i \in DOMAIN rows : rows[i].evaluation = evaluation}
<1>1. DOMAIN rows = 1 .. Len(rows) /\ Len(rows) \in Nat /\ \A i \in DOMAIN rows : rows[i].at \in Nat
  OBVIOUS
<1>2. DOMAIN paired = DOMAIN rows
      /\ \A i \in DOMAIN rows : paired[i].entry = rows[i] /\ paired[i].role = roleOf(rows, i)
  BY DEF pairedEntries
<1>3. Of(evaluation) = F
  BY <1>2
<1>4. \A i \in F : familyOf(rows, i) = F
  BY DEF familyOf
<1>5. PICK g \in DOMAIN rows : rows[g].evaluation = evaluation /\ Cardinality(familyOf(rows, g)) > 1
  BY DEF pairsOf
<1>6. g \in F /\ Cardinality(F) > 1
  BY <1>4, <1>5
<1>7. IsFiniteSet(F) /\ Cardinality(F) \in Nat
  <2>1. F \subseteq 1 .. Len(rows) /\ IsFiniteSet(1 .. Len(rows))
    BY <1>1, FS_Interval
  <2> QED BY <2>1, FS_Subset, FS_CardinalityType
<1>8. F \in SUBSET Nat /\ F \subseteq DOMAIN rows
  BY <1>1
<1> HIDE DEF F, paired, Of
<1>9. PICK first \in F : \A i \in F : first <= i
  BY <1>6, <1>8, LeastOfNumbers
<1>0. first \in Nat /\ \A i \in F : i \in Nat
  BY <1>8
<1>10. \A i \in F : roleOf(rows, i) = "Origin" <=> \A j \in F : i <= j
  <2>1. ~(Cardinality(F) < 2)
    BY <1>6, <1>7
  <2>2. \A i \in F : roleOf(rows, i) = IF \A j \in F : i <= j THEN "Origin" ELSE "Continuation"
    BY <1>4, <2>1 DEF roleOf
  <2> QED BY <2>2
<1>11. \A i \in F : (\A j \in F : i <= j) <=> i = first
  BY <1>0, <1>9
<1>12. {i \in F : paired[i].role = "Origin"} = {first}
  BY <1>2, <1>8, <1>9, <1>10, <1>11
<1>13. \A i \in F : paired[first].entry.at <= paired[i].entry.at
  <2> SUFFICES ASSUME NEW i \in F PROVE rows[first].at <= rows[i].at
    BY <1>2, <1>8, <1>9
  <2>1. first < i \/ first = i
    BY <1>0, <1>9
  <2>2. rows[first].at \in Nat /\ first \in DOMAIN rows /\ i \in DOMAIN rows
    BY <1>1, <1>8
  <2>3. CASE first < i
    BY <2>2, <2>3 DEF InOrderOfTime
  <2>4. CASE first = i
    BY <2>2, <2>4
  <2> QED BY <2>1, <2>3, <2>4
<1> QED BY <1>3, <1>9, <1>12, <1>13

----------------------------------------------------------------------------
(* What is shown of the records, and of those there were at a pause.       *)
TimelineInv ==
    /\ arrived \subseteq DockRecords /\ arrivedAtPause \subseteq DockRecords
    /\ Folded(timeline, arrived, DockRecords)
    /\ \/ frozen = {} /\ view = timeline
       \/ frozen = {view} /\ Folded(view, arrivedAtPause, DockRecords)
    /\ painted = [rows |-> view, paused |-> isPaused]

LEMMA TimelineInvImplies ==
  ASSUME TimelineInv
  PROVE  TimelineIsCurrent
<1>1. painted = [rows |-> view, paused |-> isPaused] /\ painted.rows = view
  BY DEF TimelineInv
<1>2. Folded(view, IF isPaused THEN arrivedAtPause ELSE arrived, DockRecords)
  <2>1. CASE frozen = {} /\ view = timeline
    BY <2>1 DEF TimelineInv, isPaused
  <2>2. CASE frozen = {view} /\ Folded(view, arrivedAtPause, DockRecords)
    BY <2>2 DEF TimelineInv, isPaused
  <2> QED BY <2>1, <2>2 DEF TimelineInv
<1>3. ToSet(view) = RowsOf(IF isPaused THEN arrivedAtPause ELSE arrived)
  BY <1>2 DEF Folded
<1>4. painted.rows \in Seq(Rows(DockRecords)) /\ InOrderOfTime(painted.rows)
  BY <1>1, <1>2 DEF Folded
<1>5. \A e \in Rows(DockRecords) : e.at \in Nat
  BY DEF Rows
<1>6. LET paired == pairedEntries(painted.rows)
          Of(evaluation) == {i \in DOMAIN paired : paired[i].entry.evaluation = evaluation}
      IN  \A evaluation \in pairsOf(painted.rows) :
             \E origin \in Of(evaluation) :
                /\ {i \in Of(evaluation) : paired[i].role = "Origin"} = {origin}
                /\ \A i \in Of(evaluation) : paired[origin].entry.at <= paired[i].entry.at
  BY <1>4, <1>5, FamiliesHaveAnOrigin
<1>7. ToSet(painted.rows) = RowsOf(IF isPaused THEN arrivedAtPause ELSE arrived)
  BY <1>1, <1>3
<1> QED BY <1>1, <1>6, <1>7, Zenon DEF TimelineIsCurrent

LEMMA NothingFolded ==
  ASSUME NEW R
  PROVE  Folded(<<>>, {}, R)
<1>1. ToSet(<<>>) = {} /\ <<>> \in Seq(Rows(R)) /\ Len(<<>>) = 0
  BY DEF ToSet
<1>2. RowsOf({}) = {}
  BY DEF RowsOf
<1>3. EachOnce(<<>>) /\ InOrderOfTime(<<>>)
  BY DEF EachOnce, InOrderOfTime
<1>4. Len(<<>>) <= Cardinality({})
  BY <1>1, FS_EmptySet
<1> QED BY <1>1, <1>2, <1>3, <1>4 DEF Folded

LEMMA TimelineInvHolds ==
  ASSUME TimelineCapacity \in Nat, Cardinality(DockRecords) <= TimelineCapacity
  PROVE  /\ makeTimelineStore => TimelineInv
         /\ TimelineInv /\ [TimelineStoreNext]_timelineVars => TimelineInv'
<1>1. makeTimelineStore => TimelineInv
  BY NothingFolded DEF makeTimelineStore, TimelineInv, isPaused
<1>2. ASSUME TimelineInv, NEW record \in DockRecords, accept(record) PROVE TimelineInv'
  <2>1. Ingestible(DockRecords)
    BY RecordsAssumption DEF Ingestible
  <2>2. Folded(timeline', arrived', DockRecords)
    BY <1>2, <2>1, IngestFolds DEF TimelineInv, accept
  <2>3. arrived' \subseteq DockRecords /\ arrivedAtPause' = arrivedAtPause /\ frozen' = frozen
    BY <1>2 DEF TimelineInv, accept
  <2>4. /\ frozen' = {} => view' = timeline'
        /\ frozen # {} => view' = view
        /\ painted' = [rows |-> view', paused |-> frozen' # {}]
    <3>1. CASE frozen # {}
      BY <1>2, <2>3, <3>1 DEF TimelineInv, accept, isPaused
    <3>2. CASE frozen = {} /\ timeline' = timeline
      BY <1>2, <2>3, <3>2 DEF TimelineInv, accept, isPaused
    <3>3. CASE frozen = {} /\ timeline' # timeline
      BY <1>2, <2>3, <3>3 DEF TimelineInv, accept, isPaused, set, notify
    <3> QED BY <3>1, <3>2, <3>3
  <2>5. \/ frozen' = {} /\ view' = timeline'
        \/ frozen' = {view'} /\ Folded(view', arrivedAtPause', DockRecords)
    BY <1>2, <2>3, <2>4 DEF TimelineInv
  <2> QED BY <1>2, <2>2, <2>3, <2>4, <2>5 DEF TimelineInv, isPaused
<1>3. ASSUME TimelineInv, clear PROVE TimelineInv'
  BY <1>3, NothingFolded DEF TimelineInv, clear, publish, notify, isPaused
<1>4. ASSUME TimelineInv, NEW paused \in BOOLEAN, setPaused(paused) PROVE TimelineInv'
  BY <1>4 DEF TimelineInv, setPaused, publish, notify, isPaused
<1>5. ASSUME TimelineInv, UNCHANGED timelineVars PROVE TimelineInv'
  BY <1>5 DEF TimelineInv, timelineVars, isPaused
<1> QED BY <1>1, <1>2, <1>3, <1>4, <1>5 DEF TimelineStoreNext

----------------------------------------------------------------------------
(* A log of port calls: the last that were begun, with the rest counted.   *)
LogIsOf(log, known) ==
    /\ log.calls \in Seq([number : Nat, of : [port : SpanPorts, ended : BOOLEAN]])
    /\ Len(log.calls) <= log.capacity
    /\ log.dropped > 0 => Len(log.calls) = log.capacity
    /\ \A i \in DOMAIN log.calls :
          /\ log.calls[i].number = log.dropped + i
          /\ log.calls[i].number \in DOMAIN known
          /\ log.calls[i].of.ended => known[log.calls[i].number].ended

DialsInv ==
    /\ spans \in Seq([port : SpanPorts, ended : BOOLEAN])
    /\ collector \in [kept : Seq(Nat), dropped : Nat, capacity : Nat]
    /\ Len(collector.kept) + collector.dropped = Len(spans)
    /\ Len(collector.kept) <= collector.capacity
    /\ collector.dropped > 0 => Len(collector.kept) = collector.capacity
    /\ \A i \in 1 .. Len(collector.kept) : collector.kept[i] = collector.dropped + i
    /\ \E T : sample \in Seq(T)
    /\ Len(sample) >= 4 => \A log \in sample[4] : LogIsOf(log, spans)
    /\ \A log \in diagnostics.portCalls : LogIsOf(log, spans)
    /\ shown = mergeReading(diagnostics, supplied)

LEMMA DialsInvImplies ==
  ASSUME DialsInv
  PROVE  DialsAreCurrent
BY DEF DialsInv, DialsAreCurrent, LogIsOf

(* What is begun and ended later leaves a log a log.                       *)
LEMMA LogsStay ==
  ASSUME NEW log, NEW known, NEW later, LogIsOf(log, known),
         \A i \in DOMAIN known : i \in DOMAIN later /\ (known[i].ended => later[i].ended)
  PROVE  LogIsOf(log, later)
BY DEF LogIsOf

LEMMA SnapshotIsLog ==
  ASSUME DialsInv, NEW log \in snapshot
  PROVE  LogIsOf(log, spans)
<1> DEFINE kept == collector.kept
           calls == [i \in DOMAIN kept |-> [number |-> kept[i], of |-> spans[kept[i]]]]
<1>1. log = [calls |-> calls, dropped |-> collector.dropped, capacity |-> collector.capacity]
  BY DEF snapshot
<1>2. /\ kept \in Seq(Nat) /\ DOMAIN kept = 1 .. Len(kept) /\ Len(kept) \in Nat
      /\ collector.dropped \in Nat /\ Len(spans) \in Nat /\ DOMAIN spans = 1 .. Len(spans)
  BY DEF DialsInv
<1>3. \A i \in 1 .. Len(kept) : kept[i] = collector.dropped + i /\ kept[i] \in 1 .. Len(spans)
  <2>1. Len(kept) + collector.dropped = Len(spans)
    BY DEF DialsInv
  <2>2. \A i \in 1 .. Len(kept) : kept[i] = collector.dropped + i
    BY DEF DialsInv
  <2> HIDE DEF kept
  <2> QED BY <1>2, <2>1, <2>2
<1>4. \A i \in 1 .. Len(kept) : spans[kept[i]] \in [port : SpanPorts, ended : BOOLEAN]
  <2> DEFINE S == [port : SpanPorts, ended : BOOLEAN]
  <2>1. spans \in Seq(S)
    BY DEF DialsInv
  <2> HIDE DEF kept, S
  <2>2. \A n \in 1 .. Len(spans) : spans[n] \in S
    BY <2>1
  <2>3. \A i \in 1 .. Len(kept) : spans[kept[i]] \in S
    BY <1>3, <2>2
  <2> QED BY <2>3 DEF S
<1>5. Len(kept) <= collector.capacity /\ (collector.dropped > 0 => Len(kept) = collector.capacity)
  BY DEF DialsInv
<1> HIDE DEF kept
<1>6. DOMAIN calls = 1 .. Len(kept)
      /\ \A i \in 1 .. Len(kept) : calls[i] = [number |-> kept[i], of |-> spans[kept[i]]]
  BY <1>2
<1>7. \A i \in 1 .. Len(kept) : calls[i] \in [number : Nat, of : [port : SpanPorts, ended : BOOLEAN]]
  BY <1>2, <1>4, <1>6
<1>8. calls \in Seq([number : Nat, of : [port : SpanPorts, ended : BOOLEAN]]) /\ Len(calls) = Len(kept)
  <2>1. calls \in [1 .. Len(kept) -> [number : Nat, of : [port : SpanPorts, ended : BOOLEAN]]]
    BY <1>2, <1>7
  <2>2. calls \in Seq([number : Nat, of : [port : SpanPorts, ended : BOOLEAN]])
    BY <1>2, <2>1
  <2> HIDE DEF calls
  <2>3. DOMAIN calls = 1 .. Len(kept) /\ DOMAIN calls = 1 .. Len(calls) /\ Len(calls) \in Nat
    BY <2>1, <2>2
  <2>4. Len(calls) = Len(kept)
    BY <1>2, <2>3
  <2> QED BY <2>2, <2>4
<1> HIDE DEF calls
<1>9. log.calls = calls /\ log.dropped = collector.dropped /\ log.capacity = collector.capacity
  BY <1>1
<1> QED BY <1>2, <1>3, <1>5, <1>6, <1>8, <1>9 DEF LogIsOf

LEMMA DialsBegin == makeDiagnosticsStore => DialsInv
<1> SUFFICES ASSUME makeDiagnosticsStore PROVE DialsInv
  OBVIOUS
<1>1. spans = <<>> /\ sample = <<>> /\ diagnostics = noDiagnostics
      /\ shown = mergeReading(diagnostics, supplied)
  BY DEF makeDiagnosticsStore
<1>2. PICK capacity \in CallCapacities :
        collector = [kept |-> <<>>, dropped |-> 0, capacity |-> capacity]
  BY DEF makeDiagnosticsStore
<1>3. /\ collector.kept = <<>> /\ collector.dropped = 0 /\ collector.capacity \in Nat
      /\ collector \in [kept : Seq(Nat), dropped : Nat, capacity : Nat]
  BY <1>2, CallCapacitiesAssumption
<1>4. diagnostics.portCalls = {}
  BY <1>1 DEF noDiagnostics
<1>5. \E T : sample \in Seq(T)
  <2>1. sample \in Seq(Nat)
    BY <1>1
  <2> QED BY <2>1
<1> QED BY <1>1, <1>3, <1>4, <1>5 DEF DialsInv

LEMMA SpanBeginsKeeps ==
  ASSUME DialsInv, NEW p \in SpanPorts, SpanBegins(p)
  PROVE  DialsInv'
<1> DEFINE S == [port : SpanPorts, ended : BOOLEAN]
           one == [port |-> p, ended |-> FALSE]
           kept == Append(collector.kept, Len(spans'))
           over == IF Len(kept) > collector.capacity THEN 1 ELSE 0
           next == SubSeq(kept, 1 + over, Len(kept))
           n == Len(collector.kept)
<1>1. /\ spans \in Seq(S) /\ collector \in [kept : Seq(Nat), dropped : Nat, capacity : Nat]
      /\ n + collector.dropped = Len(spans) /\ n <= collector.capacity
      /\ collector.dropped > 0 => n = collector.capacity
      /\ \A i \in 1 .. n : collector.kept[i] = collector.dropped + i
  BY DEF DialsInv
<1>0. n \in Nat
  BY <1>1
<1> HIDE DEF n
<1>2. spans' = Append(spans, one) /\ one \in S
  BY DEF SpanBegins
<1>3. /\ spans' \in Seq(S) /\ Len(spans') = Len(spans) + 1 /\ Len(spans') \in Nat /\ Len(spans) \in Nat
      /\ DOMAIN spans' = 1 .. Len(spans) + 1 /\ DOMAIN spans = 1 .. Len(spans)
      /\ \A i \in 1 .. Len(spans) : spans'[i] = spans[i]
  BY <1>1, <1>2
<1>4. /\ kept \in Seq(Nat) /\ Len(kept) = n + 1 /\ n \in Nat
      /\ \A i \in 1 .. n : kept[i] = collector.kept[i]
      /\ kept[n + 1] = Len(spans')
  BY <1>1, <1>3 DEF n
<1>5. collector' = [collector EXCEPT !.kept = next, !.dropped = @ + over]
  BY DEF SpanBegins
<1>6. /\ over \in {0, 1} /\ (over = 1 <=> n + 1 > collector.capacity)
      /\ collector.capacity \in Nat /\ collector.dropped \in Nat
  BY <1>1, <1>4
<1>7. \A i \in 1 .. n + 1 : kept[i] = collector.dropped + i
  <2> SUFFICES ASSUME NEW i \in 1 .. n + 1 PROVE kept[i] = collector.dropped + i
    OBVIOUS
  <2> HIDE DEF kept, over
  <2>1. CASE i = n + 1
    <3>1. kept[i] = Len(spans) + 1 /\ n + collector.dropped = Len(spans)
      BY <1>1, <1>3, <1>4, <2>1
    <3>2. collector.dropped \in Nat
      BY <1>6
    <3>3. \A a, b, c \in Nat : a + b = c => c + 1 = b + (a + 1)
      OBVIOUS
    <3>4. Len(spans) \in Nat
      BY <1>3
    <3> QED BY <1>0, <2>1, <3>1, <3>2, <3>3, <3>4
  <2>2. CASE i \in 1 .. n
    BY <1>1, <1>4, <2>2
  <2>3. i = n + 1 \/ i \in 1 .. n
    BY <1>0
  <2> QED BY <2>1, <2>2, <2>3
<1> HIDE DEF kept, over
<1>8. /\ next \in Seq(Nat) /\ Len(next) = n + 1 - over
      /\ \A i \in 1 .. n + 1 - over : next[i] = kept[i + over]
  <2>1. \A i \in 1 + over .. n + 1 : kept[i] \in Nat
    BY <1>4, <1>6, <1>7
  <2>2. 1 + over \in Nat /\ n + 1 \in Nat /\ Len(kept) = n + 1 /\ 1 + over <= n + 2
    BY <1>4, <1>6
  <2>3. /\ SubSeq(kept, 1 + over, n + 1) \in Seq(Nat)
        /\ Len(SubSeq(kept, 1 + over, n + 1)) = n + 1 - over
        /\ \A i \in 1 .. n + 1 - over : SubSeq(kept, 1 + over, n + 1)[i] = kept[1 + over + i - 1]
    BY <1>4, <1>6, <2>1, <2>2, SubSeqProperties
  <2>4. \A i \in 1 .. n + 1 - over : 1 + over + i - 1 = i + over
    BY <1>4, <1>6
  <2> QED BY <2>2, <2>3, <2>4
<1> HIDE DEF next
<1>9. /\ collector'.kept = next /\ collector'.dropped = collector.dropped + over
      /\ collector'.capacity = collector.capacity
      /\ collector' \in [kept : Seq(Nat), dropped : Nat, capacity : Nat]
  <2>1. collector' = [kept |-> next, dropped |-> collector.dropped + over,
                      capacity |-> collector.capacity]
    BY <1>1, <1>5
  <2>2. collector.dropped + over \in Nat
    BY <1>6
  <2> QED BY <1>6, <1>8, <2>1, <2>2
<1>10. /\ Len(collector'.kept) + collector'.dropped = Len(spans')
       /\ Len(collector'.kept) <= collector'.capacity
       /\ collector'.dropped > 0 => Len(collector'.kept) = collector'.capacity
  <2>1. /\ Len(collector'.kept) = n + 1 - over /\ collector'.dropped = collector.dropped + over
        /\ collector'.capacity = collector.capacity /\ Len(spans') = Len(spans) + 1
    BY <1>3, <1>8, <1>9
  <2>2. Len(spans) \in Nat
    BY <1>3
  <2> DEFINE d == collector.dropped
             c == collector.capacity
             m == Len(spans)
  <2>3. /\ n + d = m /\ n <= c /\ (d > 0 => n = c) /\ d \in Nat /\ c \in Nat /\ m \in Nat
        /\ over \in {0, 1} /\ (over = 1 <=> n + 1 > c)
    BY <1>1, <1>6, <2>2
  <2> HIDE DEF d, c, m
  <2>4. n + 1 - over + (d + over) = m + 1 /\ n + 1 - over <= c
        /\ (d + over > 0 => n + 1 - over = c)
    <3>1. CASE over = 0
      BY <1>0, <2>3, <3>1
    <3>2. CASE over = 1
      BY <1>0, <2>3, <3>2
    <3> QED BY <2>3, <3>1, <3>2
  <2> QED BY <2>1, <2>4 DEF d, c, m
<1>11. \A i \in 1 .. Len(collector'.kept) : collector'.kept[i] = collector'.dropped + i
  <2> SUFFICES ASSUME NEW i \in 1 .. n + 1 - over PROVE next[i] = collector.dropped + over + i
    BY <1>8, <1>9
  <2>1. i + over \in 1 .. n + 1
    BY <1>4, <1>6
  <2>2. next[i] = collector.dropped + (i + over)
    BY <1>7, <1>8, <2>1
  <2> QED BY <1>4, <1>6, <2>2
<1>12. \A log : LogIsOf(log, spans) => LogIsOf(log, spans')
  <2>1. \A i \in DOMAIN spans : i \in DOMAIN spans' /\ (spans[i].ended => spans'[i].ended)
    BY <1>3
  <2> QED BY <2>1, LogsStay
<1>13. UNCHANGED <<sample, diagnostics, shown, supplied>>
  BY DEF SpanBegins
<1>14. /\ \E T : sample' \in Seq(T)
       /\ Len(sample') >= 4 => \A log \in sample'[4] : LogIsOf(log, spans')
       /\ \A log \in diagnostics'.portCalls : LogIsOf(log, spans')
       /\ shown' = mergeReading(diagnostics', supplied')
  BY <1>12, <1>13 DEF DialsInv
<1> QED BY <1>3, <1>9, <1>10, <1>11, <1>14 DEF DialsInv

LEMMA SpanEndsKeeps ==
  ASSUME DialsInv, NEW n \in DOMAIN spans, SpanEnds(n)
  PROVE  DialsInv'
<1> DEFINE S == [port : SpanPorts, ended : BOOLEAN]
<1>1. spans \in Seq(S)
  BY DEF DialsInv
<1>2. spans' = [spans EXCEPT ![n] = [spans[n] EXCEPT !.ended = TRUE]]
  BY DEF SpanEnds
<1>3. [spans[n] EXCEPT !.ended = TRUE] \in S /\ [spans[n] EXCEPT !.ended = TRUE].ended
  <2>1. spans[n] \in S
    <3> HIDE DEF S
    <3> QED BY <1>1
  <2> QED BY <2>1
<1>4. /\ spans' \in Seq(S) /\ Len(spans') = Len(spans) /\ DOMAIN spans' = DOMAIN spans
      /\ \A i \in DOMAIN spans : spans[i].ended => spans'[i].ended
  BY <1>1, <1>2, <1>3, ExceptSeq
<1>5. \A log : LogIsOf(log, spans) => LogIsOf(log, spans')
  BY <1>4, LogsStay
<1>6. UNCHANGED <<collector, sample, diagnostics, shown, supplied>>
  BY DEF SpanEnds
<1> HIDE DEF S
<1>7. /\ Len(collector'.kept) + collector'.dropped = Len(spans')
      /\ Len(sample') >= 4 => \A log \in sample'[4] : LogIsOf(log, spans')
      /\ \A log \in diagnostics'.portCalls : LogIsOf(log, spans')
      /\ shown' = mergeReading(diagnostics', supplied')
  BY <1>4, <1>5, <1>6 DEF DialsInv, mergeReading
<1> QED BY <1>4, <1>6, <1>7 DEF DialsInv, S

LEMMA ReadFieldKeeps ==
  ASSUME DialsInv, ReadField
  PROVE  DialsInv'
<1>1. PICK T : sample \in Seq(T)
  BY DEF DialsInv
<1> DEFINE e == ReadingOf(Fields[Len(sample) + 1])
<1>2. sample' = Append(sample, e)
  BY DEF ReadField
<1>3. sample \in Seq(T \cup {e})
  BY <1>1
<1>4. /\ sample' \in Seq(T \cup {e}) /\ Len(sample') = Len(sample) + 1 /\ Len(sample) \in Nat
      /\ \A i \in 1 .. Len(sample) : sample'[i] = sample[i]
      /\ sample'[Len(sample) + 1] = e
  BY <1>2, <1>3
<1>5. UNCHANGED <<spans, collector, diagnostics, shown, supplied>>
  BY DEF ReadField
<1>6. Len(sample') >= 4 => \A log \in sample'[4] : LogIsOf(log, spans)
  <2>1. CASE Len(sample) >= 4
    BY <1>4, <2>1 DEF DialsInv
  <2>2. CASE Len(sample) = 3
    <3>1. Fields[4] = "portCalls"
      BY DEF Fields
    <3>2. e = snapshot
      BY <2>2, <3>1 DEF ReadingOf
    <3>3. sample'[4] = snapshot
      BY <1>4, <2>2, <3>2
    <3> QED BY <3>3, SnapshotIsLog
  <2>3. CASE Len(sample) < 3
    BY <1>4, <2>3
  <2>4. Len(sample) >= 4 \/ Len(sample) = 3 \/ Len(sample) < 3
    <3>1. Len(sample) \in Nat
      BY <1>1
    <3>2. \A m \in Nat : m >= 4 \/ m = 3 \/ m < 3
      OBVIOUS
    <3> QED BY <3>1, <3>2
  <2> QED BY <2>1, <2>2, <2>3, <2>4
<1>7. \E U : sample' \in Seq(U)
  BY <1>4
<1> HIDE DEF e
<1>8. shown' = mergeReading(diagnostics', supplied')
  BY <1>5 DEF DialsInv, mergeReading
<1> QED BY <1>5, <1>6, <1>7, <1>8 DEF DialsInv

LEMMA AcceptReadingKeeps ==
  ASSUME DialsInv, AcceptReading
  PROVE  DialsInv'
<1>1. /\ diagnostics' = [f \in ToSet(Fields) |-> sample[CHOOSE i \in DOMAIN Fields : Fields[i] = f]]
      /\ Len(sample) = Len(Fields) /\ sample' = <<>>
      /\ UNCHANGED <<spans, collector, supplied>>
      /\ shown' = IF diagnostics' = diagnostics THEN shown ELSE mergeReading(diagnostics', supplied)
  BY DEF AcceptReading
<1>2. "portCalls" \in ToSet(Fields) /\ Len(Fields) = 5
      /\ (CHOOSE i \in DOMAIN Fields : Fields[i] = "portCalls") = 4
  <2>1. /\ DOMAIN Fields = 1 .. 5 /\ Len(Fields) = 5
        /\ Fields[1] = "wiring" /\ Fields[2] = "activity" /\ Fields[3] = "hydration"
        /\ Fields[4] = "portCalls" /\ Fields[5] = "questions"
    BY DEF Fields
  <2>2. \A i \in DOMAIN Fields : Fields[i] = "portCalls" <=> i = 4
    BY <2>1
  <2>3. 4 \in DOMAIN Fields
    BY <2>1
  <2> QED BY <2>1, <2>2, <2>3 DEF ToSet
<1>3. diagnostics'.portCalls = sample[4]
  BY <1>1, <1>2
<1>4. \A log \in diagnostics'.portCalls : LogIsOf(log, spans')
  BY <1>1, <1>2, <1>3 DEF DialsInv
<1>5. (\E T : sample' \in Seq(T)) /\ Len(sample') = 0
  <2>1. sample' \in Seq(Nat)
    BY <1>1
  <2> QED BY <1>1, <2>1
<1>6. shown' = mergeReading(diagnostics', supplied')
  <2>1. shown = mergeReading(diagnostics, supplied)
    BY DEF DialsInv
  <2>2. CASE diagnostics' = diagnostics
    BY <1>1, <2>1, <2>2
  <2>3. CASE diagnostics' # diagnostics
    BY <1>1, <2>3
  <2> QED BY <2>2, <2>3
<1>7. Len(sample') >= 4 => \A log \in sample'[4] : LogIsOf(log, spans')
  BY <1>5
<1> QED BY <1>1, <1>4, <1>5, <1>6, <1>7 DEF DialsInv

LEMMA DialsInvHolds ==
  /\ makeDiagnosticsStore => DialsInv
  /\ DialsInv /\ [DiagnosticsNext]_dialVars => DialsInv'
<1>1. ASSUME DialsInv, ClientWorks PROVE DialsInv'
  <2>1. UNCHANGED <<spans, collector, sample, diagnostics, shown, supplied>>
    BY <1>1 DEF ClientWorks
  <2> QED BY <1>1, <2>1 DEF DialsInv, mergeReading
<1>2. ASSUME DialsInv, UNCHANGED dialVars PROVE DialsInv'
  BY <1>2 DEF DialsInv, dialVars, mergeReading
<1> QED BY <1>1, <1>2, DialsBegin, SpanBeginsKeeps, SpanEndsKeeps, ReadFieldKeeps, AcceptReadingKeeps
        DEF DiagnosticsNext

----------------------------------------------------------------------------
(* DockIsCurrent holds of every dock whose timeline has room for all of    *)
(* its records, whatever they are, in whatever order and however often     *)
(* they come, whatever is sampled while the client works, and for any      *)
(* capacities of the span collector.  The room is what the property needs: *)
(* a timeline past its capacity drops the oldest (Timeline.ts:243).        *)
THEOREM DockShowsWhatItHolds ==
  ASSUME TimelineCapacity \in Nat, Cardinality(DockRecords) <= TimelineCapacity
  PROVE  DockSpec => []DockIsCurrent
<1> DEFINE Inv == TimelineInv /\ DialsInv
<1>1. DockInit => Inv
  BY TimelineInvHolds, DialsInvHolds DEF DockInit
<1>2. Inv /\ [DockNext]_<<timelineVars, dialVars>> => Inv'
  <2>1. TimelineInv /\ UNCHANGED timelineVars => TimelineInv'
    BY TimelineInvHolds
  <2>2. DialsInv /\ UNCHANGED dialVars => DialsInv'
    BY DialsInvHolds
  <2>3. TimelineInv /\ TimelineStoreNext => TimelineInv'
    BY TimelineInvHolds
  <2>4. DialsInv /\ DiagnosticsNext => DialsInv'
    BY DialsInvHolds
  <2> QED BY <2>1, <2>2, <2>3, <2>4 DEF DockNext
<1>3. Inv => DockIsCurrent
  BY TimelineInvImplies, DialsInvImplies DEF DockIsCurrent
<1> QED BY <1>1, <1>2, <1>3, PTL DEF DockSpec

----------------------------------------------------------------------------
(* The folds of the stream, taken one element at a time.                   *)

(* Counting up: what holds of none and of one more holds of any number.    *)
LEMMA Counting ==
  ASSUME NEW G \in SUBSET Nat, 0 \in G, \A k \in G : k + 1 \in G
  PROVE  \A n \in Nat : n \in G
<1> DEFINE B == Nat \ G
<1>1. SUFFICES ASSUME B # {} PROVE FALSE
  OBVIOUS
<1>2. Min(B) \in B /\ \A y \in B : Min(B) <= y
  BY <1>1, LeastOfNumbers
<1>3. PICK m \in B : \A y \in B : m <= y
  BY <1>2
<1>4. m # 0 /\ m - 1 \in Nat
  BY <1>3
<1>5. m - 1 \in G
  <2>1. ~(m <= m - 1)
    BY <1>4
  <2> QED BY <1>3, <1>4, <2>1
<1>6. (m - 1) + 1 = m
  BY <1>4
<1> QED BY <1>3, <1>5, <1>6

(* The folds of the stream, one element at a time: records ingested, rows  *)
(* inserted, and the elements of a set kept.                               *)
FoldStep(op, T, to, x) ==
    IF op = "ingest" THEN Ingest(to, x)
    ELSE IF op = "insert" THEN Insert(to, x)
    ELSE IF x \in T THEN Append(to, x) ELSE to

IterStep(g, op, T, base, s, I) ==
    IF I = {} THEN base ELSE FoldStep(op, T, g[I \ {Max(I)}], s[Max(I)])

Iterated(op, T, base, s, D) ==
    CHOOSE g : g = [I \in SUBSET D |-> IterStep(g, op, T, base, s, I)]

LEMMA IterExists ==
  ASSUME NEW op, NEW T, NEW base, NEW s, NEW n \in Nat
  PROVE  \E g : g = [I \in SUBSET (1 .. n) |-> IterStep(g, op, T, base, s, I)]
<1> DEFINE G == {k \in Nat : \E g : g = [I \in SUBSET (1 .. k) |-> IterStep(g, op, T, base, s, I)]}
<1>1. 0 \in G
  <2> DEFINE g == [I \in SUBSET (1 .. 0) |-> base]
  <2>1. \A I \in SUBSET (1 .. 0) : I = {}
    OBVIOUS
  <2>2. g = [I \in SUBSET (1 .. 0) |-> IterStep(g, op, T, base, s, I)]
    BY <2>1 DEF IterStep
  <2> QED BY <2>2
<1>2. ASSUME NEW k \in G PROVE k + 1 \in G
  <2>1. k \in Nat /\ \E f : f = [I \in SUBSET (1 .. k) |-> IterStep(f, op, T, base, s, I)]
    OBVIOUS
  <2>2. PICK f : f = [I \in SUBSET (1 .. k) |-> IterStep(f, op, T, base, s, I)]
    BY <2>1
  <2> DEFINE g == [I \in SUBSET (1 .. k + 1) |->
                      IF I \subseteq 1 .. k THEN f[I] ELSE IterStep(f, op, T, base, s, I)]
  <2>3. ASSUME NEW I \in SUBSET (1 .. k + 1)
        PROVE  IterStep(g, op, T, base, s, I) = IterStep(f, op, T, base, s, I)
    <3>1. CASE I = {}
      BY <3>1 DEF IterStep
    <3>2. CASE I # {}
      <4>0. k + 1 \in Nat
        BY <2>1
      <4>1. Max(I) \in I /\ \A y \in I : Max(I) >= y
        BY <3>2, <4>0, GreatestOfNumbers
      <4>2. I \ {Max(I)} \subseteq 1 .. k
        <5> SUFFICES ASSUME NEW y \in I, y # Max(I) PROVE y \in 1 .. k
          OBVIOUS
        <5>1. y \in 1 .. k + 1 /\ Max(I) \in 1 .. k + 1 /\ y <= Max(I)
          BY <4>1
        <5> QED BY <2>1, <5>1
      <4>3. g[I \ {Max(I)}] = f[I \ {Max(I)}]
        BY <4>2
      <4> HIDE DEF g
      <4> QED BY <4>3 DEF IterStep
    <3> QED BY <3>1, <3>2
  <2>4. \A I \in SUBSET (1 .. k + 1) :
            I \subseteq 1 .. k => f[I] = IterStep(f, op, T, base, s, I)
    BY <2>2
  <2>5. g = [I \in SUBSET (1 .. k + 1) |-> IterStep(f, op, T, base, s, I)]
    BY <2>4
  <2>6. g = [I \in SUBSET (1 .. k + 1) |-> IterStep(g, op, T, base, s, I)]
    <3> HIDE DEF g
    <3> QED BY <2>3, <2>5
  <2> HIDE DEF g
  <2> QED BY <2>1, <2>6
<1> HIDE DEF G
<1>3. G \in SUBSET Nat
  BY DEF G
<1>4. n \in G
  BY <1>1, <1>2, <1>3, Counting
<1> QED BY <1>4 DEF G

(* A fold is reached one element after another.                            *)
Folds(op, T, base, s, n, to) ==
    \E f : /\ f[0] = base
           /\ \A j \in 1 .. n : f[j] = FoldStep(op, T, f[j - 1], s[j])
           /\ to = f[n]

LEMMA IterFolds ==
  ASSUME NEW op, NEW T, NEW base, NEW s, NEW n \in Nat
  PROVE  Folds(op, T, base, s, n,
           Iterated(op, T, base, s, 1 .. n)[1 .. n])
<1> DEFINE g == Iterated(op, T, base, s, 1 .. n)
           f == [j \in 0 .. n |-> g[1 .. j]]
<1>1. g = [I \in SUBSET (1 .. n) |-> IterStep(g, op, T, base, s, I)]
  BY IterExists DEF Iterated
<1> HIDE DEF g
<1>2. f[0] = base
  <2>1. g[1 .. 0] = IterStep(g, op, T, base, s, 1 .. 0)
    BY <1>1
  <2>2. 1 .. 0 = {}
    OBVIOUS
  <2> QED BY <2>1, <2>2 DEF IterStep
<1>3. ASSUME NEW j \in 1 .. n PROVE f[j] = FoldStep(op, T, f[j - 1], s[j])
  <2>1. j \in 0 .. n /\ j - 1 \in 0 .. n /\ 1 .. j \in SUBSET (1 .. n) /\ 1 .. j # {}
    OBVIOUS
  <2>2. Max(1 .. j) = j
    <3>1. Max(1 .. j) \in 1 .. j /\ \A y \in 1 .. j : Max(1 .. j) >= y
      BY <2>1, GreatestOfNumbers
    <3>2. j \in 1 .. j
      OBVIOUS
    <3> QED BY <3>1, <3>2
  <2>3. (1 .. j) \ {j} = 1 .. (j - 1)
    OBVIOUS
  <2>4. g[1 .. j] = IterStep(g, op, T, base, s, 1 .. j)
    BY <1>1, <2>1
  <2>5. g[1 .. j] = FoldStep(op, T, g[1 .. (j - 1)], s[j])
    BY <2>1, <2>2, <2>3, <2>4 DEF IterStep
  <2> QED BY <2>1, <2>5
<1>4. f[n] = g[1 .. n]
  OBVIOUS
<1> HIDE DEF f
<1> QED BY <1>2, <1>3, <1>4 DEF Folds, g

LEMMA IngestsOneByOne ==
  ASSUME NEW rows, NEW s, NEW n \in Nat, DOMAIN s = 1 .. n
  PROVE  Folds("ingest", {}, rows, s, n, IngestAll(rows, s))
<1>1. IngestAll(rows, s) =
        Iterated("ingest", {}, rows, s, DOMAIN s)[DOMAIN s]
  BY DEF IngestAll, FoldLeft, MapThenFoldSet, Iterated, IterStep, FoldStep
<1> QED BY <1>1, IterFolds

LEMMA InsertsOneByOne ==
  ASSUME NEW s, NEW n \in Nat, DOMAIN s = 1 .. n
  PROVE  Folds("insert", {}, <<>>, s, n, ByTime(s))
<1>1. ByTime(s) =
        Iterated("insert", {}, <<>>, s, DOMAIN s)[DOMAIN s]
  BY DEF ByTime, FoldLeft, MapThenFoldSet, Iterated, IterStep, FoldStep
<1> QED BY <1>1, IterFolds

LEMMA FiltersOneByOne ==
  ASSUME NEW T, NEW s, NEW n \in Nat, DOMAIN s = 1 .. n
  PROVE  Folds("filter", T, <<>>, s, n, Filtered(s, T))
<1>1. Filtered(s, T) =
        Iterated("filter", T, <<>>, s, DOMAIN s)[DOMAIN s]
  BY DEF Filtered, FoldLeft, MapThenFoldSet, Iterated, IterStep, FoldStep
<1> QED BY <1>1, IterFolds

UpTo(s, k) == {s[i] : i \in 1 .. k}

LEMMA UpToOneMore ==
  ASSUME NEW s, NEW k \in Nat
  PROVE  UpTo(s, k + 1) = UpTo(s, k) \cup {s[k + 1]}
<1>1. 1 .. k + 1 = (1 .. k) \cup {k + 1}
  OBVIOUS
<1> QED BY <1>1 DEF UpTo

LEMMA UpToAll ==
  ASSUME NEW T, NEW s \in Seq(T)
  PROVE  /\ UpTo(s, 0) = {} /\ UpTo(s, Len(s)) = ToSet(s)
         /\ DOMAIN s = 1 .. Len(s) /\ Len(s) \in Nat
         /\ \A i \in 1 .. Len(s) : s[i] \in T
         /\ ToSet(s) \subseteq T
<1>1. DOMAIN s = 1 .. Len(s) /\ Len(s) \in Nat /\ \A i \in 1 .. Len(s) : s[i] \in T
  OBVIOUS
<1>2. 1 .. 0 = {}
  OBVIOUS
<1> QED BY <1>1, <1>2 DEF UpTo, ToSet

(* A whole batch ingested.                                                 *)
LEMMA IngestAllFolds ==
  ASSUME NEW R, Ingestible(R), TimelineCapacity \in Nat, Cardinality(R) <= TimelineCapacity,
         NEW S \in SUBSET R, NEW rows, Folded(rows, S, R), NEW s \in Seq(R)
  PROVE  Folded(IngestAll(rows, s), S \cup ToSet(s), R)
<1> DEFINE n == Len(s)
<1>1. /\ UpTo(s, 0) = {} /\ UpTo(s, n) = ToSet(s) /\ DOMAIN s = 1 .. n /\ n \in Nat
      /\ \A i \in 1 .. n : s[i] \in R
  BY UpToAll
<1> HIDE DEF n
<1>2. Folds("ingest", {}, rows, s, n, IngestAll(rows, s))
  BY <1>1, IngestsOneByOne
<1>3. PICK f : /\ f[0] = rows
               /\ \A j \in 1 .. n : f[j] = FoldStep("ingest", {}, f[j - 1], s[j])
               /\ IngestAll(rows, s) = f[n]
  BY <1>2 DEF Folds
<1> DEFINE G == {k \in Nat : k <= n => Folded(f[k], S \cup UpTo(s, k), R)}
<1>4. 0 \in G
  BY <1>1, <1>3
<1>5. ASSUME NEW k \in G PROVE k + 1 \in G
  <2>0. k \in Nat
    OBVIOUS
  <2>1. SUFFICES ASSUME k + 1 <= n
                 PROVE  Folded(f[k + 1], S \cup UpTo(s, k + 1), R)
    BY <2>0
  <2>2. k + 1 \in 1 .. n /\ (k + 1) - 1 = k /\ k <= n
    BY <1>1, <2>0, <2>1
  <2>3. Folded(f[k], S \cup UpTo(s, k), R)
    BY <2>2
  <2>4. S \cup UpTo(s, k) \in SUBSET R /\ s[k + 1] \in R
    BY <1>1, <2>0, <2>2 DEF UpTo
  <2>5. f[k + 1] = Ingest(f[k], s[k + 1])
    BY <1>3, <2>2 DEF FoldStep
  <2>6. Folded(f[k + 1], (S \cup UpTo(s, k)) \cup {s[k + 1]}, R)
    BY <2>3, <2>4, <2>5, IngestFolds
  <2> QED BY <2>0, <2>6, UpToOneMore
<1> HIDE DEF G
<1>6. n \in G
  <2>1. G \in SUBSET Nat
    BY DEF G
  <2> QED BY <1>1, <1>4, <1>5, <2>1, Counting
<1>7. Folded(f[n], S \cup UpTo(s, n), R)
  BY <1>1, <1>6 DEF G
<1> QED BY <1>1, <1>3, <1>7

(* A batch put in order of time is the same batch.                         *)
LEMMA ByTimeKeeps ==
  ASSUME NEW T, \A e \in T : e.at \in Nat, NEW s \in Seq(T)
  PROVE  ByTime(s) \in Seq(T) /\ ToSet(ByTime(s)) = ToSet(s)
<1> DEFINE n == Len(s)
<1>1. /\ UpTo(s, 0) = {} /\ UpTo(s, n) = ToSet(s) /\ DOMAIN s = 1 .. n /\ n \in Nat
      /\ \A i \in 1 .. n : s[i] \in T
  BY UpToAll
<1> HIDE DEF n
<1>2. Folds("insert", {}, <<>>, s, n, ByTime(s))
  BY <1>1, InsertsOneByOne
<1>3. PICK f : /\ f[0] = <<>>
               /\ \A j \in 1 .. n : f[j] = FoldStep("insert", {}, f[j - 1], s[j])
               /\ ByTime(s) = f[n]
  BY <1>2 DEF Folds
<1> DEFINE Sorted(k) == f[k] \in Seq(T) /\ InOrderOfTime(f[k]) /\ ToSet(f[k]) = UpTo(s, k)
           G == {k \in Nat : k <= n => Sorted(k)}
<1>4. 0 \in G
  <2>1. ToSet(<<>>) = {} /\ InOrderOfTime(<<>>) /\ <<>> \in Seq(T)
    BY DEF ToSet, InOrderOfTime
  <2> QED BY <1>1, <1>3, <2>1
<1>5. ASSUME NEW k \in G PROVE k + 1 \in G
  <2>0. k \in Nat
    OBVIOUS
  <2>1. SUFFICES ASSUME k + 1 <= n PROVE Sorted(k + 1)
    BY <2>0
  <2>2. k + 1 \in 1 .. n /\ (k + 1) - 1 = k /\ k <= n
    BY <1>1, <2>0, <2>1
  <2>3. f[k] \in Seq(T) /\ InOrderOfTime(f[k]) /\ ToSet(f[k]) = UpTo(s, k)
    BY <2>2
  <2>4. s[k + 1] \in T
    BY <1>1, <2>2
  <2>5. f[k + 1] = Insert(f[k], s[k + 1])
    BY <1>3, <2>2 DEF FoldStep
  <2>6. /\ f[k + 1] \in Seq(T) /\ InOrderOfTime(f[k + 1])
        /\ ToSet(f[k + 1]) = ToSet(f[k]) \cup {s[k + 1]}
    <3> DEFINE rows == f[k]
               row == s[k + 1]
    <3>1. rows \in Seq(T) /\ InOrderOfTime(rows) /\ row \in T /\ f[k + 1] = Insert(rows, row)
      BY <2>3, <2>4, <2>5
    <3> HIDE DEF rows, row
    <3>2. /\ Insert(rows, row) \in Seq(T) /\ InOrderOfTime(Insert(rows, row))
          /\ ToSet(Insert(rows, row)) = ToSet(rows) \cup {row}
      BY <3>1, InsertPlaces
    <3>3. /\ f[k + 1] \in Seq(T) /\ InOrderOfTime(f[k + 1])
          /\ ToSet(f[k + 1]) = ToSet(rows) \cup {row}
      BY <3>1, <3>2
    <3> QED BY <3>3 DEF rows, row
  <2>7. UpTo(s, k + 1) = UpTo(s, k) \cup {s[k + 1]}
    BY <2>0, UpToOneMore
  <2>8. ToSet(f[k + 1]) = UpTo(s, k + 1)
    BY <2>3, <2>6, <2>7
  <2> QED BY <2>6, <2>8
<1> HIDE DEF G, Sorted
<1>6. n \in G
  <2>1. G \in SUBSET Nat
    BY DEF G
  <2> QED BY <1>1, <1>4, <1>5, <2>1, Counting
<1>7. Sorted(n)
  BY <1>1, <1>6 DEF G
<1> QED BY <1>1, <1>3, <1>7 DEF Sorted

(* What is kept of a sequence is what of it is in the set, in its order.   *)
InTheOrderOf(t, s, n) ==
    \A i, j \in DOMAIN t : i < j => \E a, b \in 1 .. n : a < b /\ t[i] = s[a] /\ t[j] = s[b]

LEMMA FilteredKeeps ==
  ASSUME NEW T, NEW X, NEW s \in Seq(X)
  PROVE  /\ Filtered(s, T) \in Seq(X)
         /\ ToSet(Filtered(s, T)) = ToSet(s) \cap T
         /\ InTheOrderOf(Filtered(s, T), s, Len(s))
<1> DEFINE n == Len(s)
<1>1. /\ UpTo(s, 0) = {} /\ UpTo(s, n) = ToSet(s) /\ DOMAIN s = 1 .. n /\ n \in Nat
      /\ \A i \in 1 .. n : s[i] \in X
  BY UpToAll
<1> HIDE DEF n
<1>2. Folds("filter", T, <<>>, s, n, Filtered(s, T))
  BY <1>1, FiltersOneByOne
<1>3. PICK f : /\ f[0] = <<>>
               /\ \A j \in 1 .. n : f[j] = FoldStep("filter", T, f[j - 1], s[j])
               /\ Filtered(s, T) = f[n]
  BY <1>2 DEF Folds
<1> DEFINE Kept(k) == f[k] \in Seq(X) /\ ToSet(f[k]) = UpTo(s, k) \cap T /\ InTheOrderOf(f[k], s, k)
           G == {k \in Nat : k <= n => Kept(k)}
<1>4. 0 \in G
  <2>1. ToSet(<<>>) = {} /\ InTheOrderOf(<<>>, s, 0) /\ <<>> \in Seq(X)
    BY DEF ToSet, InTheOrderOf
  <2> QED BY <1>1, <1>3, <2>1
<1>5. ASSUME NEW k \in G PROVE k + 1 \in G
  <2>0. k \in Nat
    OBVIOUS
  <2>1. SUFFICES ASSUME k + 1 <= n PROVE Kept(k + 1)
    BY <2>0
  <2>2. k + 1 \in 1 .. n /\ (k + 1) - 1 = k /\ k <= n
    BY <1>1, <2>0, <2>1
  <2>3. f[k] \in Seq(X) /\ ToSet(f[k]) = UpTo(s, k) \cap T /\ InTheOrderOf(f[k], s, k)
    BY <2>2
  <2>4. s[k + 1] \in X
    BY <1>1, <2>2
  <2>5. f[k + 1] = IF s[k + 1] \in T THEN Append(f[k], s[k + 1]) ELSE f[k]
    BY <1>3, <2>2 DEF FoldStep
  <2>6. UpTo(s, k + 1) = UpTo(s, k) \cup {s[k + 1]}
    BY <2>0, UpToOneMore
  <2>7. CASE s[k + 1] \notin T
    <3>1. InTheOrderOf(f[k], s, k + 1)
      <4>1. \A a \in 1 .. k : a \in 1 .. k + 1
        BY <2>0
      <4> QED BY <2>3, <4>1 DEF InTheOrderOf
    <3> QED BY <2>3, <2>5, <2>6, <2>7, <3>1
  <2>8. CASE s[k + 1] \in T
    <3> DEFINE t == f[k]
               e == s[k + 1]
               u == Append(t, e)
    <3>1. /\ u \in Seq(X) /\ Len(u) = Len(t) + 1 /\ Len(t) \in Nat
          /\ DOMAIN t = 1 .. Len(t) /\ DOMAIN u = 1 .. (Len(t) + 1)
          /\ \A i \in 1 .. Len(t) : u[i] = t[i]
          /\ u[Len(t) + 1] = e
      BY <2>3, <2>4, AppendFacts
    <3>2. f[k + 1] = u
      BY <2>5, <2>8
    <3>3. ToSet(t) = UpTo(s, k) \cap T
      BY <2>3
    <3>4. UpTo(s, k + 1) \cap T = (UpTo(s, k) \cap T) \cup {e}
      BY <2>6, <2>8
    <3>5. InTheOrderOf(t, s, k)
      BY <2>3
    <3>6. \A i \in 1 .. Len(t) : \E a \in 1 .. k : t[i] = s[a]
      BY <3>1, <3>3 DEF ToSet, UpTo
    <3>7. e = s[k + 1]
      OBVIOUS
    <3> HIDE DEF u, t, e
    <3>8. 1 .. (Len(t) + 1) = (1 .. Len(t)) \cup {Len(t) + 1}
      BY <3>1
    <3>9. ToSet(u) = ToSet(t) \cup {e}
      BY <3>1, <3>8 DEF ToSet
    <3>10. InTheOrderOf(u, s, k + 1)
      <4> SUFFICES ASSUME NEW i \in DOMAIN u, NEW j \in DOMAIN u, i < j
                   PROVE  \E a, b \in 1 .. (k + 1) : a < b /\ u[i] = s[a] /\ u[j] = s[b]
        BY Zenon DEF InTheOrderOf
      <4>1. i \in 1 .. Len(t) /\ u[i] = t[i]
        BY <3>1
      <4>2. CASE j = Len(t) + 1
        <5>1. PICK a \in 1 .. k : t[i] = s[a]
          BY <3>6, <4>1
        <5>2. a \in 1 .. (k + 1) /\ k + 1 \in 1 .. (k + 1) /\ a < k + 1
          BY <2>0
        <5>3. u[i] = s[a] /\ u[j] = s[k + 1]
          BY <3>1, <3>7, <4>1, <4>2, <5>1
        <5> QED BY <5>2, <5>3
      <4>3. CASE j # Len(t) + 1
        <5>1. j \in 1 .. Len(t) /\ u[j] = t[j]
          BY <3>1, <4>3
        <5>2. PICK a \in 1 .. k, b \in 1 .. k : a < b /\ t[i] = s[a] /\ t[j] = s[b]
          BY <3>1, <3>5, <4>1, <5>1 DEF InTheOrderOf
        <5>3. a \in 1 .. (k + 1) /\ b \in 1 .. (k + 1)
          BY <2>0
        <5> QED BY <4>1, <5>1, <5>2, <5>3
      <4> QED BY <4>2, <4>3
    <3> QED BY <3>1, <3>2, <3>3, <3>4, <3>9, <3>10
  <2> QED BY <2>7, <2>8
<1> HIDE DEF G, Kept
<1>6. n \in G
  <2>1. G \in SUBSET Nat
    BY DEF G
  <2> QED BY <1>1, <1>4, <1>5, <2>1, Counting
<1>7. Kept(n)
  BY <1>1, <1>6 DEF G
<1>8. n = Len(s)
  BY DEF n
<1> QED BY <1>1, <1>3, <1>7, <1>8 DEF Kept

----------------------------------------------------------------------------
(* A backlog by time: as the numbers of its entries are different, there is*)
(* one order to present it in.                                             *)

(* A sequence that holds each of its elements once is as long as their set.*)
LEMMA LengthOfEachOnce ==
  ASSUME NEW T, NEW s \in Seq(T), EachOnce(s)
  PROVE  Cardinality(ToSet(s)) = Len(s) /\ IsFiniteSet(ToSet(s))
<1>1. DOMAIN s = 1 .. Len(s) /\ Len(s) \in Nat
  OBVIOUS
<1> DEFINE n == Len(s)
           f == [i \in 1 .. n |-> s[i]]
<1>2. f \in Bijection(1 .. n, ToSet(s))
  <2>1. f \in [1 .. n -> ToSet(s)]
    BY <1>1 DEF ToSet
  <2>2. \A i, j \in 1 .. n : f[i] = f[j] => i = j
    BY <1>1 DEF EachOnce
  <2>3. \A e \in ToSet(s) : \E i \in 1 .. n : f[i] = e
    BY <1>1 DEF ToSet
  <2> QED BY <2>1, <2>2, <2>3 DEF Bijection, Injection, IsInjective, Surjection
<1>3. ExistsBijection(1 .. n, ToSet(s))
  BY <1>2 DEF ExistsBijection
<1> HIDE DEF f
<1>4. Cardinality(ToSet(s)) = n
  BY <1>1, <1>3, FS_CountingElements
<1>5. IsFiniteSet(1 .. n)
  BY <1>1, FS_Interval
<1> QED BY <1>3, <1>4, <1>5, FS_Bijection

(* Entries of which no two have one number.                                *)
Presentable(S) ==
    /\ S \subseteq Entry /\ IsFiniteSet(S)
    /\ \A a, b \in S : a.seq = b.seq => a = b

Timed == \A x \in Records : x.at \in Nat

LEMMA ComesBeforeOrders ==
  ASSUME NEW S, Presentable(S), Timed
  PROVE  /\ \A a, b \in S : a # b => ComesBefore(a, b) \/ ComesBefore(b, a)
         /\ \A a, b \in S : ComesBefore(a, b) => a # b /\ ~ComesBefore(b, a)
         /\ \A a, b, c \in S : ComesBefore(a, b) /\ ComesBefore(b, c) => ComesBefore(a, c)
<1>1. \A a \in S : a.seq \in Nat /\ a.record.at \in Nat
  BY DEF Presentable, Entry, Timed
<1>2. \A a, b \in S : a # b => a.seq # b.seq
  BY DEF Presentable
<1> QED BY <1>1, <1>2 DEF ComesBefore

LEMMA HasLast ==
  ASSUME NEW S, Presentable(S), Timed, S # {}
  PROVE  \E m \in S : \A a \in S \ {m} : ComesBefore(a, m)
<1> DEFINE Greatest(U) == \E m \in U : \A a \in U \ {m} : ComesBefore(a, m)
           G == {n \in Nat : \A U \in SUBSET S : Cardinality(U) = n /\ U # {} => Greatest(U)}
<1>1. IsFiniteSet(S) /\ Cardinality(S) \in Nat
  BY FS_CardinalityType DEF Presentable
<1>2. \A U \in SUBSET S : IsFiniteSet(U) /\ Cardinality(U) \in Nat
  BY <1>1, FS_Subset, FS_CardinalityType
<1>3. 0 \in G
  BY <1>2, FS_EmptySet
<1>4. ASSUME NEW n \in G PROVE n + 1 \in G
  <2>1. SUFFICES ASSUME NEW U \in SUBSET S, Cardinality(U) = n + 1, U # {}
                 PROVE  Greatest(U)
    OBVIOUS
  <2>2. PICK e \in U : TRUE
    BY <2>1
  <2> DEFINE V == U \ {e}
  <2>3. V \in SUBSET S /\ Cardinality(V) = n
    <3>1. Cardinality(V) = (n + 1) - 1
      BY <1>2, <2>1, <2>2, FS_RemoveElement
    <3>2. n \in Nat
      OBVIOUS
    <3> QED BY <3>1, <3>2
  <2>4. CASE V = {}
    BY <2>2, <2>4
  <2>5. CASE V # {}
    <3>1. Greatest(V)
      BY <2>3, <2>5
    <3>2. PICK m \in V : \A a \in V \ {m} : ComesBefore(a, m)
      BY <3>1
    <3>3. m \in S /\ e \in S /\ m # e /\ m \in U
      OBVIOUS
    <3>4. CASE ComesBefore(e, m)
      BY <3>2, <3>3, <3>4
    <3>5. CASE ComesBefore(m, e)
      <4>1. \A a \in V : ComesBefore(a, e)
        BY <3>2, <3>3, <3>5, ComesBeforeOrders
      <4> QED BY <2>2, <4>1
    <3> QED BY <3>3, <3>4, <3>5, ComesBeforeOrders
  <2> QED BY <2>4, <2>5
<1>5. G \in SUBSET Nat
  OBVIOUS
<1> HIDE DEF G, Greatest
<1>6. Cardinality(S) \in G
  BY <1>1, <1>3, <1>4, <1>5, Counting
<1> QED BY <1>6 DEF G, Greatest

Presents(s, S) ==
    /\ s \in Seq(S) /\ ToSet(s) = S
    /\ \A i, j \in DOMAIN s : i < j => ComesBefore(s[i], s[j])

(* Such entries can be presented.                                          *)
LEMMA CanBePresented ==
  ASSUME NEW S, Presentable(S), Timed
  PROVE  \E s : Presents(s, S)
<1> DEFINE G == {n \in Nat : \A U \in SUBSET S : Cardinality(U) = n => \E s : Presents(s, U)}
<1>1. IsFiniteSet(S) /\ Cardinality(S) \in Nat
  BY FS_CardinalityType DEF Presentable
<1>2. \A U \in SUBSET S : IsFiniteSet(U) /\ Cardinality(U) \in Nat /\ Presentable(U)
  BY <1>1, FS_Subset, FS_CardinalityType DEF Presentable
<1>3. 0 \in G
  <2>1. \A U \in SUBSET S : Cardinality(U) = 0 => U = {}
    BY <1>2, FS_EmptySet
  <2>2. Presents(<<>>, {})
    BY DEF Presents, ToSet
  <2> QED BY <2>1, <2>2
<1>4. ASSUME NEW n \in G PROVE n + 1 \in G
  <2>1. SUFFICES ASSUME NEW U \in SUBSET S, Cardinality(U) = n + 1
                 PROVE  \E s : Presents(s, U)
    OBVIOUS
  <2>0. n \in Nat
    OBVIOUS
  <2>2. U # {}
    BY <2>0, <2>1, FS_EmptySet
  <2>3. PICK m \in U : \A a \in U \ {m} : ComesBefore(a, m)
    BY <1>2, <2>2, HasLast
  <2> DEFINE V == U \ {m}
  <2>4. V \in SUBSET S /\ Cardinality(V) = n
    <3>0. IsFiniteSet(U)
      BY <1>2
    <3>1. Cardinality(V) = (n + 1) - 1
      <4> HIDE DEF G
      <4> QED BY <2>1, <2>3, <3>0, FS_RemoveElement
    <3>2. (n + 1) - 1 = n
      BY <2>0
    <3>3. V \in SUBSET S
      OBVIOUS
    <3> HIDE DEF V
    <3> QED BY <3>1, <3>2, <3>3
  <2>5. PICK t : Presents(t, V)
    BY <2>4
  <2> DEFINE s == Append(t, m)
  <2>6. t \in Seq(U) /\ ToSet(t) = V
    <3>1. t \in Seq(V) /\ ToSet(t) = V /\ V \subseteq U
      BY <2>5 DEF Presents
    <3> HIDE DEF V
    <3> QED BY <3>1
  <2>7. /\ s \in Seq(U) /\ Len(s) = Len(t) + 1 /\ Len(t) \in Nat
        /\ DOMAIN t = 1 .. Len(t) /\ DOMAIN s = 1 .. (Len(t) + 1)
        /\ \A i \in 1 .. Len(t) : s[i] = t[i]
        /\ s[Len(t) + 1] = m
    BY <2>6, AppendFacts
  <2>8. \A i, j \in 1 .. Len(t) : i < j => ComesBefore(t[i], t[j])
    BY <2>5, <2>7 DEF Presents
  <2>9. \A i \in 1 .. Len(t) : ComesBefore(t[i], m)
    <3>1. \A i \in 1 .. Len(t) : t[i] \in V
      BY <2>6, <2>7 DEF ToSet
    <3> QED BY <2>3, <3>1
  <2> HIDE DEF s, V
  <2>10. \A i, j \in DOMAIN s : i < j => ComesBefore(s[i], s[j])
    <3> SUFFICES ASSUME NEW i \in 1 .. (Len(t) + 1), NEW j \in 1 .. (Len(t) + 1), i < j
                 PROVE  ComesBefore(s[i], s[j])
      BY <2>7
    <3>1. i \in 1 .. Len(t)
      BY <2>7
    <3>2. CASE j = Len(t) + 1
      BY <2>7, <2>9, <3>1, <3>2
    <3>3. CASE j # Len(t) + 1
      <4>1. j \in 1 .. Len(t)
        BY <2>7, <3>3
      <4> QED BY <2>7, <2>8, <3>1, <4>1
    <3> QED BY <3>2, <3>3
  <2>11. ToSet(s) = U
    <3>1. ToSet(s) = ToSet(t) \cup {m}
      <4>1. 1 .. (Len(t) + 1) = (1 .. Len(t)) \cup {Len(t) + 1}
        BY <2>7
      <4> QED BY <2>7, <4>1 DEF ToSet
    <3> QED BY <2>6, <3>1 DEF V
  <2> QED BY <2>7, <2>10, <2>11 DEF Presents
<1>5. G \in SUBSET Nat
  OBVIOUS
<1> HIDE DEF G
<1>6. Cardinality(S) \in G
  BY <1>1, <1>3, <1>4, <1>5, Counting
<1> QED BY <1>6 DEF G

(* And are, each once.                                                     *)
LEMMA PresentedPresents ==
  ASSUME NEW S, Presentable(S), Timed
  PROVE  Presents(Presented(S), S)
<1> DEFINE Fits(s) == s \in SetToSeqs(S) /\ \A i, j \in DOMAIN s : i < j => ComesBefore(s[i], s[j])
<1>1. PICK s : Presents(s, S)
  BY CanBePresented
<1>2. /\ s \in Seq(S) /\ ToSet(s) = S /\ DOMAIN s = 1 .. Len(s) /\ Len(s) \in Nat
      /\ \A i \in 1 .. Len(s) : s[i] \in S
      /\ \A i, j \in DOMAIN s : i < j => ComesBefore(s[i], s[j])
  <2>1. s \in Seq(S)
    BY <1>1 DEF Presents
  <2> QED BY <1>1, <2>1 DEF Presents
<1>3. EachOnce(s)
  <2> SUFFICES ASSUME NEW i \in 1 .. Len(s), NEW j \in 1 .. Len(s), i # j PROVE s[i] # s[j]
    BY <1>2 DEF EachOnce
  <2>1. ComesBefore(s[i], s[j]) \/ ComesBefore(s[j], s[i])
    BY <1>2
  <2> QED BY <1>2, <2>1, ComesBeforeOrders
<1>4. Cardinality(S) = Len(s)
  BY <1>2, <1>3, LengthOfEachOnce
<1>5. s \in [1 .. Cardinality(S) -> S]
  BY <1>2, <1>4
<1>6. Fits(s)
  BY <1>2, <1>3, <1>4, <1>5 DEF SetToSeqs, EachOnce
<1> DEFINE t == Presented(S)
<1>7. Fits(t)
  <2>1. t = CHOOSE u \in SetToSeqs(S) : \A i, j \in DOMAIN u : i < j => ComesBefore(u[i], u[j])
    BY DEF Presented
  <2> QED BY <1>6, <2>1
<1>8. t \in [1 .. Len(s) -> S] /\ \A i, j \in 1 .. Len(s) : i # j => t[i] # t[j]
  BY <1>4, <1>7 DEF SetToSeqs
<1>9. \A i, j \in DOMAIN t : i < j => ComesBefore(t[i], t[j])
  BY <1>7
<1> HIDE DEF t, Fits
<1>10. t \in Seq(S) /\ DOMAIN t = 1 .. Len(s)
  BY <1>2, <1>8
<1>11. EachOnce(t)
  BY <1>8, <1>10 DEF EachOnce
<1>12. Cardinality(ToSet(t)) = Cardinality(S) /\ ToSet(t) \subseteq S
  <2>1. Len(t) = Len(s)
    BY <1>2, <1>10
  <2>2. Cardinality(ToSet(t)) = Len(t)
    BY <1>10, <1>11, LengthOfEachOnce
  <2>3. ToSet(t) \subseteq S
    BY <1>8, <1>10 DEF ToSet
  <2> QED BY <1>4, <2>1, <2>2, <2>3
<1>13. ToSet(t) = S
  <2>1. IsFiniteSet(S)
    BY DEF Presentable
  <2> QED BY <1>12, <2>1, FS_Subset
<1> QED BY <1>9, <1>10, <1>13 DEF Presents, t

(* The log's numbers: those it retains are its last, one after another,    *)
(* and no two entries of a backlog have one number.                        *)
Numbered ==
    /\ Len(entries) <= seq
    /\ \A i \in DOMAIN entries : entries[i].seq = seq - Len(entries) + i
    /\ \A r \in Readers : Presentable(reads[r].backlog)

LEMMA RetainNumbers ==
  ASSUME LogTypeOK, LogAssumption, NEW x \in Records, Retain(x), seq' = seq + 1,
         Len(entries) <= seq,
         \A i \in DOMAIN entries : entries[i].seq = seq - Len(entries) + i
  PROVE  /\ Len(entries') <= seq'
         /\ \A i \in DOMAIN entries' : entries'[i].seq = seq' - Len(entries') + i
<1> DEFINE e == [seq |-> seq + 1, record |-> x]
           longer == Append(entries, e)
<1>1. e \in Entry /\ entries \in Seq(Entry) /\ Len(entries) \in Nat /\ seq \in Nat
  BY DEF LogTypeOK, Entry
<1>2. /\ longer \in Seq(Entry) /\ Len(longer) = Len(entries) + 1
      /\ DOMAIN entries = 1..Len(entries) /\ DOMAIN longer = 1..(Len(entries) + 1)
      /\ \A i \in 1..Len(entries) : longer[i] = entries[i]
      /\ longer[Len(entries) + 1] = e
  BY <1>1, AppendFacts
<1>3. e.seq = seq + 1
  OBVIOUS
<1>4. entries' = IF Len(longer) > Capacity THEN Tail(longer) ELSE longer
  BY DEF Retain
<1> HIDE DEF longer, e
<1>5. \A i \in 1 .. (Len(entries) + 1) : longer[i].seq = (seq + 1) - (Len(entries) + 1) + i
  <2> SUFFICES ASSUME NEW i \in 1 .. (Len(entries) + 1)
               PROVE  longer[i].seq = (seq + 1) - (Len(entries) + 1) + i
    OBVIOUS
  <2>1. CASE i = Len(entries) + 1
    BY <1>1, <1>2, <1>3, <2>1
  <2>2. CASE i # Len(entries) + 1
    <3>1. i \in 1 .. Len(entries)
      BY <1>1, <2>2
    <3>2. longer[i].seq = seq - Len(entries) + i
      BY <1>2, <3>1
    <3> QED BY <1>1, <3>2
  <2> QED BY <2>1, <2>2
<1>6. CASE Len(longer) > Capacity
  <2>1. longer # <<>>
    BY <1>1, <1>2
  <2>2. /\ Tail(longer) \in Seq(Entry) /\ Len(Tail(longer)) = Len(longer) - 1
        /\ \A i \in 1..Len(Tail(longer)) : Tail(longer)[i] = longer[i + 1]
    BY <1>2, <2>1, HeadTailProperties
  <2>3. entries' = Tail(longer) /\ Len(entries') = Len(entries) /\ DOMAIN entries' = 1 .. Len(entries)
    BY <1>1, <1>2, <1>4, <1>6, <2>2
  <2>4. ASSUME NEW i \in 1 .. Len(entries)
        PROVE  entries'[i].seq = seq' - Len(entries) + i
    <3>1. i + 1 \in 1 .. (Len(entries) + 1) /\ entries'[i] = longer[i + 1]
      <4>1. i \in 1 .. Len(Tail(longer)) /\ i + 1 \in 1 .. (Len(entries) + 1)
        BY <1>1, <1>2, <2>2
      <4> QED BY <2>2, <2>3, <4>1
    <3>2. entries'[i].seq = (seq + 1) - (Len(entries) + 1) + (i + 1)
      BY <1>5, <3>1
    <3> QED BY <1>1, <3>2
  <2>5. Len(entries') <= seq'
    BY <1>1, <2>3
  <2> QED BY <2>3, <2>4, <2>5
<1>7. CASE ~(Len(longer) > Capacity)
  <2>1. entries' = longer
    BY <1>4, <1>7
  <2>2. Len(entries') = Len(entries) + 1 /\ DOMAIN entries' = 1 .. (Len(entries) + 1)
    BY <1>2, <2>1
  <2>3. Len(entries') <= seq'
    BY <1>1, <2>2
  <2>4. \A i \in DOMAIN entries' : entries'[i].seq = seq' - Len(entries') + i
    BY <1>5, <2>1, <2>2
  <2> QED BY <2>3, <2>4
<1> QED BY <1>6, <1>7

LEMMA NothingPresented == Presentable({})
BY FS_EmptySet DEF Presentable

LEMMA MissedPresents ==
  ASSUME LogTypeOK, Numbered, NEW cursor
  PROVE  Presentable(Missed(cursor))
<1>1. entries \in Seq(Entry) /\ Len(entries) \in Nat /\ DOMAIN entries = 1 .. Len(entries) /\ seq \in Nat
  BY DEF LogTypeOK
<1>2. \A i \in 1 .. Len(entries) : entries[i].seq = seq - Len(entries) + i
  BY <1>1 DEF Numbered
<1>3. Missed(cursor) \subseteq Elements(entries) /\ Elements(entries) \subseteq Entry
  BY ElementsTyped DEF Missed
<1>4. \A a, b \in Elements(entries) : a.seq = b.seq => a = b
  <2> SUFFICES ASSUME NEW i \in 1 .. Len(entries), NEW j \in 1 .. Len(entries),
                      entries[i].seq = entries[j].seq
               PROVE  i = j
    BY <1>1 DEF Elements
  <2> QED BY <1>1, <1>2
<1>5. IsFiniteSet(Elements(entries))
  <2>1. IsFiniteSet(1 .. Len(entries))
    BY <1>1, FS_Interval
  <2>2. Elements(entries) = {entries[i] : i \in 1 .. Len(entries)}
    BY <1>1 DEF Elements
  <2>3. [i \in 1 .. Len(entries) |-> entries[i]] \in Surjection(1 .. Len(entries), Elements(entries))
    BY <1>1, <2>2 DEF Surjection
  <2> QED BY <2>1, <2>3, FS_Surjection DEF ExistsSurjection
<1>6. IsFiniteSet(Missed(cursor))
  BY <1>3, <1>5, FS_Subset
<1> QED BY <1>3, <1>4, <1>6 DEF Presentable

LEMMA NumberedKept ==
  ASSUME LogTypeOK, LogAssumption, Numbered, [Next]_vars
  PROVE  Numbered'
<1>1. DOMAIN reads = Readers
  BY DEF LogTypeOK
<1>2. ASSUME NEW x \in Records, AppendRecord(x) PROVE Numbered'
  BY <1>2, RetainNumbers DEF Numbered, AppendRecord
<1>3. ASSUME NEW x \in Records, Publish(x) \/ Interrupt(x) PROVE Numbered'
  BY <1>3 DEF Numbered, Publish, Interrupt
<1>4. CASE Clear
  <2>1. entries' = <<>> /\ seq' = seq /\ seq \in Nat /\ reads' = reads
    BY <1>4 DEF Clear, LogTypeOK
  <2> QED BY <2>1 DEF Numbered
<1>5. ASSUME NEW r \in Readers, Snapshot(r) PROVE Numbered'
  <2>1. Presentable(Missed(reads[r].cursor))
    BY MissedPresents
  <2>2. \A q \in Readers : reads'[q].backlog = IF q = r THEN Missed(reads[r].cursor)
                                                        ELSE reads[q].backlog
    BY <1>1, <1>5 DEF Snapshot
  <2> QED BY <1>5, <2>1, <2>2 DEF Numbered, Snapshot
<1>6. ASSUME NEW r \in Readers, Take(r) PROVE Numbered'
  <2>1. \A q \in Readers : reads'[q].backlog = reads[q].backlog
    BY <1>1, <1>6 DEF Take
  <2> QED BY <1>6, <2>1 DEF Numbered, Take
<1>7. CASE ServerRestarts
  <2>1. entries' = <<>> /\ reads' = [r \in Readers |-> Closed]
    BY <1>7 DEF ServerRestarts, Restart
  <2>2. Closed.backlog = {}
    BY DEF Closed, NewRead
  <2>3. /\ Len(entries') <= seq'
        /\ \A i \in DOMAIN entries' : entries'[i].seq = seq' - Len(entries') + i
    BY <1>7, <2>1 DEF ServerRestarts, Restart
  <2>4. \A r \in Readers : Presentable(reads'[r].backlog)
    BY <2>1, <2>2, NothingPresented
  <2>5. (\A r \in Readers : Presentable(reads[r].backlog))' <=>
        \A r \in Readers : Presentable(reads'[r].backlog)
    BY DEF Presentable, Entry
  <2> QED BY <2>3, <2>4, <2>5 DEF Numbered
<1>8. ASSUME NEW r \in Readers, Connect(r) PROVE Numbered'
  <2>1. \A q \in Readers : reads'[q].backlog = IF q = r THEN {} ELSE reads[q].backlog
    BY <1>1, <1>8 DEF Connect, Subscribe, NewRead
  <2> QED BY <1>8, <2>1, NothingPresented DEF Numbered, Connect, Subscribe
<1>9. ASSUME NEW r \in Readers, Drop(r) PROVE Numbered'
  <2>1. \A q \in Readers : reads'[q].backlog = IF q = r THEN {} ELSE reads[q].backlog
    BY <1>1, <1>9 DEF Drop, Close, Closed, NewRead
  <2> QED BY <1>9, <2>1, NothingPresented DEF Numbered, Drop, Close
<1>10. ASSUME NEW r \in Readers, Deliver(r) \/ SyncTimesOut(r) PROVE Numbered'
  BY <1>10 DEF Numbered, Deliver, SyncTimesOut, logVars
<1>11. CASE UNCHANGED vars
  BY <1>11 DEF Numbered, vars, logVars
<1> QED BY <1>2, <1>3, <1>4, <1>5, <1>6, <1>7, <1>8, <1>9, <1>10, <1>11 DEF Next, LogStep

LEMMA NumberedAtFirst ==
  ASSUME LogInit
  PROVE  Numbered
<1>1. entries = <<>> /\ reads = [r \in Readers |-> Closed]
  BY DEF LogInit
<1>2. Closed.backlog = {}
  BY DEF Closed, NewRead
<1>3. Len(entries) <= seq /\ \A i \in DOMAIN entries : entries[i].seq = seq - Len(entries) + i
  BY <1>1 DEF LogInit
<1> QED BY <1>1, <1>2, <1>3, NothingPresented DEF Numbered

----------------------------------------------------------------------------
(* The frames of a connection.                                             *)

(* The two halves of a connection, and their frames one after another.     *)
Prelude(a) == Presented({e \in a.backlog : Framed(e)})
LiveHalf(a) ==
    Filtered(a.taken, {e \in Elements(a.taken) : e.seq > a.highWater /\ Framed(e)})

FramesOf(a) ==
    [i \in DOMAIN Prelude(a) |-> Frame("backlog", Prelude(a)[i])]
    \o <<[event |-> "synced"]>>
    \o [i \in DOMAIN LiveHalf(a) |-> Frame("message", LiveHalf(a)[i])]

LEMMA FramesOfItsRead ==
  ASSUME NEW r \in Readers
  PROVE  Frames(r) = FramesOf(reads[r]) /\ Frames(r)' = FramesOf(reads'[r])
BY DEF Frames, FramesOf, Prelude, LiveHalf, IsLive

LEMMA FramesAre ==
  ASSUME NEW a, Presentable(a.backlog), a.taken \in Seq(Entry), Timed
  PROVE  /\ Presents(Prelude(a), {e \in a.backlog : Framed(e)})
         /\ LiveHalf(a) \in Seq(Entry)
         /\ ToSet(LiveHalf(a)) = {e \in Elements(a.taken) : e.seq > a.highWater /\ Framed(e)}
         /\ InTheOrderOf(LiveHalf(a), a.taken, Len(a.taken))
         /\ Prelude(a) \in Seq(Entry)
         /\ Len(Prelude(a)) \in Nat /\ Len(LiveHalf(a)) \in Nat
         /\ Len(FramesOf(a)) = Len(Prelude(a)) + 1 + Len(LiveHalf(a))
         /\ \A i \in 1 .. Len(Prelude(a)) : FramesOf(a)[i] = Frame("backlog", Prelude(a)[i])
         /\ FramesOf(a)[Len(Prelude(a)) + 1] = [event |-> "synced"]
         /\ \A i \in 1 .. Len(LiveHalf(a)) :
               FramesOf(a)[Len(Prelude(a)) + 1 + i] = Frame("message", LiveHalf(a)[i])
<1> DEFINE B == {e \in a.backlog : Framed(e)}
           P == Prelude(a)
           L == LiveHalf(a)
           T == {e \in Elements(a.taken) : e.seq > a.highWater /\ Framed(e)}
<1>1. a.taken \in Seq(Entry)
  OBVIOUS
<1>2. Presentable(B)
  <2>1. Presentable(a.backlog)
    OBVIOUS
  <2>2. B \in SUBSET a.backlog
    OBVIOUS
  <2>3. IsFiniteSet(B)
    BY <2>1, <2>2, FS_Subset DEF Presentable
  <2> QED BY <2>1, <2>2, <2>3 DEF Presentable
<1>3. Presents(P, B)
  BY <1>2, PresentedPresents DEF Prelude
<1>4. P \in Seq(Entry)
  <2>1. P \in Seq(B) /\ B \subseteq Entry
    BY <1>2, <1>3 DEF Presents, Presentable
  <2> HIDE DEF P, B
  <2> QED BY <2>1
<1>5. L \in Seq(Entry) /\ ToSet(L) = ToSet(a.taken) \cap T
      /\ InTheOrderOf(L, a.taken, Len(a.taken))
  BY <1>1, FilteredKeeps DEF LiveHalf
<1>6. ToSet(L) = T
  BY <1>5 DEF ToSet, Elements
<1>7. FramesOf(a) = [i \in DOMAIN P |-> Frame("backlog", P[i])]
                    \o <<[event |-> "synced"]>>
                    \o [i \in DOMAIN L |-> Frame("message", L[i])]
  BY DEF FramesOf
<1> HIDE DEF P, L, B, T
<1> DEFINE A == {Frame("backlog", e) : e \in Entry} \cup {[event |-> "synced"]}
                  \cup {Frame("message", e) : e \in Entry}
           p == [i \in DOMAIN P |-> Frame("backlog", P[i])]
           q == <<[event |-> "synced"]>>
           l == [i \in DOMAIN L |-> Frame("message", L[i])]
<1>8. DOMAIN P = 1 .. Len(P) /\ DOMAIN L = 1 .. Len(L) /\ Len(P) \in Nat /\ Len(L) \in Nat
  BY <1>4, <1>5
<1>9. p \in Seq(A) /\ Len(p) = Len(P) /\ \A i \in 1 .. Len(P) : p[i] = Frame("backlog", P[i])
  <2>1. \A i \in 1 .. Len(P) : P[i] \in Entry
    BY <1>4
  <2>2. p \in [1 .. Len(P) -> A]
    BY <1>8, <2>1
  <2>3. p \in Seq(A) /\ DOMAIN p = 1 .. Len(P)
    BY <1>8, <2>2
  <2>4. Len(p) = Len(P)
    BY <1>8, <2>3
  <2> QED BY <1>8, <2>3, <2>4
<1>10. l \in Seq(A) /\ Len(l) = Len(L) /\ \A i \in 1 .. Len(L) : l[i] = Frame("message", L[i])
  <2>1. \A i \in 1 .. Len(L) : L[i] \in Entry
    BY <1>5
  <2>2. l \in [1 .. Len(L) -> A]
    BY <1>8, <2>1
  <2>3. l \in Seq(A) /\ DOMAIN l = 1 .. Len(L)
    BY <1>8, <2>2
  <2>4. Len(l) = Len(L)
    BY <1>8, <2>3
  <2> QED BY <1>8, <2>3, <2>4
<1>11. q \in Seq(A) /\ Len(q) = 1 /\ q[1] = [event |-> "synced"]
  OBVIOUS
<1> HIDE DEF A, p, q, l
<1>12. /\ p \o q \in Seq(A) /\ Len(p \o q) = Len(P) + 1
       /\ \A i \in 1 .. (Len(P) + 1) : (p \o q)[i] = IF i <= Len(P) THEN p[i] ELSE q[i - Len(P)]
  <2>1. /\ p \o q \in Seq(A) /\ Len(p \o q) = Len(p) + Len(q)
        /\ \A i \in 1 .. (Len(p) + Len(q)) : (p \o q)[i] = IF i <= Len(p) THEN p[i] ELSE q[i - Len(p)]
    BY <1>9, <1>11, ConcatProperties
  <2>2. Len(p) = Len(P) /\ Len(q) = 1
    BY <1>9, <1>11
  <2> QED BY <2>1, <2>2
<1> DEFINE pq == p \o q
           f == pq \o l
<1>13. pq \in Seq(A) /\ Len(pq) = Len(P) + 1
  BY <1>12
<1> HIDE DEF pq
<1>14. /\ f \in Seq(A) /\ Len(f) = Len(P) + 1 + Len(L)
       /\ \A i \in 1 .. (Len(P) + 1 + Len(L)) :
             f[i] = IF i <= Len(P) + 1 THEN pq[i] ELSE l[i - (Len(P) + 1)]
  BY <1>8, <1>10, <1>13
<1>15. FramesOf(a) = f
  BY <1>7 DEF f, pq, p, q, l
<1> HIDE DEF f
<1>16. \A i \in 1 .. Len(P) : f[i] = Frame("backlog", P[i])
  <2> SUFFICES ASSUME NEW i \in 1 .. Len(P) PROVE f[i] = Frame("backlog", P[i])
    OBVIOUS
  <2>1. i \in 1 .. (Len(P) + 1 + Len(L)) /\ i \in 1 .. (Len(P) + 1) /\ i <= Len(P)
        /\ i <= Len(P) + 1
    BY <1>8
  <2>2. f[i] = pq[i]
    BY <1>14, <2>1
  <2>3. pq[i] = p[i]
    BY <1>12, <2>1 DEF pq
  <2> QED BY <1>9, <2>2, <2>3
<1>17. f[Len(P) + 1] = [event |-> "synced"]
  <2>1. Len(P) + 1 \in 1 .. (Len(P) + 1 + Len(L)) /\ Len(P) + 1 \in 1 .. (Len(P) + 1)
        /\ ~(Len(P) + 1 <= Len(P)) /\ (Len(P) + 1) - Len(P) = 1
    BY <1>8
  <2>2. f[Len(P) + 1] = pq[Len(P) + 1]
    BY <1>14, <2>1
  <2>3. pq[Len(P) + 1] = q[1]
    BY <1>12, <2>1 DEF pq
  <2> QED BY <1>11, <2>2, <2>3
<1>18. \A i \in 1 .. Len(L) : f[Len(P) + 1 + i] = Frame("message", L[i])
  <2> SUFFICES ASSUME NEW i \in 1 .. Len(L) PROVE f[Len(P) + 1 + i] = Frame("message", L[i])
    OBVIOUS
  <2>1. Len(P) + 1 + i \in 1 .. (Len(P) + 1 + Len(L)) /\ ~(Len(P) + 1 + i <= Len(P) + 1)
        /\ (Len(P) + 1 + i) - (Len(P) + 1) = i
    BY <1>8
  <2>2. f[Len(P) + 1 + i] = l[i]
    BY <1>14, <2>1
  <2> QED BY <1>10, <2>2
<1> QED BY <1>3, <1>4, <1>5, <1>6, <1>8, <1>14, <1>15, <1>16, <1>17, <1>18 DEF P, L, B, T

RecordFrame == [event : {"backlog", "message"}, entry : Entry]

LEMMA FramesTyped ==
  ASSUME LogTypeOK, Numbered, Timed, NEW r \in Readers, NEW i \in 1 .. Len(Frames(r))
  PROVE  \/ Frames(r)[i].event = "synced"
         \/ Frames(r)[i] \in RecordFrame
<1> DEFINE P == Prelude(reads[r])
           L == LiveHalf(reads[r])
<1>1. /\ P \in Seq(Entry) /\ L \in Seq(Entry) /\ Len(P) \in Nat /\ Len(L) \in Nat
      /\ Len(Frames(r)) = Len(P) + 1 + Len(L)
      /\ \A k \in 1 .. Len(P) : Frames(r)[k] = Frame("backlog", P[k])
      /\ Frames(r)[Len(P) + 1] = [event |-> "synced"]
      /\ \A k \in 1 .. Len(L) : Frames(r)[Len(P) + 1 + k] = Frame("message", L[k])
  <2>1. Presentable(reads[r].backlog) /\ reads[r].taken \in Seq(Entry)
    BY DEF Numbered, LogTypeOK, ReadAt
  <2> HIDE DEF P, L
  <2> QED BY <2>1, FramesAre, FramesOfItsRead DEF P, L
<1> HIDE DEF P, L
<1>2. CASE i <= Len(P)
  <2>1. i \in 1 .. Len(P)
    BY <1>1, <1>2
  <2>2. P[i] \in Entry /\ Frames(r)[i] = Frame("backlog", P[i])
    BY <1>1, <2>1
  <2> QED BY <2>2 DEF Frame, RecordFrame
<1>3. CASE i = Len(P) + 1
  BY <1>1, <1>3
<1>4. CASE i > Len(P) + 1
  <2> DEFINE k == i - (Len(P) + 1)
  <2>1. k \in 1 .. Len(L) /\ Len(P) + 1 + k = i
    <3>1. i \in Nat /\ i <= Len(P) + 1 + Len(L)
      BY <1>1
    <3> QED BY <1>1, <1>4, <3>1
  <2> HIDE DEF k
  <2>2. L[k] \in Entry /\ Frames(r)[i] = Frame("message", L[k])
    BY <1>1, <2>1
  <2> QED BY <2>2 DEF Frame, RecordFrame
<1> QED BY <1>1, <1>2, <1>3, <1>4

----------------------------------------------------------------------------
(* A panel and the timeline it fills.                                      *)

(* What a panel holds of what it was sent: while it waits, every frame; and*)
(* once live, the rows they fold into.                                     *)
RecordsIn(frames) == {frames[i].entry.record : i \in DOMAIN frames}

Holds(panel, sent) ==
    /\ panel \in [phase : {"waiting", "live"}, sent : Nat, lastId : Cursor,
                  early : Seq(RecordFrame), rows : Seq(Rows(Records))]
    /\ sent \subseteq Records
    /\ panel.phase = "waiting" => panel.rows = <<>> /\ sent = RecordsIn(panel.early)
    /\ panel.phase = "live" => Folded(panel.rows, sent, Records)

PanelsHold == DOMAIN panels = Readers /\ DOMAIN received = Readers
                /\ \A r \in Readers : Holds(panels[r], received[r])

Room == /\ Ingestible(Records)
        /\ TimelineCapacity \in Nat /\ Cardinality(Records) <= TimelineCapacity

LEMMA FoldedTyped ==
  ASSUME NEW rows, NEW S, NEW R, Folded(rows, S, R)
  PROVE  rows \in Seq(Rows(R))
BY DEF Folded

(* The records of frames kept waiting.                                     *)
LEMMA EarlyRecords ==
  ASSUME NEW early \in Seq(RecordFrame)
  PROVE  /\ RecordsOf(early) \in Seq(Records)
         /\ ToSet(RecordsOf(early)) = RecordsIn(early)
<1>1. DOMAIN early = 1 .. Len(early) /\ Len(early) \in Nat
      /\ \A i \in 1 .. Len(early) : early[i] \in RecordFrame
  OBVIOUS
<1>2. \A i \in 1 .. Len(early) : early[i].entry.record \in Records
  BY <1>1 DEF RecordFrame, Entry
<1>3. RecordsOf(early) = [i \in 1 .. Len(early) |-> early[i].entry.record]
  BY <1>1 DEF RecordsOf
<1>4. RecordsOf(early) \in Seq(Records) /\ DOMAIN RecordsOf(early) = 1 .. Len(early)
  BY <1>1, <1>2, <1>3
<1>5. ToSet(RecordsOf(early)) = {RecordsOf(early)[i] : i \in 1 .. Len(early)}
  BY <1>4 DEF ToSet
<1> QED BY <1>1, <1>3, <1>4, <1>5 DEF RecordsIn

LEMMA EarlyHalves ==
  ASSUME NEW early \in Seq(RecordFrame), Timed
  PROVE  LET Early(event) == RecordsOf(Filtered(early, {f \in Elements(early) : f.event = event}))
             all == ByTime(Early("backlog")) \o Early("message")
         IN  all \in Seq(Records) /\ ToSet(all) = RecordsIn(early)
<1> DEFINE T(event) == {f \in Elements(early) : f.event = event}
           F(event) == Filtered(early, T(event))
           Early(event) == RecordsOf(F(event))
           b == ByTime(Early("backlog"))
           m == Early("message")
<1> SUFFICES b \o m \in Seq(Records) /\ ToSet(b \o m) = RecordsIn(early)
  OBVIOUS
<1>1. ASSUME NEW event
      PROVE  /\ Early(event) \in Seq(Records)
             /\ ToSet(Early(event)) = {f.entry.record : f \in T(event)}
  <2> DEFINE U == T(event)
             g == F(event)
  <2> HIDE DEF T
  <2>1. g \in Seq(RecordFrame) /\ ToSet(g) = ToSet(early) \cap U
    BY FilteredKeeps
  <2>2. U \subseteq ToSet(early)
    BY DEF T, ToSet, Elements
  <2>3. ToSet(g) = U
    BY <2>1, <2>2
  <2> HIDE DEF F, U
  <2>4. RecordsOf(g) \in Seq(Records) /\ ToSet(RecordsOf(g)) = RecordsIn(g)
    BY <2>1, EarlyRecords
  <2>5. RecordsIn(g) = {f.entry.record : f \in U}
    BY <2>3 DEF RecordsIn, ToSet
  <2> QED BY <2>4, <2>5 DEF U
<1>2. RecordsIn(early) = {f.entry.record : f \in T("backlog")} \cup {f.entry.record : f \in T("message")}
  <2>1. Elements(early) = T("backlog") \cup T("message")
    <3>1. \A i \in DOMAIN early : early[i] \in RecordFrame
      <4> HIDE DEF RecordFrame
      <4> QED OBVIOUS
    <3>2. \A i \in DOMAIN early : early[i].event \in {"backlog", "message"}
      BY <3>1 DEF RecordFrame
    <3> QED BY <3>2 DEF Elements
  <2>2. RecordsIn(early) = {f.entry.record : f \in Elements(early)}
    BY DEF RecordsIn, Elements
  <2> QED BY <2>1, <2>2
<1> HIDE DEF Early, T, F
<1>3. b \in Seq(Records) /\ ToSet(b) = ToSet(Early("backlog"))
  <2>1. \A x \in Records : x.at \in Nat
    BY DEF Timed
  <2> QED BY <1>1, <2>1, ByTimeKeeps
<1>4. m \in Seq(Records)
  BY <1>1
<1>5. ToSet(b) \cup ToSet(m) = RecordsIn(early)
  BY <1>1, <1>2, <1>3
<1> HIDE DEF b, m
<1>6. /\ b \o m \in Seq(Records) /\ Len(b \o m) = Len(b) + Len(m)
      /\ \A i \in 1 .. Len(b) + Len(m) : (b \o m)[i] = IF i <= Len(b) THEN b[i] ELSE m[i - Len(b)]
  BY <1>3, <1>4, ConcatProperties
<1>7. ToSet(b \o m) = ToSet(b) \cup ToSet(m)
  <2> DEFINE c == b \o m
             lb == Len(b)
             lm == Len(m)
  <2>1. /\ DOMAIN c = 1 .. lb + lm /\ DOMAIN b = 1 .. lb /\ DOMAIN m = 1 .. lm /\ lb \in Nat /\ lm \in Nat
        /\ \A i \in 1 .. lb + lm : c[i] = IF i <= lb THEN b[i] ELSE m[i - lb]
    BY <1>3, <1>4, <1>6
  <2> HIDE DEF c, lb, lm
  <2>2. \A i \in 1 .. lb + lm : c[i] \in ToSet(b) \cup ToSet(m)
    <3> SUFFICES ASSUME NEW i \in 1 .. lb + lm PROVE c[i] \in ToSet(b) \cup ToSet(m)
      OBVIOUS
    <3>1. CASE i <= lb
      <4>1. i \in 1 .. lb /\ c[i] = b[i]
        BY <2>1, <3>1
      <4> QED BY <2>1, <4>1 DEF ToSet
    <3>2. CASE ~(i <= lb)
      <4>1. i - lb \in 1 .. lm /\ c[i] = m[i - lb]
        BY <2>1, <3>2
      <4> QED BY <2>1, <4>1 DEF ToSet
    <3> QED BY <3>1, <3>2
  <2>3. \A i \in 1 .. lb : b[i] = c[i] /\ i \in 1 .. lb + lm
    BY <2>1
  <2>4. \A i \in 1 .. lm : m[i] = c[i + lb] /\ i + lb \in 1 .. lb + lm
    <3> SUFFICES ASSUME NEW i \in 1 .. lm PROVE m[i] = c[i + lb] /\ i + lb \in 1 .. lb + lm
      OBVIOUS
    <3>1. i + lb \in 1 .. lb + lm /\ ~(i + lb <= lb) /\ (i + lb) - lb = i
      BY <2>1
    <3> QED BY <2>1, <3>1
  <2>5. ToSet(b) \cup ToSet(m) \subseteq ToSet(c)
    <3>1. ToSet(b) = {b[i] : i \in 1 .. lb} /\ ToSet(m) = {m[i] : i \in 1 .. lm}
          /\ ToSet(c) = {c[i] : i \in 1 .. lb + lm}
      BY <2>1 DEF ToSet
    <3>2. ToSet(b) \subseteq ToSet(c)
      BY <2>3, <3>1
    <3>3. ToSet(m) \subseteq ToSet(c)
      BY <2>4, <3>1
    <3> QED BY <3>2, <3>3
  <2>6. ToSet(c) \subseteq ToSet(b) \cup ToSet(m)
    BY <2>1, <2>2 DEF ToSet
  <2> QED BY <2>5, <2>6 DEF c
<1> QED BY <1>5, <1>6, <1>7

(* The prelude completed, or given up.                                     *)
LEMMA EarlyFolds ==
  ASSUME Room, NEW panel, NEW sent, Holds(panel, sent), panel.phase = "waiting",
         NEW s \in Seq(Records), ToSet(s) = RecordsIn(panel.early)
  PROVE  Folded(IngestAll(panel.rows, s), sent, Records)
<1>1. panel.rows = <<>> /\ sent = RecordsIn(panel.early) /\ sent \subseteq Records
  BY DEF Holds
<1>2. Folded(<<>>, {}, Records)
  BY NothingFolded
<1>3. {} \in SUBSET Records
  OBVIOUS
<1>4. Folded(IngestAll(<<>>, s), {} \cup ToSet(s), Records)
  BY <1>2, <1>3, IngestAllFolds DEF Room
<1>5. {} \cup ToSet(s) = sent
  BY <1>1
<1> QED BY <1>1, <1>4, <1>5

LEMMA LiveHolds ==
  ASSUME NEW panel, NEW sent, Holds(panel, sent), NEW rows, Folded(rows, sent, Records)
  PROVE  Holds([panel EXCEPT !.phase = "live", !.early = <<>>, !.rows = rows], sent)
<1> DEFINE live == [panel EXCEPT !.phase = "live", !.early = <<>>, !.rows = rows]
           P == [phase : {"waiting", "live"}, sent : Nat, lastId : Cursor,
                 early : Seq(RecordFrame), rows : Seq(Rows(Records))]
<1>1. panel \in P /\ sent \subseteq Records
  BY DEF Holds
<1>2. rows \in Seq(Rows(Records)) /\ <<>> \in Seq(RecordFrame)
  BY FoldedTyped
<1>3. live \in P /\ live.phase = "live" /\ live.rows = rows
  <2> DEFINE A == Seq(RecordFrame)
             B == Seq(Rows(Records))
  <2>1. <<>> \in A /\ rows \in B
        /\ panel \in [phase : {"waiting", "live"}, sent : Nat, lastId : Cursor, early : A, rows : B]
    BY <1>1, <1>2
  <2> HIDE DEF A, B
  <2>2. live \in [phase : {"waiting", "live"}, sent : Nat, lastId : Cursor, early : A, rows : B]
        /\ live.phase = "live" /\ live.rows = rows
    BY <2>1
  <2> QED BY <2>2 DEF A, B
<1> HIDE DEF live
<1>4. live.phase # "waiting" /\ Folded(live.rows, sent, Records)
  BY <1>3
<1>5. /\ live \in P /\ sent \subseteq Records
      /\ live.phase = "waiting" => live.rows = <<>> /\ sent = RecordsIn(live.early)
      /\ live.phase = "live" => Folded(live.rows, sent, Records)
  <2> HIDE DEF P
  <2> QED BY <1>1, <1>3, <1>4
<1>6. Holds(live, sent)
  BY <1>5 DEF Holds
<1> QED BY <1>6 DEF live

LEMMA SyncedHolds ==
  ASSUME Room, Timed, NEW panel, NEW sent, Holds(panel, sent), panel.phase = "waiting"
  PROVE  Holds(Synced(panel), sent)
<1> DEFINE Early(event) ==
               RecordsOf(Filtered(panel.early, {f \in Elements(panel.early) : f.event = event}))
           all == ByTime(Early("backlog")) \o Early("message")
           rows == IngestAll(panel.rows, all)
<1>1. panel.early \in Seq(RecordFrame) /\ panel.sent \in Nat /\ panel.lastId \in Cursor
  BY DEF Holds
<1>2. all \in Seq(Records) /\ ToSet(all) = RecordsIn(panel.early)
  BY <1>1, EarlyHalves
<1>3. Synced(panel) = [panel EXCEPT !.phase = "live", !.early = <<>>, !.rows = rows]
  BY DEF Synced
<1> HIDE DEF all
<1>4. Folded(rows, sent, Records)
  BY <1>2, EarlyFolds
<1> HIDE DEF rows
<1>5. Holds([panel EXCEPT !.phase = "live", !.early = <<>>, !.rows = rows], sent)
  BY <1>4, LiveHolds
<1> QED BY <1>3, <1>5

LEMMA ArrivedHolds ==
  ASSUME Room, Timed, NEW panel, NEW sent, Holds(panel, sent), NEW f,
         f.event = "synced" \/ f \in RecordFrame
  PROVE  Holds(Arrived(panel, f), IF f.event = "synced" THEN sent ELSE sent \cup {f.entry.record})
<1>1. panel.phase \in {"waiting", "live"}
  BY DEF Holds
<1>2. CASE f.event = "synced" /\ panel.phase = "waiting"
  <2>1. Arrived(panel, f) = Synced(panel)
    BY <1>2 DEF Arrived
  <2> QED BY <1>2, <2>1, SyncedHolds
<1>3. CASE f.event = "synced" /\ panel.phase = "live"
  <2>1. Arrived(panel, f) = panel
    BY <1>3 DEF Arrived
  <2> QED BY <1>3, <2>1
<1>4. CASE f.event # "synced" /\ panel.phase = "waiting"
  <2> DEFINE longer == Append(panel.early, f)
  <2>1. Arrived(panel, f) = [panel EXCEPT !.early = longer]
    BY <1>4 DEF Arrived
  <2>2. f \in RecordFrame /\ f.entry.record \in Records /\ panel.early \in Seq(RecordFrame)
    BY <1>4 DEF RecordFrame, Entry, Holds
  <2>3. /\ longer \in Seq(RecordFrame) /\ DOMAIN panel.early = 1 .. Len(panel.early)
        /\ Len(panel.early) \in Nat
        /\ DOMAIN longer = 1 .. (Len(panel.early) + 1)
        /\ \A i \in 1 .. Len(panel.early) : longer[i] = panel.early[i]
        /\ longer[Len(panel.early) + 1] = f
    <3> HIDE DEF RecordFrame
    <3> QED BY <2>2, AppendFacts
  <2> HIDE DEF longer
  <2>4. RecordsIn(longer) = RecordsIn(panel.early) \cup {f.entry.record}
    <3>1. 1 .. (Len(panel.early) + 1) = (1 .. Len(panel.early)) \cup {Len(panel.early) + 1}
      BY <2>3
    <3> QED BY <2>3, <3>1 DEF RecordsIn
  <2> HIDE DEF RecordFrame
  <2> QED BY <1>4, <2>1, <2>2, <2>3, <2>4 DEF Holds
<1>5. CASE f.event # "synced" /\ panel.phase = "live"
  <2> DEFINE x == f.entry.record
             rows == Ingest(panel.rows, x)
  <2>1. Arrived(panel, f) = [panel EXCEPT !.rows = rows]
    BY <1>5 DEF Arrived
  <2>2. x \in Records
    BY <1>5 DEF RecordFrame, Entry
  <2>3. Folded(panel.rows, sent, Records) /\ sent \in SUBSET Records
    BY <1>5 DEF Holds
  <2> HIDE DEF x
  <2>4. Folded(rows, sent \cup {x}, Records)
    BY <2>2, <2>3, IngestFolds DEF Room
  <2>5. rows \in Seq(Rows(Records))
    BY <2>4, FoldedTyped
  <2> HIDE DEF rows
  <2>6. Holds(Arrived(panel, f), sent \cup {x})
    BY <1>5, <2>1, <2>2, <2>3, <2>4, <2>5 DEF Holds
  <2> QED BY <1>5, <2>6 DEF x
<1> QED BY <1>1, <1>2, <1>3, <1>4, <1>5

(* What else a panel keeps does not matter to what it holds.               *)
LEMMA HoldsWhateverIsSent ==
  ASSUME NEW panel, NEW sent, Holds(panel, sent), NEW n \in Nat, NEW id \in Cursor
  PROVE  /\ Holds([panel EXCEPT !.sent = n, !.lastId = id], sent)
         /\ Holds([panel EXCEPT !.sent = n], sent)
BY DEF Holds

LEMMA PanelsKept ==
  ASSUME Room, Timed, LogTypeOK, Numbered, PanelsHold, [Next]_vars
  PROVE  PanelsHold'
<1>0. DOMAIN panels = Readers /\ DOMAIN received = Readers
      /\ \A r \in Readers : Holds(panels[r], received[r])
  BY DEF PanelsHold
<1>1. CASE panels' = panels /\ received' = received
  BY <1>0, <1>1 DEF PanelsHold, Holds, Entry, RecordFrame
<1>2. CASE ServerRestarts
  <2>1. /\ received' = received
        /\ panels' = [r \in Readers |-> [panels[r] EXCEPT !.sent = 0]]
    BY <1>2 DEF ServerRestarts
  <2>2. \A r \in Readers : Holds([panels[r] EXCEPT !.sent = 0], received[r])
    <3>1. \A r \in Readers : panels[r].lastId \in Cursor
      BY <1>0 DEF Holds
    <3> QED BY <1>0, <3>1, HoldsWhateverIsSent
  <2> QED BY <1>0, <2>1, <2>2 DEF PanelsHold
<1>3. ASSUME NEW r \in Readers, Drop(r) PROVE PanelsHold'
  <2>1. /\ received' = received
        /\ panels' = [panels EXCEPT ![r].sent = 0]
    BY <1>3 DEF Drop
  <2>2. Holds([panels[r] EXCEPT !.sent = 0], received[r])
    <3>1. panels[r].lastId \in Cursor
      BY <1>0 DEF Holds
    <3> QED BY <1>0, <3>1, HoldsWhateverIsSent
  <2> QED BY <1>0, <2>1, <2>2 DEF PanelsHold
<1>4. ASSUME NEW r \in Readers, Deliver(r) PROVE PanelsHold'
  <2> DEFINE f == Frames(r)[panels[r].sent + 1]
             id == IF f.event = "synced" THEN panels[r].lastId
                                         ELSE [epoch |-> epoch, seq |-> f.entry.seq]
             arrived1 == Arrived(panels[r], f)
             sent == IF f.event = "synced" THEN received[r] ELSE received[r] \cup {f.entry.record}
             panel == [arrived1 EXCEPT !.sent = @ + 1, !.lastId = id]
  <2>1. /\ panels[r].sent < Len(Frames(r))
        /\ panels' = [panels EXCEPT ![r] = panel]
        /\ received' = IF f.event = "synced" THEN received
                       ELSE [received EXCEPT ![r] = @ \cup {f.entry.record}]
    BY <1>4 DEF Deliver
  <2>2. panels[r].sent \in Nat /\ panels[r].lastId \in Cursor
    BY <1>0 DEF Holds
  <2>3. Len(Frames(r)) \in Nat
    <3>0. Presentable(reads[r].backlog) /\ reads[r].taken \in Seq(Entry)
      BY DEF Numbered, LogTypeOK, ReadAt
    <3>1. Len(Prelude(reads[r])) \in Nat /\ Len(LiveHalf(reads[r])) \in Nat
          /\ Len(Frames(r)) = Len(Prelude(reads[r])) + 1 + Len(LiveHalf(reads[r]))
      BY <3>0, FramesAre, FramesOfItsRead
    <3> QED BY <3>1
  <2>4. panels[r].sent + 1 \in 1 .. Len(Frames(r))
    BY <2>1, <2>2, <2>3
  <2>5. f.event = "synced" \/ f \in RecordFrame
    BY <2>4, FramesTyped
  <2> HIDE DEF f
  <2>6. Holds(arrived1, sent)
    BY <1>0, <2>5, ArrivedHolds
  <2>7. id \in Cursor
    <3>1. epoch \in Nat
      BY DEF LogTypeOK
    <3>2. CASE f.event = "synced"
      BY <2>2, <3>2
    <3>3. CASE f \in RecordFrame /\ f.event # "synced"
      <4>1. f.entry.seq \in Nat
        BY <3>3 DEF RecordFrame, Entry
      <4> QED BY <3>1, <3>3, <4>1 DEF Cursor
    <3> QED BY <2>5, <3>2, <3>3
  <2>8. arrived1.sent \in Nat
    BY <2>6 DEF Holds
  <2> HIDE DEF id, arrived1
  <2>9. Holds(panel, sent)
    <3>1. arrived1.sent + 1 \in Nat
      BY <2>8
    <3>2. panel = [arrived1 EXCEPT !.sent = arrived1.sent + 1, !.lastId = id]
      OBVIOUS
    <3> QED BY <2>6, <2>7, <3>1, <3>2, HoldsWhateverIsSent
  <2>10. DOMAIN received' = Readers
         /\ \A q \in Readers : received'[q] = IF q = r THEN sent ELSE received[q]
    BY <1>0, <2>1
  <2> HIDE DEF panel, sent
  <2>11. DOMAIN panels' = Readers /\ DOMAIN received' = Readers
         /\ \A q \in Readers : Holds(panels'[q], received'[q])
    BY <1>0, <2>1, <2>9, <2>10
  <2> QED BY <2>11 DEF PanelsHold
<1>5. ASSUME NEW r \in Readers, SyncTimesOut(r) PROVE PanelsHold'
  <2> DEFINE s == RecordsOf(panels[r].early)
             rows == IngestAll(panels[r].rows, s)
  <2>1. /\ panels[r].phase = "waiting" /\ received' = received
        /\ panels' = [panels EXCEPT ![r].phase = "live", ![r].early = <<>>, ![r].rows = rows]
    BY <1>5 DEF SyncTimesOut
  <2>2. Holds(panels[r], received[r]) /\ panels[r].early \in Seq(RecordFrame)
    BY <1>0 DEF Holds
  <2>3. s \in Seq(Records) /\ ToSet(s) = RecordsIn(panels[r].early)
    BY <2>2, EarlyRecords
  <2> HIDE DEF s
  <2>4. Folded(rows, received[r], Records)
    BY <2>1, <2>2, <2>3, EarlyFolds
  <2>5. rows \in Seq(Rows(Records))
    BY <2>4, FoldedTyped
  <2> HIDE DEF rows
  <2> DEFINE panel == [panels[r] EXCEPT !.phase = "live", !.early = <<>>, !.rows = rows]
  <2>6. Holds(panel, received[r])
    BY <2>2, <2>4, LiveHolds
  <2>7. panels' = [panels EXCEPT ![r] = panel]
    BY <1>0, <2>1
  <2> HIDE DEF panel
  <2>8. DOMAIN panels' = Readers /\ DOMAIN received' = Readers
        /\ \A q \in Readers : Holds(panels'[q], received'[q])
    BY <1>0, <2>1, <2>6, <2>7
  <2> QED BY <2>8 DEF PanelsHold
<1>6. ASSUME NEW r \in Readers, Connect(r) PROVE panels' = panels /\ received' = received
  BY <1>6 DEF Connect
<1> QED BY <1>1, <1>2, <1>3, <1>4, <1>5, <1>6 DEF Next, vars

LEMMA PanelsHoldAtFirst ==
  ASSUME Init
  PROVE  PanelsHold
<1> DEFINE panel == [phase |-> "waiting", sent |-> 0, lastId |-> NoCursor, early |-> <<>>, rows |-> <<>>]
<1>1. panels = [r \in Readers |-> panel] /\ received = [r \in Readers |-> {}]
  BY DEF Init
<1>2. Holds(panel, {})
  <2>1. RecordsIn(<<>>) = {} /\ <<>> \in Seq(RecordFrame) /\ <<>> \in Seq(Rows(Records))
    BY DEF RecordsIn
  <2>2. NoCursor \in Cursor
    BY DEF NoCursor, Cursor
  <2> QED BY <2>1, <2>2 DEF Holds
<1> HIDE DEF panel
<1> QED BY <1>1, <1>2 DEF PanelsHold

LEMMA HoldsImplies ==
  ASSUME PanelsHold
  PROVE  TimelineIsTheSet
<1> SUFFICES ASSUME NEW r \in Readers, panels[r].phase = "live"
             PROVE  /\ ToSet(panels[r].rows) = RowsOf(received[r])
                    /\ Len(panels[r].rows) = Cardinality(RowsOf(received[r]))
                    /\ \A i, j \in DOMAIN panels[r].rows :
                          i < j => panels[r].rows[i].at <= panels[r].rows[j].at
  BY DEF TimelineIsTheSet
<1>1. Folded(panels[r].rows, received[r], Records)
  BY DEF PanelsHold, Holds
<1>2. /\ panels[r].rows \in Seq(Rows(Records)) /\ ToSet(panels[r].rows) = RowsOf(received[r])
      /\ EachOnce(panels[r].rows) /\ InOrderOfTime(panels[r].rows)
  BY <1>1 DEF Folded
<1>3. Len(panels[r].rows) = Cardinality(RowsOf(received[r]))
  BY <1>2, LengthOfEachOnce
<1> QED BY <1>2, <1>3 DEF InOrderOfTime

(* INV-QD-039 for any number of records and readers, any capacity and any  *)
(* number of restarts and drops: once live, a timeline is the rows of the  *)
(* records its panel was sent, each once and by time, in whatever order,   *)
(* however often and over whatever reconnects they came, and whether or not*)
(* the prelude was waited out.  It needs room for them: past its capacity a*)
(* timeline drops its oldest (Timeline.ts:243).                            *)
THEOREM TimelinesAreTheirSets ==
  ASSUME Ingestible(Records), TimelineCapacity \in Nat, Cardinality(Records) <= TimelineCapacity
  PROVE  Spec => []TimelineIsTheSet
<1>1. Room /\ Timed
  BY DEF Room, Timed, Ingestible
<1>2. Init => Numbered /\ PanelsHold
  BY NumberedAtFirst, PanelsHoldAtFirst DEF Init
<1>3. LogTypeOK /\ Numbered /\ PanelsHold /\ [Next]_vars => Numbered' /\ PanelsHold'
  BY <1>1, LogAssumption, NumberedKept, PanelsKept
<1>4. PanelsHold => TimelineIsTheSet
  BY HoldsImplies
<1> QED BY <1>2, <1>3, <1>4, LogTypesHold, PTL DEF Spec

----------------------------------------------------------------------------
(* Resuming by number.                                                     *)

(* What is kept of the first of a sequence is the first of what is kept.   *)
LEMMA FilteredGrows ==
  ASSUME NEW T, NEW U, NEW X, NEW s \in Seq(X), NEW t \in Seq(X),
         \A i \in DOMAIN s : s[i] \in T <=> s[i] \in U
  PROVE  /\ Len(Filtered(s, T)) <= Len(Filtered(s \o t, U))
         /\ \A i \in 1 .. Len(Filtered(s, T)) : Filtered(s \o t, U)[i] = Filtered(s, T)[i]
<1> DEFINE st == s \o t
           n == Len(s)
           m == Len(st)
<1>1. /\ n \in Nat /\ m \in Nat /\ n <= m /\ DOMAIN s = 1 .. n /\ DOMAIN st = 1 .. m
      /\ \A i \in 1 .. n : s[i] \in X /\ st[i] = s[i]
      /\ \A i \in 1 .. m : st[i] \in X
  <2>1. /\ st \in Seq(X) /\ Len(st) = Len(s) + Len(t)
        /\ \A i \in 1 .. Len(s) + Len(t) : st[i] = IF i <= Len(s) THEN s[i] ELSE t[i - Len(s)]
    BY ConcatProperties
  <2>2. Len(s) \in Nat /\ Len(t) \in Nat /\ DOMAIN s = 1 .. Len(s)
    OBVIOUS
  <2> HIDE DEF st
  <2> QED BY <2>1, <2>2
<1> HIDE DEF n, m, st
<1>2. PICK f : /\ f[0] = <<>>
               /\ \A j \in 1 .. n : f[j] = FoldStep("filter", T, f[j - 1], s[j])
               /\ Filtered(s, T) = f[n]
  BY <1>1, FiltersOneByOne DEF Folds
<1>0. Folds("filter", U, <<>>, st, m, Filtered(st, U))
  BY <1>1, FiltersOneByOne
<1>3. PICK g : /\ g[0] = <<>>
               /\ \A j \in 1 .. m : g[j] = FoldStep("filter", U, g[j - 1], st[j])
               /\ Filtered(st, U) = g[m]
  BY <1>0 DEF Folds
<1> DEFINE Alike == {k \in Nat : k <= n => g[k] = f[k] /\ f[k] \in Seq(X)}
           Begins(a, b) == /\ a \in Seq(X) /\ b \in Seq(X) /\ Len(a) <= Len(b)
                           /\ \A i \in 1 .. Len(a) : b[i] = a[i]
           Longer == {k \in Nat : n + k <= m => Begins(f[n], g[n + k])}
<1>4. \A k \in Nat : k \in Alike
  <2>1. 0 \in Alike
    <3>1. <<>> \in Seq(X)
      OBVIOUS
    <3> QED BY <1>2, <1>3, <3>1
  <2>2. ASSUME NEW k \in Alike PROVE k + 1 \in Alike
    <3>0. k \in Nat
      OBVIOUS
    <3>1. SUFFICES ASSUME k + 1 <= n PROVE g[k + 1] = f[k + 1] /\ f[k + 1] \in Seq(X)
      BY <3>0
    <3>2. k + 1 \in 1 .. n /\ k + 1 \in 1 .. m /\ (k + 1) - 1 = k /\ k <= n
      BY <1>1, <3>0, <3>1
    <3>3. g[k] = f[k] /\ f[k] \in Seq(X)
      BY <3>2
    <3>4. f[k + 1] = IF s[k + 1] \in T THEN Append(f[k], s[k + 1]) ELSE f[k]
      BY <1>2, <3>2 DEF FoldStep
    <3>5. g[k + 1] = IF st[k + 1] \in U THEN Append(g[k], st[k + 1]) ELSE g[k]
      BY <1>3, <3>2 DEF FoldStep
    <3>6. st[k + 1] = s[k + 1] /\ s[k + 1] \in X /\ (s[k + 1] \in T <=> s[k + 1] \in U)
      BY <1>1, <3>2
    <3>7. Append(f[k], s[k + 1]) \in Seq(X)
      BY <3>3, <3>6, AppendFacts
    <3> QED BY <3>3, <3>4, <3>5, <3>6, <3>7
  <2>3. Alike \in SUBSET Nat
    OBVIOUS
  <2> HIDE DEF Alike
  <2> QED BY <2>1, <2>2, <2>3, Counting
<1>5. g[n] = f[n] /\ f[n] \in Seq(X)
  BY <1>1, <1>4
<1>6. \A k \in Nat : k \in Longer
  <2>1. 0 \in Longer
    <3>1. n + 0 = n /\ Len(f[n]) \in Nat
      BY <1>1, <1>5
    <3> QED BY <1>5, <3>1
  <2>2. ASSUME NEW k \in Longer PROVE k + 1 \in Longer
    <3>0. k \in Nat
      OBVIOUS
    <3>1. SUFFICES ASSUME n + (k + 1) <= m PROVE Begins(f[n], g[n + (k + 1)])
      BY <3>0
    <3> DEFINE j == n + (k + 1)
    <3>2. j \in 1 .. m /\ j - 1 = n + k /\ n + k <= m
      BY <1>1, <3>0, <3>1
    <3> HIDE DEF j
    <3>3. Begins(f[n], g[n + k])
      BY <3>2
    <3>4. g[j] = IF st[j] \in U THEN Append(g[n + k], st[j]) ELSE g[n + k]
      BY <1>3, <3>2 DEF FoldStep
    <3>5. st[j] \in X
      BY <1>1, <3>2
    <3> DEFINE a == f[n]
               b == g[n + k]
               c == Append(b, st[j])
    <3>6. a \in Seq(X) /\ b \in Seq(X) /\ Len(a) <= Len(b) /\ \A i \in 1 .. Len(a) : b[i] = a[i]
      BY <3>3
    <3> HIDE DEF a, b
    <3>7. /\ c \in Seq(X) /\ Len(c) = Len(b) + 1 /\ \A i \in 1 .. Len(b) : c[i] = b[i]
      BY <3>5, <3>6, AppendFacts
    <3>8. Len(a) \in Nat /\ Len(b) \in Nat
      BY <3>6
    <3> HIDE DEF c
    <3>9. Begins(a, c)
      <4>1. Len(a) <= Len(c)
        BY <3>6, <3>7, <3>8
      <4>2. \A i \in 1 .. Len(a) : i \in 1 .. Len(b)
        BY <3>6, <3>8
      <4>3. \A i \in 1 .. Len(a) : c[i] = a[i]
        BY <3>6, <3>7, <4>2
      <4> QED BY <3>6, <3>7, <4>1, <4>3
    <3>10. Begins(a, b)
      BY <3>6
    <3> HIDE DEF Begins
    <3>11. g[j] = c \/ g[j] = b
      BY <3>4 DEF b, c
    <3>12. Begins(a, g[j])
      BY <3>9, <3>10, <3>11
    <3> QED BY <3>12 DEF a, j
  <2>3. Longer \in SUBSET Nat
    OBVIOUS
  <2> HIDE DEF Longer
  <2> QED BY <2>1, <2>2, <2>3, Counting
<1>7. m - n \in Nat /\ n + (m - n) = m
  BY <1>1
<1> HIDE DEF Alike
<1>8. Begins(f[n], g[m])
  <2> DEFINE k == m - n
  <2>1. k \in Nat /\ n + k = m /\ n + k <= m
    BY <1>1, <1>7
  <2> HIDE DEF k, Begins
  <2>2. Begins(f[n], g[n + k])
    BY <1>6, <2>1
  <2> QED BY <2>1, <2>2
<1>9. Filtered(s \o t, U) = g[m]
  BY <1>3 DEF st
<1> QED BY <1>2, <1>8, <1>9

(* The last numbers up to n, one after another.                            *)
LEMMA LastNumbers ==
  ASSUME NEW es \in Seq(Entry), NEW n \in Nat, Len(es) <= n,
         \A i \in DOMAIN es : es[i].seq = n - Len(es) + i
  PROVE  /\ \A e \in Elements(es) : e \in Entry /\ e.seq >= 1 /\ e.seq <= n /\ e.seq + Len(es) > n
         /\ \A e, f \in Elements(es) : e.seq = f.seq => e = f
         /\ \A e \in Elements(es), k \in Nat :
               e.seq <= k /\ k <= n => \E f \in Elements(es) : f.seq = k
<1>1. DOMAIN es = 1 .. Len(es) /\ Len(es) \in Nat /\ \A i \in 1 .. Len(es) : es[i] \in Entry
  <2> HIDE DEF Entry
  <2> QED OBVIOUS
<1>2. \A i \in 1 .. Len(es) : es[i].seq = n - Len(es) + i
  BY <1>1
<1>3. ASSUME NEW e \in Elements(es)
      PROVE  e \in Entry /\ e.seq >= 1 /\ e.seq <= n /\ e.seq + Len(es) > n
  <2>1. PICK i \in 1 .. Len(es) : e = es[i]
    BY <1>1 DEF Elements
  <2> QED BY <1>1, <1>2, <2>1
<1>4. ASSUME NEW i \in 1 .. Len(es), NEW j \in 1 .. Len(es), es[i].seq = es[j].seq
      PROVE  i = j
  BY <1>1, <1>2, <1>4
<1>5. ASSUME NEW e \in Elements(es), NEW k \in Nat, e.seq <= k, k <= n
      PROVE  \E f \in Elements(es) : f.seq = k
  <2>1. e.seq + Len(es) > n /\ e.seq \in Nat
    BY <1>3 DEF Entry
  <2> DEFINE i == k - (n - Len(es))
  <2>2. i \in 1 .. Len(es) /\ n - Len(es) + i = k
    BY <1>1, <1>5, <2>1
  <2> HIDE DEF i
  <2>3. es[i] \in Elements(es) /\ es[i].seq = k
    BY <1>1, <1>2, <2>2 DEF Elements
  <2> QED BY <2>3
<1> QED BY <1>1, <1>3, <1>4, <1>5 DEF Elements

LEMMA RetainedNumbers ==
  ASSUME LogTypeOK, Numbered
  PROVE  /\ \A e \in Elements(entries) :
               e \in Entry /\ e.seq >= 1 /\ e.seq <= seq /\ e.seq + Capacity > seq
         /\ \A e, f \in Elements(entries) : e.seq = f.seq => e = f
         /\ \A e \in Elements(entries), k \in Nat :
               e.seq <= k /\ k <= seq => \E f \in Elements(entries) : f.seq = k
<1>1. /\ entries \in Seq(Entry) /\ seq \in Nat /\ Len(entries) <= seq /\ Len(entries) <= Capacity
      /\ \A i \in DOMAIN entries : entries[i].seq = seq - Len(entries) + i
  BY DEF LogTypeOK, Numbered
<1>2. /\ \A e \in Elements(entries) : e \in Entry /\ e.seq >= 1 /\ e.seq <= seq /\ e.seq + Len(entries) > seq
      /\ \A e, f \in Elements(entries) : e.seq = f.seq => e = f
      /\ \A e \in Elements(entries), k \in Nat :
            e.seq <= k /\ k <= seq => \E f \in Elements(entries) : f.seq = k
  BY <1>1, LastNumbers
<1>3. \A e \in Elements(entries) : e.seq + Capacity > seq
  <2> SUFFICES ASSUME NEW e \in Elements(entries) PROVE e.seq + Capacity > seq
    OBVIOUS
  <2>1. e.seq \in Nat /\ e.seq + Len(entries) > seq /\ Len(entries) \in Nat /\ Capacity \in Nat
    BY <1>1, <1>2, LogAssumption DEF Entry
  <2> QED BY <1>1, <2>1
<1> QED BY <1>2, <1>3

(* What is retained still of an entry that is not the oldest.              *)
LEMMA LaterStay ==
  ASSUME LogTypeOK, LogAssumption, Numbered, NEW x \in Records, Retain(x), seq' = seq + 1,
         NEW e \in Elements(entries), NEW f \in Elements(entries), f.seq > e.seq,
         e \in Elements(entries')
  PROVE  f \in Elements(entries')
<1>1. /\ entries' \in Seq(Entry) /\ seq \in Nat
      /\ Elements(entries') \subseteq Elements(entries) \cup {[seq |-> seq + 1, record |-> x]}
  BY RetainKeeps DEF LogTypeOK
<1>2. Len(entries') <= seq' /\ \A i \in DOMAIN entries' : entries'[i].seq = seq' - Len(entries') + i
  BY RetainNumbers DEF Numbered
<1>3. \A g \in Elements(entries'), k \in Nat :
         g.seq <= k /\ k <= seq + 1 => \E h \in Elements(entries') : h.seq = k
  <2>1. seq + 1 \in Nat /\ Len(entries') <= seq + 1
        /\ \A i \in DOMAIN entries' : entries'[i].seq = (seq + 1) - Len(entries') + i
    BY <1>1, <1>2
  <2> QED BY <1>1, <2>1, LastNumbers
<1>4. e.seq \in Nat /\ f.seq \in Nat /\ f.seq <= seq
  BY RetainedNumbers DEF Entry
<1>5. PICK h \in Elements(entries') : h.seq = f.seq
  BY <1>1, <1>3, <1>4
<1>6. h \in Elements(entries)
  <2>1. h # [seq |-> seq + 1, record |-> x]
    BY <1>1, <1>4, <1>5
  <2> QED BY <1>1, <2>1
<1> QED BY <1>5, <1>6, RetainedNumbers

(* A number says which entry it is, wherever the entry is.                 *)
Identified ==
    /\ \A p \in Elements(published), e \in Elements(entries) : p.seq = e.seq => p = e
    /\ \A x \in Records, e \in Elements(entries) :
          writers[x].pc = "appended" /\ e.seq = writers[x].seq => e.record = x
    /\ \A r \in Readers, e \in Elements(entries) :
          \A b \in reads[r].backlog : b.seq = e.seq => b = e
    /\ \A r \in Readers : reads[r].phase # "streaming" => reads[r].backlog = {}

(* A reader pulls what is published in the order it is published.          *)
PulledInOrder(r) ==
    \A k, l \in DOMAIN reads[r].taken : k < l =>
        \E m, n \in DOMAIN published :
            m < n /\ reads[r].taken[k] = published[m] /\ reads[r].taken[l] = published[n]

LEMMA IdentifiedKept ==
  ASSUME LogInv, LogAssumption, Numbered, Identified, [Next]_vars
  PROVE  Identified'
<1>1. LogTypeOK /\ DOMAIN reads = Readers /\ seq \in Nat
      /\ \A r \in Readers : reads[r] \in ReadAt(reads[r].cursor)
  BY DEF LogInv, LogTypeOK
<1>2. ASSUME NEW x \in Records, AppendRecord(x) PROVE Identified'
  <2> DEFINE new == [seq |-> seq + 1, record |-> x]
  <2>1. /\ seq' = seq + 1 /\ published' = published /\ reads' = reads
        /\ writers' = [writers EXCEPT ![x] = [pc |-> "appended", seq |-> seq + 1]]
        /\ Elements(entries') \subseteq Elements(entries) \cup {new}
    BY <1>1, <1>2, RetainKeeps DEF AppendRecord
  <2>2. new.seq = seq + 1 /\ new.record = x
    OBVIOUS
  <2>3. \A e \in Elements(entries) : e.seq \in Nat /\ e.seq <= seq
    BY <1>1, RetainedNumbers DEF Entry
  <2>4. \A p \in Elements(published) : p.seq # seq + 1
    <3>1. \A p \in Elements(published) : p.seq \in Nat /\ p.seq <= seq
      BY <1>1, ElementsTyped DEF LogTypeOK, Entry
    <3> QED BY <1>1, <3>1
  <2>5. \A y \in Records : writers[y].pc = "appended" => writers[y].seq # seq + 1
    <3>1. \A y \in Records : writers[y].pc = "appended" => writers[y].seq \in Nat /\ writers[y].seq <= seq
      BY <1>1 DEF LogInv, Filed, LogTypeOK, Writer
    <3> QED BY <1>1, <3>1
  <2>6. \A r \in Readers : \A b \in reads[r].backlog : b.seq # seq + 1
    <3> SUFFICES ASSUME NEW r \in Readers, NEW b \in reads[r].backlog PROVE b.seq # seq + 1
      OBVIOUS
    <3>1. b \in Entry /\ (reads[r].phase = "streaming" => b.seq <= seq)
      <4>1. b \in Entry /\ reads[r].highWater \in Nat
        BY <1>1 DEF ReadAt
      <4>2. reads[r].phase = "streaming" => b.seq <= reads[r].highWater /\ reads[r].highWater <= seq
        BY DEF LogInv, Pulled
      <4>3. b.seq \in Nat
        BY <4>1 DEF Entry
      <4> QED BY <1>1, <4>1, <4>2, <4>3
    <3>2. b.seq \in Nat
      BY <3>1 DEF Entry
    <3>3. reads[r].phase = "streaming"
      BY DEF Identified
    <3> QED BY <1>1, <3>1, <3>2, <3>3
  <2>7. DOMAIN writers = Records
    BY <1>1 DEF LogTypeOK
  <2>8. \A y \in Records : writers'[y] = IF y = x THEN [pc |-> "appended", seq |-> seq + 1]
                                                 ELSE writers[y]
    BY <2>1, <2>7
  <2> HIDE DEF new
  <2>9. \A p \in Elements(published), e \in Elements(entries') : p.seq = e.seq => p = e
    BY <2>1, <2>2, <2>4 DEF Identified
  <2>10. \A y \in Records, e \in Elements(entries') :
            writers'[y].pc = "appended" /\ e.seq = writers'[y].seq => e.record = y
    <3> SUFFICES ASSUME NEW y \in Records, NEW e \in Elements(entries'),
                        writers'[y].pc = "appended", e.seq = writers'[y].seq
                 PROVE  e.record = y
      OBVIOUS
    <3>1. e \in Elements(entries) \/ e = new
      BY <2>1
    <3>2. CASE y = x
      <4>1. e.seq = seq + 1
        BY <2>8, <3>2
      <4>2. e = new
        BY <1>1, <2>3, <3>1, <4>1
      <4> QED BY <2>2, <3>2, <4>2
    <3>3. CASE y # x
      <4>1. writers[y].pc = "appended" /\ e.seq = writers[y].seq
        BY <2>8, <3>3
      <4>2. e \in Elements(entries)
        BY <2>2, <2>5, <3>1, <4>1
      <4> QED BY <4>1, <4>2 DEF Identified
    <3> QED BY <3>2, <3>3
  <2>11. \A r \in Readers, e \in Elements(entries') : \A b \in reads[r].backlog : b.seq = e.seq => b = e
    BY <2>1, <2>2, <2>6 DEF Identified
  <2>12. \A r \in Readers : reads'[r].phase # "streaming" => reads'[r].backlog = {}
    BY <2>1 DEF Identified
  <2> QED BY <2>1, <2>12, <2>9, <2>10, <2>11 DEF Identified
<1>3. ASSUME NEW x \in Records, Publish(x) PROVE Identified'
  <2> DEFINE new == EntryOf(x)
  <2>1. /\ published' = Append(published, new) /\ entries' = entries /\ reads' = reads
        /\ writers' = [writers EXCEPT ![x].pc = "done"] /\ writers[x].pc = "appended"
    BY <1>3 DEF Publish
  <2>2. new = [seq |-> writers[x].seq, record |-> x] /\ published \in Seq(Entry)
        /\ writers \in [Records -> Writer]
    BY <1>1 DEF EntryOf, LogTypeOK
  <2>3. new \in Entry
    BY <2>2 DEF Entry, Writer
  <2>4. Elements(published') \subseteq Elements(published) \cup {new}
    <3> HIDE DEF new, Entry
    <3>1. /\ DOMAIN published = 1 .. Len(published) /\ DOMAIN published' = 1 .. (Len(published) + 1)
          /\ \A i \in 1 .. Len(published) : published'[i] = published[i]
          /\ published'[Len(published) + 1] = new /\ Len(published) \in Nat
      BY <2>1, <2>2, <2>3, AppendFacts
    <3> QED BY <3>1 DEF Elements
  <2>5. ASSUME NEW e \in Elements(entries), new.seq = e.seq PROVE new = e
    <3>1. e.record = x /\ e.seq = writers[x].seq
      BY <2>1, <2>2, <2>5 DEF Identified
    <3>2. e \in Entry
      BY <1>1, RetainedNumbers
    <3> QED BY <2>2, <3>1, <3>2 DEF Entry
  <2>6. \A y \in Records : writers'[y].pc = "appended" => writers'[y] = writers[y]
    BY <2>1, <2>2 DEF Writer
  <2> HIDE DEF new
  <2> QED BY <2>1, <2>4, <2>5, <2>6 DEF Identified
<1>4. ASSUME NEW x \in Records, Interrupt(x) PROVE Identified'
  <2>1. writers \in [Records -> Writer]
    BY <1>1 DEF LogTypeOK
  <2>2. \A y \in Records : writers'[y].pc = "appended" => writers'[y] = writers[y]
    BY <1>4, <2>1 DEF Interrupt, Writer
  <2> QED BY <1>4, <2>2 DEF Identified, Interrupt
<1>5. CASE Clear
  <2>1. entries' = <<>> /\ reads' = reads
    BY <1>5 DEF Clear
  <2>2. Elements(entries') = {}
    BY <2>1 DEF Elements
  <2> QED BY <2>1, <2>2 DEF Identified
<1>10. CASE ServerRestarts
  <2>1. entries' = <<>> /\ reads' = [r \in Readers |-> Closed]
    BY <1>10 DEF ServerRestarts, Restart
  <2>2. Elements(entries') = {}
    BY <2>1 DEF Elements
  <2>3. Closed.backlog = {}
    BY DEF Closed, NewRead
  <2> QED BY <2>1, <2>2, <2>3 DEF Identified
<1>6. ASSUME NEW r \in Readers, Snapshot(r) PROVE Identified'
  <2>1. \A q \in Readers : reads'[q].backlog = IF q = r THEN Missed(reads[r].cursor)
                                                        ELSE reads[q].backlog
    BY <1>1, <1>6 DEF Snapshot
  <2>2. Missed(reads[r].cursor) \subseteq Elements(entries)
    BY DEF Missed
  <2>3. \A e, f \in Elements(entries) : e.seq = f.seq => e = f
    BY <1>1, RetainedNumbers
  <2>4. entries' = entries /\ published' = published /\ writers' = writers
    BY <1>6 DEF Snapshot
  <2>5. \A q \in Readers, e \in Elements(entries) : \A b \in reads'[q].backlog : b.seq = e.seq => b = e
    BY <2>1, <2>2, <2>3 DEF Identified
  <2>6. \A q \in Readers : reads'[q].phase = IF q = r THEN "streaming" ELSE reads[q].phase
    BY <1>1, <1>6 DEF Snapshot
  <2>7. \A q \in Readers : reads'[q].phase # "streaming" => reads'[q].backlog = {}
    BY <2>1, <2>6 DEF Identified
  <2> QED BY <2>4, <2>5, <2>7 DEF Identified
<1>7. ASSUME NEW r \in Readers, Take(r) PROVE Identified'
  <2>1. \A q \in Readers : reads'[q].backlog = reads[q].backlog /\ reads'[q].phase = reads[q].phase
    BY <1>1, <1>7 DEF Take
  <2> QED BY <1>7, <2>1 DEF Identified, Take
<1>8. ASSUME NEW r \in Readers, Connect(r) \/ Drop(r) PROVE Identified'
  <2>1. \A q \in Readers : q # r => reads'[q] = reads[q]
    BY <1>1, <1>8 DEF Connect, Subscribe, Drop, Close
  <2>3. reads'[r].backlog = {}
    <3>1. CASE Connect(r)
      BY <1>1, <3>1 DEF Connect, Subscribe, NewRead
    <3>2. CASE Drop(r)
      BY <1>1, <3>2 DEF Drop, Close, Closed, NewRead
    <3> QED BY <1>8, <3>1, <3>2
  <2>2. entries' = entries /\ published' = published /\ writers' = writers
    BY <1>8 DEF Connect, Subscribe, Drop, Close
  <2>4. \A q \in Readers : reads'[q].backlog = {} \/ reads'[q] = reads[q]
    BY <2>1, <2>3
  <2> QED BY <2>2, <2>4 DEF Identified
<1>9. CASE UNCHANGED logVars
  BY <1>9 DEF Identified, logVars
<1>11. ASSUME NEW r \in Readers, Deliver(r) \/ SyncTimesOut(r) PROVE UNCHANGED logVars
  BY <1>11 DEF Deliver, SyncTimesOut
<1> QED BY <1>2, <1>3, <1>4, <1>5, <1>6, <1>7, <1>8, <1>9, <1>10, <1>11 DEF Next, LogStep, vars

LEMMA OrderOfPulls ==
  ASSUME LogInv, LogAssumption, NEW r \in Readers, Take(r), PulledInOrder(r)
  PROVE  PulledInOrder(r)'
<1>1. PICK last \in OldestKept(r)..Len(published) :
        reads' = [reads EXCEPT ![r].taken = @ \o SubSeq(published, OldestKept(r), last),
                               ![r].next = last]
  BY DEF Take
<1> DEFINE first == OldestKept(r)
           taken == reads[r].taken
           n == Len(taken)
           more == taken \o Pull(r, last)
<1>2. LogTypeOK /\ DOMAIN reads = Readers /\ Len(published) \in Nat
      /\ DOMAIN published = 1 .. Len(published) /\ reads[r] \in ReadAt(reads[r].cursor)
  BY DEF LogInv, LogTypeOK
<1>3. /\ first \in Nat /\ first >= 1 /\ first > reads[r].next
      /\ n \in Nat /\ DOMAIN taken = 1 .. n
      /\ DOMAIN more = 1 .. (n + (last - first + 1))
      /\ \A k \in 1 .. n : more[k] = taken[k]
      /\ \A k \in (n + 1) .. (n + (last - first + 1)) : more[k] = published[first + (k - n) - 1]
  BY <1>1, <1>2, TakeFacts
<1>4. last \in Nat /\ last >= first /\ last <= Len(published) /\ reads[r].next \in Nat
  <2>1. reads[r].next \in Nat
    BY <1>2 DEF ReadAt
  <2> HIDE DEF first
  <2> QED BY <1>1, <1>2, <1>3, <2>1 DEF first
<1>5. reads'[r].taken = more /\ published' = published
  <2>1. published' = published
    BY DEF Take
  <2>2. reads'[r] = [reads[r] EXCEPT !.taken = more, !.next = last]
    BY <1>1, <1>2 DEF Pull
  <2> HIDE DEF more
  <2>3. reads'[r].taken = more
    BY <1>2, <2>2 DEF ReadAt
  <2> QED BY <2>1, <2>3
<1>6. \A k \in 1 .. n : \E i \in DOMAIN published : i <= reads[r].next /\ taken[k] = published[i]
  BY <1>3 DEF LogInv, Pulled
<1>7. \A k, l \in 1 .. n : k < l =>
         \E i, j \in DOMAIN published : i < j /\ taken[k] = published[i] /\ taken[l] = published[j]
  <2>1. \A k, l \in DOMAIN taken : k < l =>
           \E i, j \in DOMAIN published : i < j /\ taken[k] = published[i] /\ taken[l] = published[j]
    BY Zenon DEF PulledInOrder
  <2>2. DOMAIN taken = 1 .. n
    BY <1>3
  <2> HIDE DEF taken, n
  <2> QED BY <2>1, <2>2
<1> HIDE DEF first, taken, n, more
<1> SUFFICES ASSUME NEW k \in 1 .. (n + (last - first + 1)), NEW l \in 1 .. (n + (last - first + 1)), k < l
             PROVE  \E i, j \in DOMAIN published : i < j /\ more[k] = published[i] /\ more[l] = published[j]
  <2>1. PulledInOrder(r)' <=>
          \A k, l \in DOMAIN reads'[r].taken : k < l =>
            \E i, j \in DOMAIN published' :
               i < j /\ reads'[r].taken[k] = published'[i] /\ reads'[r].taken[l] = published'[j]
    BY DEF PulledInOrder
  <2>2. DOMAIN more = 1 .. (n + (last - first + 1))
    BY <1>3
  <2> QED BY <1>5, <2>1, <2>2
<1>8. CASE l <= n
  <2>1. k \in 1 .. n /\ l \in 1 .. n
    BY <1>3, <1>8
  <2>2. PICK i, j \in DOMAIN published : i < j /\ taken[k] = published[i] /\ taken[l] = published[j]
    BY <1>7, <2>1
  <2>3. more[k] = taken[k] /\ more[l] = taken[l]
    BY <1>3, <2>1
  <2> QED BY <2>2, <2>3
<1>9. CASE l > n
  <2> DEFINE j == first + (l - n) - 1
  <2>1. j \in DOMAIN published /\ j >= first /\ more[l] = published[j]
    <3>1. l \in (n + 1) .. (n + (last - first + 1)) /\ j >= first /\ j <= last /\ j \in Nat /\ j >= 1
      BY <1>3, <1>4, <1>9
    <3> QED BY <1>2, <1>3, <1>4, <3>1
  <2>2. CASE k <= n
    <3>1. k \in 1 .. n
      BY <1>3, <2>2
    <3>2. PICK i \in DOMAIN published : i <= reads[r].next /\ taken[k] = published[i]
      BY <1>6, <3>1
    <3>3. i < j /\ more[k] = published[i]
      <4>1. i \in Nat /\ j \in Nat
        BY <1>2, <2>1
      <4> HIDE DEF j
      <4> QED BY <1>3, <1>4, <2>1, <3>1, <3>2, <4>1
    <3> HIDE DEF j
    <3> QED BY <2>1, <3>3
  <2>3. CASE k > n
    <3> DEFINE i == first + (k - n) - 1
    <3>1. k \in (n + 1) .. (n + (last - first + 1)) /\ i >= first /\ i <= last /\ i \in Nat /\ i >= 1 /\ i < j
      BY <1>3, <1>4, <1>9, <2>3
    <3>2. more[k] = published[i] /\ i \in DOMAIN published
      BY <1>2, <1>3, <1>4, <3>1
    <3> HIDE DEF i, j
    <3> QED BY <2>1, <3>1, <3>2
  <2> QED BY <1>3, <2>2, <2>3
<1> QED BY <1>3, <1>8, <1>9

LEMMA PulledInOrderKept ==
  ASSUME LogInv, LogAssumption, \A r \in Readers : PulledInOrder(r), [Next]_vars
  PROVE  \A r \in Readers : PulledInOrder(r)'
<1>1. LogTypeOK /\ DOMAIN reads = Readers /\ published \in Seq(Entry)
  BY DEF LogInv, LogTypeOK
<1>2. ASSUME NEW r \in Readers, reads'[r].taken = <<>> PROVE PulledInOrder(r)'
  BY <1>2 DEF PulledInOrder
<1>3. ASSUME NEW r \in Readers, reads'[r].taken = reads[r].taken, published' = published
      PROVE  PulledInOrder(r)'
  BY <1>3 DEF PulledInOrder
<1>4. ASSUME NEW x \in Records, Publish(x), NEW r \in Readers PROVE PulledInOrder(r)'
  <2>1. published' = Append(published, EntryOf(x)) /\ reads' = reads
    BY <1>4 DEF Publish
  <2>2. EntryOf(x) \in Entry
    BY <1>1 DEF EntryOf, Entry, LogTypeOK, Writer
  <2>3. \A i \in DOMAIN published : i \in DOMAIN published' /\ published'[i] = published[i]
    <3>1. /\ DOMAIN published = 1 .. Len(published) /\ DOMAIN published' = 1 .. (Len(published) + 1)
          /\ \A i \in 1 .. Len(published) : published'[i] = published[i]
          /\ Len(published) \in Nat
      <4> HIDE DEF Entry
      <4> QED BY <1>1, <2>1, <2>2, AppendFacts
    <3> QED BY <3>1
  <2> QED BY <2>1, <2>3 DEF PulledInOrder
<1>5. ASSUME NEW q \in Readers, Take(q), NEW r \in Readers PROVE PulledInOrder(r)'
  <2>1. CASE r = q
    BY <1>5, <2>1, OrderOfPulls
  <2>2. CASE r # q
    <3>1. reads'[r] = reads[r] /\ published' = published
      BY <1>1, <1>5, <2>2 DEF Take
    <3> QED BY <1>3, <3>1
  <2> QED BY <2>1, <2>2
<1>6. ASSUME NEW q \in Readers, Snapshot(q), NEW r \in Readers PROVE PulledInOrder(r)'
  <2>1. reads'[r].taken = reads[r].taken /\ published' = published
    BY <1>1, <1>6 DEF Snapshot
  <2> QED BY <1>3, <2>1
<1>7. ASSUME NEW q \in Readers, Connect(q) \/ Drop(q), NEW r \in Readers PROVE PulledInOrder(r)'
  <2>1. published' = published
    BY <1>7 DEF Connect, Subscribe, Drop, Close
  <2>2. r # q => reads'[r] = reads[r]
    BY <1>1, <1>7 DEF Connect, Subscribe, Drop, Close
  <2>3. r = q => reads'[r].taken = <<>>
    BY <1>1, <1>7 DEF Connect, Subscribe, NewRead, Drop, Close, Closed
  <2> QED BY <1>2, <1>3, <2>1, <2>2, <2>3
<1>8. ASSUME ServerRestarts, NEW r \in Readers PROVE PulledInOrder(r)'
  <2>1. reads'[r].taken = <<>>
    BY <1>8 DEF ServerRestarts, Restart, Closed, NewRead
  <2> QED BY <1>2, <2>1
<1>9. ASSUME reads' = reads, published' = published, NEW r \in Readers PROVE PulledInOrder(r)'
  BY <1>3, <1>9
<1>10. ASSUME NEW x \in Records, AppendRecord(x) \/ Interrupt(x) PROVE reads' = reads /\ published' = published
  BY <1>10 DEF AppendRecord, Interrupt
<1>11. Clear => reads' = reads /\ published' = published
  BY DEF Clear
<1>12. ASSUME NEW q \in Readers, Deliver(q) \/ SyncTimesOut(q) PROVE reads' = reads /\ published' = published
  BY <1>12 DEF Deliver, SyncTimesOut, logVars
<1>13. UNCHANGED vars => reads' = reads /\ published' = published
  BY DEF vars, logVars
<1> QED BY <1>4, <1>5, <1>6, <1>7, <1>8, <1>9, <1>10, <1>11, <1>12, <1>13 DEF Next, LogStep

(* A record may be lost to a reader that resumes by number when publishes  *)
(* did not follow the numbers, or a later number is of an earlier time.    *)
Excused(e) ==
    \/ \E i \in DOMAIN published : published[i].seq # i
    \/ \E f \in Elements(entries) : f.seq > e.seq /\ f.record.at < e.record.at

Caught(r, e) == e.record \in received[r] \/ Excused(e)

(* What a panel has of what is retained: all up to the last id it saw; all *)
(* up to the mark of its read, but for the backlog; and of the frames that *)
(* arrived, every record.                                                  *)
Resumes(r) ==
    /\ panels[r].lastId.epoch = epoch =>
         \A e \in Retained : e.seq <= panels[r].lastId.seq => Caught(r, e)
    /\ reads[r].phase = "streaming" =>
         /\ \A e \in Retained :
              e.seq <= reads[r].highWater => Caught(r, e) \/ e \in reads[r].backlog
         /\ panels[r].sent <= Len(FramesOf(reads[r]))
         /\ \A i \in 1 .. panels[r].sent : FramesOf(reads[r])[i].event # "synced" =>
              FramesOf(reads[r])[i].entry.record \in received[r]

(* The frame that arrives next leaves nothing behind.                      *)
LEMMA ArrivalsCatchUp ==
  ASSUME LogInv, LogAssumption, Numbered, Identified, Timed,
         NEW r \in Readers, PulledInOrder(r), Resumes(r),
         reads[r].phase = "streaming", panels[r].sent \in Nat,
         panels[r].sent < Len(FramesOf(reads[r])),
         NEW f, f = FramesOf(reads[r])[panels[r].sent + 1], f.event # "synced",
         NEW e \in Retained, e.seq <= f.entry.seq
  PROVE  Caught(r, e) \/ e.record = f.entry.record
<1> DEFINE a == reads[r]
           P == Prelude(a)
           L == LiveHalf(a)
           F == FramesOf(a)
           n == Len(P)
           i == panels[r].sent + 1
<1>0. /\ LogTypeOK /\ Presentable(a.backlog) /\ a.taken \in Seq(Entry)
      /\ a.highWater \in Nat /\ a.next \in Nat /\ a.next <= Len(published)
      /\ seq \in Nat /\ published \in Seq(Entry) /\ a.highWater <= seq
  BY DEF LogInv, Numbered, LogTypeOK, ReadAt, Pulled
<1>1. /\ Presents(P, {b \in a.backlog : Framed(b)})
      /\ L \in Seq(Entry)
      /\ ToSet(L) = {b \in Elements(a.taken) : b.seq > a.highWater /\ Framed(b)}
      /\ InTheOrderOf(L, a.taken, Len(a.taken))
      /\ P \in Seq(Entry)
      /\ n \in Nat /\ Len(L) \in Nat
      /\ Len(F) = n + 1 + Len(L)
      /\ \A k \in 1 .. n : F[k] = Frame("backlog", P[k])
      /\ F[n + 1] = [event |-> "synced"]
      /\ \A k \in 1 .. Len(L) : F[n + 1 + k] = Frame("message", L[k])
  BY <1>0, FramesAre
<1>2. /\ e \in Elements(entries) /\ Framed(e) /\ e \in Entry
      /\ e.seq \in Nat /\ e.seq >= 1 /\ e.seq <= seq /\ e.seq + Capacity > seq
  BY <1>0, RetainedNumbers DEF Retained, Entry
<1>3. /\ \A k \in 1 .. panels[r].sent : F[k].event # "synced" => F[k].entry.record \in received[r]
      /\ e.seq <= a.highWater => Caught(r, e) \/ e \in a.backlog
  BY DEF Resumes
<1>4. i \in Nat /\ i >= 1 /\ i <= Len(F) /\ f = F[i] /\ panels[r].sent = i - 1
  BY <1>1
<1>5. \A b \in a.backlog : b \in Entry /\ b.seq \in Nat /\ b.seq <= a.highWater
  BY <1>0 DEF LogInv, Pulled, Presentable, Entry
<1>6. DOMAIN P = 1 .. n /\ DOMAIN L = 1 .. Len(L)
      /\ (\A k \in 1 .. n : P[k] \in a.backlog) /\ \A k \in 1 .. Len(L) : L[k] \in Entry
  <2>1. DOMAIN P = 1 .. n /\ DOMAIN L = 1 .. Len(L)
    BY <1>1
  <2> HIDE DEF P, L, a, n
  <2>2. ToSet(P) = {b \in a.backlog : Framed(b)}
    BY <1>1 DEF Presents
  <2>3. \A k \in 1 .. n : P[k] \in ToSet(P)
    BY <2>1 DEF ToSet
  <2>4. \A k \in 1 .. n : P[k] \in a.backlog
    BY <2>2, <2>3
  <2>5. \A k \in 1 .. Len(L) : L[k] \in Entry
    BY <1>1
  <2> QED BY <2>1, <2>4, <2>5
<1> HIDE DEF i, F, P, L, n
<1>7. \A k \in 1 .. n : k <= i - 1 => P[k].record \in received[r]
  <2> SUFFICES ASSUME NEW k \in 1 .. n, k <= i - 1 PROVE P[k].record \in received[r]
    OBVIOUS
  <2>0. F[k] = Frame("backlog", P[k])
    BY <1>1
  <2>1. F[k].event = "backlog" /\ F[k].entry = P[k]
    BY <2>0 DEF Frame
  <2>2. k \in 1 .. panels[r].sent
    BY <1>1, <1>4
  <2> QED BY <1>3, <2>1, <2>2
<1>8. \A k \in 1 .. Len(L) : n + 1 + k <= i - 1 => L[k].record \in received[r]
  <2> SUFFICES ASSUME NEW k \in 1 .. Len(L), n + 1 + k <= i - 1 PROVE L[k].record \in received[r]
    OBVIOUS
  <2>0. F[n + 1 + k] = Frame("message", L[k])
    BY <1>1
  <2>1. F[n + 1 + k].event = "message" /\ F[n + 1 + k].entry = L[k]
    BY <2>0 DEF Frame
  <2>2. n + 1 + k \in 1 .. panels[r].sent
    BY <1>1, <1>4
  <2> QED BY <1>3, <2>1, <2>2
<1>9. ASSUME e \in a.backlog PROVE \E j \in 1 .. n : e = P[j]
  <2>1. e \in ToSet(P)
    BY <1>1, <1>2, <1>9 DEF Presents
  <2> QED BY <1>6, <2>1 DEF ToSet
<1>10. CASE i <= n
  <2>0. i \in 1 .. n
    BY <1>1, <1>4, <1>10
  <2>f. F[i] = Frame("backlog", P[i])
    BY <1>1, <2>0
  <2>1. i \in 1 .. n /\ f.entry = P[i]
    BY <1>4, <2>0, <2>f DEF Frame
  <2>2. P[i] \in a.backlog /\ P[i] \in Entry /\ P[i].seq \in Nat /\ P[i].seq <= a.highWater
    BY <1>5, <1>6, <2>1
  <2>3. e.seq <= P[i].seq /\ e.seq <= a.highWater
    BY <1>0, <1>2, <2>1, <2>2
  <2>4. CASE e \in a.backlog
    <3>1. PICK j \in 1 .. n : e = P[j]
      BY <1>9, <2>4
    <3>2. CASE j <= i - 1
      BY <1>7, <3>1, <3>2 DEF Caught
    <3>3. CASE j = i
      BY <2>1, <3>1, <3>3
    <3>4. CASE j > i
      <4>1. ComesBefore(P[i], P[j])
        <5>1. i \in DOMAIN P /\ j \in DOMAIN P
          BY <1>6, <2>1
        <5> QED BY <1>1, <3>4, <5>1 DEF Presents
      <4>2. ComesBefore(P[i], e)
        BY <3>1, <4>1
      <4>3. P[i].record.at < e.record.at
        BY <1>2, <2>2, <2>3, <4>2 DEF ComesBefore
      <4>4. e.seq # P[i].seq
        <5>1. e.seq = P[i].seq => e = P[i]
          BY <1>0, <2>2, <2>4 DEF Presentable
        <5>2. P[i].record.at \in Nat
          BY <2>2 DEF Timed, Entry
        <5> QED BY <4>3, <5>1, <5>2
      <4>5. P[i].seq > e.seq /\ P[i].seq <= seq
        BY <1>0, <1>2, <2>2, <2>3, <4>4
      <4>6. PICK g \in Elements(entries) : g.seq = P[i].seq
        BY <1>0, <1>2, <2>2, <2>3, <4>5, RetainedNumbers
      <4>7. g = P[i]
        BY <2>2, <4>6 DEF Identified
      <4> QED BY <4>3, <4>5, <4>6, <4>7 DEF Caught, Excused
    <3> QED BY <1>4, <3>2, <3>3, <3>4
  <2> QED BY <1>3, <2>3, <2>4
<1>11. i # n + 1
  <2>1. F[n + 1].event = "synced"
    <3>1. F[n + 1] = [event |-> "synced"]
      BY <1>1
    <3> QED BY <3>1
  <2>2. f = F[i]
    BY <1>4
  <2>3. i = n + 1 => f = F[n + 1]
    BY <2>2
  <2> QED BY <2>1, <2>3
<1>12. CASE i > n + 1
  <2> DEFINE k == i - (n + 1)
  <2>1. k \in 1 .. Len(L) /\ i = n + 1 + k
    <3>1. n \in Nat /\ Len(L) \in Nat /\ Len(F) = n + 1 + Len(L)
      BY <1>1
    <3>2. i \in Nat /\ i <= n + 1 + Len(L)
      BY <1>4, <3>1
    <3> QED BY <1>12, <3>1, <3>2
  <2> HIDE DEF k
  <2>0. F[n + 1 + k] = Frame("message", L[k])
    BY <1>1, <2>1
  <2>2. f.entry = L[k]
    BY <1>4, <2>0, <2>1 DEF Frame
  <2>3. L[k] \in Entry /\ L[k].seq \in Nat /\ e.seq <= L[k].seq
    BY <1>6, <2>1, <2>2 DEF Entry
  <2>4. CASE e.seq <= a.highWater
    <3>1. CASE e \in a.backlog
      <4>1. PICK j \in 1 .. n : e = P[j]
        BY <1>9, <3>1
      <4>2. j <= i - 1
        BY <1>1, <1>4, <1>12
      <4> QED BY <1>7, <4>1, <4>2 DEF Caught
    <3> QED BY <1>3, <2>4, <3>1
  <2>5. CASE e.seq > a.highWater /\ \A p \in DOMAIN published : published[p].seq = p
    <3>0. DOMAIN published = 1 .. Len(published) /\ Len(published) \in Nat
      BY <1>0
    <3>1. L[k] \in Elements(a.taken)
      <4>1. L[k] \in ToSet(L)
        BY <1>6, <2>1 DEF ToSet
      <4> QED BY <1>1, <4>1
    <3>2. PICK m \in DOMAIN published : m <= a.next /\ L[k] = published[m]
      <4>1. PICK x \in DOMAIN a.taken : L[k] = a.taken[x]
        BY <3>1 DEF Elements
      <4> QED BY <4>1 DEF LogInv, Pulled
    <3>3. m = L[k].seq /\ m \in Nat /\ e.seq <= m
      BY <2>3, <2>5, <3>0, <3>2
    <3>4. e.seq \in DOMAIN published
      BY <1>2, <3>0, <3>2, <3>3
    <3>5. published[e.seq] = e
      <4>1. published[e.seq].seq = e.seq /\ published[e.seq] \in Elements(published)
        BY <2>5, <3>4 DEF Elements
      <4> QED BY <1>2, <4>1 DEF Identified
    <3>6. Len(published) <= seq
      <4>1. Len(published) \in DOMAIN published
        BY <3>0, <3>2
      <4>2. published[Len(published)].seq <= seq
        BY <1>0, <4>1 DEF LogTypeOK, Elements
      <4> QED BY <2>5, <4>1, <4>2
    <3>7. e \in Elements(a.taken)
      <4>1. PublishedIsPulled(r)
        BY DEF LogInv, Pulled
      <4>2. IsLive(r, published[e.seq])
        BY <2>5, <3>5 DEF IsLive
      <4>3. e.seq + Capacity > Len(published)
        BY <1>0, <1>2, <3>0, <3>6, LogAssumption
      <4>4. e.seq > a.next \/ published[e.seq] \in Elements(a.taken)
        BY <3>4, <4>1, <4>2, <4>3 DEF PublishedIsPulled
      <4>5. ~(e.seq > a.next)
        BY <1>0, <1>2, <3>2, <3>3
      <4> QED BY <3>5, <4>4, <4>5
    <3>8. PICK j \in 1 .. Len(L) : e = L[j]
      <4>1. e \in ToSet(L)
        BY <1>1, <1>2, <2>5, <3>7
      <4> QED BY <1>6, <4>1 DEF ToSet
    <3>9. CASE j < k
      <4>1. n + 1 + j <= i - 1
        BY <1>1, <2>1, <3>9
      <4> QED BY <1>8, <3>8, <4>1 DEF Caught
    <3>10. CASE j = k
      BY <2>2, <3>8, <3>10
    <3>11. CASE j > k
      <4>1. PICK x, y \in 1 .. Len(a.taken) : x < y /\ L[k] = a.taken[x] /\ L[j] = a.taken[y]
        <5>1. k \in DOMAIN L /\ j \in DOMAIN L /\ k < j
          BY <1>6, <2>1, <3>8, <3>11
        <5> QED BY <1>1, <5>1 DEF InTheOrderOf
      <4>2. x \in DOMAIN a.taken /\ y \in DOMAIN a.taken
        BY <1>0, <4>1
      <4>3. PICK u, v \in DOMAIN published :
              u < v /\ a.taken[x] = published[u] /\ a.taken[y] = published[v]
        BY <4>1, <4>2 DEF PulledInOrder
      <4>4. u = L[k].seq /\ v = e.seq
        BY <2>5, <3>8, <4>1, <4>3
      <4> QED BY <1>2, <2>3, <4>3, <4>4
    <3> QED BY <1>1, <2>1, <3>8, <3>9, <3>10, <3>11
  <2>6. CASE \E p \in DOMAIN published : published[p].seq # p
    BY <2>6 DEF Caught, Excused
  <2> QED BY <1>0, <1>2, <2>4, <2>5, <2>6
<1> QED BY <1>1, <1>4, <1>10, <1>11, <1>12

(* What is retained and numbered is so before, and is excused still.       *)
LEMMA RetainedBefore ==
  ASSUME LogInv, LogAssumption, Numbered, [Next]_vars, ~ServerRestarts,
         NEW e \in Retained', e.seq <= seq
  PROVE  e \in Retained /\ (Excused(e) => Excused(e)')
<1>1. LogTypeOK /\ seq \in Nat /\ published \in Seq(Entry) /\ entries \in Seq(Entry)
  BY DEF LogInv, LogTypeOK
<1>2. e \in Elements(entries') /\ Framed(e)
  BY DEF Retained, Framed
<1>3. ASSUME entries' = entries, published' = published PROVE e \in Retained /\ (Excused(e) => Excused(e)')
  BY <1>2, <1>3 DEF Retained, Excused
<1>4. ASSUME NEW x \in Records, AppendRecord(x) PROVE e \in Retained /\ (Excused(e) => Excused(e)')
  <2> DEFINE new == [seq |-> seq + 1, record |-> x]
  <2>1. /\ seq' = seq + 1 /\ published' = published /\ Retain(x)
        /\ Elements(entries') \subseteq Elements(entries) \cup {new}
    BY <1>1, <1>4, RetainKeeps DEF AppendRecord
  <2>2. new.seq = seq + 1
    OBVIOUS
  <2>3. e # new
    BY <1>1, <2>2
  <2>4. e \in Elements(entries)
    BY <1>2, <2>1, <2>3
  <2> HIDE DEF new
  <2>5. ASSUME NEW f \in Elements(entries), f.seq > e.seq PROVE f \in Elements(entries')
    BY <1>1, <1>2, <2>1, <2>4, <2>5, LaterStay
  <2>6. Excused(e) => Excused(e)'
    BY <2>1, <2>5 DEF Excused
  <2> QED BY <1>2, <2>4, <2>6 DEF Retained
<1>5. ASSUME NEW x \in Records, Publish(x) PROVE e \in Retained /\ (Excused(e) => Excused(e)')
  <2>1. published' = Append(published, EntryOf(x)) /\ entries' = entries
    BY <1>5 DEF Publish
  <2>2. EntryOf(x) \in Entry
    BY <1>1 DEF EntryOf, Entry, LogTypeOK, Writer
  <2>3. \A i \in DOMAIN published : i \in DOMAIN published' /\ published'[i] = published[i]
    <3>1. /\ DOMAIN published = 1 .. Len(published) /\ DOMAIN published' = 1 .. (Len(published) + 1)
          /\ \A i \in 1 .. Len(published) : published'[i] = published[i]
          /\ Len(published) \in Nat
      <4> HIDE DEF Entry
      <4> QED BY <1>1, <2>1, <2>2, AppendFacts
    <3> QED BY <3>1
  <2> QED BY <1>2, <2>1, <2>3 DEF Retained, Excused
<1>6. ASSUME Clear PROVE e \in Retained /\ (Excused(e) => Excused(e)')
  <2>1. entries' = <<>>
    BY <1>6 DEF Clear
  <2> QED BY <1>2, <2>1 DEF Elements
<1>7. ASSUME NEW x \in Records, Interrupt(x) PROVE entries' = entries /\ published' = published
  BY <1>7 DEF Interrupt
<1>8. ASSUME NEW r \in Readers, Snapshot(r) \/ Take(r) PROVE entries' = entries /\ published' = published
  BY <1>8 DEF Snapshot, Take
<1>9. ASSUME NEW r \in Readers, Connect(r) \/ Drop(r) \/ Deliver(r) \/ SyncTimesOut(r)
      PROVE  entries' = entries /\ published' = published
  BY <1>9 DEF Connect, Subscribe, Drop, Close, Deliver, SyncTimesOut, logVars
<1>10. UNCHANGED vars => entries' = entries /\ published' = published
  BY DEF vars, logVars
<1> QED BY <1>3, <1>4, <1>5, <1>6, <1>7, <1>8, <1>9, <1>10 DEF Next, LogStep

(* How far a panel got is of this log, and a read is asked for from there. *)
Follows(r) ==
    /\ {"sent", "lastId"} \subseteq DOMAIN panels[r]
    /\ panels[r].sent \in Nat /\ panels[r].lastId \in Cursor
    /\ panels[r].lastId.epoch <= epoch
    /\ panels[r].lastId.epoch = epoch => panels[r].lastId.seq <= seq
    /\ reads[r].phase # "streaming" => panels[r].sent = 0
    /\ reads[r].phase = "subscribed" => reads[r].cursor = panels[r].lastId

AllFollow == /\ DOMAIN panels = Readers /\ DOMAIN received = Readers
             /\ \A r \in Readers : Follows(r)

LEMMA FollowAtFirst ==
  ASSUME Init
  PROVE  AllFollow
<1> DEFINE panel == [phase |-> "waiting", sent |-> 0, lastId |-> NoCursor, early |-> <<>>, rows |-> <<>>]
<1>1. panels = [r \in Readers |-> panel] /\ received = [r \in Readers |-> {}]
      /\ reads = [r \in Readers |-> Closed] /\ epoch = 1
  BY DEF Init, LogInit
<1>2. /\ {"sent", "lastId"} \subseteq DOMAIN panel /\ panel.sent = 0 /\ panel.lastId \in Cursor
      /\ panel.lastId.epoch = 0
  BY DEF NoCursor, Cursor
<1>3. Closed.phase = "closed"
  BY DEF Closed, NewRead
<1> HIDE DEF panel
<1> QED BY <1>1, <1>2, <1>3 DEF AllFollow, Follows

(* Only what is delivered to a panel moves it on; a drop starts it over.   *)
Delivered(r) ==
    LET f == Frames(r)[panels[r].sent + 1]
    IN  /\ panels'[r].sent = panels[r].sent + 1
        /\ panels'[r].lastId = IF f.event = "synced" THEN panels[r].lastId
                                                     ELSE [epoch |-> epoch, seq |-> f.entry.seq]
        /\ received'[r] = IF f.event = "synced" THEN received[r] ELSE received[r] \cup {f.entry.record}

LEMMA PanelsMove ==
  ASSUME AllFollow, [Next]_vars, NEW r \in Readers
  PROVE  /\ DOMAIN panels' = Readers /\ DOMAIN received' = Readers
         /\ {"sent", "lastId"} \subseteq DOMAIN panels'[r]
         /\ Deliver(r) => Delivered(r)
         /\ ~Deliver(r) => panels'[r].lastId = panels[r].lastId /\ received'[r] = received[r]
         /\ Drop(r) \/ ServerRestarts => panels'[r].sent = 0
         /\ ~Deliver(r) /\ ~Drop(r) /\ ~ServerRestarts => panels'[r].sent = panels[r].sent
<1>1. /\ DOMAIN panels = Readers /\ DOMAIN received = Readers
      /\ \A q \in Readers : {"sent", "lastId"} \subseteq DOMAIN panels[q]
  BY DEF AllFollow, Follows
<1>2. ASSUME NEW q \in Readers, Deliver(q)
      PROVE  /\ DOMAIN panels' = Readers /\ DOMAIN received' = Readers
             /\ {"sent", "lastId"} \subseteq DOMAIN panels'[q]
             /\ Delivered(q)
             /\ q # r => panels'[r] = panels[r] /\ received'[r] = received[r]
  <2> DEFINE f == Frames(q)[panels[q].sent + 1]
             id == IF f.event = "synced" THEN panels[q].lastId
                                         ELSE [epoch |-> epoch, seq |-> f.entry.seq]
             arrived1 == Arrived(panels[q], f)
             panel == [arrived1 EXCEPT !.sent = @ + 1, !.lastId = id]
  <2>1. /\ panels' = [panels EXCEPT ![q] = panel]
        /\ received' = IF f.event = "synced" THEN received
                       ELSE [received EXCEPT ![q] = @ \cup {f.entry.record}]
    BY <1>2 DEF Deliver
  <2> HIDE DEF f, id
  <2>2. DOMAIN arrived1 = DOMAIN panels[q] /\ arrived1.sent = panels[q].sent
    <3>1. {"sent", "lastId"} \subseteq DOMAIN panels[q]
      BY <1>1
    <3>2. \/ arrived1 = Synced(panels[q]) \/ arrived1 = panels[q]
          \/ arrived1 = [panels[q] EXCEPT !.early = Append(@, f)]
          \/ arrived1 = [panels[q] EXCEPT !.rows = Ingest(@, f.entry.record)]
      BY DEF Arrived
    <3>3. DOMAIN Synced(panels[q]) = DOMAIN panels[q] /\ Synced(panels[q]).sent = panels[q].sent
      BY <3>1 DEF Synced
    <3> HIDE DEF arrived1
    <3> QED BY <3>1, <3>2, <3>3
  <2> HIDE DEF arrived1
  <2>3. DOMAIN panel = DOMAIN panels[q] /\ panel.sent = panels[q].sent + 1 /\ panel.lastId = id
    BY <1>1, <2>2
  <2> HIDE DEF panel
  <2>4. /\ DOMAIN panels' = Readers /\ DOMAIN received' = Readers /\ panels'[q] = panel
        /\ q # r => panels'[r] = panels[r] /\ received'[r] = received[r]
        /\ received'[q] = IF f.event = "synced" THEN received[q] ELSE received[q] \cup {f.entry.record}
    BY <1>1, <2>1
  <2>5. Delivered(q)
    BY <2>3, <2>4 DEF Delivered, f, id
  <2> QED BY <1>1, <2>3, <2>4, <2>5
<1>3. ASSUME NEW q \in Readers, Drop(q)
      PROVE  /\ DOMAIN panels' = Readers /\ received' = received
             /\ DOMAIN panels'[r] = DOMAIN panels[r] /\ panels'[r].lastId = panels[r].lastId
             /\ q = r => panels'[r].sent = 0
             /\ q # r => panels'[r] = panels[r]
  <2>1. panels' = [panels EXCEPT ![q].sent = 0] /\ received' = received
    BY <1>3 DEF Drop
  <2> QED BY <1>1, <2>1
<1>4. ASSUME ServerRestarts
      PROVE  /\ DOMAIN panels' = Readers /\ received' = received
             /\ DOMAIN panels'[r] = DOMAIN panels[r] /\ panels'[r].lastId = panels[r].lastId
             /\ panels'[r].sent = 0
  <2>1. panels' = [q \in Readers |-> [panels[q] EXCEPT !.sent = 0]] /\ received' = received
    BY <1>4 DEF ServerRestarts
  <2> QED BY <1>1, <2>1
<1>5. ASSUME NEW q \in Readers, SyncTimesOut(q)
      PROVE  /\ DOMAIN panels' = Readers /\ received' = received
             /\ DOMAIN panels'[r] = DOMAIN panels[r] /\ panels'[r].lastId = panels[r].lastId
             /\ panels'[r].sent = panels[r].sent
  <2> DEFINE rows == IngestAll(panels[q].rows, RecordsOf(panels[q].early))
             panel == [panels[q] EXCEPT !.phase = "live", !.early = <<>>, !.rows = rows]
  <2>1. panels' = [panels EXCEPT ![q].phase = "live", ![q].early = <<>>, ![q].rows = rows]
        /\ received' = received
    BY <1>5 DEF SyncTimesOut
  <2> HIDE DEF rows
  <2>2. panels' = [panels EXCEPT ![q] = panel]
    BY <1>1, <2>1
  <2>3. DOMAIN panel = DOMAIN panels[q] /\ panel.sent = panels[q].sent /\ panel.lastId = panels[q].lastId
    BY <1>1
  <2> HIDE DEF panel
  <2> QED BY <1>1, <2>1, <2>2, <2>3
<1>6. ASSUME NEW q \in Readers, Connect(q) PROVE panels' = panels /\ received' = received
  BY <1>6 DEF Connect
<1>7. (LogStep /\ UNCHANGED <<panels, received, drops>>) \/ UNCHANGED vars
        => panels' = panels /\ received' = received
  BY DEF vars
<1>8. Deliver(r) => Delivered(r)
  BY <1>2
<1>9. Drop(r) \/ ServerRestarts => panels'[r].sent = 0
  BY <1>3, <1>4
<1>10. /\ DOMAIN panels' = Readers /\ DOMAIN received' = Readers
       /\ {"sent", "lastId"} \subseteq DOMAIN panels'[r]
  <2>1. CASE panels' = panels /\ received' = received
    BY <1>1, <2>1
  <2>2. ASSUME NEW q \in Readers, Deliver(q)
        PROVE  /\ DOMAIN panels' = Readers /\ DOMAIN received' = Readers
               /\ {"sent", "lastId"} \subseteq DOMAIN panels'[r]
    BY <1>1, <1>2, <2>2
  <2>3. ASSUME NEW q \in Readers, Drop(q) \/ SyncTimesOut(q)
        PROVE  /\ DOMAIN panels' = Readers /\ DOMAIN received' = Readers
               /\ {"sent", "lastId"} \subseteq DOMAIN panels'[r]
    BY <1>1, <1>3, <1>5, <2>3
  <2>4. CASE ServerRestarts
    BY <1>1, <1>4, <2>4
  <2> QED BY <1>6, <1>7, <2>1, <2>2, <2>3, <2>4 DEF Next
<1>11. ASSUME ~Deliver(r) PROVE panels'[r].lastId = panels[r].lastId /\ received'[r] = received[r]
  BY <1>2, <1>3, <1>4, <1>5, <1>6, <1>7, <1>11 DEF Next
<1>12. ASSUME ~Deliver(r), ~Drop(r), ~ServerRestarts PROVE panels'[r].sent = panels[r].sent
  BY <1>2, <1>3, <1>5, <1>6, <1>7, <1>12 DEF Next
<1> QED BY <1>8, <1>9, <1>10, <1>11, <1>12

(* How a read of a reader changes.                                         *)
LEMMA ReadsMove ==
  ASSUME LogInv, LogAssumption, [Next]_vars, NEW r \in Readers
  PROVE  /\ ServerRestarts => reads'[r] = Closed
         /\ Drop(r) => reads'[r] = Closed
         /\ Deliver(r) => reads'[r] = reads[r] /\ reads[r].phase = "streaming"
         /\ Connect(r) => reads[r].phase = "closed" /\ reads'[r].phase = "subscribed"
                            /\ reads'[r].cursor = panels[r].lastId
         /\ Snapshot(r) => reads[r].phase = "subscribed" /\ reads'[r].phase = "streaming"
                            /\ reads'[r].highWater = seq
                            /\ reads'[r].backlog = Missed(reads[r].cursor)
         /\ Take(r) => reads[r].phase = "streaming" /\ reads'[r].phase = "streaming"
                            /\ reads'[r].highWater = reads[r].highWater
                            /\ reads'[r].backlog = reads[r].backlog
                            /\ \E last \in OldestKept(r) .. Len(published) :
                                  reads'[r].taken = reads[r].taken \o Pull(r, last)
         /\ \/ reads'[r] = reads[r]
            \/ ServerRestarts \/ Drop(r) \/ Connect(r) \/ Snapshot(r) \/ Take(r)
<1>1. DOMAIN reads = Readers /\ \A q \in Readers : reads[q] \in ReadAt(reads[q].cursor)
  BY DEF LogInv, LogTypeOK
<1>2. ServerRestarts => reads'[r] = Closed
  BY DEF ServerRestarts, Restart
<1>3. Drop(r) => reads'[r] = Closed
  BY <1>1 DEF Drop, Close
<1>4. \A q \in Readers : Deliver(q) => reads' = reads /\ reads[q].phase = "streaming"
  BY DEF Deliver, logVars
<1>5. Connect(r) => reads[r].phase = "closed" /\ reads'[r].phase = "subscribed"
                            /\ reads'[r].cursor = panels[r].lastId
  BY <1>1 DEF Connect, Subscribe, NewRead
<1>6. Snapshot(r) => reads[r].phase = "subscribed" /\ reads'[r].phase = "streaming"
                            /\ reads'[r].highWater = seq
                            /\ reads'[r].backlog = Missed(reads[r].cursor)
  BY <1>1 DEF Snapshot, ReadAt
<1>7. ASSUME Take(r)
      PROVE  /\ reads[r].phase = "streaming" /\ reads'[r].phase = "streaming"
             /\ reads'[r].highWater = reads[r].highWater
             /\ reads'[r].backlog = reads[r].backlog
             /\ \E last \in OldestKept(r) .. Len(published) :
                   reads'[r].taken = reads[r].taken \o Pull(r, last)
  <2>1. PICK last \in OldestKept(r) .. Len(published) :
          reads' = [reads EXCEPT ![r].taken = @ \o Pull(r, last), ![r].next = last]
    BY <1>7 DEF Take, Pull
  <2> DEFINE more == reads[r].taken \o Pull(r, last)
  <2>2. reads'[r] = [reads[r] EXCEPT !.taken = more, !.next = last]
    BY <1>1, <2>1
  <2> HIDE DEF more
  <2>3. reads'[r].taken = more /\ reads'[r].highWater = reads[r].highWater
        /\ reads'[r].backlog = reads[r].backlog /\ reads'[r].phase = reads[r].phase
    BY <1>1, <2>2 DEF ReadAt
  <2>4. reads[r].phase = "streaming"
    BY <1>7 DEF Take
  <2> QED BY <2>3, <2>4 DEF more
<1>8. ASSUME NEW q \in Readers, Drop(q) \/ Connect(q) \/ Snapshot(q) \/ Take(q), q # r
      PROVE  reads'[r] = reads[r]
  BY <1>1, <1>8 DEF Drop, Close, Connect, Subscribe, Snapshot, Take
<1>9. ASSUME NEW x \in Records, AppendRecord(x) \/ Publish(x) \/ Interrupt(x) PROVE reads' = reads
  BY <1>9 DEF AppendRecord, Publish, Interrupt
<1>10. Clear \/ UNCHANGED vars => reads' = reads
  BY DEF Clear, vars, logVars
<1>11. ASSUME NEW q \in Readers, SyncTimesOut(q) PROVE reads' = reads
  BY <1>11 DEF SyncTimesOut, logVars
<1>12. \/ reads'[r] = reads[r]
       \/ ServerRestarts \/ Drop(r) \/ Connect(r) \/ Snapshot(r) \/ Take(r)
  BY <1>4, <1>8, <1>9, <1>10, <1>11 DEF Next, LogStep
<1> QED BY <1>2, <1>3, <1>4, <1>5, <1>6, <1>7, <1>12

(* A pull adds frames after those there are.                               *)
LEMMA PullsAddFrames ==
  ASSUME Timed, NEW a, NEW b, NEW more \in Seq(Entry), Presentable(a.backlog), a.taken \in Seq(Entry),
         b.backlog = a.backlog, b.highWater = a.highWater, b.taken = a.taken \o more
  PROVE  /\ Len(FramesOf(a)) <= Len(FramesOf(b))
         /\ \A i \in 1 .. Len(FramesOf(a)) : FramesOf(b)[i] = FramesOf(a)[i]
<1> DEFINE s == a.taken
           T == {e \in Elements(a.taken) : e.seq > a.highWater /\ Framed(e)}
           U == {e \in Elements(b.taken) : e.seq > b.highWater /\ Framed(e)}
           n == Len(Prelude(a))
           L == LiveHalf(a)
           M == LiveHalf(b)
           F == FramesOf(a)
           G == FramesOf(b)
<1>1. b.taken \in Seq(Entry) /\ Presentable(b.backlog)
  <2> HIDE DEF Entry
  <2>1. a.taken \o more \in Seq(Entry)
    BY ConcatProperties
  <2> QED BY <2>1
<1>2. Prelude(b) = Prelude(a)
  BY DEF Prelude
<1>3. /\ L \in Seq(Entry) /\ Len(L) \in Nat /\ n \in Nat /\ Len(F) = n + 1 + Len(L)
      /\ \A i \in 1 .. n : F[i] = Frame("backlog", Prelude(a)[i])
      /\ F[n + 1] = [event |-> "synced"]
      /\ \A i \in 1 .. Len(L) : F[n + 1 + i] = Frame("message", L[i])
  BY FramesAre
<1>4. /\ M \in Seq(Entry) /\ Len(M) \in Nat /\ Len(G) = n + 1 + Len(M)
      /\ \A i \in 1 .. n : G[i] = Frame("backlog", Prelude(a)[i])
      /\ G[n + 1] = [event |-> "synced"]
      /\ \A i \in 1 .. Len(M) : G[n + 1 + i] = Frame("message", M[i])
  <2> DEFINE m == Len(Prelude(b))
  <2>1. /\ M \in Seq(Entry) /\ Len(M) \in Nat /\ Len(G) = m + 1 + Len(M)
        /\ \A i \in 1 .. m : G[i] = Frame("backlog", Prelude(b)[i])
        /\ G[m + 1] = [event |-> "synced"]
        /\ \A i \in 1 .. Len(M) : G[m + 1 + i] = Frame("message", M[i])
    BY <1>1, FramesAre
  <2> HIDE DEF M, G
  <2> QED BY <1>2, <2>1
<1>5. Len(L) <= Len(M) /\ \A i \in 1 .. Len(L) : M[i] = L[i]
  <2>1. \A i \in DOMAIN s : s[i] \in T <=> s[i] \in U
    <3>1. DOMAIN s = 1 .. Len(s) /\ Len(s) \in Nat
          /\ DOMAIN b.taken = 1 .. (Len(s) + Len(more)) /\ Len(more) \in Nat
          /\ \A i \in 1 .. Len(s) : b.taken[i] = s[i]
      <4> HIDE DEF Entry
      <4>1. /\ s \o more \in Seq(Entry) /\ Len(s \o more) = Len(s) + Len(more)
            /\ \A i \in 1 .. Len(s) + Len(more) :
                  (s \o more)[i] = IF i <= Len(s) THEN s[i] ELSE more[i - Len(s)]
        BY ConcatProperties
      <4>2. Len(s) \in Nat /\ Len(more) \in Nat /\ DOMAIN s = 1 .. Len(s)
            /\ DOMAIN (s \o more) = 1 .. Len(s \o more)
        BY <4>1
      <4>3. b.taken = s \o more
        OBVIOUS
      <4> HIDE DEF s
      <4> QED BY <4>1, <4>2, <4>3
    <3>2. \A i \in DOMAIN s : s[i] \in Elements(a.taken) /\ s[i] \in Elements(b.taken)
      <4> SUFFICES ASSUME NEW i \in DOMAIN s
                   PROVE  s[i] \in Elements(a.taken) /\ s[i] \in Elements(b.taken)
        OBVIOUS
      <4>1. i \in DOMAIN b.taken /\ b.taken[i] = s[i]
        BY <3>1
      <4> QED BY <4>1 DEF Elements
    <3> QED BY <3>2
  <2>2. L = Filtered(s, T) /\ M = Filtered(s \o more, U)
    BY DEF LiveHalf
  <2> HIDE DEF s, T, U, L, M, Entry
  <2>3. s \in Seq(Entry)
    BY DEF s
  <2> QED BY <2>1, <2>2, <2>3, FilteredGrows
<1> HIDE DEF n, L, M, F, G
<1>6. Len(F) <= Len(G)
  BY <1>3, <1>4, <1>5
<1>7. ASSUME NEW i \in 1 .. Len(F) PROVE G[i] = F[i]
  <2>1. CASE i <= n
    <3>1. i \in 1 .. n
      BY <1>3, <2>1
    <3> QED BY <1>3, <1>4, <3>1
  <2>2. CASE i = n + 1
    BY <1>3, <1>4, <2>2
  <2>3. CASE i > n + 1
    <3> DEFINE k == i - (n + 1)
    <3>1. k \in 1 .. Len(L) /\ n + 1 + k = i /\ k \in 1 .. Len(M)
      BY <1>3, <1>4, <1>5, <2>3
    <3> HIDE DEF k
    <3>2. F[n + 1 + k] = Frame("message", L[k]) /\ G[n + 1 + k] = Frame("message", M[k])
      BY <1>3, <1>4, <3>1
    <3>3. M[k] = L[k]
      BY <1>5, <3>1
    <3>4. F[i] = Frame("message", L[k]) /\ G[i] = Frame("message", M[k])
      BY <3>1, <3>2
    <3> QED BY <3>3, <3>4
  <2>4. n \in Nat
    BY <1>3
  <2>5. i \in Int
    OBVIOUS
  <2> QED BY <2>1, <2>2, <2>3, <2>4, <2>5
<1> QED BY <1>6, <1>7 DEF F, G

(* A frame is of an entry this log gave a number to.                       *)
LEMMA FramesNumbered ==
  ASSUME LogInv, LogAssumption, Numbered, Timed, NEW r \in Readers,
         reads[r].phase = "streaming", NEW i \in 1 .. Len(Frames(r)),
         Frames(r)[i].event # "synced"
  PROVE  Frames(r)[i].entry \in Entry /\ Frames(r)[i].entry.seq <= seq
<1> DEFINE a == reads[r]
           P == Prelude(a)
           L == LiveHalf(a)
           n == Len(P)
           F == Frames(r)
<1>0. /\ LogTypeOK /\ Presentable(a.backlog) /\ a.taken \in Seq(Entry)
      /\ seq \in Nat /\ a.highWater \in Nat /\ a.highWater <= seq
  BY DEF LogInv, Numbered, LogTypeOK, ReadAt, Pulled
<1>1. /\ ToSet(P) = {b \in a.backlog : Framed(b)}
      /\ L \in Seq(Entry)
      /\ ToSet(L) = {b \in Elements(a.taken) : b.seq > a.highWater /\ Framed(b)}
      /\ P \in Seq(Entry) /\ n \in Nat /\ Len(L) \in Nat
      /\ Len(F) = n + 1 + Len(L)
      /\ \A k \in 1 .. n : F[k] = Frame("backlog", P[k])
      /\ F[n + 1] = [event |-> "synced"]
      /\ \A k \in 1 .. Len(L) : F[n + 1 + k] = Frame("message", L[k])
  BY <1>0, FramesAre, FramesOfItsRead DEF Presents
<1>2. \A b \in a.backlog : b.seq <= seq
  <2>1. \A b \in a.backlog : b \in Entry /\ b.seq <= a.highWater
    BY <1>0 DEF LogInv, Pulled, Presentable
  <2>2. \A b \in a.backlog : b.seq \in Nat
    BY <2>1 DEF Entry
  <2> QED BY <1>0, <2>1, <2>2
<1>3. \A b \in Elements(a.taken) : b.seq <= seq
  <2> SUFFICES ASSUME NEW k \in DOMAIN a.taken PROVE a.taken[k].seq <= seq
    BY DEF Elements
  <2>1. PICK m \in DOMAIN published : a.taken[k] = published[m]
    BY DEF LogInv, Pulled
  <2>2. published[m] \in Elements(published)
    BY DEF Elements
  <2> QED BY <1>0, <2>1, <2>2 DEF LogTypeOK
<1>4. /\ DOMAIN P = 1 .. n /\ DOMAIN L = 1 .. Len(L)
      /\ (\A k \in 1 .. n : P[k] \in Entry) /\ \A k \in 1 .. Len(L) : L[k] \in Entry
  <2> HIDE DEF P, L
  <2> QED BY <1>1
<1> HIDE DEF P, L, n, F
<1>5. CASE i <= n
  <2>1. i \in 1 .. n
    BY <1>1, <1>5 DEF F
  <2>0. P[i] \in Entry
    BY <1>4, <2>1
  <2>2. F[i] = Frame("backlog", P[i]) /\ P[i] \in Entry
    BY <1>1, <2>0, <2>1
  <2>3. P[i] \in ToSet(P)
    BY <1>4, <2>1 DEF ToSet
  <2>4. P[i].seq <= seq
    BY <1>1, <1>2, <2>3
  <2>5. F[i].entry = P[i]
    BY <2>2 DEF Frame
  <2> QED BY <2>2, <2>4, <2>5 DEF F
<1>6. CASE i = n + 1
  BY <1>1, <1>6 DEF F
<1>7. CASE i > n + 1
  <2> DEFINE k == i - (n + 1)
  <2>1. k \in 1 .. Len(L) /\ n + 1 + k = i
    <3>1. i \in 1 .. Len(F)
      BY DEF F
    <3> QED BY <1>1, <1>7, <3>1
  <2> HIDE DEF k
  <2>0. L[k] \in Entry
    BY <1>4, <2>1
  <2>f. F[n + 1 + k] = Frame("message", L[k])
    BY <1>1, <2>1
  <2>2. F[i] = Frame("message", L[k]) /\ L[k] \in Entry
    BY <2>0, <2>f, <2>1
  <2>3. L[k] \in ToSet(L)
    BY <1>4, <2>1 DEF ToSet
  <2>4. L[k].seq <= seq
    BY <1>1, <1>3, <2>3
  <2>5. F[i].entry = L[k]
    BY <2>2 DEF Frame
  <2> QED BY <2>2, <2>4, <2>5 DEF F
<1> QED BY <1>1, <1>5, <1>6, <1>7

LEMMA FollowKept ==
  ASSUME LogInv, LogAssumption, Numbered, Timed, AllFollow, [Next]_vars
  PROVE  AllFollow'
<1>1. /\ epoch \in Nat /\ seq \in Nat
      /\ \A r \in Readers : Follows(r)
  BY DEF LogInv, LogTypeOK, AllFollow
<1>2. ASSUME ~ServerRestarts PROVE epoch' = epoch /\ seq' \in Nat /\ seq' >= seq
  <2>1. ASSUME NEW x \in Records, AppendRecord(x) PROVE epoch' = epoch /\ seq' = seq + 1
    BY <2>1 DEF AppendRecord
  <2>2. ASSUME NEW x \in Records, Publish(x) \/ Interrupt(x) PROVE epoch' = epoch /\ seq' = seq
    BY <2>2 DEF Publish, Interrupt
  <2>3. Clear \/ UNCHANGED vars => epoch' = epoch /\ seq' = seq
    BY DEF Clear, vars, logVars
  <2>4. ASSUME NEW q \in Readers, Snapshot(q) \/ Take(q) PROVE epoch' = epoch /\ seq' = seq
    BY <2>4 DEF Snapshot, Take
  <2>5. ASSUME NEW q \in Readers, Connect(q) \/ Drop(q) \/ Deliver(q) \/ SyncTimesOut(q)
        PROVE  epoch' = epoch /\ seq' = seq
    BY <2>5 DEF Connect, Subscribe, Drop, Close, Deliver, SyncTimesOut, logVars
  <2> QED BY <1>1, <1>2, <2>1, <2>2, <2>3, <2>4, <2>5 DEF Next, LogStep
<1>3. ServerRestarts => epoch' = epoch + 1
  BY DEF ServerRestarts, Restart
<1>4. Closed.phase = "closed"
  BY DEF Closed, NewRead
<1>5. ASSUME NEW r \in Readers PROVE Follows(r)'
  <2> DEFINE last == panels[r].lastId
             last1 == panels'[r].lastId
  <2>1. /\ panels[r].sent \in Nat /\ last \in Cursor /\ last.epoch <= epoch
        /\ last.epoch = epoch => last.seq <= seq
        /\ reads[r].phase # "streaming" => panels[r].sent = 0
        /\ reads[r].phase = "subscribed" => reads[r].cursor = last
    BY <1>1 DEF Follows
  <2>2. last.epoch \in Nat /\ last.seq \in Nat
    BY <2>1 DEF Cursor
  <2>3. ASSUME Deliver(r)
        PROVE  panels'[r].sent \in Nat /\ (last1 = last \/ last1 \in [epoch : {epoch}, seq : 0 .. seq])
    <3> DEFINE f == Frames(r)[panels[r].sent + 1]
    <3>1. panels[r].sent < Len(Frames(r)) /\ reads[r].phase = "streaming"
      BY <2>3 DEF Deliver
    <3>2. Delivered(r)
      BY <2>3, PanelsMove
    <3>3. CASE f.event = "synced"
      BY <2>1, <3>2, <3>3 DEF Delivered
    <3>4. CASE f.event # "synced"
      <4>1. panels[r].sent + 1 \in 1 .. Len(Frames(r))
        <5>1. Len(Frames(r)) \in Nat
          <6>1. Presentable(reads[r].backlog) /\ reads[r].taken \in Seq(Entry)
            BY DEF LogInv, Numbered, LogTypeOK, ReadAt
          <6>2. Len(Prelude(reads[r])) \in Nat /\ Len(LiveHalf(reads[r])) \in Nat
                /\ Len(Frames(r)) = Len(Prelude(reads[r])) + 1 + Len(LiveHalf(reads[r]))
            BY <6>1, FramesAre, FramesOfItsRead
          <6> QED BY <6>2
        <5> QED BY <2>1, <3>1, <5>1
      <4>2. f.entry \in Entry /\ f.entry.seq <= seq
        BY <3>1, <3>4, <4>1, FramesNumbered
      <4>3. f.entry.seq \in 0 .. seq
        BY <1>1, <4>2 DEF Entry
      <4>4. last1 = [epoch |-> epoch, seq |-> f.entry.seq] /\ panels'[r].sent = panels[r].sent + 1
        BY <3>2, <3>4 DEF Delivered
      <4> HIDE DEF f, last1
      <4> QED BY <2>1, <4>3, <4>4
    <3> QED BY <3>3, <3>4
  <2>4. ~Deliver(r) => last1 = last
    BY PanelsMove
  <2>5. last1 \in Cursor /\ last1.epoch \in Nat /\ last1.seq \in Nat /\ last1.epoch <= epoch
        /\ (last1.epoch = epoch => last1.seq <= seq)
    <3>1. CASE last1 = last
      BY <2>1, <2>2, <3>1
    <3>2. CASE last1 \in [epoch : {epoch}, seq : 0 .. seq]
      BY <1>1, <3>2 DEF Cursor
    <3> QED BY <2>3, <2>4, <3>1, <3>2
  <2>6. last1.epoch <= epoch' /\ (last1.epoch = epoch' => last1.seq <= seq')
    <3> HIDE DEF last1
    <3>1. CASE ServerRestarts
      BY <1>1, <1>3, <2>5, <3>1
    <3>2. CASE ~ServerRestarts
      BY <1>1, <1>2, <2>5, <3>2
    <3> QED BY <3>1, <3>2
  <2>7. panels'[r].sent \in Nat
    BY <2>1, <2>3, PanelsMove
  <2>8. reads'[r].phase # "streaming" => panels'[r].sent = 0
    BY <2>1, PanelsMove, ReadsMove
  <2>9. reads'[r].phase = "subscribed" => reads'[r].cursor = last1
    BY <1>4, <2>1, <2>4, ReadsMove
  <2>10. {"sent", "lastId"} \subseteq DOMAIN panels'[r]
    BY PanelsMove
  <2> QED BY <2>5, <2>6, <2>7, <2>8, <2>9, <2>10 DEF Follows
<1>6. Readers # {} => DOMAIN panels' = Readers /\ DOMAIN received' = Readers
  BY PanelsMove
<1>7. Readers = {} => DOMAIN panels' = Readers /\ DOMAIN received' = Readers
  <2>1. ServerRestarts => panels' = [r \in Readers |-> [panels[r] EXCEPT !.sent = 0]] /\ received' = received
    BY DEF ServerRestarts
  <2>2. (LogStep /\ UNCHANGED <<panels, received, drops>>) \/ UNCHANGED vars
          => panels' = panels /\ received' = received
    BY DEF vars
  <2> QED BY <2>1, <2>2 DEF Next, AllFollow
<1> QED BY <1>5, <1>6, <1>7 DEF AllFollow

LEMMA NumbersTyped ==
  ASSUME LogTypeOK'
  PROVE  \A e \in Elements(entries') : e.seq \in Nat
<1> DEFINE T == [seq : Nat, record : Records]
<1>1. entries' \in Seq(T)
  BY DEF LogTypeOK, Entry
<1>2. \A e \in T : e.seq \in Nat
  OBVIOUS
<1> HIDE DEF T
<1>3. \A i \in DOMAIN entries' : entries'[i] \in T
  BY <1>1
<1> QED BY <1>2, <1>3 DEF Elements

(* What follows a step keeps up with what is retained.                     *)
LEMMA ResumesKept ==
  ASSUME LogInv, LogInv', LogAssumption, Numbered, Numbered', Identified, Timed, AllFollow,
         NEW r \in Readers, PulledInOrder(r), Resumes(r), [Next]_vars
  PROVE  Resumes(r)'
<1> DEFINE a == reads[r]
           b == reads'[r]
           F == FramesOf(a)
           last == panels[r].lastId
           last1 == panels'[r].lastId
<1>0. /\ Follows(r) /\ LogTypeOK /\ LogTypeOK' /\ seq \in Nat /\ epoch \in Nat
      /\ a \in ReadAt(a.cursor) /\ Pulled(r)
      /\ Presentable(a.backlog) /\ a.taken \in Seq(Entry)
      /\ Presentable(b.backlog) /\ b.taken \in Seq(Entry)
  <2>1. Follows(r) /\ LogTypeOK /\ LogTypeOK' /\ Pulled(r)
    BY DEF AllFollow, LogInv
  <2>2. seq \in Nat /\ epoch \in Nat /\ a \in ReadAt(a.cursor)
    BY <2>1 DEF LogTypeOK
  <2>3. Presentable(a.backlog) /\ a.taken \in Seq(Entry)
    BY <2>2 DEF Numbered, ReadAt
  <2>4. Presentable(b.backlog)
    BY DEF Numbered, Presentable, Entry
  <2>5. b.taken \in Seq(Entry)
    BY <2>1 DEF LogTypeOK, ReadAt, Entry
  <2> QED BY <2>1, <2>2, <2>3, <2>4, <2>5
<1>1. /\ last \in Cursor /\ last.seq \in Nat /\ panels[r].sent \in Nat
      /\ last.epoch <= epoch
      /\ last.epoch = epoch => last.seq <= seq
      /\ a.phase # "streaming" => panels[r].sent = 0
      /\ a.phase = "subscribed" => a.cursor = last
  BY <1>0 DEF Follows, Cursor
<1>2. a.phase = "streaming" => a.highWater \in Nat /\ a.highWater <= seq
  BY <1>0 DEF Pulled, ReadAt
<1>3. \A e \in Retained : e \in Entry /\ e.seq \in Nat /\ e.seq >= 1
  BY <1>0, RetainedNumbers DEF Retained, Entry
<1>4. ServerRestarts => Retained' = {}
  <2>1. ServerRestarts => entries' = <<>>
    BY DEF ServerRestarts, Restart
  <2> QED BY <2>1 DEF Retained, Elements
<1>5. ServerRestarts \/ epoch' = epoch
  <2>1. ASSUME NEW x \in Records, AppendRecord(x) \/ Publish(x) \/ Interrupt(x) PROVE epoch' = epoch
    BY <2>1 DEF AppendRecord, Publish, Interrupt
  <2>2. Clear \/ UNCHANGED vars => epoch' = epoch
    BY DEF Clear, vars, logVars
  <2>3. ASSUME NEW q \in Readers, Snapshot(q) \/ Take(q) PROVE epoch' = epoch
    BY <2>3 DEF Snapshot, Take
  <2>4. ASSUME NEW q \in Readers, Connect(q) \/ Drop(q) \/ Deliver(q) \/ SyncTimesOut(q)
        PROVE  epoch' = epoch
    BY <2>4 DEF Connect, Subscribe, Drop, Close, Deliver, SyncTimesOut, logVars
  <2> QED BY <2>1, <2>2, <2>3, <2>4 DEF Next, LogStep
<1>6. received[r] \subseteq received'[r]
  BY PanelsMove DEF Delivered
<1>7. ASSUME NEW e \in Retained', e.seq <= seq, Caught(r, e) PROVE Caught(r, e)'
  BY <1>4, <1>6, <1>7, RetainedBefore DEF Caught
<1>8. ASSUME Deliver(r)
      PROVE  /\ b = a /\ a.phase = "streaming" /\ Retained' = Retained
             /\ panels[r].sent < Len(F) /\ panels'[r].sent = panels[r].sent + 1
             /\ LET f == F[panels[r].sent + 1]
                IN  /\ f.event = "synced" => last1 = last
                    /\ f.event # "synced" =>
                          /\ last1 = [epoch |-> epoch, seq |-> f.entry.seq]
                          /\ f.entry.record \in received'[r]
  <2>1. Delivered(r) /\ Frames(r) = F
    BY <1>8, PanelsMove, FramesOfItsRead
  <2>2. entries' = entries /\ reads' = reads /\ a.phase = "streaming" /\ panels[r].sent < Len(F)
    BY <1>8, <2>1 DEF Deliver, logVars
  <2>3. Retained' = Retained
    BY <2>2 DEF Retained
  <2> HIDE DEF F
  <2> QED BY <2>1, <2>2, <2>3 DEF Delivered
<1>9. /\ last.epoch = epoch => \A e \in Retained : e.seq <= last.seq => Caught(r, e)
      /\ a.phase = "streaming" =>
           /\ \A e \in Retained : e.seq <= a.highWater => Caught(r, e) \/ e \in a.backlog
           /\ panels[r].sent <= Len(F)
           /\ \A i \in 1 .. panels[r].sent : F[i].event # "synced" => F[i].entry.record \in received[r]
  BY DEF Resumes
<1> HIDE DEF F
<1>10. last1.epoch = epoch' => \A e \in Retained' : e.seq <= last1.seq => Caught(r, e)'
  <2> SUFFICES ASSUME last1.epoch = epoch', NEW e \in Retained', e.seq <= last1.seq
               PROVE  Caught(r, e)'
    OBVIOUS
  <2>1. CASE ServerRestarts
    BY <1>4, <2>1
  <2>2. CASE ~ServerRestarts /\ last1 = last
    <3>1. last.epoch = epoch /\ last.seq <= seq /\ e.seq <= last.seq
      BY <1>1, <1>5, <2>2
    <3>2. e.seq \in Nat
      BY <1>0, NumbersTyped DEF Retained
    <3>3. e.seq <= seq
      BY <1>0, <1>1, <3>1, <3>2
    <3>4. e \in Retained
      BY <2>2, <3>3, RetainedBefore
    <3> QED BY <1>7, <1>9, <3>1, <3>3, <3>4
  <2>3. CASE ~ServerRestarts /\ last1 # last
    <3>1. Deliver(r)
      BY <2>3, PanelsMove
    <3> DEFINE f == F[panels[r].sent + 1]
    <3>2. f.event # "synced" /\ last1.seq = f.entry.seq /\ f.entry.record \in received'[r]
          /\ a.phase = "streaming" /\ panels[r].sent < Len(F) /\ e \in Retained
      <4>1. f.event # "synced"
        BY <1>8, <2>3, <3>1
      <4>2. last1 = [epoch |-> epoch, seq |-> f.entry.seq]
        BY <1>8, <3>1, <4>1
      <4>3. last1.seq = f.entry.seq
        BY <4>2
      <4> QED BY <1>8, <3>1, <4>1, <4>3
    <3>3. Caught(r, e) \/ e.record = f.entry.record
      <4>1. f = FramesOf(reads[r])[panels[r].sent + 1]
        BY DEF F
      <4>2. panels[r].sent < Len(FramesOf(reads[r])) /\ e.seq <= f.entry.seq
        BY <3>2 DEF F
      <4> HIDE DEF f
      <4> QED BY <1>1, <3>2, <4>1, <4>2, ArrivalsCatchUp
    <3>4. e.seq <= seq
      BY <1>0, <3>2, RetainedNumbers DEF Retained
    <3> HIDE DEF f
    <3> QED BY <1>7, <3>2, <3>3, <3>4 DEF Caught
  <2> QED BY <2>1, <2>2, <2>3
<1>11. b.phase = "streaming" =>
         \A e \in Retained' : e.seq <= b.highWater => Caught(r, e)' \/ e \in b.backlog
  <2> SUFFICES ASSUME b.phase = "streaming", NEW e \in Retained', e.seq <= b.highWater
               PROVE  Caught(r, e)' \/ e \in b.backlog
    OBVIOUS
  <2>1. CASE ServerRestarts
    BY <1>4, <2>1
  <2>2. ~ServerRestarts => b.highWater <= seq
    <3>1. Closed.phase = "closed"
      BY DEF Closed, NewRead
    <3> QED BY <1>0, <1>2, <3>1, ReadsMove
  <2>3. e.seq \in Nat /\ b.highWater \in Nat
    <3>1. b.highWater \in Nat
      BY <1>0 DEF LogTypeOK, ReadAt
    <3> QED BY <1>0, <3>1, NumbersTyped DEF Retained
  <2>4. CASE ~ServerRestarts
    <3>1. e.seq <= seq /\ e \in Retained
      <4>1. e.seq <= seq
        BY <1>0, <2>2, <2>3, <2>4
      <4> QED BY <2>4, <4>1, RetainedBefore
    <3>2. CASE a.phase = "streaming" /\ b.highWater = a.highWater /\ b.backlog = a.backlog
      BY <1>7, <1>9, <3>1, <3>2
    <3>3. CASE Snapshot(r)
      <4>1. a.phase = "subscribed" /\ b.backlog = Missed(a.cursor)
        BY <3>3, ReadsMove
      <4>2. CASE e.seq > ResumeAfter(a.cursor)
        BY <3>1, <4>1, <4>2 DEF Missed, Retained
      <4>3. CASE ~(e.seq > ResumeAfter(a.cursor))
        <5>1. last.epoch = epoch /\ ResumeAfter(a.cursor) = last.seq
          BY <1>1, <1>3, <3>1, <4>1, <4>3 DEF ResumeAfter
        <5>2. e.seq <= last.seq
          BY <1>1, <1>3, <3>1, <4>3, <5>1
        <5> QED BY <1>7, <1>9, <3>1, <5>1, <5>2
      <4> QED BY <4>2, <4>3
    <3>4. \/ a.phase = "streaming" /\ b.highWater = a.highWater /\ b.backlog = a.backlog
          \/ Snapshot(r)
      <4>1. Closed.phase = "closed"
        BY DEF Closed, NewRead
      <4> QED BY <2>4, <4>1, ReadsMove
    <3> QED BY <3>2, <3>3, <3>4
  <2> QED BY <2>1, <2>4
<1>12. b.phase = "streaming" =>
         /\ panels'[r].sent <= Len(FramesOf(b))
         /\ \A i \in 1 .. panels'[r].sent : FramesOf(b)[i].event # "synced" =>
              FramesOf(b)[i].entry.record \in received'[r]
  <2> SUFFICES ASSUME b.phase = "streaming"
               PROVE  /\ panels'[r].sent <= Len(FramesOf(b))
                      /\ \A i \in 1 .. panels'[r].sent : FramesOf(b)[i].event # "synced" =>
                           FramesOf(b)[i].entry.record \in received'[r]
    OBVIOUS
  <2>0. ~ServerRestarts /\ ~Drop(r) /\ ~Connect(r)
    <3>1. Closed.phase = "closed"
      BY DEF Closed, NewRead
    <3> QED BY <3>1, ReadsMove
  <2>1. CASE Deliver(r)
    <3> DEFINE f == F[panels[r].sent + 1]
    <3>1. /\ b = a /\ a.phase = "streaming" /\ panels[r].sent < Len(F)
          /\ panels'[r].sent = panels[r].sent + 1
          /\ f.event # "synced" => f.entry.record \in received'[r]
      BY <1>8, <2>1
    <3>2. Len(F) \in Nat
      <4>1. Len(Prelude(a)) \in Nat /\ Len(LiveHalf(a)) \in Nat
            /\ Len(F) = Len(Prelude(a)) + 1 + Len(LiveHalf(a))
        BY <1>0, FramesAre DEF F
      <4> QED BY <4>1
    <3>3. panels'[r].sent <= Len(F)
      BY <1>1, <3>1, <3>2
    <3>4. \A i \in 1 .. panels'[r].sent : F[i].event # "synced" => F[i].entry.record \in received'[r]
      <4> SUFFICES ASSUME NEW i \in 1 .. panels'[r].sent, F[i].event # "synced"
                   PROVE  F[i].entry.record \in received'[r]
        OBVIOUS
      <4>1. i \in 1 .. panels[r].sent \/ i = panels[r].sent + 1
        BY <1>1, <3>1
      <4> QED BY <1>6, <1>9, <3>1, <4>1
    <3> HIDE DEF f, a, b
    <3> QED BY <3>1, <3>3, <3>4 DEF F
  <2>2. CASE ~Deliver(r) /\ b = a
    <3>1. panels'[r].sent = panels[r].sent
      BY <2>0, <2>2, PanelsMove
    <3> QED BY <1>6, <1>9, <2>2, <3>1 DEF F
  <2>3. CASE Snapshot(r)
    <3>1. a.phase = "subscribed"
      BY <2>3, ReadsMove
    <3>2. ~Deliver(r)
      BY <1>8, <3>1
    <3>3. panels'[r].sent = 0
      BY <1>1, <2>0, <3>1, <3>2, PanelsMove
    <3>4. Len(Prelude(b)) \in Nat /\ Len(LiveHalf(b)) \in Nat
          /\ Len(FramesOf(b)) = Len(Prelude(b)) + 1 + Len(LiveHalf(b))
      BY <1>0, FramesAre
    <3>5. 0 <= Len(FramesOf(b)) /\ 1 .. 0 = {}
      BY <3>4
    <3> HIDE DEF b
    <3> QED BY <3>3, <3>5
  <2>4. CASE Take(r) /\ ~Deliver(r)
    <3>1. /\ a.phase = "streaming" /\ b.highWater = a.highWater /\ b.backlog = a.backlog
          /\ \E p \in OldestKept(r) .. Len(published) : b.taken = a.taken \o Pull(r, p)
      BY <2>4, ReadsMove
    <3>2. PICK p \in OldestKept(r) .. Len(published) : b.taken = a.taken \o Pull(r, p)
      BY <3>1
    <3>3. Pull(r, p) \in Seq(Entry)
      <4>1. /\ OldestKept(r) \in Nat /\ OldestKept(r) >= 1 /\ published \in Seq(Entry)
            /\ Len(published) \in Nat
        BY <1>0, TakeFacts DEF LogTypeOK
      <4> HIDE DEF Entry
      <4> QED BY <4>1, SubSeqProperties DEF Pull
    <3>4. /\ Len(F) <= Len(FramesOf(b))
          /\ \A i \in 1 .. Len(F) : FramesOf(b)[i] = F[i]
      BY <1>0, <3>1, <3>2, <3>3, PullsAddFrames DEF F
    <3>5. panels'[r].sent = panels[r].sent
      BY <2>0, <2>4, PanelsMove
    <3>6. Len(F) \in Nat /\ Len(FramesOf(b)) \in Nat
      <4>1. Len(Prelude(a)) \in Nat /\ Len(LiveHalf(a)) \in Nat
            /\ Len(F) = Len(Prelude(a)) + 1 + Len(LiveHalf(a))
        BY <1>0, FramesAre DEF F
      <4>2. Len(Prelude(b)) \in Nat /\ Len(LiveHalf(b)) \in Nat
            /\ Len(FramesOf(b)) = Len(Prelude(b)) + 1 + Len(LiveHalf(b))
        BY <1>0, FramesAre
      <4> QED BY <4>1, <4>2
    <3>7. panels[r].sent <= Len(F)
          /\ \A i \in 1 .. panels[r].sent : F[i].event # "synced" => F[i].entry.record \in received[r]
      BY <1>9, <3>1
    <3> DEFINE G == FramesOf(b)
    <3> HIDE DEF G, a, b
    <3>8. \A i \in 1 .. panels[r].sent : i \in 1 .. Len(F)
      BY <1>1, <3>6, <3>7
    <3>9. panels'[r].sent <= Len(G)
      BY <1>1, <3>4, <3>5, <3>6, <3>7 DEF G
    <3> QED BY <1>6, <3>4, <3>5, <3>7, <3>8, <3>9 DEF G
  <2> QED BY <2>0, <2>1, <2>2, <2>3, <2>4, ReadsMove
<1> QED BY <1>10, <1>11, <1>12 DEF Resumes

LEMMA ResumesAtFirst ==
  ASSUME Init, NEW r \in Readers
  PROVE  Resumes(r) /\ PulledInOrder(r)
<1>1. entries = <<>> /\ reads[r] = Closed
  BY DEF Init, LogInit
<1>2. Closed.phase = "closed" /\ Closed.taken = <<>>
  BY DEF Closed, NewRead
<1>3. Retained = {}
  BY <1>1 DEF Retained, Elements
<1> QED BY <1>1, <1>2, <1>3 DEF Resumes, PulledInOrder

LEMMA IdentifiedAtFirst ==
  ASSUME Init
  PROVE  Identified
<1>1. entries = <<>> /\ reads = [r \in Readers |-> Closed]
  BY DEF Init, LogInit
<1>2. Closed.backlog = {}
  BY DEF Closed, NewRead
<1>3. Elements(entries) = {}
  BY <1>1 DEF Elements
<1> QED BY <1>1, <1>2, <1>3 DEF Identified

LEMMA ResumesImply ==
  ASSUME LogTypeOK, Timed, \A r \in Readers : Resumes(r)
  PROVE  ResumeInOrderMissesNothing
<1> SUFFICES ASSUME InOrder, NEW r \in Readers, reads[r].phase = "streaming",
                    NEW e \in Retained, e.seq <= reads[r].highWater
             PROVE  e.record \in received[r] \/ e \in reads[r].backlog
  BY DEF ResumeInOrderMissesNothing, ResumeMissesNothing
<1>1. Caught(r, e) \/ e \in reads[r].backlog
  BY DEF Resumes
<1>2. ~Excused(e)
  <2>1. \A i \in DOMAIN published : published[i].seq = i
    BY DEF InOrder
  <2>2. ASSUME NEW f \in Elements(entries), f.seq > e.seq, f.record.at < e.record.at PROVE FALSE
    <3>1. e \in Elements(entries) /\ e \in Entry /\ f \in Entry
      BY ElementsTyped DEF Retained
    <3>2. e.seq \in Nat /\ f.seq \in Nat /\ e.record.at \in Nat /\ f.record.at \in Nat
      BY <3>1 DEF Entry, Timed
    <3>3. e.record.at <= f.record.at
      BY <2>2, <3>1, <3>2 DEF InOrder
    <3> QED BY <2>2, <3>2, <3>3
  <2> QED BY <2>1, <2>2 DEF Excused
<1> QED BY <1>1, <1>2 DEF Caught

(* BEH-QD-316 for any number of records and readers, any capacity and any  *)
(* number of restarts and drops: while publishes follow the numbers and the*)
(* numbers the times, a panel that resumes by the last id it saw is sent all*)
(* that the log retains and it has not.                                    *)
THEOREM ResumesMissNothing ==
  ASSUME \A x \in Records : x.at \in Nat
  PROVE  Spec => []ResumeInOrderMissesNothing
<1> DEFINE Inv == /\ LogInv /\ Numbered /\ Identified /\ AllFollow
                  /\ \A r \in Readers : PulledInOrder(r) /\ Resumes(r)
<1>1. Timed
  BY DEF Timed
<1>2. Init => Inv
  BY LogAssumption, LogInitHolds, NumberedAtFirst, IdentifiedAtFirst, FollowAtFirst, ResumesAtFirst
     DEF Init
<1>3. Inv /\ [Next]_vars => Inv'
  <2> SUFFICES ASSUME Inv, [Next]_vars PROVE Inv'
    OBVIOUS
  <2>0. LogTypeOK
    BY DEF LogInv
  <2>1. LogInv'
    <3>1. [LogNext]_logVars
      BY DEF Next, LogStep, Connect, Drop, ServerRestarts, Deliver, SyncTimesOut, LogNext, vars,
             logVars
    <3> QED BY <3>1, LogAssumption, LogNextKeeps
  <2>2. Numbered'
    BY <2>0, LogAssumption, NumberedKept
  <2>3. Identified'
    BY LogAssumption, IdentifiedKept
  <2>4. AllFollow'
    BY <1>1, LogAssumption, FollowKept
  <2>5. \A r \in Readers : PulledInOrder(r)'
    BY LogAssumption, PulledInOrderKept
  <2>6. ASSUME NEW r \in Readers PROVE Resumes(r)'
    BY <1>1, <2>1, <2>2, <2>6, LogAssumption, ResumesKept
  <2> QED BY <2>1, <2>2, <2>3, <2>4, <2>5, <2>6
<1>4. Inv => ResumeInOrderMissesNothing
  BY <1>1, ResumesImply DEF LogInv
<1> QED BY <1>2, <1>3, <1>4, PTL DEF Spec
=============================================================================
