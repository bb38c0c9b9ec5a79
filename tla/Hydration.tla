----------------------------- MODULE Hydration ------------------------------
(***************************************************************************)
(* Decisions carried from a server to the page it renders                  *)
(* (packages/react/src/Hydration.ts, HydrationEngine.ts and                *)
(* HydrationCounts.ts).  The payload crosses the network as JSON in a page *)
(* that may be cached, cut short, edited, or served to somebody else.      *)
(*                                                                         *)
(* An entry, and a seed made of it, is known by the place its decision had *)
(* among those offered: what is filtered keeps its order, with gaps.       *)
(***************************************************************************)
EXTENDS Integers, Sequences, FiniteSets, Functions

CONSTANTS
    Users,          \* subjects
    Asked,          \* questions: a policy with a resource
    TagOf(_),       \* the _tag of a question's policy
    Grants,         \* what a verdict says beside itself: fields and duties, or a reason
    MaxEntries      \* bound: decisions offered

VARIABLE page

NoOne == "no one"

(* A decision and its trace agree when it is made.                         *)
Decisions == [question : Asked, allowed : BOOLEAN, grant : Grants, of : Users]

(* What may have become of an entry, and of the envelope.                  *)
EntryFaults == {"TooDeep", "Malformed", "Undecodable"}
EnvelopeFaults == {"NotAnObject", "OldVersion", "NoEnvelope", "NoSubject"}

ClientHydrationDropReason ==
    {"PayloadSubjectMismatch", "MalformedEntry", "UndecodablePolicy", "EntryTooDeep",
     "UnsupportedPayloadVersion", "MalformedPayload"}

NoDrops == [reason \in ClientHydrationDropReason |-> 0]
countDropped(drops, reason, count) == [drops EXCEPT ![reason] = @ + count]

dehydratedPayload(subjectId, entries) ==
    [fault |-> "none", subjectId |-> subjectId, entries |-> entries]

HydrationInit ==
    page = [phase |-> "deciding", offered |-> <<>>, payload |-> dehydratedPayload(NoOne, <<>>),
            foreign |-> 0, dehydrated |-> 0, by |-> NoOne, seeded |-> <<>>, dropped |-> NoDrops]

Decide(decision) ==
    /\ page.phase = "deciding" /\ Len(page.offered) < MaxEntries
    /\ page' = [page EXCEPT !.offered = Append(@, decision)]

-----------------------------------------------------------------------------
(* dehydrateDecisions.                                                     *)

dehydrateEntry(d, includeTrace) ==
    [question |-> d.question, allowed |-> d.allowed, grant |-> d.grant, fault |-> "none",
     edited |-> FALSE,
     disclosed |-> IF includeTrace
                   THEN {[tag |-> TagOf(d.question), allowed |-> d.allowed, grant |-> d.grant]}
                   ELSE {}]

kept(offered) == {i \in DOMAIN offered : offered[i].of = offered[1].of}

Dehydrate(includeTrace) ==
    LET keep == kept(page.offered)
        subjectId == IF page.offered = <<>> THEN NoOne ELSE page.offered[1].of
    IN  /\ page.phase = "deciding"
        /\ page' = [page EXCEPT
               !.phase = "sent",
               !.foreign = Len(page.offered) - Cardinality(keep),
               !.dehydrated = Cardinality(keep),
               !.payload = dehydratedPayload(subjectId,
                   [i \in keep |-> dehydrateEntry(page.offered[i], includeTrace)])]

-----------------------------------------------------------------------------
(* The network.                                                            *)

InTransit == page.phase = "sent" /\ page.payload.fault = "none"
Untouched(i) ==
    /\ InTransit /\ i \in DOMAIN page.payload.entries
    /\ page.payload.entries[i].fault = "none" /\ ~page.payload.entries[i].edited

DamageEntry(i, fault) ==
    /\ Untouched(i)
    /\ page' = [page EXCEPT !.payload.entries[i].fault = fault]

(* Bound: one entry of a page is edited.                                   *)
EditEntry(i, question, allowed, grant) ==
    /\ Untouched(i) /\ \A e \in Range(page.payload.entries) : ~e.edited
    /\ page' = [page EXCEPT
           !.payload.entries[i].question = question, !.payload.entries[i].allowed = allowed,
           !.payload.entries[i].grant = grant, !.payload.entries[i].edited = TRUE]

DamageEnvelope(fault) ==
    /\ InTransit
    /\ page' = [page EXCEPT !.payload.fault = fault]

-----------------------------------------------------------------------------
(* hydrateWith.                                                            *)

(* decisionDisagreement: a claim that is not its trace root's.             *)
decisionDisagreement(claim, trace) ==
    claim.allowed # trace.allowed \/ claim.grant # trace.grant

(* A mutation: only the policy is compared.                                *)
entryAgreesInTag(e) == \A trace \in e.disclosed : trace.tag = TagOf(e.question)

entryAgrees(e) ==
    \A trace \in e.disclosed :
        trace.tag = TagOf(e.question) /\ ~decisionDisagreement(e, trace)

(* Why an entry is dropped, the first check that fails; or "none".         *)
reasonOf(e) ==
    CASE e.fault = "TooDeep" -> "EntryTooDeep"
      [] e.fault = "Malformed" -> "MalformedEntry"
      [] e.fault = "Undecodable" -> "UndecodablePolicy"
      [] e.fault = "none" /\ ~entryAgrees(e) -> "MalformedEntry"
      [] OTHER -> "none"

rebuild(e, subject) == [question |-> e.question, allowed |-> e.allowed, of |-> subject]

Refused(reason, count) == countDropped(NoDrops, reason, count)

WholePayload(p) ==
    LET visible == IF p.fault = "NotAnObject" THEN 0 ELSE Cardinality(DOMAIN p.entries)
        atLeastOne == IF visible > 1 THEN visible ELSE 1
    IN  CASE p.fault \in {"NotAnObject", "NoEnvelope"} ->
                 Refused("MalformedPayload", atLeastOne)
          [] p.fault = "OldVersion" -> Refused("UnsupportedPayloadVersion", atLeastOne)
          [] OTHER -> Refused("PayloadSubjectMismatch", visible)

Readable(p, subject) == p.fault = "none" /\ p.subjectId = subject

(* The entries refused for a reason; those of no reason are seeded.        *)
RefusedFor(p, reason) == {i \in DOMAIN p.entries : reasonOf(p.entries[i]) = reason}

hydrateWith(p, subject) ==
    IF ~Readable(p, subject) THEN [seeded |-> <<>>, dropped |-> WholePayload(p)]
    ELSE [seeded |-> [i \in RefusedFor(p, "none") |-> rebuild(p.entries[i], subject)],
          dropped |-> [reason \in ClientHydrationDropReason |->
                           Cardinality(RefusedFor(p, reason))]]

HydratePage(subject) ==
    LET result == hydrateWith(page.payload, subject)
    IN  /\ page.phase = "sent"
        /\ page' = [page EXCEPT !.phase = "hydrated", !.by = subject,
                                !.seeded = result.seeded, !.dropped = result.dropped]

HydrationNext ==
    \/ \E decision \in Decisions : Decide(decision)
    \/ \E includeTrace \in BOOLEAN : Dehydrate(includeTrace)
    \/ \E i \in 1 .. MaxEntries :
           \/ \E fault \in EntryFaults : DamageEntry(i, fault)
           \/ \E question \in Asked, allowed \in BOOLEAN, grant \in Grants :
                  EditEntry(i, question, allowed, grant)
    \/ \E fault \in EnvelopeFaults : DamageEnvelope(fault)
    \/ \E subject \in Users : HydratePage(subject)

HydrationSpec == HydrationInit /\ [][HydrationNext]_page

-----------------------------------------------------------------------------
(* What the counters of a process that did all of this hold.               *)

DehydrationDropReason == {"ForeignSubject"}

hydrationDropReasons == DehydrationDropReason \cup ClientHydrationDropReason

(* A frequency registers its words beforehand: a word it lacks is lost to  *)
(* a reader of the closed set.                                             *)
hydrationDroppedTotal ==
    [reason \in hydrationDropReasons |->
        IF reason = "ForeignSubject" THEN page.foreign ELSE page.dropped[reason]]

hydrationDehydratedTotal == page.dehydrated
hydrationSeededTotal == Cardinality(DOMAIN page.seeded)

-----------------------------------------------------------------------------
Hydrated == page.phase = "hydrated"
DroppedInAll ==
    LET total == hydrationDroppedTotal
    IN  total["PayloadSubjectMismatch"] + total["MalformedEntry"]
            + total["UndecodablePolicy"] + total["EntryTooDeep"]
            + total["UnsupportedPayloadVersion"] + total["MalformedPayload"]

(* "No entry leaves hydration unaccounted for": what is offered is sent or *)
(* counted as another subject's, what arrives is seeded or counted with    *)
(* the reason it was refused for, and a page that cannot be read at all is *)
(* counted too.  (INV-QD-045; HydrationCounts.ts)                          *)
EveryEntryIsAccounted ==
    /\ page.phase # "deciding" =>
           hydrationDehydratedTotal + hydrationDroppedTotal["ForeignSubject"]
               = Len(page.offered)
    /\ Hydrated =>
           LET dropped == DroppedInAll
               sent == Cardinality(DOMAIN page.payload.entries)
               arrived == hydrationSeededTotal + dropped
           IN  /\ page.payload.fault # "NotAnObject" => arrived >= sent
               /\ arrived > sent => hydrationSeededTotal = 0 /\ dropped = 1
               /\ page.payload.fault \in {"NotAnObject", "OldVersion", "NoEnvelope"} =>
                      dropped > 0

(* A seed is what the server decided of the subject that hydrates it.      *)
Sent(seed) ==
    \E d \in Range(page.offered) :
        d.question = seed.question /\ d.allowed = seed.allowed /\ d.of = page.by

(* Or the page's text was edited, and where the trace is disclosed it is   *)
(* still one the server sent, for a policy of the same tag.                *)
EditedFrom(seed) ==
    \E e \in Range(page.payload.entries) :
        /\ e.edited /\ e.question = seed.question
        /\ e.disclosed # {} =>
               \E d \in Range(page.offered) :
                   /\ TagOf(d.question) = TagOf(seed.question)
                   /\ d.allowed = seed.allowed /\ d.grant = e.grant /\ d.of = page.by

(* Every entry is accounted for, and a page is only ever seeded with what  *)
(* the server decided of the subject that hydrates it, unless the page's   *)
(* text was edited; and where the trace is disclosed, the page's word is   *)
(* still that of the trace.  (INV-QD-022, INV-QD-045 and INV-QD-170;       *)
(* HydrationEngine.ts, hydrateWith and entryAgrees)                        *)
SeedsAreTheServers ==
    /\ EveryEntryIsAccounted
    /\ Hydrated => \A seed \in Range(page.seeded) : Sent(seed) \/ EditedFrom(seed)

=============================================================================
