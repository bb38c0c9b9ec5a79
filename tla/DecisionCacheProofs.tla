------------------------ MODULE DecisionCacheProofs ------------------------
(***************************************************************************)
(* The invariants of the decision cache, for any number of callers,        *)
(* questions and claims, any capacity, and with or without uninterruptible *)
(* ports.                                                                  *)
(***************************************************************************)
EXTENDS DecisionCache, FiniteSetTheorems, SequenceTheorems, TLAPS

(* A question in flight is held by a claim of this question and of this    *)
(* generation that has not released it yet.                                *)
HolderIsLive ==
    \A q \in DOMAIN inFlight :
        /\ claims[inFlight[q]].question = q
        /\ claims[inFlight[q]].generation = generation
        /\ claims[inFlight[q]].phase \in Phase \ {"released", "done"}

(* Conversely, a claim of this generation whose answer is not stored yet   *)
(* holds its question, and the table has no answer to it.                  *)
LiveIsHolder ==
    \A k \in Claims :
        /\ claims[k].generation = generation
        /\ claims[k].phase \in {"unforked", "forked", "running", "shielded", "exited"}
        => /\ claims[k].question \in DOMAIN inFlight
           /\ inFlight[claims[k].question] = k
           /\ claims[k].question \notin DOMAIN entries

(* No claim is ahead of the cache.                                         *)
NoClaimFromTheFuture == \A k \in Claims : claims[k].generation <= generation

(* An ask in progress has a claim.                                         *)
AskHasClaim ==
    \A c \in Callers :
        callers[c].pc \in {"forking", "waiting", "leaving"} => callers[c].claim # NoClaim

(* A claim waits to be forked by the one caller that made it.              *)
ForkerOwnsClaim ==
    \A c \in Callers : callers[c].pc = "forking" =>
        /\ claims[callers[c].claim].phase = "unforked"
        /\ \A d \in Callers \ {c} :
             callers[d].pc = "forking" => callers[d].claim # callers[c].claim

(* A bounded cache lists every key of its table once.                      *)
OrderIsExact ==
    IF bounded
      THEN /\ \A i, j \in 1..Len(insertionOrder) :
                insertionOrder[i] = insertionOrder[j] => i = j
           /\ Range(insertionOrder) = DOMAIN entries
           /\ Cardinality(DOMAIN entries) <= Capacity
      ELSE insertionOrder = <<>>

(* The inductive invariant.                                                *)
CacheInv ==
    /\ TypeOK
    /\ HolderIsLive
    /\ LiveIsHolder
    /\ NoClaimFromTheFuture
    /\ AskHasClaim
    /\ ForkerOwnsClaim
    /\ NoStaleAnswer
    /\ OrderIsExact

(* A bounded cache with an exact order and room left evicts nothing when   *)
(* an answer is added; a full one evicts exactly its oldest key.           *)
LEMMA EvictionCount ==
    ASSUME TypeOK, OrderIsExact, bounded, NEW k \in Claims,
           NEW q \in Questions, q \notin DOMAIN entries
    PROVE  /\ WithKey(q) \in Seq(Questions)
           /\ Len(WithKey(q)) = Len(insertionOrder) + 1
           /\ \A i, j \in 1..Len(WithKey(q)) : WithKey(q)[i] = WithKey(q)[j] => i = j
           /\ Range(WithKey(q)) = DOMAIN WithAnswer(q, k)
           /\ Evictions(WithAnswer(q, k), WithKey(q)) \in {0, 1}
           /\ Cardinality(DOMAIN Without(WithAnswer(q, k), WithKey(q),
                                         Evictions(WithAnswer(q, k), WithKey(q)))) <= Capacity
<1> DEFINE table == WithAnswer(q, k)
           order == WithKey(q)
           S == {n \in 0..Len(order) : Cardinality(DOMAIN Without(table, order, n)) <= Capacity}
<1>0. DOMAIN table = DOMAIN entries \cup {q} /\ order = Append(insertionOrder, q)
  BY DEF WithAnswer, WithKey
<1>. HIDE DEF table, order
<1>1. /\ insertionOrder \in Seq(Questions) /\ Len(insertionOrder) \in Nat
      /\ DOMAIN insertionOrder = 1..Len(insertionOrder)
  BY LenProperties DEF TypeOK
<1>2. /\ order \in Seq(Questions)
      /\ Len(order) = Len(insertionOrder) + 1
      /\ \A i \in 1..Len(insertionOrder) : order[i] = insertionOrder[i]
      /\ order[Len(insertionOrder) + 1] = q
  BY <1>0, <1>1, AppendProperties
<1>3. \A i, j \in 1..Len(order) : order[i] = order[j] => i = j
  BY <1>1, <1>2, SMT DEF OrderIsExact, Range
<1>4. Range(order) = DOMAIN table
  <2>1. Range(order) = {order[i] : i \in 1..Len(order)}
    BY <1>2, LenProperties DEF Range
  <2>2. DOMAIN entries = {insertionOrder[i] : i \in 1..Len(insertionOrder)}
    BY <1>1 DEF OrderIsExact, Range
  <2>. QED  BY <1>0, <1>1, <1>2, <2>1, <2>2
<1>5. /\ Capacity \in Nat
      /\ IsFiniteSet(DOMAIN entries) /\ Cardinality(DOMAIN entries) \in Nat
      /\ Cardinality(DOMAIN entries) <= Capacity
  BY CapacityAssumption, SetsAssumption, FS_Subset, FS_CardinalityType DEF bounded, TypeOK, OrderIsExact
<1>6. IsFiniteSet(DOMAIN table) /\ Cardinality(DOMAIN table) = Cardinality(DOMAIN entries) + 1
  BY <1>0, <1>5, FS_AddElement
<1>7. DOMAIN Without(table, order, 0) = DOMAIN table
  BY DEF Without, Restrict
<1>8. DOMAIN Without(table, order, 1) = DOMAIN table \ {order[1]}
  BY DEF Without, Restrict
<1>9. order[1] \in DOMAIN table
  BY <1>1, <1>2, <1>4, LenProperties DEF Range
<1>10. Cardinality(DOMAIN Without(table, order, 1)) = Cardinality(DOMAIN entries)
  <2>1. Cardinality(DOMAIN table \ {order[1]}) = Cardinality(DOMAIN table) - 1
    BY ONLY <1>6, <1>9, FS_RemoveElement
  <2>. QED  BY ONLY <1>5, <1>6, <1>8, <2>1
<1>11. 1 \in S
  BY <1>1, <1>2, <1>5, <1>10
<1>12. Evictions(table, order) \in S /\ Evictions(table, order) \in {0, 1}
  <2>1. Evictions(table, order) = Min(S)
    BY DEF Evictions
  <2>2. S \subseteq Nat
    BY <1>1, <1>2
  <2>3. \E x \in S : \A y \in S : x =< y
    <3>. HIDE DEF S
    <3>1. CASE 0 \in S  BY <2>2, <3>1
    <3>2. CASE 0 \notin S  BY <1>11, <2>2, <3>2
    <3>. QED  BY <3>1, <3>2
  <2>. HIDE DEF S
  <2>4. Min(S) \in S /\ \A y \in S : Min(S) =< y
    BY <2>3 DEF Min
  <2>5. Evictions(table, order) \in Nat /\ Evictions(table, order) =< 1
    BY <1>11, <2>1, <2>2, <2>4
  <2>6. Evictions(table, order) \in {0, 1}
    BY <2>5
  <2>. QED  BY <2>1, <2>4, <2>6
<1>13. Cardinality(DOMAIN Without(table, order, Evictions(table, order))) <= Capacity
  BY <1>12
<1>. QED  BY <1>2, <1>3, <1>4, <1>12, <1>13 DEF table, order

(* One lemma per action: the invariant survives it.                        *)

LEMMA InitInv == Init => CacheInv
<1>. SUFFICES ASSUME Init  PROVE CacheInv
  OBVIOUS
<1>. USE ClaimAssumption DEF Init
<1>0. DOMAIN entries = {} /\ DOMAIN inFlight = {}
  OBVIOUS
<1>1. TypeOK
  BY <1>0 DEF TypeOK, Claim, Caller, Phase, Exit, Unused, Resting
<1>2. HolderIsLive /\ LiveIsHolder /\ NoClaimFromTheFuture
  BY <1>0 DEF HolderIsLive, LiveIsHolder, NoClaimFromTheFuture, Unused
<1>3. AskHasClaim /\ ForkerOwnsClaim /\ NoStaleAnswer
  BY <1>0 DEF AskHasClaim, ForkerOwnsClaim, NoStaleAnswer, Resting
<1>4. OrderIsExact
  <2>1. Range(<<>>) = {} /\ Len(<<>>) = 0
    BY DEF Range
  <2>2. Cardinality(DOMAIN entries) = 0
    BY <1>0, FS_EmptySet
  <2>. QED  BY <1>0, <2>1, <2>2, CapacityAssumption DEF OrderIsExact, bounded
<1>. QED  BY <1>1, <1>2, <1>3, <1>4 DEF CacheInv

LEMMA HitStep ==
    ASSUME CacheInv, NEW c \in Callers, NEW q \in Questions, Hit(c, q)
    PROVE  CacheInv'
<1>. USE ClaimAssumption DEF CacheInv
<1>1. TypeOK'
  BY DEF Hit, Asking, MayAsk, TypeOK, Claim, Caller, Phase, Exit
<1>2. HolderIsLive'
  BY DEF Hit, Asking, MayAsk, TypeOK, Claim, Caller, Phase, Exit, HolderIsLive, NoStaleAnswer, AskHasClaim
<1>3. LiveIsHolder'
  BY DEF Hit, Asking, MayAsk, TypeOK, Claim, Caller, Phase, Exit, LiveIsHolder, HolderIsLive, NoClaimFromTheFuture, AskHasClaim
<1>4. NoClaimFromTheFuture'
  BY DEF Hit, Asking, MayAsk, TypeOK, Claim, Caller, Phase, Exit, NoClaimFromTheFuture
<1>5. AskHasClaim'
  BY DEF Hit, Asking, MayAsk, TypeOK, Claim, Caller, Phase, Exit, AskHasClaim
<1>6. ForkerOwnsClaim'
  BY DEF Hit, Asking, MayAsk, TypeOK, Claim, Caller, Phase, Exit, ForkerOwnsClaim, AskHasClaim
<1>7. NoStaleAnswer'
  BY DEF Hit, Asking, MayAsk, TypeOK, Claim, Caller, Phase, Exit, NoStaleAnswer, HolderIsLive, AskHasClaim
<1>8. OrderIsExact'
  BY DEF Hit, OrderIsExact, bounded
<1>. QED  BY <1>1, <1>2, <1>3, <1>4, <1>5, <1>6, <1>7, <1>8

LEMMA JoinStep ==
    ASSUME CacheInv, NEW c \in Callers, NEW q \in Questions, Join(c, q)
    PROVE  CacheInv'
<1>. USE ClaimAssumption DEF CacheInv
<1>1. TypeOK'
  <2>1. inFlight[q] \in Claims
    BY DEF Join, TypeOK
  <2>2. claims[inFlight[q]] \in Claim
    BY <2>1 DEF TypeOK
  <2>3. [claims[inFlight[q]] EXCEPT !.waiters = @ + 1] \in Claim
    BY <2>2 DEF Claim
  <2>4. claims' \in [Claims -> Claim]
    BY <2>3 DEF Join, TypeOK
  <2>5. callers' \in [Callers -> Caller]
    BY <2>1 DEF Join, Asking, TypeOK, Caller
  <2>. QED  BY <2>4, <2>5 DEF Join, TypeOK
<1>2. HolderIsLive'
  BY DEF Join, Asking, MayAsk, TypeOK, Claim, Caller, Phase, Exit, HolderIsLive, NoStaleAnswer, AskHasClaim
<1>3. LiveIsHolder'
  BY DEF Join, Asking, MayAsk, TypeOK, Claim, Caller, Phase, Exit, LiveIsHolder, HolderIsLive, NoClaimFromTheFuture, AskHasClaim
<1>4. NoClaimFromTheFuture'
  BY DEF Join, Asking, MayAsk, TypeOK, Claim, Caller, Phase, Exit, NoClaimFromTheFuture
<1>5. AskHasClaim'
  BY DEF Join, Asking, MayAsk, TypeOK, Claim, Caller, Phase, Exit, AskHasClaim
<1>6. ForkerOwnsClaim'
  BY DEF Join, Asking, MayAsk, TypeOK, Claim, Caller, Phase, Exit, ForkerOwnsClaim, AskHasClaim
<1>7. NoStaleAnswer'
  BY DEF Join, Asking, MayAsk, TypeOK, Claim, Caller, Phase, Exit, NoStaleAnswer, HolderIsLive, AskHasClaim
<1>8. OrderIsExact'
  BY DEF Join, OrderIsExact, bounded
<1>. QED  BY <1>1, <1>2, <1>3, <1>4, <1>5, <1>6, <1>7, <1>8

LEMMA NewClaimStep ==
    ASSUME CacheInv, NEW c \in Callers, NEW q \in Questions, NEW k \in Claims, NewClaim(c, q, k)
    PROVE  CacheInv'
<1>. USE ClaimAssumption DEF CacheInv
<1>1. TypeOK'
  BY DEF NewClaim, Asking, MayAsk, Garbage, TypeOK, Claim, Caller, Phase, Exit
<1>2. HolderIsLive'
  BY DEF NewClaim, Asking, MayAsk, Garbage, TypeOK, Claim, Caller, Phase, Exit, HolderIsLive, NoStaleAnswer, AskHasClaim
<1>3. LiveIsHolder'
  BY DEF NewClaim, Asking, MayAsk, Garbage, TypeOK, Claim, Caller, Phase, Exit, LiveIsHolder, HolderIsLive, NoClaimFromTheFuture, AskHasClaim
<1>4. NoClaimFromTheFuture'
  BY DEF NewClaim, Asking, MayAsk, Garbage, TypeOK, Claim, Caller, Phase, Exit, NoClaimFromTheFuture
<1>5. AskHasClaim'
  BY DEF NewClaim, Asking, MayAsk, Garbage, TypeOK, Claim, Caller, Phase, Exit, AskHasClaim
<1>6. ForkerOwnsClaim'
  BY DEF NewClaim, Asking, MayAsk, Garbage, TypeOK, Claim, Caller, Phase, Exit, ForkerOwnsClaim, AskHasClaim
<1>7. NoStaleAnswer'
  BY DEF NewClaim, Asking, MayAsk, Garbage, TypeOK, Claim, Caller, Phase, Exit, NoStaleAnswer, HolderIsLive, AskHasClaim
<1>8. OrderIsExact'
  BY DEF NewClaim, OrderIsExact, bounded
<1>. QED  BY <1>1, <1>2, <1>3, <1>4, <1>5, <1>6, <1>7, <1>8

LEMMA ForkStep ==
    ASSUME CacheInv, NEW c \in Callers, Fork(c)
    PROVE  CacheInv'
<1>. USE ClaimAssumption DEF CacheInv
<1>0. callers[c].claim \in Claims /\ claims[callers[c].claim] \in Claim
  BY DEF Fork, AskHasClaim, TypeOK, Caller
<1>1. TypeOK'
  <2>1. [claims[callers[c].claim] EXCEPT !.phase = "forked"] \in Claim
    BY <1>0 DEF Claim, Phase
  <2>2. callers' \in [Callers -> Caller]
    BY DEF Fork, TypeOK, Caller
  <2>. QED  BY <2>1, <2>2 DEF Fork, TypeOK
<1>2. HolderIsLive'
  BY DEF Fork, TypeOK, Claim, Caller, Phase, Exit, HolderIsLive, NoStaleAnswer, AskHasClaim
<1>3. LiveIsHolder'
  BY <1>0 DEF Fork, TypeOK, Claim, LiveIsHolder, ForkerOwnsClaim
<1>4. NoClaimFromTheFuture'
  BY DEF Fork, TypeOK, Claim, Caller, Phase, Exit, NoClaimFromTheFuture
<1>5. AskHasClaim'
  BY DEF Fork, TypeOK, Claim, Caller, Phase, Exit, AskHasClaim
<1>6. ForkerOwnsClaim'
  BY DEF Fork, TypeOK, Claim, Caller, Phase, Exit, ForkerOwnsClaim, AskHasClaim
<1>7. NoStaleAnswer'
  BY DEF Fork, TypeOK, Claim, Caller, Phase, Exit, NoStaleAnswer, HolderIsLive, AskHasClaim
<1>8. OrderIsExact'
  BY DEF Fork, OrderIsExact, bounded
<1>. QED  BY <1>1, <1>2, <1>3, <1>4, <1>5, <1>6, <1>7, <1>8

LEMMA BeginStep ==
    ASSUME CacheInv, NEW k \in Claims, Begin(k)
    PROVE  CacheInv'
<1>. USE ClaimAssumption DEF CacheInv
<1>1. TypeOK'
  <2>1. [claims[k] EXCEPT !.phase = "running"] \in Claim
    <3>1. claims[k] \in Claim
      BY DEF TypeOK
    <3>. HIDE DEF CacheInv
    <3>. QED  BY <3>1 DEF Claim, Phase, Exit
  <2>2. claims' = [claims EXCEPT ![k] = [claims[k] EXCEPT !.phase = "running"]]
    BY DEF Begin
  <2>. QED  BY <2>1, <2>2 DEF Begin, TypeOK
<1>2. HolderIsLive'
  BY DEF Begin, TypeOK, Claim, Caller, Phase, Exit, HolderIsLive, NoStaleAnswer, AskHasClaim
<1>3. LiveIsHolder'
  BY DEF Begin, TypeOK, Claim, Caller, Phase, Exit, LiveIsHolder, HolderIsLive, NoClaimFromTheFuture, AskHasClaim
<1>4. NoClaimFromTheFuture'
  BY DEF Begin, TypeOK, Claim, Caller, Phase, Exit, NoClaimFromTheFuture
<1>5. AskHasClaim'
  BY DEF Begin, TypeOK, Claim, Caller, Phase, Exit, AskHasClaim
<1>6. ForkerOwnsClaim'
  BY DEF Begin, TypeOK, Claim, Caller, Phase, Exit, ForkerOwnsClaim, AskHasClaim
<1>7. NoStaleAnswer'
  BY DEF Begin, TypeOK, Claim, Caller, Phase, Exit, NoStaleAnswer, HolderIsLive, AskHasClaim
<1>8. OrderIsExact'
  BY DEF Begin, OrderIsExact, bounded
<1>. QED  BY <1>1, <1>2, <1>3, <1>4, <1>5, <1>6, <1>7, <1>8

LEMMA BeginShieldStep ==
    ASSUME CacheInv, NEW k \in Claims, BeginShield(k)
    PROVE  CacheInv'
<1>. USE ClaimAssumption DEF CacheInv
<1>1. TypeOK'
  <2>1. [claims[k] EXCEPT !.phase = "shielded"] \in Claim
    <3>1. claims[k] \in Claim
      BY DEF TypeOK
    <3>. HIDE DEF CacheInv
    <3>. QED  BY <3>1 DEF Claim, Phase, Exit
  <2>2. claims' = [claims EXCEPT ![k] = [claims[k] EXCEPT !.phase = "shielded"]]
    BY DEF BeginShield
  <2>. QED  BY <2>1, <2>2 DEF BeginShield, TypeOK
<1>2. HolderIsLive'
  BY DEF BeginShield, TypeOK, Claim, Caller, Phase, Exit, HolderIsLive, NoStaleAnswer, AskHasClaim
<1>3. LiveIsHolder'
  BY DEF BeginShield, TypeOK, Claim, Caller, Phase, Exit, LiveIsHolder, HolderIsLive, NoClaimFromTheFuture, AskHasClaim
<1>4. NoClaimFromTheFuture'
  BY DEF BeginShield, TypeOK, Claim, Caller, Phase, Exit, NoClaimFromTheFuture
<1>5. AskHasClaim'
  BY DEF BeginShield, TypeOK, Claim, Caller, Phase, Exit, AskHasClaim
<1>6. ForkerOwnsClaim'
  BY DEF BeginShield, TypeOK, Claim, Caller, Phase, Exit, ForkerOwnsClaim, AskHasClaim
<1>7. NoStaleAnswer'
  BY DEF BeginShield, TypeOK, Claim, Caller, Phase, Exit, NoStaleAnswer, HolderIsLive, AskHasClaim
<1>8. OrderIsExact'
  BY DEF BeginShield, OrderIsExact, bounded
<1>. QED  BY <1>1, <1>2, <1>3, <1>4, <1>5, <1>6, <1>7, <1>8

LEMMA EndShieldStep ==
    ASSUME CacheInv, NEW k \in Claims, EndShield(k)
    PROVE  CacheInv'
<1>. USE ClaimAssumption DEF CacheInv
<1>1. TypeOK'
  <2>1. /\ [claims[k] EXCEPT !.phase = "exited", !.exit = "interruption"] \in Claim
        /\ [claims[k] EXCEPT !.phase = "running"] \in Claim
    <3>1. claims[k] \in Claim
      BY DEF TypeOK
    <3>. HIDE DEF CacheInv
    <3>. QED  BY <3>1 DEF Claim, Phase, Exit
  <2>. QED  BY <2>1 DEF EndShield, TypeOK
<1>2. HolderIsLive'
  BY DEF EndShield, TypeOK, Claim, Caller, Phase, Exit, HolderIsLive, NoStaleAnswer, AskHasClaim
<1>3. LiveIsHolder'
  BY DEF EndShield, TypeOK, Claim, Caller, Phase, Exit, LiveIsHolder, HolderIsLive, NoClaimFromTheFuture, AskHasClaim
<1>4. NoClaimFromTheFuture'
  BY DEF EndShield, TypeOK, Claim, Caller, Phase, Exit, NoClaimFromTheFuture
<1>5. AskHasClaim'
  BY DEF EndShield, TypeOK, Claim, Caller, Phase, Exit, AskHasClaim
<1>6. ForkerOwnsClaim'
  BY DEF EndShield, TypeOK, Claim, Caller, Phase, Exit, ForkerOwnsClaim, AskHasClaim
<1>7. NoStaleAnswer'
  BY DEF EndShield, TypeOK, Claim, Caller, Phase, Exit, NoStaleAnswer, HolderIsLive, AskHasClaim
<1>8. OrderIsExact'
  BY DEF EndShield, OrderIsExact, bounded
<1>. QED  BY <1>1, <1>2, <1>3, <1>4, <1>5, <1>6, <1>7, <1>8

LEMMA ComputeExitsStep ==
    ASSUME CacheInv, NEW k \in Claims, NEW exit \in {"success", "failure"}, ComputeExits(k, exit)
    PROVE  CacheInv'
<1>. USE ClaimAssumption DEF CacheInv
<1>1. TypeOK'
  <2>1. [claims[k] EXCEPT !.phase = "exited", !.exit = exit] \in Claim
    <3>1. claims[k] \in Claim
      BY DEF TypeOK
    <3>. HIDE DEF CacheInv
    <3>. QED  BY <3>1 DEF Claim, Phase, Exit
  <2>2. claims' = [claims EXCEPT ![k] = [claims[k] EXCEPT !.phase = "exited", !.exit = exit]]
    BY DEF ComputeExits
  <2>. QED  BY <2>1, <2>2 DEF ComputeExits, TypeOK
<1>2. HolderIsLive'
  BY DEF ComputeExits, TypeOK, Claim, Caller, Phase, Exit, HolderIsLive, NoStaleAnswer, AskHasClaim
<1>3. LiveIsHolder'
  BY DEF ComputeExits, TypeOK, Claim, Caller, Phase, Exit, LiveIsHolder, HolderIsLive, NoClaimFromTheFuture, AskHasClaim
<1>4. NoClaimFromTheFuture'
  BY DEF ComputeExits, TypeOK, Claim, Caller, Phase, Exit, NoClaimFromTheFuture
<1>5. AskHasClaim'
  BY DEF ComputeExits, TypeOK, Claim, Caller, Phase, Exit, AskHasClaim
<1>6. ForkerOwnsClaim'
  BY DEF ComputeExits, TypeOK, Claim, Caller, Phase, Exit, ForkerOwnsClaim, AskHasClaim
<1>7. NoStaleAnswer'
  BY DEF ComputeExits, TypeOK, Claim, Caller, Phase, Exit, NoStaleAnswer, HolderIsLive, AskHasClaim
<1>8. OrderIsExact'
  BY DEF ComputeExits, OrderIsExact, bounded
<1>. QED  BY <1>1, <1>2, <1>3, <1>4, <1>5, <1>6, <1>7, <1>8

LEMMA StoreStep ==
    ASSUME CacheInv, NEW k \in Claims, Store(k)
    PROVE  CacheInv'
<1>. USE ClaimAssumption DEF CacheInv
<1> DEFINE q == claims[k].question
           table == WithAnswer(q, k)
           order == WithKey(q)
           n == Evictions(table, order)
<1>a. claims[k] \in Claim /\ q \in Questions
  BY DEF TypeOK, Claim
<1>b. Kept(k) => q \notin DOMAIN entries /\ q \in DOMAIN inFlight /\ inFlight[q] = k
  BY DEF Store, Kept, LiveIsHolder
<1>c. Kept(k) /\ bounded =>
        /\ entries' = Without(table, order, n)
        /\ insertionOrder' = SubSeq(order, n + 1, Len(order))
  BY DEF Store, StoreAnswer
<1>d. Kept(k) /\ ~bounded => entries' = table /\ insertionOrder' = insertionOrder
  BY DEF Store, StoreAnswer
<1>e. ~Kept(k) => entries' = entries /\ insertionOrder' = insertionOrder
  BY DEF Store
<1>f. /\ entries' = [r \in DOMAIN entries' |-> IF Kept(k) /\ r = q THEN k ELSE entries[r]]
      /\ DOMAIN entries' \subseteq DOMAIN entries \cup {q}
      /\ ~Kept(k) => entries' = entries
  BY <1>c, <1>d, <1>e DEF WithAnswer, Without, Restrict, TypeOK
<1>g. Kept(k) /\ bounded =>
        /\ order \in Seq(Questions)
        /\ Len(order) = Len(insertionOrder) + 1
        /\ \A i, j \in 1..Len(order) : order[i] = order[j] => i = j
        /\ Range(order) = DOMAIN table
        /\ n \in {0, 1}
        /\ Cardinality(DOMAIN Without(table, order, n)) <= Capacity
  BY <1>a, <1>b, EvictionCount
<1>h. Len(insertionOrder) \in Nat
  BY LenProperties DEF TypeOK
<1>i. claims' = [claims EXCEPT ![k] = [claims[k] EXCEPT !.phase = "stored"]]
  BY DEF Store
<1>j. inFlight' = inFlight /\ generation' = generation /\ callers' = callers
  BY DEF Store
<1>. HIDE DEF table, order, n
<1>1. TypeOK'
  <2>1. [claims[k] EXCEPT !.phase = "stored"] \in Claim
    BY <1>a DEF Claim, Phase
  <2>2. insertionOrder' \in Seq(Questions)
    <3>1. CASE Kept(k) /\ bounded
      <4>1. \A i \in n + 1..Len(order) : order[i] \in Questions
        BY <1>g, <3>1, LenProperties
      <4>2. n + 1 \in Int /\ Len(order) \in Int
        BY <1>g, <1>h, <3>1
      <4>3. SubSeq(order, n + 1, Len(order)) \in Seq(Questions)
        BY <4>1, <4>2, SubSeqProperties
      <4>. QED  BY <1>c, <3>1, <4>3
    <3>. QED  BY <1>d, <1>e, <3>1 DEF TypeOK
  <2>3. DOMAIN entries' \subseteq Questions /\ entries' \in [DOMAIN entries' -> Claims]
    BY <1>a, <1>f DEF TypeOK
  <2>. QED  BY <1>i, <1>j, <2>1, <2>2, <2>3 DEF TypeOK
<1>2. HolderIsLive'
  BY <1>a, <1>i, <1>j DEF Store, TypeOK, Phase, HolderIsLive
<1>3. LiveIsHolder'
  <2>. SUFFICES ASSUME NEW l \in Claims, claims'[l].generation = generation,
                       claims'[l].phase \in {"unforked", "forked", "running", "shielded", "exited"}
                PROVE  /\ claims'[l].question \in DOMAIN inFlight
                       /\ inFlight[claims'[l].question] = l
                       /\ claims'[l].question \notin DOMAIN entries'
    BY <1>j DEF LiveIsHolder
  <2>1. l # k /\ claims'[l] = claims[l]
    BY <1>a, <1>i DEF TypeOK, Claim
  <2>2. /\ claims[l].question \in DOMAIN inFlight
        /\ inFlight[claims[l].question] = l
        /\ claims[l].question \notin DOMAIN entries
    BY <2>1 DEF LiveIsHolder
  <2>. QED  BY <1>b, <1>f, <2>1, <2>2
<1>4. NoClaimFromTheFuture'
  BY <1>a, <1>i, <1>j DEF TypeOK, Claim, NoClaimFromTheFuture
<1>5. AskHasClaim'
  BY <1>j DEF AskHasClaim
<1>6. ForkerOwnsClaim'
  BY <1>a, <1>i, <1>j DEF Store, TypeOK, Claim, Caller, AskHasClaim, ForkerOwnsClaim
<1>7. NoStaleAnswer'
  <2>1. \A l \in Claims : claims'[l].generation = claims[l].generation
    BY <1>a, <1>i DEF TypeOK, Claim
  <2>2. \A r \in DOMAIN entries' : claims[entries'[r]].generation = generation
    BY <1>f DEF Kept, NoStaleAnswer
  <2>3. \A r \in DOMAIN entries' : entries'[r] \in Claims
    BY <1>f DEF TypeOK
  <2>. QED  BY <1>j, <2>1, <2>2, <2>3 DEF NoStaleAnswer, TypeOK, Caller
<1>8. OrderIsExact'
  <2>1. CASE Kept(k) /\ bounded
    <3>1. /\ Len(insertionOrder') = Len(order) - n
          /\ \A i \in 1..Len(insertionOrder') : insertionOrder'[i] = order[i + n]
          /\ DOMAIN insertionOrder' = 1..Len(insertionOrder')
      <4>1. \A i \in n + 1..Len(order) : order[i] \in Questions
        BY <1>g, <2>1, LenProperties
      <4>2. Len(order) \in Nat /\ n \in Int /\ n + 1 \in Int /\ n <= Len(order)
        BY <1>g, <1>h, <2>1
      <4>3. /\ SubSeq(order, n + 1, Len(order)) \in Seq(Questions)
            /\ Len(SubSeq(order, n + 1, Len(order))) =
                 IF n + 1 <= Len(order) THEN Len(order) - (n + 1) + 1 ELSE 0
            /\ \A i \in 1..Len(order) - (n + 1) + 1 :
                 SubSeq(order, n + 1, Len(order))[i] = order[n + 1 + i - 1]
        BY <4>1, <4>2, SubSeqProperties
      <4>4. DOMAIN insertionOrder' = 1..Len(insertionOrder')
        BY <1>c, <2>1, <4>3, LenProperties
      <4>5. Len(insertionOrder') = Len(order) - n
        BY <1>c, <2>1, <4>2, <4>3
      <4>6. ASSUME NEW i \in 1..Len(insertionOrder')
            PROVE  insertionOrder'[i] = order[i + n]
        <5>1. i \in 1..Len(order) - (n + 1) + 1 /\ n + 1 + i - 1 = i + n
          BY <4>2, <4>5
        <5>. QED  BY <1>c, <2>1, <4>3, <5>1
      <4>. QED  BY <4>4, <4>5, <4>6
    <3>2. \A i, j \in 1..Len(insertionOrder') :
            insertionOrder'[i] = insertionOrder'[j] => i = j
      BY <1>g, <1>h, <2>1, <3>1
    <3>3. Range(insertionOrder') = DOMAIN entries'
      <4>1. DOMAIN entries' = DOMAIN table \ {order[i] : i \in 1..n}
        BY <1>c, <2>1 DEF Without, Restrict
      <4>2. DOMAIN table = {order[i] : i \in 1..Len(order)}
        BY <1>g, <2>1, LenProperties DEF Range
      <4>3. Range(insertionOrder') = {order[i + n] : i \in 1..Len(order) - n}
        BY <3>1 DEF Range
      <4>4. \A i \in 1..Len(order) : i \in 1..n \/ i - n \in 1..Len(order) - n
        BY <1>g, <1>h, <2>1
      <4>5. n \in Int /\ Len(order) \in Nat /\ \A i \in 1..n : i \in 1..Len(order)
        BY <1>g, <1>h, <2>1
      <4>6. \A i, j \in 1..Len(order) : order[i] = order[j] => i = j
        BY <1>g, <2>1
      <4>7. ASSUME NEW r \in DOMAIN entries'  PROVE r \in Range(insertionOrder')
        <5>1. PICK i \in 1..Len(order) : r = order[i] /\ i \notin 1..n
          BY <4>1, <4>2, <4>7
        <5>2. i - n \in 1..Len(order) - n /\ (i - n) + n = i
          BY <4>4, <4>5, <5>1
        <5>. QED  BY <4>3, <5>1, <5>2
      <4>8. ASSUME NEW r \in Range(insertionOrder')  PROVE r \in DOMAIN entries'
        <5>1. PICK i \in 1..Len(order) - n : r = order[i + n]
          BY <4>3, <4>8
        <5>2. i + n \in 1..Len(order) /\ i + n \notin 1..n
          BY <1>g, <1>h, <2>1, <4>5
        <5>3. r \in DOMAIN table
          BY <4>2, <5>1, <5>2
        <5>4. r \notin {order[j] : j \in 1..n}
          BY <4>5, <4>6, <5>1, <5>2
        <5>. QED  BY <4>1, <5>3, <5>4
      <4>. QED  BY <4>7, <4>8
    <3>4. Cardinality(DOMAIN entries') <= Capacity
      BY <1>c, <1>g, <2>1
    <3>. QED  BY <2>1, <3>2, <3>3, <3>4 DEF OrderIsExact, bounded
  <2>2. CASE Kept(k) /\ ~bounded
    BY <1>d, <2>2 DEF OrderIsExact, bounded
  <2>3. CASE ~Kept(k)
    BY <1>e, <2>3 DEF OrderIsExact, bounded
  <2>. QED  BY <2>1, <2>2, <2>3
<1>. QED  BY <1>1, <1>2, <1>3, <1>4, <1>5, <1>6, <1>7, <1>8

LEMMA ReleaseStep ==
    ASSUME CacheInv, NEW k \in Claims, Release(k)
    PROVE  CacheInv'
<1>. USE ClaimAssumption DEF CacheInv
<1>1. TypeOK'
  <2>1. claims' \in [Claims -> Claim]
    <3>1. claims \in [Claims -> Claim] /\ claims' = [claims EXCEPT ![k].phase = "released"]
      BY DEF TypeOK, Release
    <3>. QED  BY <3>1 DEF Claim, Phase
  <2>2. DOMAIN inFlight' \subseteq Questions /\ inFlight' \in [DOMAIN inFlight' -> Claims]
    BY DEF TypeOK, Release, Released, Restrict
  <2>. QED  BY <2>1, <2>2 DEF TypeOK, Release
<1>2. HolderIsLive'
  BY DEF Release, Released, Restrict, TypeOK, Claim, Caller, Phase, Exit, HolderIsLive, NoStaleAnswer, AskHasClaim
<1>3. LiveIsHolder'
  BY DEF Release, Released, Restrict, TypeOK, Claim, Caller, Phase, Exit, LiveIsHolder, HolderIsLive, NoClaimFromTheFuture, AskHasClaim
<1>4. NoClaimFromTheFuture'
  BY DEF Release, Released, Restrict, TypeOK, Claim, Caller, Phase, Exit, NoClaimFromTheFuture
<1>5. AskHasClaim'
  BY DEF Release, Released, Restrict, TypeOK, Claim, Caller, Phase, Exit, AskHasClaim
<1>6. ForkerOwnsClaim'
  BY DEF Release, Released, Restrict, TypeOK, Claim, Caller, Phase, Exit, ForkerOwnsClaim, AskHasClaim
<1>7. NoStaleAnswer'
  BY DEF Release, Released, Restrict, TypeOK, Claim, Caller, Phase, Exit, NoStaleAnswer, HolderIsLive, AskHasClaim
<1>8. OrderIsExact'
  BY DEF Release, OrderIsExact, bounded
<1>. QED  BY <1>1, <1>2, <1>3, <1>4, <1>5, <1>6, <1>7, <1>8

LEMMA CompleteStep ==
    ASSUME CacheInv, NEW k \in Claims, Complete(k)
    PROVE  CacheInv'
<1>. USE ClaimAssumption DEF CacheInv
<1>1. TypeOK'
  <2>1. claims[k] \in Claim
    BY DEF TypeOK
  <2>2. [claims[k] EXCEPT !.phase = "done"] \in Claim
    BY <2>1 DEF Claim, Phase
  <2>3. claims' = [claims EXCEPT ![k] = [claims[k] EXCEPT !.phase = "done"]]
    BY DEF Complete, TypeOK
  <2>4. claims' \in [Claims -> Claim]
    BY <2>2, <2>3 DEF TypeOK
  <2>. QED  BY <2>4 DEF Complete, TypeOK
<1>2. HolderIsLive'
  BY DEF Complete, TypeOK, Claim, Caller, Phase, Exit, HolderIsLive, NoStaleAnswer, AskHasClaim
<1>3. LiveIsHolder'
  BY DEF Complete, TypeOK, Claim, Caller, Phase, Exit, LiveIsHolder, HolderIsLive, NoClaimFromTheFuture, AskHasClaim
<1>4. NoClaimFromTheFuture'
  BY DEF Complete, TypeOK, Claim, Caller, Phase, Exit, NoClaimFromTheFuture
<1>5. AskHasClaim'
  BY DEF Complete, TypeOK, Claim, Caller, Phase, Exit, AskHasClaim
<1>6. ForkerOwnsClaim'
  BY DEF Complete, TypeOK, Claim, Caller, Phase, Exit, ForkerOwnsClaim, AskHasClaim
<1>7. NoStaleAnswer'
  BY DEF Complete, TypeOK, Claim, Caller, Phase, Exit, NoStaleAnswer, HolderIsLive, AskHasClaim
<1>8. OrderIsExact'
  BY DEF Complete, OrderIsExact, bounded
<1>. QED  BY <1>1, <1>2, <1>3, <1>4, <1>5, <1>6, <1>7, <1>8

LEMMA ResumeStep ==
    ASSUME CacheInv, NEW c \in Callers, Resume(c)
    PROVE  CacheInv'
<1>. USE ClaimAssumption DEF CacheInv
<1>0. /\ callers[c].claim \in Claims
      /\ claims[callers[c].claim] \in Claim
  BY DEF Resume, AskHasClaim, TypeOK, Caller
<1>1. TypeOK'
  <2>1. [claims[callers[c].claim] EXCEPT !.waiters = @ - 1] \in Claim
    BY <1>0 DEF Claim
  <2>2. claims' \in [Claims -> Claim]
    BY <2>1 DEF Resume, TypeOK
  <2>3. \A exit \in Exit \ {"success"} : Resting("returned", exit, FALSE) \in Caller
    BY DEF Resting, Caller, Exit
  <2>4. [callers[c] EXCEPT !.pc = "returned", !.got = "answer"] \in Caller
    BY DEF TypeOK, Caller
  <2>5. claims[callers[c].claim].exit \in Exit
    BY <1>0 DEF Claim
  <2>6. callers' \in [Callers -> Caller]
    <3>1. CASE claims[callers[c].claim].exit = "success"
      BY <2>4, <3>1 DEF Resume, TypeOK
    <3>2. CASE claims[callers[c].claim].exit # "success"
      BY <2>3, <2>5, <3>2 DEF Resume, TypeOK
    <3>. QED  BY <3>1, <3>2
  <2>. QED  BY <2>2, <2>6 DEF Resume, TypeOK
<1>2. HolderIsLive'
  BY DEF Resume, Resting, TypeOK, Claim, Caller, Phase, Exit, HolderIsLive, NoStaleAnswer, AskHasClaim
<1>3. LiveIsHolder'
  BY DEF Resume, Resting, TypeOK, Claim, Caller, Phase, Exit, LiveIsHolder, HolderIsLive, NoClaimFromTheFuture, AskHasClaim
<1>4. NoClaimFromTheFuture'
  BY DEF Resume, Resting, TypeOK, Claim, Caller, Phase, Exit, NoClaimFromTheFuture
<1>5. AskHasClaim'
  BY DEF Resume, Resting, TypeOK, Claim, Caller, Phase, Exit, AskHasClaim
<1>6. ForkerOwnsClaim'
  BY DEF Resume, Resting, TypeOK, Claim, Caller, Phase, Exit, ForkerOwnsClaim, AskHasClaim
<1>7. NoStaleAnswer'
  BY DEF Resume, Resting, TypeOK, Claim, Caller, Phase, Exit, NoStaleAnswer, HolderIsLive, AskHasClaim
<1>8. OrderIsExact'
  BY DEF Resume, OrderIsExact, bounded
<1>. QED  BY <1>1, <1>2, <1>3, <1>4, <1>5, <1>6, <1>7, <1>8

LEMMA InterruptStep ==
    ASSUME CacheInv, NEW c \in Callers, Interrupt(c)
    PROVE  CacheInv'
<1>. USE ClaimAssumption DEF CacheInv
<1> DEFINE k == callers[c].claim
           last == claims[k].waiters - 1 = 0
<1>a. k \in Claims /\ claims[k] \in Claim /\ callers[c] \in Caller
  BY DEF Interrupt, AskHasClaim, TypeOK, Caller
<1>b. /\ \/ inFlight' = inFlight /\ claims'[k].phase = claims[k].phase
         \/ /\ inFlight' = Released(k)
            /\ claims[k].phase = "running" /\ claims'[k].phase = "done"
         \/ /\ inFlight' = inFlight
            /\ claims[k].phase = "forked" /\ claims'[k].phase = "dead"
      /\ claims' = [claims EXCEPT ![k] = claims'[k]]
      /\ claims'[k] \in Claim
      /\ claims'[k].question = claims[k].question
      /\ claims'[k].generation = claims[k].generation
  <2>1. CASE ~last
    <3>. DEFINE r == [claims[k] EXCEPT !.waiters = @ - 1]
    <3>1. inFlight' = inFlight /\ claims' = [claims EXCEPT ![k] = r]
      BY <2>1 DEF Interrupt
    <3>2. /\ r \in Claim /\ r.question = claims[k].question
          /\ r.generation = claims[k].generation
          /\ r.phase = claims[k].phase
      BY <1>a DEF Claim, Phase, Exit
    <3>3. claims'[k] = r
      BY <1>a, <3>1 DEF TypeOK
    <3>. QED  BY <2>1, <3>1, <3>2, <3>3
  <2>2. CASE last /\ claims[k].phase = "running"
    <3>. DEFINE r == [claims[k] EXCEPT !.waiters = 0, !.phase = "done", !.exit = "interruption"]
    <3>1. inFlight' = Released(k) /\ claims' = [claims EXCEPT ![k] = r]
      BY <2>2 DEF Interrupt, AbandonCompute
    <3>2. /\ r \in Claim /\ r.question = claims[k].question
          /\ r.generation = claims[k].generation
          /\ r.phase = "done"
      <4>. DEFINE r1 == [claims[k] EXCEPT !.waiters = 0]
                  r2 == [r1 EXCEPT !.phase = "done"]
      <4>1. r1 \in Claim
        BY <1>a DEF Claim
      <4>2. r2 \in Claim
        BY <4>1 DEF Claim, Phase
      <4>3. r = [r2 EXCEPT !.exit = "interruption"]
        OBVIOUS
      <4>4. r \in Claim
        BY <4>2, <4>3 DEF Claim, Exit
      <4>. QED  BY <1>a, <4>4 DEF Claim
    <3>3. claims'[k] = r
      BY <1>a, <3>1 DEF TypeOK
    <3>. QED  BY <2>2, <3>1, <3>2, <3>3
  <2>3. CASE last /\ claims[k].phase = "shielded"
    <3>. DEFINE r == [claims[k] EXCEPT !.waiters = 0, !.interrupting = TRUE]
    <3>1. inFlight' = inFlight /\ claims' = [claims EXCEPT ![k] = r]
      BY <2>3 DEF Interrupt, AbandonCompute
    <3>2. /\ r \in Claim /\ r.question = claims[k].question
          /\ r.generation = claims[k].generation
          /\ r.phase = claims[k].phase
      <4>. DEFINE r1 == [claims[k] EXCEPT !.waiters = 0]
      <4>1. r1 \in Claim
        BY <1>a DEF Claim
      <4>2. r = [r1 EXCEPT !.interrupting = TRUE]
        OBVIOUS
      <4>3. r \in Claim
        BY <4>1, <4>2 DEF Claim
      <4>. QED  BY <1>a, <4>3 DEF Claim
    <3>3. claims'[k] = r
      BY <1>a, <3>1 DEF TypeOK
    <3>. QED  BY <2>3, <3>1, <3>2, <3>3
  <2>5. CASE last /\ claims[k].phase = "forked"
    <3>. DEFINE r == [claims[k] EXCEPT !.waiters = 0, !.phase = "dead"]
    <3>1. inFlight' = inFlight /\ claims' = [claims EXCEPT ![k] = r]
      BY <2>5 DEF Interrupt, AbandonCompute
    <3>2. /\ r \in Claim /\ r.question = claims[k].question
          /\ r.generation = claims[k].generation
          /\ r.phase = "dead"
      <4>. DEFINE r1 == [claims[k] EXCEPT !.waiters = 0]
      <4>1. r1 \in Claim
        BY <1>a DEF Claim
      <4>2. r = [r1 EXCEPT !.phase = "dead"]
        OBVIOUS
      <4>3. r \in Claim
        BY <4>1, <4>2 DEF Claim, Phase
      <4>. QED  BY <1>a, <4>3 DEF Claim
    <3>3. claims'[k] = r
      BY <1>a, <3>1 DEF TypeOK
    <3>. QED  BY <2>5, <3>1, <3>2, <3>3
  <2>4. CASE last /\ claims[k].phase \notin {"running", "shielded", "forked"}
    <3>. DEFINE r == [claims[k] EXCEPT !.waiters = 0]
    <3>1. inFlight' = inFlight /\ claims' = [claims EXCEPT ![k] = r]
      BY <2>4 DEF Interrupt, AbandonCompute
    <3>2. /\ r \in Claim /\ r.question = claims[k].question
          /\ r.generation = claims[k].generation
          /\ r.phase = claims[k].phase
      BY <1>a DEF Claim, Phase, Exit
    <3>3. claims'[k] = r
      BY <1>a, <3>1 DEF TypeOK
    <3>. QED  BY <2>4, <3>1, <3>2, <3>3
  <2>. QED  BY <2>1, <2>2, <2>3, <2>4, <2>5
<1>c. entries' = entries /\ insertionOrder' = insertionOrder /\ generation' = generation
  BY DEF Interrupt
<1>d. /\ callers' \in [Callers -> Caller]
      /\ \A d \in Callers \ {c} : callers'[d] = callers[d]
      /\ callers'[c].pc \in {"leaving", "returned"}
      /\ callers'[c].pc = "leaving" => callers'[c].claim = k
      /\ callers'[c].claim # NoClaim =>
           callers'[c].claim = k /\ callers'[c].askedIn = callers[c].askedIn
  <2>. DEFINE r == IF last THEN [callers[c] EXCEPT !.pc = "leaving", !.cancelled = TRUE]
                           ELSE Resting("returned", "interruption", TRUE)
  <2>1. callers' = [callers EXCEPT ![c] = r]
    BY DEF Interrupt
  <2>2. /\ r \in Caller /\ r.pc \in {"leaving", "returned"}
        /\ r.pc = "leaving" => r.claim = k
        /\ r.claim # NoClaim => r.claim = k /\ r.askedIn = callers[c].askedIn
    BY <1>a DEF Resting, Caller
  <2>. HIDE DEF r
  <2>. QED  BY <2>1, <2>2 DEF TypeOK
<1>e. /\ \A q \in DOMAIN inFlight' : q \in DOMAIN inFlight /\ inFlight'[q] = inFlight[q]
      /\ DOMAIN inFlight' \subseteq Questions /\ inFlight' \in [DOMAIN inFlight' -> Claims]
      /\ \A q \in DOMAIN inFlight : inFlight[q] # k => q \in DOMAIN inFlight'
      /\ claims'[k].phase # "done" \/ claims[k].phase = "done" => inFlight' = inFlight
      /\ claims'[k].phase = "done" /\ claims[k].phase # "done" =>
           \A q \in DOMAIN inFlight' : inFlight[q] = k => q # claims[k].question
  BY <1>b DEF Released, Restrict, TypeOK
<1>. HIDE DEF k
<1>1. TypeOK'
  <2>1. claims' \in [Claims -> Claim]
    BY <1>a, <1>b DEF TypeOK
  <2>. QED  BY <1>c, <1>d, <1>e, <2>1 DEF TypeOK
<1>2. HolderIsLive'
  BY SMTT(30), <1>a, <1>b, <1>c, <1>e DEF HolderIsLive, TypeOK, Phase
<1>3. LiveIsHolder'
  BY <1>a, <1>b, <1>c, <1>e DEF LiveIsHolder, TypeOK
<1>4. NoClaimFromTheFuture'
  BY <1>a, <1>b, <1>c DEF NoClaimFromTheFuture, TypeOK
<1>5. AskHasClaim'
  BY <1>a, <1>d DEF AskHasClaim
<1>6. ForkerOwnsClaim'
  <2>1. \A d \in Callers : callers'[d].pc = "forking" => d # c /\ callers'[d] = callers[d]
    BY <1>d
  <2>2. ASSUME NEW d \in Callers, callers'[d].pc = "forking"
        PROVE  claims'[callers[d].claim].phase = "unforked"
    <3>1. callers[d].claim \in Claims /\ claims[callers[d].claim].phase = "unforked"
      BY <2>1, <2>2 DEF ForkerOwnsClaim, AskHasClaim, TypeOK, Caller
    <3>. QED  BY <1>a, <1>b, <3>1 DEF TypeOK
  <2>. QED  BY <2>1, <2>2 DEF ForkerOwnsClaim
<1>7. NoStaleAnswer'
  <2>1. \A l \in Claims : claims'[l].generation = claims[l].generation
    BY <1>a, <1>b DEF TypeOK
  <2>2. \A d \in Callers : callers'[d].claim # NoClaim =>
          callers'[d].claim = callers[d].claim /\ callers'[d].askedIn = callers[d].askedIn
    BY <1>d DEF k
  <2>3. ASSUME NEW q \in DOMAIN entries'  PROVE claims'[entries'[q]].generation = generation'
    BY <1>c, <2>1 DEF NoStaleAnswer, TypeOK
  <2>4. ASSUME NEW d \in Callers, callers'[d].claim # NoClaim
        PROVE  claims'[callers'[d].claim].generation = callers'[d].askedIn
    <3>1. /\ callers'[d].claim = callers[d].claim /\ callers'[d].askedIn = callers[d].askedIn
          /\ callers[d].claim \in Claims
      BY <2>2, <2>4 DEF TypeOK, Caller
    <3>2. claims[callers[d].claim].generation = callers[d].askedIn
      BY <2>4, <3>1 DEF NoStaleAnswer
    <3>. QED  BY <2>1, <3>1, <3>2
  <2>. QED  BY <2>3, <2>4 DEF NoStaleAnswer
<1>8. OrderIsExact'
  BY <1>c DEF OrderIsExact, bounded
<1>. QED  BY <1>1, <1>2, <1>3, <1>4, <1>5, <1>6, <1>7, <1>8

LEMMA LeaveStep ==
    ASSUME CacheInv, NEW c \in Callers, Leave(c)
    PROVE  CacheInv'
<1>. USE ClaimAssumption DEF CacheInv
<1>1. TypeOK'
  BY DEF Leave, Resting, TypeOK, Claim, Caller, Phase, Exit
<1>2. HolderIsLive'
  BY DEF Leave, Resting, TypeOK, Claim, Caller, Phase, Exit, HolderIsLive, NoStaleAnswer, AskHasClaim
<1>3. LiveIsHolder'
  BY DEF Leave, Resting, TypeOK, Claim, Caller, Phase, Exit, LiveIsHolder, HolderIsLive, NoClaimFromTheFuture, AskHasClaim
<1>4. NoClaimFromTheFuture'
  BY DEF Leave, Resting, TypeOK, Claim, Caller, Phase, Exit, NoClaimFromTheFuture
<1>5. AskHasClaim'
  BY DEF Leave, Resting, TypeOK, Claim, Caller, Phase, Exit, AskHasClaim
<1>6. ForkerOwnsClaim'
  BY DEF Leave, Resting, TypeOK, Claim, Caller, Phase, Exit, ForkerOwnsClaim, AskHasClaim
<1>7. NoStaleAnswer'
  BY DEF Leave, Resting, TypeOK, Claim, Caller, Phase, Exit, NoStaleAnswer, HolderIsLive, AskHasClaim
<1>8. OrderIsExact'
  BY DEF Leave, OrderIsExact, bounded
<1>. QED  BY <1>1, <1>2, <1>3, <1>4, <1>5, <1>6, <1>7, <1>8

LEMMA ClearStep ==
    ASSUME CacheInv, Clear
    PROVE  CacheInv'
<1>. USE ClaimAssumption DEF CacheInv
<1>1. TypeOK'
  BY DEF Clear, TypeOK, Claim, Caller, Phase, Exit
<1>2. HolderIsLive'
  BY DEF Clear, TypeOK, Claim, Caller, Phase, Exit, HolderIsLive, NoStaleAnswer, AskHasClaim
<1>3. LiveIsHolder'
  BY DEF Clear, TypeOK, Claim, Caller, Phase, Exit, LiveIsHolder, HolderIsLive, NoClaimFromTheFuture, AskHasClaim
<1>4. NoClaimFromTheFuture'
  BY DEF Clear, TypeOK, Claim, Caller, Phase, Exit, NoClaimFromTheFuture
<1>5. AskHasClaim'
  BY DEF Clear, TypeOK, Claim, Caller, Phase, Exit, AskHasClaim
<1>6. ForkerOwnsClaim'
  BY DEF Clear, TypeOK, Claim, Caller, Phase, Exit, ForkerOwnsClaim, AskHasClaim
<1>7. NoStaleAnswer'
  BY DEF Clear, TypeOK, Claim, Caller, Phase, Exit, NoStaleAnswer, HolderIsLive, AskHasClaim
<1>8. OrderIsExact'
  <2>1. Cardinality(DOMAIN [r \in {} |-> NoClaim]) = 0
    BY FS_EmptySet
  <2>2. /\ entries' = [r \in {} |-> NoClaim]
        /\ insertionOrder' = <<>>
    BY DEF Clear
  <2>3. Range(<<>>) = {} /\ Len(<<>>) = 0
    BY DEF Range
  <2>. QED  BY <2>1, <2>2, <2>3, CapacityAssumption DEF OrderIsExact, bounded
<1>. QED  BY <1>1, <1>2, <1>3, <1>4, <1>5, <1>6, <1>7, <1>8

LEMMA NextStep == CacheInv /\ [Next]_vars => CacheInv'
<1>. SUFFICES ASSUME CacheInv, [Next]_vars  PROVE CacheInv'
  OBVIOUS
<1>1. ASSUME NEW c \in Callers, CallerStep(c)  PROVE CacheInv'
  BY <1>1, HitStep, JoinStep, NewClaimStep, ForkStep, ResumeStep, InterruptStep, LeaveStep
     DEF CallerStep
<1>2. ASSUME NEW k \in Claims, ComputeStep(k)  PROVE CacheInv'
  BY <1>2, BeginStep, BeginShieldStep, EndShieldStep, ComputeExitsStep, StoreStep, ReleaseStep, CompleteStep
     DEF ComputeStep
<1>3. CASE Clear
  BY <1>3, ClearStep
<1>4. CASE UNCHANGED vars
  BY <1>4 DEF vars, CacheInv, TypeOK, HolderIsLive, LiveIsHolder, NoClaimFromTheFuture,
              AskHasClaim, ForkerOwnsClaim, NoStaleAnswer, OrderIsExact
<1>. QED  BY <1>1, <1>2, <1>3, <1>4 DEF Next

THEOREM CacheInvariant == Spec => []CacheInv
<1>1. Init => CacheInv
  BY InitInv
<1>2. CacheInv /\ [Next]_vars => CacheInv'
  BY NextStep
<1>. QED  BY <1>1, <1>2, PTL DEF Spec

(* Every state is well typed: in particular the eviction loop always finds *)
(* a key to evict.                                                         *)
THEOREM TypesHold == Spec => []TypeOK
<1>1. CacheInv => TypeOK
  BY DEF CacheInv
<1>. QED  BY <1>1, CacheInvariant, PTL

(* "Chunk.size(insertionOrder) === HashMap.size(entries) always", and the  *)
(* capacity is respected.                                                  *)
THEOREM OrderAlwaysMatches == Spec => []OrderMatchesEntries
<1>1. ASSUME CacheInv  PROVE OrderMatchesEntries
  <2>1. CASE bounded
    <3>. DEFINE n == Len(insertionOrder)
    <3>1. n \in Nat /\ DOMAIN insertionOrder = 1..n
      BY <1>1, LenProperties DEF CacheInv, TypeOK
    <3>2. /\ \A i, j \in 1..n : insertionOrder[i] = insertionOrder[j] => i = j
          /\ Range(insertionOrder) = DOMAIN entries
          /\ Cardinality(DOMAIN entries) <= Capacity
      BY <1>1, <2>1 DEF CacheInv, OrderIsExact
    <3>3. insertionOrder \in Bijection(1..n, DOMAIN entries)
      <4>1. insertionOrder \in [1..n -> DOMAIN entries]
        BY <1>1, <3>1, <3>2, LenProperties DEF CacheInv, TypeOK, Range
      <4>2. \A q \in DOMAIN entries : \E i \in 1..n : insertionOrder[i] = q
        BY <3>1, <3>2 DEF Range
      <4>. QED  BY <3>2, <4>1, <4>2 DEF Bijection, Injection, IsInjective, Surjection
    <3>4. Cardinality(DOMAIN entries) = n
      BY <3>1, <3>3, FS_CountingElements DEF ExistsBijection
    <3>. QED  BY <2>1, <3>2, <3>4 DEF OrderMatchesEntries
  <2>2. CASE ~bounded
    BY <1>1, <2>2 DEF CacheInv, OrderIsExact, OrderMatchesEntries
  <2>. QED  BY <2>1, <2>2
<1>. QED  BY <1>1, CacheInvariant, PTL

(* A clear is a fence: no answer from before it reaches an ask after it.   *)
THEOREM ClearIsAFence == Spec => []NoStaleAnswer
<1>1. CacheInv => NoStaleAnswer
  BY DEF CacheInv
<1>. QED  BY <1>1, CacheInvariant, PTL

(* One evaluation per question between two clears, and none of a question  *)
(* the table already answers.                                              *)
THEOREM SingleFlight == Spec => []OneComputePerQuestion
<1>1. CacheInv => OneComputePerQuestion
  BY DEF CacheInv, LiveIsHolder, OneComputePerQuestion, Computing
<1>. QED  BY <1>1, CacheInvariant, PTL

(* No ask joins a claim that has already answered.                         *)
THEOREM CompletedAreReleased == Spec => []CompletedIsReleased
<1>1. CacheInv => CompletedIsReleased
  BY DEF CacheInv, HolderIsLive, CompletedIsReleased
<1>. QED  BY <1>1, CacheInvariant, PTL

(* A cached answer never changes in place.                                 *)
THEOREM AnswersArePermanent == Spec => AnswerNeverReplaced
<1>1. ASSUME CacheInv, [Next]_vars
      PROVE  [\A q \in DOMAIN entries \cap DOMAIN entries' : entries'[q] = entries[q]]_vars
  <2>1. ASSUME NEW k \in Claims, Store(k)
        PROVE  \A q \in DOMAIN entries \cap DOMAIN entries' : entries'[q] = entries[q]
    <3>1. CASE Kept(k)
      <4>1. claims[k].question \notin DOMAIN entries
        BY <1>1, <2>1, <3>1 DEF Store, Kept, CacheInv, LiveIsHolder
      <4>2. \A q \in DOMAIN entries : WithAnswer(claims[k].question, k)[q] = entries[q]
        BY <4>1 DEF WithAnswer
      <4>. QED  BY <2>1, <3>1, <4>2 DEF Store, StoreAnswer, Without, Restrict
    <3>2. CASE ~Kept(k)
      BY <2>1, <3>2 DEF Store
    <3>. QED  BY <3>1, <3>2
  <2>2. CASE Clear
    BY <2>2 DEF Clear
  <2>3. ASSUME NEW c \in Callers, CallerStep(c)  PROVE entries' = entries
    BY <2>3 DEF CallerStep, Hit, Join, NewClaim, Fork, Resume, Interrupt, Leave
  <2>4. ASSUME NEW k \in Claims, ComputeStep(k), ~Store(k)  PROVE entries' = entries
    BY <2>4 DEF ComputeStep, Begin, BeginShield, EndShield, ComputeExits, Release, Complete
  <2>5. CASE UNCHANGED vars
    BY <2>5
  <2>. QED  BY <1>1, <2>1, <2>2, <2>3, <2>4, <2>5 DEF Next
<1>. QED  BY <1>1, CacheInvariant, PTL DEF Spec, AnswerNeverReplaced

----------------------------------------------------------------------------
(* Counting the waiters.  A claim still to be forked has its forker, who   *)
(* cannot be interrupted; so the last waiter to leave never leaves behind  *)
(* a claim without a fiber.                                                *)
UnforkedHasForker ==
    \A k \in Claims : claims[k].phase = "unforked" =>
        \E c \in Callers : callers[c].pc = "forking" /\ callers[c].claim = k

WaiterInv == WaitersAreCounted /\ UnforkedHasForker

LEMMA AttachedIsFinite ==
    ASSUME NEW k
    PROVE  IsFiniteSet(Attached(k)) /\ Cardinality(Attached(k)) \in Nat
BY SetsAssumption, FS_Subset, FS_CardinalityType DEF Attached

(* The fields WaiterInv reads of a claim.                                  *)
SameCount(k) ==
    /\ claims'[k].phase = claims[k].phase
    /\ claims'[k].waiters = claims[k].waiters
    /\ claims'[k].interrupting = claims[k].interrupting
    /\ Attached(k)' = Attached(k)

LEMMA SameCountStep ==
    ASSUME WaiterInv, NEW k \in Claims, SameCount(k)
    PROVE  claims'[k].phase # "done" =>
             /\ claims'[k].waiters = Cardinality(Attached(k)')
             /\ claims'[k].waiters = 0 =>
                  claims'[k].interrupting \/ claims'[k].phase \in Over
BY DEF WaiterInv, WaitersAreCounted, SameCount

LEMMA WaiterInit == Init => WaiterInv
<1>. SUFFICES ASSUME Init  PROVE WaiterInv
  OBVIOUS
<1>1. \A k \in Claims : claims[k].phase = "done"
  BY DEF Init, Unused
<1>. QED  BY <1>1 DEF WaiterInv, WaitersAreCounted, UnforkedHasForker

LEMMA WaiterJoin ==
    ASSUME CacheInv, WaiterInv, NEW c \in Callers, NEW q \in Questions, Join(c, q)
    PROVE  WaiterInv'
<1>. SUFFICES ASSUME NEW k \in Claims, k = inFlight[q]  PROVE WaiterInv'
  BY DEF Join, CacheInv, TypeOK
<1>1. k \in Claims /\ claims[k] \in Claim /\ claims[k].phase # "done" /\ callers[c] \in Caller
  BY DEF Join, CacheInv, TypeOK, HolderIsLive
<1>2. claims' = [claims EXCEPT ![k].waiters = @ + 1]
  BY DEF Join
<1>3. /\ c \notin Attached(k) /\ Attached(k)' = Attached(k) \cup {c}
      /\ \A l \in Claims \ {k} : Attached(l)' = Attached(l)
  BY <1>1 DEF Join, Asking, MayAsk, Attached, CacheInv, TypeOK, Caller
<1>4. Cardinality(Attached(k)') = Cardinality(Attached(k)) + 1
  BY <1>3, AttachedIsFinite, FS_AddElement
<1>5. claims'[k].waiters = Cardinality(Attached(k)') /\ claims'[k].waiters # 0
  <2>1. claims[k].waiters = Cardinality(Attached(k)) /\ Cardinality(Attached(k)) \in Nat
    BY <1>1, AttachedIsFinite DEF WaiterInv, WaitersAreCounted
  <2>2. claims'[k].waiters = claims[k].waiters + 1
    BY <1>1, <1>2 DEF CacheInv, TypeOK, Claim
  <2>. QED  BY <1>4, <2>1, <2>2
<1>6. \A l \in Claims \ {k} : SameCount(l)
  BY <1>1, <1>2, <1>3 DEF SameCount, CacheInv, TypeOK
<1>7. WaitersAreCounted'
  BY <1>1, <1>5, <1>6, SameCountStep DEF WaitersAreCounted
<1>8. UnforkedHasForker'
  <2>1. \A l \in Claims : claims'[l].phase = claims[l].phase
    BY <1>1, <1>2 DEF CacheInv, TypeOK, Claim
  <2>2. \A d \in Callers : callers[d].pc = "forking" => callers'[d] = callers[d]
    BY DEF Join, Asking, MayAsk, CacheInv, TypeOK
  <2>. QED  BY <2>1, <2>2 DEF UnforkedHasForker, WaiterInv
<1>. QED  BY <1>7, <1>8 DEF WaiterInv

LEMMA WaiterNewClaim ==
    ASSUME CacheInv, WaiterInv, NEW c \in Callers, NEW q \in Questions, NEW k \in Claims,
           NewClaim(c, q, k)
    PROVE  WaiterInv'
<1>1. /\ callers'[c].pc = "forking" /\ callers'[c].claim = k
      /\ \A d \in Callers \ {c} : callers'[d] = callers[d] /\ callers[d].claim # k
      /\ callers[c].pc \in {"idle", "returned"}
  BY DEF NewClaim, Asking, MayAsk, Garbage, CacheInv, TypeOK
<1>2. /\ claims'[k].phase = "unforked" /\ claims'[k].waiters = 1
      /\ \A l \in Claims \ {k} : claims'[l] = claims[l]
  BY DEF NewClaim, CacheInv, TypeOK
<1>3. Attached(k)' = {c} /\ \A l \in Claims \ {k} : Attached(l)' = Attached(l)
  BY <1>1 DEF Attached
<1>4. Cardinality(Attached(k)') = 1
  BY <1>3, FS_Singleton
<1>5. \A l \in Claims \ {k} : SameCount(l)
  BY <1>2, <1>3 DEF SameCount
<1>6. WaitersAreCounted'
  BY <1>2, <1>4, <1>5, SameCountStep DEF WaitersAreCounted
<1>7. UnforkedHasForker'
  BY <1>1, <1>2 DEF UnforkedHasForker, WaiterInv
<1>. QED  BY <1>6, <1>7 DEF WaiterInv

LEMMA WaiterInterrupt ==
    ASSUME CacheInv, WaiterInv, NEW c \in Callers, Interrupt(c)
    PROVE  WaiterInv'
<1>0. callers[c].claim \in Claims
  BY ClaimAssumption DEF Interrupt, CacheInv, AskHasClaim, TypeOK, Caller
<1>. SUFFICES ASSUME NEW k \in Claims, k = callers[c].claim  PROVE WaiterInv'
  BY <1>0
<1>. DEFINE last == claims[k].waiters - 1 = 0
<1>1. claims[k] \in Claim /\ callers[c].pc = "waiting"
  BY ClaimAssumption DEF Interrupt, CacheInv, AskHasClaim, TypeOK, Caller
<1>2. /\ callers'[c].pc \in {"leaving", "returned"}
      /\ \A d \in Callers \ {c} : callers'[d] = callers[d]
  BY DEF Interrupt, Resting, CacheInv, TypeOK, Caller
<1>3. /\ c \in Attached(k) /\ Attached(k)' = Attached(k) \ {c}
      /\ \A l \in Claims \ {k} : Attached(l)' = Attached(l)
  BY <1>1, <1>2 DEF Attached
<1>4. Cardinality(Attached(k)') = Cardinality(Attached(k)) - 1
  <2>1. Cardinality(Attached(k) \ {c}) = Cardinality(Attached(k)) - 1
    BY <1>3, AttachedIsFinite, FS_RemoveElement
  <2>. QED  BY <1>3, <2>1
<1>5. /\ \A l \in Claims \ {k} : claims'[l] = claims[l]
      /\ claims'[k].waiters = IF last THEN 0 ELSE claims[k].waiters - 1
      /\ last /\ claims[k].phase = "running" => claims'[k].phase = "done"
      /\ last /\ claims[k].phase = "forked" => claims'[k].phase = "dead"
      /\ ~last \/ claims[k].phase \notin {"running", "forked"} =>
           claims'[k].phase = claims[k].phase
      /\ last /\ claims[k].phase = "shielded" => claims'[k].interrupting
  <2>1. CASE ~last
    <3>1. claims' = [claims EXCEPT ![k].waiters = @ - 1]
      BY <2>1 DEF Interrupt
    <3>. QED  BY <2>1, <1>1, <3>1 DEF CacheInv, TypeOK, Claim
  <2>2. CASE last /\ claims[k].phase = "running"
    <3>1. claims' = [claims EXCEPT ![k] =
            [@ EXCEPT !.waiters = 0, !.phase = "done", !.exit = "interruption"]]
      BY <2>2, <1>1 DEF Interrupt, AbandonCompute
    <3>. QED  BY <2>2, <1>1, <3>1 DEF CacheInv, TypeOK, Claim
  <2>3. CASE last /\ claims[k].phase = "shielded"
    <3>1. claims' = [claims EXCEPT ![k] = [@ EXCEPT !.waiters = 0, !.interrupting = TRUE]]
      BY <2>3, <1>1 DEF Interrupt, AbandonCompute
    <3>. QED  BY <2>3, <1>1, <3>1 DEF CacheInv, TypeOK, Claim
  <2>5. CASE last /\ claims[k].phase = "forked"
    <3>1. claims' = [claims EXCEPT ![k] = [@ EXCEPT !.waiters = 0, !.phase = "dead"]]
      BY <2>5, <1>1 DEF Interrupt, AbandonCompute
    <3>. QED  BY <2>5, <1>1, <3>1 DEF CacheInv, TypeOK, Claim
  <2>4. CASE last /\ claims[k].phase \notin {"running", "shielded", "forked"}
    <3>1. claims' = [claims EXCEPT ![k].waiters = 0]
      BY <2>4, <1>1 DEF Interrupt, AbandonCompute
    <3>. QED  BY <2>4, <1>1, <3>1 DEF CacheInv, TypeOK, Claim
  <2>. QED  BY <2>1, <2>2, <2>3, <2>4, <2>5
<1>6. ASSUME claims[k].phase = "unforked"  PROVE ~last
  <2>1. PICK d \in Callers : callers[d].pc = "forking" /\ callers[d].claim = k
    BY <1>1, <1>6 DEF WaiterInv, UnforkedHasForker
  <2>2. d \in Attached(k)' /\ IsFiniteSet(Attached(k)')
    <3>1. d \in Attached(k) /\ d # c
      BY <1>1, <2>1 DEF Attached
    <3>2. IsFiniteSet(Attached(k) \ {c})
      BY AttachedIsFinite, FS_RemoveElement
    <3>. QED  BY <1>3, <3>1, <3>2
  <2>3. Cardinality(Attached(k)') # 0
    BY <2>2, FS_EmptySet
  <2>. QED  BY <1>1, <1>4, <1>6, <2>3 DEF WaiterInv, WaitersAreCounted
<1>7. \A l \in Claims \ {k} : SameCount(l)
  BY <1>3, <1>5 DEF SameCount
<1>8. claims'[k].phase # "done" =>
        /\ claims'[k].waiters = Cardinality(Attached(k)')
        /\ claims'[k].waiters = 0 =>
             claims'[k].interrupting \/ claims'[k].phase \in Over
  <2>. SUFFICES ASSUME claims'[k].phase # "done"
                PROVE  /\ claims'[k].waiters = Cardinality(Attached(k)')
                       /\ claims'[k].waiters = 0 =>
                            claims'[k].interrupting \/ claims'[k].phase \in Over
    OBVIOUS
  <2>1. claims[k].phase # "done" /\ claims[k].waiters = Cardinality(Attached(k))
    BY <1>1, <1>5 DEF WaiterInv, WaitersAreCounted
  <2>2. claims'[k].waiters = Cardinality(Attached(k)')
    BY <1>4, <1>5, <2>1, AttachedIsFinite
  <2>3. claims'[k].waiters = 0 => last
    BY <1>1, <1>5 DEF Claim
  <2>4. last => claims[k].phase \in {"shielded", "forked"} \cup Over
    BY <1>1, <1>5, <1>6, <2>1 DEF Claim, Phase, Over
  <2>. QED  BY <1>5, <2>2, <2>3, <2>4 DEF Over
<1>9. WaitersAreCounted'
  BY <1>7, <1>8, SameCountStep DEF WaitersAreCounted
<1>10. UnforkedHasForker'
  BY <1>1, <1>2, <1>5 DEF UnforkedHasForker, WaiterInv
<1>. HIDE DEF last
<1>. QED  BY <1>9, <1>10 DEF WaiterInv

LEMMA WaiterOther ==
    ASSUME CacheInv, WaiterInv,
           \/ \E c \in Callers : \/ \E q \in Questions : Hit(c, q)
                                \/ Fork(c) \/ Resume(c) \/ Leave(c)
           \/ \E k \in Claims : ComputeStep(k)
           \/ Clear
           \/ UNCHANGED vars
    PROVE  WaiterInv'
<1>1. ASSUME NEW c \in Callers, NEW q \in Questions, Hit(c, q)  PROVE WaiterInv'
  <2>1. claims' = claims /\ \A k \in Claims : Attached(k)' = Attached(k)
    BY <1>1 DEF Hit, Asking, MayAsk, Attached, CacheInv, TypeOK
  <2>2. \A d \in Callers : callers[d].pc = "forking" => callers'[d] = callers[d]
    BY <1>1 DEF Hit, Asking, MayAsk, CacheInv, TypeOK
  <2>3. \A k \in Claims : SameCount(k)
    BY <2>1 DEF SameCount
  <2>. QED  BY <2>1, <2>2, <2>3, SameCountStep DEF WaiterInv, WaitersAreCounted, UnforkedHasForker
<1>2. ASSUME NEW c \in Callers, Fork(c)  PROVE WaiterInv'
  <2>. DEFINE k == callers[c].claim
  <2>1. k \in Claims /\ claims[k] \in Claim /\ claims[k].phase = "unforked"
    BY <1>2, ClaimAssumption DEF Fork, CacheInv, AskHasClaim, ForkerOwnsClaim, TypeOK, Caller
  <2>2. \A l \in Claims : Attached(l)' = Attached(l)
    BY <1>2 DEF Fork, Attached, CacheInv, TypeOK, Caller
  <2>3. /\ claims'[k].waiters = claims[k].waiters /\ claims'[k].phase = "forked"
        /\ claims'[k].interrupting = claims[k].interrupting
        /\ \A l \in Claims \ {k} : claims'[l] = claims[l]
    BY <1>2, <2>1 DEF Fork, CacheInv, TypeOK, Claim
  <2>4. \A l \in Claims \ {k} : SameCount(l)
    BY <2>2, <2>3 DEF SameCount
  <2>5. WaitersAreCounted'
    BY <2>1, <2>2, <2>3, <2>4, SameCountStep DEF WaitersAreCounted, WaiterInv, Over
  <2>6. \A d \in Callers \ {c} : callers'[d] = callers[d]
    BY <1>2 DEF Fork, CacheInv, TypeOK
  <2>7. UnforkedHasForker'
    BY <2>1, <2>3, <2>6 DEF WaiterInv, UnforkedHasForker
  <2>. QED  BY <2>5, <2>7 DEF WaiterInv
<1>3. ASSUME NEW c \in Callers, Resume(c)  PROVE WaiterInv'
  <2>. DEFINE k == callers[c].claim
  <2>1. k \in Claims /\ claims[k] \in Claim /\ claims[k].phase = "done"
    BY <1>3, ClaimAssumption DEF Resume, CacheInv, AskHasClaim, TypeOK, Caller
  <2>2. \A d \in Callers \ {c} : callers'[d] = callers[d]
    BY <1>3 DEF Resume, CacheInv, TypeOK
  <2>3. callers[c].pc = "waiting" /\ callers'[c].pc = "returned"
    BY <1>3 DEF Resume, Resting, CacheInv, TypeOK, Caller
  <2>4. /\ claims'[k].phase = "done"
        /\ \A l \in Claims \ {k} : claims'[l] = claims[l]
    BY <1>3, <2>1 DEF Resume, CacheInv, TypeOK, Claim
  <2>5. \A l \in Claims \ {k} : Attached(l)' = Attached(l)
    BY <2>2, <2>3 DEF Attached
  <2>6. \A l \in Claims \ {k} : SameCount(l)
    BY <2>4, <2>5 DEF SameCount
  <2>7. WaitersAreCounted'
    BY <2>4, <2>6, SameCountStep DEF WaitersAreCounted
  <2>8. UnforkedHasForker'
    BY <2>2, <2>3, <2>4 DEF WaiterInv, UnforkedHasForker
  <2>. QED  BY <2>7, <2>8 DEF WaiterInv
<1>4. ASSUME NEW c \in Callers, Leave(c)  PROVE WaiterInv'
  <2>1. claims' = claims /\ \A k \in Claims : Attached(k)' = Attached(k)
    BY <1>4 DEF Leave, Resting, Attached, CacheInv, TypeOK, Caller
  <2>2. \A d \in Callers : callers[d].pc = "forking" => callers'[d] = callers[d]
    BY <1>4 DEF Leave, CacheInv, TypeOK
  <2>3. \A k \in Claims : SameCount(k)
    BY <2>1 DEF SameCount
  <2>. QED  BY <2>1, <2>2, <2>3, SameCountStep DEF WaiterInv, WaitersAreCounted, UnforkedHasForker
<1>5. ASSUME NEW k \in Claims, ComputeStep(k)  PROVE WaiterInv'
  <2>1. claims[k] \in Claim /\ callers' = callers /\ \A l : Attached(l)' = Attached(l)
    BY <1>5 DEF ComputeStep, Begin, BeginShield, EndShield, ComputeExits, Store, Release, Complete,
                Attached, CacheInv, TypeOK
  <2>2. \A l \in Claims \ {k} : claims'[l] = claims[l]
    BY <1>5 DEF ComputeStep, Begin, BeginShield, EndShield, ComputeExits, Store, Release, Complete,
                CacheInv, TypeOK
  <2>3. claims[k].phase \notin {"unforked", "done"}
    BY <1>5 DEF ComputeStep, Begin, BeginShield, EndShield, ComputeExits, Store, Release, Complete
  <2>. DEFINE Moved ==
        /\ claims'[k].waiters = claims[k].waiters
        /\ claims'[k].interrupting = claims[k].interrupting
        /\ claims'[k].phase # "unforked"
        /\ claims'[k].phase = "running" =>
             \/ claims[k].phase = "shielded" /\ ~claims[k].interrupting
             \/ claims[k].phase = "forked"
        /\ claims'[k].phase = "shielded" => claims[k].phase = "running"
        /\ claims'[k].phase \in {"running", "shielded", "exited", "stored", "released", "done"}
  <2>4. Moved
    <3>1. CASE EndShield(k)
      <4>1. CASE claims[k].interrupting
        BY <2>1, <3>1, <4>1 DEF EndShield, CacheInv, TypeOK, Claim
      <4>2. CASE ~claims[k].interrupting
        BY <2>1, <3>1, <4>2 DEF EndShield, CacheInv, TypeOK, Claim
      <4>. QED  BY <4>1, <4>2
    <3>2. ASSUME NEW exit \in {"success", "failure"}, ComputeExits(k, exit)
          PROVE  Moved
      BY <2>1, <3>2 DEF ComputeExits, CacheInv, TypeOK, Claim
    <3>4. CASE Begin(k) \/ BeginShield(k)
      BY <2>1, <3>4 DEF Begin, BeginShield, CacheInv, TypeOK, Claim
    <3>3. CASE Store(k) \/ Release(k) \/ Complete(k)
      BY <2>1, <3>3 DEF Store, Release, Complete, CacheInv, TypeOK, Claim
    <3>. QED  BY <1>5, <3>1, <3>2, <3>3, <3>4 DEF ComputeStep
  <2>5. \A l \in Claims \ {k} : SameCount(l)
    BY <2>1, <2>2 DEF SameCount
  <2>6. claims[k].waiters = Cardinality(Attached(k))
    BY <2>3 DEF WaiterInv, WaitersAreCounted
  <2>7. claims[k].waiters = 0 =>
          claims[k].interrupting \/ claims[k].phase \in Over
    BY <2>3 DEF WaiterInv, WaitersAreCounted
  <2>8. WaitersAreCounted'
    BY <2>1, <2>4, <2>5, <2>6, <2>7, SameCountStep DEF WaitersAreCounted, Over
  <2>9. UnforkedHasForker'
    BY <2>1, <2>2, <2>4 DEF WaiterInv, UnforkedHasForker
  <2>. QED  BY <2>8, <2>9 DEF WaiterInv
<1>6. CASE Clear
  BY <1>6 DEF Clear, WaiterInv, WaitersAreCounted, UnforkedHasForker, Attached
<1>7. CASE UNCHANGED vars
  BY <1>7 DEF vars, WaiterInv, WaitersAreCounted, UnforkedHasForker, Attached
<1>. QED  BY <1>1, <1>2, <1>3, <1>4, <1>5, <1>6, <1>7

(* waiters counts the attached callers, so the evaluation nobody waits for *)
(* is always interrupted and one somebody waits for is not.                *)
THEOREM WaitersAlwaysCounted == Spec => []WaitersAreCounted
<1>1. Init => WaiterInv
  BY WaiterInit
<1>2. CacheInv /\ WaiterInv /\ [Next]_vars => WaiterInv'
  BY WaiterJoin, WaiterNewClaim, WaiterInterrupt, WaiterOther DEF Next, CallerStep
<1>3. WaiterInv => WaitersAreCounted
  BY DEF WaiterInv
<1>. QED  BY <1>1, <1>2, <1>3, CacheInvariant, PTL DEF Spec

(* The tables agree in every reachable state, for any capacity and any     *)
(* finite set of callers.  (DecisionCache.ts:355, 498-541)                 *)
THEOREM TablesAlwaysAgree == Spec => []TablesAgree
<1>1. OrderMatchesEntries /\ WaitersAreCounted /\ CompletedIsReleased => TablesAgree
  BY DEF TablesAgree
<1>. QED  BY <1>1, OrderAlwaysMatches, WaitersAlwaysCounted, CompletedAreReleased, PTL

----------------------------------------------------------------------------
(* A claim ends interrupted in the step that interrupts it, with nobody    *)
(* attached to it any more; unless the interrupt was recorded while a port *)
(* shielded the compute, when others may still join.                       *)
InterruptedIsDone ==
    \A k \in Claims :
        claims[k].exit = "interruption" /\ ~claims[k].interrupting => claims[k].phase = "done"

WaitersAreWanted ==
    \A c \in Callers :
        /\ callers[c].pc \in {"forking", "waiting"}
        /\ claims[callers[c].claim].exit = "interruption"
        => claims[callers[c].claim].interrupting

InterruptionInv == InterruptedIsDone /\ WaitersAreWanted

(* Nobody else is attached to a claim whose last waiter leaves.            *)
LEMMA LastIsAlone ==
    ASSUME CacheInv, WaiterInv, NEW c \in Callers, callers[c].pc = "waiting",
           claims[callers[c].claim].phase # "done", claims[callers[c].claim].waiters - 1 = 0
    PROVE  \A d \in Callers \ {c} :
             callers[d].pc \in {"forking", "waiting"} => callers[d].claim # callers[c].claim
<1>. DEFINE k == callers[c].claim
<1>1. k \in Claims /\ claims[k] \in Claim
  BY ClaimAssumption DEF CacheInv, AskHasClaim, TypeOK, Caller
<1>2. Cardinality(Attached(k)) = 1
  BY <1>1 DEF WaiterInv, WaitersAreCounted, Claim
<1>3. c \in Attached(k)
  BY DEF Attached
<1>4. Cardinality(Attached(k) \ {c}) = 0 /\ IsFiniteSet(Attached(k) \ {c})
  BY <1>2, <1>3, AttachedIsFinite, FS_RemoveElement
<1>5. Attached(k) \ {c} = {}
  BY <1>4, FS_EmptySet
<1>. QED  BY <1>5 DEF Attached

LEMMA AskersClaimIsOne ==
    ASSUME CacheInv
    PROVE  \A d \in Callers : callers[d].pc \in {"forking", "waiting", "leaving"} =>
               callers[d].claim \in Claims /\ claims[callers[d].claim] \in Claim
BY ClaimAssumption DEF CacheInv, AskHasClaim, TypeOK, Caller

LEMMA InterruptionInit == Init => InterruptionInv
BY DEF Init, InterruptionInv, InterruptedIsDone, WaitersAreWanted, Unused, Resting

(* What InterruptionInv reads of a claim.                                  *)
SameEnd(k) ==
    /\ claims'[k].phase = claims[k].phase
    /\ claims'[k].exit = claims[k].exit
    /\ claims'[k].interrupting = claims[k].interrupting

LEMMA InterruptionStep ==
    ASSUME CacheInv, WaiterInv, InterruptionInv, [Next]_vars
    PROVE  InterruptionInv'
<1>. USE DEF InterruptionInv
<1>. DEFINE Goal == InterruptionInv'
<1>0. \A d \in Callers : callers[d].pc \in {"forking", "waiting"} => callers[d].claim \in Claims
  BY AskersClaimIsOne
<1>1. ASSUME NEW c \in Callers, NEW q \in Questions, Hit(c, q) \/ Join(c, q)  PROVE Goal
  <2>1. \A k \in Claims : SameEnd(k)
    <3>1. CASE Hit(c, q)  BY <3>1 DEF Hit, SameEnd
    <3>2. CASE Join(c, q)
      <4>1. inFlight[q] \in Claims /\ claims[inFlight[q]] \in Claim
        BY <3>2 DEF Join, CacheInv, TypeOK
      <4>2. claims' = [claims EXCEPT ![inFlight[q]].waiters = @ + 1]
        BY <3>2 DEF Join
      <4>. QED  BY <4>1, <4>2 DEF CacheInv, TypeOK, Claim, SameEnd
    <3>. QED  BY <1>1, <3>1, <3>2
  <2>2. \A d \in Callers \ {c} : callers'[d] = callers[d]
    BY <1>1 DEF Hit, Join, Asking, CacheInv, TypeOK
  <2>3. callers'[c].pc \in {"forking", "waiting"} =>
          callers'[c].claim \in Claims /\ claims[callers'[c].claim].phase # "done"
    <3>1. CASE Hit(c, q)  BY <3>1 DEF Hit, Asking, CacheInv, TypeOK
    <3>2. CASE Join(c, q)
      <4>1. callers'[c].claim = inFlight[q] /\ inFlight[q] \in Claims
        BY <3>2 DEF Join, Asking, CacheInv, TypeOK
      <4>2. claims[inFlight[q]].phase # "done"
        BY <3>2 DEF Join, CacheInv, HolderIsLive
      <4>. QED  BY <4>1, <4>2
    <3>. QED  BY <1>1, <3>1, <3>2
  <2>. QED  BY <1>0, <2>1, <2>2, <2>3 DEF InterruptedIsDone, WaitersAreWanted, SameEnd
<1>2. ASSUME NEW c \in Callers, NEW q \in Questions, NEW k \in Claims, NewClaim(c, q, k)  PROVE Goal
  <2>1. /\ \A l \in Claims \ {k} : claims'[l] = claims[l]
        /\ claims'[k].exit = "nothing"
    BY <1>2 DEF NewClaim, CacheInv, TypeOK
  <2>2. /\ \A d \in Callers \ {c} : callers'[d] = callers[d] /\ callers[d].claim # k
        /\ callers'[c].claim = k
    BY <1>2 DEF NewClaim, Garbage, Asking, CacheInv, TypeOK
  <2>. QED  BY <1>0, <2>1, <2>2 DEF InterruptedIsDone, WaitersAreWanted
<1>3. ASSUME NEW c \in Callers, Fork(c)  PROVE Goal
  <2>. DEFINE k == callers[c].claim
  <2>1. k \in Claims /\ claims[k] \in Claim
    BY <1>3, AskersClaimIsOne DEF Fork
  <2>2. claims[k].exit = "interruption" => claims[k].interrupting
    BY <1>3 DEF Fork, WaitersAreWanted
  <2>3. /\ \A l \in Claims : /\ claims'[l].exit = claims[l].exit
                            /\ claims'[l].interrupting = claims[l].interrupting
        /\ \A l \in Claims \ {k} : claims'[l] = claims[l]
    BY <1>3, <2>1 DEF Fork, CacheInv, TypeOK, Claim
  <2>4. /\ \A d \in Callers \ {c} : callers'[d] = callers[d]
        /\ callers'[c].claim = k /\ callers[c].pc = "forking"
    BY <1>3 DEF Fork, CacheInv, TypeOK, Caller
  <2>5. WaitersAreWanted'
    BY <1>0, <2>1, <2>2, <2>3, <2>4 DEF WaitersAreWanted
  <2>6. InterruptedIsDone'
    BY <2>1, <2>2, <2>3 DEF InterruptedIsDone
  <2>. QED  BY <2>5, <2>6
<1>4. ASSUME NEW c \in Callers, Resume(c)  PROVE Goal
  <2>1. callers[c].claim \in Claims /\ claims[callers[c].claim] \in Claim
    BY <1>4, AskersClaimIsOne DEF Resume
  <2>2. \A k \in Claims : SameEnd(k)
    BY <1>4, <2>1 DEF Resume, SameEnd, CacheInv, TypeOK, Claim
  <2>3. /\ \A d \in Callers \ {c} : callers'[d] = callers[d]
        /\ callers'[c].pc = "returned"
    BY <1>4, <2>1 DEF Resume, Resting, CacheInv, TypeOK, Caller
  <2>. QED  BY <1>0, <2>2, <2>3 DEF InterruptedIsDone, WaitersAreWanted, SameEnd
<1>5. ASSUME NEW c \in Callers, Interrupt(c)  PROVE Goal
  <2>. DEFINE k == callers[c].claim
              last == claims[k].waiters - 1 = 0
              ends == last /\ claims[k].phase = "running"
  <2>1. k \in Claims /\ claims[k] \in Claim /\ callers[c].pc = "waiting"
    BY <1>5, AskersClaimIsOne DEF Interrupt
  <2>2. claims[k].exit = "interruption" => claims[k].interrupting
    BY <2>1 DEF WaitersAreWanted
  <2>3. /\ \A d \in Callers \ {c} : callers'[d] = callers[d]
        /\ callers'[c].pc \in {"leaving", "returned"}
    BY <1>5 DEF Interrupt, Resting, CacheInv, TypeOK, Caller
  <2>4. /\ \A l \in Claims \ {k} : claims'[l] = claims[l]
        /\ claims[k].interrupting => claims'[k].interrupting
        /\ ends => claims'[k].phase = "done"
        /\ ~ends => claims'[k].exit = claims[k].exit
    <3>1. CASE ends
      <4>1. claims' = [claims EXCEPT ![k] =
              [@ EXCEPT !.waiters = 0, !.phase = "done", !.exit = "interruption"]]
        BY <1>5, <3>1 DEF Interrupt, AbandonCompute
      <4>. QED  BY <2>1, <3>1, <4>1 DEF CacheInv, TypeOK, Claim
    <3>2. CASE ~last
      <4>1. claims' = [claims EXCEPT ![k].waiters = @ - 1]
        BY <1>5, <3>2 DEF Interrupt
      <4>. QED  BY <2>1, <3>2, <4>1 DEF CacheInv, TypeOK, Claim
    <3>3. CASE last /\ claims[k].phase = "shielded"
      <4>1. claims' = [claims EXCEPT ![k] = [@ EXCEPT !.waiters = 0, !.interrupting = TRUE]]
        BY <1>5, <3>3 DEF Interrupt, AbandonCompute
      <4>. QED  BY <2>1, <3>3, <4>1 DEF CacheInv, TypeOK, Claim
    <3>4. CASE last /\ claims[k].phase = "forked"
      <4>1. claims' = [claims EXCEPT ![k] = [@ EXCEPT !.waiters = 0, !.phase = "dead"]]
        BY <1>5, <3>4 DEF Interrupt, AbandonCompute
      <4>. QED  BY <2>1, <3>4, <4>1 DEF CacheInv, TypeOK, Claim
    <3>5. CASE last /\ claims[k].phase \notin {"running", "shielded", "forked"}
      <4>1. claims' = [claims EXCEPT ![k].waiters = 0]
        BY <1>5, <3>5 DEF Interrupt, AbandonCompute
      <4>. QED  BY <2>1, <3>5, <4>1 DEF CacheInv, TypeOK, Claim
    <3>. QED  BY <3>1, <3>2, <3>3, <3>4, <3>5
  <2>5. ends => \A d \in Callers \ {c} :
                  callers[d].pc \in {"forking", "waiting"} => callers[d].claim # k
    BY <1>5, LastIsAlone DEF Interrupt
  <2>. HIDE DEF ends, last
  <2>6. InterruptedIsDone'
    BY <2>1, <2>2, <2>4 DEF InterruptedIsDone
  <2>7. WaitersAreWanted'
    BY <1>0, <2>1, <2>2, <2>3, <2>4, <2>5 DEF WaitersAreWanted
  <2>. QED  BY <2>6, <2>7
<1>6. ASSUME NEW c \in Callers, Leave(c)  PROVE Goal
  BY <1>6 DEF Leave, Resting, CacheInv, TypeOK, Caller, InterruptedIsDone, WaitersAreWanted
<1>7. ASSUME NEW k \in Claims, ComputeStep(k)  PROVE Goal
  <2>1. claims[k] \in Claim /\ callers' = callers
    BY <1>7 DEF ComputeStep, Begin, BeginShield, EndShield, ComputeExits, Store, Release, Complete,
                CacheInv, TypeOK
  <2>2. claims[k].phase # "done"
    BY <1>7 DEF ComputeStep, Begin, BeginShield, EndShield, ComputeExits, Store, Release, Complete
  <2>3. claims[k].exit = "interruption" => claims[k].interrupting
    BY <2>2 DEF InterruptedIsDone
  <2>. DEFINE Moves ==
        /\ \A l \in Claims \ {k} : claims'[l] = claims[l]
        /\ claims'[k].interrupting = claims[k].interrupting
        /\ claims'[k].exit = "interruption" => claims[k].interrupting
  <2>4. Moves
    <3>1. ASSUME NEW exit \in {"success", "failure"}, ComputeExits(k, exit)
          PROVE  Moves
      BY <2>1, <3>1 DEF ComputeExits, CacheInv, TypeOK, Claim
    <3>2. CASE Begin(k) \/ BeginShield(k) \/ Store(k) \/ Release(k) \/ Complete(k)
      BY <2>1, <2>3, <3>2 DEF Begin, BeginShield, Store, Release, Complete, CacheInv, TypeOK, Claim
    <3>3. CASE EndShield(k)
      <4>1. CASE claims[k].interrupting
        BY <2>1, <2>3, <3>3, <4>1 DEF EndShield, CacheInv, TypeOK, Claim
      <4>2. CASE ~claims[k].interrupting
        BY <2>1, <2>3, <3>3, <4>2 DEF EndShield, CacheInv, TypeOK, Claim
      <4>. QED  BY <4>1, <4>2
    <3>. QED  BY <1>7, <3>1, <3>2, <3>3 DEF ComputeStep
  <2>. QED  BY <1>0, <2>1, <2>4 DEF InterruptedIsDone, WaitersAreWanted
<1>8. CASE Clear
  BY <1>8 DEF Clear, InterruptedIsDone, WaitersAreWanted
<1>9. CASE UNCHANGED vars
  BY <1>9 DEF vars, InterruptedIsDone, WaitersAreWanted
<1>. HIDE DEF InterruptionInv
<1>. QED  BY <1>1, <1>2, <1>3, <1>4, <1>5, <1>6, <1>7, <1>8, <1>9 DEF Next, CallerStep

(* One caller's interruption is not every caller's, for any callers,       *)
(* questions, claims and capacity, except through an interrupt recorded    *)
(* while a port shielded the compute: whoever joins before it is delivered *)
(* is interrupted by it.  (DecisionCache.ts:327-349, 350-358)              *)
THEOREM OthersAreNotInterrupted == Spec => OnlyTheCancelledAreInterrupted
<1>. DEFINE Ends(c) ==
        callers[c].pc # "returned" /\ callers'[c].pc = "returned"
            /\ callers'[c].got = "interruption"
            => callers'[c].cancelled \/ claims[callers[c].claim].interrupting
<1>1. ASSUME CacheInv, InterruptionInv, [Next]_vars  PROVE \A c \in Callers : Ends(c)
  <2>1. ASSUME NEW c \in Callers, NEW d \in Callers, CallerStep(d)  PROVE Ends(c)
    <3>1. CASE c # d
      <4>1. \E r : callers' = [callers EXCEPT ![d] = r]
        BY <2>1 DEF CallerStep, Hit, Join, NewClaim, Fork, Resume, Interrupt, Leave, Asking
      <4>2. callers'[c] = callers[c]
        BY <1>1, <3>1, <4>1 DEF CacheInv, TypeOK
      <4>. QED  BY <4>2
    <3>2. CASE c = d
      <4>1. ASSUME NEW q \in Questions,
                   Hit(c, q) \/ Join(c, q) \/ \E k \in Claims : NewClaim(c, q, k)
            PROVE  Ends(c)
        BY <1>1, <4>1 DEF Hit, Join, NewClaim, Asking, CacheInv, TypeOK
      <4>2. CASE Fork(c)
        BY <1>1, <4>2 DEF Fork, CacheInv, TypeOK, Caller
      <4>3. CASE Interrupt(c)
        BY <1>1, <4>3 DEF Interrupt, Resting, CacheInv, TypeOK, Caller
      <4>4. CASE Leave(c)
        BY <1>1, <4>4 DEF Leave, Resting, CacheInv, TypeOK, Caller
      <4>5. CASE Resume(c)
        <5>1. callers'[c].got = "interruption" => claims[callers[c].claim].exit = "interruption"
          BY <1>1, <4>5 DEF Resume, Resting, CacheInv, TypeOK, Caller
        <5>2. callers[c].pc = "waiting"
          BY <4>5 DEF Resume
        <5>. QED  BY <1>1, <5>1, <5>2 DEF InterruptionInv, WaitersAreWanted
      <4>. QED  BY <2>1, <3>2, <4>1, <4>2, <4>3, <4>4, <4>5 DEF CallerStep
    <3>. QED  BY <3>1, <3>2
  <2>2. ASSUME NEW c \in Callers, callers' = callers  PROVE Ends(c)
    BY <2>2
  <2>3. CASE \E k \in Claims : ComputeStep(k)
    <3>1. callers' = callers
      BY <2>3 DEF ComputeStep, Begin, BeginShield, EndShield, ComputeExits, Store, Release, Complete
    <3>. QED  BY <2>2, <3>1
  <2>4. CASE Clear \/ UNCHANGED vars
    <3>1. callers' = callers
      BY <2>4 DEF Clear, vars
    <3>. QED  BY <2>2, <3>1
  <2>. QED  BY <1>1, <2>1, <2>3, <2>4 DEF Next
<1>2. CacheInv /\ InterruptionInv /\ [Next]_vars => [\A c \in Callers : Ends(c)]_vars
  BY <1>1
<1>3. Init => WaiterInv /\ InterruptionInv
  BY WaiterInit, InterruptionInit
<1>4. CacheInv /\ WaiterInv /\ [Next]_vars => WaiterInv'
  BY WaiterJoin, WaiterNewClaim, WaiterInterrupt, WaiterOther DEF Next, CallerStep
<1>5. CacheInv /\ WaiterInv /\ InterruptionInv /\ [Next]_vars => InterruptionInv'
  BY InterruptionStep
<1>. QED  BY <1>2, <1>3, <1>4, <1>5, CacheInvariant, PTL DEF Spec, OnlyTheCancelledAreInterrupted

=============================================================================
