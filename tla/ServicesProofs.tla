--------------------------- MODULE ServicesProofs ---------------------------
(***************************************************************************)
(* Proofs about the services of MCServices, for any calls, providers,      *)
(* tasks and jobs: that the breakers of the model's providers and the      *)
(* quota of tokens hold, and that reminders repeat only by overlap.        *)
(***************************************************************************)
EXTENDS MCServices, FiniteSetTheorems, WellFoundedInduction, TLAPS
-----------------------------------------------------------------------------
(* Numbers.                                                                *)

(* A nonempty set of naturals has a least member, which Min chooses.       *)
LEMMA MinOfNats ==
    ASSUME NEW S \in SUBSET Nat, S # {}
    PROVE  Min(S) \in S /\ \A y \in S : Min(S) <= y
  <1> DEFINE Less == {xy \in Nat \X Nat : xy[1] < xy[2]}
  <1>1. IsWellFoundedOn(Less, Nat)
    BY NatLessThanWellFounded, Zenon DEF OpToRel
  <1>2. \E x \in S : \A y \in S : ~(<<y, x>> \in Less)
    <2> HIDE DEF Less
    <2> QED
      BY <1>1, WFMin, Zenon
  <1>3. PICK x \in S : \A y \in S : ~(<<y, x>> \in Less)
    BY <1>2
  <1>4. \A y \in S : x <= y
    <2> SUFFICES ASSUME NEW y \in S, y < x PROVE FALSE
      OBVIOUS
    <2>1. <<y, x>> \in Less
      OBVIOUS
    <2>2. QED
      BY <1>3, <2>1
  <1>5. QED
    BY <1>4 DEF Min

LEMMA MinOfTwo ==
    ASSUME NEW a \in Nat, NEW b \in Nat
    PROVE  Min({a, b}) = IF a <= b THEN a ELSE b
  <1>1. Min({a, b}) \in {a, b} /\ \A y \in {a, b} : Min({a, b}) <= y
    BY MinOfNats
  <1>2. QED
    BY <1>1
-----------------------------------------------------------------------------
(* The routing of model calls: the inductive invariant.                    *)

(* The answers that the calls under way may still add: each at most one of *)
(* every candidate it has not gone past.                                   *)
Awaited == {x \in Call \X Able : call[x[1]].pc \in Asked /\ call[x[1]].at <= x[2]}

(* What is used and what may still be keeps within the bound: a call is    *)
(* let in only below the limit.                                            *)
QuotaKept ==
    \/ Limit = 0 /\ usage = 0 /\ Awaited = {}
    \/ Limit > 0 /\ usage + Cardinality(Awaited) <= Limit - 1 + Cardinality(Call) * Cardinality(Able)

RoutingInv == TypeOK /\ StateMatchesCount /\ QuotaKept
-----------------------------------------------------------------------------
LEMMA AbleFacts ==
    /\ Able \subseteq 1 .. Len(Candidates) /\ IsFiniteSet(Able)
    /\ Len(Candidates) \in Nat
    /\ \A i \in 1 .. Len(Candidates) : Candidates[i] \in Provider
  <1>1. Able \subseteq 1 .. Len(Candidates) /\ Len(Candidates) \in Nat
        /\ \A i \in 1 .. Len(Candidates) : Candidates[i] \in Provider
    BY RoutingConstants DEF Able
  <1>2. IsFiniteSet(1 .. Len(Candidates))
    BY <1>1, FS_Interval
  <1>3. QED
    BY <1>1, <1>2, FS_Subset

(* All that could ever be ahead: the bound's second part.                  *)
LEMMA AwaitedFinite ==
    ASSUME NEW S \in SUBSET (Call \X Able)
    PROVE  /\ IsFiniteSet(S) /\ Cardinality(S) \in Nat
           /\ Cardinality(S) <= Cardinality(Call) * Cardinality(Able)
           /\ Cardinality(Call) * Cardinality(Able) \in Nat
  <1>1. IsFiniteSet(Call \X Able)
        /\ Cardinality(Call \X Able) = Cardinality(Call) * Cardinality(Able)
    BY FS_Product, AbleFacts, RoutingConstants
  <1>2. QED
    BY <1>1, FS_Subset, FS_CardinalityType

(* A step of one call that leaves the quota alone only moves it on.        *)
LEMMA FewerAwaited ==
    ASSUME QuotaKept, TypeOK, usage' = usage, Awaited' \subseteq Awaited
    PROVE  QuotaKept'
  <1>1. Awaited \in SUBSET (Call \X Able)
    BY DEF Awaited
  <1>2. IsFiniteSet(Awaited) /\ Cardinality(Awaited) \in Nat
    BY <1>1, AwaitedFinite
  <1>3. Cardinality(Awaited') <= Cardinality(Awaited) /\ Cardinality(Awaited') \in Nat
    BY <1>2, FS_Subset, FS_CardinalityType
  <1>4. Cardinality(Call) * Cardinality(Able) \in Nat /\ Limit \in Nat
    BY <1>1, AwaitedFinite, RoutingConstants
  <1>5. usage \in Nat
    BY DEF TypeOK
  <1>6. CASE Limit = 0
    BY <1>6 DEF QuotaKept
  <1>7. CASE Limit > 0
    BY <1>2, <1>3, <1>4, <1>5, <1>7 DEF QuotaKept
  <1>8. QED
    BY <1>4, <1>6, <1>7

(* A step that adds an answer uses up one that was ahead.                  *)
LEMMA OneUsed ==
    ASSUME QuotaKept, TypeOK, usage' = usage + 1,
           NEW x \in Awaited, Awaited' \subseteq Awaited \ {x}
    PROVE  QuotaKept'
  <1>1. Awaited \in SUBSET (Call \X Able)
    BY DEF Awaited
  <1>2. IsFiniteSet(Awaited) /\ Cardinality(Awaited) \in Nat
    BY <1>1, AwaitedFinite
  <1>3. IsFiniteSet(Awaited \ {x}) /\ Cardinality(Awaited \ {x}) = Cardinality(Awaited) - 1
    BY <1>2, FS_RemoveElement
  <1>4. Cardinality(Awaited') <= Cardinality(Awaited) - 1 /\ Cardinality(Awaited') \in Nat
    BY <1>3, FS_Subset, FS_CardinalityType
  <1>5. Cardinality(Call) * Cardinality(Able) \in Nat /\ Limit \in Nat
    BY <1>1, AwaitedFinite, RoutingConstants
  <1>6. usage \in Nat /\ Limit > 0
    BY <1>5 DEF TypeOK, QuotaKept
  <1>7. QED
    BY <1>2, <1>4, <1>5, <1>6 DEF QuotaKept
-----------------------------------------------------------------------------
(* The operators of the breaker.                                           *)

Sound(b) == /\ b \in [Provider -> Breaker]
            /\ \A p \in Provider : b[p].state = "closed" <=> b[p].failures < Threshold

LEMMA HalfOpensSound ==
    ASSUME NEW b, Sound(b), NEW p \in Provider
    PROVE  Sound(HalfOpens(b, p))
  BY DEF Sound, HalfOpens, Breaker

LEMMA SuccessSound ==
    ASSUME NEW b, Sound(b), NEW p \in Provider
    PROVE  Sound(record_success(b, p))
  <1>1. Threshold \in Nat \ {0}
    BY RoutingConstants
  <1> DEFINE c == [b EXCEPT ![p].state = "closed"]
             r == [c EXCEPT ![p].failures = 0]
  <1>2. c \in [Provider -> Breaker] /\ c[p].state = "closed"
        /\ \A o \in Provider \ {p} : c[o] = b[o]
    BY DEF Sound, Breaker
  <1>3. record_success(b, p) = r
    BY Zenon DEF Sound, record_success
  <1> HIDE DEF c
  <1>4. r \in [Provider -> Breaker] /\ r[p].state = "closed" /\ r[p].failures = 0
        /\ \A o \in Provider \ {p} : r[o] = c[o]
    BY <1>1, <1>2 DEF Breaker
  <1> HIDE DEF r
  <1>5. QED
    BY <1>1, <1>2, <1>3, <1>4 DEF Sound

LEMMA FailureSound ==
    ASSUME NEW b, Sound(b), NEW p \in Provider
    PROVE  Sound(record_failure(b, p))
  <1>1. Threshold \in Nat \ {0}
    BY RoutingConstants
  <1> DEFINE n == IF b[p].state = "half_open" THEN b[p].failures
                  ELSE Min({b[p].failures + 1, Threshold})
             s == IF b[p].state = "half_open" \/ n >= Threshold THEN "open" ELSE b[p].state
  <1>2. b[p] \in Breaker /\ (b[p].state = "closed" <=> b[p].failures < Threshold)
    BY DEF Sound
  <1>3. Min({b[p].failures + 1, Threshold}) =
            IF b[p].failures + 1 <= Threshold THEN b[p].failures + 1 ELSE Threshold
    BY <1>1, <1>2, MinOfTwo DEF Breaker
  <1>4. n \in 0 .. Threshold /\ s \in {"closed", "open"} /\ (s = "closed" <=> n < Threshold)
    BY <1>1, <1>2, <1>3 DEF Breaker
  <1>5. record_failure(b, p) = [b EXCEPT ![p] = [state |-> s, failures |-> n, cooled |-> FALSE]]
    BY DEF record_failure
  <1> HIDE DEF n, s
  <1>6. [state |-> s, failures |-> n, cooled |-> FALSE] \in Breaker
    BY <1>4 DEF Breaker
  <1>7. QED
    BY <1>4, <1>5, <1>6 DEF Sound
-----------------------------------------------------------------------------
(* The loop over the candidates: the call ends or moves to a later         *)
(* candidate that has a key, and nothing else moves.                       *)
LEMMA GoesOn ==
    ASSUME TypeOK, NEW c \in Call, NEW b, Sound(b), NEW i \in 1 .. Len(Candidates) + 1,
           Goes(c, b, i)
    PROVE  /\ Sound(breaker')
           /\ \/ call' = [call EXCEPT ![c] = NoCall]
              \/ \E j \in Able : j >= i /\ call' = [call EXCEPT ![c] = [pc |-> "model", at |-> j]]
  <1> DEFINE admitted == {j \in i .. Len(Candidates) : ~is_open(b, Candidates[j])}
             able == {j \in admitted : Candidates[j] \in Configured}
  <1>1. CASE able = {}
    BY <1>1 DEF Goes, Ends
  <1>2. CASE able # {}
    <2>1. able \in SUBSET Nat
      BY AbleFacts
    <2>2. Min(able) \in able
      BY <1>2, <2>1, MinOfNats
    <2>3. Min(able) \in Able /\ Min(able) >= i /\ Candidates[Min(able)] \in Provider
      BY <2>2, AbleFacts DEF Able
    <2>4. call' = [call EXCEPT ![c] = [pc |-> "model", at |-> Min(able)]]
          /\ breaker' = HalfOpens(b, Candidates[Min(able)])
      BY <1>2 DEF Goes
    <2>5. Sound(breaker')
      BY <2>3, <2>4, HalfOpensSound
    <2>6. QED
      BY <2>3, <2>4, <2>5
  <1>3. QED
    BY <1>1, <1>2

(* So the record of the calls keeps its type, and of what was ahead the    *)
(* call keeps only what it has not gone past.                              *)
LEMMA MovesOn ==
    ASSUME TypeOK, NEW c \in Call, NEW i \in 1 .. Len(Candidates) + 1,
           \/ call' = [call EXCEPT ![c] = NoCall]
           \/ \E j \in Able : j >= i /\ call' = [call EXCEPT ![c] = [pc |-> "model", at |-> j]]
    PROVE  /\ call' \in [Call -> CallRecord]
           /\ \A d \in Call : call'[d].pc \in Asked =>
                 call'[d].at > 0 /\ Candidates[call'[d].at] \in Configured
           /\ Awaited' \subseteq (Awaited \cup ({c} \X (Able \cap i .. Len(Candidates))))
           /\ \A k \in Able : k < i => <<c, k>> \notin Awaited'
  <1>1. Able \subseteq 1 .. Len(Candidates) /\ Len(Candidates) \in Nat
    BY AbleFacts
  <1>2. \A d \in Call \ {c} : call'[d] = call[d]
    BY DEF TypeOK
  <1>3. CASE call' = [call EXCEPT ![c] = NoCall]
    <2>1. call'[c] = NoCall
      BY <1>3 DEF TypeOK
    <2>2. call' \in [Call -> CallRecord]
      BY <1>1, <1>3 DEF TypeOK, CallRecord, NoCall
    <2>3. \A x \in Awaited' : x[1] # c /\ x \in Awaited
      BY <1>2, <2>1 DEF Awaited, NoCall, Asked
    <2>4. QED
      BY <1>2, <2>1, <2>2, <2>3 DEF TypeOK, NoCall, Asked
  <1>4. ASSUME NEW j \in Able, j >= i, call' = [call EXCEPT ![c] = [pc |-> "model", at |-> j]]
        PROVE  /\ call' \in [Call -> CallRecord]
               /\ \A d \in Call : call'[d].pc \in Asked =>
                     call'[d].at > 0 /\ Candidates[call'[d].at] \in Configured
               /\ Awaited' \subseteq (Awaited \cup ({c} \X (Able \cap i .. Len(Candidates))))
               /\ \A k \in Able : k < i => <<c, k>> \notin Awaited'
    <2>1. call'[c] = [pc |-> "model", at |-> j]
      BY <1>4 DEF TypeOK
    <2>2. call' \in [Call -> CallRecord]
      BY <1>1, <1>4 DEF TypeOK, CallRecord
    <2>3. j > 0 /\ Candidates[j] \in Configured
      BY <1>1 DEF Able
    <2>4. \A k \in Able : <<c, k>> \in Awaited' => j <= k
      BY <2>1 DEF Awaited
    <2>5. \A d \in Call \ {c}, k \in Able : <<d, k>> \in Awaited' => <<d, k>> \in Awaited
      BY <1>2 DEF Awaited
    <2>6. Awaited' \subseteq Call \X Able
      BY DEF Awaited
    <2>7. \A k \in Able : j <= k => k \in i .. Len(Candidates)
      BY <1>1, <1>4
    <2>8. Awaited' \subseteq (Awaited \cup ({c} \X (Able \cap i .. Len(Candidates))))
      BY <2>4, <2>5, <2>6, <2>7
    <2>9. QED
      BY <1>1, <1>2, <1>4, <2>1, <2>2, <2>3, <2>4, <2>8 DEF TypeOK
  <1>5. QED
    BY <1>3, <1>4
-----------------------------------------------------------------------------
(* One lemma per step of a call.                                           *)

LEMMA SoundBreakers == TypeOK /\ StateMatchesCount <=> TypeOK /\ Sound(breaker)
  BY DEF TypeOK, StateMatchesCount, Sound

LEMMA KeepsBegin ==
    ASSUME RoutingInv, NEW c \in Call, Begin(c)
    PROVE  RoutingInv'
  <1>1. TypeOK /\ QuotaKept /\ Sound(breaker)
    BY SoundBreakers DEF RoutingInv
  <1>2. call[c].pc = "idle" /\ call' = [call EXCEPT ![c].pc = "limit"]
        /\ UNCHANGED <<breaker, usage>>
    BY DEF Begin
  <1>3. TypeOK'
    BY <1>1, <1>2 DEF TypeOK, CallRecord, Asked
  <1>4. call'[c].pc = "limit" /\ \A d \in Call \ {c} : call'[d] = call[d]
    BY <1>1, <1>2 DEF TypeOK
  <1>5. Awaited' \subseteq Awaited
    BY <1>4 DEF Awaited, Asked
  <1>6. QED
    BY <1>1, <1>2, <1>3, <1>5, FewerAwaited DEF RoutingInv, StateMatchesCount, Sound

(* A connection comes before the quota, or after an answer is awaited.     *)
LEMMA KeepsAcquire ==
    ASSUME RoutingInv, NEW c \in Call, Acquire(c)
    PROVE  RoutingInv'
  <1>1. TypeOK /\ QuotaKept /\ Sound(breaker)
    BY SoundBreakers DEF RoutingInv
  <1>2. PICK q \in {"checks", "records"} :
           /\ call' = [call EXCEPT ![c].pc = q]
           /\ q = "records" => call[c].pc \in Asked
    BY DEF Acquire, Asked
  <1>3. UNCHANGED <<breaker, usage>>
    BY DEF Acquire
  <1>4. /\ call'[c].pc = q /\ call'[c].at = call[c].at
        /\ \A d \in Call \ {c} : call'[d] = call[d]
        /\ call' \in [Call -> CallRecord]
    BY <1>1, <1>2 DEF TypeOK, CallRecord
  <1>5. TypeOK'
    BY <1>1, <1>2, <1>3, <1>4 DEF TypeOK, Asked
  <1>6. Awaited' \subseteq Awaited
    BY <1>2, <1>4 DEF Awaited, Asked
  <1>7. QED
    BY <1>1, <1>3, <1>5, <1>6, FewerAwaited DEF RoutingInv, StateMatchesCount, Sound

(* A call is let in below the limit: then at most the others and itself    *)
(* have every candidate ahead.                                             *)
LEMMA KeepsCheckLimit ==
    ASSUME RoutingInv, NEW c \in Call, CheckLimit(c)
    PROVE  RoutingInv'
  <1>1. TypeOK /\ QuotaKept /\ Sound(breaker) /\ usage' = usage
    BY SoundBreakers DEF RoutingInv, CheckLimit
  <1>2. Len(Candidates) \in Nat /\ 1 \in 1 .. Len(Candidates) + 1
    BY AbleFacts
  <1>3. CASE usage < Limit /\ Goes(c, breaker, 1)
    <2>1. /\ Sound(breaker')
          /\ \/ call' = [call EXCEPT ![c] = NoCall]
             \/ \E j \in Able : j >= 1 /\ call' = [call EXCEPT ![c] = [pc |-> "model", at |-> j]]
      BY <1>1, <1>2, <1>3, GoesOn
    <2>2. /\ call' \in [Call -> CallRecord]
          /\ \A d \in Call : call'[d].pc \in Asked =>
                call'[d].at > 0 /\ Candidates[call'[d].at] \in Configured
      BY <1>1, <1>2, <2>1, MovesOn
    <2>3. TypeOK' /\ StateMatchesCount'
      BY <1>1, <2>1, <2>2 DEF TypeOK, StateMatchesCount, Sound
    <2>4. Awaited' \in SUBSET (Call \X Able)
      BY DEF Awaited
    <2>5. /\ Cardinality(Awaited') \in Nat
          /\ Cardinality(Awaited') <= Cardinality(Call) * Cardinality(Able)
          /\ Cardinality(Call) * Cardinality(Able) \in Nat
      BY <2>4, AwaitedFinite
    <2>6. usage \in Nat /\ Limit \in Nat /\ Limit > 0 /\ usage' <= Limit - 1
      BY <1>1, <1>3, RoutingConstants DEF TypeOK
    <2>7. QuotaKept'
      BY <1>1, <2>5, <2>6 DEF QuotaKept
    <2>8. QED
      BY <2>3, <2>7 DEF RoutingInv
  <1>4. CASE Ends(c) /\ UNCHANGED breaker
    <2>1. call' = [call EXCEPT ![c] = NoCall]
      BY <1>4 DEF Ends
    <2>2. TypeOK' /\ StateMatchesCount'
      BY <1>1, <1>2, <1>4, <2>1 DEF TypeOK, CallRecord, NoCall, StateMatchesCount, Sound, Asked
    <2>3. call'[c] = NoCall /\ \A d \in Call \ {c} : call'[d] = call[d]
      BY <1>1, <2>1 DEF TypeOK
    <2>4. Awaited' \subseteq Awaited
      BY <2>3 DEF Awaited, NoCall, Asked
    <2>5. QED
      BY <1>1, <2>2, <2>4, FewerAwaited DEF RoutingInv
  <1>5. QED
    BY <1>3, <1>4 DEF CheckLimit

LEMMA KeepsModelAnswers ==
    ASSUME RoutingInv, NEW c \in Call, ModelAnswers(c)
    PROVE  RoutingInv'
  <1>1. TypeOK /\ QuotaKept /\ Sound(breaker)
    BY SoundBreakers DEF RoutingInv
  <1>2. /\ call[c].pc = "model" /\ call' = [call EXCEPT ![c].pc = "usage"]
        /\ breaker' = record_success(breaker, Candidates[call[c].at])
        /\ usage' = usage
    BY DEF ModelAnswers
  <1>3. call[c].at \in 1 .. Len(Candidates) /\ Candidates[call[c].at] \in Provider
    BY <1>1, <1>2, AbleFacts DEF TypeOK, CallRecord, Asked
  <1>4. Sound(breaker')
    BY <1>1, <1>2, <1>3, SuccessSound
  <1>5. /\ call'[c].pc = "usage" /\ call'[c].at = call[c].at
        /\ \A d \in Call \ {c} : call'[d] = call[d]
        /\ call' \in [Call -> CallRecord]
    BY <1>1, <1>2 DEF TypeOK, CallRecord
  <1>6. TypeOK' /\ StateMatchesCount'
    BY <1>1, <1>2, <1>4, <1>5 DEF TypeOK, StateMatchesCount, Sound, Asked
  <1>7. Awaited' \subseteq Awaited
    BY <1>2, <1>5 DEF Awaited, Asked
  <1>8. QED
    BY <1>1, <1>2, <1>6, <1>7, FewerAwaited DEF RoutingInv

(* What a call does after a failure, of the model or of its usage.         *)
LEMMA GoesOnAfterFailure ==
    ASSUME RoutingInv, NEW c \in Call, call[c].pc \in Asked,
           Goes(c, record_failure(breaker, Candidates[call[c].at]), call[c].at + 1)
    PROVE  /\ call' \in [Call -> CallRecord] /\ Sound(breaker')
           /\ \A d \in Call : call'[d].pc \in Asked =>
                 call'[d].at > 0 /\ Candidates[call'[d].at] \in Configured
           /\ <<c, call[c].at>> \in Awaited
           /\ Awaited' \subseteq Awaited \ {<<c, call[c].at>>}
  <1>1. TypeOK /\ QuotaKept /\ Sound(breaker)
    BY SoundBreakers DEF RoutingInv
  <1>2. PICK at \in 1 .. Len(Candidates) : at = call[c].at
    BY <1>1, AbleFacts DEF TypeOK, CallRecord
  <1>3. at \in Able /\ Candidates[at] \in Provider /\ at + 1 \in 1 .. Len(Candidates) + 1
    BY <1>1, <1>2, AbleFacts DEF Able, TypeOK
  <1>4. Sound(record_failure(breaker, Candidates[at]))
    BY <1>1, <1>3, FailureSound
  <1>5. Goes(c, record_failure(breaker, Candidates[at]), at + 1)
    BY <1>2
  <1>6. /\ Sound(breaker')
        /\ \/ call' = [call EXCEPT ![c] = NoCall]
           \/ \E j \in Able : j >= at + 1 /\ call' = [call EXCEPT ![c] = [pc |-> "model", at |-> j]]
    BY <1>1, <1>3, <1>4, <1>5, GoesOn
  <1>7. /\ call' \in [Call -> CallRecord]
        /\ \A d \in Call : call'[d].pc \in Asked =>
              call'[d].at > 0 /\ Candidates[call'[d].at] \in Configured
        /\ Awaited' \subseteq (Awaited \cup ({c} \X (Able \cap (at + 1) .. Len(Candidates))))
        /\ \A k \in Able : k < at + 1 => <<c, k>> \notin Awaited'
    BY <1>1, <1>3, <1>6, MovesOn
  <1>8. \A k \in Able : at <= k => <<c, k>> \in Awaited
    BY <1>2 DEF Awaited
  <1>9. Able \subseteq Nat /\ Len(Candidates) \in Nat
    BY AbleFacts
  <1>10. {c} \X (Able \cap (at + 1) .. Len(Candidates)) \subseteq Awaited
    BY <1>2, <1>8, <1>9
  <1>11. <<c, at>> \in Awaited /\ <<c, at>> \notin Awaited'
    BY <1>2, <1>3, <1>7, <1>8
  <1>12. QED
    BY <1>2, <1>6, <1>7, <1>10, <1>11

LEMMA KeepsFailure ==
    ASSUME RoutingInv, NEW c \in Call, ModelFails(c) \/ UsageFails(c)
    PROVE  RoutingInv'
  <1>1. TypeOK /\ QuotaKept /\ Sound(breaker)
    BY SoundBreakers DEF RoutingInv
  <1>2. /\ call[c].pc \in Asked /\ usage' \in {usage, usage + 1}
        /\ Goes(c, record_failure(breaker, Candidates[call[c].at]), call[c].at + 1)
    BY DEF ModelFails, UsageFails, Asked
  <1>3. PICK x \in Awaited : Awaited' \subseteq Awaited \ {x}
    BY <1>2, GoesOnAfterFailure
  <1>4. /\ call' \in [Call -> CallRecord] /\ Sound(breaker')
        /\ \A d \in Call : call'[d].pc \in Asked =>
              call'[d].at > 0 /\ Candidates[call'[d].at] \in Configured
    BY <1>2, GoesOnAfterFailure
  <1>5. TypeOK' /\ StateMatchesCount'
    BY <1>1, <1>2, <1>4 DEF TypeOK, StateMatchesCount, Sound
  <1>6. CASE usage' = usage
    <2>1. Awaited' \subseteq Awaited
      BY <1>3
    <2>2. QED
      BY <1>1, <1>5, <1>6, <2>1, FewerAwaited DEF RoutingInv
  <1>7. CASE usage' = usage + 1
    BY <1>1, <1>3, <1>5, <1>7, OneUsed DEF RoutingInv
  <1>8. QED
    BY <1>2, <1>6, <1>7

LEMMA KeepsUsage ==
    ASSUME RoutingInv, NEW c \in Call, add_usage(c)
    PROVE  RoutingInv'
  <1>1. TypeOK /\ QuotaKept /\ Sound(breaker)
    BY SoundBreakers DEF RoutingInv
  <1>2. /\ call[c].pc = "records" /\ usage' = usage + 1
        /\ call' = [call EXCEPT ![c] = NoCall] /\ UNCHANGED breaker
    BY DEF add_usage, Ends
  <1>3. <<c, call[c].at>> \in Awaited
    BY <1>1, <1>2, AbleFacts DEF Awaited, Able, TypeOK, CallRecord, Asked
  <1>4. call'[c] = NoCall /\ \A d \in Call \ {c} : call'[d] = call[d]
    BY <1>1, <1>2 DEF TypeOK
  <1>5. Awaited' \subseteq Awaited \ {<<c, call[c].at>>}
    BY <1>4 DEF Awaited, NoCall, Asked
  <1>6. TypeOK' /\ StateMatchesCount'
    BY <1>1, <1>2, AbleFacts DEF TypeOK, CallRecord, NoCall, StateMatchesCount, Sound, Asked
  <1>7. QED
    BY <1>1, <1>2, <1>3, <1>5, <1>6, OneUsed DEF RoutingInv

LEMMA KeepsCool ==
    ASSUME RoutingInv, NEW p \in Provider, Cool(p)
    PROVE  RoutingInv'
  <1>1. TypeOK /\ QuotaKept /\ Sound(breaker)
    BY SoundBreakers DEF RoutingInv
  <1>2. breaker' = [breaker EXCEPT ![p].cooled = TRUE] /\ UNCHANGED <<call, usage>>
    BY DEF Cool
  <1>3. Sound(breaker')
    BY <1>1, <1>2 DEF Sound, Breaker
  <1>4. Awaited' \subseteq Awaited
    BY <1>2 DEF Awaited
  <1>5. QED
    BY <1>1, <1>2, <1>3, <1>4, FewerAwaited DEF RoutingInv, TypeOK, StateMatchesCount, Sound

LEMMA RoutingStarts == Init => RoutingInv
  <1> SUFFICES ASSUME Init PROVE RoutingInv
    OBVIOUS
  <1>1. TypeOK /\ StateMatchesCount
    BY RoutingConstants, AbleFacts
       DEF Init, TypeOK, StateMatchesCount, Breaker, Closed, CallRecord, NoCall, Asked
  <1>2. Awaited = {}
    BY DEF Init, Awaited, NoCall, Asked
  <1>3. Cardinality(Awaited) = 0 /\ Awaited \in SUBSET (Call \X Able)
    BY <1>2, FS_EmptySet
  <1>4. Cardinality(Call) * Cardinality(Able) \in Nat /\ Limit \in Nat
    BY <1>3, AwaitedFinite, RoutingConstants
  <1>5. QuotaKept
    BY <1>2, <1>3, <1>4 DEF Init, QuotaKept
  <1>6. QED
    BY <1>1, <1>5 DEF RoutingInv

LEMMA RoutingKeeps == RoutingInv /\ [Next]_vars => RoutingInv'
  <1> SUFFICES ASSUME RoutingInv, [Next]_vars PROVE RoutingInv'
    OBVIOUS
  <1>1. CASE UNCHANGED vars
    BY <1>1 DEF vars, RoutingInv, TypeOK, StateMatchesCount, QuotaKept, Awaited
  <1>2. CASE Next
    BY <1>2, KeepsBegin, KeepsAcquire, KeepsCheckLimit, KeepsModelAnswers, KeepsFailure, KeepsUsage, KeepsCool
       DEF Next, Step
  <1>3. QED
    BY <1>1, <1>2

LEMMA RoutingInvSuffices == RoutingInv => StateMatchesCount /\ OvershootBounded
  <1> SUFFICES ASSUME RoutingInv PROVE OvershootBounded
    BY DEF RoutingInv
  <1>1. Awaited \in SUBSET (Call \X Able)
    BY DEF Awaited
  <1>2. Cardinality(Awaited) \in Nat /\ Cardinality(Call) * Cardinality(Able) \in Nat
        /\ Limit \in Nat /\ usage \in Nat
    BY <1>1, AwaitedFinite, RoutingConstants DEF RoutingInv, TypeOK
  <1>3. QED
    BY <1>2 DEF RoutingInv, QuotaKept, OvershootBounded
-----------------------------------------------------------------------------
(* Whatever the calls and providers do, in whatever order late answers     *)
(* come in, a breaker's state and count agree, and the quota is overshot   *)
(* by less than an answer per call and provider (services/llm/router.py).  *)
THEOREM Routing == Spec => [](StateMatchesCount /\ OvershootBounded)
  BY RoutingStarts, RoutingKeeps, RoutingInvSuffices, PTL DEF Spec

(* The same, of the services together.                                     *)
THEOREM BreakersAlwaysHold == AllSpec => []BreakersHold
  <1>1. AllInit => RoutingInv
    BY RoutingStarts DEF AllInit
  <1>2. RoutingInv /\ [AllNext]_allVars => RoutingInv'
    BY RoutingKeeps DEF AllNext, OnlyRouting, OnlyNews, OnlyReminders, allVars, routeVars
  <1>3. RoutingInv => BreakersHold
    BY RoutingInvSuffices DEF BreakersHold
  <1>4. QED
    BY <1>1, <1>2, <1>3, PTL DEF AllSpec
-----------------------------------------------------------------------------
(* The reminders: the inductive invariant.  notifications do not say which *)
(* job made them; the invariant says that the jobs can be told apart, so   *)
(* that no job reminds of the same thing twice within the quiet time.      *)

QuietTime(k) == Deadlines!QuietTime(k)
Kind == Deadlines!Kind
Apart(x, y, k) == x <= y - QuietTime(k) \/ y <= x - QuietTime(k)

(* j is about to remind of t: what it found then holds of its own still.   *)
Reminding(q, t, k) == q.at > 0 /\ Kinds[q.at] = k /\ t \in q.todo

Spaced(times, k, f) ==
    /\ f \in [DOMAIN times -> Job]
    /\ \A i, h \in DOMAIN times : i # h /\ f[i] = f[h] => Apart(times[i], times[h], k)

Senders(t, k, f) ==
    /\ Spaced(notes[t][k], k, f)
    /\ \A j \in Job, i \in DOMAIN notes[t][k] :
          Reminding(job[j], t, k) /\ f[i] = j => notes[t][k][i] <= now - QuietTime(k)

JobRecord == {q \in [at : 0 .. Len(Kinds), as_of : Nat, todo : SUBSET Task] :
                 q.at = 0 => q.todo = {}}

RemindersTyped ==
    /\ now \in Nat
    /\ notes \in [Task -> [Kind -> Seq(Nat)]]
    /\ job \in [Job -> JobRecord]
    /\ \A t \in Task, k \in Kind : \A i \in DOMAIN notes[t][k] : notes[t][k][i] <= now

RemindersInv ==
    /\ RemindersTyped
    /\ \A t \in Task, k \in Kind : \E f : Senders(t, k, f)
-----------------------------------------------------------------------------
LEMMA KindFacts ==
    /\ Len(Kinds) \in Nat /\ 1 <= Len(Kinds)
    /\ \A i \in 1 .. Len(Kinds) : Kinds[i] \in Kind
    /\ \A k : QuietTime(k) \in Nat
  <1>1. Len(Kinds) \in Nat /\ 1 <= Len(Kinds) /\ DOMAIN Kinds = 1 .. Len(Kinds)
    BY ReminderConstants
  <1>2. \A k : QuietTime(k) \in Nat
    BY ReminderConstants DEF QuietTime, Deadlines!QuietTime
  <1>3. QED
    BY <1>1, <1>2 DEF Kind, Deadlines!Kind

(* Time passes, or nothing that concerns the reminders happens.            *)
LEMMA KeepsTime ==
    ASSUME RemindersInv, now' \in Nat, now <= now', UNCHANGED <<notes, job>>
    PROVE  RemindersInv'
  <1>1. RemindersTyped'
    <2>1. RemindersTyped
      BY DEF RemindersInv
    <2>2. \A t \in Task, k \in Kind : \A i \in DOMAIN notes[t][k] :
             notes[t][k][i] \in Nat /\ notes[t][k][i] <= now
      BY <2>1 DEF RemindersTyped
    <2>3. now \in Nat
      BY <2>1 DEF RemindersTyped
    <2>4. \A t \in Task, k \in Kind : \A i \in DOMAIN notes[t][k] : notes[t][k][i] <= now'
      BY <2>2, <2>3
    <2>5. QED
      BY <2>1, <2>4 DEF RemindersTyped
  <1>2. ASSUME NEW t \in Task, NEW k \in Kind PROVE (\E f : Senders(t, k, f))'
    <2>1. PICK f : Senders(t, k, f)
      BY DEF RemindersInv
    <2>2. QuietTime(k) \in Nat /\ now \in Nat
          /\ \A i \in DOMAIN notes[t][k] : notes[t][k][i] \in Nat
      BY KindFacts DEF RemindersInv, RemindersTyped
    <2>3. now - QuietTime(k) <= now' - QuietTime(k)
      BY <2>2
    <2>4. \A j \in Job, i \in DOMAIN notes[t][k] :
             Reminding(job[j], t, k) /\ f[i] = j => notes[t][k][i] <= now' - QuietTime(k)
      BY <2>1, <2>2, <2>3 DEF Senders
    <2>5. Senders(t, k, f)'
      BY <2>1, <2>4 DEF Senders
    <2>6. QED
      BY <2>5
  <1>3. QED
    BY <1>1, <1>2 DEF RemindersInv

(* A job selects what is untold by now, or drops what it had selected.     *)
LEMMA KeepsSelection ==
    ASSUME RemindersInv, NEW j \in Job, NEW q \in JobRecord,
           job' = [job EXCEPT ![j] = q], UNCHANGED <<now, notes>>,
           \A t \in Task, k \in Kind : Reminding(q, t, k) => Deadlines!Untold(t, k)
    PROVE  RemindersInv'
  <1>1. job'[j] = q /\ \A l \in Job \ {j} : job'[l] = job[l]
    BY DEF RemindersInv, RemindersTyped
  <1>2. RemindersTyped'
    BY DEF RemindersInv, RemindersTyped
  <1>3. ASSUME NEW t \in Task, NEW k \in Kind PROVE (\E f : Senders(t, k, f))'
    <2>1. PICK f : Senders(t, k, f)
      BY DEF RemindersInv
    <2>2. \A l \in Job, i \in DOMAIN notes[t][k] :
             Reminding(job'[l], t, k) /\ f[i] = l => notes[t][k][i] <= now - QuietTime(k)
      BY <1>1, <2>1 DEF Senders, Deadlines!Untold, QuietTime
    <2>3. Senders(t, k, f)'
      BY <2>1, <2>2 DEF Senders
    <2>4. QED
      BY <2>3
  <1>4. QED
    BY <1>2, <1>3 DEF RemindersInv

LEMMA KeepsCron ==
    ASSUME RemindersInv, NEW j \in Job, Deadlines!cron_deadline_reminders(j)
    PROVE  RemindersInv'
  <1> DEFINE q == [at |-> 1, as_of |-> now, todo |-> Deadlines!Selected(1, now)]
  <1>1. job' = [job EXCEPT ![j] = q] /\ UNCHANGED <<now, notes>>
    BY DEF Deadlines!cron_deadline_reminders
  <1>2. q \in JobRecord
    BY KindFacts DEF RemindersInv, RemindersTyped, JobRecord, Deadlines!Selected
  <1>3. \A t \in Task, k \in Kind : Reminding(q, t, k) => Deadlines!Untold(t, k)
    BY DEF Reminding, Deadlines!Selected
  <1> HIDE DEF q
  <1>4. QED
    BY <1>1, <1>2, <1>3, KeepsSelection

LEMMA KeepsNextKind ==
    ASSUME RemindersInv, NEW j \in Job, Deadlines!NextKind(j)
    PROVE  RemindersInv'
  <1> DEFINE todo == Deadlines!Selected(job[j].at + 1, job[j].as_of)
             onward == [at |-> job[j].at + 1, as_of |-> job[j].as_of, todo |-> todo]
  <1>1. job[j] \in JobRecord /\ UNCHANGED <<now, notes>> /\ job[j].at > 0
    BY DEF RemindersInv, RemindersTyped, Deadlines!NextKind
  <1>2. job' = [job EXCEPT ![j] = IF job[j].at = Len(Kinds) THEN Deadlines!Idle ELSE onward]
    BY <1>1 DEF Deadlines!NextKind, JobRecord
  <1>3. CASE job[j].at = Len(Kinds)
    <2>1. Deadlines!Idle \in JobRecord
          /\ \A t \in Task, k \in Kind : ~Reminding(Deadlines!Idle, t, k)
      BY KindFacts DEF Deadlines!Idle, JobRecord, Reminding
    <2>2. job' = [job EXCEPT ![j] = Deadlines!Idle]
      BY <1>2, <1>3
    <2>3. QED
      BY <1>1, <2>1, <2>2, KeepsSelection
  <1>4. CASE job[j].at # Len(Kinds)
    <2>1. onward \in JobRecord
      BY <1>1, <1>4, KindFacts DEF JobRecord, Deadlines!Selected
    <2>2. \A t \in Task, k \in Kind : Reminding(onward, t, k) => Deadlines!Untold(t, k)
      BY DEF Reminding, Deadlines!Selected
    <2>3. job' = [job EXCEPT ![j] = onward]
      BY <1>2, <1>4
    <2> HIDE DEF onward
    <2>4. QED
      BY <1>1, <2>1, <2>2, <2>3, KeepsSelection
  <1>5. QED
    BY <1>3, <1>4

LEMMA KeepsFail ==
    ASSUME RemindersInv, NEW j \in Job, Deadlines!Fail(j)
    PROVE  RemindersInv'
  <1>1. Deadlines!Idle \in JobRecord
        /\ \A t \in Task, k \in Kind : ~Reminding(Deadlines!Idle, t, k)
    BY KindFacts DEF Deadlines!Idle, JobRecord, Reminding
  <1>2. job' = [job EXCEPT ![j] = Deadlines!Idle] /\ UNCHANGED <<now, notes>>
    BY DEF Deadlines!Fail
  <1>3. QED
    BY <1>1, <1>2, KeepsSelection

(* One more, by a job whose own are old enough.                            *)
GrownBy(new, g, times, f, x, j) ==
    \A i \in DOMAIN new : \/ i \in DOMAIN times /\ g[i] = f[i] /\ new[i] = times[i]
                          \/ g[i] = j /\ new[i] = x

LEMMA OneMore ==
    ASSUME NEW times \in Seq(Nat), NEW x \in Nat, NEW k, NEW f, Spaced(times, k, f), NEW j \in Job,
           \A i \in DOMAIN times : f[i] = j => times[i] <= x - QuietTime(k),
           NEW new, new = Append(times, x)
    PROVE  \E g : Spaced(new, k, g) /\ GrownBy(new, g, times, f, x, j)
  <1> DEFINE n == Len(times)
             g == [i \in 1 .. n + 1 |-> IF i = n + 1 THEN j ELSE f[i]]
  <1>1. /\ n \in Nat /\ DOMAIN times = 1 .. n /\ DOMAIN new = 1 .. n + 1
        /\ \A i \in 1 .. n : new[i] = times[i] /\ times[i] \in Nat
        /\ new[n + 1] = x
    OBVIOUS
  <1>2. f \in [1 .. n -> Job]
    BY <1>1 DEF Spaced
  <1>3. /\ g \in [1 .. n + 1 -> Job] /\ g[n + 1] = j
        /\ \A i \in 1 .. n : g[i] = f[i] /\ i # n + 1
        /\ \A i \in 1 .. n + 1 : i \in 1 .. n \/ i = n + 1
    BY <1>1, <1>2
  <1> HIDE DEF g, n
  <1>4. ASSUME NEW i \in 1 .. n + 1, NEW h \in 1 .. n + 1, i # h, g[i] = g[h]
        PROVE  Apart(new[i], new[h], k)
    <2>1. CASE i \in 1 .. n /\ h \in 1 .. n
      BY <1>1, <1>3, <1>4, <2>1 DEF Spaced
    <2>2. CASE i = n + 1 /\ h \in 1 .. n
      BY <1>1, <1>3, <1>4, <2>2 DEF Apart
    <2>3. CASE h = n + 1 /\ i \in 1 .. n
      BY <1>1, <1>3, <1>4, <2>3 DEF Apart
    <2>4. QED
      BY <1>3, <1>4, <2>1, <2>2, <2>3
  <1>5. Spaced(new, k, g)
    BY <1>1, <1>3, <1>4 DEF Spaced
  <1>6. GrownBy(new, g, times, f, x, j)
    BY <1>1, <1>3 DEF GrownBy
  <1>7. QED
    BY <1>5, <1>6

(* The notification that j sends is j's: what j sent before is old enough, *)
(* for it was when j selected t, and j has t selected no more.             *)
LEMMA KeepsNotification ==
    ASSUME RemindersInv, NEW j \in Job, NEW t \in Task, Deadlines!create_notification(j, t)
    PROVE  RemindersInv'
  <1>1. PICK k : k = Kinds[job[j].at]
    OBVIOUS
  <1>2. /\ t \in job[j].todo /\ now' = now
        /\ notes' = [notes EXCEPT ![t][k] = Append(notes[t][k], now)]
    BY <1>1 DEF Deadlines!create_notification
  <1>3. RemindersTyped /\ job[j] \in JobRecord
    BY DEF RemindersInv, RemindersTyped
  <1>4. /\ job'[j].at = job[j].at /\ job'[j].todo = job[j].todo \ {t} /\ job'[j] \in JobRecord
        /\ \A l \in Job \ {j} : job'[l] = job[l]
        /\ job' \in [Job -> JobRecord]
    BY <1>3 DEF Deadlines!create_notification, RemindersTyped, JobRecord
  <1>5. \A l \in Job, u \in Task, h \in Kind :
            Reminding(job'[l], u, h) => Reminding(job[l], u, h)
    BY <1>4 DEF Reminding
  <1>6. k \in Kind /\ Reminding(job[j], t, k)
    BY <1>1, <1>2, <1>3, KindFacts DEF JobRecord, Reminding
  <1>7. PICK old \in Seq(Nat) : old = notes[t][k]
    BY <1>3, <1>6 DEF RemindersTyped
  <1>8. PICK new : new = Append(old, now)
    OBVIOUS
  <1>9. /\ now \in Nat /\ notes'[t][k] = new
        /\ \A u \in Task, h \in Kind : <<u, h>> # <<t, k>> => notes'[u][h] = notes[u][h]
        /\ notes' \in [Task -> [Kind -> Seq(Nat)]]
    BY <1>2, <1>3, <1>6, <1>7, <1>8 DEF RemindersTyped
  <1>10. PICK f : Senders(t, k, f)
    BY <1>6 DEF RemindersInv
  <1>11. Spaced(old, k, f) /\ \A i \in DOMAIN old : f[i] = j => old[i] <= now - QuietTime(k)
    BY <1>6, <1>7, <1>10 DEF Senders
  <1>12. PICK g : Spaced(new, k, g) /\ GrownBy(new, g, old, f, now, j)
    BY <1>8, <1>9, <1>11, OneMore
  <1>13. RemindersTyped'
    <2>0. \A i \in DOMAIN old : old[i] <= now
      BY <1>3, <1>6, <1>7 DEF RemindersTyped
    <2>3. ASSUME NEW i \in DOMAIN new PROVE new[i] <= now
      <3>1. now <= now
        BY <1>9
      <3>2. QED
        BY <1>12, <2>0, <3>1, Zenon DEF GrownBy
    <2>1. ASSUME NEW u \in Task, NEW h \in Kind, NEW i \in DOMAIN notes'[u][h]
          PROVE  notes'[u][h][i] <= now
      <3>1. CASE u = t /\ h = k
        BY <1>9, <2>1, <2>3, <3>1
      <3>2. CASE <<u, h>> # <<t, k>>
        BY <1>3, <1>9, <2>1, <3>2 DEF RemindersTyped
      <3>3. QED
        BY <3>1, <3>2
    <2>2. QED
      BY <1>2, <1>4, <1>9, <2>1 DEF RemindersTyped
  <1>14. ~Reminding(job'[j], t, k)
    BY <1>4 DEF Reminding
  <1>15. ASSUME NEW l \in Job, NEW i \in DOMAIN new, Reminding(job'[l], t, k), g[i] = l
         PROVE  new[i] <= now - QuietTime(k)
    BY <1>5, <1>6, <1>7, <1>10, <1>12, <1>14, <1>15 DEF Senders, GrownBy
  <1>16. Senders(t, k, g)'
    BY <1>2, <1>9, <1>12, <1>15 DEF Senders
  <1>17. ASSUME NEW u \in Task, NEW h \in Kind, <<u, h>> # <<t, k>>
         PROVE  (\E e : Senders(u, h, e))'
    <2>1. PICK e : Senders(u, h, e)
      BY DEF RemindersInv
    <2>2. notes'[u][h] = notes[u][h]
      BY <1>9, <1>17
    <2>3. Senders(u, h, e)'
      BY <1>2, <1>5, <2>1, <2>2 DEF Senders
    <2>4. QED
      BY <2>3
  <1>18. QED
    BY <1>13, <1>16, <1>17 DEF RemindersInv
-----------------------------------------------------------------------------
LEMMA RemindersStart == Deadlines!Init => RemindersInv
  <1> SUFFICES ASSUME Deadlines!Init PROVE RemindersInv
    OBVIOUS
  <1>1. /\ now = 0 /\ notes = [t \in Task |-> [k \in Kind |-> <<>>]]
        /\ job = [j \in Job |-> Deadlines!Idle]
    BY DEF Deadlines!Init, Kind
  <1>2. Deadlines!Idle \in JobRecord
    BY KindFacts DEF Deadlines!Idle, JobRecord
  <1>3. RemindersTyped
    BY <1>1, <1>2 DEF RemindersTyped
  <1>4. ASSUME NEW t \in Task, NEW k \in Kind PROVE Senders(t, k, <<>>)
    <2>1. notes[t][k] = <<>>
      BY <1>1
    <2>2. QED
      BY <2>1 DEF Senders, Spaced
  <1>5. QED
    BY <1>3, <1>4 DEF RemindersInv

LEMMA RemindersKeep == RemindersInv /\ [Deadlines!Next]_remindVars => RemindersInv'
  <1> SUFFICES ASSUME RemindersInv, [Deadlines!Next]_remindVars PROVE RemindersInv'
    OBVIOUS
  <1>1. now \in Nat
    BY DEF RemindersInv, RemindersTyped
  <1>2. CASE UNCHANGED remindVars
    BY <1>1, <1>2, KeepsTime DEF remindVars
  <1>3. CASE Deadlines!Tick
    BY <1>1, <1>3, KeepsTime DEF Deadlines!Tick
  <1>4. ASSUME NEW t \in Task, \/ Deadlines!create_assignment(t) \/ Deadlines!claim_assignment(t)
                               \/ Deadlines!update_assignment(t)
        PROVE  RemindersInv'
    BY <1>1, <1>4, KeepsTime
       DEF Deadlines!create_assignment, Deadlines!claim_assignment,
           Deadlines!update_assignment, Deadlines!Edits
  <1>5. ASSUME NEW j \in Job, Deadlines!Step(j) \/ Deadlines!Fail(j)
        PROVE  RemindersInv'
    BY <1>5, KeepsCron, KeepsNextKind, KeepsFail, KeepsNotification DEF Deadlines!Step
  <1>6. QED
    BY <1>2, <1>3, <1>4, <1>5 DEF Deadlines!Next

(* The instance has its own name for the cardinality of a set.             *)
LEMMA SameCardinality ==
    ASSUME NEW S
    PROVE  Deadlines!Cardinality(S) = Cardinality(S)
  BY DEF Deadlines!Cardinality, Cardinality

(* Within a quiet time no two are of one job, so that there are no more    *)
(* than jobs.                                                              *)
LEMMA RemindersInvSuffices == RemindersInv => Deadlines!ToldAgainOnlyByOverlap
  <1> SUFFICES ASSUME RemindersInv, NEW t \in Task, NEW k \in Deadlines!Kind, NEW x \in 0 .. now
               PROVE  Cardinality({i \in DOMAIN notes[t][k] :
                          notes[t][k][i] \in (x - Deadlines!QuietTime(k) + 1) .. x}) <= Cardinality(Job)
    BY SameCardinality, Zenon DEF Deadlines!ToldAgainOnlyByOverlap
  <1> k \in Kind
    BY DEF Kind
  <1> DEFINE S == {i \in DOMAIN notes[t][k] :
                      notes[t][k][i] \in (x - Deadlines!QuietTime(k) + 1) .. x}
  <1>1. PICK f : Senders(t, k, f)
    BY DEF RemindersInv
  <1> DEFINE g == [i \in S |-> f[i]]
  <1>2. f \in [DOMAIN notes[t][k] -> Job]
    BY <1>1 DEF Senders, Spaced
  <1>3. g \in [S -> Job]
    BY <1>2
  <1>4. ASSUME NEW i \in S, NEW h \in S, g[i] = g[h] PROVE i = h
    <2>1. QuietTime(k) \in Nat /\ x \in Int
      BY KindFacts
    <2>2. notes[t][k][i] \in (x - QuietTime(k) + 1) .. x
          /\ notes[t][k][h] \in (x - QuietTime(k) + 1) .. x
      BY DEF QuietTime
    <2>3. i # h => Apart(notes[t][k][i], notes[t][k][h], k)
      BY <1>1, <1>4 DEF Senders, Spaced
    <2>4. QED
      BY <2>1, <2>2, <2>3 DEF Apart
  <1>5. g \in Injection(S, Job)
    BY <1>3, <1>4 DEF Injection, IsInjective
  <1>6. IsFiniteSet(Job)
    BY ReminderConstants
  <1> HIDE DEF g, S
  <1>7. Cardinality(S) <= Cardinality(Job)
    BY <1>5, <1>6, FS_Injection
  <1>8. QED
    BY <1>7 DEF S

(* Nobody is reminded of the same thing more often within its quiet time   *)
(* than there are jobs at once, whatever fails and whatever users change   *)
(* meanwhile (the cron endpoint of routers/assignments.py).                *)
THEOREM RemindersRepeatOnlyByOverlap == AllSpec => []ToldAgainOnlyByOverlap
  <1>1. AllInit => RemindersInv
    BY RemindersStart DEF AllInit
  <1>2. RemindersInv /\ [AllNext]_allVars => RemindersInv'
    BY RemindersKeep DEF AllNext, OnlyRouting, OnlyNews, OnlyReminders, allVars
  <1>3. RemindersInv => ToldAgainOnlyByOverlap
    BY RemindersInvSuffices DEF ToldAgainOnlyByOverlap
  <1>4. QED
    BY <1>1, <1>2, <1>3, PTL DEF AllSpec
=============================================================================
