-------------------------- MODULE AdmissionProofs --------------------------
(***************************************************************************)
(* Theorems about Admission: what the token buckets admit, that every      *)
(* permit is accounted for, and that a batch is answered whole.            *)
(***************************************************************************)
EXTENDS Admission, FiniteSetTheorems, SequenceTheorems, TLAPS

USE RateAssumption

-----------------------------------------------------------------------------
(* The buckets.                                                            *)

LEMMA RateTypes ==
    ASSUME NEW b \in Bucket
    PROVE  /\ RateOf(b) \in Nat /\ Capacity(b) \in Nat
           /\ Capacity(b) = RateOf(b) * TicksPerSecond
<1>1. RateOf(b) \in Nat
  BY DEF Bucket, RateOf
<1> QED
  BY <1>1 DEF Capacity

LEMMA RefilledType ==
    ASSUME LimitsTypeOK, NEW b \in Bucket
    PROVE  Refilled(b) \in Nat /\ Refilled(b) <= Capacity(b)
<1>1. tokens[b] \in Nat /\ idle[b] \in Nat /\ tokens[b] <= Capacity(b)
  BY DEF LimitsTypeOK
<1>2. idle[b] * RateOf(b) \in Nat
  BY <1>1, RateTypes
<1> QED
  BY <1>1, <1>2, RateTypes DEF Refilled, Least

LEMMA TickRefills ==
    ASSUME LimitsTypeOK, Tick, NEW b \in Bucket
    PROVE  Refilled(b)' = Least(Refilled(b) + RateOf(b), Capacity(b))
<1> DEFINE r == RateOf(b)  C == Capacity(b)  t == tokens[b]  i == idle[b]
<1>1. r \in Nat /\ C \in Nat /\ C = r * TicksPerSecond
  BY RateTypes
<1>2. t \in Nat /\ t <= C /\ i \in 0..TicksPerSecond
  BY DEF LimitsTypeOK
<1>3. tokens'[b] = t /\ idle'[b] = Least(i + 1, TicksPerSecond)
  BY DEF Tick
<1>4. Refilled(b)' = Least(t + idle'[b] * r, C)
  BY <1>3 DEF Refilled, Capacity, RateOf
<1>5. CASE i < TicksPerSecond
  <2>1. idle'[b] * r = i * r + r
    BY <1>1, <1>2, <1>3, <1>5 DEF Least
  <2>2. i * r \in Nat
    BY <1>1, <1>2
  <2>3. Refilled(b) = Least(t + i * r, C)
    BY DEF Refilled
  <2> HIDE DEF r, C, t, i
  <2>4. Refilled(b)' = Least(t + (i * r + r), C)
    BY <1>4, <2>1
  <2>5. t + (i * r + r) = (t + i * r) + r
    BY <1>1, <1>2, <2>2
  <2>6. \A x, c, d \in Nat : Least(x + d, c) = Least(Least(x, c) + d, c)
    BY DEF Least
  <2>7. t + i * r \in Nat
    BY <1>2, <2>2
  <2>8. Refilled(b)' = Least(Refilled(b) + r, C)
    BY <1>1, <2>3, <2>4, <2>5, <2>6, <2>7
  <2> QED
    BY <2>8 DEF r, C
<1>6. CASE i = TicksPerSecond
  <2>1. idle'[b] * r = C /\ i * r = C
    BY <1>1, <1>2, <1>3, <1>6 DEF Least
  <2> QED
    BY <1>1, <1>2, <1>4, <2>1 DEF Least, Refilled
<1> QED
  BY <1>2, <1>5, <1>6

LEMMA AdmitsTakes ==
    ASSUME LimitsTypeOK, NEW b \in Bucket, Admits(b), NEW w \in Bucket
    PROVE  Refilled(w)' = IF w = b /\ RateOf(b) > 0 THEN Refilled(b) - TicksPerSecond
                          ELSE Refilled(w)
<1>1. CASE RateOf(b) = 0
  BY <1>1, RateTypes DEF Admits, buckets, Refilled, Capacity, RateOf
<1>2. CASE RateOf(b) # 0 /\ w # b
  <2>1. tokens'[w] = tokens[w] /\ idle'[w] = idle[w]
    BY <1>2 DEF Admits, LimitsTypeOK
  <2> QED
    BY <1>2, <2>1 DEF Refilled, Capacity, RateOf
<1>3. CASE RateOf(b) # 0 /\ w = b
  <2>1. tokens'[b] = Refilled(b) - TicksPerSecond /\ idle'[b] = 0
    BY <1>3 DEF Admits, LimitsTypeOK
  <2>2. Refilled(b)' = Least(tokens'[b] + 0 * RateOf(b), Capacity(b))
    BY <2>1 DEF Refilled, Capacity, RateOf
  <2>3. Refilled(b) >= TicksPerSecond
    BY <1>3 DEF Admits, HasToken
  <2> QED
    BY <1>3, <2>1, <2>2, <2>3, RefilledType, RateTypes DEF Least
<1> QED
  BY <1>1, <1>2, <1>3

LEMMA RefusesKeeps ==
    ASSUME LimitsTypeOK, NEW b \in Bucket, Refuses(b), NEW w \in Bucket
    PROVE  Refilled(w)' = Refilled(w)
<1>1. CASE w # b
  <2>1. tokens'[w] = tokens[w] /\ idle'[w] = idle[w]
    BY <1>1 DEF Refuses, LimitsTypeOK
  <2> QED
    BY <2>1 DEF Refilled, Capacity, RateOf
<1>2. CASE w = b
  <2>1. tokens'[b] = Refilled(b) /\ idle'[b] = 0
    BY DEF Refuses, LimitsTypeOK
  <2>2. Refilled(b)' = Least(tokens'[b] + 0 * RateOf(b), Capacity(b))
    BY <2>1 DEF Refilled, Capacity, RateOf
  <2> QED
    BY <1>2, <2>1, <2>2, RefilledType, RateTypes DEF Least
<1> QED
  BY <1>1, <1>2

-----------------------------------------------------------------------------
(* The observer: what a bucket may admit in a stretch of time and what it  *)
(* will, tied to what the bucket holds.                                    *)

WatchedAtMost ==
    taken * TicksPerSecond + Refilled(watched)
        <= Capacity(watched) + RateOf(watched) * elapsed
WatchedAtLeast ==
    Least(Capacity(watched), RateOf(watched) * elapsed)
        <= Refilled(watched) + taken * TicksPerSecond

LimitsInv ==
    /\ LimitsTypeOK
    /\ RateOf(watched) > 0
    /\ WatchedAtMost /\ WatchedAtLeast

LEMMA LimitsInitially == ASSUME LimitsInit PROVE LimitsInv
<1>1. LimitsTypeOK
  <2>1. \A b \in Bucket : Capacity(b) \in Nat
    BY RateTypes
  <2> QED
    BY <2>1 DEF LimitsInit, LimitsTypeOK
<1>2. watched \in Bucket /\ RateOf(watched) > 0
  BY DEF LimitsInit
<1>3. Refilled(watched) = Capacity(watched)
  <2>1. tokens[watched] = Capacity(watched)
    BY <1>2 DEF LimitsInit
  <2>2. idle[watched] * RateOf(watched) \in Nat
    BY <1>1, <1>2, RateTypes DEF LimitsTypeOK
  <2>3. Refilled(watched) = Least(tokens[watched] + idle[watched] * RateOf(watched), Capacity(watched))
    BY DEF Refilled
  <2>4. Capacity(watched) \in Nat
    BY <1>2, RateTypes
  <2> HIDE DEF Refilled
  <2> QED
    BY <2>1, <2>2, <2>3, <2>4 DEF Least
<1>4. RateOf(watched) * elapsed = 0 /\ taken * TicksPerSecond = 0
  BY <1>2, RateTypes DEF LimitsInit
<1>5. WatchedAtMost /\ WatchedAtLeast
  BY <1>2, <1>3, <1>4, RateTypes DEF WatchedAtMost, WatchedAtLeast, Least
<1> QED
  BY <1>1, <1>2, <1>5 DEF LimitsInv

LEMMA LimitsTypeKept ==
    ASSUME LimitsTypeOK, LimitsNext
    PROVE  LimitsTypeOK'
<1>1. CASE Tick
  BY <1>1 DEF Tick, LimitsTypeOK, Least, Capacity, RateOf
<1>2. CASE Watch
  BY <1>2 DEF Watch, LimitsTypeOK, buckets, Capacity, RateOf
<1>3. ASSUME NEW b \in Bucket, Admits(b) PROVE LimitsTypeOK'
  <2>1. taken' \in Nat /\ watched' = watched /\ elapsed' = elapsed
    BY <1>3 DEF Admits, Observe, LimitsTypeOK
  <2>2. CASE RateOf(b) = 0
    BY <1>3, <2>1, <2>2 DEF Admits, buckets, LimitsTypeOK, Capacity, RateOf
  <2>3. CASE RateOf(b) # 0
    <3>1. Refilled(b) - TicksPerSecond \in Nat /\ Refilled(b) - TicksPerSecond <= Capacity(b)
      BY <1>3, <2>3, RefilledType, RateTypes DEF Admits, HasToken
    <3>2. tokens' = [tokens EXCEPT ![b] = Refilled(b) - TicksPerSecond]
          /\ idle' = [idle EXCEPT ![b] = 0]
      BY <1>3, <2>3 DEF Admits
    <3> QED
      BY <2>1, <3>1, <3>2 DEF LimitsTypeOK, Capacity, RateOf
  <2> QED
    BY <2>2, <2>3
<1>4. ASSUME NEW b \in Bucket, Refuses(b) PROVE LimitsTypeOK'
  <2>1. Refilled(b) \in Nat /\ Refilled(b) <= Capacity(b)
    BY RefilledType
  <2> QED
    BY <1>4, <2>1 DEF Refuses, observer, LimitsTypeOK, Capacity, RateOf
<1> QED
  BY <1>1, <1>2, <1>3, <1>4 DEF LimitsNext

LEMMA LimitsKept ==
    ASSUME LimitsInv, LimitsNext
    PROVE  LimitsInv'
<1> DEFINE R == RateOf(watched)  C == Capacity(watched)  T == TicksPerSecond
           L == Refilled(watched)
<1>1. LimitsTypeOK /\ watched \in Bucket /\ R > 0 /\ WatchedAtMost /\ WatchedAtLeast
  BY DEF LimitsInv, LimitsTypeOK
<1>2. R \in Nat /\ C \in Nat /\ L \in Nat /\ L <= C /\ T \in Nat /\ taken \in Nat /\ elapsed \in Nat
  BY <1>1, RateTypes, RefilledType DEF LimitsTypeOK
<1>3. taken * T \in Nat /\ R * elapsed \in Nat
  BY <1>2
<1>4. taken * T + L <= C + R * elapsed /\ Least(C, R * elapsed) <= L + taken * T
  BY <1>1 DEF WatchedAtMost, WatchedAtLeast
<1>5. LimitsTypeOK'
  BY <1>1, LimitsTypeKept
<1>6. watched' = watched
  BY DEF LimitsNext, Tick, Watch, Admits, Refuses, observer
<1>7. RateOf(watched)' = R /\ Capacity(watched)' = C
  BY <1>6 DEF RateOf, Capacity
<1>8. SUFFICES /\ taken' * T + Refilled(watched)' <= C + R * elapsed'
               /\ Least(C, R * elapsed') <= Refilled(watched)' + taken' * T
  BY <1>1, <1>5, <1>7 DEF LimitsInv, WatchedAtMost, WatchedAtLeast
<1>9. CASE Tick
  <2>1. Refilled(watched)' = Least(L + R, C)
    <3>1. \A b \in Bucket : Refilled(b)' = Least(Refilled(b) + RateOf(b), Capacity(b))
      BY <1>1, <1>9, TickRefills
    <3>2. Refilled(watched)' = Least(tokens'[watched] + idle'[watched] * RateOf(watched), Capacity(watched))
      BY <1>6 DEF Refilled, Capacity, RateOf
    <3> QED
      BY <1>1, <3>1, <3>2 DEF Refilled, Capacity, RateOf
  <2>2. CASE elapsed < Horizon
    <3>1. taken' * T = taken * T
      BY <1>9, <2>2 DEF Tick
    <3>2. R * elapsed' = R * elapsed + R
      BY <1>2, <1>9, <2>2 DEF Tick
    <3> HIDE DEF R, C, T, L
    <3> QED
      BY <1>2, <1>3, <1>4, <2>1, <3>1, <3>2 DEF Least
  <2>3. CASE ~(elapsed < Horizon)
    <3>1. taken' * T = 0 /\ R * elapsed' = 0
      BY <1>2, <1>9, <2>3 DEF Tick
    <3> HIDE DEF R, C, T, L
    <3> QED
      BY <1>2, <2>1, <3>1 DEF Least
  <2> QED
    BY <2>2, <2>3
<1>10. CASE Watch
  <2>1. Refilled(watched)' = L
    BY <1>6, <1>10 DEF Watch, buckets, Refilled, Capacity, RateOf
  <2>2. taken' * T = 0 /\ R * elapsed' = 0
    BY <1>2, <1>10 DEF Watch
  <2> HIDE DEF R, C, T, L
  <2> QED
    BY <1>2, <2>1, <2>2 DEF Least
<1>11. ASSUME NEW b \in Bucket, Admits(b)
       PROVE  /\ taken' * T + Refilled(watched)' <= C + R * elapsed'
              /\ Least(C, R * elapsed') <= Refilled(watched)' + taken' * T
  <2>1. Refilled(watched)' = IF watched = b /\ RateOf(b) > 0 THEN Refilled(b) - T ELSE L
    <3>1. \A w \in Bucket : Refilled(w)' = IF w = b /\ RateOf(b) > 0 THEN Refilled(b) - T
                                           ELSE Refilled(w)
      BY <1>1, <1>11, AdmitsTakes
    <3> QED
      BY <1>1, <1>6, <3>1 DEF Refilled, Capacity, RateOf
  <2>2. R * elapsed' = R * elapsed
    BY <1>11 DEF Admits
  <2>3. taken' * T = IF watched = b THEN taken * T + T ELSE taken * T
    <3>1. taken' = IF watched = b THEN taken + 1 ELSE taken
      BY <1>11 DEF Admits, Observe
    <3> QED
      BY <1>2, <3>1
  <2>4. watched = b => Refilled(b) = L /\ RateOf(b) > 0
    BY <1>1
  <2> HIDE DEF R, C, T, L
  <2> QED
    BY <1>2, <1>3, <1>4, <2>1, <2>2, <2>3, <2>4 DEF Least
<1>12. ASSUME NEW b \in Bucket, Refuses(b)
       PROVE  /\ taken' * T + Refilled(watched)' <= C + R * elapsed'
              /\ Least(C, R * elapsed') <= Refilled(watched)' + taken' * T
  <2>1. Refilled(watched)' = L
    <3>1. \A w \in Bucket : Refilled(w)' = Refilled(w)
      BY <1>1, <1>12, RefusesKeeps
    <3> QED
      BY <1>1, <1>6, <3>1 DEF Refilled, Capacity, RateOf
  <2>2. taken' = taken /\ elapsed' = elapsed
    BY <1>12 DEF Refuses, observer
  <2> QED
    BY <1>4, <2>1, <2>2
<1> QED
  BY <1>9, <1>10, <1>11, <1>12 DEF LimitsNext

LEMMA LimitsStutter ==
    ASSUME LimitsInv, UNCHANGED limits
    PROVE  LimitsInv'
BY DEF limits, buckets, observer, LimitsInv, LimitsTypeOK, WatchedAtMost,
       WatchedAtLeast, Refilled, Capacity, RateOf

\* Whatever a step of Admission does, it moves the buckets as they may move.
LEMMA StepsOfLimits ==
    ASSUME [Next]_vars
    PROVE  [LimitsNext]_limits
<1>1. CASE Clock
  BY <1>1 DEF Clock, LimitsNext
<1>2. CASE Swap \/ UNCHANGED vars
  BY <1>2 DEF Swap, vars
<1>3. ASSUME NEW r \in Request, WithinRate(r) \/ RateLimited(r)
      PROVE  LimitsNext
  <2>1. \A s \in Identities(r) : <<LimiterOf(r), s>> \in Bucket
    BY AdmissionAssumption DEF Identities, LimiterOf, Bucket
  <2> QED
    BY <1>3, <2>1 DEF WithinRate, RateLimited, LimitsNext
<1>4. ASSUME NEW r \in Request,
             \/ Arrive(r) \/ ReadBody(r) \/ BadBody(r) \/ Stall(r) \/ DeadlinePasses(r) \/ HangUp(r)
             \/ Unauthorized(r) \/ Unrouted(r) \/ Resolve(r) \/ Refused(r)
             \/ Serve(r) \/ DoItem(r) \/ AnswerBatch(r)
      PROVE  UNCHANGED limits
  BY <1>4 DEF Arrive, ReadBody, BadBody, Stall, DeadlinePasses, HangUp, Unauthorized, Unrouted,
              Resolve, Refused, Serve, DoItem, AnswerBatch
<1> QED
  BY <1>1, <1>2, <1>3, <1>4 DEF Next, Handle

LEMMA LimitsAlways == Spec => []LimitsInv
<1>1. Init => LimitsInv
  BY LimitsInitially DEF Init
<1>2. LimitsInv /\ [Next]_vars => LimitsInv'
  BY StepsOfLimits, LimitsKept, LimitsStutter
<1> QED
  BY <1>1, <1>2, PTL DEF Spec

(* NeverOverRate for every rate, stretch of time and number of systems:    *)
(* what try_take gives out is bounded by what a second and the time bring. *)
THEOREM AdmissionNeverOverRate == Spec => []NeverOverRate
<1>1. LimitsInv => NeverOverRate
  <2> SUFFICES ASSUME LimitsInv PROVE NeverOverRate
    OBVIOUS
  <2> DEFINE R == RateOf(watched)  T == TicksPerSecond
  <2>1. watched \in Bucket /\ taken \in Nat /\ elapsed \in Nat /\ LimitsTypeOK
    BY DEF LimitsInv, LimitsTypeOK
  <2>2. R \in Nat /\ Capacity(watched) = R * T /\ Refilled(watched) \in Nat
    BY <2>1, RateTypes, RefilledType
  <2>3. taken * T + Refilled(watched) <= R * T + R * elapsed
    BY <2>2 DEF LimitsInv, WatchedAtMost
  <2>4. R * T + R * elapsed = R * (T + elapsed)
    BY <2>1, <2>2
  <2>5. taken * T \in Nat /\ R * T \in Nat /\ R * elapsed \in Nat
    BY <2>1, <2>2
  <2>6. taken * T <= R * (T + elapsed)
    BY <2>2, <2>3, <2>4, <2>5
  <2> QED
    BY <2>6 DEF NeverOverRate
<1> QED
  BY <1>1, LimitsAlways, PTL

(* AdmitsUpToRate for every rate: a refusal means that the system has had  *)
(* its rate in the last second, whatever it and others asked before.       *)
THEOREM AdmissionUpToRate == Spec => []AdmitsUpToRate
<1>1. LimitsInv => AdmitsUpToRate
  <2> SUFFICES ASSUME LimitsInv, elapsed >= TicksPerSecond, taken < RateOf(watched)
               PROVE  HasToken(watched)
    BY DEF AdmitsUpToRate
  <2> DEFINE R == RateOf(watched)  T == TicksPerSecond
  <2>1. watched \in Bucket /\ taken \in Nat /\ elapsed \in Nat /\ LimitsTypeOK
    BY DEF LimitsInv, LimitsTypeOK
  <2>2. R \in Nat /\ Capacity(watched) = R * T /\ Refilled(watched) \in Nat
    BY <2>1, RateTypes, RefilledType
  <2>3. Least(R * T, R * elapsed) <= Refilled(watched) + taken * T
    BY <2>2 DEF LimitsInv, WatchedAtLeast
  <2>4. R * T <= R * elapsed
    BY <2>1, <2>2
  <2>5. (taken + 1) * T <= R * T
    BY <2>1, <2>2
  <2>6. (taken + 1) * T = taken * T + T
    BY <2>1
  <2>7. taken * T \in Nat /\ R * T \in Nat /\ R * elapsed \in Nat
    BY <2>1, <2>2
  <2>8. T <= Refilled(watched)
    BY <2>2, <2>3, <2>4, <2>5, <2>6, <2>7 DEF Least
  <2> QED
    BY <2>8 DEF HasToken
<1> QED
  BY <1>1, LimitsAlways, PTL

-----------------------------------------------------------------------------
(* The requests.                                                           *)

Holders == {r \in Request : HoldsPermit(r)}

RequestsInv ==
    /\ inForce \in Config
    /\ permits \in Nat
    /\ pc \in [Request -> Labels]
    /\ op \in [Request -> Operations \union {"none"}]
    /\ who \in [Request -> System \union {NoSystem}]
    /\ policy \in [Request -> Config \union {NoConfig}]
    /\ texts \in [Request -> Nat] /\ late \in [Request -> BOOLEAN]
    /\ results \in [Request -> Seq(ItemType)]
    /\ \A r \in Request : pc[r] = "gone" <=> op[r] = "none"
    /\ \A r \in Request : pc[r] = "serve" => policy[r] \in Config
    /\ permits + Cardinality(Holders) = MaxInflight

LEMMA HoldersFinite == IsFiniteSet(Holders) /\ Cardinality(Holders) \in Nat
<1>1. IsFiniteSet(Request) /\ Holders \subseteq Request
  BY AdmissionAssumption DEF Holders
<1> QED
  BY <1>1, FS_Subset, FS_CardinalityType

LEMMA RequestsInitially == ASSUME Init PROVE RequestsInv
<1>1. Holders = {}
  BY DEF Init, Holders, HoldsPermit, Batches
<1>2. permits + Cardinality(Holders) = MaxInflight
  BY <1>1, FS_EmptySet, AdmissionAssumption DEF Init
<1> QED
  BY <1>2, AdmissionAssumption DEF Init, RequestsInv, Labels

\* A request that ends gives its permit back if it holds one.
LEMMA EndKeeps ==
    ASSUME RequestsInv, NEW r \in Request, End(r), UNCHANGED inForce
    PROVE  RequestsInv'
<1> USE DEF RequestsInv
<1>1. Holders' = Holders \ {r}
  BY DEF End, Holders, HoldsPermit, Batches
<1>2. permits' + Cardinality(Holders') = MaxInflight
  <2>1. CASE HoldsPermit(r)
    <3>1. r \in Holders
      BY <2>1 DEF Holders
    <3>2. Cardinality(Holders') = Cardinality(Holders) - 1
      BY <1>1, <3>1, HoldersFinite, FS_RemoveElement
    <3> QED
      BY <2>1, <3>2, HoldersFinite DEF End
  <2>2. CASE ~HoldsPermit(r)
    <3>1. Holders' = Holders
      BY <1>1, <2>2 DEF Holders
    <3> QED
      BY <2>2, <3>1 DEF End
  <2> QED
    BY <2>1, <2>2
<1>3. permits' \in Nat
  BY DEF End
<1> QED
  BY <1>2, <1>3 DEF End, Goto, Labels

LEMMA ArriveKeeps ==
    ASSUME RequestsInv, NEW r \in Request, Arrive(r)
    PROVE  RequestsInv'
<1> USE DEF RequestsInv
<1>1. PICK o \in Ops[r] :
        /\ o # "proxy" => permits > 0
        /\ permits' = IF o = "proxy" THEN permits ELSE permits - 1
        /\ op' = [op EXCEPT ![r] = o]
  BY DEF Arrive
<1>2. o \in Operations
  BY AdmissionAssumption
<1>3. r \notin Holders
  BY DEF Arrive, Holders, HoldsPermit, Batches
<1>4. permits' + Cardinality(Holders') = MaxInflight
  <2>1. CASE o = "proxy"
    <3>1. Holders' = Holders
      BY <1>1, <1>3, <2>1 DEF Holders, HoldsPermit, Batches
    <3> QED
      BY <1>1, <2>1, <3>1
  <2>2. CASE o # "proxy"
    <3>1. Holders' = Holders \union {r}
      BY <1>1, <1>2, <2>2 DEF Holders, HoldsPermit, Operations, Batches
    <3>2. Cardinality(Holders') = Cardinality(Holders) + 1
      BY <1>3, <3>1, HoldersFinite, FS_AddElement
    <3> QED
      BY <1>1, <2>2, <3>2, HoldersFinite
  <2> QED
    BY <2>1, <2>2
<1> QED
  BY <1>1, <1>2, <1>4 DEF Arrive, Goto, Labels, Operations, Batches

\* The steps of a request that neither begin nor end it.
LEMMA OnwardKeeps ==
    ASSUME RequestsInv, NEW r \in Request,
           WithinRate(r) \/ ReadBody(r) \/ Stall(r) \/ Resolve(r) \/ DoItem(r) \/ DeadlinePasses(r)
    PROVE  RequestsInv'
<1> USE DEF RequestsInv
<1>1. UNCHANGED <<permits, op>>
  BY DEF WithinRate, ReadBody, Stall, Resolve, DoItem, DeadlinePasses
<1>2. permits' + Cardinality(Holders') = MaxInflight
  BY <1>1 DEF Holders, HoldsPermit
<1>3. CASE WithinRate(r)
  <2>1. PICK s \in Identities(r) : who' = [who EXCEPT ![r] = s]
    BY <1>3 DEF WithinRate
  <2>2. s \in System
    BY AdmissionAssumption DEF Identities
  <2> QED
    BY <1>1, <1>2, <1>3, <2>1, <2>2 DEF WithinRate, Goto, Labels
<1>4. CASE ReadBody(r)
  <2>1. PICK n \in 0..MaxTexts : texts' = [texts EXCEPT ![r] = IF op[r] \in Batches THEN n ELSE 0]
    BY <1>4 DEF ReadBody
  <2>2. texts' \in [Request -> Nat]
    BY <2>1, AdmissionAssumption
  <2> QED
    BY <1>1, <1>2, <1>4, <2>2 DEF ReadBody, Goto, Labels
<1>5. CASE Resolve(r)
  BY <1>1, <1>2, <1>5 DEF Resolve, Goto, Labels
<1>6. CASE DoItem(r)
  <2>1. PICK outcome \in ItemOutcomes(r) :
          results' = [results EXCEPT ![r] = Append(results[r], Item(r, outcome, policy[r]))]
    BY <1>6 DEF DoItem
  <2>2. Item(r, outcome, policy[r]) \in ItemType
    <3>1. results[r] \in Seq(ItemType) /\ Len(results[r]) \in Nat
      BY LenProperties
    <3>2. policy[r] \in Config
      BY <1>6 DEF DoItem
    <3>3. outcome \in Outcomes
      BY DEF ItemOutcomes, Outcomes
    <3> QED
      BY <3>1, <3>2, <3>3 DEF Item, ItemType
  <2>3. Append(results[r], Item(r, outcome, policy[r])) \in Seq(ItemType)
    BY <2>2, AppendProperties
  <2>4. results' \in [Request -> Seq(ItemType)]
    BY <2>1, <2>3
  <2>5. texts' \in [Request -> Nat]
    BY <1>6 DEF DoItem
  <2> QED
    BY <1>1, <1>2, <1>6, <2>4, <2>5 DEF DoItem
<1>7. CASE DeadlinePasses(r)
  BY <1>1, <1>2, <1>7 DEF DeadlinePasses
<1>8. CASE Stall(r)
  BY <1>1, <1>2, <1>8 DEF Stall, Goto, Labels
<1> QED
  BY <1>3, <1>4, <1>5, <1>6, <1>7, <1>8

LEMMA RequestsKept ==
    ASSUME RequestsInv, [Next]_vars
    PROVE  RequestsInv'
<1>1. CASE Swap \/ Clock \/ UNCHANGED vars
  <2>1. UNCHANGED requests /\ inForce' \in Config
    BY <1>1 DEF Swap, Clock, vars, RequestsInv
  <2>2. Holders' = Holders
    BY <2>1 DEF requests, Holders, HoldsPermit
  <2> QED
    BY <2>1, <2>2 DEF requests, RequestsInv
<1>2. ASSUME NEW r \in Request,
             \/ Unauthorized(r) \/ RateLimited(r) \/ BadBody(r) \/ Unrouted(r) \/ Refused(r)
             \/ Serve(r) \/ AnswerBatch(r) \/ HangUp(r)
      PROVE  RequestsInv'
  <2>1. End(r) /\ UNCHANGED inForce
    BY <1>2 DEF Unauthorized, RateLimited, BadBody, Unrouted, Refused, Serve, AnswerBatch, HangUp
  <2> QED
    BY <2>1, EndKeeps
<1> QED
  BY <1>1, <1>2, ArriveKeeps, OnwardKeeps DEF Next, Handle

LEMMA RequestsAlways == Spec => []RequestsInv
BY RequestsInitially, RequestsKept, PTL DEF Spec

(* PermitsAccounted for any number of requests and permits, and all the    *)
(* ways of process_handler.rs out of a request.                            *)
THEOREM AdmissionAccountsPermits == Spec => []PermitsAccounted
<1>1. RequestsInv => PermitsAccounted
  BY DEF RequestsInv, PermitsAccounted, Holders
<1> QED
  BY <1>1, RequestsAlways, PTL

(* The type invariant of Admission; that permits stay within max_inflight  *)
(* is the count of the requests that hold one.                             *)
THEOREM AdmissionTypeCorrect == Spec => []TypeOK
<1>1. LimitsInv /\ RequestsInv => TypeOK
  <2> SUFFICES ASSUME LimitsInv, RequestsInv PROVE TypeOK
    OBVIOUS
  <2>1. permits \in 0..MaxInflight
    BY HoldersFinite, AdmissionAssumption DEF RequestsInv
  <2> QED
    BY <2>1 DEF TypeOK, LimitsInv, RequestsInv
<1> QED
  BY <1>1, LimitsAlways, RequestsAlways, PTL

-----------------------------------------------------------------------------
(* The items of a batch.                                                   *)

\* Items are there only while the batch is served, and one that timed out
\* means that the deadline is over, which does not come back.
BatchInv ==
    /\ RequestsInv
    /\ \A r \in Request :
          /\ pc[r] # "serve" => results[r] = <<>>
          /\ ~late[r] => \A i \in 1..Len(results[r]) : results[r][i].outcome # "timeout"
    /\ BatchHangsTogether

LEMMA BatchInitially == Init => BatchInv
BY RequestsInitially DEF Init, BatchInv, BatchHangsTogether

LEMMA DoItemKeepsBatch ==
    ASSUME BatchInv, NEW r \in Request, DoItem(r)
    PROVE  BatchInv'
<1>1. RequestsInv'
  BY OnwardKeeps DEF BatchInv
<1>2. PICK outcome \in ItemOutcomes(r) :
        results' = [results EXCEPT ![r] = Append(results[r], Item(r, outcome, policy[r]))]
  BY DEF DoItem
<1>3. /\ UNCHANGED <<pc, policy, late>> /\ pc[r] = "serve" /\ late[r] \in BOOLEAN
      /\ results \in [Request -> Seq(ItemType)] /\ results[r] \in Seq(ItemType)
  BY DEF DoItem, BatchInv, RequestsInv
<1> DEFINE n == Len(results[r])
           item == Item(r, outcome, policy[r])
<1>4. /\ n \in Nat /\ Len(results'[r]) = n + 1 /\ results'[r][n + 1] = item
      /\ \A i \in 1..n : results'[r][i] = results[r][i]
      /\ \A q \in Request : q # r => results'[q] = results[q]
  BY <1>2, <1>3
<1>5. item.index = n /\ item.policy = policy[r] /\ item.outcome = outcome
  BY DEF Item
<1>6. outcome = "masked" => ~late[r]
  BY <1>3 DEF ItemOutcomes
<1>7. outcome = "timeout" => late[r]
  BY <1>3 DEF ItemOutcomes
<1>8. ASSUME NEW q \in Request
      PROVE  /\ pc'[q] # "serve" => results'[q] = <<>>
             /\ ~late'[q] => \A i \in 1..Len(results'[q]) : results'[q][i].outcome # "timeout"
  <2>1. CASE q # r
    BY <1>3, <1>4, <2>1 DEF BatchInv
  <2>2. CASE q = r
    <3>1. ~late[r] => /\ item.outcome # "timeout"
                      /\ \A i \in 1..n : results'[r][i].outcome # "timeout"
      BY <1>4, <1>5, <1>7 DEF BatchInv
    <3>2. \A i \in 1..n + 1 : i \in 1..n \/ i = n + 1
      BY <1>4
    <3> HIDE DEF n, item
    <3>3. ~late[r] => \A i \in 1..n + 1 : results'[r][i].outcome # "timeout"
      BY <1>4, <3>1, <3>2
    <3>4. QED
      BY <1>3, <1>4, <2>2, <3>3
  <2>3. QED
    BY <2>1, <2>2
<1>9. BatchHangsTogether'
  <2> SUFFICES ASSUME NEW q \in Request, NEW i \in 1..Len(results'[q])
               PROVE  /\ results'[q][i].index = i - 1
                      /\ results'[q][i].policy = policy[q]
                      /\ results'[q][i].outcome = "masked" =>
                            \A j \in 1..i - 1 : results'[q][j].outcome # "timeout"
    BY <1>3 DEF BatchHangsTogether
  <2>1. CASE q # r
    BY <1>4, <2>1 DEF BatchInv, BatchHangsTogether
  <2>2. CASE q = r /\ i <= n
    <3>1. i \in 1..n /\ \A j \in 1..i - 1 : j \in 1..n
      BY <1>4, <2>2
    <3>2. /\ results[r][i].index = i - 1 /\ results[r][i].policy = policy[r]
          /\ results[r][i].outcome = "masked" =>
                \A j \in 1..i - 1 : results[r][j].outcome # "timeout"
      BY <3>1 DEF BatchInv, BatchHangsTogether
    <3>3. results'[q][i] = results[r][i]
      BY <1>4, <2>2, <3>1
    <3>4. \A j \in 1..i - 1 : results'[q][j] = results[r][j]
      BY <1>4, <2>2, <3>1
    <3>5. QED
      BY <2>2, <3>2, <3>3, <3>4
  <2>3. CASE q = r /\ i = n + 1
    <3>1. ~late[r] => \A j \in 1..n : results'[r][j].outcome # "timeout"
      BY <1>4 DEF BatchInv
    <3>2. QED
      BY <1>4, <1>5, <1>6, <2>3, <3>1
  <2>4. QED
    BY <1>4, <2>1, <2>2, <2>3
<1>10. QED
  BY <1>1, <1>8, <1>9 DEF BatchInv

LEMMA BatchKept ==
    ASSUME BatchInv, [Next]_vars
    PROVE  BatchInv'
<1>1. RequestsInv /\ RequestsInv'
  BY RequestsKept DEF BatchInv
<1>2. ASSUME UNCHANGED <<pc, policy, late, results>>
      PROVE  BatchInv'
  BY <1>1, <1>2 DEF BatchInv, BatchHangsTogether
<1>3. CASE Swap \/ Clock \/ UNCHANGED vars
  BY <1>2, <1>3 DEF Swap, Clock, vars, requests
\* What changes only where there are no items.
<1>4. ASSUME NEW r \in Request, results'[r] = <<>>,
             \A q \in Request : q # r => /\ results'[q] = results[q] /\ pc'[q] = pc[q]
                                         /\ policy'[q] = policy[q] /\ late'[q] = late[q]
      PROVE  BatchInv'
  <2>1. \A q \in Request :
          /\ pc'[q] # "serve" => results'[q] = <<>>
          /\ ~late'[q] => \A i \in 1..Len(results'[q]) : results'[q][i].outcome # "timeout"
    BY <1>4 DEF BatchInv
  <2>2. BatchHangsTogether'
    BY <1>4 DEF BatchInv, BatchHangsTogether
  <2>3. QED
    BY <1>1, <2>1, <2>2 DEF BatchInv
<1>5. ASSUME NEW r \in Request, End(r)
      PROVE  BatchInv'
  <2>1. results'[r] = <<>>
    BY <1>1, <1>5 DEF RequestsInv, End
  <2>2. \A q \in Request : q # r => results'[q] = results[q] /\ pc'[q] = pc[q]
    BY <1>1, <1>5 DEF RequestsInv, End, Goto
  <2>3. \A q \in Request : q # r => policy'[q] = policy[q] /\ late'[q] = late[q]
    BY <1>1, <1>5 DEF RequestsInv, End
  <2>4. QED
    BY <1>4, <2>1, <2>2, <2>3
<1>6. ASSUME NEW r \in Request, Arrive(r) \/ WithinRate(r) \/ ReadBody(r) \/ Stall(r) \/ Resolve(r)
      PROVE  BatchInv'
  <2>1. /\ pc[r] # "serve" /\ UNCHANGED <<results, late>>
        /\ \A q \in Request : q # r => pc'[q] = pc[q] /\ policy'[q] = policy[q]
    BY <1>1, <1>6 DEF RequestsInv, Arrive, WithinRate, ReadBody, Stall, Resolve, Goto
  <2>2. results'[r] = <<>>
    BY <2>1 DEF BatchInv
  <2>3. QED
    BY <1>4, <2>1, <2>2
<1>7. ASSUME NEW r \in Request, DeadlinePasses(r)
      PROVE  BatchInv'
  <2>1. UNCHANGED <<pc, policy, results>> /\ \A q \in Request : ~late'[q] => ~late[q]
    BY <1>1, <1>7 DEF RequestsInv, DeadlinePasses
  <2>2. QED
    BY <1>1, <2>1 DEF BatchInv, BatchHangsTogether
<1>8. ASSUME NEW r \in Request,
             \/ Unauthorized(r) \/ RateLimited(r) \/ BadBody(r) \/ Unrouted(r) \/ Refused(r)
             \/ Serve(r) \/ AnswerBatch(r) \/ HangUp(r)
      PROVE  End(r)
  BY <1>8 DEF Unauthorized, RateLimited, BadBody, Unrouted, Refused, Serve, AnswerBatch, HangUp
<1>9. QED
  BY <1>3, <1>5, <1>6, <1>7, <1>8, DoItemKeepsBatch DEF Next, Handle

(* A batch is answered item by item in the order of its texts, under one   *)
(* policy whatever is reloaded meanwhile, and after an item that timed out *)
(* none is called completely masked, for any number of texts.              *)
THEOREM AdmissionBatchHangsTogether == Spec => []BatchHangsTogether
<1>1. BatchInv => BatchHangsTogether
  BY DEF BatchInv
<1>2. QED
  BY <1>1, BatchInitially, BatchKept, PTL DEF Spec
=============================================================================
