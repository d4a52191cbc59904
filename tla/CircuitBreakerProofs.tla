------------------------ MODULE CircuitBreakerProofs ------------------------
(***************************************************************************)
(* The counts of CircuitBreaker stay bounded, for any window and any       *)
(* number of callers.                                                      *)
(***************************************************************************)
EXTENDS CircuitBreaker, FiniteSetTheorems, TLAPS

USE BreakerAssumption

\* Those that have found the window full and have not reset total yet.
Overdue ==
    {c \in Caller : \/ pc[c] \in {"add_failure", "judge"} /\ Full(c)
                    \/ pc[c] = "reset_total"}

Types ==
    /\ state \in {"closed", "open", "half_open"}
    /\ failures \in Nat /\ total \in Nat /\ age \in 0..OpenSeconds
    /\ pc \in [Caller -> Labels]
    /\ read \in [Caller -> 0..OpenSeconds]
    /\ seen \in [Caller -> 0..MaxTotal]
    /\ stores \in [Caller -> SUBSET {"opened_at", "state"}]

\* Whoever takes total beyond the window is among those that will reset it.
Inv == Types /\ total <= Window + Cardinality(Overdue)

LEMMA OverdueBound ==
    /\ IsFiniteSet(Overdue)
    /\ Cardinality(Overdue) \in Nat /\ Cardinality(Overdue) <= Cardinality(Caller)
    /\ MaxTotal \in Nat
<1>1. Overdue \subseteq Caller
  BY DEF Overdue
<1>2. IsFiniteSet(Overdue) /\ Cardinality(Overdue) <= Cardinality(Caller)
  BY <1>1, FS_Subset
<1>3. Cardinality(Overdue) \in Nat /\ Cardinality(Caller) \in Nat
  BY <1>2, FS_CardinalityType
<1> QED
  BY <1>2, <1>3 DEF MaxTotal

LEMMA InvInit == Init => Inv
<1> SUFFICES ASSUME Init PROVE Inv
  OBVIOUS
<1>1. Types
  BY OverdueBound DEF Init, Types, Labels
<1> QED
  BY <1>1, OverdueBound DEF Init, Inv

\* A step that leaves total as it is and makes no one less overdue.
LEMMA SameTotal ==
    ASSUME Inv, Types', total' = total, Overdue \subseteq Overdue'
    PROVE  Inv'
<1>1. IsFiniteSet(Overdue') /\ Cardinality(Overdue') \in Nat
  <2>1. Overdue' \subseteq Caller
    BY DEF Overdue
  <2> QED
    BY <2>1, FS_Subset, FS_CardinalityType
<1>2. Cardinality(Overdue) <= Cardinality(Overdue')
  BY <1>1, FS_Subset
<1> QED
  BY <1>1, <1>2, OverdueBound DEF Inv, Types

\* Where a caller goes, the others stay.
LEMMA Going ==
    ASSUME Types, NEW c \in Caller, NEW label \in Labels, Goto(c, label)
    PROVE  /\ pc' \in [Caller -> Labels] /\ pc'[c] = label
           /\ \A d \in Caller \ {c} : pc'[d] = pc[d]
  BY DEF Types, Goto

LEMMA AddTotalStep ==
    ASSUME Inv, NEW c \in Caller, AddTotal(c)
    PROVE  Inv'
<1>1. /\ pc[c] \in {"success", "failure"} /\ total' = total + 1
      /\ seen' = [seen EXCEPT ![c] = total + 1]
      /\ pc'[c] \in {"judge", "add_failure"}
      /\ \A d \in Caller \ {c} : pc'[d] = pc[d] /\ seen'[d] = seen[d]
      /\ UNCHANGED <<state, failures, age, read, stores>>
      /\ pc' \in [Caller -> Labels] /\ seen'[c] = total + 1
  BY DEF AddTotal, Goto, Inv, Types, Labels
<1>2. c \notin Overdue
  BY <1>1 DEF Overdue
<1>3. Cardinality(Overdue) < Cardinality(Caller)
  <2>1. Overdue \subseteq Caller \ {c}
    BY <1>2 DEF Overdue
  <2>2. IsFiniteSet(Caller \ {c}) /\ Cardinality(Caller \ {c}) = Cardinality(Caller) - 1
    BY FS_RemoveElement
  <2>3. Cardinality(Overdue) <= Cardinality(Caller) - 1
    BY <2>1, <2>2, FS_Subset
  <2> QED
    BY <2>3, OverdueBound, FS_CardinalityType
<1>4. total + 1 \in 0..MaxTotal
  BY <1>3, OverdueBound, FS_CardinalityType DEF Inv, Types, MaxTotal
<1>5. Types'
  BY <1>1, <1>4 DEF Inv, Types
<1>6. CASE total + 1 >= Window
  <2>1. Overdue' = Overdue \union {c}
    BY <1>1, <1>6 DEF Overdue, Full
  <2>2. Cardinality(Overdue') = Cardinality(Overdue) + 1
    BY <1>2, <2>1, OverdueBound, FS_AddElement
  <2> QED
    BY <1>1, <1>5, <2>2, OverdueBound DEF Inv, Types
<1>7. CASE total + 1 < Window
  <2>1. Overdue' = Overdue
    BY <1>1, <1>2, <1>7 DEF Overdue, Full, Inv, Types
  <2> QED
    BY <1>1, <1>5, <1>7, <2>1, OverdueBound DEF Inv, Types
<1> QED
  BY <1>6, <1>7 DEF Inv, Types

LEMMA InvStep == Inv /\ [Next]_vars => Inv'
<1> SUFFICES ASSUME Inv, [Next]_vars PROVE Inv'
  OBVIOUS
<1>0. Types
  BY DEF Inv
<1>1. ASSUME UNCHANGED <<state, failures, total, pc, seen, stores>>,
             age' \in 0..OpenSeconds, read' \in [Caller -> 0..OpenSeconds]
      PROVE  Inv'
  <2>1. Types'
    BY <1>0, <1>1 DEF Types
  <2>2. Overdue' = Overdue
    BY <1>1 DEF Overdue, Full
  <2> QED
    BY <1>1, <2>1, <2>2, SameTotal
<1>2. CASE Tick
  <2>1. \A n \in 0..OpenSeconds : Older(n) \in 0..OpenSeconds
    BY DEF Older
  <2> QED
    BY <1>0, <1>1, <1>2, <2>1 DEF Tick, Types
<1>3. CASE UNCHANGED vars
  BY <1>0, <1>1, <1>3 DEF vars, atomics, locals, Types
<1>4. ASSUME NEW c \in Caller, NEW label \in Labels, Goto(c, label),
             pc[c] \notin {"add_failure", "judge", "reset_total"},
             UNCHANGED <<total, seen>>, Types'
      PROVE  Inv'
  <2>1. Overdue \subseteq Overdue'
    BY <1>0, <1>4, Going DEF Overdue, Full
  <2> QED
    BY <1>4, <2>1, SameTotal
<1>5. ASSUME NEW c \in Caller, Allow(c)
      PROVE  Inv'
  <2> USE DEF Labels
  <2>1. CASE LoadState(c)
    BY <1>0, <1>4, <2>1 DEF LoadState, Goto, Types, atomics, locals
  <2>2. CASE LoadOpenedAt(c)
    BY <1>0, <1>4, <2>2 DEF LoadOpenedAt, Goto, Types, atomics
  <2>3. CASE Compare(c)
    <3> DEFINE label == IF read[c] >= OpenSeconds THEN "store_half_open" ELSE "idle"
    <3>1. label \in Labels /\ Goto(c, label) /\ pc[c] = "compare"
      BY <2>3 DEF Compare
    <3>2. /\ read' = [read EXCEPT ![c] = 0]
          /\ UNCHANGED <<state, failures, total, age, seen, stores>>
      BY <2>3 DEF Compare, atomics
    <3> HIDE DEF label
    <3>3. pc' \in [Caller -> Labels] /\ read' \in [Caller -> 0..OpenSeconds]
      BY <1>0, <3>1, <3>2, Going DEF Types
    <3>4. Types'
      BY <1>0, <3>2, <3>3 DEF Types
    <3> QED
      BY <1>4, <3>1, <3>2, <3>4
  <2>4. CASE StoreHalfOpen(c)
    BY <1>0, <1>4, <2>4 DEF StoreHalfOpen, Goto, Types, locals
  <2> QED
    BY <1>5, <2>1, <2>2, <2>3, <2>4 DEF Allow
<1>6. ASSUME NEW c \in Caller, Call(c)
      PROVE  Inv'
  <2>1. PICK outcome \in Outcomes : Goto(c, IF outcome = "lost" THEN "idle" ELSE outcome)
    BY <1>6 DEF Call
  <2>2. (IF outcome = "lost" THEN "idle" ELSE outcome) \in Labels
    BY DEF Outcomes, Labels
  <2>3. Types'
    BY <1>0, <1>6, <2>1, <2>2, Going DEF Call, Types, atomics, locals
  <2> QED
    BY <1>4, <1>6, <2>1, <2>2, <2>3 DEF Call, atomics, locals
<1>7. ASSUME NEW c \in Caller, AddFailure(c)
      PROVE  Inv'
  <2>1. Types'
    BY <1>0, <1>7 DEF AddFailure, Goto, Types, Labels, locals
  <2>2. Overdue \subseteq Overdue'
    BY <1>0, <1>7 DEF AddFailure, Goto, Types, Overdue, Full, locals
  <2> QED
    BY <1>7, <2>1, <2>2, SameTotal DEF AddFailure
<1>8. ASSUME NEW c \in Caller, Judge(c)
      PROVE  Inv'
  <2>1. Types'
    <3>1. /\ failures' \in Nat /\ stores' \in [Caller -> SUBSET {"opened_at", "state"}]
          /\ pc' \in [Caller -> Labels]
      BY <1>0, <1>8 DEF Judge, Goto, Types, Labels
    <3>2. seen' \in [Caller -> 0..MaxTotal]
      BY <1>0, <1>8, OverdueBound DEF Judge, Types
    <3> QED
      BY <1>0, <1>8, <3>1, <3>2 DEF Judge, Types
  <2>2. Overdue \subseteq Overdue'
    <3>1. \A d \in Caller \ {c} : pc'[d] = pc[d] /\ seen'[d] = seen[d]
      BY <1>0, <1>8 DEF Judge, Goto, Types
    <3>2. pc[c] = "judge" /\ (Full(c) => pc'[c] = "reset_total")
      BY <1>0, <1>8 DEF Judge, Goto, Types
    <3> QED
      BY <3>1, <3>2 DEF Overdue, Full
  <2> QED
    BY <1>8, <2>1, <2>2, SameTotal DEF Judge
<1>9. ASSUME NEW c \in Caller, ResetTotal(c)
      PROVE  Inv'
  <2>1. Types' /\ total' = 0
    BY <1>0, <1>9 DEF ResetTotal, Goto, Types, Labels, locals
  <2>2. Cardinality(Overdue') \in Nat
    <3>1. Overdue' \subseteq Caller
      BY DEF Overdue
    <3> QED
      BY <3>1, FS_Subset, FS_CardinalityType
  <2> QED
    BY <2>1, <2>2 DEF Inv
<1>10. ASSUME NEW c \in Caller, Open(c)
       PROVE  Inv'
  <2>1. PICK s \in stores[c] :
            /\ stores' = [stores EXCEPT ![c] = @ \ {s}]
            /\ Goto(c, IF stores[c] = {s} THEN "idle" ELSE "open")
            /\ IF s = "opened_at" THEN age' = 0 /\ UNCHANGED state
               ELSE state' = "open" /\ UNCHANGED age
    BY <1>10 DEF Open
  <2>2. (IF stores[c] = {s} THEN "idle" ELSE "open") \in Labels
    BY DEF Labels
  <2>3. Types'
    BY <1>0, <1>10, <2>1, <2>2, Going DEF Open, Types
  <2> QED
    BY <1>4, <1>10, <2>1, <2>2, <2>3 DEF Open
<1> QED
  BY <1>2, <1>3, <1>5, <1>6, <1>7, <1>8, <1>9, <1>10, AddTotalStep DEF Next, Record

(* However calls reset each other's counts, the count of a window exceeds  *)
(* it by no more than one for every call in flight.                        *)
THEOREM BreakerTypeCorrect == Spec => []TypeOK
<1>1. Inv => TypeOK
  BY OverdueBound, FS_CardinalityType DEF Inv, Types, TypeOK, MaxTotal
<1> QED
  BY <1>1, InvInit, InvStep, PTL DEF Spec
=============================================================================
