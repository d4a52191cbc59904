--------------------------- MODULE MaskingProofs ---------------------------
(***************************************************************************)
(* What is proved of the operators of Masking and MaskState, for every set *)
(* of words, values and types, every text and every choice of maskers.     *)
(***************************************************************************)
EXTENDS MaskState, FiniteSetTheorems, FunctionTheorems, WellFoundedInduction, TLAPS

(* A nonempty set of natural numbers has a least element.                  *)
LEMMA LeastExists ==
    ASSUME NEW T \in SUBSET Nat, T # {}
    PROVE  \E x \in T : \A y \in T : x <= y
<1> DEFINE R == {ss \in Nat \X Nat : ss[1] < ss[2]}
<1>1. IsWellFoundedOn(R, Nat)
  BY NatLessThanWellFounded DEF OpToRel
<1>2. ASSUME NEW x \in Nat, NEW y \in Nat, y < x
      PROVE  <<y, x>> \in R
  <2> DEFINE ss == <<y, x>>
  <2>1. ss \in Nat \X Nat /\ ss[1] = y /\ ss[2] = x
    OBVIOUS
  <2> HIDE DEF ss
  <2>2. ss \in R
    BY <1>2, <2>1
  <2>3. QED
    BY <2>2 DEF ss
<1> HIDE DEF R
<1>3. PICK x \in T : \A y \in T : ~ (<<y, x>> \in R)
  BY <1>1, WFMin
<1>4. ASSUME NEW y \in T
      PROVE  x <= y
  <2>1. ~ (y < x)
    BY <1>2, <1>3
  <2>2. QED
    BY <2>1
<1>5. QED
  BY <1>4

(* A nonempty set of numbers up to n has a greatest element.               *)
LEMMA GreatestExists ==
    ASSUME NEW n \in Nat, NEW T \in SUBSET (1..n), T # {}
    PROVE  \E x \in T : \A y \in T : y <= x
<1> DEFINE U == {n - x : x \in T}
<1>1. U \in SUBSET Nat /\ U # {}
  <2>1. ASSUME NEW x \in T
        PROVE  n - x \in Nat
    OBVIOUS
  <2>2. QED
    BY <2>1
<1>2. PICK u \in U : \A y \in U : u <= y
  BY <1>1, LeastExists
<1>3. PICK x \in T : u = n - x
  BY <1>2
<1>4. ASSUME NEW y \in T
      PROVE  y <= x
  <2>1. n - x <= n - y
    BY <1>2, <1>3
  <2>2. QED
    BY <2>1
<1>5. QED
  BY <1>4

-----------------------------------------------------------------------------
(* Numbering.                                                              *)

(* Entities are positions of the text.                                     *)
LEMMA HitsArePositions ==
    ASSUME NEW t \in Text, NEW seen
    PROVE  /\ Len(t) \in Nat /\ DOMAIN t = 1..Len(t)
           /\ Hits(t, seen) \in SUBSET (1..Len(t))
           /\ \A p \in Hits(t, seen) : p \in Nat /\ p \in seen /\ t[p] \in Value
BY DEF Hits, Text

(* The first entity with the key of a given one exists and is the first.   *)
LEMMA FirstHitFacts ==
    ASSUME NEW t \in Text, NEW seen, NEW p \in Hits(t, seen)
    PROVE  /\ FirstHit(t, seen, p) \in Hits(t, seen)
           /\ SameKey(t[FirstHit(t, seen, p)], t[p])
           /\ \A r \in Hits(t, seen) :
                 SameKey(t[r], t[p]) => FirstHit(t, seen, p) <= r
<1> DEFINE T == {q \in Hits(t, seen) : SameKey(t[q], t[p])}
<1>1. T \in SUBSET Nat /\ p \in T
  BY HitsArePositions DEF SameKey
<1>2. PICK q \in T : \A r \in T : q <= r
  BY <1>1, LeastExists
<1>3. QED
  BY <1>2 DEF FirstHit

(* Entities of one key have one first entity.                              *)
LEMMA FirstHitSame ==
    ASSUME NEW t \in Text, NEW seen,
           NEW p \in Hits(t, seen), NEW q \in Hits(t, seen),
           SameKey(t[p], t[q])
    PROVE  FirstHit(t, seen, p) = FirstHit(t, seen, q)
<1>1. /\ FirstHit(t, seen, p) \in Nat /\ FirstHit(t, seen, q) \in Nat
  BY FirstHitFacts, HitsArePositions
<1>2. FirstHit(t, seen, p) <= FirstHit(t, seen, q)
  BY FirstHitFacts DEF SameKey
<1>3. FirstHit(t, seen, q) <= FirstHit(t, seen, p)
  BY FirstHitFacts DEF SameKey
<1>4. QED
  BY <1>1, <1>2, <1>3

(* The set whose size is the number of an entity is finite and holds the   *)
(* canonical form of the entity.                                           *)
LEMMA NumberedFacts ==
    ASSUME NEW t \in Text, NEW seen, NEW p \in Hits(t, seen)
    PROVE  /\ IsFiniteSet(Numbered(t, seen, p))
           /\ Canon[t[p]] \in Numbered(t, seen, p)
<1> DEFINE S == {r \in Hits(t, seen) : /\ TypeOf[t[r]] = TypeOf[t[p]]
                                       /\ r <= FirstHit(t, seen, p)}
           f == [r \in S |-> Canon[t[r]]]
<1>1. IsFiniteSet(S)
  <2>1. Len(t) \in Nat /\ S \in SUBSET (1..Len(t))
    BY HitsArePositions
  <2>2. IsFiniteSet(1..Len(t))
    BY <2>1, FS_Interval
  <2> HIDE DEF S
  <2>3. QED
    BY <2>1, <2>2, FS_Subset
<1>2. Numbered(t, seen, p) = {f[r] : r \in S}
  BY DEF Numbered
<1>3. f \in Surjection(S, Numbered(t, seen, p))
  BY <1>2 DEF Surjection
<1>4. IsFiniteSet(Numbered(t, seen, p))
  BY <1>1, <1>3, FS_Surjection
<1>5. FirstHit(t, seen, p) \in S
  <2>1. FirstHit(t, seen, p) \in Nat
    BY FirstHitFacts, HitsArePositions
  <2>2. QED
    BY <2>1, FirstHitFacts DEF SameKey
<1>6. Canon[t[p]] = f[FirstHit(t, seen, p)]
  BY <1>5, FirstHitFacts DEF SameKey
<1>7. QED
  BY <1>2, <1>4, <1>5, <1>6

(* A number is a positive natural number.                                  *)
LEMMA NumberType ==
    ASSUME NEW t \in Text, NEW seen, NEW p \in Hits(t, seen)
    PROVE  Number(t, seen, p) \in Nat \ {0}
<1>1. Numbered(t, seen, p) # {}
  BY NumberedFacts
<1>2. QED
  BY <1>1, NumberedFacts, FS_CardinalityType, FS_EmptySet DEF Number

(* Two entities of one type and one number, the first of which is met no   *)
(* later, have one key.                                                    *)
LEMMA NumberOrdered ==
    ASSUME NEW t \in Text, NEW seen,
           NEW p \in Hits(t, seen), NEW q \in Hits(t, seen),
           TypeOf[t[p]] = TypeOf[t[q]],
           Number(t, seen, p) = Number(t, seen, q),
           FirstHit(t, seen, p) <= FirstHit(t, seen, q)
    PROVE  SameKey(t[p], t[q])
<1>1. /\ FirstHit(t, seen, p) \in Nat /\ FirstHit(t, seen, q) \in Nat
      /\ Hits(t, seen) \subseteq Nat
  BY FirstHitFacts, HitsArePositions
<1>2. Numbered(t, seen, p) \subseteq Numbered(t, seen, q)
  BY <1>1 DEF Numbered
<1>3. Numbered(t, seen, p) = Numbered(t, seen, q)
  BY <1>2, NumberedFacts, FS_Subset DEF Number
<1>4. Canon[t[q]] \in Numbered(t, seen, p)
  BY <1>3, NumberedFacts
<1>5. PICK r \in Hits(t, seen) : /\ Canon[t[q]] = Canon[t[r]]
                                 /\ TypeOf[t[r]] = TypeOf[t[p]]
                                 /\ r <= FirstHit(t, seen, p)
  BY <1>4 DEF Numbered
<1>6. FirstHit(t, seen, q) <= r
  BY <1>5, FirstHitFacts DEF SameKey
<1>7. FirstHit(t, seen, p) = FirstHit(t, seen, q)
  BY <1>1, <1>5, <1>6
<1>8. QED
  BY <1>7, FirstHitFacts DEF SameKey

(* MaskState: within a text a value (by its canonical form) has one number *)
(* and different values of a type have different numbers.                  *)
THEOREM NumberIdentifiesValue ==
    ASSUME NEW t \in Text, NEW seen,
           NEW p \in Hits(t, seen), NEW q \in Hits(t, seen),
           TypeOf[t[p]] = TypeOf[t[q]]
    PROVE  Number(t, seen, p) = Number(t, seen, q) <=> SameKey(t[p], t[q])
<1>1. ASSUME SameKey(t[p], t[q])
      PROVE  Number(t, seen, p) = Number(t, seen, q)
  BY <1>1, FirstHitSame DEF Number, Numbered
<1>2. ASSUME Number(t, seen, p) = Number(t, seen, q)
      PROVE  SameKey(t[p], t[q])
  <2>1. /\ FirstHit(t, seen, p) \in Nat /\ FirstHit(t, seen, q) \in Nat
    BY FirstHitFacts, HitsArePositions
  <2>2. CASE FirstHit(t, seen, p) <= FirstHit(t, seen, q)
    BY <1>2, <2>2, NumberOrdered
  <2>3. CASE FirstHit(t, seen, q) <= FirstHit(t, seen, p)
    BY <1>2, <2>3, NumberOrdered DEF SameKey
  <2>4. QED
    BY <2>1, <2>2, <2>3
<1>3. QED
  BY <1>1, <1>2

-----------------------------------------------------------------------------
(* The pass that hands out the numbers.                                    *)

\* The state after token p of t when it was state before.
Visit(state, t, seen, p) ==
    IF p \notin Hits(t, seen) THEN state
    ELSE NextNumber(state, TypeOf[t[p]], Canon[t[p]])

PassStep(f, t, seen, p) ==
    IF p = 0 THEN EmptyMaskState ELSE Visit(f[p - 1], t, seen, p)

\* The states of the pass of NumberAll.
States(t, seen) == CHOOSE f : f = [p \in 0..Len(t) |-> PassStep(f, t, seen, p)]

(* NumberAll is the last of them.                                          *)
LEMMA NumberAllIsLast ==
    ASSUME NEW t, NEW seen
    PROVE  NumberAll(t, seen) = States(t, seen)[Len(t)]
BY DEF NumberAll, States, PassStep, Visit

(* There are such states: a shortest prefix of the text without them would *)
(* get them from those of the prefix before.                               *)
LEMMA PassExists ==
    ASSUME NEW t \in Text, NEW seen
    PROVE  States(t, seen) = [p \in 0..Len(t) |-> PassStep(States(t, seen), t, seen, p)]
<1> DEFINE Has(n) == \E f : f = [p \in 0..n |-> PassStep(f, t, seen, p)]
           Without == {n \in 0..Len(t) : ~Has(n)}
<1>1. Len(t) \in Nat
  BY HitsArePositions
<1>2. ASSUME Without # {}
      PROVE  FALSE
  <2>. Without \in SUBSET Nat
    BY <1>1
  <2>1. PICK n \in Without : \A m \in Without : n <= m
    <3> HIDE DEF Without
    <3>1. QED
      BY <1>2, LeastExists
  <2>2. CASE n = 0
    <3> DEFINE f == [p \in 0..n |-> EmptyMaskState]
    <3>1. f = [p \in 0..n |-> PassStep(f, t, seen, p)]
      BY <2>2 DEF PassStep
    <3>2. QED
      BY <2>1, <3>1
  <2>3. CASE n # 0
    <3>1. n \in Nat /\ n - 1 \in 0..Len(t) /\ n - 1 \notin Without
      BY <1>1, <2>1, <2>3
    <3>2. PICK g : g = [p \in 0..n - 1 |-> PassStep(g, t, seen, p)]
      BY <3>1
    <3> DEFINE f == [p \in 0..n |-> IF p < n THEN g[p] ELSE PassStep(g, t, seen, n)]
    <3>3. ASSUME NEW p \in 0..n
          PROVE  f[p] = PassStep(f, t, seen, p)
      <4>1. p # 0 => f[p - 1] = g[p - 1]
        BY <3>1
      <4>2. PassStep(f, t, seen, p) = PassStep(g, t, seen, p)
        BY <4>1 DEF PassStep
      <4>3. CASE p < n
        <5>1. f[p] = g[p] /\ p \in 0..n - 1
          BY <3>1, <4>3
        <5>2. QED
          BY <3>2, <4>2, <5>1
      <4>4. CASE p = n
        BY <3>1, <4>2, <4>4
      <4>5. QED
        BY <3>1, <4>3, <4>4
    <3>4. f = [p \in 0..n |-> PassStep(f, t, seen, p)]
      BY <3>3
    <3> HIDE DEF f
    <3>5. QED
      BY <2>1, <3>4
  <2>4. QED
    BY <2>2, <2>3
<1>3. Has(Len(t))
  BY <1>1, <1>2
<1>4. QED
  BY <1>3 DEF States

\* The forms of a type that are met in the first n tokens.
Met(t, seen, type, n) ==
    {Canon[t[q]] : q \in {r \in Hits(t, seen) : TypeOf[t[r]] = type /\ r <= n}}

KeyAt(t, p) == <<TypeOf[t[p]], Canon[t[p]]>>

\* What holds after the first n tokens: each entity among them has its
\* number, no other key has one, and a counter counts the forms of its type.
NumberedUpTo(state, t, seen, n) ==
    /\ state = [counters |-> state.counters, assigned |-> state.assigned]
    /\ DOMAIN state.counters = PdType
    /\ \A type \in PdType : state.counters[type] = Cardinality(Met(t, seen, type, n))
    /\ DOMAIN state.assigned = {KeyAt(t, q) : q \in {r \in Hits(t, seen) : r <= n}}
    /\ \A q \in Hits(t, seen) :
          q <= n => state.assigned[KeyAt(t, q)] = Number(t, seen, q)

(* The forms that are met are finitely many.                               *)
LEMMA MetFinite ==
    ASSUME NEW t \in Text, NEW seen, NEW type, NEW n
    PROVE  IsFiniteSet(Met(t, seen, type, n))
<1> DEFINE S == {r \in Hits(t, seen) : TypeOf[t[r]] = type /\ r <= n}
           f == [r \in S |-> Canon[t[r]]]
<1>1. IsFiniteSet(S)
  <2>1. Len(t) \in Nat /\ S \in SUBSET (1..Len(t))
    BY HitsArePositions
  <2>2. IsFiniteSet(1..Len(t))
    BY <2>1, FS_Interval
  <2> HIDE DEF S
  <2>3. QED
    BY <2>1, <2>2, FS_Subset
<1>2. f \in Surjection(S, Met(t, seen, type, n))
  BY DEF Surjection, Met
<1>3. QED
  BY <1>1, <1>2, FS_Surjection

(* It holds before the first token.                                        *)
LEMMA EmptyNumbered ==
    ASSUME NEW t \in Text, NEW seen
    PROVE  NumberedUpTo(EmptyMaskState, t, seen, 0)
<1>1. \A r \in Hits(t, seen) : ~ (r <= 0)
  BY HitsArePositions
<1>2. \A type : Met(t, seen, type, 0) = {}
  BY <1>1 DEF Met
<1>3. DOMAIN EmptyMaskState.assigned = {}
  BY DEF EmptyMaskState
<1>4. {KeyAt(t, q) : q \in {r \in Hits(t, seen) : r <= 0}} = {}
  BY <1>1
<1>5. \A type \in PdType : EmptyMaskState.counters[type] = 0
  BY DEF EmptyMaskState
<1>6. QED
  BY <1>1, <1>2, <1>3, <1>4, <1>5, FS_EmptySet DEF NumberedUpTo, EmptyMaskState

(* A token keeps it: an entity with a known key changes nothing, a new key *)
(* takes a number that is one more than the forms of its type before it.   *)
LEMMA VisitNumbers ==
    ASSUME NEW t \in Text, NEW seen, NEW p \in 1..Len(t), NEW state,
           NumberedUpTo(state, t, seen, p - 1)
    PROVE  NumberedUpTo(Visit(state, t, seen, p), t, seen, p)
<1>1. /\ Len(t) \in Nat /\ p \in Nat
      /\ \A r \in Hits(t, seen) : r \in Nat /\ t[r] \in Value /\ TypeOf[t[r]] \in PdType
      /\ \A r \in Hits(t, seen) : r <= p <=> r <= p - 1 \/ r = p
  BY HitsArePositions, MaskersAssumption
<1>2. CASE p \notin Hits(t, seen)
  <2>1. \A r \in Hits(t, seen) : r <= p <=> r <= p - 1
    BY <1>1, <1>2
  <2>2. \A type : Met(t, seen, type, p) = Met(t, seen, type, p - 1)
    BY <2>1 DEF Met
  <2>3. QED
    BY <1>2, <2>1, <2>2 DEF NumberedUpTo, Visit
<1>3. CASE p \in Hits(t, seen) /\ KeyAt(t, p) \in DOMAIN state.assigned
  <2>1. PICK q \in Hits(t, seen) : q <= p - 1 /\ KeyAt(t, q) = KeyAt(t, p)
    BY <1>3 DEF NumberedUpTo
  <2>2. SameKey(t[p], t[q])
    BY <2>1 DEF KeyAt, SameKey
  <2>3. Number(t, seen, p) = Number(t, seen, q)
    BY <1>3, <2>1, <2>2, NumberIdentifiesValue DEF SameKey
  <2>4. \A type : Met(t, seen, type, p) = Met(t, seen, type, p - 1)
    BY <1>1, <2>1, <2>2 DEF Met, SameKey
  <2>5. Visit(state, t, seen, p) = state
    BY <1>3 DEF Visit, NextNumber, KeyAt
  <2>6. {KeyAt(t, r) : r \in {s \in Hits(t, seen) : s <= p}}
           = {KeyAt(t, r) : r \in {s \in Hits(t, seen) : s <= p - 1}}
    BY <1>1, <2>1
  <2>7. \A r \in Hits(t, seen) :
           r <= p => state.assigned[KeyAt(t, r)] = Number(t, seen, r)
    BY <1>1, <2>1, <2>3 DEF NumberedUpTo
  <2>8. QED
    BY <2>4, <2>5, <2>6, <2>7 DEF NumberedUpTo
<1>4. CASE p \in Hits(t, seen) /\ KeyAt(t, p) \notin DOMAIN state.assigned
  <2> DEFINE type == TypeOf[t[p]]
             n == state.counters[type] + 1
             after == Visit(state, t, seen, p)
  <2>1. after = [counters |-> [state.counters EXCEPT ![type] = n],
                 assigned |-> Assign(state.assigned, KeyAt(t, p), n)]
    BY <1>4 DEF Visit, NextNumber, KeyAt
  <2>2. \A r \in Hits(t, seen) : r <= p - 1 => KeyAt(t, r) # KeyAt(t, p)
    BY <1>4 DEF NumberedUpTo
  <2>3. FirstHit(t, seen, p) = p
    <3>1. /\ FirstHit(t, seen, p) \in Hits(t, seen) /\ FirstHit(t, seen, p) <= p
          /\ KeyAt(t, FirstHit(t, seen, p)) = KeyAt(t, p)
      BY <1>4, FirstHitFacts DEF SameKey, KeyAt
    <3>2. QED
      BY <1>1, <2>2, <3>1
  <2>4. Numbered(t, seen, p) = Met(t, seen, type, p)
    BY <2>3 DEF Numbered, Met
  <2>5. Met(t, seen, type, p) = Met(t, seen, type, p - 1) \cup {Canon[t[p]]}
    BY <1>1, <1>4 DEF Met
  <2>6. Canon[t[p]] \notin Met(t, seen, type, p - 1)
    BY <2>2 DEF Met, KeyAt
  <2>7. n = Number(t, seen, p) /\ n = Cardinality(Met(t, seen, type, p))
    <3>1. state.counters[type] = Cardinality(Met(t, seen, type, p - 1))
      BY <1>1, <1>4 DEF NumberedUpTo
    <3>2. Cardinality(Met(t, seen, type, p)) = Cardinality(Met(t, seen, type, p - 1)) + 1
      BY <2>5, <2>6, MetFinite, FS_AddElement
    <3>3. QED
      BY <2>4, <3>1, <3>2 DEF Number
  <2> HIDE DEF n, after
  <2>8. \A other : other # type => Met(t, seen, other, p) = Met(t, seen, other, p - 1)
    BY <1>1 DEF Met
  <2>9. DOMAIN state.counters = PdType /\ type \in PdType
    BY <1>1, <1>4 DEF NumberedUpTo
  <2>10. /\ after.counters = [state.counters EXCEPT ![type] = n]
         /\ after.assigned = Assign(state.assigned, KeyAt(t, p), n)
         /\ after = [counters |-> after.counters, assigned |-> after.assigned]
    BY <2>1
  <2>11. /\ DOMAIN after.counters = PdType
         /\ \A other \in PdType : after.counters[other] = Cardinality(Met(t, seen, other, p))
    BY <2>7, <2>8, <2>9, <2>10 DEF NumberedUpTo
  <2>12. DOMAIN after.assigned = {KeyAt(t, r) : r \in {s \in Hits(t, seen) : s <= p}}
    <3>1. DOMAIN after.assigned
             = {KeyAt(t, r) : r \in {s \in Hits(t, seen) : s <= p - 1}} \cup {KeyAt(t, p)}
      BY <2>10 DEF Assign, NumberedUpTo
    <3>2. QED
      BY <1>1, <1>4, <3>1
  <2>13. ASSUME NEW r \in Hits(t, seen), r <= p
         PROVE  after.assigned[KeyAt(t, r)] = Number(t, seen, r)
    <3>1. CASE r = p
      BY <2>7, <2>10, <3>1 DEF Assign
    <3>2. CASE r <= p - 1
      <4>1. KeyAt(t, r) \in DOMAIN state.assigned /\ KeyAt(t, r) # KeyAt(t, p)
        BY <2>2, <3>2 DEF NumberedUpTo
      <4>2. after.assigned[KeyAt(t, r)] = state.assigned[KeyAt(t, r)]
        BY <2>10, <4>1 DEF Assign
      <4>3. QED
        BY <3>2, <4>2 DEF NumberedUpTo
    <3>3. QED
      BY <1>1, <2>13, <3>1, <3>2
  <2>14. QED
    BY <2>10, <2>11, <2>12, <2>13 DEF NumberedUpTo, after
<1>5. QED
  BY <1>2, <1>3, <1>4

(* The closed form: next_number, called for the entities of a text from    *)
(* left to right, gives each the number that Number says.                  *)
THEOREM NumberingClosedForm ==
    ASSUME NEW t \in Text, NEW seen
    PROVE  NumberingIsClosedForm(t, seen)
<1> DEFINE f == States(t, seen)
           Wrong == {n \in 0..Len(t) : ~NumberedUpTo(f[n], t, seen, n)}
<1>1. Len(t) \in Nat
  BY HitsArePositions
<1>2. f = [p \in 0..Len(t) |-> PassStep(f, t, seen, p)]
  BY PassExists
<1> HIDE DEF f
<1>3. ASSUME Wrong # {}
      PROVE  FALSE
  <2>. Wrong \in SUBSET Nat
    BY <1>1
  <2>1. PICK n \in Wrong : \A m \in Wrong : n <= m
    <3> HIDE DEF Wrong
    <3>1. QED
      BY <1>3, LeastExists
  <2>2. CASE n = 0
    BY <1>2, <2>1, <2>2, EmptyNumbered DEF PassStep
  <2>3. CASE n # 0
    <3>1. n \in 1..Len(t) /\ n - 1 \in 0..Len(t) /\ n - 1 \notin Wrong
      BY <1>1, <2>1, <2>3
    <3>2. f[n] = Visit(f[n - 1], t, seen, n)
      BY <1>2, <2>1, <2>3 DEF PassStep
    <3>3. QED
      BY <2>1, <3>1, <3>2, VisitNumbers
  <2>4. QED
    BY <2>2, <2>3
<1>4. NumberedUpTo(NumberAll(t, seen), t, seen, Len(t))
  BY <1>1, <1>3, NumberAllIsLast DEF f
<1>5. \A p \in Hits(t, seen) : p <= Len(t)
  BY <1>1, HitsArePositions
<1>6. QED
  BY <1>4, <1>5 DEF NumberingIsClosedForm, NumberedUpTo, KeyAt

-----------------------------------------------------------------------------
(* Masking.                                                                *)

(* A word, a value, a placeholder and another mask are different things.   *)
LEMMA TokensDiffer ==
    /\ Placeholder \cap Form = {}
    /\ Word \cap Value = {}
    /\ (Word \cup Value) \cap (Placeholder \cup Form) = {}
<1>1. ASSUME NEW x \in Placeholder, x \in Form
      PROVE  FALSE
  <2>1. "label" \in DOMAIN x
    BY DEF Placeholder
  <2>2. "label" \notin DOMAIN x
    BY <1>1 DEF Form
  <2>3. QED
    BY <2>1, <2>2
<1>2. QED
  BY <1>1, TokensAssumption

(* A function on the positions of a text with tokens as values is a text.  *)
LEMMA SamePositionsText ==
    ASSUME NEW t \in Text, NEW f, f = [p \in DOMAIN t |-> f[p]],
           \A p \in DOMAIN t : f[p] \in Token
    PROVE  f \in Text /\ DOMAIN f = DOMAIN t
<1>1. Len(t) \in Nat /\ DOMAIN t = 1..Len(t)
  BY HitsArePositions
<1>2. f \in [1..Len(t) -> Token]
  BY <1>1
<1>3. f \in Seq(Token)
  BY <1>1, <1>2
<1>4. QED
  BY <1>3 DEF Text

(* What the masker of a type writes.                                       *)
LEMMA MaskType ==
    ASSUME NEW t \in Text, NEW seen, NEW p \in Hits(t, seen)
    PROVE  /\ t[p] \in Value
           /\ KindOf[TypeOf[t[p]]] = "placeholder" => Mask(t, seen, p) \in Placeholder
           /\ WrittenAsIs(t[p]) => Mask(t, seen, p) = t[p]
           /\ KindOf[TypeOf[t[p]]] # "placeholder" =>
                 WrittenAsIs(t[p]) \/ Mask(t, seen, p) \in Form
<1>1. t[p] \in Value /\ TypeOf[t[p]] \in PdType /\ KindOf[TypeOf[t[p]]] \in Kind
  BY HitsArePositions, MaskersAssumption
<1>2. Number(t, seen, p) \in Nat \ {0}
  BY NumberType
<1>3. WrittenAsIs(t[p]) => KindOf[TypeOf[t[p]]] # "placeholder"
  BY DEF WrittenAsIs
<1>4. ASSUME KindOf[TypeOf[t[p]]] # "placeholder", ~ WrittenAsIs(t[p])
      PROVE  Mask(t, seen, p) \in Form
  <2>1. Mask(t, seen, p) = [kind |-> KindOf[TypeOf[t[p]]], shape |-> Shape[t[p]]]
    BY <1>4 DEF Mask
  <2>2. QED
    BY <1>1, <1>4, <2>1 DEF Form
<1>5. KindOf[TypeOf[t[p]]] = "placeholder" => Mask(t, seen, p) \in Placeholder
  BY <1>1, <1>2 DEF Mask, Placeholder
<1>6. WrittenAsIs(t[p]) => Mask(t, seen, p) = t[p]
  BY <1>3 DEF Mask
<1>7. QED
  BY <1>1, <1>4, <1>5, <1>6

(* The masked text is a text with the same positions, and the values left  *)
(* in it were in the original at the same positions.                       *)
LEMMA MaskLineType ==
    ASSUME NEW t \in Text, NEW seen
    PROVE  /\ MaskLine(t, seen).original = t
           /\ MaskLine(t, seen).masked \in Text
           /\ DOMAIN MaskLine(t, seen).masked = DOMAIN t
           /\ ValuesIn(MaskLine(t, seen).masked) \subseteq ValuesIn(t)
<1> DEFINE m == MaskLine(t, seen).masked
<1>1. m = [p \in DOMAIN t |-> IF p \in Hits(t, seen) THEN Mask(t, seen, p) ELSE t[p]]
  BY DEF MaskLine
<1>2. \A p \in DOMAIN t : t[p] \in Token
  BY DEF Text
<1>3. \A p \in DOMAIN t : m[p] \in Token
  <2>1. \A p \in Hits(t, seen) : Mask(t, seen, p) \in Token
    BY MaskType DEF Token
  <2>2. QED
    BY <1>1, <1>2, <2>1
<1>4. m \in Text /\ DOMAIN m = DOMAIN t
  BY <1>1, <1>3, SamePositionsText
<1>5. ASSUME NEW p \in DOMAIN t, m[p] \in Value
      PROVE  m[p] = t[p]
  BY <1>1, <1>5, MaskType, TokensDiffer
<1>6. ValuesIn(m) \subseteq ValuesIn(t)
  BY <1>4, <1>5 DEF ValuesIn
<1>7. QED
  BY <1>4, <1>6 DEF MaskLine

(* The records are kept at positions of the original and keep its values   *)
(* with their masks.                                                       *)
LEMMA EntriesType ==
    ASSUME NEW t \in Text, NEW seen
    PROVE  LET entries == MaskLine(t, seen).entries
           IN /\ DOMAIN entries \subseteq Hits(t, seen)
              /\ \A p \in Hits(t, seen) :
                    p \in DOMAIN entries <=> KindOf[TypeOf[t[p]]] \in Recorded
              /\ \A p \in DOMAIN entries :
                    /\ entries[p].original = t[p]
                    /\ entries[p].masked = Mask(t, seen, p)
                    /\ entries[p].original \in ValuesIn(t)
<1>1. \A p \in Hits(t, seen) : t[p] \in ValuesIn(t)
  BY HitsArePositions DEF ValuesIn
<1>2. QED
  BY <1>1 DEF MaskLine

-----------------------------------------------------------------------------
(* Demasking, with the mapping of a text o in which seen was found.        *)

(* A placeholder that is known is restored from a record that has it.      *)
LEMMA ByKeyFacts ==
    ASSUME NEW o \in Text, NEW seen, NEW x,
           Known(MaskLine(o, seen).entries, x) # {}
    PROVE  \E p \in Known(MaskLine(o, seen).entries, x) :
              ByKey(MaskLine(o, seen).entries, x) = o[p]
<1> DEFINE entries == MaskLine(o, seen).entries
<1>1. /\ Len(o) \in Nat
      /\ Known(entries, x) \in SUBSET (1..Len(o))
  BY HitsArePositions, EntriesType DEF Known
<1>2. \E p \in Known(entries, x) : \A q \in Known(entries, x) : q <= p
  BY <1>1, GreatestExists
<1>3. PICK p \in Known(entries, x) : ByKey(entries, x) = entries[p].original
  BY <1>2 DEF ByKey
<1>4. entries[p].original = o[p]
  BY <1>3, EntriesType DEF Known
<1>5. QED
  BY <1>3, <1>4

(* The first pass keeps what it does not restore and restores values of o. *)
LEMMA FirstPassType ==
    ASSUME NEW t \in Text, NEW o \in Text, NEW seen
    PROVE  LET u == RestorePlaceholders(t, MaskLine(o, seen).entries)
           IN /\ u \in Text /\ DOMAIN u = DOMAIN t
              /\ \A q \in DOMAIN t : u[q] = t[q] \/ u[q] \in ValuesIn(o)
<1> DEFINE entries == MaskLine(o, seen).entries
           u == RestorePlaceholders(t, entries)
<1>1. u = [q \in DOMAIN t |-> IF t[q] \in Placeholder /\ Known(entries, t[q]) # {}
                              THEN ByKey(entries, t[q]) ELSE t[q]]
  BY DEF RestorePlaceholders
<1>2. ASSUME NEW x, Known(entries, x) # {}
      PROVE  ByKey(entries, x) \in ValuesIn(o)
  <2>1. PICK p \in Known(entries, x) : ByKey(entries, x) = o[p]
    BY <1>2, ByKeyFacts
  <2>2. p \in Hits(o, seen)
    BY EntriesType DEF Known
  <2>3. QED
    BY <2>1, <2>2, HitsArePositions DEF ValuesIn
<1>3. \A q \in DOMAIN t : u[q] = t[q] \/ u[q] \in ValuesIn(o)
  BY <1>1, <1>2
<1>4. ValuesIn(o) \subseteq Token /\ \A q \in DOMAIN t : t[q] \in Token
  BY DEF ValuesIn, Token, Text
<1>5. \A q \in DOMAIN t : u[q] \in Token
  BY <1>3, <1>4
<1>6. u \in Text /\ DOMAIN u = DOMAIN t
  <2> HIDE DEF u
  <2>1. u = [q \in DOMAIN t |-> u[q]]
    BY <1>1
  <2>2. QED
    BY <1>5, <2>1, SamePositionsText
<1>7. QED
  BY <1>3, <1>6

(* The second pass replaces only masks that are recorded, and the mask of  *)
(* a value that was written as it is by that value.                        *)
LEMMA SecondPassType ==
    ASSUME NEW t \in Text, NEW o \in Text, NEW seen
    PROVE  LET u == RestoreForms(t, MaskLine(o, seen).entries)
           IN /\ u \in Text /\ DOMAIN u = DOMAIN t
              /\ \A q \in DOMAIN t :
                    \/ u[q] = t[q]
                    \/ t[q] \notin Value /\ u[q] \in ValuesIn(o)
<1> DEFINE entries == MaskLine(o, seen).entries
           Sources(q) == {p \in DOMAIN entries : /\ Target(t, entries)[p] = q
                                                 /\ t[q] = entries[p].masked}
           u == RestoreForms(t, entries)
<1>1. u = [q \in DOMAIN t |->
              IF Sources(q) = {} THEN t[q]
              ELSE entries[CHOOSE p \in Sources(q) : TRUE].original]
  BY DEF RestoreForms
<1>2. ASSUME NEW q \in DOMAIN t, Sources(q) # {}
      PROVE  u[q] = t[q] \/ (t[q] \notin Value /\ u[q] \in ValuesIn(o))
  <2>1. PICK p \in Sources(q) : u[q] = entries[p].original
    BY <1>1, <1>2
  <2>2. /\ p \in Hits(o, seen) /\ t[q] = Mask(o, seen, p)
        /\ u[q] = o[p] /\ u[q] \in ValuesIn(o)
    BY <2>1, EntriesType
  <2>3. CASE WrittenAsIs(o[p])
    BY <2>2, <2>3, MaskType
  <2>4. CASE ~ WrittenAsIs(o[p])
    BY <2>2, <2>4, MaskType, TokensDiffer
  <2>5. QED
    BY <2>3, <2>4
<1>3. \A q \in DOMAIN t : \/ u[q] = t[q]
                          \/ t[q] \notin Value /\ u[q] \in ValuesIn(o)
  BY <1>1, <1>2
<1>4. ValuesIn(o) \subseteq Token /\ \A q \in DOMAIN t : t[q] \in Token
  BY DEF ValuesIn, Token, Text
<1>5. u \in Text /\ DOMAIN u = DOMAIN t
  <2> HIDE DEF u
  <2>1. u = [q \in DOMAIN t |-> u[q]]
    BY <1>1
  <2>2. \A q \in DOMAIN t : u[q] \in Token
    BY <1>3, <1>4
  <2>3. QED
    BY <2>1, <2>2, SamePositionsText
<1>6. QED
  BY <1>3, <1>5

(* A restored text is a text, and every value in it was in the text that   *)
(* was to be restored or in the original of the mapping.                   *)
LEMMA DemaskLineType ==
    ASSUME NEW t \in Text, NEW o \in Text, NEW seen
    PROVE  /\ DemaskLine(t, MaskLine(o, seen)) \in Text
           /\ DOMAIN DemaskLine(t, MaskLine(o, seen)) = DOMAIN t
           /\ ValuesIn(DemaskLine(t, MaskLine(o, seen)))
                 \subseteq ValuesIn(t) \cup ValuesIn(o)
<1> DEFINE entries == MaskLine(o, seen).entries
           u == RestorePlaceholders(t, entries)
           v == RestoreForms(u, entries)
<1>1. DemaskLine(t, MaskLine(o, seen)) = v
  BY DEF DemaskLine
<1>2. /\ u \in Text /\ DOMAIN u = DOMAIN t
      /\ \A q \in DOMAIN t : u[q] = t[q] \/ u[q] \in ValuesIn(o)
  BY FirstPassType
<1> HIDE DEF u
<1>3. /\ v \in Text /\ DOMAIN v = DOMAIN t
      /\ \A q \in DOMAIN t : v[q] = u[q] \/ v[q] \in ValuesIn(o)
  BY <1>2, SecondPassType
<1> HIDE DEF v
<1>4. ValuesIn(v) \subseteq ValuesIn(t) \cup ValuesIn(o)
  BY <1>2, <1>3 DEF ValuesIn
<1>5. QED
  BY <1>1, <1>3, <1>4

(* Whatever became of a masked text on its way (reordered, cut, repeated,  *)
(* words added), demask puts in the place of each placeholder of it the    *)
(* value that the placeholder stood for.                                   *)
THEOREM CitedPlaceholderRestored ==
    ASSUME NEW t \in Text, NEW seen, NEW reply \in Text,
           Plain(t), SpellingsDiffer(ValuesAt(t, seen)),
           NEW p \in DOMAIN t, NEW q \in DOMAIN reply,
           reply[q] = MaskLine(t, seen).masked[p], reply[q] \in Placeholder
    PROVE  DemaskLine(reply, MaskLine(t, seen))[q] = t[p]
<1> DEFINE entries == MaskLine(t, seen).entries
           u == RestorePlaceholders(reply, entries)
<1>1. p \in Hits(t, seen) /\ reply[q] = Mask(t, seen, p)
  <2>1. t[p] \notin Placeholder
    BY TokensDiffer DEF Plain
  <2>2. QED
    BY <2>1 DEF MaskLine
<1>2. KindOf[TypeOf[t[p]]] = "placeholder"
  BY <1>1, MaskType, TokensDiffer DEF WrittenAsIs
<1>3. p \in Known(entries, reply[q])
  BY <1>1, <1>2, EntriesType DEF Known, Recorded, Kind
<1>4. PICK r \in Known(entries, reply[q]) : ByKey(entries, reply[q]) = t[r]
  <2>1. Known(MaskLine(t, seen).entries, reply[q]) # {}
    BY <1>3
  <2>2. QED
    BY <2>1, ByKeyFacts, Zenon
<1>5. r \in Hits(t, seen) /\ Mask(t, seen, r) = reply[q]
  BY EntriesType DEF Known
<1>6. t[r] = t[p]
  <2>1. KindOf[TypeOf[t[r]]] = "placeholder"
    BY <1>5, MaskType, TokensDiffer DEF WrittenAsIs
  <2>2. /\ Mask(t, seen, p).label = TypeOf[t[p]] /\ Mask(t, seen, r).label = TypeOf[t[r]]
        /\ Mask(t, seen, p).n = Number(t, seen, p)
        /\ Mask(t, seen, r).n = Number(t, seen, r)
    BY <1>2, <2>1 DEF Mask
  <2>3. TypeOf[t[p]] = TypeOf[t[r]] /\ Number(t, seen, p) = Number(t, seen, r)
    BY <1>1, <1>5, <2>2
  <2>4. SameKey(t[p], t[r])
    BY <1>1, <1>5, <2>3, NumberIdentifiesValue
  <2>5. QED
    BY <1>1, <1>5, <2>4 DEF SpellingsDiffer, ValuesAt
<1>7. u[q] = t[p]
  BY <1>3, <1>4, <1>6 DEF RestorePlaceholders
<1>8. u \in Text /\ DOMAIN u = DOMAIN reply
  BY FirstPassType
<1>9. u[q] \in Value
  BY <1>1, <1>7, HitsArePositions
<1> HIDE DEF u
<1>10. RestoreForms(u, entries)[q] = u[q]
  BY <1>8, <1>9, SecondPassType
<1>11. QED
  BY <1>7, <1>10 DEF DemaskLine, u

-----------------------------------------------------------------------------
(* A mask that comes back as it was.                                       *)

\* One round of the second pass: where the record p is found after the
\* places earlier, and the places of the records before p.
FoundAfter(earlier, t, entries, p) ==
    LET found == {q \in DOMAIN t : /\ t[q] = entries[p].masked
                                   /\ \A e \in earlier : e < q}
    IN IF found = {} THEN 0 ELSE CHOOSE q \in found : \A r \in found : q <= r
Before(f, entries, p) == {f[r] : r \in {s \in DOMAIN entries : s < p}}
Place(f, t, entries, p) == FoundAfter(Before(f, entries, p), t, entries, p)

(* Target is a function that its equation defines.                         *)
LEMMA TargetChosen ==
    ASSUME NEW t, NEW entries
    PROVE  Target(t, entries) =
              CHOOSE f : f = [p \in DOMAIN entries |-> Place(f, t, entries, p)]
BY DEF Target, Place, FoundAfter, Before

(* A solution of the equation of Target is the only one: two would differ  *)
(* at a first record, and a place depends on those of earlier records.     *)
LEMMA TargetIs ==
    ASSUME NEW t, NEW entries, DOMAIN entries \in SUBSET Nat,
           NEW g, g = [p \in DOMAIN entries |-> Place(g, t, entries, p)]
    PROVE  Target(t, entries) = g
<1> DEFINE f == Target(t, entries)
           Differ == {p \in DOMAIN entries : f[p] # g[p]}
<1>1. f = [p \in DOMAIN entries |-> Place(f, t, entries, p)]
  BY TargetChosen
<1> HIDE DEF f
<1>2. ASSUME Differ # {}
      PROVE  FALSE
  <2>1. PICK p \in Differ : \A q \in Differ : p <= q
    BY <1>2, LeastExists
  <2>2. \A r \in {s \in DOMAIN entries : s < p} : f[r] = g[r]
    BY <2>1
  <2>3. Before(f, entries, p) = Before(g, entries, p)
    BY <2>2 DEF Before
  <2>4. Place(f, t, entries, p) = Place(g, t, entries, p)
    BY <2>3 DEF Place
  <2>5. f[p] = g[p]
    BY <1>1, <2>1, <2>4
  <2>6. QED
    BY <2>1, <2>5
<1>3. QED
  BY <1>1, <1>2 DEF f

(* There is a solution when the records are kept at positions up to n: a   *)
(* shortest prefix of them without one would get it from the one before.   *)
LEMMA PlacesExist ==
    ASSUME NEW t, NEW entries, NEW n \in Nat, DOMAIN entries \subseteq 1..n
    PROVE  \E f : f = [p \in DOMAIN entries |-> Place(f, t, entries, p)]
<1> DEFINE Upto(m) == DOMAIN entries \cap 1..m
           Has(m) == \E f : f = [p \in Upto(m) |-> Place(f, t, entries, p)]
           Without == {m \in 0..n : ~Has(m)}
<1>1. ASSUME Without # {}
      PROVE  FALSE
  <2>. Without \in SUBSET Nat
    OBVIOUS
  <2>1. PICK m \in Without : \A k \in Without : m <= k
    <3> HIDE DEF Without
    <3>1. QED
      BY <1>1, LeastExists
  <2>2. CASE m = 0
    <3> DEFINE f == [p \in Upto(m) |-> 0]
    <3>1. Upto(m) = {}
      BY <2>2
    <3>2. f = [p \in Upto(m) |-> Place(f, t, entries, p)]
      BY <3>1
    <3> HIDE DEF f
    <3>3. QED
      BY <2>1, <3>2
  <2>3. CASE m # 0
    <3>1. m \in Nat /\ m - 1 \in 0..n /\ m - 1 \notin Without
      <4>1. m \in 0..n
        BY <2>1
      <4>2. m \in Nat /\ m - 1 \in 0..n /\ m - 1 < m
        BY <2>3, <4>1
      <4> HIDE DEF Without
      <4>3. QED
        BY <2>1, <4>2
    <3>2. PICK g : g = [p \in Upto(m - 1) |-> Place(g, t, entries, p)]
      BY <3>1
    <3> DEFINE f == [p \in Upto(m) |-> IF p < m THEN g[p] ELSE Place(g, t, entries, m)]
    <3>3. ASSUME NEW p \in Upto(m)
          PROVE  f[p] = Place(f, t, entries, p)
      <4>1. \A r \in {s \in DOMAIN entries : s < p} : f[r] = g[r]
        BY <3>1
      <4> HIDE DEF f
      <4>2. Before(f, entries, p) = Before(g, entries, p)
        BY <4>1 DEF Before
      <4>3. Place(f, t, entries, p) = Place(g, t, entries, p)
        BY <4>2 DEF Place
      <4>4. CASE p < m
        <5>1. p \in Upto(m - 1)
          BY <3>1, <4>4
        <5>2. g[p] = Place(g, t, entries, p)
          BY <3>2, <5>1
        <5>3. QED
          BY <4>3, <4>4, <5>2 DEF f
      <4>5. CASE p = m
        BY <3>1, <4>3, <4>5 DEF f
      <4>6. QED
        BY <3>1, <4>4, <4>5
    <3>4. f = [p \in Upto(m) |-> Place(f, t, entries, p)]
      BY <3>3
    <3> HIDE DEF f
    <3>5. QED
      BY <2>1, <3>4
  <2>4. QED
    BY <2>2, <2>3
<1>2. Has(n)
  BY <1>1
<1>3. Upto(n) = DOMAIN entries
  OBVIOUS
<1>4. QED
  BY <1>2, <1>3

(* The places satisfy the equation they are defined by.                    *)
LEMMA TargetEquation ==
    ASSUME NEW t, NEW entries, NEW n \in Nat, DOMAIN entries \subseteq 1..n
    PROVE  Target(t, entries) =
              [p \in DOMAIN entries |-> Place(Target(t, entries), t, entries, p)]
<1>1. \E f : f = [p \in DOMAIN entries |-> Place(f, t, entries, p)]
  BY PlacesExist, ZenonT(60)
<1>2. QED
  BY <1>1, TargetChosen

(* The second pass over a masked text in which the placeholders are back:  *)
(* each mask that is recorded and left in it is found at its own place,    *)
(* and a value that was written as it is is found there or before.         *)
LEMMA MasksFoundInPlace ==
    ASSUME NEW t \in Text, NEW u, NEW entries, DOMAIN u = DOMAIN t,
           DOMAIN entries \subseteq DOMAIN t,
           \A p \in DOMAIN entries : entries[p].masked \in Placeholder \cup Form \cup Value,
           \A q \in DOMAIN u : u[q] \notin Placeholder,
           \A p \in DOMAIN entries :
              entries[p].masked \notin Placeholder => u[p] = entries[p].masked,
           \A q \in DOMAIN u :
              u[q] \in Form => q \in DOMAIN entries /\ entries[q].masked = u[q]
    PROVE  \A p \in DOMAIN entries :
              /\ entries[p].masked \in Placeholder => Target(u, entries)[p] = 0
              /\ entries[p].masked \in Form => Target(u, entries)[p] = p
<1> DEFINE g == Target(u, entries)
           Right(p) == /\ g[p] \in Nat /\ g[p] <= p
                       /\ entries[p].masked \in Placeholder => g[p] = 0
                       /\ entries[p].masked \in Form => g[p] = p
           Wrong == {p \in DOMAIN entries : ~Right(p)}
<1>1. /\ Len(t) \in Nat /\ DOMAIN t = 1..Len(t)
      /\ DOMAIN entries \subseteq 1..Len(t)
  BY HitsArePositions
<1>2. \A p \in DOMAIN entries : g[p] = Place(g, u, entries, p)
  <2> HIDE DEF g
  <2>1. g = [p \in DOMAIN entries |-> Place(g, u, entries, p)]
    BY <1>1, TargetEquation DEF g
  <2>2. QED
    BY <2>1
<1> HIDE DEF g
<1>3. ASSUME Wrong # {}
      PROVE  FALSE
  <2>1. Wrong \in SUBSET Nat
    BY <1>1
  <2>2. PICK p \in Wrong : \A r \in Wrong : p <= r
    <3> HIDE DEF Wrong
    <3>1. QED
      BY <1>3, <2>1, LeastExists
  <2>3. p \in DOMAIN entries /\ p \in Nat /\ p \in DOMAIN u /\ p \in 1..Len(t)
    BY <1>1, <2>2
  <2> DEFINE earlier == Before(g, entries, p)
             found == {q \in DOMAIN u : /\ u[q] = entries[p].masked
                                        /\ \A e \in earlier : e < q}
  <2>4. \A e \in earlier : e < p
    <3>1. ASSUME NEW r \in DOMAIN entries, r < p
          PROVE  g[r] < p
      <4>1. r \in Nat /\ r \notin Wrong
        BY <1>1, <2>2, <2>3, <3>1
      <4>2. g[r] \in Nat /\ g[r] <= r
        BY <4>1
      <4>3. QED
        BY <2>3, <3>1, <4>1, <4>2
    <3>2. QED
      BY <3>1 DEF Before
  <2>5. \A r \in DOMAIN entries : r < p /\ entries[r].masked \in Form => r \in earlier
    <3>1. ASSUME NEW r \in DOMAIN entries, r < p, entries[r].masked \in Form
          PROVE  r \in earlier
      <4>1. r \in Nat /\ r \notin Wrong
        BY <1>1, <2>2, <2>3, <3>1
      <4>2. g[r] = r
        BY <3>1, <4>1
      <4>3. QED
        BY <3>1, <4>2 DEF Before
    <3>2. QED
      BY <3>1
  <2> HIDE DEF earlier
  <2>6. g[p] = IF found = {} THEN 0
               ELSE CHOOSE q \in found : \A r \in found : q <= r
    BY <1>2, <2>3 DEF Place, FoundAfter, earlier
  <2>7. found \in SUBSET Nat /\ found \subseteq DOMAIN u
    BY <1>1
  <2>8. CASE entries[p].masked \in Placeholder
    <3>1. found = {}
      BY <2>8
    <3>2. g[p] = 0
      BY <2>6, <3>1
    <3>3. QED
      BY <2>2, <2>3, <2>8, <3>2, TokensDiffer
  <2>9. CASE entries[p].masked \notin Placeholder
    <3>1. p \in found
      BY <2>3, <2>4, <2>9
    <3> HIDE DEF found
    <3>2. \E q \in found : \A r \in found : q <= r
      BY <2>7, <3>1, LeastExists
    <3>3. g[p] \in found /\ \A r \in found : g[p] <= r
      BY <2>6, <3>1, <3>2
    <3>4. g[p] \in Nat /\ g[p] <= p
      BY <2>7, <3>1, <3>3
    <3>5. CASE entries[p].masked \in Form
      <4>1. u[g[p]] \in Form /\ g[p] \in DOMAIN u /\ \A e \in earlier : e < g[p]
        BY <2>7, <3>3, <3>5 DEF found
      <4>2. g[p] \in DOMAIN entries /\ entries[g[p]].masked \in Form
        BY <4>1
      <4>3. ~ (g[p] < p)
        <5>1. ASSUME g[p] < p
              PROVE  FALSE
          <6>1. g[p] \in earlier
            BY <2>5, <4>2, <5>1
          <6>2. g[p] < g[p]
            BY <4>1, <6>1
          <6>3. QED
            BY <3>4, <6>2
        <5>2. QED
          BY <5>1
      <4>4. g[p] = p
        BY <2>3, <3>4, <4>3
      <4>5. QED
        BY <2>2, <2>9, <3>4, <4>4
    <3>6. CASE entries[p].masked \notin Form
      BY <2>2, <2>9, <3>4, <3>6
    <3>7. QED
      BY <3>5, <3>6
  <2>10. QED
    BY <2>8, <2>9
<1>4. QED
  BY <1>3 DEF g

(* A mask that comes back as it was is restored to the text, whatever the  *)
(* maskers, so long as they record what they masked.                       *)
THEOREM ExactMaskRestored ==
    ASSUME NEW t \in Text, NEW seen,
           Plain(t), SpellingsDiffer(ValuesAt(t, seen)), KindsRecorded(ValuesAt(t, seen))
    PROVE  DemaskLine(MaskLine(t, seen).masked, MaskLine(t, seen)) = t
<1> DEFINE entries == MaskLine(t, seen).entries
           m == MaskLine(t, seen).masked
           u == RestorePlaceholders(m, entries)
           v == RestoreForms(u, entries)
<1>1. m = [p \in DOMAIN t |-> IF p \in Hits(t, seen) THEN Mask(t, seen, p) ELSE t[p]]
  BY DEF MaskLine
<1>2. /\ Len(t) \in Nat /\ DOMAIN t = 1..Len(t) /\ t \in Seq(Token)
      /\ Hits(t, seen) \in SUBSET DOMAIN t
      /\ m \in Text /\ DOMAIN m = DOMAIN t
  BY HitsArePositions, MaskLineType DEF Text
<1>3. ASSUME NEW p \in Hits(t, seen)
      PROVE  /\ p \in DOMAIN entries /\ entries[p].original = t[p]
             /\ entries[p].masked = m[p]
             /\ t[p] \in Value
             /\ m[p] \in Placeholder \/ m[p] \in Form \/ m[p] = t[p]
  <2>1. KindOf[TypeOf[t[p]]] \in Recorded
    BY DEF KindsRecorded, ValuesAt
  <2>2. p \in DOMAIN entries /\ entries[p].original = t[p]
        /\ entries[p].masked = Mask(t, seen, p)
    BY <2>1, EntriesType
  <2>3. m[p] = Mask(t, seen, p)
    BY <1>1, <1>2
  <2>4. QED
    BY <2>2, <2>3, MaskType
<1>4. ASSUME NEW p \in DOMAIN t, p \notin Hits(t, seen)
      PROVE  m[p] = t[p] /\ m[p] \notin Placeholder /\ m[p] \notin Form
  <2>1. m[p] = t[p]
    BY <1>1, <1>4
  <2>2. t[p] \in Word \cup Value
    BY DEF Plain
  <2>3. QED
    BY <2>1, <2>2, TokensDiffer
<1>5. DOMAIN entries = Hits(t, seen)
  BY <1>3, EntriesType
<1> HIDE DEF entries, m
<1>6. u = [q \in DOMAIN t |-> IF m[q] \in Placeholder /\ Known(entries, m[q]) # {}
                              THEN ByKey(entries, m[q]) ELSE m[q]]
  BY <1>2 DEF RestorePlaceholders
<1>7. ASSUME NEW p \in DOMAIN t, m[p] \in Placeholder
      PROVE  u[p] = t[p]
  <2>1. p \in Hits(t, seen)
    BY <1>4, <1>7
  <2>2. DemaskLine(m, MaskLine(t, seen))[p] = t[p]
    BY <1>2, <1>7, CitedPlaceholderRestored DEF m
  <2>3. p \in Known(entries, m[p])
    BY <1>3, <2>1 DEF Known
  <2>4. u[p] = ByKey(entries, m[p])
    BY <1>6, <1>7, <2>3
  <2>5. PICK r \in Known(entries, m[p]) : ByKey(entries, m[p]) = t[r]
    BY <2>3, ByKeyFacts DEF entries
  <2>6. t[r] \in Value
    BY <1>3, <1>5 DEF Known
  <2>7. u \in Text /\ DOMAIN u = DOMAIN t
    BY <1>2, FirstPassType DEF entries
  <2>8. RestoreForms(u, entries)[p] = u[p]
    BY <2>4, <2>5, <2>6, <2>7, SecondPassType DEF entries
  <2>9. QED
    BY <2>2, <2>8 DEF DemaskLine, m, entries
<1>8. ASSUME NEW p \in DOMAIN t, m[p] \notin Placeholder
      PROVE  u[p] = m[p]
  BY <1>6, <1>8
<1>9. u \in Text /\ DOMAIN u = DOMAIN t
  BY <1>2, FirstPassType DEF entries
<1> HIDE DEF u
<1>10. \A q \in DOMAIN t : t[q] \notin Placeholder /\ t[q] \notin Form
  BY TokensDiffer DEF Plain
<1>11. \A q \in DOMAIN u : u[q] \notin Placeholder
  BY <1>7, <1>8, <1>9, <1>10
<1>12. \A p \in DOMAIN entries :
         entries[p].masked \notin Placeholder => u[p] = entries[p].masked
  BY <1>2, <1>3, <1>5, <1>8
<1>13. \A q \in DOMAIN u : u[q] \in Form => q \in DOMAIN entries /\ entries[q].masked = u[q]
  BY <1>3, <1>4, <1>5, <1>7, <1>8, <1>9, <1>10
<1>14. \A p \in DOMAIN entries :
         /\ entries[p].masked \in Placeholder => Target(u, entries)[p] = 0
         /\ entries[p].masked \in Form => Target(u, entries)[p] = p
  <2>1. /\ DOMAIN entries \subseteq DOMAIN t
        /\ \A p \in DOMAIN entries :
              entries[p].masked \in Placeholder \cup Form \cup Value
    BY <1>2, <1>3, <1>5
  <2>2. QED
    BY <1>9, <1>11, <1>12, <1>13, <2>1, MasksFoundInPlace
<1>15. ASSUME NEW q \in DOMAIN t
       PROVE  v[q] = t[q]
  <2> DEFINE Sources == {p \in DOMAIN entries : /\ Target(u, entries)[p] = q
                                                /\ u[q] = entries[p].masked}
  <2>1. v[q] = IF Sources = {} THEN u[q]
               ELSE entries[CHOOSE p \in Sources : TRUE].original
    BY <1>9 DEF RestoreForms
  <2>2. u[q] = t[q] \/ u[q] \in Form
    <3>1. CASE m[q] \in Placeholder
      BY <1>7, <3>1
    <3>2. CASE m[q] \notin Placeholder
      BY <1>3, <1>4, <1>8, <3>2
    <3>3. QED
      BY <3>1, <3>2
  <2>3. CASE Sources = {}
    <3>1. ASSUME u[q] \in Form
          PROVE  q \in Sources
      BY <1>9, <1>13, <1>14, <3>1
    <3>2. QED
      BY <2>1, <2>2, <2>3, <3>1
  <2>4. CASE Sources # {}
    <3>1. PICK p \in Sources : v[q] = entries[p].original
      BY <2>1, <2>4
    <3>2. /\ p \in Hits(t, seen) /\ v[q] = t[p] /\ entries[p].masked = m[p]
          /\ Target(u, entries)[p] = q /\ u[q] = m[p]
      BY <1>3, <1>5, <3>1
    <3>3. q # 0
      BY <1>2
    <3>4. CASE m[p] \in Form
      BY <1>5, <1>14, <3>2, <3>4
    <3>5. CASE m[p] \notin Form
      <4>1. m[p] \notin Placeholder
        BY <1>5, <1>14, <3>2, <3>3
      <4>2. m[p] = t[p]
        BY <1>3, <3>2, <3>5, <4>1
      <4>3. QED
        BY <2>2, <3>2, <3>5, <4>2
    <3>6. QED
      BY <3>4, <3>5
  <2>5. QED
    BY <2>3, <2>4
<1>16. v \in Text /\ DOMAIN v = DOMAIN t
  BY <1>9, SecondPassType DEF entries
<1> HIDE DEF v
<1>17. v = t
  <2>1. v \in [1..Len(t) -> Token] /\ t \in [1..Len(t) -> Token]
    BY <1>2, <1>16 DEF Text
  <2>2. QED
    BY <1>2, <1>15, <2>1
<1>18. QED
  BY <1>17 DEF DemaskLine, v, u, m, entries

(* A text that can be restored is restored from its mask, whatever was     *)
(* found in it.                                                            *)
LEMMA RestorableRestored ==
    ASSUME NEW t \in Text, NEW seen, Restorable(t)
    PROVE  DemaskLine(MaskLine(t, seen).masked, MaskLine(t, seen)) = t
<1>1. ValuesAt(t, seen) \subseteq ValuesIn(t)
  BY DEF ValuesAt, ValuesIn, Hits
<1>2. /\ SpellingsDiffer(ValuesAt(t, seen)) /\ KindsRecorded(ValuesAt(t, seen))
      /\ Plain(t)
  BY <1>1 DEF Restorable, SpellingsDiffer, KindsRecorded
<1>3. QED
  BY <1>2, ExactMaskRestored
=============================================================================
