----------------------------- MODULE TextProofs -----------------------------
(***************************************************************************)
(* TextInputs and RoundTrip, proved for texts, numbers and replies of any  *)
(* length: what the validators find out and accept, which characters a     *)
(* span of the normalised form covers, which sentences the engine is       *)
(* given, and that along a path of a JSON value what is read is what is    *)
(* replaced; and that every placeholder the model cites comes back as its  *)
(* value, and a mask that comes back as it was as the original text.       *)
(*                                                                         *)
(* The loops of the code are recursive functions of the model.  That they  *)
(* exist, and what they return, is shown for every length by the least     *)
(* length for which it would not hold.                                     *)
(***************************************************************************)
EXTENDS RoundTrip, TextInputs, MaskingProofs, SequenceTheorems

-----------------------------------------------------------------------------
(* Running sums.                                                           *)

SumStep(f, values, k) == IF k = 0 THEN 0 ELSE f[k - 1] + values[k]
PartSums(values, n) == CHOOSE f : f = [k \in 0..n |-> SumStep(f, values, k)]

(* SumTo is the last of the sums.                                          *)
LEMMA SumToIsLast ==
    ASSUME NEW values, NEW n
    PROVE  SumTo(values, n) = PartSums(values, n)[n]
BY DEF SumTo, PartSums, SumStep

(* The sums up to n exist: a first n without them would get them from      *)
(* those up to n - 1.                                                      *)
LEMMA SumsExist ==
    ASSUME NEW values, NEW n \in Nat
    PROVE  PartSums(values, n) = [k \in 0..n |-> SumStep(PartSums(values, n), values, k)]
<1> DEFINE Has(m) == \E f : f = [k \in 0..m |-> SumStep(f, values, k)]
           Without == {m \in Nat : ~Has(m)}
<1>1. ASSUME Without # {}
      PROVE  FALSE
  <2>1. PICK m \in Without : \A l \in Without : m <= l
    <3>1. Without \in SUBSET Nat
      OBVIOUS
    <3> HIDE DEF Without
    <3>2. QED
      BY <1>1, <3>1, LeastExists
  <2>2. CASE m = 0
    <3> DEFINE f == [k \in 0..m |-> 0]
    <3>1. f = [k \in 0..m |-> SumStep(f, values, k)]
      BY <2>2 DEF SumStep
    <3>2. QED
      BY <2>1, <3>1
  <2>3. CASE m # 0
    <3>1. m \in Nat /\ m - 1 \in Nat /\ m - 1 \notin Without
      BY <2>1, <2>3
    <3>2. PICK g : g = [k \in 0..m - 1 |-> SumStep(g, values, k)]
      BY <3>1
    <3> DEFINE f == [k \in 0..m |-> IF k < m THEN g[k] ELSE SumStep(g, values, m)]
    <3>3. ASSUME NEW k \in 0..m
          PROVE  f[k] = SumStep(f, values, k)
      <4>1. k # 0 => f[k - 1] = g[k - 1]
        BY <3>1
      <4>2. SumStep(f, values, k) = SumStep(g, values, k)
        BY <4>1 DEF SumStep
      <4>3. CASE k < m
        <5>1. f[k] = g[k] /\ k \in 0..m - 1
          BY <3>1, <4>3
        <5>2. QED
          BY <3>2, <4>2, <5>1
      <4>4. CASE k = m
        BY <3>1, <4>2, <4>4
      <4>5. QED
        BY <3>1, <4>3, <4>4
    <3>4. f = [k \in 0..m |-> SumStep(f, values, k)]
      BY <3>3
    <3> HIDE DEF f
    <3>5. QED
      BY <2>1, <3>4
  <2>4. QED
    BY <2>2, <2>3
<1>2. Has(n)
  BY <1>1
<1>3. QED
  BY <1>2 DEF PartSums

(* The sums up to m and those up to n agree as far as both go.             *)
LEMMA SumsAgree ==
    ASSUME NEW values, NEW n \in Nat, NEW m \in 0..n
    PROVE  PartSums(values, n)[m] = PartSums(values, m)[m]
<1> DEFINE f == PartSums(values, n)
           g == PartSums(values, m)
           Differ == {k \in 0..m : f[k] # g[k]}
<1>1. /\ m \in Nat /\ f = [k \in 0..n |-> SumStep(f, values, k)]
      /\ g = [k \in 0..m |-> SumStep(g, values, k)]
  BY SumsExist
<1> HIDE DEF f, g
<1>2. ASSUME Differ # {}
      PROVE  FALSE
  <2>1. PICK k \in Differ : \A l \in Differ : k <= l
    <3>1. Differ \in SUBSET Nat
      BY <1>1
    <3> HIDE DEF Differ
    <3>2. QED
      BY <1>2, <3>1, LeastExists
  <2>2. k # 0 => f[k - 1] = g[k - 1]
    BY <1>1, <2>1
  <2>3. SumStep(f, values, k) = SumStep(g, values, k)
    BY <2>2 DEF SumStep
  <2>4. f[k] = g[k]
    BY <1>1, <2>1, <2>3
  <2>5. QED
    BY <2>1, <2>4
<1>3. QED
  BY <1>1, <1>2 DEF f, g

(* What a running sum is.                                                  *)
LEMMA SumToRecursion ==
    ASSUME NEW values
    PROVE  /\ SumTo(values, 0) = 0
           /\ \A n \in Nat \ {0} : SumTo(values, n) = SumTo(values, n - 1) + values[n]
<1>1. SumTo(values, 0) = 0
  <2>1. PartSums(values, 0)[0] = SumStep(PartSums(values, 0), values, 0)
    BY SumsExist
  <2>2. QED
    BY <2>1, SumToIsLast DEF SumStep
<1>2. ASSUME NEW n \in Nat \ {0}
      PROVE  SumTo(values, n) = SumTo(values, n - 1) + values[n]
  <2>1. PartSums(values, n)[n] = SumStep(PartSums(values, n), values, n)
    BY SumsExist
  <2>2. PartSums(values, n)[n - 1] = PartSums(values, n - 1)[n - 1]
    BY SumsAgree
  <2>3. QED
    BY <2>1, <2>2, SumToIsLast DEF SumStep
<1>3. QED
  BY <1>1, <1>2

(* A sum of natural numbers is one.                                        *)
LEMMA SumToType ==
    ASSUME NEW values, NEW n \in Nat, \A k \in 1..n : values[k] \in Nat
    PROVE  \A m \in 0..n : SumTo(values, m) \in Nat
<1> DEFINE Wrong == {m \in 0..n : SumTo(values, m) \notin Nat}
<1>1. ASSUME Wrong # {}
      PROVE  FALSE
  <2>1. PICK m \in Wrong : \A l \in Wrong : m <= l
    <3>1. Wrong \in SUBSET Nat
      OBVIOUS
    <3> HIDE DEF Wrong
    <3>2. QED
      BY <1>1, <3>1, LeastExists
  <2>2. m # 0
    BY <2>1, SumToRecursion
  <2>3. SumTo(values, m - 1) \in Nat
    BY <2>1, <2>2
  <2>4. SumTo(values, m) = SumTo(values, m - 1) + values[m] /\ values[m] \in Nat
    BY <2>1, <2>2, SumToRecursion
  <2>5. QED
    BY <2>1, <2>3, <2>4
<1>2. QED
  BY <1>1

(* Sums of the same numbers are the same.                                  *)
LEMMA SumToSame ==
    ASSUME NEW values, NEW others, NEW n \in Nat, \A k \in 1..n : values[k] = others[k]
    PROVE  \A m \in 0..n : SumTo(values, m) = SumTo(others, m)
<1> DEFINE Wrong == {m \in 0..n : SumTo(values, m) # SumTo(others, m)}
<1>1. ASSUME Wrong # {}
      PROVE  FALSE
  <2>1. PICK m \in Wrong : \A l \in Wrong : m <= l
    <3>1. Wrong \in SUBSET Nat
      OBVIOUS
    <3> HIDE DEF Wrong
    <3>2. QED
      BY <1>1, <3>1, LeastExists
  <2>2. m # 0
    BY <2>1, SumToRecursion
  <2>3. SumTo(values, m - 1) = SumTo(others, m - 1)
    BY <2>1, <2>2
  <2>4. /\ SumTo(values, m) = SumTo(values, m - 1) + values[m]
        /\ SumTo(others, m) = SumTo(others, m - 1) + others[m]
        /\ values[m] = others[m]
    BY <2>1, <2>2, SumToRecursion
  <2>5. QED
    BY <2>1, <2>3, <2>4
<1>2. QED
  BY <1>1

(* A sum changes as one of the numbers does.                               *)
LEMMA SumToChange ==
    ASSUME NEW values, NEW others, NEW n \in Nat, NEW i \in 1..n,
           \A k \in 1..n : values[k] \in Nat /\ others[k] \in Nat,
           \A k \in 1..n : k # i => values[k] = others[k]
    PROVE  \A m \in i..n : SumTo(others, m) = SumTo(values, m) - values[i] + others[i]
<1> DEFINE Wrong == {m \in i..n : SumTo(others, m) # SumTo(values, m) - values[i] + others[i]}
<1>1. \A m \in 0..n : SumTo(values, m) \in Nat /\ SumTo(others, m) \in Nat
  BY SumToType
<1>2. ASSUME Wrong # {}
      PROVE  FALSE
  <2>1. PICK m \in Wrong : \A l \in Wrong : m <= l
    <3>1. Wrong \in SUBSET Nat
      OBVIOUS
    <3> HIDE DEF Wrong
    <3>2. QED
      BY <1>2, <3>1, LeastExists
  <2>2. /\ m \in Nat \ {0} /\ m \in 1..n /\ m - 1 \in 0..n /\ i \in Nat
        /\ SumTo(values, m) = SumTo(values, m - 1) + values[m]
        /\ SumTo(others, m) = SumTo(others, m - 1) + others[m]
    BY <2>1, SumToRecursion
  <2>3. CASE m = i
    <3>1. i - 1 \in Nat /\ \A k \in 1..i - 1 : values[k] = others[k]
      OBVIOUS
    <3>2. SumTo(values, i - 1) = SumTo(others, i - 1)
      BY <3>1, SumToSame
    <3>3. QED
      BY <1>1, <2>1, <2>2, <2>3, <3>2
  <2>4. CASE m # i
    <3>1. m - 1 \in i..n /\ m - 1 \notin Wrong
      BY <2>1, <2>2, <2>4
    <3>2. SumTo(others, m - 1) = SumTo(values, m - 1) - values[i] + others[i]
      BY <3>1
    <3>3. QED
      BY <1>1, <2>1, <2>2, <2>4, <3>2
  <2>5. QED
    BY <2>3, <2>4
<1>3. QED
  BY <1>2

(* Sums of positive numbers grow.                                          *)
LEMMA SumToGrows ==
    ASSUME NEW values, NEW n \in Nat, \A k \in 1..n : values[k] \in Nat \ {0}
    PROVE  \A l, m \in 0..n : l < m => SumTo(values, l) < SumTo(values, m)
<1>1. \A m \in 0..n : SumTo(values, m) \in Nat
  BY SumToType
<1> SUFFICES ASSUME NEW l \in 0..n
             PROVE  \A m \in l + 1..n : SumTo(values, l) < SumTo(values, m)
  OBVIOUS
<1> DEFINE Wrong == {m \in l + 1..n : ~ (SumTo(values, l) < SumTo(values, m))}
<1>2. ASSUME Wrong # {}
      PROVE  FALSE
  <2>1. PICK m \in Wrong : \A k \in Wrong : m <= k
    <3>1. Wrong \in SUBSET Nat
      OBVIOUS
    <3> HIDE DEF Wrong
    <3>2. QED
      BY <1>2, <3>1, LeastExists
  <2>2. /\ m \in Nat \ {0} /\ m - 1 \in 0..n /\ m \in 1..n
        /\ SumTo(values, m) = SumTo(values, m - 1) + values[m]
    BY <2>1, SumToRecursion
  <2>3. SumTo(values, l) <= SumTo(values, m - 1)
    <3>1. CASE m - 1 = l
      BY <1>1, <3>1
    <3>2. CASE m - 1 # l
      <4>1. m - 1 \in l + 1..n /\ m - 1 \notin Wrong
        BY <2>1, <2>2, <3>2
      <4>2. QED
        BY <1>1, <2>2, <4>1
    <3>3. QED
      BY <3>1, <3>2
  <2>4. SumTo(values, l) < SumTo(values, m)
    BY <1>1, <2>2, <2>3
  <2>5. QED
    BY <2>1, <2>4
<1>3. QED
  BY <1>2

-----------------------------------------------------------------------------
(* Luhn.                                                                   *)

Decimals == 0..9
LuhnValues(seq) == [i \in DOMAIN seq |-> LuhnDigit(seq[i], Len(seq) - i)]
LuhnSum(seq) == SumTo(LuhnValues(seq), Len(seq))

(* What a digit counts is again of 0 to 9, and different for each digit.   *)
LEMMA LuhnDigitFacts ==
    ASSUME NEW d \in Decimals, NEW e \in Decimals, NEW after \in Nat
    PROVE  /\ LuhnDigit(d, after) \in Decimals
           /\ d # e => LuhnDigit(d, after) # LuhnDigit(e, after)
<1>1. CASE after % 2 = 0
  BY <1>1 DEF LuhnDigit, Decimals
<1>2. CASE after % 2 # 0
  BY <1>2 DEF LuhnDigit, Decimals
<1>3. QED
  BY <1>1, <1>2

(* The sum of what the digits count is a natural number.                   *)
LEMMA LuhnSumType ==
    ASSUME NEW seq \in Seq(Decimals)
    PROVE  /\ LuhnSum(seq) \in Nat
           /\ \A k \in 1..Len(seq) : LuhnValues(seq)[k] \in Nat
<1>1. \A k \in 1..Len(seq) : seq[k] \in Decimals /\ Len(seq) - k \in Nat
  OBVIOUS
<1>2. \A k \in 1..Len(seq) : LuhnValues(seq)[k] \in Decimals
  BY <1>1, LuhnDigitFacts DEF LuhnValues
<1>3. Len(seq) \in Nat /\ \A k \in 1..Len(seq) : LuhnValues(seq)[k] \in Nat
  BY <1>2 DEF Decimals
<1>4. \A m \in 0..Len(seq) : SumTo(LuhnValues(seq), m) \in Nat
  BY <1>3, SumToType
<1>5. QED
  BY <1>3, <1>4 DEF LuhnSum

(* A digit that is changed changes the sum by what it counts.              *)
LEMMA LuhnSumChange ==
    ASSUME NEW seq \in Seq(Decimals), NEW i \in 1..Len(seq), NEW d \in Decimals
    PROVE  LET other == [seq EXCEPT ![i] = d]
           IN /\ other \in Seq(Decimals) /\ Len(other) = Len(seq)
              /\ LuhnSum(other) = LuhnSum(seq) - LuhnDigit(seq[i], Len(seq) - i)
                                               + LuhnDigit(d, Len(seq) - i)
<1> DEFINE other == [seq EXCEPT ![i] = d]
           n == Len(seq)
<1>1. /\ other \in Seq(Decimals) /\ Len(other) = n /\ n \in Nat /\ i \in 1..n
      /\ other[i] = d /\ \A k \in 1..n : k # i => other[k] = seq[k]
  OBVIOUS
<1> HIDE DEF other
<1>2. /\ \A k \in 1..n : LuhnValues(seq)[k] \in Nat /\ LuhnValues(other)[k] \in Nat
      /\ \A k \in 1..n : k # i => LuhnValues(seq)[k] = LuhnValues(other)[k]
      /\ LuhnValues(seq)[i] = LuhnDigit(seq[i], n - i)
      /\ LuhnValues(other)[i] = LuhnDigit(d, n - i)
  <2>1. \A k \in 1..n : /\ LuhnValues(seq)[k] = LuhnDigit(seq[k], n - k)
                        /\ LuhnValues(other)[k] = LuhnDigit(other[k], n - k)
    BY <1>1 DEF LuhnValues
  <2>2. QED
    BY <1>1, <2>1, LuhnSumType
<1>3. \A m \in i..n : SumTo(LuhnValues(other), m)
         = SumTo(LuhnValues(seq), m) - LuhnValues(seq)[i] + LuhnValues(other)[i]
  <2> DEFINE v == LuhnValues(seq)
             w == LuhnValues(other)
  <2>1. /\ n \in Nat /\ i \in 1..n
        /\ \A k \in 1..n : v[k] \in Nat /\ w[k] \in Nat
        /\ \A k \in 1..n : k # i => v[k] = w[k]
    BY <1>1, <1>2
  <2> HIDE DEF n, v, w
  <2>2. \A m \in i..n : SumTo(w, m) = SumTo(v, m) - v[i] + w[i]
    BY <2>1, SumToChange
  <2>3. QED
    BY <2>2 DEF v, w
<1>4. n \in i..n
  BY <1>1
<1>5. QED
  BY <1>1, <1>2, <1>3, <1>4 DEF LuhnSum, other

(* A multiple of ten is no multiple when less than ten is added or taken.  *)
LEMMA NextMultiple ==
    ASSUME NEW m \in Nat, NEW n \in Nat, NEW change \in -9..9,
           m % 10 = 0, n = m + change, change # 0
    PROVE  n % 10 # 0
<1>1. m = 10 * (m \div 10) /\ m \div 10 \in Nat
  OBVIOUS
<1>2. ASSUME n % 10 = 0
      PROVE  n = 10 * (n \div 10) /\ n \div 10 \in Nat
  BY <1>2
<1>3. QED
  BY <1>1, <1>2

(* Luhn finds one digit misread, in a number of any length.                *)
LEMMA LuhnMisread ==
    ASSUME NEW seq \in Seq(Decimals), NEW i \in 1..Len(seq), NEW d \in Decimals,
           LuhnValid(seq), d # seq[i]
    PROVE  ~LuhnValid([seq EXCEPT ![i] = d])
<1> DEFINE other == [seq EXCEPT ![i] = d]
           x == LuhnDigit(seq[i], Len(seq) - i)
           y == LuhnDigit(d, Len(seq) - i)
<1>1. /\ LuhnSum(seq) \in Nat /\ LuhnSum(other) \in Nat
      /\ LuhnSum(other) = LuhnSum(seq) - x + y
  BY LuhnSumType, LuhnSumChange
<1>2. x \in 0..9 /\ y \in 0..9 /\ x # y
  <2>1. seq[i] \in Decimals /\ Len(seq) - i \in Nat
    OBVIOUS
  <2>2. QED
    BY <2>1, LuhnDigitFacts DEF Decimals
<1>3. LuhnSum(seq) % 10 = 0
  BY DEF LuhnValid, LuhnSum, LuhnValues
<1> HIDE DEF other, x, y
<1>4. LuhnSum(other) % 10 # 0
  <2> DEFINE change == y - x
  <2>1. change \in -9..9 /\ change # 0 /\ LuhnSum(other) = LuhnSum(seq) + change
    BY <1>1, <1>2
  <2> HIDE DEF change
  <2>2. QED
    BY <1>1, <1>3, <2>1, NextMultiple
<1>5. QED
  BY <1>4 DEF LuhnValid, LuhnSum, LuhnValues, other

(* What two neighbours count differs from what they count when swapped, by *)
(* less than ten, unless they are equal or 0 and 9.                        *)
LEMMA LuhnNeighbours ==
    ASSUME NEW a \in Decimals, NEW b \in Decimals, NEW after \in Nat,
           a # b, {a, b} # {0, 9}
    PROVE  LET change == LuhnDigit(b, after + 1) + LuhnDigit(a, after)
                         - LuhnDigit(a, after + 1) - LuhnDigit(b, after)
           IN change \in -9..9 /\ change # 0
<1>1. CASE after % 2 = 0
  <2>1. (after + 1) % 2 # 0
    BY <1>1
  <2>2. QED
    BY <1>1, <2>1 DEF LuhnDigit, Decimals
<1>2. CASE after % 2 # 0
  <2>1. (after + 1) % 2 = 0
    BY <1>2
  <2>2. QED
    BY <1>2, <2>1 DEF LuhnDigit, Decimals
<1>3. QED
  BY <1>1, <1>2

(* Luhn finds two neighbours swapped, unless they are 0 and 9.             *)
LEMMA LuhnSwapped ==
    ASSUME NEW seq \in Seq(Decimals), NEW i \in 1..Len(seq) - 1,
           LuhnValid(seq), seq[i] # seq[i + 1], {seq[i], seq[i + 1]} # {0, 9}
    PROVE  ~LuhnValid([seq EXCEPT ![i] = seq[i + 1], ![i + 1] = seq[i]])
<1> DEFINE n == Len(seq)
           a == seq[i]
           b == seq[i + 1]
           first == [seq EXCEPT ![i] = b]
           both == [first EXCEPT ![i + 1] = a]
<1>1. /\ n \in Nat /\ i \in 1..n /\ i + 1 \in 1..n
      /\ a \in Decimals /\ b \in Decimals
  OBVIOUS
<1>2. /\ first \in Seq(Decimals) /\ Len(first) = n
      /\ LuhnSum(first) = LuhnSum(seq) - LuhnDigit(a, n - i) + LuhnDigit(b, n - i)
  BY <1>1, LuhnSumChange
<1>3. first[i + 1] = b
  BY <1>1
<1> HIDE DEF first
<1>4. /\ both \in Seq(Decimals) /\ Len(both) = n
      /\ LuhnSum(both) = LuhnSum(first) - LuhnDigit(b, n - (i + 1))
                                        + LuhnDigit(a, n - (i + 1))
  BY <1>1, <1>2, <1>3, LuhnSumChange
<1>5. LuhnSum(seq) \in Nat /\ LuhnSum(both) \in Nat
  BY <1>4, LuhnSumType
<1> DEFINE after == n - (i + 1)
           a0 == LuhnDigit(a, after)
           a1 == LuhnDigit(a, after + 1)
           b0 == LuhnDigit(b, after)
           b1 == LuhnDigit(b, after + 1)
<1>6. after \in Nat /\ n - i = after + 1
  BY <1>1
<1>7. a0 \in 0..9 /\ a1 \in 0..9 /\ b0 \in 0..9 /\ b1 \in 0..9
  <2>1. after \in Nat /\ after + 1 \in Nat /\ a \in Decimals /\ b \in Decimals
    BY <1>1, <1>6
  <2> HIDE DEF after, a, b
  <2>2. a0 \in Decimals /\ a1 \in Decimals /\ b0 \in Decimals /\ b1 \in Decimals
    BY <2>1, LuhnDigitFacts
  <2>3. QED
    BY <2>2 DEF Decimals
<1>8. LuhnSum(both) = LuhnSum(seq) - a1 + b1 - b0 + a0
  <2>0. a0 \in 0..9 /\ a1 \in 0..9 /\ b0 \in 0..9 /\ b1 \in 0..9
    BY <1>7
  <2> HIDE DEF after, a0, a1, b0, b1, both, a, b, n
  <2>1. LuhnSum(first) = LuhnSum(seq) - a1 + b1
    BY <1>2, <1>6 DEF a1, b1
  <2>2. LuhnSum(both) = LuhnSum(first) - b0 + a0
    BY <1>4 DEF after, a0, b0
  <2>3. QED
    BY <1>5, <2>0, <2>1, <2>2
<1>9. b1 + a0 - a1 - b0 \in -9..9 /\ b1 + a0 - a1 - b0 # 0
  BY <1>1, <1>6, LuhnNeighbours
<1>10. LuhnSum(seq) % 10 = 0
  BY DEF LuhnValid, LuhnSum, LuhnValues
<1>11. both = [seq EXCEPT ![i] = seq[i + 1], ![i + 1] = seq[i]]
  BY DEF first
<1> HIDE DEF after, a0, a1, b0, b1, both
<1>12. LuhnSum(both) % 10 # 0
  <2> DEFINE change == b1 + a0 - a1 - b0
  <2>1. LuhnSum(both) = LuhnSum(seq) + change /\ change \in -9..9 /\ change # 0
    BY <1>5, <1>8, <1>9, <1>7
  <2> HIDE DEF change
  <2>2. QED
    BY <1>5, <1>10, <2>1, NextMultiple
<1>13. QED
  BY <1>11, <1>12 DEF LuhnValid, LuhnSum, LuhnValues

-----------------------------------------------------------------------------
(* Control digits.                                                         *)

(* A weighted sum is a natural number.                                     *)
LEMMA WeightedType ==
    ASSUME NEW weights \in Seq(Nat), NEW seq \in Seq(Decimals), Len(weights) <= Len(seq)
    PROVE  Weighted(weights, seq) \in Nat
<1> DEFINE values == [i \in DOMAIN weights |-> weights[i] * seq[i]]
           n == Len(weights)
<1>1. n \in Nat /\ DOMAIN weights = 1..n /\ \A i \in 1..n : i \in 1..Len(seq)
  OBVIOUS
<1>2. \A i \in 1..n : values[i] \in Nat
  <2>1. \A i \in 1..n : weights[i] \in Nat /\ seq[i] \in Nat
    <3>1. \A i \in 1..n : weights[i] \in Nat
      BY <1>1
    <3>2. \A i \in 1..n : seq[i] \in Decimals
      BY <1>1
    <3>3. Decimals \subseteq Nat
      BY DEF Decimals
    <3>4. QED
      BY <3>1, <3>2, <3>3
  <2>2. \A j, k \in Nat : j * k \in Nat
    OBVIOUS
  <2>3. QED
    BY <1>1, <2>1, <2>2
<1> HIDE DEF values, n
<1>3. \A m \in 0..n : SumTo(values, m) \in Nat
  BY <1>1, <1>2, SumToType
<1>4. QED
  BY <1>1, <1>3 DEF Weighted, values, n

(* It goes by the digits that have a weight.                               *)
LEMMA WeightedSame ==
    ASSUME NEW weights \in Seq(Nat), NEW seq, NEW other,
           \A i \in 1..Len(weights) : other[i] = seq[i]
    PROVE  Weighted(weights, other) = Weighted(weights, seq)
<1>1. DOMAIN weights = 1..Len(weights)
  OBVIOUS
<1>2. [i \in DOMAIN weights |-> weights[i] * other[i]]
         = [i \in DOMAIN weights |-> weights[i] * seq[i]]
  BY <1>1
<1>3. QED
  BY <1>2 DEF Weighted

(* A control digit is a digit.                                             *)
LEMMA InnControlType ==
    ASSUME NEW weights \in Seq(Nat), NEW seq \in Seq(Decimals), Len(weights) <= Len(seq)
    PROVE  InnControl(weights, seq) \in 0..9
<1>1. \A n \in Nat : (n % 11) % 10 \in 0..9
  <2>1. \A n \in Nat : n % 11 \in Nat
    OBVIOUS
  <2>2. \A n \in Nat : n % 10 \in 0..9
    OBVIOUS
  <2>3. QED
    BY <2>1, <2>2
<1>2. QED
  BY <1>1, WeightedType DEF InnControl

(* The weights of the control digits of an INN.                            *)
LEMMA InnWeights ==
    /\ Inn10Weights \in Seq(Nat) /\ Len(Inn10Weights) = 9
    /\ Inn12Weights \in Seq(Nat) /\ Len(Inn12Weights) = 10
    /\ <<3>> \o Inn12Weights \in Seq(Nat) /\ Len(<<3>> \o Inn12Weights) = 11
<1>1. /\ Inn10Weights \in Seq(Nat) /\ Len(Inn10Weights) = 9
      /\ Inn12Weights \in Seq(Nat) /\ Len(Inn12Weights) = 10
  BY DEF Inn10Weights, Inn12Weights
<1>2. <<3>> \in Seq(Nat) /\ Len(<<3>>) = 1
  OBVIOUS
<1> HIDE DEF Inn12Weights
<1>3. /\ <<3>> \o Inn12Weights \in Seq(Nat)
      /\ Len(<<3>> \o Inn12Weights) = Len(<<3>>) + Len(Inn12Weights)
  BY <1>1, <1>2, ConcatProperties
<1>4. QED
  BY <1>1, <1>2, <1>3

(* The digits of a number with a digit after it.                           *)
LEMMA DigitAfter ==
    ASSUME NEW seq \in Seq(Decimals), NEW d \in 0..9
    PROVE  /\ Append(seq, d) \in Seq(Decimals) /\ Len(Append(seq, d)) = Len(seq) + 1
           /\ \A i \in 1..Len(seq) + 1 :
                 Append(seq, d)[i] = IF i <= Len(seq) THEN seq[i] ELSE d
<1>1. Len(seq) \in Nat
  OBVIOUS
<1>2. /\ Append(seq, d) \in Seq(Decimals) /\ Len(Append(seq, d)) = Len(seq) + 1
      /\ \A i \in 1..Len(seq) : Append(seq, d)[i] = seq[i]
      /\ Append(seq, d)[Len(seq) + 1] = d
  BY AppendProperties DEF Decimals
<1>3. \A i \in 1..Len(seq) + 1 : (i <= Len(seq) /\ i \in 1..Len(seq)) \/ i = Len(seq) + 1
  BY <1>1
<1>4. QED
  BY <1>1, <1>2, <1>3

(* The digits of a number with two digits after it.                        *)
LEMMA PairAfter ==
    ASSUME NEW seq \in Seq(Decimals), NEW pair \in TwoDigits
    PROVE  /\ pair[1] \in 0..9 /\ pair[2] \in 0..9 /\ pair = <<pair[1], pair[2]>>
           /\ Len(seq \o pair) = Len(seq) + 2
           /\ \A i \in 1..Len(seq) + 2 :
                 (seq \o pair)[i] = IF i <= Len(seq) THEN seq[i]
                                    ELSE IF i = Len(seq) + 1 THEN pair[1] ELSE pair[2]
<1>1. PICK a \in 0..9, b \in 0..9 : pair = <<a, b>>
  BY DEF TwoDigits
<1>2. /\ pair \in Seq(Decimals) /\ Len(pair) = 2
      /\ pair[1] \in 0..9 /\ pair[2] \in 0..9 /\ pair = <<pair[1], pair[2]>>
  BY <1>1 DEF Decimals
<1>3. /\ Len(seq \o pair) = Len(seq) + Len(pair)
      /\ \A i \in 1..Len(seq) + Len(pair) :
            (seq \o pair)[i] = IF i <= Len(seq) THEN seq[i] ELSE pair[i - Len(seq)]
  BY <1>2, ConcatProperties
<1>4. \A i \in 1..Len(seq) + 2 :
         \/ i <= Len(seq)
         \/ ~ (i <= Len(seq)) /\ i = Len(seq) + 1 /\ i - Len(seq) = 1
         \/ ~ (i <= Len(seq)) /\ i # Len(seq) + 1 /\ i - Len(seq) = 2
  OBVIOUS
<1>5. QED
  BY <1>2, <1>3, <1>4

(* One control digit is valid after nine digits of an INN.                 *)
LEMMA Inn10Control ==
    ASSUME NEW seq \in Seq(Decimals), Len(seq) = 9
    PROVE  {d \in 0..9 : Inn(Append(seq, d)) = "valid"} = {InnControl(Inn10Weights, seq)}
<1> DEFINE c == InnControl(Inn10Weights, seq)
<1>1. c \in 0..9
  BY InnControlType, InnWeights
<1>2. ASSUME NEW d \in 0..9
      PROVE  Inn(Append(seq, d)) = "valid" <=> d = c
  <2> DEFINE x == Append(seq, d)
  <2>1. Len(x) = 10 /\ x[10] = d /\ \A i \in 1..9 : x[i] = seq[i]
    <3>1. /\ Len(x) = Len(seq) + 1
          /\ \A i \in 1..Len(seq) + 1 : x[i] = IF i <= Len(seq) THEN seq[i] ELSE d
      BY DigitAfter
    <3> HIDE DEF x
    <3>2. QED
      BY <3>1
  <2>2. InnControl(Inn10Weights, x) = c
    BY <2>1, WeightedSame, InnWeights DEF InnControl
  <2> HIDE DEF c
  <2>3. QED
    BY <2>1, <2>2 DEF Inn, Inn10Valid
<1> HIDE DEF c
<1>3. QED
  BY <1>1, <1>2 DEF c

(* One control number is valid after the nine digits of a SNILS.           *)
LEMMA SnilsControlNumber ==
    ASSUME NEW seq \in Seq(Decimals), Len(seq) = 9
    PROVE  \E pair \in TwoDigits : {p \in TwoDigits : Snils(seq \o p) = "valid"} = {pair}
<1> DEFINE c == SnilsControl(seq)
           weights == <<9, 8, 7, 6, 5, 4, 3, 2, 1>>
           pair == <<c \div 10, c % 10>>
<1>1. weights \in Seq(Nat) /\ Len(weights) = 9
  OBVIOUS
<1>2. c \in 0..99
  <2> DEFINE sum == Weighted(weights, seq)
  <2>1. sum \in Nat
    <3> HIDE DEF weights
    <3>1. QED
      BY <1>1, WeightedType
  <2>2. c = LET cs == IF sum < 100 THEN sum ELSE IF sum \in {100, 101} THEN 0 ELSE sum % 101
            IN IF cs = 100 THEN 0 ELSE cs
    BY DEF SnilsControl
  <2> HIDE DEF sum, c
  <2>3. sum % 101 \in 0..100
    BY <2>1
  <2>4. QED
    BY <2>1, <2>2, <2>3
<1>3. ASSUME NEW p \in TwoDigits
      PROVE  Snils(seq \o p) = "valid" <=> c = 10 * p[1] + p[2]
  <2> DEFINE x == seq \o p
  <2>1. /\ Len(x) = 11 /\ x[10] = p[1] /\ x[11] = p[2]
        /\ \A i \in 1..9 : x[i] = seq[i]
    <3>1. /\ p[1] \in 0..9 /\ Len(x) = Len(seq) + 2
          /\ \A i \in 1..Len(seq) + 2 :
                x[i] = IF i <= Len(seq) THEN seq[i]
                       ELSE IF i = Len(seq) + 1 THEN p[1] ELSE p[2]
      BY PairAfter
    <3> HIDE DEF x
    <3>2. QED
      BY <3>1
  <2>2. Weighted(weights, seq \o p) = Weighted(weights, seq)
    <3> HIDE DEF weights
    <3>1. QED
      BY <1>1, <2>1, WeightedSame
  <2>3. SnilsControl(seq \o p) = c
    BY <2>2 DEF SnilsControl
  <2> HIDE DEF c
  <2>4. QED
    BY <2>1, <2>3 DEF Snils, SnilsValid
<1> HIDE DEF c
<1>4. \A a, b \in 0..9 : c = 10 * a + b <=> a = c \div 10 /\ b = c % 10
  BY <1>2
<1>5. c \div 10 \in 0..9 /\ c % 10 \in 0..9
  BY <1>2
<1>6. pair \in TwoDigits
  BY <1>5 DEF TwoDigits
<1>7. ASSUME NEW p \in TwoDigits
      PROVE  Snils(seq \o p) = "valid" <=> p = pair
  <2>1. p[1] \in 0..9 /\ p[2] \in 0..9 /\ p = <<p[1], p[2]>>
    BY PairAfter
  <2>2. Snils(seq \o p) = "valid" <=> p[1] = c \div 10 /\ p[2] = c % 10
    BY <1>3, <1>4, <2>1
  <2>3. QED
    BY <2>1, <2>2
<1> HIDE DEF pair
<1>8. QED
  BY <1>6, <1>7

(* One pair of control digits is valid after ten digits of an INN.         *)
LEMMA Inn12Control ==
    ASSUME NEW seq \in Seq(Decimals), Len(seq) = 10
    PROVE  \E pair \in TwoDigits : {p \in TwoDigits : Inn(seq \o p) = "valid"} = {pair}
<1> DEFINE weights == <<3>> \o Inn12Weights
           c == InnControl(Inn12Weights, seq)
           second(d) == InnControl(weights, Append(seq, d))
           pair == <<c, second(c)>>
<1>1. c \in 0..9
  BY InnControlType, InnWeights
<1>2. weights \in Seq(Nat) /\ Len(weights) = 11
  BY InnWeights
<1> HIDE DEF weights
<1>3. ASSUME NEW d \in 0..9
      PROVE  second(d) \in 0..9
  <2>1. Append(seq, d) \in Seq(Decimals) /\ Len(Append(seq, d)) = Len(seq) + 1
    BY DigitAfter
  <2> DEFINE x == Append(seq, d)
  <2> HIDE DEF x
  <2>2. x \in Seq(Decimals) /\ Len(weights) <= Len(x)
    BY <1>2, <2>1 DEF x
  <2>3. InnControl(weights, x) \in 0..9
    BY <1>2, <2>2, InnControlType
  <2>4. QED
    BY <2>3 DEF x
<1>4. ASSUME NEW p \in TwoDigits
      PROVE  Inn(seq \o p) = "valid" <=> c = p[1] /\ second(p[1]) = p[2]
  <2> DEFINE x == seq \o p
  <2>1. /\ p[1] \in 0..9
        /\ Len(x) = 12 /\ x[11] = p[1] /\ x[12] = p[2]
        /\ \A i \in 1..10 : x[i] = seq[i]
    <3>1. /\ p[1] \in 0..9 /\ Len(x) = Len(seq) + 2
          /\ \A i \in 1..Len(seq) + 2 :
                x[i] = IF i <= Len(seq) THEN seq[i]
                       ELSE IF i = Len(seq) + 1 THEN p[1] ELSE p[2]
      BY PairAfter
    <3> HIDE DEF x
    <3>2. QED
      BY <3>1
  <2>2. InnControl(Inn12Weights, seq \o p) = c
    BY <2>1, WeightedSame, InnWeights DEF InnControl
  <2>3. \A i \in 1..11 : x[i] = Append(seq, p[1])[i]
    <3> DEFINE y == Append(seq, p[1])
    <3>1. \A i \in 1..Len(seq) + 1 : y[i] = IF i <= Len(seq) THEN seq[i] ELSE p[1]
      BY <2>1, DigitAfter
    <3> HIDE DEF x, y
    <3>2. \A i \in 1..11 : x[i] = y[i]
      BY <2>1, <3>1
    <3>3. QED
      BY <3>2 DEF y
  <2>4. InnControl(weights, seq \o p) = second(p[1])
    BY <1>2, <2>3, WeightedSame DEF InnControl
  <2> HIDE DEF c, second
  <2>5. QED
    BY <2>1, <2>2, <2>4 DEF Inn, Inn12Valid, weights
<1>5. pair \in TwoDigits
  <2> HIDE DEF c, second
  <2>1. QED
    BY <1>1, <1>3 DEF TwoDigits
<1>6. ASSUME NEW p \in TwoDigits
      PROVE  Inn(seq \o p) = "valid" <=> p = pair
  <2>1. p[1] \in 0..9 /\ p[2] \in 0..9 /\ p = <<p[1], p[2]>>
    BY PairAfter
  <2> HIDE DEF c, second
  <2>2. QED
    BY <1>4, <2>1
<1> HIDE DEF pair
<1>7. QED
  BY <1>5, <1>6

-----------------------------------------------------------------------------
(* Dates.                                                                  *)

(* A year has a leap day when is_leap says so.                             *)
LEMMA LeapDayOfYear ==
    ASSUME NEW year \in 1900..2100
    PROVE  LeapDays(year) - LeapDays(year - 1) = IF IsLeap(year) THEN 1 ELSE 0
<1>1. year \div 4 - (year - 1) \div 4 = IF year % 4 = 0 THEN 1 ELSE 0
  OBVIOUS
<1>2. year \div 100 - (year - 1) \div 100 = IF year % 100 = 0 THEN 1 ELSE 0
  OBVIOUS
<1>3. year \div 400 - (year - 1) \div 400 = IF year % 400 = 0 THEN 1 ELSE 0
  OBVIOUS
<1>4. /\ year % 400 = 0 => year % 100 = 0
      /\ year % 100 = 0 => year % 4 = 0
  OBVIOUS
<1> DEFINE a == year \div 4
           b == year \div 100
           c == year \div 400
           d == (year - 1) \div 4
           e == (year - 1) \div 100
           f == (year - 1) \div 400
<1>5. a \in Int /\ b \in Int /\ c \in Int /\ d \in Int /\ e \in Int /\ f \in Int
  OBVIOUS
<1>6. LeapDays(year) = a - b + c /\ LeapDays(year - 1) = d - e + f
  BY DEF LeapDays
<1>7. /\ a - d = IF year % 4 = 0 THEN 1 ELSE 0
      /\ b - e = IF year % 100 = 0 THEN 1 ELSE 0
      /\ c - f = IF year % 400 = 0 THEN 1 ELSE 0
  BY <1>1, <1>2, <1>3
<1> HIDE DEF a, b, c, d, e, f
<1>8. QED
  BY <1>4, <1>5, <1>6, <1>7 DEF IsLeap

(* valid_ymd, in the years that are read, is the calendar.                 *)
LEMMA ValidIsCalendar ==
    ASSUME NEW year \in Nat, NEW month \in Nat, NEW day \in Nat
    PROVE  Exists(<<year, month, day>>) <=> year \in Years /\ ValidYmd(year, month, day)
<1>1. ASSUME year \in 1900..2100, month \in 1..12
      PROVE  DaysInMonth(year, month)
               = DayOfYear[month + 1] - DayOfYear[month]
                 + (IF month = 2 THEN LeapDays(year) - LeapDays(year - 1) ELSE 0)
  <2>1. CASE month = 2
    BY <1>1, <2>1, LeapDayOfYear DEF DaysInMonth, DayOfYear
  <2>2. CASE month \in {1, 3, 5, 7, 8, 10, 12}
    BY <2>2 DEF DaysInMonth, DayOfYear
  <2>3. CASE month \in {4, 6, 9, 11}
    BY <2>3 DEF DaysInMonth, DayOfYear
  <2>4. QED
    BY <1>1, <2>1, <2>2, <2>3
<1>2. day >= 1 <=> day # 0
  OBVIOUS
<1>3. CASE year \in 1900..2100 /\ month \in 1..12
  BY <1>1, <1>2, <1>3 DEF Exists, Years, ValidYmd
<1>4. CASE ~ (year \in 1900..2100 /\ month \in 1..12)
  BY <1>4 DEF Exists, Years, ValidYmd
<1>5. QED
  BY <1>3, <1>4

(* The first reading that exists is found.                                 *)
LEMMA FirstReading ==
    ASSUME NEW year \in Nat, NEW m \in Nat, NEW d \in Nat
    PROVE  LET found == FirstOf(year, m, d, d, m)
               readings == {r \in {<<year, m, d>>, <<year, d, m>>} : Exists(r)}
           IN /\ found = NoDate <=> readings = {}
              /\ readings # {} => found \in readings
              /\ Cardinality(readings) = 2 => found = <<year, m, d>>
<1> DEFINE found == FirstOf(year, m, d, d, m)
           first == <<year, m, d>>
           second == <<year, d, m>>
           readings == {r \in {first, second} : Exists(r)}
<1> SUFFICES /\ found = NoDate <=> readings = {}
             /\ readings # {} => found \in readings
             /\ Cardinality(readings) = 2 => found = first
  OBVIOUS
<1>1. found = IF Exists(first) THEN first ELSE IF Exists(second) THEN second ELSE NoDate
  BY ValidIsCalendar DEF FirstOf
<1>2. first # NoDate /\ second # NoDate
  BY DEF NoDate
<1> HIDE DEF found, first, second
<1>3. CASE Exists(first)
  BY <1>1, <1>2, <1>3
<1>4. CASE ~Exists(first) /\ Exists(second)
  <2>1. readings = {second} /\ found = second
    BY <1>1, <1>4
  <2>2. Cardinality(readings) = 1
    BY <2>1, FS_Singleton
  <2>3. QED
    BY <1>2, <2>1, <2>2
<1>5. CASE ~Exists(first) /\ ~Exists(second)
  <2>1. readings = {} /\ found = NoDate
    BY <1>1, <1>5
  <2>2. Cardinality(readings) = 0
    BY <2>1, FS_EmptySet
  <2>3. QED
    BY <2>1, <2>2
<1>6. QED
  BY <1>3, <1>4, <1>5

-----------------------------------------------------------------------------
(* Offsets.                                                                *)

Widths(chars) == [i \in DOMAIN chars |-> chars[i].width]
FoldWidths(chars) == [k \in DOMAIN chars |-> Bytes(chars[k].folds)]

(* The first n characters, each at least a byte wide, take more bytes for  *)
(* a larger n.                                                             *)
LEMMA BytesGrow ==
    ASSUME NEW chars, NEW n \in Nat, DOMAIN chars = 1..n,
           \A i \in 1..n : chars[i].width \in Nat \ {0}
    PROVE  /\ BytesTo(chars, 0) = 0
           /\ \A m \in 0..n : BytesTo(chars, m) \in Nat
           /\ \A l, m \in 0..n : l < m => BytesTo(chars, l) < BytesTo(chars, m)
<1> DEFINE w == Widths(chars)
<1>1. \A m : BytesTo(chars, m) = SumTo(w, m)
  BY DEF BytesTo, Widths
<1>2. \A i \in 1..n : w[i] \in Nat \ {0}
  BY DEF Widths
<1> HIDE DEF w
<1>3. SumTo(w, 0) = 0
  BY SumToRecursion
<1>4. \A m \in 0..n : SumTo(w, m) \in Nat
  BY <1>2, SumToType
<1>5. \A l, m \in 0..n : l < m => SumTo(w, l) < SumTo(w, m)
  BY <1>2, SumToGrows
<1>6. QED
  BY <1>1, <1>3, <1>4, <1>5

(* What a character folds to: at least one character, in order.            *)
LEMMA FoldsGrow ==
    ASSUME NEW c \in Character
    PROVE  /\ Len(c.folds) \in Nat \ {0} /\ DOMAIN c.folds = 1..Len(c.folds)
           /\ Bytes(c.folds) \in Nat \ {0}
           /\ \A n \in DOMAIN c.folds : BytesTo(c.folds, n) \in 1..Bytes(c.folds)
<1> DEFINE f == c.folds
           n == Len(f)
<1>1. f \in Seq([width : Nat \ {0}, stop : BOOLEAN]) /\ f # <<>>
  BY CharactersAssumption
<1> HIDE DEF f
<1>2. n \in Nat \ {0} /\ DOMAIN f = 1..n /\ \A i \in 1..n : f[i].width \in Nat \ {0}
  <2>1. n \in Nat /\ DOMAIN f = 1..n
    BY <1>1
  <2>2. n # 0
    BY <1>1, EmptySeq
  <2>3. ASSUME NEW i \in 1..n
        PROVE  f[i].width \in Nat \ {0}
    <3>1. f[i] \in [width : Nat \ {0}, stop : BOOLEAN]
      BY <1>1, ElementOfSeq
    <3>2. QED
      BY <3>1
  <2>4. QED
    BY <2>1, <2>2, <2>3
<1> HIDE DEF n
<1>3. /\ BytesTo(f, 0) = 0
      /\ \A m \in 0..n : BytesTo(f, m) \in Nat
      /\ \A l, m \in 0..n : l < m => BytesTo(f, l) < BytesTo(f, m)
  BY <1>2, BytesGrow
<1>4. ASSUME NEW m \in 1..n
      PROVE  BytesTo(f, m) \in 1..BytesTo(f, n)
  <2>1. /\ m \in 0..n /\ n \in 0..n /\ 0 \in 0..n /\ 0 < m /\ m \in Nat
        /\ m < n \/ m = n
    BY <1>2
  <2>2. /\ BytesTo(f, m) \in Nat /\ BytesTo(f, n) \in Nat
        /\ BytesTo(f, 0) < BytesTo(f, m)
    BY <1>3, <2>1
  <2>3. BytesTo(f, m) <= BytesTo(f, n)
    BY <1>3, <2>1, <2>2
  <2>4. QED
    BY <1>3, <2>2, <2>3
<1>5. Bytes(f) = BytesTo(f, n)
  BY DEF Bytes, n
<1>6. n \in 1..n
  BY <1>2
<1>7. Bytes(f) \in 1..Bytes(f)
  BY <1>4, <1>5, <1>6
<1>8. BytesTo(f, n) \in Nat
  BY <1>2, <1>3
<1>9. QED
  BY <1>2, <1>4, <1>5, <1>7, <1>8 DEF f, n

(* A text begins at zero in both forms, and each character begins before   *)
(* the next.                                                               *)
LEMMA StartsGrow ==
    ASSUME NEW t \in Seq(Character)
    PROVE  LET n == Len(t)
           IN /\ n \in Nat /\ DOMAIN t = 1..n
              /\ OrigStart(t, 1) = 0 /\ NormStart(t, 1) = 0
              /\ \A i \in 1..n + 1 : OrigStart(t, i) \in Nat /\ NormStart(t, i) \in Nat
              /\ \A i, j \in 1..n + 1 : i < j =>
                    OrigStart(t, i) < OrigStart(t, j) /\ NormStart(t, i) < NormStart(t, j)
              /\ \A i \in 1..n : NormStart(t, i + 1) = NormStart(t, i) + Bytes(t[i].folds)
<1> DEFINE n == Len(t)
           w == FoldWidths(t)
<1>1. n \in Nat /\ DOMAIN t = 1..n /\ \A i \in 1..n : t[i] \in Character
  OBVIOUS
<1> HIDE DEF n
<1>2. \A i : OrigStart(t, i) = BytesTo(t, i - 1) /\ NormStart(t, i) = SumTo(w, i - 1)
  BY DEF OrigStart, NormStart, FoldWidths
<1>3. /\ BytesTo(t, 0) = 0
      /\ \A m \in 0..n : BytesTo(t, m) \in Nat
      /\ \A l, m \in 0..n : l < m => BytesTo(t, l) < BytesTo(t, m)
  BY <1>1, CharactersAssumption, BytesGrow
<1>4. \A i \in 1..n : w[i] = Bytes(t[i].folds) /\ w[i] \in Nat \ {0}
  BY <1>1, FoldsGrow DEF FoldWidths
<1> HIDE DEF w
<1>5. /\ SumTo(w, 0) = 0
      /\ \A m \in Nat \ {0} : SumTo(w, m) = SumTo(w, m - 1) + w[m]
  BY SumToRecursion
<1>6. \A m \in 0..n : SumTo(w, m) \in Nat
  BY <1>1, <1>4, SumToType
<1>7. \A l, m \in 0..n : l < m => SumTo(w, l) < SumTo(w, m)
  BY <1>1, <1>4, SumToGrows
<1>8. /\ 1 - 1 = 0
      /\ \A i \in 1..n + 1 : i - 1 \in 0..n
      /\ \A i, j \in 1..n + 1 : i < j => i - 1 < j - 1
      /\ \A i \in 1..n : i \in Nat \ {0} /\ (i + 1) - 1 = i
  BY <1>1
<1>9. OrigStart(t, 1) = 0 /\ NormStart(t, 1) = 0
  BY <1>2, <1>3, <1>5, <1>8
<1>10. \A i \in 1..n + 1 : OrigStart(t, i) \in Nat /\ NormStart(t, i) \in Nat
  BY <1>2, <1>3, <1>6, <1>8
<1>11. \A i, j \in 1..n + 1 : i < j =>
          OrigStart(t, i) < OrigStart(t, j) /\ NormStart(t, i) < NormStart(t, j)
  BY <1>2, <1>3, <1>7, <1>8
<1>12. ASSUME NEW i \in 1..n
       PROVE  NormStart(t, i + 1) = NormStart(t, i) + Bytes(t[i].folds)
  <2>1. NormStart(t, i + 1) = SumTo(w, i) /\ NormStart(t, i) = SumTo(w, i - 1)
    BY <1>2, <1>8
  <2>2. SumTo(w, i) = SumTo(w, i - 1) + w[i]
    BY <1>5, <1>8
  <2>3. QED
    BY <1>4, <2>1, <2>2
<1>13. QED
  BY <1>1, <1>9, <1>10, <1>11, <1>12 DEF n

(* What a character folds to ends after it begins and no later than the    *)
(* next one begins.                                                        *)
LEMMA FoldEndsWithin ==
    ASSUME NEW t \in Seq(Character), NEW i \in DOMAIN t, NEW n \in DOMAIN t[i].folds
    PROVE  /\ FoldEnd(t, i, n) \in Nat
           /\ NormStart(t, i) < FoldEnd(t, i, n) /\ FoldEnd(t, i, n) <= NormStart(t, i + 1)
<1>1. i \in 1..Len(t) /\ i \in 1..Len(t) + 1 /\ t[i] \in Character
  BY StartsGrow
<1>2. /\ NormStart(t, i) \in Nat
      /\ NormStart(t, i + 1) = NormStart(t, i) + Bytes(t[i].folds)
  BY <1>1, StartsGrow
<1>3. /\ Bytes(t[i].folds) \in Nat
      /\ BytesTo(t[i].folds, n) \in 1..Bytes(t[i].folds)
  BY <1>1, FoldsGrow
<1>4. QED
  BY <1>2, <1>3 DEF FoldEnd

(* The boundaries of the normalised form are within it.                    *)
LEMMA NormBoundariesWithin ==
    ASSUME NEW t \in Seq(Character), NEW b \in NormBoundaries(t)
    PROVE  b \in 0..NormBytes(t) /\ NormBytes(t) \in Nat
<1> DEFINE n == Len(t)
<1>1. n \in Nat /\ DOMAIN t = 1..n /\ n + 1 \in 1..n + 1 /\ NormBytes(t) = NormStart(t, n + 1)
  BY StartsGrow DEF NormBytes
<1>2. NormBytes(t) \in Nat
  BY <1>1, StartsGrow
<1>3. CASE b = 0
  BY <1>2, <1>3
<1>4. ASSUME NEW i \in DOMAIN t, NEW m \in DOMAIN t[i].folds, b = FoldEnd(t, i, m)
      PROVE  b \in 0..NormBytes(t)
  <2>1. b \in Nat /\ b <= NormStart(t, i + 1)
    BY <1>4, FoldEndsWithin
  <2>2. i + 1 \in 1..n + 1 /\ (i + 1 < n + 1 \/ i + 1 = n + 1)
    BY <1>1
  <2>3. NormStart(t, i + 1) \in Nat /\ NormStart(t, i + 1) <= NormStart(t, n + 1)
    BY <1>1, <2>2, StartsGrow
  <2>4. QED
    BY <1>1, <1>2, <2>1, <2>3
<1>5. QED
  BY <1>2, <1>3, <1>4 DEF NormBoundaries

\* The character that holds offset n of the normalised form, or the end.
CharAt(chars, n) == IF n = NormBytes(chars) THEN Len(chars) + 1 ELSE FoldedFrom(chars, n)

(* Every offset is in one character, or at the end.                        *)
LEMMA CharAtFacts ==
    ASSUME NEW t \in Seq(Character), NEW n \in 0..NormBytes(t), NormBytes(t) \in Nat
    PROVE  /\ CharAt(t, n) \in 1..Len(t) + 1
           /\ NormStart(t, CharAt(t, n)) <= n
           /\ CharAt(t, n) \in 1..Len(t) =>
                 CharAt(t, n) = FoldedFrom(t, n) /\ n < NormStart(t, CharAt(t, n) + 1)
           /\ CharAt(t, n) = Len(t) + 1 => n = NormBytes(t)
<1> DEFINE len == Len(t)
<1>1. /\ len \in Nat /\ DOMAIN t = 1..len /\ len + 1 \in 1..len + 1
      /\ NormBytes(t) = NormStart(t, len + 1) /\ NormStart(t, 1) = 0
  BY StartsGrow DEF NormBytes
<1>2. \A i \in 1..len + 1 : NormStart(t, i) \in Nat
  BY StartsGrow
<1> HIDE DEF len
<1>3. CASE n = NormBytes(t)
  <2>1. CharAt(t, n) = len + 1
    BY <1>3 DEF CharAt, len
  <2>2. QED
    BY <1>1, <1>2, <1>3, <2>1 DEF len
<1>4. CASE n # NormBytes(t)
  <2> DEFINE T == {i \in 1..len : NormStart(t, i) <= n}
  <2>1. n \in Nat /\ n < NormStart(t, len + 1)
    BY <1>1, <1>4
  <2>2. 1 \in T
    <3>1. len # 0
      BY <1>1, <2>1
    <3>2. QED
      BY <1>1, <2>1, <3>1
  <2>3. PICK i \in T : \A j \in T : j <= i
    <3>1. T \in SUBSET (1..len) /\ T # {}
      BY <2>2
    <3> HIDE DEF T
    <3>2. QED
      BY <1>1, <3>1, GreatestExists
  <2>4. n < NormStart(t, i + 1)
    <3>1. CASE i = len
      BY <2>1, <3>1
    <3>2. CASE i # len
      <4>1. i + 1 \in 1..len /\ i + 1 \in 1..len + 1 /\ ~ (i + 1 <= i)
        BY <1>1, <3>2
      <4>2. i + 1 \notin T
        BY <2>3, <4>1
      <4>3. NormStart(t, i + 1) \in Nat
        BY <1>2, <4>1
      <4>4. QED
        BY <2>1, <4>1, <4>2, <4>3
    <3>3. QED
      BY <3>1, <3>2
  <2>5. i \in DOMAIN t /\ NormStart(t, i) <= n /\ n < NormStart(t, i + 1)
    BY <1>1, <2>4
  <2>6. /\ FoldedFrom(t, n) \in DOMAIN t
        /\ NormStart(t, FoldedFrom(t, n)) <= n /\ n < NormStart(t, FoldedFrom(t, n) + 1)
    BY <2>5 DEF FoldedFrom
  <2>7. CharAt(t, n) = FoldedFrom(t, n)
    BY <1>4 DEF CharAt
  <2>8. \A k \in 1..len : k # len + 1 /\ k \in 1..len + 1
    BY <1>1
  <2>9. QED
    BY <1>1, <2>6, <2>7, <2>8 DEF len
<1>5. QED
  BY <1>3, <1>4

(* An offset is in or after character i when it is not before i begins.    *)
LEMMA CharAtOrder ==
    ASSUME NEW t \in Seq(Character), NEW n \in 0..NormBytes(t), NormBytes(t) \in Nat,
           NEW i \in 1..Len(t) + 1
    PROVE  i <= CharAt(t, n) <=> NormStart(t, i) <= n
<1> DEFINE len == Len(t)
           c == CharAt(t, n)
<1>1. /\ len \in Nat /\ n \in Nat /\ i \in 1..len + 1 /\ c \in 1..len + 1
      /\ NormStart(t, c) <= n
      /\ c \in 1..len => n < NormStart(t, c + 1)
      /\ \A j \in 1..len + 1 : NormStart(t, j) \in Nat
      /\ \A j, k \in 1..len + 1 : j < k => NormStart(t, j) < NormStart(t, k)
  BY CharAtFacts, StartsGrow
<1> HIDE DEF len, c
<1>2. CASE i <= c
  <2>1. i = c \/ i < c
    BY <1>1, <1>2
  <2>2. NormStart(t, i) <= NormStart(t, c)
    BY <1>1, <2>1
  <2>3. QED
    BY <1>1, <1>2, <2>2 DEF c
<1>3. CASE c < i
  <2>1. c \in 1..len /\ c + 1 \in 1..len + 1 /\ (c + 1 = i \/ c + 1 < i)
    BY <1>1, <1>3
  <2>2. NormStart(t, c + 1) <= NormStart(t, i)
    BY <1>1, <2>1
  <2>3. n < NormStart(t, i)
    BY <1>1, <2>1, <2>2
  <2>4. QED
    BY <1>1, <1>3, <2>3 DEF c
<1>4. QED
  BY <1>1, <1>2, <1>3

(* Where a character begins is in that character.                          *)
LEMMA CharAtStart ==
    ASSUME NEW t \in Seq(Character), NEW i \in 1..Len(t) + 1
    PROVE  /\ NormStart(t, i) \in 0..NormBytes(t) /\ NormBytes(t) \in Nat
           /\ CharAt(t, NormStart(t, i)) = i
<1> DEFINE len == Len(t)
           n == NormStart(t, i)
<1>1. /\ len \in Nat /\ i \in 1..len + 1 /\ len + 1 \in 1..len + 1
      /\ NormBytes(t) = NormStart(t, len + 1)
      /\ \A j \in 1..len + 1 : NormStart(t, j) \in Nat
      /\ \A j, k \in 1..len + 1 : j < k => NormStart(t, j) < NormStart(t, k)
  BY StartsGrow DEF NormBytes
<1> HIDE DEF len
<1>2. n \in 0..NormBytes(t) /\ NormBytes(t) \in Nat
  <2>1. i = len + 1 \/ i < len + 1
    BY <1>1
  <2>2. QED
    BY <1>1, <2>1
<1>3. CharAt(t, n) \in 1..len + 1
  BY <1>2, CharAtFacts DEF len
<1>4. i <= CharAt(t, n)
  BY <1>1, <1>2, CharAtOrder DEF len
<1>5. ~ (i < CharAt(t, n))
  <2>1. NormStart(t, CharAt(t, n)) <= n
    BY <1>2, CharAtFacts
  <2>2. QED
    BY <1>1, <1>3, <2>1
<1>6. QED
  BY <1>1, <1>2, <1>3, <1>4, <1>5

(* The least of a set that has one.                                        *)
LEMMA MinOf ==
    ASSUME NEW S \in SUBSET Int, NEW x \in S, \A y \in S : x <= y
    PROVE  Min(S) = x
<1>1. \A y \in S : (\A z \in S : y <= z) => y = x
  OBVIOUS
<1>2. QED
  BY <1>1 DEF Min

(* Where a character begins is a boundary already.                         *)
LEMMA AlignStart ==
    ASSUME NEW t \in Seq(Character), NEW i \in 1..Len(t) + 1
    PROVE  AlignForward(t, OrigStart(t, i)) = OrigStart(t, i)
<1> DEFINE b == OrigStart(t, i)
           S == {x \in Boundaries(t) : x >= b}
<1>1. Boundaries(t) \in SUBSET Nat /\ b \in Boundaries(t)
  BY StartsGrow DEF Boundaries
<1>2. S \in SUBSET Int /\ b \in S /\ \A y \in S : b <= y
  BY <1>1
<1> HIDE DEF b, S
<1>3. Min(S) = b
  BY <1>2, MinOf
<1>4. QED
  BY <1>3 DEF AlignForward, b, S

(* The map leads from an offset to the beginning of the character it is in.*)
LEMMA NormToOrigIsStart ==
    ASSUME NEW t \in Seq(Character), NEW n \in 0..NormBytes(t), NormBytes(t) \in Nat
    PROVE  NormToOrig(t)[n] = OrigStart(t, CharAt(t, n))
<1>1. Bytes(t) = OrigStart(t, Len(t) + 1)
  <2>1. Len(t) \in Nat
    BY StartsGrow
  <2>2. (Len(t) + 1) - 1 = Len(t)
    BY <2>1
  <2>3. QED
    BY <2>2 DEF Bytes, OrigStart
<1>2. NormToOrig(t)[n] = IF n = NormBytes(t) THEN Bytes(t) ELSE OrigStart(t, FoldedFrom(t, n))
  BY DEF NormToOrig
<1>3. QED
  BY <1>1, <1>2 DEF CharAt

(* What the map and the alignment make of an offset.                       *)
LEMMA MappedIsStart ==
    ASSUME NEW t \in Seq(Character), NormBytes(t) \in Nat,
           NEW from \in 0..NormBytes(t), NEW to \in 0..NormBytes(t)
    PROVE  ToOriginalMapped(t, from, to)
             = <<OrigStart(t, CharAt(t, from)), OrigStart(t, CharAt(t, to))>>
<1>1. ASSUME NEW n \in 0..NormBytes(t)
      PROVE  AlignForward(t, NormToOrig(t)[Min({n, NormBytes(t)})]) = OrigStart(t, CharAt(t, n))
  <2>1. {n, NormBytes(t)} \in SUBSET Int /\ n \in {n, NormBytes(t)}
        /\ \A y \in {n, NormBytes(t)} : n <= y
    OBVIOUS
  <2>2. Min({n, NormBytes(t)}) = n
    BY <2>1, MinOf
  <2>3. NormToOrig(t)[n] = OrigStart(t, CharAt(t, n)) /\ CharAt(t, n) \in 1..Len(t) + 1
    BY NormToOrigIsStart, CharAtFacts
  <2>4. QED
    BY <2>2, <2>3, AlignStart
<1>2. QED
  BY <1>1 DEF ToOriginalMapped

(* Where every character keeps its width the normalised form has the       *)
(* offsets of the text, and a boundary is where a character begins.        *)
LEMMA SameOffsets ==
    ASSUME NEW t \in Seq(Character), \A k \in DOMAIN t : SameWidth(t[k])
    PROVE  /\ \A i \in 1..Len(t) + 1 : NormStart(t, i) = OrigStart(t, i)
           /\ \A b \in NormBoundaries(t) : \E i \in 1..Len(t) + 1 : b = NormStart(t, i)
<1> DEFINE len == Len(t)
           v == Widths(t)
           w == FoldWidths(t)
<1>1. /\ len \in Nat /\ DOMAIN t = 1..len /\ \A i \in 1..len : t[i] \in Character
      /\ NormStart(t, 1) = 0
  BY StartsGrow, ElementOfSeq
<1>2. ASSUME NEW i \in 1..len
      PROVE  /\ v[i] = w[i] /\ DOMAIN t[i].folds = {1}
             /\ \A n \in DOMAIN t[i].folds : FoldEnd(t, i, n) = NormStart(t, i + 1)
  <2> DEFINE f == t[i].folds
  <2>1. /\ t[i] \in Character /\ SameWidth(t[i])
        /\ v[i] = t[i].width /\ w[i] = Bytes(f)
    BY <1>1 DEF Widths, FoldWidths
  <2>2. f \in Seq([width : Nat \ {0}, stop : BOOLEAN]) /\ Len(f) = 1 /\ f[1].width = t[i].width
    BY <2>1, CharactersAssumption DEF SameWidth
  <2> HIDE DEF f
  <2>3. DOMAIN f = {1}
    BY <2>2
  <2>4. Bytes(f) = BytesTo(f, 1)
    BY <2>2 DEF Bytes
  <2>5. BytesTo(f, 1) = t[i].width
    <3> DEFINE x == [k \in DOMAIN f |-> f[k].width]
    <3>1. x[1] = t[i].width /\ t[i].width \in Nat
      BY <2>1, <2>2, <2>3, CharactersAssumption
    <3> HIDE DEF x
    <3>2. SumTo(x, 0) = 0 /\ SumTo(x, 1) = SumTo(x, 1 - 1) + x[1]
      BY SumToRecursion
    <3>3. SumTo(x, 1) = t[i].width
      BY <3>1, <3>2
    <3>4. QED
      BY <3>3 DEF BytesTo, x
  <2>6. ASSUME NEW n \in DOMAIN f
        PROVE  FoldEnd(t, i, n) = NormStart(t, i + 1)
    <3>1. n = 1
      BY <2>3
    <3>2. NormStart(t, i + 1) = NormStart(t, i) + Bytes(f)
      BY <1>1, StartsGrow DEF f
    <3>3. QED
      BY <2>4, <3>1, <3>2 DEF FoldEnd, f
  <2>7. QED
    BY <2>1, <2>3, <2>4, <2>5, <2>6 DEF f
<1>3. ASSUME NEW i \in 1..len + 1
      PROVE  NormStart(t, i) = OrigStart(t, i)
  <2>1. i - 1 \in 0..len
    BY <1>1
  <2>2. SumTo(v, i - 1) = SumTo(w, i - 1)
    <3>1. \A k \in 1..len : v[k] = w[k]
      BY <1>2
    <3> HIDE DEF v, w, len
    <3>2. QED
      BY <1>1, <2>1, <3>1, SumToSame
  <2>3. QED
    BY <2>2 DEF NormStart, OrigStart, BytesTo, Widths, FoldWidths
<1>4. ASSUME NEW b \in NormBoundaries(t)
      PROVE  \E i \in 1..len + 1 : b = NormStart(t, i)
  <2>1. CASE b = 0
    BY <1>1, <2>1
  <2>2. ASSUME NEW i \in 1..len, NEW n \in DOMAIN t[i].folds, b = FoldEnd(t, i, n)
        PROVE  \E j \in 1..len + 1 : b = NormStart(t, j)
    <3>1. b = NormStart(t, i + 1) /\ i + 1 \in 1..len + 1
      BY <1>1, <1>2, <2>2
    <3>2. QED
      BY <3>1
  <2>3. QED
    BY <1>1, <2>1, <2>2 DEF NormBoundaries
<1>5. QED
  BY <1>3, <1>4

(* Of plain characters a boundary is the same offset in the text.          *)
LEMMA PlainOffsets ==
    ASSUME NEW t \in Seq(Character), FastPath(t), NEW b \in NormBoundaries(t)
    PROVE  OrigStart(t, CharAt(t, b)) = b
<1>1. \A k \in DOMAIN t : SameWidth(t[k])
  BY CharactersAssumption, ElementOfSeq DEF FastPath, SameWidth
<1>2. PICK i \in 1..Len(t) + 1 : b = NormStart(t, i) /\ NormStart(t, i) = OrigStart(t, i)
  BY <1>1, SameOffsets
<1>3. QED
  BY <1>2, CharAtStart

(* A span of the normalised form is that from the beginning of the         *)
(* character its first offset is in to the beginning of the one its last   *)
(* offset is in.                                                           *)
LEMMA ToOriginalIsStarts ==
    ASSUME NEW t \in Seq(Character),
           NEW from \in NormBoundaries(t), NEW to \in NormBoundaries(t)
    PROVE  ToOriginal(t, from, to)
             = <<OrigStart(t, CharAt(t, from)), OrigStart(t, CharAt(t, to))>>
<1>1. CASE FastPath(t)
  BY <1>1, PlainOffsets DEF ToOriginal
<1>2. CASE ~FastPath(t)
  BY <1>2, MappedIsStart, NormBoundariesWithin DEF ToOriginal
<1>3. QED
  BY <1>1, <1>2

(* The characters of such a span: those that end within it.                *)
LEMMA SpanCovers ==
    ASSUME NEW t \in Seq(Character),
           NEW from \in NormBoundaries(t), NEW to \in NormBoundaries(t), NEW i \in DOMAIN t
    PROVE  i \in Slice(t, ToOriginal(t, from, to))
             <=> from < NormStart(t, i + 1) /\ NormStart(t, i + 1) <= to
<1> DEFINE len == Len(t)
           c == CharAt(t, from)
           d == CharAt(t, to)
<1>1. /\ NormBytes(t) \in Nat /\ from \in 0..NormBytes(t) /\ to \in 0..NormBytes(t)
      /\ from \in Nat /\ to \in Nat
  BY NormBoundariesWithin
<1>2. /\ len \in Nat /\ DOMAIN t = 1..len /\ i \in 1..len + 1 /\ i + 1 \in 1..len + 1
      /\ c \in 1..len + 1 /\ d \in 1..len + 1
  <2>1. len \in Nat /\ DOMAIN t = 1..len
    BY StartsGrow
  <2>2. i \in 1..len + 1 /\ i + 1 \in 1..len + 1
    BY <2>1
  <2>3. c \in 1..len + 1 /\ d \in 1..len + 1
    BY <1>1, CharAtFacts
  <2>4. QED
    BY <2>1, <2>2, <2>3
<1>3. NormStart(t, i + 1) \in Nat
  BY <1>2, StartsGrow
<1>4. /\ i + 1 <= c <=> NormStart(t, i + 1) <= from
      /\ i + 1 <= d <=> NormStart(t, i + 1) <= to
  BY <1>1, <1>2, CharAtOrder
<1>5. ASSUME NEW j \in 1..len + 1, NEW k \in 1..len + 1
      PROVE  OrigStart(t, j) < OrigStart(t, k) <=> j < k
  <2>1. /\ j < k => OrigStart(t, j) < OrigStart(t, k)
        /\ k < j => OrigStart(t, k) < OrigStart(t, j)
        /\ OrigStart(t, j) \in Nat /\ OrigStart(t, k) \in Nat
    BY StartsGrow
  <2>2. j < k \/ k < j \/ j = k
    BY <1>2
  <2>3. QED
    BY <2>1, <2>2
<1>6. \A j \in 1..len + 1 : OrigStart(t, j) \in Nat
  BY StartsGrow
<1>7. i \in Slice(t, ToOriginal(t, from, to))
        <=> OrigStart(t, c) <= OrigStart(t, i) /\ OrigStart(t, i) < OrigStart(t, d)
  BY ToOriginalIsStarts DEF Slice
<1> HIDE DEF c, d, len
<1>8. OrigStart(t, c) <= OrigStart(t, i) <=> ~ (i + 1 <= c)
  BY <1>2, <1>5, <1>6
<1>9. OrigStart(t, i) < OrigStart(t, d) <=> i + 1 <= d
  BY <1>2, <1>5
<1>10. QED
  BY <1>1, <1>3, <1>4, <1>7, <1>8, <1>9

-----------------------------------------------------------------------------
(* Windows.                                                                *)

(* Sentences are cut at boundaries of the normalised form.                 *)
LEMMA CutsWithin ==
    ASSUME NEW t \in Seq(Character)
    PROVE  /\ NormBytes(t) \in Nat /\ {0, NormBytes(t)} \subseteq Cuts(t)
           /\ \A c \in Cuts(t) : c \in NormBoundaries(t) /\ c \in 0..NormBytes(t)
<1> DEFINE len == Len(t)
<1>1. len \in Nat /\ DOMAIN t = 1..len /\ NormBytes(t) = NormStart(t, len + 1)
  BY StartsGrow DEF NormBytes
<1>2. 0 \in NormBoundaries(t) /\ {0, NormBytes(t)} \subseteq Cuts(t)
  BY DEF NormBoundaries, Cuts
<1>3. NormBytes(t) \in NormBoundaries(t)
  <2>1. CASE len = 0
    <3>1. NormBytes(t) = NormStart(t, 1) /\ NormStart(t, 1) = 0
      <4>1. len + 1 = 1
        BY <2>1
      <4>2. QED
        BY <1>1, <4>1, StartsGrow
    <3>2. QED
      BY <1>2, <3>1
  <2>2. CASE len # 0
    <3> DEFINE f == t[len].folds
    <3>1. len \in 1..len /\ t[len] \in Character
      BY <1>1, <2>2, ElementOfSeq
    <3>2. Len(f) \in DOMAIN f
      BY <3>1, FoldsGrow
    <3>3. FoldEnd(t, len, Len(f)) = NormBytes(t)
      <4>1. NormStart(t, len + 1) = NormStart(t, len) + Bytes(t[len].folds)
        BY <3>1, StartsGrow
      <4>2. QED
        BY <1>1, <4>1 DEF FoldEnd, Bytes
    <3> HIDE DEF f
    <3>4. FoldEnd(t, len, Len(f)) \in {FoldEnd(t, len, n) : n \in DOMAIN f}
      BY <3>2
    <3>5. QED
      BY <1>1, <3>1, <3>3, <3>4 DEF NormBoundaries, f
  <2>3. QED
    BY <2>1, <2>2
<1>4. \A c \in StopEnds(t) : c \in NormBoundaries(t)
  BY DEF StopEnds, NormBoundaries
<1>5. \A c \in Cuts(t) : c \in NormBoundaries(t)
  BY <1>2, <1>3, <1>4 DEF Cuts
<1>6. QED
  BY <1>2, <1>3, <1>5, NormBoundariesWithin

(* What no cut divides is in one sentence.                                 *)
LEMMA SentenceAround ==
    ASSUME NEW t \in Seq(Character), NEW low \in 0..NormBytes(t), NEW high \in 0..NormBytes(t),
           low < high, \A c \in Cuts(t) : c <= low \/ high <= c
    PROVE  \E s \in Sentences(t) : s[1] <= low /\ high <= s[2]
<1> DEFINE n == NormBytes(t)
           K == Cuts(t)
<1>1. n \in Nat /\ {0, n} \subseteq K /\ K \in SUBSET (0..n) /\ low \in 0..n /\ high \in 0..n
  BY CutsWithin
<1>2. \A c \in K : c <= low \/ high <= c
  OBVIOUS
<1> HIDE DEF n, K
<1>3. PICK a \in K : a <= low /\ \A c \in K : c <= low => c <= a
  <2> DEFINE U == {low - c : c \in {x \in K : x <= low}}
  <2>1. U \in SUBSET Nat /\ U # {}
    <3>1. \A c \in {x \in K : x <= low} : low - c \in Nat
      BY <1>1
    <3>2. 0 \in {x \in K : x <= low}
      BY <1>1
    <3>3. QED
      BY <3>1, <3>2
  <2>2. PICK u \in U : \A x \in U : u <= x
    <3> HIDE DEF U
    <3>1. QED
      BY <2>1, LeastExists
  <2>3. PICK a \in K : a <= low /\ u = low - a
    BY <2>2
  <2>4. ASSUME NEW c \in K, c <= low
        PROVE  c <= a
    <3>1. low - c \in U
      BY <2>4
    <3>2. low - a <= low - c
      BY <2>2, <2>3, <3>1
    <3>3. QED
      BY <1>1, <3>2
  <2>5. QED
    BY <2>3, <2>4
<1>4. PICK b \in K : high <= b /\ \A c \in K : high <= c => b <= c
  <2> DEFINE U == {c \in K : high <= c}
  <2>1. U \in SUBSET Nat /\ U # {}
    <3>1. \A c \in K : c \in Nat
      BY <1>1
    <3>2. n \in K /\ high <= n
      BY <1>1
    <3>3. QED
      BY <3>1, <3>2
  <2> HIDE DEF U
  <2>2. PICK b \in U : \A x \in U : b <= x
    BY <2>1, LeastExists
  <2>3. QED
    BY <2>2 DEF U
<1>5. a < b /\ \A c \in K : c <= a \/ b <= c
  BY <1>1, <1>2, <1>3, <1>4
<1>6. <<a, b>> \in Sentences(t)
  BY <1>5 DEF Sentences, K
<1>7. <<a, b>>[1] <= low /\ high <= <<a, b>>[2]
  BY <1>3, <1>4
<1>8. QED
  BY <1>6, <1>7

(* The sentences of a text are finitely many, and none begins where        *)
(* another does.                                                           *)
LEMMA SentencesApart ==
    ASSUME NEW t \in Seq(Character)
    PROVE  /\ IsFiniteSet(Sentences(t))
           /\ \A s \in Sentences(t) : s[1] \in Cuts(t) /\ s[2] \in Cuts(t) /\ s[1] \in Nat
           /\ \A r, s \in Sentences(t) : r[1] = s[1] => r = s
<1> DEFINE n == NormBytes(t)
           K == Cuts(t)
<1>1. n \in Nat /\ K \in SUBSET (0..n) /\ Sentences(t) \in SUBSET (K \X K)
  BY CutsWithin DEF Sentences
<1>2. \A s \in Sentences(t) : \A c \in K : s[1] < s[2] /\ (c <= s[1] \/ s[2] <= c)
  BY DEF Sentences
<1> HIDE DEF n, K
<1>3. IsFiniteSet(Sentences(t))
  <2>1. IsFiniteSet(0..n)
    BY <1>1, FS_Interval
  <2>2. IsFiniteSet(K)
    BY <1>1, <2>1, FS_Subset
  <2>3. IsFiniteSet(K \X K)
    BY <2>2, FS_Product
  <2>4. QED
    BY <1>1, <2>3, FS_Subset
<1>4. \A s \in Sentences(t) :
          s[1] \in K /\ s[2] \in K /\ s = <<s[1], s[2]>> /\ s[1] \in Nat /\ s[2] \in Nat
  BY <1>1
<1>5. ASSUME NEW r \in Sentences(t), NEW s \in Sentences(t), r[1] = s[1]
      PROVE  r = s
  <2>1. /\ r[1] \in K /\ r[2] \in K /\ r[1] \in Nat /\ r[2] \in Nat
        /\ s[1] \in K /\ s[2] \in K /\ s[1] \in Nat /\ s[2] \in Nat
    BY <1>4
  <2>2. r[1] < r[2] /\ s[1] < s[2]
    BY <1>2, <2>1
  <2>3. (s[2] <= r[1] \/ r[2] <= s[2]) /\ (r[2] <= s[1] \/ s[2] <= r[2])
    BY <1>2, <2>1
  <2>4. r[2] = s[2]
    BY <1>5, <2>1, <2>2, <2>3
  <2>5. QED
    BY <1>4, <1>5, <2>4
<1>6. QED
  BY <1>3, <1>4, <1>5 DEF K

(* Of a set in order the first m are as many as m, unless they are all.    *)
LEMMA FirstOfThem ==
    ASSUME NEW S, IsFiniteSet(S), NEW m \in Nat,
           \A s \in S : s[1] \in Nat,
           \A r, s \in S : r[1] = s[1] => r = s
    PROVE  LET first == {s \in S : Cardinality({r \in S : r[1] < s[1]}) < m}
           IN first = S \/ Cardinality(first) = m
<1> DEFINE Preceding(s) == {r \in S : r[1] < s[1]}
           W == {s \in S : Cardinality(Preceding(s)) < m}
           T == {s[1] : s \in S \ W}
<1>1. \A R \in SUBSET S : IsFiniteSet(R) /\ Cardinality(R) \in Nat
  BY FS_Subset, FS_CardinalityType
<1>2. \A s : Preceding(s) \in SUBSET S
  OBVIOUS
<1>3. W \in SUBSET S
  OBVIOUS
<1>4. ASSUME W # S
      PROVE  Cardinality(W) = m
  <2>1. PICK x \in S \ W : \A y \in S \ W : x[1] <= y[1]
    <3>1. T \in SUBSET Nat /\ T # {}
      <4>1. S \ W # {}
        BY <1>3, <1>4
      <4>2. \A s \in S \ W : s[1] \in Nat
        OBVIOUS
      <4> HIDE DEF W
      <4>3. QED
        BY <4>1, <4>2
    <3>2. PICK k \in T : \A l \in T : k <= l
      <4> HIDE DEF T
      <4>1. QED
        BY <3>1, LeastExists
    <3>3. PICK x \in S \ W : k = x[1]
      BY <3>2
    <3>4. \A y \in S \ W : y[1] \in T
      OBVIOUS
    <3> HIDE DEF T, W
    <3>5. QED
      BY <3>2, <3>3, <3>4
  <2>2. ~ (Cardinality(Preceding(x)) < m)
    BY <2>1
  <2>3. Preceding(x) = W
    <3>1. ASSUME NEW r \in S, r[1] < x[1]
          PROVE  r \in W
      <4>1. ~ (x[1] <= r[1])
        BY <2>1, <3>1
      <4>2. QED
        BY <2>1, <4>1
    <3>2. ASSUME NEW r \in W, ~ (r[1] < x[1])
          PROVE  FALSE
      <4>1. r \in S /\ Cardinality(Preceding(r)) < m
        OBVIOUS
      <4>2. Preceding(x) \in SUBSET Preceding(r)
        BY <2>1, <3>2, <4>1
      <4> HIDE DEF Preceding
      <4>3. IsFiniteSet(Preceding(r))
        BY <1>1, <1>2
      <4>4. Cardinality(Preceding(x)) <= Cardinality(Preceding(r))
        BY <4>2, <4>3, FS_Subset
      <4>5. Cardinality(Preceding(x)) \in Nat /\ Cardinality(Preceding(r)) \in Nat
        BY <1>1, <1>2
      <4>6. QED
        BY <2>2, <4>1, <4>4, <4>5
    <3>3. QED
      BY <3>1, <3>2
  <2>4. Cardinality(W) \in Nat /\ m <= Cardinality(W)
    <3>1. Cardinality(W) \in Nat
      BY <1>1, <1>3
    <3>2. ~ (Cardinality(W) < m)
      BY <2>2, <2>3
    <3> HIDE DEF W
    <3>3. QED
      BY <3>1, <3>2
  <2>5. ASSUME m < Cardinality(W)
        PROVE  FALSE
    <3> DEFINE U == {x[1] - y[1] : y \in W}
    <3>1. \A y \in W : y \in S /\ y[1] < x[1] /\ y[1] \in Nat /\ x[1] \in Nat
      BY <2>1, <2>3
    <3>2. W # {}
      <4> HIDE DEF W
      <4>1. W = {} => Cardinality(W) = 0
        BY FS_EmptySet
      <4>2. QED
        BY <2>4, <2>5, <4>1
    <3>3. PICK y \in W : \A z \in W : z[1] <= y[1]
      <4>1. U \in SUBSET Nat /\ U # {}
        <5> HIDE DEF W
        <5>1. \A y \in W : x[1] - y[1] \in Nat
          BY <3>1
        <5>2. QED
          BY <3>2, <5>1
      <4>2. PICK u \in U : \A l \in U : u <= l
        <5> HIDE DEF U
        <5>1. QED
          BY <4>1, LeastExists
      <4>3. PICK y \in W : u = x[1] - y[1]
        BY <4>2
      <4>4. ASSUME NEW z \in W
            PROVE  z[1] <= y[1]
        <5>1. x[1] - y[1] <= x[1] - z[1]
          <6>1. x[1] - z[1] \in U
            OBVIOUS
          <6> HIDE DEF U
          <6>2. QED
            BY <4>2, <4>3, <6>1
        <5>2. QED
          BY <3>1, <5>1
      <4>5. QED
        BY <4>3, <4>4
    <3>4. Preceding(y) = W \ {y}
      <4>1. ASSUME NEW r \in Preceding(y)
            PROVE  r \in W \ {y}
        <5>1. r \in S /\ r[1] < y[1] /\ y[1] < x[1] /\ y[1] \in Nat /\ x[1] \in Nat /\ r[1] \in Nat
          BY <3>1
        <5>2. r \in Preceding(x) /\ r # y
          BY <5>1
        <5>3. QED
          BY <2>3, <5>2
      <4>2. ASSUME NEW r \in W \ {y}
            PROVE  r \in Preceding(y)
        <5>1. /\ r \in S /\ y \in S /\ r # y /\ r[1] <= y[1]
              /\ r[1] \in Nat /\ y[1] \in Nat
          BY <3>1, <3>3
        <5>2. r[1] # y[1]
          BY <5>1
        <5>3. QED
          BY <5>1, <5>2
      <4>3. QED
        BY <4>1, <4>2
    <3>5. Cardinality(Preceding(y)) < m
      OBVIOUS
    <3> HIDE DEF W, Preceding
    <3>6. Cardinality(W \ {y}) = Cardinality(W) - 1
      BY <1>1, <1>3, FS_RemoveElement
    <3>7. QED
      BY <2>4, <2>5, <3>4, <3>5, <3>6
  <2>6. QED
    BY <2>4, <2>5
<1>5. QED
  BY <1>4

(* What characters without a stop fold to is in one sentence.              *)
LEMMA NoCutWithin ==
    ASSUME NEW t \in Seq(Character), NEW i \in DOMAIN t, NEW j \in 1..i,
           \A k \in j..i : \A n \in DOMAIN t[k].folds : ~t[k].folds[n].stop,
           NEW c \in Cuts(t)
    PROVE  c <= NormStart(t, j) \/ NormStart(t, i + 1) <= c
<1> DEFINE len == Len(t)
           S(k) == NormStart(t, k)
<1>1. len \in Nat /\ DOMAIN t = 1..len /\ NormBytes(t) = S(len + 1)
  BY StartsGrow DEF NormBytes
<1>2. i \in 1..len + 1 /\ j \in 1..len + 1 /\ i + 1 \in 1..len + 1 /\ len + 1 \in 1..len + 1
  BY <1>1
<1>3. \A k, l \in 1..len + 1 : k <= l => S(k) <= S(l) /\ S(k) \in Nat /\ S(l) \in Nat
  <2>1. /\ \A k \in 1..len + 1 : S(k) \in Nat
        /\ \A k, l \in 1..len + 1 : k < l => S(k) < S(l)
    BY StartsGrow
  <2> HIDE DEF S, len
  <2>2. \A k, l \in 1..len + 1 : k <= l => k = l \/ k < l
    BY <1>1
  <2>3. QED
    BY <2>1, <2>2
<1> HIDE DEF S
<1>4. CASE c = 0
  BY <1>2, <1>3, <1>4 DEF S
<1>5. CASE c = NormBytes(t)
  <2>1. i + 1 <= len + 1
    BY <1>1, <1>2
  <2>2. QED
    BY <1>1, <1>2, <1>3, <1>5, <2>1 DEF S
<1>6. ASSUME NEW k \in DOMAIN t, NEW n \in DOMAIN t[k].folds, t[k].folds[n].stop,
             c = FoldEnd(t, k, n)
      PROVE  c <= S(j) \/ S(i + 1) <= c
  <2>1. c \in Nat /\ S(k) < c /\ c <= S(k + 1)
    BY <1>6, FoldEndsWithin DEF S
  <2>2. k \in 1..len /\ k \in 1..len + 1 /\ k + 1 \in 1..len + 1
    BY <1>1
  <2>3. k \notin j..i
    BY <1>6
  <2>4. k + 1 <= j \/ i + 1 <= k
    BY <1>2, <2>2, <2>3
  <2>5. CASE k + 1 <= j
    <3>1. S(k + 1) <= S(j) /\ S(k + 1) \in Nat /\ S(j) \in Nat
      BY <1>2, <1>3, <2>2, <2>5
    <3>2. QED
      BY <2>1, <3>1
  <2>6. CASE i + 1 <= k
    <3>1. S(i + 1) <= S(k) /\ S(i + 1) \in Nat /\ S(k) \in Nat
      BY <1>2, <1>3, <2>2, <2>6
    <3>2. QED
      BY <2>1, <3>1
  <2>7. QED
    BY <2>4, <2>5, <2>6
<1>7. QED
  BY <1>4, <1>5, <1>6 DEF Cuts, StopEnds, S

-----------------------------------------------------------------------------
(* JSON paths.                                                             *)

\* The path with its first idx segments taken off.
After(p, idx) == [i \in 1..Len(p) - idx |-> p[i + idx]]

(* A path that is taken off piece by piece is taken off at once.           *)
LEMMA AfterFacts ==
    ASSUME NEW S, NEW p \in Seq(S), NEW idx \in 0..Len(p)
    PROVE  /\ After(p, idx) \in Seq(S) /\ Len(After(p, idx)) = Len(p) - idx
           /\ idx < Len(p) => /\ After(p, idx)[1] = p[idx + 1]
                              /\ After(After(p, idx), 1) = After(p, idx + 1)
<1> DEFINE q == After(p, idx)
           n == Len(p)
<1>1. n \in Nat /\ n - idx \in Nat /\ \A i \in 1..n : p[i] \in S
  OBVIOUS
<1> HIDE DEF n
<1>2. q \in [1..n - idx -> S] /\ \A i \in 1..n - idx : q[i] = p[i + idx]
  BY <1>1 DEF After, n
<1>3. q \in Seq(S) /\ Len(q) = n - idx
  <2> DEFINE k == n - idx
  <2>1. k \in Nat /\ q \in [1..k -> S]
    BY <1>1, <1>2
  <2> HIDE DEF q, k
  <2>2. q \in Seq(S) /\ Len(q) = k
    BY <2>1
  <2>3. QED
    BY <2>2 DEF k
<1>4. ASSUME idx < n
      PROVE  q[1] = p[idx + 1] /\ After(q, 1) = After(p, idx + 1)
  <2>1. q[1] = p[idx + 1]
    BY <1>1, <1>2, <1>4
  <2>2. Len(q) - 1 = n - (idx + 1)
    BY <1>1, <1>3
  <2>3. ASSUME NEW i \in 1..n - (idx + 1)
        PROVE  q[i + 1] = p[i + (idx + 1)]
    <3>1. i + 1 \in 1..n - idx /\ (i + 1) + idx = i + (idx + 1)
      BY <1>1, <1>4
    <3>2. QED
      BY <1>2, <3>1
  <2> HIDE DEF q
  <2>4. After(q, 1) = After(p, idx + 1)
    BY <2>2, <2>3 DEF After, n
  <2>5. QED
    BY <2>1, <2>4
<1>5. QED
  BY <1>3, <1>4 DEF n

VisitStep(value, p, f, idx) ==
    IF idx = 0 THEN {value}
    ELSE UNION {{Entry(v, e) : e \in Selects(v, p[idx])} : v \in f[idx - 1]}

(* The values that each number of segments leads to exist.                 *)
LEMMA VisitedExist ==
    ASSUME NEW value, NEW p, Len(p) \in Nat
    PROVE  Visited(value, p)
             = [idx \in 0..Len(p) |-> VisitStep(value, p, Visited(value, p), idx)]
<1> DEFINE Has(m) == \E f : f = [k \in 0..m |-> VisitStep(value, p, f, k)]
           Without == {m \in Nat : ~Has(m)}
<1>1. ASSUME Without # {}
      PROVE  FALSE
  <2>1. PICK m \in Without : \A l \in Without : m <= l
    <3>1. Without \in SUBSET Nat
      OBVIOUS
    <3> HIDE DEF Without
    <3>2. QED
      BY <1>1, <3>1, LeastExists
  <2>2. CASE m = 0
    <3> DEFINE f == [k \in 0..m |-> {value}]
    <3>1. f = [k \in 0..m |-> VisitStep(value, p, f, k)]
      BY <2>2 DEF VisitStep
    <3>2. QED
      BY <2>1, <3>1
  <2>3. CASE m # 0
    <3>1. m \in Nat /\ m - 1 \in Nat /\ m - 1 \notin Without
      BY <2>1, <2>3
    <3>2. PICK g : g = [k \in 0..m - 1 |-> VisitStep(value, p, g, k)]
      BY <3>1
    <3> DEFINE f == [k \in 0..m |-> IF k < m THEN g[k] ELSE VisitStep(value, p, g, m)]
    <3>3. ASSUME NEW k \in 0..m
          PROVE  f[k] = VisitStep(value, p, f, k)
      <4>1. k # 0 => f[k - 1] = g[k - 1]
        BY <3>1
      <4>2. VisitStep(value, p, f, k) = VisitStep(value, p, g, k)
        BY <4>1 DEF VisitStep
      <4>3. CASE k < m
        <5>1. f[k] = g[k] /\ k \in 0..m - 1
          BY <3>1, <4>3
        <5>2. QED
          BY <3>2, <4>2, <5>1
      <4>4. CASE k = m
        BY <3>1, <4>2, <4>4
      <4>5. QED
        BY <3>1, <4>3, <4>4
    <3>4. f = [k \in 0..m |-> VisitStep(value, p, f, k)]
      BY <3>3
    <3> HIDE DEF f
    <3>5. QED
      BY <2>1, <3>4
  <2>4. QED
    BY <2>2, <2>3
<1>2. Has(Len(p))
  BY <1>1
<1> DEFINE V == CHOOSE f : f = [k \in 0..Len(p) |-> VisitStep(value, p, f, k)]
<1>3. V = [k \in 0..Len(p) |-> VisitStep(value, p, V, k)]
  BY <1>2
<1>4. Visited(value, p) = V
  BY DEF Visited, VisitStep
<1>5. QED
  BY <1>3, <1>4

(* What is visited: the value first, then what segments select.            *)
LEMMA VisitedOnward ==
    ASSUME NEW value, NEW p, Len(p) \in Nat
    PROVE  /\ Visited(value, p)[0] = {value}
           /\ \A idx \in 0..Len(p) - 1 : \A v \in Visited(value, p)[idx] :
                 \A e \in Selects(v, p[idx + 1]) : Entry(v, e) \in Visited(value, p)[idx + 1]
<1> DEFINE V == Visited(value, p)
<1>1. V = [idx \in 0..Len(p) |-> VisitStep(value, p, V, idx)]
  BY VisitedExist
<1> HIDE DEF V
<1>2. V[0] = {value}
  BY <1>1 DEF VisitStep
<1>3. ASSUME NEW idx \in 0..Len(p) - 1
      PROVE  V[idx + 1] = UNION {{Entry(v, e) : e \in Selects(v, p[idx + 1])} : v \in V[idx]}
  <2>1. idx + 1 \in 0..Len(p) /\ idx + 1 # 0 /\ (idx + 1) - 1 = idx
    OBVIOUS
  <2>2. QED
    BY <1>1, <2>1 DEF VisitStep
<1>4. QED
  BY <1>2, <1>3 DEF V

Strings(v) == IF v.kind = "string" THEN <<v.string>> ELSE <<>>
Found(p, f, idx, v) == [e \in Selects(v, p[idx + 1]) |-> f[idx + 1][Entry(v, e)]]
ExtractStep(value, p, f, idx) ==
    [v \in Visited(value, p)[idx] |->
        IF idx = Len(p) THEN Strings(v) ELSE InOrder(v, Found(p, f, idx, v))]
Extracted(value, p) ==
    CHOOSE f : f = [idx \in 0..Len(p) |-> ExtractStep(value, p, f, idx)]

(* extract is extract_rec from the first segment on.                       *)
LEMMA ExtractIsFirst ==
    ASSUME NEW value, NEW p
    PROVE  Extract(value, p) = Extracted(value, p)[0][value]
BY DEF Extract, Extracted, ExtractStep, Found, Strings

(* What is extracted with each number of segments left exists.             *)
LEMMA ExtractedExists ==
    ASSUME NEW value, NEW p, Len(p) \in Nat
    PROVE  Extracted(value, p)
             = [idx \in 0..Len(p) |-> ExtractStep(value, p, Extracted(value, p), idx)]
<1> DEFINE n == Len(p)
           Has(m) == \E f : f = [k \in n - m..n |-> ExtractStep(value, p, f, k)]
           Without == {m \in Nat : ~Has(m)}
<1>1. ASSUME Without # {}
      PROVE  FALSE
  <2>1. PICK m \in Without : \A l \in Without : m <= l
    <3>1. Without \in SUBSET Nat
      OBVIOUS
    <3> HIDE DEF Without
    <3>2. QED
      BY <1>1, <3>1, LeastExists
  <2>2. CASE m = 0
    <3> DEFINE f == [k \in n - m..n |-> [v \in Visited(value, p)[k] |-> Strings(v)]]
    <3>1. f = [k \in n - m..n |-> ExtractStep(value, p, f, k)]
      BY <2>2 DEF ExtractStep
    <3>2. QED
      BY <2>1, <3>1
  <2>3. CASE m # 0
    <3>1. m \in Nat /\ m - 1 \in Nat /\ m - 1 \notin Without
      BY <2>1, <2>3
    <3>2. PICK g : g = [k \in n - (m - 1)..n |-> ExtractStep(value, p, g, k)]
      BY <3>1
    <3> DEFINE f == [k \in n - m..n |-> IF n - m < k THEN g[k] ELSE ExtractStep(value, p, g, n - m)]
    <3>3. ASSUME NEW k \in n - m..n
          PROVE  f[k] = ExtractStep(value, p, f, k)
      <4>1. k # n => f[k + 1] = g[k + 1]
        BY <3>1
      <4>2. ExtractStep(value, p, f, k) = ExtractStep(value, p, g, k)
        <5>1. CASE k = n
          BY <5>1 DEF ExtractStep
        <5>2. CASE k # n
          <6> HIDE DEF f
          <6>1. QED
            BY <4>1, <5>2 DEF ExtractStep, Found
        <5>3. QED
          BY <5>1, <5>2
      <4>3. CASE n - m < k
        <5>1. f[k] = g[k] /\ k \in n - (m - 1)..n
          BY <3>1, <4>3
        <5>2. QED
          BY <3>2, <4>2, <5>1
      <4>4. CASE k = n - m
        BY <3>1, <4>2, <4>4
      <4>5. QED
        BY <3>1, <4>3, <4>4
    <3>4. f = [k \in n - m..n |-> ExtractStep(value, p, f, k)]
      BY <3>3
    <3> HIDE DEF f
    <3>5. QED
      BY <2>1, <3>4
  <2>4. QED
    BY <2>2, <2>3
<1>2. Has(n)
  BY <1>1
<1>3. n - n = 0
  OBVIOUS
<1>4. \E f : f = [k \in 0..n |-> ExtractStep(value, p, f, k)]
  BY <1>2, <1>3
<1>5. QED
  BY <1>4 DEF Extracted

(* What is extracted at the end of a path, and on the way.                 *)
LEMMA ExtractedOnward ==
    ASSUME NEW value, NEW p, Len(p) \in Nat, NEW idx \in 0..Len(p),
           NEW v \in Visited(value, p)[idx]
    PROVE  Extracted(value, p)[idx][v]
             = IF idx = Len(p) THEN Strings(v)
               ELSE InOrder(v, Found(p, Extracted(value, p), idx, v))
<1> DEFINE E == Extracted(value, p)
<1>1. E = [k \in 0..Len(p) |-> ExtractStep(value, p, E, k)]
  BY ExtractedExists
<1> HIDE DEF E
<1>2. E[idx] = ExtractStep(value, p, E, idx)
  BY <1>1
<1>3. E[idx][v] = IF idx = Len(p) THEN Strings(v) ELSE InOrder(v, Found(p, E, idx, v))
  BY <1>2 DEF ExtractStep
<1>4. QED
  BY <1>3 DEF E

(* With some of the path behind it, the rest is extracted as from the      *)
(* first segment.                                                          *)
LEMMA ExtractedIsExtract ==
    ASSUME NEW S, NEW s \in Seq(S), NEW i \in 0..Len(s), NEW x,
           NEW u \in Visited(x, s)[i]
    PROVE  Extracted(x, s)[i][u] = Extract(u, After(s, i))
<1> DEFINE Agree(k) ==
              \A value : \A p \in Seq(S) : \A idx \in 0..Len(p) :
                 \A v \in Visited(value, p)[idx] : Len(p) - idx = k =>
                    Extracted(value, p)[idx][v] = Extract(v, After(p, idx))
           Differ == {k \in Nat : ~Agree(k)}
<1>1. ASSUME Differ # {}
      PROVE  FALSE
  <2>1. PICK k \in Differ : \A l \in Differ : k <= l
    <3>1. Differ \in SUBSET Nat
      OBVIOUS
    <3> HIDE DEF Differ
    <3>2. QED
      BY <1>1, <3>1, LeastExists
  <2>2. k \in Nat /\ ~Agree(k)
    OBVIOUS
  <2>3. k # 0 => k - 1 \in Nat /\ Agree(k - 1)
    <3>1. k # 0 => k - 1 \in Nat /\ ~ (k <= k - 1)
      BY <2>2
    <3> HIDE DEF Agree
    <3>2. QED
      BY <2>1, <3>1
  <2>4. ASSUME NEW value, NEW p \in Seq(S), NEW idx \in 0..Len(p),
               NEW v \in Visited(value, p)[idx], Len(p) - idx = k
        PROVE  Extracted(value, p)[idx][v] = Extract(v, After(p, idx))
    <3> DEFINE q == After(p, idx)
               n == Len(p)
    <3>1. n \in Nat /\ idx \in 0..n /\ q \in Seq(S) /\ Len(q) = k /\ n - idx = k
      <4>1. q \in Seq(S) /\ Len(q) = n - idx
        BY AfterFacts
      <4>2. n \in Nat
        OBVIOUS
      <4>3. QED
        BY <2>4, <4>1, <4>2
    <3>2. idx < n => q[1] = p[idx + 1] /\ After(q, 1) = After(p, idx + 1)
      BY AfterFacts
    <3> HIDE DEF q
    <3>3. v \in Visited(v, q)[0] /\ 0 \in 0..Len(q)
      <4>1. Len(q) \in Nat
        BY <2>2, <3>1
      <4>2. Visited(v, q)[0] = {v}
        BY <4>1, VisitedOnward
      <4>3. QED
        BY <4>1, <4>2
    <3>4. Extract(v, q) = Extracted(v, q)[0][v]
      BY ExtractIsFirst
    <3>5. CASE k = 0
      <4>1. Extracted(v, q)[0][v] = Strings(v)
        <5>1. Len(q) \in Nat /\ 0 = Len(q)
          BY <3>1, <3>5
        <5>2. QED
          BY <3>3, <5>1, ExtractedOnward
      <4>2. Extracted(value, p)[idx][v] = Strings(v)
        BY <3>1, <3>5, ExtractedOnward
      <4>3. QED
        BY <3>4, <4>1, <4>2 DEF q
    <3>6. CASE k # 0
      <4>1. /\ idx < n /\ idx + 1 \in 0..n /\ idx \in 0..n - 1 /\ n - (idx + 1) = k - 1
            /\ idx # n /\ Len(q) # 0 /\ Len(q) \in Nat
            /\ 1 \in 0..Len(q) /\ 0 \in 0..Len(q) - 1 /\ Len(q) - 1 = k - 1 /\ 0 + 1 = 1
        <5>1. k \in Nat /\ k # 0 /\ n \in Nat /\ idx \in 0..n /\ n - idx = k /\ Len(q) = k
          BY <2>2, <3>1, <3>6
        <5> HIDE DEF n, q
        <5>2. QED
          BY <5>1
      <4>2. ASSUME NEW y, NEW r \in Seq(S), NEW m \in 0..Len(r), NEW w \in Visited(y, r)[m],
                   Len(r) - m = k - 1
            PROVE  Extracted(y, r)[m][w] = Extract(w, After(r, m))
        BY <2>3, <3>6, <4>2
      <4>3. ASSUME NEW e \in Selects(v, q[1])
            PROVE  Extracted(value, p)[idx + 1][Entry(v, e)] = Extracted(v, q)[1][Entry(v, e)]
        <5>1. Entry(v, e) \in Visited(value, p)[idx + 1]
          BY <3>1, <3>2, <4>1, VisitedOnward
        <5>2. Entry(v, e) \in Visited(v, q)[1]
          <6>1. \A y \in Visited(v, q)[0] : \A z \in Selects(y, q[0 + 1]) :
                   Entry(y, z) \in Visited(v, q)[0 + 1]
            BY <2>2, <3>1, <4>1, VisitedOnward
          <6>2. QED
            BY <3>3, <4>1, <6>1
        <5>3. Extracted(value, p)[idx + 1][Entry(v, e)] = Extract(Entry(v, e), After(p, idx + 1))
          <6> DEFINE m == idx + 1
                     w == Entry(v, e)
          <6>1. m \in 0..Len(p) /\ Len(p) - m = k - 1 /\ w \in Visited(value, p)[m]
            BY <4>1, <5>1
          <6> HIDE DEF m, w
          <6>2. Extracted(value, p)[m][w] = Extract(w, After(p, m))
            BY <4>2, <6>1
          <6>3. QED
            BY <6>2 DEF m, w
        <5>4. Extracted(v, q)[1][Entry(v, e)] = Extract(Entry(v, e), After(q, 1))
          BY <3>1, <4>1, <4>2, <5>2
        <5>5. QED
          BY <3>2, <4>1, <5>3, <5>4
      <4>4. Extracted(value, p)[idx][v] = InOrder(v, Found(p, Extracted(value, p), idx, v))
        BY <3>1, <4>1, ExtractedOnward
      <4>5. Extracted(v, q)[0][v] = InOrder(v, Found(q, Extracted(v, q), 0, v))
        BY <3>3, <4>1, ExtractedOnward
      <4>6. Found(p, Extracted(value, p), idx, v) = Found(q, Extracted(v, q), 0, v)
        BY <3>2, <4>1, <4>3 DEF Found
      <4>7. QED
        BY <3>4, <4>4, <4>5, <4>6 DEF q
    <3>7. QED
      BY <3>5, <3>6
  <2>5. QED
    BY <2>2, <2>4
<1> HIDE DEF Agree
<1>2. \A k \in Nat : Agree(k)
  BY <1>1
<1>3. ASSUME NEW k \in Nat, Len(s) - i = k
      PROVE  Extracted(x, s)[i][u] = Extract(u, After(s, i))
  <2>1. Agree(k)
    BY <1>2
  <2>2. \A p \in Seq(S) : \A idx \in 0..Len(p) : \A v \in Visited(x, p)[idx] :
           Len(p) - idx = k => Extracted(x, p)[idx][v] = Extract(v, After(p, idx))
    BY <2>1 DEF Agree
  <2>3. QED
    BY <1>3, <2>2
<1>4. Len(s) - i \in Nat
  OBVIOUS
<1>5. QED
  BY <1>3, <1>4

(* extract, segment by segment.                                            *)
LEMMA ExtractSegment ==
    ASSUME NEW S, NEW p \in Seq(S), NEW value
    PROVE  /\ p = <<>> => Extract(value, p) = Strings(value)
           /\ p # <<>> => Extract(value, p)
                = InOrder(value, [e \in Selects(value, p[1]) |->
                                      Extract(Entry(value, e), After(p, 1))])
<1> DEFINE n == Len(p)
<1>1. n \in Nat /\ 0 \in 0..n
  OBVIOUS
<1>2. value \in Visited(value, p)[0] /\ Extract(value, p) = Extracted(value, p)[0][value]
  BY <1>1, VisitedOnward, ExtractIsFirst
<1>3. CASE p = <<>>
  <2>1. 0 = n
    BY <1>3
  <2>2. Extracted(value, p)[0][value] = Strings(value)
    BY <1>1, <1>2, <2>1, ExtractedOnward
  <2>3. QED
    BY <1>2, <1>3, <2>2
<1>4. CASE p # <<>>
  <2>1. n # 0 /\ 1 \in 0..n /\ 0 \in 0..n - 1 /\ n - 1 \in Nat /\ 0 + 1 = 1
    BY <1>1, <1>4, EmptySeq
  <2>2. Extracted(value, p)[0][value]
          = InOrder(value, Found(p, Extracted(value, p), 0, value))
    BY <1>1, <1>2, <2>1, ExtractedOnward
  <2>3. ASSUME NEW e \in Selects(value, p[1])
        PROVE  Extracted(value, p)[1][Entry(value, e)] = Extract(Entry(value, e), After(p, 1))
    <3>1. Entry(value, e) \in Visited(value, p)[0 + 1]
      BY <1>1, <1>2, <2>1, VisitedOnward
    <3> DEFINE w == Entry(value, e)
    <3>2. w \in Visited(value, p)[1] /\ 1 \in 0..Len(p)
      BY <2>1, <3>1
    <3> HIDE DEF w
    <3>3. Extracted(value, p)[1][w] = Extract(w, After(p, 1))
      BY <3>2, ExtractedIsExtract
    <3>4. QED
      BY <3>3 DEF w
  <2>4. Found(p, Extracted(value, p), 0, value)
          = [e \in Selects(value, p[1]) |-> Extract(Entry(value, e), After(p, 1))]
    BY <2>1, <2>3 DEF Found
  <2>5. QED
    BY <1>2, <1>4, <2>1, <2>2, <2>4
<1>5. QED
  BY <1>3, <1>4

Written(v) == IF v.kind = "string" THEN [v EXCEPT !.string.replaced = TRUE] ELSE v
ReplaceStep(value, p, f, idx) ==
    [v \in Visited(value, p)[idx] |->
        IF idx = Len(p) THEN Written(v) ELSE Rebuilt(v, Found(p, f, idx, v))]
Replaced(value, p) ==
    CHOOSE f : f = [idx \in 0..Len(p) |-> ReplaceStep(value, p, f, idx)]

(* replace is replace_rec from the first segment on.                       *)
LEMMA ReplaceIsFirst ==
    ASSUME NEW value, NEW p
    PROVE  Replace(value, p) = Replaced(value, p)[0][value]
BY DEF Replace, Replaced, ReplaceStep, Found, Written

(* What is replaced with each number of segments left exists.              *)
LEMMA ReplacedExists ==
    ASSUME NEW value, NEW p, Len(p) \in Nat
    PROVE  Replaced(value, p)
             = [idx \in 0..Len(p) |-> ReplaceStep(value, p, Replaced(value, p), idx)]
<1> DEFINE n == Len(p)
           Has(m) == \E f : f = [k \in n - m..n |-> ReplaceStep(value, p, f, k)]
           Without == {m \in Nat : ~Has(m)}
<1>1. ASSUME Without # {}
      PROVE  FALSE
  <2>1. PICK m \in Without : \A l \in Without : m <= l
    <3>1. Without \in SUBSET Nat
      OBVIOUS
    <3> HIDE DEF Without
    <3>2. QED
      BY <1>1, <3>1, LeastExists
  <2>2. CASE m = 0
    <3> DEFINE f == [k \in n - m..n |-> [v \in Visited(value, p)[k] |-> Written(v)]]
    <3>1. f = [k \in n - m..n |-> ReplaceStep(value, p, f, k)]
      BY <2>2 DEF ReplaceStep
    <3>2. QED
      BY <2>1, <3>1
  <2>3. CASE m # 0
    <3>1. m \in Nat /\ m - 1 \in Nat /\ m - 1 \notin Without
      BY <2>1, <2>3
    <3>2. PICK g : g = [k \in n - (m - 1)..n |-> ReplaceStep(value, p, g, k)]
      BY <3>1
    <3> DEFINE f == [k \in n - m..n |-> IF n - m < k THEN g[k] ELSE ReplaceStep(value, p, g, n - m)]
    <3>3. ASSUME NEW k \in n - m..n
          PROVE  f[k] = ReplaceStep(value, p, f, k)
      <4>1. k # n => f[k + 1] = g[k + 1]
        BY <3>1
      <4>2. ReplaceStep(value, p, f, k) = ReplaceStep(value, p, g, k)
        <5>1. CASE k = n
          BY <5>1 DEF ReplaceStep
        <5>2. CASE k # n
          <6> HIDE DEF f
          <6>1. QED
            BY <4>1, <5>2 DEF ReplaceStep, Found
        <5>3. QED
          BY <5>1, <5>2
      <4>3. CASE n - m < k
        <5>1. f[k] = g[k] /\ k \in n - (m - 1)..n
          BY <3>1, <4>3
        <5>2. QED
          BY <3>2, <4>2, <5>1
      <4>4. CASE k = n - m
        BY <3>1, <4>2, <4>4
      <4>5. QED
        BY <3>1, <4>3, <4>4
    <3>4. f = [k \in n - m..n |-> ReplaceStep(value, p, f, k)]
      BY <3>3
    <3> HIDE DEF f
    <3>5. QED
      BY <2>1, <3>4
  <2>4. QED
    BY <2>2, <2>3
<1>2. Has(n)
  BY <1>1
<1>3. n - n = 0
  OBVIOUS
<1>4. \E f : f = [k \in 0..n |-> ReplaceStep(value, p, f, k)]
  BY <1>2, <1>3
<1>5. QED
  BY <1>4 DEF Replaced

(* What is replaced at the end of a path, and on the way.                  *)
LEMMA ReplacedOnward ==
    ASSUME NEW value, NEW p, Len(p) \in Nat, NEW idx \in 0..Len(p),
           NEW v \in Visited(value, p)[idx]
    PROVE  Replaced(value, p)[idx][v]
             = IF idx = Len(p) THEN Written(v)
               ELSE Rebuilt(v, Found(p, Replaced(value, p), idx, v))
<1> DEFINE E == Replaced(value, p)
<1>1. E = [k \in 0..Len(p) |-> ReplaceStep(value, p, E, k)]
  BY ReplacedExists
<1> HIDE DEF E
<1>2. E[idx] = ReplaceStep(value, p, E, idx)
  BY <1>1
<1>3. E[idx][v] = IF idx = Len(p) THEN Written(v) ELSE Rebuilt(v, Found(p, E, idx, v))
  BY <1>2 DEF ReplaceStep
<1>4. QED
  BY <1>3 DEF E

(* With some of the path behind it, the rest is replaced as from the       *)
(* first segment.                                                          *)
LEMMA ReplacedIsReplace ==
    ASSUME NEW S, NEW s \in Seq(S), NEW i \in 0..Len(s), NEW x,
           NEW u \in Visited(x, s)[i]
    PROVE  Replaced(x, s)[i][u] = Replace(u, After(s, i))
<1> DEFINE Agree(k) ==
              \A value : \A p \in Seq(S) : \A idx \in 0..Len(p) :
                 \A v \in Visited(value, p)[idx] : Len(p) - idx = k =>
                    Replaced(value, p)[idx][v] = Replace(v, After(p, idx))
           Differ == {k \in Nat : ~Agree(k)}
<1>1. ASSUME Differ # {}
      PROVE  FALSE
  <2>1. PICK k \in Differ : \A l \in Differ : k <= l
    <3>1. Differ \in SUBSET Nat
      OBVIOUS
    <3> HIDE DEF Differ
    <3>2. QED
      BY <1>1, <3>1, LeastExists
  <2>2. k \in Nat /\ ~Agree(k)
    OBVIOUS
  <2>3. k # 0 => k - 1 \in Nat /\ Agree(k - 1)
    <3>1. k # 0 => k - 1 \in Nat /\ ~ (k <= k - 1)
      BY <2>2
    <3> HIDE DEF Agree
    <3>2. QED
      BY <2>1, <3>1
  <2>4. ASSUME NEW value, NEW p \in Seq(S), NEW idx \in 0..Len(p),
               NEW v \in Visited(value, p)[idx], Len(p) - idx = k
        PROVE  Replaced(value, p)[idx][v] = Replace(v, After(p, idx))
    <3> DEFINE q == After(p, idx)
               n == Len(p)
    <3>1. n \in Nat /\ idx \in 0..n /\ q \in Seq(S) /\ Len(q) = k /\ n - idx = k
      <4>1. q \in Seq(S) /\ Len(q) = n - idx
        BY AfterFacts
      <4>2. n \in Nat
        OBVIOUS
      <4>3. QED
        BY <2>4, <4>1, <4>2
    <3>2. idx < n => q[1] = p[idx + 1] /\ After(q, 1) = After(p, idx + 1)
      BY AfterFacts
    <3> HIDE DEF q
    <3>3. v \in Visited(v, q)[0] /\ 0 \in 0..Len(q)
      <4>1. Len(q) \in Nat
        BY <2>2, <3>1
      <4>2. Visited(v, q)[0] = {v}
        BY <4>1, VisitedOnward
      <4>3. QED
        BY <4>1, <4>2
    <3>4. Replace(v, q) = Replaced(v, q)[0][v]
      BY ReplaceIsFirst
    <3>5. CASE k = 0
      <4>1. Replaced(v, q)[0][v] = Written(v)
        <5>1. Len(q) \in Nat /\ 0 = Len(q)
          BY <3>1, <3>5
        <5>2. QED
          BY <3>3, <5>1, ReplacedOnward
      <4>2. Replaced(value, p)[idx][v] = Written(v)
        BY <3>1, <3>5, ReplacedOnward
      <4>3. QED
        BY <3>4, <4>1, <4>2 DEF q
    <3>6. CASE k # 0
      <4>1. /\ idx < n /\ idx + 1 \in 0..n /\ idx \in 0..n - 1 /\ n - (idx + 1) = k - 1
            /\ idx # n /\ Len(q) # 0 /\ Len(q) \in Nat
            /\ 1 \in 0..Len(q) /\ 0 \in 0..Len(q) - 1 /\ Len(q) - 1 = k - 1 /\ 0 + 1 = 1
        <5>1. k \in Nat /\ k # 0 /\ n \in Nat /\ idx \in 0..n /\ n - idx = k /\ Len(q) = k
          BY <2>2, <3>1, <3>6
        <5> HIDE DEF n, q
        <5>2. QED
          BY <5>1
      <4>2. ASSUME NEW y, NEW r \in Seq(S), NEW m \in 0..Len(r), NEW w \in Visited(y, r)[m],
                   Len(r) - m = k - 1
            PROVE  Replaced(y, r)[m][w] = Replace(w, After(r, m))
        BY <2>3, <3>6, <4>2
      <4>3. ASSUME NEW e \in Selects(v, q[1])
            PROVE  Replaced(value, p)[idx + 1][Entry(v, e)] = Replaced(v, q)[1][Entry(v, e)]
        <5>1. Entry(v, e) \in Visited(value, p)[idx + 1]
          BY <3>1, <3>2, <4>1, VisitedOnward
        <5>2. Entry(v, e) \in Visited(v, q)[1]
          <6>1. \A y \in Visited(v, q)[0] : \A z \in Selects(y, q[0 + 1]) :
                   Entry(y, z) \in Visited(v, q)[0 + 1]
            BY <2>2, <3>1, <4>1, VisitedOnward
          <6>2. QED
            BY <3>3, <4>1, <6>1
        <5>3. Replaced(value, p)[idx + 1][Entry(v, e)] = Replace(Entry(v, e), After(p, idx + 1))
          <6> DEFINE m == idx + 1
                     w == Entry(v, e)
          <6>1. m \in 0..Len(p) /\ Len(p) - m = k - 1 /\ w \in Visited(value, p)[m]
            BY <4>1, <5>1
          <6> HIDE DEF m, w
          <6>2. Replaced(value, p)[m][w] = Replace(w, After(p, m))
            BY <4>2, <6>1
          <6>3. QED
            BY <6>2 DEF m, w
        <5>4. Replaced(v, q)[1][Entry(v, e)] = Replace(Entry(v, e), After(q, 1))
          BY <3>1, <4>1, <4>2, <5>2
        <5>5. QED
          BY <3>2, <4>1, <5>3, <5>4
      <4>4. Replaced(value, p)[idx][v] = Rebuilt(v, Found(p, Replaced(value, p), idx, v))
        BY <3>1, <4>1, ReplacedOnward
      <4>5. Replaced(v, q)[0][v] = Rebuilt(v, Found(q, Replaced(v, q), 0, v))
        BY <3>3, <4>1, ReplacedOnward
      <4>6. Found(p, Replaced(value, p), idx, v) = Found(q, Replaced(v, q), 0, v)
        BY <3>2, <4>1, <4>3 DEF Found
      <4>7. QED
        BY <3>4, <4>4, <4>5, <4>6 DEF q
    <3>7. QED
      BY <3>5, <3>6
  <2>5. QED
    BY <2>2, <2>4
<1> HIDE DEF Agree
<1>2. \A k \in Nat : Agree(k)
  BY <1>1
<1>3. ASSUME NEW k \in Nat, Len(s) - i = k
      PROVE  Replaced(x, s)[i][u] = Replace(u, After(s, i))
  <2>1. Agree(k)
    BY <1>2
  <2>2. \A p \in Seq(S) : \A idx \in 0..Len(p) : \A v \in Visited(x, p)[idx] :
           Len(p) - idx = k => Replaced(x, p)[idx][v] = Replace(v, After(p, idx))
    BY <2>1 DEF Agree
  <2>3. QED
    BY <1>3, <2>2
<1>4. Len(s) - i \in Nat
  OBVIOUS
<1>5. QED
  BY <1>3, <1>4

(* replace, segment by segment.                                            *)
LEMMA ReplaceSegment ==
    ASSUME NEW S, NEW p \in Seq(S), NEW value
    PROVE  /\ p = <<>> => Replace(value, p) = Written(value)
           /\ p # <<>> => Replace(value, p)
                = Rebuilt(value, [e \in Selects(value, p[1]) |->
                                      Replace(Entry(value, e), After(p, 1))])
<1> DEFINE n == Len(p)
<1>1. n \in Nat /\ 0 \in 0..n
  OBVIOUS
<1>2. value \in Visited(value, p)[0] /\ Replace(value, p) = Replaced(value, p)[0][value]
  BY <1>1, VisitedOnward, ReplaceIsFirst
<1>3. CASE p = <<>>
  <2>1. 0 = n
    BY <1>3
  <2>2. Replaced(value, p)[0][value] = Written(value)
    BY <1>1, <1>2, <2>1, ReplacedOnward
  <2>3. QED
    BY <1>2, <1>3, <2>2
<1>4. CASE p # <<>>
  <2>1. n # 0 /\ 1 \in 0..n /\ 0 \in 0..n - 1 /\ n - 1 \in Nat /\ 0 + 1 = 1
    BY <1>1, <1>4, EmptySeq
  <2>2. Replaced(value, p)[0][value]
          = Rebuilt(value, Found(p, Replaced(value, p), 0, value))
    BY <1>1, <1>2, <2>1, ReplacedOnward
  <2>3. ASSUME NEW e \in Selects(value, p[1])
        PROVE  Replaced(value, p)[1][Entry(value, e)] = Replace(Entry(value, e), After(p, 1))
    <3>1. Entry(value, e) \in Visited(value, p)[0 + 1]
      BY <1>1, <1>2, <2>1, VisitedOnward
    <3> DEFINE w == Entry(value, e)
    <3>2. w \in Visited(value, p)[1] /\ 1 \in 0..Len(p)
      BY <2>1, <3>1
    <3> HIDE DEF w
    <3>3. Replaced(value, p)[1][w] = Replace(w, After(p, 1))
      BY <3>2, ReplacedIsReplace
    <3>4. QED
      BY <3>3 DEF w
  <2>4. Found(p, Replaced(value, p), 0, value)
          = [e \in Selects(value, p[1]) |-> Replace(Entry(value, e), After(p, 1))]
    BY <2>1, <2>3 DEF Found
  <2>5. QED
    BY <1>2, <1>4, <2>1, <2>2, <2>4
<1>5. QED
  BY <1>3, <1>4

(* Two sequences are marked as each of them is.                            *)
LEMMA MarkedConcat ==
    ASSUME NEW T, NEW a \in Seq(T), NEW b \in Seq(T)
    PROVE  Marked(a \o b) = Marked(a) \o Marked(b)
<1> DEFINE m == Len(a)
           n == Len(b)
           M == {[x EXCEPT !.replaced = TRUE] : x \in T}
           c == a \o b
           d == Marked(a) \o Marked(b)
<1>1. /\ m \in Nat /\ n \in Nat /\ DOMAIN a = 1..m /\ DOMAIN b = 1..n
      /\ a \in [1..m -> T] /\ b \in [1..n -> T]
  OBVIOUS
<1>2. /\ c \in Seq(T) /\ Len(c) = m + n /\ DOMAIN c = 1..m + n
      /\ \A i \in 1..m + n : c[i] = IF i <= m THEN a[i] ELSE b[i - m]
  BY <1>1, ConcatProperties
<1>3. /\ Marked(a) \in [1..m -> M] /\ Marked(b) \in [1..n -> M]
      /\ \A i \in 1..m : Marked(a)[i] = [a[i] EXCEPT !.replaced = TRUE]
      /\ \A i \in 1..n : Marked(b)[i] = [b[i] EXCEPT !.replaced = TRUE]
  BY <1>1 DEF Marked
<1> HIDE DEF M
<1>4. Marked(a) \in Seq(M) /\ Len(Marked(a)) = m /\ Marked(b) \in Seq(M) /\ Len(Marked(b)) = n
  <2> DEFINE x == Marked(a)
             y == Marked(b)
  <2>1. x \in [1..m -> M] /\ y \in [1..n -> M] /\ m \in Nat /\ n \in Nat
    BY <1>1, <1>3
  <2> HIDE DEF x, y, m, n
  <2>2. x \in Seq(M) /\ Len(x) = m /\ y \in Seq(M) /\ Len(y) = n
    BY <2>1
  <2>3. QED
    BY <2>2 DEF x, y
<1>5. /\ d \in Seq(M) /\ Len(d) = m + n
      /\ \A i \in 1..m + n : d[i] = IF i <= m THEN Marked(a)[i] ELSE Marked(b)[i - m]
  <2> DEFINE x == Marked(a)
             y == Marked(b)
             z == x \o y
  <2>1. x \in Seq(M) /\ Len(x) = m /\ y \in Seq(M) /\ Len(y) = n
    BY <1>4
  <2> HIDE DEF x, y, m, n
  <2>2. /\ z \in Seq(M) /\ Len(z) = m + n
        /\ \A i \in 1..m + n : z[i] = IF i <= m THEN x[i] ELSE y[i - m]
    BY <2>1, ConcatProperties
  <2>3. QED
    BY <2>2 DEF x, y
<1>6. d = [i \in 1..m + n |-> d[i]]
  <2> DEFINE k == m + n
  <2>1. d \in Seq(M) /\ Len(d) = k
    BY <1>5
  <2> HIDE DEF d, k
  <2>2. d = [i \in 1..k |-> d[i]]
    BY <2>1
  <2>3. QED
    BY <2>2 DEF k
<1>7. Marked(c) = [i \in 1..m + n |-> [c[i] EXCEPT !.replaced = TRUE]]
  BY <1>2 DEF Marked
<1>8. ASSUME NEW i \in 1..m + n
      PROVE  d[i] = [c[i] EXCEPT !.replaced = TRUE]
  <2>1. CASE i <= m
    <3>1. i \in 1..m
      BY <1>1, <2>1
    <3>2. d[i] = Marked(a)[i] /\ c[i] = a[i]
      BY <1>2, <1>5, <2>1
    <3>3. QED
      BY <1>3, <3>1, <3>2
  <2>2. CASE ~ (i <= m)
    <3>1. i - m \in 1..n
      BY <1>1, <2>2
    <3>2. d[i] = Marked(b)[i - m] /\ c[i] = b[i - m]
      BY <1>2, <1>5, <2>2
    <3>3. QED
      BY <1>3, <3>1, <3>2
  <2>3. QED
    BY <2>1, <2>2
<1> HIDE DEF c, d, m, n
<1>9. Marked(c) = d
  BY <1>6, <1>7, <1>8
<1>10. QED
  BY <1>9 DEF c, d

FlatStep(seqs, f, i) == IF i = 1 THEN seqs[i] ELSE f[i - 1] \o seqs[i]
Flats(seqs) == CHOOSE f : f = [i \in 1..Len(seqs) |-> FlatStep(seqs, f, i)]

(* FlattenSeq adds one sequence after the other.                           *)
LEMMA FlattenIsLast ==
    ASSUME NEW seqs, Len(seqs) \in Nat \ {0}
    PROVE  FlattenSeq(seqs) = Flats(seqs)[Len(seqs)]
BY DEF FlattenSeq, Flats, FlatStep

(* What it has after each of them exists.                                  *)
LEMMA FlatsExist ==
    ASSUME NEW seqs, Len(seqs) \in Nat
    PROVE  Flats(seqs) = [i \in 1..Len(seqs) |-> FlatStep(seqs, Flats(seqs), i)]
<1> DEFINE Has(m) == \E f : f = [k \in 1..m |-> FlatStep(seqs, f, k)]
           Without == {m \in Nat : ~Has(m)}
<1>1. ASSUME Without # {}
      PROVE  FALSE
  <2>1. PICK m \in Without : \A l \in Without : m <= l
    <3>1. Without \in SUBSET Nat
      OBVIOUS
    <3> HIDE DEF Without
    <3>2. QED
      BY <1>1, <3>1, LeastExists
  <2>2. CASE m = 0
    <3> DEFINE f == [k \in 1..m |-> seqs]
    <3>1. \A k \in 1..m : FALSE
      BY <2>2
    <3>2. f = [k \in 1..m |-> FlatStep(seqs, f, k)]
      BY <3>1
    <3>3. QED
      BY <2>1, <3>2
  <2>3. CASE m # 0
    <3>1. m \in Nat /\ m - 1 \in Nat /\ m - 1 \notin Without
      BY <2>1, <2>3
    <3>2. PICK g : g = [k \in 1..m - 1 |-> FlatStep(seqs, g, k)]
      BY <3>1
    <3> DEFINE f == [k \in 1..m |-> IF k < m THEN g[k] ELSE FlatStep(seqs, g, m)]
    <3>3. ASSUME NEW k \in 1..m
          PROVE  f[k] = FlatStep(seqs, f, k)
      <4>1. k # 1 => f[k - 1] = g[k - 1]
        BY <3>1
      <4>2. FlatStep(seqs, f, k) = FlatStep(seqs, g, k)
        BY <4>1 DEF FlatStep
      <4>3. CASE k < m
        <5>1. f[k] = g[k] /\ k \in 1..m - 1
          BY <3>1, <4>3
        <5>2. QED
          BY <3>2, <4>2, <5>1
      <4>4. CASE k = m
        BY <3>1, <4>2, <4>4
      <4>5. QED
        BY <3>1, <4>3, <4>4
    <3>4. f = [k \in 1..m |-> FlatStep(seqs, f, k)]
      BY <3>3
    <3> HIDE DEF f
    <3>5. QED
      BY <2>1, <3>4
  <2>4. QED
    BY <2>2, <2>3
<1>2. Has(Len(seqs))
  BY <1>1
<1>3. QED
  BY <1>2 DEF Flats

(* Sequences one after the other are marked as each of them is.            *)
LEMMA FlattenMarked ==
    ASSUME NEW T, NEW parts \in Seq(Seq(T))
    PROVE  /\ FlattenSeq(parts) \in Seq(T)
           /\ FlattenSeq([n \in DOMAIN parts |-> Marked(parts[n])]) = Marked(FlattenSeq(parts))
<1> DEFINE n == Len(parts)
           marked == [i \in DOMAIN parts |-> Marked(parts[i])]
<1>1. n \in Nat /\ DOMAIN parts = 1..n /\ \A i \in 1..n : parts[i] \in Seq(T)
  OBVIOUS
<1>2. Len(marked) = n /\ \A i \in 1..n : marked[i] = Marked(parts[i])
  <2>1. marked \in Seq({Marked(parts[i]) : i \in 1..n})
    BY <1>1
  <2>2. DOMAIN marked = 1..n
    BY <1>1
  <2>3. QED
    BY <1>1, <2>1, <2>2
<1>3. CASE n = 0
  <2>1. parts = <<>> /\ marked = <<>>
    BY <1>1, <1>2, <1>3
  <2>2. Marked(<<>>) = <<>>
    BY DEF Marked
  <2>3. FlattenSeq(<<>>) = <<>> /\ <<>> \in Seq(T)
    BY DEF FlattenSeq
  <2>4. QED
    BY <2>1, <2>2, <2>3
<1>4. CASE n # 0
  <2> DEFINE f == Flats(parts)
             g == Flats(marked)
             Wrong == {i \in 1..n : ~ (f[i] \in Seq(T) /\ g[i] = Marked(f[i]))}
  <2> HIDE DEF marked
  <2>1. /\ f = [i \in 1..n |-> FlatStep(parts, f, i)]
        /\ g = [i \in 1..n |-> FlatStep(marked, g, i)]
    BY <1>1, <1>2, FlatsExist
  <2>2. FlattenSeq(parts) = f[n] /\ FlattenSeq(marked) = g[n]
    BY <1>1, <1>2, <1>4, FlattenIsLast
  <2> HIDE DEF f, g, n
  <2>3. ASSUME Wrong # {}
        PROVE  FALSE
    <3>1. PICK i \in Wrong : \A j \in Wrong : i <= j
      <4>1. Wrong \in SUBSET Nat
        OBVIOUS
      <4> HIDE DEF Wrong
      <4>2. QED
        BY <2>3, <4>1, LeastExists
    <3>2. i \in 1..n /\ f[i] = FlatStep(parts, f, i) /\ g[i] = FlatStep(marked, g, i)
      BY <2>1, <3>1
    <3>3. parts[i] \in Seq(T) /\ marked[i] = Marked(parts[i])
      BY <1>1, <1>2, <3>2
    <3>4. CASE i = 1
      BY <3>1, <3>2, <3>3, <3>4 DEF FlatStep
    <3>5. CASE i # 1
      <4>1. f[i - 1] \in Seq(T) /\ g[i - 1] = Marked(f[i - 1])
        <5>1. i - 1 \in 1..n /\ ~ (i <= i - 1)
          BY <1>1, <3>2, <3>5
        <5>2. i - 1 \notin Wrong
          BY <3>1, <5>1
        <5>3. QED
          BY <5>1, <5>2
      <4>2. f[i] = f[i - 1] \o parts[i] /\ g[i] = g[i - 1] \o marked[i]
        BY <3>2, <3>5 DEF FlatStep
      <4>3. f[i] \in Seq(T)
        BY <3>3, <4>1, <4>2, ConcatProperties
      <4>4. g[i] = Marked(f[i])
        <5> DEFINE x == f[i - 1]
                   y == parts[i]
        <5>1. x \in Seq(T) /\ y \in Seq(T) /\ f[i] = x \o y /\ g[i] = Marked(x) \o Marked(y)
          BY <3>3, <4>1, <4>2
        <5> HIDE DEF x, y
        <5>2. Marked(x \o y) = Marked(x) \o Marked(y)
          BY <5>1, MarkedConcat
        <5>3. QED
          BY <5>1, <5>2
      <4>5. QED
        BY <3>1, <4>3, <4>4
    <3>6. QED
      BY <3>4, <3>5
  <2>4. f[n] \in Seq(T) /\ g[n] = Marked(f[n])
    <3>1. n \in 1..n
      BY <1>1, <1>4
    <3>2. QED
      BY <2>3, <3>1
  <2>5. QED
    BY <2>2, <2>4 DEF marked
<1>5. QED
  BY <1>3, <1>4

\* The strings of the values.
JsonStrings == {v.string : v \in {u \in Json : u.kind = "string"}}

(* A value is of one of three kinds, and an array's items are numbered.    *)
LEMMA JsonFacts ==
    ASSUME NEW v \in Json
    PROVE  /\ v.kind \in {"string", "object", "array"}
           /\ v.kind = "array" => Len(v.items) \in Nat /\ DOMAIN v.items = 1..Len(v.items)
           /\ \A seg : \A e \in Selects(v, seg) : Entry(v, e) \in Json
<1>1. CASE v.kind = "string"
  BY <1>1 DEF Selects
<1>2. CASE v.kind = "object"
  <2>1. \A k \in DOMAIN v.map : v.map[k] \in Json
    BY <1>2, JsonAssumption
  <2>2. \A seg : Selects(v, seg) \subseteq DOMAIN v.map
    BY <1>2 DEF Selects
  <2>3. QED
    BY <1>2, <2>1, <2>2 DEF Entry
<1>3. CASE v.kind = "array"
  <2>1. v.items \in Seq(Json)
    BY <1>3, JsonAssumption
  <2>2. Len(v.items) \in Nat /\ DOMAIN v.items = 1..Len(v.items)
        /\ \A n \in DOMAIN v.items : v.items[n] \in Json
    BY <2>1
  <2>3. \A seg : Selects(v, seg) \subseteq DOMAIN v.items
    BY <1>3 DEF Selects
  <2>4. QED
    BY <1>3, <2>2, <2>3 DEF Entry
<1>4. QED
  BY <1>1, <1>2, <1>3, JsonAssumption

(* A value with new entries is of the same kind and has the same places,   *)
(* with what it is given there and its own in the others.                  *)
LEMMA RebuiltFacts ==
    ASSUME NEW v \in Json, NEW seg, NEW entries, DOMAIN entries = Selects(v, seg)
    PROVE  LET r == Rebuilt(v, entries) IN
           /\ r.kind = v.kind
           /\ v.kind = "array" => DOMAIN r.items = DOMAIN v.items
           /\ \A s : /\ Selects(r, s) = Selects(v, s)
                     /\ \A e \in Selects(v, s) :
                           Entry(r, e) = IF e \in DOMAIN entries THEN entries[e] ELSE Entry(v, e)
<1> DEFINE r == Rebuilt(v, entries)
<1>1. CASE v.kind = "string"
  <2>1. r = v
    BY <1>1 DEF Rebuilt
  <2>2. \A s : Selects(v, s) = {}
    BY <1>1 DEF Selects
  <2>3. QED
    BY <1>1, <2>1, <2>2
<1>2. CASE v.kind = "object"
  <2> DEFINE m == [k \in DOMAIN v.map |-> IF k \in DOMAIN entries THEN entries[k] ELSE v.map[k]]
  <2>1. r = Object(m)
    BY <1>2 DEF Rebuilt
  <2>2. DOMAIN m = DOMAIN v.map
        /\ \A k \in DOMAIN v.map : m[k] = IF k \in DOMAIN entries THEN entries[k] ELSE v.map[k]
    OBVIOUS
  <2> HIDE DEF m
  <2>3. r.kind = "object" /\ r.map = m
    BY <2>1 DEF Object
  <2> HIDE DEF r
  <2>4. \A s : Selects(r, s) = Selects(v, s) /\ Selects(v, s) \subseteq DOMAIN v.map
    BY <1>2, <2>2, <2>3 DEF Selects
  <2>5. \A e : Entry(r, e) = m[e] /\ Entry(v, e) = v.map[e]
    BY <1>2, <2>3 DEF Entry
  <2>6. QED
    BY <1>2, <2>2, <2>3, <2>4, <2>5 DEF r
<1>3. CASE v.kind = "array"
  <2> DEFINE m == [n \in DOMAIN v.items |-> IF n \in DOMAIN entries THEN entries[n] ELSE v.items[n]]
  <2>1. r = Array(m)
    BY <1>3 DEF Rebuilt
  <2>2. DOMAIN m = DOMAIN v.items
        /\ \A n \in DOMAIN v.items : m[n] = IF n \in DOMAIN entries THEN entries[n] ELSE v.items[n]
    OBVIOUS
  <2> HIDE DEF m
  <2>3. r.kind = "array" /\ r.items = m
    BY <2>1 DEF Array
  <2> HIDE DEF r
  <2>4. \A s : Selects(r, s) = Selects(v, s) /\ Selects(v, s) \subseteq DOMAIN v.items
    BY <1>3, <2>2, <2>3 DEF Selects
  <2>5. \A e : Entry(r, e) = m[e] /\ Entry(v, e) = v.items[e]
    BY <1>3, <2>3 DEF Entry
  <2>6. QED
    BY <1>3, <2>2, <2>3, <2>4, <2>5 DEF r
<1>4. QED
  BY <1>1, <1>2, <1>3, JsonFacts

(* What the entries gave is in the same order in the rebuilt value.        *)
LEMMA InOrderAgrees ==
    ASSUME NEW v, NEW r, r.kind = v.kind,
           v.kind = "array" => DOMAIN r.items = DOMAIN v.items,
           NEW found
    PROVE  InOrder(r, found) = InOrder(v, found)
BY DEF InOrder

(* What the entries gave is marked, in order, as each of them is.          *)
LEMMA InOrderMarked ==
    ASSUME NEW v \in Json
    PROVE  \A T, D, found, marked :
              /\ DOMAIN found = D /\ DOMAIN marked = D
              /\ \A e \in D : found[e] \in Seq(T) /\ marked[e] = Marked(found[e])
              => InOrder(v, found) \in Seq(T) /\ InOrder(v, marked) = Marked(InOrder(v, found))
<1> SUFFICES ASSUME NEW T, NEW D, NEW found, NEW marked,
                    DOMAIN found = D, DOMAIN marked = D,
                    \A e \in D : found[e] \in Seq(T) /\ marked[e] = Marked(found[e])
             PROVE  InOrder(v, found) \in Seq(T) /\ InOrder(v, marked) = Marked(InOrder(v, found))
  OBVIOUS
<1>1. DOMAIN found = D /\ DOMAIN marked = D
      /\ \A e \in D : found[e] \in Seq(T) /\ marked[e] = Marked(found[e])
  OBVIOUS
<1>2. <<>> \in Seq(T) /\ Marked(<<>>) = <<>>
  BY DEF Marked
<1>3. CASE v.kind = "array"
  <2> DEFINE l == Len(v.items)
             parts == [n \in DOMAIN v.items |-> IF n \in D THEN found[n] ELSE <<>>]
             markedParts == [n \in DOMAIN v.items |-> IF n \in D THEN marked[n] ELSE <<>>]
  <2>1. l \in Nat /\ DOMAIN v.items = 1..l
    BY <1>3, JsonFacts
  <2>2. parts \in [1..l -> Seq(T)]
    BY <1>1, <1>2, <2>1
  <2>3. parts \in Seq(Seq(T))
    <3> HIDE DEF parts, l
    <3>1. QED
      BY <2>1, <2>2
  <2>4. \A n \in DOMAIN parts : markedParts[n] = Marked(parts[n])
    BY <1>1, <1>2, <2>1
  <2>5. markedParts = [n \in DOMAIN parts |-> Marked(parts[n])]
    BY <2>4
  <2>6. InOrder(v, found) = FlattenSeq(parts) /\ InOrder(v, marked) = FlattenSeq(markedParts)
    BY <1>1, <1>3 DEF InOrder
  <2> HIDE DEF parts, markedParts
  <2>7. QED
    BY <2>3, <2>5, <2>6, FlattenMarked
<1>4. CASE v.kind # "array" /\ D = {}
  <2>1. InOrder(v, found) = <<>> /\ InOrder(v, marked) = <<>>
    BY <1>1, <1>4 DEF InOrder
  <2>2. QED
    BY <1>2, <2>1
<1>5. CASE v.kind # "array" /\ D # {}
  <2> DEFINE k == CHOOSE e \in D : TRUE
  <2>1. k \in D
    BY <1>5
  <2>2. InOrder(v, found) = found[k] /\ InOrder(v, marked) = marked[k]
    BY <1>1, <1>5 DEF InOrder
  <2> HIDE DEF k
  <2>3. QED
    BY <1>1, <2>1, <2>2
<1>6. QED
  BY <1>3, <1>4, <1>5

(* The string at the end of a path is read as written there.               *)
LEMMA StringsMarked ==
    ASSUME NEW v \in Json
    PROVE  Strings(v) \in Seq(JsonStrings) /\ Strings(Written(v)) = Marked(Strings(v))
<1>1. CASE v.kind = "string"
  <2> DEFINE x == v.string
             y == [x EXCEPT !.replaced = TRUE]
  <2>1. v = [kind |-> "string", string |-> x]
    <3>1. v = Str(v.string.was)
      BY <1>1, JsonAssumption
    <3>2. QED
      BY <3>1 DEF Str
  <2>2. Written(v) = [kind |-> "string", string |-> y]
    BY <1>1, <2>1 DEF Written
  <2>3. x \in JsonStrings
    BY <1>1 DEF JsonStrings
  <2> HIDE DEF x
  <2>4. Strings(v) = <<x>>
    BY <2>1 DEF Strings
  <2>5. Strings(Written(v)) = <<y>>
    <3> HIDE DEF y
    <3>1. Written(v).kind = "string" /\ Written(v).string = y
      BY <2>2
    <3>2. QED
      BY <3>1 DEF Strings
  <2>6. Marked(<<x>>) = <<y>>
    <3>1. DOMAIN <<x>> = {1} /\ \A n \in {1} : <<x>>[n] = x
      OBVIOUS
    <3>2. Marked(<<x>>) = [n \in {1} |-> y]
      BY <3>1 DEF Marked
    <3> HIDE DEF y
    <3>3. [n \in {1} |-> y] = <<y>>
      OBVIOUS
    <3>4. QED
      BY <3>2, <3>3
  <2>7. QED
    BY <2>3, <2>4, <2>5, <2>6
<1>2. CASE v.kind # "string"
  BY <1>2 DEF Strings, Written, Marked
<1>3. QED
  BY <1>1, <1>2

(* What is replaced along a path is read back along it, marked.            *)
LEMMA ReadBack ==
    ASSUME NEW S
    PROVE  \A k \in Nat : \A v \in Json : \A p \in Seq(S) : Len(p) = k =>
              /\ Extract(v, p) \in Seq(JsonStrings)
              /\ Extract(Replace(v, p), p) = Marked(Extract(v, p))
<1> DEFINE Reads(v, p) == /\ Extract(v, p) \in Seq(JsonStrings)
                          /\ Extract(Replace(v, p), p) = Marked(Extract(v, p))
           Good(k) == \A v \in Json : \A p \in Seq(S) : Len(p) = k => Reads(v, p)
           Bad == {k \in Nat : ~Good(k)}
<1>1. ASSUME Bad # {}
      PROVE  FALSE
  <2>1. PICK k \in Bad : \A l \in Bad : k <= l
    <3>1. Bad \in SUBSET Nat
      OBVIOUS
    <3> HIDE DEF Bad
    <3>2. QED
      BY <1>1, <3>1, LeastExists
  <2>2. k \in Nat /\ ~Good(k)
    OBVIOUS
  <2>3. k # 0 => k - 1 \in Nat /\ Good(k - 1)
    <3>1. k # 0 => k - 1 \in Nat /\ ~ (k <= k - 1)
      BY <2>2
    <3> HIDE DEF Good
    <3>2. QED
      BY <2>1, <3>1
  <2>4. ASSUME NEW v \in Json, NEW p \in Seq(S), Len(p) = k
        PROVE  Reads(v, p)
    <3>1. CASE p = <<>>
      <4>1. Extract(v, p) = Strings(v) /\ Replace(v, p) = Written(v)
            /\ Extract(Written(v), p) = Strings(Written(v))
        BY <3>1, ExtractSegment, ReplaceSegment
      <4>2. QED
        BY <4>1, StringsMarked
    <3>2. CASE p # <<>>
      <4> DEFINE q == After(p, 1)
                 D == Selects(v, p[1])
                 found == [e \in D |-> Extract(Entry(v, e), q)]
                 entries == [e \in D |-> Replace(Entry(v, e), q)]
                 r == Rebuilt(v, entries)
      <4>1. k # 0 /\ k - 1 \in Nat /\ q \in Seq(S) /\ Len(q) = k - 1
        <5>1. k # 0 /\ 1 \in 0..Len(p)
          BY <2>2, <2>4, <3>2, EmptySeq
        <5>2. QED
          BY <2>2, <2>4, <5>1, AfterFacts
      <4> HIDE DEF q
      <4>2. ASSUME NEW e \in D
            PROVE  Reads(Entry(v, e), q)
        <5>1. Entry(v, e) \in Json
          BY JsonFacts
        <5> HIDE DEF Reads
        <5>2. QED
          BY <2>3, <4>1, <5>1
      <4>3. Extract(v, p) = InOrder(v, found) /\ Replace(v, p) = r
        BY <3>2, ExtractSegment, ReplaceSegment DEF q
      <4>4. DOMAIN entries = D
        OBVIOUS
      <4>5. /\ r.kind = v.kind
            /\ v.kind = "array" => DOMAIN r.items = DOMAIN v.items
            /\ Selects(r, p[1]) = D
            /\ \A e \in D : Entry(r, e) = entries[e]
        <5> HIDE DEF entries
        <5>1. QED
          BY <4>4, RebuiltFacts
      <4>6. Extract(r, p) = InOrder(r, [e \in Selects(r, p[1]) |-> Extract(Entry(r, e), q)])
        <5> HIDE DEF r
        <5>1. QED
          BY <3>2, ExtractSegment DEF q
      <4> HIDE DEF r
      <4>7. \A e \in D : Extract(Entry(r, e), q) = Marked(found[e])
        BY <4>2, <4>5
      <4>8. [e \in Selects(r, p[1]) |-> Extract(Entry(r, e), q)] = [e \in D |-> Marked(found[e])]
        BY <4>5, <4>7
      <4> DEFINE marked == [e \in D |-> Marked(found[e])]
      <4>9. /\ DOMAIN found = D /\ DOMAIN marked = D
            /\ \A e \in D : found[e] \in Seq(JsonStrings) /\ marked[e] = Marked(found[e])
        BY <4>2
      <4>10. InOrder(r, marked) = InOrder(v, marked)
        <5> HIDE DEF marked
        <5>1. QED
          BY <4>5, InOrderAgrees
      <4>11. /\ InOrder(v, found) \in Seq(JsonStrings)
             /\ InOrder(v, marked) = Marked(InOrder(v, found))
        <5> HIDE DEF found, marked, D
        <5>1. \A T, A, f, g :
                 /\ DOMAIN f = A /\ DOMAIN g = A
                 /\ \A e \in A : f[e] \in Seq(T) /\ g[e] = Marked(f[e])
                 => InOrder(v, f) \in Seq(T) /\ InOrder(v, g) = Marked(InOrder(v, f))
          BY InOrderMarked
        <5>2. QED
          BY <4>9, <5>1
      <4>12. QED
        BY <4>3, <4>6, <4>8, <4>10, <4>11
    <3>3. QED
      BY <3>1, <3>2
  <2>5. QED
    BY <2>2, <2>4
<1> HIDE DEF Good
<1>2. \A k \in Nat : Good(k)
  BY <1>1
<1>3. QED
  BY <1>2 DEF Good

(* What is replaced along a path is not read along one that starts with    *)
(* other entries.                                                          *)
LEMMA ReadElsewhere ==
    ASSUME NEW S, NEW v \in Json, NEW p \in Seq(S), p # <<>>, NEW o \in Seq(S), o # <<>>,
           Selects(v, o[1]) \intersect Selects(v, p[1]) = {}
    PROVE  Extract(Replace(v, p), o) = Extract(v, o)
<1> DEFINE D == Selects(v, o[1])
           q == After(o, 1)
           entries == [e \in Selects(v, p[1]) |-> Replace(Entry(v, e), After(p, 1))]
           r == Rebuilt(v, entries)
           found == [e \in D |-> Extract(Entry(v, e), q)]
<1>1. Replace(v, p) = r /\ Extract(v, o) = InOrder(v, found)
  BY ReplaceSegment, ExtractSegment
<1>2. /\ r.kind = v.kind
      /\ v.kind = "array" => DOMAIN r.items = DOMAIN v.items
      /\ Selects(r, o[1]) = D
      /\ \A e \in D : Entry(r, e) = Entry(v, e)
  <2>1. DOMAIN entries = Selects(v, p[1])
    OBVIOUS
  <2> HIDE DEF entries
  <2>2. QED
    BY <2>1, RebuiltFacts
<1>3. Extract(r, o) = InOrder(r, [e \in Selects(r, o[1]) |-> Extract(Entry(r, e), q)])
  <2> HIDE DEF r
  <2>1. QED
    BY ExtractSegment
<1> HIDE DEF r, q
<1>4. [e \in Selects(r, o[1]) |-> Extract(Entry(r, e), q)] = found
  BY <1>2
<1> HIDE DEF found
<1>5. InOrder(r, found) = InOrder(v, found)
  BY <1>2, InOrderAgrees
<1>6. QED
  BY <1>1, <1>3, <1>4, <1>5

-----------------------------------------------------------------------------
(* TextInputs.                                                             *)

\* Inductive: what is put together is made of what it is made of.
InputsTyped ==
    /\ typed \in Seq(Character) /\ digits \in Seq(Digit) /\ date \in Seq(DateNumber)
    /\ json \in Json \cup {NoJson} /\ path \in Seq(Segment)

(* It is inductive.                                                        *)
LEMMA InputsAlwaysTyped == InputsSpec => []InputsTyped
<1>1. InputsInit => InputsTyped
  BY DEF InputsInit, Nothing, InputsTyped
<1>2. InputsTyped /\ [InputsNext]_inputVars => InputsTyped'
  <2> SUFFICES ASSUME InputsTyped, [InputsNext]_inputVars PROVE InputsTyped'
    OBVIOUS
  <2>1. ASSUME NEW c \in Character, TypeCharacter(c)
        PROVE  InputsTyped'
    BY <2>1, AppendProperties DEF TypeCharacter, InputsTyped
  <2>2. ASSUME NEW d \in Digit, TypeDigit(d)
        PROVE  InputsTyped'
    BY <2>2, AppendProperties DEF TypeDigit, InputsTyped
  <2>3. ASSUME NEW n \in DateNumber, TypeNumber(n)
        PROVE  InputsTyped'
    BY <2>3, AppendProperties DEF TypeNumber, InputsTyped
  <2>4. ASSUME NEW value \in Json, Parse(value)
        PROVE  InputsTyped'
    BY <2>4 DEF Parse, InputsTyped
  <2>5. ASSUME NEW s \in Segment, AddSegment(s)
        PROVE  InputsTyped'
    BY <2>5, AppendProperties DEF AddSegment, InputsTyped
  <2>6. CASE UNCHANGED inputVars
    BY <2>6 DEF inputVars, InputsTyped
  <2>7. QED
    BY <2>1, <2>2, <2>3, <2>4, <2>5, <2>6 DEF InputsNext
<1>3. QED
  BY <1>1, <1>2, PTL DEF InputsSpec

(* What is known of the numbers.                                           *)
LEMMA TypedNumbers ==
    ASSUME InputsTyped
    PROVE  /\ digits \in Seq(Decimals) /\ DOMAIN digits = 1..Len(digits)
           /\ \A i \in 1..Len(date) : date[i] \in Nat
<1>1. /\ Len(digits) \in Nat /\ DOMAIN digits = 1..Len(digits)
      /\ digits \in [1..Len(digits) -> Digit]
  BY DEF InputsTyped
<1>2. digits \in [1..Len(digits) -> Decimals]
  BY <1>1, NumbersAssumption DEF Decimals
<1>3. digits \in Seq(Decimals)
  BY <1>1, <1>2
<1>4. \A i \in 1..Len(date) : date[i] \in DateNumber
  BY DEF InputsTyped
<1>5. QED
  BY <1>1, <1>3, <1>4, NumbersAssumption

(* Luhn, whatever the digits.                                              *)
LEMMA TypedLuhn == InputsTyped => LuhnCatches
<1> SUFFICES ASSUME InputsTyped, LuhnValid(digits) PROVE
        /\ \A x \in Altered(digits) : ~LuhnValid(x)
        /\ \A i \in 1..Len(digits) - 1 :
              LET x == [digits EXCEPT ![i] = digits[i + 1], ![i + 1] = digits[i]] IN
              x # digits /\ {digits[i], digits[i + 1]} # {0, 9} => ~LuhnValid(x)
  BY DEF LuhnCatches
<1>1. digits \in Seq(Decimals) /\ DOMAIN digits = 1..Len(digits)
  BY TypedNumbers
<1>2. ASSUME NEW x \in Altered(digits)
      PROVE  ~LuhnValid(x)
  <2>1. PICK i \in DOMAIN digits, d \in 0..9 : x = [digits EXCEPT ![i] = d]
    BY DEF Altered
  <2>2. x # digits
    BY DEF Altered
  <2>3. d # digits[i]
    BY <1>1, <2>1, <2>2
  <2>4. QED
    BY <1>1, <2>1, <2>3, LuhnMisread DEF Decimals
<1>3. ASSUME NEW i \in 1..Len(digits) - 1,
             [digits EXCEPT ![i] = digits[i + 1], ![i + 1] = digits[i]] # digits,
             {digits[i], digits[i + 1]} # {0, 9}
      PROVE  ~LuhnValid([digits EXCEPT ![i] = digits[i + 1], ![i + 1] = digits[i]])
  <2>1. digits[i] # digits[i + 1]
    BY <1>1, <1>3
  <2>2. QED
    BY <1>1, <1>3, <2>1, LuhnSwapped
<1>4. QED
  BY <1>2, <1>3

(* The control digits, whatever the body.                                  *)
LEMMA TypedControls == InputsTyped => OneControlEach
<1> SUFFICES ASSUME InputsTyped PROVE OneControlEach
  OBVIOUS
<1>1. digits \in Seq(Decimals)
  BY TypedNumbers
<1>2. \A x : Cardinality({x}) = 1
  BY FS_Singleton
<1>3. ASSUME Len(digits) = 9
      PROVE  /\ Cardinality({d \in 0..9 : Inn(Append(digits, d)) = "valid"}) = 1
             /\ Cardinality({p \in TwoDigits : Snils(digits \o p) = "valid"}) = 1
  BY <1>1, <1>2, <1>3, Inn10Control, SnilsControlNumber
<1>4. ASSUME Len(digits) = 10
      PROVE  Cardinality({p \in TwoDigits : Inn(digits \o p) = "valid"}) = 1
  BY <1>1, <1>2, <1>4, Inn12Control
<1>5. QED
  BY <1>3, <1>4 DEF OneControlEach

(* Dates, whatever the numbers.                                            *)
LEMMA TypedDates == InputsTyped => DatesExist
<1> SUFFICES ASSUME InputsTyped, Len(date) = 3 PROVE DatesExist
  BY DEF DatesExist
<1> DEFINE a == date[1]
           b == date[2]
           c == date[3]
           year == IF c > 100 THEN c ELSE 2000 + c
           found == ParseDate(a, b, c)
           readings == {d \in Readings(a, b, c) : Exists(d)}
<1>1. a \in Nat /\ b \in Nat /\ c \in Nat
  BY TypedNumbers
<1> HIDE DEF a, b, c
<1>2. year \in Nat
  BY <1>1
<1> HIDE DEF year
<1>3. CASE a > 31
  <2>1. found = FirstOf(a, b, c, c, b) /\ Readings(a, b, c) = {<<a, b, c>>, <<a, c, b>>}
    BY <1>3 DEF ParseDate, Readings
  <2>2. /\ found = NoDate <=> readings = {}
        /\ readings # {} => found \in readings
    <3>1. readings = {d \in {<<a, b, c>>, <<a, c, b>>} : Exists(d)}
      BY <2>1
    <3> HIDE DEF found, readings
    <3>2. QED
      BY <1>1, <2>1, <3>1, FirstReading
  <2>3. ~ (a <= 31)
    BY <1>1, <1>3
  <2>4. QED
    BY <2>2, <2>3 DEF DatesExist, a, b, c
<1>4. CASE ~ (a > 31)
  <2>1. found = FirstOf(year, b, a, a, b) /\ Readings(a, b, c) = {<<year, b, a>>, <<year, a, b>>}
    BY <1>4 DEF ParseDate, Readings, year
  <2>2. /\ found = NoDate <=> readings = {}
        /\ readings # {} => found \in readings
        /\ Cardinality(readings) = 2 => found = <<year, b, a>>
    <3>1. readings = {d \in {<<year, b, a>>, <<year, a, b>>} : Exists(d)}
      BY <2>1
    <3> HIDE DEF found, readings
    <3>2. QED
      BY <1>1, <1>2, <2>1, <3>1, FirstReading
  <2>3. Cardinality(readings) = 2 => found[3] = a
    BY <2>2
  <2>4. QED
    BY <2>2, <2>3 DEF DatesExist, a, b, c
<1>5. QED
  BY <1>3, <1>4

(* Spans, whatever the text.                                               *)
LEMMA TypedSpans == InputsTyped => SpansOnCharacters
<1> SUFFICES ASSUME InputsTyped, NEW from \in NormBoundaries(typed), NEW to \in NormBoundaries(typed),
                    from <= to
             PROVE  LET span == ToOriginal(typed, from, to)
                        Touched(i) == NormStart(typed, i) < to /\ from < NormStart(typed, i + 1)
                        Ends(i) == NormStart(typed, i) < to /\ to < NormStart(typed, i + 1)
                    IN /\ span[1] \in Boundaries(typed) /\ span[2] \in Boundaries(typed)
                       /\ Slice(typed, span) = {i \in DOMAIN typed : Touched(i) /\ ~Ends(i)}
  BY DEF SpansOnCharacters
<1> DEFINE span == ToOriginal(typed, from, to)
           Touched(i) == NormStart(typed, i) < to /\ from < NormStart(typed, i + 1)
           Ends(i) == NormStart(typed, i) < to /\ to < NormStart(typed, i + 1)
<1>1. typed \in Seq(Character)
  BY DEF InputsTyped
<1>2. /\ NormBytes(typed) \in Nat /\ from \in 0..NormBytes(typed) /\ to \in 0..NormBytes(typed)
      /\ from \in Nat /\ to \in Nat
  BY <1>1, NormBoundariesWithin
<1>3. span[1] \in Boundaries(typed) /\ span[2] \in Boundaries(typed)
  BY <1>1, <1>2, ToOriginalIsStarts, CharAtFacts DEF Boundaries
<1>4. ASSUME NEW i \in DOMAIN typed
      PROVE  i \in Slice(typed, span) <=> Touched(i) /\ ~Ends(i)
  <2>1. /\ NormStart(typed, i) \in Nat /\ NormStart(typed, i + 1) \in Nat
        /\ NormStart(typed, i) < NormStart(typed, i + 1)
    <3>1. i \in 1..Len(typed) + 1 /\ i + 1 \in 1..Len(typed) + 1 /\ i < i + 1
      BY <1>1, StartsGrow
    <3>2. QED
      BY <1>1, <3>1, StartsGrow
  <2>2. i \in Slice(typed, span)
          <=> from < NormStart(typed, i + 1) /\ NormStart(typed, i + 1) <= to
    BY <1>1, SpanCovers
  <2>3. QED
    BY <1>2, <2>1, <2>2
<1>5. Slice(typed, span) \subseteq DOMAIN typed
  BY DEF Slice
<1> HIDE DEF span
<1>6. Slice(typed, span) = {i \in DOMAIN typed : Touched(i) /\ ~Ends(i)}
  BY <1>4, <1>5
<1>7. QED
  BY <1>3, <1>6 DEF span

(* A sentence that has a signal and is not sent comes after as many        *)
(* windows as there may be.                                                *)
LEMMA LeftOut ==
    ASSUME NEW t \in Seq(Character), NEW s \in Sentences(t), HasNerSignal(t, s), s \notin Windows(t)
    PROVE  /\ Cardinality(Windows(t)) = MaxWindows
           /\ \A w \in Windows(t) : w[2] <= s[1]
<1> DEFINE S == {r \in Sentences(t) : HasNerSignal(t, r)}
           Preceding(q) == {r \in S : r[1] < q[1]}
<1>1. /\ IsFiniteSet(S) /\ (\A r \in S : r[1] \in Nat) /\ s \in S
      /\ \A q, r \in S : q[1] = r[1] => q = r
  BY SentencesApart, FS_Subset
<1>2. Windows(t) = {q \in S : Cardinality(Preceding(q)) < MaxWindows}
  BY DEF Windows
<1>3. \A q : IsFiniteSet(Preceding(q)) /\ Cardinality(Preceding(q)) \in Nat
  <2>1. \A q : Preceding(q) \in SUBSET S
    OBVIOUS
  <2> HIDE DEF S, Preceding
  <2>2. QED
    BY <1>1, <2>1, FS_Subset, FS_CardinalityType
<1>4. Cardinality(Windows(t)) = MaxWindows
  <2> HIDE DEF S
  <2>1. Windows(t) = S \/ Cardinality(Windows(t)) = MaxWindows
    BY <1>1, <1>2, FirstOfThem, NumbersAssumption
  <2>2. QED
    BY <1>1, <2>1
<1>5. ASSUME NEW w \in Windows(t)
      PROVE  w[2] <= s[1]
  <2>1. w \in S /\ Cardinality(Preceding(w)) < MaxWindows /\ ~ (Cardinality(Preceding(s)) < MaxWindows)
    BY <1>1, <1>2
  <2>2. w[1] < s[1]
    <3>1. SUFFICES ASSUME ~ (w[1] < s[1]) PROVE FALSE
      OBVIOUS
    <3>2. w[1] \in Nat /\ s[1] \in Nat
      BY <1>1, <2>1
    <3>3. Preceding(s) \in SUBSET Preceding(w)
      BY <1>1, <3>1, <3>2
    <3> HIDE DEF S, Preceding
    <3>4. Cardinality(Preceding(s)) <= Cardinality(Preceding(w))
      BY <1>3, <3>3, FS_Subset
    <3>5. QED
      BY <1>3, <2>1, <3>4, NumbersAssumption
  <2>3. w \in Sentences(t) /\ w[1] \in Nat /\ s[1] \in Nat /\ s[1] \in Cuts(t)
    BY <2>1, SentencesApart
  <2>4. s[1] <= w[1] \/ w[2] <= s[1]
    BY <2>3 DEF Sentences
  <2>5. QED
    BY <2>2, <2>3, <2>4
<1>6. QED
  BY <1>4, <1>5

(* The sentence of a capital within it.                                    *)
LEMMA CapitalsSentence ==
    ASSUME InputsTyped, NEW i \in CapitalsWithin
    PROVE  /\ NormStart(typed, i) \in Nat /\ NormStart(typed, i + 1) \in Nat
           /\ NormStart(typed, i) < NormStart(typed, i + 1)
           /\ \E s \in Sentences(typed) :
                /\ s[1] \in NormBoundaries(typed) /\ s[2] \in NormBoundaries(typed)
                /\ s[1] \in Nat /\ s[2] \in Nat
                /\ s[1] <= NormStart(typed, i) /\ NormStart(typed, i + 1) <= s[2]
                /\ HasNerSignal(typed, s)
<1> PICK j \in 1..i - 2 : typed[i - 1].blank /\ ~typed[j].blank /\ OneSentence(j, i)
  BY DEF CapitalsWithin
<1>0. i \in DOMAIN typed /\ typed[i].upper
  BY DEF CapitalsWithin
<1> DEFINE len == Len(typed)
<1>1. typed \in Seq(Character) /\ len \in Nat /\ DOMAIN typed = 1..len
  BY StartsGrow DEF InputsTyped
<1>2. /\ i \in 1..len /\ j \in 1..i /\ i - 1 \in j..i /\ j < i /\ j <= i + 1
      /\ i \in 1..len + 1 /\ i + 1 \in 1..len + 1 /\ j \in 1..len + 1
  BY <1>0, <1>1
<1>3. \A k \in 1..len + 1 : NormStart(typed, k) \in 0..NormBytes(typed)
  BY <1>1, CharAtStart
<1>4. /\ \A k \in 1..len + 1 : NormStart(typed, k) \in Nat
      /\ \A k, l \in 1..len + 1 : k < l => NormStart(typed, k) < NormStart(typed, l)
  BY <1>1, StartsGrow
<1> HIDE DEF len
<1>5. \A c \in Cuts(typed) : c <= NormStart(typed, j) \/ NormStart(typed, i + 1) <= c
  BY <1>0, <1>1, <1>2, NoCutWithin DEF OneSentence
<1>6. PICK s \in Sentences(typed) : s[1] <= NormStart(typed, j) /\ NormStart(typed, i + 1) <= s[2]
  <2>1. j < i + 1
    BY <1>2
  <2>2. NormStart(typed, j) < NormStart(typed, i + 1)
    BY <1>2, <1>4, <2>1
  <2>3. QED
    BY <1>1, <1>2, <1>3, <1>5, <2>2, SentenceAround
<1>7. /\ s[1] \in Cuts(typed) /\ s[1] \in NormBoundaries(typed) /\ s[1] \in Nat
      /\ s[2] \in Cuts(typed) /\ s[2] \in NormBoundaries(typed) /\ s[2] \in Nat
  <2>1. s[1] \in Cuts(typed) /\ s[2] \in Cuts(typed)
    BY <1>1, SentencesApart
  <2>2. QED
    BY <1>1, <2>1, CutsWithin
<1>8. HasNerSignal(typed, s)
  <2> DEFINE slice == Slice(typed, ToOriginal(typed, s[1], s[2]))
  <2>1. ASSUME NEW k \in j..i
        PROVE  k \in slice
    <3>1. /\ k \in DOMAIN typed /\ k \in 1..len + 1 /\ k + 1 \in 1..len + 1
          /\ k < k + 1 /\ (k = j \/ j < k) /\ (k = i \/ k + 1 < i + 1)
      BY <1>1, <1>2
    <3>2. /\ NormStart(typed, j) \in Nat /\ NormStart(typed, k) \in Nat
          /\ NormStart(typed, k + 1) \in Nat /\ NormStart(typed, i + 1) \in Nat
          /\ NormStart(typed, j) <= NormStart(typed, k)
          /\ NormStart(typed, k) < NormStart(typed, k + 1)
          /\ NormStart(typed, k + 1) <= NormStart(typed, i + 1)
      BY <1>2, <1>4, <3>1
    <3>3. s[1] < NormStart(typed, k + 1) /\ NormStart(typed, k + 1) <= s[2]
      BY <1>6, <1>7, <3>2
    <3>4. QED
      BY <1>1, <1>7, <3>1, <3>3, SpanCovers
  <2>2. i \in slice /\ i - 1 \in slice /\ j \in slice /\ j < i
    BY <1>2, <2>1
  <2> HIDE DEF slice
  <2>3. CapitalInside(typed, slice)
    BY <1>0, <2>2 DEF CapitalInside
  <2>4. QED
    BY <2>3 DEF HasNerSignal, slice
<1>9. s[1] <= NormStart(typed, i)
  <2>1. NormStart(typed, j) < NormStart(typed, i)
    BY <1>2, <1>4
  <2>2. QED
    BY <1>2, <1>4, <1>6, <1>7, <2>1
<1>10. NormStart(typed, i) < NormStart(typed, i + 1)
  <2>1. i < i + 1
    BY <1>2
  <2>2. QED
    BY <1>2, <1>4, <2>1
<1>11. QED
  BY <1>2, <1>4, <1>6, <1>7, <1>8, <1>9, <1>10

(* That sentence is a window, unless the limit comes before it.            *)
LEMMA CapitalsWindow ==
    ASSUME InputsTyped, NEW i \in CapitalsWithin
    PROVE  \/ LimitBefore(i)
           \/ \E w \in Windows(typed) :
                /\ w[1] \in NormBoundaries(typed) /\ w[2] \in NormBoundaries(typed)
                /\ w[1] <= NormStart(typed, i) /\ NormStart(typed, i + 1) <= w[2]
<1>1. typed \in Seq(Character)
  BY DEF InputsTyped
<1>2. PICK s \in Sentences(typed) :
          /\ s[1] \in NormBoundaries(typed) /\ s[2] \in NormBoundaries(typed)
          /\ s[1] \in Nat
          /\ s[1] <= NormStart(typed, i) /\ NormStart(typed, i + 1) <= s[2]
          /\ HasNerSignal(typed, s)
  BY CapitalsSentence
<1>3. CASE s \in Windows(typed)
  BY <1>2, <1>3
<1>4. CASE s \notin Windows(typed)
  <2>1. /\ Cardinality(Windows(typed)) = MaxWindows
        /\ \A w \in Windows(typed) : w[2] <= s[1]
    BY <1>1, <1>2, <1>4, LeftOut
  <2>2. ASSUME NEW w \in Windows(typed)
        PROVE  w[2] <= NormStart(typed, i)
    <3>1. w \in Sentences(typed)
      BY DEF Windows
    <3>2. w[2] \in Nat
      BY <1>1, <3>1, SentencesApart, CutsWithin
    <3>3. NormStart(typed, i) \in Nat
      BY CapitalsSentence
    <3>4. QED
      BY <1>2, <2>1, <3>2, <3>3
  <2>3. QED
    BY <2>1, <2>2 DEF LimitBefore
<1>5. QED
  BY <1>3, <1>4

(* Windows, whatever the text.                                             *)
LEMMA TypedSelected == InputsTyped => CapitalsSelected
BY CapitalsWindow DEF CapitalsSelected

(* What is sliced out of the original, when every character keeps its      *)
(* width.                                                                  *)
LEMMA TypedCapitals == InputsTyped => CapitalsSent
<1> SUFFICES ASSUME InputsTyped, \A k \in DOMAIN typed : SameWidth(typed[k])
             PROVE  /\ WindowsInOriginal
                    /\ \A i \in CapitalsWithin :
                          LimitBefore(i) \/ \E w \in Windows(typed) : i \in Slice(typed, w)
  BY DEF CapitalsSent
<1>1. typed \in Seq(Character)
  BY DEF InputsTyped
<1>2. /\ \A i \in 1..Len(typed) + 1 : NormStart(typed, i) = OrigStart(typed, i)
      /\ \A b \in NormBoundaries(typed) : \E i \in 1..Len(typed) + 1 : b = NormStart(typed, i)
  BY <1>1, SameOffsets
<1>3. WindowsInOriginal
  <2> SUFFICES ASSUME NEW w \in Windows(typed), NEW b \in {1, 2}
               PROVE  w[b] \in Boundaries(typed)
    BY DEF WindowsInOriginal
  <2>1. w \in Sentences(typed)
    BY DEF Windows
  <2>2. w[1] \in Cuts(typed) /\ w[2] \in Cuts(typed)
    BY <1>1, <2>1, SentencesApart
  <2>3. w[b] \in NormBoundaries(typed)
    BY <1>1, <2>2, CutsWithin
  <2>4. QED
    BY <1>2, <2>3 DEF Boundaries
<1>4. ASSUME NEW i \in CapitalsWithin, ~LimitBefore(i)
      PROVE  \E w \in Windows(typed) : i \in Slice(typed, w)
  <2>1. PICK w \in Windows(typed) :
            w[1] <= NormStart(typed, i) /\ NormStart(typed, i + 1) <= w[2]
    BY <1>4, CapitalsWindow
  <2>2. i \in DOMAIN typed /\ i \in 1..Len(typed) + 1
    BY <1>1, StartsGrow DEF CapitalsWithin
  <2>3. /\ NormStart(typed, i) \in Nat /\ NormStart(typed, i + 1) \in Nat
        /\ NormStart(typed, i) < NormStart(typed, i + 1)
    BY CapitalsSentence
  <2>4. w[2] \in Nat
    <3>1. w \in Sentences(typed)
      BY DEF Windows
    <3>2. QED
      BY <1>1, <3>1, SentencesApart, CutsWithin
  <2>5. OrigStart(typed, i) = NormStart(typed, i)
    BY <1>2, <2>2
  <2>6. i \in Slice(typed, w)
    BY <2>1, <2>2, <2>3, <2>4, <2>5 DEF Slice
  <2>7. QED
    BY <2>6
<1>5. QED
  BY <1>3, <1>4

(* What is replaced of the value along the path is what is read there.     *)
LEMMA TypedReplaced == InputsTyped => ReplacedIsExtracted
<1> SUFFICES ASSUME InputsTyped, json # NoJson PROVE ReplacedIsExtracted
  BY DEF ReplacedIsExtracted
<1>1. json \in Json /\ path \in Seq(Segment)
  BY DEF InputsTyped
<1>2. Extract(Replace(json, path), path) = Marked(Extract(json, path))
  <2>1. Len(path) \in Nat
    BY <1>1
  <2>2. QED
    BY <1>1, <2>1, ReadBack
<1>3. ASSUME NEW s \in Segment, path # <<>>,
             Selects(json, s) \intersect Selects(json, Head(path)) = {}
      PROVE  LET other == <<s>> \o Tail(path) IN
             Extract(Replace(json, path), other) = Extract(json, other)
  <2> DEFINE other == <<s>> \o Tail(path)
  <2>1. Head(path) = path[1] /\ Tail(path) \in Seq(Segment)
    BY <1>1, <1>3, HeadTailProperties
  <2>2. other \in Seq(Segment) /\ other # <<>> /\ other[1] = s
    <3>1. <<s>> \in Seq(Segment) /\ Len(<<s>>) = 1 /\ <<s>>[1] = s
      OBVIOUS
    <3>2. Len(Tail(path)) \in Nat
      BY <2>1
    <3>3. other \in Seq(Segment) /\ Len(other) = 1 + Len(Tail(path)) /\ other[1] = s
      BY <2>1, <3>1, <3>2, ConcatProperties
    <3> HIDE DEF other
    <3>4. QED
      BY <3>2, <3>3
  <2> HIDE DEF other
  <2>3. Extract(Replace(json, path), other) = Extract(json, other)
    BY <1>1, <1>3, <2>1, <2>2, ReadElsewhere
  <2>4. QED
    BY <2>3 DEF other
<1>4. QED
  BY <1>2, <1>3 DEF ReplacedIsExtracted

(* Whatever is found in the normalised form, the characters it was folded  *)
(* from are masked, in whole: to_original, for every text.                 *)
THEOREM InputsSpans == InputsSpec => []SpansOnCharacters
BY InputsAlwaysTyped, TypedSpans, PTL

(* The sentence of a capital within it is among the windows, or as many as *)
(* may be come before it: select_ner_windows, for every text and limit.    *)
THEOREM InputsSelected == InputsSpec => []CapitalsSelected
BY InputsAlwaysTyped, TypedSelected, PTL

(* If folding changed the width of no character, the original can be       *)
(* sliced at every window and such a capital is in what is sent: the       *)
(* slicing of ner_http, for every text of that kind and every limit.       *)
THEOREM InputsCapitals == InputsSpec => []CapitalsSent
BY InputsAlwaysTyped, TypedCapitals, PTL

(* luhn_valid finds out one digit misread, and two neighbours swapped      *)
(* unless they are 0 and 9, in numbers of every length.                    *)
THEOREM InputsLuhn == InputsSpec => []LuhnCatches
BY InputsAlwaysTyped, TypedLuhn, PTL

(* inn_valid and snils_valid accept one control number for each body.      *)
THEOREM InputsControls == InputsSpec => []OneControlEach
BY InputsAlwaysTyped, TypedControls, PTL

(* parse_date finds a date when a reading of it is in the calendar, one of *)
(* the readings, and the day before the month where both are.              *)
THEOREM InputsDates == InputsSpec => []DatesExist
BY InputsAlwaysTyped, TypedDates, PTL

(* replace_rec masks what extract_rec reads, in the same order, and        *)
(* nothing else, in every value and along every path.                      *)
THEOREM InputsReplaced == InputsSpec => []ReplacedIsExtracted
BY InputsAlwaysTyped, TypedReplaced, PTL

-----------------------------------------------------------------------------
(* RoundTrip.                                                              *)

Stages == {"received", "masked", "replied", "restored"}

\* What is known of a reply: the tokens cited are those of the masked text.
ReplyCites ==
    /\ reply \in Text /\ DOMAIN source = DOMAIN reply
    /\ \A q \in DOMAIN reply : source[q] # 0 =>
          /\ source[q] \in DOMAIN text
          /\ reply[q] = mapping.masked[source[q]]

\* Inductive: each stage leaves what the next one reads.
IInv ==
    /\ stage \in Stages
    /\ text \in Inputs /\ seen \in SUBSET DOMAIN text
    /\ stage = "received" => mapping = NoMapping
    /\ stage # "received" => mapping = MaskLine(text, seen)
    /\ stage \notin {"replied", "restored"} => reply = <<>>
    /\ stage \in {"replied", "restored"} => ReplyCites
    /\ stage # "restored" => restored = <<>>
    /\ stage = "restored" => restored = DemaskLine(reply, mapping)

(* A cited token is a token, and one of the masked text or of the model.   *)
LEMMA RepliesAreTexts ==
    ASSUME IInv, ModelReplies
    PROVE  ReplyCites'
<1>1. /\ mapping = MaskLine(text, seen) /\ mapping' = mapping /\ text' = text
      /\ text \in Text /\ seen \in SUBSET DOMAIN text
  BY RoundTripAssumption DEF IInv, ModelReplies, Stages
<1>. PICK k \in 0..MaxReply, own \in OwnToken :
          \E cited \in [1..k -> 0..Len(text)] :
              /\ source' = cited
              /\ reply' = [q \in 1..k |-> IF cited[q] = 0 THEN own
                                          ELSE mapping.masked[cited[q]]]
  BY DEF ModelReplies
<1>2. PICK cited \in [1..k -> 0..Len(text)] :
          /\ source' = cited
          /\ reply' = [q \in 1..k |-> IF cited[q] = 0 THEN own
                                      ELSE mapping.masked[cited[q]]]
  OBVIOUS
<1>3. /\ mapping.masked \in Text /\ DOMAIN mapping.masked = DOMAIN text
      /\ DOMAIN text = 1..Len(text)
  BY <1>1, MaskLineType, HitsArePositions
<1>4. own \in Token /\ \A c \in DOMAIN text : mapping.masked[c] \in Token
  BY <1>3, RoundTripAssumption DEF Text
<1>5. k \in Nat
  BY RoundTripAssumption
<1>6. \A q \in 1..k : cited[q] # 0 => cited[q] \in DOMAIN text
  BY <1>1, <1>3, HitsArePositions
<1>7. reply' \in [1..k -> Token]
  BY <1>2, <1>4, <1>6
<1>8. reply' \in Text
  BY <1>5, <1>7 DEF Text
<1>9. QED
  BY <1>1, <1>2, <1>6, <1>8 DEF ReplyCites

(* The invariant holds at first ...                                        *)
LEMMA InitIInv == Init => IInv
<1> SUFFICES ASSUME Init PROVE IInv
  OBVIOUS
<1>1. seen \in SUBSET DOMAIN text
  BY DEF Init
<1>2. QED
  BY <1>1 DEF Init, IInv, Stages

(* ... every step keeps it ...                                             *)
LEMMA NextIInv == IInv /\ [Next]_vars => IInv'
<1> SUFFICES ASSUME IInv, [Next]_vars PROVE IInv'
  OBVIOUS
<1>1. CASE MaskText
  BY <1>1 DEF IInv, MaskText, Stages
<1>2. CASE ModelReplies
  <2>1. ReplyCites'
    BY <1>2, RepliesAreTexts
  <2>2. QED
    BY <1>2, <2>1 DEF IInv, ModelReplies, Stages
<1>3. CASE DemaskReply
  BY <1>3 DEF IInv, DemaskReply, Stages, ReplyCites
<1>4. CASE UNCHANGED vars
  BY <1>4 DEF IInv, vars, ReplyCites
<1>5. QED
  BY <1>1, <1>2, <1>3, <1>4 DEF Next

(* Masked texts, replies and restored texts are texts.                     *)
LEMMA IInvTypeOK == IInv => TypeOK
<1> SUFFICES ASSUME IInv PROVE TypeOK
  OBVIOUS
<1>1. text \in Text /\ seen \in SUBSET DOMAIN text
  BY RoundTripAssumption DEF IInv
<1>2. <<>> \in Text
  BY DEF Text
<1>3. mapping.masked \in Text /\ mapping.original \in {<<>>, text}
  BY <1>1, <1>2, MaskLineType DEF IInv, NoMapping
<1>4. reply \in Text
  BY <1>2 DEF IInv, ReplyCites, Stages
<1>5. restored \in Text
  BY <1>1, <1>2, <1>4, DemaskLineType DEF IInv, Stages
<1>6. QED
  BY <1>3, <1>4, <1>5 DEF IInv, TypeOK, Stages, Text

(* ... and it implies that what is cited is restored ...                  *)
LEMMA IInvCited == IInv => CitedPlaceholdersRestored
<1> SUFFICES ASSUME IInv, stage = "restored", SpellingsDiffer(ValuesAt(text, seen)), Plain(text),
                    NEW q \in DOMAIN reply, source[q] # 0, reply[q] \in Placeholder
             PROVE  restored[q] = text[source[q]]
  BY DEF CitedPlaceholdersRestored
<1>1. text \in Text /\ seen \in SUBSET DOMAIN text /\ reply \in Text
  BY RoundTripAssumption DEF IInv, ReplyCites
<1>2. /\ source[q] \in DOMAIN text
      /\ reply[q] = MaskLine(text, seen).masked[source[q]]
      /\ restored = DemaskLine(reply, MaskLine(text, seen))
  BY DEF IInv, ReplyCites
<1>3. QED
  BY <1>1, <1>2, CitedPlaceholderRestored

(* ... and that an exact reply is the original text.                       *)
LEMMA IInvExact == IInv => ExactReplyRestored
<1> SUFFICES ASSUME IInv, stage = "restored", SpellingsDiffer(ValuesAt(text, seen)), Plain(text),
                    KindsRecorded(ValuesAt(text, seen)), reply = mapping.masked
             PROVE  restored = text
  BY DEF ExactReplyRestored
<1>1. text \in Text /\ seen \in SUBSET DOMAIN text
  BY RoundTripAssumption DEF IInv
<1>2. restored = DemaskLine(MaskLine(text, seen).masked, MaskLine(text, seen))
  BY DEF IInv
<1>3. QED
  BY <1>1, <1>2, ExactMaskRestored

(* RoundTrip is type correct.                                              *)
THEOREM RoundTripTypeCorrect == Spec => []TypeOK
<1>1. QED
  BY InitIInv, NextIInv, IInvTypeOK, PTL DEF Spec

(* The numbers that next_number hands out, entity by entity, are those the *)
(* masked text shows (MaskState, the maskers).                             *)
THEOREM RoundTripNumbersAgree == Spec => []NumberingAgrees
<1>1. IInv => NumberingAgrees
  BY RoundTripAssumption, NumberingClosedForm DEF IInv, NumberingAgrees
<1>2. QED
  BY <1>1, InitIInv, NextIInv, PTL DEF Spec

(* Every placeholder the model cites is restored to the value of the place *)
(* it was cited from, whatever the model did with the text (service.mask,  *)
(* service.demask).                                                        *)
THEOREM RoundTripRestores == Spec => []CitedPlaceholdersRestored
<1>1. QED
  BY InitIInv, NextIInv, IInvCited, PTL DEF Spec

(* A mask that the model sends back as it is comes back as the original    *)
(* text, also where two values share a mask that is no placeholder and     *)
(* only the order of the records tells them apart.                         *)
THEOREM RoundTripRestoresExactReply == Spec => []ExactReplyRestored
<1>1. QED
  BY InitIInv, NextIInv, IInvExact, PTL DEF Spec
=============================================================================
