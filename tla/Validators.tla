----------------------------- MODULE Validators -----------------------------
(***************************************************************************)
(* The checksums and dates that tell a number from a document: Luhn, INN   *)
(* of ten and of twelve digits, SNILS, calendar dates.                     *)
(***************************************************************************)
EXTENDS Sums, Sequences

\* zip, product by product, sum.  A number has as many digits as there are
\* weights at least: the callers go by its length.
Weighted(weights, digits) ==
    SumTo([i \in DOMAIN weights |-> weights[i] * digits[i]], Len(weights))

-----------------------------------------------------------------------------
(* LuhnValidator.                                                          *)

\* The value of a digit that has `after` digits after it.
LuhnDigitUncorrected(d, after) == IF after % 2 = 0 THEN d ELSE (2 * d) % 10
LuhnDigit(d, after) ==
    IF after % 2 = 0 THEN d ELSE IF 2 * d > 9 THEN 2 * d - 9 ELSE 2 * d

LuhnValid(digits) ==
    SumTo([i \in DOMAIN digits |-> LuhnDigit(digits[i], Len(digits) - i)], Len(digits)) % 10 = 0

Luhn(digits) ==
    IF Len(digits) \notin 13..19 THEN "not_applicable"
    ELSE IF LuhnValid(digits) THEN "valid" ELSE "invalid"

-----------------------------------------------------------------------------
(* InnValidator.                                                           *)

Inn10Weights == <<2, 4, 10, 3, 5, 9, 4, 6, 8>>
Inn12Weights == <<7, 2, 4, 10, 3, 5, 9, 4, 6, 8>>

\* A remainder of ten counts as zero.
InnControlKeepsTen(weights, digits) == Weighted(weights, digits) % 11
InnControl(weights, digits) == (Weighted(weights, digits) % 11) % 10

Inn10Valid(digits) == InnControl(Inn10Weights, digits) = digits[10]

Inn12Valid(digits) ==
    /\ InnControl(Inn12Weights, digits) = digits[11]
    /\ InnControl(<<3>> \o Inn12Weights, digits) = digits[12]

Inn(digits) ==
    CASE Len(digits) = 10 -> IF Inn10Valid(digits) THEN "valid" ELSE "invalid"
      [] Len(digits) = 12 -> IF Inn12Valid(digits) THEN "valid" ELSE "invalid"
      [] OTHER -> "not_applicable"

-----------------------------------------------------------------------------
(* SnilsValidator.                                                         *)

SnilsControlKeepsHundred(digits) ==
    LET sum == Weighted(<<9, 8, 7, 6, 5, 4, 3, 2, 1>>, digits) IN
    IF sum < 100 THEN sum ELSE IF sum \in {100, 101} THEN 0 ELSE sum % 101
\* A control number of 100 or 101 is written 00.
SnilsControl(digits) ==
    LET sum == Weighted(<<9, 8, 7, 6, 5, 4, 3, 2, 1>>, digits)
        cs == IF sum < 100 THEN sum ELSE IF sum \in {100, 101} THEN 0 ELSE sum % 101
    IN IF cs = 100 THEN 0 ELSE cs

SnilsValid(digits) == SnilsControl(digits) = 10 * digits[10] + digits[11]

Snils(digits) ==
    IF Len(digits) # 11 THEN "not_applicable"
    ELSE IF SnilsValid(digits) THEN "valid" ELSE "invalid"

-----------------------------------------------------------------------------
(* DateValidator.                                                          *)

IsLeap(year) == (year % 4 = 0 /\ year % 100 # 0) \/ year % 400 = 0

DaysInMonth(year, month) ==
    CASE month \in {1, 3, 5, 7, 8, 10, 12} -> 31
      [] month \in {4, 6, 9, 11} -> 30
      [] month = 2 -> IF IsLeap(year) THEN 29 ELSE 28

ValidYmd(year, month, day) ==
    month \in 1..12 /\ day # 0 /\ day <= DaysInMonth(year, month)

Years == 1900..2100
NoDate == <<>>

FirstOf(year, m1, d1, m2, d2) ==
    IF year \notin Years THEN NoDate
    ELSE IF ValidYmd(year, m1, d1) THEN <<year, m1, d1>>
    ELSE IF ValidYmd(year, m2, d2) THEN <<year, m2, d2>>
    ELSE NoDate

ParseDateAmerican(a, b, c) ==
    IF a > 31 THEN FirstOf(a, b, c, c, b)
    ELSE FirstOf(IF c > 100 THEN c ELSE 2000 + c, a, b, b, a)
\* parse_date on the numbers of a text that has three.  A year in front is
\* read month first, a year at the end day first; two digits are of 20xx.
ParseDate(a, b, c) ==
    IF a > 31 THEN FirstOf(a, b, c, c, b)
    ELSE FirstOf(IF c > 100 THEN c ELSE 2000 + c, b, a, a, b)
=============================================================================
