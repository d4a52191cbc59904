----------------------------- MODULE TextInputs -----------------------------
(***************************************************************************)
(* The pure functions of the code under every input, which is put together *)
(* a piece at a time: a text character by character, a number digit by     *)
(* digit, a date number by number, the path into a JSON value segment by   *)
(* segment.                                                                *)
(***************************************************************************)
EXTENDS Document, Validators, JsonPaths

CONSTANTS
    Character, MaxText,     \* what texts are made of; bound: characters
    Digit, MaxDigits,       \* bound: digits of a number
    DateNumber,             \* the numbers of a date
    Json, Segment, MaxPath  \* values and what paths are made of; bound: segments

\* One character folds to one or more; a plain one, to one of its width.
ASSUME CharactersAssumption ==
    \A c \in Character :
        /\ c.width \in Nat \ {0}
        /\ c.folds \in Seq([width : Nat \ {0}, stop : BOOLEAN]) /\ c.folds # <<>>
        /\ c.plain => Len(c.folds) = 1 /\ c.folds[1].width = c.width

ASSUME NumbersAssumption ==
    Digit \subseteq 0..9 /\ DateNumber \subseteq Nat /\ MaxWindows \in Nat

\* A value is a string that has not been replaced, or is made of values.
ASSUME JsonAssumption ==
    \A v \in Json :
        \/ v.kind = "string" /\ v = Str(v.string.was)
        \/ v.kind = "object" /\ v = Object(v.map) /\ \A k \in DOMAIN v.map : v.map[k] \in Json
        \/ v.kind = "array" /\ v = Array(v.items) /\ v.items \in Seq(Json)

NoJson == [kind |-> "none"]

VARIABLES
    typed, digits, date, json, path
inputVars == <<typed, digits, date, json, path>>

Nothing == typed = <<>> /\ digits = <<>> /\ date = <<>> /\ json = NoJson
InputsInit == Nothing /\ path = <<>>

TypeCharacter(c) ==
    /\ Len(typed) < MaxText /\ digits = <<>> /\ date = <<>> /\ json = NoJson
    /\ typed' = Append(typed, c)
    /\ UNCHANGED <<digits, date, json, path>>

TypeDigit(d) ==
    /\ Len(digits) < MaxDigits /\ typed = <<>> /\ date = <<>> /\ json = NoJson
    /\ digits' = Append(digits, d)
    /\ UNCHANGED <<typed, date, json, path>>

TypeNumber(n) ==
    /\ Len(date) < 3 /\ typed = <<>> /\ digits = <<>> /\ json = NoJson
    /\ date' = Append(date, n)
    /\ UNCHANGED <<typed, digits, json, path>>

Parse(value) ==
    /\ Nothing
    /\ json' = value
    /\ UNCHANGED <<typed, digits, date, path>>

AddSegment(s) ==
    /\ Len(path) < MaxPath /\ json # NoJson
    /\ path' = Append(path, s)
    /\ UNCHANGED <<typed, digits, date, json>>

InputsNext ==
    \/ \E c \in Character : TypeCharacter(c)
    \/ \E d \in Digit : TypeDigit(d)
    \/ \E n \in DateNumber : TypeNumber(n)
    \/ \E value \in Json : Parse(value)
    \/ \E s \in Segment : AddSegment(s)

InputsSpec == InputsInit /\ [][InputsNext]_inputVars

-----------------------------------------------------------------------------
(* The document.                                                           *)

(* Whatever is found in the normalised form is masked in whole characters  *)
(* of the text, those it was folded from; if it ends within what one       *)
(* character folds to, that one is lost and no other.                      *)
SpansOnCharacters ==
    \A from, to \in NormBoundaries(typed) : from <= to =>
        LET span == ToOriginal(typed, from, to)
            Touched(i) == NormStart(typed, i) < to /\ from < NormStart(typed, i + 1)
            Ends(i) == NormStart(typed, i) < to /\ to < NormStart(typed, i + 1)
        IN /\ span[1] \in Boundaries(typed) /\ span[2] \in Boundaries(typed)
           /\ Slice(typed, span) = {i \in DOMAIN typed : Touched(i) /\ ~Ends(i)}

-----------------------------------------------------------------------------
(* The windows.                                                            *)

\* No stop in what the characters i to j fold to.
OneSentence(i, j) ==
    \A k \in i..j : \A n \in DOMAIN typed[k].folds : ~typed[k].folds[n].stop

\* The capitals that begin a word within a sentence.
CapitalsWithin ==
    {i \in DOMAIN typed :
        /\ typed[i].upper
        /\ \E j \in 1..i - 2 : typed[i - 1].blank /\ ~typed[j].blank /\ OneSentence(j, i)}

\* As many windows as there may be, all of them before character i.
LimitBefore(i) ==
    /\ Cardinality(Windows(typed)) = MaxWindows
    /\ \A w \in Windows(typed) : w[2] <= NormStart(typed, i)

(* In every text the sentence of a capital that begins a word within it is *)
(* one of the windows, which are spans of the normalised form, unless as   *)
(* many as there may be come before it (has_ner_signal reads the original, *)
(* where the sentence may be at other offsets).                            *)
CapitalsSelected ==
    \A i \in CapitalsWithin :
        \/ LimitBefore(i)
        \/ \E w \in Windows(typed) :
              w[1] <= NormStart(typed, i) /\ NormStart(typed, i + 1) <= w[2]

(* Span: bytes of the original text.  The engine's client cuts the text at *)
(* the windows.                                                            *)
WindowsInOriginal ==
    \A w \in Windows(typed) : \A b \in {1, 2} : w[b] \in Boundaries(typed)

\* Folded to one character of its own width.
SameWidth(c) == Len(c.folds) = 1 /\ c.folds[1].width = c.width

(* The engine's client slices the original at the windows.  A text whose   *)
(* characters all keep their width can be sliced there, and such a capital *)
(* is in what is sliced out and sent, unless as many windows as there may  *)
(* be come before it.  (In other texts the slice may be shifted or panic.) *)
CapitalsSent ==
    (\A k \in DOMAIN typed : SameWidth(typed[k])) =>
        /\ WindowsInOriginal
        /\ \A i \in CapitalsWithin :
              LimitBefore(i) \/ \E w \in Windows(typed) : i \in Slice(typed, w)

-----------------------------------------------------------------------------
(* The validators.                                                         *)

Altered(seq) == {[seq EXCEPT ![i] = d] : i \in DOMAIN seq, d \in 0..9} \ {seq}

(* Luhn: one digit misread is found out, and so are two neighbours         *)
(* swapped unless they are 0 and 9.                                        *)
LuhnCatches ==
    LuhnValid(digits) =>
        /\ \A x \in Altered(digits) : ~LuhnValid(x)
        /\ \A i \in 1..Len(digits) - 1 :
              LET x == [digits EXCEPT ![i] = digits[i + 1], ![i + 1] = digits[i]] IN
              x # digits /\ {digits[i], digits[i + 1]} # {0, 9} => ~LuhnValid(x)

TwoDigits == {<<a, b>> : a \in 0..9, b \in 0..9}

(* For every body of a number there is one control number that is valid,   *)
(* of one digit for an INN of ten, of two for one of twelve and a SNILS.   *)
OneControlEach ==
    /\ Len(digits) = 9 =>
          /\ Cardinality({d \in 0..9 : Inn(Append(digits, d)) = "valid"}) = 1
          /\ Cardinality({p \in TwoDigits : Snils(digits \o p) = "valid"}) = 1
    /\ Len(digits) = 10 =>
          Cardinality({p \in TwoDigits : Inn(digits \o p) = "valid"}) = 1

\* The calendar, from the leap days there have been.
LeapDays(year) == year \div 4 - year \div 100 + year \div 400
DayOfYear == <<0, 31, 59, 90, 120, 151, 181, 212, 243, 273, 304, 334, 365>>
Exists(d) ==
    /\ d[1] \in 1900..2100 /\ d[2] \in 1..12 /\ d[3] >= 1
    /\ d[3] <= DayOfYear[d[2] + 1] - DayOfYear[d[2]]
               + (IF d[2] = 2 THEN LeapDays(d[1]) - LeapDays(d[1] - 1) ELSE 0)

Readings(a, b, c) ==
    IF a > 31 THEN {<<a, b, c>>, <<a, c, b>>}
    ELSE LET year == IF c > 100 THEN c ELSE 2000 + c IN {<<year, b, a>>, <<year, a, b>>}

(* A date is found if one of its readings is in the calendar, and is one   *)
(* of them: the day before the month where both are.                       *)
DatesExist ==
    Len(date) = 3 =>
        LET found == ParseDate(date[1], date[2], date[3])
            readings == {d \in Readings(date[1], date[2], date[3]) : Exists(d)}
        IN /\ found = NoDate <=> readings = {}
           /\ readings # {} => found \in readings
           /\ Cardinality(readings) = 2 /\ date[1] <= 31 => found[3] = date[1]

-----------------------------------------------------------------------------
(* JSON paths.                                                             *)

Marked(strings) == [n \in DOMAIN strings |-> [strings[n] EXCEPT !.replaced = TRUE]]

(* What is masked along a path is what would be read along it, in the same *)
(* order, and nothing else of the value is changed: read along any other   *)
(* path that leads to none of these strings, it is as it was.              *)
ReplacedIsExtracted ==
    json # NoJson =>
    LET replaced == Replace(json, path) IN
    /\ Extract(replaced, path) = Marked(Extract(json, path))
    /\ \A s \in Segment :
          LET other == <<s>> \o (IF path = <<>> THEN <<>> ELSE Tail(path)) IN
          path # <<>> /\ Selects(json, s) \intersect Selects(json, Head(path)) = {} =>
              Extract(replaced, other) = Extract(json, other)
=============================================================================
