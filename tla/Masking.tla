------------------------------ MODULE Masking ------------------------------
(***************************************************************************)
(* How one text is masked and how a text is demasked, as pure operators.   *)
(*                                                                         *)
(* A text is a sequence of tokens: words without personal data, values a   *)
(* detector can report, and what maskers write in their place.  A token    *)
(* stands for the run of characters the code replaces as one span, so      *)
(* offsets, spelling and layout are abstracted and the order of the tokens *)
(* is kept.  One placeholder token stands for every spelling of it the     *)
(* tolerant expression of demask.rs accepts ("[FIO_1]", "(FIO 1)", ...).   *)
(*                                                                         *)
(* No RECURSIVE operator is declared here: theorems are proved about these *)
(* definitions in MaskingProofs.                                           *)
(***************************************************************************)
EXTENDS Naturals, Sequences, FiniteSets

CONSTANTS
    Word,      \* tokens that carry no personal data
    Value,     \* tokens that are personal data, as they are spelled
    PdType,    \* the types of personal data
    TypeOf,    \* TypeOf[v]: the type the detectors report for v
    Canon,     \* Canon[v]: canonical_from_original, equal for two spellings
    KindOf,    \* KindOf[type]: the masker the policy chooses (mask_kinds)
    Shape,     \* Shape[v]: what a masker other than placeholder writes for v
    Kept       \* the values that the partial masker writes as they are

Kind == {"placeholder", "partial", "token", "synthetic", "hash", "redact"}

\* Maskers that return a key; what the others write is never recorded.
Recorded == Kind \ {"hash", "redact"}

Placeholder == [label : PdType, n : Nat \ {0}]
Form == [kind : Kind \ {"placeholder"}, shape : {Shape[v] : v \in Value}]
Token == Word \cup Value \cup Placeholder \cup Form
Text == Seq(Token)

ASSUME MaskersAssumption ==
    /\ TypeOf \in [Value -> PdType]
    /\ DOMAIN Canon = Value
    /\ KindOf \in [PdType -> Kind]
    /\ DOMAIN Shape = Value
    /\ Kept \subseteq Value

\* A Form is what a masker made of a value, so it is no value itself.
ASSUME TokensAssumption ==
    /\ Word \cap Value = {}
    /\ \A x \in Word \cup Value : x \notin Placeholder /\ x \notin Form

ValuesIn(t) == {t[p] : p \in {q \in DOMAIN t : t[q] \in Value}}

\* The partial masker stars the digits before the last four characters
\* (main.rs registers it so) and nothing else: a value without such digits,
\* an address of electronic mail or a name, is written as it is.
WrittenAsIs(v) == KindOf[TypeOf[v]] = "partial" /\ v \in Kept

-----------------------------------------------------------------------------
(* Masking: what mask_line does once the entities are known.               *)

\* The entities of t when detection reports the positions in seen, and the
\* values they are.
Hits(t, seen) == {p \in DOMAIN t : p \in seen /\ t[p] \in Value}
ValuesAt(t, seen) == {t[p] : p \in Hits(t, seen)}

\* MaskState.assigned is keyed by the type and the canonical form.
SameKey(v, w) == TypeOf[v] = TypeOf[w] /\ Canon[v] = Canon[w]

FirstHit(t, seen, p) ==
    CHOOSE q \in Hits(t, seen) :
        /\ SameKey(t[q], t[p])
        /\ \A r \in Hits(t, seen) : SameKey(t[r], t[p]) => q <= r

\* The canonical forms of p's type that have a number once p's has one.
Numbered(t, seen, p) ==
    {Canon[t[q]] : q \in {r \in Hits(t, seen) :
                            /\ TypeOf[t[r]] = TypeOf[t[p]]
                            /\ r <= FirstHit(t, seen, p)}}

\* (Mutants, here and below: definitions named for a bug that the definition
\* after them is checked not to have.)
\*
\* MaskState.next_number over one text, in closed form: a canonical form
\* takes the next number of its type where it is met first and keeps it.
NumberFromZero(t, seen, p) == Cardinality(Numbered(t, seen, p)) - 1
NumberStuck(t, seen, p) == 1
Number(t, seen, p) == Cardinality(Numbered(t, seen, p))

Mask(t, seen, p) ==
    IF KindOf[TypeOf[t[p]]] = "placeholder"
    THEN [label |-> TypeOf[t[p]], n |-> Number(t, seen, p)]
    ELSE IF WrittenAsIs(t[p]) THEN t[p]
    ELSE [kind |-> KindOf[TypeOf[t[p]]], shape |-> Shape[t[p]]]

\* The Mapping of one masked text.  entries is keyed by the position of the
\* value, so the order of the records is the order of the positions.
MaskLine(t, seen) ==
    [ original |-> t,
      masked   |-> [p \in DOMAIN t |-> IF p \in Hits(t, seen)
                                       THEN Mask(t, seen, p) ELSE t[p]],
      entries  |-> [p \in {q \in Hits(t, seen) :
                              KindOf[TypeOf[t[q]]] \in Recorded} |->
                        [original |-> t[p], masked |-> Mask(t, seen, p)]] ]

-----------------------------------------------------------------------------
(* What a text must be like for its mask to be undone.                     *)

\* The text does not itself contain what a masker could write.
Plain(t) == \A p \in DOMAIN t : t[p] \in Word \cup Value

\* No two spellings among the values share a type and a canonical form.
SpellingsDiffer(values) == \A v, v2 \in values : SameKey(v, v2) => v = v2

KindsRecorded(values) == \A v \in values : KindOf[TypeOf[v]] \in Recorded

Restorable(t) ==
    Plain(t) /\ SpellingsDiffer(ValuesIn(t)) /\ KindsRecorded(ValuesIn(t))

-----------------------------------------------------------------------------
(* Demasking.                                                              *)

Known(entries, x) == {p \in DOMAIN entries : entries[p].masked = x}

\* by_key is a HashMap filled in order: the last record of a key wins.
ByKey(entries, x) ==
    entries[CHOOSE p \in Known(entries, x) :
                \A q \in Known(entries, x) : q <= p].original

\* First pass: every placeholder of the text whose key is known.
RestorePlaceholders(t, entries) ==
    [p \in DOMAIN t |-> IF t[p] \in Placeholder /\ Known(entries, t[p]) # {}
                        THEN ByKey(entries, t[p]) ELSE t[p]]

\* Second pass: records in order, each looks for its mask once, after the
\* place where the previous one that was found ended; 0 when there is none.
TargetFromStart(t, entries) ==
    [p \in DOMAIN entries |->
        LET found == {q \in DOMAIN t : t[q] = entries[p].masked}
        IN IF found = {} THEN 0 ELSE CHOOSE q \in found : \A r \in found : q <= r]

Target(t, entries) ==
    LET target[p \in DOMAIN entries] ==
          LET earlier == {target[r] : r \in {s \in DOMAIN entries : s < p}}
              found == {q \in DOMAIN t : /\ t[q] = entries[p].masked
                                         /\ \A e \in earlier : e < q}
          IN IF found = {} THEN 0
             ELSE CHOOSE q \in found : \A r \in found : q <= r
    IN target

RestoreForms(t, entries) ==
    LET target == Target(t, entries)
        Sources(q) == {p \in DOMAIN entries : /\ target[p] = q
                                              /\ t[q] = entries[p].masked}
    IN [q \in DOMAIN t |-> IF Sources(q) = {} THEN t[q]
                           ELSE entries[CHOOSE p \in Sources(q) : TRUE].original]

DemaskLine(t, mapping) ==
    RestoreForms(RestorePlaceholders(t, mapping.entries), mapping.entries)
=============================================================================
