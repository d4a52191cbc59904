------------------------------ MODULE Document ------------------------------
(***************************************************************************)
(* Document: a text, its normalised form and the map of offsets from the   *)
(* one to the other; and select_ner_windows, the sentences the engine is   *)
(* given, which are cut in the normalised form.                            *)
(*                                                                         *)
(* A character is a record: its width in bytes, whether it is a capital or *)
(* a blank, whether it needs no folding, and what it folds to, a sequence  *)
(* of characters of the normalised form with a width and whether they end  *)
(* a sentence.  Offsets are from zero.  The normalised form is not put     *)
(* together: its offsets are those of what the characters fold to.         *)
(***************************************************************************)
EXTENDS Sums, Sequences, FiniteSetsExt

CONSTANT MaxWindows

\* The bytes of the first n characters, and of all.
BytesTo(chars, n) == SumTo([i \in DOMAIN chars |-> chars[i].width], n)
Bytes(chars) == BytesTo(chars, Len(chars))

\* Where character i begins in the text and in the normalised form.
OrigStart(text, i) == BytesTo(text, i - 1)
NormStart(text, i) == SumTo([k \in DOMAIN text |-> Bytes(text[k].folds)], i - 1)
NormBytes(text) == NormStart(text, Len(text) + 1)

Boundaries(text) == {OrigStart(text, i) : i \in 1..Len(text) + 1}

\* Where the n-th of the characters that character i folds to ends.
FoldEnd(text, i, n) == NormStart(text, i) + BytesTo(text[i].folds, n)
NormBoundaries(text) ==
    {0} \cup UNION {{FoldEnd(text, i, n) : n \in DOMAIN text[i].folds} : i \in DOMAIN text}

FastPath(text) == \A i \in DOMAIN text : text[i].plain

\* The character that byte n of the normalised form was folded from.
FoldedFrom(text, n) ==
    CHOOSE i \in DOMAIN text : NormStart(text, i) <= n /\ n < NormStart(text, i + 1)

NormToOrigByteByByte(text) ==
    [n \in 0..NormBytes(text) |->
        IF n = NormBytes(text) THEN Bytes(text)
        ELSE LET i == FoldedFrom(text, n) IN OrigStart(text, i) + n - NormStart(text, i)]
\* For each byte of the normalised form where its character begins, and the
\* end of the text at the end.
NormToOrig(text) ==
    [n \in 0..NormBytes(text) |->
        IF n = NormBytes(text) THEN Bytes(text) ELSE OrigStart(text, FoldedFrom(text, n))]

AlignForward(text, byte) == Min({b \in Boundaries(text) : b >= byte})

ToOriginalMapped(text, from, to) ==
    LET At(n) == AlignForward(text, NormToOrig(text)[Min({n, NormBytes(text)})])
    IN <<At(from), At(to)>>

ToOriginal(text, from, to) ==
    IF FastPath(text) THEN <<from, to>> ELSE ToOriginalMapped(text, from, to)

-----------------------------------------------------------------------------
(* select_ner_windows.                                                     *)

\* Where a sentence ends: after a stop, and with the text.
StopEnds(text) ==
    UNION {{FoldEnd(text, i, n) : n \in {m \in DOMAIN text[i].folds : text[i].folds[m].stop}}
             : i \in DOMAIN text}
Cuts(text) == {0, NormBytes(text)} \cup StopEnds(text)

\* Spans of the normalised form, from a cut to the next.
Sentences(text) ==
    {s \in Cuts(text) \X Cuts(text) :
        s[1] < s[2] /\ \A c \in Cuts(text) : c <= s[1] \/ s[2] <= c}

\* original_slice: the characters that a span of the original covers.
Slice(text, span) ==
    {i \in DOMAIN text : span[1] <= OrigStart(text, i) /\ OrigStart(text, i) < span[2]}

\* A word of the slice that is not its first begins with a capital.
CapitalInside(text, slice) ==
    \E i \in slice :
        /\ text[i].upper /\ i - 1 \in slice /\ text[i - 1].blank
        /\ \E j \in slice : j < i /\ ~text[j].blank

HasTrigger(text, from, to) ==
    \E i \in DOMAIN text :
        text[i].trigger /\ from <= NormStart(text, i) /\ NormStart(text, i + 1) <= to

HasNerSignalUnmapped(text, sentence) ==
    \/ CapitalInside(text, Slice(text, sentence))
    \/ HasTrigger(text, sentence[1], sentence[2])
\* has_ner_signal: a capital in the original, or one of the words of context.
HasNerSignal(text, sentence) ==
    \/ CapitalInside(text, Slice(text, ToOriginal(text, sentence[1], sentence[2])))
    \/ HasTrigger(text, sentence[1], sentence[2])

WindowsTakenFirst(text) ==
    {s \in Sentences(text) :
        /\ HasNerSignal(text, s)
        /\ Cardinality({r \in Sentences(text) : r[1] < s[1]}) < MaxWindows}
\* The first MaxWindows of the sentences that have a signal.
Windows(text) ==
    LET signalled == {s \in Sentences(text) : HasNerSignal(text, s)}
    IN {s \in signalled : Cardinality({r \in signalled : r[1] < s[1]}) < MaxWindows}
=============================================================================
