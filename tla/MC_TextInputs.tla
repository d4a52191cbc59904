--------------------------- MODULE MC_TextInputs ---------------------------
(***************************************************************************)
(* An instance of TextInputs.  The characters: a letter, a full stop and a *)
(* blank of ASCII; a capital letter of two bytes; a dash of three bytes    *)
(* that folds to one; the numero sign, which folds to two letters; the     *)
(* ellipsis, which folds to three stops; a capital that folds to a letter  *)
(* and a mark; and a word of context, taken as a whole.                    *)
(***************************************************************************)
EXTENDS TextInputs

Folded(width, stop) == [width |-> width, stop |-> stop]
Letter == [width |-> 1, plain |-> TRUE, upper |-> FALSE, blank |-> FALSE,
           trigger |-> FALSE, folds |-> <<Folded(1, FALSE)>>]
Capital == [Letter EXCEPT !.width = 2, !.plain = FALSE, !.upper = TRUE,
                          !.folds = <<Folded(2, FALSE)>>]

MCCharacter ==
    {Letter,
     [Letter EXCEPT !.folds = <<Folded(1, TRUE)>>],
     [Letter EXCEPT !.blank = TRUE],
     Capital,
     [Letter EXCEPT !.width = 3, !.plain = FALSE],
     [Letter EXCEPT !.width = 3, !.plain = FALSE, !.folds = <<Folded(1, FALSE), Folded(1, FALSE)>>],
     [Letter EXCEPT !.width = 3, !.plain = FALSE,
                    !.folds = <<Folded(1, TRUE), Folded(1, TRUE), Folded(1, TRUE)>>],
     [Capital EXCEPT !.folds = <<Folded(1, FALSE), Folded(2, FALSE)>>],
     [Capital EXCEPT !.upper = FALSE, !.trigger = TRUE]}

MCDateNumber == {0, 1, 2, 4, 12, 13, 28, 29, 30, 31, 32, 99, 100, 101,
             1899, 1900, 2000, 2023, 2024, 2100, 2101}

\* Messages with a content, one of several parts and one without.
Message(content) == Object([k \in {"content"} |-> content])
Messages == {Array(<<Message(Str("a")), Message(Str("b"))>>),
             Array(<<Message(Array(<<Str("a"), Str("b")>>)), Object(<<>>)>>)}
Payloads ==
    {Object([messages |-> m, prompt |-> Str("c")]) : m \in Messages}
      \cup {Array(<<Str("a"), Array(<<Str("b"), Str("c")>>), Message(Str("d"))>>)}
\* With what they are made of.
MCJson ==
    Payloads \cup Messages
      \cup {Str(s) : s \in {"a", "b", "c", "d"}}
      \cup {Message(c) : c \in {Str("a"), Str("b"), Str("d"), Array(<<Str("a"), Str("b")>>)}}
      \cup {Array(<<>>), Object(<<>>), Array(<<Str("a"), Str("b")>>), Array(<<Str("b"), Str("c")>>)}
MCSegment == {Key("messages"), Key("content"), Key("prompt"), Index(0), Index(1), All}
=============================================================================
