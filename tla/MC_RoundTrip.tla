---------------------------- MODULE MC_RoundTrip ----------------------------
(***************************************************************************)
(* Instances of RoundTrip: two people, one of them in two spellings, two   *)
(* cards that keep the same last digits, an address of electronic mail,    *)
(* which the partial masker writes as it is, and a security code.          *)
(***************************************************************************)
EXTENDS RoundTrip

CONSTANTS
    w,              \* a word
    ann, Ann, bob,  \* ann and Ann are two spellings of one name
    card1, card2,   \* two cards, one mask
    mail1,          \* an address without digits
    cvv1,           \* a code
    MaxLen          \* bound: tokens in a text

People == {ann, Ann, bob}
Cards == {card1, card2}
Mails == {mail1}
Codes == {cvv1}

MCWord == {w}
MCValue == People \cup Cards \cup Mails \cup Codes
MCPdType == {"FIO", "CARD_NUMBER", "EMAIL", "CVV"}
MCTypeOf == [v \in MCValue |-> IF v \in People THEN "FIO"
                               ELSE IF v \in Cards THEN "CARD_NUMBER"
                               ELSE IF v \in Mails THEN "EMAIL" ELSE "CVV"]
MCCanon == [v \in MCValue |-> IF v = Ann THEN ann ELSE v]
MCShape == [v \in MCValue |-> IF v \in People THEN v ELSE MCTypeOf[v]]

\* Profile strict: names are replaced by placeholders, cards and addresses partially.
MCKindStrict == [type \in MCPdType |->
    CASE type = "FIO" -> "placeholder"
      [] type \in {"CARD_NUMBER", "EMAIL"} -> "partial"
      [] type = "CVV" -> "redact"]

Sequences(tokens) == UNION {[1..k -> tokens] : k \in 1..MaxLen}

MCInputs == Sequences({w} \cup MCValue)

\* The model may write a word or a placeholder it made up.
MCOwnToken == {w, [label |-> "FIO", n |-> 7]}
=============================================================================
