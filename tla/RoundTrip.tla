----------------------------- MODULE RoundTrip -----------------------------
(***************************************************************************)
(* One text through mask_line, a language model, and demask.               *)
(*                                                                         *)
(* The model answers with tokens it cites from the masked text, in any     *)
(* order, any number of times, and with tokens of its own.  source[q] is   *)
(* the position the q-th token of the reply was cited from, 0 for a token  *)
(* of the model's own.                                                     *)
(***************************************************************************)
EXTENDS MaskState

CONSTANTS
    Inputs,     \* the texts a client sends
    OwnToken,   \* tokens the model may write that it did not read
    MaxReply    \* bound: tokens in a reply

ASSUME RoundTripAssumption ==
    /\ Inputs \subseteq Text
    /\ OwnToken \subseteq Token
    /\ MaxReply \in Nat

VARIABLES stage, text, seen, mapping, source, reply, restored

vars == <<stage, text, seen, mapping, source, reply, restored>>

NoMapping == [original |-> <<>>, masked |-> <<>>, entries |-> <<>>]

Init ==
    /\ stage = "received"
    /\ text \in Inputs
    /\ seen \in SUBSET {p \in DOMAIN text : text[p] \in Value}
    /\ mapping = NoMapping
    /\ source = <<>> /\ reply = <<>> /\ restored = <<>>

\* service.mask: the masked text goes to the model.
MaskText ==
    /\ stage = "received"
    /\ stage' = "masked"
    /\ mapping' = MaskLine(text, seen)
    /\ UNCHANGED <<text, seen, source, reply, restored>>

\* The model's answer (external): any reply of at most MaxReply tokens.
ModelReplies ==
    /\ stage = "masked"
    /\ stage' = "replied"
    /\ \E k \in 0..MaxReply, own \in OwnToken :
          \E cited \in [1..k -> 0..Len(text)] :
              /\ source' = cited
              /\ reply' = [q \in 1..k |-> IF cited[q] = 0 THEN own
                                          ELSE mapping.masked[cited[q]]]
    /\ UNCHANGED <<text, seen, mapping, restored>>

\* service.demask on the reply.
DemaskReply ==
    /\ stage = "replied"
    /\ stage' = "restored"
    /\ restored' = DemaskLine(reply, mapping)
    /\ UNCHANGED <<text, seen, mapping, source, reply>>

Next == MaskText \/ ModelReplies \/ DemaskReply

Spec == Init /\ [][Next]_vars

-----------------------------------------------------------------------------
TypeOK ==
    /\ stage \in {"received", "masked", "replied", "restored"}
    /\ text \in Inputs /\ seen \subseteq DOMAIN text
    /\ mapping.masked \in Seq(Token) /\ mapping.original \in {<<>>, text}
    /\ reply \in Seq(Token) /\ restored \in Seq(Token)

(* The numbers in the placeholders are those MaskState.next_number hands   *)
(* out when the entities are visited from left to right: one number for a  *)
(* canonical form and type, counted from one within the type.              *)
NumberingAgrees == NumberingIsClosedForm(text, seen)

(* Whatever the model does with the masked text (reorders it, repeats a    *)
(* placeholder, drops one, adds words), each placeholder it cites comes    *)
(* back as the value of the place it was cited from.                       *)
CitedPlaceholdersRestored ==
    stage = "restored" /\ SpellingsDiffer(ValuesAt(text, seen)) /\ Plain(text) =>
        \A q \in DOMAIN reply :
            source[q] # 0 /\ reply[q] \in Placeholder
                => restored[q] = text[source[q]]

(* A reply that is the masked text itself comes back as the original text  *)
(* when every masker involved records what it masked, also when two values *)
(* share one mask and only their order tells them apart.                   *)
ExactReplyRestored ==
    /\ stage = "restored" /\ SpellingsDiffer(ValuesAt(text, seen)) /\ Plain(text)
    /\ KindsRecorded(ValuesAt(text, seen))
    /\ reply = mapping.masked
    => restored = text
=============================================================================
