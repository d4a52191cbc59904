----------------------------- MODULE Detection -----------------------------
(***************************************************************************)
(* What mask_line can find in a text.  A text without any sign of personal *)
(* data is left at once.  Otherwise the detectors run one after the other  *)
(* until the request's deadline, and then the named entity engine is given *)
(* the sentences that carry a signal of their own, at most MaxWindows of   *)
(* them, cut from the original at offsets of the folded text.              *)
(*                                                                         *)
(* What the detectors and the engine would report of what they are given   *)
(* is an input of the model; what they are given is not.  A token lies in  *)
(* one sentence.                                                           *)
(***************************************************************************)
EXTENDS Masking

CONSTANTS
    System,             \* the client systems
    Profile,            \* Profile[y]: the types system y masks
    DetectorOrder,      \* the types each detector reports, in registry order
    NerOnly,            \* values only the named entity engine reports
    Bare,               \* tokens without a digit, an at sign or a capital
    Stop,               \* tokens that end a sentence
    Capital,            \* a signal, but not where a sentence begins
    Trigger,            \* a signal wherever it stands
    MaxWindows,         \* max_windows: sentences the engine is given
    Misread,            \* Misread[t]: the positions the engine is given
                        \* when folding t changed the width of a character
    Uncut,              \* texts in which such an offset cannot be cut at
    Heavy,              \* texts over heavy_text_threshold_bytes
    Trouble             \* what the environment may do

\* overlap: requests of one session in flight together; evict: TTL and
\* capacity of the cache; ner: the engine fails or its circuit is open;
\* deadline: it passes while detectors run; stall: a dependency sends headers
\* and then no body.
Troubles == {"overlap", "evict", "ner", "deadline", "stall"}

ASSUME DetectionAssumption ==
    /\ Profile \in [System -> SUBSET PdType]
    /\ DetectorOrder \in Seq(SUBSET PdType)
    /\ NerOnly \subseteq Value
    /\ Stop \subseteq Word
    /\ Capital \cap Bare = {}
    /\ MaxWindows \in Nat \ {0}
    /\ DOMAIN Misread \subseteq Text /\ Uncut \subseteq Text /\ Heavy \subseteq Text
    /\ Trouble \subseteq Troubles

\* has_pd_signal.
HasPdSignal(t) == \E p \in DOMAIN t : t[p] \notin Bare

-----------------------------------------------------------------------------
(* The windows of the engine.  A sentence is known by where it begins.     *)

Begins(t, p) == p = 1 \/ t[p - 1] \in Stop

\* Token p belongs to the sentence that begins at b.
InSentence(t, b, p) == b <= p /\ \A q \in b + 1..p : ~ Begins(t, q)

Signals(t, p) == t[p] \in Trigger \/ (t[p] \in Capital /\ ~ Begins(t, p))

\* select_ner_windows, without and with its limit.
Signalled(t) ==
    {b \in DOMAIN t : Begins(t, b) /\ \E p \in DOMAIN t : InSentence(t, b, p) /\ Signals(t, p)}
Windows(t) == {b \in Signalled(t) : Cardinality({w \in Signalled(t) : w < b}) < MaxWindows}

NerAsked(t) == HasPdSignal(t) /\ Signalled(t) # {}

\* What the engine is given.
Sent(t) == {p \in DOMAIN t : \E b \in Windows(t) : InSentence(t, b, p)}
Given(t) == IF t \in DOMAIN Misread THEN Misread[t] ELSE Sent(t)

\* text[w.start..w.end] inside a character or past the end.
Panics(t) == NerAsked(t) /\ t \in Uncut

-----------------------------------------------------------------------------
(* What is found: sets of positions.                                       *)

\* The values of t of some types that y masks.
Reported(t, y, types) ==
    {p \in DOMAIN t : t[p] \in Value /\ TypeOf[t[p]] \in types \cap Profile[y]}

\* By the first k detectors, and by the engine.
Ran(k) == UNION {DetectorOrder[i] : i \in 1..k}
Detected(t, y, k) == {p \in Reported(t, y, Ran(k)) : t[p] \notin NerOnly}
ByDetectors(t, y) == Detected(t, y, Len(DetectorOrder))
ByEngine(t, y) ==
    IF NerAsked(t) THEN {p \in Reported(t, y, PdType) : t[p] \in NerOnly} \cap Given(t)
    ELSE {}

Found(seen, degraded, nerFailed) ==
    [seen |-> seen, degraded |-> degraded, nerFailed |-> nerFailed]

\* Everything that the code looks for, when nothing fails.
Complete(t, y) ==
    IF HasPdSignal(t) THEN ByDetectors(t, y) \cup ByEngine(t, y) ELSE {}

Undisturbed(t, y) == IF Panics(t) THEN {} ELSE {Complete(t, y)}

\* What is found when the deadline passes: by the detectors that ran before
\* it did, or by all of them when it passed after the last.
Cuts(t, y) == Undisturbed(t, y) \cup {Detected(t, y, k) : k \in 0..Len(DetectorOrder)}

\* Nothing is looked for; all of it is found; all but what the engine was to
\* find; what was found by the deadline.  None of them when cutting the
\* windows panics.
Detections(t, y) ==
    IF ~ HasPdSignal(t) THEN {Found({}, FALSE, FALSE)}
    ELSE {Found(seen, FALSE, FALSE) : seen \in Undisturbed(t, y)}
         \cup (IF "ner" \in Trouble /\ NerAsked(t)
               THEN {Found(ByDetectors(t, y), TRUE, TRUE)} ELSE {})
         \cup (IF "deadline" \in Trouble
               THEN {Found(seen, TRUE, FALSE) : seen \in Cuts(t, y)} ELSE {})
=============================================================================
