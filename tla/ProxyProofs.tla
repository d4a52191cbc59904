---------------------------- MODULE ProxyProofs ----------------------------
(***************************************************************************)
(* Proxy, proved for any routes and requests: unless the policy demands    *)
(* the engine, a response that is not marked degraded means that every     *)
(* string was masked as if no deadline and no failure of the engine had    *)
(* come in between; and what the model cites from the string masked last   *)
(* is restored.                                                            *)
(***************************************************************************)
EXTENDS Proxy, MaskingProofs

-----------------------------------------------------------------------------
(* Detection and masking of one string.                                    *)

(* Detection reports positions, all it looks for unless it says degraded.  *)
LEMMA DetectionsFacts ==
    ASSUME NEW t, NEW y, NEW d \in Detections(t, y)
    PROVE  /\ d.seen \in SUBSET DOMAIN t /\ d.degraded \in BOOLEAN
           /\ ~d.degraded => d.seen = Complete(t, y)
<1>1. \A k : Detected(t, y, k) \in SUBSET DOMAIN t
  BY DEF Detected, Reported
<1>2. Complete(t, y) \in SUBSET DOMAIN t
  BY <1>1 DEF Complete, ByDetectors, ByEngine, Reported
<1>3. /\ \A seen \in Undisturbed(t, y) : seen = Complete(t, y)
      /\ \A seen \in Cuts(t, y) : seen \in SUBSET DOMAIN t
  BY <1>1, <1>2 DEF Undisturbed, Cuts
<1>4. CASE ~ HasPdSignal(t)
  <2>1. d = Found({}, FALSE, FALSE) /\ Complete(t, y) = {}
    BY <1>4 DEF Detections, Complete
  <2>2. QED
    BY <2>1 DEF Found
<1>5. CASE HasPdSignal(t)
  <2>1. \/ d \in {Found(seen, FALSE, FALSE) : seen \in Undisturbed(t, y)}
        \/ d = Found(ByDetectors(t, y), TRUE, TRUE)
        \/ d \in {Found(seen, TRUE, FALSE) : seen \in Cuts(t, y)}
    BY <1>5, Zenon DEF Detections
  <2>2. CASE d \in {Found(seen, FALSE, FALSE) : seen \in Undisturbed(t, y)}
    <3>1. PICK seen \in Undisturbed(t, y) : d = Found(seen, FALSE, FALSE)
      BY <2>2
    <3>2. d.seen = seen /\ d.degraded = FALSE
      BY <3>1 DEF Found
    <3>3. QED
      BY <1>2, <1>3, <3>2
  <2>3. CASE d = Found(ByDetectors(t, y), TRUE, TRUE)
    BY <1>1, <2>3 DEF Found, ByDetectors
  <2>4. CASE d \in {Found(seen, TRUE, FALSE) : seen \in Cuts(t, y)}
    <3>1. PICK seen \in Cuts(t, y) : d = Found(seen, TRUE, FALSE)
      BY <2>4
    <3>2. d.seen = seen /\ d.degraded = TRUE
      BY <3>1 DEF Found
    <3>3. QED
      BY <1>3, <3>2
  <2>5. QED
    BY <2>1, <2>2, <2>3, <2>4
<1>6. QED
  BY <1>4, <1>5

(* What is looked for lies in the text.                                    *)
LEMMA CompletePositions ==
    ASSUME NEW t, NEW y
    PROVE  Complete(t, y) \in SUBSET DOMAIN t
BY DEF Complete, ByDetectors, ByEngine, Detected, Reported

(* A value in a masked text was there before, and if it was seen then its  *)
(* masker writes it as it is.                                              *)
LEMMA SeenAreMasked ==
    ASSUME NEW t \in Text, NEW seen, NEW p \in DOMAIN t,
           MaskLine(t, seen).masked[p] \in Value
    PROVE  /\ MaskLine(t, seen).masked[p] = t[p]
           /\ p \in seen => WrittenAsIs(t[p])
<1>1. MaskLine(t, seen).masked[p] = IF p \in Hits(t, seen) THEN Mask(t, seen, p) ELSE t[p]
  BY DEF MaskLine
<1>2. CASE p \in Hits(t, seen)
  BY <1>1, <1>2, MaskType, TokensDiffer
<1>3. CASE p \notin Hits(t, seen)
  BY <1>1, <1>3 DEF Hits
<1>4. QED
  BY <1>2, <1>3

-----------------------------------------------------------------------------
(* The inductive invariant.                                                *)

\* The strings stay strings of the body.
StringsOK ==
    /\ system \in System /\ route \in Route /\ input \in Inputs
    /\ at \in Nat \ {0}
    /\ texts \in Seq(Text) /\ DOMAIN texts = DOMAIN input

MaskedBefore(k) == {route.visits[j] : j \in {l \in DOMAIN route.visits : l < k}}

Covered(i) ==
    \/ Panicked(input[i])
    \/ \A p \in Complete(input[i], system) :
          texts[i][p] \notin Value \/ WrittenAsIs(input[i][p])

\* The loop over the strings: what it has not come to is as it was sent,
\* what it has left behind is covered.
LoopOK ==
    /\ stage = "received" => at = 1 /\ texts = input
    /\ stage = "mask" /\ system \notin NerMustWork =>
          /\ \A i \in DOMAIN input : DOMAIN texts[i] = DOMAIN input[i]
          /\ \A i \in DOMAIN input \ MaskedBefore(at) : texts[i] = input[i]
          /\ ~degraded => \A i \in MaskedBefore(at) : Covered(i)
    /\ stage = "send" /\ system \notin NerMustWork
       /\ route.action = "mask" /\ ~degraded =>
          \A i \in Visited : Covered(i)

UnmarkedInv == StringsOK /\ LoopOK /\ UnmarkedMeansUndisturbed

(* The visits are visits of strings the request has.                       *)
LEMMA VisitsFacts ==
    ASSUME StringsOK
    PROVE  /\ input \in Seq(Text)
           /\ route.visits \in Seq(Nat)
           /\ \A k \in DOMAIN route.visits : route.visits[k] \in DOMAIN input
           /\ Visited \subseteq DOMAIN input
<1>1. /\ input \in Seq(Text)
      /\ \A k \in DOMAIN route.visits : route.visits[k] \in DOMAIN input
  BY ProxyAssumption DEF StringsOK
<1>2. route.visits \in Seq(Nat)
  BY ProxyAssumption DEF StringsOK, Routes
<1>3. QED
  BY <1>1, <1>2 DEF Visited

LEMMA InitUnmarked == Init => UnmarkedInv
<1> SUFFICES ASSUME Init PROVE UnmarkedInv
  OBVIOUS
<1>1. StringsOK
  BY ProxyAssumption DEF Init, StringsOK
<1>2. QED
  BY <1>1 DEF Init, UnmarkedInv, LoopOK, UnmarkedMeansUndisturbed, UndisturbedUnlessMarked

(* What is covered depends on the request and the strings alone.           *)
LEMMA Frame ==
    ASSUME UNCHANGED <<system, route, input, texts>>
    PROVE  /\ Visited' = Visited
           /\ \A i : Covered(i)' = Covered(i)
BY DEF Visited, Covered

(* Steps outside the loop that do not send keep the invariant.             *)
LEMMA OutsideUnmarked ==
    ASSUME UnmarkedInv, at' \in Nat \ {0},
           UNCHANGED <<system, route, input, texts, sent, degraded>>,
           stage' \notin {"received", "mask", "send"}
    PROVE  UnmarkedInv'
<1>1. StringsOK'
  BY DEF UnmarkedInv, StringsOK
<1>2. UnmarkedMeansUndisturbed'
  BY Frame DEF UnmarkedInv, UnmarkedMeansUndisturbed, UndisturbedUnlessMarked
<1>3. QED
  BY <1>1, <1>2 DEF UnmarkedInv, LoopOK

(* One visit further, one more string is behind.                           *)
LEMMA OneMore ==
    ASSUME StringsOK, at \in DOMAIN route.visits, at' = at + 1, UNCHANGED route
    PROVE  MaskedBefore(at)' = MaskedBefore(at) \cup {route.visits[at]}
<1>1. at \in Nat /\ \A l \in DOMAIN route.visits : l \in Nat
  BY VisitsFacts DEF StringsOK
<1>2. \A l \in DOMAIN route.visits : l < at + 1 <=> l < at \/ l = at
  BY <1>1
<1>3. MaskedBefore(at)' = {route.visits[j] : j \in {l \in DOMAIN route.visits : l < at + 1}}
  BY DEF MaskedBefore
<1>4. QED
  BY <1>2, <1>3 DEF MaskedBefore

(* A string whose mask panics is left as it is, or the exchange ends.      *)
LEMMA PanicUnmarked ==
    ASSUME UnmarkedInv, system \notin NerMustWork, stage = "mask",
           at \in DOMAIN route.visits, at' = at + 1, Panics(texts[route.visits[at]]),
           stage' = IF texts[route.visits[at]] \in Heavy THEN stage ELSE "dropped",
           UNCHANGED <<system, route, input, sent, texts, degraded>>
    PROVE  UnmarkedInv'
<1>1. StringsOK /\ LoopOK /\ UnmarkedMeansUndisturbed /\ at + 1 \in Nat \ {0} /\ at \in Nat
  BY DEF UnmarkedInv, StringsOK
<1>2. CASE texts[route.visits[at]] \notin Heavy
  BY <1>1, <1>2, OutsideUnmarked
<1>3. CASE texts[route.visits[at]] \in Heavy
  <2>1. PICK i \in DOMAIN input : i = route.visits[at]
    BY <1>1, VisitsFacts
  <2>2. MaskedBefore(at)' = MaskedBefore(at) \cup {i}
    BY <1>1, <2>1, OneMore
  <2>3. Panicked(texts[i])
    BY <1>3, <2>1 DEF Panicked
  <2>4. ~degraded => Covered(i)
    BY <1>1, <2>1, <2>3 DEF LoopOK, Covered
  <2>5. LoopOK'
    BY <1>1, <1>3, <2>2, <2>4, Frame DEF LoopOK
  <2>6. StringsOK' /\ UnmarkedMeansUndisturbed'
    BY <1>1, Frame DEF StringsOK, UnmarkedMeansUndisturbed, UndisturbedUnlessMarked
  <2>7. QED
    BY <2>5, <2>6 DEF UnmarkedInv
<1>4. QED
  BY <1>2, <1>3

(* One string is masked.                                                   *)
LEMMA MaskNextUnmarked ==
    ASSUME UnmarkedInv, system \notin NerMustWork, MaskNext
    PROVE  UnmarkedInv'
<1>1. /\ stage = "mask" /\ at \in DOMAIN route.visits /\ at' = at + 1
      /\ UNCHANGED <<system, route, input, sent>>
      /\ StringsOK /\ LoopOK /\ UnmarkedMeansUndisturbed
  BY DEF MaskNext, UnmarkedInv, request
<1>a. PICK i \in DOMAIN input : i = route.visits[at]
  BY <1>1, VisitsFacts
<1>b. \/ /\ Panics(texts[i]) /\ UNCHANGED <<texts, degraded>>
         /\ stage' = IF texts[i] \in Heavy THEN stage ELSE "dropped"
      \/ /\ UNCHANGED stage
         /\ \E d \in Detections(texts[i], system) :
               /\ texts' = [texts EXCEPT ![i] = MaskLine(texts[i], d.seen).masked]
               /\ degraded' = Flag(degraded, d)
  BY <1>a DEF MaskNext, MaskString
<1>c. ASSUME Panics(texts[i]), UNCHANGED <<texts, degraded>>,
             stage' = IF texts[i] \in Heavy THEN stage ELSE "dropped"
      PROVE  UnmarkedInv'
  BY <1>1, <1>a, <1>c, PanicUnmarked
<1>d. ASSUME UNCHANGED stage, NEW d \in Detections(texts[i], system),
             texts' = [texts EXCEPT ![i] = MaskLine(texts[i], d.seen).masked],
             degraded' = Flag(degraded, d)
      PROVE  UnmarkedInv'
  <2>1. /\ i \in DOMAIN texts /\ texts[i] \in Text /\ input \in Seq(Text)
        /\ DOMAIN texts = DOMAIN input /\ at \in Nat
        /\ texts \in Seq(Text)
    BY <1>1, <1>a, VisitsFacts DEF StringsOK
  <2>2. /\ d.seen \in SUBSET DOMAIN texts[i] /\ d.degraded \in BOOLEAN
        /\ ~d.degraded => d.seen = Complete(texts[i], system)
    BY DetectionsFacts
  <2> DEFINE m == MaskLine(texts[i], d.seen).masked
  <2>3. /\ m \in Text /\ DOMAIN m = DOMAIN texts[i]
        /\ \A p \in DOMAIN texts[i] : m[p] \in Value =>
              m[p] = texts[i][p] /\ (p \in d.seen => WrittenAsIs(texts[i][p]))
    BY <2>1, MaskLineType, SeenAreMasked
  <2> HIDE DEF m
  <2>4. /\ texts'[i] = m /\ DOMAIN texts' = DOMAIN texts
        /\ \A j \in DOMAIN texts : j # i => texts'[j] = texts[j]
        /\ texts' \in Seq(Text)
    BY <1>d, <2>1, <2>3 DEF m
  <2>5. StringsOK'
    BY <1>1, <2>4 DEF StringsOK
  <2>6. ~degraded' => ~degraded /\ ~d.degraded
    BY <1>d, <2>2 DEF Flag
  <2>7. MaskedBefore(at)' = MaskedBefore(at) \cup {i}
    BY <1>1, <1>a, OneMore
  <2>8. /\ \A j \in DOMAIN input \ MaskedBefore(at)' : texts'[j] = input[j]
        /\ \A j \in DOMAIN input : DOMAIN texts[j] = DOMAIN input[j]
        /\ \A j \in DOMAIN input : DOMAIN texts'[j] = DOMAIN input[j]
    <3>1. \A j \in DOMAIN input : DOMAIN texts[j] = DOMAIN input[j]
      BY <1>1 DEF LoopOK
    <3>2. QED
      BY <1>1, <2>1, <2>3, <2>4, <2>7, <3>1 DEF LoopOK
  <2>9. ASSUME ~degraded'
        PROVE  Covered(i)'
    <3>1. ~d.degraded /\ ~degraded /\ d.seen = Complete(texts[i], system)
      BY <2>2, <2>6, <2>9
    <3>2. SUFFICES ASSUME ~ Panicked(input[i]),
                          NEW p \in Complete(input[i], system), m[p] \in Value
                   PROVE  WrittenAsIs(input[i][p])
      BY <1>1, <2>4 DEF Covered
    <3>3. CASE i \in MaskedBefore(at)
      <4>1. Covered(i)
        BY <1>1, <3>1, <3>3 DEF LoopOK
      <4>2. p \in DOMAIN texts[i]
        BY <2>8, <3>2, CompletePositions
      <4>3. m[p] = texts[i][p]
        BY <2>3, <3>2, <4>2
      <4>4. QED
        BY <3>2, <4>1, <4>3 DEF Covered
    <3>4. CASE i \notin MaskedBefore(at)
      <4>1. texts[i] = input[i]
        BY <1>1, <2>1, <3>4 DEF LoopOK
      <4>2. QED
        BY <2>2, <2>3, <3>1, <3>2, <4>1
    <3>5. QED
      BY <3>3, <3>4
  <2>10. ~degraded' => \A j \in MaskedBefore(at)' : Covered(j)'
    <3> SUFFICES ASSUME ~degraded', NEW j \in MaskedBefore(at), j # i
                 PROVE  Covered(j)'
      BY <2>7, <2>9
    <3>1. Covered(j) /\ j \in DOMAIN texts
      BY <1>1, <2>1, <2>6, VisitsFacts DEF LoopOK, MaskedBefore
    <3>2. texts'[j] = texts[j]
      BY <2>4, <3>1
    <3>3. QED
      BY <1>1, <3>1, <3>2 DEF Covered
  <2>11. LoopOK'
    BY <1>1, <1>d, <2>8, <2>10 DEF LoopOK
  <2>12. UnmarkedMeansUndisturbed'
    BY <1>1, <2>6 DEF UnmarkedMeansUndisturbed, UndisturbedUnlessMarked, Visited
  <2>13. QED
    BY <2>5, <2>11, <2>12 DEF UnmarkedInv
<1>e. QED
  BY <1>b, <1>c, <1>d

(* For a policy that demands the engine nothing but the types is claimed.  *)
LEMMA MaskNextMustWork ==
    ASSUME UnmarkedInv, system \in NerMustWork, MaskNext
    PROVE  UnmarkedInv'
<1>1. /\ stage = "mask" /\ at \in DOMAIN route.visits /\ at' = at + 1
      /\ UNCHANGED <<system, route, input>> /\ stage' \in {stage, "dropped"}
      /\ StringsOK
  BY DEF MaskNext, UnmarkedInv, request
<1>2. PICK i \in DOMAIN input : i = route.visits[at]
  BY <1>1, VisitsFacts
<1>3. \/ UNCHANGED texts
      \/ \E d \in Detections(texts[i], system) :
            texts' = [texts EXCEPT ![i] = MaskLine(texts[i], d.seen).masked]
  BY <1>2 DEF MaskNext, MaskString
<1>4. /\ texts[i] \in Text /\ texts \in Seq(Text) /\ DOMAIN texts = DOMAIN input
      /\ at \in Nat \ {0}
  BY <1>1 DEF StringsOK
<1>5. \A seen : MaskLine(texts[i], seen).masked \in Text
  BY <1>4, MaskLineType
<1>6. texts' \in Seq(Text) /\ DOMAIN texts' = DOMAIN texts
  BY <1>3, <1>4, <1>5
<1>7. StringsOK'
  BY <1>1, <1>4, <1>6 DEF StringsOK
<1>8. LoopOK' /\ UnmarkedMeansUndisturbed'
  BY <1>1 DEF LoopOK, UnmarkedMeansUndisturbed
<1>9. QED
  BY <1>7, <1>8 DEF UnmarkedInv

(* Every step: the loop is entered at its start and left at its end, and   *)
(* what is sent is what the loop leaves.                                   *)
LEMMA NextUnmarked ==
    ASSUME UnmarkedInv, [Next]_vars
    PROVE  UnmarkedInv'
<1>i. /\ StringsOK /\ LoopOK /\ UnmarkedMeansUndisturbed
      /\ at \in Nat \ {0} /\ at + 1 \in Nat \ {0}
  BY DEF UnmarkedInv, StringsOK
<1>1. CASE Refuse
  BY <1>i, <1>1, OutsideUnmarked DEF Refuse, Answer, request
<1>2. CASE Dispatch
  <2>1. /\ UNCHANGED <<system, route, input, at, texts, degraded, sent>>
        /\ stage = "received" /\ stage' \in {"done", "send", "mask"}
        /\ stage' = "send" => route.action = "bypass"
    BY <1>2 DEF Dispatch, Answer, request
  <2>2. at = 1 /\ texts = input
    BY <1>i, <2>1 DEF LoopOK
  <2>3. MaskedBefore(1) = {}
    BY <1>i, VisitsFacts DEF MaskedBefore
  <2>4. MaskedBefore(at)' = {}
    BY <2>1, <2>2, <2>3 DEF MaskedBefore
  <2>5. StringsOK' /\ UnmarkedMeansUndisturbed'
    BY <1>i, <2>1, Frame DEF StringsOK, UnmarkedMeansUndisturbed, UndisturbedUnlessMarked
  <2>6. LoopOK'
    BY <2>1, <2>2, <2>4 DEF LoopOK
  <2>7. QED
    BY <2>5, <2>6 DEF UnmarkedInv
<1>3. CASE MaskNext
  BY <1>3, MaskNextUnmarked, MaskNextMustWork
<1>4. CASE BodyReady
  <2>1. /\ UNCHANGED <<system, route, input, at, texts, degraded, sent>>
        /\ stage = "mask" /\ stage' = "send" /\ at \notin DOMAIN route.visits
    BY <1>4 DEF BodyReady, request
  <2>2. Visited \subseteq MaskedBefore(at)
    <3>1. route.visits \in Seq(Nat) /\ at \in Nat \ {0}
      BY <1>i, VisitsFacts
    <3>2. \A l \in DOMAIN route.visits : l < at
      BY <2>1, <3>1
    <3>3. QED
      BY <3>2 DEF Visited, MaskedBefore
  <2>3. system \notin NerMustWork /\ ~degraded => \A i \in Visited : Covered(i)
    BY <1>i, <2>1, <2>2 DEF LoopOK
  <2>4. LoopOK'
    BY <2>1, <2>3, Frame DEF LoopOK
  <2>5. StringsOK' /\ UnmarkedMeansUndisturbed'
    BY <1>i, <2>1, Frame DEF StringsOK, UnmarkedMeansUndisturbed, UndisturbedUnlessMarked
  <2>6. QED
    BY <2>4, <2>5 DEF UnmarkedInv
<1>5. CASE SendFails
  BY <1>i, <1>5, OutsideUnmarked DEF SendFails, Answer, request
<1>6. CASE Send
  <2>1. /\ UNCHANGED <<system, route, input, at, texts, degraded>>
        /\ stage = "send" /\ stage' = "sent" /\ sent' = texts
    BY <1>6 DEF Send, request
  <2>2. system \notin NerMustWork /\ route.action = "mask" /\ ~degraded =>
           \A i \in Visited : Covered(i)
    BY <1>i, <2>1 DEF LoopOK
  <2>3. UnmarkedMeansUndisturbed'
    BY <2>1, <2>2, Frame DEF UnmarkedMeansUndisturbed, UndisturbedUnlessMarked, Covered
  <2>4. QED
    BY <1>i, <2>1, <2>3 DEF UnmarkedInv, StringsOK, LoopOK
<1>7. CASE UpstreamTimeout
  BY <1>i, <1>7, OutsideUnmarked DEF UpstreamTimeout, Answer, request
<1>8. CASE UpstreamReplies
  <2>1. /\ UNCHANGED <<system, route, input, texts, degraded, sent>>
        /\ at' = 1 /\ stage' \in {"restore", "done"}
    BY <1>8 DEF UpstreamReplies, Answer, request
  <2>2. QED
    BY <2>1, OutsideUnmarked
<1>9. CASE RestoreNext
  BY <1>i, <1>9, OutsideUnmarked DEF RestoreNext, request
<1>10. CASE Deliver
  BY <1>i, <1>10, OutsideUnmarked DEF Deliver, Answer, request
<1>11. CASE Stall
  BY <1>i, <1>11, OutsideUnmarked DEF Stall, request
<1>12. ASSUME UNCHANGED <<system, route, input, stage, at, texts, degraded, sent>>
       PROVE  UnmarkedInv'
  <2>1. MaskedBefore(at)' = MaskedBefore(at)
    BY <1>12 DEF MaskedBefore
  <2>2. LoopOK'
    BY <1>i, <1>12, <2>1, Frame DEF LoopOK
  <2>3. StringsOK' /\ UnmarkedMeansUndisturbed'
    BY <1>i, <1>12, Frame DEF StringsOK, UnmarkedMeansUndisturbed, UndisturbedUnlessMarked
  <2>4. QED
    BY <2>2, <2>3 DEF UnmarkedInv
<1>13. CASE Evict
  BY <1>12, <1>13 DEF Evict, request
<1>14. CASE UNCHANGED vars
  BY <1>12, <1>14 DEF vars, request
<1>15. QED
  BY <1>1, <1>2, <1>3, <1>4, <1>5, <1>6, <1>7, <1>8, <1>9, <1>10, <1>11, <1>13, <1>14
  DEF Next, Handler

(* Unless the policy of its system demands the engine, a response without  *)
(* x-pd-degraded means that no deadline and no failure of the engine took  *)
(* a value from what is looked for in a string, for every route, number of *)
(* strings and order of the visits, and whatever the environment does.     *)
(* What is looked for is Complete: it leaves out what the engine is not    *)
(* given, and strings whose mask panicked are excused by name.             *)
THEOREM ProxyUnmarkedMeansUndisturbed == Spec => []UnmarkedMeansUndisturbed
<1>1. Init => UnmarkedInv
  BY InitUnmarked
<1>2. UnmarkedInv /\ [Next]_vars => UnmarkedInv'
  BY NextUnmarked
<1>3. UnmarkedInv => UnmarkedMeansUndisturbed
  BY DEF UnmarkedInv
<1>4. QED
  BY <1>1, <1>2, <1>3, PTL DEF Spec

-----------------------------------------------------------------------------
(* What the session keeps: the mapping of the string masked last.          *)

\* No string is selected again after the last one was: what is masked twice
\* has the mapping of its mask in the vault, not of its text.
LastVisitedOnce ==
    \A x \in Route : \A k \in DOMAIN x.visits :
        x.visits[k] = x.visits[Len(x.visits)] => k = Len(x.visits)

Last == route.visits[Len(route.visits)]

\* What the vault may restore placeholders of the string i with.
MappingOf(i) ==
    \/ texts[i] = input[i]
    \/ \E seen :
          /\ texts[i] = MaskLine(input[i], seen).masked
          /\ entry.kept => entry = Keep(MaskLine(input[i], seen))

LastMasked ==
    \A i \in DOMAIN input : i = Last =>
        IF stage = "mask" /\ at <= Len(route.visits) THEN texts[i] = input[i]
        ELSE MappingOf(i)

SentOK ==
    /\ stage # "done" => status = "none"
    /\ stage \in {"sent", "restore"} \/ status = "ok" => sent = texts
    /\ entry.kept => /\ PolicyDemasks /\ Mode = "memory"
                     /\ \E o \in Text : \E seen :
                           entry = Keep(MaskLine(o, seen))

PlacesOK ==
    \A c \in DOMAIN cited : \A q \in DOMAIN cited[c] :
        cited[c][q] # <<0, 0>> => /\ cited[c][q][1] \in DOMAIN input
                                  /\ cited[c][q][2] \in DOMAIN sent[cited[c][q][1]]

AsCited(c) ==
    \A q \in DOMAIN cited[c] :
        cited[c][q] # <<0, 0>> => reply[c][q] = sent[cited[c][q][1]][cited[c][q][2]]
LastRestored(c) ==
    \A q \in DOMAIN cited[c] : IsCited(c, q) /\ FromLast(c, q) => reply[c][q] = Meant(c, q)

ReplyOK ==
    stage = "restore" \/ status = "ok" =>
        /\ reply \in Seq(Text) /\ DOMAIN cited = DOMAIN reply
        /\ \A c \in DOMAIN reply : DOMAIN cited[c] = DOMAIN reply[c]
        /\ PlacesOK
        /\ \A c \in DOMAIN reply : at <= c => AsCited(c)
        /\ entry.kept /\ (\A i \in DOMAIN input : Plain(input[i])) =>
              \A c \in DOMAIN reply : c < at => LastRestored(c)
        /\ status = "ok" /\ Restores => \A c \in DOMAIN reply : c < at

LastInv == UnmarkedInv /\ LastMasked /\ SentOK /\ ReplyOK

(* The step of demask that restores what was cited from the last string.   *)
LEMMA RestoresLast ==
    ASSUME LastInv, stage = "restore", entry.kept, SpellingsDiffer(Value),
           \A i \in DOMAIN input : Plain(input[i]),
           NEW c \in DOMAIN reply, AsCited(c),
           NEW q \in DOMAIN cited[c], IsCited(c, q), FromLast(c, q)
    PROVE  DemaskLine(reply[c], entry)[q] = Meant(c, q)
<1> DEFINE i == cited[c][q][1]
           p == cited[c][q][2]
<1>1. /\ i \in DOMAIN input /\ i = Last /\ p \in DOMAIN sent[i] /\ sent = texts
      /\ q \in DOMAIN reply[c] /\ reply[c][q] = sent[i][p] /\ reply[c] \in Text
      /\ sent[i][p] \in Placeholder
  BY DEF LastInv, SentOK, ReplyOK, PlacesOK, AsCited, IsCited, FromLast, Last
<1>2. input[i] \in Text /\ Plain(input[i])
  BY <1>1, VisitsFacts DEF LastInv, UnmarkedInv
<1>3. texts[i] # input[i]
  BY <1>1, <1>2, TokensDiffer DEF Plain
<1>4. PICK seen : /\ texts[i] = MaskLine(input[i], seen).masked
                  /\ entry = Keep(MaskLine(input[i], seen))
  BY <1>1, <1>3 DEF LastInv, LastMasked, MappingOf
<1>5. SpellingsDiffer(ValuesAt(input[i], seen))
  BY DEF SpellingsDiffer, ValuesAt, Hits
<1>6. p \in DOMAIN input[i]
  BY <1>1, <1>2, <1>4, MaskLineType
<1>7. DemaskLine(reply[c], MaskLine(input[i], seen))[q] = input[i][p]
  <2>1. /\ reply[c][q] = MaskLine(input[i], seen).masked[p]
        /\ reply[c][q] \in Placeholder
    BY <1>1, <1>4
  <2>2. /\ input[i] \in Text /\ Plain(input[i]) /\ SpellingsDiffer(ValuesAt(input[i], seen))
        /\ reply[c] \in Text /\ p \in DOMAIN input[i] /\ q \in DOMAIN reply[c]
    BY <1>1, <1>2, <1>5, <1>6
  <2> HIDE DEF i, p
  <2>3. QED
    BY <2>1, <2>2, CitedPlaceholderRestored, SMT
<1>8. entry.entries = MaskLine(input[i], seen).entries
  BY <1>4 DEF Keep
<1>9. QED
  BY <1>7, <1>8 DEF DemaskLine, Meant

LEMMA InitLast == Init => LastInv
<1> SUFFICES ASSUME Init PROVE LastInv
  OBVIOUS
<1>1. LastMasked
  BY DEF Init, LastMasked, MappingOf
<1>2. QED
  BY <1>1, InitUnmarked DEF Init, LastInv, SentOK, ReplyOK, NoEntry

(* The strings are masked one after the other.                             *)
LEMMA MaskNextLast ==
    ASSUME LastVisitedOnce, LastInv, MaskNext
    PROVE  LastMasked' /\ SentOK'
<1>1. /\ stage = "mask" /\ at \in DOMAIN route.visits /\ at' = at + 1
      /\ UNCHANGED <<system, route, input, sent, status>>
      /\ stage' \in {"mask", "dropped"} /\ status = "none"
      /\ StringsOK /\ SentOK /\ LastMasked
  BY DEF MaskNext, LastInv, UnmarkedInv, SentOK, request
<1> DEFINE k == route.visits[at]
           n == Len(route.visits)
<1>2. /\ k \in DOMAIN input /\ n \in Nat /\ at \in 1..n
      /\ input \in Seq(Text) /\ texts \in Seq(Text) /\ DOMAIN texts = DOMAIN input
  BY <1>1, VisitsFacts DEF StringsOK
<1>3. \/ UNCHANGED <<texts, entry>>
      \/ \E seen :
            /\ texts' = [texts EXCEPT ![k] = MaskLine(texts[k], seen).masked]
            /\ entry' = IF PolicyDemasks /\ Mode = "memory"
                        THEN Keep(MaskLine(texts[k], seen)) ELSE entry
            /\ UNCHANGED stage
  BY DEF MaskNext, MaskString
<1>4. SentOK'
  <2>1. texts[k] \in Text
    BY <1>2
  <2>2. CASE UNCHANGED <<texts, entry>>
    BY <1>1, <2>2 DEF SentOK, PolicyDemasks
  <2>3. ASSUME NEW seen,
               entry' = IF PolicyDemasks /\ Mode = "memory"
                        THEN Keep(MaskLine(texts[k], seen)) ELSE entry
        PROVE  SentOK'
    BY <1>1, <2>1, <2>3 DEF SentOK, PolicyDemasks
  <2>4. QED
    BY <1>3, <2>2, <2>3
<1>5. ASSUME NEW i \in DOMAIN input, i = Last, at < n
      PROVE  texts'[i] = input[i]
  <2>1. i # k /\ texts[i] = input[i]
    BY <1>1, <1>2, <1>5 DEF Last, LastMasked, LastVisitedOnce, StringsOK
  <2>2. QED
    BY <1>2, <1>3, <2>1
<1>6. ASSUME NEW i \in DOMAIN input, i = Last, at = n
      PROVE  MappingOf(i)'
  <2>1. i = k /\ texts[i] = input[i]
    BY <1>1, <1>2, <1>6 DEF Last, LastMasked
  <2>2. CASE UNCHANGED texts
    BY <1>1, <2>1, <2>2 DEF MappingOf
  <2>3. ASSUME NEW seen,
               texts' = [texts EXCEPT ![k] = MaskLine(texts[k], seen).masked],
               entry' = IF PolicyDemasks /\ Mode = "memory"
                        THEN Keep(MaskLine(texts[k], seen)) ELSE entry
        PROVE  MappingOf(i)'
    <3>1. texts'[i] = MaskLine(input[i], seen).masked
      BY <1>2, <2>1, <2>3
    <3>2. entry'.kept => entry' = Keep(MaskLine(input[i], seen))
      BY <1>1, <2>1, <2>3 DEF SentOK
    <3>3. QED
      BY <1>1, <3>1, <3>2 DEF MappingOf
  <2>4. QED
    BY <1>3, <2>2, <2>3
<1>7. LastMasked'
  <2> SUFFICES ASSUME NEW i \in DOMAIN input, i = Last
               PROVE  /\ at' <= n => texts'[i] = input[i]
                      /\ at' > n => MappingOf(i)'
    BY <1>1, <1>2 DEF LastMasked, Last, MappingOf
  <2>1. CASE at < n
    BY <1>1, <1>2, <1>5, <2>1
  <2>2. CASE at = n
    BY <1>1, <1>2, <1>6, <2>2
  <2>3. QED
    BY <1>2, <2>1, <2>2
<1>8. QED
  BY <1>4, <1>7

(* Outside the loop a mapping is at most lost.                             *)
LEMMA LastMaskedStays ==
    ASSUME LastMasked, UNCHANGED <<route, input, texts>>,
           stage = "received" => texts = input,
           stage' = "mask" => stage = "received" \/ UNCHANGED <<stage, at>>,
           entry' = entry \/ ~entry'.kept
    PROVE  LastMasked'
BY DEF LastMasked, MappingOf, Last

(* The model's answer, before anything is restored in it.                  *)
LEMMA RepliesLast ==
    ASSUME LastInv, UpstreamReplies
    PROVE  ReplyOK'
<1>1. /\ UNCHANGED <<system, route, input, texts, entry, sent>>
      /\ stage = "sent" /\ at' = 1 /\ StringsOK /\ SentOK
      /\ IF Restores THEN UNCHANGED status ELSE status' = "ok"
  BY DEF UpstreamReplies, Answer, request, LastInv, UnmarkedInv
<1>2. /\ sent = texts /\ texts \in Seq(Text) /\ DOMAIN sent = DOMAIN input
      /\ status = "none"
  BY <1>1 DEF SentOK, StringsOK
<1>3. PICK own \in OwnToken, n \in 0..MaxChoices :
        \E places \in [1..n -> UNION {[1..k -> Places] : k \in 0..MaxReply}] :
          /\ cited' = places
          /\ reply' = [c \in 1..n |-> [q \in DOMAIN places[c] |->
                IF places[c][q] = <<0, 0>> THEN own
                ELSE sent[places[c][q][1]][places[c][q][2]]]]
  BY DEF UpstreamReplies
<1>4. own \in Token /\ n \in Nat
  BY ProxyAssumption
<1>5. /\ DOMAIN cited' = 1..n /\ DOMAIN reply' = 1..n
      /\ \A c \in 1..n : /\ cited'[c] \in UNION {[1..k -> Places] : k \in 0..MaxReply}
                         /\ reply'[c] = [q \in DOMAIN cited'[c] |->
                               IF cited'[c][q] = <<0, 0>> THEN own
                               ELSE sent[cited'[c][q][1]][cited'[c][q][2]]]
  BY <1>3
<1>6. ASSUME NEW x \in Places, x # <<0, 0>>
      PROVE  x[1] \in DOMAIN input /\ x[2] \in DOMAIN sent[x[1]]
  BY <1>2, <1>6 DEF Places
<1>7. ASSUME NEW c \in 1..n
      PROVE  /\ reply'[c] \in Text /\ DOMAIN cited'[c] = DOMAIN reply'[c]
             /\ \A q \in DOMAIN cited'[c] : cited'[c][q] \in Places
  <2>1. PICK k \in 0..MaxReply : cited'[c] \in [1..k -> Places]
    BY <1>5
  <2>2. k \in Nat
    BY ProxyAssumption
  <2>3. DOMAIN cited'[c] = 1..k /\ \A q \in 1..k : cited'[c][q] \in Places
    BY <2>1
  <2>4. \A x \in Places : x # <<0, 0>> => sent[x[1]][x[2]] \in Token
    BY <1>2, <1>6 DEF Text
  <2>5. /\ DOMAIN reply'[c] = 1..k
        /\ \A q \in 1..k : reply'[c][q] \in Token
    BY <1>4, <1>5, <2>3, <2>4
  <2>6. reply'[c] = [q \in 1..k |-> reply'[c][q]]
    BY <1>5, <2>3
  <2>7. reply'[c] \in Text
    BY <2>2, <2>5, <2>6 DEF Text
  <2>8. QED
    BY <2>3, <2>5, <2>7
<1>8. reply' \in Seq(Text)
  <2>1. reply' = [c \in 1..n |-> reply'[c]]
    BY <1>3
  <2>2. QED
    BY <1>4, <1>7, <2>1
<1>9. PlacesOK'
  BY <1>1, <1>5, <1>6, <1>7 DEF PlacesOK
<1>10. \A c \in DOMAIN reply' : AsCited(c)'
  BY <1>1, <1>5 DEF AsCited
<1>11. status' = "ok" => ~Restores'
  BY <1>1, <1>2 DEF Restores
<1>12. \A c \in DOMAIN reply' : ~(c < at')
  BY <1>1, <1>4, <1>5
<1>13. QED
  BY <1>5, <1>7, <1>8, <1>9, <1>10, <1>11, <1>12 DEF ReplyOK

(* One string of the response is restored.                                 *)
LEMMA RestoreNextLast ==
    ASSUME SpellingsDiffer(Value), LastInv, RestoreNext
    PROVE  ReplyOK' /\ SentOK'
<1>1. /\ UNCHANGED <<system, route, input, stage, texts, sent, cited, status>>
      /\ stage = "restore" /\ at \in DOMAIN reply /\ at' = at + 1
      /\ SentOK /\ ReplyOK /\ status = "none"
  BY DEF RestoreNext, request, LastInv, SentOK
<1>2. /\ reply \in Seq(Text) /\ DOMAIN cited = DOMAIN reply
      /\ \A c \in DOMAIN reply : DOMAIN cited[c] = DOMAIN reply[c]
      /\ PlacesOK
      /\ \A c \in DOMAIN reply : at <= c => AsCited(c)
      /\ entry.kept /\ (\A i \in DOMAIN input : Plain(input[i])) =>
            \A c \in DOMAIN reply : c < at => LastRestored(c)
  BY <1>1 DEF ReplyOK
<1>3. /\ at \in Nat /\ \A c \in DOMAIN reply : c \in Nat
      /\ \A c \in DOMAIN reply : reply[c] \in Text
  BY <1>1, <1>2
<1> DEFINE new == DemaskLine(reply[at], entry)
<1>4. /\ entry' = entry \/ ~entry'.kept
      /\ \/ entry.kept /\ reply' = [reply EXCEPT ![at] = new]
         \/ ~entry'.kept /\ UNCHANGED reply
  BY <1>1 DEF RestoreNext, SentOK, NoEntry
<1>5. SentOK'
  BY <1>1, <1>4 DEF SentOK, PolicyDemasks
<1>6. entry.kept => new \in Text /\ DOMAIN new = DOMAIN reply[at]
  <2> SUFFICES ASSUME entry.kept PROVE new \in Text /\ DOMAIN new = DOMAIN reply[at]
    OBVIOUS
  <2>1. PICK o \in Text : \E seen : entry = Keep(MaskLine(o, seen))
    BY <1>1 DEF SentOK
  <2>2. PICK seen : entry = Keep(MaskLine(o, seen))
    BY <2>1
  <2>3. new = DemaskLine(reply[at], MaskLine(o, seen))
    BY <2>2 DEF Keep, DemaskLine
  <2>4. QED
    BY <1>1, <1>3, <2>3, DemaskLineType
<1>7. ASSUME entry.kept, \A i \in DOMAIN input : Plain(input[i]),
             NEW q \in DOMAIN cited[at], IsCited(at, q), FromLast(at, q)
      PROVE  new[q] = Meant(at, q)
  BY <1>1, <1>2, <1>3, <1>7, RestoresLast
<1> HIDE DEF new
<1>8. /\ reply' \in Seq(Text) /\ DOMAIN reply' = DOMAIN reply
      /\ \A c \in DOMAIN reply : DOMAIN reply'[c] = DOMAIN reply[c]
      /\ \A c \in DOMAIN reply : c # at => reply'[c] = reply[c]
      /\ entry'.kept => reply'[at] = new
  <2>1. CASE ~entry'.kept /\ UNCHANGED reply
    BY <1>2, <2>1
  <2>2. CASE entry.kept /\ reply' = [reply EXCEPT ![at] = new]
    BY <1>1, <1>2, <1>6, <2>2
  <2>3. QED
    BY <1>4, <2>1, <2>2
<1>9. PlacesOK'
  BY <1>1, <1>2 DEF PlacesOK
<1>10. ASSUME NEW c \in DOMAIN reply, at' <= c
       PROVE  AsCited(c)'
  <2>1. at <= c /\ c # at
    BY <1>1, <1>3, <1>10
  <2>2. QED
    BY <1>1, <1>2, <1>8, <2>1 DEF AsCited
<1>11. ASSUME entry'.kept, \A i \in DOMAIN input : Plain(input[i]),
              NEW c \in DOMAIN reply, c < at'
       PROVE  LastRestored(c)'
  <2>1. entry.kept
    BY <1>4, <1>11
  <2>2. CASE c = at
    BY <1>1, <1>7, <1>8, <1>11, <2>1, <2>2
       DEF LastRestored, IsCited, FromLast, Meant
  <2>3. CASE c # at
    <3>1. LastRestored(c)
      BY <1>1, <1>2, <1>3, <1>11, <2>1, <2>3
    <3>2. QED
      BY <1>1, <1>8, <2>3, <3>1 DEF LastRestored, IsCited, FromLast, Meant
  <2>4. QED
    BY <2>2, <2>3
<1>12. ReplyOK'
  BY <1>1, <1>2, <1>8, <1>9, <1>10, <1>11 DEF ReplyOK
<1>13. QED
  BY <1>5, <1>12

(* What the session promises is not touched by a step that changes neither *)
(* the strings of the response nor what they were cited from.              *)
LEMMA ReplyStays ==
    ASSUME ReplyOK, UNCHANGED <<system, route, input, at, sent, cited, reply>>,
           entry' = entry \/ ~entry'.kept,
           stage' = "restore" => stage = "restore",
           status' = "ok" =>
               status = "ok" \/ (stage = "restore" /\ \A c \in DOMAIN reply : c < at)
    PROVE  ReplyOK'
BY DEF ReplyOK, PlacesOK, AsCited, LastRestored, IsCited, FromLast, Meant, Restores

LEMMA NextLast ==
    ASSUME LastVisitedOnce, SpellingsDiffer(Value), LastInv, [Next]_vars
    PROVE  LastInv'
<1>i. /\ LastMasked /\ SentOK /\ ReplyOK /\ StringsOK /\ LoopOK
  BY DEF LastInv, UnmarkedInv
<1>u. UnmarkedInv'
  BY NextUnmarked DEF LastInv
<1> USE DEF request, Answer
<1>1. CASE Refuse \/ SendFails \/ UpstreamTimeout
  <2>1. /\ UNCHANGED <<system, route, input, at, texts, entry, sent, cited, reply>>
        /\ stage \notin {"mask", "done"} /\ stage' = "done" /\ status' # "ok"
    BY <1>1 DEF Refuse, SendFails, UpstreamTimeout, Refusals
  <2>2. LastMasked'
    BY <1>i, <2>1, LastMaskedStays DEF LoopOK
  <2>3. SentOK' /\ ReplyOK'
    BY <1>i, <2>1 DEF SentOK, PolicyDemasks, ReplyOK
  <2>4. QED
    BY <1>u, <2>2, <2>3 DEF LastInv
<1>2. CASE Dispatch
  <2>1. /\ UNCHANGED <<system, route, input, at, texts, entry, sent, cited, reply>>
        /\ stage = "received" /\ stage' \in {"done", "send", "mask"}
        /\ stage' # "done" => status' = status
        /\ status' # "ok" \/ status' = status
    BY <1>2 DEF Dispatch
  <2>2. LastMasked'
    BY <1>i, <2>1, LastMaskedStays DEF LoopOK
  <2>3. SentOK' /\ ReplyOK'
    BY <1>i, <2>1 DEF SentOK, PolicyDemasks, ReplyOK
  <2>4. QED
    BY <1>u, <2>2, <2>3 DEF LastInv
<1>3. CASE MaskNext
  <2>1. LastMasked' /\ SentOK'
    BY <1>3, MaskNextLast
  <2>2. stage' \in {"mask", "dropped"} /\ status' = status /\ status = "none"
    BY <1>i, <1>3 DEF MaskNext, SentOK
  <2>3. QED
    BY <1>u, <2>1, <2>2 DEF LastInv, ReplyOK
<1>4. CASE BodyReady
  <2>1. /\ UNCHANGED <<system, route, input, at, texts, entry, sent, cited, reply, status>>
        /\ stage = "mask" /\ stage' = "send"
    BY <1>4 DEF BodyReady
  <2>2. LastMasked'
    BY <1>i, <2>1, LastMaskedStays
  <2>3. SentOK' /\ ReplyOK'
    BY <1>i, <2>1 DEF SentOK, PolicyDemasks, ReplyOK
  <2>4. QED
    BY <1>u, <2>2, <2>3 DEF LastInv
<1>5. CASE Send
  <2>1. /\ UNCHANGED <<system, route, input, at, texts, entry, cited, reply, status>>
        /\ stage = "send" /\ stage' = "sent" /\ sent' = texts
    BY <1>5 DEF Send
  <2>2. LastMasked'
    BY <1>i, <2>1, LastMaskedStays
  <2>3. SentOK' /\ ReplyOK'
    BY <1>i, <2>1 DEF SentOK, PolicyDemasks, ReplyOK
  <2>4. QED
    BY <1>u, <2>2, <2>3 DEF LastInv
<1>6. CASE UpstreamReplies
  <2>1. /\ UNCHANGED <<system, route, input, texts, entry, sent>>
        /\ stage = "sent" /\ stage' \in {"restore", "done"}
        /\ stage' = "restore" => status' = status
    BY <1>6 DEF UpstreamReplies
  <2>2. LastMasked'
    BY <1>i, <2>1, LastMaskedStays
  <2>3. SentOK'
    BY <1>i, <2>1 DEF SentOK, PolicyDemasks
  <2>4. QED
    BY <1>6, <1>u, <2>2, <2>3, RepliesLast DEF LastInv
<1>7. CASE RestoreNext
  <2>1. /\ UNCHANGED <<route, input, texts, stage>> /\ stage = "restore"
        /\ entry' = entry \/ ~entry'.kept
    BY <1>7 DEF RestoreNext, NoEntry
  <2>2. LastMasked'
    BY <1>i, <2>1, LastMaskedStays
  <2>3. QED
    BY <1>7, <1>u, <2>2, RestoreNextLast DEF LastInv
<1>8. CASE Deliver
  <2>1. /\ UNCHANGED <<system, route, input, at, texts, entry, sent, cited, reply>>
        /\ stage = "restore" /\ stage' = "done" /\ at \notin DOMAIN reply
    BY <1>8 DEF Deliver
  <2>2. \A c \in DOMAIN reply : c < at
    BY <1>i, <2>1 DEF StringsOK, ReplyOK
  <2>3. LastMasked'
    BY <1>i, <2>1, LastMaskedStays
  <2>4. SentOK'
    BY <1>i, <2>1 DEF SentOK, PolicyDemasks
  <2>5. ReplyOK'
    BY <1>i, <2>1, <2>2, ReplyStays
  <2>6. QED
    BY <1>u, <2>3, <2>4, <2>5 DEF LastInv
<1>9. CASE Stall
  <2>1. /\ UNCHANGED <<system, route, input, at, texts, entry, sent, cited, reply, status>>
        /\ stage \in {"sent", "mask"} /\ stage' = "stalled"
    BY <1>9 DEF Stall
  <2>2. LastMasked'
    BY <1>i, <2>1, LastMaskedStays
  <2>3. SentOK' /\ ReplyOK'
    BY <1>i, <2>1 DEF SentOK, PolicyDemasks, ReplyOK
  <2>4. QED
    BY <1>u, <2>2, <2>3 DEF LastInv
<1>10. CASE Evict \/ UNCHANGED vars
  <2>1. /\ UNCHANGED <<system, route, input, stage, at, texts, sent, cited, reply, status>>
        /\ entry' = entry \/ ~entry'.kept
    BY <1>10 DEF Evict, NoEntry, vars
  <2>2. LastMasked'
    BY <1>i, <2>1, LastMaskedStays DEF LoopOK
  <2>3. SentOK'
    BY <1>i, <2>1 DEF SentOK, PolicyDemasks
  <2>4. ReplyOK'
    BY <1>i, <2>1, ReplyStays
  <2>5. QED
    BY <1>u, <2>2, <2>3, <2>4 DEF LastInv
<1>11. QED
  BY <1>1, <1>2, <1>3, <1>4, <1>5, <1>6, <1>7, <1>8, <1>9, <1>10 DEF Next, Handler

(* What the model cites from the string that was masked last is restored   *)
(* in every string of the response, for any number of strings, if no route *)
(* selects that string twice and no two values share a key.                *)
THEOREM ProxyLastTextRestored ==
    ASSUME LastVisitedOnce, SpellingsDiffer(Value)
    PROVE  Spec => []LastTextRestored
<1>1. Init => LastInv
  BY InitLast
<1>2. LastInv /\ [Next]_vars => LastInv'
  BY NextLast
<1>3. LastInv => LastTextRestored
  BY DEF LastInv, ReplyOK, LastTextRestored, Delivered, LastRestored
<1>4. QED
  BY <1>1, <1>2, <1>3, PTL DEF Spec
=============================================================================
