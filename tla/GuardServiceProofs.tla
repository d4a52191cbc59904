------------------------ MODULE GuardServiceProofs ------------------------
(***************************************************************************)
(* GuardService, proved for any number of systems, sessions and requests,  *)
(* any texts and any vault mode: the types, that no system receives a      *)
(* value another system sent, and that a context a client holds restores   *)
(* what it was made for; and, for one system whose entries stay in the     *)
(* vault, that the service implements SessionContract.                     *)
(***************************************************************************)
EXTENDS GuardContract, MaskingProofs

-----------------------------------------------------------------------------
(* The operators of GuardService.                                          *)

(* With changes a function at one argument, which it may add.              *)
LEMMA WithFacts ==
    ASSUME NEW f, NEW x, NEW value
    PROVE  /\ DOMAIN With(f, x, value) = DOMAIN f \cup {x}
           /\ With(f, x, value)[x] = value
           /\ \A y \in DOMAIN f : y # x => With(f, x, value)[y] = f[y]
BY DEF With

(* The mapping mask builds for a text.                                     *)
LEMMA MaskLineIsMapping ==
    ASSUME NEW t \in Text, NEW seen \in SUBSET DOMAIN t
    PROVE  IsMapping(MaskLine(t, seen)) /\ MaskLine(t, seen).masked \in Text
BY MaskLineType DEF IsMapping

(* A mapping that was sealed is a box that opens to it.                    *)
LEMMA SealIsBox ==
    ASSUME NEW y \in System, NEW s \in Session, NEW m, IsMapping(m)
    PROVE  /\ IsBox(Seal(y, s, m))
           /\ Seal(y, s, m).session = s /\ Seal(y, s, m).system = y
           /\ Seal(y, s, m).mapping = m
BY DEF IsBox, Seal

(* A mapping restores a text to a text; the values in it were in that text *)
(* or in the original.                                                     *)
LEMMA MappingRestores ==
    ASSUME NEW m, IsMapping(m), NEW t \in Text
    PROVE  /\ m.original \in Text /\ m.masked \in Text
           /\ ValuesIn(m.masked) \subseteq ValuesIn(m.original)
           /\ DemaskLine(t, m) \in Text
           /\ ValuesIn(DemaskLine(t, m)) \subseteq ValuesIn(t) \cup ValuesIn(m.original)
<1>1. PICK seen \in SUBSET DOMAIN m.original : m = MaskLine(m.original, seen)
  BY DEF IsMapping
<1> DEFINE o == m.original
<1>2. o \in Text
  BY DEF IsMapping
<1> HIDE DEF o
<1>3. m = MaskLine(o, seen)
  BY <1>1 DEF o
<1>4. /\ m.masked \in Text /\ ValuesIn(m.masked) \subseteq ValuesIn(o)
      /\ DemaskLine(t, m) \in Text
      /\ ValuesIn(DemaskLine(t, m)) \subseteq ValuesIn(t) \cup ValuesIn(o)
  BY <1>2, <1>3, MaskLineType, DemaskLineType
<1>5. QED
  BY <1>2, <1>4 DEF o

(* The answers the operations build.                                       *)
LEMMA OkFacts ==
    ASSUME NEW step, NEW text \in Text
    PROVE  /\ IsAnswer(Ok(step, text))
           /\ Ok(step, text).text = text /\ Ok(step, text).context = NoContext
BY DEF Ok, IsAnswer, IsContext

LEMMA ErrorFacts ==
    ASSUME NEW status \in {"unavailable", "timeout", "not_found", "internal", "closed"}
    PROVE  /\ IsAnswer(Error(status))
           /\ Error(status).text = <<>> /\ Error(status).context = NoContext
<1>1. <<>> \in Text
  BY DEF Text
<1>2. QED
  BY <1>1 DEF Error, Ok, IsAnswer, IsContext

LEMMA MaskedFacts ==
    ASSUME NEW c, NEW text \in Text, NEW degraded, NEW context, IsContext(context)
    PROVE  /\ IsAnswer(Masked(c, text, degraded, context))
           /\ Masked(c, text, degraded, context).text = text
           /\ Masked(c, text, degraded, context).context \in {NoContext, context}
<1>1. CASE c.op = "tz"
  BY <1>1, OkFacts DEF Masked
<1>2. CASE c.op # "tz"
  BY <1>2 DEF Masked, Ok, IsAnswer, IsContext
<1>3. QED
  BY <1>1, <1>2

(* The answer to a payload under a known id: the mask, the original, or    *)
(* the payload restored.                                                   *)
LEMMA TzAnswerFacts ==
    ASSUME NEW m, IsMapping(m), NEW t \in Text
    PROVE  /\ IsAnswer(TzAnswer(t, m)) /\ TzAnswer(t, m).context = NoContext
           /\ ValuesIn(TzAnswer(t, m).text) \subseteq ValuesIn(t) \cup ValuesIn(m.original)
<1>1. /\ m.original \in Text /\ m.masked \in Text /\ DemaskLine(t, m) \in Text
      /\ ValuesIn(m.masked) \subseteq ValuesIn(m.original)
      /\ ValuesIn(DemaskLine(t, m)) \subseteq ValuesIn(t) \cup ValuesIn(m.original)
  BY MappingRestores
<1>2. CASE t = m.original
  BY <1>1, <1>2, OkFacts DEF TzAnswer
<1>3. CASE t # m.original /\ t = m.masked
  BY <1>1, <1>3, OkFacts DEF TzAnswer
<1>4. CASE t # m.original /\ t # m.masked
  BY <1>1, <1>4, OkFacts DEF TzAnswer
<1>5. QED
  BY <1>2, <1>3, <1>4

(* Every detection reports positions of the text.                          *)
LEMMA DetectionsType ==
    ASSUME NEW t, NEW y, NEW d \in Detections(t, y)
    PROVE  d.seen \in SUBSET DOMAIN t
<1>1. \A k : Detected(t, y, k) \in SUBSET DOMAIN t
  BY DEF Detected, Reported
<1>2. Complete(t, y) \in SUBSET DOMAIN t
  BY <1>1 DEF Complete, ByDetectors, ByEngine, Reported
<1>3. /\ \A seen \in Undisturbed(t, y) : seen \in SUBSET DOMAIN t
      /\ \A seen \in Cuts(t, y) : seen \in SUBSET DOMAIN t
  BY <1>1, <1>2 DEF Undisturbed, Cuts
<1>4. \/ d = Found({}, FALSE, FALSE)
      \/ d \in {Found(seen, FALSE, FALSE) : seen \in Undisturbed(t, y)}
      \/ d = Found(ByDetectors(t, y), TRUE, TRUE)
      \/ d \in {Found(seen, TRUE, FALSE) : seen \in Cuts(t, y)}
  BY Zenon DEF Detections
<1>5. QED
  BY <1>1, <1>3, <1>4 DEF Found, ByDetectors

(* How a mask may end: a dry run, a refusal, or a mapping.                 *)
LEMMA MaskTextCases ==
    ASSUME NEW r, MaskText(r)
    PROVE  LET c == call[r]
           IN /\ pc[r] = "mask" /\ UNCHANGED <<vault, call>>
              /\ \/ /\ c.op = "dry_run" /\ UNCHANGED draft
                    /\ \E degraded : Finish(r, Masked(c, c.payload, degraded, NoContext))
                 \/ /\ UNCHANGED draft
                    /\ \E status \in {"unavailable", "closed"} : Finish(r, Error(status))
                 \/ \E d \in Detections(c.payload, c.system) :
                       KeepMapping(r, c, MaskLine(c.payload, d.seen), d.degraded)
<1> DEFINE c == call[r]
<1>1. /\ pc[r] = "mask" /\ UNCHANGED <<vault, call>>
      /\ \/ \E d \in Detections(c.payload, c.system) : MaskDetected(r, c, d)
         \/ /\ UNCHANGED draft
            /\ Finish(r, Error(IF c.payload \in Heavy THEN "unavailable" ELSE "closed"))
  BY DEF MaskText
<1>2. CASE /\ UNCHANGED draft
           /\ Finish(r, Error(IF c.payload \in Heavy THEN "unavailable" ELSE "closed"))
  <2>1. CASE c.payload \in Heavy
    BY <1>1, <1>2, <2>1
  <2>2. CASE c.payload \notin Heavy
    BY <1>1, <1>2, <2>2
  <2>3. QED
    BY <2>1, <2>2
<1>3. ASSUME NEW d \in Detections(c.payload, c.system), MaskDetected(r, c, d)
      PROVE  \/ /\ c.op = "dry_run" /\ UNCHANGED draft
                /\ Finish(r, Masked(c, c.payload, d.degraded, NoContext))
             \/ Finish(r, Error("unavailable")) /\ UNCHANGED draft
             \/ KeepMapping(r, c, MaskLine(c.payload, d.seen), d.degraded)
  BY <1>3 DEF MaskDetected
<1>4. QED
  BY <1>1, <1>2, <1>3

-----------------------------------------------------------------------------
(* Types.                                                                  *)

(* A request that is answered.                                             *)
LEMMA FinishType ==
    ASSUME ControlOK, AnswersOK, NEW r \in Request, NEW response,
           pc[r] \notin {"idle", "done"}, IsAnswer(response),
           Finish(r, response), UNCHANGED call
    PROVE  /\ ControlOK' /\ AnswersOK'
           /\ \A q \in Request : pc'[q] = IF q = r THEN "done" ELSE pc[q]
           /\ DOMAIN answer' = DOMAIN answer \cup {r}
           /\ answer'[r] = response
           /\ \A q \in DOMAIN answer : answer'[q] = answer[q]
<1>1. r \notin DOMAIN answer
  BY DEF ControlOK
<1>2. /\ DOMAIN answer' = DOMAIN answer \cup {r} /\ answer'[r] = response
      /\ \A q \in DOMAIN answer : answer'[q] = answer[q]
  BY <1>1 DEF Finish, With
<1>3. /\ pc' \in [Request -> {"idle", "lookup", "mask", "put", "open", "delete", "done"}]
      /\ \A q \in Request : pc'[q] = IF q = r THEN "done" ELSE pc[q]
  BY DEF Finish, ControlOK
<1>4. ControlOK'
  BY <1>2, <1>3 DEF ControlOK
<1>5. AnswersOK'
  BY <1>2 DEF AnswersOK
<1>6. QED
  BY <1>2, <1>3, <1>4, <1>5

(* A request that goes on to step x, with a mapping where x needs one.     *)
LEMMA GoOnType ==
    ASSUME ControlOK, NEW r \in Request, pc[r] \notin {"idle", "done"},
           NEW x \in {"mask", "put", "delete"}, pc' = [pc EXCEPT ![r] = x],
           UNCHANGED <<call, answer>>
    PROVE  /\ ControlOK'
           /\ \A q \in Request : pc'[q] = IF q = r THEN x ELSE pc[q]
BY DEF ControlOK

LEMMA InitTypeOK == Init => TypeOK
<1> SUFFICES ASSUME Init PROVE TypeOK
  OBVIOUS
<1>1. DOMAIN vault = {} /\ DOMAIN call = {} /\ DOMAIN answer = {}
  BY DEF Init
<1>2. QED
  BY <1>1 DEF Init, TypeOK, VaultOK, CallsOK, ControlOK, DraftsOK, AnswersOK

(* What a client sends is a text, if what it received is.                  *)
LEMMA PayloadType ==
    ASSUME TypeOK, NEW y \in System, NEW s \in Session, NEW t \in Payloads(y, s)
    PROVE  t \in Text
<1>1. CASE t \in Inputs[<<y, s>>]
  BY <1>1, ServiceAssumption
<1>2. ASSUME NEW r \in Answered(y, s), t \in Rewrites(answer[r].text)
      PROVE  t \in Text
  <2> DEFINE u == answer[r].text
  <2>1. u \in Text
    BY DEF Answered, TypeOK, AnswersOK, IsAnswer
  <2> HIDE DEF u
  <2>2. t = u \/ t = [p \in DOMAIN u |-> u[Len(u) + 1 - p]]
    BY <1>2 DEF Rewrites, u
  <2>3. \A p \in DOMAIN u : u[Len(u) + 1 - p] \in Token
    BY <2>1 DEF Text
  <2>4. QED
    BY <2>1, <2>2, <2>3, SamePositionsText
<1>3. QED
  BY <1>1, <1>2 DEF Payloads

LEMMA ReceiveTypeOK ==
    ASSUME TypeOK, NEW r \in Request, Receive(r)
    PROVE  TypeOK'
<1>. PICK op \in Ops, y \in System, s \in Session :
          \E t \in Payloads(y, s), c \in IF op = "demask" THEN Contexts ELSE {NoContext} :
             /\ call' = With(call, r, [op |-> op, system |-> y, session |-> s,
                                      payload |-> t, context |-> c])
             /\ pc' = [pc EXCEPT ![r] = FirstStep(op, y)]
  BY DEF Receive
<1>1. PICK t \in Payloads(y, s), c \in Contexts \cup {NoContext} :
             /\ call' = With(call, r, [op |-> op, system |-> y, session |-> s,
                                      payload |-> t, context |-> c])
             /\ pc' = [pc EXCEPT ![r] = FirstStep(op, y)]
  OBVIOUS
<1>2. t \in Text /\ IsContext(c)
  BY PayloadType DEF Contexts, TypeOK, AnswersOK, IsAnswer, IsContext
<1>3. FirstStep(op, y) \in {"lookup", "mask", "open"}
  BY DEF FirstStep
<1>4. pc[r] = "idle" /\ r \notin DOMAIN call /\ UNCHANGED <<vault, draft, answer>>
  BY DEF Receive, TypeOK, ControlOK
<1>5. /\ DOMAIN call' = DOMAIN call \cup {r} /\ IsCall(call'[r])
      /\ \A q \in DOMAIN call : call'[q] = call[q]
  BY <1>1, <1>2, <1>4 DEF IsCall, With
<1>6. CallsOK'
  BY <1>5 DEF CallsOK, TypeOK
<1>7. ControlOK'
  <2>1. /\ pc \in [Request -> {"idle", "lookup", "mask", "put", "open", "delete", "done"}]
        /\ pc' = [pc EXCEPT ![r] = FirstStep(op, y)]
    BY <1>1 DEF ControlOK, TypeOK
  <2>2. pc' \in [Request -> {"idle", "lookup", "mask", "put", "open", "delete", "done"}]
    BY <2>1, <1>3
  <2>3. DOMAIN call' = {q \in Request : pc'[q] # "idle"}
    BY <2>1, <1>3, <1>5 DEF ControlOK, TypeOK
  <2>4. DOMAIN answer' = {q \in Request : pc'[q] = "done"}
    BY <2>1, <1>3, <1>4 DEF ControlOK, TypeOK
  <2>5. QED
    BY <2>2, <2>3, <2>4 DEF ControlOK
<1>8. DraftsOK' /\ VaultOK' /\ AnswersOK'
  <2>1. VaultOK' /\ AnswersOK'
    BY <1>4 DEF VaultOK, AnswersOK, TypeOK
  <2>2. DraftsOK'
    BY <1>1, <1>3, <1>4 DEF DraftsOK, ControlOK, TypeOK
  <2>3. QED
    BY <2>1, <2>2
<1>9. QED
  BY <1>6, <1>7, <1>8 DEF TypeOK

LEMMA LookupTypeOK ==
    ASSUME TypeOK, NEW r \in Request, Lookup(r)
    PROVE  TypeOK'
<1> DEFINE c == call[r]
           hit == c.session \in DOMAIN vault /\ Opens(vault[c.session], c.system, c.session)
<1>1. /\ pc[r] = "lookup" /\ r \in DOMAIN call /\ IsCall(c)
      /\ UNCHANGED <<vault, call, draft>>
  BY DEF Lookup, TypeOK, ControlOK, CallsOK
<1>2. CASE hit
  <2>1. Finish(r, TzAnswer(c.payload, vault[c.session].mapping))
    BY <1>2 DEF Lookup
  <2>2. IsMapping(vault[c.session].mapping) /\ c.payload \in Text
    BY <1>1, <1>2 DEF TypeOK, VaultOK, IsBox, IsCall
  <2>3. IsAnswer(TzAnswer(c.payload, vault[c.session].mapping))
    BY <2>2, TzAnswerFacts
  <2>4. ControlOK' /\ AnswersOK' /\ \A q \in Request : pc'[q] \in {"done", pc[q]}
    BY <1>1, <2>1, <2>3, FinishType DEF TypeOK
  <2>5. QED
    BY <1>1, <2>4 DEF TypeOK, VaultOK, CallsOK, DraftsOK
<1>3. CASE ~hit
  <2>1. pc' = [pc EXCEPT ![r] = "mask"] /\ UNCHANGED answer
    BY <1>3 DEF Lookup
  <2>2. ControlOK' /\ \A q \in Request : pc'[q] \in {"mask", pc[q]}
    BY <1>1, <2>1, GoOnType DEF TypeOK
  <2>3. QED
    BY <1>1, <2>1, <2>2 DEF TypeOK, VaultOK, CallsOK, DraftsOK, AnswersOK
<1>4. QED
  BY <1>2, <1>3

(* The branches of mask once the mapping m is built.                       *)
LEMMA KeepMappingTypeOK ==
    ASSUME TypeOK, NEW r \in Request, pc[r] = "mask", UNCHANGED <<vault, call>>,
           NEW m, IsMapping(m), m.masked \in Text, NEW degraded,
           KeepMapping(r, call[r], m, degraded)
    PROVE  TypeOK'
<1> DEFINE c == call[r]
<1>1. c.system \in System /\ c.session \in Session
  BY DEF TypeOK, ControlOK, CallsOK, IsCall
<1>2. ASSUME NEW context, IsContext(context),
             Finish(r, Masked(c, m.masked, degraded, context)), UNCHANGED draft
      PROVE  TypeOK'
  <2>1. IsAnswer(Masked(c, m.masked, degraded, context))
    BY <1>2, MaskedFacts
  <2>2. ControlOK' /\ AnswersOK' /\ \A q \in Request : pc'[q] \in {"done", pc[q]}
    BY <1>2, <2>1, FinishType DEF TypeOK
  <2>3. QED
    BY <1>2, <2>2 DEF TypeOK, VaultOK, CallsOK, DraftsOK
<1>3. IsContext(NoContext) /\ IsContext(Seal(c.system, c.session, m))
  BY <1>1, SealIsBox DEF IsContext
<1>4. CASE /\ draft' = [draft EXCEPT ![r] = [mapping |-> m, degraded |-> degraded]]
           /\ pc' = [pc EXCEPT ![r] = "put"]
           /\ UNCHANGED answer
  <2>1. ControlOK' /\ \A q \in Request : pc'[q] = IF q = r THEN "put" ELSE pc[q]
    BY <1>4, GoOnType DEF TypeOK
  <2>2. /\ DOMAIN draft' = Request /\ draft'[r].mapping = m
        /\ \A q \in Request : q # r => draft'[q] = draft[q]
    BY <1>4 DEF TypeOK, DraftsOK
  <2>3. DraftsOK'
    BY <2>1, <2>2 DEF TypeOK, DraftsOK
  <2>4. QED
    BY <1>4, <2>1, <2>3 DEF TypeOK, VaultOK, CallsOK, AnswersOK
<1>5. QED
  BY <1>2, <1>3, <1>4 DEF KeepMapping

LEMMA MaskTextTypeOK ==
    ASSUME TypeOK, NEW r \in Request, MaskText(r)
    PROVE  TypeOK'
<1> DEFINE c == call[r]
<1>1. /\ pc[r] = "mask" /\ UNCHANGED <<vault, call>> /\ c.payload \in Text
  BY DEF MaskText, TypeOK, ControlOK, CallsOK, IsCall
<1>2. ASSUME NEW response, IsAnswer(response), Finish(r, response), UNCHANGED draft
      PROVE  TypeOK'
  <2>1. ControlOK' /\ AnswersOK' /\ \A q \in Request : pc'[q] \in {"done", pc[q]}
    BY <1>1, <1>2, FinishType DEF TypeOK
  <2>2. QED
    BY <1>1, <1>2, <2>1 DEF TypeOK, VaultOK, CallsOK, DraftsOK
<1>3. \/ /\ UNCHANGED draft
         /\ \E degraded : Finish(r, Masked(c, c.payload, degraded, NoContext))
      \/ /\ UNCHANGED draft
         /\ \E status \in {"unavailable", "closed"} : Finish(r, Error(status))
      \/ \E d \in Detections(c.payload, c.system) :
            KeepMapping(r, c, MaskLine(c.payload, d.seen), d.degraded)
  BY MaskTextCases
<1>4. ASSUME UNCHANGED draft,
             NEW degraded, Finish(r, Masked(c, c.payload, degraded, NoContext))
      PROVE  TypeOK'
  BY <1>1, <1>2, <1>4, MaskedFacts DEF IsContext
<1>5. ASSUME UNCHANGED draft,
             NEW status \in {"unavailable", "closed"}, Finish(r, Error(status))
      PROVE  TypeOK'
  BY <1>2, <1>5, ErrorFacts
<1>6. ASSUME NEW d \in Detections(c.payload, c.system),
             KeepMapping(r, c, MaskLine(c.payload, d.seen), d.degraded)
      PROVE  TypeOK'
  <2>1. d.seen \in SUBSET DOMAIN c.payload
    BY DetectionsType
  <2>2. QED
    BY <1>1, <1>6, <2>1, MaskLineIsMapping, KeepMappingTypeOK
<1>7. QED
  BY <1>3, <1>4, <1>5, <1>6

LEMMA PutTypeOK ==
    ASSUME TypeOK, NEW r \in Request, Put(r)
    PROVE  TypeOK'
<1> DEFINE c == call[r]
           d == draft[r]
           box == Seal(c.system, c.session, d.mapping)
<1>1. /\ pc[r] = "put" /\ UNCHANGED <<call, draft>>
      /\ vault' = With(vault, c.session, box)
      /\ Finish(r, Masked(c, d.mapping.masked, d.degraded, NoContext))
  BY DEF Put
<1>2. /\ IsMapping(d.mapping) /\ c.system \in System /\ c.session \in Session
  BY <1>1 DEF TypeOK, DraftsOK, ControlOK, CallsOK, IsCall
<1>3. /\ IsBox(box) /\ box.session = c.session
  BY <1>2, SealIsBox
<1> HIDE DEF box
<1>4. VaultOK'
  BY <1>1, <1>2, <1>3 DEF TypeOK, VaultOK, With
<1>5. d.mapping.masked \in Text /\ IsContext(NoContext)
  BY <1>2, MappingRestores DEF IsContext, IsMapping
<1>6. IsAnswer(Masked(c, d.mapping.masked, d.degraded, NoContext))
  BY <1>5, MaskedFacts
<1>7. ControlOK' /\ AnswersOK' /\ \A q \in Request : pc'[q] \in {"done", pc[q]}
  BY <1>1, <1>6, FinishType DEF TypeOK
<1>8. QED
  BY <1>1, <1>4, <1>7 DEF TypeOK, CallsOK, DraftsOK

LEMMA TimeoutTypeOK ==
    ASSUME TypeOK, NEW r \in Request, Timeout(r)
    PROVE  TypeOK'
<1>1. pc[r] = "mask" /\ Finish(r, Error("timeout")) /\ UNCHANGED <<vault, call, draft>>
  BY DEF Timeout
<1>2. ControlOK' /\ AnswersOK' /\ \A q \in Request : pc'[q] \in {"done", pc[q]}
  BY <1>1, ErrorFacts, FinishType DEF TypeOK
<1>3. QED
  BY <1>1, <1>2 DEF TypeOK, VaultOK, CallsOK, DraftsOK

(* What demask opens is no context or a box.                               *)
LEMMA BoxType ==
    ASSUME TypeOK, NEW r \in DOMAIN call
    PROVE  IsContext(Box(call[r]))
BY DEF TypeOK, VaultOK, CallsOK, IsCall, Box, IsContext

LEMMA OpenTypeOK ==
    ASSUME TypeOK, NEW r \in Request, Open(r)
    PROVE  TypeOK'
<1> DEFINE c == call[r]
           box == Box(c)
<1>1. /\ pc[r] = "open" /\ r \in DOMAIN call /\ IsCall(c)
      /\ UNCHANGED <<vault, call>>
  BY DEF Open, TypeOK, ControlOK, CallsOK
<1>2. ASSUME NEW response, IsAnswer(response), Finish(r, response),
             draft' = draft \/ draft' = [draft EXCEPT ![r] = [mapping |-> box.mapping, degraded |-> FALSE]]
      PROVE  TypeOK'
  <2>1. ControlOK' /\ AnswersOK' /\ \A q \in Request : pc'[q] = IF q = r THEN "done" ELSE pc[q]
    BY <1>1, <1>2, FinishType DEF TypeOK
  <2>2. DOMAIN draft' = Request /\ \A q \in Request : q # r => draft'[q] = draft[q]
    BY <1>2 DEF TypeOK, DraftsOK
  <2>3. QED
    BY <1>1, <2>1, <2>2 DEF TypeOK, VaultOK, CallsOK, DraftsOK
<1>3. CASE Finish(r, Error("not_found")) /\ UNCHANGED draft
  BY <1>2, <1>3, ErrorFacts
<1>4. CASE Finish(r, Error("internal")) /\ UNCHANGED draft
  BY <1>2, <1>4, ErrorFacts
<1>5. CASE /\ box.sealed
           /\ draft' = [draft EXCEPT ![r] = [mapping |-> box.mapping, degraded |-> FALSE]]
           /\ \/ pc' = [pc EXCEPT ![r] = "delete"] /\ UNCHANGED answer
              \/ Finish(r, Ok("demask", DemaskLine(c.payload, box.mapping)))
  <2>1. IsMapping(box.mapping) /\ c.payload \in Text
    BY <1>1, <1>5, BoxType DEF IsContext, IsBox, NoContext, IsCall
  <2>2. CASE Finish(r, Ok("demask", DemaskLine(c.payload, box.mapping)))
    <3>1. DemaskLine(c.payload, box.mapping) \in Text
      BY <2>1, MappingRestores
    <3>2. IsAnswer(Ok("demask", DemaskLine(c.payload, box.mapping)))
      BY <3>1, OkFacts
    <3>3. QED
      BY <1>2, <1>5, <2>2, <3>2
  <2>3. CASE pc' = [pc EXCEPT ![r] = "delete"] /\ UNCHANGED answer
    <3>1. ControlOK' /\ \A q \in Request : pc'[q] = IF q = r THEN "delete" ELSE pc[q]
      BY <1>1, <2>3, GoOnType DEF TypeOK
    <3>2. /\ DOMAIN draft' = Request /\ draft'[r].mapping = box.mapping
          /\ \A q \in Request : q # r => draft'[q] = draft[q]
      BY <1>5 DEF TypeOK, DraftsOK
    <3>3. DraftsOK'
      BY <2>1, <3>1, <3>2 DEF TypeOK, DraftsOK
    <3>4. QED
      BY <1>1, <2>3, <3>1, <3>3 DEF TypeOK, VaultOK, CallsOK, AnswersOK
  <2>4. QED
    BY <1>5, <2>2, <2>3
<1>6. QED
  BY <1>3, <1>4, <1>5 DEF Open

LEMMA DeleteTypeOK ==
    ASSUME TypeOK, NEW r \in Request, Delete(r)
    PROVE  TypeOK'
<1>1. /\ pc[r] = "delete" /\ UNCHANGED <<call, draft>>
      /\ vault' = [s \in DOMAIN vault \ {call[r].session} |-> vault[s]]
      /\ Finish(r, Ok("demask", DemaskLine(call[r].payload, draft[r].mapping)))
  BY DEF Delete
<1>2. IsMapping(draft[r].mapping) /\ call[r].payload \in Text
  BY <1>1 DEF TypeOK, DraftsOK, ControlOK, CallsOK, IsCall
<1>3. IsAnswer(Ok("demask", DemaskLine(call[r].payload, draft[r].mapping)))
  BY <1>2, MappingRestores, OkFacts
<1>4. ControlOK' /\ AnswersOK' /\ \A q \in Request : pc'[q] \in {"done", pc[q]}
  BY <1>1, <1>3, FinishType DEF TypeOK
<1>5. VaultOK'
  BY <1>1 DEF TypeOK, VaultOK
<1>6. QED
  BY <1>1, <1>4, <1>5 DEF TypeOK, CallsOK, DraftsOK

LEMMA EvictTypeOK ==
    ASSUME TypeOK, NEW s \in Session, Evict(s)
    PROVE  TypeOK'
<1>1. VaultOK'
  BY DEF Evict, TypeOK, VaultOK
<1>2. QED
  BY <1>1 DEF Evict, TypeOK, CallsOK, ControlOK, DraftsOK, AnswersOK

LEMMA NextTypeOK == TypeOK /\ [Next]_vars => TypeOK'
<1> SUFFICES ASSUME TypeOK, [Next]_vars PROVE TypeOK'
  OBVIOUS
<1>1. ASSUME NEW r \in Request,
             \/ Receive(r) \/ Lookup(r) \/ MaskText(r) \/ Put(r)
             \/ Timeout(r) \/ Open(r) \/ Delete(r)
      PROVE  TypeOK'
  BY <1>1, ReceiveTypeOK, LookupTypeOK, MaskTextTypeOK, PutTypeOK,
     TimeoutTypeOK, OpenTypeOK, DeleteTypeOK
<1>2. ASSUME NEW s \in Session, Evict(s)
      PROVE  TypeOK'
  BY <1>2, EvictTypeOK
<1>3. CASE UNCHANGED vars
  BY <1>3 DEF vars, TypeOK, VaultOK, CallsOK, ControlOK, DraftsOK, AnswersOK
<1>4. QED
  BY <1>1, <1>2, <1>3 DEF Next

(* Whatever is asked, overlaps, fails, is late or is evicted, the vault,   *)
(* the drafts, the contexts and the answers hold mappings that mask_line   *)
(* made and texts.                                                         *)
THEOREM GuardTypeCorrect == Spec => []TypeOK
<1>1. QED
  BY InitTypeOK, NextTypeOK, PTL DEF Spec

-----------------------------------------------------------------------------
(* Tenant isolation.  It is not inductive: it needs that every mapping,    *)
(* wherever it is kept, holds only values shown by the system it is sealed *)
(* for.                                                                    *)

Owned(m, y) == ValuesIn(m.original) \subseteq ShownBy(y)
ContextOwned(c) == c = NoContext \/ Owned(c.mapping, c.system)

VaultOwned == \A s \in DOMAIN vault : Owned(vault[s].mapping, vault[s].system)
CallsOwned == \A r \in DOMAIN call : ContextOwned(call[r].context)
DraftsOwned == \A r \in Request :
    pc[r] \in {"put", "delete"} => Owned(draft[r].mapping, call[r].system)
AnswersOwned == \A r \in DOMAIN answer : ContextOwned(answer[r].context)

IInv == /\ TypeOK /\ TenantIsolation
        /\ VaultOwned /\ CallsOwned /\ DraftsOwned /\ AnswersOwned

(* What a system has sent it has shown.                                    *)
LEMMA PayloadShown ==
    ASSUME NEW r \in DOMAIN call
    PROVE  ValuesIn(call[r].payload) \subseteq ShownBy(call[r].system)
BY DEF ShownBy

(* An answer that shows its system nothing new, with a context it owns.    *)
LEMMA FinishOwned ==
    ASSUME IInv, NEW r \in Request, NEW response,
           pc[r] \notin {"idle", "done"}, IsAnswer(response),
           Finish(r, response), UNCHANGED call,
           ValuesIn(response.text) \subseteq ShownBy(call[r].system),
           ContextOwned(response.context)
    PROVE  /\ TenantIsolation' /\ CallsOwned' /\ AnswersOwned'
           /\ \A q \in Request : pc'[q] = IF q = r THEN "done" ELSE pc[q]
           /\ \A y : ShownBy(y)' = ShownBy(y)
<1>1. /\ DOMAIN answer' = DOMAIN answer \cup {r} /\ answer'[r] = response
      /\ \A q \in DOMAIN answer : answer'[q] = answer[q]
      /\ \A q \in Request : pc'[q] = IF q = r THEN "done" ELSE pc[q]
  BY FinishType DEF IInv, TypeOK
<1>2. \A y : ShownBy(y)' = ShownBy(y)
  BY DEF ShownBy
<1>3. TenantIsolation'
  BY <1>1, <1>2 DEF IInv, TenantIsolation
<1>4. CallsOwned'
  BY <1>2 DEF IInv, CallsOwned, ContextOwned, Owned
<1>5. AnswersOwned'
  BY <1>1, <1>2 DEF IInv, AnswersOwned, ContextOwned, Owned
<1>6. QED
  BY <1>1, <1>2, <1>3, <1>4, <1>5

LEMMA ReceiveOwned ==
    ASSUME IInv, NEW r \in Request, Receive(r)
    PROVE  IInv'
<1>. PICK op \in Ops, y \in System, s \in Session :
          \E t \in Payloads(y, s), c \in IF op = "demask" THEN Contexts ELSE {NoContext} :
             /\ call' = With(call, r, [op |-> op, system |-> y, session |-> s,
                                      payload |-> t, context |-> c])
             /\ pc' = [pc EXCEPT ![r] = FirstStep(op, y)]
  BY DEF Receive
<1>1. PICK t \in Payloads(y, s), c \in Contexts \cup {NoContext} :
             /\ call' = With(call, r, [op |-> op, system |-> y, session |-> s,
                                      payload |-> t, context |-> c])
             /\ pc' = [pc EXCEPT ![r] = FirstStep(op, y)]
  OBVIOUS
<1>2. ContextOwned(c)
  BY DEF Contexts, IInv, AnswersOwned, ContextOwned
<1>3. FirstStep(op, y) \in {"lookup", "mask", "open"}
  BY DEF FirstStep
<1>4. /\ pc[r] = "idle" /\ r \notin DOMAIN call /\ UNCHANGED <<vault, draft, answer>>
      /\ pc \in [Request -> {"idle", "lookup", "mask", "put", "open", "delete", "done"}]
      /\ \A q \in Request : pc[q] \in {"put", "delete"} => q \in DOMAIN call
      /\ DOMAIN answer \subseteq DOMAIN call
  BY DEF Receive, IInv, TypeOK, ControlOK
<1>5. /\ DOMAIN call' = DOMAIN call \cup {r} /\ call'[r].context = c
      /\ \A q \in DOMAIN call : call'[q] = call[q]
  BY <1>1, <1>4 DEF With
<1>6. \A z : ShownBy(z) \subseteq ShownBy(z)'
  BY <1>5 DEF ShownBy
<1>7. TenantIsolation'
  BY <1>4, <1>5, <1>6 DEF IInv, TenantIsolation
<1>8. VaultOwned' /\ AnswersOwned'
  BY <1>4, <1>6 DEF IInv, VaultOwned, AnswersOwned, ContextOwned, Owned
<1>9. CallsOwned'
  BY <1>2, <1>5, <1>6 DEF IInv, CallsOwned, ContextOwned, Owned
<1>10. DraftsOwned'
  BY <1>1, <1>3, <1>4, <1>5, <1>6 DEF IInv, DraftsOwned, Owned
<1>11. QED
  BY <1>7, <1>8, <1>9, <1>10, ReceiveTypeOK DEF IInv

LEMMA LookupOwned ==
    ASSUME IInv, NEW r \in Request, Lookup(r)
    PROVE  IInv'
<1> DEFINE c == call[r]
           box == vault[c.session]
           hit == c.session \in DOMAIN vault /\ Opens(box, c.system, c.session)
<1>1. /\ pc[r] = "lookup" /\ r \in DOMAIN call /\ IsCall(c)
      /\ UNCHANGED <<vault, call, draft>>
  BY DEF Lookup, IInv, TypeOK, ControlOK, CallsOK
<1>2. CASE hit
  <2>1. Finish(r, TzAnswer(c.payload, box.mapping))
    BY <1>2 DEF Lookup
  <2>2. IsMapping(box.mapping) /\ c.payload \in Text /\ Owned(box.mapping, c.system)
    BY <1>1, <1>2 DEF IInv, TypeOK, VaultOK, IsBox, IsCall, VaultOwned, Opens
  <2> DEFINE response == TzAnswer(c.payload, box.mapping)
  <2>3. /\ IsAnswer(response) /\ response.context = NoContext
        /\ ValuesIn(response.text) \subseteq ShownBy(c.system)
    BY <1>1, <2>2, TzAnswerFacts, PayloadShown DEF Owned
  <2> HIDE DEF response
  <2>4. /\ TenantIsolation' /\ CallsOwned' /\ AnswersOwned'
        /\ \A q \in Request : pc'[q] = IF q = r THEN "done" ELSE pc[q]
        /\ \A y : ShownBy(y)' = ShownBy(y)
    BY <1>1, <2>1, <2>3, FinishOwned DEF ContextOwned, response
  <2>5. QED
    BY <1>1, <2>4, LookupTypeOK DEF IInv, VaultOwned, DraftsOwned, Owned
<1>3. CASE ~hit
  <2>1. pc' = [pc EXCEPT ![r] = "mask"] /\ UNCHANGED answer
    BY <1>3 DEF Lookup
  <2>2. \A q \in Request : pc'[q] \in {"mask", pc[q]}
    BY <1>1, <2>1, GoOnType DEF IInv, TypeOK
  <2>3. \A y : ShownBy(y)' = ShownBy(y)
    BY <1>1 DEF ShownBy
  <2>4. TenantIsolation' /\ CallsOwned' /\ AnswersOwned'
    BY <1>1, <2>1, <2>3
       DEF IInv, TenantIsolation, CallsOwned, AnswersOwned, ContextOwned, Owned
  <2>5. QED
    BY <1>1, <2>2, <2>3, <2>4, LookupTypeOK DEF IInv, VaultOwned, DraftsOwned, Owned
<1>4. QED
  BY <1>2, <1>3

(* The mapping of a text holds the values of the text.                     *)
LEMMA KeepMappingOwned ==
    ASSUME IInv, NEW r \in Request, pc[r] = "mask", UNCHANGED <<vault, call>>,
           NEW m, IsMapping(m), Owned(m, call[r].system), NEW degraded,
           KeepMapping(r, call[r], m, degraded)
    PROVE  VaultOwned' /\ CallsOwned' /\ DraftsOwned' /\ AnswersOwned' /\ TenantIsolation'
<1> DEFINE c == call[r]
<1>1. c.system \in System /\ c.session \in Session
  BY DEF IInv, TypeOK, ControlOK, CallsOK, IsCall
<1>2. m.masked \in Text /\ ValuesIn(m.masked) \subseteq ShownBy(c.system)
  BY MappingRestores DEF Owned, IsMapping
<1>3. ASSUME NEW context, IsContext(context), ContextOwned(context),
             Finish(r, Masked(c, m.masked, degraded, context)), UNCHANGED draft
      PROVE  VaultOwned' /\ CallsOwned' /\ DraftsOwned' /\ AnswersOwned' /\ TenantIsolation'
  <2> DEFINE response == Masked(c, m.masked, degraded, context)
  <2>1. /\ IsAnswer(response) /\ response.text = m.masked
        /\ response.context \in {NoContext, context}
    BY <1>2, <1>3, MaskedFacts
  <2> HIDE DEF response
  <2>2. /\ TenantIsolation' /\ CallsOwned' /\ AnswersOwned'
        /\ \A q \in Request : pc'[q] = IF q = r THEN "done" ELSE pc[q]
        /\ \A y : ShownBy(y)' = ShownBy(y)
    BY <1>2, <1>3, <2>1, FinishOwned DEF ContextOwned, response
  <2>3. QED
    BY <1>3, <2>2 DEF IInv, VaultOwned, DraftsOwned, Owned
<1>4. /\ IsContext(NoContext) /\ ContextOwned(NoContext)
      /\ IsContext(Seal(c.system, c.session, m))
      /\ ContextOwned(Seal(c.system, c.session, m))
  BY <1>1, SealIsBox DEF IsContext, ContextOwned
<1>5. CASE /\ draft' = [draft EXCEPT ![r] = [mapping |-> m, degraded |-> degraded]]
           /\ pc' = [pc EXCEPT ![r] = "put"]
           /\ UNCHANGED answer
  <2>1. \A q \in Request : pc'[q] = IF q = r THEN "put" ELSE pc[q]
    BY <1>5, GoOnType DEF IInv, TypeOK
  <2>2. /\ draft'[r].mapping = m
        /\ \A q \in Request : q # r => draft'[q] = draft[q]
    BY <1>5 DEF IInv, TypeOK, DraftsOK
  <2>3. \A y : ShownBy(y)' = ShownBy(y)
    BY DEF ShownBy
  <2>4. DraftsOwned'
    BY <2>1, <2>2, <2>3 DEF IInv, DraftsOwned, Owned
  <2>5. QED
    BY <1>5, <2>3, <2>4 DEF IInv, VaultOwned, CallsOwned, AnswersOwned,
                            ContextOwned, Owned, TenantIsolation
<1>6. QED
  BY <1>3, <1>4, <1>5 DEF KeepMapping

LEMMA MaskTextOwned ==
    ASSUME IInv, NEW r \in Request, MaskText(r)
    PROVE  IInv'
<1> DEFINE c == call[r]
<1>1. /\ pc[r] = "mask" /\ UNCHANGED <<vault, call>> /\ c.payload \in Text
      /\ r \in DOMAIN call /\ ValuesIn(c.payload) \subseteq ShownBy(c.system)
  BY PayloadShown DEF MaskText, IInv, TypeOK, ControlOK, CallsOK, IsCall
<1>2. ASSUME NEW response, IsAnswer(response), Finish(r, response), UNCHANGED draft,
             ValuesIn(response.text) \subseteq ShownBy(c.system),
             response.context = NoContext
      PROVE  VaultOwned' /\ CallsOwned' /\ DraftsOwned' /\ AnswersOwned' /\ TenantIsolation'
  <2>1. /\ TenantIsolation' /\ CallsOwned' /\ AnswersOwned'
        /\ \A q \in Request : pc'[q] = IF q = r THEN "done" ELSE pc[q]
        /\ \A y : ShownBy(y)' = ShownBy(y)
    BY <1>1, <1>2, FinishOwned DEF ContextOwned
  <2>2. QED
    BY <1>1, <1>2, <2>1 DEF IInv, VaultOwned, DraftsOwned, Owned
<1>3. \/ /\ UNCHANGED draft
         /\ \E degraded : Finish(r, Masked(c, c.payload, degraded, NoContext))
      \/ /\ UNCHANGED draft
         /\ \E status \in {"unavailable", "closed"} : Finish(r, Error(status))
      \/ \E d \in Detections(c.payload, c.system) :
            KeepMapping(r, c, MaskLine(c.payload, d.seen), d.degraded)
  BY MaskTextCases
<1>4. ASSUME UNCHANGED draft,
             NEW degraded, Finish(r, Masked(c, c.payload, degraded, NoContext))
      PROVE  IInv'
  <2> DEFINE response == Masked(c, c.payload, degraded, NoContext)
  <2>1. /\ IsAnswer(response) /\ response.text = c.payload
        /\ response.context = NoContext
    BY <1>1, MaskedFacts DEF IsContext
  <2> HIDE DEF response
  <2>2. VaultOwned' /\ CallsOwned' /\ DraftsOwned' /\ AnswersOwned' /\ TenantIsolation'
    BY <1>1, <1>2, <1>4, <2>1 DEF response
  <2>3. QED
    BY <2>2, MaskTextTypeOK DEF IInv
<1>5. ASSUME UNCHANGED draft,
             NEW status \in {"unavailable", "closed"}, Finish(r, Error(status))
      PROVE  IInv'
  <2>1. ValuesIn(<<>>) = {}
    BY DEF ValuesIn
  <2>2. VaultOwned' /\ CallsOwned' /\ DraftsOwned' /\ AnswersOwned' /\ TenantIsolation'
    BY <1>2, <1>5, <2>1, ErrorFacts
  <2>3. QED
    BY <2>2, MaskTextTypeOK DEF IInv
<1>6. ASSUME NEW d \in Detections(c.payload, c.system),
             KeepMapping(r, c, MaskLine(c.payload, d.seen), d.degraded)
      PROVE  IInv'
  <2> DEFINE m == MaskLine(c.payload, d.seen)
  <2>1. d.seen \in SUBSET DOMAIN c.payload
    BY DetectionsType
  <2>2. IsMapping(m) /\ m.original = c.payload
    BY <1>1, <2>1, MaskLineIsMapping, MaskLineType
  <2> HIDE DEF m
  <2>3. Owned(m, c.system)
    BY <1>1, <2>2 DEF Owned
  <2>4. VaultOwned' /\ CallsOwned' /\ DraftsOwned' /\ AnswersOwned' /\ TenantIsolation'
    BY <1>1, <1>6, <2>2, <2>3, KeepMappingOwned DEF m
  <2>5. QED
    BY <2>4, MaskTextTypeOK DEF IInv
<1>7. QED
  BY <1>3, <1>4, <1>5, <1>6

LEMMA PutOwned ==
    ASSUME IInv, NEW r \in Request, Put(r)
    PROVE  IInv'
<1> DEFINE c == call[r]
           m == draft[r].mapping
           box == Seal(c.system, c.session, m)
           response == Masked(c, m.masked, draft[r].degraded, NoContext)
<1>1. /\ pc[r] = "put" /\ UNCHANGED <<call, draft>>
      /\ vault' = With(vault, c.session, box)
      /\ Finish(r, response)
  BY DEF Put
<1>2. /\ IsMapping(m) /\ c.system \in System /\ c.session \in Session
      /\ Owned(m, c.system)
  BY <1>1 DEF IInv, TypeOK, DraftsOK, ControlOK, CallsOK, IsCall, DraftsOwned
<1>3. box.system = c.system /\ box.mapping = m
  BY <1>2, SealIsBox
<1>4. m.masked \in Text /\ ValuesIn(m.masked) \subseteq ShownBy(c.system)
  BY <1>2, MappingRestores DEF Owned, IsMapping
<1>5. IsAnswer(response) /\ response.text = m.masked /\ response.context = NoContext
  BY <1>4, MaskedFacts DEF IsContext
<1> HIDE DEF box, response
<1>6. /\ TenantIsolation' /\ CallsOwned' /\ AnswersOwned'
      /\ \A q \in Request : pc'[q] = IF q = r THEN "done" ELSE pc[q]
      /\ \A y : ShownBy(y)' = ShownBy(y)
  BY <1>1, <1>4, <1>5, FinishOwned DEF ContextOwned
<1>7. /\ DOMAIN vault' = DOMAIN vault \cup {c.session} /\ vault'[c.session] = box
      /\ \A s \in DOMAIN vault : s # c.session => vault'[s] = vault[s]
  BY <1>1 DEF With
<1>8. VaultOwned'
  BY <1>2, <1>3, <1>6, <1>7 DEF IInv, VaultOwned, Owned
<1>9. DraftsOwned'
  BY <1>1, <1>6 DEF IInv, DraftsOwned, Owned
<1>10. QED
  BY <1>6, <1>8, <1>9, PutTypeOK DEF IInv

LEMMA TimeoutOwned ==
    ASSUME IInv, NEW r \in Request, Timeout(r)
    PROVE  IInv'
<1>1. pc[r] = "mask" /\ Finish(r, Error("timeout")) /\ UNCHANGED <<vault, call, draft>>
  BY DEF Timeout
<1>2. /\ IsAnswer(Error("timeout")) /\ Error("timeout").context = NoContext
      /\ ValuesIn(Error("timeout").text) = {}
  BY ErrorFacts DEF ValuesIn
<1>3. /\ TenantIsolation' /\ CallsOwned' /\ AnswersOwned'
      /\ \A q \in Request : pc'[q] = IF q = r THEN "done" ELSE pc[q]
      /\ \A y : ShownBy(y)' = ShownBy(y)
  BY <1>1, <1>2, FinishOwned DEF ContextOwned
<1>4. QED
  BY <1>1, <1>3, TimeoutTypeOK DEF IInv, VaultOwned, DraftsOwned, Owned

LEMMA OpenOwned ==
    ASSUME IInv, NEW r \in Request, Open(r)
    PROVE  IInv'
<1> DEFINE c == call[r]
           box == Box(c)
<1>1. /\ pc[r] = "open" /\ r \in DOMAIN call /\ c.payload \in Text
      /\ UNCHANGED <<vault, call>>
      /\ ValuesIn(c.payload) \subseteq ShownBy(c.system)
  BY PayloadShown DEF Open, IInv, TypeOK, ControlOK, CallsOK, IsCall
<1>2. ASSUME NEW response, IsAnswer(response), Finish(r, response),
             ValuesIn(response.text) \subseteq ShownBy(c.system),
             response.context = NoContext,
             draft' = draft \/ draft' = [draft EXCEPT ![r] = [mapping |-> box.mapping, degraded |-> FALSE]]
      PROVE  IInv'
  <2>1. /\ TenantIsolation' /\ CallsOwned' /\ AnswersOwned'
        /\ \A q \in Request : pc'[q] = IF q = r THEN "done" ELSE pc[q]
        /\ \A y : ShownBy(y)' = ShownBy(y)
    BY <1>1, <1>2, FinishOwned DEF ContextOwned
  <2>2. \A q \in Request : q # r => draft'[q] = draft[q]
    BY <1>2 DEF IInv, TypeOK, DraftsOK
  <2>3. QED
    BY <1>1, <2>1, <2>2, OpenTypeOK DEF IInv, VaultOwned, DraftsOwned, Owned
<1>3. ASSUME NEW status \in {"not_found", "internal"},
             Finish(r, Error(status)), UNCHANGED draft
      PROVE  IInv'
  <2>1. /\ IsAnswer(Error(status)) /\ Error(status).context = NoContext
        /\ ValuesIn(Error(status).text) = {}
    BY <1>3, ErrorFacts DEF ValuesIn
  <2>2. QED
    BY <1>2, <1>3, <2>1
<1>4. CASE /\ box.sealed /\ Opens(box, c.system, c.session)
           /\ draft' = [draft EXCEPT ![r] = [mapping |-> box.mapping, degraded |-> FALSE]]
           /\ \/ pc' = [pc EXCEPT ![r] = "delete"] /\ UNCHANGED answer
              \/ Finish(r, Ok("demask", DemaskLine(c.payload, box.mapping)))
  <2>1. IsMapping(box.mapping) /\ box # NoContext
    BY <1>1, <1>4, BoxType DEF IInv, IsContext, IsBox, NoContext
  <2>2. Owned(box.mapping, c.system)
    BY <1>1, <1>4, <2>1
       DEF IInv, VaultOwned, CallsOwned, ContextOwned, Box, Opens
  <2> DEFINE response == Ok("demask", DemaskLine(c.payload, box.mapping))
  <2>3. /\ IsAnswer(response) /\ response.context = NoContext
        /\ ValuesIn(response.text) \subseteq ShownBy(c.system)
    <3> DEFINE m == box.mapping
    <3>1. /\ DemaskLine(c.payload, m) \in Text
          /\ ValuesIn(DemaskLine(c.payload, m)) \subseteq ShownBy(c.system)
      BY <1>1, <2>1, <2>2, MappingRestores DEF Owned
    <3>2. QED
      BY <3>1, OkFacts
  <2>4. CASE Finish(r, response)
    <3> HIDE DEF response
    <3>1. QED
      BY <1>2, <1>4, <2>3, <2>4
  <2>5. CASE pc' = [pc EXCEPT ![r] = "delete"] /\ UNCHANGED answer
    <3>1. \A q \in Request : pc'[q] = IF q = r THEN "delete" ELSE pc[q]
      BY <1>1, <2>5, GoOnType DEF IInv, TypeOK
    <3>2. /\ draft'[r].mapping = box.mapping
          /\ \A q \in Request : q # r => draft'[q] = draft[q]
      BY <1>4 DEF IInv, TypeOK, DraftsOK
    <3>3. \A y : ShownBy(y)' = ShownBy(y)
      BY <1>1 DEF ShownBy
    <3>4. DraftsOwned'
      BY <1>1, <2>2, <3>1, <3>2, <3>3 DEF IInv, DraftsOwned, Owned
    <3>5. VaultOwned' /\ CallsOwned' /\ AnswersOwned' /\ TenantIsolation'
      BY <1>1, <2>5, <3>3 DEF IInv, VaultOwned, CallsOwned, AnswersOwned,
                              ContextOwned, Owned, TenantIsolation
    <3>6. QED
      BY <3>4, <3>5, OpenTypeOK DEF IInv
  <2>6. QED
    BY <1>4, <2>4, <2>5
<1>5. QED
  BY <1>3, <1>4 DEF Open

LEMMA DeleteOwned ==
    ASSUME IInv, NEW r \in Request, Delete(r)
    PROVE  IInv'
<1> DEFINE c == call[r]
           m == draft[r].mapping
           response == Ok("demask", DemaskLine(c.payload, m))
<1>1. /\ pc[r] = "delete" /\ UNCHANGED <<call, draft>>
      /\ vault' = [s \in DOMAIN vault \ {c.session} |-> vault[s]]
      /\ Finish(r, response)
  BY DEF Delete
<1>2. /\ IsMapping(m) /\ c.payload \in Text /\ Owned(m, c.system)
      /\ ValuesIn(c.payload) \subseteq ShownBy(c.system)
  BY <1>1, PayloadShown
     DEF IInv, TypeOK, DraftsOK, ControlOK, CallsOK, IsCall, DraftsOwned
<1>3. /\ DemaskLine(c.payload, m) \in Text
      /\ ValuesIn(DemaskLine(c.payload, m)) \subseteq ShownBy(c.system)
  BY <1>2, MappingRestores DEF Owned
<1>4. /\ IsAnswer(response) /\ response.context = NoContext
      /\ ValuesIn(response.text) \subseteq ShownBy(c.system)
  BY <1>3, OkFacts
<1> HIDE DEF response
<1>5. /\ TenantIsolation' /\ CallsOwned' /\ AnswersOwned'
      /\ \A q \in Request : pc'[q] = IF q = r THEN "done" ELSE pc[q]
      /\ \A y : ShownBy(y)' = ShownBy(y)
  BY <1>1, <1>4, FinishOwned DEF ContextOwned
<1>6. VaultOwned'
  BY <1>1, <1>5 DEF IInv, VaultOwned, Owned
<1>7. DraftsOwned'
  BY <1>1, <1>5 DEF IInv, DraftsOwned, Owned
<1>8. QED
  BY <1>5, <1>6, <1>7, DeleteTypeOK DEF IInv

LEMMA EvictOwned ==
    ASSUME IInv, NEW s \in Session, Evict(s)
    PROVE  IInv'
<1>1. \A y : ShownBy(y)' = ShownBy(y)
  BY DEF Evict, ShownBy
<1>2. QED
  BY <1>1, EvictTypeOK
     DEF Evict, IInv, VaultOwned, CallsOwned, DraftsOwned, AnswersOwned,
         ContextOwned, Owned, TenantIsolation

LEMMA InitIInv == Init => IInv
<1> SUFFICES ASSUME Init PROVE IInv
  OBVIOUS
<1>1. DOMAIN vault = {} /\ DOMAIN call = {} /\ DOMAIN answer = {}
  BY DEF Init
<1>2. QED
  BY <1>1, InitTypeOK
     DEF Init, IInv, VaultOwned, CallsOwned, DraftsOwned, AnswersOwned, TenantIsolation

LEMMA NextIInv == IInv /\ [Next]_vars => IInv'
<1> SUFFICES ASSUME IInv, [Next]_vars PROVE IInv'
  OBVIOUS
<1>1. ASSUME NEW r \in Request,
             \/ Receive(r) \/ Lookup(r) \/ MaskText(r) \/ Put(r)
             \/ Timeout(r) \/ Open(r) \/ Delete(r)
      PROVE  IInv'
  BY <1>1, ReceiveOwned, LookupOwned, MaskTextOwned, PutOwned, TimeoutOwned,
     OpenOwned, DeleteOwned
<1>2. ASSUME NEW s \in Session, Evict(s)
      PROVE  IInv'
  BY <1>2, EvictOwned
<1>3. CASE UNCHANGED vars
  <2>1. \A y : ShownBy(y)' = ShownBy(y)
    BY <1>3 DEF vars, ShownBy
  <2>2. TypeOK'
    BY <1>3, NextTypeOK DEF IInv
  <2>3. QED
    BY <1>3, <2>1, <2>2
       DEF vars, IInv, VaultOwned, CallsOwned, DraftsOwned, AnswersOwned,
           ContextOwned, Owned, TenantIsolation
<1>4. QED
  BY <1>1, <1>2, <1>3 DEF Next

(* No response holds a value its system did not itself send, whatever      *)
(* sessions, payload ids and contexts the systems use: the seal of a       *)
(* mapping (crypto.rs) and the checks of process_tz and demask suffice.    *)
THEOREM GuardIsolatesTenants == Spec => []TenantIsolation
<1>1. IInv => TenantIsolation
  BY DEF IInv
<1>2. QED
  BY <1>1, InitIInv, NextIInv, PTL DEF Spec

-----------------------------------------------------------------------------
(* Contexts restore.  The invariant says what the mapping in a context is  *)
(* and what an answer that opened one is.                                  *)

\* The context given with an answer is that of its text.
MakesContext(c, response) ==
    response.context.sealed =>
        /\ Mode = "stateless"
        /\ \E found \in SUBSET DOMAIN c.payload :
              response.context.mapping = MaskLine(c.payload, found)
        /\ response.text = response.context.mapping.masked

\* The answer to demask is what the context makes of the payload.
OpensContext(c, response) ==
    Mode = "stateless" /\ c.op = "demask" /\ response.status = "ok"
        => response.text = DemaskLine(c.payload, c.context.mapping)

StepsOfOps ==
    \A r \in Request :
        /\ pc[r] \in {"lookup", "mask", "put"} => call[r].op # "demask"
        /\ pc[r] \in {"put", "delete"} => Mode # "stateless"

CInv ==
    /\ TypeOK /\ StepsOfOps
    /\ \A r \in DOMAIN answer : MakesContext(call[r], answer[r]) /\ OpensContext(call[r], answer[r])

LEMMA FinishContexts ==
    ASSUME CInv, NEW r \in Request, NEW response,
           pc[r] \notin {"idle", "done"}, IsAnswer(response),
           Finish(r, response), UNCHANGED call,
           MakesContext(call[r], response), OpensContext(call[r], response),
           TypeOK'
    PROVE  CInv'
<1>1. /\ DOMAIN answer' = DOMAIN answer \cup {r} /\ answer'[r] = response
      /\ \A q \in DOMAIN answer : answer'[q] = answer[q]
      /\ \A q \in Request : pc'[q] = IF q = r THEN "done" ELSE pc[q]
  BY FinishType DEF CInv, TypeOK
<1>2. StepsOfOps'
  BY <1>1 DEF CInv, StepsOfOps
<1>3. \A q \in DOMAIN answer' :
         MakesContext(call'[q], answer'[q]) /\ OpensContext(call'[q], answer'[q])
  BY <1>1 DEF CInv
<1>4. QED
  BY <1>2, <1>3 DEF CInv, MakesContext, OpensContext

(* A request that goes on without an answer.                               *)
LEMMA GoOnContexts ==
    ASSUME CInv, NEW r \in Request, pc[r] \notin {"idle", "done"},
           NEW x \in {"mask", "put", "delete"}, pc' = [pc EXCEPT ![r] = x],
           UNCHANGED <<call, answer>>, TypeOK',
           x \in {"mask", "put"} => call[r].op # "demask",
           x \in {"put", "delete"} => Mode # "stateless"
    PROVE  CInv'
<1>1. \A q \in Request : pc'[q] = IF q = r THEN x ELSE pc[q]
  BY GoOnType DEF CInv, TypeOK
<1>2. StepsOfOps'
  BY <1>1 DEF CInv, StepsOfOps
<1>3. QED
  BY <1>2 DEF CInv, MakesContext, OpensContext

LEMMA NoContextFacts ==
    ASSUME NEW c, NEW response, response.context = NoContext
    PROVE  MakesContext(c, response)
BY DEF MakesContext, NoContext

LEMMA ReceiveContexts ==
    ASSUME CInv, NEW r \in Request, Receive(r)
    PROVE  CInv'
<1>. PICK op \in Ops, y \in System, s \in Session :
          \E t \in Payloads(y, s), c \in IF op = "demask" THEN Contexts ELSE {NoContext} :
             /\ call' = With(call, r, [op |-> op, system |-> y, session |-> s,
                                      payload |-> t, context |-> c])
             /\ pc' = [pc EXCEPT ![r] = FirstStep(op, y)]
  BY DEF Receive
<1>1. PICK t \in Payloads(y, s), c \in Contexts \cup {NoContext} :
             /\ call' = With(call, r, [op |-> op, system |-> y, session |-> s,
                                      payload |-> t, context |-> c])
             /\ pc' = [pc EXCEPT ![r] = FirstStep(op, y)]
  OBVIOUS
<1>2. /\ FirstStep(op, y) \in {"lookup", "mask", "open"}
      /\ op = "demask" => FirstStep(op, y) = "open"
  BY DEF FirstStep
<1>3. /\ pc[r] = "idle" /\ r \notin DOMAIN call /\ UNCHANGED <<vault, draft, answer>>
      /\ pc \in [Request -> {"idle", "lookup", "mask", "put", "open", "delete", "done"}]
      /\ \A q \in Request : pc[q] # "idle" => q \in DOMAIN call
      /\ DOMAIN answer \subseteq DOMAIN call
  BY DEF Receive, CInv, TypeOK, ControlOK
<1>4. /\ call'[r].op = op
      /\ \A q \in DOMAIN call : call'[q] = call[q]
  BY <1>1, <1>3 DEF With
<1>5. \A q \in Request : pc'[q] = IF q = r THEN FirstStep(op, y) ELSE pc[q]
  BY <1>1, <1>3
<1>6. StepsOfOps'
  BY <1>2, <1>3, <1>4, <1>5 DEF CInv, StepsOfOps
<1>7. \A q \in DOMAIN answer' :
         MakesContext(call'[q], answer'[q]) /\ OpensContext(call'[q], answer'[q])
  BY <1>3, <1>4 DEF CInv
<1>8. QED
  BY <1>6, <1>7, ReceiveTypeOK DEF CInv, MakesContext, OpensContext

LEMMA LookupContexts ==
    ASSUME CInv, NEW r \in Request, Lookup(r)
    PROVE  CInv'
<1> DEFINE c == call[r]
           hit == c.session \in DOMAIN vault /\ Opens(vault[c.session], c.system, c.session)
<1>1. /\ pc[r] = "lookup" /\ r \in DOMAIN call /\ IsCall(c) /\ c.op # "demask"
      /\ UNCHANGED <<vault, call, draft>> /\ TypeOK'
  BY LookupTypeOK DEF Lookup, CInv, TypeOK, ControlOK, CallsOK, StepsOfOps
<1>2. CASE hit
  <2> DEFINE response == TzAnswer(c.payload, vault[c.session].mapping)
  <2>1. Finish(r, response)
    BY <1>2 DEF Lookup
  <2>2. IsMapping(vault[c.session].mapping) /\ c.payload \in Text
    BY <1>1, <1>2 DEF CInv, TypeOK, VaultOK, IsBox, IsCall
  <2>3. IsAnswer(response) /\ response.context = NoContext
    BY <2>2, TzAnswerFacts
  <2> HIDE DEF response
  <2>4. MakesContext(c, response) /\ OpensContext(c, response)
    BY <1>1, <2>3, NoContextFacts DEF OpensContext
  <2>5. QED
    BY <1>1, <2>1, <2>3, <2>4, FinishContexts
<1>3. CASE ~hit
  <2>1. pc' = [pc EXCEPT ![r] = "mask"] /\ UNCHANGED answer
    BY <1>3 DEF Lookup
  <2>2. QED
    BY <1>1, <2>1, GoOnContexts
<1>4. QED
  BY <1>2, <1>3

LEMMA KeepMappingContexts ==
    ASSUME CInv, NEW r \in Request, pc[r] = "mask", UNCHANGED <<vault, call>>, TypeOK',
           NEW found \in SUBSET DOMAIN call[r].payload, NEW m, m = MaskLine(call[r].payload, found),
           NEW degraded, KeepMapping(r, call[r], m, degraded)
    PROVE  CInv'
<1> DEFINE c == call[r]
<1>1. /\ c.system \in System /\ c.session \in Session /\ c.payload \in Text
      /\ c.op # "demask"
  BY DEF CInv, TypeOK, ControlOK, CallsOK, IsCall, StepsOfOps
<1>2. IsMapping(m) /\ m.masked \in Text
  BY <1>1, MaskLineIsMapping
<1>3. ASSUME NEW context, context = NoContext \/ (Mode = "stateless" /\ context = Seal(c.system, c.session, m)),
             Finish(r, Masked(c, m.masked, degraded, context))
      PROVE  CInv'
  <2> DEFINE response == Masked(c, m.masked, degraded, context)
  <2>1. IsContext(context) /\ (context = NoContext \/ (Mode = "stateless" /\ context.mapping = m))
    BY <1>1, <1>2, <1>3, SealIsBox DEF IsContext
  <2>2. /\ IsAnswer(response) /\ response.text = m.masked
        /\ response.context \in {NoContext, context}
    BY <1>2, <2>1, MaskedFacts
  <2> HIDE DEF response
  <2>3. MakesContext(c, response)
    <3>1. CASE response.context = NoContext
      BY <3>1, NoContextFacts
    <3>2. CASE response.context # NoContext
      BY <2>1, <2>2, <3>2 DEF MakesContext
    <3>3. QED
      BY <3>1, <3>2
  <2>4. OpensContext(c, response)
    BY <1>1 DEF OpensContext
  <2>5. QED
    BY <1>3, <2>2, <2>3, <2>4, FinishContexts DEF response
<1>4. CASE /\ Mode = "memory"
           /\ pc' = [pc EXCEPT ![r] = "put"] /\ UNCHANGED answer
  BY <1>1, <1>4, GoOnContexts
<1>5. QED
  BY <1>3, <1>4 DEF KeepMapping

LEMMA MaskTextContexts ==
    ASSUME CInv, NEW r \in Request, MaskText(r)
    PROVE  CInv'
<1> DEFINE c == call[r]
<1>1. /\ pc[r] = "mask" /\ UNCHANGED <<vault, call>> /\ c.payload \in Text
      /\ c.op # "demask" /\ TypeOK'
  BY MaskTextTypeOK DEF MaskText, CInv, TypeOK, ControlOK, CallsOK, IsCall, StepsOfOps
<1>2. ASSUME NEW response, IsAnswer(response), response.context = NoContext,
             Finish(r, response)
      PROVE  CInv'
  <2>1. MakesContext(c, response) /\ OpensContext(c, response)
    BY <1>1, <1>2, NoContextFacts DEF OpensContext
  <2>2. QED
    BY <1>1, <1>2, <2>1, FinishContexts
<1>3. \/ /\ UNCHANGED draft
         /\ \E degraded : Finish(r, Masked(c, c.payload, degraded, NoContext))
      \/ /\ UNCHANGED draft
         /\ \E status \in {"unavailable", "closed"} : Finish(r, Error(status))
      \/ \E d \in Detections(c.payload, c.system) :
            KeepMapping(r, c, MaskLine(c.payload, d.seen), d.degraded)
  BY MaskTextCases
<1>4. ASSUME UNCHANGED draft,
             NEW degraded, Finish(r, Masked(c, c.payload, degraded, NoContext))
      PROVE  CInv'
  <2> DEFINE response == Masked(c, c.payload, degraded, NoContext)
  <2>1. IsAnswer(response) /\ response.context = NoContext
    BY <1>1, MaskedFacts DEF IsContext
  <2> HIDE DEF response
  <2>2. QED
    BY <1>2, <1>4, <2>1 DEF response
<1>5. ASSUME UNCHANGED draft,
             NEW status \in {"unavailable", "closed"}, Finish(r, Error(status))
      PROVE  CInv'
  BY <1>2, <1>5, ErrorFacts
<1>6. ASSUME NEW d \in Detections(c.payload, c.system),
             KeepMapping(r, c, MaskLine(c.payload, d.seen), d.degraded)
      PROVE  CInv'
  <2> DEFINE m == MaskLine(c.payload, d.seen)
  <2>1. d.seen \in SUBSET DOMAIN c.payload
    BY DetectionsType
  <2>2. m = MaskLine(call[r].payload, d.seen) /\ KeepMapping(r, call[r], m, d.degraded)
    BY <1>6
  <2> HIDE DEF m
  <2>3. QED
    BY <1>1, <2>1, <2>2, KeepMappingContexts
<1>7. QED
  BY <1>3, <1>4, <1>5, <1>6

LEMMA PutContexts ==
    ASSUME CInv, NEW r \in Request, Put(r)
    PROVE  CInv'
<1> DEFINE c == call[r]
           response == Masked(c, draft[r].mapping.masked, draft[r].degraded, NoContext)
<1>1. /\ pc[r] = "put" /\ UNCHANGED <<call, draft>> /\ c.op # "demask"
      /\ Finish(r, response) /\ TypeOK'
  BY PutTypeOK DEF Put, CInv, StepsOfOps
<1>2. draft[r].mapping.masked \in Text
  BY <1>1, MappingRestores DEF CInv, TypeOK, DraftsOK, IsMapping
<1>3. IsAnswer(response) /\ response.context = NoContext
  BY <1>2, MaskedFacts DEF IsContext
<1> HIDE DEF response
<1>4. MakesContext(c, response) /\ OpensContext(c, response)
  BY <1>1, <1>3, NoContextFacts DEF OpensContext
<1>5. QED
  BY <1>1, <1>3, <1>4, FinishContexts

LEMMA TimeoutContexts ==
    ASSUME CInv, NEW r \in Request, Timeout(r)
    PROVE  CInv'
<1>1. /\ pc[r] = "mask" /\ Finish(r, Error("timeout")) /\ UNCHANGED call
      /\ call[r].op # "demask" /\ TypeOK'
  BY TimeoutTypeOK DEF Timeout, CInv, StepsOfOps
<1>2. /\ IsAnswer(Error("timeout")) /\ Error("timeout").context = NoContext
  BY ErrorFacts
<1>3. MakesContext(call[r], Error("timeout")) /\ OpensContext(call[r], Error("timeout"))
  BY <1>1, <1>2, NoContextFacts DEF OpensContext
<1>4. QED
  BY <1>1, <1>2, <1>3, FinishContexts

LEMMA OpenContexts ==
    ASSUME CInv, NEW r \in Request, Open(r)
    PROVE  CInv'
<1> DEFINE c == call[r]
           box == Box(c)
<1>1. /\ pc[r] = "open" /\ r \in DOMAIN call /\ c.payload \in Text
      /\ UNCHANGED <<vault, call>> /\ TypeOK'
  BY OpenTypeOK DEF Open, CInv, TypeOK, ControlOK, CallsOK, IsCall
<1>2. ASSUME NEW status \in {"not_found", "internal"}, Finish(r, Error(status))
      PROVE  CInv'
  <2>1. /\ IsAnswer(Error(status)) /\ Error(status).context = NoContext
        /\ Error(status).status # "ok"
    BY ErrorFacts DEF Error, Ok
  <2>2. MakesContext(c, Error(status)) /\ OpensContext(c, Error(status))
    BY <2>1, NoContextFacts DEF OpensContext
  <2>3. QED
    BY <1>1, <1>2, <2>1, <2>2, FinishContexts
<1>3. CASE /\ box.sealed
           /\ IF DeleteAfterDemask /\ Mode = "memory"
              THEN pc' = [pc EXCEPT ![r] = "delete"] /\ UNCHANGED answer
              ELSE Finish(r, Ok("demask", DemaskLine(c.payload, box.mapping)))
  <2> DEFINE response == Ok("demask", DemaskLine(c.payload, box.mapping))
  <2>1. CASE pc' = [pc EXCEPT ![r] = "delete"] /\ UNCHANGED answer /\ Mode = "memory"
    BY <1>1, <2>1, GoOnContexts
  <2>2. CASE Finish(r, response)
    <3>1. IsMapping(box.mapping)
      BY <1>1, <1>3, BoxType DEF CInv, IsContext, IsBox, NoContext
    <3>2. DemaskLine(c.payload, box.mapping) \in Text
      BY <1>1, <3>1, MappingRestores
    <3>3. /\ IsAnswer(response) /\ response.context = NoContext
          /\ response.text = DemaskLine(c.payload, box.mapping)
      BY <3>2, OkFacts
    <3> HIDE DEF response
    <3>4. OpensContext(c, response)
      BY <3>3 DEF OpensContext, Box
    <3>5. QED
      BY <1>1, <2>2, <3>3, <3>4, NoContextFacts, FinishContexts
  <2>3. QED
    BY <1>3, <2>1, <2>2
<1>4. QED
  BY <1>2, <1>3 DEF Open

LEMMA DeleteContexts ==
    ASSUME CInv, NEW r \in Request, Delete(r)
    PROVE  CInv'
<1> DEFINE c == call[r]
           m == draft[r].mapping
           response == Ok("demask", DemaskLine(c.payload, m))
<1>1. /\ pc[r] = "delete" /\ UNCHANGED <<call, draft>> /\ Mode # "stateless"
      /\ Finish(r, response) /\ TypeOK'
  BY DeleteTypeOK DEF Delete, CInv, StepsOfOps
<1>2. IsMapping(m) /\ c.payload \in Text
  BY <1>1 DEF CInv, TypeOK, DraftsOK, ControlOK, CallsOK, IsCall
<1>3. IsAnswer(response) /\ response.context = NoContext
  BY <1>2, MappingRestores, OkFacts
<1> HIDE DEF response
<1>4. MakesContext(c, response) /\ OpensContext(c, response)
  BY <1>1, <1>3, NoContextFacts DEF OpensContext
<1>5. QED
  BY <1>1, <1>3, <1>4, FinishContexts

LEMMA InitCInv == Init => CInv
<1> SUFFICES ASSUME Init PROVE CInv
  OBVIOUS
<1>1. DOMAIN answer = {} /\ \A r \in Request : pc[r] = "idle"
  BY DEF Init
<1>2. QED
  BY <1>1, InitTypeOK DEF CInv, StepsOfOps

LEMMA NextCInv == CInv /\ [Next]_vars => CInv'
<1> SUFFICES ASSUME CInv, [Next]_vars PROVE CInv'
  OBVIOUS
<1>1. ASSUME NEW r \in Request,
             \/ Receive(r) \/ Lookup(r) \/ MaskText(r) \/ Put(r)
             \/ Timeout(r) \/ Open(r) \/ Delete(r)
      PROVE  CInv'
  BY <1>1, ReceiveContexts, LookupContexts, MaskTextContexts, PutContexts,
     TimeoutContexts, OpenContexts, DeleteContexts
<1>2. CASE UNCHANGED vars \/ \E s \in Session : Evict(s)
  <2>1. UNCHANGED <<call, pc, answer>>
    BY <1>2 DEF vars, Evict
  <2>2. TypeOK'
    BY NextTypeOK DEF CInv
  <2>3. QED
    BY <2>1, <2>2 DEF CInv, StepsOfOps, MakesContext, OpensContext
<1>3. QED
  BY <1>1, <1>2 DEF Next

LEMMA CInvRestores == CInv => ContextRestores
<1> SUFFICES ASSUME CInv, NEW f \in DOMAIN answer, NEW b \in DOMAIN answer,
                    answer[f].context.sealed,
                    call[b].op = "demask", call[b].context = answer[f].context,
                    call[b].payload = answer[f].text, Restorable(call[f].payload),
                    answer[b].status = "ok"
             PROVE  answer[b].text = call[f].payload
  BY DEF ContextRestores
<1> DEFINE m == answer[f].context.mapping
<1>1. /\ Mode = "stateless" /\ answer[f].text = m.masked
      /\ \E found \in SUBSET DOMAIN call[f].payload : m = MaskLine(call[f].payload, found)
  BY DEF CInv, MakesContext
<1>2. answer[b].text = DemaskLine(m.masked, m)
  BY <1>1 DEF CInv, OpensContext
<1>3. call[f].payload \in Text
  BY DEF CInv, TypeOK, ControlOK, CallsOK, IsCall
<1>4. QED
  BY <1>1, <1>2, <1>3, RestorableRestored

(* A context is enough to undo the mask it was given with, whatever runs,  *)
(* fails or is late meanwhile and whatever was found of the text.          *)
THEOREM GuardContextRestores == Spec => []ContextRestores
<1>1. QED
  BY InitCInv, NextCInv, CInvRestores, PTL DEF Spec

-----------------------------------------------------------------------------
LEMMA SameMaskLine ==
    ASSUME NEW t, NEW found
    PROVE  Contract!MaskLine(t, found) = MaskLine(t, found)
BY DEF Contract!MaskLine, MaskLine, Contract!Hits, Hits, Contract!Mask, Mask,
       Contract!WrittenAsIs, WrittenAsIs, Contract!Number, Number, Contract!Numbered, Numbered,
       Contract!FirstHit, FirstHit, Contract!SameKey, SameKey,
       Contract!Recorded, Recorded, Contract!Kind, Kind,
       Contract!Cardinality, Cardinality

LEMMA SameDemaskLine ==
    ASSUME NEW t, NEW m
    PROVE  Contract!DemaskLine(t, m) = DemaskLine(t, m)
BY DEF Contract!DemaskLine, DemaskLine, Contract!RestoreForms, RestoreForms,
       Contract!RestorePlaceholders, RestorePlaceholders, Contract!Target, Target,
       Contract!Known, Known, Contract!ByKey, ByKey, Contract!Placeholder, Placeholder

-----------------------------------------------------------------------------
(* The contract of a payload id, for one system on a vault in memory that  *)
(* evicts nothing.  Either the requests of an id do not overlap, or they   *)
(* do but detection is always complete and the system has one text to an   *)
(* id: then two requests that both miss store the same.                    *)

EntriesStay ==
    /\ Mode = "memory" /\ Ops \subseteq {"tz"} /\ System \subseteq MayDemask
    /\ "evict" \notin Trouble
    /\ \A y, z \in System : y = z
Serial == "overlap" \notin Trouble
Steady == "ner" \notin Trouble /\ "deadline" \notin Trouble
OneText == \A x \in System \X Session : \A t, u \in Inputs[x] : t = u
Orderly == EntriesStay /\ (Serial \/ (Steady /\ OneText))

\* The answer x to the call c is what the mapping m makes of it.
Follows(c, x, m) ==
    IF c.payload = m.original THEN x.step \in {"mask", "mask_retry"} /\ x.text = m.masked
    ELSE /\ x.step = "demask"
         /\ x.text = IF c.payload = m.masked THEN m.original ELSE DemaskLine(c.payload, m)

FollowsBinding(c, x) ==
    x.status = "ok" => /\ c.session \in DOMAIN vault
                       /\ Follows(c, x, vault[c.session].mapping)

\* A mapping that mask may have made of the text.
MadeOf(t, y, m) == \E d \in Detections(t, y) : m = MaskLine(t, d.seen)

TzOnly ==
    /\ \A r \in Request : pc[r] \notin {"open", "delete"}
    /\ \A r \in DOMAIN call : call[r].op = "tz"
OneAtATime ==
    Serial => /\ \A r, q \in InFlight : call[r].session = call[q].session => r = q
              /\ \A r \in Request :
                    pc[r] \in {"mask", "put"} => call[r].session \notin DOMAIN vault
DraftsMade ==
    \A r \in Request :
        pc[r] = "put" => MadeOf(call[r].payload, call[r].system, draft[r].mapping)
\* What is asked under an id that is not bound is a text of the client's own.
FirstIsOwn ==
    \A r \in InFlight :
        pc[r] \in {"mask", "put"} \/ call[r].session \notin DOMAIN vault
            => call[r].payload \in Inputs[<<call[r].system, call[r].session>>]
Bindings ==
    \A s \in DOMAIN vault :
        /\ vault[s].mapping.original \in Inputs[<<vault[s].system, s>>]
        /\ MadeOf(vault[s].mapping.original, vault[s].system, vault[s].mapping)

KInv ==
    /\ TypeOK /\ TzOnly /\ OneAtATime /\ DraftsMade /\ FirstIsOwn /\ Bindings
    /\ \A r \in DOMAIN answer : FollowsBinding(call[r], answer[r])

(* Detection that never fails and is never cut short finds one thing.      *)
LEMMA SteadyDetection ==
    ASSUME Steady, NEW t, NEW y, NEW m, NEW n, MadeOf(t, y, m), MadeOf(t, y, n)
    PROVE  m = n
<1>1. /\ Found({}, FALSE, FALSE).seen = {}
      /\ Found(Complete(t, y), FALSE, FALSE).seen = Complete(t, y)
  BY DEF Found
<1>2. Complete(t, y) = {} \/ HasPdSignal(t)
  BY DEF Complete
<1>3. \A d \in Detections(t, y) : d.seen = Complete(t, y)
  BY <1>1, <1>2 DEF Detections, Steady, Undisturbed
<1>4. QED
  BY <1>3 DEF MadeOf

(* The answers of process_tz under a binding.                              *)
LEMMA TzAnswerFollows ==
    ASSUME NEW c, NEW m
    PROVE  Follows(c, TzAnswer(c.payload, m), m)
BY DEF Follows, TzAnswer, Ok

(* Everything in the vault is of the one system and opens for it.          *)
LEMMA EntriesOpen ==
    ASSUME Orderly, KInv, NEW r \in DOMAIN call, call[r].session \in DOMAIN vault
    PROVE  /\ vault[call[r].session].system = call[r].system
           /\ Opens(vault[call[r].session], call[r].system, call[r].session)
BY DEF Orderly, EntriesStay, KInv, TypeOK, VaultOK, CallsOK, IsBox, IsCall, Opens

(* A request that is answered without anything stored.                     *)
LEMMA FinishFollows ==
    ASSUME KInv, NEW r \in Request, NEW response,
           pc[r] \notin {"idle", "done"}, IsAnswer(response),
           Finish(r, response), UNCHANGED <<vault, call, draft>>,
           FollowsBinding(call[r], response), TypeOK'
    PROVE  KInv'
<1>1. /\ DOMAIN answer' = DOMAIN answer \cup {r} /\ answer'[r] = response
      /\ \A q \in DOMAIN answer : answer'[q] = answer[q]
      /\ \A q \in Request : pc'[q] = IF q = r THEN "done" ELSE pc[q]
  BY FinishType DEF KInv, TypeOK
<1>2. TzOnly' /\ DraftsMade'
  BY <1>1 DEF KInv, TzOnly, DraftsMade
<1>3. InFlight' \subseteq InFlight \ {r} /\ InFlight \subseteq Request
  BY <1>1 DEF InFlight, KInv, TypeOK, ControlOK
<1>4. OneAtATime' /\ FirstIsOwn'
  BY <1>1, <1>3 DEF KInv, OneAtATime, FirstIsOwn
<1>5. Bindings'
  BY DEF KInv, Bindings
<1>6. \A q \in DOMAIN answer' : FollowsBinding(call[q], answer'[q])
  BY <1>1 DEF KInv
<1>7. QED
  BY <1>2, <1>4, <1>5, <1>6 DEF KInv, FollowsBinding

LEMMA ReceiveFollows ==
    ASSUME Orderly, KInv, NEW r \in Request, Receive(r)
    PROVE  /\ KInv'
           /\ r \notin DOMAIN call /\ DOMAIN call' = DOMAIN call \cup {r}
           /\ \A q \in DOMAIN call : call'[q] = call[q]
           /\ call'[r].session \in Session
           /\ UNCHANGED <<vault, answer>>
<1>. PICK op \in Ops, y \in System, s \in Session :
          \E t \in Payloads(y, s), c \in IF op = "demask" THEN Contexts ELSE {NoContext} :
             /\ "overlap" \in Trouble \/ \A q \in InFlight : call[q].session # s
             /\ call' = With(call, r, [op |-> op, system |-> y, session |-> s,
                                      payload |-> t, context |-> c])
             /\ pc' = [pc EXCEPT ![r] = FirstStep(op, y)]
  BY DEF Receive
<1>1. PICK t \in Payloads(y, s), c \in Contexts \cup {NoContext} :
             /\ "overlap" \in Trouble \/ \A q \in InFlight : call[q].session # s
             /\ call' = With(call, r, [op |-> op, system |-> y, session |-> s,
                                      payload |-> t, context |-> c])
             /\ pc' = [pc EXCEPT ![r] = FirstStep(op, y)]
  OBVIOUS
<1>2. op = "tz" /\ FirstStep(op, y) = "lookup"
  BY DEF FirstStep, Orderly, EntriesStay
<1>3. /\ pc[r] = "idle" /\ r \notin DOMAIN call /\ UNCHANGED <<vault, draft, answer>>
      /\ \A q \in Request : pc[q] # "idle" => q \in DOMAIN call
      /\ DOMAIN answer \subseteq DOMAIN call /\ DOMAIN call \subseteq Request
  BY DEF Receive, KInv, TypeOK, ControlOK
<1>4. /\ DOMAIN call' = DOMAIN call \cup {r}
      /\ call'[r].op = op /\ call'[r].session = s /\ call'[r].system = y
      /\ call'[r].payload = t
      /\ \A q \in DOMAIN call : call'[q] = call[q]
  BY <1>1, <1>3 DEF With
<1>5. \A q \in Request : pc'[q] = IF q = r THEN "lookup" ELSE pc[q]
  BY <1>1, <1>2 DEF KInv, TypeOK, ControlOK
<1>6. TzOnly'
  BY <1>2, <1>4, <1>5 DEF KInv, TzOnly
<1>7. DraftsMade'
  BY <1>3, <1>4, <1>5 DEF KInv, DraftsMade
<1>8. InFlight' \subseteq InFlight \cup {r}
  BY <1>3, <1>4 DEF InFlight
<1>9. OneAtATime'
  <2>1. SUFFICES ASSUME Serial
                 PROVE  /\ \A p, q \in InFlight' : call'[p].session = call'[q].session => p = q
                        /\ \A q \in Request : pc'[q] \in {"mask", "put"}
                              => call'[q].session \notin DOMAIN vault'
    BY DEF OneAtATime
  <2>2. \A q \in InFlight : q \in DOMAIN call /\ call[q].session # s
    BY <1>1, <2>1 DEF Serial, InFlight
  <2>3. \A p, q \in InFlight' : call'[p].session = call'[q].session => p = q
    BY <1>4, <1>8, <2>1, <2>2 DEF KInv, OneAtATime
  <2>4. \A q \in Request : pc'[q] \in {"mask", "put"} => call'[q].session \notin DOMAIN vault'
    BY <1>3, <1>4, <1>5, <2>1 DEF KInv, OneAtATime
  <2>5. QED
    BY <2>3, <2>4
<1>10. s \notin DOMAIN vault => t \in Inputs[<<y, s>>]
  <2>1. s \notin DOMAIN vault => Answered(y, s) = {}
    BY DEF KInv, FollowsBinding, Answered
  <2>2. QED
    BY <1>1, <2>1 DEF Payloads
<1>11. FirstIsOwn'
  <2>1. SUFFICES ASSUME NEW q \in InFlight',
                        pc'[q] \in {"mask", "put"} \/ call'[q].session \notin DOMAIN vault'
                 PROVE  call'[q].payload \in Inputs[<<call'[q].system, call'[q].session>>]
    BY DEF FirstIsOwn
  <2>2. CASE q = r
    BY <1>3, <1>4, <1>5, <1>10, <2>1, <2>2
  <2>3. CASE q # r
    BY <1>3, <1>4, <1>5, <1>8, <2>1, <2>3 DEF KInv, FirstIsOwn, InFlight
  <2>4. QED
    BY <2>2, <2>3
<1>12. Bindings'
  BY <1>3 DEF KInv, Bindings
<1>13. \A q \in DOMAIN answer' : FollowsBinding(call[q], answer[q]) /\ call'[q] = call[q]
  BY <1>3, <1>4 DEF KInv
<1>14. \A q \in DOMAIN answer' : FollowsBinding(call[q], answer[q])'
  BY <1>3, <1>13 DEF FollowsBinding
<1>15. QED
  BY <1>3, <1>4, <1>6, <1>7, <1>9, <1>11, <1>12, <1>14, ReceiveTypeOK DEF KInv

LEMMA LookupFollows ==
    ASSUME Orderly, KInv, NEW r \in Request, Lookup(r)
    PROVE  /\ KInv' /\ r \in DOMAIN call /\ UNCHANGED <<vault, call>>
           /\ \/ UNCHANGED answer
              \/ /\ call[r].session \in DOMAIN vault
                 /\ Finish(r, TzAnswer(call[r].payload, vault[call[r].session].mapping))
<1> DEFINE c == call[r]
           hit == c.session \in DOMAIN vault /\ Opens(vault[c.session], c.system, c.session)
<1>1. /\ pc[r] = "lookup" /\ r \in DOMAIN call /\ IsCall(c) /\ c.op = "tz"
      /\ UNCHANGED <<vault, call, draft>> /\ TypeOK'
  BY LookupTypeOK DEF Lookup, KInv, TypeOK, ControlOK, CallsOK, TzOnly
<1>2. CASE hit
  <2> DEFINE m == vault[c.session].mapping
             response == TzAnswer(c.payload, m)
  <2>1. Finish(r, response)
    BY <1>2 DEF Lookup
  <2>2. IsMapping(m) /\ c.payload \in Text
    BY <1>1, <1>2 DEF KInv, TypeOK, VaultOK, IsBox, IsCall
  <2>3. IsAnswer(response) /\ Follows(c, response, m)
    BY <2>2, TzAnswerFacts, TzAnswerFollows
  <2> HIDE DEF response
  <2>4. FollowsBinding(c, response)
    BY <1>2, <2>3 DEF FollowsBinding
  <2>5. KInv'
    BY <1>1, <2>1, <2>3, <2>4, FinishFollows
  <2>6. QED
    BY <1>1, <1>2, <2>1, <2>5 DEF response
<1>3. CASE ~hit
  <2>1. pc' = [pc EXCEPT ![r] = "mask"] /\ UNCHANGED answer
    BY <1>3 DEF Lookup
  <2>2. c.session \notin DOMAIN vault
    BY <1>1, <1>3, EntriesOpen
  <2>3. \A q \in Request : pc'[q] = IF q = r THEN "mask" ELSE pc[q]
    BY <1>1, <2>1, GoOnType DEF KInv, TypeOK
  <2>4. TzOnly' /\ DraftsMade'
    BY <1>1, <2>3 DEF KInv, TzOnly, DraftsMade
  <2>5. InFlight' = InFlight /\ InFlight \subseteq Request
    BY <1>1, <2>1 DEF InFlight, KInv, TypeOK, ControlOK
  <2>6. OneAtATime'
    BY <1>1, <2>2, <2>3, <2>5 DEF KInv, OneAtATime
  <2>7. FirstIsOwn'
    BY <1>1, <2>2, <2>3, <2>5 DEF KInv, FirstIsOwn
  <2>8. Bindings'
    BY <1>1 DEF KInv, Bindings
  <2>9. QED
    BY <1>1, <2>1, <2>4, <2>6, <2>7, <2>8 DEF KInv, FollowsBinding
<1>4. QED
  BY <1>2, <1>3

LEMMA MaskTextFollows ==
    ASSUME Orderly, KInv, NEW r \in Request, MaskText(r)
    PROVE  /\ KInv' /\ r \in DOMAIN call /\ UNCHANGED <<vault, call>>
           /\ \/ UNCHANGED answer
              \/ \E status \in {"unavailable", "closed"} : Finish(r, Error(status))
<1> DEFINE c == call[r]
<1>1. /\ pc[r] = "mask" /\ r \in DOMAIN call /\ IsCall(c) /\ c.op = "tz"
      /\ c.system \in MayDemask /\ Mode = "memory"
      /\ UNCHANGED <<vault, call>> /\ TypeOK'
  BY MaskTextTypeOK
     DEF MaskText, Orderly, EntriesStay, KInv, TypeOK, ControlOK, CallsOK, IsCall, TzOnly
<1>2. \/ /\ UNCHANGED draft
         /\ \E status \in {"unavailable", "closed"} : Finish(r, Error(status))
      \/ \E d \in Detections(c.payload, c.system) :
            KeepMapping(r, c, MaskLine(c.payload, d.seen), d.degraded)
  <2>1. c.op # "dry_run"
    BY <1>1
  <2>2. QED
    BY <2>1, MaskTextCases
<1>3. ASSUME UNCHANGED draft,
             NEW status \in {"unavailable", "closed"}, Finish(r, Error(status))
      PROVE  KInv'
  <2>1. IsAnswer(Error(status)) /\ Error(status).status # "ok"
    BY ErrorFacts DEF Error, Ok
  <2>2. FollowsBinding(c, Error(status))
    BY <2>1 DEF FollowsBinding
  <2>3. QED
    BY <1>1, <1>3, <2>1, <2>2, FinishFollows
<1>4. ASSUME NEW d \in Detections(c.payload, c.system),
             KeepMapping(r, c, MaskLine(c.payload, d.seen), d.degraded)
      PROVE  KInv' /\ UNCHANGED answer
  <2> DEFINE m == MaskLine(c.payload, d.seen)
  <2>1. /\ draft' = [draft EXCEPT ![r] = [mapping |-> m, degraded |-> d.degraded]]
        /\ pc' = [pc EXCEPT ![r] = "put"]
        /\ UNCHANGED answer
    BY <1>1, <1>4 DEF KeepMapping
  <2>2. MadeOf(c.payload, c.system, m)
    BY DEF MadeOf
  <2> HIDE DEF m
  <2>3. \A q \in Request : pc'[q] = IF q = r THEN "put" ELSE pc[q]
    BY <1>1, <2>1, GoOnType DEF KInv, TypeOK
  <2>4. draft'[r].mapping = m /\ \A q \in Request : q # r => draft'[q] = draft[q]
    BY <2>1 DEF KInv, TypeOK, DraftsOK
  <2>5. TzOnly'
    BY <1>1, <2>3 DEF KInv, TzOnly
  <2>6. DraftsMade'
    BY <1>1, <2>2, <2>3, <2>4 DEF KInv, DraftsMade
  <2>7. InFlight' = InFlight /\ InFlight \subseteq Request
    BY <1>1, <2>1 DEF InFlight, KInv, TypeOK, ControlOK
  <2>8. OneAtATime' /\ FirstIsOwn'
    BY <1>1, <2>3, <2>7 DEF KInv, OneAtATime, FirstIsOwn
  <2>9. Bindings'
    BY <1>1 DEF KInv, Bindings
  <2>10. QED
    BY <1>1, <2>1, <2>5, <2>6, <2>8, <2>9 DEF KInv, FollowsBinding
<1>5. QED
  BY <1>1, <1>2, <1>3, <1>4

LEMMA TimeoutFollows ==
    ASSUME KInv, NEW r \in Request, Timeout(r)
    PROVE  KInv' /\ r \in DOMAIN call /\ UNCHANGED <<vault, call>> /\ Finish(r, Error("timeout"))
<1>1. /\ pc[r] = "mask" /\ r \in DOMAIN call /\ Finish(r, Error("timeout"))
      /\ UNCHANGED <<vault, call, draft>> /\ TypeOK'
  BY TimeoutTypeOK DEF Timeout, KInv, TypeOK, ControlOK
<1>2. IsAnswer(Error("timeout")) /\ Error("timeout").status # "ok"
  BY ErrorFacts DEF Error, Ok
<1>3. FollowsBinding(call[r], Error("timeout"))
  BY <1>2 DEF FollowsBinding
<1>4. QED
  BY <1>1, <1>2, <1>3, FinishFollows

(* What put stores is what the id is bound to already, if it is bound.     *)
LEMMA PutAgrees ==
    ASSUME Orderly, KInv, NEW r \in Request, Put(r),
           call[r].session \in DOMAIN vault
    PROVE  /\ vault[call[r].session].mapping = draft[r].mapping
           /\ vault[call[r].session] = Seal(call[r].system, call[r].session, draft[r].mapping)
<1> DEFINE c == call[r]
           box == vault[c.session]
<1>1. pc[r] = "put" /\ r \in DOMAIN call /\ IsCall(c) /\ r \in InFlight
  BY DEF Put, KInv, TypeOK, ControlOK, CallsOK, InFlight
<1>2. Steady /\ OneText
  BY <1>1 DEF Orderly, KInv, OneAtATime
<1>3. box.system = c.system
  BY <1>1, EntriesOpen
<1>4. box.mapping.original = c.payload
  <2>1. /\ c.payload \in Inputs[<<c.system, c.session>>]
        /\ box.mapping.original \in Inputs[<<c.system, c.session>>]
    BY <1>1, <1>3 DEF KInv, FirstIsOwn, Bindings
  <2>2. <<c.system, c.session>> \in System \X Session
    BY <1>1 DEF IsCall
  <2>3. QED
    BY <1>2, <2>1, <2>2 DEF OneText
<1>5. /\ MadeOf(c.payload, c.system, draft[r].mapping)
      /\ MadeOf(c.payload, c.system, box.mapping)
  BY <1>1, <1>3, <1>4 DEF KInv, DraftsMade, Bindings
<1>6. box.mapping = draft[r].mapping
  BY <1>2, <1>5, SteadyDetection
<1>7. box = Seal(c.system, c.session, box.mapping)
  BY <1>3 DEF KInv, TypeOK, VaultOK, IsBox
<1>8. QED
  BY <1>6, <1>7

LEMMA PutFollows ==
    ASSUME Orderly, KInv, NEW r \in Request, Put(r)
    PROVE  /\ KInv' /\ r \in DOMAIN call /\ UNCHANGED call
           /\ IsMapping(draft[r].mapping)
           /\ MadeOf(call[r].payload, call[r].system, draft[r].mapping)
           /\ DOMAIN vault' = DOMAIN vault \cup {call[r].session}
           /\ vault'[call[r].session].mapping = draft[r].mapping
           /\ \A s \in DOMAIN vault : vault'[s] = vault[s]
           /\ Finish(r, Ok("mask", draft[r].mapping.masked))
<1> DEFINE c == call[r]
           m == draft[r].mapping
           box == Seal(c.system, c.session, m)
           response == Ok("mask", m.masked)
<1>1. /\ pc[r] = "put" /\ r \in DOMAIN call /\ IsCall(c) /\ c.op = "tz" /\ r \in InFlight
      /\ vault' = With(vault, c.session, box) /\ UNCHANGED <<call, draft>>
      /\ IsMapping(m) /\ TypeOK'
  BY PutTypeOK DEF Put, KInv, TypeOK, ControlOK, CallsOK, DraftsOK, TzOnly, InFlight
<1>2. Finish(r, response)
  BY <1>1 DEF Put, Masked
<1>3. box.system = c.system /\ box.mapping = m
  BY <1>1, SealIsBox DEF IsCall
<1> HIDE DEF box
<1>4. /\ DOMAIN vault' = DOMAIN vault \cup {c.session} /\ vault'[c.session] = box
      /\ \A s \in DOMAIN vault : vault'[s] = vault[s]
  <2>1. /\ DOMAIN vault' = DOMAIN vault \cup {c.session} /\ vault'[c.session] = box
        /\ \A s \in DOMAIN vault : s # c.session => vault'[s] = vault[s]
    BY <1>1 DEF With
  <2>2. c.session \in DOMAIN vault => vault[c.session] = box
    BY PutAgrees DEF box
  <2>3. QED
    BY <2>1, <2>2
<1>5. MadeOf(c.payload, c.system, m) /\ m.original = c.payload /\ m.masked \in Text
  <2>1. MadeOf(c.payload, c.system, m)
    BY <1>1 DEF KInv, DraftsMade
  <2>2. PICK d \in Detections(c.payload, c.system) : m = MaskLine(c.payload, d.seen)
    BY <2>1 DEF MadeOf
  <2>3. m.original = c.payload
    BY <2>2 DEF MaskLine
  <2>4. QED
    BY <1>1, <2>1, <2>3, MappingRestores DEF IsCall
<1>6. IsAnswer(response) /\ Follows(c, response, m)
  BY <1>5, OkFacts DEF Follows, Ok
<1>7. /\ DOMAIN answer' = DOMAIN answer \cup {r} /\ answer'[r] = response
      /\ \A q \in DOMAIN answer : answer'[q] = answer[q]
      /\ \A q \in Request : pc'[q] = IF q = r THEN "done" ELSE pc[q]
  BY <1>1, <1>2, <1>6, FinishType DEF KInv, TypeOK
<1> HIDE DEF response
<1>8. InFlight' \subseteq InFlight \ {r} /\ InFlight \subseteq Request
  BY <1>1, <1>7 DEF InFlight, KInv, TypeOK, ControlOK
<1>9. TzOnly' /\ DraftsMade'
  BY <1>1, <1>7 DEF KInv, TzOnly, DraftsMade
<1>10. OneAtATime'
  <2>1. SUFFICES ASSUME Serial
                 PROVE  /\ \A p, q \in InFlight' : call'[p].session = call'[q].session => p = q
                        /\ \A q \in Request : pc'[q] \in {"mask", "put"}
                              => call'[q].session \notin DOMAIN vault'
    BY DEF OneAtATime
  <2>2. \A p, q \in InFlight' : call'[p].session = call'[q].session => p = q
    BY <1>1, <1>8, <2>1 DEF KInv, OneAtATime
  <2>3. ASSUME NEW q \in Request, pc'[q] \in {"mask", "put"}
        PROVE  call'[q].session \notin DOMAIN vault'
    <3>1. q # r /\ pc[q] \in {"mask", "put"}
      BY <1>7, <2>3
    <3>2. q \in InFlight
      BY <3>1 DEF InFlight, KInv, TypeOK, ControlOK
    <3>3. call[q].session # c.session /\ call[q].session \notin DOMAIN vault
      BY <1>1, <2>1, <3>1, <3>2 DEF KInv, OneAtATime
    <3>4. QED
      BY <1>1, <1>4, <3>3
  <2>4. QED
    BY <2>2, <2>3
<1>11. FirstIsOwn'
  BY <1>1, <1>4, <1>7, <1>8 DEF KInv, FirstIsOwn
<1>12. Bindings'
  <2>1. c.payload \in Inputs[<<c.system, c.session>>]
    BY <1>1 DEF KInv, FirstIsOwn
  <2>2. ASSUME NEW s \in DOMAIN vault'
        PROVE  /\ vault'[s].mapping.original \in Inputs[<<vault'[s].system, s>>]
               /\ MadeOf(vault'[s].mapping.original, vault'[s].system, vault'[s].mapping)
    BY <1>3, <1>4, <1>5, <2>1, <2>2 DEF KInv, Bindings
  <2>3. QED
    BY <2>2 DEF Bindings
<1>13. ASSUME NEW q \in DOMAIN answer'
       PROVE  FollowsBinding(call[q], answer[q])'
  <2>1. CASE q = r
    BY <1>1, <1>3, <1>4, <1>6, <1>7, <2>1 DEF FollowsBinding
  <2>2. CASE q # r
    BY <1>1, <1>4, <1>7, <2>2 DEF KInv, FollowsBinding
  <2>3. QED
    BY <2>1, <2>2
<1>14. KInv'
  BY <1>1, <1>9, <1>10, <1>11, <1>12, <1>13 DEF KInv
<1>15. QED
  BY <1>1, <1>2, <1>3, <1>4, <1>5, <1>14 DEF response

LEMMA InitKInv == Init => KInv
<1> SUFFICES ASSUME Init PROVE KInv
  OBVIOUS
<1>1. /\ DOMAIN answer = {} /\ DOMAIN call = {} /\ DOMAIN vault = {}
      /\ \A r \in Request : pc[r] = "idle"
  BY DEF Init
<1>2. QED
  BY <1>1, InitTypeOK
     DEF KInv, TzOnly, OneAtATime, DraftsMade, FirstIsOwn, Bindings, InFlight

(* A request waits for no entry to be opened or deleted and none is        *)
(* evicted, so these are all the steps there are.                          *)
LEMMA OrderlySteps ==
    ASSUME Orderly, KInv, [Next]_vars
    PROVE  \/ \E r \in Request : Receive(r) \/ Lookup(r) \/ MaskText(r) \/ Put(r) \/ Timeout(r)
           \/ UNCHANGED vars
<1>1. \A s \in Session : ~Evict(s)
  BY DEF Evict, Orderly, EntriesStay
<1>2. \A r \in Request : ~Open(r) /\ ~Delete(r)
  BY DEF KInv, TzOnly, Open, Delete
<1>3. QED
  BY <1>1, <1>2 DEF Next

LEMMA NextKInv == Orderly /\ KInv /\ [Next]_vars => KInv'
<1> SUFFICES ASSUME Orderly, KInv, [Next]_vars PROVE KInv'
  OBVIOUS
<1>1. ASSUME NEW r \in Request,
             Receive(r) \/ Lookup(r) \/ MaskText(r) \/ Put(r) \/ Timeout(r)
      PROVE  KInv'
  BY <1>1, ReceiveFollows, LookupFollows, MaskTextFollows, PutFollows, TimeoutFollows
<1>2. CASE UNCHANGED vars
  <2>1. TypeOK'
    BY NextTypeOK DEF KInv
  <2>2. QED
    BY <1>2, <2>1 DEF vars, KInv, TzOnly, OneAtATime, DraftsMade, FirstIsOwn,
                      Bindings, FollowsBinding, InFlight
<1>3. QED
  BY <1>1, <1>2, OrderlySteps

-----------------------------------------------------------------------------
(* Each step is a step of the contract, or none.                           *)

(* An answer is the first one its request gets.                            *)
LEMMA FinishExtends ==
    ASSUME TypeOK, NEW r \in Request, pc[r] # "done", NEW response, Finish(r, response)
    PROVE  /\ r \notin DOMAIN answer
           /\ DOMAIN answer' = DOMAIN answer \cup {r} /\ answer'[r] = response
           /\ \A q \in DOMAIN answer : answer'[q] = answer[q]
<1>1. r \notin DOMAIN answer
  BY DEF TypeOK, ControlOK
<1>2. QED
  BY <1>1 DEF Finish, With

LEMMA ContractAsk ==
    ASSUME NEW r \in Request, r \notin DOMAIN call,
           DOMAIN call' = DOMAIN call \cup {r},
           \A q \in DOMAIN call : call'[q] = call[q],
           call'[r].session \in Session, UNCHANGED <<vault, answer>>
    PROVE  Contract!Ask(r)
BY DEF Contract!Ask, Contract!Extends

LEMMA ContractRefuse ==
    ASSUME TypeOK, NEW r \in DOMAIN call, r \in Request, pc[r] # "done",
           NEW status \in {"unavailable", "timeout", "closed"}, Finish(r, Error(status)),
           UNCHANGED <<vault, call>>
    PROVE  Contract!Refuse(r)
<1>1. Error(status).status # "ok"
  BY DEF Error, Ok
<1>2. /\ r \notin DOMAIN answer
      /\ DOMAIN answer' = DOMAIN answer \cup {r} /\ answer'[r] = Error(status)
      /\ \A q \in DOMAIN answer : answer'[q] = answer[q]
  BY FinishExtends
<1>3. QED
  BY <1>1, <1>2 DEF Contract!Refuse, Contract!Refused, Refusal,
                    Contract!Answers, Contract!Extends

LEMMA ContractRecall ==
    ASSUME TypeOK, NEW r \in DOMAIN call, r \in Request, pc[r] # "done",
           call[r].session \in DOMAIN vault, UNCHANGED call,
           DOMAIN vault' = DOMAIN vault, \A s \in DOMAIN vault : vault'[s] = vault[s],
           NEW response, response.status = "ok", Finish(r, response),
           Follows(call[r], response, vault[call[r].session].mapping)
    PROVE  Contract!Recall(r)
<1> DEFINE m == vault[call[r].session].mapping
           payload == call[r].payload
<1>1. /\ r \notin DOMAIN answer
      /\ DOMAIN answer' = DOMAIN answer \cup {r} /\ answer'[r] = response
      /\ \A q \in DOMAIN answer : answer'[q] = answer[q]
  BY FinishExtends
<1>2. response.text = CASE payload = m.original -> m.masked
                        [] payload # m.original /\ payload = m.masked -> m.original
                        [] OTHER -> Contract!DemaskLine(payload, m)
  BY SameDemaskLine DEF Follows
<1>3. QED
  BY <1>1, <1>2 DEF Contract!Recall, Contract!Answers, Contract!Extends

LEMMA ContractBind ==
    ASSUME TypeOK, NEW r \in DOMAIN call, r \in Request, pc[r] # "done",
           NEW s, s = call[r].session, s \notin DOMAIN vault, UNCHANGED call,
           DOMAIN vault' = DOMAIN vault \cup {s},
           \A z \in DOMAIN vault : vault'[z] = vault[z],
           NEW found \in SUBSET DOMAIN call[r].payload,
           vault'[s].mapping = MaskLine(call[r].payload, found),
           NEW response, response.status = "ok", Finish(r, response),
           response.text = vault'[s].mapping.masked
    PROVE  Contract!Bind(r)
<1>1. /\ r \notin DOMAIN answer
      /\ DOMAIN answer' = DOMAIN answer \cup {r} /\ answer'[r] = response
      /\ \A q \in DOMAIN answer : answer'[q] = answer[q]
  BY FinishExtends
<1>2. vault'[s].mapping = Contract!MaskLine(call[r].payload, found)
  BY SameMaskLine
<1>3. \E seen \in SUBSET DOMAIN call[r].payload :
         vault'[s].mapping = Contract!MaskLine(call[r].payload, seen)
  BY <1>2
<1>4. QED
  BY <1>1, <1>3 DEF Contract!Bind, Contract!Answers, Contract!Extends

LEMMA StepKeepsContract ==
    ASSUME Orderly, KInv, [Next]_vars
    PROVE  [Contract!Next]_(Contract!contract)
<1> USE DEF Contract!Next
<1>1. ASSUME NEW r \in Request, Receive(r)
      PROVE  Contract!Next
  BY <1>1, ReceiveFollows, ContractAsk
<1>2. ASSUME UNCHANGED <<vault, call, answer>>
      PROVE  UNCHANGED Contract!contract
  BY <1>2 DEF Contract!contract
<1>3. ASSUME NEW r \in Request, Lookup(r)
      PROVE  [Contract!Next]_(Contract!contract)
  <2> DEFINE m == vault[call[r].session].mapping
             response == TzAnswer(call[r].payload, m)
  <2>1. r \in DOMAIN call /\ UNCHANGED <<vault, call>> /\ pc[r] = "lookup" /\ TypeOK
    BY <1>3, LookupFollows DEF Lookup, KInv
  <2>2. CASE UNCHANGED answer
    BY <1>2, <2>1, <2>2
  <2>3. CASE call[r].session \in DOMAIN vault /\ Finish(r, response)
    <3>1. response.status = "ok" /\ Follows(call[r], response, m)
      BY TzAnswerFollows DEF TzAnswer, Ok
    <3> HIDE DEF response
    <3>2. Contract!Recall(r)
      BY <2>1, <2>3, <3>1, ContractRecall
    <3>3. QED
      BY <2>1, <3>2
  <2>4. QED
    BY <1>3, <2>2, <2>3, LookupFollows
<1>4. ASSUME NEW r \in Request, MaskText(r) \/ Timeout(r)
      PROVE  [Contract!Next]_(Contract!contract)
  <2>1. /\ r \in DOMAIN call /\ UNCHANGED <<vault, call>> /\ pc[r] = "mask" /\ TypeOK
        /\ \/ UNCHANGED answer
           \/ \E status \in {"unavailable", "timeout", "closed"} : Finish(r, Error(status))
    BY <1>4, MaskTextFollows, TimeoutFollows DEF MaskText, Timeout, KInv
  <2>2. CASE UNCHANGED answer
    BY <1>2, <2>1, <2>2
  <2>3. CASE \E status \in {"unavailable", "timeout", "closed"} : Finish(r, Error(status))
    BY <2>1, <2>3, ContractRefuse
  <2>4. QED
    BY <2>1, <2>2, <2>3
<1>5. ASSUME NEW r \in Request, Put(r)
      PROVE  Contract!Next
  <2> DEFINE c == call[r]
             m == draft[r].mapping
             response == Ok("mask", m.masked)
  <2>1. /\ r \in DOMAIN call /\ UNCHANGED call /\ pc[r] = "put" /\ TypeOK
        /\ MadeOf(c.payload, c.system, m)
        /\ DOMAIN vault' = DOMAIN vault \cup {c.session}
        /\ vault'[c.session].mapping = m
        /\ \A s \in DOMAIN vault : vault'[s] = vault[s]
        /\ Finish(r, response)
    BY <1>5, PutFollows DEF Put, KInv
  <2>2. PICK found \in SUBSET DOMAIN c.payload : m = MaskLine(c.payload, found)
    BY <2>1, DetectionsType DEF MadeOf
  <2>3. m.original = c.payload
    BY <2>2 DEF MaskLine
  <2>4. response.status = "ok" /\ response.text = m.masked /\ response.step = "mask"
    BY DEF Ok
  <2> HIDE DEF response
  <2>5. CASE c.session \in DOMAIN vault
    <3>1. vault[c.session] = Seal(c.system, c.session, m) /\ vault[c.session].mapping = m
      BY <1>5, <2>5, PutAgrees
    <3>2. DOMAIN vault' = DOMAIN vault
      BY <2>1, <2>5
    <3>3. Follows(c, response, m)
      BY <2>3, <2>4 DEF Follows
    <3>4. Contract!Recall(r)
      BY <2>1, <2>4, <2>5, <3>1, <3>2, <3>3, ContractRecall
    <3>5. QED
      BY <2>1, <3>4
  <2>6. CASE c.session \notin DOMAIN vault
    <3>1. Contract!Bind(r)
      BY <2>1, <2>2, <2>4, <2>6, ContractBind
    <3>2. QED
      BY <2>1, <3>1
  <2>7. QED
    BY <2>5, <2>6
<1>6. CASE UNCHANGED vars
  BY <1>2, <1>6 DEF vars
<1>7. QED
  BY <1>1, <1>3, <1>4, <1>5, <1>6, OrderlySteps

LEMMA InitKeepsContract == Init => Contract!Init
BY DEF Init, Contract!Init

(* The service does what a payload id promises when entries stay, and the  *)
(* requests of an id do not overlap or do not differ: every step is one of *)
(* SessionContract or none, for any number of requests and ids.            *)
THEOREM GuardKeepsContract ==
    ASSUME Orderly
    PROVE  Spec => KeepsContract
<1>1. Init => KInv /\ Contract!Init
  BY InitKInv, InitKeepsContract
<1>2. KInv /\ [Next]_vars => KInv'
  BY NextKInv
<1>3. KInv /\ [Next]_vars => [Contract!Next]_(Contract!contract)
  BY StepKeepsContract
<1>4. QED
  BY <1>1, <1>2, <1>3, PTL DEF Spec, KeepsContract, Contract!Spec

LEMMA KInvAnswers ==
    ASSUME Orderly, KInv, NEW f \in Request, NEW b \in Request, SamePair(f, b)
    PROVE  LET m == vault[call[f].session].mapping
           IN Follows(call[f], answer[f], m) /\ Follows(call[b], answer[b], m)
BY DEF KInv, SamePair, FollowsBinding

(* A mask sent back under its payload id is answered with the text, also   *)
(* when other requests of the id run meanwhile.                            *)
THEOREM GuardReverseRestores ==
    ASSUME Orderly
    PROVE  Spec => []ReverseRestores
<1>1. KInv => ReverseRestores
  <2>1. SUFFICES ASSUME KInv, NEW f \in Request, NEW b \in Request, SamePair(f, b),
                        answer[f].step = "mask", answer[f].text # call[f].payload,
                        call[b].payload = answer[f].text
                 PROVE  answer[b].text = call[f].payload
    BY DEF ReverseRestores
  <2>2. QED
    BY <2>1, KInvAnswers DEF Follows
<1>2. Init => KInv
  BY InitKInv
<1>3. KInv /\ [Next]_vars => KInv'
  BY NextKInv
<1>4. QED
  BY <1>1, <1>2, <1>3, PTL DEF Spec

(* Retries under a payload id get one mask, although masking an unknown    *)
(* text may end in different masks.                                        *)
THEOREM GuardRetryGetsSameMask ==
    ASSUME Orderly
    PROVE  Spec => []RetryGetsSameMask
<1>1. KInv => RetryGetsSameMask
  <2>1. SUFFICES ASSUME KInv, NEW f \in Request, NEW b \in Request, SamePair(f, b),
                        call[f].payload = call[b].payload,
                        answer[f].step \in {"mask", "mask_retry"},
                        answer[b].step \in {"mask", "mask_retry"}
                 PROVE  answer[f].text = answer[b].text
    BY DEF RetryGetsSameMask
  <2>2. QED
    BY <2>1, KInvAnswers DEF Follows
<1>2. Init => KInv
  BY InitKInv
<1>3. KInv /\ [Next]_vars => KInv'
  BY NextKInv
<1>4. QED
  BY <1>1, <1>2, <1>3, PTL DEF Spec

(* A client that has one text to an id is never answered with that text    *)
(* restored.                                                               *)
THEOREM GuardForwardIsMasked ==
    ASSUME Orderly, OneText
    PROVE  Spec => []ForwardIsMasked
<1>1. KInv => ForwardIsMasked
  <2>1. SUFFICES ASSUME KInv, NEW r \in DOMAIN answer,
                        call[r].op = "tz", answer[r].status = "ok",
                        call[r].payload \in Inputs[<<call[r].system, call[r].session>>]
                 PROVE  answer[r].step \in {"mask", "mask_retry"}
    BY DEF ForwardIsMasked
  <2> DEFINE c == call[r]
             box == vault[c.session]
  <2>2. r \in DOMAIN call /\ IsCall(c)
    BY <2>1 DEF KInv, TypeOK, ControlOK, CallsOK
  <2>3. c.session \in DOMAIN vault /\ Follows(c, answer[r], box.mapping)
    BY <2>1 DEF KInv, FollowsBinding
  <2>4. box.system = c.system
    BY <2>1, <2>2, <2>3, EntriesOpen
  <2>5. box.mapping.original \in Inputs[<<c.system, c.session>>]
    BY <2>1, <2>3, <2>4 DEF KInv, Bindings
  <2>6. <<c.system, c.session>> \in System \X Session
    BY <2>2 DEF IsCall
  <2>7. c.payload = box.mapping.original
    BY <2>1, <2>5, <2>6 DEF OneText
  <2>8. QED
    BY <2>3, <2>7 DEF Follows
<1>2. Init => KInv
  BY InitKInv
<1>3. KInv /\ [Next]_vars => KInv'
  BY NextKInv
<1>4. QED
  BY <1>1, <1>2, <1>3, PTL DEF Spec

=============================================================================
