---------------------------- MODULE GuardService ----------------------------
(***************************************************************************)
(* GuardService behind POST /process: the calls mask, dry run, demask and  *)
(* process_tz ("tz", the payload_id contract), running concurrently on one *)
(* vault of sealed mappings.                                               *)
(*                                                                         *)
(* One action is what a call does between two points where it gives up the *)
(* processor: the vault operations, the wait for the named entity engine   *)
(* and, for a heavy text, for the blocking pool.  The request future can   *)
(* be dropped by the handler's timeout only at the last two.               *)
(*                                                                         *)
(* vault_mode redis cannot be reached: RedisVault::new always fails and    *)
(* the service does not start.  MemoryVault returns no error, so the error *)
(* branches of get and put, which have the effect of a miss and of a 503,  *)
(* are never taken and are left out.                                       *)
(***************************************************************************)
EXTENDS Detection

CONSTANTS
    Session,            \* session ids and payload ids
    Request,            \* the requests the run may see
    Mode,               \* vault_mode
    MayDemask,          \* systems whose policy has demask
    NerMustWork,        \* systems whose policy has ner_on_failure: fail
    DeleteAfterDemask,  \* vault.delete_after_demask
    Ops,                \* the operations the clients use
    Inputs              \* Inputs[<<y, s>>]: what y sends under s on its own

ASSUME ServiceAssumption ==
    /\ Mode \in {"memory", "stateless"}
    /\ MayDemask \subseteq System /\ NerMustWork \subseteq System
    /\ DeleteAfterDemask \in BOOLEAN
    /\ Ops \subseteq {"tz", "mask", "dry_run", "demask"}
    /\ Inputs \in [System \X Session -> SUBSET Text]

VARIABLES
    vault,    \* vault[s]: the sealed mapping of session s, while it is kept
    call,     \* call[r]: what request r asked, once it was received
    pc,       \* pc[r]: where the handling of r is
    draft,    \* draft[r]: the mapping r computed or opened, and its quality
    answer    \* answer[r]: the response, once it was sent

vars == <<vault, call, pc, draft, answer>>

NoContext == [sealed |-> FALSE]
NoDraft == [mapping |-> [original |-> <<>>, masked |-> <<>>, entries |-> <<>>],
            degraded |-> FALSE]

\* encrypt_mapping: the key is derived from the session and the system, the
\* system is authenticated too.
Seal(y, s, mapping) ==
    [sealed |-> TRUE, system |-> y, session |-> s, mapping |-> mapping]

\* decrypt_mapping succeeds.  (Mutants, here and below: definitions named
\* for a bug that the definition after them is checked not to have.)
OpensForAnySystem(box, y, s) == box.session = s
Opens(box, y, s) == box.system = y /\ box.session = s

InFlight == DOMAIN call \ DOMAIN answer

With(f, x, value) == [y \in DOMAIN f \cup {x} |-> IF y = x THEN value ELSE f[y]]

Ok(step, text) ==
    [status |-> "ok", step |-> step, text |-> text,
     degraded |-> FALSE, context |-> NoContext]
Error(status) == [Ok("none", <<>>) EXCEPT !.status = status]

FinishAndGoOn(r, response) ==
    /\ answer' = With(answer, r, response)
    /\ UNCHANGED pc
Finish(r, response) ==
    /\ answer' = With(answer, r, response)
    /\ pc' = [pc EXCEPT ![r] = "done"]

Init ==
    /\ vault = <<>> /\ call = <<>> /\ answer = <<>>
    /\ pc = [r \in Request |-> "idle"]
    /\ draft = [r \in Request |-> NoDraft]

-----------------------------------------------------------------------------
(* Clients (external).  A system sends the texts it has under a session    *)
(* and what came back to it there, as it was or rewritten.                 *)

Rewrites(t) == {t, [p \in DOMAIN t |-> t[Len(t) + 1 - p]]}

Answered(y, s) ==
    {r \in DOMAIN answer : /\ call[r].system = y /\ call[r].session = s
                           /\ answer[r].status = "ok"}

Payloads(y, s) ==
    Inputs[<<y, s>>] \cup UNION {Rewrites(answer[r].text) : r \in Answered(y, s)}

Contexts == {NoContext} \cup {answer[r].context : r \in DOMAIN answer}

FirstStep(op, y) ==
    CASE op = "demask" -> "open"
      [] op = "tz" /\ y \in MayDemask /\ Mode = "memory" -> "lookup"
      [] OTHER -> "mask"

Receive(r) ==
    /\ pc[r] = "idle"
    /\ \E op \in Ops, y \in System, s \in Session :
       \E t \in Payloads(y, s), c \in IF op = "demask" THEN Contexts ELSE {NoContext} :
          /\ "overlap" \in Trouble \/ \A q \in InFlight : call[q].session # s
          /\ call' = With(call, r, [op |-> op, system |-> y, session |-> s,
                                   payload |-> t, context |-> c])
          /\ pc' = [pc EXCEPT ![r] = FirstStep(op, y)]
    /\ UNCHANGED <<vault, draft, answer>>

-----------------------------------------------------------------------------
(* process_tz.                                                             *)

\* The answer to a payload under a session that is already known.
TzAnswerNoRepeat(payload, m) ==
    IF payload = m.masked THEN Ok("demask", m.original)
    ELSE Ok("demask", DemaskLine(payload, m))
TzAnswerEcho(payload, m) ==
    IF payload \in {m.original, m.masked} THEN Ok("mask_retry", m.masked)
    ELSE Ok("demask", DemaskLine(payload, m))
TzAnswer(payload, m) ==
    IF payload = m.original THEN Ok("mask_retry", m.masked)
    ELSE IF payload = m.masked THEN Ok("demask", m.original)
    ELSE Ok("demask", DemaskLine(payload, m))

\* lookup_mapping: no entry and an entry that does not open are both a miss.
LookupMisses(r) ==
    /\ pc[r] = "lookup"
    /\ pc' = [pc EXCEPT ![r] = "mask"]
    /\ UNCHANGED <<vault, call, draft, answer>>
Lookup(r) ==
    LET c == call[r]
        hit == c.session \in DOMAIN vault /\ Opens(vault[c.session], c.system, c.session)
    IN /\ pc[r] = "lookup"
       /\ \/ /\ hit
             /\ Finish(r, TzAnswer(c.payload, vault[c.session].mapping))
          \/ /\ ~hit
             /\ pc' = [pc EXCEPT ![r] = "mask"]
             /\ UNCHANGED answer
       /\ UNCHANGED <<vault, call, draft>>

-----------------------------------------------------------------------------
(* mask.                                                                   *)

\* The response to a text that was masked; the answer to a payload_id
\* request is the result alone.
Masked(c, text, degraded, context) ==
    IF c.op = "tz" THEN Ok("mask", text)
    ELSE [Ok("mask", text) EXCEPT !.degraded = degraded, !.context = context]

\* What mask does with the mapping m it built for the call c.
KeepMapping(r, c, m, degraded) ==
    \/ /\ c.system \notin MayDemask
       /\ Finish(r, Masked(c, m.masked, degraded, NoContext))
       /\ UNCHANGED draft
    \/ /\ c.system \in MayDemask /\ Mode = "stateless"
       /\ Finish(r, Masked(c, m.masked, degraded, Seal(c.system, c.session, m)))
       /\ UNCHANGED draft
    \/ /\ c.system \in MayDemask /\ Mode = "memory"
       /\ draft' = [draft EXCEPT ![r] = [mapping |-> m, degraded |-> degraded]]
       /\ pc' = [pc EXCEPT ![r] = "put"]
       /\ UNCHANGED answer

\* What mask does once detection has ended.
MaskDetected(r, c, d) ==
    LET refused == d.nerFailed /\ c.system \in NerMustWork
    IN \/ /\ c.op = "dry_run"
          /\ Finish(r, Masked(c, c.payload, d.degraded, NoContext))
          /\ UNCHANGED draft
       \/ /\ c.op # "dry_run" /\ refused
          /\ Finish(r, Error("unavailable"))
          /\ UNCHANGED draft
       \/ /\ c.op # "dry_run" /\ ~refused
          /\ KeepMapping(r, c, MaskLine(c.payload, d.seen), d.degraded)

\* A panic in the blocking pool is an error of the mask, of a dry run too.
\* Elsewhere nothing catches it and the connection ends without a response.
MaskText(r) ==
    LET c == call[r]
    IN /\ pc[r] = "mask"
       /\ \/ \E d \in Detections(c.payload, c.system) : MaskDetected(r, c, d)
          \/ /\ Panics(c.payload)
             /\ Finish(r, Error(IF c.payload \in Heavy THEN "unavailable" ELSE "closed"))
             /\ UNCHANGED draft
       /\ UNCHANGED <<vault, call>>

\* vault.put, whatever the session holds by now.
Put(r) ==
    LET c == call[r]
        d == draft[r]
    IN /\ pc[r] = "put"
       /\ vault' = With(vault, c.session, Seal(c.system, c.session, d.mapping))
       /\ Finish(r, Masked(c, d.mapping.masked, d.degraded, NoContext))
       /\ UNCHANGED <<call, draft>>

\* The places where the mask future is suspended: the blocking pool, and
\* the engine unless cutting its windows panics before it is asked.
Awaits(t) == t \in Heavy \/ (NerAsked(t) /\ ~ Panics(t))

\* tokio::time::timeout drops the future: nothing was stored.
TimeoutLeavesEntry(r) ==
    LET c == call[r]
    IN /\ pc[r] = "mask" /\ Awaits(c.payload)
       /\ vault' = With(vault, c.session,
                        Seal(c.system, c.session, MaskLine(c.payload, {})))
       /\ Finish(r, Error("timeout"))
       /\ UNCHANGED <<call, draft>>
TimeoutHeavyOnly(r) ==
    /\ pc[r] = "mask" /\ call[r].payload \in Heavy
    /\ Finish(r, Error("timeout"))
    /\ UNCHANGED <<vault, call, draft>>
Timeout(r) ==
    /\ pc[r] = "mask" /\ Awaits(call[r].payload)
    /\ Finish(r, Error("timeout"))
    /\ UNCHANGED <<vault, call, draft>>

-----------------------------------------------------------------------------
(* demask.                                                                 *)

Box(c) == IF Mode = "stateless" THEN c.context
          ELSE IF c.session \in DOMAIN vault THEN vault[c.session] ELSE NoContext

Open(r) ==
    LET c == call[r]
        box == Box(c)
    IN /\ pc[r] = "open"
       /\ \/ /\ c.system \notin MayDemask \/ ~box.sealed
             /\ Finish(r, Error("not_found"))
             /\ UNCHANGED draft
          \/ /\ c.system \in MayDemask /\ box.sealed
             /\ ~Opens(box, c.system, c.session)
             /\ Finish(r, Error("internal"))
             /\ UNCHANGED draft
          \/ /\ c.system \in MayDemask /\ box.sealed
             /\ Opens(box, c.system, c.session)
             /\ draft' = [draft EXCEPT ![r] =
                               [mapping |-> box.mapping, degraded |-> FALSE]]
             /\ IF DeleteAfterDemask /\ Mode = "memory"
                THEN pc' = [pc EXCEPT ![r] = "delete"] /\ UNCHANGED answer
                ELSE Finish(r, Ok("demask", DemaskLine(c.payload, box.mapping)))
       /\ UNCHANGED <<vault, call>>

Delete(r) ==
    /\ pc[r] = "delete"
    /\ vault' = [s \in DOMAIN vault \ {call[r].session} |-> vault[s]]
    /\ Finish(r, Ok("demask", DemaskLine(call[r].payload, draft[r].mapping)))
    /\ UNCHANGED <<call, draft>>

\* The cache drops an entry: its time to live ended or it was one too many.
Evict(s) ==
    /\ "evict" \in Trouble
    /\ s \in DOMAIN vault
    /\ vault' = [x \in DOMAIN vault \ {s} |-> vault[x]]
    /\ UNCHANGED <<call, pc, draft, answer>>

Next ==
    \/ \E r \in Request : \/ Receive(r) \/ Lookup(r) \/ MaskText(r) \/ Put(r)
                          \/ Timeout(r) \/ Open(r) \/ Delete(r)
    \/ \E s \in Session : Evict(s)

\* tokio runs every ready task; the engine may never answer, so a text that
\* awaits it is only sure to end by the timeout.
Fairness ==
    \A r \in Request :
        WF_vars(\/ Lookup(r) \/ Put(r) \/ Open(r) \/ Delete(r) \/ Timeout(r)
                \/ /\ pc[r] = "mask" /\ ~Awaits(call[r].payload)
                   /\ MaskText(r))

Spec == Init /\ [][Next]_vars /\ Fairness

-----------------------------------------------------------------------------
(* Properties.                                                             *)

IsMapping(m) ==
    /\ m.original \in Text
    /\ \E seen \in SUBSET DOMAIN m.original : m = MaskLine(m.original, seen)
IsBox(box) ==
    /\ box.system \in System /\ box.session \in Session
    /\ box = Seal(box.system, box.session, box.mapping)
    /\ IsMapping(box.mapping)
IsContext(c) == c = NoContext \/ IsBox(c)
IsCall(c) ==
    /\ c.op \in Ops /\ c.system \in System /\ c.session \in Session
    /\ c.payload \in Text /\ IsContext(c.context)
IsAnswer(x) ==
    /\ x.status \in {"ok", "unavailable", "timeout", "not_found", "internal", "closed"}
    /\ x.text \in Text /\ IsContext(x.context)

VaultOK ==
    /\ DOMAIN vault \subseteq Session
    /\ \A s \in DOMAIN vault : IsBox(vault[s]) /\ vault[s].session = s
CallsOK == \A r \in DOMAIN call : IsCall(call[r])
ControlOK ==
    /\ pc \in [Request -> {"idle", "lookup", "mask", "put", "open", "delete", "done"}]
    /\ DOMAIN call = {r \in Request : pc[r] # "idle"}
    /\ DOMAIN answer = {r \in Request : pc[r] = "done"}
DraftsOK ==
    /\ DOMAIN draft = Request
    /\ \A r \in Request : pc[r] \in {"put", "delete"} => IsMapping(draft[r].mapping)
AnswersOK == \A r \in DOMAIN answer : IsAnswer(answer[r])

TypeOK == VaultOK /\ CallsOK /\ ControlOK /\ DraftsOK /\ AnswersOK

\* The values a system has shown the service.
ShownBy(y) ==
    UNION {ValuesIn(call[r].payload) : r \in {q \in DOMAIN call : call[q].system = y}}

(* A response holds no value its system has not itself sent: mappings are  *)
(* sealed for their system, so no session, payload id or context of another *)
(* system turns a placeholder into somebody else's data.                   *)
TenantIsolation ==
    \A r \in DOMAIN answer : ValuesIn(answer[r].text) \subseteq ShownBy(call[r].system)

\* Two tz requests of one client under one payload id.
SamePair(f, b) ==
    /\ f \in DOMAIN answer /\ b \in DOMAIN answer
    /\ call[f].op = "tz" /\ call[b].op = "tz"
    /\ call[f].system = call[b].system /\ call[f].session = call[b].session
    /\ answer[f].status = "ok" /\ answer[b].status = "ok"

(* The reverse step: a client that sends back, under the same payload id,  *)
(* the mask it was given gets exactly the text it had sent.                *)
ReverseRestores ==
    \A f, b \in Request :
        /\ SamePair(f, b) /\ answer[f].step = "mask"
        /\ answer[f].text # call[f].payload
        /\ call[b].payload = answer[f].text
        => answer[b].text = call[f].payload

(* Retries of the forward step do not multiply masks: every answer to one  *)
(* text under one payload id is the same mask.                             *)
RetryGetsSameMask ==
    \A f, b \in Request :
        /\ SamePair(f, b) /\ call[f].payload = call[b].payload
        /\ answer[f].step \in {"mask", "mask_retry"}
        /\ answer[b].step \in {"mask", "mask_retry"}
        => answer[f].text = answer[b].text

(* A forward step is never taken for a reverse step: the text a client has *)
(* of its own is answered with a mask, never handed back as restored.      *)
ForwardIsMasked ==
    \A r \in DOMAIN answer :
        /\ call[r].op = "tz" /\ answer[r].status = "ok"
        /\ call[r].payload \in Inputs[<<call[r].system, call[r].session>>]
        => answer[r].step \in {"mask", "mask_retry"}

(* A context given to a client is enough to undo the mask it came with:    *)
(* whatever failed or ran meanwhile, the masked text and the context give  *)
(* back the text, if it can be restored at all (see Restorable).           *)
ContextRestores ==
    \A f, b \in DOMAIN answer :
        /\ call[f].op = "mask" /\ answer[f].context.sealed
        /\ call[b].op = "demask" /\ call[b].context = answer[f].context
        /\ call[b].payload = answer[f].text /\ Restorable(call[f].payload)
        /\ answer[b].status = "ok"
        => answer[b].text = call[f].payload

(* Every request is answered, also when the engine never answers; where    *)
(* handling it panics, its connection ends (the status "closed").          *)
EveryRequestAnswered ==
    \A r \in Request : r \in DOMAIN call ~> r \in DOMAIN answer
=============================================================================
