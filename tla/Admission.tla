----------------------------- MODULE Admission -----------------------------
(***************************************************************************)
(* What ProcessHandler and ProxyHandler do with a request around the       *)
(* service proper: the permit for a request in flight, who asks, the rate, *)
(* the body, the policy; and the items of a batch up to their deadline.    *)
(*                                                                         *)
(* A step goes from one await to the next, or to the next operation on     *)
(* something shared.  Keys, limits and the number of permits are those of  *)
(* the configuration the process started with; the policy is that of the   *)
(* configuration in force, which a reload replaces at any time.            *)
(***************************************************************************)
EXTENDS RateLimit, FiniteSets, Sequences

CONSTANTS
    Request,         \* connections; one carries request after request
    Ops,             \* Ops[r]: what it asks, of Operations
    MaxInflight,     \* server.max_inflight
    Anonymous,       \* {security.default_system_id}, or {} when it is empty
    Config,          \* configurations that may come into force
    Verdict,         \* Verdict[c, s]: what resolve may say of s, depending on
                     \* the route: "ok", "refused" or either
    MaxTexts,        \* bound: texts of a batch
    NoSystem, NoConfig,
    Trouble          \* subset of {"hang_up", "stall", "ner", "await", "reload"}

\* "batch_other": a batch whose operation is not mask.
Batches == {"batch", "batch_other"}
Operations == {"process", "proxy"} \union Batches

ASSUME AdmissionAssumption ==
    /\ IsFiniteSet(Request)
    /\ Ops \in [Request -> SUBSET Operations]
    /\ MaxInflight \in Nat
    /\ Anonymous \subseteq System
    /\ Limiter = {"process", "proxy"}
    /\ Verdict \in [Config \X System -> SUBSET {"ok", "refused"}]
    /\ MaxTexts \in Nat
    /\ NoSystem \notin System /\ NoConfig \notin Config

VARIABLES
    permits,   \* what the semaphore has left
    inForce,   \* the configuration in the resolver
    pc,        \* pc[r]: where the request is; "gone": there is none
    op,        \* op[r]: one of Operations, or "none"
    who,       \* who[r]: the system it is from
    policy,    \* policy[r]: the configuration its policy was resolved from
    texts,     \* texts[r]: how many texts its batch has left to do
    late,      \* late[r]: its deadline has passed
    results    \* results[r]: the items of its batch done

requests == <<permits, pc, op, who, policy, texts, late, results>>
vars == <<limits, inForce, requests>>

Init ==
    /\ LimitsInit
    /\ permits = MaxInflight
    /\ inForce \in Config
    /\ pc = [r \in Request |-> "gone"]
    /\ op = [r \in Request |-> "none"]
    /\ who = [r \in Request |-> NoSystem]
    /\ policy = [r \in Request |-> NoConfig]
    /\ texts = [r \in Request |-> 0]
    /\ late = [r \in Request |-> FALSE]
    /\ results = [r \in Request |-> <<>>]

Goto(r, label) == pc' = [pc EXCEPT ![r] = label]
LimiterOf(r) == IF op[r] = "proxy" THEN "proxy" ELSE "process"
HoldsPermit(r) == op[r] \in {"process"} \union Batches

-----------------------------------------------------------------------------
(* The way in.                                                             *)

\* try_acquire; with no permit left the answer is 503 and nothing changes.
\* The proxy has no permits.
Arrive(r) ==
    /\ pc[r] = "gone"
    /\ \E o \in Ops[r] :
          /\ o # "proxy" => permits > 0
          /\ permits' = IF o = "proxy" THEN permits ELSE permits - 1
          /\ op' = [op EXCEPT ![r] = o]
    /\ Goto(r, "authenticate")
    /\ UNCHANGED <<limits, inForce, who, policy, texts, late, results>>

ForgetsPermit(r) ==
    /\ Goto(r, "gone") /\ op' = [op EXCEPT ![r] = "none"]
    /\ permits' = IF HoldsPermit(r) /\ pc[r] # "read" THEN permits + 1 ELSE permits
    /\ who' = [who EXCEPT ![r] = NoSystem]
    /\ policy' = [policy EXCEPT ![r] = NoConfig]
    /\ texts' = [texts EXCEPT ![r] = 0]
    /\ late' = [late EXCEPT ![r] = FALSE]
    /\ results' = [results EXCEPT ![r] = <<>>]
\* The handler returns, or is dropped: _permit goes with it.
End(r) ==
    /\ Goto(r, "gone") /\ op' = [op EXCEPT ![r] = "none"]
    /\ permits' = IF HoldsPermit(r) THEN permits + 1 ELSE permits
    /\ who' = [who EXCEPT ![r] = NoSystem]
    /\ policy' = [policy EXCEPT ![r] = NoConfig]
    /\ texts' = [texts EXCEPT ![r] = 0]
    /\ late' = [late EXCEPT ![r] = FALSE]
    /\ results' = [results EXCEPT ![r] = <<>>]

\* authenticate: a system that shows its key; on /process alone, nobody at
\* all passes for the default system.
Identities(r) == System \union (IF op[r] = "process" THEN Anonymous ELSE {})

Unauthorized(r) ==
    /\ pc[r] = "authenticate"
    /\ End(r) /\ UNCHANGED <<limits, inForce>>

\* check of the handler's own limiter; 429 when it refuses.
WithinRate(r) ==
    /\ pc[r] = "authenticate"
    /\ \E s \in Identities(r) :
          /\ Admits(<<LimiterOf(r), s>>)
          /\ who' = [who EXCEPT ![r] = s]
    /\ Goto(r, IF op[r] = "proxy" THEN "resolve" ELSE "read")
    /\ UNCHANGED <<inForce, permits, op, policy, texts, late, results>>

RateLimited(r) ==
    /\ pc[r] = "authenticate"
    /\ \E s \in Identities(r) : Refuses(<<LimiterOf(r), s>>)
    /\ End(r) /\ UNCHANGED inForce

\* The body has come in full, is within max_body_bytes and is JSON.
ReadBody(r) ==
    /\ pc[r] = "read"
    /\ Goto(r, "resolve")
    /\ \E n \in 0..MaxTexts :
          texts' = [texts EXCEPT ![r] = IF op[r] \in Batches THEN n ELSE 0]
    /\ UNCHANGED <<limits, inForce, permits, op, who, policy, late, results>>

\* 413 by content-length or by what was read, 400 when it does not parse.
BadBody(r) ==
    /\ pc[r] = "read"
    /\ End(r) /\ UNCHANGED <<limits, inForce>>

\* The client sends no more of the body and does not hang up either.  There
\* is no timeout on the reading: the handler waits on, with the permit.
Stall(r) ==
    /\ "stall" \in Trouble
    /\ pc[r] = "read"
    /\ Goto(r, "stalled")
    /\ UNCHANGED <<limits, inForce, permits, op, who, policy, texts, late, results>>

\* The proxy finds its route before, in the configuration of the start: no
\* route, a route that blocks, and one that bypasses resolve nothing.
Unrouted(r) ==
    /\ pc[r] = "resolve" /\ op[r] = "proxy"
    /\ End(r) /\ UNCHANGED <<limits, inForce>>

\* PolicyResolver::resolve, and the deadline is set.
Resolve(r) ==
    /\ pc[r] = "resolve"
    /\ "ok" \in Verdict[<<inForce, who[r]>>]
    /\ policy' = [policy EXCEPT ![r] = inForce]
    /\ Goto(r, "serve")
    /\ UNCHANGED <<limits, inForce, permits, op, who, texts, late, results>>

\* 401 for a system the configuration in force does not know, 403 for one
\* it disables, 403 for a route the system may not use.
Refused(r) ==
    /\ pc[r] = "resolve"
    /\ "refused" \in Verdict[<<inForce, who[r]>>]
    /\ End(r) /\ UNCHANGED <<limits, inForce>>

-----------------------------------------------------------------------------
(* The service.                                                            *)

\* /process answers, in time or with 504; the proxy goes on (module Proxy).
Serve(r) ==
    /\ pc[r] = "serve" /\ op[r] \notin Batches
    /\ End(r) /\ UNCHANGED <<limits, inForce>>

\* What one item comes to.  "clean": it shows no sign of personal data and
\* is not looked at, whatever the time.  After the deadline the future is
\* still polled once: a text that needs no await is masked, but marked.
\* Where another operation is asked for every item is an error.
ItemOutcomes(r) ==
    IF op[r] = "batch_other" THEN {"error"}
    ELSE {"clean"}
         \union (IF late[r] THEN {"degraded"} ELSE {"masked"})
         \union (IF "ner" \in Trouble THEN {"degraded", "error"} ELSE {})
         \union (IF late[r] /\ "await" \in Trouble THEN {"timeout"} ELSE {})

Item(r, outcome, c) ==
    [index |-> Len(results[r]), outcome |-> outcome, policy |-> c]

DoItemAfresh(r) ==
    /\ pc[r] = "serve" /\ texts[r] > 0
    /\ \E outcome \in ItemOutcomes(r) :
          results' = [results EXCEPT ![r] = Append(@, Item(r, outcome, inForce))]
    /\ texts' = [texts EXCEPT ![r] = @ - 1]
    /\ UNCHANGED <<limits, inForce, permits, pc, op, who, policy, late>>
\* An item is done with the policy resolved at the beginning, and an error
\* or a timeout is an item of the answer.
DoItem(r) ==
    /\ pc[r] = "serve" /\ texts[r] > 0
    /\ \E outcome \in ItemOutcomes(r) :
          results' = [results EXCEPT ![r] = Append(@, Item(r, outcome, policy[r]))]
    /\ texts' = [texts EXCEPT ![r] = @ - 1]
    /\ UNCHANGED <<limits, inForce, permits, pc, op, who, policy, late>>

AnswerNonEmptyBatch(r) ==
    /\ pc[r] = "serve" /\ op[r] \in Batches /\ texts[r] = 0 /\ results[r] # <<>>
    /\ End(r) /\ UNCHANGED <<limits, inForce>>
AnswerBatch(r) ==
    /\ pc[r] = "serve" /\ op[r] \in Batches /\ texts[r] = 0
    /\ End(r) /\ UNCHANGED <<limits, inForce>>

DeadlinePasses(r) ==
    /\ pc[r] = "serve" /\ ~late[r]
    /\ late' = [late EXCEPT ![r] = TRUE]
    /\ UNCHANGED <<limits, inForce, permits, pc, op, who, policy, texts, results>>

\* The client is gone: hyper drops the handler where it awaits.
HangUp(r) ==
    /\ "hang_up" \in Trouble
    /\ pc[r] \in {"read", "stalled", "serve"}
    /\ End(r) /\ UNCHANGED <<limits, inForce>>

-----------------------------------------------------------------------------

\* PolicyResolver::swap.
Swap ==
    /\ "reload" \in Trouble
    /\ inForce' \in Config \ {inForce}
    /\ UNCHANGED <<limits, requests>>

Clock ==
    /\ Tick \/ Watch
    /\ UNCHANGED <<inForce, requests>>

Handle(r) ==
    \/ Unauthorized(r) \/ WithinRate(r) \/ RateLimited(r)
    \/ Unrouted(r) \/ Resolve(r) \/ Refused(r)
    \/ Serve(r) \/ DoItem(r) \/ AnswerBatch(r)

Next ==
    \/ Swap \/ Clock
    \/ \E r \in Request :
          Arrive(r) \/ ReadBody(r) \/ BadBody(r) \/ Stall(r) \/ Handle(r)
          \/ DeadlinePasses(r) \/ HangUp(r)

\* tokio runs the handlers; max_body_bytes ends a body that does not stop, and one
\* that does is either all there or stalls.
Fairness ==
    \A r \in Request :
        WF_vars(Handle(r)) /\ WF_vars(ReadBody(r) \/ BadBody(r) \/ Stall(r))

Spec == Init /\ [][Next]_vars /\ Fairness

-----------------------------------------------------------------------------
(* Properties.                                                             *)

Labels == {"gone", "authenticate", "read", "stalled", "resolve", "serve"}
Outcomes == {"clean", "masked", "degraded", "error", "timeout"}
ItemType == [index : Nat, outcome : Outcomes, policy : Config]

TypeOK ==
    /\ LimitsTypeOK
    /\ permits \in 0..MaxInflight /\ inForce \in Config
    /\ pc \in [Request -> Labels]
    /\ op \in [Request -> Operations \union {"none"}]
    /\ who \in [Request -> System \union {NoSystem}]
    /\ policy \in [Request -> Config \union {NoConfig}]
    /\ texts \in [Request -> Nat] /\ late \in [Request -> BOOLEAN]
    /\ results \in [Request -> Seq(ItemType)]

(* A permit is out for every request in flight and for no other: whatever  *)
(* way requests end, none is lost and none comes back twice.               *)
PermitsAccounted == permits + Cardinality({r \in Request : HoldsPermit(r)}) = MaxInflight

(* Every batch that is answered has its items in the order of its texts,   *)
(* under one policy though a reload may come in between, and once an item  *)
(* has timed out no later one passes for completely masked.                *)
BatchHangsTogether ==
    \A r \in Request : \A i \in 1..Len(results[r]) :
        LET item == results[r][i] IN
        /\ item.index = i - 1
        /\ item.policy = policy[r]
        /\ item.outcome = "masked" =>
              \A j \in 1..i - 1 : results[r][j].outcome # "timeout"

(* Permits come back: a service that turns requests away takes one again,  *)
(* unless every one of its permits is held by a client that has stalled in *)
(* the middle of its body.                                                 *)
TakesRequestsAgain ==
    []<>(permits > 0 \/ Cardinality({r \in Request : pc[r] = "stalled"}) = MaxInflight)

=============================================================================
