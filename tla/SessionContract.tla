-------------------------- MODULE SessionContract --------------------------
(***************************************************************************)
(* What a payload id promises its client, with no vault, no concurrency    *)
(* and no failure in sight: the id is bound once, to a text and a mask of  *)
(* it, and from then on every answer is a function of that binding and of  *)
(* the payload.  A request may also be refused, which binds nothing.       *)
(*                                                                         *)
(* GuardService implements it, under the mapping of GuardContract, as long *)
(* as entries stay in the vault and either the requests of an id do not    *)
(* overlap or masking is deterministic.                                    *)
(***************************************************************************)
EXTENDS Masking

CONSTANTS Session, Request

VARIABLES
    asked,   \* asked[r]: the payload id and payload of request r
    bound,   \* bound[s]: the mapping payload id s is bound to
    reply    \* reply[r]: what request r was answered

contract == <<asked, bound, reply>>

Refused == <<"refused">>

Init == asked = <<>> /\ bound = <<>> /\ reply = <<>>

Extends(g, f, x) ==
    /\ x \notin DOMAIN f /\ DOMAIN g = DOMAIN f \cup {x}
    /\ \A y \in DOMAIN f : g[y] = f[y]

Ask(r) ==
    /\ Extends(asked', asked, r)
    /\ asked'[r].session \in Session
    /\ UNCHANGED <<bound, reply>>

Answers(r, text) ==
    /\ r \in DOMAIN asked
    /\ Extends(reply', reply, r)
    /\ reply'[r] = text

\* The first request of an id that is answered binds it.
Bind(r) ==
    LET s == asked[r].session
    IN /\ s \notin DOMAIN bound
       /\ Extends(bound', bound, s)
       /\ \E seen \in SUBSET DOMAIN asked[r].payload :
             bound'[s] = MaskLine(asked[r].payload, seen)
       /\ Answers(r, bound'[s].masked)
       /\ UNCHANGED asked

\* The same text again: the same mask.  The mask: the text.  Anything else:
\* what the binding restores in it.
Recall(r) ==
    LET m == bound[asked[r].session]
        payload == asked[r].payload
    IN /\ asked[r].session \in DOMAIN bound
       /\ Answers(r, CASE payload = m.original -> m.masked
                       [] payload # m.original /\ payload = m.masked -> m.original
                       [] OTHER -> DemaskLine(payload, m))
       /\ UNCHANGED <<asked, bound>>

Refuse(r) == Answers(r, Refused) /\ UNCHANGED <<asked, bound>>

Next == \E r \in Request : Ask(r) \/ (r \in DOMAIN asked /\ (Bind(r) \/ Recall(r) \/ Refuse(r)))

Spec == Init /\ [][Next]_contract
=============================================================================
