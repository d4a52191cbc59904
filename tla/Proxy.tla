------------------------------- MODULE Proxy -------------------------------
(***************************************************************************)
(* One exchange through ProxyHandler: the strings of the request are       *)
(* masked one after the other under one session, the request is sent to    *)
(* the upstream, and the strings of the response are demasked one after    *)
(* the other.                                                              *)
(*                                                                         *)
(* The session id is a fresh uuid, so nobody else reads or writes its      *)
(* entry and one exchange at a time shows everything; between the awaits   *)
(* only the cache can interfere.  Nothing in the handler bounds the        *)
(* exchange as a whole: each dependency has its own timeout, which ends    *)
(* when the headers have come.                                             *)
(***************************************************************************)
EXTENDS Detection

CONSTANTS
    Route,              \* routes: [action, demask, visits], see Routes
    Inputs,             \* the texts of a request, in the order of the body
    Mode,               \* vault_mode
    MayDemask,          \* systems whose policy has demask
    NerMustWork,        \* systems whose policy has ner_on_failure: fail
    DeleteAfterDemask,  \* vault.delete_after_demask
    OwnToken,           \* tokens the model may write that it did not read
    MaxChoices,         \* bound: strings the response has at its paths
    MaxReply            \* bound: tokens in one of them

\* visits are the strings json_paths selects, path by path and each path in
\* the order of the body.
Routes == [action : {"mask", "bypass", "block"}, demask : BOOLEAN, visits : Seq(Nat)]

ASSUME ProxyAssumption ==
    /\ Route \subseteq Routes
    /\ Inputs \subseteq Seq(Text)
    /\ \A x \in Route, y \in Inputs : \A k \in DOMAIN x.visits : x.visits[k] \in DOMAIN y
    /\ Mode \in {"memory", "stateless"}
    /\ MayDemask \subseteq System /\ NerMustWork \subseteq System
    /\ DeleteAfterDemask \in BOOLEAN
    /\ OwnToken \subseteq Token
    /\ MaxChoices \in Nat /\ MaxReply \in Nat

VARIABLES
    system, route, input,  \* the request
    stage,     \* where the handler is
    at,        \* the next visit, or the next choice
    texts,     \* the strings of the body, as masked so far
    entry,     \* the mapping the vault keeps for the session
    degraded,  \* the flag behind the header x-pd-degraded
    sent,      \* what the upstream was handed
    cited,     \* cited[c][q]: string and position the model took reply[c][q] from
    reply,     \* the strings of the response, as restored so far
    status     \* the status of the response

request == <<system, route, input>>
vars == <<request, stage, at, texts, entry, degraded, sent, cited, reply, status>>

NoEntry == [original |-> <<>>, masked |-> <<>>, entries |-> <<>>, kept |-> FALSE]
Keep(mapping) == [original |-> mapping.original, masked |-> mapping.masked,
                  entries |-> mapping.entries, kept |-> TRUE]

\* The effective policy of the system on this route.
PolicyDemasks == route.demask /\ system \in MayDemask

Init ==
    /\ system \in System /\ route \in Route /\ input \in Inputs
    /\ stage = "received" /\ at = 1
    /\ texts = input /\ entry = NoEntry /\ degraded = FALSE
    /\ sent = <<>> /\ cited = <<>> /\ reply = <<>> /\ status = "none"

Answer(code) == stage' = "done" /\ status' = code

-----------------------------------------------------------------------------
(* The request.                                                            *)

Dispatch ==
    /\ stage = "received"
    /\ CASE route.action = "block"  -> Answer("forbidden")
         [] route.action = "bypass" -> stage' = "send" /\ UNCHANGED status
         [] OTHER                   -> stage' = "mask" /\ UNCHANGED status
    /\ UNCHANGED <<request, at, texts, entry, degraded, sent, cited, reply>>

\* No known system or route, too many requests, a body that is too large or, for a
\* route that masks, not JSON.
Refusals == {"unauthorized", "not_found", "too_many_requests", "forbidden",
             "payload_too_large", "bad_request"}

Refuse ==
    /\ stage = "received"
    /\ \E code \in Refusals : Answer(code)
    /\ UNCHANGED <<request, at, texts, entry, degraded, sent, cited, reply>>

(* Definitions named for a bug, here and below: the one after them is what *)
(* the code does, and the checks tell the two apart.                       *)

\* degraded_flag is only ever set.
FlagForgotten(flag, d) == flag
FlagOfLast(flag, d) == d.degraded
Flag(flag, d) == flag \/ d.degraded

\* service.mask for the next string.
MaskString(i, d) ==
    LET m == MaskLine(texts[i], d.seen)
    IN /\ texts' = [texts EXCEPT ![i] = m.masked]
       /\ degraded' = Flag(degraded, d)
       /\ entry' = IF PolicyDemasks /\ Mode = "memory" THEN Keep(m) ELSE entry

\* Whatever the error of a mask, the string stays as it is and the flag too:
\* the engine failed and the policy is fail, or the blocking pool panicked.
\* A panic outside the pool ends the connection.
MaskNext ==
    LET i == route.visits[at]
    IN /\ stage = "mask" /\ at \in DOMAIN route.visits
       /\ at' = at + 1
       /\ \/ /\ \E d \in Detections(texts[i], system) :
                \/ /\ d.nerFailed /\ system \in NerMustWork
                   /\ UNCHANGED <<texts, degraded, entry>>
                \/ /\ ~(d.nerFailed /\ system \in NerMustWork)
                   /\ MaskString(i, d)
             /\ UNCHANGED stage
          \/ /\ Panics(texts[i])
             /\ stage' = IF texts[i] \in Heavy THEN stage ELSE "dropped"
             /\ UNCHANGED <<texts, degraded, entry>>
       /\ UNCHANGED <<request, sent, cited, reply, status>>

BodyReady ==
    /\ stage = "mask" /\ at \notin DOMAIN route.visits
    /\ stage' = "send"
    /\ UNCHANGED <<request, at, texts, entry, degraded, sent, cited, reply, status>>

-----------------------------------------------------------------------------
(* The upstream: HttpLlmClient.send.                                       *)

\* No upstream client at all; an unknown upstream or an open circuit.
SendFails ==
    /\ stage = "send"
    /\ Answer("internal") \/ Answer("bad_gateway")
    /\ UNCHANGED <<request, at, texts, entry, degraded, sent, cited, reply>>

Send ==
    /\ stage = "send"
    /\ stage' = "sent" /\ sent' = texts
    /\ UNCHANGED <<request, at, texts, entry, degraded, cited, reply, status>>

\* No connection, a broken body, or no headers in time: tokio::time::timeout
\* is around the request and ends when they come.
WaitsForUpstream == stage = "sent" /\ UNCHANGED vars
UpstreamTimeout ==
    /\ stage = "sent"
    /\ Answer("bad_gateway")
    /\ UNCHANGED <<request, at, texts, entry, degraded, sent, cited, reply>>

Restores == route.action = "mask" /\ route.demask

\* The response (external): strings of tokens the model read or made up, or
\* a body without strings at the response paths, not JSON for instance.
Places == {<<0, 0>>} \cup UNION {{i} \X DOMAIN sent[i] : i \in DOMAIN sent}

UpstreamReplies ==
    /\ stage = "sent"
    /\ \E own \in OwnToken, n \in 0..MaxChoices :
       \E places \in [1..n -> UNION {[1..k -> Places] : k \in 0..MaxReply}] :
          /\ cited' = places
          /\ reply' = [c \in 1..n |-> [q \in DOMAIN places[c] |->
                LET place == places[c][q]
                IN IF place = <<0, 0>> THEN own ELSE sent[place[1]][place[2]]]]
    /\ at' = 1
    /\ IF Restores THEN stage' = "restore" /\ UNCHANGED status ELSE Answer("ok")
    /\ UNCHANGED <<request, texts, entry, degraded, sent>>

-----------------------------------------------------------------------------
(* The response: demask_response.                                          *)

\* service.demask for the next string; when it fails the string stays.
RestoreNextFirst ==
    /\ stage = "restore" /\ at \in DOMAIN reply
    /\ at' = at + 1
    /\ reply' = IF PolicyDemasks /\ Mode = "memory" /\ entry.kept /\ at = 1
                THEN [reply EXCEPT ![at] = DemaskLine(reply[at], entry)] ELSE reply
    /\ UNCHANGED <<request, stage, texts, entry, degraded, sent, cited, status>>
RestoreNext ==
    /\ stage = "restore" /\ at \in DOMAIN reply
    /\ at' = at + 1
    /\ IF PolicyDemasks /\ Mode = "memory" /\ entry.kept
       THEN /\ reply' = [reply EXCEPT ![at] = DemaskLine(reply[at], entry)]
            /\ entry' = IF DeleteAfterDemask THEN NoEntry ELSE entry
       ELSE UNCHANGED <<reply, entry>>
    /\ UNCHANGED <<request, stage, texts, degraded, sent, cited, status>>

Deliver ==
    /\ stage = "restore" /\ at \notin DOMAIN reply
    /\ Answer("ok")
    /\ UNCHANGED <<request, at, texts, entry, degraded, sent, cited, reply>>

-----------------------------------------------------------------------------
(* The environment.                                                        *)

\* A dependency sends its headers and then no end of the body: no timeout
\* covers the read (llm_client.rs, ner_http.rs) and none the exchange.
Stall ==
    /\ "stall" \in Trouble
    /\ \/ stage = "sent"
       \/ /\ stage = "mask" /\ at \in DOMAIN route.visits
          /\ NerAsked(texts[route.visits[at]]) /\ ~ Panics(texts[route.visits[at]])
    /\ stage' = "stalled"
    /\ UNCHANGED <<request, at, texts, entry, degraded, sent, cited, reply, status>>

Evict ==
    /\ "evict" \in Trouble
    /\ entry.kept /\ stage \notin {"done", "dropped"}
    /\ entry' = NoEntry
    /\ UNCHANGED <<request, stage, at, texts, degraded, sent, cited, reply, status>>

Handler == Refuse \/ Dispatch \/ MaskNext \/ BodyReady \/ SendFails \/ Send
           \/ UpstreamTimeout \/ RestoreNext \/ Deliver

Next == Handler \/ UpstreamReplies \/ Stall \/ Evict

\* tokio runs every ready task, and the timeouts around the engine and the
\* upstream end every wait for headers.
Spec == Init /\ [][Next]_vars /\ WF_vars(Handler)

-----------------------------------------------------------------------------
(* Properties.                                                             *)

TypeOK ==
    /\ system \in System /\ route \in Route /\ input \in Inputs
    /\ stage \in {"received", "mask", "send", "sent", "restore", "stalled", "dropped", "done"}
    /\ at \in Nat \ {0}
    /\ texts \in Seq(Text) /\ DOMAIN texts = DOMAIN input
    /\ degraded \in BOOLEAN
    /\ sent \in {<<>>, texts}
    /\ entry.kept => /\ entry.original \in Text
                     /\ \E seen \in SUBSET DOMAIN entry.original :
                           entry = Keep(MaskLine(entry.original, seen))
    /\ reply \in Seq(Text) /\ DOMAIN reply = DOMAIN cited
    /\ status \in {"none", "ok", "internal", "bad_gateway"} \cup Refusals
    /\ (status = "none") = (stage # "done")

\* The visits of the strings.
Visited == {route.visits[k] : k \in DOMAIN route.visits}

\* The mask of this string panicked in the blocking pool.
Panicked(t) == Panics(t) /\ t \in Heavy

\* An exchange that is not marked was masked as if nothing had failed: no
\* value that undisturbed detection finds in a string of the request reached
\* the upstream at its place, except in a string whose mask panicked, and
\* except the values that the partial masker writes as they are.
UndisturbedUnlessMarked ==
    route.action = "mask" /\ sent # <<>> /\ ~degraded =>
        \A i \in Visited :
            \/ Panicked(input[i])
            \/ \A p \in Complete(input[i], system) :
                  sent[i][p] \notin Value \/ WrittenAsIs(input[i][p])

(* A response without the header x-pd-degraded means that no deadline and  *)
(* no failure of the engine took a value from what is looked for in any    *)
(* string of the request, for a system whose policy lets the service go on *)
(* without the engine.  What is looked for leaves out the sentences that   *)
(* the engine is not given (no signal of their own, more than MaxWindows,  *)
(* cut at the wrong offsets), which are never marked.                      *)
UnmarkedMeansUndisturbed == system \notin NerMustWork => UndisturbedUnlessMarked

(* The same for a system whose policy does not (ner_on_failure: fail).     *)
FailPolicyKept == system \in NerMustWork => UndisturbedUnlessMarked

\* A placeholder the model cited, which the client expects to be restored.
IsCited(c, q) == cited[c][q] # <<0, 0>> /\ sent[cited[c][q][1]][cited[c][q][2]] \in Placeholder
Meant(c, q) == input[cited[c][q][1]][cited[c][q][2]]

Delivered == status = "ok" /\ Restores /\ \A i \in DOMAIN input : Plain(input[i])

(* The session of an exchange gives a placeholder the model cites back as  *)
(* the value it was put for, or not at all: never as another value of the  *)
(* request.                                                                *)
NeverAnotherValue ==
    Delivered => \A c \in DOMAIN cited : \A q \in DOMAIN cited[c] :
        IsCited(c, q) => reply[c][q] \in {sent[cited[c][q][1]][cited[c][q][2]], Meant(c, q)}

\* Cited from the string that was masked last, whose mapping the vault has.
FromLast(c, q) == cited[c][q][1] = route.visits[Len(route.visits)]

(* What the model cites from the string that was masked last is restored   *)
(* in every string of the response, if the entry outlives the exchange.    *)
LastTextRestored ==
    Delivered /\ PolicyDemasks /\ entry.kept => \A c \in DOMAIN cited : \A q \in DOMAIN cited[c] :
        IsCited(c, q) /\ FromLast(c, q) => reply[c][q] = Meant(c, q)

(* Every exchange is answered, but for those whose dependency stops in the *)
(* middle of its body and those whose connection a panic ends.             *)
AnsweredUnlessStalled == <>(stage \in {"done", "stalled", "dropped"})
=============================================================================
