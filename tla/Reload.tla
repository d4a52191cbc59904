------------------------------- MODULE Reload -------------------------------
(***************************************************************************)
(* The configuration at run time.  The file is loaded once at the start    *)
(* and again by a thread that is told of changes, and by whoever posts to  *)
(* /admin/config/reload; a load that succeeds is swapped into the policy   *)
(* resolver.  The handlers keep the configuration of the start: keys,      *)
(* routes and their actions.                                               *)
(*                                                                         *)
(* Reading the file and swapping are steps of their own, so reloads        *)
(* overlap.  What the operating system tells of a change is external.      *)
(***************************************************************************)
EXTENDS Policy, Sequences

CONSTANTS
    Initial,         \* what the file may hold at the start
    Edited,          \* what may be written to it later, Unreadable for what
                     \* does not parse or is not there
    Unreadable,
    Admin,           \* calls of the reload endpoint
    Request,         \* requests to the proxy
    MaxEdits         \* bound: the file is written this often

Watcher == "config-watcher"
Reloader == Admin \union {Watcher}

\* load_from_file gives a configuration.
Loads(c) == c # Unreadable /\ Valid(c)

ASSUME ReloadAssumption ==
    /\ Watcher \notin Admin
    /\ Initial \subseteq Config /\ Unreadable \notin Config
    /\ \A c \in Initial : Valid(c)
    /\ Edited \subseteq Config \union {Unreadable}
    /\ MaxEdits \in Nat

VARIABLES
    file,            \* what the file holds
    edition,         \* how often it has been written
    watched,         \* changes are being told
    events,          \* what the thread has been told and not taken
    told,            \* the edition of the last change it was told of
    reloader,        \* for each one: where it is, what it has read
    start,           \* the configuration of the handlers
    inForce,         \* the configuration of the resolver
    installed,       \* its edition
    newest,          \* the newest edition there was in the resolver
    request          \* for each: where it is, system, route, policy

reloads == <<file, edition, watched, events, told, reloader, inForce, installed, newest>>
vars == <<reloads, start, request>>

Idle == [pc |-> "idle"]

Init ==
    /\ start \in Initial
    /\ inForce = start /\ installed = 0 /\ newest = 0
    /\ file = start /\ edition = 0 /\ told = 0
    /\ watched = FALSE /\ events = <<>>
    /\ reloader = [a \in Reloader |-> IF a = Watcher THEN [pc |-> "starting"] ELSE Idle]
    /\ request = [q \in Request |-> Idle]

-----------------------------------------------------------------------------
(* The file, and what is told of it.                                       *)

\* An editor writes, truncates or removes the file in place, or puts another
\* one there, after which the changes of the new one may not be told.
Edit(c) ==
    /\ edition < MaxEdits /\ c # file
    /\ file' = c /\ edition' = edition + 1
    /\ events' = IF watched THEN Append(events, "modify") ELSE events
    /\ told' = IF watched THEN edition + 1 ELSE told
    /\ watched' \in {watched, FALSE}
    /\ UNCHANGED <<reloader, start, inForce, installed, newest, request>>

\* Access and removal are told too, and errors.
Tell ==
    /\ watched /\ Len(events) < MaxEdits
    /\ events' = Append(events, "other")
    /\ UNCHANGED <<file, edition, watched, told, reloader, start, inForce, installed, newest, request>>

-----------------------------------------------------------------------------
(* The reloads.                                                            *)

\* watch_config gets to its loop some time after the file was loaded.
StartWatching ==
    /\ reloader[Watcher].pc = "starting"
    /\ watched' = TRUE
    /\ reloader' = [reloader EXCEPT ![Watcher] = Idle]
    /\ UNCHANGED <<file, edition, events, told, start, inForce, installed, newest, request>>

\* A change: the thread sleeps before it reloads.  Other events are passed
\* over.
Take ==
    /\ reloader[Watcher].pc = "idle" /\ events # <<>>
    /\ events' = Tail(events)
    /\ reloader' = [reloader EXCEPT
          ![Watcher] = IF Head(events) = "modify" THEN [pc |-> "called"] ELSE Idle]
    /\ UNCHANGED <<file, edition, watched, told, start, inForce, installed, newest, request>>

\* A call with the token of the start; any other is refused.
Call(a) ==
    /\ a \in Admin /\ reloader[a].pc = "idle"
    /\ reloader' = [reloader EXCEPT ![a] = [pc |-> "called"]]
    /\ UNCHANGED <<file, edition, watched, events, told, start, inForce, installed, newest, request>>

Read(a) ==
    /\ reloader[a].pc = "called"
    /\ reloader' = [reloader EXCEPT ![a] = [pc |-> "read", cfg |-> file, edition |-> edition]]
    /\ UNCHANGED <<file, edition, watched, events, told, start, inForce, installed, newest, request>>

SwapAndDrain(a) ==
    /\ reloader[a].pc = "read" /\ Loads(reloader[a].cfg)
    /\ inForce' = reloader[a].cfg
    /\ installed' = reloader[a].edition
    /\ newest' = IF newest < installed' THEN installed' ELSE newest
    /\ events' = IF a = Watcher THEN <<>> ELSE events
    /\ reloader' = [reloader EXCEPT ![a] = Idle]
    /\ UNCHANGED <<file, edition, watched, told, start, request>>
Swap(a) ==
    /\ reloader[a].pc = "read" /\ Loads(reloader[a].cfg)
    /\ inForce' = reloader[a].cfg
    /\ installed' = reloader[a].edition
    /\ newest' = IF newest < installed' THEN installed' ELSE newest
    /\ reloader' = [reloader EXCEPT ![a] = Idle]
    /\ UNCHANGED <<file, edition, watched, events, told, start, request>>

\* The error is counted and told to the caller; the configuration stays.
Fail(a) ==
    /\ reloader[a].pc = "read" /\ ~Loads(reloader[a].cfg)
    /\ reloader' = [reloader EXCEPT ![a] = Idle]
    /\ UNCHANGED <<file, edition, watched, events, told, start, inForce, installed, newest, request>>

-----------------------------------------------------------------------------
(* A request to the proxy.  The system is one that has a key, the route    *)
(* one that is declared, in the configuration of the start.                *)

Known(s, r) == start.systems[s] # Absent /\ start.routes[r] # Absent

\* cfg: the configuration of the resolver as the request came to it.
Step(q, pc, s, r, policy) ==
    request' = [request EXCEPT ![q] =
        [pc |-> pc, system |-> s, route |-> r, cfg |-> inForce, policy |-> policy]]

\* A route that bypasses sends the request as it is.
Bypass(q, s, r) ==
    /\ request[q].pc = "idle" /\ Known(s, r)
    /\ start.routes[r].action = "bypass"
    /\ Step(q, "raw", s, r, Absent)
    /\ UNCHANGED <<reloads, start>>

\* PolicyResolver::resolve: what was computed at the load, or the same now.
Resolve(q, s, r) ==
    /\ request[q].pc = "idle" /\ Known(s, r)
    /\ start.routes[r].action \notin {"block", "bypass"}
    /\ Refusal(inForce, s, r) = "none"
    /\ Step(q, "masked", s, r, EffectivePolicy(inForce, s, r))
    /\ UNCHANGED <<reloads, start>>

\* 403 for a route that blocks, 401 or 403 for what the resolver refuses.
Refuse(q, s, r) ==
    /\ request[q].pc = "idle" /\ Known(s, r)
    /\ \/ start.routes[r].action = "block"
       \/ start.routes[r].action # "bypass" /\ Refusal(inForce, s, r) # "none"
    /\ UNCHANGED vars

Answer(q) ==
    /\ request[q].pc # "idle"
    /\ request' = [request EXCEPT ![q] = Idle]
    /\ UNCHANGED <<reloads, start>>

Next ==
    \/ \E c \in Edited : Edit(c)
    \/ Tell \/ StartWatching \/ Take
    \/ \E a \in Reloader : Call(a) \/ Read(a) \/ Swap(a) \/ Fail(a)
    \/ \E q \in Request :
          \/ \E s \in System, r \in Route : Bypass(q, s, r) \/ Resolve(q, s, r) \/ Refuse(q, s, r)
          \/ Answer(q)

\* The thread of the watcher and a handler of the endpoint are scheduled.
Fairness ==
    /\ WF_vars(StartWatching) /\ WF_vars(Take)
    /\ \A a \in Reloader : WF_vars(Read(a)) /\ WF_vars(Swap(a) \/ Fail(a))

Spec == Init /\ [][Next]_vars /\ Fairness

-----------------------------------------------------------------------------
(* Properties.                                                             *)

TypeOK ==
    /\ start \in Config /\ inForce \in Config
    /\ edition \in 0..MaxEdits /\ installed \in 0..newest /\ newest \in 0..edition
    /\ told \in 0..edition
    /\ watched \in BOOLEAN /\ Len(events) <= MaxEdits + MaxEdits
    /\ \A a \in Reloader :
          /\ reloader[a].pc \in {"starting", "idle", "called", "read"}
          /\ reloader[a].pc = "read" => reloader[a].edition <= edition

Masked(q) == request[q].pc = "masked"

(* What a request is masked by follows the layers of one configuration,    *)
(* the nearest first, whatever is reloaded meanwhile; and an address that  *)
(* is to be masked part by part has all of its parts masked.               *)
MaskedByNearestLayer ==
    \A q \in Request : Masked(q) =>
        /\ NearestLayerDecides(request[q].cfg, request[q].system, request[q].route,
                               request[q].policy)
        /\ PartsCovered(request[q].policy)

(* A response is demasked for those alone whose every layer lets it be.    *)
DemaskedByAll ==
    \A q \in Request : Masked(q) =>
        DemaskNeedsAll(request[q].cfg, request[q].system, request[q].route,
                       request[q].policy)

(* A change of the file that is told comes into force, if it loads: unless *)
(* a reload that had read the file before it swaps after the one that read *)
(* it, when the older configuration stays.                                 *)
CatchesUp == <>[](told = edition /\ Loads(file) => installed = edition \/ installed < newest)

(* README: which routes bypass and which block is described in routes, and *)
(* changes apply without a restart.  A request is passed on as it is only  *)
(* on a route that bypasses in the configuration in force.                 *)
RawOnlyIfBypassed ==
    \A q \in Request : request[q].pc = "raw" =>
        RouteOf(request[q].cfg, request[q].route).action = "bypass"
=============================================================================
