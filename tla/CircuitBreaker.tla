--------------------------- MODULE CircuitBreaker ---------------------------
(***************************************************************************)
(* CircuitBreaker shared by the calls to one dependency (the entity engine *)
(* or an upstream), each operation on one of its atomics a step of its     *)
(* own.  All of them are Relaxed, so the two stores of open may take       *)
(* effect in either order.                                                 *)
(*                                                                         *)
(* Time is kept as ages: age is the time since opened_at, counted up to    *)
(* OpenSeconds, and a caller that has read opened_at carries the age of    *)
(* what it read.  That is all allow can tell about the clock, so time is   *)
(* unbounded and the states are finite.  The clock is taken to be monotonic *)
(* although SystemTime is not; setting it back prolongs an open circuit.   *)
(***************************************************************************)
EXTENDS Integers, FiniteSets

CONSTANTS
    Caller,          \* calls in flight at most
    Window,          \* circuit_breaker.window
    OpensAt,         \* failures of a full window that open the circuit,
                     \* as a function of total: ratio >= failure_ratio
    OpenSeconds,     \* circuit_breaker.open_seconds
    Outcome          \* what calls may come to, see Outcomes

\* lost: nothing is recorded.  The body does not come through after the
\* headers did (ner_http.rs), or the request's timeout drops the call.
Outcomes == {"success", "failure", "lost"}

MaxTotal == Window + Cardinality(Caller)

ASSUME BreakerAssumption ==
    /\ IsFiniteSet(Caller)
    /\ Window \in Nat /\ OpenSeconds \in Nat
    /\ OpensAt \in [1..MaxTotal -> Nat]
    /\ Outcome \subseteq Outcomes

VARIABLES
    state, failures, total,  \* the atomics
    age,       \* since opened_at
    pc,        \* pc[c]: where caller c is
    read,      \* read[c]: the age of the opened_at that c has read
    seen,      \* seen[c]: the total that c's fetch_add returned, plus one
    stores     \* stores[c]: the stores of open that c has not done yet

atomics == <<state, failures, total, age>>
locals == <<read, seen, stores>>
vars == <<atomics, pc, locals>>

Init ==
    /\ state = "closed" /\ failures = 0 /\ total = 0 /\ age = OpenSeconds
    /\ pc = [c \in Caller |-> "idle"]
    /\ read = [c \in Caller |-> 0]
    /\ seen = [c \in Caller |-> 0]
    /\ stores = [c \in Caller |-> {}]

Goto(c, label) == pc' = [pc EXCEPT ![c] = label]

-----------------------------------------------------------------------------
(* allow.                                                                  *)

LoadState(c) ==
    /\ pc[c] = "idle"
    /\ Goto(c, IF state = "open" THEN "load_opened_at" ELSE "call")
    /\ UNCHANGED <<atomics, locals>>

LoadOpenedAt(c) ==
    /\ pc[c] = "load_opened_at"
    /\ read' = [read EXCEPT ![c] = age]
    /\ Goto(c, "compare")
    /\ UNCHANGED <<atomics, seen, stores>>

\* Refused: the caller goes its way without the dependency.
CompareRefreshes(c) ==
    /\ pc[c] = "compare"
    /\ Goto(c, IF read[c] >= OpenSeconds THEN "store_half_open" ELSE "idle")
    /\ age' = IF read[c] >= OpenSeconds THEN age ELSE 0
    /\ read' = [read EXCEPT ![c] = 0]
    /\ UNCHANGED <<state, failures, total, seen, stores>>
CompareIgnores(c) ==
    /\ pc[c] = "compare"
    /\ Goto(c, "store_half_open")
    /\ read' = [read EXCEPT ![c] = 0]
    /\ UNCHANGED <<atomics, seen, stores>>
Compare(c) ==
    /\ pc[c] = "compare"
    /\ Goto(c, IF read[c] >= OpenSeconds THEN "store_half_open" ELSE "idle")
    /\ read' = [read EXCEPT ![c] = 0]
    /\ UNCHANGED <<atomics, seen, stores>>

StoreHalfOpen(c) ==
    /\ pc[c] = "store_half_open"
    /\ state' = "half_open"
    /\ Goto(c, "call")
    /\ UNCHANGED <<failures, total, age, locals>>

-----------------------------------------------------------------------------
(* The call (external), and record: pc is what is to be recorded.          *)

Call(c) ==
    /\ pc[c] = "call"
    /\ \E outcome \in Outcome : Goto(c, IF outcome = "lost" THEN "idle" ELSE outcome)
    /\ UNCHANGED <<atomics, locals>>

AddTotal(c) ==
    /\ pc[c] \in {"success", "failure"}
    /\ total' = total + 1
    /\ seen' = [seen EXCEPT ![c] = total + 1]
    /\ Goto(c, IF pc[c] = "success" THEN "judge" ELSE "add_failure")
    /\ UNCHANGED <<state, failures, age, read, stores>>

AddFailure(c) ==
    /\ pc[c] = "add_failure"
    /\ failures' = failures + 1
    /\ Goto(c, "judge")
    /\ UNCHANGED <<state, total, age, locals>>

\* The swap of failures, when the window is full; the ratio is its caller's
\* own and so is decided with it.
Opens(c) == failures >= OpensAt[seen[c]]
Full(c) == seen[c] >= Window

JudgeForgets(c) ==
    /\ pc[c] = "judge"
    /\ failures' = 0
    /\ stores' = [stores EXCEPT ![c] = IF Full(c) /\ Opens(c) THEN {"opened_at", "state"} ELSE {}]
    /\ Goto(c, IF Full(c) THEN "reset_total" ELSE "idle")
    /\ seen' = [seen EXCEPT ![c] = 0]
    /\ UNCHANGED <<state, total, age, read>>
Judge(c) ==
    /\ pc[c] = "judge"
    /\ failures' = IF Full(c) THEN 0 ELSE failures
    /\ stores' = [stores EXCEPT ![c] = IF Full(c) /\ Opens(c) THEN {"opened_at", "state"} ELSE {}]
    /\ Goto(c, IF Full(c) THEN "reset_total" ELSE "idle")
    /\ seen' = [seen EXCEPT ![c] = 0]
    /\ UNCHANGED <<state, total, age, read>>

ResetTotalOnOpening(c) ==
    /\ pc[c] = "reset_total"
    /\ total' = IF stores[c] = {} THEN total ELSE 0
    /\ Goto(c, IF stores[c] = {} THEN "idle" ELSE "open")
    /\ UNCHANGED <<state, failures, age, locals>>
ResetTotal(c) ==
    /\ pc[c] = "reset_total"
    /\ total' = 0
    /\ Goto(c, IF stores[c] = {} THEN "idle" ELSE "open")
    /\ UNCHANGED <<state, failures, age, locals>>

\* One of the stores of open.
Open(c) ==
    /\ pc[c] = "open"
    /\ \E s \in stores[c] :
          /\ stores' = [stores EXCEPT ![c] = @ \ {s}]
          /\ Goto(c, IF stores[c] = {s} THEN "idle" ELSE "open")
          /\ IF s = "opened_at" THEN age' = 0 /\ UNCHANGED state
             ELSE state' = "open" /\ UNCHANGED age
    /\ UNCHANGED <<failures, total, read, seen>>

-----------------------------------------------------------------------------
(* Time.                                                                   *)

Older(n) == IF n < OpenSeconds THEN n + 1 ELSE n

Tick ==
    /\ age < OpenSeconds \/ \E c \in Caller : pc[c] = "compare" /\ read[c] < OpenSeconds
    /\ age' = Older(age)
    /\ read' = [c \in Caller |-> IF pc[c] = "compare" THEN Older(read[c]) ELSE read[c]]
    /\ UNCHANGED <<state, failures, total, pc, seen, stores>>

Allow(c) == LoadState(c) \/ LoadOpenedAt(c) \/ Compare(c) \/ StoreHalfOpen(c)
Record(c) == AddTotal(c) \/ AddFailure(c) \/ Judge(c) \/ ResetTotal(c) \/ Open(c)

Next == Tick \/ \E c \in Caller : Allow(c) \/ Call(c) \/ Record(c)

\* Time passes, calls keep coming and every call comes to an end: the wait
\* for headers by its own timeout, the rest by that of the request.
Fairness ==
    /\ WF_vars(Tick)
    /\ \A c \in Caller : WF_vars(Allow(c)) /\ WF_vars(Call(c)) /\ WF_vars(Record(c))

Spec == Init /\ [][Next]_vars /\ Fairness

-----------------------------------------------------------------------------
(* Properties.                                                             *)

Labels == {"idle", "load_opened_at", "compare", "store_half_open", "call",
           "success", "failure", "add_failure", "judge", "reset_total", "open"}

TypeOK ==
    /\ state \in {"closed", "open", "half_open"}
    /\ failures \in Nat /\ total \in 0..MaxTotal /\ age \in 0..OpenSeconds
    /\ pc \in [Caller -> Labels]
    /\ read \in [Caller -> 0..OpenSeconds]
    /\ seen \in [Caller -> 0..MaxTotal]
    /\ stores \in [Caller -> SUBSET {"opened_at", "state"}]

\* A call that comes to anything but a failure.
NoFailure == \E c \in Caller : pc[c] = "call" /\ pc'[c] \in {"idle", "success"}

(* A dependency that from some time on only fails is cut off, again and    *)
(* again, whatever the calls in flight do to each other's counts.          *)
CutsOff == <>[][~NoFailure]_vars => []<>(state = "open")

(* A circuit is never shut for good: calls are let through again and again.*)
NeverShutForGood == []<>(\E c \in Caller : pc[c] = "call")

(* An open circuit stays open for open_seconds.                            *)
StaysOpen == [][state = "open" /\ state' # "open" => age >= OpenSeconds]_vars
=============================================================================
