------------------------------ MODULE Pipeline ------------------------------
(***************************************************************************)
(* mask_line from the candidates on: addresses are put together from their *)
(* parts, filters drop what is not personal, the sweep resolves overlaps,  *)
(* the combination rules hold back, addresses are taken apart again, and   *)
(* one pass replaces what is left.  Each round of a loop is a step.        *)
(*                                                                         *)
(* Candidates are a set: among those that begin at one place the order is  *)
(* that of the detectors, which is any.                                    *)
(***************************************************************************)
EXTENDS AddressChains, Relevance

CONSTANTS
    PdType,
    Candidate,       \* what detectors other than that of addresses may find
    Part,            \* what parts of addresses there may be
    Policy,          \* records: types, filters, priority, threshold,
                     \* components, min_distinct, always_mask, rules
    MaxFound         \* bound: this many of both in a line

NoRule == [scope |-> "none"]

\* Spans are not empty: to_original gives an empty one only for what was found
\* inside the folding of one character.
WellFormed(c) ==
    /\ c.type \in PdType /\ c.from \in Nat /\ c.to \in Nat /\ c.from < c.to
    /\ c.score \in Nat /\ c.checksum \in BOOLEAN /\ c.near \subseteq Words

Rules == {NoRule} \union
         [scope : {"document", "window"}, any : SUBSET PdType, all : SUBSET PdType, chars : Nat]

ASSUME PipelineAssumption ==
    /\ Address \in PdType
    /\ \A c \in Candidate \union Part : WellFormed(c) /\ c.parts = {}
    /\ \A policy \in Policy :
          /\ policy.filters \subseteq Filters
          /\ policy.types \subseteq PdType /\ policy.always_mask \subseteq PdType
          /\ policy.priority \in [PdType -> Int] /\ policy.threshold \in [PdType -> Nat]
          /\ policy.components \in BOOLEAN /\ policy.min_distinct \in Nat
          /\ policy.rules \in [PdType -> Rules]

VARIABLES
    policy,      \* the effective policy of the call
    found,       \* the candidates of all detectors
    pc,          \* "chain", "sweep", "combine", "mask", "done"
    pending,     \* candidates the sweep has not come to, then entities to mask
    selected,    \* the sweep's: those that have won so far, in their order
    lost,        \* <<c, d>>: c was dropped for d
    cursor,      \* the text up to here is done
    masked       \* the entities that were replaced, in their order

vars == <<parts, chains, policy, found, pc, pending, selected, lost, cursor, masked>>

Few(set) == UNION {[1..n -> set] : n \in 0..MaxFound}

Init ==
    /\ policy \in Policy
    /\ \E x \in Few(Candidate \union Part) :
          /\ found = Elements(x) \ Part
          /\ parts = Elements(x) \intersect Part
    /\ pc = "chain" /\ chains = <<>>
    /\ pending = {} /\ selected = <<>> /\ lost = {} /\ cursor = 0 /\ masked = <<>>

-----------------------------------------------------------------------------
(* The detector of addresses, the filters, the threshold of the type.      *)

LinkPart(c) == pc = "chain" /\ Link(c)
               /\ UNCHANGED <<policy, found, pc, pending, selected, lost, cursor, masked>>

BeginChain(c) == pc = "chain" /\ Begin(c)
                 /\ UNCHANGED <<policy, found, pc, pending, selected, lost, cursor, masked>>

\* What comes to the resolver.  The filters are shown all candidates, those
\* below their threshold too.
Eligible(all) ==
    {c \in all : Relevant(c, all, policy.filters) /\ c.score >= policy.threshold[c.type]}

\* The words near an address that any filter asks for.
BankWords == {"office", "branch"}

Assemble ==
    /\ pc = "chain" /\ parts = {}
    /\ \E context \in BOOLEAN, near \in SUBSET BankWords :
          found' = found \union Published(context, near)
    /\ pending' = Eligible(found')
    /\ pc' = "sweep"
    /\ UNCHANGED <<parts, chains, policy, selected, lost, cursor, masked>>

-----------------------------------------------------------------------------
(* DefaultResolver.                                                        *)

Overlap(a, b) == a.from < b.to /\ b.from < a.to
Length(c) == c.to - c.from

\* a_wins: a checksum, then the priority of the type, the score, the length.
Wins(a, b) ==
    IF a.checksum # b.checksum THEN a.checksum
    ELSE IF policy.priority[a.type] # policy.priority[b.type]
         THEN policy.priority[a.type] > policy.priority[b.type]
    ELSE IF a.score # b.score THEN a.score > b.score
    ELSE Length(a) > Length(b)

\* An address is not displaced by a candidate whose parts lie within it.
Absorbs(a, b) == a.type = Address /\ \E p \in b.parts : Overlap(p, a)

Meets(c) == selected # <<>> /\ Overlap(LastOf(selected), c)

Select(c) ==
    /\ pc = "sweep" /\ Earliest(c, pending) /\ ~Meets(c)
    /\ selected' = Append(selected, c)
    /\ pending' = pending \ {c}
    /\ UNCHANGED <<parts, chains, policy, found, pc, lost, cursor, masked>>

DisplaceAndKeep(c) ==
    /\ pc = "sweep" /\ Earliest(c, pending) /\ Meets(c)
    /\ ~Absorbs(LastOf(selected), c) /\ Wins(c, LastOf(selected))
    /\ selected' = Append(selected, c)
    /\ lost' = lost \union {<<LastOf(selected), c>>}
    /\ pending' = pending \ {c}
    /\ UNCHANGED <<parts, chains, policy, found, pc, cursor, masked>>
Displace(c) ==
    /\ pc = "sweep" /\ Earliest(c, pending) /\ Meets(c)
    /\ ~Absorbs(LastOf(selected), c) /\ Wins(c, LastOf(selected))
    /\ selected' = Append(AllButLast(selected), c)
    /\ lost' = lost \union {<<LastOf(selected), c>>}
    /\ pending' = pending \ {c}
    /\ UNCHANGED <<parts, chains, policy, found, pc, cursor, masked>>

DropUncompared(c) ==
    /\ pc = "sweep" /\ Earliest(c, pending) /\ Meets(c)
    /\ lost' = lost \union {<<c, LastOf(selected)>>}
    /\ pending' = pending \ {c}
    /\ UNCHANGED <<parts, chains, policy, found, pc, selected, cursor, masked>>
Drop(c) ==
    /\ pc = "sweep" /\ Earliest(c, pending) /\ Meets(c)
    /\ Absorbs(LastOf(selected), c) \/ ~Wins(c, LastOf(selected))
    /\ lost' = lost \union {<<c, LastOf(selected)>>}
    /\ pending' = pending \ {c}
    /\ UNCHANGED <<parts, chains, policy, found, pc, selected, cursor, masked>>

Swept ==
    /\ pc = "sweep" /\ pending = {}
    /\ pc' = "combine"
    /\ UNCHANGED <<parts, chains, policy, found, pending, selected, lost, cursor, masked>>

-----------------------------------------------------------------------------
(* DefaultCombinationRule, the parts of addresses, the types of the        *)
(* profile.                                                                *)

Near(a, b, chars) == a.from - b.from <= chars /\ b.from - a.from <= chars

\* The types a rule of e may count on.
InScope(e, entities) ==
    LET rule == policy.rules[e.type] IN
    IF rule.scope = "document" THEN TypesOf(entities)
    ELSE TypesOf({o \in entities : Near(e, o, rule.chars)})

Satisfied(e, entities) ==
    LET rule == policy.rules[e.type] IN
    rule.scope # "none" =>
        /\ rule.any = {} \/ rule.any \intersect InScope(e, entities) # {}
        /\ rule.all \subseteq InScope(e, entities)

TooFewTypesFlipped(entities) ==
    policy.min_distinct > 0 /\ Cardinality(TypesOf(entities)) > policy.min_distinct
TooFewTypes(entities) ==
    policy.min_distinct > 0 /\ Cardinality(TypesOf(entities)) < policy.min_distinct

Combine(entities) ==
    IF TooFewTypes(entities) THEN {e \in entities : e.type \in policy.always_mask}
    ELSE {e \in entities : Satisfied(e, entities)}

\* An address is taken apart again where the policy asks for components.
Pieces(e) ==
    IF policy.components /\ e.type = Address /\ e.parts # {} THEN e.parts ELSE {e}

Expand(entities) == UNION {Pieces(e) : e \in entities}

OfProfile(entities) == {e \in entities : e.type \in policy.types}

CombineAndExpand ==
    /\ pc = "combine"
    /\ pending' = OfProfile(Expand(Combine(Elements(selected))))
    /\ pc' = "mask"
    /\ UNCHANGED <<parts, chains, policy, found, selected, lost, cursor, masked>>

-----------------------------------------------------------------------------
(* The masking pass.                                                       *)

MaskAdjacentLeft(e) ==
    /\ pc = "mask" /\ Earliest(e, pending)
    /\ masked' = IF e.from <= cursor THEN masked ELSE Append(masked, e)
    /\ cursor' = IF e.from <= cursor THEN cursor ELSE e.to
    /\ pending' = pending \ {e}
    /\ UNCHANGED <<parts, chains, policy, found, pc, selected, lost>>
\* Everything up to the entity is copied and the entity is replaced; one that
\* begins in what was replaced already is passed over.
Mask(e) ==
    /\ pc = "mask" /\ Earliest(e, pending)
    /\ masked' = IF e.from < cursor THEN masked ELSE Append(masked, e)
    /\ cursor' = IF e.from < cursor THEN cursor ELSE e.to
    /\ pending' = pending \ {e}
    /\ UNCHANGED <<parts, chains, policy, found, pc, selected, lost>>

Done ==
    /\ pc = "mask" /\ pending = {}
    /\ pc' = "done"
    /\ UNCHANGED <<parts, chains, policy, found, pending, selected, lost, cursor, masked>>

Next ==
    \/ \E c \in parts : LinkPart(c) \/ BeginChain(c)
    \/ \E c \in pending : Select(c) \/ Displace(c) \/ Drop(c) \/ Mask(c)
    \/ Assemble \/ Swept \/ CombineAndExpand \/ Done

Spec == Init /\ [][Next]_vars

-----------------------------------------------------------------------------
(* Properties.                                                             *)

TypeOK ==
    /\ policy \in Policy
    /\ parts \subseteq Part /\ \A chain \in Elements(chains) : chain \in Seq(Part)
    /\ pc \in {"chain", "sweep", "combine", "mask", "done"}
    /\ \A c \in found : WellFormed(c) /\ c.parts \subseteq Part
    /\ selected \in Seq(found)
    /\ lost \subseteq found \X found
    /\ pending \subseteq found \union Part
    /\ cursor \in Nat
    /\ masked \in Seq(found \union Part)

InOrder(seq) == \A i \in 1..Len(seq) - 1 : seq[i].to <= seq[i + 1].from

(* The sweep compares a candidate with the last one selected alone; what   *)
(* it selects is disjoint all the same, whoever displaces whom.            *)
SelectedApart == InOrder(selected)

Strongest(c, all) == \A d \in all \ {c} : Overlap(c, d) => Wins(c, d) /\ ~Absorbs(d, c)

(* A candidate that beats every other one it overlaps, and that no address *)
(* absorbs, is selected, whichever of the others have been dropped for one *)
(* another before the sweep comes to it and after.                         *)
StrongestSelected ==
    pc = "combine" =>
        \A c \in Eligible(found) : Strongest(c, Eligible(found)) => c \in Elements(selected)

(* What comes to the masking pass, entities and the parts of addresses, is *)
(* disjoint: nothing is passed over, and no piece is replaced twice.       *)
NothingPassedOver ==
    pc = "mask" =>
        /\ InOrder(masked)
        /\ \A e \in pending : cursor <= e.from

Uncovered(e) == \A i \in 1..Len(masked) : ~Overlap(e, masked[i])

(* A candidate that no filter drops and that is above its threshold is     *)
(* left as it was, or a piece of it that the profile has, only if it lost  *)
(* to another or was held back by a combination rule.                      *)
LeftForAReason ==
    pc = "done" =>
        \A c \in Eligible(found) :
            (\E e \in OfProfile(Pieces(c)) : Uncovered(e))
            => \/ \E x \in lost : x[1] = c
               \/ c \notin Combine(Elements(selected))

\* With too few types a type of always_mask is masked whatever its own rule
\* says; with more types the rule holds again.
RuledAndAlways(type) == type \in policy.always_mask /\ policy.rules[type] # NoRule

(* Filters and combination rules only ever ask for company: had less been  *)
(* found, no more would come to the resolver, nor from it to the mask; but *)
(* for types that always_mask and a rule both name.                        *)
MoreFoundMoreMasked ==
    /\ pc = "sweep" /\ lost = {} /\ selected = <<>> =>
          \A fewer \in SUBSET found : Eligible(fewer) \subseteq Eligible(found)
    /\ pc = "combine" =>
        \A fewer \in SUBSET Elements(selected) :
            \A e \in Combine(fewer) \ Combine(Elements(selected)) :
                TooFewTypes(fewer) /\ RuledAndAlways(e.type)

(* README: the addresses of the bank's offices are filtered out.           *)
OnlyOfficesDropped ==
    pc = "done" =>
        \A c \in found :
            c.score >= policy.threshold[c.type] /\ ~Relevant(c, found, {"bank_allowlist"})
            => c.type \in PlaceTypes
=============================================================================
