--------------------------- MODULE PipelineProofs ---------------------------
(***************************************************************************)
(* Theorems about Pipeline: the sweep selects candidates that are apart    *)
(* from one another, the strongest among them, and what it leaves in the   *)
(* text it leaves for a reason.                                            *)
(***************************************************************************)
EXTENDS Pipeline, FiniteSetTheorems, FunctionTheorems, TLAPS

-----------------------------------------------------------------------------
(* Sequences.                                                              *)

LEMMA AppendFacts ==
    ASSUME NEW S, NEW seq \in Seq(S), NEW x
    PROVE  /\ Len(Append(seq, x)) = Len(seq) + 1
           /\ DOMAIN Append(seq, x) = 1..Len(seq) + 1
           /\ \A i \in 1..Len(seq) : Append(seq, x)[i] = seq[i]
           /\ Append(seq, x)[Len(seq) + 1] = x
           /\ Append(seq, x) # <<>>
           /\ LastOf(Append(seq, x)) = x
           /\ Elements(Append(seq, x)) = Elements(seq) \union {x}
<1>1. /\ Len(Append(seq, x)) = Len(seq) + 1
      /\ DOMAIN Append(seq, x) = 1..Len(seq) + 1
      /\ DOMAIN seq = 1..Len(seq)
      /\ Len(seq) \in Nat
      /\ \A i \in 1..Len(seq) : Append(seq, x)[i] = seq[i]
      /\ Append(seq, x)[Len(seq) + 1] = x
  OBVIOUS
<1>2. LastOf(Append(seq, x)) = x
  BY <1>1 DEF LastOf
<1>3. Append(seq, x) # <<>>
  BY <1>1
<1>4. Elements(Append(seq, x)) = Elements(seq) \union {x}
  <2>1. 1..Len(seq) + 1 = (1..Len(seq)) \union {Len(seq) + 1}
    BY <1>1
  <2> QED
    BY <1>1, <2>1 DEF Elements
<1> QED
  BY <1>1, <1>2, <1>3, <1>4

LEMMA ButLastFacts ==
    ASSUME NEW S, NEW seq \in Seq(S), seq # <<>>
    PROVE  /\ AllButLast(seq) \in Seq(S)
           /\ Len(AllButLast(seq)) = Len(seq) - 1
           /\ DOMAIN AllButLast(seq) = 1..Len(seq) - 1
           /\ \A i \in 1..Len(seq) - 1 : AllButLast(seq)[i] = seq[i]
           /\ LastOf(seq) \in S
           /\ LastOf(seq) \in Elements(seq)
           /\ Elements(seq) = Elements(AllButLast(seq)) \union {LastOf(seq)}
<1>1. Len(seq) \in Nat /\ Len(seq) > 0 /\ DOMAIN seq = 1..Len(seq)
  OBVIOUS
<1>2. /\ AllButLast(seq) \in Seq(S)
      /\ Len(AllButLast(seq)) = Len(seq) - 1
      /\ DOMAIN AllButLast(seq) = 1..Len(seq) - 1
      /\ \A i \in 1..Len(seq) - 1 : AllButLast(seq)[i] = seq[i]
  BY <1>1 DEF AllButLast
<1>3. LastOf(seq) \in S /\ LastOf(seq) \in Elements(seq)
  BY <1>1 DEF LastOf, Elements
<1>4. Elements(seq) = Elements(AllButLast(seq)) \union {LastOf(seq)}
  <2>1. 1..Len(seq) = (1..Len(seq) - 1) \union {Len(seq)}
    BY <1>1
  <2> QED
    BY <1>1, <1>2, <2>1 DEF Elements, LastOf
<1> QED
  BY <1>2, <1>3, <1>4

LEMMA ElementsType ==
    ASSUME NEW S, NEW seq \in Seq(S)
    PROVE  Elements(seq) \subseteq S /\ Elements(seq) = {seq[i] : i \in 1..Len(seq)}
  BY DEF Elements

\* The entities of a sequence stand in its order and apart.
Apart(seq) == \A i, j \in 1..Len(seq) : i < j => seq[i].to <= seq[j].from

LEMMA AppendApart ==
    ASSUME NEW S, NEW seq \in Seq(S), NEW x, Apart(seq),
           \A s \in S : WellFormed(s), WellFormed(x),
           seq # <<>> => LastOf(seq).to <= x.from
    PROVE  Apart(Append(seq, x))
<1>1. SUFFICES ASSUME NEW i \in 1..Len(seq) + 1, NEW j \in 1..Len(seq) + 1, i < j
               PROVE  Append(seq, x)[i].to <= Append(seq, x)[j].from
  BY AppendFacts DEF Apart
<1>2. Len(seq) \in Nat /\ i \in 1..Len(seq) /\ Append(seq, x)[i] = seq[i] /\ seq[i] \in S
  BY <1>1
<1>3. CASE j <= Len(seq)
  <2>1. Append(seq, x)[j] = seq[j]
    BY <1>2, <1>3
  <2> QED
    BY <1>1, <1>2, <1>3, <2>1 DEF Apart
<1>4. CASE j = Len(seq) + 1
  <2>1. Append(seq, x)[j] = x
    BY <1>4
  <2>2. seq # <<>> /\ LastOf(seq) = seq[Len(seq)] /\ LastOf(seq) \in S
    BY <1>2, ButLastFacts DEF LastOf
  <2>3. seq[i].to <= LastOf(seq).to
    <3>1. CASE i = Len(seq)
      BY <3>1, <2>2 DEF WellFormed
    <3>2. CASE i < Len(seq)
      <4>1. seq[i].to <= LastOf(seq).from
        BY <3>2, <1>2, <2>2 DEF Apart
      <4>2. WellFormed(seq[i]) /\ WellFormed(LastOf(seq))
        BY <1>2, <2>2
      <4> QED
        BY <4>1, <4>2 DEF WellFormed
    <3> QED
      BY <3>1, <3>2, <1>2
  <2>4. WellFormed(seq[i]) /\ WellFormed(LastOf(seq)) /\ WellFormed(x)
    BY <1>2, <2>2
  <2>5. LastOf(seq).to <= x.from
    BY <2>2
  <2>6. /\ seq[i].to \in Nat /\ LastOf(seq).to \in Nat /\ x.from \in Nat
    BY <2>4 DEF WellFormed
  <2>7. seq[i].to <= x.from
    BY <2>3, <2>5, <2>6
  <2> QED
    BY <1>2, <2>1, <2>7
<1> QED
  BY <1>2, <1>3, <1>4

LEMMA ButLastApart ==
    ASSUME NEW S, NEW seq \in Seq(S), seq # <<>>, Apart(seq),
           \A s \in S : WellFormed(s)
    PROVE  /\ Apart(AllButLast(seq))
           /\ \A i \in 1..Len(seq) - 1 : seq[i].to <= LastOf(seq).from
<1>1. Len(seq) \in Nat /\ Len(seq) > 0
  OBVIOUS
<1>2. Apart(AllButLast(seq))
  <2> DEFINE short == AllButLast(seq)
  <2>1. Len(short) = Len(seq) - 1 /\ \A i \in 1..Len(seq) - 1 : short[i] = seq[i]
    BY ButLastFacts
  <2>2. \A i, j \in 1..Len(seq) - 1 : i < j => seq[i].to <= seq[j].from
    BY <1>1 DEF Apart
  <2> HIDE DEF short
  <2>3. Apart(short)
    BY <2>1, <2>2 DEF Apart
  <2> QED
    BY <2>3 DEF short
<1>3. \A i \in 1..Len(seq) - 1 : seq[i].to <= LastOf(seq).from
  BY <1>1 DEF Apart, LastOf
<1> QED
  BY <1>2, <1>3

-----------------------------------------------------------------------------
(* Every candidate is well formed, and the parts of an address are apart   *)
(* from one another and within it.                                         *)

Within(c) ==
    \A p \in c.parts :
        /\ c.from <= p.from /\ p.to <= c.to
        /\ \A q \in c.parts : p # q => p.to <= q.from \/ q.to <= p.from

ChainOK(chain) == chain \in Seq(Part) /\ chain # <<>> /\ Apart(chain)

CandidatesInv ==
    /\ policy \in Policy
    /\ parts \subseteq Part
    /\ chains \in Seq(Seq(Part)) /\ \A k \in 1..Len(chains) : ChainOK(chains[k])
    /\ \A c \in found : WellFormed(c) /\ c.parts \subseteq Part /\ Within(c)

LEMMA PartsWellFormed == \A c \in Part : WellFormed(c) /\ c.parts = {}
  BY PipelineAssumption

LEMMA FewType ==
    ASSUME NEW S, NEW x \in Few(S)
    PROVE  Elements(x) \subseteq S
  BY DEF Few, Elements

LEMMA CandidatesInit == Init => CandidatesInv
<1> SUFFICES ASSUME Init PROVE CandidatesInv
  OBVIOUS
<1>1. PICK x \in Few(Candidate \union Part) :
          /\ found = Elements(x) \ Part
          /\ parts = Elements(x) \intersect Part
  BY DEF Init
<1>2. found \subseteq Candidate
  BY <1>1, FewType
<1>3. \A c \in found : WellFormed(c) /\ c.parts = {}
  BY <1>2, PipelineAssumption
<1> QED
  BY <1>1, <1>3 DEF Init, CandidatesInv, Within

LEMMA ChainWithin ==
    ASSUME NEW chain, ChainOK(chain)
    PROVE  /\ \A p \in Elements(chain) :
                  /\ p \in Part
                  /\ chain[1].from <= p.from /\ p.to <= LastOf(chain).to
                  /\ \A q \in Elements(chain) : p # q => p.to <= q.from \/ q.to <= p.from
           /\ chain[1] \in Part /\ LastOf(chain) \in Part
           /\ chain[1].from < LastOf(chain).to
<1>1. Len(chain) \in Nat /\ Len(chain) > 0 /\ chain \in Seq(Part)
  BY DEF ChainOK
<1>2. \A i \in 1..Len(chain) : chain[i] \in Part /\ WellFormed(chain[i])
  BY <1>1, PartsWellFormed
<1>3. \A i, j \in 1..Len(chain) :
          /\ i < j => chain[i].to <= chain[j].from
          /\ chain[i].from \in Nat /\ chain[i].to \in Nat /\ chain[i].from < chain[i].to
  BY <1>2 DEF ChainOK, Apart, WellFormed
<1>4. \A i \in 1..Len(chain) : chain[1].from <= chain[i].from /\ chain[i].to <= LastOf(chain).to
  <2> TAKE i \in 1..Len(chain)
  <2>1. chain[1].from <= chain[i].from
    <3>1. CASE i = 1
      BY <3>1, <1>1, <1>3
    <3>2. CASE i > 1
      <4>1. chain[1].to <= chain[i].from
        BY <3>2, <1>1, <1>3
      <4> QED
        BY <4>1, <1>1, <1>3
    <3> QED
      BY <3>1, <3>2
  <2>2. chain[i].to <= chain[Len(chain)].to
    <3>1. CASE i = Len(chain)
      BY <3>1, <1>3
    <3>2. CASE i < Len(chain)
      <4>1. chain[i].to <= chain[Len(chain)].from
        BY <3>2, <1>1, <1>3
      <4> QED
        BY <4>1, <1>1, <1>3
    <3> QED
      BY <3>1, <3>2, <1>1
  <2> QED
    BY <2>1, <2>2 DEF LastOf
<1>5. \A i, j \in 1..Len(chain) :
          chain[i] # chain[j] => chain[i].to <= chain[j].from \/ chain[j].to <= chain[i].from
  <2> TAKE i, j \in 1..Len(chain)
  <2>1. i < j \/ j < i \/ i = j
    BY <1>1
  <2> QED
    BY <2>1, <1>3
<1>6. Elements(chain) = {chain[i] : i \in 1..Len(chain)}
  BY <1>1 DEF Elements
<1>7. chain[1] \in Part /\ LastOf(chain) \in Part
  BY <1>1, <1>2 DEF LastOf
<1>8. chain[1].from < LastOf(chain).to
  <2>1. 1 \in 1..Len(chain) /\ Len(chain) \in 1..Len(chain)
    BY <1>1
  <2>2. chain[1].to <= LastOf(chain).to
    BY <2>1, <1>4
  <2> QED
    BY <2>1, <2>2, <1>3 DEF LastOf
<1> QED
  BY <1>2, <1>4, <1>5, <1>6, <1>7, <1>8

LEMMA AddressOK ==
    ASSUME NEW chain, ChainOK(chain), NEW context \in BOOLEAN, NEW near \in SUBSET BankWords
    PROVE  LET a == AddressOf(chain, context, near) IN
           WellFormed(a) /\ a.parts \subseteq Part /\ Within(a)
<1> DEFINE a == AddressOf(chain, context, near)
<1>1. /\ a.type = Address /\ a.from = chain[1].from /\ a.to = LastOf(chain).to
      /\ a.score = Score(chain, context) /\ a.checksum = FALSE
      /\ a.near = near /\ a.parts = Elements(chain)
  BY DEF AddressOf
<1>2. WellFormed(chain[1]) /\ WellFormed(LastOf(chain))
  BY ChainWithin, PartsWellFormed
<1>3. a.score \in Nat
  BY <1>1 DEF Score
<1>4. a.near \subseteq Words
  BY <1>1 DEF BankWords, Words
<1>5. WellFormed(a)
  BY <1>1, <1>2, <1>3, <1>4, ChainWithin, PipelineAssumption DEF WellFormed
<1>6. a.parts \subseteq Part /\ Within(a)
  BY <1>1, ChainWithin DEF Within
<1> QED
  BY <1>5, <1>6

LEMMA CandidatesStep == CandidatesInv /\ [Next]_vars => CandidatesInv'
<1> SUFFICES ASSUME CandidatesInv, [Next]_vars PROVE CandidatesInv'
  OBVIOUS
<1> USE DEF CandidatesInv
<1>1. ASSUME NEW c \in parts, LinkPart(c)
      PROVE  CandidatesInv'
  <2> DEFINE last == LastOf(chains)
  <2>1. /\ chains # <<>> /\ Follows(c, LastOf(last)) /\ c \in Part
        /\ chains' = Append(AllButLast(chains), Append(last, c))
        /\ parts' = parts \ {c} /\ UNCHANGED <<policy, found>>
    BY <1>1 DEF LinkPart, Link
  <2>2. Len(chains) \in 1..Len(chains) /\ last = chains[Len(chains)] /\ ChainOK(last)
    <3>1. Len(chains) \in 1..Len(chains)
      BY <2>1
    <3>2. last = chains[Len(chains)]
      BY DEF LastOf
    <3>3. ChainOK(chains[Len(chains)])
      BY <3>1
    <3> QED
      BY <3>1, <3>2, <3>3
  <2>3. Append(last, c) \in Seq(Part) /\ Append(last, c) # <<>>
    BY <2>1, <2>2, AppendFacts DEF ChainOK
  <2>4. Apart(Append(last, c))
    BY <2>1, <2>2, AppendApart, PartsWellFormed DEF ChainOK, Follows
  <2>5. chains' \in Seq(Seq(Part)) /\ Len(chains') = Len(chains)
    BY <2>1, <2>3, ButLastFacts
  <2>6. \A k \in 1..Len(chains') : ChainOK(chains'[k])
    <3> DEFINE short == AllButLast(chains)
    <3>3. /\ short \in Seq(Seq(Part)) /\ Len(short) = Len(chains) - 1
          /\ \A k \in 1..Len(chains) - 1 : short[k] = chains[k]
      BY <2>1, ButLastFacts
    <3> HIDE DEF short
    <3>4. /\ chains'[Len(chains)] = Append(last, c)
          /\ \A k \in 1..Len(chains) - 1 : chains'[k] = chains[k]
      BY <3>3, <2>1, <2>3, AppendFacts DEF short
    <3> TAKE k \in 1..Len(chains')
    <3>1. CASE k = Len(chains)
      <4>1. chains'[k] = Append(last, c)
        BY <3>1, <3>4
      <4> QED
        BY <4>1, <2>3, <2>4 DEF ChainOK
    <3>2. CASE k < Len(chains)
      <4>1. chains'[k] = chains[k] /\ k \in 1..Len(chains)
        BY <3>2, <3>4, <2>5
      <4> QED
        BY <4>1
    <3> QED
      BY <3>1, <3>2, <2>5
  <2> QED
    BY <2>1, <2>5, <2>6 DEF ChainOK, Apart, Within, WellFormed
<1>2. ASSUME NEW c \in parts, BeginChain(c)
      PROVE  CandidatesInv'
  <2>1. /\ c \in Part /\ chains' = Append(chains, <<c>>)
        /\ parts' = parts \ {c} /\ UNCHANGED <<policy, found>>
    BY <1>2 DEF BeginChain, Begin
  <2>2. <<c>> \in Seq(Part) /\ ChainOK(<<c>>)
    BY <2>1 DEF ChainOK, Apart
  <2>3. chains' \in Seq(Seq(Part)) /\ Len(chains') = Len(chains) + 1
    BY <2>1, <2>2
  <2>4. \A k \in 1..Len(chains') : ChainOK(chains'[k])
    <3> TAKE k \in 1..Len(chains')
    <3>1. chains'[k] = IF k <= Len(chains) THEN chains[k] ELSE <<c>>
      BY <2>1, <2>2, <2>3
    <3> QED
      BY <3>1, <2>2, <2>3
  <2> QED
    BY <2>1, <2>3, <2>4
<1>3. CASE Assemble
  <2>1. PICK context \in BOOLEAN, near \in SUBSET BankWords :
               found' = found \union Published(context, near)
    BY <1>3 DEF Assemble
  <2>2. UNCHANGED <<policy, parts, chains>>
    BY <1>3 DEF Assemble
  <2>3. \A chain \in Elements(chains) : ChainOK(chain)
    BY ElementsType
  <2>4. \A c \in Published(context, near) : WellFormed(c) /\ c.parts \subseteq Part /\ Within(c)
    <3> TAKE c \in Published(context, near)
    <3>1. CASE \E chain \in Elements(chains) : c \in Elements(chain)
      <4>1. c \in Part
        BY <3>1, <2>3, ChainWithin
      <4> QED
        BY <4>1, PartsWellFormed DEF Within
    <3>2. CASE \E chain \in Elements(chains) : c = AddressOf(chain, context, near)
      BY <3>2, <2>3, AddressOK
    <3>3. \/ c \in UNION {Elements(chain) : chain \in Elements(chains)}
          \/ c \in {AddressOf(chain, context, near) : chain \in {x \in Elements(chains) : SaysEnough(x)}}
      BY DEF Published
    <3> QED
      BY <3>1, <3>2, <3>3
  <2> QED
    BY <2>1, <2>2, <2>4
<1>4. CASE UNCHANGED <<policy, parts, chains, found>>
  BY <1>4
<1>5. CASE Swept \/ CombineAndExpand \/ Done \/ UNCHANGED vars
  BY <1>4, <1>5 DEF Swept, CombineAndExpand, Done, vars
<1>6. ASSUME NEW c \in pending, Select(c) \/ Displace(c) \/ Drop(c) \/ Mask(c)
      PROVE  CandidatesInv'
  BY <1>4, <1>6 DEF Select, Displace, Drop, Mask
<1> QED
  BY <1>1, <1>2, <1>3, <1>5, <1>6 DEF Next
-----------------------------------------------------------------------------
(* The sweep.  An eligible candidate waits, is selected or has lost to     *)
(* another; one that beats all others never loses; and what waits begins   *)
(* no earlier than the last one selected, which is why comparing with the  *)
(* last one alone keeps the selected apart.                                *)

Waiting == IF pc = "sweep" THEN pending ELSE {}
Losers == {x[1] : x \in lost}

SweepInv ==
    /\ selected \in Seq(found) /\ Apart(selected)
    /\ lost \subseteq found \X found
    /\ pc = "chain" => selected = <<>> /\ lost = {}
    /\ pc # "chain" =>
          /\ Elements(selected) \subseteq Eligible(found)
          /\ Eligible(found) \subseteq Waiting \union Elements(selected) \union Losers
          /\ \A c \in Eligible(found) :
                Strongest(c, Eligible(found)) => c \in Waiting \union Elements(selected)
    /\ pc = "sweep" =>
          /\ pending \subseteq Eligible(found)
          /\ pending \intersect Elements(selected) = {}
          /\ selected # <<>> => \A c \in pending : LastOf(selected).from <= c.from

LEMMA EligibleFound == Eligible(found) \subseteq found
  BY DEF Eligible

LEMMA SamePolicy ==
    ASSUME UNCHANGED <<policy, found>>
    PROVE  /\ Eligible(found)' = Eligible(found)
           /\ \A c : Strongest(c, Eligible(found))' = Strongest(c, Eligible(found))
  BY DEF Eligible, Strongest, Wins

LEMMA WinsOnce ==
    ASSUME CandidatesInv, NEW a \in found, NEW b \in found, Wins(a, b)
    PROVE  ~Wins(b, a)
<1>1. WellFormed(a) /\ WellFormed(b)
  BY DEF CandidatesInv
<1>2. policy.priority[a.type] \in Int /\ policy.priority[b.type] \in Int
  BY <1>1, PipelineAssumption DEF CandidatesInv, WellFormed
<1> QED
  BY <1>1, <1>2 DEF Wins, WellFormed, Length

LEMMA SweepInit == Init => SweepInv
<1> SUFFICES ASSUME Init PROVE SweepInv
  OBVIOUS
<1> QED
  BY DEF Init, SweepInv, Apart

\* What the steps of the sweep have in common.
LEMMA SweepFacts ==
    ASSUME CandidatesInv, SweepInv, pc = "sweep", NEW c, Earliest(c, pending)
    PROVE  /\ c \in pending /\ c \in Eligible(found) /\ c \in found /\ WellFormed(c)
           /\ \A d \in found : WellFormed(d)
           /\ \A d \in pending : c.from <= d.from
           /\ selected \in Seq(found)
           /\ selected # <<>> =>
                 /\ LastOf(selected) \in found /\ LastOf(selected) \in Eligible(found)
                 /\ LastOf(selected) # c /\ LastOf(selected).from <= c.from
                 /\ WellFormed(LastOf(selected))
<1>1. /\ c \in pending /\ c \in Eligible(found) /\ c \in found /\ WellFormed(c)
      /\ \A d \in found : WellFormed(d)
      /\ \A d \in pending : c.from <= d.from
      /\ selected \in Seq(found)
  BY EligibleFound DEF Earliest, SweepInv, CandidatesInv
<1>2. ASSUME selected # <<>>
      PROVE  /\ LastOf(selected) \in found /\ LastOf(selected) \in Eligible(found)
             /\ LastOf(selected) # c /\ LastOf(selected).from <= c.from
             /\ WellFormed(LastOf(selected))
  <2>1. LastOf(selected) \in found /\ LastOf(selected) \in Elements(selected)
    BY <1>1, <1>2, ButLastFacts
  <2> QED
    BY <1>1, <1>2, <2>1 DEF SweepInv
<1> QED
  BY <1>1, <1>2

LEMMA OneMoreLost ==
    ASSUME NEW S, NEW a, NEW b
    PROVE  {x[1] : x \in S \union {<<a, b>>}} = {x[1] : x \in S} \union {a}
<1>1. <<a, b>>[1] = a
  OBVIOUS
<1> QED
  BY <1>1

LEMMA SelectStep ==
    ASSUME CandidatesInv, SweepInv, NEW c \in pending, Select(c)
    PROVE  SweepInv'
<1>1. /\ pc = "sweep" /\ pc' = "sweep" /\ Earliest(c, pending) /\ ~Meets(c)
      /\ selected' = Append(selected, c) /\ pending' = pending \ {c}
      /\ UNCHANGED <<policy, found, lost>>
  BY DEF Select
<1>2. /\ c \in Eligible(found) /\ c \in found /\ WellFormed(c)
      /\ \A d \in found : WellFormed(d)
      /\ \A d \in pending : c.from <= d.from
      /\ selected \in Seq(found)
      /\ selected # <<>> => /\ LastOf(selected).from <= c.from /\ WellFormed(LastOf(selected))
  BY <1>1, SweepFacts
<1>3. selected # <<>> => LastOf(selected).to <= c.from
  BY <1>1, <1>2 DEF Meets, Overlap, WellFormed
<1>4. selected' \in Seq(found) /\ Apart(selected')
  BY <1>1, <1>2, <1>3, AppendApart DEF SweepInv
<1>5. Elements(selected') = Elements(selected) \union {c} /\ LastOf(selected') = c
  BY <1>1, <1>2, AppendFacts
<1>6. Waiting' = Waiting \ {c} /\ Losers' = Losers
  BY <1>1 DEF Waiting, Losers
<1> QED
  BY <1>1, <1>2, <1>4, <1>5, <1>6, SamePolicy DEF SweepInv, Apart

LEMMA DisplaceStep ==
    ASSUME CandidatesInv, SweepInv, NEW c \in pending, Displace(c)
    PROVE  SweepInv'
<1> DEFINE d == LastOf(selected)
           short == AllButLast(selected)
<1>1. /\ pc = "sweep" /\ pc' = "sweep" /\ Earliest(c, pending) /\ selected # <<>>
      /\ Overlap(d, c) /\ Wins(c, d)
      /\ selected' = Append(short, c) /\ pending' = pending \ {c}
      /\ lost' = lost \union {<<d, c>>}
      /\ UNCHANGED <<policy, found>>
  BY DEF Displace, Meets
<1>2. /\ c \in Eligible(found) /\ c \in found /\ WellFormed(c)
      /\ \A e \in found : WellFormed(e)
      /\ \A e \in pending : c.from <= e.from
      /\ selected \in Seq(found)
      /\ d \in found /\ d \in Eligible(found) /\ d # c /\ d.from <= c.from /\ WellFormed(d)
  BY <1>1, SweepFacts
<1>3. /\ short \in Seq(found)
      /\ Elements(selected) = Elements(short) \union {d}
  BY <1>1, <1>2, ButLastFacts
<1>4. short # <<>> => LastOf(short).to <= d.from
  <2>1. Len(short) = Len(selected) - 1 /\ \A i \in 1..Len(selected) - 1 : short[i] = selected[i]
    BY <1>1, <1>2, ButLastFacts
  <2>2. \A i \in 1..Len(selected) - 1 : selected[i].to <= d.from
    BY <1>1, <1>2, ButLastApart DEF SweepInv
  <2>3. short # <<>> => Len(short) \in 1..Len(selected) - 1
    BY <1>3, <2>1
  <2> QED
    BY <2>1, <2>2, <2>3 DEF LastOf
<1>5. short # <<>> => LastOf(short).to <= c.from
  <2>1. short # <<>> => WellFormed(LastOf(short))
    BY <1>2, <1>3, ButLastFacts
  <2> QED
    BY <1>2, <1>4, <2>1 DEF WellFormed
<1>6. selected' \in Seq(found) /\ Apart(selected')
  <2>1. Apart(short)
    BY <1>1, <1>2, ButLastApart DEF SweepInv
  <2> QED
    BY <1>1, <1>2, <1>3, <1>5, <2>1, AppendApart
<1>7. /\ Elements(selected') = Elements(short) \union {c}
      /\ LastOf(selected') = c
  BY <1>1, <1>3, AppendFacts
<1>8. ~Strongest(d, Eligible(found))
  <2>1. Overlap(d, c) /\ ~Wins(d, c)
    BY <1>1, <1>2, WinsOnce
  <2> QED
    BY <1>2, <2>1 DEF Strongest
<1>9. /\ Waiting' = Waiting \ {c} /\ Waiting = pending
      /\ Losers' = Losers \union {d}
  BY <1>1, OneMoreLost DEF Waiting, Losers
<1> HIDE DEF d, short
<1>10. Elements(selected') \subseteq Eligible(found)
  BY <1>2, <1>3, <1>7, <1>1 DEF SweepInv
<1>11. Eligible(found) \subseteq Waiting' \union Elements(selected') \union Losers'
  BY <1>1, <1>3, <1>7, <1>9 DEF SweepInv
<1>12. \A e \in Eligible(found) :
          Strongest(e, Eligible(found)) => e \in Waiting' \union Elements(selected')
  BY <1>1, <1>3, <1>7, <1>8, <1>9 DEF SweepInv
<1>13. /\ pending' \subseteq Eligible(found)
       /\ pending' \intersect Elements(selected') = {}
       /\ \A e \in pending' : LastOf(selected').from <= e.from
  BY <1>1, <1>2, <1>3, <1>7 DEF SweepInv
<1>14. lost' \subseteq found \X found
  BY <1>1, <1>2 DEF SweepInv
<1> QED
  BY <1>1, <1>6, <1>10, <1>11, <1>12, <1>13, <1>14, SamePolicy DEF SweepInv, Apart

LEMMA DropStep ==
    ASSUME CandidatesInv, SweepInv, NEW c \in pending, Drop(c)
    PROVE  SweepInv'
<1> DEFINE d == LastOf(selected)
<1>1. /\ pc = "sweep" /\ pc' = "sweep" /\ Earliest(c, pending) /\ selected # <<>>
      /\ Overlap(d, c) /\ (Absorbs(d, c) \/ ~Wins(c, d))
      /\ selected' = selected /\ pending' = pending \ {c}
      /\ lost' = lost \union {<<c, d>>}
      /\ UNCHANGED <<policy, found>>
  BY DEF Drop, Meets
<1>2. /\ c \in Eligible(found) /\ c \in found
      /\ d \in found /\ d \in Eligible(found) /\ d # c
  BY <1>1, SweepFacts
<1>3. ~Strongest(c, Eligible(found))
  <2>1. Overlap(c, d)
    BY <1>1 DEF Overlap
  <2> QED
    BY <1>1, <1>2, <2>1 DEF Strongest
<1>4. /\ Waiting' = Waiting \ {c} /\ Waiting = pending
      /\ Losers' = Losers \union {c}
  BY <1>1, OneMoreLost DEF Waiting, Losers
<1> HIDE DEF d
<1> QED
  BY <1>1, <1>2, <1>3, <1>4, SamePolicy DEF SweepInv, Apart

LEMMA SweepStep == CandidatesInv /\ SweepInv /\ [Next]_vars => SweepInv'
<1> SUFFICES ASSUME CandidatesInv, SweepInv, [Next]_vars PROVE SweepInv'
  OBVIOUS
<1>1. ASSUME UNCHANGED <<policy, found, selected, lost, pc, pending>>
      PROVE  SweepInv'
  BY <1>1, SamePolicy DEF SweepInv, Waiting, Losers, Apart
<1>2. ASSUME NEW c \in parts, LinkPart(c) \/ BeginChain(c)
      PROVE  SweepInv'
  BY <1>1, <1>2 DEF LinkPart, BeginChain
<1>3. CASE Assemble
  <2>1. /\ pc = "chain" /\ pc' = "sweep" /\ selected' = <<>> /\ lost' = {}
        /\ pending' = Eligible(found)' /\ policy' = policy
    BY <1>3 DEF Assemble, SweepInv, Eligible
  <2>2. Elements(selected') = {} /\ Waiting' = pending' /\ Apart(selected')
    BY <2>1 DEF Elements, Waiting, Apart
  <2> QED
    BY <2>1, <2>2 DEF SweepInv, Apart, Elements
<1>4. ASSUME NEW c \in pending, Select(c) \/ Displace(c) \/ Drop(c)
      PROVE  SweepInv'
  BY <1>4, SelectStep, DisplaceStep, DropStep
<1>5. CASE Swept
  <2>1. /\ pc = "sweep" /\ pc' = "combine" /\ pending = {}
        /\ UNCHANGED <<policy, found, selected, lost>>
    BY <1>5 DEF Swept
  <2>2. Waiting = {} /\ Waiting' = {} /\ Losers' = Losers
    BY <2>1 DEF Waiting, Losers
  <2> QED
    BY <2>1, <2>2, SamePolicy DEF SweepInv, Apart
<1>6. ASSUME /\ pc \in {"combine", "mask"} /\ pc' \in {"mask", "done"}
             /\ UNCHANGED <<policy, found, selected, lost>>
      PROVE  SweepInv'
  <2>1. Waiting = {} /\ Waiting' = {} /\ Losers' = Losers
    BY <1>6 DEF Waiting, Losers
  <2> QED
    BY <1>6, <2>1, SamePolicy DEF SweepInv, Apart
<1>7. CASE CombineAndExpand
  BY <1>6, <1>7 DEF CombineAndExpand
<1>8. ASSUME NEW e \in pending, Mask(e)
      PROVE  SweepInv'
  BY <1>6, <1>8 DEF Mask
<1>9. CASE Done
  BY <1>6, <1>9 DEF Done
<1>10. CASE UNCHANGED vars
  BY <1>1, <1>10 DEF vars
<1> QED
  BY <1>2, <1>3, <1>4, <1>5, <1>7, <1>8, <1>9, <1>10 DEF Next
-----------------------------------------------------------------------------
(* The masking pass.  What it is given is apart as well, since the pieces  *)
(* of an address lie within it, so that it never meets an entity that      *)
(* begins before the cursor.                                               *)

ToMask == OfProfile(Expand(Combine(Elements(selected))))

MaskInv ==
    /\ pc \in {"chain", "sweep", "combine", "mask", "done"}
    /\ pending \subseteq found \union Part
    /\ masked \in Seq(found \union Part) /\ Apart(masked)
    /\ cursor \in Nat
    /\ cursor = IF masked = <<>> THEN 0 ELSE LastOf(masked).to
    /\ pc \notin {"mask", "done"} => masked = <<>>
    /\ pc = "mask" =>
          /\ \A e \in pending : cursor <= e.from
          /\ \A e, f \in pending : e # f => e.to <= f.from \/ f.to <= e.from
          /\ ToMask \subseteq pending \union Elements(masked)
    /\ pc = "done" => ToMask \subseteq Elements(masked)

LEMMA CombineKeeps ==
    ASSUME NEW S
    PROVE  Combine(S) \subseteq S
  BY DEF Combine

LEMMA PieceWithin ==
    ASSUME CandidatesInv, NEW a \in found, NEW e \in Pieces(a)
    PROVE  /\ e \in found \union Part /\ WellFormed(e)
           /\ a.from <= e.from /\ e.to <= a.to
           /\ \A f \in Pieces(a) : e # f => e.to <= f.from \/ f.to <= e.from
<1>1. WellFormed(a) /\ a.parts \subseteq Part /\ Within(a)
  BY DEF CandidatesInv
<1>2. CASE Pieces(a) = {a}
  BY <1>1, <1>2 DEF WellFormed
<1>3. CASE Pieces(a) = a.parts
  BY <1>1, <1>3, PartsWellFormed DEF Within
<1> QED
  BY <1>2, <1>3 DEF Pieces

LEMMA ToMaskApart ==
    ASSUME CandidatesInv, SweepInv
    PROVE  /\ ToMask \subseteq found \union Part
           /\ \A e, f \in ToMask : e # f => e.to <= f.from \/ f.to <= e.from
<1>1. \A e \in ToMask : \E a \in Elements(selected) : e \in Pieces(a)
  BY CombineKeeps DEF ToMask, OfProfile, Expand
<1>2. selected \in Seq(found) /\ Elements(selected) \subseteq found
  BY ElementsType DEF SweepInv
<1>3. \A a, b \in Elements(selected) : a # b => a.to <= b.from \/ b.to <= a.from
  <2> TAKE a, b \in Elements(selected)
  <2>1. PICK i \in 1..Len(selected) : a = selected[i]
    BY <1>2, ElementsType
  <2>2. PICK j \in 1..Len(selected) : b = selected[j]
    BY <1>2, ElementsType
  <2>3. i < j \/ j < i \/ i = j
    BY <1>2
  <2> QED
    BY <2>1, <2>2, <2>3 DEF SweepInv, Apart
<1>4. ToMask \subseteq found \union Part
  BY <1>1, <1>2, PieceWithin
<1>5. ASSUME NEW e \in ToMask, NEW f \in ToMask, e # f
      PROVE  e.to <= f.from \/ f.to <= e.from
  <2>1. PICK a \in Elements(selected) : e \in Pieces(a)
    BY <1>1
  <2>2. PICK b \in Elements(selected) : f \in Pieces(b)
    BY <1>1
  <2>3. CASE a = b
    BY <2>1, <2>2, <2>3, <1>2, <1>5, PieceWithin
  <2>4. CASE a # b
    <3>1. a.to <= b.from \/ b.to <= a.from
      BY <1>3, <2>4
    <3>2. /\ WellFormed(a) /\ WellFormed(b) /\ WellFormed(e) /\ WellFormed(f)
          /\ a.from <= e.from /\ e.to <= a.to /\ b.from <= f.from /\ f.to <= b.to
      BY <2>1, <2>2, <1>2, PieceWithin DEF CandidatesInv
    <3> QED
      BY <3>1, <3>2 DEF WellFormed
  <2> QED
    BY <2>3, <2>4
<1> QED
  BY <1>4, <1>5

LEMMA SameToMask ==
    ASSUME UNCHANGED <<policy, selected>>
    PROVE  ToMask' = ToMask
  BY DEF ToMask, OfProfile, Expand, Pieces, Combine, TooFewTypes, Satisfied, InScope

LEMMA MaskInit == Init => MaskInv
<1> SUFFICES ASSUME Init PROVE MaskInv
  OBVIOUS
<1> QED
  BY DEF Init, MaskInv, Apart

LEMMA MaskStep == CandidatesInv /\ SweepInv /\ MaskInv /\ [Next]_vars => MaskInv'
<1> SUFFICES ASSUME CandidatesInv, SweepInv, MaskInv, [Next]_vars PROVE MaskInv'
  OBVIOUS
<1> USE DEF MaskInv
<1>1. ASSUME pc \notin {"mask", "done"}, pc' \in {"chain", "sweep", "combine"},
             UNCHANGED <<masked, cursor>>, pending' \subseteq (found \union Part)'
      PROVE  MaskInv'
  <2>1. masked' = <<>> /\ cursor' = 0
    BY <1>1
  <2> QED
    BY <1>1, <2>1 DEF Apart
<1>2. ASSUME NEW c \in parts, LinkPart(c) \/ BeginChain(c)
      PROVE  MaskInv'
  BY <1>1, <1>2 DEF LinkPart, BeginChain
<1>3. CASE Assemble
  <2>1. pending' \subseteq found'
    BY <1>3 DEF Assemble, Eligible
  <2> QED
    BY <1>1, <1>3, <2>1 DEF Assemble
<1>4. ASSUME NEW c \in pending, Select(c) \/ Displace(c) \/ Drop(c)
      PROVE  MaskInv'
  BY <1>1, <1>4 DEF Select, Displace, Drop
<1>5. CASE Swept
  BY <1>1, <1>5 DEF Swept
<1>6. CASE CombineAndExpand
  <2>1. /\ pc = "combine" /\ pc' = "mask" /\ pending' = ToMask
        /\ UNCHANGED <<policy, found, selected, masked, cursor>>
    BY <1>6 DEF CombineAndExpand, ToMask
  <2>2. ToMask' = ToMask
    BY <2>1, SameToMask
  <2>3. masked' = <<>> /\ cursor' = 0
    BY <2>1
  <2>4. \A e \in ToMask : e.from \in Nat
    BY ToMaskApart, PartsWellFormed DEF CandidatesInv, WellFormed
  <2> QED
    BY <2>1, <2>2, <2>3, <2>4, ToMaskApart DEF Apart
<1>7. ASSUME NEW e \in pending, Mask(e)
      PROVE  MaskInv'
  <2>1. /\ pc = "mask" /\ pc' = "mask" /\ pending' = pending \ {e}
        /\ \A f \in pending : e.from <= f.from
        /\ UNCHANGED <<policy, found, selected>>
    BY <1>7 DEF Mask, Earliest
  <2>2. \A f \in found \union Part : WellFormed(f)
    BY PartsWellFormed DEF CandidatesInv
  <2>3. cursor <= e.from /\ ~(e.from < cursor) /\ WellFormed(e) /\ e \in found \union Part
    BY <2>1, <2>2 DEF WellFormed
  <2>4. masked' = Append(masked, e) /\ cursor' = e.to
    BY <1>7, <2>3 DEF Mask
  <2>5. masked' \in Seq(found \union Part) /\ Apart(masked')
    BY <2>2, <2>3, <2>4, AppendApart
  <2>6. /\ Elements(masked') = Elements(masked) \union {e}
        /\ LastOf(masked') = e /\ masked' # <<>>
    BY <2>4, AppendFacts
  <2>7. \A f \in pending' : e.to <= f.from
    <3> TAKE f \in pending'
    <3>1. WellFormed(f) /\ f \in pending /\ f # e
      BY <2>1, <2>2
    <3>2. e.to <= f.from \/ f.to <= e.from
      BY <3>1, <2>1
    <3> QED
      BY <3>1, <3>2, <2>1, <2>3 DEF WellFormed
  <2>8. ToMask' \subseteq pending' \union Elements(masked')
    BY <2>1, <2>6, SameToMask
  <2>9. cursor' \in Nat
    BY <2>3, <2>4 DEF WellFormed
  <2> QED
    BY <2>1, <2>4, <2>5, <2>6, <2>7, <2>8, <2>9 DEF Apart
<1>8. CASE Done
  <2>1. /\ pc = "mask" /\ pc' = "done" /\ pending = {}
        /\ UNCHANGED <<policy, found, selected, pending, masked, cursor>>
    BY <1>8 DEF Done
  <2> QED
    BY <2>1, SameToMask DEF Apart
<1>9. CASE UNCHANGED vars
  BY <1>9, SameToMask DEF vars, Apart
<1> QED
  BY <1>2, <1>3, <1>4, <1>5, <1>6, <1>7, <1>8, <1>9 DEF Next
-----------------------------------------------------------------------------
(* The theorems.                                                           *)

Inv == CandidatesInv /\ SweepInv /\ MaskInv

THEOREM PipelineInvariant == Spec => []Inv
<1>1. Init => Inv
  BY CandidatesInit, SweepInit, MaskInit DEF Inv
<1>2. Inv /\ [Next]_vars => Inv'
  BY CandidatesStep, SweepStep, MaskStep DEF Inv
<1> QED
  BY <1>1, <1>2, PTL DEF Spec

(* Every variable of the pipeline keeps its type.                          *)
THEOREM PipelineTypeCorrect == Spec => []TypeOK
<1>1. Inv => TypeOK
  <2> SUFFICES ASSUME Inv PROVE TypeOK
    OBVIOUS
  <2>1. \A chain \in Elements(chains) : chain \in Seq(Part)
    BY ElementsType DEF Inv, CandidatesInv
  <2> QED
    BY <2>1 DEF Inv, CandidatesInv, SweepInv, MaskInv, TypeOK
<1> QED
  BY <1>1, PipelineInvariant, PTL

(* DefaultResolver selects candidates that do not overlap, although it     *)
(* compares each with the last one selected alone.                         *)
THEOREM PipelineSelectsApart == Spec => []SelectedApart
<1>1. Inv => SelectedApart
  BY DEF Inv, SweepInv, Apart, SelectedApart, InOrder
<1> QED
  BY <1>1, PipelineInvariant, PTL

(* DefaultResolver selects every candidate that beats all it overlaps, in  *)
(* whatever order the detectors report them.                               *)
THEOREM PipelineSelectsStrongest == Spec => []StrongestSelected
<1>1. Inv => StrongestSelected
  BY DEF Inv, SweepInv, Waiting, StrongestSelected
<1> QED
  BY <1>1, PipelineInvariant, PTL

(* The masking pass meets no entity that begins in what it has replaced.   *)
THEOREM PipelinePassesNothingOver == Spec => []NothingPassedOver
<1>1. Inv => NothingPassedOver
  BY DEF Inv, MaskInv, Apart, NothingPassedOver, InOrder
<1> QED
  BY <1>1, PipelineInvariant, PTL

(* What is eligible and stays in the text has lost to another candidate or *)
(* was held back by a combination rule.                                    *)
THEOREM PipelineLeavesForAReason == Spec => []LeftForAReason
<1>1. Inv => LeftForAReason
  <2> SUFFICES ASSUME Inv, pc = "done", NEW c \in Eligible(found),
                      NEW e \in OfProfile(Pieces(c)), Uncovered(e),
                      c \in Combine(Elements(selected))
               PROVE  \E x \in lost : x[1] = c
    BY DEF LeftForAReason
  <2>1. e \in ToMask
    BY DEF ToMask, OfProfile, Expand
  <2>2. e \in Elements(masked) /\ masked \in Seq(found \union Part)
    BY <2>1 DEF Inv, MaskInv
  <2>3. PICK i \in 1..Len(masked) : e = masked[i]
    BY <2>2, ElementsType
  <2>4. WellFormed(e)
    BY <2>2, <2>3, PartsWellFormed DEF Inv, CandidatesInv
  <2> QED
    BY <2>3, <2>4 DEF Uncovered, Overlap, WellFormed
<1> QED
  BY <1>1, PipelineInvariant, PTL

LEMMA FewerTypes ==
    ASSUME NEW S, NEW seq \in Seq(S), NEW fewer \in SUBSET Elements(seq)
    PROVE  /\ TypesOf(fewer) \subseteq TypesOf(Elements(seq))
           /\ Cardinality(TypesOf(fewer)) \in Nat
           /\ Cardinality(TypesOf(Elements(seq))) \in Nat
           /\ Cardinality(TypesOf(fewer)) <= Cardinality(TypesOf(Elements(seq)))
<1> DEFINE all == TypesOf(Elements(seq))
           f == [i \in 1..Len(seq) |-> seq[i].type]
<1>1. IsFiniteSet(1..Len(seq))
  BY FS_Interval
<1>2. \A t \in all : \E i \in 1..Len(seq) : f[i] = t
  BY ElementsType DEF TypesOf
<1>3. f \in [1..Len(seq) -> all]
  BY ElementsType DEF TypesOf
<1>4. f \in Surjection(1..Len(seq), all)
  BY <1>2, <1>3 DEF Surjection
<1>5. IsFiniteSet(all)
  BY <1>1, <1>4, FS_Surjection
<1>6. TypesOf(fewer) \subseteq all
  BY DEF TypesOf
<1> HIDE DEF all
<1>7. Cardinality(all) \in Nat /\ Cardinality(TypesOf(fewer)) \in Nat
  BY <1>5, <1>6, FS_Subset, FS_CardinalityType
<1>8. Cardinality(TypesOf(fewer)) <= Cardinality(all)
  BY <1>5, <1>6, FS_Subset
<1> QED
  BY <1>6, <1>7, <1>8 DEF all

(* Neither the filters nor, but for types that always_mask and a rule both *)
(* name, the combination rules let more through when less is found.        *)
THEOREM PipelineMasksMoreForMore == Spec => []MoreFoundMoreMasked
<1>1. ASSUME NEW fewer \in SUBSET found
      PROVE  Eligible(fewer) \subseteq Eligible(found)
  BY DEF Eligible, Relevant, PublicPerson
<1>2. ASSUME Inv, NEW fewer \in SUBSET Elements(selected),
             NEW e \in Combine(fewer) \ Combine(Elements(selected))
      PROVE  TooFewTypes(fewer) /\ RuledAndAlways(e.type)
  <2> DEFINE all == Elements(selected)
  <2>1. selected \in Seq(found) /\ policy \in Policy /\ policy.min_distinct \in Nat
    BY <1>2, PipelineAssumption DEF Inv, SweepInv, CandidatesInv
  <2>2. /\ TypesOf(fewer) \subseteq TypesOf(all)
        /\ Cardinality(TypesOf(fewer)) \in Nat
        /\ Cardinality(TypesOf(all)) \in Nat
        /\ Cardinality(TypesOf(fewer)) <= Cardinality(TypesOf(all))
    BY <2>1, FewerTypes
  <2>3. TooFewTypes(all) => TooFewTypes(fewer)
    BY <2>1, <2>2 DEF TooFewTypes
  <2>4. e \in fewer /\ e \in all
    BY CombineKeeps
  <2>5. InScope(e, fewer) \subseteq InScope(e, all)
    BY <2>2 DEF InScope, TypesOf
  <2>6. Satisfied(e, fewer) => Satisfied(e, all)
    BY <2>5 DEF Satisfied
  <2>7. ~TooFewTypes(all) /\ ~Satisfied(e, all)
    <3>1. CASE TooFewTypes(all)
      BY <3>1, <2>3, <2>4 DEF Combine
    <3>2. CASE ~TooFewTypes(all)
      BY <3>2, <2>4 DEF Combine
    <3> QED
      BY <3>1, <3>2
  <2>8. TooFewTypes(fewer) /\ e.type \in policy.always_mask
    BY <2>4, <2>6, <2>7 DEF Combine
  <2>9. policy.rules[e.type] # NoRule
    BY <2>7 DEF Satisfied, NoRule
  <2> QED
    BY <2>8, <2>9 DEF RuledAndAlways
<1>3. Inv => MoreFoundMoreMasked
  BY <1>1, <1>2 DEF MoreFoundMoreMasked
<1> QED
  BY <1>3, PipelineInvariant, PTL
=============================================================================
