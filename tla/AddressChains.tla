--------------------------- MODULE AddressChains ---------------------------
(***************************************************************************)
(* AddressDetector::detect from the parts on: the parts of addresses that  *)
(* the expressions found, in the order of the text, are linked to chains,  *)
(* and a chain that says enough is an address.                             *)
(*                                                                         *)
(* A candidate has a type, a span from-to in bytes of the text, a score in *)
(* hundredths, whether a checksum confirmed it, what words are near it and *)
(* its parts.                                                              *)
(***************************************************************************)
EXTENDS Integers, FiniteSets, Sequences

CONSTANTS
    Address, City, Street, House,
    Blank            \* where the text has commas, semicolons or spaces

VARIABLES
    parts,           \* the parts not linked yet
    chains           \* the chains so far, and in each its parts, in order

LastOf(seq) == seq[Len(seq)]
AllButLast(seq) == SubSeq(seq, 1, Len(seq) - 1)
Elements(seq) == {seq[i] : i \in DOMAIN seq}
TypesOf(entities) == {e.type : e \in entities}

Earliest(c, set) == c \in set /\ \A d \in set : c.from <= d.from

FollowsAnywhere(c, d) ==
    c.from - d.to <= 3 /\ \A i \in d.to..c.from - 1 : i \in Blank
\* c comes after d with nothing but at most three blanks between them.
Follows(c, d) ==
    d.to <= c.from /\ c.from - d.to <= 3 /\ \A i \in d.to..c.from - 1 : i \in Blank

Link(c) ==
    /\ Earliest(c, parts)
    /\ chains # <<>> /\ Follows(c, LastOf(LastOf(chains)))
    /\ chains' = Append(AllButLast(chains), Append(LastOf(chains), c))
    /\ parts' = parts \ {c}

Begin(c) ==
    /\ Earliest(c, parts)
    /\ chains # <<>> => ~Follows(c, LastOf(LastOf(chains)))
    /\ chains' = Append(chains, <<c>>)
    /\ parts' = parts \ {c}

\* What a chain is worth: three parts with a street and a house, or two with
\* a street and a house or a city.
SaysEnough(chain) ==
    LET types == TypesOf(Elements(chain)) IN
    \/ Len(chain) >= 3 /\ {Street, House} \subseteq types
    \/ Len(chain) = 2 /\ Street \in types /\ {City, House} \intersect types # {}

Score(chain, context) == IF context THEN 100 ELSE IF Len(chain) >= 3 THEN 95 ELSE 80

\* The address of a chain; context: a word near it says it is one.  What else
\* is near it need not be what is near its parts: the window around the chain
\* may hold whole what theirs cut short, or the other way round.
AddressOf(chain, context, near) ==
    [type |-> Address, from |-> chain[1].from, to |-> LastOf(chain).to,
     score |-> Score(chain, context), checksum |-> FALSE, near |-> near,
     parts |-> Elements(chain)]

\* Every part is a candidate of its own as well.
Published(context, near) ==
    (UNION {Elements(chain) : chain \in Elements(chains)})
    \union {AddressOf(chain, context, near) : chain \in {x \in Elements(chains) : SaysEnough(x)}}
=============================================================================
