----------------------------- MODULE Relevance -----------------------------
(***************************************************************************)
(* The relevance filters: which candidates are not personal data, going by *)
(* the words around them.  A candidate c carries in c.near what a filter   *)
(* would read there:                                                       *)
(*   "public"   it names a public person, the text around it speaks of one *)
(*              and not of a customer;                                     *)
(*   "office"   the address of an office of the bank stands within 60      *)
(*              bytes of it, or it is a telephone of the bank;             *)
(*   "branch"   the text around it says office or branch of the bank;      *)
(*   "company"  the text around it has a legal form;                       *)
(*   "order"    the text before it speaks of orders, contracts, sums.      *)
(***************************************************************************)
EXTENDS Integers

CONSTANTS Fio, PlaceTypes, NumberTypes

Filters == {"public_persons", "bank_allowlist", "org_context", "negative_number_context"}
Words == {"public", "office", "branch", "company", "order"}

SpanOf(c) == <<c.from, c.to>>

\* A public person, and nothing else is said of it that is personal.
PublicPerson(c, all) ==
    /\ c.type = Fio /\ "public" \in c.near
    /\ ~\E d \in all : SpanOf(d) # SpanOf(c) /\ d.score >= 80 /\ d.type # Fio

\* Whatever stands near the address of an office; near the words for one,
\* addresses and telephones.
OfTheBank(c) ==
    \/ "office" \in c.near
    \/ "branch" \in c.near /\ c.type \in PlaceTypes

InCompanyName(c) == c.type = Fio /\ "company" \in c.near

OrderNumber(c) == c.type \in NumberTypes /\ ~c.checksum /\ "order" \in c.near

\* A profile that names no filter has them all.
Active(filters) == IF filters = {} THEN Filters ELSE filters

Relevant(c, all, filters) ==
    LET active == Active(filters) IN
    /\ "public_persons" \in active => ~PublicPerson(c, all)
    /\ "bank_allowlist" \in active => ~OfTheBank(c)
    /\ "org_context" \in active => ~InCompanyName(c)
    /\ "negative_number_context" \in active => ~OrderNumber(c)
=============================================================================
