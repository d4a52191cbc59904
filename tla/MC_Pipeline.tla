---------------------------- MODULE MC_Pipeline ----------------------------
(***************************************************************************)
(* An instance of Pipeline: parts of addresses that touch, overlap, and    *)
(* stand three and four blanks apart; a number with a checksum, a name,    *)
(* and a number that competes but is in no profile; some of them with      *)
(* words around that a filter asks for; in all up to four of them in a     *)
(* line of seven places.                                                   *)
(***************************************************************************)
EXTENDS Pipeline

MCPdType == {"ADDRESS", "CITY", "STREET", "HOUSE", "INN", "FIO", "ORG_INN"}

Plain(type, from, to, score, checksum) ==
    [type |-> type, from |-> from, to |-> to, score |-> score,
     checksum |-> checksum, near |-> {}, parts |-> {}]

\* The same, near a word that a filter reads.
Beside(c, word) == [c EXCEPT !.near = {word}]

MCPart ==
    {Plain("CITY", x[1], x[2], 70, FALSE) : x \in {<<0, 1>>, <<0, 2>>, <<2, 3>>}}
    \union {Plain("STREET", x[1], x[2], 70, FALSE) : x \in {<<0, 1>>, <<1, 2>>, <<1, 4>>}}
    \union {Plain("HOUSE", x[1], x[2], 70, FALSE) : x \in {<<2, 3>>, <<3, 4>>, <<5, 6>>}}
    \union {Beside(Plain("HOUSE", 6, 7, 70, FALSE), "branch")}

MCBlank == 1..5

MCCandidate ==
    {Plain("INN", x[1], x[2], 90, TRUE) : x \in {<<0, 1>>, <<1, 3>>}}
    \union {Beside(Plain("INN", 3, 6, 90, TRUE), "office")}
    \union {Plain("FIO", x[1], x[2], 70, FALSE) : x \in {<<0, 2>>, <<2, 5>>}}
    \union {Beside(Plain("FIO", 1, 2, 70, FALSE), "public"),
            Beside(Plain("FIO", 1, 3, 90, FALSE), "public"),
            Beside(Plain("FIO", 4, 6, 90, FALSE), "company")}
    \union {Plain("ORG_INN", 0, 2, 90, TRUE), Beside(Plain("ORG_INN", 2, 4, 90, FALSE), "order")}

NoRules == [t \in MCPdType |-> NoRule]

MCPlain ==
    [types |-> {"ADDRESS", "INN", "FIO"}, filters |-> {}, always_mask |-> {},
     priority |-> [t \in MCPdType |-> IF t = "ORG_INN" THEN 60 ELSE 50],
     threshold |-> [t \in MCPdType |-> 60],
     components |-> FALSE, min_distinct |-> 0, rules |-> NoRules]

\* A name asks for a number: anywhere, or two places away at most.
Asks(scope) == [scope |-> scope, any |-> {"INN", "ORG_INN"}, all |-> {}, chars |-> 2]

MCPolicy ==
    {[MCPlain EXCEPT !.components = TRUE, !.types = @ \union {"CITY", "STREET", "HOUSE"},
                     !.threshold["FIO"] = 80],
     [MCPlain EXCEPT !.filters = {"org_context"}, !.min_distinct = 2, !.always_mask = {"INN"},
                     !.rules["FIO"] = Asks("document"),
                     !.rules["INN"] = [Asks("document") EXCEPT !.any = {"FIO"}]],
     [MCPlain EXCEPT !.filters = {"public_persons", "negative_number_context"},
                     !.rules["FIO"] = [Asks("window") EXCEPT !.all = {"ADDRESS"}]]}
=============================================================================
