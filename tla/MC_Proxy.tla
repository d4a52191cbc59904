------------------------------ MODULE MC_Proxy ------------------------------
(***************************************************************************)
(* Instances of Proxy: requests of one and of two strings, and the three   *)
(* kinds of routes of config.yaml.  client and stop are words the engine   *)
(* is asked for, stop ends its sentence; numero is a number with its sign, *)
(* which grows when it is folded.                                          *)
(***************************************************************************)
EXTENDS Proxy

CONSTANTS w, client, numero, stop, ann, bob, phone1, a, b

MCWord == {w, client, numero, stop}
MCValue == {ann, bob, phone1}
MCPdType == {"FIO", "PHONE"}
MCTypeOf == [v \in MCValue |-> IF v = phone1 THEN "PHONE" ELSE "FIO"]
MCCanon == [v \in MCValue |-> v]
MCKind == [type \in MCPdType |-> "placeholder"]
MCShape == [v \in MCValue |-> v]
MCProfile == [y \in System |-> MCPdType]
MCDetectorOrder == <<{"PHONE"}, {"FIO"}>>
MCNerOnly == {ann}
MCBare == {w, client, stop}
MCNames == {ann, bob}
MCOwnToken == {w, [label |-> "FIO", n |-> 2]}

Chat(n) == [action |-> "mask", demask |-> TRUE, visits |-> [k \in 1..n |-> k]]

\* One string: masked and restored.
MCRouteOne == {Chat(1)}
MCInputsOne == {<<<<client, ann, phone1>>>>}

\* Two strings, in the order of the body and, when the second one is a plain
\* string and the first a list of parts, in the opposite order; masked only;
\* bypassed; blocked.
MCRouteTwo == {Chat(2), [Chat(2) EXCEPT !.visits = <<2, 1>>]}
MCRouteAll == MCRouteTwo \cup {[Chat(2) EXCEPT !.demask = FALSE],
                               [Chat(2) EXCEPT !.action = "bypass"],
                               [Chat(2) EXCEPT !.action = "block"]}
MCInputsTwo == {<<<<client, ann>>, <<bob, phone1>>>>, <<<<phone1>>, <<w>>>>}

\* A second window that is one too many; numero signs that shift a window
\* away from a name or put its end inside a character, in a long text and not.
TwoWindows == <<stop, client, ann>>
Misheard == <<numero, ann>>
CrackedLong == <<numero, bob>>
Cracked == <<numero, client>>
MCInputsAll == MCInputsTwo \cup {<<TwoWindows, CrackedLong>>, <<Misheard, Cracked>>}
MCMisread == [t \in {Misheard} |-> {1}]
MCUncut == {Cracked, CrackedLong}
MCHeavy == {CrackedLong}
=============================================================================
