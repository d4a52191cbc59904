-------------------------- MODULE MC_GuardService --------------------------
(***************************************************************************)
(* Instances of GuardService: names only the engine finds, values a        *)
(* detector finds, and systems that each have texts of their own for a     *)
(* payload id; noback has no demask in its policy.  The numero sign of a   *)
(* cracked text grows when it is folded, so its windows cannot be cut.     *)
(***************************************************************************)
EXTENDS GuardContract

CONSTANTS w, numero, ann, bob, phone1, phone2, phone3, a, b, noback, s1, s2

MCWord == {w, numero}
MCNames == {ann, bob}
MCValue == MCNames \cup {phone1, phone2, phone3}
MCPdType == {"FIO", "PHONE"}
MCTypeOf == [v \in MCValue |-> IF v \in MCNames THEN "FIO" ELSE "PHONE"]
MCCanon == [v \in MCValue |-> v]
MCKind == [type \in MCPdType |-> "placeholder"]
MCShape == [v \in MCValue |-> v]
MCProfile == [y \in System |-> MCPdType]
MCDetectorOrder == <<{"PHONE"}, {"FIO"}>>
MCMisread == <<>>

\* System a's texts, system b's texts, and a text of b that quotes a mask.
TextA == <<phone1, ann>>
CrackedA == <<numero, ann>>
TextB == <<phone2, phone3>>
CrackedB == <<phone2, numero, bob>>
Quote == <<[label |-> "PHONE", n |-> 1]>>

MCInputs == [x \in System \X Session |->
                IF x[1] = a THEN {TextA} ELSE {TextB, CrackedB, Quote}]
MCInputsSerial == [x \in System \X Session |->
                IF x[2] = s1 THEN {TextA} ELSE {CrackedA}]
MCInputsStateless == [x \in System \X Session |->
                IF x[1] = a THEN {TextA} ELSE {TextB, CrackedB}]

MCUncut == {CrackedA, CrackedB}
MCHeavy == {TextB, CrackedB}
=============================================================================
