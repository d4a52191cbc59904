---------------------------- MODULE MC_Admission ----------------------------
(***************************************************************************)
(* An instance of Admission: one system has a rate, the other none and is  *)
(* the default one; the second configuration disables the first system and *)
(* gives the second a list of routes.                                      *)
(***************************************************************************)
EXTENDS Admission

CONSTANTS rated, open, c1, c2, r1, r2

MCRate == [s \in System |-> IF s = rated THEN 1 ELSE 0]
MCOps == [r \in Request |-> IF r = r1 THEN {"process", "proxy", "batch_other"} ELSE {"batch"}]
MCVerdict == [x \in Config \X System |->
                 CASE x[1] = c1 -> {"ok"}
                   [] x = <<c2, rated>> -> {"refused"}
                   [] x = <<c2, open>> -> {"ok", "refused"}]
=============================================================================
