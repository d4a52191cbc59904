--------------------------- MODULE GuardContract ---------------------------
(***************************************************************************)
(* GuardService, seen by the clients of the payload_id contract, as an     *)
(* implementation of SessionContract.                                      *)
(***************************************************************************)
EXTENDS GuardService

Refusal == <<"refused">>

Contract == INSTANCE SessionContract WITH
    asked <- [r \in DOMAIN call |->
                 [session |-> call[r].session, payload |-> call[r].payload]],
    bound <- [s \in DOMAIN vault |-> vault[s].mapping],
    reply <- [r \in DOMAIN answer |->
                 IF answer[r].status = "ok" THEN answer[r].text ELSE Refusal]

(* The service does what a payload id promises: the id is bound once and   *)
(* every later answer follows from the binding.                            *)
KeepsContract == Contract!Spec
=============================================================================
