------------------------- MODULE MC_CircuitBreaker -------------------------
(***************************************************************************)
(* Instances of CircuitBreaker with the failure_ratio of config.yaml, 0.5. *)
(***************************************************************************)
EXTENDS CircuitBreaker

MCOpensAt == [t \in 1..MaxTotal |-> (t + 1) \div 2]
=============================================================================
