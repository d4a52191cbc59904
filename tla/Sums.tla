-------------------------------- MODULE Sums --------------------------------
(***************************************************************************)
(* Running sums: what the loops of the code add up, one value at a time.   *)
(***************************************************************************)
EXTENDS Integers

\* values[1] + ... + values[n].
SumTo(values, n) ==
    LET sum[k \in 0..n] == IF k = 0 THEN 0 ELSE sum[k - 1] + values[k]
    IN sum[n]
=============================================================================
