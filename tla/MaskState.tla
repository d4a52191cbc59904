----------------------------- MODULE MaskState -----------------------------
(***************************************************************************)
(* The numbering of placeholders as the code computes it: the state that   *)
(* mask_line threads through the maskers, one entity of a text after the   *)
(* other from left to right.  Masking!Number is its closed form.           *)
(***************************************************************************)
EXTENDS Masking

\* MaskState::default().
EmptyMaskState == [counters |-> [type \in PdType |-> 0], assigned |-> <<>>]

Assign(assigned, key, n) ==
    [k \in DOMAIN assigned \cup {key} |-> IF k = key THEN n ELSE assigned[k]]

\* The state after next_number(type, canonical); the number it returns is
\* assigned[<<type, canonical>>].
NextNumberNoReuse(state, type, canonical) ==
    LET n == state.counters[type] + 1
    IN [counters |-> [state.counters EXCEPT ![type] = n],
        assigned |-> Assign(state.assigned, <<type, canonical>>, n)]

NextNumber(state, type, canonical) ==
    LET n == state.counters[type] + 1
    IN IF <<type, canonical>> \in DOMAIN state.assigned
       THEN state
       ELSE [counters |-> [state.counters EXCEPT ![type] = n],
             assigned |-> Assign(state.assigned, <<type, canonical>>, n)]

\* One pass over the text: states[p] is the state after its first p tokens.
NumberAll(t, seen) ==
    LET states[p \in 0..Len(t)] ==
          IF p = 0 THEN EmptyMaskState
          ELSE IF p \notin Hits(t, seen) THEN states[p - 1]
          ELSE NextNumber(states[p - 1], TypeOf[t[p]], Canon[t[p]])
    IN states[Len(t)]

\* The closed form gives every entity the number the pass gives it.
NumberingIsClosedForm(t, seen) ==
    LET numbered == NumberAll(t, seen).assigned
    IN \A p \in Hits(t, seen) :
          numbered[<<TypeOf[t[p]], Canon[t[p]]>>] = Number(t, seen, p)
=============================================================================
