------------------------------ MODULE Listings ------------------------------
(***************************************************************************)
(* What is left of a listing, in its order, when some of it is gone.       *)
(***************************************************************************)
EXTENDS Naturals, Sequences

Without(s, S) ==
    LET left[n \in 0..Len(s)] ==
            IF n = 0 THEN <<>>
            ELSE IF s[n] \in S THEN left[n - 1] ELSE Append(left[n - 1], s[n])
    IN left[Len(s)]
=============================================================================
