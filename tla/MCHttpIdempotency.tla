------------------------- MODULE MCHttpIdempotency -------------------------
(***************************************************************************)
(* Model values for HttpIdempotency: one key, since keys share nothing.    *)
(***************************************************************************)
EXTENDS HttpIdempotency, TLC

CONSTANTS k1, c1, c2, q1, q2, q3, q4

OneKey == {k1}
TwoContents == {c1, c2}
TwoRequests == {q1, q2}
FourRequests == {q1, q2, q3, q4}

Symmetric == Permutations(Requests) \cup Permutations(Contents)
=============================================================================
