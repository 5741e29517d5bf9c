----------------------------- MODULE MCUrlPull -----------------------------
(* Instances of UrlPull for TLC. *)
EXTENDS UrlPull, TLC

CONSTANTS w1, w2, w3, c1, u1, u2

ThreePulls == {w1, w2, w3}
TwoUrls    == {u1, u2}
\* w1 and w2 are the same request, and told apart by nothing.
TwoOfOneUrl == [w \in Pull |-> IF w = w3 THEN u2 ELSE u1]
SameRequest == Permutations({w1, w2})
=============================================================================
