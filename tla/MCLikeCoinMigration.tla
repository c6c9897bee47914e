------------------------ MODULE MCLikeCoinMigration ------------------------
(* Instances of LikeCoinMigration for TLC. *)
EXTENDS LikeCoinMigration, TLC

CONSTANTS u1, u2, e1, e2, a1, a2, b1, b2, h1, h2, w1, w2

\* A burn for each recipient.
MemoOfEach == b1 :> [to |-> e1, amount |-> a1] @@ b2 :> [to |-> e2, amount |-> a1]

\* Two burns for one recipient.
MemoOfOne == b1 :> [to |-> e1, amount |-> a1] @@ b2 :> [to |-> e1, amount |-> a1]

\* One burn.
MemoOfFirst == b1 :> [to |-> e1, amount |-> a1]

\* Handlers and workers are interchangeable.
Symmetry == Permutations(Handlers) \cup Permutations(Workers)

=============================================================================
