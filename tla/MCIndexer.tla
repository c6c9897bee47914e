------------------------------ MODULE MCIndexer ------------------------------
(* Instances of Indexer for TLC. *)
EXTENDS Indexer, TLC

CONSTANTS b1, b2, t1, t2, a1, a2, w1, w2

Symmetry ==
    Permutations(Books) \cup Permutations(Tokens)
        \cup Permutations(Accounts)

=============================================================================
