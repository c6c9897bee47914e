------------------------------ MODULE MCSigner ------------------------------
(* Instances of Signer for TLC. *)
EXTENDS Signer, TLC

CONSTANTS c1, c2, i1, i2, i3, w1, w2

\* One replica running both goroutines, or two replicas running one each.
OneProcess == {{w1, w2}}
TwoProcesses == {{w1}, {w2}}

\* Calls, Ids and Workers are sets of interchangeable values: Signer only
\* compares them, and both partitions above are closed under swapping workers.
Symmetry ==
    Permutations(Calls) \cup Permutations(Ids) \cup Permutations(Workers)

=============================================================================
