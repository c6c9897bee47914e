---------------------------- MODULE MCLikeProtocol ----------------------------
(* Instances of LikeProtocol for TLC. *)
EXTENDS LikeProtocol, TLC

CONSTANTS s1, x1, x2, a1, a2, v1, v2

ConfigsOf(supplies) == [symbol: {s1}, maxSupply: supplies]

\* An updater asks for less and for more, and for no symbol.
SomeConfigs == ConfigsOf({1, 3}) \cup [symbol: {None}, maxSupply: {3}]

\* A book its creator may mint and update, and two that are refused.
SomeMsgs ==
    {[creator |-> a, minters |-> {a}, updaters |-> {a}, config |-> config] :
        a \in Accounts,
        config \in ConfigsOf({0, 2}) \cup [symbol: {None}, maxSupply: {2}]}

\* Accounts and texts are interchangeable.
Symmetry == Permutations(Accounts) \cup Permutations(Texts)

=============================================================================
