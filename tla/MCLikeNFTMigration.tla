------------------------- MODULE MCLikeNFTMigration -------------------------
(* Instances of LikeNFTMigration for TLC. *)
EXTENDS LikeNFTMigration, TLC

CONSTANTS c1, u1, u2, p1, w1, w2

Asset(m, n) == [migration |-> m, class |-> c1, nft |-> n]

\* A user with an NFT that has a number and one that has none.
Reader == {Asset(u1, 1), Asset(u1, p1)}

\* The author of the class, and a user with an NFT of it.
AuthorAndReader == {Asset(u1, None), Asset(u2, 1)}

=============================================================================
