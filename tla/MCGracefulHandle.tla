-------------------------- MODULE MCGracefulHandle --------------------------
(* Instances of GracefulHandle for TLC. *)
EXTENDS GracefulHandle

CONSTANTS c1, c2, c3

=============================================================================
