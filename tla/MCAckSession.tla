------------------------------ MODULE MCAckSession ------------------------------
(* AckSession for TLC: the clients run the same code.                      *)
EXTENDS AckSession, TLC

SameCode == Permutations(Clients)
=============================================================================
