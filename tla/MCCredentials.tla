---------------------------- MODULE MCCredentials ----------------------------
(* Credentials with the passwords old and new, a short one and one too     *)
(* long for bcrypt, and one or two reset links.                            *)
EXTENDS Credentials, TLC

CONSTANTS old, new, tiny, huge

Symmetry == Permutations(Requests) \cup Permutations(TokenIds)
=============================================================================
