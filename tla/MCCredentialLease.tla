-------------------------- MODULE MCCredentialLease --------------------------
(* Tokens, and drivers, are interchangeable.                               *)
EXTENDS CredentialLease, TLC

Symmetry == Permutations(Tokens) \union Permutations(Drivers)
=============================================================================
