----------------------------- MODULE MCTaskBoard -----------------------------
(* Tasks, and requests, are interchangeable.                               *)
EXTENDS TaskBoard, TLC

Symmetry == Permutations(Tasks) \union Permutations(Requests)
=============================================================================
