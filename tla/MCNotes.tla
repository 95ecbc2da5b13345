------------------------------- MODULE MCNotes -------------------------------
(* Notes and bodies are interchangeable. *)
EXTENDS Notes, TLC

CONSTANTS n1, n2, b1, b2

MCIds == {n1, n2}
MCNames == {b1, b2}

Symmetric == Permutations(MCIds) \union Permutations(MCNames)
=============================================================================
