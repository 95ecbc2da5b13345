--------------------------- MODULE MCConfigLoader ---------------------------
(* Two files, saved twice and once; the first time the first cannot be     *)
(* decoded.  The defaults, which come before them and never change, are    *)
(* left out: they would add a goroutine that does no more than start.      *)
EXTENDS ConfigLoader

MCFiles == {1, 2}
MCSaves == [i \in MCFiles |-> IF i = 1 THEN 2 ELSE 1]
MCBroken == {<<1, 1>>}

=============================================================================
