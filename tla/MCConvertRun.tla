---------------------------- MODULE MCConvertRun ----------------------------
(* Two output files, the first in a directory inside the one of the second. *)
EXTENDS ConvertRun

CONSTANTS inner, outer, sub, dir

MCTargets == {inner, outer}
MCDirs == {sub, dir}
MCAbove == [x \in {inner, outer, sub, dir} |->
                CASE x = inner -> {sub, dir}
                  [] x = outer -> {dir}
                  [] x = sub -> {dir}
                  [] x = dir -> {}]
NoFaults == {}

=============================================================================
