----------------------------- MODULE MCDescCache -----------------------------
(* Two processes with a bus of the same name, two firmware versions. *)
EXTENDS DescCache, TLC

MCInodes == 1 .. 4
MCSymmetry == Permutations(Processes) \union Permutations(Versions)
=============================================================================
