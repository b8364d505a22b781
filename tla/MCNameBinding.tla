--------------------------- MODULE MCNameBinding ---------------------------
(* Two directories with a module of the same name in each, and one module   *)
(* that both reach through the packages directory.                          *)
EXTENDS NameBinding, TLC

MCEntryFile == [dir |-> "app", name |-> "main"]
MCFiles == {MCEntryFile, [dir |-> "app", name |-> "util"],
            [dir |-> "lib", name |-> "util"], [dir |-> "lib", name |-> "ui"]}
Symmetry == Permutations(Declared)
=============================================================================
