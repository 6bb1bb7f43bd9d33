-------------------------- MODULE MCBootstrapFiles --------------------------
(* Small instances of BootstrapFiles. *)
EXTENDS BootstrapFiles, TLC

Symmetric == Permutations(Files)
=============================================================================
