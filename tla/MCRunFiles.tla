----------------------------- MODULE MCRunFiles -----------------------------
(* Instances of RunFiles: the runs that work in a container, and those that  *)
(* do not, only differ by their identity.                                    *)
EXTENDS RunFiles, TLC

Symmetry == Permutations(Runs \ Fakes) \cup Permutations(Fakes)

=============================================================================
