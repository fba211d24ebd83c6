------------------------------ MODULE MCOpenShim ------------------------------
(* OpenShim on small instances.                                            *)
EXTENDS OpenShim, TLC

(* Standard input, and room for three descriptors more.                    *)
FourFds == 0 .. 3
OnlyZero == {0}

Symmetry == Permutations(Threads)
=============================================================================
