------------------------------- MODULE MCMesh --------------------------------
(* Small instances of Mesh for TLC.                                        *)
EXTENDS Mesh, TLC

CONSTANTS n1, n2, n3

\* No node is special: the safety run may take them for each other.
Symmetry == Permutations(Nodes)
=============================================================================
