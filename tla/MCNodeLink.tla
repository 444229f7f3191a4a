----------------------------- MODULE MCNodeLink -----------------------------
(* Small instances of NodeLink for TLC.                                    *)
EXTENDS NodeLink

CONSTANTS r1, n1, n2

\* No candidate, each kind alone, a router before a mesh node, two mesh nodes.
MCScanResults == {<<>>, <<r1>>, <<r1, n1>>, <<n1, n2>>}

\* One list of two mesh nodes and one of a mesh node and a router.
MCMixedResults == {<<>>, <<n1, r1>>, <<n1, n2>>}
=============================================================================
