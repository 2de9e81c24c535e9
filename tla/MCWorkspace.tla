---------------------------- MODULE MCWorkspace ----------------------------
EXTENDS Workspace, TLC

CONSTANTS a, b, bad

MCImage     == {a, b, bad}
MCSupported == {a, b}

\* processes, workflow ids and images that are supported are interchangeable
Symmetry == Permutations(Pid) \cup Permutations(Workflow) \cup Permutations(MCSupported)
=============================================================================
