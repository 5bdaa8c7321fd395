--------------------------- MODULE MCAutonomyLoop ---------------------------
EXTENDS AutonomyLoop, TLC

\* The second goal, which users trouble, is the parent of the first.
MCParent == [g \in Goals |-> IF g = 1 THEN 2 ELSE 0]
NoParents == [g \in Goals |-> 0]

Process_Symmetry == Permutations(Processes)
=============================================================================
