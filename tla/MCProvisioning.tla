--------------------------- MODULE MCProvisioning ---------------------------
EXTENDS Provisioning, TLC
CONSTANTS t1, t2

TwoTasks == {t1, t2}

\* Tasks are alike.
Symmetry == Permutations(TwoTasks)
=============================================================================
