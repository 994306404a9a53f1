----------------------------- MODULE MCUploads -----------------------------
EXTENDS Uploads, TLC
CONSTANTS c1, c2, u1, u2, x, y

Two == {c1, c2}
Names == {u1, u2}
Both == {x, y}
Contents == {<<1>>, <<1, 2>>}

\* Requests, names of uploads and repositories are alike.
Symmetry == Permutations(Two) \cup Permutations(Names) \cup Permutations(Both)
=============================================================================
