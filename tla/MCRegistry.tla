----------------------------- MODULE MCRegistry -----------------------------
EXTENDS Registry, TLC
CONSTANTS t1, t2, m1, m2, cached

Requests == {t1, t2}
Manifests == {m1, m2}
Cached == {cached}
All == Manifests \cup Cached

\* Requests are alike, and so are the manifests of the local repository.
Symmetry == Permutations(Requests) \cup Permutations(Manifests)
=============================================================================
