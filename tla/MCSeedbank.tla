----------------------------- MODULE MCSeedbank -----------------------------
EXTENDS Seedbank
CONSTANTS a, b, c1, c2

Seedlings == {a, b}
Connections == {c1, c2}
TwoIds == 0..1
FourVersions == 1..4
TwoPaths == {"p", "q"}
Mounts == <<NoMount, {"p"}, {"q"}, NoMount>>

\* Seedlings are alike, and so are connections.
Symmetry == Permutations(Seedlings) \cup Permutations(Connections)
=============================================================================
