----------------------------- MODULE MCSeedling -----------------------------
EXTENDS Seedling
CONSTANTS a, b

None == {}
OnlyA == {a}
OnlyB == {b}
Both == {a, b}
ListA == <<a>>
ListAB == <<a, b>>
=============================================================================
