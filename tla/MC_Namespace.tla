--------------------------- MODULE MC_Namespace ---------------------------
EXTENDS Namespace, TLC

CONSTANTS c1, c2, b1, m1, m2, g1, g2

MCClients == {c1, c2}
MCBlobs == {b1}
MCManifests == {m1, m2}
MCTagNames == {g1, g2}
\* one tag, and two tags in either order
MCTagLists == {<<g1>>, <<g1, g2>>, <<g2, g1>>}
MCOneUser == {c1}
=============================================================================
