----------------------- MODULE MC_ComponentVersion -----------------------
EXTENDS ComponentVersion, TLC

CONSTANTS c1, u, tg, b1, b2, m1, m2, g1, g2, nodigest, global, unknown

MCClients == {c1, u, tg}
MCUsers == {c1}
MCBlobs == {b1, b2}
MCManifests == {m1, m2}
MCTagNames == {g1, g2}
MCTagLists == {<<g1>>}
MCLayerBlobs == {b1}
MCMainOf == (b1 :> m2)
MCRefLists == {<<>>, <<g1>>}
=============================================================================
