------------------------ MODULE MC_ComponentArchive ------------------------
(* Model-checking instance of ComponentArchive: two writers, one reader,  *)
(* two identities and two digests, so that two calls can race on the same  *)
(* digest and on the same identity.                                       *)
EXTENDS ComponentArchive, TLC

CONSTANTS w1, w2, r1, i1, i2, d1, d2, ext, unknown

MCWriters == {w1, w2}
MCReaders == {r1}
MCIds == {i1, i2}
MCDigests == {d1, d2}
MCDirect == {ext, unknown}
=============================================================================
