----------------------------- MODULE MC_R3Trans -----------------------------
(* Model-checking instance of R3Trans.  Strings are sequences of one-      *)
(* character strings.  Three transport systems: "x" configured with the    *)
(* address "/a" and the default path "p", "y" not configured (base         *)
(* <tmp>/r3trans/y), and "x/y", which the uploader rejects.  Target paths: *)
(* none (the configured default applies), "yyy" (three characters, so a   *)
(* hint-less upload is named YYYK<hex>), "/y" (rejected) and "../y", which *)
(* leaves the base directory.                                              *)
EXTENDS R3Trans

CONSTANTS u1, u2, r1, c1, c2

MCUploaders == {u1, u2}
MCReaders == {r1}
MCSysArgs == {<<"x">>, <<"y">>, <<"x", "/", "y">>}
MCPathArgs == {<<>>, <<"y", "y", "y">>, <<"/", "y">>, <<".", ".", "/", "y">>}
MCHints == {<<>>, <<"t">>}
MCContents == {c1, c2}
MCDigestHex == (c1 :> "1") @@ (c2 :> "2")
MCConfig ==
    (<<"x">> :> [address |-> <<"/", "a">>, path |-> <<"p">>])
    @@ (<<"y">> :> [address |-> <<>>, path |-> <<>>])
    @@ (<<"x", "/", "y">> :> [address |-> <<>>, path |-> <<>>])
MCR3Root == <<<<"t", "m", "p">>, <<"r", "3">>>>
MCTempNames == {"r3trans.1.blob", "r3trans.2.blob", "r3trans.3.blob"}
MCUpperOf == ("x" :> "X") @@ ("y" :> "Y") @@ ("p" :> "P") @@ ("t" :> "T")
=============================================================================
