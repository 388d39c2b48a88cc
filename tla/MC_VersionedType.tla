------------------------- MODULE MC_VersionedType -------------------------
(* Type names over the characters a, b, v1, v2 and "/", and the legacy     *)
(* local filesystem blob spec whose type they are: its kind is "a", so    *)
(* its names are a and a/v1; a/v2 is a type the scheme does not know.      *)
EXTENDS LocalFsBlobScheme

MCChars == {"a", "b", "v1", "v2"}
MCDefault == <<"v1">>
\* Kinds without a separator, as every registered kind of the sources is.
MCKinds == {k \in BoundedSeq({"a", "b"}, 3) : k # <<>>}
MCVersions == {<<>>, <<"v1">>, <<"v2">>}
MCSchemeKind == <<"a">>
MCWireTypes == {<<"a">>, <<"a","/","v2">>}
=============================================================================
