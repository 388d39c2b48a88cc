-------------------------- MODULE MC_PluginInstall --------------------------
EXTENDS PluginInstall

\* Plugin binaries for this platform (two builds of p1), one for another
\* platform, and a resource of another type.
P1 == [type |-> "ocmPlugin", platform |-> "this", plugin |-> "p1", build |-> 1]
P1b == [P1 EXCEPT !.build = 2]
P2 == [type |-> "ocmPlugin", platform |-> "this", plugin |-> "p2", build |-> 1]
O1 == [type |-> "ocmPlugin", platform |-> "other", plugin |-> "p1", build |-> 1]
X1 == [type |-> "other", platform |-> "this", plugin |-> "p1", build |-> 1]

MCPluginNames == {"p1", "p2"}
MCBuilds == {1, 2}
MCVersions == {"v1", "v2", "v3"}
\* v1 lists a foreign-platform plugin before two matching ones, v2 a
\* non-plugin before a newer build of p1, v3 no matching plugin at all.
MCCVOf == ("v1" :> <<O1, P1, P2>>) @@ ("v2" :> <<X1, P1b>>) @@ ("v3" :> <<O1, X1>>)
MCVersionLists == {<<>>, <<"v2">>, <<"v1", "v2">>}
=============================================================================
