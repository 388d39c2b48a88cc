------------------------- MODULE MC_ActionRegistry -------------------------
EXTENDS ActionRegistry, TLC

CONSTANTS t1, t2, a, b, d1, d2

MCThreads == {t1, t2}
MCNames == {a, b}
MCVersions == {"v1", "v2"}
MCDescs == {d1, d2}

TN(k, v) == [kind |-> k, version |-> v]

\* Well-formed types of a in two versions, one whose result type is of
\* another version, and one whose spec type is of another kind.
MCActionTypes ==
    { [kind |-> a, version |-> "v1", spec |-> TN(a, "v1"), result |-> TN(a, "v1")],
      [kind |-> a, version |-> "v2", spec |-> TN(a, "v2"), result |-> TN(a, "v2")],
      [kind |-> a, version |-> "v2", spec |-> TN(a, "v2"), result |-> TN(a, "v1")],
      [kind |-> a, version |-> "v1", spec |-> TN(b, "v1"), result |-> TN(b, "v1")] }
=============================================================================
