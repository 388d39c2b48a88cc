-------------------------- MODULE TypedObjectName --------------------------
(***************************************************************************)
(* What a versioned typed object promises about its type name (spec        *)
(* 4.1): the name stands for a pair (kind, version); SetKind rewrites only *)
(* the kind, SetVersion only the version, and an empty version means the  *)
(* default version.  lastOp records the operation a step performs, so a   *)
(* step of an implementation is matched with the operation it implements. *)
(***************************************************************************)
CONSTANTS
    Kinds,          \* the kinds a name can stand for
    Versions,       \* the versions a name can stand for
    VersionArgs,    \* the arguments callers pass to SetVersion
    KindArgs,       \* the arguments callers pass to SetKind
    TypeArgs,       \* the (kind, version) pairs callers pass to SetType
    Empty,          \* the empty version argument
    DefaultVersion  \* the version of a name without one

VARIABLES kind, version, lastOp

\* The version a SetVersion(v) leaves the name with.
Effective(v) == IF v = Empty THEN DefaultVersion ELSE v

Init ==
    /\ kind \in Kinds /\ version \in Versions
    /\ lastOp = <<"none">>

SetType(p) ==
    /\ kind' = p[1] /\ version' = Effective(p[2])
    /\ lastOp' = <<"SetType", p>>

SetKind(k) ==
    /\ kind' = k /\ UNCHANGED version
    /\ lastOp' = <<"SetKind", k>>

SetVersion(v) ==
    /\ version' = Effective(v) /\ UNCHANGED kind
    /\ lastOp' = <<"SetVersion", v>>

Next ==
    \/ \E p \in TypeArgs : SetType(p)
    \/ \E k \in KindArgs : SetKind(k)
    \/ \E v \in VersionArgs : SetVersion(v)

Spec == Init /\ [][Next]_<<kind, version, lastOp>>

=============================================================================
