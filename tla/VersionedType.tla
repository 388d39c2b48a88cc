--------------------------- MODULE VersionedType ---------------------------
(***************************************************************************)
(* Kind/version type names, src/pkg/runtime/versionedtype.go.              *)
(*                                                                         *)
(* A type name is a string "kind/version"; the string functions split it  *)
(* at the last "/" (strings.LastIndex).  A string is a sequence of        *)
(* characters; which characters other than the separator occur does not  *)
(* matter to the code, so the alphabet is small and a version such as     *)
(* "v1" is one character.  Indices are 1-based here: Go's                 *)
(* strings.LastIndex i (-1 if none) is LastSep i+1 (0 if none), and Go's  *)
(* t[:i] and t[i+1:] are SubSeq(t, 1, i-1) and SubSeq(t, i+1, Len(t)).    *)
(*                                                                         *)
(* The variable typ is the Type field of one ObjectVersionedType; its     *)
(* methods SetType, SetKind and SetVersion are the actions.  The module   *)
(* is shown to implement TypedObjectName under the mapping kind =         *)
(* GetKind(typ), version = GetVersion(typ).                               *)
(***************************************************************************)
EXTENDS Naturals, Sequences, SequencesExt

CONSTANTS
    Sep,            \* VersionSeparator, "/"
    Chars,          \* the other characters strings are made of
    MaxLen,         \* bound on the length of the strings checked
    KindArgs,       \* the kinds callers pass (to TypeName, SetKind)
    VersionArgs,    \* the versions callers pass (to TypeName, SetVersion)
    DefaultVersion  \* "v1", what GetVersion returns for a name without one

ASSUME /\ Sep \notin Chars
       /\ \A v \in VersionArgs : Sep \notin ToSet(v)

Empty == <<>>
Strings == BoundedSeq(Chars \cup {Sep}, MaxLen)

VARIABLES typ, lastOp

vars == <<typ, lastOp>>

-----------------------------------------------------------------------------
(* The string functions of versionedtype.go.                               *)

\* strings.LastIndex(t, VersionSeparator) + 1, 0 if there is none.
LastSep(t) == SelectLastInSeq(t, LAMBDA c : c = Sep)

\* A plausible bug: the separator is written for an empty version too.
MutTypeName(k, v) == k \o <<Sep>> \o v

\* TypeName(kind, version): the bare kind for an empty version.
TypeName(k, v) == IF v = Empty THEN k ELSE k \o <<Sep>> \o v

\* A plausible bug: the separator is kept in the kind (t[:i+1]).
MutGetKind(t) ==
    LET i == LastSep(t) IN IF i = 0 THEN t ELSE SubSeq(t, 1, i)

GetKind(t) ==
    LET i == LastSep(t) IN IF i = 0 THEN t ELSE SubSeq(t, 1, i - 1)

GetVersion(t) ==
    LET i == LastSep(t) IN IF i = 0 THEN DefaultVersion ELSE SubSeq(t, i + 1, Len(t))

\* A plausible bug: the new kind is joined without the separator (t[i+1:]).
MutSetKindOf(t, k) ==
    LET i == LastSep(t) IN IF i = 0 THEN k ELSE k \o SubSeq(t, i + 1, Len(t))

\* SetKind: replace everything before the last separator.
SetKindOf(t, k) ==
    LET i == LastSep(t) IN IF i = 0 THEN k ELSE k \o SubSeq(t, i, Len(t))

\* SetVersion: replace what follows the last separator, or drop it for "".
SetVersionOf(t, v) ==
    LET i == LastSep(t) IN
    IF i = 0 THEN (IF v # Empty THEN t \o <<Sep>> \o v ELSE t)
    ELSE (IF v # Empty THEN SubSeq(t, 1, i - 1) \o <<Sep>> \o v ELSE SubSeq(t, 1, i - 1))

\* KindVersion(t): split at the last separator if it is not the first
\* character (i > 0 in Go); a name without one has the version "".
KindVersion(t) ==
    LET i == LastSep(t) IN
    IF i > 1 THEN <<SubSeq(t, 1, i - 1), SubSeq(t, i + 1, Len(t))>> ELSE <<t, Empty>>

\* RepositoryType.GetName and GetVersion, src/pkg/ocm/common/repospec.go:
\* the same split of a repository type's name, with the default "v1".
RepoGetName(t) == LET i == LastSep(t) IN IF i = 0 THEN t ELSE SubSeq(t, 1, i - 1)
RepoGetVersion(t) == LET i == LastSep(t) IN IF i = 0 THEN DefaultVersion ELSE SubSeq(t, i + 1, Len(t))

-----------------------------------------------------------------------------
(* One ObjectVersionedType and its setters.                                 *)

TypeArgs == KindArgs \X VersionArgs

Init ==
    /\ typ \in {TypeName(p[1], p[2]) : p \in TypeArgs}   \* NewVersionedObjectType
    /\ lastOp = <<"none">>

SetType(p) ==
    /\ typ' = TypeName(p[1], p[2])
    /\ lastOp' = <<"SetType", p>>

SetKind(k) ==
    /\ typ' = SetKindOf(typ, k)
    /\ lastOp' = <<"SetKind", k>>

SetVersion(v) ==
    /\ typ' = SetVersionOf(typ, v)
    /\ lastOp' = <<"SetVersion", v>>

Next ==
    \/ \E p \in TypeArgs : SetType(p)
    \/ \E k \in KindArgs : SetKind(k)
    \/ \E v \in VersionArgs : SetVersion(v)

Spec == Init /\ [][Next]_vars

-----------------------------------------------------------------------------
(* Properties.                                                              *)

\* spec 4.1, split: the last separator splits kind from version and a name
\* without one has the default version.  Stated without LastIndex: the
\* version is the separator-free suffix after a separator.
RefSplit(t) ==
    IF Sep \notin ToSet(t) THEN <<t, DefaultVersion>>
    ELSE CHOOSE p \in Prefixes(t) \X Suffixes(t) :
            p[1] \o <<Sep>> \o p[2] = t /\ Sep \notin ToSet(p[2])

\* The object's type name, whatever sequence of setters produced it, splits
\* into GetKind and GetVersion as the reference split does; the repository
\* types of repospec.go split their names the same way, and KindVersion
\* too, except that it leaves the version of a name without one empty.
SplitMatchesReference ==
    LET ref == RefSplit(typ) IN
    /\ <<GetKind(typ), GetVersion(typ)>> = ref
    /\ <<RepoGetName(typ), RepoGetVersion(typ)>> = ref
    /\ KindVersion(typ) = IF Sep \in ToSet(typ) THEN ref ELSE <<typ, Empty>>

\* spec 4.1, compose then split: for every kind, also one that contains the
\* separator (as "a/b" in a nested kind), and every version, the name
\* TypeName(kind, version) composes splits back into that kind and version,
\* and so does the name SetKind(kind) then SetVersion(version) make of the
\* object's current type while that carries a version.  A bare name is
\* where a separator in the kind is taken for the version's: TypeName with
\* the empty version, like SetVersion(""), gives the bare kind, which reads
\* back with the default version exactly when the kind has no separator,
\* and SetKind on a bare name leaves the kind's own separator last.
RoundTripAt(t0) ==
    \A k \in Strings, v \in VersionArgs :
        LET bare(t) == Sep \notin ToSet(t)
            Composed == {TypeName(k, v)} \cup
                        (IF ~bare(t0) \/ bare(k) THEN {SetVersionOf(SetKindOf(t0, k), v)} ELSE {})
        IN \A t \in Composed :
            IF v # Empty THEN GetKind(t) = k /\ GetVersion(t) = v
            ELSE bare(k) => (GetKind(t) = k /\ GetVersion(t) = DefaultVersion)

\* RoundTripAt for the names SetType makes, computed once (a constant).
RoundTripTable == [t \in {TypeName(p[1], p[2]) : p \in TypeArgs} |-> RoundTripAt(t)]

\* Compose then split round-trips (RoundTripAt above) at the object's
\* current type, whatever setters produced it.
TypeNameRoundTrip ==
    IF typ \in DOMAIN RoundTripTable THEN RoundTripTable[typ] ELSE RoundTripAt(typ)

\* The setters of ObjectVersionedType implement the abstract name: SetKind
\* changes only the kind, SetVersion only the version (spec 4.1).
NameKinds == {GetKind(t) : t \in Strings}
NameVersions == {GetVersion(t) : t \in Strings}
Name == INSTANCE TypedObjectName WITH
    kind <- GetKind(typ), version <- GetVersion(typ),
    Kinds <- NameKinds, Versions <- NameVersions,
    TypeArgs <- TypeArgs

NameRefinement == Name!Spec

=============================================================================
