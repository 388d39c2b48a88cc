\* Setters on kinds without a separator implement the abstract name, the
\* string functions agree with the reference split, and the legacy local
\* filesystem blob spec, whose type the setters change, is encoded and
\* decoded by its version scheme.
CONSTANTS
    Sep = "/"
    Chars <- MCChars
    MaxLen = 4
    KindArgs <- MCKinds
    VersionArgs <- MCVersions
    DefaultVersion <- MCDefault
    SchemeKind <- MCSchemeKind
    V1 <- MCDefault
    Refs = {p1, p2}
    WireTypes <- MCWireTypes
SPECIFICATION SchemeSpec
INVARIANT SplitMatchesReference
INVARIANT TypeNameRoundTrip
INVARIANT SchemeRoundTrip
PROPERTY NameRefinement
