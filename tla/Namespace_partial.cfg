\* One client tagging with failing pushes: AddTags stops at the first
\* failing tag and leaves the tags pushed before it.
CONSTANTS
    c1 = c1  c2 = c2  b1 = b1  m1 = m1  m2 = m2  g1 = g1  g2 = g2
    NoDigest = NoDigest
    Clients <- MCClients
    Users <- MCOneUser
    Blobs <- MCBlobs
    Manifests <- MCManifests
    TagNames <- MCTagNames
    TagLists <- MCTagLists
    NetFailures = TRUE
    MaxCalls = 2
SPECIFICATION NsSpec
PROPERTY NoPartialTagging
CHECK_DEADLOCK FALSE
