\* Update of a descriptor whose name or version is not the container's.


CONSTANTS
    c1 = c1  u = u  tg = tg  b1 = b1  b2 = b2  m1 = m1  m2 = m2  g1 = g1  g2 = g2
    nodigest = nodigest  global = global  unknown = unknown
    NoDigest = NoDigest
    Clients <- MCClients
    Users <- MCUsers
    Blobs <- MCBlobs
    Manifests <- MCManifests
    TagNames <- MCTagNames
    TagLists <- MCTagLists
    NetFailures = FALSE
    MaxCalls = 2
    Updater <- u
    VersionTag <- g1
    CVManifest <- m1
    LayerBlobs <- MCLayerBlobs
    NotADigest <- nodigest
    GlobalAccess <- global
    UnknownType <- unknown
    HasHandler = FALSE
    MainOf <- MCMainOf
    Tagger <- tg
    RefLists <- MCRefLists
    MaxTagCmds = 1
    MaxCVCalls = 4
SPECIFICATION CVSpec
PROPERTY UpdateChecksDescriptor
CHECK_DEADLOCK FALSE
