\* A reader racing two writers of the same digest.
CONSTANTS
    w1 = w1  w2 = w2  r1 = r1  i1 = i1  i2 = i2  d1 = d1  d2 = d2
    ext = ext  unknown = unknown
    Writers <- MCWriters
    Readers <- MCReaders
    Ids <- MCIds
    Digests <- MCDigests
    ExternalAccess <- ext
    UnknownAccess <- unknown
    DirectAccesses <- MCDirect
    IOFailures = TRUE
    MaxCalls = 3
SPECIFICATION Spec
INVARIANT ReadBackExact
CHECK_DEADLOCK FALSE
