\* Concurrent uploads to configured and unconfigured transport systems, with
\* and without hints, and reads of every returned access spec.
CONSTANTS
    u1 = u1  u2 = u2  r1 = r1  c1 = c1  c2 = c2
    Uploaders <- MCUploaders
    Readers <- MCReaders
    SysArgs <- MCSysArgs
    PathArgs <- MCPathArgs
    Hints <- MCHints
    Contents <- MCContents
    DigestHex <- MCDigestHex
    Config <- MCConfig
    R3Root <- MCR3Root
    TempNames <- MCTempNames
    UpperOf <- MCUpperOf
    Failures = TRUE
    MaxUploads = 2
SPECIFICATION Spec
INVARIANT SpecLocatesUpload
CHECK_DEADLOCK FALSE
