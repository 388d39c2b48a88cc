CONSTANTS
    t1 = t1  t2 = t2  a = a  b = b  d1 = d1  d2 = d2
    NoThread = NoThread  NoAction = NoAction  NoType = NoType
    Threads <- MCThreads
    Names <- MCNames
    Versions <- MCVersions
    Descs <- MCDescs
    ActionTypes <- MCActionTypes
    MaxCalls = 3
SPECIFICATION Spec
INVARIANT SupportedVersionsAreVersions
CHECK_DEADLOCK FALSE
