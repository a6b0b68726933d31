SPECIFICATION MSpec
CONSTANTS
    a = a
    b = b
    c = c
    pa = pa
    pb = pb
    pc = pc
    shared = shared
    p1 = p1
    p2 = p2
    Procs = {p1, p2}
    Media = {a, b, c}
    Paths = {pa, pb, pc, shared}
    OutPaths <- MCOut
    Pieces <- MCPieces
    Exact = {a, c}
    Foreign = {b}
    MEDIA_IDX_MAX_ENTRIES = 2
    Earlier <- MCEarlier
    MaxCommands = 2
    MaxRemovals = 1
    Uploaders = {p1}
    Sizes = {0, 1, 2, 3, 4}
    UPLOAD_BIG_THRESHOLD = 2
    UPLOAD_MAX_SIZE = 3
    MaxShrinks = 1
CHECK_DEADLOCK FALSE

INVARIANTS   SentIsComplete
PROPERTIES DownloadEnds
