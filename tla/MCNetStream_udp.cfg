\* pluginStream over UDP.
SPECIFICATION FairSpec
CONSTANTS
    MaxImages = 3
    Blocks = 2
    Buffers = {u, v}
    MaxWire = 2
    None = None
    Counts = TRUE
    Realtime = TRUE
    Datagrams = TRUE
INVARIANTS TypeOK NeverMixed WholeUnlessHurt
PROPERTIES Delivered
CHECK_DEADLOCK FALSE
