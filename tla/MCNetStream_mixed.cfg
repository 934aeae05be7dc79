\* pluginNet over UDP.
SPECIFICATION Spec
CONSTANTS
    MaxImages = 3
    Blocks = 2
    Buffers = {u, v}
    MaxWire = 3
    None = None
    Counts = FALSE
    Realtime = FALSE
    Datagrams = TRUE
INVARIANTS NeverMixed
