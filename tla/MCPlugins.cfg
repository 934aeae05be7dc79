\* Source and sink with one pool of two images, commands, events, starts and stops.
SPECIFICATION FairSpec
CONSTANTS
    src = src
    snk = snk
    pool = pool
    mid = mid
    i1 = i1
    i2 = i2
    i3 = i3
    Plugins = {src, snk}
    Queues = {pool, mid}
    Images = {i1, i2, i3}
    Messages = {m1}
    None = None
    Pool <- PipePool
    In <- PipeIn
    Out <- PipeOut
    Event <- PipeEvent
    EventOp <- PipeEventOp
    Loop <- PipeLoop
    Printing = {src, snk}
    MaxSends = 1
INVARIANTS TypeOK SingleOwner PoolsKept
PROPERTIES LostOnlyByCancel StopReturns ImagesComeBack CommandsHandled
