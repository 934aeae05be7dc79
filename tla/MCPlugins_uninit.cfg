\* Is uninit() always called before a plugin is started again?
SPECIFICATION Spec
CONSTANTS
    src = src
    snk = snk
    pool = pool
    mid = mid
    i1 = i1
    i2 = i2
    i3 = i3
    Plugins = {src, snk}
    Queues = {pool, mid}
    Images = {i1, i2}
    Messages = {m1}
    None = None
    Pool <- PipePool
    In <- PipeIn
    Out <- PipeOut
    Event <- PipeEvent
    EventOp <- PipeEventOp
    Loop <- PipeLoop
    Printing = {src, snk}
    MaxSends = 1
PROPERTIES UninitBeforeRestart
