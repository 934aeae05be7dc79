\* Main program and listener that use the registry at the same time.
SPECIFICATION FairSpec
CONSTANTS
    main = main
    listener = listener
    Main = main
    Listener = listener
    Nobody = Nobody
    None = None
    qlog = qlog
    qa = qa
    p1 = p1
    p2 = p2
    log = log
    extra = extra
    Queues = {qlog, qa}
    Plugins = {p1, p2}
    Ports = {log, extra}
    BuiltIn = {log}
    LogQueue = qlog
    LogPort = log
    Anonymous <- AnonymousNames
    BadType = {p2}
    Q0 = {}
    P0 = {}
    Calls <- MCCalls
INVARIANTS TypeOK LockRespected NeverReplaced ThreadsStoppable
PROPERTIES CallsReturn
CHECK_DEADLOCK FALSE
