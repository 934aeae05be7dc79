---------------------------- MODULE MCQPManager -----------------------------
(* A main program and the listener it starts, on a small registry that is    *)
(* empty when they start, as netSlave's.                                     *)
EXTENDS QPManager, TLC

CONSTANTS main, listener, qlog, qa, p1, p2, log, extra

K(op, q, p, port) == [op |-> op, q |-> q, p |-> p, port |-> port]

AnonymousNames == <<qa>>

\* Both add the log queue, and start and stop the plugin that the listener adds; the
\* main program connects it to a queue without a name, also before it is there; the
\* listener asks for a plugin of an unknown type, and reserves the same port twice.
MCCalls ==
    main :> {K("addQueue", qlog, None, None), K("connect", None, p1, extra),
             K("start", None, p1, None), K("stop", None, p1, None),
             K("startNet", None, None, None), K("stopNet", None, None, None)}
    @@ listener :> {K("addQueue", qlog, None, None), K("addPlugin", None, p1, None),
                    K("addPlugin", None, p2, None), K("reservePort", None, p1, extra),
                    K("start", None, p1, None), K("stop", None, p1, None)}
=============================================================================
