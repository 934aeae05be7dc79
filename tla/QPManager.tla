----------------------------- MODULE QPManager ------------------------------
(***************************************************************************)
(* The registry of queues and plugins, src/imgv/qpmanager.cpp, as several  *)
(* threads use it: the main program, and the listener thread (pluginNet2)  *)
(* that runs the commands /@/addQueue, /@/connect, /@/start ... it         *)
(* receives, and that stopNetListening() cancels.  One step is what a      *)
(* thread does between two places where another one can come in.           *)
(*                                                                         *)
(* A call of the library is a stack: addPlugin() ends with a connect(),    *)
(* connect() to an unnamed queue starts with an addQueue().                *)
(***************************************************************************)
EXTENDS Naturals, Sequences, FiniteSets

CONSTANTS
    Main, Listener,     \* the two threads
    Nobody, None,
    Queues, Plugins,    \* the names that calls may mention
    Ports, BuiltIn,     \* the port names, and those every plugin has from the start
    LogQueue, LogPort,  \* the queue and port that addPlugin() connects
    Anonymous,          \* the names nextAnonymousQueue() makes, in order
    BadType,            \* the plugins that calls ask for with an unknown type
    Q0, P0,             \* what the main program set up before it started the listener
    Calls               \* the calls each thread makes

Clients == {Main, Listener}

Call == [op : {"addQueue", "addPlugin", "connect", "connectPorts", "reservePort",
               "getQueue", "start", "stop", "startNet", "stopNet", "netStart"},
         q : Queues \cup {None}, p : Plugins \cup {None}, port : Ports \cup {None}]

\* The arguments that each function of the library takes.
WellFormed(k) ==
    /\ k \in Call
    /\ k.op \in {"addQueue", "getQueue"} => k.q # None
    /\ k.op \in {"addPlugin", "connect", "connectPorts", "reservePort", "start", "stop"} =>
          k.p # None
    /\ k.op \in {"connect", "connectPorts", "reservePort"} => k.port # None
    /\ k.op = "addPlugin" => k.q = None

ASSUME QPManagerAssumption ==
    /\ Main # Listener /\ Nobody \notin Clients
    /\ None \notin Queues \cup Plugins \cup Ports
    /\ LogQueue \in Queues /\ LogPort \in BuiltIn /\ BuiltIn \subseteq Ports
    /\ Anonymous \in Seq(Queues)
    /\ BadType \subseteq Plugins
    /\ Q0 \subseteq Queues /\ P0 \subseteq Plugins
    /\ Calls \in [Clients -> SUBSET {k \in Call : WellFormed(k) /\ k.op # "netStart"}]
    /\ \A k \in Calls[Listener] : k.op \notin {"startNet", "stopNet"}

VARIABLES
    acces,      \* the holder of the mutex that protects the maps
    qmap, pmap, \* the names that are registered
    ports,      \* the ports each plugin has
    conn,       \* Qs: the queue at each port of each plugin
    queueNum,   \* the counter of nextAnonymousQueue(), from 1 here
    running,    \* the member running of each plugin
    tid,        \* the thread of each plugin: none, alive, cancelled or ended
    orphans,    \* the plugins with a thread whose tid was overwritten: nobody can stop it
    net,        \* the listener: none, alive, cancelled or dead
    calls,      \* the stack of calls each client is in
    pc,         \* where it is in the top one
    found,      \* whether the name it looked for was found, or inserted; FALSE again
                \* when it is not needed any more
    got,        \* the counter it read; 1 again when it is not needed any more
    stray,      \* history: a connect() has unlocked the mutex while another held it
    raced,      \* history: the plugins that two clients started or stopped at once
    leftLocked  \* history: a listener has died with the mutex

maps == <<qmap, pmap, ports, conn>>
thr == <<running, tid, orphans>>
locals == <<calls, pc, found, got>>
history == <<stray, raced, leftLocked>>
vars == <<acces, maps, queueNum, thr, net, locals, history>>

Critical == {"crit", "insert", "complain", "unlock"}
ThreadPlaces == {"test", "create", "set", "cancel", "join", "clear", "reset"}
Places == Critical \cup ThreadPlaces \cup
          {"idle", "anon", "anonInc", "lookup", "lock", "report", "net", "joinNet", "gone"}

TypeOK ==
    /\ acces \in Clients \cup {Nobody}
    /\ qmap \in SUBSET Queues /\ pmap \in SUBSET Plugins
    /\ ports \in [Plugins -> SUBSET Ports]
    /\ conn \in [Plugins -> [Ports -> Queues \cup {None}]]
    /\ queueNum \in 1 .. Len(Anonymous) + 1
    /\ running \in [Plugins -> BOOLEAN]
    /\ tid \in [Plugins -> {"none", "alive", "cancelled", "ended"}]
    /\ orphans \in SUBSET Plugins
    /\ net \in {"none", "alive", "cancelled", "dead"}
    /\ calls \in [Clients -> Seq(Call)]
    /\ pc \in [Clients -> Places]
    /\ \A c \in Clients : calls[c] = <<>> <=> pc[c] \in {"idle", "gone"}
    /\ pc[Listener] = "gone" <=> net \in {"none", "dead"}
    /\ found \in [Clients -> BOOLEAN]
    /\ got \in [Clients -> 1 .. Len(Anonymous) + 1]
    /\ \A p \in Plugins : \A t \in Ports : conn[p][t] # None => t \in ports[p]
    /\ stray \in BOOLEAN /\ raced \in SUBSET Plugins /\ leftLocked \in BOOLEAN

Init ==
    /\ acces = Nobody
    /\ qmap = Q0 /\ pmap = P0
    /\ ports = [p \in Plugins |-> BuiltIn]
    /\ conn = [p \in Plugins |-> [t \in Ports |->
                  IF p \in P0 /\ t = LogPort /\ LogQueue \in Q0 THEN LogQueue ELSE None]]
    /\ queueNum = 1
    /\ running = [p \in Plugins |-> FALSE]
    /\ tid = [p \in Plugins |-> "none"]
    /\ orphans = {}
    /\ net = "none"
    /\ calls = [c \in Clients |-> <<>>]
    /\ pc = [c \in Clients |-> IF c = Listener THEN "gone" ELSE "idle"]
    /\ found = [c \in Clients |-> FALSE]
    /\ got = [c \in Clients |-> 1]
    /\ stray = FALSE /\ raced = {} /\ leftLocked = FALSE

-----------------------------------------------------------------------------
(* Calls and returns.                                                      *)

Top(c) == Head(calls[c])
Goto(c, place) == pc' = [pc EXCEPT ![c] = place]

\* Where a call begins: connect() by name looks the plugin up first, without the
\* lock; a connect() without a queue name asks for a new one.
Entry(k) ==
    IF k.op = "connect" THEN "lookup"
    ELSE IF k.op = "connectPorts" /\ k.q = None THEN "anon"
    ELSE IF k.op \in {"stopNet", "netStart"} THEN "net"
    ELSE "lock"

GoOn(c, stack) ==
    /\ calls' = [calls EXCEPT ![c] = stack]
    /\ Goto(c, IF stack = <<>> THEN "idle" ELSE Entry(Head(stack)))
Return(c) == GoOn(c, Tail(calls[c]))

\* startNetListening: stops the listener there is, connects a new one to the log
\* queue under the lock, and starts it.
Expanded(k) ==
    IF k.op = "startNet"
    THEN <<[k EXCEPT !.op = "stopNet"], [k EXCEPT !.op = "getQueue", !.q = LogQueue],
           [k EXCEPT !.op = "netStart"]>>
    ELSE <<k>>

MakeCall(c) ==
    /\ pc[c] = "idle" /\ (c = Listener => net = "alive")
    /\ \E k \in Calls[c] :
          /\ (k.op = "connect" /\ k.q = None) => queueNum \in DOMAIN Anonymous
          /\ GoOn(c, Expanded(k))
    /\ UNCHANGED <<acces, maps, queueNum, thr, net, found, got>>

-----------------------------------------------------------------------------
(* Outside the lock.                                                       *)

\* Mutated form of LookUp: unlocks in either case.
LookUpUnlocks(c) ==
    /\ pc[c] = "lookup"
    /\ acces' = Nobody
    /\ IF Top(c).p \in pmap
       THEN GoOn(c, <<[Top(c) EXCEPT !.op = "connectPorts"]>> \o Tail(calls[c]))
       ELSE Return(c)
    /\ UNCHANGED <<maps, queueNum, thr, net, found, got>>

\* connect(qname,pname,port): getP() is called without the lock, and when there
\* is no such plugin the mutex is unlocked, whoever holds it.
LookUp(c) ==
    /\ pc[c] = "lookup"
    /\ IF Top(c).p \in pmap
       THEN /\ GoOn(c, <<[Top(c) EXCEPT !.op = "connectPorts"]>> \o Tail(calls[c]))
            /\ UNCHANGED acces
       ELSE acces' = Nobody /\ Return(c)
    /\ UNCHANGED <<maps, queueNum, thr, net, found, got>>

\* nextAnonymousQueue(), then addQueue() with that name.
ReadCounter(c) ==
    /\ pc[c] = "anon" /\ queueNum \in DOMAIN Anonymous
    /\ got' = [got EXCEPT ![c] = queueNum]
    /\ Goto(c, "anonInc")
    /\ UNCHANGED <<acces, maps, queueNum, thr, net, calls, found>>

TakeName(c) ==
    /\ pc[c] = "anonInc"
    /\ queueNum' = got[c] + 1
    /\ LET named == [Top(c) EXCEPT !.q = Anonymous[got[c]]]
       IN  GoOn(c, <<[named EXCEPT !.op = "addQueue"], named>> \o Tail(calls[c]))
    /\ got' = [got EXCEPT ![c] = 1]
    /\ UNCHANGED <<acces, maps, thr, net, found>>

-----------------------------------------------------------------------------
(* Under the lock.                                                         *)

Lock(c) ==
    /\ pc[c] = "lock" /\ acces = Nobody
    /\ acces' = c
    /\ Goto(c, "crit")
    /\ UNCHANGED <<maps, queueNum, thr, net, calls, found, got>>

In(c, ops) == pc[c] = "crit" /\ Top(c).op \in ops
Found(c, yes) == found' = [found EXCEPT ![c] = yes]

\* Mutated form of TestName: inserts without looking for the name.
TestNothing(c) ==
    /\ In(c, {"addQueue", "addPlugin"})
    /\ Goto(c, "insert")
    /\ Found(c, TRUE)
    /\ UNCHANGED <<acces, maps, queueNum, thr, net, calls, got>>

\* addQueue and addPlugin refuse a name that exists; addPlugin an unknown type.
TestName(c) ==
    /\ In(c, {"addQueue", "addPlugin"})
    /\ LET free == IF Top(c).op = "addQueue" THEN Top(c).q \notin qmap
                   ELSE Top(c).p \notin pmap \cup BadType
       IN  Goto(c, IF free THEN "insert" ELSE "unlock") /\ Found(c, free)
    /\ UNCHANGED <<acces, maps, queueNum, thr, net, calls, got>>

Insert(c) ==
    /\ pc[c] = "insert"
    /\ IF Top(c).op = "addQueue"
       THEN qmap' = qmap \cup {Top(c).q} /\ UNCHANGED pmap
       ELSE pmap' = pmap \cup {Top(c).p} /\ UNCHANGED qmap
    /\ Goto(c, "unlock")
    /\ UNCHANGED <<acces, ports, conn, queueNum, thr, net, calls, found, got>>

\* Mutated form of GetQ: connects a port that the plugin does not have.
GetQAnyPort(c) ==
    /\ In(c, {"connectPorts", "getQueue"})
    /\ LET there == Top(c).q \in qmap
       IN  /\ Goto(c, IF there THEN "unlock" ELSE "complain")
           /\ IF there /\ Top(c).op = "connectPorts"
              THEN conn' = [conn EXCEPT ![Top(c).p][Top(c).port] = Top(c).q]
              ELSE UNCHANGED conn
           /\ Found(c, there)
    /\ UNCHANGED <<acces, qmap, pmap, ports, queueNum, thr, net, calls, got>>

\* getQ() in connect, getQueue, add, addImage, addEmptyImages ...
GetQ(c) ==
    /\ In(c, {"connectPorts", "getQueue"})
    /\ LET there == Top(c).q \in qmap
           fits == Top(c).op = "connectPorts" => Top(c).port \in ports[Top(c).p]
       IN  /\ Goto(c, IF there THEN "unlock" ELSE "complain")
           /\ IF there /\ fits /\ Top(c).op = "connectPorts"
              THEN conn' = [conn EXCEPT ![Top(c).p][Top(c).port] = Top(c).q]
              ELSE UNCHANGED conn
           /\ Found(c, there /\ fits)
    /\ UNCHANGED <<acces, qmap, pmap, ports, queueNum, thr, net, calls, got>>

\* getQ() prints, still under the lock, when there is no such queue, and so does
\* reservePort() when there is such a port and the plugin's log goes to cout.
Complain(c) ==
    /\ pc[c] = "complain"
    /\ Goto(c, "unlock")
    /\ UNCHANGED <<acces, maps, queueNum, thr, net, calls, found, got>>

\* getP() in start and stop, and in reservePort, which adds the port.
GetP(c) ==
    /\ In(c, {"start", "stop", "reservePort"})
    /\ Found(c, Top(c).p \in pmap)
    /\ IF Top(c).op = "reservePort" /\ Top(c).p \in pmap
       THEN ports' = [ports EXCEPT ![Top(c).p] = @ \cup {Top(c).port}]
       ELSE UNCHANGED ports
    /\ Goto(c, IF /\ Top(c).op = "reservePort" /\ Top(c).p \in pmap
                  /\ Top(c).port \in ports[Top(c).p] /\ conn[Top(c).p][LogPort] = None
               THEN "complain" ELSE "unlock")
    /\ UNCHANGED <<acces, qmap, pmap, conn, queueNum, thr, net, calls, got>>

\* Mutated form of Unlock: the early return of a refused name forgets it.
UnlockIfFound(c) ==
    /\ pc[c] = "unlock"
    /\ acces' = IF found[c] THEN Nobody ELSE acces
    /\ Goto(c, "report")
    /\ UNCHANGED <<maps, queueNum, thr, net, calls, found, got>>

\* A default mutex is released by whoever unlocks it.
Unlock(c) ==
    /\ pc[c] = "unlock"
    /\ acces' = Nobody
    /\ Goto(c, "report")
    /\ UNCHANGED <<maps, queueNum, thr, net, calls, found, got>>

\* After the lock: addPlugin() connects the log port, start() and stop() turn to
\* the plugin, the others return.
Report(c) ==
    /\ pc[c] = "report"
    /\ IF found[c] /\ Top(c).op = "addPlugin"
       THEN GoOn(c, <<[op |-> "connect", q |-> LogQueue, p |-> Top(c).p, port |-> LogPort]>>
                        \o Tail(calls[c]))
       ELSE IF found[c] /\ Top(c).op \in {"start", "stop"} THEN Goto(c, "test") /\ UNCHANGED calls
       ELSE Return(c)
    /\ Found(c, FALSE)
    /\ UNCHANGED <<acces, maps, queueNum, thr, net, got>>

-----------------------------------------------------------------------------
(* plugin::start and plugin::stop, which no lock protects.                 *)

\* Mutated form of TestRunning: start() does not look at running.
TestRunningNot(c) ==
    /\ pc[c] = "test"
    /\ Goto(c, IF Top(c).op = "start" THEN "create"
               ELSE IF running[Top(c).p] THEN "cancel" ELSE "reset")
    /\ UNCHANGED <<acces, maps, queueNum, thr, net, calls, found, got>>

TestRunning(c) ==
    /\ pc[c] = "test"
    /\ LET on == running[Top(c).p]
       IN  IF Top(c).op = "start"
           THEN IF on THEN Return(c) ELSE Goto(c, "create") /\ UNCHANGED calls
           ELSE Goto(c, IF on THEN "cancel" ELSE "reset") /\ UNCHANGED calls
    /\ UNCHANGED <<acces, maps, queueNum, thr, net, found, got>>

Create(c) ==
    /\ pc[c] = "create"
    /\ tid' = [tid EXCEPT ![Top(c).p] = "alive"]
    /\ orphans' = IF tid[Top(c).p] = "alive" THEN orphans \cup {Top(c).p} ELSE orphans
    /\ Goto(c, "set")
    /\ UNCHANGED <<acces, maps, queueNum, running, net, calls, found, got>>

SetRunning(c) ==
    /\ pc[c] = "set"
    /\ running' = [running EXCEPT ![Top(c).p] = TRUE]
    /\ Return(c)
    /\ UNCHANGED <<acces, maps, queueNum, tid, orphans, net, found, got>>

\* pthread_cancel of a thread that another stop() has just joined does nothing,
\* and so does a second pthread_join.  Which of two threads a join waits for that
\* a start() crosses is not followed: the plugin is raced then.
CancelThread(c) ==
    /\ pc[c] = "cancel"
    /\ tid' = IF tid[Top(c).p] = "alive" THEN [tid EXCEPT ![Top(c).p] = "cancelled"] ELSE tid
    /\ Goto(c, "join")
    /\ UNCHANGED <<acces, maps, queueNum, running, orphans, net, calls, found, got>>

Join(c) ==
    /\ pc[c] = "join" /\ tid[Top(c).p] \in {"ended", "none"}
    /\ tid' = [tid EXCEPT ![Top(c).p] = "none"]
    /\ Goto(c, "clear")
    /\ UNCHANGED <<acces, maps, queueNum, running, orphans, net, calls, found, got>>

\* stop() ends with running=0, also when it found the plugin stopped.
ClearRunning(c) ==
    /\ pc[c] \in {"clear", "reset"}
    /\ running' = [running EXCEPT ![Top(c).p] = FALSE]
    /\ Return(c)
    /\ UNCHANGED <<acces, maps, queueNum, tid, orphans, net, found, got>>

\* Its loop() returned false, or the cancellation took effect.
ThreadEnds(p) ==
    /\ tid[p] \in {"alive", "cancelled"}
    /\ tid' = [tid EXCEPT ![p] = "ended"]
    /\ UNCHANGED <<acces, maps, queueNum, running, orphans, net, locals>>

-----------------------------------------------------------------------------
(* The listener.                                                           *)

StopNet(c) ==
    /\ pc[c] = "net" /\ Top(c).op = "stopNet"
    /\ IF net = "none" THEN Return(c) /\ UNCHANGED net
       ELSE net' = "cancelled" /\ Goto(c, "joinNet") /\ UNCHANGED calls
    /\ UNCHANGED <<acces, maps, queueNum, thr, found, got>>

JoinNet(c) ==
    /\ pc[c] = "joinNet" /\ net = "dead"
    /\ net' = "none"
    /\ Return(c)
    /\ UNCHANGED <<acces, maps, queueNum, thr, found, got>>

StartNet(c) ==
    /\ pc[c] = "net" /\ Top(c).op = "netStart"
    /\ net' = "alive"
    /\ calls' = [calls EXCEPT ![c] = Tail(@)]
    /\ pc' = [pc EXCEPT ![c] = "idle", ![Listener] = "idle"]
    /\ UNCHANGED <<acces, maps, queueNum, thr, found, got>>

\* Waiting for a packet or for a thread to end, and printing, are cancellation
\* points.  The constructor of a plugin prints, and addPlugin() runs it with the
\* mutex; connect() prints the name it made; addQueue and addPlugin print in the
\* end, the others when they fail.
CancelPoint(c) ==
    \/ pc[c] \in {"idle", "complain", "create", "cancel", "join", "clear"}
    \/ pc[c] = "insert" /\ Top(c).op = "addPlugin"
    \/ pc[c] = "lock" /\ Tail(calls[c]) # <<>>
    \/ pc[c] = "report" /\ (Top(c).op \in {"addQueue", "addPlugin"} \/ ~found[c])

NetCancelled ==
    /\ net = "cancelled" /\ CancelPoint(Listener)
    /\ net' = "dead"
    /\ calls' = [calls EXCEPT ![Listener] = <<>>]
    /\ Goto(Listener, "gone")
    /\ Found(Listener, FALSE)
    /\ UNCHANGED <<acces, maps, queueNum, thr, got>>

-----------------------------------------------------------------------------
(* History: no step depends on it.                                         *)

\* c is in start() or stop() of plugin p.
InThread(c, p) == pc[c] \in ThreadPlaces /\ Top(c).p = p

Remember ==
    /\ stray' = (stray \/ \E c \in Clients : /\ pc[c] = "lookup" /\ pc'[c] # "lookup"
                                             /\ Top(c).p \notin pmap /\ acces # Nobody)
    /\ raced' = raced \cup {p \in Plugins : InThread(Main, p)' /\ InThread(Listener, p)'}
    /\ leftLocked' = (leftLocked \/ /\ net = "cancelled" /\ net' = "dead"
                                    /\ acces = Listener /\ pc[Listener] \in Critical)

-----------------------------------------------------------------------------
Step(c) ==
    \/ LookUp(c) \/ ReadCounter(c) \/ TakeName(c)
    \/ TestName(c) \/ Insert(c) \/ GetQ(c) \/ Complain(c) \/ GetP(c) \/ Unlock(c) \/ Report(c)
    \/ TestRunning(c) \/ Create(c) \/ SetRunning(c)
    \/ CancelThread(c) \/ Join(c) \/ ClearRunning(c)
    \/ StopNet(c) \/ JoinNet(c) \/ StartNet(c)

Next ==
    /\ \/ \E c \in Clients : MakeCall(c) \/ Lock(c) \/ Step(c)
       \/ \E p \in Plugins : ThreadEnds(p)
       \/ NetCancelled
    /\ Remember

Spec == Init /\ [][Next]_vars

\* Threads run and get the mutex, cancelled threads end.
Fairness ==
    /\ \A c \in Clients : WF_vars(Step(c) /\ Remember) /\ SF_vars(Lock(c) /\ Remember)
    /\ \A p \in Plugins : WF_vars(tid[p] = "cancelled" /\ ThreadEnds(p) /\ Remember)
    /\ WF_vars(NetCancelled /\ Remember)

FairSpec == Spec /\ Fairness

-----------------------------------------------------------------------------
(* Safety, for whatever the clients call.  Some paths of the registry take *)
(* no lock: what is promised ends where two of them have met.              *)

\* Whoever is in a critical section of the registry holds its mutex, until a
\* connect() that did not find its plugin has unlocked it for somebody else.
LockRespected == stray \/ \A c \in Clients : pc[c] \in Critical => acces = c

\* Until then a name that was tested is still free when it is inserted: a queue or
\* plugin that other threads already point to is never replaced by a second one.
NeverReplaced ==
    stray \/ \A c \in Clients : pc[c] = "insert" =>
                 Top(c).q \notin qmap /\ (Top(c).op = "addPlugin" => Top(c).p \notin pmap)

\* Every live thread of a plugin can be stopped: running is set, or is about to
\* be set by the start() that made the thread, and no start() made a second one;
\* also after a listener died in start() or stop(), but not once two clients were
\* in them at the same time.
ThreadsStoppable ==
    \A p \in Plugins \ raced :
        /\ p \notin orphans
        /\ tid[p] = "alive" =>
              running[p] \/ \E c \in Clients : pc[c] = "set" /\ Top(c).p = p

\* A rule for callers: connect() by name only a plugin that is there at the call.
ConnectsKnown ==
    \A c \in Clients : pc[c] = "idle" /\ pc'[c] = "lookup" => Top(c)'.p \in pmap

-----------------------------------------------------------------------------
(* Liveness.                                                               *)

\* Every call of the library returns, in particular stop() and stopNetListening(),
\* unless it is the listener's and that thread is cancelled.  What hangs is behind
\* a mutex that a listener took to its grave, or is a stop() that another start()
\* or stop() of the plugin has crossed.
CallsReturn ==
    \A c \in Clients :
        (pc[c] \notin {"idle", "anon"}) ~>
            \/ pc[c] \in {"idle", "anon", "gone"}
            \/ leftLocked
            \/ pc[c] = "join" /\ Top(c).p \in raced
=============================================================================
