------------------------------ MODULE Plugins -------------------------------
(***************************************************************************)
(* Plugin threads (src/imgv/plugin.hpp) connected by queues, the main      *)
(* program that starts and stops them, and the recycling of images and     *)
(* messages (src/imgv/recyclable.cpp).                                     *)
(*                                                                         *)
(* The queues are used through the operations of TwoLane, each in one step *)
(* (RQueue implements Channel).  A plugin is the typical one of            *)
(* plugin.hpp: its loop() makes one or more pops on its input queue,       *)
(* works on the image it got and pushes it to its output, or recycles it   *)
(* when the output is not connected.                                       *)
(***************************************************************************)
EXTENDS TwoLane, FiniteSets, Functions

CONSTANTS
    Plugins,    \* every plugin also names its own message pool, Qmessage
    Queues,     \* the queues made by qpmanager::addQueue
    Images,     \* the images that may exist
    Messages,   \* the messages that may be allocated at the same time
    None,       \* NULL: no item, no queue, no plugin
    Pool,       \* the empty images put into each queue from the start
    In, Out,    \* the queues at the input and the output port (None: no output)
    Event,      \* the queue at the port that events and logs go to, or None
    EventOp,    \* the lane events go to: /defevent-ctrl or /defevent
    Loop,       \* the pops one call of loop() makes, in order
    Printing,   \* the plugins whose loop() and handlers print or sleep
    MaxSends    \* bound on what the main program sends

\* The pops of plugin<T>.  An image ends the first five of them; the two on the
\* control lane recycle images; the "noctrl" ones do not process messages.
ImagePops == {"front_wait", "back_wait", "noctrl_wait", "front_nowait", "noctrl_nowait"}
NoCtrl == {"noctrl_wait", "noctrl_nowait"}
Modes == ImagePops \cup {"ctrl_wait", "ctrl_nowait"}

Items == Images \cup Messages
AllQueues == Queues \cup Plugins
Pooled(q) == Range(Pool[q])
PoolOf(x) == IF \E q \in Queues : x \in Pooled(q)
             THEN CHOOSE q \in Queues : x \in Pooled(q) ELSE None

ASSUME PluginsAssumption ==
    /\ None \notin Items \cup AllQueues
    /\ Images \cap Messages = {} /\ Queues \cap Plugins = {}
    /\ Pool \in [Queues -> Seq(Images)]
    /\ \A q \in Queues : IsInjective(Pool[q])
    /\ \A q, r \in Queues : q # r => Pooled(q) \cap Pooled(r) = {}
    /\ In \in [Plugins -> Queues]
    /\ Out \in [Plugins -> Queues \cup {None}]
    /\ Event \in [Plugins -> Queues \cup {None}]
    /\ EventOp \in [Plugins -> {"push_back_ctrl", "push_back"}]
    /\ Loop \in [Plugins -> Seq(Modes)] /\ \A p \in Plugins : Loop[p] # <<>>
    /\ Printing \subseteq Plugins
    /\ MaxSends \in Nat

VARIABLES
    lanes,      \* the contents of every queue
    live,       \* the items that are allocated
    home,       \* Qrecycle of every item
    phase,      \* what the thread of a plugin does
    at,         \* the pop of its loop it is in, and whether that pop got anything
    hold,       \* the item in its hands
    cancel,     \* pthread_cancel was called on it
    running,    \* the member running
    opened,     \* init() took resources that uninit() gives back
    joining,    \* the plugin the main program is stopping, or None
    sent        \* how many items the main program sent

threads == <<phase, at, hold, cancel, opened>>
main == <<running, joining, sent>>
vars == <<lanes, live, home, phase, at, hold, cancel, opened, running, joining, sent>>

Phases == {"none", "init", "loop", "pop", "handle", "work", "uninit", "ended"}

TypeOK ==
    /\ lanes \in [AllQueues -> Lanes(Items)]
    /\ live \in SUBSET Items
    /\ home \in [Items -> AllQueues \cup {None}]
    /\ phase \in [Plugins -> Phases]
    /\ at \in [Plugins -> [step : Nat \ {0}, got : BOOLEAN]]
    /\ \A p \in Plugins : at[p].step \in DOMAIN Loop[p]
    /\ hold \in [Plugins -> Items \cup {None}]
    /\ \A p \in Plugins : hold[p] # None <=> phase[p] \in {"handle", "work"}
    /\ cancel \in [Plugins -> BOOLEAN]
    /\ opened \in [Plugins -> BOOLEAN]
    /\ running \in [Plugins -> BOOLEAN]
    /\ joining \in Plugins \cup {None}
    /\ sent \in 0 .. MaxSends

ItemsOf(q) == Range(q.Q) \cup Range(q.Qctrl)
Placed == (UNION {ItemsOf(lanes[q]) : q \in AllQueues}) \cup (Range(hold) \ {None})
Lost == live \ Placed

-----------------------------------------------------------------------------
(* Recycling.                                                              *)

PutIn(o, q, x) == lanes' = [lanes EXCEPT ![q] = Pushed(o, @, x)]

\* Mutated forms of Recycle: deletes what it puts back; keeps one spare item only.
RecycleAndDelete(x) ==
    /\ live' = live \ {x}
    /\ IF home[x] = None THEN UNCHANGED lanes ELSE PutIn("push_front", home[x], x)

RecycleIfEmpty(x) ==
    IF home[x] = None \/ (home[x] # None /\ lanes[home[x]].Q # <<>>)
    THEN live' = live \ {x} /\ UNCHANGED lanes
    ELSE PutIn("push_front", home[x], x) /\ UNCHANGED live

\* recyclable::recycle: to the front of the queue the item came from (its pool),
\* or deleted.
Recycle(x) ==
    IF home[x] = None THEN live' = live \ {x} /\ UNCHANGED lanes
    ELSE PutIn("push_front", home[x], x) /\ UNCHANGED live

\* plugin::push_back and push_back_ctrl to a port that may not be connected.
PushOrRecycle(o, q, x) ==
    IF q = None THEN Recycle(x) ELSE PutIn(o, q, x) /\ UNCHANGED live

-----------------------------------------------------------------------------
(* The main program.                                                       *)

Init ==
    /\ lanes = [q \in AllQueues |->
                   [EmptyLanes EXCEPT !.Q = IF q \in Queues THEN Pool[q] ELSE <<>>]]
    /\ live = UNION {Pooled(q) : q \in Queues}
    /\ home = [x \in Items |-> PoolOf(x)]
    /\ phase = [p \in Plugins |-> "none"]
    /\ at = [p \in Plugins |-> [step |-> 1, got |-> FALSE]]
    /\ hold = [p \in Plugins |-> None]
    /\ cancel = [p \in Plugins |-> FALSE]
    /\ opened = [p \in Plugins |-> FALSE]
    /\ running = [p \in Plugins |-> FALSE]
    /\ joining = None
    /\ sent = 0

Enter(p, ph) == phase' = [phase EXCEPT ![p] = ph]

\* plugin::start refuses when running is set, even if the thread has ended.
Start(p) ==
    /\ joining = None /\ ~running[p]
    /\ running' = [running EXCEPT ![p] = TRUE]
    /\ Enter(p, "init")
    /\ UNCHANGED <<lanes, live, home, at, hold, cancel, opened, joining, sent>>

\* Mutated form of Stop: joins without pthread_cancel.
StopJoinsOnly(p) ==
    /\ joining = None /\ running[p]
    /\ joining' = p
    /\ UNCHANGED <<lanes, live, home, threads, running, sent>>

\* plugin::stop cancels the thread, waits for it and allows a new start.
Stop(p) ==
    /\ joining = None /\ running[p]
    /\ joining' = p
    /\ cancel' = [cancel EXCEPT ![p] = TRUE]
    /\ UNCHANGED <<lanes, live, home, phase, at, hold, opened, running, sent>>

Joined(p) ==
    /\ joining = p /\ phase[p] = "ended"
    /\ joining' = None
    /\ running' = [running EXCEPT ![p] = FALSE]
    /\ Enter(p, "none")
    /\ cancel' = [cancel EXCEPT ![p] = FALSE]
    /\ UNCHANGED <<lanes, live, home, at, hold, opened, sent>>

\* qpmanager::add, addWithImages and addImage: a new message, or an image from
\* no pool; neither has a recycle queue.
Send(q, o) ==
    /\ joining = None /\ sent < MaxSends
    /\ sent' = sent + 1
    /\ \E x \in Items \ live :
          /\ x \in Messages \/ (o = "push_back" /\ PoolOf(x) = None)
          /\ live' = live \cup {x}
          /\ home' = [home EXCEPT ![x] = None]
          /\ PutIn(o, q, x)
    /\ UNCHANGED <<threads, running, joining>>

-----------------------------------------------------------------------------
(* The thread of a plugin: mainthread().                                   *)

InitOpen(p) ==
    /\ phase[p] = "init" /\ ~opened[p]
    /\ opened' = [opened EXCEPT ![p] = TRUE]
    /\ UNCHANGED <<lanes, live, home, phase, at, hold, cancel, main>>

\* init() returns and the cleanup handler is installed.
InitDone(p) ==
    /\ phase[p] = "init" /\ opened[p]
    /\ Enter(p, "loop")
    /\ UNCHANGED <<lanes, live, home, at, hold, cancel, opened, main>>

BeginLoop(p) ==
    /\ phase[p] = "loop"
    /\ Enter(p, "pop")
    /\ at' = [at EXCEPT ![p] = [step |-> 1, got |-> FALSE]]
    /\ UNCHANGED <<lanes, live, home, hold, cancel, opened, main>>

\* loop() returns false: the handler is popped and executed.
LoopEnds(p) ==
    /\ phase[p] = "loop"
    /\ Enter(p, "uninit")
    /\ UNCHANGED <<lanes, live, home, at, hold, cancel, opened, main>>

Mode(p) == Loop[p][at[p].step]

\* The operation of rqueue the pop makes next: pop_front_ctrl_wait waits for its
\* first item only and then takes whatever is left.
QueueOp(p) ==
    CASE Mode(p) = "front_wait" -> "pop_front_wait"
      [] Mode(p) = "back_wait" -> "pop_back_wait"
      [] Mode(p) = "noctrl_wait" -> "pop_front_noctrl_wait"
      [] Mode(p) = "front_nowait" -> "pop_front"
      [] Mode(p) = "noctrl_nowait" -> "pop_front_noctrl"
      [] Mode(p) = "ctrl_nowait" \/ at[p].got -> "pop_front_ctrl"
      [] OTHER -> "pop_front_ctrl_wait"

CanTake(p) == phase[p] = "pop" /\ Available(QueueOp(p), lanes[In[p]])
Offered(p) == Taken(QueueOp(p), lanes[In[p]])
Left(p) == Remaining(QueueOp(p), lanes[In[p]])

\* The next pop of this loop(), or its end.
Advance(p) ==
    IF at[p].step < Len(Loop[p])
    THEN at' = [at EXCEPT ![p] = [step |-> @.step + 1, got |-> FALSE]] /\ Enter(p, "pop")
    ELSE Enter(p, "loop") /\ UNCHANGED at

\* An image ends a pop, unless the pop is on the control lane and recycles it
\* ("handle"); a message goes through localhandler.
Take(p) ==
    /\ CanTake(p)
    /\ Offered(p) \in Images \/ Mode(p) \notin NoCtrl
    /\ lanes' = [lanes EXCEPT ![In[p]] = Left(p)]
    /\ hold' = [hold EXCEPT ![p] = Offered(p)]
    /\ at' = [at EXCEPT ![p].got = TRUE]
    /\ Enter(p, IF Offered(p) \in Images /\ Mode(p) \in ImagePops THEN "work" ELSE "handle")
    /\ UNCHANGED <<live, home, cancel, opened, main>>

\* A message met by a pop that does not process messages goes to the back of the
\* control lane of the same queue.
DeferMessage(p) ==
    /\ CanTake(p) /\ Offered(p) \in Messages /\ Mode(p) \in NoCtrl
    /\ lanes' = [lanes EXCEPT ![In[p]] = Pushed("push_back_ctrl", Left(p), Offered(p))]
    /\ UNCHANGED <<live, home, threads, main>>

\* Mutated form of Handled: the message is not recycled.
HandledAndLost(p) ==
    /\ phase[p] = "handle"
    /\ hold' = [hold EXCEPT ![p] = None]
    /\ Enter(p, "pop")
    /\ UNCHANGED <<lanes, live, home, at, cancel, opened, main>>

\* localhandler: the message, decoded, is always recycled, and the pop goes on.
Handled(p) ==
    /\ phase[p] = "handle"
    /\ Recycle(hold[p])
    /\ hold' = [hold EXCEPT ![p] = None]
    /\ Enter(p, "pop")
    /\ UNCHANGED <<home, at, cancel, opened, main>>

\* A pop that does not wait (any more) found nothing and returns.
PopReturns(p) ==
    /\ phase[p] = "pop" /\ ~CanTake(p) /\ QueueOp(p) \in PopOps
    /\ Advance(p)
    /\ UNCHANGED <<lanes, live, home, hold, cancel, opened, main>>

\* checkOutgoingMessages: getMessage reuses a message of Qmessage or makes a new
\* one that will come back there; it goes to the port of the event.
EmitReused(p) ==
    /\ phase[p] = "work" /\ Available("pop_front", lanes[p])
    /\ LET m == Taken("pop_front", lanes[p])
           dest == IF Event[p] = None THEN home[m] ELSE Event[p]
           o == IF Event[p] = None THEN "push_front" ELSE EventOp[p]
           rest == [lanes EXCEPT ![p] = Remaining("pop_front", @)]
       IN  lanes' = [rest EXCEPT ![dest] = Pushed(o, @, m)]
    /\ UNCHANGED <<live, home, threads, main>>

EmitNew(p) ==
    /\ phase[p] = "work" /\ ~Available("pop_front", lanes[p])
    /\ \E m \in Messages \ live :
          /\ live' = live \cup {m}
          /\ home' = [home EXCEPT ![m] = p]
          /\ IF Event[p] = None THEN PutIn("push_front", p, m)
             ELSE PutIn(EventOp[p], Event[p], m)
    /\ UNCHANGED <<threads, main>>

\* Mutated form of Finish: keeps the pointer.
FinishKeeps(p) ==
    /\ phase[p] = "work"
    /\ PushOrRecycle("push_back", Out[p], hold[p])
    /\ Advance(p)
    /\ UNCHANGED <<home, hold, cancel, opened, main>>

Finish(p) ==
    /\ phase[p] = "work"
    /\ PushOrRecycle("push_back", Out[p], hold[p])
    /\ hold' = [hold EXCEPT ![p] = None]
    /\ Advance(p)
    /\ UNCHANGED <<home, cancel, opened, main>>

-----------------------------------------------------------------------------
(* Cancellation.                                                           *)

\* A pop that has nothing to take and waits is a cancellation point: the handler
\* installed by mainthread() runs.
CancelInWait(p) ==
    /\ cancel[p] /\ phase[p] = "pop" /\ ~CanTake(p) /\ QueueOp(p) \in WaitOps
    /\ Enter(p, "uninit")
    /\ UNCHANGED <<lanes, live, home, at, hold, cancel, opened, main>>

\* So is an output to cout or the end of usleepSafe() in loop() or in a handler;
\* the item that is being worked on is then in no queue.
CancelAtWork(p) ==
    /\ cancel[p] /\ phase[p] \in {"handle", "work"} /\ p \in Printing
    /\ Enter(p, "uninit")
    /\ hold' = [hold EXCEPT ![p] = None]
    /\ UNCHANGED <<lanes, live, home, at, cancel, opened, main>>

\* During init() there is no handler yet.
CancelInInit(p) ==
    /\ cancel[p] /\ phase[p] = "init" /\ p \in Printing
    /\ Enter(p, "ended")
    /\ UNCHANGED <<lanes, live, home, at, hold, cancel, opened, main>>

Uninit(p) ==
    /\ phase[p] = "uninit"
    /\ opened' = [opened EXCEPT ![p] = FALSE]
    /\ Enter(p, "ended")
    /\ UNCHANGED <<lanes, live, home, at, hold, cancel, main>>

-----------------------------------------------------------------------------
ThreadStep(p) ==
    \/ InitOpen(p) \/ InitDone(p) \/ BeginLoop(p)
    \/ Take(p) \/ DeferMessage(p) \/ Handled(p) \/ PopReturns(p) \/ Finish(p)
    \/ CancelInWait(p) \/ Uninit(p)

Next ==
    \/ \E p \in Plugins :
          \/ Start(p) \/ Stop(p) \/ Joined(p)
          \/ ThreadStep(p) \/ EmitReused(p) \/ EmitNew(p) \/ LoopEnds(p)
          \/ CancelAtWork(p) \/ CancelInInit(p)
    \/ \E q \in Queues : Send(q, "push_back_ctrl") \/ Send(q, "push_back")

Spec == Init /\ [][Next]_vars

\* Every thread runs, the join returns, and a cancelled thread that comes to a
\* cancellation point again and again is cancelled there in the end.
Fairness ==
    \A p \in Plugins :
        WF_vars(ThreadStep(p)) /\ WF_vars(Joined(p)) /\ SF_vars(CancelAtWork(p))

FairSpec == Spec /\ Fairness

-----------------------------------------------------------------------------
(* Safety.                                                                 *)

Slots ==
    {s \in AllQueues \X {"Q", "Qctrl"} \X (1 .. Cardinality(Items) + 1) :
        s[3] \in DOMAIN lanes[s[1]][s[2]]}
Busy == {p \in Plugins : hold[p] # None}

\* An item is owned by exactly one queue or thread as long as it is allocated,
\* through every push, pop, recycling and cancellation: none is used after it
\* was deleted, recycled twice, or handed out while it is still worked on.
SingleOwner ==
    /\ Placed \subseteq live
    /\ \A s, t \in Slots : lanes[s[1]][s[2]][s[3]] = lanes[t[1]][t[2]][t[3]] => s = t
    /\ \A p \in Busy :
          /\ \A s \in Slots : lanes[s[1]][s[2]][s[3]] # hold[p]
          /\ \A r \in Busy : hold[r] = hold[p] => r = p

\* A pool only holds what belongs there: a message in Qmessage was made by that
\* plugin (getMessage would leak anything else), and the images of a pool that
\* its source is waiting on are all in use further down the pipeline.
PoolsKept ==
    /\ \A p \in Plugins : \A m \in ItemsOf(lanes[p]) : m \in Messages /\ home[m] = p
    /\ \A q \in Queues : \A x \in Pooled(q) : x \in live /\ home[x] = q

\* The only way an item gets lost (allocated, but in no queue and in nobody's
\* hands) is a stop() that cancels the thread while it works on the item.
LostOnlyByCancel ==
    [][\A x \in Lost' \ Lost : \E p \in Plugins : joining = p /\ hold[p] = x]_vars

\* "init will be called, then loop (multiple times), then uninit"
\* (qpmanager.cpp:1237): what init() took is given back before the plugin can be
\* started again.
UninitBeforeRestart ==
    [][\A p \in Plugins :
          (phase[p] = "none" /\ phase'[p] = "init") => ~opened[p]]_vars

-----------------------------------------------------------------------------
(* Liveness.                                                               *)

Serving(p) == phase[p] \notin {"none", "uninit", "ended"} /\ ~cancel[p]
Undisturbed == \A p \in Plugins : Serving(p)
WaitsForImages(p) == \A i \in DOMAIN Loop[p] : Loop[p][i] \in ImagePops

\* stop() returns: the cancelled thread reaches a cancellation point, runs
\* uninit() and is joined.
StopReturns == (joining # None) ~> (joining = None)

\* An image that left its pool comes back to it as long as all plugins run and
\* it was not lost by an earlier stop().
ImagesComeBack ==
    \A q \in Queues : \A x \in Pooled(q) :
        <>[](Undisturbed /\ x \notin Lost) => []<>(x \in ItemsOf(lanes[q]))

\* A control message that reaches a running plugin is processed, although images
\* keep coming, unless the plugin stops or waits in a pop that leaves the control
\* lane alone.
CommandsHandled ==
    \A p \in Plugins, m \in Messages :
        (Serving(p) /\ m \in Range(lanes[In[p]].Qctrl))
            ~> (~Serving(p) \/ m \notin Range(lanes[In[p]].Qctrl)
                \/ (phase[p] = "pop" /\ QueueOp(p) = "pop_front_noctrl_wait"))
=============================================================================
