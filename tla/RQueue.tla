------------------------------- MODULE RQueue -------------------------------
(***************************************************************************)
(* One rqueue<T> of src/imgv/rqueue.hpp and the threads that call it.  The *)
(* mutex acces, the condition variable not_empty, the do-while loops of    *)
(* the waiting pops and thread cancellation (every plugin is stopped with  *)
(* pthread_cancel) are modelled step by step.                              *)
(*                                                                         *)
(* A thread that calls the queue is at                                     *)
(*    idle     outside the queue                                           *)
(*    lock     at pthread_mutex_lock                                       *)
(*    crit     inside the critical section, before its test                *)
(*    waiting  in pthread_cond_wait, the mutex released                    *)
(*    relock   woken up, waiting for the mutex inside pthread_cond_wait    *)
(*    retest   back from pthread_cond_wait, holding the mutex              *)
(*    again    found nothing: unlocks and goes round the loop              *)
(*    unlock   done: unlocks and returns                                   *)
(*    dying    cancelled in pthread_cond_wait, which takes the mutex back  *)
(*    cleanup  running the handler that pthread_cleanup_push installed     *)
(*    dead     terminated                                                  *)
(***************************************************************************)
EXTENDS TwoLane, FiniteSets, Functions

CONSTANTS
    Threads,    \* the threads that share the queue
    Items,      \* the recyclables that may travel through it
    NoItem,     \* the NULL pointer
    Nobody,     \* the owner of a free mutex
    Uses        \* the operations each thread calls

ASSUME RQueueAssumption ==
    /\ NoItem \notin Items
    /\ Nobody \notin Threads
    /\ Uses \in [Threads -> SUBSET AllOps]

VARIABLES
    q,          \* the two deques
    acces,      \* the thread that holds the mutex
    pc,         \* where each thread is
    op,         \* the operation each thread is in, "none" outside the queue
    p,          \* the pointer each thread pushes from and pops into
    cancelled   \* the threads pthread_cancel was called on

vars == <<q, acces, pc, op, p, cancelled>>

Places == {"idle", "lock", "crit", "waiting", "relock", "retest", "again",
           "unlock", "dying", "cleanup", "dead"}
Holding == {"crit", "retest", "again", "unlock", "cleanup"}

Carried == {p[t] : t \in Threads} \ {NoItem}
InLanes == Range(q.Q) \cup Range(q.Qctrl)

TypeOK ==
    /\ q \in Lanes(Items)
    /\ acces \in Threads \cup {Nobody}
    /\ pc \in [Threads -> Places]
    /\ op \in [Threads -> AllOps \cup {"none"}]
    /\ p \in [Threads -> Items \cup {NoItem}]
    /\ cancelled \in SUBSET Threads

Init ==
    /\ q = EmptyLanes
    /\ acces = Nobody
    /\ pc = [t \in Threads |-> "idle"]
    /\ op = [t \in Threads |-> "none"]
    /\ p = [t \in Threads |-> NoItem]
    /\ cancelled = {}

Goto(t, place) == pc' = [pc EXCEPT ![t] = place]
Leave(t, place) == Goto(t, place) /\ op' = [op EXCEPT ![t] = "none"]
TakeMutex(t) == acces = Nobody /\ acces' = t
FreeMutex(t) == acces = t /\ acces' = Nobody

-----------------------------------------------------------------------------
(* Outside the queue.                                                      *)

\* The thread gets hold of an item that is nowhere else, or drops its own.
New(t) ==
    /\ pc[t] = "idle" /\ p[t] = NoItem
    /\ \E x \in Items \ (Carried \cup InLanes) : p' = [p EXCEPT ![t] = x]
    /\ UNCHANGED <<q, acces, pc, op, cancelled>>

Delete(t) ==
    /\ pc[t] = "idle" /\ p[t] # NoItem
    /\ p' = [p EXCEPT ![t] = NoItem]
    /\ UNCHANGED <<q, acces, pc, op, cancelled>>

\* Mutated form of Call: a push of NULL is not refused.
CallWithNull(t, o) ==
    /\ pc[t] = "idle" /\ o \in Uses[t]
    /\ o \notin PushOps => p[t] = NoItem
    /\ op' = [op EXCEPT ![t] = o]
    /\ Goto(t, "lock")
    /\ UNCHANGED <<q, acces, p, cancelled>>

\* A push of NULL returns before the lock, so only a thread with an item gets
\* further; a thread pops into a pointer that holds nothing.
Call(t, o) ==
    /\ pc[t] = "idle" /\ o \in Uses[t]
    /\ o \in PushOps <=> p[t] # NoItem
    /\ op' = [op EXCEPT ![t] = o]
    /\ Goto(t, "lock")
    /\ UNCHANGED <<q, acces, p, cancelled>>

\* pthread_cancel by another thread: it only takes effect in a wait, so that a
\* thread that never waits here need not be cancelled.
Cancel(t) ==
    /\ Uses[t] \cap WaitOps # {}
    /\ pc[t] # "dead" /\ t \notin cancelled
    /\ cancelled' = cancelled \cup {t}
    /\ UNCHANGED <<q, acces, pc, op, p>>

\* The plugin is started again: a new thread in place of the dead one.
Respawn(t) ==
    /\ pc[t] = "dead"
    /\ cancelled' = cancelled \ {t}
    /\ Goto(t, "idle")
    /\ UNCHANGED <<q, acces, op, p>>

-----------------------------------------------------------------------------
(* Inside the queue.                                                       *)

Lock(t) ==
    /\ pc[t] = "lock" /\ TakeMutex(t)
    /\ Goto(t, "crit")
    /\ UNCHANGED <<q, op, p, cancelled>>

\* Mutated form of Woken: pthread_cond_signal, which wakes one waiter up.
WokenOne(t, dest) ==
    LET asleep == {s \in Threads : pc[s] = "waiting"}
    IN  [s \in Threads |-> IF s = t THEN dest
                           ELSE IF s \in asleep /\ s = CHOOSE r \in asleep : TRUE
                           THEN "relock" ELSE pc[s]]

\* pthread_cond_broadcast wakes every waiter up, whatever it waits for.
Woken(t, dest) ==
    [s \in Threads |-> IF s = t THEN dest
                       ELSE IF pc[s] = "waiting" THEN "relock" ELSE pc[s]]

\* Mutated form of Push: the caller keeps its pointer to what it pushed.
PushKeeps(t) ==
    /\ pc[t] = "crit" /\ op[t] \in PushOps
    /\ q' = Pushed(op[t], q, p[t])
    /\ IF Signals(op[t], q) THEN pc' = Woken(t, "unlock") ELSE Goto(t, "unlock")
    /\ UNCHANGED <<acces, op, p, cancelled>>

Push(t) ==
    /\ pc[t] = "crit" /\ op[t] \in PushOps
    /\ q' = Pushed(op[t], q, p[t])
    /\ p' = [p EXCEPT ![t] = NoItem]
    /\ IF Signals(op[t], q) THEN pc' = Woken(t, "unlock") ELSE Goto(t, "unlock")
    /\ UNCHANGED <<acces, op, cancelled>>

Take(t) ==
    /\ q' = Remaining(op[t], q)
    /\ p' = [p EXCEPT ![t] = Taken(op[t], q)]
    /\ Goto(t, "unlock")
    /\ UNCHANGED <<acces, op, cancelled>>

Pop(t) ==
    /\ pc[t] \in {"crit", "retest"} /\ op[t] \in PopOps \cup WaitOps
    /\ Available(op[t], q)
    /\ Take(t)

PopNothing(t) ==
    /\ pc[t] = "crit" /\ op[t] \in PopOps
    /\ ~Available(op[t], q)
    /\ Goto(t, "unlock")
    /\ UNCHANGED <<q, acces, op, p, cancelled>>

MustWait(t) ==
    /\ pc[t] = "crit" /\ op[t] \in WaitOps
    /\ ~Available(op[t], q)

\* pthread_cond_wait releases the mutex and waits in one step.
CondWait(t) ==
    /\ MustWait(t) /\ t \notin cancelled
    /\ FreeMutex(t)
    /\ Goto(t, "waiting")
    /\ UNCHANGED <<q, op, p, cancelled>>

\* POSIX lets a wait end without any signal.
SpuriousWakeup(t) ==
    /\ pc[t] = "waiting"
    /\ Goto(t, "relock")
    /\ UNCHANGED <<q, acces, op, p, cancelled>>

Relock(t) ==
    /\ pc[t] = "relock" /\ TakeMutex(t)
    /\ Goto(t, "retest")
    /\ UNCHANGED <<q, op, p, cancelled>>

WokenForNothing(t) ==
    /\ pc[t] = "retest" /\ ~Available(op[t], q)
    /\ Goto(t, "again")
    /\ UNCHANGED <<q, acces, op, p, cancelled>>

LoopAgain(t) ==
    /\ pc[t] = "again" /\ FreeMutex(t)
    /\ Goto(t, "lock")
    /\ UNCHANGED <<q, op, p, cancelled>>

Unlock(t) ==
    /\ pc[t] = "unlock" /\ FreeMutex(t)
    /\ Leave(t, "idle")
    /\ UNCHANGED <<q, p, cancelled>>

\* pthread_cond_wait is a cancellation point: a cancel that is already pending
\* acts at once, with the mutex held; one that comes during the wait takes the
\* mutex back before it runs the handler.
CancelAtWait(t) ==
    /\ MustWait(t) /\ t \in cancelled
    /\ Goto(t, "cleanup")
    /\ UNCHANGED <<q, acces, op, p, cancelled>>

CancelWait(t) ==
    /\ pc[t] = "waiting" /\ t \in cancelled
    /\ Goto(t, "dying")
    /\ UNCHANGED <<q, acces, op, p, cancelled>>

DyingLock(t) ==
    /\ pc[t] = "dying" /\ TakeMutex(t)
    /\ Goto(t, "cleanup")
    /\ UNCHANGED <<q, op, p, cancelled>>

\* Mutated form of Cleanup: no pthread_cleanup_push, the mutex stays locked.
CleanupMissing(t) ==
    /\ pc[t] = "cleanup"
    /\ Leave(t, "dead")
    /\ UNCHANGED <<q, acces, p, cancelled>>

\* The handler is pthread_mutex_unlock.
Cleanup(t) ==
    /\ pc[t] = "cleanup" /\ FreeMutex(t)
    /\ Leave(t, "dead")
    /\ UNCHANGED <<q, p, cancelled>>

-----------------------------------------------------------------------------
\* The steps a thread takes on its own once it is in the queue.
Own(t) ==
    \/ Push(t) \/ Pop(t) \/ PopNothing(t) \/ CondWait(t)
    \/ WokenForNothing(t) \/ LoopAgain(t) \/ Unlock(t)
    \/ CancelAtWait(t) \/ CancelWait(t) \/ Cleanup(t)

Acquire(t) == Lock(t) \/ Relock(t) \/ DyingLock(t)

Outside(t) ==
    \/ New(t) \/ Delete(t) \/ Cancel(t) \/ Respawn(t) \/ SpuriousWakeup(t)
    \/ \E o \in AllOps : Call(t, o)

Next == \E t \in Threads : Own(t) \/ Acquire(t) \/ Outside(t)

Spec == Init /\ [][Next]_vars

\* A runnable thread runs, and a mutex that is released again and again is
\* granted in the end to each thread that asks for it.
Fairness ==
    \A t \in Threads : WF_vars(Own(t)) /\ SF_vars(Acquire(t))

FairSpec == Spec /\ Fairness

-----------------------------------------------------------------------------
(* Safety.                                                                 *)

\* No wakeup is lost: although a push signals only when its lane was empty,
\* and although one condition variable serves four different conditions, no
\* thread sleeps in pthread_cond_wait while its pop could succeed.
NoLostWakeup ==
    \A t \in Threads : pc[t] = "waiting" => ~Available(op[t], q)

\* The mutex is held by the thread in the critical section and by no other, a
\* cancelled thread included: it cannot die and leave the queue locked.
MutexHeld ==
    \A t \in Threads : pc[t] \in Holding <=> acces = t

\* Ownership moves with the pointer, which a push sets to NULL: an item is never
\* in two places, neither twice in the queue nor in the queue and still in the
\* hands of a thread.
OnePlace ==
    /\ IsInjective(q.Q) /\ IsInjective(q.Qctrl)
    /\ Range(q.Q) \cap Range(q.Qctrl) = {}
    /\ Carried \cap InLanes = {}
    /\ \A s, t \in Threads : p[s] = p[t] => s = t \/ p[s] = NoItem

-----------------------------------------------------------------------------
(* Liveness.                                                               *)

\* "A message arriving either in regular or control will wake up the thread": a
\* waiting pop that has something to take returns with an item, unless other
\* threads empty its lanes again or it is cancelled.
WaitersServed ==
    \A t \in Threads :
        (op[t] \in WaitOps /\ Available(op[t], q))
            ~> (op[t] = "none" \/ ~Available(op[t], q))

-----------------------------------------------------------------------------
(* The queue implements the abstract two-priority channel.                 *)

Tagged(s, c) == [i \in DOMAIN s |-> [item |-> s[i], ctrl |-> c]]

Phase(place) ==
    CASE place = "idle" -> "out"
      [] place = "unlock" -> "done"
      [] place \in {"dying", "cleanup", "dead"} -> "dead"
      [] OTHER -> "called"

\* An operation takes effect in the step that changes the deques, while the
\* mutex is held; a cancelled thread is gone as soon as its wait is given up.
Chan == INSTANCE Channel WITH
    chan <- Tagged(q.Qctrl, TRUE) \o Tagged(q.Q, FALSE),
    phase <- [t \in Threads |-> Phase(pc[t])],
    op <- [t \in Threads |-> IF Phase(pc[t]) = "dead" THEN "none" ELSE op[t]]

\* Every behaviour of the mutex, the condition variable and the loops is a
\* behaviour of the channel whose operations are atomic, liveness included.
ImplementsChannel == Chan!FairSpec
=============================================================================
