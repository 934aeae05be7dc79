------------------------------- MODULE Channel ------------------------------
(***************************************************************************)
(* What an rqueue promises to the threads that share it, without mutex or  *)
(* condition variable: ONE sequence, in which the control messages stand   *)
(* before all regular ones (the rules at the head of src/imgv/rqueue.hpp), *)
(* and operations that take effect in one step between call and return.    *)
(***************************************************************************)
EXTENDS TwoLane, FiniteSets
SE == INSTANCE SequencesExt

CONSTANTS Threads, Items, NoItem, Uses

VARIABLES
    chan,       \* what is in the channel, in order of priority
    phase,      \* out, called (not yet taken effect), done, dead
    op,         \* the operation of a thread that is called or done
    p           \* the pointer each thread pushes from and pops into

cvars == <<chan, phase, op, p>>

Entry == [item : Items, ctrl : BOOLEAN]

ChannelTypeOK ==
    /\ chan \in Seq(Entry)
    /\ phase \in [Threads -> {"out", "called", "done", "dead"}]
    /\ op \in [Threads -> AllOps \cup {"none"}]
    /\ p \in [Threads -> Items \cup {NoItem}]

Init ==
    /\ chan = <<>>
    /\ phase = [t \in Threads |-> "out"]
    /\ op = [t \in Threads |-> "none"]
    /\ p = [t \in Threads |-> NoItem]

CtrlCount == Cardinality({i \in DOMAIN chan : chan[i].ctrl})

\* push_front goes before the regular messages, never before a control one.
InsertPosition(o) == IF o = "push_back" THEN Len(chan) + 1 ELSE CtrlCount + 1

\* The positions an operation may look at: a pop that accepts a control message
\* takes the first, one that does not takes the first or last regular one.
Eligible(o) ==
    {i \in DOMAIN chan : IF chan[i].ctrl THEN o \in CtrlOps /\ i = 1
                         ELSE o \in RegOps /\ (o \in CtrlOps => CtrlCount = 0)}

Position(o) ==
    CHOOSE i \in Eligible(o) :
        \A j \in Eligible(o) : IF o \in BackOps THEN j <= i ELSE i <= j

New(t) ==
    /\ phase[t] = "out" /\ p[t] = NoItem
    /\ \E x \in Items : p' = [p EXCEPT ![t] = x]
    /\ UNCHANGED <<chan, phase, op>>

Delete(t) ==
    /\ phase[t] = "out"
    /\ p' = [p EXCEPT ![t] = NoItem]
    /\ UNCHANGED <<chan, phase, op>>

Call(t, o) ==
    /\ phase[t] = "out" /\ o \in Uses[t]
    /\ o \in PushOps <=> p[t] # NoItem
    /\ op' = [op EXCEPT ![t] = o]
    /\ phase' = [phase EXCEPT ![t] = "called"]
    /\ UNCHANGED <<chan, p>>

Put(t) ==
    /\ phase[t] = "called" /\ op[t] \in PushOps
    /\ chan' = SE!InsertAt(chan, InsertPosition(op[t]),
                           [item |-> p[t], ctrl |-> op[t] = "push_back_ctrl"])
    /\ p' = [p EXCEPT ![t] = NoItem]
    /\ phase' = [phase EXCEPT ![t] = "done"]
    /\ UNCHANGED op

Get(t) ==
    /\ phase[t] = "called" /\ op[t] \in PopOps \cup WaitOps
    /\ Eligible(op[t]) # {}
    /\ p' = [p EXCEPT ![t] = chan[Position(op[t])].item]
    /\ chan' = SE!RemoveAt(chan, Position(op[t]))
    /\ phase' = [phase EXCEPT ![t] = "done"]
    /\ UNCHANGED op

GetNothing(t) ==
    /\ phase[t] = "called" /\ op[t] \in PopOps
    /\ Eligible(op[t]) = {}
    /\ phase' = [phase EXCEPT ![t] = "done"]
    /\ UNCHANGED <<chan, op, p>>

Return(t) ==
    /\ phase[t] = "done"
    /\ phase' = [phase EXCEPT ![t] = "out"]
    /\ op' = [op EXCEPT ![t] = "none"]
    /\ UNCHANGED <<chan, p>>

\* Cancellation ends a wait and nothing else, and takes nothing along.
Abandon(t) ==
    /\ phase[t] = "called" /\ op[t] \in WaitOps
    /\ Eligible(op[t]) = {} /\ p[t] = NoItem
    /\ phase' = [phase EXCEPT ![t] = "dead"]
    /\ op' = [op EXCEPT ![t] = "none"]
    /\ UNCHANGED <<chan, p>>

Restart(t) ==
    /\ phase[t] = "dead"
    /\ phase' = [phase EXCEPT ![t] = "out"]
    /\ UNCHANGED <<chan, op, p>>

Effect(t) == Put(t) \/ Get(t) \/ GetNothing(t)

Next ==
    \E t \in Threads :
        \/ New(t) \/ Delete(t) \/ Restart(t) \/ Abandon(t)
        \/ Effect(t) \/ Return(t)
        \/ \E o \in AllOps : Call(t, o)

SafeSpec == Init /\ [][Next]_cvars

\* An operation that can take effect does, and then returns.
FairSpec ==
    /\ SafeSpec
    /\ \A t \in Threads : WF_cvars(Effect(t)) /\ WF_cvars(Return(t))
=============================================================================
