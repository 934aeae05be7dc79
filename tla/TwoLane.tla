------------------------------ MODULE TwoLane ------------------------------
(***************************************************************************)
(* The data of an rqueue<T> (src/imgv/rqueue.hpp): a regular deque Q and a *)
(* high-priority deque Qctrl, and what each push and pop of the class does *)
(* to them.  These operators are the bodies of the critical sections; who  *)
(* runs them, and under which lock, is the business of RQueue.             *)
(***************************************************************************)
EXTENDS Naturals, Sequences

\* The three pushes, the five pops that return at once (NULL when they find
\* nothing) and the four pops that wait.
PushOps == {"push_front", "push_back", "push_back_ctrl"}
PopOps  == {"pop_front", "pop_back", "pop_front_ctrl",
            "pop_front_noctrl", "pop_back_noctrl"}
WaitOps == {"pop_front_wait", "pop_back_wait",
            "pop_front_ctrl_wait", "pop_front_noctrl_wait"}
AllOps  == PushOps \cup PopOps \cup WaitOps

\* Which lanes a pop looks at, and from which end of Q it takes.
CtrlOps == {"pop_front", "pop_back", "pop_front_ctrl",
            "pop_front_wait", "pop_back_wait", "pop_front_ctrl_wait"}
RegOps  == {"pop_front", "pop_back", "pop_front_noctrl", "pop_back_noctrl",
            "pop_front_wait", "pop_back_wait", "pop_front_noctrl_wait"}
BackOps == {"pop_back", "pop_back_noctrl", "pop_back_wait"}

Lanes(T) == [Q : Seq(T), Qctrl : Seq(T)]
EmptyLanes == [Q |-> <<>>, Qctrl |-> <<>>]

\* deque::push_front, push_back of the regular lane, push_back of the other.
Pushed(o, q, x) ==
    IF o = "push_back_ctrl" THEN [q EXCEPT !.Qctrl = Append(@, x)]
    ELSE [q EXCEPT !.Q = IF o = "push_front" THEN <<x>> \o @ ELSE Append(@, x)]

\* Mutated form of Signals: broadcast only when the whole queue was empty.
SignalsIfAllEmpty(o, q) == q.Q = <<>> /\ q.Qctrl = <<>>

\* A push signals only when it made its own lane go from empty to one.
Signals(o, q) == IF o = "push_back_ctrl" THEN q.Qctrl = <<>> ELSE q.Q = <<>>

\* Mutated form of FromCtrl: the regular lane is served first.
FromCtrlLast(o, q) == o \in CtrlOps /\ q.Qctrl # <<>> /\ (o \in RegOps => q.Q = <<>>)

\* Qctrl is looked at first and is always emptied from the front.
FromCtrl(o, q) == o \in CtrlOps /\ q.Qctrl # <<>>
FromReg(o, q)  == o \in RegOps /\ q.Q # <<>>
Available(o, q) == FromCtrl(o, q) \/ FromReg(o, q)

Taken(o, q) ==
    IF FromCtrl(o, q) THEN Head(q.Qctrl)
    ELSE IF o \in BackOps THEN q.Q[Len(q.Q)] ELSE Head(q.Q)

Remaining(o, q) ==
    IF FromCtrl(o, q) THEN [Q |-> q.Q, Qctrl |-> Tail(q.Qctrl)]
    ELSE [Q |-> IF o \in BackOps THEN SubSeq(q.Q, 1, Len(q.Q) - 1) ELSE Tail(q.Q),
          Qctrl |-> q.Qctrl]
=============================================================================
