-------------------------- MODULE QPManagerProofs ---------------------------
(***************************************************************************)
(* Machine-checked proofs about QPManager, for any names, ports and calls. *)
(* Some paths of the registry take no lock: what each theorem promises     *)
(* ends where two of them have met, and Undisturbed says what callers must *)
(* do so that this never happens to the mutex.                             *)
(***************************************************************************)
EXTENDS QPManager, SequenceTheorems, TLAPS

-----------------------------------------------------------------------------
(* Where a thread is: its stack of calls and its place in the top one.     *)

LockedOps == {"addQueue", "addPlugin", "connectPorts", "reservePort", "getQueue", "start", "stop"}
NetOps == {"startNet", "stopNet", "netStart"}
ThreadOps == {"start", "stop"}

\* Which calls are on which others' stacks.
IsStack(s) ==
    \/ s = <<>>
    \/ \E k \in Call : s = <<k>> /\ WellFormed(k) /\ k.op # "startNet"
    \/ \E k, m \in Call :
          /\ s = <<k, m>> /\ WellFormed(k) /\ WellFormed(m)
          /\ \/ k.op = "addQueue" /\ m.op = "connectPorts" /\ m.q # None
             \/ k.op = "getQueue" /\ m.op = "netStart"
    \/ \E k, m, n \in Call :
          /\ s = <<k, m, n>> /\ WellFormed(m)
          /\ k.op = "stopNet" /\ m.op = "getQueue" /\ n.op = "netStart"

\* Which call may be at which place; g is the counter that was read.
MayBeAt(e, k, g) ==
    \/ e = "lookup" /\ k.op = "connect"
    \/ e = "anon" /\ k.op = "connectPorts"
    \/ e = "anonInc" /\ k.op = "connectPorts" /\ g \in DOMAIN Anonymous
    \/ e \in {"lock", "crit", "unlock", "report"} /\ k.op \in LockedOps
          /\ (k.op = "connectPorts" => k.q # None)
    \/ e = "complain" /\ k.op \in {"connectPorts", "getQueue", "reservePort"}
          /\ (k.op = "connectPorts" => k.q # None)
    \/ e = "insert" /\ k.op \in {"addQueue", "addPlugin"}
    \/ e = "test" /\ k.op \in ThreadOps
    \/ e \in {"create", "set"} /\ k.op = "start"
    \/ e \in {"cancel", "join", "clear", "reset"} /\ k.op = "stop"
    \/ e = "net" /\ k.op \in {"stopNet", "netStart"}
    \/ e = "joinNet" /\ k.op = "stopNet"

IsAt(s, e, g) ==
    /\ IsStack(s)
    /\ s = <<>> => e \in {"idle", "gone"}
    /\ s # <<>> => MayBeAt(e, Head(s), g)

ControlInv == \A c \in Clients : IsAt(calls[c], pc[c], got[c])

\* The listener makes no calls about listeners; the one of startNetListening()
\* starts when there is no other; a listener is cancelled only by a thread that
\* waits for its end.
NetInv ==
    /\ pc[Main] # "gone"
    /\ \A i \in DOMAIN calls[Listener] : calls[Listener][i].op \notin NetOps
    /\ calls[Main] # <<>> /\ Head(calls[Main]).op # "stopNet" =>
          \A i \in DOMAIN calls[Main] : calls[Main][i].op = "netStart" => net = "none"
    /\ net \in {"cancelled", "dead"} <=> pc[Main] = "joinNet"

Inv == TypeOK /\ ControlInv /\ NetInv

-----------------------------------------------------------------------------
(* Stacks.                                                                 *)

\* Sequences of up to three calls, and their heads and tails.
LEMMA ShortStacks ==
    /\ \A k \in Call : <<k>> \in Seq(Call) /\ <<k>> # <<>> /\ Head(<<k>>) = k /\ Tail(<<k>>) = <<>>
                       /\ DOMAIN <<k>> = 1 .. 1 /\ <<k>>[1] = k
    /\ \A k, m \in Call : <<k, m>> \in Seq(Call) /\ <<k, m>> # <<>>
                          /\ Head(<<k, m>>) = k /\ Tail(<<k, m>>) = <<m>>
                          /\ DOMAIN <<k, m>> = 1 .. 2 /\ <<k, m>>[1] = k /\ <<k, m>>[2] = m
    /\ \A k, m, n \in Call : <<k, m, n>> \in Seq(Call) /\ <<k, m, n>> # <<>>
                             /\ Head(<<k, m, n>>) = k /\ Tail(<<k, m, n>>) = <<m, n>>
                             /\ DOMAIN <<k, m, n>> = 1 .. 3 /\ <<k, m, n>>[1] = k
                             /\ <<k, m, n>>[2] = m /\ <<k, m, n>>[3] = n
<1>1. \A k \in Call : <<k>> \in Seq(Call) /\ <<k>> # <<>> /\ Head(<<k>>) = k /\ Tail(<<k>>) = <<>>
                       /\ DOMAIN <<k>> = 1 .. 1 /\ <<k>>[1] = k
  OBVIOUS
<1>2. \A k, m \in Call : <<k, m>> \in Seq(Call) /\ <<k, m>> # <<>>
                          /\ Head(<<k, m>>) = k /\ Tail(<<k, m>>) = <<m>>
                          /\ DOMAIN <<k, m>> = 1 .. 2 /\ <<k, m>>[1] = k /\ <<k, m>>[2] = m
  OBVIOUS
<1>3. \A k, m, n \in Call : <<k, m, n>> \in Seq(Call) /\ <<k, m, n>> # <<>>
                             /\ Head(<<k, m, n>>) = k /\ Tail(<<k, m, n>>) = <<m, n>>
                             /\ DOMAIN <<k, m, n>> = 1 .. 3 /\ <<k, m, n>>[1] = k
                             /\ <<k, m, n>>[2] = m /\ <<k, m, n>>[3] = n
  OBVIOUS
<1>4. QED
  BY <1>1, <1>2, <1>3

\* The top call of a stack is well-formed, unless it is about the listener, and
\* what it returns to is a stack.
LEMMA Stacks ==
    ASSUME NEW s, IsStack(s), s # <<>>
    PROVE  /\ s \in Seq(Call) /\ Head(s) \in Call
           /\ Head(s).op # "stopNet" => WellFormed(Head(s))
           /\ IsStack(Tail(s)) /\ Tail(s) \in Seq(Call)
           /\ \A i \in DOMAIN Tail(s) : \E j \in DOMAIN s : Tail(s)[i] = s[j]
           /\ Head(s) = s[1] /\ 1 \in DOMAIN s
           /\ Head(s).op # "startNet"
           /\ Head(s).op = "netStart" => Tail(s) = <<>>
           /\ Head(s).op \notin {"addQueue", "getQueue", "stopNet"} => Tail(s) = <<>>
           /\ Tail(s) # <<>> => /\ Head(Tail(s)).op \in {"connectPorts", "getQueue", "netStart"}
                                /\ Head(Tail(s)).op = "connectPorts" => Head(Tail(s)).q # None
<1>1. CASE \E k \in Call : s = <<k>> /\ WellFormed(k) /\ k.op # "startNet"
  BY <1>1, ShortStacks DEF IsStack
<1>2. CASE \E k, m \in Call :
             /\ s = <<k, m>> /\ WellFormed(k) /\ WellFormed(m)
             /\ \/ k.op = "addQueue" /\ m.op = "connectPorts" /\ m.q # None
                \/ k.op = "getQueue" /\ m.op = "netStart"
  <2>1. PICK k, m \in Call :
             /\ s = <<k, m>> /\ WellFormed(k) /\ WellFormed(m)
             /\ \/ k.op = "addQueue" /\ m.op = "connectPorts" /\ m.q # None
                \/ k.op = "getQueue" /\ m.op = "netStart"
    BY <1>2
  <2>2. QED
    BY <2>1, ShortStacks DEF IsStack
<1>3. CASE \E k, m, n \in Call :
             /\ s = <<k, m, n>> /\ WellFormed(m)
             /\ k.op = "stopNet" /\ m.op = "getQueue" /\ n.op = "netStart"
  <2>1. PICK k, m, n \in Call :
             /\ s = <<k, m, n>> /\ WellFormed(m)
             /\ k.op = "stopNet" /\ m.op = "getQueue" /\ n.op = "netStart"
    BY <1>3
  <2>2. WellFormed(n)
    BY <2>1 DEF WellFormed
  <2>3. QED
    BY <2>1, <2>2, ShortStacks DEF IsStack
<1>4. QED
  BY <1>1, <1>2, <1>3 DEF IsStack

\* A call begins where Entry says.
LEMMA Begins ==
    ASSUME NEW s, IsStack(s), NEW g
    PROVE  IsAt(s, IF s = <<>> THEN "idle" ELSE Entry(Head(s)), g)
<1>1. CASE s = <<>>
  BY <1>1 DEF IsAt
<1>2. CASE s # <<>>
  <2>1. Head(s) \in Call /\ Head(s).op # "startNet"
    BY <1>2, Stacks
  <2>2. MayBeAt(Entry(Head(s)), Head(s), g)
    BY <2>1 DEF Entry, MayBeAt, LockedOps, Call
  <2>3. QED
    BY <1>2, <2>2 DEF IsAt
<1>3. QED
  BY <1>1, <1>2

\* A step of a client moves its own stack, place and counter.
Counters == 1 .. Len(Anonymous) + 1
Moved(c) ==
    \E s, e : \E g \in Counters :
        /\ IsAt(s, e, g) /\ e # "gone"
        /\ calls' = [calls EXCEPT ![c] = s]
        /\ pc' = [pc EXCEPT ![c] = e]
        /\ got' = [got EXCEPT ![c] = g]

\* To another place of the same call.
LEMMA GotoMoves ==
    ASSUME TypeOK, ControlInv, NEW c \in Clients, calls[c] # <<>>, NEW e, Goto(c, e),
           MayBeAt(e, Top(c), got'[c]), UNCHANGED calls,
           \E g \in Counters : got' = [got EXCEPT ![c] = g]
    PROVE  Moved(c)
<1>1. calls' = [calls EXCEPT ![c] = calls[c]]
  BY DEF TypeOK
<1>2. IsAt(calls[c], e, got'[c]) /\ e # "gone"
  BY DEF ControlInv, IsAt, Top, MayBeAt
<1>3. PICK g \in Counters : got' = [got EXCEPT ![c] = g]
  OBVIOUS
<1>4. got'[c] = g
  BY <1>3 DEF TypeOK
<1>5. QED
  BY <1>1, <1>2, <1>3, <1>4 DEF Moved, Goto

\* To the beginning of the call on top of another stack.
LEMMA GoOnMoves ==
    ASSUME TypeOK, NEW c \in Clients, NEW s, IsStack(s), GoOn(c, s),
           UNCHANGED got \/ got' = [got EXCEPT ![c] = 1]
    PROVE  Moved(c)
<1> DEFINE e == IF s = <<>> THEN "idle" ELSE Entry(Head(s))
<1>1. PICK g \in Counters : got' = [got EXCEPT ![c] = g]
  <2>1. got = [got EXCEPT ![c] = got[c]] /\ got[c] \in Counters /\ 1 \in Counters
    BY QPManagerAssumption, LenProperties DEF TypeOK, Counters
  <2>2. QED
    BY <2>1
<1>2. IsAt(s, e, g)
  BY Begins
<1>3. calls' = [calls EXCEPT ![c] = s] /\ pc' = [pc EXCEPT ![c] = e]
  BY DEF GoOn, Goto
<1>4. e # "gone"
  BY DEF Entry
<1>5. QED
  BY <1>1, <1>2, <1>3, <1>4 DEF Moved

\* Making a call.
LEMMA CallMoves == ASSUME TypeOK, NEW c \in Clients, MakeCall(c) PROVE Moved(c)
<1>1. PICK k \in Calls[c] : GoOn(c, Expanded(k))
  BY DEF MakeCall
<1>2. k \in Call /\ WellFormed(k)
  BY QPManagerAssumption
<1>3. IsStack(Expanded(k))
  <2>1. CASE k.op # "startNet"
    BY <1>2, <2>1 DEF Expanded, IsStack
  <2>2. CASE k.op = "startNet"
    <3> DEFINE a == [k EXCEPT !.op = "stopNet"]
               b == [k EXCEPT !.op = "getQueue", !.q = LogQueue]
               d == [k EXCEPT !.op = "netStart"]
    <3>1. a \in Call /\ b \in Call /\ d \in Call
      BY <1>2, QPManagerAssumption DEF Call
    <3>2. a.op = "stopNet" /\ b.op = "getQueue" /\ b.q = LogQueue /\ d.op = "netStart"
      BY <1>2 DEF Call
    <3>3. WellFormed(b)
      BY <3>1, <3>2, QPManagerAssumption DEF WellFormed
    <3>4. Expanded(k) = <<a, b, d>>
      BY <2>2 DEF Expanded
    <3> HIDE DEF a, b, d
    <3>5. QED
      BY <3>1, <3>2, <3>3, <3>4 DEF IsStack
  <2>3. QED
    BY <2>1, <2>2
<1>4. QED
  BY <1>1, <1>3, GoOnMoves DEF MakeCall

\* A return.
LEMMA ReturnMoves ==
    ASSUME TypeOK, ControlInv, NEW c \in Clients, calls[c] # <<>>, Return(c), UNCHANGED got
    PROVE  Moved(c)
<1>1. IsStack(Tail(calls[c]))
  BY Stacks DEF ControlInv, IsAt
<1>2. QED
  BY <1>1, GoOnMoves DEF Return

\* Nothing is appended to a stack that was alone.
LEMMA Alone == ASSUME NEW s \in Seq(Call), NEW t, t = <<>> PROVE s \o t = s
BY ConcatEmptySeq

\* One call in place of another that is alone on its stack.
LEMMA ReplaceMoves ==
    ASSUME TypeOK, ControlInv, NEW c \in Clients, calls[c] # <<>>, UNCHANGED got,
           Top(c).op \notin {"addQueue", "getQueue", "stopNet"},
           NEW k \in Call, WellFormed(k), k.op # "startNet",
           GoOn(c, <<k>> \o Tail(calls[c]))
    PROVE  Moved(c)
<1>1. Tail(calls[c]) = <<>>
  BY Stacks DEF ControlInv, IsAt, Top
<1>2. <<k>> \o Tail(calls[c]) = <<k>>
  BY <1>1, ShortStacks, Alone
<1>3. QED
  BY <1>2, GoOnMoves DEF IsStack

-----------------------------------------------------------------------------
(* Every step of a client but netStart moves only that client.             *)

\* What is on top of the stack of a thread that is in a call.
LEMMA TopCall ==
    ASSUME TypeOK, ControlInv, NEW c \in Clients, pc[c] \notin {"idle", "gone"}
    PROVE  /\ calls[c] # <<>> /\ Top(c) \in Call /\ MayBeAt(pc[c], Top(c), got[c])
           /\ Top(c).op # "stopNet" => WellFormed(Top(c))
           /\ \A g \in Counters : IsAt(calls[c], pc[c], g) \/ pc[c] = "anonInc"
           /\ got = [got EXCEPT ![c] = got[c]] /\ got[c] \in Counters
<1>1. calls[c] # <<>> /\ IsAt(calls[c], pc[c], got[c])
  BY DEF TypeOK, ControlInv
<1>2. QED
  BY <1>1, Stacks DEF IsAt, Top, TypeOK, Counters, MayBeAt

\* Every action of a client, but the last one of startNetListening().
LEMMA StepMoves ==
    ASSUME TypeOK, ControlInv, NEW c \in Clients,
           MakeCall(c) \/ Lock(c) \/ (Step(c) /\ ~StartNet(c))
    PROVE  Moved(c)
<1> DEFINE k == Top(c)
<1>1. CASE MakeCall(c)
  BY <1>1, CallMoves
<1>2. ASSUME pc[c] \notin {"idle", "gone"}
      PROVE  /\ calls[c] # <<>> /\ k \in Call /\ MayBeAt(pc[c], k, got[c])
             /\ k.op # "stopNet" => WellFormed(k)
             /\ got = [got EXCEPT ![c] = got[c]] /\ got[c] \in Counters
  BY <1>2, TopCall
<1>3. ASSUME NEW e, NEW e0, pc[c] = e0, e0 \notin {"idle", "gone"}, Goto(c, e), UNCHANGED <<calls, got>>,
             MayBeAt(e0, k, got[c]) => MayBeAt(e, k, got[c])
      PROVE  Moved(c)
  BY <1>2, <1>3, GotoMoves
<1>4. ASSUME Return(c), UNCHANGED got, pc[c] \notin {"idle", "gone"} PROVE Moved(c)
  BY <1>2, <1>4, ReturnMoves
<1>5. CASE LookUp(c)
  <2>1. k \in Call /\ k.op = "connect" /\ WellFormed(k) /\ calls[c] # <<>>
    BY <1>2, <1>5 DEF LookUp, MayBeAt
  <2>2. CASE k.p \in pmap
    <3> DEFINE m == [k EXCEPT !.op = "connectPorts"]
    <3>1. m \in Call /\ WellFormed(m) /\ m.op = "connectPorts"
      BY <2>1 DEF Call, WellFormed
    <3>2. GoOn(c, <<m>> \o Tail(calls[c])) /\ UNCHANGED got
      BY <1>5, <2>2 DEF LookUp
    <3> HIDE DEF m
    <3>3. QED
      BY <2>1, <3>1, <3>2, ReplaceMoves
  <2>3. CASE k.p \notin pmap
    BY <1>4, <1>5, <2>3 DEF LookUp
  <2>4. QED
    BY <2>2, <2>3
<1>6. CASE ReadCounter(c)
  <2>1. queueNum \in Counters /\ got' = [got EXCEPT ![c] = queueNum] /\ got'[c] = queueNum
    BY <1>6 DEF ReadCounter, TypeOK, Counters
  <2>2. calls[c] # <<>> /\ MayBeAt("anonInc", k, got'[c])
    BY <1>2, <1>6, <2>1 DEF ReadCounter, MayBeAt
  <2>3. QED
    BY <1>6, <2>1, <2>2, GotoMoves DEF ReadCounter
<1>7. CASE TakeName(c)
  <2> DEFINE n == [k EXCEPT !.q = Anonymous[got[c]]]
             a == [n EXCEPT !.op = "addQueue"]
  <2>1. k \in Call /\ k.op = "connectPorts" /\ WellFormed(k) /\ calls[c] # <<>>
        /\ got[c] \in DOMAIN Anonymous
    BY <1>2, <1>7 DEF TakeName, MayBeAt
  <2>2. Anonymous[got[c]] \in Queues
    BY <2>1, QPManagerAssumption, ElementOfSeq
  <2>3. /\ n \in Call /\ WellFormed(n) /\ n.op = "connectPorts" /\ n.q # None
        /\ a \in Call /\ WellFormed(a) /\ a.op = "addQueue"
    BY <2>1, <2>2, QPManagerAssumption DEF Call, WellFormed
  <2>4. Tail(calls[c]) = <<>>
    BY <2>1, Stacks DEF ControlInv, IsAt, Top
  <2>5. GoOn(c, <<a, n>> \o Tail(calls[c])) /\ got' = [got EXCEPT ![c] = 1]
    BY <1>7 DEF TakeName
  <2> HIDE DEF a, n
  <2>6. <<a, n>> \o Tail(calls[c]) = <<a, n>>
    BY <2>3, <2>4, ShortStacks, Alone
  <2>7. IsStack(<<a, n>>)
    BY <2>3 DEF IsStack
  <2>8. QED
    BY <2>5, <2>6, <2>7, GoOnMoves
<1>8. CASE Lock(c) \/ Complain(c) \/ Unlock(c) \/ GetQ(c) \/ GetP(c)
  <2>1. CASE Lock(c) \/ Unlock(c)
    BY <1>3, <2>1 DEF Lock, Unlock, MayBeAt
  <2>2. CASE Complain(c)
    BY <1>3, <2>2 DEF Complain, MayBeAt, LockedOps
  <2>3. CASE GetQ(c)
    <3>1. k.op \in {"connectPorts", "getQueue"} /\ pc[c] = "crit" /\ UNCHANGED <<calls, got>>
      BY <2>3 DEF GetQ, In
    <3>2. CASE Goto(c, "unlock")
      BY <1>3, <3>1, <3>2 DEF MayBeAt
    <3>3. CASE Goto(c, "complain")
      BY <1>3, <3>1, <3>3 DEF MayBeAt
    <3>4. QED
      BY <2>3, <3>2, <3>3 DEF GetQ
  <2>4. CASE GetP(c)
    <3>1. k.op \in {"start", "stop", "reservePort"} /\ pc[c] = "crit" /\ UNCHANGED <<calls, got>>
      BY <2>4 DEF GetP, In
    <3>2. CASE Goto(c, "unlock")
      BY <1>3, <3>1, <3>2 DEF MayBeAt
    <3>3. CASE Goto(c, "complain") /\ k.op = "reservePort"
      BY <1>3, <3>1, <3>3 DEF MayBeAt
    <3>4. QED
      BY <2>4, <3>2, <3>3 DEF GetP
  <2>5. QED
    BY <1>8, <2>1, <2>2, <2>3, <2>4
<1>9. CASE TestName(c) \/ Insert(c)
  BY <1>9, <1>3, <1>2 DEF TestName, Insert, In, MayBeAt, LockedOps
<1>10. CASE Report(c)
  <2>1. CASE found[c] /\ k.op = "addPlugin"
    <3> DEFINE m == [op |-> "connect", q |-> LogQueue, p |-> k.p, port |-> LogPort]
    <3>1. calls[c] # <<>> /\ k \in Call /\ WellFormed(k)
      BY <1>2, <1>10, <2>1 DEF Report
    <3>2. m \in Call /\ WellFormed(m) /\ m.op = "connect"
      BY <2>1, <3>1, QPManagerAssumption DEF Call, WellFormed
    <3>3. GoOn(c, <<m>> \o Tail(calls[c])) /\ UNCHANGED got
      BY <1>10, <2>1 DEF Report
    <3> HIDE DEF m
    <3>4. QED
      BY <2>1, <3>1, <3>2, <3>3, ReplaceMoves
  <2>2. CASE found[c] /\ k.op \in {"start", "stop"}
    BY <1>3, <1>10, <2>2 DEF Report, MayBeAt, ThreadOps
  <2>3. CASE ~found[c] \/ k.op \notin {"addPlugin", "start", "stop"}
    BY <1>4, <1>10, <2>3 DEF Report
  <2>4. QED
    BY <2>1, <2>2, <2>3
<1>11. CASE TestRunning(c)
  BY <1>11, <1>2, <1>3, <1>4 DEF TestRunning, MayBeAt, ThreadOps
<1>12. CASE Create(c) \/ CancelThread(c) \/ Join(c)
  BY <1>12, <1>3 DEF Create, CancelThread, Join, MayBeAt
<1>13. CASE SetRunning(c) \/ ClearRunning(c) \/ JoinNet(c)
  BY <1>13, <1>4 DEF SetRunning, ClearRunning, JoinNet
<1>14. CASE StopNet(c)
  BY <1>14, <1>3, <1>4 DEF StopNet, MayBeAt
<1>15. QED
  BY <1>1, <1>5, <1>6, <1>7, <1>8, <1>9, <1>10, <1>11, <1>12, <1>13, <1>14 DEF Step

\* Where the calls on a stack come from.
Comes(c, m) ==
    \/ \E j \in DOMAIN calls[c] : m = calls[c][j]
    \/ m.op \in {"addQueue", "connectPorts"}
    \/ m.op = "connect" /\ m.p = Top(c).p /\ pc[c] = "report" /\ found[c] /\ Top(c).op = "addPlugin"
    \/ pc[c] = "idle" /\ m \in Calls[c] /\ m.op \notin NetOps
    \/ pc[c] = "idle" /\ c = Main /\ (m.op = "stopNet" \/ Head(calls'[c]).op = "stopNet")
                      /\ m.op \in {"stopNet", "getQueue", "netStart"}

\* No call is on a stack that was not asked for, or that no other call makes.
LEMMA StackSteps ==
    ASSUME TypeOK, ControlInv, NEW c \in Clients, MakeCall(c) \/ Lock(c) \/ Step(c),
           NEW i \in DOMAIN calls'[c]
    PROVE  Comes(c, calls'[c][i])
<1> DEFINE k == Top(c)
<1>1. ASSUME UNCHANGED calls PROVE Comes(c, calls'[c][i])
  BY <1>1 DEF Comes
<1>2. ASSUME NEW s, calls' = [calls EXCEPT ![c] = s] PROVE calls'[c] = s
  BY <1>2 DEF TypeOK
<1>3. ASSUME calls' = [calls EXCEPT ![c] = Tail(calls[c])], pc[c] \notin {"idle", "gone"}
      PROVE  Comes(c, calls'[c][i])
  <2>1. calls[c] # <<>> /\ IsStack(calls[c]) /\ calls'[c] = Tail(calls[c])
    BY <1>2, <1>3, TopCall DEF ControlInv, IsAt
  <2>2. QED
    BY <2>1, Stacks DEF Comes
<1>4. ASSUME NEW m \in Call, calls' = [calls EXCEPT ![c] = <<m>> \o Tail(calls[c])],
             pc[c] \notin {"idle", "gone"}, k.op \notin {"addQueue", "getQueue", "stopNet"},
             Comes(c, m)
      PROVE  Comes(c, calls'[c][i])
  <2>1. IsStack(calls[c]) /\ calls[c] # <<>>
    BY <1>4, TopCall DEF ControlInv, IsAt
  <2>2. Tail(calls[c]) = <<>>
    BY <1>4, <2>1, Stacks DEF Top
  <2>3. <<m>> \in Seq(Call)
    BY <1>4, ShortStacks
  <2>4. <<m>> \o Tail(calls[c]) = <<m>>
    BY <2>2, <2>3, Alone
  <2>5. calls'[c] = <<m>>
    BY <1>2, <1>4, <2>4
  <2>6. i \in 1 .. 1 /\ <<m>>[1] = m
    BY <1>4, <2>5, ShortStacks
  <2>7. QED
    BY <1>4, <2>5, <2>6
<1>5. CASE MakeCall(c)
  <2>1. PICK q \in Calls[c] : GoOn(c, Expanded(q))
    BY <1>5 DEF MakeCall
  <2>2. q \in Call /\ q.op # "netStart" /\ (c = Listener => q.op \notin NetOps)
    BY <2>1, QPManagerAssumption DEF NetOps
  <2>3. calls'[c] = Expanded(q) /\ pc[c] = "idle"
    BY <1>2, <1>5, <2>1 DEF GoOn, MakeCall
  <2>4. CASE q.op = "startNet"
    <3> DEFINE a == [q EXCEPT !.op = "stopNet"]
               b == [q EXCEPT !.op = "getQueue", !.q = LogQueue]
               d == [q EXCEPT !.op = "netStart"]
    <3>1. a \in Call /\ b \in Call /\ d \in Call /\ calls'[c] = <<a, b, d>>
      BY <2>2, <2>3, <2>4, QPManagerAssumption DEF Call, Expanded
    <3>2. a.op = "stopNet" /\ b.op = "getQueue" /\ d.op = "netStart"
      BY <2>2 DEF Call
    <3>3. c = Main
      BY <2>2, <2>4 DEF Clients, NetOps
    <3> HIDE DEF a, b, d
    <3>4. i \in 1 .. 3 /\ Head(calls'[c]) = a
          /\ calls'[c][1] = a /\ calls'[c][2] = b /\ calls'[c][3] = d
      BY <3>1, ShortStacks
    <3>5. calls'[c][i].op \in {"stopNet", "getQueue", "netStart"}
      BY <3>2, <3>4
    <3>6. QED
      BY <2>3, <3>2, <3>3, <3>4, <3>5 DEF Comes
  <2>5. CASE q.op # "startNet"
    <3>1. calls'[c] = <<q>>
      BY <2>3, <2>5 DEF Expanded
    <3>2. i \in 1 .. 1 /\ calls'[c][1] = q
      BY <2>2, <3>1, ShortStacks
    <3>3. calls'[c][i] = q
      BY <3>2
    <3>4. c = Main \/ q.op \notin NetOps
      BY <2>2 DEF Clients
    <3>5. QED
      BY <2>1, <2>2, <2>3, <2>5, <3>3, <3>4 DEF Comes, NetOps
  <2>6. QED
    BY <2>4, <2>5
<1>6. CASE LookUp(c)
  <2>1. k \in Call /\ k.op = "connect" /\ pc[c] = "lookup"
    BY <1>6, TopCall DEF LookUp, MayBeAt
  <2>2. CASE k.p \in pmap
    <3> DEFINE m == [k EXCEPT !.op = "connectPorts"]
    <3>1. m \in Call /\ m.op = "connectPorts"
      BY <2>1 DEF Call
    <3>2. calls' = [calls EXCEPT ![c] = <<m>> \o Tail(calls[c])]
      BY <1>6, <2>2 DEF LookUp, GoOn
    <3> HIDE DEF m
    <3>3. Comes(c, m)
      BY <3>1 DEF Comes
    <3>4. QED
      BY <1>4, <2>1, <3>1, <3>2, <3>3
  <2>3. CASE k.p \notin pmap
    BY <1>3, <1>6, <2>1, <2>3 DEF LookUp, Return, GoOn
  <2>4. QED
    BY <2>2, <2>3
<1>7. CASE TakeName(c)
  <2> DEFINE n == [k EXCEPT !.q = Anonymous[got[c]]]
             a == [n EXCEPT !.op = "addQueue"]
  <2>1. k \in Call /\ k.op = "connectPorts" /\ calls[c] # <<>> /\ got[c] \in DOMAIN Anonymous
    BY <1>7, TopCall DEF TakeName, MayBeAt
  <2>2. Anonymous[got[c]] \in Queues
    BY <2>1, QPManagerAssumption, ElementOfSeq
  <2>3. n \in Call /\ n.op = "connectPorts" /\ a \in Call /\ a.op = "addQueue"
    BY <2>1, <2>2 DEF Call
  <2>4. Tail(calls[c]) = <<>>
    BY <2>1, Stacks DEF ControlInv, IsAt, Top
  <2>5. calls'[c] = <<a, n>> \o Tail(calls[c])
    BY <1>2, <1>7 DEF TakeName, GoOn
  <2> HIDE DEF a, n
  <2>6. calls'[c] = <<a, n>>
    BY <2>3, <2>4, <2>5, ShortStacks, Alone, ZenonT(60)
  <2>7. i \in 1 .. 2 /\ calls'[c][1] = a /\ calls'[c][2] = n
    BY <2>3, <2>6, ShortStacks
  <2>8. calls'[c][i].op \in {"addQueue", "connectPorts"}
    BY <2>3, <2>7
  <2>9. QED
    BY <2>8 DEF Comes
<1>8. CASE Report(c)
  <2>1. CASE found[c] /\ k.op = "addPlugin"
    <3> DEFINE m == [op |-> "connect", q |-> LogQueue, p |-> k.p, port |-> LogPort]
    <3>1. k \in Call /\ pc[c] = "report"
      BY <1>8, TopCall DEF Report
    <3>2. m \in Call /\ m.op = "connect" /\ m.p = k.p
      BY <3>1, QPManagerAssumption DEF Call
    <3>3. calls' = [calls EXCEPT ![c] = <<m>> \o Tail(calls[c])]
      BY <1>8, <2>1 DEF Report, GoOn
    <3> HIDE DEF m
    <3>4. Comes(c, m)
      BY <2>1, <3>1, <3>2 DEF Comes
    <3>5. QED
      BY <1>4, <2>1, <3>1, <3>2, <3>3, <3>4
  <2>2. CASE found[c] /\ k.op \in {"start", "stop"}
    BY <1>1, <1>8, <2>2 DEF Report
  <2>3. CASE ~found[c] \/ k.op \notin {"addPlugin", "start", "stop"}
    BY <1>3, <1>8, <2>3 DEF Report, Return, GoOn
  <2>4. QED
    BY <2>1, <2>2, <2>3
<1>9. CASE \/ Lock(c) \/ Complain(c) \/ Unlock(c) \/ GetQ(c) \/ GetP(c) \/ TestName(c) \/ Insert(c)
           \/ Create(c) \/ CancelThread(c) \/ Join(c) \/ ReadCounter(c)
  BY <1>1, <1>9 DEF Lock, Complain, Unlock, GetQ, GetP, TestName, Insert, Create, CancelThread, Join,
                    ReadCounter
<1>10. CASE TestRunning(c) \/ StopNet(c)
  BY <1>1, <1>3, <1>10 DEF TestRunning, StopNet, Return, GoOn
<1>11. CASE SetRunning(c) \/ ClearRunning(c) \/ JoinNet(c) \/ StartNet(c)
  BY <1>3, <1>11 DEF SetRunning, ClearRunning, JoinNet, StartNet, Return, GoOn
<1>12. QED
  BY <1>5, <1>6, <1>7, <1>8, <1>9, <1>10, <1>11 DEF Step

-----------------------------------------------------------------------------
(* The types, and where everybody is.                                      *)

ControlTypes ==
    /\ calls \in [Clients -> Seq(Call)]
    /\ pc \in [Clients -> Places]
    /\ \A c \in Clients : calls[c] = <<>> <=> pc[c] \in {"idle", "gone"}
    /\ got \in [Clients -> Counters]

DataTypes ==
    /\ acces \in Clients \cup {Nobody}
    /\ qmap \in SUBSET Queues /\ pmap \in SUBSET Plugins
    /\ ports \in [Plugins -> SUBSET Ports]
    /\ conn \in [Plugins -> [Ports -> Queues \cup {None}]]
    /\ queueNum \in Counters
    /\ running \in [Plugins -> BOOLEAN]
    /\ tid \in [Plugins -> {"none", "alive", "cancelled", "ended"}]
    /\ orphans \in SUBSET Plugins
    /\ found \in [Clients -> BOOLEAN]
    /\ \A p \in Plugins : \A t \in Ports : conn[p][t] # None => t \in ports[p]

NetTypes ==
    /\ net \in {"none", "alive", "cancelled", "dead"}
    /\ pc[Listener] = "gone" <=> net \in {"none", "dead"}

HistoryTypes == stray \in BOOLEAN /\ raced \in SUBSET Plugins /\ leftLocked \in BOOLEAN

\* The type invariant has four parts.
LEMMA TypeParts == TypeOK <=> ControlTypes /\ DataTypes /\ NetTypes /\ HistoryTypes
BY DEF TypeOK, ControlTypes, DataTypes, NetTypes, HistoryTypes, Counters

\* What IsAt says of the types.
LEMMA IsAtTypes ==
    ASSUME NEW s, NEW e, NEW g, IsAt(s, e, g)
    PROVE  s \in Seq(Call) /\ e \in Places /\ (s = <<>> <=> e \in {"idle", "gone"})
<1>1. s \in Seq(Call)
  BY Stacks, EmptySeq DEF IsAt
<1>2. e \in Places /\ (s = <<>> <=> e \in {"idle", "gone"})
  BY DEF IsAt, MayBeAt, Places, Critical, ThreadPlaces
<1>3. QED
  BY <1>1, <1>2

\* What a client's move means for all.
LEMMA MovedKeeps ==
    ASSUME TypeOK, ControlInv, NEW c \in Clients, Moved(c)
    PROVE  /\ ControlInv' /\ ControlTypes'
           /\ \A d \in Clients : d # c => calls'[d] = calls[d] /\ pc'[d] = pc[d] /\ got'[d] = got[d]
           /\ pc'[c] # "gone"
<1>1. PICK s, e : \E g \in Counters :
          /\ IsAt(s, e, g) /\ e # "gone"
          /\ calls' = [calls EXCEPT ![c] = s]
          /\ pc' = [pc EXCEPT ![c] = e]
          /\ got' = [got EXCEPT ![c] = g]
  BY DEF Moved
<1>2. PICK g \in Counters :
          /\ IsAt(s, e, g) /\ e # "gone"
          /\ calls' = [calls EXCEPT ![c] = s]
          /\ pc' = [pc EXCEPT ![c] = e]
          /\ got' = [got EXCEPT ![c] = g]
  BY <1>1
<1>3. s \in Seq(Call) /\ e \in Places /\ (s = <<>> <=> e \in {"idle", "gone"})
  BY <1>2, IsAtTypes
<1>4. ControlTypes
  BY TypeParts
<1>5. ControlTypes'
  BY <1>2, <1>3, <1>4 DEF ControlTypes
<1>6. /\ \A d \in Clients : d # c => calls'[d] = calls[d] /\ pc'[d] = pc[d] /\ got'[d] = got[d]
      /\ calls'[c] = s /\ pc'[c] = e /\ got'[c] = g
  BY <1>2, <1>4 DEF ControlTypes
<1>7. ControlInv'
  BY <1>2, <1>6 DEF ControlInv
<1>8. QED
  BY <1>2, <1>5, <1>6, <1>7

\* The data of the registry and of the threads.
LEMMA DataStep == ASSUME TypeOK, ControlInv, [Next]_vars PROVE DataTypes'
<1> USE DEF DataTypes
<1>1. DataTypes
  BY TypeParts
<1>2. ASSUME NEW c \in Clients, pc[c] \notin {"idle", "gone"}
      PROVE  Top(c) \in Call /\ MayBeAt(pc[c], Top(c), got[c])
             /\ (Top(c).op # "stopNet" => WellFormed(Top(c)))
  BY <1>2, TopCall
<1>3. CASE UNCHANGED vars
  BY <1>1, <1>3 DEF vars, maps, thr, locals
<1>4. ASSUME NEW c \in Clients, MakeCall(c) \/ Lock(c) PROVE DataTypes'
  BY <1>1, <1>4 DEF MakeCall, Lock, maps, thr
<1>5. ASSUME NEW c \in Clients, LookUp(c) \/ ReadCounter(c) \/ TestName(c) \/ Complain(c)
                                 \/ Unlock(c) \/ Report(c) \/ TestRunning(c)
      PROVE  DataTypes'
  BY <1>1, <1>5 DEF LookUp, ReadCounter, TestName, Complain, Unlock, Report, TestRunning, Found, maps, thr
<1>6. ASSUME NEW c \in Clients, TakeName(c) PROVE DataTypes'
  <2>1. got[c] \in DOMAIN Anonymous /\ Len(Anonymous) \in Nat /\ DOMAIN Anonymous = 1 .. Len(Anonymous)
    BY <1>2, <1>6, QPManagerAssumption, LenProperties DEF TakeName, MayBeAt
  <2>2. queueNum' \in Counters
    BY <1>6, <2>1 DEF TakeName, Counters
  <2>3. QED
    BY <1>1, <1>6, <2>2 DEF TakeName, maps, thr
<1>7. ASSUME NEW c \in Clients, Insert(c) PROVE DataTypes'
  <2>1. /\ Top(c) \in Call /\ WellFormed(Top(c)) /\ Top(c).op \in {"addQueue", "addPlugin"}
    BY <1>2, <1>7 DEF Insert, MayBeAt
  <2>2. qmap' \in SUBSET Queues /\ pmap' \in SUBSET Plugins
    BY <1>1, <1>7, <2>1 DEF Insert, WellFormed, Call
  <2>3. QED
    BY <1>1, <1>7, <2>2 DEF Insert, thr
<1>8. ASSUME NEW c \in Clients, GetQ(c) PROVE DataTypes'
  <2>1. Top(c) \in Call /\ WellFormed(Top(c))
    BY <1>2, <1>8 DEF GetQ, In
  <2>2. CASE UNCHANGED conn
    BY <1>1, <1>8, <2>2 DEF GetQ, Found, thr
  <2>3. CASE /\ Top(c).op = "connectPorts" /\ Top(c).q \in qmap /\ Top(c).port \in ports[Top(c).p]
             /\ conn' = [conn EXCEPT ![Top(c).p][Top(c).port] = Top(c).q]
    <3>1. Top(c).p \in Plugins /\ Top(c).port \in Ports /\ Top(c).q \in Queues
      BY <1>1, <2>1, <2>3 DEF WellFormed, Call
    <3>2. conn' \in [Plugins -> [Ports -> Queues \cup {None}]]
      BY <1>1, <2>3, <3>1
    <3>3. \A p \in Plugins : \A t \in Ports : conn'[p][t] # None => t \in ports[p]
      BY <1>1, <2>3, <3>1
    <3>4. QED
      BY <1>1, <1>8, <3>2, <3>3 DEF GetQ, Found, thr
  <2>4. QED
    BY <1>8, <2>2, <2>3 DEF GetQ
<1>9. ASSUME NEW c \in Clients, GetP(c) PROVE DataTypes'
  <2>1. Top(c) \in Call /\ WellFormed(Top(c))
    BY <1>2, <1>9 DEF GetP, In, MayBeAt
  <2>2. CASE UNCHANGED ports
    BY <1>1, <1>9, <2>2 DEF GetP, Found, thr
  <2>3. CASE /\ Top(c).op = "reservePort" /\ Top(c).p \in pmap
             /\ ports' = [ports EXCEPT ![Top(c).p] = @ \cup {Top(c).port}]
    <3>1. Top(c).p \in Plugins /\ Top(c).port \in Ports
      BY <2>1, <2>3 DEF WellFormed, Call
    <3>2. ports' \in [Plugins -> SUBSET Ports] /\ \A p \in Plugins : ports[p] \subseteq ports'[p]
      BY <1>1, <2>3, <3>1
    <3>3. QED
      BY <1>1, <1>9, <3>2 DEF GetP, Found, thr
  <2>4. QED
    BY <1>9, <2>2, <2>3 DEF GetP
<1>10. ASSUME NEW c \in Clients,
              Create(c) \/ SetRunning(c) \/ CancelThread(c) \/ Join(c) \/ ClearRunning(c)
       PROVE  DataTypes'
  <2>1. Top(c).p \in Plugins
    BY <1>2, <1>10 DEF Create, SetRunning, CancelThread, Join, ClearRunning, MayBeAt, WellFormed, Call
  <2>2. CASE Create(c)
    <3>1. tid' \in [Plugins -> {"none", "alive", "cancelled", "ended"}]
      BY <1>1, <2>2 DEF Create
    <3>2. orphans' \in SUBSET Plugins
      BY <1>1, <2>1, <2>2 DEF Create
    <3>3. QED
      BY <1>1, <2>2, <3>1, <3>2 DEF Create, maps
  <2>3. CASE CancelThread(c) \/ Join(c)
    BY <1>1, <2>3 DEF CancelThread, Join, maps
  <2>4. CASE SetRunning(c) \/ ClearRunning(c)
    BY <1>1, <2>4 DEF SetRunning, ClearRunning, maps
  <2>5. QED
    BY <1>10, <2>2, <2>3, <2>4
<1>11. ASSUME NEW c \in Clients, StopNet(c) \/ JoinNet(c) \/ StartNet(c) PROVE DataTypes'
  BY <1>1, <1>11 DEF StopNet, JoinNet, StartNet, maps, thr
<1>12. ASSUME NEW p \in Plugins, ThreadEnds(p) PROVE DataTypes'
  BY <1>1, <1>12 DEF ThreadEnds, maps, locals
<1>13. CASE NetCancelled
  BY <1>1, <1>13 DEF NetCancelled, Found, maps, thr
<1>14. QED
  BY <1>3, <1>4, <1>5, <1>6, <1>7, <1>8, <1>9, <1>10, <1>11, <1>12, <1>13 DEF Next, Step

\* The listener: who starts and stops it, and that its place agrees with net.
LEMMA NetStep ==
    ASSUME Inv, NEW c \in Clients, MakeCall(c) \/ Lock(c) \/ Step(c), ~StartNet(c)
    PROVE  NetTypes' /\ NetInv'
<1>1. NetTypes /\ NetInv /\ TypeOK /\ ControlInv /\ ControlTypes
  BY TypeParts DEF Inv
<1>2. Moved(c)
  BY <1>1, StepMoves
<1>3. /\ ControlInv' /\ pc'[c] # "gone" /\ pc[c] # "gone"
      /\ \A d \in Clients : d # c => calls'[d] = calls[d] /\ pc'[d] = pc[d]
  <2>1. pc[c] # "gone"
    BY DEF MakeCall, Lock, Step, LookUp, ReadCounter, TakeName, TestName, Insert, GetQ, Complain, GetP,
           Unlock, Report, TestRunning, Create, SetRunning, CancelThread, Join, ClearRunning, StopNet,
           JoinNet, In
  <2>2. QED
    BY <1>1, <1>2, <2>1, MovedKeeps
<1>4. \A i \in DOMAIN calls'[c] : Comes(c, calls'[c][i])
  BY <1>1, StackSteps
<1>5. c # Main => c = Listener
  BY DEF Clients
<1>6. pc[c] \notin {"idle", "gone"} => calls[c] # <<>> /\ MayBeAt(pc[c], Top(c), got[c])
  BY <1>1, TopCall
<1>7. \A i \in DOMAIN calls'[Listener] : calls'[Listener][i].op \notin NetOps
  <2>1. CASE c = Listener
    BY <1>1, <1>4, <2>1, QPManagerAssumption DEF Comes, NetInv, NetOps
  <2>2. CASE c # Listener
    BY <1>1, <1>3, <2>2 DEF NetInv, Clients
  <2>3. QED
    BY <2>1, <2>2
<1>8. Listener \in Clients /\ Main \in Clients /\ Main # Listener
  BY QPManagerAssumption DEF Clients
<1>9. CASE StopNet(c)
  <2>1. c = Main
    <3>1. Top(c).op = "stopNet" /\ calls[c] # <<>> /\ IsStack(calls[c])
      BY <1>1, <1>6, <1>9 DEF StopNet, ControlInv, IsAt
    <3>2. calls[c][1].op = "stopNet" /\ 1 \in DOMAIN calls[c]
      BY <3>1, Stacks DEF Top
    <3>3. QED
      BY <1>1, <1>5, <3>2 DEF NetInv, NetOps
  <2>2. net \in {"none", "alive"}
    BY <1>1, <1>9, <2>1 DEF StopNet, NetInv, NetTypes
  <2>3. CASE net = "none"
    <3>1. net' = "none" /\ pc' = [pc EXCEPT ![c] = IF Tail(calls[c]) = <<>> THEN "idle"
                                                   ELSE Entry(Head(Tail(calls[c])))]
      BY <1>9, <2>3 DEF StopNet, Return, GoOn, Goto
    <3>2. pc'[Main] # "joinNet"
      BY <1>1, <1>8, <2>1, <3>1 DEF ControlTypes, Entry
    <3>3. QED
      BY <1>1, <1>3, <1>7, <1>8, <2>1, <2>3, <3>1, <3>2 DEF NetInv, NetTypes
  <2>4. CASE net = "alive"
    <3>1. net' = "cancelled" /\ pc' = [pc EXCEPT ![c] = "joinNet"] /\ calls' = calls
      BY <1>9, <2>4 DEF StopNet, Goto
    <3>2. pc'[Main] = "joinNet" /\ pc'[Listener] = pc[Listener] /\ Head(calls'[Main]).op = "stopNet"
      BY <1>1, <1>8, <1>9, <2>1, <3>1 DEF ControlTypes, StopNet, Top
    <3>3. QED
      BY <1>1, <1>7, <1>8, <2>4, <3>1, <3>2 DEF NetInv, NetTypes
  <2>5. QED
    BY <2>2, <2>3, <2>4
<1>10. CASE JoinNet(c)
  <2>1. c = Main
    <3>1. Top(c).op = "stopNet" /\ calls[c] # <<>> /\ IsStack(calls[c])
      BY <1>1, <1>6, <1>10 DEF JoinNet, ControlInv, IsAt, MayBeAt
    <3>2. calls[c][1].op = "stopNet" /\ 1 \in DOMAIN calls[c]
      BY <3>1, Stacks DEF Top
    <3>3. QED
      BY <1>1, <1>5, <3>2 DEF NetInv, NetOps
  <2>2. net = "dead" /\ net' = "none"
        /\ pc' = [pc EXCEPT ![c] = IF Tail(calls[c]) = <<>> THEN "idle" ELSE Entry(Head(Tail(calls[c])))]
    BY <1>10 DEF JoinNet, Return, GoOn, Goto
  <2>3. pc'[Main] # "joinNet" /\ pc'[Listener] = pc[Listener]
    BY <1>1, <1>8, <2>1, <2>2 DEF ControlTypes, Entry
  <2>4. QED
    BY <1>1, <1>3, <1>7, <1>8, <2>1, <2>2, <2>3 DEF NetInv, NetTypes
<1>11. ASSUME ~StopNet(c), ~JoinNet(c) PROVE NetTypes' /\ NetInv'
  <2>1. net' = net /\ pc[c] # "joinNet" /\ pc'[c] # "joinNet"
    <3>1. net' = net
      BY <1>11 DEF MakeCall, Lock, Step, LookUp, ReadCounter, TakeName, TestName, Insert, GetQ, Complain,
             GetP, Unlock, Report, TestRunning, Create, SetRunning, CancelThread, Join, ClearRunning
    <3>2. pc[c] # "joinNet"
      BY <1>11 DEF MakeCall, Lock, Step, LookUp, ReadCounter, TakeName, TestName, Insert, GetQ, Complain,
             GetP, Unlock, Report, TestRunning, Create, SetRunning, CancelThread, Join, ClearRunning, In
    <3>3. pc'[c] # "joinNet"
      BY <1>1, <1>11 DEF ControlTypes, MakeCall, Lock, Step, LookUp, ReadCounter, TakeName, TestName,
             Insert, GetQ, Complain, GetP, Unlock, Report, TestRunning, Create, SetRunning, CancelThread,
             Join, ClearRunning, Goto, Return, GoOn, Entry
    <3>4. QED
      BY <3>1, <3>2, <3>3
  <2>2. (pc'[Main] = "joinNet" <=> pc[Main] = "joinNet") /\ (pc'[Listener] = "gone" <=> pc[Listener] = "gone")
        /\ pc'[Main] # "gone"
    BY <1>1, <1>3, <1>8, <2>1 DEF NetInv
  <2>3. ASSUME calls'[Main] # <<>>, Head(calls'[Main]).op # "stopNet",
               NEW i \in DOMAIN calls'[Main], calls'[Main][i].op = "netStart"
        PROVE  net = "none"
    <3>1. CASE c = Main
      <4>1. PICK j \in DOMAIN calls[c] : calls'[c][i] = calls[c][j]
        BY <1>4, <2>3, <3>1 DEF Comes, NetOps
      <4>2. pc[c] # "idle" /\ calls[c] # <<>>
        BY <1>1, <4>1, EmptySeq DEF ControlTypes
      <4>3. Head(calls[c]).op # "stopNet"
        <5>1. pc[c] \notin {"net", "joinNet"} \/ Top(c).op # "stopNet"
          BY <1>11, <2>1 DEF MakeCall, Lock, Step, LookUp, ReadCounter, TakeName, TestName, Insert, GetQ,
             Complain, GetP, Unlock, Report, TestRunning, Create, SetRunning, CancelThread, Join,
             ClearRunning, In
        <5>2. QED
          BY <1>3, <1>6, <4>2, <5>1 DEF MayBeAt, Top, LockedOps, ThreadOps
      <4>4. QED
        BY <1>1, <2>3, <3>1, <4>1, <4>2, <4>3 DEF NetInv
    <3>2. CASE c # Main
      BY <1>1, <1>3, <1>8, <2>3, <3>2 DEF NetInv
    <3>3. QED
      BY <3>1, <3>2
  <2>4. QED
    BY <1>1, <1>7, <2>1, <2>2, <2>3 DEF NetInv, NetTypes
<1>12. QED
  BY <1>9, <1>10, <1>11

\* The last step of startNetListening(): only the main program takes it, when
\* there is no listener.
LEMMA StartNetStep ==
    ASSUME Inv, NEW c \in Clients, StartNet(c)
    PROVE  /\ c = Main /\ net = "none" /\ calls[Listener] = <<>>
           /\ calls'[Main] = <<>> /\ calls'[Listener] = <<>>
           /\ pc'[Main] = "idle" /\ pc'[Listener] = "idle"
           /\ ControlTypes' /\ ControlInv' /\ NetTypes' /\ NetInv'
<1>1. NetTypes /\ NetInv /\ TypeOK /\ ControlInv /\ ControlTypes
  BY TypeParts DEF Inv
<1>2. Listener \in Clients /\ Main \in Clients /\ Main # Listener /\ (c # Main => c = Listener)
  BY QPManagerAssumption DEF Clients
<1>3. calls[c] # <<>> /\ Head(calls[c]).op = "netStart" /\ IsStack(calls[c])
  BY <1>1, TopCall DEF StartNet, Top, ControlInv, IsAt
<1>4. Tail(calls[c]) = <<>> /\ calls[c][1].op = "netStart" /\ 1 \in DOMAIN calls[c]
  BY <1>3, Stacks
<1>5. c = Main
  BY <1>1, <1>2, <1>4 DEF NetInv, NetOps
<1>6. net = "none"
  BY <1>1, <1>3, <1>4, <1>5 DEF NetInv
<1>7. calls[Listener] = <<>>
  BY <1>1, <1>2, <1>6 DEF NetTypes, ControlTypes
<1>8. calls' = [calls EXCEPT ![c] = <<>>] /\ got' = got /\ net' = "alive"
      /\ pc' = [pc EXCEPT ![c] = "idle", ![Listener] = "idle"]
  BY <1>4 DEF StartNet
<1>9. /\ calls'[Main] = <<>> /\ calls'[Listener] = <<>>
      /\ pc'[Main] = "idle" /\ pc'[Listener] = "idle"
  BY <1>1, <1>2, <1>5, <1>7, <1>8 DEF ControlTypes
<1>10. ControlTypes'
  <2>1. <<>> \in Seq(Call) /\ "idle" \in Places
    BY EmptySeq DEF Places
  <2>2. calls' \in [Clients -> Seq(Call)] /\ pc' \in [Clients -> Places] /\ got' \in [Clients -> Counters]
    BY <1>1, <1>8, <2>1 DEF ControlTypes
  <2>3. QED
    BY <1>9, <2>2 DEF ControlTypes, Clients
<1>11. ControlInv'
  BY <1>9 DEF ControlInv, Clients, IsAt, IsStack
<1>12. NetTypes' /\ NetInv'
  BY <1>8, <1>9, EmptySeq DEF NetTypes, NetInv
<1>13. QED
  BY <1>5, <1>6, <1>7, <1>9, <1>10, <1>11, <1>12

\* The listener dies while somebody waits for it.
LEMMA NetCancelledStep ==
    ASSUME Inv, NetCancelled
    PROVE  /\ calls'[Listener] = <<>> /\ pc'[Listener] = "gone" /\ pc[Listener] # "set"
           /\ calls'[Main] = calls[Main] /\ pc'[Main] = pc[Main]
           /\ ControlTypes' /\ ControlInv' /\ NetTypes' /\ NetInv'
<1>1. NetTypes /\ NetInv /\ TypeOK /\ ControlInv /\ ControlTypes
  BY TypeParts DEF Inv
<1>2. Listener \in Clients /\ Main \in Clients /\ Main # Listener
  BY QPManagerAssumption DEF Clients
<1>3. /\ net = "cancelled" /\ net' = "dead" /\ got' = got
      /\ calls' = [calls EXCEPT ![Listener] = <<>>] /\ pc' = [pc EXCEPT ![Listener] = "gone"]
      /\ pc[Listener] # "set"
  BY DEF NetCancelled, Goto, CancelPoint
<1>4. /\ calls'[Listener] = <<>> /\ pc'[Listener] = "gone"
      /\ calls'[Main] = calls[Main] /\ pc'[Main] = pc[Main] /\ got'[Main] = got[Main]
  BY <1>1, <1>2, <1>3 DEF ControlTypes
<1>5. pc[Main] = "joinNet" /\ calls[Main] # <<>> /\ Top(Main).op = "stopNet"
  BY <1>1, <1>2, <1>3, TopCall DEF NetInv, MayBeAt
<1>6. ControlTypes'
  <2>1. <<>> \in Seq(Call) /\ "gone" \in Places
    BY EmptySeq DEF Places
  <2>2. calls' \in [Clients -> Seq(Call)] /\ pc' \in [Clients -> Places] /\ got' \in [Clients -> Counters]
    BY <1>1, <1>3, <2>1 DEF ControlTypes
  <2>3. QED
    BY <1>1, <1>4, <2>2 DEF ControlTypes, Clients
<1>7. ControlInv'
  BY <1>1, <1>4 DEF ControlInv, Clients, IsAt, IsStack
<1>8. NetTypes' /\ NetInv'
  BY <1>1, <1>3, <1>4, <1>5, EmptySeq DEF NetTypes, NetInv, Top
<1>9. QED
  BY <1>3, <1>4, <1>6, <1>7, <1>8

-----------------------------------------------------------------------------
(* The inductive invariant.                                                *)

\* It holds in the beginning.
LEMMA InitInv == Init => Inv
<1> SUFFICES ASSUME Init PROVE Inv
  OBVIOUS
<1>1. Listener \in Clients /\ Main \in Clients /\ Main # Listener
  BY QPManagerAssumption DEF Clients
<1>2. \A c \in Clients : calls[c] = <<>> /\ pc[c] \in {"idle", "gone"} /\ pc[Main] = "idle"
                         /\ pc[Listener] = "gone"
  BY <1>1 DEF Init, Clients
<1>3. ControlTypes
  BY <1>2, EmptySeq, QPManagerAssumption, LenProperties
  DEF Init, ControlTypes, Counters, Places
<1>4. DataTypes
  <2>1. conn \in [Plugins -> [Ports -> Queues \cup {None}]]
    BY QPManagerAssumption DEF Init
  <2>2. \A p \in Plugins : \A t \in Ports : conn[p][t] # None => t \in ports[p]
    BY QPManagerAssumption DEF Init
  <2>3. queueNum \in Counters
    BY QPManagerAssumption, LenProperties DEF Init, Counters
  <2>4. QED
    BY <2>1, <2>2, <2>3, QPManagerAssumption DEF Init, DataTypes
<1>5. NetTypes /\ NetInv
  BY <1>1, <1>2, EmptySeq DEF Init, NetTypes, NetInv
<1>6. ControlInv
  BY <1>2 DEF ControlInv, IsAt, IsStack
<1>7. HistoryTypes
  BY DEF Init, HistoryTypes
<1>8. QED
  BY <1>3, <1>4, <1>5, <1>6, <1>7, TypeParts DEF Inv

\* Every step keeps it.
LEMMA NextInv == Inv /\ [Next]_vars => Inv'
<1> SUFFICES ASSUME Inv, [Next]_vars PROVE Inv'
  OBVIOUS
<1>1. /\ TypeOK /\ ControlInv /\ NetInv /\ ControlTypes /\ NetTypes /\ HistoryTypes
      /\ DataTypes'
  BY TypeParts, DataStep DEF Inv
<1>2. ControlTypes' /\ ControlInv' /\ NetTypes' /\ NetInv'
  <2>1. CASE UNCHANGED <<calls, pc, got, net>>
    BY <1>1, <2>1 DEF ControlTypes, ControlInv, NetTypes, NetInv
  <2>2. ASSUME NEW c \in Clients, MakeCall(c) \/ Lock(c) \/ Step(c), ~StartNet(c)
        PROVE  ControlTypes' /\ ControlInv' /\ NetTypes' /\ NetInv'
    <3>1. Moved(c)
      BY <1>1, <2>2, StepMoves
    <3>2. QED
      BY <1>1, <2>2, <3>1, MovedKeeps, NetStep
  <2>3. ASSUME NEW c \in Clients, StartNet(c) PROVE ControlTypes' /\ ControlInv' /\ NetTypes' /\ NetInv'
    BY <2>3, StartNetStep
  <2>4. CASE NetCancelled
    BY <2>4, NetCancelledStep
  <2>5. ASSUME NEW p \in Plugins, ThreadEnds(p) PROVE UNCHANGED <<calls, pc, got, net>>
    BY <2>5 DEF ThreadEnds, locals
  <2>6. CASE UNCHANGED vars
    BY <2>1, <2>6 DEF vars, locals
  <2>7. QED
    BY <2>1, <2>2, <2>3, <2>4, <2>5, <2>6 DEF Next
<1>3. TypeOK'
  <2>1. TypeOK' <=> ControlTypes' /\ DataTypes' /\ NetTypes' /\ HistoryTypes'
    BY DEF TypeOK, ControlTypes, DataTypes, NetTypes, HistoryTypes, Counters
  <2>2. HistoryTypes'
    BY <1>1 DEF HistoryTypes, Next, Remember, vars, history
  <2>3. QED
    BY <1>1, <1>2, <2>1, <2>2
<1>4. QED
  BY <1>2, <1>3 DEF Inv

\* The registry's variables keep their types, and every thread is in a call that
\* may be at that place, whatever the main program and the listener ask for and
\* wherever the listener is cancelled.
THEOREM Invariance == Spec => []Inv
BY InitInv, NextInv, PTL DEF Spec

\* The types; also that a port is connected only if the plugin has it.
THEOREM TypeCorrect == Spec => []TypeOK
<1>1. Inv => TypeOK
  BY DEF Inv
<1>2. QED
  BY <1>1, Invariance, PTL

-----------------------------------------------------------------------------
(* The lock.                                                               *)

\* The two properties, while no connect() has unlocked somebody else's mutex.
Held == \A c \in Clients : pc[c] \in Critical => acces = c
Free ==
    \A c \in Clients : pc[c] = "insert" =>
        Top(c).q \notin qmap /\ (Top(c).op = "addPlugin" => Top(c).p \notin pmap)

\* The place of a client that does not move is the same, for every step.
LEMMA OthersStay ==
    ASSUME Inv, NEW c \in Clients, MakeCall(c) \/ Lock(c) \/ Step(c),
           NEW d \in Clients, d # c, ~StartNet(c)
    PROVE  calls'[d] = calls[d] /\ pc'[d] = pc[d]
BY StepMoves, MovedKeeps DEF Inv

\* Who holds the mutex, step by step: a connect() that does not find its plugin
\* either unlocks a mutex that is free, or goes on record.
LEMMA LockKept ==
    ASSUME Inv, Held, NEW c \in Clients, MakeCall(c) \/ Lock(c) \/ Step(c), ~StartNet(c), Remember
    PROVE  stray' \/ Held'
<1>1. \A d \in Clients : d # c => pc'[d] = pc[d]
  BY OthersStay
<1>2. pc \in [Clients -> Places] /\ Nobody \notin Clients
  BY QPManagerAssumption DEF Inv, TypeOK
<1>3. \A d \in Clients : pc[d] \in Critical => acces = d
  BY DEF Held
<1>4. CASE Lock(c)
  BY <1>1, <1>2, <1>3, <1>4 DEF Lock, Goto, Held
<1>5. CASE Unlock(c)
  BY <1>1, <1>2, <1>3, <1>5 DEF Unlock, Goto, Held, Critical
<1>6. CASE LookUp(c)
  <2>1. pc[c] = "lookup" /\ pc'[c] \notin Critical
    BY <1>2, <1>6 DEF LookUp, GoOn, Return, Goto, Entry, Critical
  <2>2. CASE Top(c).p \in pmap \/ acces = Nobody
    <3>1. acces' = acces
      BY <1>6, <2>2 DEF LookUp
    <3>2. QED
      BY <1>1, <1>3, <2>1, <3>1 DEF Held
  <2>3. CASE Top(c).p \notin pmap /\ acces # Nobody
    <3>1. Tail(calls[c]) = <<>>
      BY <2>1, TopCall, Stacks DEF Inv, MayBeAt, ControlInv, IsAt, Top
    <3>2. pc'[c] = "idle"
      BY <1>2, <1>6, <2>3, <3>1 DEF LookUp, Return, GoOn, Goto
    <3>3. QED
      BY <2>1, <2>3, <3>2 DEF Remember
  <2>4. QED
    BY <2>2, <2>3
<1>7. CASE TestName(c) \/ Insert(c) \/ GetQ(c) \/ Complain(c) \/ GetP(c)
  BY <1>1, <1>2, <1>3, <1>7
  DEF TestName, Insert, GetQ, Complain, GetP, In, Goto, Held, Critical, maps
<1>8. CASE \/ MakeCall(c) \/ ReadCounter(c) \/ TakeName(c) \/ Report(c) \/ TestRunning(c) \/ Create(c)
           \/ SetRunning(c) \/ CancelThread(c) \/ Join(c) \/ ClearRunning(c) \/ StopNet(c) \/ JoinNet(c)
  <2>1. acces' = acces
    BY <1>8 DEF MakeCall, ReadCounter, TakeName, Report, TestRunning, Create, SetRunning, CancelThread,
      Join, ClearRunning, StopNet, JoinNet
  <2>2. pc'[c] \notin Critical
    BY <1>2, <1>8 DEF MakeCall, ReadCounter, TakeName, Report, TestRunning, Create, SetRunning,
      CancelThread, Join, ClearRunning, StopNet, JoinNet, Goto, GoOn, Return, Entry, Critical
  <2>3. QED
    BY <1>1, <1>3, <2>1, <2>2 DEF Held
<1>9. QED
  BY <1>4, <1>5, <1>6, <1>7, <1>8 DEF Step

\* Between the test of a name and its insertion nobody else inserts.
LEMMA FreeKept ==
    ASSUME Inv, Held, Free, NEW c \in Clients, MakeCall(c) \/ Lock(c) \/ Step(c), ~StartNet(c)
    PROVE  Free'
<1>1. \A d \in Clients : d # c => pc'[d] = pc[d] /\ calls'[d] = calls[d] /\ Top(d)' = Top(d)
  BY OthersStay DEF Top
<1>2. pc \in [Clients -> Places] /\ qmap \in SUBSET Queues /\ None \notin Queues
  BY QPManagerAssumption DEF Inv, TypeOK
<1>3. \A d \in Clients : pc[d] \in Critical => acces = d
  BY DEF Held
<1>4. CASE Insert(c)
  <2>1. \A d \in Clients : pc'[d] # "insert"
    BY <1>1, <1>2, <1>3, <1>4 DEF Insert, Goto, Critical
  <2>2. QED
    BY <2>1 DEF Free
<1>5. CASE TestName(c)
  <2>1. Top(c)' = Top(c) /\ UNCHANGED <<qmap, pmap>>
    BY <1>5 DEF TestName, maps, Top
  <2>2. Top(c) \in Call /\ WellFormed(Top(c)) /\ Top(c).op \in {"addQueue", "addPlugin"}
    BY <1>5, TopCall DEF TestName, In, Inv
  <2>3. pc'[c] = "insert" => /\ Top(c).op = "addQueue" => Top(c).q \notin qmap
                             /\ Top(c).op = "addPlugin" => Top(c).p \notin pmap
    BY <1>2, <1>5 DEF TestName, Goto
  <2>4. Top(c).op = "addPlugin" => Top(c).q \notin qmap
    BY <1>2, <2>2 DEF WellFormed
  <2>5. QED
    BY <1>1, <2>1, <2>2, <2>3, <2>4 DEF Free
<1>6. ASSUME ~Insert(c), ~TestName(c) PROVE Free'
  <2>1. UNCHANGED <<qmap, pmap>>
    BY <1>6 DEF MakeCall, Lock, Step, LookUp, ReadCounter, TakeName, GetQ, Complain, GetP, Unlock, Report,
      TestRunning, Create, SetRunning, CancelThread, Join, ClearRunning, StopNet, JoinNet, maps
  <2>2. pc'[c] # "insert"
    BY <1>2, <1>6 DEF MakeCall, Lock, Step, LookUp, ReadCounter, TakeName, GetQ, Complain, GetP, Unlock,
      Report, TestRunning, Create, SetRunning, CancelThread, Join, ClearRunning, StopNet, JoinNet,
      Goto, GoOn, Return, Entry
  <2>3. QED
    BY <1>1, <2>1, <2>2 DEF Free
<1>7. QED
  BY <1>4, <1>5, <1>6

\* What steps of the threads, and the beginning and end of a listener, leave alone.
LEMMA QuietLock ==
    ASSUME Held, Free, UNCHANGED <<acces, qmap, pmap>>,
           \A c \in Clients : \/ pc'[c] \notin Critical
                              \/ calls'[c] = calls[c] /\ pc'[c] = pc[c]
    PROVE  Held' /\ Free'
BY DEF Held, Free, Top, Critical

\* Every step keeps both, or is a connect() that goes on record.
LEMMA NextLock == Inv /\ (stray \/ (Held /\ Free)) /\ [Next]_vars => (stray \/ (Held /\ Free))'
<1> SUFFICES ASSUME Inv, stray \/ (Held /\ Free), [Next]_vars PROVE stray' \/ (Held' /\ Free')
  OBVIOUS
<1>1. CASE stray
  BY <1>1 DEF Next, Remember, vars, history
<1>2. CASE Held /\ Free
  <2>1. ASSUME NEW c \in Clients, MakeCall(c) \/ Lock(c) \/ Step(c), ~StartNet(c), Remember
        PROVE  stray' \/ (Held' /\ Free')
    BY <1>2, <2>1, LockKept, FreeKept
  <2>2. ASSUME NEW c \in Clients, StartNet(c) PROVE Held' /\ Free'
    BY <1>2, <2>2, QuietLock, StartNetStep DEF StartNet, maps, Clients, Critical
  <2>3. CASE NetCancelled
    BY <1>2, <2>3, QuietLock, NetCancelledStep DEF NetCancelled, maps, Clients, Critical
  <2>4. ASSUME NEW p \in Plugins, ThreadEnds(p) PROVE Held' /\ Free'
    BY <1>2, <2>4, QuietLock DEF ThreadEnds, maps, locals
  <2>5. CASE UNCHANGED vars
    BY <1>2, <2>5, QuietLock DEF vars, maps, locals
  <2>6. QED
    BY <2>1, <2>2, <2>3, <2>4, <2>5 DEF Next
<1>3. QED
  BY <1>1, <1>2

\* So it holds in every state.
LEMMA LockAlways == Spec => [](stray \/ (Held /\ Free))
<1>1. Init => stray \/ (Held /\ Free)
  BY DEF Init, Held, Free, Critical
<1>2. QED
  BY <1>1, NextLock, Invariance, PTL DEF Spec

\* The mutex protects the maps, whatever the main program and the listener call,
\* until a connect() of a plugin that is not there unlocks it for somebody else.
THEOREM Locked == Spec => []LockRespected
<1>1. stray \/ (Held /\ Free) => LockRespected
  BY DEF Held, LockRespected
<1>2. QED
  BY <1>1, LockAlways, PTL

\* Until then no queue and no plugin that others point to is replaced.
THEOREM Unreplaced == Spec => []NeverReplaced
<1>1. stray \/ (Held /\ Free) => NeverReplaced
  BY DEF Free, NeverReplaced
<1>2. QED
  BY <1>1, LockAlways, PTL

-----------------------------------------------------------------------------
(* Callers that connect what is there.                                     *)

\* What connect() looks up without the lock is there; a plugin that addPlugin()
\* reports, and will connect, was inserted.
FoundInv ==
    \A c \in Clients :
        /\ \A i \in DOMAIN calls[c] : calls[c][i].op = "connect" => calls[c][i].p \in pmap
        /\ pc[c] \in {"unlock", "report"} /\ Top(c).op = "addPlugin" /\ found[c] => Top(c).p \in pmap

\* A connect() is alone on its stack, and begins with the look-up.
LEMMA ConnectAlone ==
    ASSUME NEW s, NEW e, NEW g, IsAt(s, e, g), NEW i \in DOMAIN s, s[i].op = "connect"
    PROVE  e = "lookup" /\ Head(s) = s[i]
<1>1. s # <<>> /\ IsStack(s)
  BY EmptySeq DEF IsAt
<1>2. CASE \E k \in Call : s = <<k>> /\ WellFormed(k) /\ k.op # "startNet"
  <2>1. PICK k \in Call : s = <<k>>
    BY <1>2
  <2>2. i \in 1 .. 1 /\ s[1] = k /\ Head(s) = k
    BY <2>1, ShortStacks
  <2>3. Head(s) = s[i]
    BY <2>2
  <2>4. QED
    BY <1>1, <2>3 DEF IsAt, MayBeAt, LockedOps, ThreadOps
<1>3. CASE \E k, m \in Call :
             /\ s = <<k, m>> /\ WellFormed(k) /\ WellFormed(m)
             /\ \/ k.op = "addQueue" /\ m.op = "connectPorts" /\ m.q # None
                \/ k.op = "getQueue" /\ m.op = "netStart"
  <2>1. PICK k, m \in Call : /\ s = <<k, m>> /\ k.op # "connect" /\ m.op # "connect"
    BY <1>3
  <2>2. i \in 1 .. 2 /\ s[1] = k /\ s[2] = m
    BY <2>1, ShortStacks
  <2>3. s[i] \in {k, m}
    BY <2>2
  <2>4. QED
    BY <2>1, <2>3
<1>4. CASE \E k, m, n \in Call :
             /\ s = <<k, m, n>> /\ WellFormed(m)
             /\ k.op = "stopNet" /\ m.op = "getQueue" /\ n.op = "netStart"
  <2>1. PICK k, m, n \in Call :
             s = <<k, m, n>> /\ k.op # "connect" /\ m.op # "connect" /\ n.op # "connect"
    BY <1>4
  <2>2. i \in 1 .. 3 /\ s[1] = k /\ s[2] = m /\ s[3] = n
    BY <2>1, ShortStacks
  <2>3. s[i] \in {k, m, n}
    BY <2>2
  <2>4. QED
    BY <2>1, <2>3
<1>5. QED
  BY <1>1, <1>2, <1>3, <1>4 DEF IsStack

\* Plugins are never removed, so what was found, or known at the call, stays.
LEMMA FoundKept ==
    ASSUME Inv, FoundInv, ConnectsKnown,
           NEW c \in Clients, MakeCall(c) \/ Lock(c) \/ Step(c), ~StartNet(c)
    PROVE  FoundInv'
<1>1. \A d \in Clients : d # c => /\ pc'[d] = pc[d] /\ calls'[d] = calls[d] /\ Top(d)' = Top(d)
                                  /\ found'[d] = found[d]
  <2>1. \A d \in Clients : d # c => pc'[d] = pc[d] /\ calls'[d] = calls[d] /\ Top(d)' = Top(d)
    BY OthersStay DEF Top
  <2>2. \A d \in Clients : d # c => found'[d] = found[d]
    BY DEF MakeCall, Lock, Step, LookUp, ReadCounter, TakeName, TestName, Insert, GetQ, Complain, GetP,
      Unlock, Report, TestRunning, Create, SetRunning, CancelThread, Join, ClearRunning, StopNet, JoinNet,
      Found, Inv, TypeOK
  <2>3. QED
    BY <2>1, <2>2
<1>2. pmap \subseteq pmap'
  BY DEF MakeCall, Lock, Step, LookUp, ReadCounter, TakeName, TestName, Insert, GetQ, Complain, GetP,
    Unlock, Report, TestRunning, Create, SetRunning, CancelThread, Join, ClearRunning, StopNet, JoinNet,
    maps
<1>3. ASSUME NEW i \in DOMAIN calls'[c], calls'[c][i].op = "connect" PROVE calls'[c][i].p \in pmap'
  <2>1. Comes(c, calls'[c][i])
    BY StackSteps DEF Inv
  <2>2. CASE pc[c] = "idle"
    <3>1. IsAt(calls'[c], pc'[c], got'[c])
      BY StepMoves, MovedKeeps DEF Inv, ControlInv
    <3>2. pc'[c] = "lookup" /\ Top(c)' = calls'[c][i]
      BY <1>3, <3>1, ConnectAlone DEF Top
    <3>3. calls'[c][i].p \in pmap
      BY <2>2, <3>2 DEF ConnectsKnown
    <3>4. QED
      BY <1>2, <3>3
  <2>3. CASE pc[c] # "idle"
    BY <1>2, <1>3, <2>1, <2>3 DEF Comes, FoundInv
  <2>4. QED
    BY <2>2, <2>3
<1>4. ASSUME pc'[c] \in {"unlock", "report"}, Top(c)'.op = "addPlugin", found'[c]
      PROVE  Top(c)'.p \in pmap'
  <2>1. pc \in [Clients -> Places] /\ found \in [Clients -> BOOLEAN]
    BY DEF Inv, TypeOK
  <2>2. CASE Insert(c)
    <3>1. Top(c)' = Top(c)
      BY <2>2 DEF Insert, Top
    <3>2. QED
      BY <1>4, <2>2, <3>1 DEF Insert
  <2>3. CASE TestName(c)
    BY <1>4, <2>1, <2>3 DEF TestName, Goto, Found
  <2>4. CASE Unlock(c)
    <3>1. Top(c)' = Top(c) /\ found' = found /\ pc[c] = "unlock"
      BY <2>4 DEF Unlock, Top
    <3>2. QED
      BY <1>2, <1>4, <3>1 DEF FoundInv
  <2>5. CASE GetQ(c) \/ GetP(c) \/ Complain(c)
    <3>1. Top(c)' = Top(c) /\ pc[c] \in {"crit", "complain"}
      BY <2>5 DEF GetQ, GetP, Complain, Top, In
    <3>2. CASE GetQ(c) \/ GetP(c)
      BY <1>4, <3>1, <3>2 DEF GetQ, GetP, In
    <3>3. CASE Complain(c)
      BY <1>4, <3>1, <3>3, TopCall DEF Complain, Inv, MayBeAt
    <3>4. QED
      BY <2>5, <3>2, <3>3
  <2>6. CASE \/ MakeCall(c) \/ Lock(c) \/ LookUp(c) \/ ReadCounter(c) \/ TakeName(c) \/ Report(c)
             \/ TestRunning(c) \/ Create(c) \/ SetRunning(c) \/ CancelThread(c) \/ Join(c)
             \/ ClearRunning(c) \/ StopNet(c) \/ JoinNet(c)
    BY <1>4, <2>1, <2>6 DEF MakeCall, Lock, LookUp, ReadCounter, TakeName, Report, TestRunning, Create,
      SetRunning, CancelThread, Join, ClearRunning, StopNet, JoinNet, Goto, GoOn, Return, Entry
  <2>7. QED
    BY <2>2, <2>3, <2>4, <2>5, <2>6 DEF Step
<1>5. QED
  BY <1>1, <1>2, <1>3, <1>4 DEF FoundInv

\* The other steps, and that a look-up that finds its plugin goes not on record.
LEMMA NextFound ==
    Inv /\ FoundInv /\ ~stray /\ [Next]_vars /\ [ConnectsKnown]_vars => FoundInv' /\ ~stray'
<1> SUFFICES ASSUME Inv, FoundInv, ~stray, [Next]_vars, [ConnectsKnown]_vars PROVE FoundInv' /\ ~stray'
  OBVIOUS
<1>1. ASSUME UNCHANGED pmap,
             \A c \in Clients : \/ calls'[c] = <<>> /\ pc'[c] \notin {"unlock", "report"}
                                \/ calls'[c] = calls[c] /\ pc'[c] = pc[c] /\ found'[c] = found[c]
      PROVE  FoundInv'
  BY <1>1, EmptySeq DEF FoundInv, Top
<1>2. CASE UNCHANGED vars
  BY <1>1, <1>2 DEF vars, maps, locals, history
<1>3. ASSUME Next, ConnectsKnown PROVE FoundInv'
  <2>1. ASSUME NEW c \in Clients, MakeCall(c) \/ Lock(c) \/ Step(c), ~StartNet(c) PROVE FoundInv'
    BY <1>3, <2>1, FoundKept
  <2>2. ASSUME NEW c \in Clients, StartNet(c) PROVE FoundInv'
    BY <1>1, <2>2, StartNetStep DEF StartNet, maps, Clients
  <2>3. CASE NetCancelled
    <3>1. found'[Main] = found[Main]
      BY <2>3, QPManagerAssumption DEF NetCancelled, Found, Clients, Inv, TypeOK
    <3>2. QED
      BY <1>1, <2>3, <3>1, NetCancelledStep DEF NetCancelled, maps, Clients
  <2>4. ASSUME NEW p \in Plugins, ThreadEnds(p) PROVE FoundInv'
    BY <1>1, <2>4 DEF ThreadEnds, maps, locals
  <2>5. QED
    BY <1>3, <2>1, <2>2, <2>3, <2>4 DEF Next
<1>4. \A c \in Clients : pc[c] = "lookup" => Top(c).p \in pmap
  <2> SUFFICES ASSUME NEW c \in Clients, pc[c] = "lookup" PROVE Top(c).p \in pmap
    OBVIOUS
  <2>1. calls[c] # <<>> /\ Top(c).op = "connect" /\ Top(c) = calls[c][1] /\ 1 \in DOMAIN calls[c]
    BY TopCall, Stacks DEF Inv, MayBeAt, ControlInv, IsAt, Top
  <2>2. QED
    BY <2>1 DEF FoundInv
<1>5. ~stray'
  BY <1>4 DEF Next, Remember, vars, history
<1>6. QED
  BY <1>2, <1>3, <1>5

\* Clients that connect by name only what is there at the call never unlock each
\* other's mutex, also when they add the plugins themselves while others are at
\* it: addPlugin()'s own connect() finds its plugin.
THEOREM Undisturbed == Spec /\ [][ConnectsKnown]_vars => []~stray
<1>1. Init => FoundInv /\ ~stray
  BY EmptySeq DEF Init, FoundInv
<1>2. QED
  BY <1>1, NextFound, Invariance, PTL DEF Spec

-----------------------------------------------------------------------------
(* The threads of the plugins.                                             *)

\* Two clients at one plugin go on record.
Overlaps == \A p \in Plugins : InThread(Main, p) /\ InThread(Listener, p) => p \in raced

\* A live thread of p can be stopped, and what start() and stop() of p have found
\* out, without a lock, is still true.
Sound(p) ==
    /\ p \notin orphans
    /\ tid[p] = "alive" => running[p] \/ \E c \in Clients : pc[c] = "set" /\ Top(c).p = p
    /\ \A c \in Clients : InThread(c, p) =>
          /\ pc[c] \in {"create", "reset"} => ~running[p]
          /\ pc[c] \in {"join", "clear"} => tid[p] # "alive"

\* The invariant behind the theorem about stop().
ThreadInv == Overlaps /\ \A p \in Plugins \ raced : Sound(p)

\* The call at a place of start() or stop() is about a plugin.
LEMMA AtThread ==
    ASSUME Inv, NEW c \in Clients, pc[c] \in ThreadPlaces
    PROVE  Top(c).p \in Plugins
<1>1. /\ calls[c] # <<>> /\ Top(c) \in Call /\ MayBeAt(pc[c], Top(c), got[c])
      /\ Top(c).op # "stopNet" => WellFormed(Top(c))
  BY TopCall DEF Inv, ThreadPlaces
<1>2. QED
  BY <1>1 DEF MayBeAt, ThreadPlaces, ThreadOps, WellFormed, Call

\* A step of a client that is not at a plugin leaves the plugin alone.
LEMMA ElsewhereKept ==
    ASSUME Inv, NEW p \in Plugins, Sound(p),
           NEW c \in Clients, MakeCall(c) \/ Lock(c) \/ Step(c), ~StartNet(c), ~InThread(c, p)
    PROVE  Sound(p)'
<1>1. \A d \in Clients : d # c => pc'[d] = pc[d] /\ Top(d)' = Top(d)
  BY OthersStay DEF Top
<1>2. /\ pc \in [Clients -> Places] /\ running \in [Plugins -> BOOLEAN]
      /\ tid \in [Plugins -> {"none", "alive", "cancelled", "ended"}] /\ orphans \in SUBSET Plugins
  BY DEF Inv, TypeOK
<1>3. pc[c] \in ThreadPlaces => Top(c).p \in Plugins /\ Top(c).p # p
  BY AtThread DEF InThread
<1>4. tid'[p] = tid[p] /\ running'[p] = running[p] /\ (p \in orphans' <=> p \in orphans)
  <2>1. CASE Create(c) \/ SetRunning(c) \/ CancelThread(c) \/ Join(c) \/ ClearRunning(c)
    <3>1. pc[c] \in ThreadPlaces
      BY <2>1 DEF Create, SetRunning, CancelThread, Join, ClearRunning, ThreadPlaces
    <3>2. QED
      BY <1>2, <1>3, <2>1, <3>1 DEF Create, SetRunning, CancelThread, Join, ClearRunning
  <2>2. CASE UNCHANGED <<running, tid, orphans>>
    BY <2>2
  <2>3. QED
    BY <2>1, <2>2 DEF MakeCall, Lock, Step, LookUp, ReadCounter, TakeName, TestName, Insert, GetQ,
      Complain, GetP, Unlock, Report, TestRunning, StopNet, JoinNet, thr
<1>5. ~(pc[c] = "set" /\ Top(c).p = p)
  BY DEF InThread, ThreadPlaces
<1>6. InThread(c, p)' => pc'[c] \notin {"create", "reset", "join", "clear"}
  <2>1. CASE pc[c] \in ThreadPlaces /\ UNCHANGED calls
    BY <1>3, <2>1 DEF InThread, Top
  <2>2. CASE pc[c] \in ThreadPlaces /\ Return(c)
    BY <1>2, <2>2 DEF Return, GoOn, Goto, Entry
  <2>3. CASE pc[c] \notin ThreadPlaces
    BY <1>2, <2>3 DEF MakeCall, Lock, Step, LookUp, ReadCounter, TakeName, TestName, Insert, GetQ, Complain,
      GetP, Unlock, Report, TestRunning, Create, SetRunning, CancelThread, Join, ClearRunning, StopNet,
      JoinNet, Goto, GoOn, Return, Entry, ThreadPlaces, In
  <2>4. pc[c] \in ThreadPlaces => UNCHANGED calls \/ Return(c)
    BY DEF MakeCall, Lock, Step, LookUp, ReadCounter, TakeName, TestName, Insert, GetQ, Complain,
      GetP, Unlock, Report, TestRunning, Create, SetRunning, CancelThread, Join, ClearRunning, StopNet,
      JoinNet, ThreadPlaces, In
  <2>5. QED
    BY <2>1, <2>2, <2>3, <2>4
<1>7. QED
  BY <1>1, <1>4, <1>5, <1>6 DEF Sound, InThread

\* A step of the only client that is at a plugin.
LEMMA AlonePlugin ==
    ASSUME Inv, NEW p \in Plugins, Sound(p),
           NEW c \in Clients, MakeCall(c) \/ Lock(c) \/ Step(c), ~StartNet(c), InThread(c, p),
           \A d \in Clients : d # c => ~InThread(d, p)
    PROVE  Sound(p)'
<1>1. \A d \in Clients : d # c => pc'[d] = pc[d] /\ Top(d)' = Top(d)
  BY OthersStay DEF Top
<1>2. /\ pc \in [Clients -> Places] /\ running \in [Plugins -> BOOLEAN]
      /\ tid \in [Plugins -> {"none", "alive", "cancelled", "ended"}] /\ orphans \in SUBSET Plugins
  BY DEF Inv, TypeOK
<1>3. /\ Top(c).p = p /\ pc[c] \in ThreadPlaces
      /\ \A d \in Clients : d # c => ~InThread(d, p)' /\ ~(pc[d] = "set" /\ Top(d).p = p)
  BY <1>1 DEF InThread, ThreadPlaces
<1>4. CASE TestRunning(c)
  <2>1. UNCHANGED <<running, tid, orphans>> /\ pc[c] = "test"
    BY <1>4 DEF TestRunning, thr
  <2>2. pc'[c] \in {"create", "reset"} => ~running[p]
    BY <1>2, <1>3, <1>4 DEF TestRunning, Return, GoOn, Goto, Entry
  <2>3. pc'[c] \notin {"join", "clear"}
    BY <1>2, <1>4 DEF TestRunning, Return, GoOn, Goto, Entry
  <2>4. QED
    BY <1>3, <2>1, <2>2, <2>3 DEF Sound
<1>5. CASE Create(c)
  <2>1. /\ pc[c] = "create" /\ ~running[p] /\ Top(c)' = Top(c) /\ pc'[c] = "set"
    BY <1>2, <1>5 DEF Create, Sound, Top, Goto
  <2>2. tid[p] # "alive"
    BY <1>3, <2>1 DEF Sound
  <2>3. p \notin orphans'
    BY <1>3, <1>5, <2>2 DEF Create, Sound
  <2>4. QED
    BY <1>3, <2>1, <2>3 DEF Sound
<1>6. CASE SetRunning(c)
  <2>1. running'[p] /\ tid' = tid /\ orphans' = orphans
    BY <1>2, <1>3, <1>6 DEF SetRunning
  <2>2. pc'[c] \notin ThreadPlaces
    BY <1>2, <1>6 DEF SetRunning, Return, GoOn, Goto, Entry, ThreadPlaces
  <2>3. QED
    BY <1>3, <2>1, <2>2 DEF Sound, InThread
<1>7. CASE CancelThread(c) \/ Join(c)
  <2>1. tid'[p] # "alive" /\ orphans' = orphans
    BY <1>2, <1>3, <1>7 DEF CancelThread, Join
  <2>2. pc'[c] \in {"join", "clear"}
    BY <1>2, <1>7 DEF CancelThread, Join, Goto
  <2>3. QED
    BY <1>3, <2>1, <2>2 DEF Sound
<1>8. CASE ClearRunning(c)
  <2>1. pc[c] \in {"clear", "reset"} /\ tid' = tid /\ orphans' = orphans
    BY <1>8 DEF ClearRunning
  <2>2. pc'[c] \notin ThreadPlaces
    BY <1>2, <1>8 DEF ClearRunning, Return, GoOn, Goto, Entry, ThreadPlaces
  <2>3. tid[p] # "alive"
    BY <1>3, <2>1 DEF Sound
  <2>4. QED
    BY <1>3, <2>1, <2>2, <2>3 DEF Sound, InThread
<1>9. CASE ~TestRunning(c) /\ ~Create(c) /\ ~SetRunning(c) /\ ~CancelThread(c) /\ ~Join(c) /\ ~ClearRunning(c)
  BY <1>3, <1>9 DEF MakeCall, Lock, Step, LookUp, ReadCounter, TakeName, TestName, Insert, GetQ, Complain,
    GetP, Unlock, Report, StopNet, JoinNet, ThreadPlaces, In
<1>10. QED
  BY <1>4, <1>5, <1>6, <1>7, <1>8, <1>9

\* What the beginning and end of a listener, and the end of a thread, do.
LEMMA QuietThreads ==
    ASSUME NEW p \in Plugins, Sound(p),
           running'[p] = running[p], p \in orphans' => p \in orphans,
           tid'[p] = "alive" => tid[p] = "alive",
           \A c \in Clients : \/ pc'[c] \notin ThreadPlaces /\ pc[c] # "set"
                              \/ calls'[c] = calls[c] /\ pc'[c] = pc[c]
    PROVE  Sound(p)'
BY DEF Sound, InThread, Top, ThreadPlaces

\* Every step keeps the threads of the plugins that nobody has raced for.
LEMMA NextThreads == Inv /\ ThreadInv /\ [Next]_vars => ThreadInv'
<1> SUFFICES ASSUME Inv, ThreadInv, [Next]_vars PROVE ThreadInv'
  OBVIOUS
<1>1. raced \subseteq raced' /\ Overlaps'
  BY DEF ThreadInv, Overlaps, Next, Remember, InThread, Top, vars, locals, history
<1>2. ASSUME NEW p \in Plugins \ raced' PROVE Sound(p)'
  <2>1. Sound(p) /\ p \in Plugins /\ ~(InThread(Main, p) /\ InThread(Listener, p))
    BY <1>1, <1>2 DEF ThreadInv, Overlaps
  <2>2. ASSUME NEW c \in Clients, MakeCall(c) \/ Lock(c) \/ Step(c), ~StartNet(c) PROVE Sound(p)'
    <3>1. CASE InThread(c, p)
      <4>1. \A d \in Clients : d # c => ~InThread(d, p)
        BY <2>1, <3>1 DEF Clients
      <4>2. QED
        BY <2>1, <2>2, <3>1, <4>1, AlonePlugin
    <3>2. CASE ~InThread(c, p)
      BY <2>1, <2>2, <3>2, ElsewhereKept
    <3>3. QED
      BY <3>1, <3>2
  <2>3. ASSUME NEW c \in Clients, StartNet(c) PROVE Sound(p)'
    <3>1. pc[Main] = "net" /\ pc[Listener] \in {"idle", "gone"}
      BY <2>3, StartNetStep DEF StartNet, Inv, TypeOK, Clients
    <3>2. \A d \in Clients : pc'[d] \notin ThreadPlaces /\ pc[d] # "set"
      BY <2>3, <3>1, StartNetStep DEF Clients, ThreadPlaces
    <3>3. QED
      BY <2>1, <2>3, <3>2, QuietThreads DEF StartNet, thr
  <2>4. CASE NetCancelled
    BY <2>1, <2>4, NetCancelledStep, QuietThreads DEF NetCancelled, thr, Clients, ThreadPlaces
  <2>5. ASSUME NEW q \in Plugins, ThreadEnds(q) PROVE Sound(p)'
    <3>1. tid'[p] = "alive" => tid[p] = "alive"
      BY <2>1, <2>5 DEF ThreadEnds, Inv, TypeOK
    <3>2. QED
      BY <2>1, <2>5, <3>1, QuietThreads DEF ThreadEnds, locals
  <2>6. CASE UNCHANGED vars
    BY <2>1, <2>6, QuietThreads DEF vars, thr, locals
  <2>7. QED
    BY <2>2, <2>3, <2>4, <2>5, <2>6 DEF Next
<1>3. QED
  BY <1>1, <1>2 DEF ThreadInv

\* stop() reaches every live thread of a plugin, although start() and stop() take
\* no lock and the listener may be cancelled inside them, whatever is called, until
\* two clients have been in start() or stop() of that plugin at the same time.
THEOREM Stoppable == Spec => []ThreadsStoppable
<1>1. Init => ThreadInv
  BY DEF Init, ThreadInv, Overlaps, Sound, InThread, ThreadPlaces, Clients
<1>2. ThreadInv => ThreadsStoppable
  BY DEF ThreadInv, ThreadsStoppable, Sound
<1>3. QED
  BY <1>1, <1>2, NextThreads, Invariance, PTL DEF Spec
=============================================================================
