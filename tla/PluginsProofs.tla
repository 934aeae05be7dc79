--------------------------- MODULE PluginsProofs ----------------------------
(***************************************************************************)
(* Machine-checked proofs about Plugins, for any number of plugins, queues *)
(* and items, any pools and any wiring of the ports.                       *)
(***************************************************************************)
EXTENDS Plugins, Functions, SequenceTheorems, TLAPS

(* What the pushes and pops do to the two deques: an item is in one place.  *)

\* A push of an item leaves two deques of items.
LEMMA PushedLanes ==
    ASSUME NEW T, NEW o \in PushOps, NEW l \in Lanes(T), NEW x \in T
    PROVE  Pushed(o, l, x) \in Lanes(T)
<1>1. <<x>> \in Seq(T)
  OBVIOUS
<1>2. <<x>> \o l.Q \in Seq(T)
  BY <1>1, ConcatProperties DEF Lanes
<1>3. Append(l.Q, x) \in Seq(T) /\ Append(l.Qctrl, x) \in Seq(T)
  BY AppendProperties DEF Lanes
<1>4. CASE o = "push_front"
  BY <1>2, <1>4 DEF Pushed, Lanes
<1>5. CASE o = "push_back"
  BY <1>3, <1>5 DEF Pushed, Lanes
<1>6. CASE o = "push_back_ctrl"
  BY <1>3, <1>6 DEF Pushed, Lanes
<1>7. QED
  BY <1>4, <1>5, <1>6 DEF PushOps

\* A pop takes an item out of the lane and leaves two deques of items.
LEMMA TakenItem ==
    ASSUME NEW T, NEW o, NEW l \in Lanes(T), Available(o, l)
    PROVE  /\ Taken(o, l) \in T
           /\ Remaining(o, l) \in Lanes(T)
<1>1. CASE FromCtrl(o, l)
  <2>1. Head(l.Qctrl) \in T /\ Tail(l.Qctrl) \in Seq(T)
    BY <1>1, HeadTailProperties DEF FromCtrl, Lanes
  <2>2. QED
    BY <1>1, <2>1 DEF Taken, Remaining, Lanes
<1>2. CASE ~FromCtrl(o, l)
  <2>1. l.Q \in Seq(T) /\ l.Q # <<>> /\ Len(l.Q) \in Nat \ {0}
    BY <1>2, EmptySeq DEF Available, FromReg, Lanes
  <2>2. Head(l.Q) \in T /\ Tail(l.Q) \in Seq(T)
    BY <2>1, HeadTailProperties
  <2>3. \A i \in 1 .. Len(l.Q) : l.Q[i] \in T
    BY <2>1, ElementOfSeq
  <2>4. SubSeq(l.Q, 1, Len(l.Q) - 1) \in Seq(T)
    BY <2>1, <2>3, SubSeqProperties
  <2>5. CASE o \in BackOps
    BY <1>2, <2>1, <2>3, <2>4, <2>5 DEF Taken, Remaining, Lanes
  <2>6. CASE o \notin BackOps
    BY <1>2, <2>2, <2>6 DEF Taken, Remaining, Lanes
  <2>7. QED
    BY <2>5, <2>6
<1>3. QED
  BY <1>1, <1>2

\* A new element at either end keeps a sequence without repetition.
LEMMA InjectiveAppend ==
    ASSUME NEW T, NEW s \in Seq(T), NEW x \in T, IsInjective(s), x \notin Range(s)
    PROVE  IsInjective(Append(s, x)) /\ Range(Append(s, x)) = Range(s) \cup {x}
<1> DEFINE a == Append(s, x)
<1>1. /\ DOMAIN s = 1 .. Len(s) /\ DOMAIN a = 1 .. Len(s) + 1 /\ Len(s) \in Nat
      /\ \A i \in 1 .. Len(s) : a[i] = s[i]
      /\ a[Len(s) + 1] = x
  BY AppendProperties, LenProperties
<1> HIDE DEF a
<1>2. \A i \in 1 .. Len(s) : s[i] # x
  BY <1>1 DEF Range
<1>3. IsInjective(a)
  BY <1>1, <1>2 DEF IsInjective
<1>4. Range(a) = Range(s) \cup {x}
  BY <1>1 DEF Range
<1>5. QED
  BY <1>3, <1>4 DEF a

\* So does one in front of it.
LEMMA InjectiveCons ==
    ASSUME NEW T, NEW s \in Seq(T), NEW x \in T, IsInjective(s), x \notin Range(s)
    PROVE  IsInjective(<<x>> \o s) /\ Range(<<x>> \o s) = Range(s) \cup {x}
<1> DEFINE c == <<x>> \o s
<1>1. <<x>> \in Seq(T) /\ Len(<<x>>) = 1 /\ <<x>>[1] = x
  OBVIOUS
<1>2. /\ DOMAIN s = 1 .. Len(s) /\ DOMAIN c = 1 .. Len(s) + 1 /\ Len(s) \in Nat
      /\ \A i \in 1 .. Len(s) + 1 : c[i] = IF i = 1 THEN x ELSE s[i - 1]
  BY <1>1, ConcatProperties, LenProperties
<1> HIDE DEF c
<1>3. c[1] = x /\ \A i \in 2 .. Len(s) + 1 : c[i] = s[i - 1] /\ i - 1 \in DOMAIN s
  BY <1>2
<1>4. \A i \in DOMAIN s : s[i] # x /\ c[i + 1] = s[i] /\ i + 1 \in DOMAIN c
  BY <1>2 DEF Range
<1>5. ASSUME NEW i \in DOMAIN c, NEW j \in DOMAIN c, c[i] = c[j] PROVE i = j
  <2>1. CASE i = 1 \/ j = 1
    BY <1>2, <1>3, <1>4, <1>5, <2>1
  <2>2. CASE i # 1 /\ j # 1
    <3>1. i - 1 \in DOMAIN s /\ j - 1 \in DOMAIN s /\ s[i - 1] = s[j - 1]
      BY <1>2, <1>3, <1>5, <2>2
    <3>2. i - 1 = j - 1
      BY <3>1 DEF IsInjective
    <3>3. QED
      BY <1>2, <3>2
  <2>3. QED
    BY <2>1, <2>2
<1>6. IsInjective(c)
  BY <1>5 DEF IsInjective
<1>7. Range(c) \subseteq Range(s) \cup {x}
  <2>1. ASSUME NEW i \in DOMAIN c PROVE c[i] \in Range(s) \cup {x}
    BY <1>2, <1>3 DEF Range
  <2>2. QED
    BY <2>1 DEF Range
<1>8. Range(s) \cup {x} \subseteq Range(c)
  <2>1. x \in Range(c)
    BY <1>2, <1>3 DEF Range
  <2>2. ASSUME NEW i \in DOMAIN s PROVE s[i] \in Range(c)
    BY <1>4 DEF Range
  <2>3. QED
    BY <2>1, <2>2 DEF Range
<1>9. QED
  BY <1>6, <1>7, <1>8 DEF c

\* Taking the first or the last element away leaves the others, and them once.
LEMMA InjectiveTail ==
    ASSUME NEW T, NEW s \in Seq(T), s # <<>>, IsInjective(s)
    PROVE  /\ IsInjective(Tail(s)) /\ Head(s) \in Range(s)
           /\ Range(Tail(s)) = Range(s) \ {Head(s)}
<1> DEFINE r == Tail(s)
<1>1. /\ DOMAIN s = 1 .. Len(s) /\ DOMAIN r = 1 .. Len(s) - 1 /\ Len(s) \in Nat \ {0}
      /\ \A i \in 1 .. Len(s) - 1 : r[i] = s[i + 1]
  BY HeadTailProperties, LenProperties, EmptySeq
<1>2. Head(s) = s[1]
  OBVIOUS
<1> HIDE DEF r
<1>3. IsInjective(r)
  BY <1>1 DEF IsInjective
<1>4. Head(s) \in Range(s)
  BY <1>1, <1>2 DEF Range
<1>5. \A i \in 1 .. Len(s) - 1 : r[i] \in Range(s) /\ r[i] # Head(s)
  BY <1>1, <1>2 DEF Range, IsInjective
<1>6. ASSUME NEW i \in 1 .. Len(s), s[i] # Head(s) PROVE s[i] \in Range(r)
  <2>1. i - 1 \in 1 .. Len(s) - 1 /\ (i - 1) + 1 = i
    BY <1>1, <1>2, <1>6
  <2>2. r[i - 1] = s[i] /\ i - 1 \in DOMAIN r
    BY <1>1, <2>1
  <2>3. QED
    BY <2>2 DEF Range
<1>7. Range(r) = Range(s) \ {Head(s)}
  BY <1>1, <1>5, <1>6 DEF Range
<1>8. QED
  BY <1>3, <1>4, <1>7 DEF r

\* The same for the last element.
LEMMA InjectiveFront ==
    ASSUME NEW T, NEW s \in Seq(T), s # <<>>, IsInjective(s)
    PROVE  /\ IsInjective(SubSeq(s, 1, Len(s) - 1)) /\ s[Len(s)] \in Range(s)
           /\ Range(SubSeq(s, 1, Len(s) - 1)) = Range(s) \ {s[Len(s)]}
<1> DEFINE f == SubSeq(s, 1, Len(s) - 1)
<1>1. DOMAIN s = 1 .. Len(s) /\ Len(s) \in Nat \ {0} /\ \A i \in 1 .. Len(s) : s[i] \in T
  BY LenProperties, EmptySeq, ElementOfSeq
<1>2. /\ f \in Seq(T) /\ Len(f) = Len(s) - 1
      /\ \A i \in 1 .. Len(s) - 1 : f[i] = s[i]
  BY <1>1, SubSeqProperties
<1>3. DOMAIN f = 1 .. Len(s) - 1
  BY <1>2, LenProperties
<1> HIDE DEF f
<1>4. IsInjective(f)
  BY <1>1, <1>2, <1>3 DEF IsInjective
<1>5. s[Len(s)] \in Range(s)
  BY <1>1 DEF Range
<1>6. \A i \in 1 .. Len(s) - 1 : f[i] \in Range(s) /\ f[i] # s[Len(s)]
  BY <1>1, <1>2 DEF Range, IsInjective
<1>7. ASSUME NEW i \in 1 .. Len(s), s[i] # s[Len(s)] PROVE s[i] \in Range(f)
  <2>1. i \in 1 .. Len(s) - 1
    BY <1>1, <1>7
  <2>2. QED
    BY <1>2, <1>3, <2>1 DEF Range
<1>8. Range(f) = Range(s) \ {s[Len(s)]}
  BY <1>1, <1>3, <1>6, <1>7 DEF Range
<1>9. QED
  BY <1>4, <1>5, <1>8 DEF f

Distinct(l) ==
    IsInjective(l.Q) /\ IsInjective(l.Qctrl) /\ Range(l.Q) \cap Range(l.Qctrl) = {}

Inside(l) == Range(l.Q) \cup Range(l.Qctrl)

\* A push adds the item that was pushed, a pop removes the one that was taken.
LEMMA PushedOnce ==
    ASSUME NEW T, NEW o \in PushOps, NEW l \in Lanes(T), NEW x \in T,
           Distinct(l), x \notin Inside(l)
    PROVE  /\ Distinct(Pushed(o, l, x))
           /\ Inside(Pushed(o, l, x)) = Inside(l) \cup {x}
<1>1. l.Q \in Seq(T) /\ l.Qctrl \in Seq(T)
  BY DEF Lanes
<1>2. CASE o = "push_front"
  <2>1. Pushed(o, l, x).Q = <<x>> \o l.Q /\ Pushed(o, l, x).Qctrl = l.Qctrl
    BY <1>2 DEF Pushed, Lanes
  <2>2. QED
    BY <1>1, <2>1, InjectiveCons DEF Distinct, Inside
<1>3. CASE o = "push_back"
  <2>1. Pushed(o, l, x).Q = Append(l.Q, x) /\ Pushed(o, l, x).Qctrl = l.Qctrl
    BY <1>3 DEF Pushed, Lanes
  <2>2. QED
    BY <1>1, <2>1, InjectiveAppend DEF Distinct, Inside
<1>4. CASE o = "push_back_ctrl"
  <2>1. Pushed(o, l, x).Q = l.Q /\ Pushed(o, l, x).Qctrl = Append(l.Qctrl, x)
    BY <1>4 DEF Pushed, Lanes
  <2>2. QED
    BY <1>1, <2>1, InjectiveAppend DEF Distinct, Inside
<1>5. QED
  BY <1>2, <1>3, <1>4 DEF PushOps

\* What a pop takes is not in the queue any more.
LEMMA TakenOnce ==
    ASSUME NEW T, NEW o, NEW l \in Lanes(T), Available(o, l), Distinct(l)
    PROVE  /\ Distinct(Remaining(o, l))
           /\ Taken(o, l) \in Inside(l)
           /\ Inside(Remaining(o, l)) = Inside(l) \ {Taken(o, l)}
<1>1. l.Q \in Seq(T) /\ l.Qctrl \in Seq(T)
  BY DEF Lanes
<1>2. CASE FromCtrl(o, l)
  <2>1. l.Qctrl # <<>>
    BY <1>2 DEF FromCtrl
  <2>2. QED
    BY <1>1, <1>2, <2>1, InjectiveTail DEF Distinct, Inside, Remaining, Taken
<1>3. CASE ~FromCtrl(o, l)
  <2>1. l.Q # <<>>
    BY <1>3 DEF Available, FromReg
  <2>2. CASE o \in BackOps
    BY <1>1, <1>3, <2>1, <2>2, InjectiveFront DEF Distinct, Inside, Remaining, Taken
  <2>3. CASE o \notin BackOps
    BY <1>1, <1>3, <2>1, <2>3, InjectiveTail DEF Distinct, Inside, Remaining, Taken
  <2>4. QED
    BY <2>2, <2>3
<1>4. QED
  BY <1>2, <1>3

-----------------------------------------------------------------------------
(* The inductive invariant.  It is stated of contents L of the queues, of  *)
(* items H in the hands of the threads and of allocated items V, because a *)
(* step of the code may move an item twice.                                *)

Contents == [AllQueues -> Lanes(Items)]
Hands == [Plugins -> Items \cup {None}]

Has(x, L, H) == (\E q \in AllQueues : x \in Inside(L[q])) \/ (\E p \in Plugins : H[p] = x)

\* Each item is in one place at most, and only while it is allocated.
OwnedIn(L, H, V) ==
    /\ \A q \in AllQueues : Distinct(L[q]) /\ Inside(L[q]) \subseteq V
    /\ \A q, r \in AllQueues : q # r => Inside(L[q]) \cap Inside(L[r]) = {}
    /\ \A p \in Plugins :
          H[p] # None => H[p] \in V /\ \A q \in AllQueues : H[p] \notin Inside(L[q])
    /\ \A p, r \in Plugins : H[p] = H[r] => p = r \/ H[p] = None

Owned == OwnedIn(lanes, hold, live)

\* What stop() may rely on: a thread that is cancelled is the one being joined,
\* and a plugin without a thread is one that may be started.
StopInv ==
    \A p \in Plugins : (cancel[p] => joining = p) /\ (running[p] <=> phase[p] # "none")

\* A Qmessage holds messages that were made for it, the images of a pool are
\* allocated and belong to it, and only messages are made for a Qmessage; h is
\* the recycle queue of every item.
PoolsIn(L, V, h) ==
    /\ \A p \in Plugins : \A m \in Inside(L[p]) : m \in Messages /\ h[m] = p
    /\ \A q \in Queues : \A x \in Pooled(q) : x \in V /\ h[x] = q
    /\ \A x \in Items : h[x] \in Plugins => x \in Messages

Types ==
    /\ lanes \in Contents
    /\ live \in SUBSET Items
    /\ home \in [Items -> AllQueues \cup {None}]
    /\ hold \in Hands

PoolInv == PoolsIn(lanes, live, home)

Inv == TypeOK /\ Owned /\ StopInv /\ PoolInv

\* The step loses no item.
NoneLost ==
    \A x \in Items :
        x \in live' /\ ~Has(x, lanes', hold') => x \in live /\ ~Has(x, lanes, hold)

\* What the invariant says of the items, kept by a step that loses none.
Kept == Types' /\ Owned' /\ PoolInv' /\ NoneLost

-----------------------------------------------------------------------------
(* One move of one item: into a queue, out of it, into the hands of a      *)
(* thread.                                                                 *)

IsPut(K, L, q, o, x) == K = [L EXCEPT ![q] = Pushed(o, @, x)]
IsGot(K, L, q, o, x) == x = Taken(o, L[q]) /\ K = [L EXCEPT ![q] = Remaining(o, @)]
IsHeld(G, H, p, x) == G = [H EXCEPT ![p] = x]

\* An item that nobody has goes into a queue.
LEMMA Put ==
    ASSUME NEW L \in Contents, NEW H \in Hands, NEW V \in SUBSET Items, OwnedIn(L, H, V),
           NEW q \in AllQueues, NEW o \in PushOps, NEW x \in V, ~Has(x, L, H),
           NEW K, IsPut(K, L, q, o, x)
    PROVE  /\ K \in Contents /\ OwnedIn(K, H, V)
           /\ \A y \in Items : Has(y, K, H) <=> Has(y, L, H) \/ y = x
           /\ \A r \in AllQueues :
                 Inside(K[r]) = IF r = q THEN Inside(L[q]) \cup {x} ELSE Inside(L[r])
<1>1. L[q] \in Lanes(Items) /\ x \in Items /\ Distinct(L[q]) /\ x \notin Inside(L[q])
  BY DEF Contents, OwnedIn, Has
<1>2. /\ Pushed(o, L[q], x) \in Lanes(Items) /\ Distinct(Pushed(o, L[q], x))
      /\ Inside(Pushed(o, L[q], x)) = Inside(L[q]) \cup {x}
  BY <1>1, PushedLanes, PushedOnce
<1>3. /\ K \in Contents
      /\ \A r \in AllQueues : K[r] = IF r = q THEN Pushed(o, L[q], x) ELSE L[r]
  BY <1>2 DEF Contents, IsPut
<1>4. \A r \in AllQueues : /\ Distinct(K[r])
                           /\ Inside(K[r]) = IF r = q THEN Inside(L[q]) \cup {x} ELSE Inside(L[r])
  BY <1>2, <1>3 DEF OwnedIn
<1>5. OwnedIn(K, H, V)
  BY <1>4 DEF OwnedIn, Has
<1>6. \A y \in Items : Has(y, K, H) <=> Has(y, L, H) \/ y = x
  BY <1>4 DEF Has
<1>7. QED
  BY <1>3, <1>4, <1>5, <1>6

\* A pop takes an item out of its queue; then nobody has it.
LEMMA Get ==
    ASSUME NEW L \in Contents, NEW H \in Hands, NEW V \in SUBSET Items, OwnedIn(L, H, V),
           NEW q \in AllQueues, NEW o, Available(o, L[q]),
           NEW x, NEW K, IsGot(K, L, q, o, x)
    PROVE  /\ K \in Contents /\ OwnedIn(K, H, V)
           /\ x \in V /\ x \in Inside(L[q]) /\ ~Has(x, K, H)
           /\ \A y \in Items : Has(y, K, H) <=> Has(y, L, H) /\ y # x
           /\ \A r \in AllQueues : Inside(K[r]) \subseteq Inside(L[r])
<1>1. L[q] \in Lanes(Items) /\ Distinct(L[q]) /\ Inside(L[q]) \subseteq V
  BY DEF Contents, OwnedIn
<1>2. x \in Items /\ x = Taken(o, L[q])
  BY <1>1, TakenItem DEF IsGot
<1>3. /\ Remaining(o, L[q]) \in Lanes(Items) /\ Distinct(Remaining(o, L[q]))
      /\ x \in Inside(L[q]) /\ Inside(Remaining(o, L[q])) = Inside(L[q]) \ {x}
  BY <1>1, <1>2, TakenItem, TakenOnce
<1>4. /\ K \in Contents
      /\ \A r \in AllQueues : K[r] = IF r = q THEN Remaining(o, L[q]) ELSE L[r]
  BY <1>3 DEF Contents, IsGot
<1>5. \A r \in AllQueues : /\ Distinct(K[r])
                           /\ Inside(K[r]) = IF r = q THEN Inside(L[q]) \ {x} ELSE Inside(L[r])
  BY <1>3, <1>4 DEF OwnedIn
<1>6. x # None /\ \A p \in Plugins : H[p] # x
  BY <1>3, PluginsAssumption DEF OwnedIn
<1>7. \A r \in AllQueues : x \notin Inside(K[r])
  BY <1>3, <1>5 DEF OwnedIn
<1>8. OwnedIn(K, H, V)
  BY <1>5 DEF OwnedIn
<1>9. ~Has(x, K, H)
  BY <1>6, <1>7 DEF Has
<1>10. \A y \in Items : Has(y, K, H) <=> Has(y, L, H) /\ y # x
  BY <1>5, <1>9 DEF Has
<1>11. QED
  BY <1>1, <1>2, <1>3, <1>4, <1>5, <1>8, <1>9, <1>10

\* An item that nobody has comes into the hands of a thread that has none.
LEMMA Hold ==
    ASSUME NEW L \in Contents, NEW H \in Hands, NEW V \in SUBSET Items, OwnedIn(L, H, V),
           NEW p \in Plugins, H[p] = None, NEW x \in V, ~Has(x, L, H),
           NEW G, IsHeld(G, H, p, x)
    PROVE  /\ G \in Hands /\ OwnedIn(L, G, V)
           /\ \A y \in Items : Has(y, L, G) <=> Has(y, L, H) \/ y = x
<1>1. G \in Hands /\ \A r \in Plugins : G[r] = IF r = p THEN x ELSE H[r]
  BY DEF Hands, IsHeld
<1>2. None \notin Items
  BY PluginsAssumption
<1>3. OwnedIn(L, G, V)
  BY <1>1 DEF OwnedIn, Has
<1>4. \A y \in Items : Has(y, L, G) <=> Has(y, L, H) \/ y = x
  BY <1>1, <1>2 DEF Has
<1>5. QED
  BY <1>1, <1>3, <1>4

\* A thread lets go of the item it has.
LEMMA Drop ==
    ASSUME NEW L \in Contents, NEW H \in Hands, NEW V \in SUBSET Items, OwnedIn(L, H, V),
           NEW p \in Plugins, H[p] # None,
           NEW G, IsHeld(G, H, p, None)
    PROVE  /\ G \in Hands /\ OwnedIn(L, G, V)
           /\ H[p] \in V /\ ~Has(H[p], L, G)
           /\ \A y \in Items : Has(y, L, G) <=> Has(y, L, H) /\ y # H[p]
<1>1. G \in Hands /\ \A r \in Plugins : G[r] = IF r = p THEN None ELSE H[r]
  BY DEF Hands, IsHeld
<1>2. None \notin Items /\ H[p] \in V
  BY PluginsAssumption DEF OwnedIn
<1>3. OwnedIn(L, G, V)
  BY <1>1 DEF OwnedIn
<1>4. ~Has(H[p], L, G)
  BY <1>1, <1>2 DEF Has, OwnedIn
<1>5. \A y \in Items : Has(y, L, G) <=> Has(y, L, H) /\ y # H[p]
  BY <1>1, <1>2, <1>4 DEF Has
<1>6. QED
  BY <1>1, <1>2, <1>3, <1>4, <1>5

\* An item that nobody has may be deleted.
LEMMA Deleted ==
    ASSUME NEW L, NEW H, NEW V \in SUBSET Items, OwnedIn(L, H, V), NEW x \in Items, ~Has(x, L, H)
    PROVE  OwnedIn(L, H, V \ {x})
BY DEF OwnedIn, Has
-----------------------------------------------------------------------------
(* The steps that move items.                                              *)

\* What the wiring and the pools of a system are.
LEMMA Wiring ==
    /\ None \notin Items /\ None \notin AllQueues
    /\ Queues \subseteq AllQueues /\ Plugins \subseteq AllQueues /\ Queues \cap Plugins = {}
    /\ Images \cap Messages = {} /\ Items = Images \cup Messages
    /\ \A p \in Plugins : /\ In[p] \in Queues /\ Out[p] \in Queues \cup {None}
                          /\ Event[p] \in Queues \cup {None} /\ EventOp[p] \in PushOps
    /\ \A q \in Queues : Pooled(q) \subseteq Images
<1>1. \A q \in Queues : Pooled(q) \subseteq Images
  <2>1. ASSUME NEW q \in Queues PROVE Pooled(q) \subseteq Images
    <3>1. Pool[q] \in Seq(Images)
      BY PluginsAssumption
    <3>2. DOMAIN Pool[q] = 1 .. Len(Pool[q]) /\ \A i \in 1 .. Len(Pool[q]) : Pool[q][i] \in Images
      BY <3>1, LenProperties, ElementOfSeq
    <3>3. QED
      BY <3>2 DEF Pooled, Range
  <2>2. QED
    BY <2>1
<1>2. QED
  BY <1>1, PluginsAssumption DEF AllQueues, Items, PushOps

\* What somebody has is allocated.
LEMMA HasLive ==
    ASSUME NEW L, NEW H, NEW V, OwnedIn(L, H, V), NEW x \in Items, Has(x, L, H)
    PROVE  x \in V
BY Wiring DEF Has, OwnedIn

\* A push to a port, or a recycling, of an item that nobody has: G are the hands
\* after the step.
LEMMA PushedOrRecycled ==
    ASSUME Types, PoolInv, NEW G \in Hands, OwnedIn(lanes, G, live),
           NEW x \in live, ~Has(x, lanes, G),
           NEW o \in PushOps, NEW q \in Queues \cup {None}, PushOrRecycle(o, q, x)
    PROVE  /\ lanes' \in Contents /\ live' \in SUBSET Items
           /\ OwnedIn(lanes', G, live') /\ PoolsIn(lanes', live', home)
           /\ \A y \in Items : y \in live' /\ ~Has(y, lanes', G)
                                  => y \in live /\ ~Has(y, lanes, G) /\ y # x
<1>1. lanes \in Contents /\ live \in SUBSET Items /\ home \in [Items -> AllQueues \cup {None}]
  BY DEF Types
<1>2. ASSUME NEW d \in AllQueues, NEW k \in PushOps, IsPut(lanes', lanes, d, k, x), live' = live,
             d \in Plugins => home[x] = d
      PROVE  /\ lanes' \in Contents /\ live' \in SUBSET Items
             /\ OwnedIn(lanes', G, live') /\ PoolsIn(lanes', live', home)
             /\ \A y \in Items : y \in live' /\ ~Has(y, lanes', G)
                                    => y \in live /\ ~Has(y, lanes, G) /\ y # x
  <2>2. /\ lanes' \in Contents /\ OwnedIn(lanes', G, live)
        /\ \A y \in Items : Has(y, lanes', G) <=> Has(y, lanes, G) \/ y = x
        /\ \A r \in AllQueues :
              Inside(lanes'[r]) = IF r = d THEN Inside(lanes[d]) \cup {x} ELSE Inside(lanes[r])
    <3>1. lanes \in Contents /\ live \in SUBSET Items
      BY <1>1
    <3>2. IsPut(lanes', lanes, d, k, x)
      BY <1>2
    <3>3. QED
      BY <3>1, <3>2, Put, SMTT(30)
  <2>3. PoolsIn(lanes', live', home)
    <3>1. ASSUME NEW p \in Plugins, NEW m \in Inside(lanes'[p]) PROVE m \in Messages /\ home[m] = p
      <4>1. CASE m \in Inside(lanes[p])
        BY <4>1 DEF PoolInv, PoolsIn
      <4>2. CASE m \notin Inside(lanes[p])
        <5>1. m = x /\ p = d
          BY <2>2, <3>1, <4>2, Wiring
        <5>2. home[x] = p /\ x \in Items
          BY <1>1, <1>2, <5>1
        <5>3. QED
          BY <5>1, <5>2 DEF PoolInv, PoolsIn
      <4>3. QED
        BY <4>1, <4>2
    <3>2. QED
      BY <1>2, <3>1 DEF PoolInv, PoolsIn
  <2>4. QED
    BY <1>1, <1>2, <2>2, <2>3
<1>3. CASE q # None
  <2>1. IsPut(lanes', lanes, q, o, x) /\ live' = live /\ q \in AllQueues /\ q \notin Plugins
    BY <1>3, Wiring DEF PushOrRecycle, PutIn, IsPut
  <2>2. QED
    BY <1>2, <2>1
<1>4. CASE q = None /\ home[x] # None
  <2>1. IsPut(lanes', lanes, home[x], "push_front", x) /\ live' = live
    BY <1>4 DEF PushOrRecycle, Recycle, PutIn, IsPut
  <2>2. "push_front" \in PushOps /\ home[x] \in AllQueues
    BY <1>1, <1>4 DEF PushOps
  <2>3. QED
    BY <1>2, <2>1, <2>2
<1>5. CASE q = None /\ home[x] = None
  <2>1. live' = live \ {x} /\ lanes' = lanes
    BY <1>5 DEF PushOrRecycle, Recycle
  <2>2. OwnedIn(lanes, G, live \ {x})
    BY <1>1, Deleted
  <2>3. PoolsIn(lanes, live \ {x}, home)
    BY <1>5, Wiring DEF PoolInv, PoolsIn
  <2>4. QED
    BY <1>1, <2>1, <2>2, <2>3
<1>6. QED
  BY <1>3, <1>4, <1>5

\* An item ends its time in the hands of a thread.
LEMMA LetGoKeeps ==
    ASSUME Types, Owned, PoolInv, NEW p \in Plugins, hold[p] # None,
           IsHeld(hold', hold, p, None), home' = home,
           NEW o \in PushOps, NEW q \in Queues \cup {None}, PushOrRecycle(o, q, hold[p])
    PROVE  Kept
<1>1. /\ lanes \in Contents /\ hold \in Hands /\ live \in SUBSET Items
      /\ OwnedIn(lanes, hold, live)
  BY DEF Types, Owned
<1>2. /\ hold' \in Hands /\ OwnedIn(lanes, hold', live) /\ hold[p] \in live /\ ~Has(hold[p], lanes, hold')
      /\ \A y \in Items : Has(y, lanes, hold') <=> Has(y, lanes, hold) /\ y # hold[p]
  BY <1>1, Drop
<1>3. /\ lanes' \in Contents /\ live' \in SUBSET Items
      /\ OwnedIn(lanes', hold', live') /\ PoolsIn(lanes', live', home)
      /\ \A y \in Items : y \in live' /\ ~Has(y, lanes', hold')
                             => y \in live /\ ~Has(y, lanes, hold') /\ y # hold[p]
  BY <1>2, PushedOrRecycled
<1>4. NoneLost
  BY <1>2, <1>3 DEF NoneLost
<1>5. QED
  BY <1>2, <1>3, <1>4 DEF Kept, Types, Owned, PoolInv

\* A pop of a plugin moves an item from its queue to its hands.
LEMMA TakeKeeps ==
    ASSUME Types, Owned, PoolInv, NEW p \in Plugins, hold[p] = None, Take(p)
    PROVE  Kept
<1>1. /\ lanes \in Contents /\ hold \in Hands /\ live \in SUBSET Items
      /\ OwnedIn(lanes, hold, live) /\ live' = live /\ home' = home
  BY DEF Types, Owned, Take
<1>2. In[p] \in AllQueues /\ In[p] \notin Plugins /\ Available(QueueOp(p), lanes[In[p]])
  BY Wiring DEF Take, CanTake
<1>3. PICK x : IsGot(lanes', lanes, In[p], QueueOp(p), x) /\ IsHeld(hold', hold, p, x)
  BY <1>1, <1>2 DEF Take, Left, Offered, IsGot, IsHeld, Contents
<1>4. /\ lanes' \in Contents /\ OwnedIn(lanes', hold, live)
      /\ x \in live /\ ~Has(x, lanes', hold)
      /\ \A y \in Items : Has(y, lanes', hold) <=> Has(y, lanes, hold) /\ y # x
      /\ \A r \in AllQueues : Inside(lanes'[r]) \subseteq Inside(lanes[r])
  BY <1>1, <1>2, <1>3, Get
<1>5. /\ hold' \in Hands /\ OwnedIn(lanes', hold', live)
      /\ \A y \in Items : Has(y, lanes', hold') <=> Has(y, lanes', hold) \/ y = x
  BY <1>1, <1>3, <1>4, Hold
<1>6. NoneLost
  BY <1>1, <1>4, <1>5 DEF NoneLost
<1>7. PoolInv'
  BY <1>1, <1>4, Wiring DEF PoolInv, PoolsIn
<1>8. QED
  BY <1>1, <1>4, <1>5, <1>6, <1>7 DEF Kept, Types, Owned

\* A message that is taken out of a queue and put into one in the same step.
LEMMA ForwardKeeps ==
    ASSUME Types, Owned, PoolInv, live' = live, home' = home, hold' = hold,
           NEW q \in AllQueues, NEW o, Available(o, lanes[q]),
           NEW d \in AllQueues, NEW k \in PushOps,
           d \in Plugins => d = q,
           NEW x, NEW K, IsGot(K, lanes, q, o, x), IsPut(lanes', K, d, k, x)
    PROVE  Kept
<1>1. /\ lanes \in Contents /\ hold \in Hands /\ live \in SUBSET Items
      /\ OwnedIn(lanes, hold, live)
  BY DEF Types, Owned
<1>3. /\ K \in Contents /\ OwnedIn(K, hold, live)
      /\ x \in live /\ x \in Inside(lanes[q]) /\ ~Has(x, K, hold)
      /\ \A y \in Items : Has(y, K, hold) <=> Has(y, lanes, hold) /\ y # x
      /\ \A r \in AllQueues : Inside(K[r]) \subseteq Inside(lanes[r])
  BY <1>1, Get
<1>4. /\ lanes' \in Contents /\ OwnedIn(lanes', hold, live)
      /\ \A y \in Items : Has(y, lanes', hold) <=> Has(y, K, hold) \/ y = x
      /\ \A r \in AllQueues :
            Inside(lanes'[r]) = IF r = d THEN Inside(K[d]) \cup {x} ELSE Inside(K[r])
  BY <1>1, <1>3, Put
<1>5. NoneLost
  BY <1>3, <1>4 DEF NoneLost
<1>6. PoolInv'
  BY <1>3, <1>4, Wiring DEF PoolInv, PoolsIn
<1>7. QED
  BY <1>3, <1>4, <1>5, <1>6 DEF Kept, Types, Owned

\* An item that is made and put into a queue in the same step.
LEMMA MakeKeeps ==
    ASSUME Types, Owned, PoolInv, hold' = hold,
           NEW x \in Items \ live, live' = live \cup {x},
           NEW h \in AllQueues \cup {None}, home' = [home EXCEPT ![x] = h],
           h \in Plugins => x \in Messages,
           NEW d \in AllQueues, NEW k \in PushOps, IsPut(lanes', lanes, d, k, x),
           d \in Plugins => d = h
    PROVE  Kept
<1>1. ~Has(x, lanes, hold)
  BY HasLive DEF Owned
<1>2. OwnedIn(lanes, hold, live')
  BY DEF Owned, OwnedIn
<1>3. live' \in SUBSET Items /\ x \in live' /\ lanes \in Contents /\ hold \in Hands
  BY DEF Types
<1>4. /\ lanes' \in Contents /\ OwnedIn(lanes', hold, live')
      /\ \A y \in Items : Has(y, lanes', hold) <=> Has(y, lanes, hold) \/ y = x
      /\ \A r \in AllQueues :
            Inside(lanes'[r]) = IF r = d THEN Inside(lanes[d]) \cup {x} ELSE Inside(lanes[r])
  BY <1>1, <1>2, <1>3, Put
<1>5. NoneLost
  BY <1>4 DEF NoneLost
<1>6. /\ home' \in [Items -> AllQueues \cup {None}]
      /\ \A y \in Items : home'[y] = IF y = x THEN h ELSE home[y]
  BY DEF Types
<1>7. PoolInv'
  <2>1. ASSUME NEW p \in Plugins, NEW m \in Inside(lanes'[p])
        PROVE  m \in Messages /\ home'[m] = p
    <3>1. CASE m = x
      <4>1. p \in AllQueues /\ x \notin Inside(lanes[p])
        BY <1>1, Wiring DEF Has
      <4>2. p = d
        BY <1>4, <2>1, <3>1, <4>1
      <4>3. QED
        BY <1>6, <3>1, <4>2
    <3>2. CASE m # x
      <4>1. m \in Inside(lanes[p])
        BY <1>4, <2>1, <3>2, Wiring
      <4>2. m \in Messages /\ home[m] = p
        BY <4>1 DEF PoolInv, PoolsIn
      <4>3. QED
        BY <1>6, <3>2, <4>2, Wiring
    <3>3. QED
      BY <3>1, <3>2
  <2>2. ASSUME NEW q \in Queues, NEW y \in Pooled(q) PROVE y \in live' /\ home'[y] = q
    BY <1>6, Wiring DEF PoolInv, PoolsIn
  <2>3. ASSUME NEW y \in Items, home'[y] \in Plugins PROVE y \in Messages
    BY <1>6, <2>3 DEF PoolInv, PoolsIn
  <2>4. QED
    BY <2>1, <2>2, <2>3 DEF PoolInv, PoolsIn
<1>8. QED
  BY <1>3, <1>4, <1>5, <1>6, <1>7 DEF Kept, Types, Owned
-----------------------------------------------------------------------------
(* The actions.                                                            *)

\* The steps that move no item.
LEMMA StillKeeps ==
    ASSUME Types, Owned, PoolInv, UNCHANGED <<lanes, live, home, hold>> PROVE Kept
BY DEF Kept, Types, Owned, PoolInv, NoneLost

\* Every step keeps the items in their places, and only a cancellation at work
\* loses one.
LEMMA ItemStep ==
    ASSUME Inv, [Next]_vars
    PROVE  /\ Types' /\ Owned' /\ PoolInv'
           /\ \/ NoneLost
              \/ \E p \in Plugins :
                    /\ cancel[p] /\ hold[p] # None
                    /\ \A x \in Items : x \in live' /\ ~Has(x, lanes', hold')
                                           => x \in live /\ (Has(x, lanes, hold) => x = hold[p])
<1>1. Types /\ Owned /\ PoolInv
  BY DEF Inv, TypeOK, Types, Contents, Hands
<1>2. ASSUME Kept PROVE Types' /\ Owned' /\ PoolInv' /\ NoneLost
  BY <1>2 DEF Kept
<1>3. ASSUME NEW p \in Plugins, Take(p) PROVE Kept
  <2>1. hold[p] = None
    BY <1>3 DEF Take, CanTake, Inv, TypeOK
  <2>2. QED
    BY <1>1, <1>3, <2>1, TakeKeeps
<1>4. ASSUME NEW p \in Plugins, DeferMessage(p) PROVE Kept
  <2>1. In[p] \in AllQueues /\ In[p] \notin Plugins /\ "push_back_ctrl" \in PushOps
    BY Wiring DEF PushOps
  <2>2. PICK K, x : K = [lanes EXCEPT ![In[p]] = Left(p)] /\ x = Offered(p)
    OBVIOUS
  <2>3. IsGot(K, lanes, In[p], QueueOp(p), x)
    BY <1>1, <2>1, <2>2 DEF IsGot, Left, Offered, Types, Contents
  <2>4. IsPut(lanes', K, In[p], "push_back_ctrl", x)
    BY <1>1, <1>4, <2>1, <2>2 DEF DeferMessage, IsPut, Types, Contents
  <2>5. Available(QueueOp(p), lanes[In[p]]) /\ UNCHANGED <<live, home, hold>>
    BY <1>4 DEF DeferMessage, CanTake, threads
  <2>6. QED
    BY <1>1, <2>1, <2>3, <2>4, <2>5, ForwardKeeps
<1>5. ASSUME NEW p \in Plugins, Handled(p) PROVE Kept
  <2>1. /\ hold[p] # None /\ IsHeld(hold', hold, p, None) /\ home' = home
        /\ PushOrRecycle("push_back", None, hold[p]) /\ "push_back" \in PushOps
    BY <1>5 DEF Handled, Inv, TypeOK, IsHeld, PushOrRecycle, PushOps
  <2>2. QED
    BY <1>1, <2>1, LetGoKeeps
<1>6. ASSUME NEW p \in Plugins, Finish(p) PROVE Kept
  <2>1. /\ hold[p] # None /\ IsHeld(hold', hold, p, None) /\ home' = home
        /\ PushOrRecycle("push_back", Out[p], hold[p]) /\ "push_back" \in PushOps
        /\ Out[p] \in Queues \cup {None}
    BY <1>6, Wiring DEF Finish, Inv, TypeOK, IsHeld, PushOps
  <2>2. QED
    BY <1>1, <2>1, LetGoKeeps
<1>7. ASSUME NEW p \in Plugins, EmitReused(p) PROVE Kept
  <2>1. /\ p \in AllQueues /\ Available("pop_front", lanes[p])
        /\ UNCHANGED <<live, home, hold>>
    BY <1>7, Wiring DEF EmitReused, threads
  <2>2. PICK K, m : /\ K = [lanes EXCEPT ![p] = Remaining("pop_front", @)]
                    /\ m = Taken("pop_front", lanes[p])
    OBVIOUS
  <2>3. IsGot(K, lanes, p, "pop_front", m)
    BY <2>2 DEF IsGot
  <2>4. m \in Inside(lanes[p]) /\ home[m] = p
    <3>1. lanes[p] \in Lanes(Items) /\ Distinct(lanes[p])
      BY <1>1, <2>1 DEF Types, Contents, Owned, OwnedIn
    <3>2. m \in Inside(lanes[p])
      BY <2>1, <2>2, <3>1, TakenOnce
    <3>3. QED
      BY <1>1, <3>2 DEF PoolInv, PoolsIn
  <2>5. CASE Event[p] = None
    <3>1. IsPut(lanes', K, p, "push_front", m) /\ "push_front" \in PushOps
      BY <1>7, <2>2, <2>4, <2>5 DEF EmitReused, IsPut, PushOps
    <3>2. QED
      BY <1>1, <2>1, <2>3, <3>1, ForwardKeeps
  <2>6. CASE Event[p] # None
    <3>1. /\ IsPut(lanes', K, Event[p], EventOp[p], m) /\ EventOp[p] \in PushOps
          /\ Event[p] \in AllQueues /\ Event[p] \notin Plugins
      BY <1>7, <2>2, <2>6, Wiring DEF EmitReused, IsPut
    <3>2. QED
      BY <1>1, <2>1, <2>3, <3>1, ForwardKeeps
  <2>7. QED
    BY <2>5, <2>6
<1>8. ASSUME NEW p \in Plugins, EmitNew(p) PROVE Kept
  <2>1. PICK m \in Messages \ live :
          /\ live' = live \cup {m} /\ home' = [home EXCEPT ![m] = p]
          /\ IF Event[p] = None THEN PutIn("push_front", p, m)
             ELSE PutIn(EventOp[p], Event[p], m)
    BY <1>8 DEF EmitNew
  <2>2. hold' = hold /\ p \in AllQueues /\ m \in Items \ live
    BY <1>8, Wiring DEF EmitNew, threads
  <2>3. CASE Event[p] = None
    <3>1. IsPut(lanes', lanes, p, "push_front", m) /\ "push_front" \in PushOps
      BY <2>1, <2>3 DEF PutIn, IsPut, PushOps
    <3>2. QED
      BY <1>1, <2>1, <2>2, <3>1, MakeKeeps
  <2>4. CASE Event[p] # None
    <3>1. /\ IsPut(lanes', lanes, Event[p], EventOp[p], m) /\ EventOp[p] \in PushOps
          /\ Event[p] \in AllQueues /\ Event[p] \notin Plugins
      BY <2>1, <2>4, Wiring DEF PutIn, IsPut
    <3>2. QED
      BY <1>1, <2>1, <2>2, <3>1, MakeKeeps
  <2>5. QED
    BY <2>3, <2>4
<1>9. ASSUME NEW q \in Queues, NEW o \in {"push_back_ctrl", "push_back"}, Send(q, o) PROVE Kept
  <2>1. PICK x \in Items \ live :
          live' = live \cup {x} /\ home' = [home EXCEPT ![x] = None] /\ PutIn(o, q, x)
    BY <1>9 DEF Send
  <2>2. /\ hold' = hold /\ q \in AllQueues /\ q \notin Plugins /\ o \in PushOps
        /\ IsPut(lanes', lanes, q, o, x) /\ None \notin Plugins
    BY <1>9, <2>1, Wiring DEF Send, threads, PutIn, IsPut, PushOps
  <2>3. QED
    BY <1>1, <2>1, <2>2, MakeKeeps
<1>10. ASSUME NEW p \in Plugins, CancelAtWork(p)
       PROVE  /\ Types' /\ Owned' /\ PoolInv' /\ cancel[p] /\ hold[p] # None
              /\ \A x \in Items : x \in live' /\ ~Has(x, lanes', hold')
                                     => x \in live /\ (Has(x, lanes, hold) => x = hold[p])
  <2>1. /\ hold[p] # None /\ cancel[p] /\ IsHeld(hold', hold, p, None)
        /\ UNCHANGED <<lanes, live, home>>
    BY <1>10 DEF CancelAtWork, Inv, TypeOK, IsHeld
  <2>2. lanes \in Contents /\ hold \in Hands /\ live \in SUBSET Items /\ OwnedIn(lanes, hold, live)
    BY <1>1 DEF Types, Owned
  <2>3. /\ hold' \in Hands /\ OwnedIn(lanes, hold', live)
        /\ \A y \in Items : Has(y, lanes, hold') <=> Has(y, lanes, hold) /\ y # hold[p]
    BY <2>1, <2>2, Drop
  <2>4. QED
    BY <1>1, <2>1, <2>3 DEF Types, Owned, PoolInv
<1>11. ASSUME NEW p \in Plugins,
              \/ Start(p) \/ Stop(p) \/ Joined(p) \/ LoopEnds(p) \/ CancelInInit(p)
              \/ InitOpen(p) \/ InitDone(p) \/ BeginLoop(p) \/ PopReturns(p)
              \/ CancelInWait(p) \/ Uninit(p)
       PROVE  Kept
  <2>1. UNCHANGED <<lanes, live, home, hold>>
    BY <1>11 DEF Start, Stop, Joined, LoopEnds, CancelInInit, InitOpen, InitDone, BeginLoop,
                 PopReturns, CancelInWait, Uninit
  <2>2. QED
    BY <1>1, <2>1, StillKeeps
<1>12. CASE UNCHANGED vars
  <2>1. UNCHANGED <<lanes, live, home, hold>>
    BY <1>12 DEF vars
  <2>2. QED
    BY <1>1, <1>2, <2>1, StillKeeps
<1>13. CASE \E p \in Plugins : CancelAtWork(p)
  BY <1>10, <1>13
<1>14. CASE Next /\ ~\E p \in Plugins : CancelAtWork(p)
  <2>1. Kept
    BY <1>3, <1>4, <1>5, <1>6, <1>7, <1>8, <1>9, <1>11, <1>14 DEF Next, ThreadStep
  <2>2. QED
    BY <1>2, <2>1
<1>15. QED
  BY <1>12, <1>13, <1>14
-----------------------------------------------------------------------------
(* The threads.                                                            *)

\* The types of everything but the items.
Control ==
    /\ phase \in [Plugins -> Phases]
    /\ at \in [Plugins -> [step : Nat \ {0}, got : BOOLEAN]]
    /\ \A p \in Plugins : at[p].step \in DOMAIN Loop[p]
    /\ \A p \in Plugins : hold[p] # None <=> phase[p] \in {"handle", "work"}
    /\ cancel \in [Plugins -> BOOLEAN]
    /\ opened \in [Plugins -> BOOLEAN]
    /\ running \in [Plugins -> BOOLEAN]
    /\ joining \in Plugins \cup {None}
    /\ sent \in 0 .. MaxSends

\* The two halves of the type invariant.
LEMMA TypeParts == TypeOK <=> Types /\ Control
BY DEF TypeOK, Types, Control, Contents, Hands

\* The pops of a loop are numbered from 1.
LEMMA LoopSteps ==
    \A p \in Plugins : /\ DOMAIN Loop[p] = 1 .. Len(Loop[p])
                       /\ Len(Loop[p]) \in Nat \ {0} /\ 1 \in DOMAIN Loop[p]
<1> SUFFICES ASSUME NEW p \in Plugins
             PROVE  /\ DOMAIN Loop[p] = 1 .. Len(Loop[p])
                    /\ Len(Loop[p]) \in Nat \ {0} /\ 1 \in DOMAIN Loop[p]
  OBVIOUS
<1>1. Loop[p] \in Seq(Modes) /\ Loop[p] # <<>>
  BY PluginsAssumption
<1>2. QED
  BY <1>1, LenProperties, EmptySeq

\* The next pop of a loop, or its end.
LEMMA AdvanceStep ==
    ASSUME Control, NEW p \in Plugins, Advance(p)
    PROVE  /\ at' \in [Plugins -> [step : Nat \ {0}, got : BOOLEAN]]
           /\ \A r \in Plugins : at'[r].step \in DOMAIN Loop[r]
           /\ \E ph \in {"pop", "loop"} : phase' = [phase EXCEPT ![p] = ph]
<1>1. /\ at \in [Plugins -> [step : Nat \ {0}, got : BOOLEAN]]
      /\ \A r \in Plugins : at[r].step \in 1 .. Len(Loop[r])
  BY LoopSteps DEF Control
<1>2. CASE at[p].step < Len(Loop[p])
  <2>1. /\ at' = [at EXCEPT ![p] = [step |-> at[p].step + 1, got |-> FALSE]]
        /\ phase' = [phase EXCEPT ![p] = "pop"]
    BY <1>2 DEF Advance, Enter
  <2>2. at[p].step + 1 \in Nat \ {0} /\ at[p].step + 1 \in 1 .. Len(Loop[p])
    BY <1>1, <1>2, LoopSteps
  <2>3. QED
    BY <1>1, <2>1, <2>2, LoopSteps
<1>3. CASE ~(at[p].step < Len(Loop[p]))
  BY <1>1, <1>3, LoopSteps DEF Advance, Enter
<1>4. QED
  BY <1>2, <1>3

\* What follows for Control and StopInv from a step of one thread that only
\* moves it from one phase to another.
LEMMA PhaseStep ==
    ASSUME Control, StopInv, NEW p \in Plugins, NEW ph \in Phases,
           phase' = [phase EXCEPT ![p] = ph], UNCHANGED <<cancel, running, joining, sent>>,
           phase[p] # "none", ph # "none",
           opened' \in [Plugins -> BOOLEAN],
           at' \in [Plugins -> [step : Nat \ {0}, got : BOOLEAN]],
           \A r \in Plugins : at'[r].step \in DOMAIN Loop[r],
           \A r \in Plugins : r # p => hold'[r] = hold[r],
           hold'[p] # None <=> ph \in {"handle", "work"}
    PROVE  Control' /\ StopInv'
<1>1. phase' \in [Plugins -> Phases] /\ \A r \in Plugins : phase'[r] = IF r = p THEN ph ELSE phase[r]
  BY DEF Control
<1>2. \A r \in Plugins : hold'[r] # None <=> phase'[r] \in {"handle", "work"}
  BY <1>1 DEF Control
<1>3. Control'
  BY <1>1, <1>2 DEF Control
<1>4. StopInv'
  BY <1>1 DEF StopInv
<1>5. QED
  BY <1>3, <1>4

\* The threads go through their phases, and the main program stops one of them
\* at a time.
LEMMA ThreadsStep ==
    ASSUME Inv, [Next]_vars PROVE Control' /\ StopInv'
<1>1. Control /\ StopInv /\ Types
  BY TypeParts DEF Inv
<1>2. \A r \in Plugins : hold[r] # None <=> phase[r] \in {"handle", "work"}
  BY <1>1 DEF Control
<1>3. /\ at \in [Plugins -> [step : Nat \ {0}, got : BOOLEAN]]
      /\ \A r \in Plugins : at[r].step \in DOMAIN Loop[r]
      /\ opened \in [Plugins -> BOOLEAN]
  BY <1>1 DEF Control
<1>4. ASSUME NEW p \in Plugins, NEW ph \in Phases, NEW was, was # "none", was \notin {"handle", "work"},
             ph \notin {"none", "handle", "work"},
             phase[p] = was, phase' = [phase EXCEPT ![p] = ph],
             UNCHANGED <<at, hold, cancel, running, joining, sent>>,
             opened' \in [Plugins -> BOOLEAN]
      PROVE  Control' /\ StopInv'
  BY <1>1, <1>2, <1>3, <1>4, PhaseStep
<1>5. ASSUME NEW p \in Plugins, Start(p) PROVE Control' /\ StopInv'
  <2>1. phase[p] = "none" /\ hold[p] = None /\ "init" \in Phases
    BY <1>1, <1>2, <1>5 DEF Start, StopInv, Phases
  <2>2. /\ phase' \in [Plugins -> Phases] /\ running' \in [Plugins -> BOOLEAN]
        /\ \A r \in Plugins : /\ phase'[r] = IF r = p THEN "init" ELSE phase[r]
                              /\ running'[r] = IF r = p THEN TRUE ELSE running[r]
    BY <1>1, <1>5, <2>1 DEF Start, Enter, Control
  <2>3. UNCHANGED <<at, hold, cancel, opened, joining, sent>>
    BY <1>5 DEF Start
  <2>4. \A r \in Plugins : hold'[r] # None <=> phase'[r] \in {"handle", "work"}
    BY <1>2, <2>1, <2>2, <2>3
  <2>5. Control'
    BY <1>1, <2>2, <2>3, <2>4 DEF Control
  <2>6. StopInv'
    BY <1>1, <2>2, <2>3 DEF StopInv
  <2>7. QED
    BY <2>5, <2>6
<1>6. ASSUME NEW p \in Plugins, Stop(p) PROVE Control' /\ StopInv'
  <2>1. /\ cancel' = [cancel EXCEPT ![p] = TRUE] /\ joining = None /\ joining' = p
        /\ UNCHANGED <<phase, at, hold, opened, running, sent>>
    BY <1>6 DEF Stop
  <2>2. \A r \in Plugins : ~cancel[r]
    BY <1>1, <2>1, Wiring DEF StopInv
  <2>3. cancel' \in [Plugins -> BOOLEAN] /\ \A r \in Plugins : cancel'[r] => r = p
    BY <1>1, <2>1, <2>2 DEF Control
  <2>4. Control'
    BY <1>1, <2>1, <2>3 DEF Control
  <2>5. StopInv'
    BY <1>1, <2>1, <2>3 DEF StopInv
  <2>6. QED
    BY <2>4, <2>5
<1>7. ASSUME NEW p \in Plugins, Joined(p) PROVE Control' /\ StopInv'
  <2>1. /\ joining = p /\ phase[p] = "ended" /\ joining' = None
        /\ phase' = [phase EXCEPT ![p] = "none"] /\ running' = [running EXCEPT ![p] = FALSE]
        /\ cancel' = [cancel EXCEPT ![p] = FALSE]
        /\ UNCHANGED <<at, hold, opened, sent>>
    BY <1>7 DEF Joined, Enter
  <2>2. /\ phase' \in [Plugins -> Phases] /\ running' \in [Plugins -> BOOLEAN]
        /\ cancel' \in [Plugins -> BOOLEAN]
        /\ \A r \in Plugins : /\ phase'[r] = IF r = p THEN "none" ELSE phase[r]
                              /\ running'[r] = IF r = p THEN FALSE ELSE running[r]
    BY <1>1, <2>1 DEF Control, Phases
  <2>3. \A r \in Plugins : ~cancel'[r]
    <3>1. \A r \in Plugins : r # p => ~cancel[r]
      BY <1>1, <2>1 DEF StopInv
    <3>2. QED
      BY <1>1, <2>1, <3>1 DEF Control
  <2>4. \A r \in Plugins : hold'[r] # None <=> phase'[r] \in {"handle", "work"}
    BY <1>2, <2>1, <2>2
  <2>5. Control'
    BY <1>1, <2>1, <2>2, <2>4 DEF Control
  <2>6. StopInv'
    BY <1>1, <2>2, <2>3 DEF StopInv
  <2>7. QED
    BY <2>5, <2>6
<1>8. ASSUME NEW p \in Plugins,
             \/ InitDone(p) \/ LoopEnds(p) \/ CancelInWait(p) \/ CancelInInit(p) \/ Uninit(p)
      PROVE  Control' /\ StopInv'
  <2>1. CASE InitDone(p) \/ LoopEnds(p) \/ CancelInWait(p) \/ CancelInInit(p)
    <3>1. /\ phase[p] \in {"init", "loop", "pop"}
          /\ \E ph \in {"loop", "uninit", "ended"} : phase' = [phase EXCEPT ![p] = ph]
          /\ UNCHANGED <<at, hold, cancel, running, joining, sent, opened>>
      BY <2>1 DEF InitDone, LoopEnds, CancelInWait, CancelInInit, Enter, main
    <3>2. QED
      BY <1>3, <1>4, <3>1 DEF Phases
  <2>2. CASE Uninit(p)
    <3>1. /\ phase[p] = "uninit" /\ phase' = [phase EXCEPT ![p] = "ended"]
          /\ UNCHANGED <<at, hold, cancel, running, joining, sent>>
          /\ opened' \in [Plugins -> BOOLEAN]
      BY <1>3, <2>2 DEF Uninit, Enter, main
    <3>2. QED
      BY <1>4, <3>1 DEF Phases
  <2>3. QED
    BY <1>8, <2>1, <2>2
<1>9. ASSUME NEW p \in Plugins, InitOpen(p) PROVE Control' /\ StopInv'
  <2>1. /\ UNCHANGED <<phase, at, hold, cancel, running, joining, sent>>
        /\ opened' \in [Plugins -> BOOLEAN]
    BY <1>3, <1>9 DEF InitOpen, main
  <2>2. QED
    BY <1>1, <2>1 DEF Control, StopInv
<1>10. ASSUME NEW p \in Plugins, BeginLoop(p) PROVE Control' /\ StopInv'
  <2>1. /\ phase[p] = "loop" /\ phase' = [phase EXCEPT ![p] = "pop"]
        /\ at' = [at EXCEPT ![p] = [step |-> 1, got |-> FALSE]]
        /\ UNCHANGED <<hold, cancel, opened, running, joining, sent>>
    BY <1>10 DEF BeginLoop, Enter, main
  <2>2. /\ at' \in [Plugins -> [step : Nat \ {0}, got : BOOLEAN]]
        /\ \A r \in Plugins : at'[r].step \in DOMAIN Loop[r]
    BY <1>3, <2>1, LoopSteps
  <2>3. "pop" \in Phases /\ hold[p] = None
    BY <1>2, <2>1 DEF Phases
  <2>4. QED
    BY <1>1, <1>3, <2>1, <2>2, <2>3, PhaseStep
<1>11. ASSUME NEW p \in Plugins, Take(p) PROVE Control' /\ StopInv'
  <2>1. /\ phase[p] = "pop" /\ at' = [at EXCEPT ![p].got = TRUE]
        /\ UNCHANGED <<cancel, opened, running, joining, sent>>
    BY <1>11 DEF Take, CanTake, main
  <2>2. PICK ph \in {"work", "handle"} : phase' = [phase EXCEPT ![p] = ph]
    BY <1>11 DEF Take, Enter
  <2>3. /\ at' \in [Plugins -> [step : Nat \ {0}, got : BOOLEAN]]
        /\ \A r \in Plugins : at'[r].step \in DOMAIN Loop[r]
    BY <1>3, <2>1
  <2>4. hold'[p] # None /\ \A r \in Plugins : r # p => hold'[r] = hold[r]
    <3>1. hold' = [hold EXCEPT ![p] = Offered(p)] /\ Available(QueueOp(p), lanes[In[p]])
      BY <1>11 DEF Take, CanTake
    <3>2. lanes[In[p]] \in Lanes(Items)
      BY <1>1, Wiring DEF Types, Contents
    <3>3. Offered(p) \in Items
      BY <3>1, <3>2, TakenItem DEF Offered
    <3>4. QED
      BY <1>1, <3>1, <3>3, Wiring DEF Types, Hands
  <2>5. ph \in Phases
    BY DEF Phases
  <2>6. QED
    BY <1>1, <1>3, <2>1, <2>2, <2>3, <2>4, <2>5, PhaseStep
<1>12. ASSUME NEW p \in Plugins, Handled(p) \/ CancelAtWork(p) PROVE Control' /\ StopInv'
  <2>1. /\ phase[p] \in {"handle", "work"} /\ hold' = [hold EXCEPT ![p] = None]
        /\ UNCHANGED <<at, cancel, opened, running, joining, sent>>
    BY <1>12 DEF Handled, CancelAtWork, main
  <2>2. PICK ph \in {"pop", "uninit"} : phase' = [phase EXCEPT ![p] = ph]
    BY <1>12 DEF Handled, CancelAtWork, Enter
  <2>3. hold'[p] = None /\ \A r \in Plugins : r # p => hold'[r] = hold[r]
    BY <1>1, <2>1 DEF Types, Hands
  <2>4. ph \in Phases
    BY DEF Phases
  <2>5. QED
    BY <1>1, <1>3, <2>1, <2>2, <2>3, <2>4, PhaseStep
<1>13. ASSUME NEW p \in Plugins, PopReturns(p) \/ Finish(p) PROVE Control' /\ StopInv'
  <2>1. /\ phase[p] \in {"pop", "work"} /\ Advance(p)
        /\ UNCHANGED <<cancel, opened, running, joining, sent>>
    BY <1>13 DEF PopReturns, Finish, main
  <2>2. /\ at' \in [Plugins -> [step : Nat \ {0}, got : BOOLEAN]]
        /\ \A r \in Plugins : at'[r].step \in DOMAIN Loop[r]
        /\ \E ph \in {"pop", "loop"} : phase' = [phase EXCEPT ![p] = ph]
    BY <1>1, <2>1, AdvanceStep
  <2>3. PICK ph \in {"pop", "loop"} : phase' = [phase EXCEPT ![p] = ph]
    BY <2>2
  <2>4. hold'[p] = None /\ \A r \in Plugins : r # p => hold'[r] = hold[r]
    <3>1. CASE PopReturns(p)
      BY <1>2, <3>1 DEF PopReturns
    <3>2. CASE Finish(p)
      BY <1>1, <3>2 DEF Finish, Types, Hands
    <3>3. QED
      BY <1>13, <3>1, <3>2
  <2>5. ph \in Phases
    BY DEF Phases
  <2>6. QED
    BY <1>1, <1>3, <2>1, <2>2, <2>3, <2>4, <2>5, PhaseStep
<1>14. ASSUME NEW p \in Plugins, DeferMessage(p) \/ EmitReused(p) \/ EmitNew(p)
       PROVE  Control' /\ StopInv'
  <2>1. UNCHANGED <<phase, at, hold, cancel, opened, running, joining, sent>>
    BY <1>14 DEF DeferMessage, EmitReused, EmitNew, threads, main
  <2>2. QED
    BY <1>1, <2>1 DEF Control, StopInv
<1>15. ASSUME NEW q \in Queues, NEW o \in {"push_back_ctrl", "push_back"}, Send(q, o)
       PROVE  Control' /\ StopInv'
  <2>1. /\ UNCHANGED <<phase, at, hold, cancel, opened, running, joining>>
        /\ sent < MaxSends /\ sent' = sent + 1
    BY <1>15 DEF Send, threads
  <2>2. sent' \in 0 .. MaxSends
    BY <1>1, <2>1, PluginsAssumption DEF Control
  <2>3. QED
    BY <1>1, <2>1, <2>2 DEF Control, StopInv
<1>16. CASE UNCHANGED vars
  BY <1>1, <1>16 DEF vars, Control, StopInv
<1>17. QED
  BY <1>5, <1>6, <1>7, <1>8, <1>9, <1>10, <1>11, <1>12, <1>13, <1>14, <1>15, <1>16
  DEF Next, ThreadStep
-----------------------------------------------------------------------------
(* The initial states, and the theorems.                                   *)

\* The pool of an image is the one queue that it is put into from the start.
LEMMA PoolOfImage ==
    /\ \A x \in Items : PoolOf(x) \in Queues \cup {None}
    /\ \A q \in Queues : \A x \in Pooled(q) : PoolOf(x) = q
<1>1. ASSUME NEW q \in Queues, NEW x \in Pooled(q) PROVE PoolOf(x) = q
  <2>1. \A r \in Queues : x \in Pooled(r) => r = q
    BY <1>1, PluginsAssumption
  <2>2. (CHOOSE r \in Queues : x \in Pooled(r)) = q
    BY <1>1, <2>1
  <2>3. QED
    BY <1>1, <2>2 DEF PoolOf
<1>2. ASSUME NEW x \in Items PROVE PoolOf(x) \in Queues \cup {None}
  BY DEF PoolOf
<1>3. QED
  BY <1>1, <1>2

\* The queues are made with their pools in them, and no thread runs.
LEMMA InitInv == Init => Inv
<1> SUFFICES ASSUME Init PROVE Inv
  OBVIOUS
<1>1. \A q \in Queues : /\ Pool[q] \in Seq(Items) /\ IsInjective(Pool[q])
                        /\ Range(Pool[q]) = Pooled(q) /\ Pooled(q) \subseteq Items
  <2>1. ASSUME NEW q \in Queues PROVE Pool[q] \in Seq(Items)
    BY PluginsAssumption DEF Items
  <2>2. QED
    BY <2>1, Wiring, PluginsAssumption DEF Pooled
<1>2. \A q \in AllQueues : /\ lanes[q].Q = (IF q \in Queues THEN Pool[q] ELSE <<>>)
                           /\ lanes[q].Qctrl = <<>>
  BY DEF Init, EmptyLanes
<1>3. <<>> \in Seq(Items) /\ IsInjective(<<>>) /\ Range(<<>>) = {}
  BY EmptySeq DEF IsInjective, Range
<1>4. lanes \in Contents
  BY <1>1, <1>3 DEF Init, EmptyLanes, Contents, Lanes
<1>5. \A q \in AllQueues : /\ Distinct(lanes[q])
                           /\ Inside(lanes[q]) = IF q \in Queues THEN Pooled(q) ELSE {}
  BY <1>1, <1>2, <1>3 DEF Distinct, Inside
<1>6. live \in SUBSET Items /\ \A q \in Queues : Pooled(q) \subseteq live
  BY <1>1 DEF Init
<1>7. Types
  BY <1>4, <1>6, PoolOfImage, Wiring DEF Init, Types, Hands
<1>8. Owned
  <2>1. \A q, r \in AllQueues : q # r => Inside(lanes[q]) \cap Inside(lanes[r]) = {}
    BY <1>5, PluginsAssumption
  <2>2. \A q \in AllQueues : Distinct(lanes[q]) /\ Inside(lanes[q]) \subseteq live
    BY <1>5, <1>6
  <2>3. \A p \in Plugins : hold[p] = None
    BY DEF Init
  <2>4. QED
    BY <2>1, <2>2, <2>3 DEF Owned, OwnedIn
<1>9. PoolInv
  <2>1. \A p \in Plugins : Inside(lanes[p]) = {}
    BY <1>5, Wiring
  <2>2. \A x \in Items : home[x] = PoolOf(x)
    BY DEF Init
  <2>3. \A q \in Queues : \A x \in Pooled(q) : x \in live /\ home[x] = q
    <3>1. ASSUME NEW q \in Queues, NEW x \in Pooled(q) PROVE x \in live /\ home[x] = q
      <4>1. x \in Items /\ x \in live
        BY <1>1, <1>6
      <4>2. QED
        BY <2>2, <4>1, PoolOfImage
    <3>2. QED
      BY <3>1
  <2>4. \A x \in Items : home[x] \notin Plugins
    BY <2>2, PoolOfImage, Wiring
  <2>5. QED
    BY <2>1, <2>3, <2>4 DEF PoolInv, PoolsIn
<1>10. Control
  BY LoopSteps, PluginsAssumption DEF Init, Control, Phases
<1>11. StopInv
  BY DEF Init, StopInv
<1>12. QED
  BY <1>7, <1>8, <1>9, <1>10, <1>11, TypeParts DEF Inv

\* Has says the same of an item as the places of the module Plugins.
LEMMA PlacesHave ==
    ASSUME NEW L, NEW H \in Hands, NEW x \in Items
    PROVE  x \in (UNION {ItemsOf(L[q]) : q \in AllQueues}) \cup (Range(H) \ {None}) <=> Has(x, L, H)
<1>1. x \in Range(H) <=> \E p \in Plugins : H[p] = x
  BY DEF Hands, Range
<1>2. x # None
  BY Wiring
<1>3. x \in UNION {ItemsOf(L[q]) : q \in AllQueues} <=> \E q \in AllQueues : x \in Inside(L[q])
  <2>1. \A q \in AllQueues : ItemsOf(L[q]) = Inside(L[q])
    BY DEF ItemsOf, Inside
  <2>2. QED
    BY <2>1
<1>4. QED
  BY <1>1, <1>2, <1>3 DEF Has

\* The inductive invariant holds in every state.
THEOREM Invariance == Spec => []Inv
<1>1. Inv /\ [Next]_vars => Inv'
  <2>1. TypeOK' <=> Types' /\ Control'
    BY DEF TypeOK, Types, Control, Contents, Hands
  <2>2. QED
    BY <2>1, ItemStep, ThreadsStep DEF Inv
<1>2. QED
  BY <1>1, InitInv, PTL DEF Spec

\* The variables keep their types, whatever the plugins and their loops are.
THEOREM TypeCorrect == Spec => []TypeOK
<1>1. Inv => TypeOK
  BY DEF Inv
<1>2. QED
  BY <1>1, Invariance, PTL

\* Through every push, pop, recycling, event and cancellation, an allocated
\* image or message is in one queue or in the hands of one thread, and a deleted
\* one is nowhere.
THEOREM Ownership == Spec => []SingleOwner
<1>1. Inv => SingleOwner
  <2> SUFFICES ASSUME Inv PROVE SingleOwner
    OBVIOUS
  <2>1. Types /\ Owned
    BY TypeParts DEF Inv
  <2>2. Placed \subseteq live
    <3>1. ASSUME NEW x \in Range(hold) \ {None} PROVE x \in live
      <4>1. PICK p \in Plugins : x = hold[p]
        BY <2>1, <3>1 DEF Types, Hands, Range
      <4>2. QED
        BY <2>1, <3>1, <4>1 DEF Owned, OwnedIn
    <3>2. ASSUME NEW q \in AllQueues PROVE ItemsOf(lanes[q]) \subseteq live
      BY <2>1 DEF Owned, OwnedIn, ItemsOf, Inside
    <3>3. UNION {ItemsOf(lanes[q]) : q \in AllQueues} \subseteq live
      BY <3>2
    <3>4. ASSUME NEW x \in Placed PROVE x \in live
      <4>1. x \in UNION {ItemsOf(lanes[q]) : q \in AllQueues} \/ x \in Range(hold) \ {None}
        BY <3>4 DEF Placed
      <4>2. QED
        BY <3>1, <3>3, <4>1
    <3>5. QED
      BY <3>4
  <2>3. ASSUME NEW s \in Slots
        PROVE  /\ s[1] \in AllQueues /\ s[2] \in {"Q", "Qctrl"}
               /\ s[3] \in DOMAIN lanes[s[1]][s[2]]
               /\ s = <<s[1], s[2], s[3]>>
    BY <2>3 DEF Slots
  <2>4. ASSUME NEW s \in Slots
        PROVE  lanes[s[1]][s[2]][s[3]] \in Inside(lanes[s[1]])
    <3>1. lanes[s[1]][s[2]] = lanes[s[1]].Q \/ lanes[s[1]][s[2]] = lanes[s[1]].Qctrl
      BY <2>3
    <3>2. QED
      BY <2>3, <3>1 DEF Inside, Range
  <2>5. ASSUME NEW s \in Slots, NEW t \in Slots,
               lanes[s[1]][s[2]][s[3]] = lanes[t[1]][t[2]][t[3]]
        PROVE  s = t
    <3>1. s[1] = t[1]
      BY <2>1, <2>3, <2>4, <2>5 DEF Owned, OwnedIn
    <3>2. Distinct(lanes[s[1]])
      BY <2>1, <2>3 DEF Owned, OwnedIn
    <3>3. s[2] = t[2]
      BY <2>3, <2>5, <3>1, <3>2 DEF Distinct, Range
    <3>4. s[3] = t[3]
      BY <2>3, <2>5, <3>1, <3>2, <3>3 DEF Distinct, IsInjective
    <3>5. QED
      BY <2>3, <3>1, <3>3, <3>4
  <2>6. ASSUME NEW p \in Busy
        PROVE  /\ \A s \in Slots : lanes[s[1]][s[2]][s[3]] # hold[p]
               /\ \A r \in Busy : hold[r] = hold[p] => r = p
    <3>1. p \in Plugins /\ hold[p] # None
      BY <2>6 DEF Busy
    <3>2. \A s \in Slots : lanes[s[1]][s[2]][s[3]] # hold[p]
      BY <2>1, <2>3, <2>4, <3>1 DEF Owned, OwnedIn
    <3>3. \A r \in Busy : hold[r] = hold[p] => r = p
      BY <2>1, <3>1 DEF Owned, OwnedIn, Busy
    <3>4. QED
      BY <3>2, <3>3
  <2>7. QED
    BY <2>2, <2>5, <2>6 DEF SingleOwner
<1>2. QED
  BY <1>1, Invariance, PTL

\* getMessage finds nothing in Qmessage but messages that it made, and no image
\* leaves its pool for good by being deleted or adopted by another queue.
THEOREM Pools == Spec => []PoolsKept
<1>1. Inv => PoolsKept
  BY DEF Inv, PoolInv, PoolsIn, PoolsKept, ItemsOf, Inside
<1>2. QED
  BY <1>1, Invariance, PTL

\* An item is lost only by a stop() that cancels the thread working on it.
THEOREM LossOnlyByCancel == Spec => LostOnlyByCancel
<1>1. ASSUME TypeOK, TypeOK', NEW x \in Items
      PROVE  (x \in Placed <=> Has(x, lanes, hold)) /\ (x \in Placed' <=> Has(x, lanes', hold'))
  <2>1. hold \in Hands /\ hold' \in Hands
    BY <1>1 DEF TypeOK, Hands
  <2>2. QED
    BY <2>1, PlacesHave DEF Placed
<1>2. Inv /\ [Next]_vars =>
        [\A x \in Lost' \ Lost : \E p \in Plugins : joining = p /\ hold[p] = x]_vars
  <2> SUFFICES ASSUME Inv, [Next]_vars, NEW x \in Lost' \ Lost
               PROVE  \E p \in Plugins : joining = p /\ hold[p] = x
    OBVIOUS
  <2>1. TypeOK /\ TypeOK' /\ StopInv
    BY ItemStep, ThreadsStep DEF Inv, TypeOK, Types, Control, Contents, Hands
  <2>2. x \in live' /\ x \notin Placed' /\ ~(x \in live /\ x \notin Placed)
    BY DEF Lost
  <2>3. x \in Items
    BY <2>1, <2>2 DEF TypeOK
  <2>4. ~Has(x, lanes', hold')
    BY <1>1, <2>1, <2>2, <2>3
  <2>5. ~(x \in live /\ ~Has(x, lanes, hold))
    BY <1>1, <2>1, <2>2, <2>3
  <2>6. PICK p \in Plugins : /\ cancel[p] /\ hold[p] # None
                             /\ x \in live /\ (Has(x, lanes, hold) => x = hold[p])
    BY <2>2, <2>3, <2>4, <2>5, ItemStep DEF NoneLost
  <2>7. joining = p /\ x = hold[p]
    BY <2>1, <2>5, <2>6 DEF StopInv
  <2>8. QED
    BY <2>7
<1>3. QED
  BY <1>2, Invariance, PTL DEF Spec, LostOnlyByCancel
=============================================================================
