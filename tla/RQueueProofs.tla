---------------------------- MODULE RQueueProofs ----------------------------
(***************************************************************************)
(* Machine-checked proofs about RQueue, for any number of threads and      *)
(* items and any choice of the operations each thread calls.               *)
(***************************************************************************)
EXTENDS RQueue, Functions, SequenceTheorems, FiniteSetTheorems, TLAPS

-----------------------------------------------------------------------------
(* Elements taken out of a sequence and put into one.                      *)

Without(s, i) == SubSeq(s, 1, i - 1) \o SubSeq(s, i + 1, Len(s))
With(s, i, e) == SubSeq(s, 1, i - 1) \o <<e>> \o SubSeq(s, i, Len(s))

\* The elements before position i.
LEMMA FrontPart ==
    ASSUME NEW S, NEW s \in Seq(S), NEW i \in 1 .. Len(s) + 1
    PROVE  /\ SubSeq(s, 1, i - 1) \in Seq(S) /\ Len(SubSeq(s, 1, i - 1)) = i - 1
           /\ \A j \in 1 .. i - 1 : SubSeq(s, 1, i - 1)[j] = s[j]
<1> DEFINE l == SubSeq(s, 1, i - 1)
<1>1. Len(s) \in Nat /\ i \in Nat /\ i >= 1 /\ i <= Len(s) + 1 /\ \A j \in 1 .. Len(s) : s[j] \in S
  BY LenProperties, ElementOfSeq
<1>2. /\ l \in Seq(S) /\ Len(l) = IF 1 <= i - 1 THEN i - 1 - 1 + 1 ELSE 0
      /\ \A j \in 1 .. (i - 1) - 1 + 1 : l[j] = s[1 + j - 1]
  BY <1>1, SubSeqProperties
<1>3. \A j \in 1 .. i - 1 : j \in 1 .. (i - 1) - 1 + 1 /\ 1 + j - 1 = j
  BY <1>1
<1> HIDE DEF l
<1>4. QED
  BY <1>1, <1>2, <1>3 DEF l

\* The elements from position k on.
LEMMA BackPart ==
    ASSUME NEW S, NEW s \in Seq(S), NEW k \in 1 .. Len(s) + 1
    PROVE  /\ SubSeq(s, k, Len(s)) \in Seq(S) /\ Len(SubSeq(s, k, Len(s))) = Len(s) + 1 - k
           /\ \A j \in 1 .. Len(s) + 1 - k : SubSeq(s, k, Len(s))[j] = s[j + k - 1]
<1> DEFINE r == SubSeq(s, k, Len(s))
<1>1. Len(s) \in Nat /\ k \in Nat /\ k >= 1 /\ k <= Len(s) + 1 /\ \A j \in 1 .. Len(s) : s[j] \in S
  BY LenProperties, ElementOfSeq
<1>2. /\ r \in Seq(S) /\ Len(r) = IF k <= Len(s) THEN Len(s) - k + 1 ELSE 0
      /\ \A j \in 1 .. Len(s) - k + 1 : r[j] = s[k + j - 1]
  BY <1>1, SubSeqProperties
<1>3. \A j \in 1 .. Len(s) + 1 - k : j \in 1 .. Len(s) - k + 1 /\ k + j - 1 = j + k - 1
  BY <1>1
<1> HIDE DEF r
<1>4. QED
  BY <1>1, <1>2, <1>3 DEF r

\* The elements of a sequence without its element i.
LEMMA WithoutElements ==
    ASSUME NEW S, NEW s \in Seq(S), NEW i \in 1 .. Len(s)
    PROVE  /\ Without(s, i) \in Seq(S) /\ Len(Without(s, i)) = Len(s) - 1
           /\ \A j \in 1 .. Len(s) - 1 : Without(s, i)[j] = IF j < i THEN s[j] ELSE s[j + 1]
<1> DEFINE l == SubSeq(s, 1, i - 1)
           r == SubSeq(s, i + 1, Len(s))
<1>1. Len(s) \in Nat /\ i \in Nat /\ i >= 1 /\ i <= Len(s)
  BY LenProperties
<1>2. i \in 1 .. Len(s) + 1 /\ i + 1 \in 1 .. Len(s) + 1
  BY <1>1
<1>3. l \in Seq(S) /\ Len(l) = i - 1 /\ \A j \in 1 .. i - 1 : l[j] = s[j]
  BY <1>2, FrontPart
<1>4. /\ r \in Seq(S) /\ Len(r) = Len(s) + 1 - (i + 1)
      /\ \A j \in 1 .. Len(s) + 1 - (i + 1) : r[j] = s[j + (i + 1) - 1]
  BY <1>2, BackPart
<1> HIDE DEF l, r
<1>5. /\ l \o r \in Seq(S) /\ Len(l \o r) = Len(l) + Len(r)
      /\ \A j \in 1 .. Len(l) + Len(r) : (l \o r)[j] = IF j <= Len(l) THEN l[j] ELSE r[j - Len(l)]
  BY <1>3, <1>4, ConcatProperties
<1>6. ASSUME NEW j \in 1 .. Len(s) - 1
      PROVE  (l \o r)[j] = IF j < i THEN s[j] ELSE s[j + 1]
  <2>1. CASE j < i
    BY <1>1, <1>3, <1>4, <1>5, <2>1
  <2>2. CASE j >= i
    <3>1. (l \o r)[j] = r[j - (i - 1)] /\ j - (i - 1) \in 1 .. Len(s) + 1 - (i + 1)
      BY <1>1, <1>3, <1>4, <1>5, <2>2
    <3>2. r[j - (i - 1)] = s[(j - (i - 1)) + (i + 1) - 1]
      BY <1>4, <3>1
    <3>3. (j - (i - 1)) + (i + 1) - 1 = j + 1
      BY <1>1
    <3>4. QED
      BY <1>1, <2>2, <3>1, <3>2, <3>3
  <2>3. j < i \/ j >= i
    BY <1>1
  <2>4. QED
    BY <2>1, <2>2, <2>3
<1>7. Len(l \o r) = Len(s) - 1
  BY <1>1, <1>3, <1>4, <1>5
<1>8. QED
  BY <1>5, <1>6, <1>7 DEF Without, l, r

\* The elements of a sequence into which e was put at position i.
LEMMA WithElements ==
    ASSUME NEW S, NEW s \in Seq(S), NEW i \in 1 .. Len(s) + 1, NEW e \in S
    PROVE  /\ With(s, i, e) \in Seq(S) /\ Len(With(s, i, e)) = Len(s) + 1
           /\ \A j \in 1 .. Len(s) + 1 :
                 With(s, i, e)[j] = IF j < i THEN s[j] ELSE IF j = i THEN e ELSE s[j - 1]
<1> DEFINE l == SubSeq(s, 1, i - 1)
           r == SubSeq(s, i, Len(s))
           m == <<e>>
<1>1. Len(s) \in Nat /\ i \in Nat /\ i >= 1 /\ i <= Len(s) + 1
  BY LenProperties
<1>2. l \in Seq(S) /\ Len(l) = i - 1 /\ \A j \in 1 .. i - 1 : l[j] = s[j]
  BY FrontPart
<1>3. /\ r \in Seq(S) /\ Len(r) = Len(s) + 1 - i
      /\ \A j \in 1 .. Len(s) + 1 - i : r[j] = s[j + i - 1]
  BY BackPart
<1>4. m \in Seq(S) /\ Len(m) = 1 /\ m[1] = e
  OBVIOUS
<1> HIDE DEF l, r, m
<1> DEFINE lm == l \o m
<1>5. /\ lm \in Seq(S) /\ Len(lm) = Len(l) + Len(m)
      /\ \A j \in 1 .. Len(l) + Len(m) : lm[j] = IF j <= Len(l) THEN l[j] ELSE m[j - Len(l)]
  BY <1>2, <1>4, ConcatProperties
<1> HIDE DEF lm
<1>6. /\ lm \o r \in Seq(S) /\ Len(lm \o r) = Len(lm) + Len(r)
      /\ \A j \in 1 .. Len(lm) + Len(r) : (lm \o r)[j] = IF j <= Len(lm) THEN lm[j] ELSE r[j - Len(lm)]
  <2>1. lm \in Seq(S) /\ r \in Seq(S)
    BY <1>3, <1>5
  <2>2. QED
    BY <2>1, ConcatProperties
<1>7. Len(lm) = i /\ Len(lm \o r) = Len(s) + 1
  BY <1>1, <1>2, <1>3, <1>4, <1>5, <1>6
<1>8. ASSUME NEW j \in 1 .. Len(s) + 1
      PROVE  (lm \o r)[j] = IF j < i THEN s[j] ELSE IF j = i THEN e ELSE s[j - 1]
  <2>1. CASE j < i
    <3>1. (lm \o r)[j] = lm[j] /\ lm[j] = l[j]
      <4>1. /\ j \in 1 .. Len(lm) + Len(r) /\ j <= Len(lm)
            /\ j \in 1 .. Len(l) + Len(m) /\ j <= Len(l)
        BY <1>1, <1>2, <1>3, <1>4, <1>7, <2>1
      <4>2. QED
        BY <1>5, <1>6, <4>1
    <3>2. QED
      BY <1>1, <1>2, <2>1, <3>1
  <2>2. CASE j = i
    <3>1. (lm \o r)[j] = lm[j] /\ lm[j] = m[j - (i - 1)] /\ j - (i - 1) = 1
      BY <1>1, <1>2, <1>3, <1>4, <1>5, <1>6, <1>7, <2>2
    <3>2. QED
      BY <1>1, <1>4, <2>2, <3>1
  <2>3. CASE j > i
    <3>1. (lm \o r)[j] = r[j - i] /\ j - i \in 1 .. Len(s) + 1 - i
      BY <1>1, <1>3, <1>6, <1>7, <2>3
    <3>2. r[j - i] = s[(j - i) + i - 1] /\ (j - i) + i - 1 = j - 1
      BY <1>1, <1>3, <3>1
    <3>3. QED
      BY <1>1, <2>3, <3>1, <3>2
  <2>4. j < i \/ j = i \/ j > i
    BY <1>1
  <2>5. QED
    BY <2>1, <2>2, <2>3, <2>4
<1>9. QED
  BY <1>6, <1>7, <1>8 DEF With, l, r, m, lm

-----------------------------------------------------------------------------
(* What the pushes and pops do to the two deques.                          *)

\* A push of an item leaves two deques of items.
LEMMA PushedLanes ==
    ASSUME NEW T, NEW o \in PushOps, NEW l \in Lanes(T), NEW x \in T
    PROVE  Pushed(o, l, x) \in Lanes(T)
<1>1. <<x>> \in Seq(T)
  OBVIOUS
<1>2. <<x>> \o l.Q \in Seq(T)
  BY <1>1, ConcatProperties DEF Lanes
<1>3. Append(l.Q, x) \in Seq(T) /\ Append(l.Qctrl, x) \in Seq(T)
  BY AppendProperties DEF Lanes
<1>4. CASE o = "push_front"
  BY <1>2, <1>4 DEF Pushed, Lanes
<1>5. CASE o = "push_back"
  BY <1>3, <1>5 DEF Pushed, Lanes
<1>6. CASE o = "push_back_ctrl"
  BY <1>3, <1>6 DEF Pushed, Lanes
<1>7. QED
  BY <1>4, <1>5, <1>6 DEF PushOps

\* A push that does not signal found its lane non-empty, so it makes no pop
\* possible that was not possible before.
LEMMA SilentPush ==
    ASSUME NEW T, NEW o \in PushOps, NEW l \in Lanes(T), NEW x \in T,
           ~Signals(o, l),
           NEW w, ~Available(w, l)
    PROVE  ~Available(w, Pushed(o, l, x))
<1>1. CASE o = "push_back_ctrl"
  BY <1>1 DEF Signals, Available, FromCtrl, FromReg, Pushed, Lanes
<1>2. CASE o \in {"push_front", "push_back"}
  BY <1>2 DEF Signals, Available, FromCtrl, FromReg, Pushed, Lanes
<1>3. QED
  BY <1>1, <1>2 DEF PushOps

\* A pop takes an item out of the lane and leaves two deques of items.
LEMMA TakenItem ==
    ASSUME NEW T, NEW o, NEW l \in Lanes(T), Available(o, l)
    PROVE  /\ Taken(o, l) \in T
           /\ Remaining(o, l) \in Lanes(T)
<1>1. CASE FromCtrl(o, l)
  <2>1. Head(l.Qctrl) \in T /\ Tail(l.Qctrl) \in Seq(T)
    BY <1>1, HeadTailProperties DEF FromCtrl, Lanes
  <2>2. QED
    BY <1>1, <2>1 DEF Taken, Remaining, Lanes
<1>2. CASE ~FromCtrl(o, l)
  <2>1. l.Q \in Seq(T) /\ l.Q # <<>> /\ Len(l.Q) \in Nat \ {0}
    BY <1>2, EmptySeq DEF Available, FromReg, Lanes
  <2>2. Head(l.Q) \in T /\ Tail(l.Q) \in Seq(T)
    BY <2>1, HeadTailProperties
  <2>3. \A i \in 1 .. Len(l.Q) : l.Q[i] \in T
    BY <2>1, ElementOfSeq
  <2>4. SubSeq(l.Q, 1, Len(l.Q) - 1) \in Seq(T)
    BY <2>1, <2>3, SubSeqProperties
  <2>5. CASE o \in BackOps
    BY <1>2, <2>1, <2>3, <2>4, <2>5 DEF Taken, Remaining, Lanes
  <2>6. CASE o \notin BackOps
    BY <1>2, <2>2, <2>6 DEF Taken, Remaining, Lanes
  <2>7. QED
    BY <2>5, <2>6
<1>3. QED
  BY <1>1, <1>2

\* A pop makes no other pop possible.
LEMMA TakingEnablesNothing ==
    ASSUME NEW T, NEW o, NEW l \in Lanes(T), Available(o, l),
           NEW w, ~Available(w, l)
    PROVE  ~Available(w, Remaining(o, l))
<1>1. CASE FromCtrl(o, l)
  BY <1>1 DEF Available, FromCtrl, FromReg, Remaining, Lanes
<1>2. CASE ~FromCtrl(o, l) /\ o \in BackOps
  BY <1>2 DEF Available, FromCtrl, FromReg, Remaining, Lanes
<1>3. CASE ~FromCtrl(o, l) /\ o \notin BackOps
  BY <1>3 DEF Available, FromCtrl, FromReg, Remaining, Lanes
<1>4. QED
  BY <1>1, <1>2, <1>3
-----------------------------------------------------------------------------
(* An item is in one place.                                                *)

\* A new element at either end keeps a sequence without repetition.
LEMMA InjectiveAppend ==
    ASSUME NEW T, NEW s \in Seq(T), NEW x \in T, IsInjective(s), x \notin Range(s)
    PROVE  IsInjective(Append(s, x)) /\ Range(Append(s, x)) = Range(s) \cup {x}
<1> DEFINE a == Append(s, x)
<1>1. /\ DOMAIN s = 1 .. Len(s) /\ DOMAIN a = 1 .. Len(s) + 1 /\ Len(s) \in Nat
      /\ \A i \in 1 .. Len(s) : a[i] = s[i]
      /\ a[Len(s) + 1] = x
  BY AppendProperties, LenProperties
<1> HIDE DEF a
<1>2. \A i \in 1 .. Len(s) : s[i] # x
  BY <1>1 DEF Range
<1>3. IsInjective(a)
  BY <1>1, <1>2 DEF IsInjective
<1>4. Range(a) = Range(s) \cup {x}
  BY <1>1 DEF Range
<1>5. QED
  BY <1>3, <1>4 DEF a

\* So does one in front of it.
LEMMA InjectiveCons ==
    ASSUME NEW T, NEW s \in Seq(T), NEW x \in T, IsInjective(s), x \notin Range(s)
    PROVE  IsInjective(<<x>> \o s) /\ Range(<<x>> \o s) = Range(s) \cup {x}
<1> DEFINE c == <<x>> \o s
<1>1. <<x>> \in Seq(T) /\ Len(<<x>>) = 1 /\ <<x>>[1] = x
  OBVIOUS
<1>2. /\ DOMAIN s = 1 .. Len(s) /\ DOMAIN c = 1 .. Len(s) + 1 /\ Len(s) \in Nat
      /\ \A i \in 1 .. Len(s) + 1 : c[i] = IF i = 1 THEN x ELSE s[i - 1]
  BY <1>1, ConcatProperties, LenProperties
<1> HIDE DEF c
<1>3. c[1] = x /\ \A i \in 2 .. Len(s) + 1 : c[i] = s[i - 1] /\ i - 1 \in DOMAIN s
  BY <1>2
<1>4. \A i \in DOMAIN s : s[i] # x /\ c[i + 1] = s[i] /\ i + 1 \in DOMAIN c
  BY <1>2 DEF Range
<1>5. ASSUME NEW i \in DOMAIN c, NEW j \in DOMAIN c, c[i] = c[j] PROVE i = j
  <2>1. CASE i = 1 \/ j = 1
    BY <1>2, <1>3, <1>4, <1>5, <2>1
  <2>2. CASE i # 1 /\ j # 1
    <3>1. i - 1 \in DOMAIN s /\ j - 1 \in DOMAIN s /\ s[i - 1] = s[j - 1]
      BY <1>2, <1>3, <1>5, <2>2
    <3>2. i - 1 = j - 1
      BY <3>1 DEF IsInjective
    <3>3. QED
      BY <1>2, <3>2
  <2>3. QED
    BY <2>1, <2>2
<1>6. IsInjective(c)
  BY <1>5 DEF IsInjective
<1>7. Range(c) \subseteq Range(s) \cup {x}
  <2>1. ASSUME NEW i \in DOMAIN c PROVE c[i] \in Range(s) \cup {x}
    BY <1>2, <1>3 DEF Range
  <2>2. QED
    BY <2>1 DEF Range
<1>8. Range(s) \cup {x} \subseteq Range(c)
  <2>1. x \in Range(c)
    BY <1>2, <1>3 DEF Range
  <2>2. ASSUME NEW i \in DOMAIN s PROVE s[i] \in Range(c)
    BY <1>4 DEF Range
  <2>3. QED
    BY <2>1, <2>2 DEF Range
<1>9. QED
  BY <1>6, <1>7, <1>8 DEF c

\* Taking the first or the last element away leaves the others, and them once.
LEMMA InjectiveTail ==
    ASSUME NEW T, NEW s \in Seq(T), s # <<>>, IsInjective(s)
    PROVE  /\ IsInjective(Tail(s)) /\ Head(s) \in Range(s)
           /\ Range(Tail(s)) = Range(s) \ {Head(s)}
<1> DEFINE r == Tail(s)
<1>1. /\ DOMAIN s = 1 .. Len(s) /\ DOMAIN r = 1 .. Len(s) - 1 /\ Len(s) \in Nat \ {0}
      /\ \A i \in 1 .. Len(s) - 1 : r[i] = s[i + 1]
  BY HeadTailProperties, LenProperties, EmptySeq
<1>2. Head(s) = s[1]
  OBVIOUS
<1> HIDE DEF r
<1>3. IsInjective(r)
  BY <1>1 DEF IsInjective
<1>4. Head(s) \in Range(s)
  BY <1>1, <1>2 DEF Range
<1>5. \A i \in 1 .. Len(s) - 1 : r[i] \in Range(s) /\ r[i] # Head(s)
  BY <1>1, <1>2 DEF Range, IsInjective
<1>6. ASSUME NEW i \in 1 .. Len(s), s[i] # Head(s) PROVE s[i] \in Range(r)
  <2>1. i - 1 \in 1 .. Len(s) - 1 /\ (i - 1) + 1 = i
    BY <1>1, <1>2, <1>6
  <2>2. r[i - 1] = s[i] /\ i - 1 \in DOMAIN r
    BY <1>1, <2>1
  <2>3. QED
    BY <2>2 DEF Range
<1>7. Range(r) = Range(s) \ {Head(s)}
  BY <1>1, <1>5, <1>6 DEF Range
<1>8. QED
  BY <1>3, <1>4, <1>7 DEF r

\* The same for the last element.
LEMMA InjectiveFront ==
    ASSUME NEW T, NEW s \in Seq(T), s # <<>>, IsInjective(s)
    PROVE  /\ IsInjective(SubSeq(s, 1, Len(s) - 1)) /\ s[Len(s)] \in Range(s)
           /\ Range(SubSeq(s, 1, Len(s) - 1)) = Range(s) \ {s[Len(s)]}
<1> DEFINE f == SubSeq(s, 1, Len(s) - 1)
<1>1. DOMAIN s = 1 .. Len(s) /\ Len(s) \in Nat \ {0} /\ \A i \in 1 .. Len(s) : s[i] \in T
  BY LenProperties, EmptySeq, ElementOfSeq
<1>2. /\ f \in Seq(T) /\ Len(f) = Len(s) - 1
      /\ \A i \in 1 .. Len(s) - 1 : f[i] = s[i]
  BY <1>1, SubSeqProperties
<1>3. DOMAIN f = 1 .. Len(s) - 1
  BY <1>2, LenProperties
<1> HIDE DEF f
<1>4. IsInjective(f)
  BY <1>1, <1>2, <1>3 DEF IsInjective
<1>5. s[Len(s)] \in Range(s)
  BY <1>1 DEF Range
<1>6. \A i \in 1 .. Len(s) - 1 : f[i] \in Range(s) /\ f[i] # s[Len(s)]
  BY <1>1, <1>2 DEF Range, IsInjective
<1>7. ASSUME NEW i \in 1 .. Len(s), s[i] # s[Len(s)] PROVE s[i] \in Range(f)
  <2>1. i \in 1 .. Len(s) - 1
    BY <1>1, <1>7
  <2>2. QED
    BY <1>2, <1>3, <2>1 DEF Range
<1>8. Range(f) = Range(s) \ {s[Len(s)]}
  BY <1>1, <1>3, <1>6, <1>7 DEF Range
<1>9. QED
  BY <1>4, <1>5, <1>8 DEF f

Distinct(l) ==
    IsInjective(l.Q) /\ IsInjective(l.Qctrl) /\ Range(l.Q) \cap Range(l.Qctrl) = {}

Inside(l) == Range(l.Q) \cup Range(l.Qctrl)

\* A push adds the item that was pushed, a pop removes the one that was taken.
LEMMA PushedOnce ==
    ASSUME NEW T, NEW o \in PushOps, NEW l \in Lanes(T), NEW x \in T,
           Distinct(l), x \notin Inside(l)
    PROVE  /\ Distinct(Pushed(o, l, x))
           /\ Inside(Pushed(o, l, x)) = Inside(l) \cup {x}
<1>1. l.Q \in Seq(T) /\ l.Qctrl \in Seq(T)
  BY DEF Lanes
<1>2. CASE o = "push_front"
  <2>1. Pushed(o, l, x).Q = <<x>> \o l.Q /\ Pushed(o, l, x).Qctrl = l.Qctrl
    BY <1>2 DEF Pushed, Lanes
  <2>2. QED
    BY <1>1, <2>1, InjectiveCons DEF Distinct, Inside
<1>3. CASE o = "push_back"
  <2>1. Pushed(o, l, x).Q = Append(l.Q, x) /\ Pushed(o, l, x).Qctrl = l.Qctrl
    BY <1>3 DEF Pushed, Lanes
  <2>2. QED
    BY <1>1, <2>1, InjectiveAppend DEF Distinct, Inside
<1>4. CASE o = "push_back_ctrl"
  <2>1. Pushed(o, l, x).Q = l.Q /\ Pushed(o, l, x).Qctrl = Append(l.Qctrl, x)
    BY <1>4 DEF Pushed, Lanes
  <2>2. QED
    BY <1>1, <2>1, InjectiveAppend DEF Distinct, Inside
<1>5. QED
  BY <1>2, <1>3, <1>4 DEF PushOps

\* What a pop takes is not in the queue any more.
LEMMA TakenOnce ==
    ASSUME NEW T, NEW o, NEW l \in Lanes(T), Available(o, l), Distinct(l)
    PROVE  /\ Distinct(Remaining(o, l))
           /\ Taken(o, l) \in Inside(l)
           /\ Inside(Remaining(o, l)) = Inside(l) \ {Taken(o, l)}
<1>1. l.Q \in Seq(T) /\ l.Qctrl \in Seq(T)
  BY DEF Lanes
<1>2. CASE FromCtrl(o, l)
  <2>1. l.Qctrl # <<>>
    BY <1>2 DEF FromCtrl
  <2>2. QED
    BY <1>1, <1>2, <2>1, InjectiveTail DEF Distinct, Inside, Remaining, Taken
<1>3. CASE ~FromCtrl(o, l)
  <2>1. l.Q # <<>>
    BY <1>3 DEF Available, FromReg
  <2>2. CASE o \in BackOps
    BY <1>1, <1>3, <2>1, <2>2, InjectiveFront DEF Distinct, Inside, Remaining, Taken
  <2>3. CASE o \notin BackOps
    BY <1>1, <1>3, <2>1, <2>3, InjectiveTail DEF Distinct, Inside, Remaining, Taken
  <2>4. QED
    BY <2>2, <2>3
<1>4. QED
  BY <1>2, <1>3
-----------------------------------------------------------------------------
(* The inductive invariant.                                                *)

\* What the place of a thread says of the operation it is in and of the
\* pointer it brought along.
PlaceInv ==
    \A t \in Threads :
        /\ pc[t] \in {"idle", "dead"} <=> op[t] = "none"
        /\ pc[t] \in {"waiting", "relock", "retest", "again", "dying", "cleanup"}
               => op[t] \in WaitOps
        /\ pc[t] \notin {"idle", "unlock"} => (op[t] \in PushOps <=> p[t] # NoItem)

Inv == TypeOK /\ PlaceInv /\ MutexHeld /\ NoLostWakeup

\* The invariant holds when the queue is created.
LEMMA InitInv == Init => Inv
<1> SUFFICES ASSUME Init PROVE Inv
  OBVIOUS
<1> USE RQueueAssumption DEF Init
<1>1. TypeOK
  BY EmptySeq DEF TypeOK, Places, EmptyLanes, Lanes, AllOps
<1>2. PlaceInv
  BY DEF PlaceInv, PushOps
<1>3. MutexHeld
  BY DEF MutexHeld, Holding
<1>4. NoLostWakeup
  BY DEF NoLostWakeup
<1>5. QED
  BY <1>1, <1>2, <1>3, <1>4 DEF Inv

\* The type invariant is kept by every step.
LEMMA TypeStep == Inv /\ [Next]_vars => TypeOK'
<1> SUFFICES ASSUME Inv, [Next]_vars PROVE TypeOK'
  OBVIOUS
<1> USE RQueueAssumption DEF Inv, TypeOK, Places, Goto, Leave, TakeMutex, FreeMutex
<1>1. CASE UNCHANGED vars
  BY <1>1 DEF vars
<1>2. ASSUME NEW t \in Threads, Own(t) PROVE TypeOK'
  <2>1. CASE Push(t)
    <3>1. p[t] \in Items
      BY <2>1 DEF Push, PlaceInv
    <3>2. q' \in Lanes(Items)
      BY <2>1, <3>1, PushedLanes DEF Push
    <3>3. pc' \in [Threads -> Places]
      BY <2>1 DEF Push, Woken
    <3>4. QED
      BY <2>1, <3>2, <3>3 DEF Push
  <2>2. CASE Pop(t)
    BY <2>2, TakenItem DEF Pop, Take
  <2>3. CASE PopNothing(t) \/ CondWait(t) \/ WokenForNothing(t) \/ LoopAgain(t)
    BY <2>3 DEF PopNothing, CondWait, WokenForNothing, LoopAgain
  <2>4. CASE Unlock(t) \/ CancelAtWait(t) \/ CancelWait(t) \/ Cleanup(t)
    BY <2>4 DEF Unlock, CancelAtWait, CancelWait, Cleanup
  <2>5. QED
    BY <1>2, <2>1, <2>2, <2>3, <2>4 DEF Own
<1>3. ASSUME NEW t \in Threads, Acquire(t) PROVE TypeOK'
  BY <1>3 DEF Acquire, Lock, Relock, DyingLock
<1>4. ASSUME NEW t \in Threads, Outside(t) PROVE TypeOK'
  <2>1. ASSUME NEW o \in AllOps, Call(t, o) PROVE TypeOK'
    BY <2>1 DEF Call
  <2>2. CASE New(t) \/ Delete(t) \/ Cancel(t) \/ Respawn(t) \/ SpuriousWakeup(t)
    BY <2>2 DEF New, Delete, Cancel, Respawn, SpuriousWakeup
  <2>3. QED
    BY <1>4, <2>1, <2>2 DEF Outside
<1>5. QED
  BY <1>1, <1>2, <1>3, <1>4 DEF Next

\* So is the correspondence of places, operations and pointers.
LEMMA PlaceStep == Inv /\ [Next]_vars => PlaceInv'
<1> SUFFICES ASSUME Inv, [Next]_vars PROVE PlaceInv'
  OBVIOUS
<1> USE RQueueAssumption DEF Inv, TypeOK, PlaceInv, Places, Goto, Leave
<1>1. CASE UNCHANGED vars
  BY <1>1 DEF vars
<1>2. ASSUME NEW t \in Threads, Own(t) PROVE PlaceInv'
  <2>1. CASE Push(t)
    BY <2>1 DEF Push, Woken, PushOps, WaitOps
  <2>2. CASE Pop(t)
    BY <2>2, TakenItem DEF Pop, Take, PopOps, WaitOps, PushOps
  <2>3. CASE PopNothing(t) \/ CondWait(t)
    BY <2>3 DEF PopNothing, CondWait, MustWait, PopOps, WaitOps, PushOps
  <2>4. CASE WokenForNothing(t) \/ LoopAgain(t) \/ Unlock(t) \/ CancelWait(t)
    BY <2>4 DEF WokenForNothing, LoopAgain, Unlock, CancelWait, PushOps, WaitOps
  <2>5. CASE CancelAtWait(t) \/ Cleanup(t)
    BY <2>5 DEF CancelAtWait, MustWait, Cleanup, PushOps, WaitOps
  <2>6. QED
    BY <1>2, <2>1, <2>2, <2>3, <2>4, <2>5 DEF Own
<1>3. ASSUME NEW t \in Threads, Acquire(t) PROVE PlaceInv'
  BY <1>3 DEF Acquire, Lock, Relock, DyingLock
<1>4. ASSUME NEW t \in Threads, Outside(t) PROVE PlaceInv'
  <2>1. ASSUME NEW o \in AllOps, Call(t, o) PROVE PlaceInv'
    BY <2>1 DEF Call, AllOps, PushOps, PopOps, WaitOps
  <2>2. CASE New(t) \/ Delete(t)
    BY <2>2 DEF New, Delete, PushOps
  <2>3. CASE Cancel(t) \/ Respawn(t) \/ SpuriousWakeup(t)
    BY <2>3 DEF Cancel, Respawn, SpuriousWakeup
  <2>4. QED
    BY <1>4, <2>1, <2>2, <2>3 DEF Outside
<1>5. QED
  BY <1>1, <1>2, <1>3, <1>4 DEF Next

\* The mutex passes from the critical section of one thread to another's.
LEMMA MutexStep == Inv /\ [Next]_vars => MutexHeld'
<1> SUFFICES ASSUME Inv, [Next]_vars PROVE MutexHeld'
  OBVIOUS
<1> USE RQueueAssumption
    DEF Inv, TypeOK, MutexHeld, Holding, Places, Goto, Leave, TakeMutex, FreeMutex
<1>1. CASE UNCHANGED vars
  BY <1>1 DEF vars
<1>2. ASSUME NEW t \in Threads, Own(t) PROVE MutexHeld'
  <2>1. CASE Push(t) \/ Pop(t) \/ PopNothing(t)
    BY <2>1 DEF Push, Woken, Pop, Take, PopNothing
  <2>2. CASE CondWait(t) \/ LoopAgain(t) \/ Unlock(t) \/ Cleanup(t)
    BY <2>2 DEF CondWait, LoopAgain, Unlock, Cleanup
  <2>3. CASE WokenForNothing(t) \/ CancelAtWait(t) \/ CancelWait(t)
    BY <2>3 DEF WokenForNothing, CancelAtWait, MustWait, CancelWait
  <2>4. QED
    BY <1>2, <2>1, <2>2, <2>3 DEF Own
<1>3. ASSUME NEW t \in Threads, Acquire(t) PROVE MutexHeld'
  BY <1>3 DEF Acquire, Lock, Relock, DyingLock
<1>4. ASSUME NEW t \in Threads, Outside(t) PROVE MutexHeld'
  BY <1>4 DEF Outside, New, Delete, Cancel, Respawn, SpuriousWakeup, Call
<1>5. QED
  BY <1>1, <1>2, <1>3, <1>4 DEF Next

\* Only a push can make the pop of a sleeping thread possible, and a push that
\* does wakes it up.
LEMMA WakeupStep == Inv /\ [Next]_vars => NoLostWakeup'
<1> SUFFICES ASSUME Inv, [Next]_vars PROVE NoLostWakeup'
  OBVIOUS
<1> USE RQueueAssumption DEF Inv, TypeOK, NoLostWakeup, Places, Goto, Leave
<1>1. CASE UNCHANGED vars
  BY <1>1 DEF vars
<1>2. ASSUME NEW t \in Threads, Own(t) PROVE NoLostWakeup'
  <2>1. CASE Push(t) /\ Signals(op[t], q)
    <3>1. \A s \in Threads : pc'[s] # "waiting"
      BY <2>1 DEF Push, Woken
    <3>2. QED
      BY <3>1
  <2>2. CASE Push(t) /\ ~Signals(op[t], q)
    <3>1. p[t] \in Items /\ op[t] \in PushOps
      BY <2>2 DEF Push, PlaceInv
    <3>2. \A s \in Threads : pc'[s] = "waiting" => pc[s] = "waiting"
      BY <2>2 DEF Push
    <3>3. \A w : ~Available(w, q) => ~Available(w, q')
      BY <2>2, <3>1, SilentPush DEF Push
    <3>4. QED
      BY <2>2, <3>2, <3>3 DEF Push
  <2>3. CASE Pop(t)
    <3>1. \A w : ~Available(w, q) => ~Available(w, q')
      BY <2>3, TakingEnablesNothing DEF Pop, Take
    <3>2. QED
      BY <2>3, <3>1 DEF Pop, Take
  <2>4. CASE PopNothing(t) \/ CondWait(t) \/ WokenForNothing(t) \/ LoopAgain(t)
    BY <2>4 DEF PopNothing, CondWait, MustWait, WokenForNothing, LoopAgain
  <2>5. CASE Unlock(t) \/ CancelAtWait(t) \/ CancelWait(t) \/ Cleanup(t)
    BY <2>5 DEF Unlock, CancelAtWait, CancelWait, Cleanup
  <2>6. QED
    BY <1>2, <2>1, <2>2, <2>3, <2>4, <2>5 DEF Own
<1>3. ASSUME NEW t \in Threads, Acquire(t) PROVE NoLostWakeup'
  BY <1>3 DEF Acquire, Lock, Relock, DyingLock
<1>4. ASSUME NEW t \in Threads, Outside(t) PROVE NoLostWakeup'
  BY <1>4 DEF Outside, New, Delete, Cancel, Respawn, SpuriousWakeup, Call
<1>5. QED
  BY <1>1, <1>2, <1>3, <1>4 DEF Next

\* The invariant holds in every state.
THEOREM Invariance == Spec => []Inv
<1>1. Inv /\ [Next]_vars => Inv'
  BY TypeStep, PlaceStep, MutexStep, WakeupStep DEF Inv
<1>2. QED
  BY <1>1, InitInv, PTL DEF Spec

\* The types of the variables.
THEOREM TypeCorrect == Spec => []TypeOK
<1>1. Inv => TypeOK
  BY DEF Inv
<1>2. QED
  BY <1>1, Invariance, PTL

\* No thread sleeps in pthread_cond_wait while its pop could succeed, for any
\* number of threads that wait on any mixture of the four conditions.
THEOREM NoWakeupIsLost == Spec => []NoLostWakeup
<1>1. Inv => NoLostWakeup
  BY DEF Inv
<1>2. QED
  BY <1>1, Invariance, PTL

\* Mutual exclusion, and no thread that left the queue or died keeps the mutex.
THEOREM MutualExclusion == Spec => []MutexHeld
<1>1. Inv => MutexHeld
  BY DEF Inv
<1>2. QED
  BY <1>1, Invariance, PTL
-----------------------------------------------------------------------------
(* Ownership: an item is in one place.                                     *)

\* Ownership is kept by every step: only New, Push and Pop move an item.
LEMMA OwnershipStep == Inv /\ OnePlace /\ [Next]_vars => OnePlace'
<1> SUFFICES ASSUME Inv, OnePlace, [Next]_vars PROVE OnePlace'
  OBVIOUS
<1>1. CASE UNCHANGED <<q, p>>
  BY <1>1 DEF OnePlace, Carried, InLanes
<1>2. ASSUME NEW t \in Threads, Push(t) PROVE OnePlace'
  <2>1. p[t] \in Items /\ op[t] \in PushOps /\ q \in Lanes(Items)
    BY <1>2 DEF Inv, TypeOK, Push, PlaceInv
  <2>2. p[t] # NoItem
    BY <2>1, RQueueAssumption
  <2>3. Distinct(q) /\ p[t] \notin Inside(q)
    BY <2>2 DEF OnePlace, Distinct, Inside, Carried, InLanes
  <2>4. Distinct(q') /\ Inside(q') = Inside(q) \cup {p[t]}
    BY <1>2, <2>1, <2>3, PushedOnce DEF Push
  <2>5. p' = [p EXCEPT ![t] = NoItem]
    BY <1>2 DEF Push
  <2>6. \A s \in Threads : p'[s] = IF s = t THEN NoItem ELSE p[s]
    BY <2>5 DEF Inv, TypeOK
  <2>7. \A s \in Threads : p'[s] = NoItem \/ p'[s] \notin Inside(q')
    BY <2>2, <2>4, <2>6 DEF OnePlace, Inside, Carried, InLanes
  <2>8. QED
    BY <2>4, <2>6, <2>7 DEF OnePlace, Distinct, Inside, Carried, InLanes
<1>3. ASSUME NEW t \in Threads, Pop(t) PROVE OnePlace'
  <2>1. Available(op[t], q) /\ q \in Lanes(Items) /\ Distinct(q)
    BY <1>3 DEF Inv, TypeOK, Pop, OnePlace, Distinct
  <2>2. /\ Distinct(q')
        /\ Taken(op[t], q) \in Inside(q)
        /\ Inside(q') \subseteq Inside(q) \ {Taken(op[t], q)}
    BY <1>3, <2>1, TakenOnce DEF Pop, Take
  <2>3. \A s \in Threads : p'[s] = IF s = t THEN Taken(op[t], q) ELSE p[s]
    BY <1>3 DEF Pop, Take, Inv, TypeOK
  <2>4. \A s \in Threads : p[s] = NoItem \/ p[s] \notin Inside(q)
    BY DEF OnePlace, Inside, Carried, InLanes
  <2>5. QED
    BY <2>2, <2>3, <2>4 DEF OnePlace, Distinct, Inside, Carried, InLanes
<1>4. ASSUME NEW t \in Threads, New(t) PROVE OnePlace'
  <2>1. PICK x \in Items \ (Carried \cup InLanes) : p' = [p EXCEPT ![t] = x]
    BY <1>4 DEF New
  <2>2. q' = q /\ x # NoItem
    BY <1>4, RQueueAssumption DEF New
  <2>3. \A s \in Threads : p'[s] = IF s = t THEN x ELSE p[s]
    BY <2>1 DEF Inv, TypeOK
  <2>4. \A s \in Threads : p[s] # x
    BY <2>1, <2>2 DEF Carried
  <2>5. QED
    BY <2>1, <2>2, <2>3, <2>4 DEF OnePlace, Carried, InLanes
<1>5. ASSUME NEW t \in Threads, Delete(t) PROVE OnePlace'
  <2>1. q' = q /\ \A s \in Threads : p'[s] = IF s = t THEN NoItem ELSE p[s]
    BY <1>5 DEF Delete, Inv, TypeOK
  <2>2. QED
    BY <2>1 DEF OnePlace, Carried, InLanes
<1>6. ASSUME NEW t \in Threads,
             \/ Own(t) /\ ~Push(t) /\ ~Pop(t)
             \/ Acquire(t)
             \/ Outside(t) /\ ~New(t) /\ ~Delete(t)
      PROVE  UNCHANGED <<q, p>>
  BY <1>6 DEF Own, PopNothing, CondWait, WokenForNothing, LoopAgain, Unlock,
              CancelAtWait, CancelWait, Cleanup, Acquire, Lock, Relock, DyingLock,
              Outside, Cancel, Respawn, SpuriousWakeup, Call, Goto, Leave
<1>7. QED
  BY <1>1, <1>2, <1>3, <1>4, <1>5, <1>6 DEF Next, vars

\* Whatever the threads do, an item is never in two places at once: neither
\* twice in the queue, nor in the queue and in the hands of a thread, nor in
\* the hands of two threads.
THEOREM Ownership == Spec => []OnePlace
<1>1. Init => OnePlace
  BY DEF Init, OnePlace, EmptyLanes, Carried, InLanes, IsInjective, Range
<1>2. QED
  BY <1>1, OwnershipStep, Invariance, PTL DEF Spec

-----------------------------------------------------------------------------
(* RQueue implements the safety part of the abstract Channel: the initial  *)
(* states map to initial states, and every step maps to a step of the      *)
(* channel or to a stutter, for any number of threads and items.           *)

Entries == [item : Items, ctrl : BOOLEAN]

\* The channel that two deques stand for.
Chain(l) == Tagged(l.Qctrl, TRUE) \o Tagged(l.Q, FALSE)

\* Where in it a push puts its item, and where a pop takes one.
PutAt(o, l) == IF o = "push_back" THEN Len(l.Qctrl) + Len(l.Q) + 1 ELSE Len(l.Qctrl) + 1
TakeAt(o, l) ==
    IF FromCtrl(o, l) THEN 1
    ELSE IF o \in BackOps THEN Len(l.Qctrl) + Len(l.Q) ELSE Len(l.Qctrl) + 1

-----------------------------------------------------------------------------
(* The elements of the channel.                                            *)

\* Tagging keeps the length and the order of a deque.
LEMMA TaggedElements ==
    ASSUME NEW s \in Seq(Items), NEW c \in BOOLEAN
    PROVE  /\ Tagged(s, c) \in Seq(Entries)
           /\ Len(Tagged(s, c)) = Len(s)
           /\ \A i \in 1 .. Len(s) : Tagged(s, c)[i] = [item |-> s[i], ctrl |-> c]
<1>1. Len(s) \in Nat /\ DOMAIN s = 1 .. Len(s) /\ \A i \in 1 .. Len(s) : s[i] \in Items
  BY LenProperties, ElementOfSeq
<1>2. Tagged(s, c) \in [1 .. Len(s) -> Entries]
  BY <1>1 DEF Tagged, Entries
<1>3. Tagged(s, c) \in Seq(Entries) /\ Len(Tagged(s, c)) = Len(s)
  BY <1>1, <1>2
<1>4. \A i \in 1 .. Len(s) : Tagged(s, c)[i] = [item |-> s[i], ctrl |-> c]
  BY <1>1 DEF Tagged
<1>5. QED
  BY <1>3, <1>4

\* The channel is the control deque followed by the regular one.
LEMMA ChainElements ==
    ASSUME NEW l \in Lanes(Items)
    PROVE  /\ Len(l.Qctrl) \in Nat /\ Len(l.Q) \in Nat
           /\ Chain(l) \in Seq(Entries)
           /\ Len(Chain(l)) = Len(l.Qctrl) + Len(l.Q)
           /\ DOMAIN Chain(l) = 1 .. Len(l.Qctrl) + Len(l.Q)
           /\ \A i \in 1 .. Len(l.Qctrl) : Chain(l)[i] = [item |-> l.Qctrl[i], ctrl |-> TRUE]
           /\ \A i \in 1 .. Len(l.Q) :
                 Chain(l)[Len(l.Qctrl) + i] = [item |-> l.Q[i], ctrl |-> FALSE]
<1> DEFINE a == Tagged(l.Qctrl, TRUE)
           b == Tagged(l.Q, FALSE)
           m == Len(l.Qctrl)
           n == Len(l.Q)
<1>1. l.Qctrl \in Seq(Items) /\ l.Q \in Seq(Items) /\ m \in Nat /\ n \in Nat
  BY LenProperties DEF Lanes
<1>2. a \in Seq(Entries) /\ Len(a) = m /\ \A i \in 1 .. m : a[i] = [item |-> l.Qctrl[i], ctrl |-> TRUE]
  BY <1>1, TaggedElements
<1>3. b \in Seq(Entries) /\ Len(b) = n /\ \A i \in 1 .. n : b[i] = [item |-> l.Q[i], ctrl |-> FALSE]
  BY <1>1, TaggedElements
<1> HIDE DEF a, b
<1>4. /\ a \o b \in Seq(Entries) /\ Len(a \o b) = m + n
      /\ \A i \in 1 .. m + n : (a \o b)[i] = IF i <= m THEN a[i] ELSE b[i - m]
  <2>1. a \in Seq(Entries) /\ b \in Seq(Entries)
    BY <1>2, <1>3
  <2>2. /\ a \o b \in Seq(Entries) /\ Len(a \o b) = Len(a) + Len(b)
        /\ \A i \in 1 .. Len(a) + Len(b) : (a \o b)[i] = IF i <= Len(a) THEN a[i] ELSE b[i - Len(a)]
    BY <2>1, ConcatProperties
  <2>3. Len(a) = m /\ Len(b) = n
    BY <1>2, <1>3
  <2>4. QED
    BY <2>2, <2>3
<1>5. DOMAIN (a \o b) = 1 .. m + n
  BY <1>4, LenProperties
<1> HIDE DEF m, n
<1>6. \A i \in 1 .. m : (a \o b)[i] = a[i]
  BY <1>1, <1>4
<1>7. \A i \in 1 .. n : (a \o b)[m + i] = b[i]
  <2>1. \A i \in 1 .. n : m + i \in 1 .. m + n /\ ~(m + i <= m) /\ (m + i) - m = i
    BY <1>1
  <2>2. QED
    BY <1>4, <2>1
<1>8. Chain(l) = a \o b
  BY DEF Chain, a, b
<1>9. QED
  BY <1>1, <1>2, <1>3, <1>4, <1>5, <1>6, <1>7, <1>8 DEF m, n
-----------------------------------------------------------------------------
(* What the pushes and pops do to the channel.                             *)

\* Two channels of which one has an element more, at position at.
LEMMA OneMore ==
    ASSUME NEW c \in Seq(Entries), NEW d \in Seq(Entries), NEW e \in Entries,
           NEW at \in 1 .. Len(c) + 1, Len(d) = Len(c) + 1,
           \A j \in 1 .. Len(c) : d[IF j < at THEN j ELSE j + 1] = c[j],
           d[at] = e
    PROVE  d = With(c, at, e)
<1>1. Len(c) \in Nat /\ at \in Nat /\ at >= 1 /\ at <= Len(c) + 1
  BY LenProperties
<1> DEFINE w == With(c, at, e)
<1>2. /\ w \in Seq(Entries) /\ Len(w) = Len(c) + 1
      /\ \A j \in 1 .. Len(c) + 1 :
            w[j] = IF j < at THEN c[j] ELSE IF j = at THEN e ELSE c[j - 1]
  BY WithElements
<1> HIDE DEF w
<1>3. ASSUME NEW j \in 1 .. Len(d) PROVE d[j] = w[j]
  <2>1. CASE j < at
    <3>1. j \in 1 .. Len(c)
      BY <1>1, <2>1
    <3>2. d[IF j < at THEN j ELSE j + 1] = c[j]
      BY <3>1
    <3>3. QED
      BY <1>1, <1>2, <2>1, <3>1, <3>2
  <2>2. CASE j = at
    BY <1>1, <1>2, <2>2
  <2>3. CASE j > at
    <3>1. j - 1 \in 1 .. Len(c) /\ ~(j - 1 < at) /\ (j - 1) + 1 = j
      BY <1>1, <2>3
    <3>2. d[IF j - 1 < at THEN j - 1 ELSE (j - 1) + 1] = c[j - 1]
      BY <3>1
    <3>3. QED
      BY <1>1, <1>2, <2>3, <3>1, <3>2
  <2>4. j < at \/ j = at \/ j > at
    BY <1>1
  <2>5. QED
    BY <2>1, <2>2, <2>3, <2>4
<1>4. QED
  BY <1>2, <1>3, SeqEqual DEF w

\* Two channels of which one has an element less, the one at position at.
LEMMA OneLess ==
    ASSUME NEW c \in Seq(Entries), NEW d \in Seq(Entries),
           NEW at \in 1 .. Len(c), Len(d) = Len(c) - 1,
           \A j \in 1 .. Len(d) : d[j] = c[IF j < at THEN j ELSE j + 1]
    PROVE  d = Without(c, at)
<1>1. Len(c) \in Nat /\ at \in Nat /\ at >= 1 /\ at <= Len(c)
  BY LenProperties
<1> DEFINE w == Without(c, at)
<1>2. /\ w \in Seq(Entries) /\ Len(w) = Len(c) - 1
      /\ \A j \in 1 .. Len(c) - 1 : w[j] = IF j < at THEN c[j] ELSE c[j + 1]
  BY WithoutElements
<1> HIDE DEF w
<1>3. ASSUME NEW j \in 1 .. Len(d) PROVE d[j] = w[j]
  BY <1>2
<1>4. QED
  BY <1>2, <1>3, SeqEqual DEF w

\* A push puts its item at one position of the channel.
LEMMA ChainPut ==
    ASSUME NEW l \in Lanes(Items), NEW o \in PushOps, NEW x \in Items
    PROVE  Chain(Pushed(o, l, x)) =
               With(Chain(l), PutAt(o, l), [item |-> x, ctrl |-> o = "push_back_ctrl"])
<1>1. PICK k \in Lanes(Items) : k = Pushed(o, l, x)
  BY PushedLanes
<1>2. PICK c \in Seq(Entries), d \in Seq(Entries) : c = Chain(l) /\ d = Chain(k)
  BY <1>1, ChainElements
<1>3. PICK m \in Nat, n \in Nat : m = Len(l.Qctrl) /\ n = Len(l.Q)
  BY ChainElements
<1>4. /\ Len(c) = m + n
      /\ \A i \in 1 .. m : c[i] = [item |-> l.Qctrl[i], ctrl |-> TRUE]
      /\ \A i \in 1 .. n : c[m + i] = [item |-> l.Q[i], ctrl |-> FALSE]
  BY <1>2, <1>3, ChainElements
<1>5. /\ Len(d) = Len(k.Qctrl) + Len(k.Q)
      /\ \A i \in 1 .. Len(k.Qctrl) : d[i] = [item |-> k.Qctrl[i], ctrl |-> TRUE]
      /\ \A i \in 1 .. Len(k.Q) : d[Len(k.Qctrl) + i] = [item |-> k.Q[i], ctrl |-> FALSE]
  BY <1>1, <1>2, ChainElements
<1>6. l.Q \in Seq(Items) /\ l.Qctrl \in Seq(Items)
  BY DEF Lanes
<1>7. PICK e \in Entries : e = [item |-> x, ctrl |-> o = "push_back_ctrl"]
  <2>1. \/ [item |-> x, ctrl |-> o = "push_back_ctrl"] = [item |-> x, ctrl |-> TRUE]
        \/ [item |-> x, ctrl |-> o = "push_back_ctrl"] = [item |-> x, ctrl |-> FALSE]
    BY DEF PushOps
  <2>2. [item |-> x, ctrl |-> TRUE] \in Entries /\ [item |-> x, ctrl |-> FALSE] \in Entries
    BY DEF Entries
  <2>3. QED
    BY <2>1, <2>2
<1>8. PICK at \in 1 .. Len(c) + 1 : at = PutAt(o, l)
  <2>1. PutAt(o, l) = m + n + 1 \/ PutAt(o, l) = m + 1
    BY <1>3 DEF PutAt
  <2>2. m + n + 1 \in 1 .. Len(c) + 1 /\ m + 1 \in 1 .. Len(c) + 1
    BY <1>4
  <2>3. QED
    BY <2>1, <2>2
<1>9. /\ Len(d) = Len(c) + 1
      /\ \A j \in 1 .. Len(c) : d[IF j < at THEN j ELSE j + 1] = c[j]
      /\ d[at] = e
  <2>1. CASE o = "push_back"
    <3>1. /\ k.Qctrl = l.Qctrl /\ k.Q = Append(l.Q, x) /\ at = m + n + 1
          /\ e = [item |-> x, ctrl |-> FALSE]
      BY <2>1, <1>1, <1>3, <1>7, <1>8 DEF Pushed, PutAt, Lanes
    <3>2. Len(k.Q) = n + 1 /\ k.Q[n + 1] = x /\ \A i \in 1 .. n : k.Q[i] = l.Q[i]
      BY <1>3, <1>6, <3>1, AppendProperties
    <3>8. Len(k.Qctrl) = m /\ Len(k.Q) = n + 1
      BY <1>3, <3>1, <3>2
    <3>9. /\ Len(d) = m + (n + 1)
          /\ \A i \in 1 .. n + 1 : d[m + i] = [item |-> k.Q[i], ctrl |-> FALSE]
      BY <1>5, <3>8
    <3>3. Len(d) = m + n + 1 /\ d[m + (n + 1)] = e
      <4>1. n + 1 \in 1 .. n + 1
        OBVIOUS
      <4>2. d[m + (n + 1)] = [item |-> k.Q[n + 1], ctrl |-> FALSE]
        BY <3>9, <4>1
      <4>3. QED
        BY <3>1, <3>2, <3>9, <4>2
    <3>4. \A i \in 1 .. m : d[i] = c[i]
      BY <1>3, <1>4, <1>5, <3>1
    <3>5. ASSUME NEW i \in 1 .. n PROVE d[m + i] = c[m + i]
      <4>1. i \in 1 .. n + 1
        OBVIOUS
      <4>2. d[m + i] = [item |-> k.Q[i], ctrl |-> FALSE]
        BY <3>9, <4>1
      <4>3. QED
        BY <1>4, <3>2, <4>2
    <3>6. ASSUME NEW j \in 1 .. m + n PROVE d[j] = c[j]
      <4>1. CASE j <= m
        BY <3>4, <4>1
      <4>2. CASE j > m
        <5>1. j - m \in 1 .. n /\ m + (j - m) = j
          BY <4>2
        <5>2. d[m + (j - m)] = c[m + (j - m)]
          BY <3>5, <5>1
        <5>3. QED
          BY <5>1, <5>2
      <4>3. QED
        BY <4>1, <4>2
    <3>7. QED
      BY <1>4, <3>1, <3>3, <3>6
  <2>2. CASE o = "push_front"
    <3>1. /\ k.Qctrl = l.Qctrl /\ k.Q = <<x>> \o l.Q /\ at = m + 1
          /\ e = [item |-> x, ctrl |-> FALSE]
      BY <2>2, <1>1, <1>3, <1>7, <1>8 DEF Pushed, PutAt, Lanes
    <3>2. Len(k.Q) = n + 1 /\ k.Q[1] = x /\ \A i \in 1 .. n : k.Q[i + 1] = l.Q[i]
      <4>1. <<x>> \in Seq(Items) /\ Len(<<x>>) = 1 /\ <<x>>[1] = x
        OBVIOUS
      <4>2. /\ Len(k.Q) = Len(<<x>>) + Len(l.Q)
            /\ \A i \in 1 .. Len(<<x>>) + Len(l.Q) :
                  k.Q[i] = IF i <= Len(<<x>>) THEN <<x>>[i] ELSE l.Q[i - Len(<<x>>)]
        BY <1>6, <3>1, <4>1, ConcatProperties
      <4>3. QED
        BY <1>3, <4>1, <4>2
    <3>8. Len(k.Qctrl) = m /\ Len(k.Q) = n + 1
      BY <1>3, <3>1, <3>2
    <3>9. /\ Len(d) = m + (n + 1)
          /\ \A i \in 1 .. n + 1 : d[m + i] = [item |-> k.Q[i], ctrl |-> FALSE]
      BY <1>5, <3>8
    <3>3. Len(d) = m + n + 1 /\ d[m + 1] = e
      <4>1. 1 \in 1 .. n + 1
        OBVIOUS
      <4>2. d[m + 1] = [item |-> k.Q[1], ctrl |-> FALSE]
        BY <3>9, <4>1
      <4>3. QED
        BY <3>1, <3>2, <3>9, <4>2
    <3>4. \A i \in 1 .. m : d[i] = c[i]
      BY <1>3, <1>4, <1>5, <3>1
    <3>5. ASSUME NEW i \in 1 .. n PROVE d[m + (i + 1)] = c[m + i]
      <4>1. i + 1 \in 1 .. n + 1
        OBVIOUS
      <4>2. d[m + (i + 1)] = [item |-> k.Q[i + 1], ctrl |-> FALSE]
        BY <3>9, <4>1
      <4>3. QED
        BY <1>4, <3>2, <4>2
    <3>6. ASSUME NEW j \in 1 .. m + n PROVE d[IF j < at THEN j ELSE j + 1] = c[j]
      <4>1. CASE j <= m
        BY <3>1, <3>4, <4>1
      <4>2. CASE j > m
        <5>1. j - m \in 1 .. n /\ m + (j - m) = j /\ m + ((j - m) + 1) = j + 1 /\ ~(j < at)
          BY <3>1, <4>2
        <5>2. d[m + ((j - m) + 1)] = c[m + (j - m)]
          BY <3>5, <5>1
        <5>3. QED
          BY <5>1, <5>2
      <4>3. QED
        BY <4>1, <4>2
    <3>7. QED
      BY <1>4, <3>1, <3>3, <3>6
  <2>3. CASE o = "push_back_ctrl"
    <3>1. /\ k.Q = l.Q /\ k.Qctrl = Append(l.Qctrl, x) /\ at = m + 1
          /\ e = [item |-> x, ctrl |-> TRUE]
      BY <2>3, <1>1, <1>3, <1>7, <1>8 DEF Pushed, PutAt, Lanes
    <3>2. /\ Len(k.Qctrl) = m + 1 /\ k.Qctrl[m + 1] = x
          /\ \A i \in 1 .. m : k.Qctrl[i] = l.Qctrl[i]
      BY <1>3, <1>6, <3>1, AppendProperties
    <3>8. Len(k.Qctrl) = m + 1 /\ Len(k.Q) = n
      BY <1>3, <3>1, <3>2
    <3>9. /\ Len(d) = (m + 1) + n
          /\ \A i \in 1 .. m + 1 : d[i] = [item |-> k.Qctrl[i], ctrl |-> TRUE]
          /\ \A i \in 1 .. n : d[(m + 1) + i] = [item |-> k.Q[i], ctrl |-> FALSE]
      BY <1>5, <3>8
    <3>3. Len(d) = m + n + 1 /\ d[m + 1] = e
      <4>1. m + 1 \in 1 .. m + 1
        OBVIOUS
      <4>2. d[m + 1] = [item |-> k.Qctrl[m + 1], ctrl |-> TRUE]
        BY <3>9, <4>1
      <4>3. QED
        BY <3>1, <3>2, <3>9, <4>2
    <3>4. ASSUME NEW i \in 1 .. m PROVE d[i] = c[i]
      <4>1. i \in 1 .. m + 1
        OBVIOUS
      <4>2. d[i] = [item |-> k.Qctrl[i], ctrl |-> TRUE]
        BY <3>9, <4>1
      <4>3. QED
        BY <1>4, <3>2, <4>2
    <3>5. \A i \in 1 .. n : d[(m + 1) + i] = c[m + i]
      BY <1>4, <3>1, <3>9
    <3>6. ASSUME NEW j \in 1 .. m + n PROVE d[IF j < at THEN j ELSE j + 1] = c[j]
      <4>1. CASE j <= m
        BY <3>1, <3>4, <4>1
      <4>2. CASE j > m
        <5>1. j - m \in 1 .. n /\ m + (j - m) = j /\ (m + 1) + (j - m) = j + 1 /\ ~(j < at)
          BY <3>1, <4>2
        <5>2. d[(m + 1) + (j - m)] = c[m + (j - m)]
          BY <3>5, <5>1
        <5>3. QED
          BY <5>1, <5>2
      <4>3. QED
        BY <4>1, <4>2
    <3>7. QED
      BY <1>4, <3>1, <3>3, <3>6
  <2>4. QED
    BY <2>1, <2>2, <2>3 DEF PushOps
<1>10. d = With(c, at, e)
  BY <1>9, OneMore
<1>11. QED
  BY <1>1, <1>2, <1>7, <1>8, <1>10

\* A pop takes the item at one position of the channel.
LEMMA ChainGet ==
    ASSUME NEW l \in Lanes(Items), NEW o, Available(o, l)
    PROVE  /\ TakeAt(o, l) \in 1 .. Len(Chain(l))
           /\ Chain(l)[TakeAt(o, l)].item = Taken(o, l)
           /\ Chain(Remaining(o, l)) = Without(Chain(l), TakeAt(o, l))
<1>1. PICK k \in Lanes(Items) : k = Remaining(o, l)
  BY TakenItem
<1>2. PICK c \in Seq(Entries), d \in Seq(Entries) : c = Chain(l) /\ d = Chain(k)
  BY <1>1, ChainElements
<1>3. PICK m \in Nat, n \in Nat : m = Len(l.Qctrl) /\ n = Len(l.Q)
  BY ChainElements
<1>4. /\ Len(c) = m + n
      /\ \A i \in 1 .. m : c[i] = [item |-> l.Qctrl[i], ctrl |-> TRUE]
      /\ \A i \in 1 .. n : c[m + i] = [item |-> l.Q[i], ctrl |-> FALSE]
  BY <1>2, <1>3, ChainElements
<1>5. /\ Len(d) = Len(k.Qctrl) + Len(k.Q)
      /\ \A i \in 1 .. Len(k.Qctrl) : d[i] = [item |-> k.Qctrl[i], ctrl |-> TRUE]
      /\ \A i \in 1 .. Len(k.Q) : d[Len(k.Qctrl) + i] = [item |-> k.Q[i], ctrl |-> FALSE]
  BY <1>1, <1>2, ChainElements
<1>6. l.Q \in Seq(Items) /\ l.Qctrl \in Seq(Items)
  BY DEF Lanes
<1>7. CASE FromCtrl(o, l)
  <2>1. /\ l.Qctrl # <<>> /\ k.Q = l.Q /\ k.Qctrl = Tail(l.Qctrl)
        /\ TakeAt(o, l) = 1 /\ Taken(o, l) = Head(l.Qctrl)
    BY <1>1, <1>7 DEF FromCtrl, Remaining, TakeAt, Taken
  <2>2. m >= 1
    BY <1>3, <1>6, <2>1, EmptySeq
  <2>3. Head(l.Qctrl) = l.Qctrl[1]
    OBVIOUS
  <2>4. Len(k.Qctrl) = m - 1 /\ \A i \in 1 .. m - 1 : k.Qctrl[i] = l.Qctrl[i + 1]
    BY <1>3, <1>6, <2>1, <2>2, HeadTailProperties
  <2>5. Len(k.Q) = n
    BY <1>3, <2>1
  <2>6. /\ Len(d) = (m - 1) + n
        /\ \A i \in 1 .. m - 1 : d[i] = [item |-> k.Qctrl[i], ctrl |-> TRUE]
        /\ \A i \in 1 .. n : d[(m - 1) + i] = [item |-> l.Q[i], ctrl |-> FALSE]
    BY <1>5, <2>1, <2>4, <2>5
  <2>7. c[1].item = l.Qctrl[1] /\ 1 \in 1 .. Len(c)
    <3>1. 1 \in 1 .. m /\ 1 \in 1 .. Len(c)
      BY <1>4, <2>2
    <3>2. c[1] = [item |-> l.Qctrl[1], ctrl |-> TRUE]
      BY <1>4, <3>1
    <3>3. QED
      BY <3>1, <3>2
  <2>8. ASSUME NEW j \in 1 .. Len(d) PROVE d[j] = c[IF j < 1 THEN j ELSE j + 1]
    <3>1. ~(j < 1) /\ j \in 1 .. (m - 1) + n
      BY <2>2, <2>6
    <3>2. CASE j <= m - 1
      <4>1. j \in 1 .. m - 1 /\ j + 1 \in 1 .. m
        BY <2>2, <3>1, <3>2
      <4>2. QED
        BY <1>4, <2>4, <2>6, <3>1, <4>1
    <3>3. CASE j > m - 1
      <4>1. j - (m - 1) \in 1 .. n /\ (m - 1) + (j - (m - 1)) = j /\ m + (j - (m - 1)) = j + 1
        BY <2>2, <3>1, <3>3
      <4>2. /\ d[(m - 1) + (j - (m - 1))] = [item |-> l.Q[j - (m - 1)], ctrl |-> FALSE]
            /\ c[m + (j - (m - 1))] = [item |-> l.Q[j - (m - 1)], ctrl |-> FALSE]
        BY <1>4, <2>6, <4>1
      <4>3. QED
        BY <3>1, <4>1, <4>2
    <3>4. QED
      BY <2>2, <3>1, <3>2, <3>3
  <2>9. Len(d) = Len(c) - 1
    BY <1>4, <2>6
  <2>10. d = Without(c, 1)
    BY <2>7, <2>8, <2>9, OneLess
  <2>11. QED
    BY <1>1, <1>2, <2>1, <2>3, <2>7, <2>10
<1>8. CASE ~FromCtrl(o, l) /\ o \in BackOps
  <2>1. /\ l.Q # <<>> /\ k.Qctrl = l.Qctrl /\ k.Q = SubSeq(l.Q, 1, Len(l.Q) - 1)
        /\ TakeAt(o, l) = m + n /\ Taken(o, l) = l.Q[n]
    BY <1>1, <1>3, <1>8 DEF Available, FromReg, Remaining, TakeAt, Taken
  <2>2. n >= 1
    BY <1>3, <1>6, <2>1, EmptySeq
  <2>3. Len(k.Q) = n - 1 /\ \A i \in 1 .. n - 1 : k.Q[i] = l.Q[i]
    <3>1. n \in 1 .. Len(l.Q) + 1 /\ k.Q = SubSeq(l.Q, 1, n - 1)
      BY <1>3, <2>1, <2>2
    <3>2. QED
      BY <1>6, <3>1, FrontPart
  <2>4. Len(k.Qctrl) = m
    BY <1>3, <2>1
  <2>5. /\ Len(d) = m + (n - 1)
        /\ \A i \in 1 .. m : d[i] = [item |-> l.Qctrl[i], ctrl |-> TRUE]
        /\ \A i \in 1 .. n - 1 : d[m + i] = [item |-> k.Q[i], ctrl |-> FALSE]
    BY <1>5, <2>1, <2>3, <2>4
  <2>6. m + n \in 1 .. Len(c) /\ c[m + n].item = l.Q[n]
    <3>1. n \in 1 .. n /\ m + n \in 1 .. Len(c)
      BY <1>4, <2>2
    <3>2. c[m + n] = [item |-> l.Q[n], ctrl |-> FALSE]
      BY <1>4, <3>1
    <3>3. QED
      BY <3>1, <3>2
  <2>7. ASSUME NEW j \in 1 .. Len(d) PROVE d[j] = c[IF j < m + n THEN j ELSE j + 1]
    <3>1. j < m + n /\ j \in 1 .. m + (n - 1)
      BY <2>2, <2>5
    <3>2. CASE j <= m
      <4>1. j \in 1 .. m
        BY <3>1, <3>2
      <4>2. d[j] = c[j]
        BY <1>4, <2>5, <4>1
      <4>3. QED
        BY <3>1, <4>2
    <3>3. CASE j > m
      <4>1. j - m \in 1 .. n - 1 /\ j - m \in 1 .. n /\ m + (j - m) = j
        BY <2>2, <3>1, <3>3
      <4>2. d[m + (j - m)] = [item |-> k.Q[j - m], ctrl |-> FALSE]
        BY <2>5, <4>1
      <4>3. c[m + (j - m)] = [item |-> l.Q[j - m], ctrl |-> FALSE] /\ k.Q[j - m] = l.Q[j - m]
        BY <1>4, <2>3, <4>1
      <4>4. QED
        BY <3>1, <4>1, <4>2, <4>3
    <3>4. QED
      BY <3>1, <3>2, <3>3
  <2>8. Len(d) = Len(c) - 1
    BY <1>4, <2>5
  <2>9. d = Without(c, m + n)
    BY <2>6, <2>7, <2>8, OneLess
  <2>10. QED
    BY <1>1, <1>2, <2>1, <2>6, <2>9
<1>9. CASE ~FromCtrl(o, l) /\ o \notin BackOps
  <2>1. /\ l.Q # <<>> /\ k.Qctrl = l.Qctrl /\ k.Q = Tail(l.Q)
        /\ TakeAt(o, l) = m + 1 /\ Taken(o, l) = Head(l.Q)
    BY <1>1, <1>3, <1>9 DEF Available, FromReg, Remaining, TakeAt, Taken
  <2>2. n >= 1
    BY <1>3, <1>6, <2>1, EmptySeq
  <2>3. Len(k.Q) = n - 1 /\ \A i \in 1 .. n - 1 : k.Q[i] = l.Q[i + 1]
    BY <1>3, <1>6, <2>1, <2>2, HeadTailProperties
  <2>4. Len(k.Qctrl) = m /\ Head(l.Q) = l.Q[1]
    BY <1>3, <2>1
  <2>5. /\ Len(d) = m + (n - 1)
        /\ \A i \in 1 .. m : d[i] = [item |-> l.Qctrl[i], ctrl |-> TRUE]
        /\ \A i \in 1 .. n - 1 : d[m + i] = [item |-> k.Q[i], ctrl |-> FALSE]
    BY <1>5, <2>1, <2>3, <2>4
  <2>6. m + 1 \in 1 .. Len(c) /\ c[m + 1].item = l.Q[1]
    <3>1. 1 \in 1 .. n /\ m + 1 \in 1 .. Len(c)
      BY <1>4, <2>2
    <3>2. c[m + 1] = [item |-> l.Q[1], ctrl |-> FALSE]
      BY <1>4, <3>1
    <3>3. QED
      BY <3>1, <3>2
  <2>7. ASSUME NEW j \in 1 .. Len(d) PROVE d[j] = c[IF j < m + 1 THEN j ELSE j + 1]
    <3>1. j \in 1 .. m + (n - 1)
      BY <2>2, <2>5
    <3>2. CASE j <= m
      <4>1. j \in 1 .. m /\ j < m + 1
        BY <3>1, <3>2
      <4>2. d[j] = c[j]
        BY <1>4, <2>5, <4>1
      <4>3. QED
        BY <4>1, <4>2
    <3>3. CASE j > m
      <4>1. /\ j - m \in 1 .. n - 1 /\ (j - m) + 1 \in 1 .. n /\ ~(j < m + 1)
            /\ m + (j - m) = j /\ m + ((j - m) + 1) = j + 1
        BY <2>2, <3>1, <3>3
      <4>2. d[m + (j - m)] = [item |-> k.Q[j - m], ctrl |-> FALSE]
        BY <2>5, <4>1
      <4>3. /\ c[m + ((j - m) + 1)] = [item |-> l.Q[(j - m) + 1], ctrl |-> FALSE]
            /\ k.Q[j - m] = l.Q[(j - m) + 1]
        BY <1>4, <2>3, <4>1
      <4>4. QED
        BY <4>1, <4>2, <4>3
    <3>4. QED
      BY <3>1, <3>2, <3>3
  <2>8. Len(d) = Len(c) - 1
    BY <1>4, <2>5
  <2>9. d = Without(c, m + 1)
    BY <2>6, <2>7, <2>8, OneLess
  <2>10. QED
    BY <1>1, <1>2, <2>1, <2>4, <2>6, <2>9
<1>10. QED
  BY <1>7, <1>8, <1>9
-----------------------------------------------------------------------------
(* What the operators of the channel say of the two deques.                *)

\* In the channel the control messages come first.
LEMMA ControlFirst ==
    ASSUME NEW l \in Lanes(Items)
    PROVE  \A i \in 1 .. Len(l.Qctrl) + Len(l.Q) : Chain(l)[i].ctrl <=> i <= Len(l.Qctrl)
<1>1. PICK m \in Nat, n \in Nat : m = Len(l.Qctrl) /\ n = Len(l.Q)
  BY ChainElements
<1>2. PICK c \in Seq(Entries) : c = Chain(l)
  BY ChainElements
<1>3. /\ \A i \in 1 .. m : c[i] = [item |-> l.Qctrl[i], ctrl |-> TRUE]
      /\ \A i \in 1 .. n : c[m + i] = [item |-> l.Q[i], ctrl |-> FALSE]
  BY <1>1, <1>2, ChainElements
<1>4. ASSUME NEW i \in 1 .. m + n PROVE c[i].ctrl <=> i <= m
  <2>1. CASE i <= m
    <3>1. i \in 1 .. m
      BY <2>1
    <3>2. c[i] = [item |-> l.Qctrl[i], ctrl |-> TRUE]
      BY <1>3, <3>1
    <3>3. QED
      BY <2>1, <3>2
  <2>2. CASE i > m
    <3>1. i - m \in 1 .. n /\ m + (i - m) = i /\ ~(i <= m)
      BY <2>2
    <3>2. c[m + (i - m)] = [item |-> l.Q[i - m], ctrl |-> FALSE]
      BY <1>3, <3>1
    <3>3. QED
      BY <3>1, <3>2
  <2>3. QED
    BY <2>1, <2>2
<1>5. QED
  BY <1>1, <1>2, <1>4

\* The control messages of the channel are the control deque.
LEMMA ControlCount ==
    ASSUME q \in Lanes(Items) PROVE Chan!CtrlCount = Len(q.Qctrl)
<1>1. PICK m \in Nat, n \in Nat : m = Len(q.Qctrl) /\ n = Len(q.Q)
  BY ChainElements
<1>2. PICK c \in Seq(Entries) : c = Chain(q)
  BY ChainElements
<1>3. DOMAIN c = 1 .. m + n /\ \A i \in 1 .. m + n : c[i].ctrl <=> i <= m
  BY <1>1, <1>2, ChainElements, ControlFirst
<1>4. {i \in DOMAIN c : c[i].ctrl} = 1 .. m
  BY <1>3
<1>5. Cardinality(1 .. m) = m
  BY FS_Interval
<1>6. Chan!CtrlCount = Cardinality({i \in DOMAIN Chain(q) : Chain(q)[i].ctrl})
  <2>1. \A S : Chan!Cardinality(S) = Cardinality(S)
    BY DEF Chan!Cardinality, Cardinality
  <2>2. Chan!CtrlCount = Chan!Cardinality({i \in DOMAIN Chain(q) : Chain(q)[i].ctrl})
    BY DEF Chan!CtrlCount, Chain
  <2>3. QED
    BY <2>1, <2>2
<1>7. QED
  BY <1>1, <1>2, <1>4, <1>5, <1>6

\* The positions a pop of the channel may look at: the first when there is a
\* control message for it, else all regular ones when it takes those.
LEMMA EligiblePositions ==
    ASSUME q \in Lanes(Items), NEW o
    PROVE  /\ FromCtrl(o, q) => Chan!Eligible(o) = {1}
           /\ ~FromCtrl(o, q) /\ FromReg(o, q) =>
                 Chan!Eligible(o) = Len(q.Qctrl) + 1 .. Len(q.Qctrl) + Len(q.Q)
           /\ ~Available(o, q) => Chan!Eligible(o) = {}
<1>1. PICK m \in Nat, n \in Nat : m = Len(q.Qctrl) /\ n = Len(q.Q)
  BY ChainElements
<1>2. PICK c \in Seq(Entries) : c = Chain(q)
  BY ChainElements
<1>3. DOMAIN c = 1 .. m + n /\ \A i \in 1 .. m + n : c[i].ctrl <=> i <= m
  BY <1>1, <1>2, ChainElements, ControlFirst
<1>4. Chan!CtrlCount = m
  BY <1>1, ControlCount
<1>5. Chan!Eligible(o) =
        {i \in DOMAIN c : IF c[i].ctrl THEN o \in CtrlOps /\ i = 1
                          ELSE o \in RegOps /\ (o \in CtrlOps => Chan!CtrlCount = 0)}
  <2>1. Chan!CtrlOps = CtrlOps /\ Chan!RegOps = RegOps
    BY DEF Chan!CtrlOps, CtrlOps, Chan!RegOps, RegOps
  <2>2. Chan!Eligible(o) =
          {i \in DOMAIN Chain(q) :
              IF Chain(q)[i].ctrl THEN o \in Chan!CtrlOps /\ i = 1
              ELSE o \in Chan!RegOps /\ (o \in Chan!CtrlOps => Chan!CtrlCount = 0)}
    BY DEF Chan!Eligible, Chain
  <2>3. QED
    BY <1>2, <2>1, <2>2
<1>6. Chan!Eligible(o) =
        {i \in 1 .. m + n : IF i <= m THEN o \in CtrlOps /\ i = 1
                            ELSE o \in RegOps /\ (o \in CtrlOps => m = 0)}
  BY <1>3, <1>4, <1>5
<1>7. /\ FromCtrl(o, q) <=> o \in CtrlOps /\ m # 0
      /\ FromReg(o, q) <=> o \in RegOps /\ n # 0
  <2>1. (q.Qctrl # <<>> <=> m # 0) /\ (q.Q # <<>> <=> n # 0)
    BY <1>1, EmptySeq DEF Lanes
  <2>2. QED
    BY <2>1 DEF FromCtrl, FromReg
<1>8. CASE FromCtrl(o, q)
  <2>1. Chan!Eligible(o) = {1}
    BY <1>6, <1>7, <1>8
  <2>2. QED
    BY <1>8, <2>1 DEF Available
<1>9. CASE ~FromCtrl(o, q) /\ FromReg(o, q)
  <2>1. Chan!Eligible(o) = m + 1 .. m + n
    BY <1>6, <1>7, <1>9
  <2>2. QED
    BY <1>1, <1>9, <2>1 DEF Available
<1>10. CASE ~FromCtrl(o, q) /\ ~FromReg(o, q)
  <2>1. Chan!Eligible(o) = {}
    BY <1>6, <1>7, <1>10
  <2>2. QED
    BY <1>10, <2>1
<1>11. QED
  BY <1>8, <1>9, <1>10

\* The position the channel takes an item from is the one the deques take it
\* from.
LEMMA PositionTaken ==
    ASSUME q \in Lanes(Items), NEW o, Available(o, q)
    PROVE  Chan!Eligible(o) # {} /\ Chan!Position(o) = TakeAt(o, q)
<1>1. PICK m \in Nat, n \in Nat : m = Len(q.Qctrl) /\ n = Len(q.Q)
  BY ChainElements
<1>2. Chan!Position(o) =
        CHOOSE i \in Chan!Eligible(o) :
            \A j \in Chan!Eligible(o) : IF o \in BackOps THEN j <= i ELSE i <= j
  BY DEF Chan!Position, Chan!BackOps, BackOps
<1>3. CASE FromCtrl(o, q)
  <2>1. Chan!Eligible(o) = {1} /\ TakeAt(o, q) = 1
    BY <1>3, EligiblePositions DEF TakeAt
  <2>2. QED
    BY <1>2, <2>1
<1>4. CASE ~FromCtrl(o, q)
  <2>1. FromReg(o, q) /\ n # 0
    BY <1>1, <1>4, EmptySeq DEF Available, FromReg, Lanes
  <2>2. Chan!Eligible(o) = m + 1 .. m + n
    BY <1>1, <1>4, <2>1, EligiblePositions
  <2>3. CASE o \in BackOps
    <3>1. TakeAt(o, q) = m + n
      BY <1>1, <1>4, <2>3 DEF TakeAt
    <3>2. m + n \in m + 1 .. m + n /\ \A j \in m + 1 .. m + n : j <= m + n
      BY <2>1
    <3>3. Chan!Position(o) = CHOOSE i \in m + 1 .. m + n : \A j \in m + 1 .. m + n : j <= i
      BY <1>2, <2>2, <2>3
    <3>4. QED
      BY <2>2, <3>1, <3>2, <3>3
  <2>4. CASE o \notin BackOps
    <3>1. TakeAt(o, q) = m + 1
      BY <1>1, <1>4, <2>4 DEF TakeAt
    <3>2. m + 1 \in m + 1 .. m + n /\ \A j \in m + 1 .. m + n : m + 1 <= j
      BY <2>1
    <3>3. Chan!Position(o) = CHOOSE i \in m + 1 .. m + n : \A j \in m + 1 .. m + n : i <= j
      BY <1>2, <2>2, <2>4
    <3>4. QED
      BY <2>2, <3>1, <3>2, <3>3
  <2>5. QED
    BY <2>3, <2>4
<1>5. QED
  BY <1>3, <1>4
-----------------------------------------------------------------------------
(* The initial states, and the steps.                                      *)

\* What a thread is doing, as the channel sees it.
PhaseOf == [t \in Threads |-> Phase(pc[t])]
OpOf == [t \in Threads |-> IF Phase(pc[t]) = "dead" THEN "none" ELSE op[t]]

\* A queue that was just created is an empty channel.
LEMMA InitMaps == Init => Chan!Init
<1> SUFFICES ASSUME Init PROVE Chan!Init
  OBVIOUS
<1>1. Tagged(q.Qctrl, TRUE) \o Tagged(q.Q, FALSE) = <<>>
  BY DEF Init, Tagged, EmptyLanes
<1>2. [t \in Threads |-> Phase(pc[t])] = [t \in Threads |-> "out"]
  BY DEF Init, Phase
<1>3. QED
  BY <1>1, <1>2 DEF Init, Chan!Init, Phase

\* A step that moves one thread moves that thread only.
LEMMA PhaseMoves ==
    ASSUME TypeOK, NEW t \in Threads, NEW x, pc' = [pc EXCEPT ![t] = x]
    PROVE  PhaseOf' = [PhaseOf EXCEPT ![t] = Phase(x)]
BY DEF TypeOK, PhaseOf

\* A step between two places of the same phase is invisible.
LEMMA PhaseStays ==
    ASSUME TypeOK, NEW t \in Threads, NEW x, pc' = [pc EXCEPT ![t] = x], op' = op,
           Phase(x) = Phase(pc[t])
    PROVE  PhaseOf' = PhaseOf /\ OpOf' = OpOf
BY DEF TypeOK, PhaseOf, OpOf

\* A push takes effect in the step that changes the deques.
LEMMA PushMaps == ASSUME Inv, NEW t \in Threads, Push(t) PROVE Chan!Put(t)
<1> USE DEF Inv
<1>1. op[t] \in PushOps /\ p[t] \in Items /\ q \in Lanes(Items) /\ pc[t] = "crit"
  BY DEF Push, PlaceInv, TypeOK
<1>2. Chain(q') = Chan!SE!InsertAt(Chain(q), Chan!InsertPosition(op[t]),
                                   [item |-> p[t], ctrl |-> op[t] = "push_back_ctrl"])
  <2>1. Chan!InsertPosition(op[t]) = PutAt(op[t], q)
    <3>1. Chan!CtrlCount = Len(q.Qctrl) /\ Len(Chain(q)) = Len(q.Qctrl) + Len(q.Q)
      BY <1>1, ControlCount, ChainElements
    <3>2. QED
      BY <3>1 DEF Chan!InsertPosition, PutAt, Chain
  <2>2. q' = Pushed(op[t], q, p[t])
    BY DEF Push
  <2>3. Chain(q') = With(Chain(q), PutAt(op[t], q),
                         [item |-> p[t], ctrl |-> op[t] = "push_back_ctrl"])
    BY <1>1, <2>2, ChainPut
  <2>4. QED
    BY <2>1, <2>3 DEF With, Chan!SE!InsertAt
<1>3. PhaseOf' = [PhaseOf EXCEPT ![t] = "done"] /\ OpOf' = OpOf
  BY <1>1, ZenonT(60) DEF Push, Woken, Goto, Phase, PhaseOf, OpOf, TypeOK, Places
<1>4. PhaseOf[t] = "called" /\ OpOf[t] = op[t]
  BY <1>1 DEF Phase, PhaseOf, OpOf
<1>5. Chan!PushOps = PushOps
  BY DEF Chan!PushOps, PushOps
<1>6. p' = [p EXCEPT ![t] = NoItem]
  BY DEF Push
<1>7. QED
  BY <1>1, <1>2, <1>3, <1>4, <1>5, <1>6 DEF Chan!Put, PhaseOf, OpOf, Chain

\* A pop that finds something takes effect in the step that changes the deques.
LEMMA PopMaps == ASSUME Inv, NEW t \in Threads, Pop(t) PROVE Chan!Get(t)
<1> USE DEF Inv
<1>1. /\ op[t] \in PopOps \cup WaitOps /\ Available(op[t], q) /\ q \in Lanes(Items)
      /\ pc[t] \in {"crit", "retest"}
  BY DEF Pop, TypeOK
<1>2. Chan!Eligible(op[t]) # {} /\ Chan!Position(op[t]) = TakeAt(op[t], q)
  BY <1>1, PositionTaken
<1>3. /\ Chain(q') = Without(Chain(q), TakeAt(op[t], q))
      /\ p' = [p EXCEPT ![t] = Chain(q)[TakeAt(op[t], q)].item]
  BY <1>1, ChainGet DEF Pop, Take
<1>4. /\ Chain(q') = Chan!SE!RemoveAt(Chain(q), Chan!Position(op[t]))
      /\ p' = [p EXCEPT ![t] = Chain(q)[Chan!Position(op[t])].item]
  BY <1>2, <1>3 DEF Without, Chan!SE!RemoveAt
<1>5. PhaseOf' = [PhaseOf EXCEPT ![t] = "done"] /\ OpOf' = OpOf
  BY <1>1 DEF Pop, Take, Goto, Phase, PhaseOf, OpOf, TypeOK, Places
<1>6. PhaseOf[t] = "called" /\ OpOf[t] = op[t]
  BY <1>1 DEF Phase, PhaseOf, OpOf
<1>7. Chan!PopOps = PopOps /\ Chan!WaitOps = WaitOps
  BY DEF Chan!PopOps, PopOps, Chan!WaitOps, WaitOps
<1>8. QED
  BY <1>1, <1>2, <1>4, <1>5, <1>6, <1>7 DEF Chan!Get, PhaseOf, OpOf, Chain

\* A pop that finds nothing found nothing in the channel either.
LEMMA PopNothingMaps == ASSUME Inv, NEW t \in Threads, PopNothing(t) PROVE Chan!GetNothing(t)
<1> USE DEF Inv
<1>1. op[t] \in PopOps /\ ~Available(op[t], q) /\ q \in Lanes(Items) /\ pc[t] = "crit"
  BY DEF PopNothing, TypeOK
<1>2. Chan!Eligible(op[t]) = {}
  BY <1>1, EligiblePositions
<1>3. PhaseOf' = [PhaseOf EXCEPT ![t] = "done"] /\ OpOf' = OpOf
  BY <1>1 DEF PopNothing, Goto, Phase, PhaseOf, OpOf, TypeOK, Places
<1>4. PhaseOf[t] = "called" /\ OpOf[t] = op[t]
  BY <1>1 DEF Phase, PhaseOf, OpOf
<1>5. Chan!PopOps = PopOps
  BY DEF Chan!PopOps, PopOps
<1>6. q' = q /\ p' = p
  BY DEF PopNothing
<1>7. QED
  BY <1>1, <1>2, <1>3, <1>4, <1>5, <1>6 DEF Chan!GetNothing, PhaseOf, OpOf

\* A wait is given up only while the channel has nothing for it: before it
\* sleeps, because it has just looked, and later, because no wakeup is lost.
LEMMA CancelMaps ==
    ASSUME Inv, NEW t \in Threads, CancelAtWait(t) \/ CancelWait(t)
    PROVE  Chan!Abandon(t)
<1> USE DEF Inv
<1>1. /\ op[t] \in WaitOps /\ ~Available(op[t], q) /\ q \in Lanes(Items)
      /\ pc[t] \in {"crit", "waiting"}
  BY DEF CancelAtWait, CancelWait, MustWait, TypeOK, PlaceInv, NoLostWakeup
<1>2. p[t] = NoItem
  BY <1>1 DEF PlaceInv, PushOps, WaitOps
<1>3. Chan!Eligible(op[t]) = {}
  BY <1>1, EligiblePositions
<1>4. PhaseOf' = [PhaseOf EXCEPT ![t] = "dead"] /\ OpOf' = [OpOf EXCEPT ![t] = "none"]
  BY <1>1 DEF CancelAtWait, CancelWait, Goto, Phase, PhaseOf, OpOf, TypeOK, Places
<1>5. PhaseOf[t] = "called" /\ OpOf[t] = op[t]
  BY <1>1 DEF Phase, PhaseOf, OpOf
<1>6. Chan!WaitOps = WaitOps
  BY DEF Chan!WaitOps, WaitOps
<1>7. q' = q /\ p' = p
  BY DEF CancelAtWait, CancelWait
<1>8. QED
  BY <1>1, <1>2, <1>3, <1>4, <1>5, <1>6, <1>7 DEF Chan!Abandon, PhaseOf, OpOf

\* What a thread does outside the queue, a call and a return included.
LEMMA OutsideMaps ==
    ASSUME Inv, NEW t \in Threads
    PROVE  /\ New(t) => Chan!New(t)
           /\ Delete(t) => Chan!Delete(t)
           /\ \A o \in AllOps : Call(t, o) => Chan!Call(t, o)
           /\ Unlock(t) => Chan!Return(t)
           /\ Respawn(t) => Chan!Restart(t)
<1> USE DEF Inv, Goto, Leave, Phase
<1>1. ASSUME New(t) PROVE Chan!New(t)
  BY <1>1 DEF New, Chan!New, TypeOK
<1>2. ASSUME Delete(t) PROVE Chan!Delete(t)
  BY <1>2 DEF Delete, Chan!Delete, TypeOK
<1>3. ASSUME NEW o \in AllOps, Call(t, o) PROVE Chan!Call(t, o)
  <2>1. Chan!PushOps = PushOps
    BY DEF Chan!PushOps, PushOps
  <2>2. PhaseOf[t] = "out" /\ PhaseOf' = [PhaseOf EXCEPT ![t] = "called"]
    BY <1>3 DEF Call, PhaseOf, TypeOK, Places
  <2>3. OpOf' = [OpOf EXCEPT ![t] = o]
    BY <1>3 DEF Call, OpOf, TypeOK, Places
  <2>4. QED
    BY <1>3, <2>1, <2>2, <2>3 DEF Call, Chan!Call, PhaseOf, OpOf
<1>4. ASSUME Unlock(t) PROVE Chan!Return(t)
  BY <1>4 DEF Unlock, Chan!Return, Places, TypeOK
<1>5. ASSUME Respawn(t) PROVE Chan!Restart(t)
  <2>1. op[t] = "none" /\ pc[t] = "dead"
    BY <1>5 DEF Respawn, PlaceInv
  <2>2. PhaseOf[t] = "dead" /\ PhaseOf' = [PhaseOf EXCEPT ![t] = "out"] /\ OpOf' = OpOf
    BY <1>5, <2>1 DEF Respawn, PhaseOf, OpOf, TypeOK, Places
  <2>3. QED
    BY <1>5, <2>2 DEF Respawn, Chan!Restart, PhaseOf, OpOf
<1>6. QED
  BY <1>1, <1>2, <1>3, <1>4, <1>5

\* The mutex, the condition variable, the loops and the cleanup handler are
\* invisible.
LEMMA InvisibleSteps ==
    ASSUME Inv, NEW t \in Threads,
           \/ Acquire(t) \/ CondWait(t) \/ WokenForNothing(t) \/ LoopAgain(t)
           \/ Cleanup(t) \/ Cancel(t) \/ SpuriousWakeup(t)
    PROVE  UNCHANGED <<q, p, PhaseOf, OpOf>>
<1> USE DEF Inv, Goto, Leave, Phase
<1>1. CASE Acquire(t)
  BY <1>1, PhaseStays DEF Acquire, Lock, Relock, DyingLock
<1>2. CASE CondWait(t) \/ WokenForNothing(t) \/ LoopAgain(t) \/ SpuriousWakeup(t)
  BY <1>2, PhaseStays DEF CondWait, MustWait, WokenForNothing, LoopAgain, SpuriousWakeup
<1>3. CASE Cleanup(t)
  BY <1>3 DEF Cleanup, PhaseOf, OpOf, TypeOK
<1>4. CASE Cancel(t)
  BY <1>4 DEF Cancel, PhaseOf, OpOf
<1>5. QED
  BY <1>1, <1>2, <1>3, <1>4

\* Every step of the queue is a step of the channel or leaves it alone.
LEMMA StepMaps == Inv /\ [Next]_vars => [Chan!Next]_(Chan!cvars)
<1> SUFFICES ASSUME Inv, [Next]_vars PROVE Chan!Next \/ UNCHANGED Chan!cvars
  OBVIOUS
<1>1. ASSUME UNCHANGED <<q, p, PhaseOf, OpOf>> PROVE UNCHANGED Chan!cvars
  BY <1>1 DEF Chan!cvars, PhaseOf, OpOf
<1>2. CASE UNCHANGED vars
  BY <1>2, <1>1 DEF vars, PhaseOf, OpOf
<1>3. ASSUME NEW t \in Threads, Own(t) \/ Acquire(t) \/ Outside(t)
      PROVE  Chan!Next \/ UNCHANGED Chan!cvars
  <2>1. CASE Push(t)
    BY <2>1, PushMaps DEF Chan!Next, Chan!Effect
  <2>2. CASE Pop(t)
    BY <2>2, PopMaps DEF Chan!Next, Chan!Effect
  <2>3. CASE PopNothing(t)
    BY <2>3, PopNothingMaps DEF Chan!Next, Chan!Effect
  <2>4. CASE CancelAtWait(t) \/ CancelWait(t)
    BY <2>4, CancelMaps DEF Chan!Next
  <2>5. CASE New(t) \/ Delete(t) \/ Unlock(t) \/ Respawn(t)
    BY <2>5, OutsideMaps DEF Chan!Next
  <2>6. ASSUME NEW o \in AllOps, Call(t, o) PROVE Chan!Next
    <3>1. Chan!AllOps = AllOps
      BY DEF Chan!AllOps, AllOps, Chan!PushOps, PushOps, Chan!PopOps, PopOps, Chan!WaitOps, WaitOps
    <3>2. Chan!Call(t, o)
      BY <2>6, OutsideMaps
    <3>3. QED
      BY <3>1, <3>2 DEF Chan!Next
  <2>7. CASE \/ Acquire(t) \/ CondWait(t) \/ WokenForNothing(t) \/ LoopAgain(t)
             \/ Cleanup(t) \/ Cancel(t) \/ SpuriousWakeup(t)
    BY <2>7, <1>1, InvisibleSteps
  <2>8. QED
    BY <1>3, <2>1, <2>2, <2>3, <2>4, <2>5, <2>6, <2>7 DEF Own, Outside
<1>4. QED
  BY <1>2, <1>3 DEF Next

\* Whatever the threads do, in whatever order the mutex and the condition
\* variable let them, and wherever they are cancelled, they see one sequence of
\* messages, control before regular, from which every push, pop and wait takes
\* effect in a single step between its call and its return.
THEOREM Linearizable == Spec => Chan!SafeSpec
<1>1. Inv /\ [Next]_vars => [Chan!Next]_(Chan!cvars)
  BY StepMaps
<1>2. QED
  BY <1>1, InitMaps, Invariance, PTL DEF Spec, Chan!SafeSpec
=============================================================================
