--------------------------- MODULE RecorderProofs ---------------------------
(***************************************************************************)
(* Machine-checked proofs about Recorder, for any savers, pool, number of  *)
(* files, /count of each saver and commands.                               *)
(***************************************************************************)
EXTENDS Recorder, SequenceTheorems, WellFoundedInduction, FiniteSetTheorems, TLAPS

(* The operators of the steps.                                             *)

\* A non-empty set of natural numbers has a least one.
LEMMA LeastNatural ==
    ASSUME NEW S \in SUBSET Nat, S # {}
    PROVE  \E x \in S : \A y \in S : x <= y
<1> DEFINE R == {ss \in Nat \X Nat : ss[1] < ss[2]}
<1>1. IsWellFoundedOn(R, Nat)
  BY NatLessThanWellFounded, Zenon DEF OpToRel
<1>2. PICK x \in S : \A y \in S : ~(<<y, x>> \in R)
  BY <1>1, WFMin, Zenon
<1>3. ASSUME NEW y \in S
      PROVE  x <= y
  <2>1. x \in Nat /\ y \in Nat
    OBVIOUS
  <2>2. <<y, x>> \in Nat \X Nat /\ <<y, x>>[1] = y /\ <<y, x>>[2] = x
    BY <2>1
  <2>3. ~(y < x)
    BY <1>2, <2>2, Zenon
  <2>4. QED
    BY <2>1, <2>3
<1>4. QED
  BY <1>3

\* The greater of two numbers.
LEMMA MaxOfTwo ==
    ASSUME NEW a \in Int, NEW b \in Int
    PROVE  Max({a, b}) = IF a >= b THEN a ELSE b
<1> DEFINE m == IF a >= b THEN a ELSE b
<1>1. m \in {a, b} /\ \A y \in {a, b} : m >= y
  OBVIOUS
<1>2. \A x \in {a, b} : (\A y \in {a, b} : x >= y) => x = m
  OBVIOUS
<1>3. QED
  BY <1>1, <1>2 DEF Max

\* A state of the reader, field by field.
LEMMA ReaderFields ==
    ASSUME NEW s \in ReaderState
    PROVE  /\ s.pause \in BOOLEAN /\ s.one \in BOOLEAN /\ s.count \in Nat
           /\ s.applyAt \in Int /\ s.applyOffset \in Int
           /\ s.initializing \in BOOLEAN
BY DEF ReaderState

\* Fields of these types make a state of the reader.
LEMMA ReaderMade ==
    ASSUME NEW t,
           t = [pause |-> t.pause, one |-> t.one, count |-> t.count, applyAt |-> t.applyAt,
                applyOffset |-> t.applyOffset, initializing |-> t.initializing],
           t.pause \in BOOLEAN, t.one \in BOOLEAN, t.count \in Nat, t.applyAt \in Int,
           t.applyOffset \in Int, t.initializing \in BOOLEAN
    PROVE  t \in ReaderState
BY DEF ReaderState

\* A pending command: none, one for a later count, one to be obeyed now.
LEMMA ApplyIs ==
    ASSUME NEW s \in ReaderState, NEW t, t = Apply(s)
    PROVE  /\ s.applyAt < 0 => t = s
           /\ s.applyAt >= 0 /\ s.count < s.applyAt =>
                 /\ t.one /\ t.pause = s.pause /\ t.count = s.count
                 /\ t.applyAt = s.applyAt /\ t.applyOffset = s.applyOffset
           /\ s.applyAt >= 0 /\ s.count >= s.applyAt =>
                 /\ t.one /\ (t.pause <=> s.pause \/ s.applyOffset = 0)
                 /\ t.count = IF s.count + s.applyOffset >= 0 THEN s.count + s.applyOffset ELSE 0
                 /\ t.applyAt = -1 /\ t.applyOffset = 0
           /\ t.initializing = s.initializing
<1>1. s.count \in Nat /\ s.applyAt \in Int /\ s.applyOffset \in Int
  BY ReaderFields
<1>2. Max({0, s.count + s.applyOffset}) = IF s.count + s.applyOffset >= 0
                                          THEN s.count + s.applyOffset ELSE 0
  BY <1>1, MaxOfTwo
<1>3. t.initializing = s.initializing
  BY <1>1 DEF Apply, ReaderState
<1>4. CASE s.applyAt < 0
  BY <1>1, <1>3, <1>4 DEF Apply
<1>5. CASE s.applyAt >= 0 /\ s.count < s.applyAt
  <2>1. t = [s EXCEPT !.one = TRUE]
    BY <1>1, <1>5 DEF Apply
  <2>2. /\ t.one /\ t.pause = s.pause /\ t.count = s.count
        /\ t.applyAt = s.applyAt /\ t.applyOffset = s.applyOffset
    BY <2>1 DEF ReaderState
  <2>3. QED
    BY <1>1, <1>3, <1>5, <2>2
<1>6. CASE s.applyAt >= 0 /\ s.count >= s.applyAt
  <2>1. t = [s EXCEPT !.pause = @ \/ s.applyOffset = 0,
                      !.count = Max({0, @ + s.applyOffset}),
                      !.one = TRUE, !.applyAt = -1, !.applyOffset = 0]
    BY <1>1, <1>6 DEF Apply
  <2>2. t.one /\ (t.pause <=> s.pause \/ s.applyOffset = 0)
    BY <2>1 DEF ReaderState
  <2>3. t.count = Max({0, s.count + s.applyOffset}) /\ t.applyAt = -1 /\ t.applyOffset = 0
    BY <2>1 DEF ReaderState
  <2>4. QED
    BY <1>1, <1>2, <1>3, <1>6, <2>2, <2>3
<1>7. QED
  BY <1>1, <1>4, <1>5, <1>6

\* A pending command that is applied leaves a state of the reader.
LEMMA Applied ==
    ASSUME NEW s \in ReaderState, NEW t, t = Apply(s)
    PROVE  t \in ReaderState
<1>1. Max({0, s.count + s.applyOffset}) \in Nat
  BY ReaderFields, MaxOfTwo
<1>2. t = [pause |-> t.pause, one |-> t.one, count |-> t.count, applyAt |-> t.applyAt,
            applyOffset |-> t.applyOffset, initializing |-> t.initializing]
  BY <1>1 DEF Apply, ReaderState
<1>3. t.pause \in BOOLEAN
  BY <1>1 DEF Apply, ReaderState
<1>4. t.one \in BOOLEAN
  BY <1>1 DEF Apply, ReaderState
<1>5. t.count \in Nat
  BY <1>1 DEF Apply, ReaderState
<1>6. t.applyAt \in Int
  BY <1>1 DEF Apply, ReaderState
<1>7. t.applyOffset \in Int
  BY <1>1 DEF Apply, ReaderState
<1>8. t.initializing \in BOOLEAN
  BY <1>1 DEF Apply, ReaderState
<1>9. QED
  BY <1>2, <1>3, <1>4, <1>5, <1>6, <1>7, <1>8, ReaderMade

\* A message that is decoded leaves a state of the reader.
LEMMA ReadDecoded ==
    ASSUME NEW s \in ReaderState, NEW m \in ReadMessage, NEW t, t = ReadDecode(s, m)
    PROVE  t \in ReaderState
<1>1. /\ m.cmd \in {"/init-done", "/reinit", "/play", "/pause", "/next", "/count-add"}
      /\ m.k \in Int /\ m.off \in Int
  BY DEF ReadMessage
<1>2. t = [pause |-> t.pause, one |-> t.one, count |-> t.count, applyAt |-> t.applyAt,
            applyOffset |-> t.applyOffset, initializing |-> t.initializing]
  BY <1>1 DEF ReadDecode, ReaderState, Rewound
<1>3. t.pause \in BOOLEAN
  BY <1>1 DEF ReadDecode, ReaderState, Rewound
<1>4. t.one \in BOOLEAN
  BY <1>1 DEF ReadDecode, ReaderState, Rewound
<1>5. t.count \in Nat
  BY <1>1 DEF ReadDecode, ReaderState, Rewound
<1>6. t.applyAt \in Int
  BY <1>1 DEF ReadDecode, ReaderState, Rewound
<1>7. t.applyOffset \in Int
  BY <1>1 DEF ReadDecode, ReaderState, Rewound
<1>8. t.initializing \in BOOLEAN
  BY <1>1 DEF ReadDecode, ReaderState, Rewound
<1>9. QED
  BY <1>2, <1>3, <1>4, <1>5, <1>6, <1>7, <1>8, ReaderMade

\* So do the end of the sequence and an image that was read.
LEMMA RewoundAndRead ==
    ASSUME NEW s \in ReaderState
    PROVE  Rewound(s) \in ReaderState /\ AfterRead(s) \in ReaderState
<1>1. ASSUME NEW t, t = Rewound(s) \/ t = AfterRead(s)
      PROVE  t \in ReaderState
  <2>1. t = [pause |-> t.pause, one |-> t.one, count |-> t.count, applyAt |-> t.applyAt,
              applyOffset |-> t.applyOffset, initializing |-> t.initializing]
    BY <1>1 DEF Rewound, AfterRead, ReaderState
  <2>2. t.pause \in BOOLEAN
    BY <1>1 DEF Rewound, AfterRead, ReaderState
  <2>3. t.one \in BOOLEAN
    BY <1>1 DEF Rewound, AfterRead, ReaderState
  <2>4. t.count \in Nat
    <3>1. t.count = 0 \/ t.count = s.count + 1
      BY <1>1 DEF Rewound, AfterRead, ReaderState
    <3>2. QED
      BY <3>1, ReaderFields
  <2>5. t.applyAt \in Int
    BY <1>1 DEF Rewound, AfterRead, ReaderState
  <2>6. t.applyOffset \in Int
    BY <1>1 DEF Rewound, AfterRead, ReaderState
  <2>7. t.initializing \in BOOLEAN
    BY <1>1 DEF Rewound, AfterRead, ReaderState
  <2>8. QED
    BY <2>1, <2>2, <2>3, <2>4, <2>5, <2>6, <2>7, ReaderMade
<1>2. QED
  BY <1>1

\* A message that is decoded leaves a state of the sync.
LEMMA SyncDecoded ==
    ASSUME NEW s \in SyncState, NEW m \in SyncMessage
    PROVE  SyncDecode(s, m) \in SyncState
<1>1. m.cmd \in {"/go", "/count", "/manual", "/auto"} /\ m.k \in Int
  BY DEF SyncMessage
<1>2. CASE m.cmd = "/go"
  BY <1>2 DEF SyncDecode, SyncState
<1>3. CASE m.cmd = "/count"
  BY <1>1, <1>3 DEF SyncDecode, SyncState
<1>4. CASE m.cmd = "/manual"
  BY <1>4 DEF SyncDecode, SyncState
<1>5. CASE m.cmd = "/auto"
  BY <1>5 DEF SyncDecode, SyncState
<1>6. QED
  BY <1>1, <1>2, <1>3, <1>4, <1>5

\* So does an image that is let through.
LEMMA SyncPassed ==
    ASSUME NEW s \in SyncState, s.nbGo >= 1
    PROVE  [s EXCEPT !.n = @ + 1, !.togo = @ - 1, !.nbGo = @ - 1] \in SyncState
<1>1. PICK t : t = [s EXCEPT !.n = @ + 1, !.togo = @ - 1, !.nbGo = @ - 1]
  OBVIOUS
<1>2. t.n = s.n + 1 /\ t.togo = s.togo - 1 /\ t.nbGo = s.nbGo - 1 /\ t.manual = s.manual
  BY <1>1 DEF SyncState
<1>3. t = [manual |-> t.manual, nbGo |-> t.nbGo, togo |-> t.togo, n |-> t.n]
  BY <1>1 DEF SyncState
<1>4. t.n \in Nat /\ t.togo \in Int /\ t.nbGo \in Nat /\ t.manual \in BOOLEAN
  BY <1>2 DEF SyncState
<1>5. t \in SyncState
  BY <1>3, <1>4 DEF SyncState
<1>6. QED
  BY <1>1, <1>5

\* The limit and the number of frames that a message sets.
LEMMA LimitTyped ==
    ASSUME ReaderTyped, NEW m \in ReadMessage
    PROVE  Limit(m) \in Nat \cup {-1} /\ Frames(m) \in Nat \cup {-1}
<1> DEFINE next == IF rdAt = "pop" THEN rd.count + 1 ELSE rd.count
           reach == Max({m.k, next})
<1>1. next \in Nat /\ rd.count \in Nat /\ m.k \in Int /\ m.off \in Int
  BY ReaderFields DEF ReaderTyped, ReadMessage
<1>2. reach \in Nat
  <2> HIDE DEF next
  <2>1. QED
    BY <1>1, MaxOfTwo
<1> HIDE DEF reach, next
<1>3. Max({reach + m.off, reach - 1}) \in Nat \cup {-1}
  BY <1>1, <1>2, MaxOfTwo
<1>4. Limit(m) \in {reach, Max({reach + m.off, reach - 1}), rd.count, limit, -1}
  BY DEF Limit, reach, next
<1>5. Frames(m) \in {1, 2, frames, -1}
  BY DEF Frames
<1>6. QED
  BY <1>1, <1>2, <1>3, <1>4, <1>5 DEF ReaderTyped

\* When some port of /distribute has a queue, the sync finds a shortest queue.
LEMMA ShortestIsAPort ==
    ASSUME TypeOK, Known # {}
    PROVE  Shortest \in Ports
<1> DEFINE l(i) == Len(svQ[Savers[i]])
<1>1. /\ Len(Savers) \in Nat /\ Len(Savers) > 0 /\ DOMAIN Savers = 1 .. Len(Savers)
      /\ sy.n \in Nat
  BY RecorderAssumption DEF TypeOK, SyncTyped, SyncState
<1>2. ASSUME NEW i \in Known
      PROVE  i \in Int /\ Savers[i] \in Ports
  BY <1>1 DEF Known, Ports, Range
<1>3. ASSUME NEW i \in Known
      PROVE  l(i) \in Nat /\ Turn(i) \in Nat
  <2>1. l(i) \in Nat
    BY <1>2, LenProperties DEF TypeOK, SaversTyped
  <2>2. i - 1 - sy.n \in Int
    BY <1>1, <1>2
  <2>3. Turn(i) \in Nat
    BY <1>1, <2>2 DEF Turn
  <2>4. QED
    BY <2>1, <2>3
<1> HIDE DEF l
<1>4. PICK x \in {l(i) : i \in Known} : \A y \in {l(i) : i \in Known} : x <= y
  BY <1>3, LeastNatural
<1> DEFINE J == {i \in Known : l(i) = x}
<1>5. PICK t \in {Turn(i) : i \in J} : \A y \in {Turn(i) : i \in J} : t <= y
  BY <1>3, LeastNatural
<1>6. PICK b \in J : Turn(b) = t
  OBVIOUS
<1>7. b \in Known /\ \A j \in Known : l(b) < l(j) \/ (l(b) = l(j) /\ Turn(b) <= Turn(j))
  <2>1. ASSUME NEW j \in Known
        PROVE  l(b) < l(j) \/ (l(b) = l(j) /\ Turn(b) <= Turn(j))
    BY <1>3, <1>4, <1>5, <1>6
  <2>2. QED
    BY <2>1
<1> HIDE DEF J
<1>8. Shortest = Savers[CHOOSE i \in Known : \A j \in Known :
                            l(i) < l(j) \/ (l(i) = l(j) /\ Turn(i) <= Turn(j))]
  BY Zenon DEF Shortest, l
<1>9. (CHOOSE i \in Known : \A j \in Known :
          l(i) < l(j) \/ (l(i) = l(j) /\ Turn(i) <= Turn(j))) \in Known
  BY <1>7, Zenon
<1>10. QED
  BY <1>2, <1>8, <1>9

\* The places taken in queues q of the savers.
Places(q) == UNION {{s} \X DOMAIN q[s] : s \in Ports}

\* They are the pairs of a saver and a place of its queue.
LEMMA PlacesAre ==
    ASSUME NEW q
    PROVE  \A x : x \in Places(q) <=> \E s \in Ports : \E i \in DOMAIN q[s] : x = <<s, i>>
BY DEF Places

\* An image that is appended to a queue takes one place.
LEMMA PlaceTaken ==
    ASSUME NEW q \in [Ports -> Seq(Nat)], IsFiniteSet(Places(q)),
           NEW s \in Ports, NEW n \in Nat, NEW u, u = Append(q[s], n),
           NEW r, r = [q EXCEPT ![s] = u]
    PROVE  /\ r \in [Ports -> Seq(Nat)] /\ IsFiniteSet(Places(r))
           /\ Cardinality(Places(r)) = Cardinality(Places(q)) + 1
<1>1. q[s] \in Seq(Nat) /\ Len(q[s]) \in Nat /\ DOMAIN q[s] = 1 .. Len(q[s])
  BY LenProperties
<1>2. PICK k : k = Len(q[s]) + 1
  OBVIOUS
<1>3. Append(q[s], n) \in Seq(Nat) /\ Len(Append(q[s], n)) = k
  BY <1>1, <1>2, AppendProperties
<1>4. DOMAIN Append(q[s], n) = DOMAIN q[s] \cup {k} /\ k \notin DOMAIN q[s]
  <2>1. DOMAIN Append(q[s], n) = 1 .. k
    BY <1>3, LenProperties
  <2>2. QED
    BY <1>1, <1>2, <2>1
<1>5. r \in [Ports -> Seq(Nat)] /\ r[s] = Append(q[s], n) /\ \A p \in Ports : p # s => r[p] = q[p]
  BY <1>3
<1>6. Places(r) = Places(q) \cup {<<s, k>>}
  <2>1. \A x : x \in Places(r) <=> \E p \in Ports : \E i \in DOMAIN r[p] : x = <<p, i>>
    BY PlacesAre
  <2>2. \A x : x \in Places(q) <=> \E p \in Ports : \E i \in DOMAIN q[p] : x = <<p, i>>
    BY PlacesAre
  <2>3. \A p \in Ports : \A i : i \in DOMAIN r[p] <=> i \in DOMAIN q[p] \/ (p = s /\ i = k)
    BY <1>4, <1>5
  <2>4. \A x : x \in Places(r) => x \in Places(q) \/ x = <<s, k>>
    BY <2>1, <2>2, <2>3
  <2>5. \A x : x \in Places(q) => x \in Places(r)
    BY <2>1, <2>2, <2>3
  <2>6. <<s, k>> \in Places(r)
    BY <2>1, <2>3
  <2>7. QED
    BY <2>4, <2>5, <2>6
<1>7. <<s, k>> \notin Places(q)
  BY <1>4, PlacesAre
<1>8. IsFiniteSet(Places(r)) /\ Cardinality(Places(r)) = Cardinality(Places(q)) + 1
  BY <1>6, <1>7, FS_AddElement
<1>9. QED
  BY <1>5, <1>8

\* The first image that leaves a queue gives one back.
LEMMA PlaceLeft ==
    ASSUME NEW q \in [Ports -> Seq(Nat)], IsFiniteSet(Places(q)),
           NEW s \in Ports, q[s] # <<>>, NEW r, r = [q EXCEPT ![s] = Tail(@)]
    PROVE  /\ r \in [Ports -> Seq(Nat)] /\ IsFiniteSet(Places(r))
           /\ Cardinality(Places(r)) = Cardinality(Places(q)) - 1
<1>1. q[s] \in Seq(Nat) /\ Len(q[s]) \in Nat /\ DOMAIN q[s] = 1 .. Len(q[s])
  BY LenProperties
<1>2. PICK k : k = Len(q[s])
  OBVIOUS
<1>3. Tail(q[s]) \in Seq(Nat) /\ Len(Tail(q[s])) = k - 1
  BY <1>1, <1>2, HeadTailProperties
<1>4. DOMAIN Tail(q[s]) = DOMAIN q[s] \ {k} /\ k \in DOMAIN q[s]
  <2>1. DOMAIN Tail(q[s]) = 1 .. k - 1
    BY <1>3, LenProperties
  <2>2. k > 0
    BY <1>1, <1>2, EmptySeq
  <2>3. QED
    BY <1>1, <1>2, <2>1, <2>2
<1>5. r \in [Ports -> Seq(Nat)] /\ r[s] = Tail(q[s]) /\ \A p \in Ports : p # s => r[p] = q[p]
  BY <1>3
<1>6. Places(r) = Places(q) \ {<<s, k>>}
  <2>1. \A x : x \in Places(r) <=> \E p \in Ports : \E i \in DOMAIN r[p] : x = <<p, i>>
    BY PlacesAre
  <2>2. \A x : x \in Places(q) <=> \E p \in Ports : \E i \in DOMAIN q[p] : x = <<p, i>>
    BY PlacesAre
  <2>3. \A p \in Ports : \A i : i \in DOMAIN r[p] <=> i \in DOMAIN q[p] /\ ~(p = s /\ i = k)
    BY <1>4, <1>5
  <2>4. \A x : x \in Places(r) => x \in Places(q)
    BY <2>1, <2>2, <2>3
  <2>5. \A x : x \in Places(q) => x \in Places(r) \/ x = <<s, k>>
    BY <2>1, <2>2, <2>3
  <2>6. <<s, k>> \notin Places(r)
    <3>1. ASSUME NEW p \in Ports, NEW i \in DOMAIN r[p], <<s, k>> = <<p, i>>
          PROVE  FALSE
      BY <2>3, <3>1
    <3>2. QED
      BY <2>1, <3>1
  <2>7. QED
    BY <2>4, <2>5, <2>6
<1>7. <<s, k>> \in Places(q)
  BY <1>4, PlacesAre
<1>8. QED
  BY <1>5, <1>6, <1>7, FS_RemoveElement

-----------------------------------------------------------------------------
(* The parts of the inductive invariant.                                   *)

\* What the sync owes: the /go's it has left are among those it received, it waits for
\* an image only with one of them, and togo is what is missing from the images counted out.
SyncInv ==
    /\ passed + sy.nbGo <= gos
    /\ syAt = "image" => sy.nbGo >= 1
    /\ allowed >= 0 => IF syAt = "ended" THEN passed = allowed
                       ELSE sy.togo >= 1 /\ allowed = passed + sy.togo
    /\ allowed < 0 => sy.togo <= 0 /\ syAt # "ended"

\* The count of a saver is what it may still write, the image in its hands apart.
SaverInv ==
    \A s \in Ports :
        /\ SaveCount[s] >= 0 =>
              /\ sv[s].count >= 0
              /\ sv[s].count + written[s] + (IF hand[s] = "save" THEN 1 ELSE 0) = SaveCount[s]
        /\ SaveCount[s] < 0 => sv[s].count < 0
        /\ s \in done => sv[s].count = 0

\* The frames that state s leads to from count c on, until a command, are not after l.
Stops(s, c, l) ==
    LET reach == IF s.applyAt >= c THEN s.applyAt ELSE c
    IN  IF s.applyAt < 0 THEN s.pause
        ELSE IF s.applyOffset = 0 THEN reach <= l
        ELSE s.pause /\ reach + s.applyOffset <= l /\ reach - 1 <= l

\* The count of the next frame that is not being read yet.
NextCount == IF rdAt = "pop" THEN rd.count + 1 ELSE rd.count

\* The reader will not pass the limit, whether it waits for an image or not.
LimitInv ==
    limit >= 0 =>
        /\ Stops(rd, NextCount, limit)
        /\ rdAt = "pop" \/ (rd.applyAt < 0 /\ rd.one) => rd.count <= limit

\* The frames that a /next in a pause has still to read: the one whose image is being
\* waited for, and the one that is to be chosen.
Owed ==
    (IF rdAt = "pop" THEN 1 ELSE 0)
    + (IF rd.applyAt = 0 \/ (rdAt # "pop" /\ rd.one) THEN 1 ELSE 0)

\* The reader will not read more frames than a /next stands for.
FramesInv == frames >= 0 => rd.pause /\ rd.applyAt <= 0 /\ frames >= Owed

-----------------------------------------------------------------------------
(* Type correctness, with the images of the pool.                          *)

Finite == IsFiniteSet(Saving) /\ IsFiniteSet(Queued)

\* The images in the hands of the savers and in their queues, when neither changes.
LEMMA SaversAtRest ==
    ASSUME UNCHANGED <<hand, svQ>>
    PROVE  Saving' = Saving /\ Queued' = Queued
BY DEF Saving, Queued

\* The message that is obeyed is a message, and so are those left.
LEMMA FirstAndRest ==
    ASSUME NEW S, NEW c \in Seq(S), c # <<>>
    PROVE  Head(c) \in S /\ Tail(c) \in Seq(S) /\ Len(Tail(c)) = Len(c) - 1 /\ Len(c) \in Nat
BY HeadTailProperties, LenProperties

\* The program starts with all images in the pool.
LEMMA InitTyped == Init => TypeOK /\ Finite
<1> SUFFICES ASSUME Init PROVE TypeOK /\ Finite
  OBVIOUS
<1>1. Cmd("/init-done", 0) \in ReadMessage
  BY DEF Cmd, ReadMessage
<1>2. ReaderTyped
  BY <1>1, RecorderAssumption DEF Init, ReaderTyped, ReaderState
<1>3. SyncTyped
  BY RecorderAssumption DEF Init, SyncTyped, SyncState
<1>4. SaversTyped
  BY RecorderAssumption DEF Init, SaversTyped
<1>5. Saving = {}
  BY DEF Init, Saving
<1>6. Queued = {}
  <2>1. \A s \in Ports : svQ[s] = <<>>
    BY DEF Init
  <2>2. \A s \in Ports : DOMAIN svQ[s] = {}
    BY <2>1
  <2>3. QED
    BY <2>2 DEF Queued
<1>7. Finite /\ Cardinality(Saving) = 0 /\ Cardinality(Queued) = 0
  BY <1>5, <1>6, FS_EmptySet DEF Finite
<1>8. pool = PoolSize /\ Len(syQ) = 0 /\ tells = 0
  BY EmptySeq DEF Init
<1>9. QED
  BY <1>2, <1>3, <1>4, <1>7, <1>8, RecorderAssumption DEF TypeOK, PoolKept

\* The reader keeps the types, and an image it takes from the pool goes to the sync.
LEMMA ReaderTypes == TypeOK /\ Finite /\ Reader => TypeOK' /\ Finite'
<1> SUFFICES ASSUME TypeOK, Finite, Reader PROVE TypeOK' /\ Finite'
  OBVIOUS
<1>1. ReaderTyped /\ SyncTyped /\ SaversTyped /\ PoolKept
  BY DEF TypeOK
<1>2. UNCHANGED <<sy, syAt, syCmds, out, passed, gos, allowed, saving, svQ, tells>>
  BY DEF Reader, ReadTurn, ReadObey, ReadImage, sync
<1>3. SaversTyped' /\ Saving' = Saving /\ Queued' = Queued
  BY <1>1, <1>2, SaversAtRest DEF SaversTyped, saving
<1>4. CASE ReadTurn
  <2>1. Apply(rd) \in ReaderState /\ Rewound(Apply(rd)) \in ReaderState
    BY <1>1, Applied, RewoundAndRead DEF ReaderTyped
  <2>2. ReaderTyped'
    BY <1>1, <1>4, <2>1, ReaderFields DEF ReadTurn, ReaderTyped
  <2>3. SyncTyped' /\ PoolKept' /\ pool' = pool
    BY <1>1, <1>2, <1>3, <1>4 DEF ReadTurn, SyncTyped, PoolKept
  <2>4. QED
    BY <1>2, <1>3, <2>2, <2>3 DEF TypeOK, Finite
<1>5. CASE ReadObey
  <2>1. Head(rdCmds) \in ReadMessage /\ Tail(rdCmds) \in Seq(ReadMessage)
    BY <1>1, <1>5, FirstAndRest DEF ReadObey, ReaderTyped
  <2>2. ReadDecode(rd, Head(rdCmds)) \in ReaderState
    BY <1>1, <2>1, ReadDecoded DEF ReaderTyped
  <2>3. Limit(Head(rdCmds)) \in Nat \cup {-1} /\ Frames(Head(rdCmds)) \in Nat \cup {-1}
    BY <1>1, <2>1, LimitTyped
  <2>4. ReaderTyped'
    BY <1>1, <1>5, <2>1, <2>2, <2>3 DEF ReadObey, ReaderTyped
  <2>5. SyncTyped' /\ PoolKept' /\ pool' = pool
    BY <1>1, <1>2, <1>3, <1>5 DEF ReadObey, SyncTyped, PoolKept
  <2>6. QED
    BY <1>2, <1>3, <2>4, <2>5 DEF TypeOK, Finite
<1>6. CASE ReadImage
  <2>1. Rewound(rd) \in ReaderState /\ AfterRead(rd) \in ReaderState
    BY <1>1, RewoundAndRead DEF ReaderTyped
  <2>2. ReaderTyped'
    BY <1>1, <1>6, <2>1 DEF ReadImage, ReaderTyped
  <2>3. Append(syQ, rdNum) \in Seq(Nat) /\ Len(Append(syQ, rdNum)) = Len(syQ) + 1 /\ Len(syQ) \in Nat
    BY <1>1, AppendProperties, LenProperties DEF SyncTyped, ReaderTyped
  <2>4. SyncTyped'
    BY <1>1, <1>2, <1>6, <2>3 DEF ReadImage, SyncTyped
  <2>5. Cardinality(Saving) \in Nat /\ Cardinality(Queued) \in Nat
    BY FS_CardinalityType DEF Finite
  <2>6. pool' \in Nat /\ PoolKept'
    BY <1>1, <1>3, <1>6, <2>3, <2>5, RecorderAssumption, SMTT(30) DEF ReadImage, PoolKept, TypeOK
  <2>7. QED
    BY <1>2, <1>3, <2>2, <2>4, <2>6 DEF TypeOK, Finite
<1>7. QED
  BY <1>4, <1>5, <1>6 DEF Reader

\* The sync keeps the types, and an image it lets through goes to a queue of a saver.
LEMMA SyncTypes == TypeOK /\ Finite /\ SyncInv /\ Sync => TypeOK' /\ Finite'
<1> SUFFICES ASSUME TypeOK, Finite, SyncInv, Sync PROVE TypeOK' /\ Finite'
  OBVIOUS
<1>1. ReaderTyped /\ SyncTyped /\ SaversTyped /\ PoolKept
  BY DEF TypeOK
<1>2. UNCHANGED <<reader, saving, out, tells>>
  BY DEF Sync, SyncTurn, SyncObey, SyncDrained, SyncImage
<1>3. ReaderTyped' /\ Saving' = Saving
  BY <1>1, <1>2 DEF ReaderTyped, reader, saving, Saving
<1>4. CASE SyncTurn \/ SyncObey \/ SyncDrained
  <2>1. UNCHANGED <<syQ, svQ, pool>>
    BY <1>4 DEF SyncTurn, SyncObey, SyncDrained
  <2>2. SaversTyped' /\ Queued' = Queued
    BY <1>1, <1>2, <2>1 DEF SaversTyped, saving, Queued
  <2>3. CASE SyncTurn
    BY <1>1, <1>2, <1>3, <2>1, <2>2, <2>3 DEF SyncTurn, SyncTyped, TypeOK, Finite, PoolKept
  <2>4. CASE SyncObey
    <3>1. Head(syCmds) \in SyncMessage /\ Tail(syCmds) \in Seq(SyncMessage)
      BY <1>1, <2>4, FirstAndRest DEF SyncObey, SyncTyped
    <3>2. SyncDecode(sy, Head(syCmds)) \in SyncState
      BY <1>1, <3>1, SyncDecoded DEF SyncTyped
    <3>3. Head(syCmds).k \in Int
      BY <3>1 DEF SyncMessage
    <3>4. syAt' \in {"top", "wait", "drain", "image", "ended"}
      BY <2>4 DEF SyncObey
    <3>5. gos' \in Nat /\ allowed' \in Nat \cup {-1}
      BY <1>1, <2>4, <3>3 DEF SyncObey, SyncTyped
    <3>6. sy' \in SyncState /\ syCmds' \in Seq(SyncMessage) /\ passed' = passed
      BY <2>4, <3>1, <3>2 DEF SyncObey
    <3>7. SyncTyped'
      BY <1>1, <1>2, <2>1, <3>4, <3>5, <3>6 DEF SyncTyped
    <3>8. QED
      BY <1>1, <1>2, <1>3, <2>1, <2>2, <3>7 DEF TypeOK, Finite, PoolKept
  <2>5. CASE SyncDrained
    <3>1. [sy EXCEPT !.nbGo = 1] \in SyncState
      BY <1>1 DEF SyncTyped, SyncState
    <3>2. SyncTyped'
      BY <1>1, <2>1, <2>5, <3>1 DEF SyncDrained, SyncTyped
    <3>3. QED
      BY <1>1, <1>2, <1>3, <2>1, <2>2, <3>2 DEF TypeOK, Finite, PoolKept
  <2>6. QED
    BY <1>4, <2>3, <2>4, <2>5
<1>5. CASE SyncImage
  <2>1. syQ \in Seq(Nat) /\ syQ # <<>>
    BY <1>1, <1>5 DEF SyncImage, SyncTyped
  <2>2. Head(syQ) \in Nat /\ syQ' \in Seq(Nat) /\ Len(syQ') = Len(syQ) - 1 /\ Len(syQ) \in Nat
    BY <1>5, <2>1, FirstAndRest DEF SyncImage
  <2>3. sy.nbGo \in Nat /\ sy.nbGo >= 1 /\ sy.n \in Nat /\ sy.togo \in Int
    BY <1>1, <1>5 DEF SyncInv, SyncImage, SyncTyped, SyncState
  <2>4. sy' \in SyncState
    BY <1>1, <1>5, <2>3, SyncPassed DEF SyncImage, SyncTyped
  <2>5. SyncTyped'
    BY <1>1, <1>2, <1>5, <2>2, <2>4 DEF SyncImage, SyncTyped
  <2>6. Cardinality(Saving) \in Nat /\ Cardinality(Queued) \in Nat
    BY FS_CardinalityType DEF Finite
  <2>7. CASE Known # {}
    <3>1. PICK p \in Ports : p = Shortest
      BY <2>7, ShortestIsAPort
    <3>2. svQ' = [svQ EXCEPT ![p] = Append(@, Head(syQ))] /\ pool' = pool
      BY <1>5, <2>7, <3>1 DEF SyncImage
    <3>3. /\ svQ' \in [Ports -> Seq(Nat)] /\ IsFiniteSet(Places(svQ'))
          /\ Cardinality(Places(svQ')) = Cardinality(Places(svQ)) + 1
      <4>1. svQ \in [Ports -> Seq(Nat)] /\ IsFiniteSet(Places(svQ))
        BY <1>1 DEF SaversTyped, Finite, Queued, Places
      <4>2. PICK n \in Nat : n = Head(syQ)
        BY <2>2
      <4>3. PICK x : x = Append(svQ[p], n)
        OBVIOUS
      <4>4. svQ' = [svQ EXCEPT ![p] = x]
        BY <3>2, <4>1, <4>2, <4>3
      <4>5. QED
        BY <4>1, <4>3, <4>4, PlaceTaken
    <3>4. IsFiniteSet(Queued') /\ Cardinality(Queued') = Cardinality(Queued) + 1
      BY <3>3 DEF Queued, Places
    <3>5. SaversTyped'
      BY <1>1, <1>2, <3>3 DEF SaversTyped, saving
    <3>6. PoolKept'
      BY <1>1, <1>3, <2>2, <2>6, <3>2, <3>4, RecorderAssumption DEF PoolKept, TypeOK
    <3>7. QED
      BY <1>2, <1>3, <2>5, <3>2, <3>4, <3>5, <3>6 DEF TypeOK, Finite
  <2>8. CASE Known = {}
    <3>1. svQ' = svQ /\ pool' = pool + 1
      BY <1>5, <2>8 DEF SyncImage, Recycled
    <3>2. SaversTyped' /\ Queued' = Queued
      BY <1>1, <1>2, <3>1 DEF SaversTyped, saving, Queued
    <3>3. pool' \in Nat /\ PoolKept'
      BY <1>1, <1>3, <2>2, <2>6, <3>1, <3>2, RecorderAssumption DEF PoolKept, TypeOK
    <3>4. QED
      BY <1>2, <1>3, <2>5, <3>2, <3>3 DEF TypeOK, Finite
  <2>9. QED
    BY <2>7, <2>8
<1>6. QED
  BY <1>4, <1>5 DEF Sync

\* A saver keeps the types, and the image it takes from its queue goes back to the pool.
LEMMA SaverTypes ==
    ASSUME TypeOK, Finite, NEW s \in Ports, Saver(s)
    PROVE  TypeOK' /\ Finite'
<1>1. ReaderTyped /\ SyncTyped /\ SaversTyped /\ PoolKept
  BY DEF TypeOK
<1>2. UNCHANGED <<reader, sync, syQ, tells>>
  BY DEF Saver, SaveInitDone, SaveTake, SaveWrite
<1>3. ReaderTyped' /\ SyncTyped' /\ tells' = tells
  BY <1>1, <1>2 DEF ReaderTyped, SyncTyped, reader, sync
<1>4. CASE SaveInitDone(s)
  <2>1. sv' \in [Ports -> [initializing : BOOLEAN, count : Int]]
    BY <1>1, <1>4 DEF SaveInitDone, SaversTyped
  <2>2. UNCHANGED <<hand, written, done, svQ, pool>>
    BY <1>4 DEF SaveInitDone
  <2>3. SaversTyped' /\ PoolKept' /\ Finite' /\ pool' = pool
    BY <1>1, <1>2, <2>1, <2>2, SaversAtRest DEF SaversTyped, PoolKept, Finite
  <2>4. QED
    BY <1>3, <2>3 DEF TypeOK
<1>5. CASE SaveTake(s)
  <2>1. /\ sv' \in [Ports -> [initializing : BOOLEAN, count : Int]]
        /\ done' \subseteq Ports
    <3>1. PICK c \in Int : c = IF sv[s].count > 0 THEN sv[s].count - 1 ELSE sv[s].count
      BY <1>1 DEF SaversTyped
    <3>2. sv' = [sv EXCEPT ![s].count = c]
      BY <1>5, <3>1 DEF SaveTake
    <3>3. sv' \in [Ports -> [initializing : BOOLEAN, count : Int]]
      BY <1>1, <3>2 DEF SaversTyped
    <3>4. done' \subseteq Ports
      BY <1>1, <1>5 DEF SaveTake, SaversTyped
    <3>5. QED
      BY <3>3, <3>4
  <2>2. hand' \in [Ports -> {"save", "pass", NoImage}] /\ Saving' = Saving \cup {s} /\ s \notin Saving
    BY <1>1, <1>5, RecorderAssumption DEF SaveTake, SaversTyped, Saving
  <2>3. svQ \in [Ports -> Seq(Nat)] /\ IsFiniteSet(Places(svQ))
    BY <1>1 DEF SaversTyped, Finite, Queued, Places
  <2>4. svQ[s] # <<>> /\ svQ' = [svQ EXCEPT ![s] = Tail(@)]
    BY <1>5 DEF SaveTake
  <2>5. /\ svQ' \in [Ports -> Seq(Nat)] /\ IsFiniteSet(Places(svQ'))
        /\ Cardinality(Places(svQ')) = Cardinality(Places(svQ)) - 1
    BY <2>3, <2>4, PlaceLeft
  <2>6. IsFiniteSet(Queued') /\ Cardinality(Queued') = Cardinality(Queued) - 1
    BY <2>5 DEF Queued, Places
  <2>7. IsFiniteSet(Saving') /\ Cardinality(Saving') = Cardinality(Saving) + 1
    BY <2>2, FS_AddElement DEF Finite
  <2>8. UNCHANGED <<written, pool>>
    BY <1>5 DEF SaveTake
  <2>9. SaversTyped'
    BY <1>1, <2>1, <2>2, <2>5, <2>8 DEF SaversTyped
  <2>10. Cardinality(Saving) \in Nat /\ Cardinality(Queued) \in Nat /\ Len(syQ) \in Nat
    BY <1>1, FS_CardinalityType, LenProperties DEF Finite, SyncTyped
  <2>11. PoolKept'
    BY <1>1, <1>2, <2>6, <2>7, <2>8, <2>10, RecorderAssumption DEF PoolKept, TypeOK
  <2>12. QED
    BY <1>3, <2>6, <2>7, <2>8, <2>9, <2>11 DEF TypeOK, Finite
<1>6. CASE SaveWrite(s)
  <2>1. hand' \in [Ports -> {"save", "pass", NoImage}] /\ Saving' = Saving \ {s} /\ s \in Saving
    BY <1>1, <1>6, RecorderAssumption DEF SaveWrite, SaversTyped, Saving
  <2>2. written' \in [Ports -> Nat]
    BY <1>1, <1>6 DEF SaveWrite, SaversTyped
  <2>3. UNCHANGED <<sv, done, svQ>> /\ pool' = pool + 1 /\ Queued' = Queued
    BY <1>6 DEF SaveWrite, Recycled, Queued
  <2>4. IsFiniteSet(Saving') /\ Cardinality(Saving') = Cardinality(Saving) - 1
    BY <2>1, FS_RemoveElement DEF Finite
  <2>5. SaversTyped'
    BY <1>1, <2>1, <2>2, <2>3 DEF SaversTyped
  <2>6. Cardinality(Saving) \in Nat /\ Cardinality(Queued) \in Nat /\ Len(syQ) \in Nat
    BY <1>1, FS_CardinalityType, LenProperties DEF Finite, SyncTyped
  <2>7. PoolKept' /\ pool' \in Nat
    BY <1>1, <1>2, <2>3, <2>4, <2>6, RecorderAssumption DEF PoolKept, TypeOK
  <2>8. QED
    BY <1>3, <2>3, <2>4, <2>5, <2>7 DEF TypeOK, Finite
<1>7. QED
  BY <1>4, <1>5, <1>6 DEF Saver

\* A command that is sent waits in the queue of its plugin.
LEMMA TellTypes == TypeOK /\ Finite /\ Tell => TypeOK' /\ Finite'
<1> SUFFICES ASSUME TypeOK, Finite, Tell PROVE TypeOK' /\ Finite'
  OBVIOUS
<1>1. ReaderTyped /\ SyncTyped /\ SaversTyped /\ PoolKept
  BY DEF TypeOK
<1>2. SaversTyped' /\ Finite' /\ PoolKept' /\ pool' = pool /\ tells' = tells + 1
  BY <1>1, SaversAtRest DEF Tell, SaversTyped, Finite, PoolKept, saving
<1>3. rdCmds' \in Seq(ReadMessage)
  <2>1. \A m \in ReadCommands : Append(rdCmds, m) \in Seq(ReadMessage)
    BY <1>1, AppendProperties, RecorderAssumption DEF ReaderTyped
  <2>2. QED
    BY <1>1, <2>1 DEF Tell, ReaderTyped
<1>4. syCmds' \in Seq(SyncMessage)
  <2>1. \A m \in SyncCommands : Append(syCmds, m) \in Seq(SyncMessage)
    BY <1>1, AppendProperties, RecorderAssumption DEF SyncTyped
  <2>2. QED
    BY <1>1, <2>1 DEF Tell, SyncTyped
<1>5. ReaderTyped' /\ SyncTyped'
  BY <1>1, <1>3, <1>4 DEF Tell, ReaderTyped, SyncTyped
<1>6. QED
  BY <1>2, <1>5 DEF TypeOK

-----------------------------------------------------------------------------
(* The counts of the sync and of the savers.                               *)

\* What a message changes of the numbers of the sync.
LEMMA SyncDecodeIs ==
    ASSUME NEW s \in SyncState, NEW m \in SyncMessage, NEW t, t = SyncDecode(s, m)
    PROVE  /\ m.cmd = "/go" => t.nbGo = s.nbGo + 1 /\ t.togo = s.togo
           /\ m.cmd = "/count" => t.nbGo = s.nbGo /\ t.togo = m.k
           /\ m.cmd \in {"/manual", "/auto"} => t.nbGo = s.nbGo /\ t.togo = s.togo
<1>1. CASE m.cmd = "/go"
  BY <1>1 DEF SyncDecode, SyncState
<1>2. CASE m.cmd = "/count"
  BY <1>2 DEF SyncDecode, SyncState
<1>3. CASE m.cmd \in {"/manual", "/auto"}
  BY <1>3 DEF SyncDecode, SyncState
<1>4. QED
  BY <1>1, <1>2, <1>3

\* Each step of the sync keeps what it owes.
LEMMA SyncStep == TypeOK /\ SyncInv /\ [Next]_vars => SyncInv'
<1> SUFFICES ASSUME TypeOK, SyncInv, [Next]_vars PROVE SyncInv'
  OBVIOUS
<1>1. /\ sy \in SyncState /\ passed \in Nat /\ gos \in Nat /\ allowed \in Nat \cup {-1}
      /\ syCmds \in Seq(SyncMessage)
      /\ sy.nbGo \in Nat /\ sy.togo \in Int
  BY DEF TypeOK, SyncTyped, SyncState
<1>2. ASSUME UNCHANGED <<sy, syAt, passed, gos, allowed>>
      PROVE  SyncInv'
  BY <1>2 DEF SyncInv
<1>3. CASE SyncTurn
  BY <1>1, <1>3 DEF SyncTurn, SyncInv
<1>4. CASE SyncObey
  <2>1. PICK m \in SyncMessage : m = Head(syCmds)
    BY <1>1, <1>4, FirstAndRest DEF SyncObey
  <2>2. PICK t : t = SyncDecode(sy, m)
    OBVIOUS
  <2>3. /\ m.cmd = "/go" => t.nbGo = sy.nbGo + 1 /\ t.togo = sy.togo
        /\ m.cmd = "/count" => t.nbGo = sy.nbGo /\ t.togo = m.k
        /\ m.cmd \in {"/manual", "/auto"} => t.nbGo = sy.nbGo /\ t.togo = sy.togo
    BY <1>1, <2>2, SyncDecodeIs
  <2>4. sy' = t /\ passed' = passed /\ syAt # "ended" /\ syAt # "image"
    BY <1>4, <2>1, <2>2 DEF SyncObey
  <2>5. gos' = IF m.cmd = "/go" THEN gos + 1 ELSE gos
    BY <1>4, <2>1 DEF SyncObey
  <2>6. allowed' = IF m.cmd # "/count" THEN allowed ELSE IF m.k > 0 THEN passed + m.k ELSE -1
    BY <1>4, <2>1 DEF SyncObey
  <2>7. syAt' # "ended" /\ (syAt' = "image" => t.nbGo > 0)
    BY <1>4, <2>4 DEF SyncObey
  <2>8. m.cmd \in {"/go", "/count", "/manual", "/auto"} /\ m.k \in Int
    BY DEF SyncMessage
  <2>9. CASE m.cmd = "/go"
    BY <1>1, <2>3, <2>4, <2>5, <2>6, <2>7, <2>9 DEF SyncInv
  <2>10. CASE m.cmd = "/count"
    BY <1>1, <2>3, <2>4, <2>5, <2>6, <2>7, <2>8, <2>10 DEF SyncInv
  <2>11. CASE m.cmd \in {"/manual", "/auto"}
    BY <1>1, <2>3, <2>4, <2>5, <2>6, <2>7, <2>11 DEF SyncInv
  <2>12. QED
    BY <2>8, <2>9, <2>10, <2>11
<1>5. CASE SyncDrained
  <2>1. sy'.nbGo = 1 /\ sy'.togo = sy.togo
    BY <1>1, <1>5 DEF SyncDrained, SyncState
  <2>2. /\ syAt = "drain" /\ syAt' = "image" /\ gos' = gos + 1
        /\ passed' = passed /\ allowed' = allowed
    BY <1>5 DEF SyncDrained
  <2>3. QED
    BY <1>1, <2>1, <2>2 DEF SyncInv
<1>6. CASE SyncImage
  <2>1. PICK t : t = [sy EXCEPT !.n = @ + 1, !.togo = @ - 1, !.nbGo = @ - 1]
    OBVIOUS
  <2>2. t.togo = sy.togo - 1 /\ t.nbGo = sy.nbGo - 1
    BY <1>1, <2>1 DEF SyncState
  <2>3. /\ sy' = t /\ passed' = passed + 1 /\ gos' = gos /\ allowed' = allowed /\ syAt = "image"
        /\ syAt' = IF sy.togo = 1 THEN "ended" ELSE IF sy.nbGo > 1 THEN "image" ELSE "top"
    BY <1>6, <2>1 DEF SyncImage, IsLast
  <2>4. QED
    BY <1>1, <2>2, <2>3 DEF SyncInv
<1>7. CASE Reader
  BY <1>2, <1>7 DEF Reader, ReadTurn, ReadObey, ReadImage, sync
<1>8. ASSUME NEW s \in Ports, Saver(s)
      PROVE  SyncInv'
  BY <1>2, <1>8 DEF Saver, SaveInitDone, SaveTake, SaveWrite, sync
<1>9. CASE Tell
  BY <1>2, <1>9 DEF Tell
<1>10. CASE UNCHANGED vars
  BY <1>2, <1>10 DEF vars, sync
<1>11. QED
  BY <1>3, <1>4, <1>5, <1>6, <1>7, <1>8, <1>9, <1>10 DEF Next, Sync

\* A step of a saver changes nothing of the others.
LEMMA SaverStep == TypeOK /\ SaverInv /\ [Next]_vars => SaverInv'
<1> SUFFICES ASSUME TypeOK, SaverInv, [Next]_vars PROVE SaverInv'
  OBVIOUS
<1>1. /\ sv \in [Ports -> [initializing : BOOLEAN, count : Int]]
      /\ hand \in [Ports -> {"save", "pass", NoImage}]
      /\ written \in [Ports -> Nat] /\ done \subseteq Ports
      /\ SaveCount \in [Ports -> Int]
  BY RecorderAssumption DEF TypeOK, SaversTyped
<1>2. ASSUME UNCHANGED saving
      PROVE  SaverInv'
  BY <1>2 DEF SaverInv, saving
<1>3. ASSUME NEW s \in Ports, Saver(s)
      PROVE  SaverInv'
  <2>1. \A p \in Ports \ {s} : /\ sv'[p] = sv[p] /\ hand'[p] = hand[p] /\ written'[p] = written[p]
                               /\ (p \in done' <=> p \in done)
    BY <1>1, <1>3 DEF Saver, SaveInitDone, SaveTake, SaveWrite
  <2>2. /\ sv[s].count \in Int /\ written[s] \in Nat /\ SaveCount[s] \in Int
        /\ hand[s] \in {"save", "pass", NoImage} /\ NoImage \notin {"save", "pass"}
    BY <1>1, RecorderAssumption
  <2>3. CASE SaveInitDone(s)
    <3>1. sv'[s].count = sv[s].count /\ UNCHANGED <<hand, written, done>>
      BY <1>1, <2>3 DEF SaveInitDone
    <3>2. QED
      BY <2>1, <3>1 DEF SaverInv
  <2>4. CASE SaveTake(s)
    <3>1. /\ sv'[s].count = IF sv[s].count > 0 THEN sv[s].count - 1 ELSE sv[s].count
          /\ done' = IF sv[s].count = 1 THEN done \cup {s} ELSE done
          /\ hand[s] = NoImage /\ hand'[s] = IF sv[s].count # 0 THEN "save" ELSE "pass"
          /\ written' = written
      BY <1>1, <2>4 DEF SaveTake
    <3>2. /\ SaveCount[s] >= 0 =>
              /\ sv'[s].count >= 0
              /\ sv'[s].count + written'[s] + (IF hand'[s] = "save" THEN 1 ELSE 0) = SaveCount[s]
          /\ SaveCount[s] < 0 => sv'[s].count < 0
          /\ s \in done' => sv'[s].count = 0
      BY <2>2, <3>1 DEF SaverInv
    <3>3. QED
      BY <2>1, <3>2 DEF SaverInv
  <2>5. CASE SaveWrite(s)
    <3>1. /\ written'[s] = IF hand[s] = "save" THEN written[s] + 1 ELSE written[s]
          /\ hand'[s] = NoImage /\ UNCHANGED <<sv, done>>
      BY <1>1, <2>5 DEF SaveWrite
    <3>2. /\ SaveCount[s] >= 0 =>
              /\ sv'[s].count >= 0
              /\ sv'[s].count + written'[s] + (IF hand'[s] = "save" THEN 1 ELSE 0) = SaveCount[s]
          /\ SaveCount[s] < 0 => sv'[s].count < 0
          /\ s \in done' => sv'[s].count = 0
      BY <2>2, <3>1 DEF SaverInv
    <3>3. QED
      BY <2>1, <3>2 DEF SaverInv
  <2>6. QED
    BY <1>3, <2>3, <2>4, <2>5 DEF Saver
<1>4. CASE Reader
  BY <1>2, <1>4 DEF Reader, ReadTurn, ReadObey, ReadImage
<1>5. CASE Sync
  BY <1>2, <1>5 DEF Sync, SyncTurn, SyncObey, SyncDrained, SyncImage
<1>6. CASE Tell
  BY <1>2, <1>6 DEF Tell
<1>7. CASE UNCHANGED vars
  BY <1>2, <1>7 DEF vars
<1>8. QED
  BY <1>3, <1>4, <1>5, <1>6, <1>7 DEF Next

-----------------------------------------------------------------------------
(* The limit of the reader.                                                *)

\* What a message changes of the pending command.
LEMMA ReadDecodeIs ==
    ASSUME NEW s \in ReaderState, NEW m \in ReadMessage, NEW t, t = ReadDecode(s, m)
    PROVE  /\ m.cmd = "/init-done" =>
                 /\ t.pause = s.pause /\ t.one = s.one /\ t.count = s.count
                 /\ t.applyAt = s.applyAt /\ t.applyOffset = s.applyOffset
           /\ m.cmd = "/pause" =>
                 /\ t.pause = s.pause /\ t.applyAt = m.k /\ t.applyOffset = 0
                 /\ t.count = s.count
           /\ m.cmd = "/next" /\ ~s.pause => t = s
           /\ m.cmd = "/next" /\ s.pause =>
                 t.pause /\ t.applyAt = 0 /\ t.applyOffset = 1 /\ t.count = s.count
           /\ m.cmd = "/count-add" =>
                 /\ t.pause = s.pause /\ t.applyAt = m.k /\ t.applyOffset = m.off
                 /\ t.count = s.count
<1>1. CASE m.cmd = "/init-done"
  BY <1>1 DEF ReadDecode, ReaderState
<1>2. CASE m.cmd = "/pause"
  BY <1>2 DEF ReadDecode, ReaderState
<1>3. CASE m.cmd = "/next"
  BY <1>3 DEF ReadDecode, ReaderState
<1>4. CASE m.cmd = "/count-add"
  BY <1>4 DEF ReadDecode, ReaderState
<1>5. QED
  BY <1>1, <1>2, <1>3, <1>4

\* The limit that each message sets, without the Max of a set.
LEMMA LimitIs ==
    ASSUME ReaderTyped, NEW m \in ReadMessage
    PROVE  LET reach == IF m.k >= NextCount THEN m.k ELSE NextCount
           IN  /\ m.cmd \in {"/pause", "/count-add"} /\ m.k < 0 /\ rd.pause =>
                     Limit(m) = rd.count
               /\ m.cmd \in {"/pause", "/count-add"} /\ m.k < 0 /\ ~rd.pause => Limit(m) = -1
               /\ m.cmd = "/pause" /\ m.k >= 0 => Limit(m) = reach
               /\ m.cmd = "/next" /\ rd.pause => Limit(m) = -1
               /\ m.cmd = "/next" /\ ~rd.pause => Limit(m) = limit
               /\ m.cmd = "/count-add" /\ m.k >= 0 /\ rd.pause =>
                     Limit(m) = IF m.off >= -1 THEN reach + m.off ELSE reach - 1
               /\ m.cmd = "/count-add" /\ ~rd.pause => Limit(m) = -1
               /\ m.cmd = "/init-done" => Limit(m) = limit
               /\ m.cmd \in {"/reinit", "/play"} => Limit(m) = -1
<1> DEFINE next == NextCount
           reach == IF m.k >= next THEN m.k ELSE next
<1>1. next \in Nat /\ m.k \in Int /\ m.off \in Int
  BY ReaderFields DEF ReaderTyped, ReadMessage, NextCount
<1> HIDE DEF next
<1>2. Max({m.k, next}) = reach /\ reach \in Nat
  BY <1>1, MaxOfTwo
<1> HIDE DEF reach
<1>3. Max({reach + m.off, reach - 1}) = IF m.off >= -1 THEN reach + m.off ELSE reach - 1
  BY <1>1, <1>2, MaxOfTwo
<1>4. /\ m.cmd \in {"/pause", "/count-add"} /\ m.k < 0 /\ rd.pause => Limit(m) = rd.count
      /\ m.cmd \in {"/pause", "/count-add"} /\ m.k < 0 /\ ~rd.pause => Limit(m) = -1
  BY <1>1 DEF Limit, NoMatter, next, NextCount
<1>5. m.cmd = "/pause" /\ m.k >= 0 => Limit(m) = Max({m.k, next})
  BY <1>1 DEF Limit, NoMatter, next, NextCount
<1>6. m.cmd = "/count-add" /\ m.k >= 0 /\ rd.pause =>
         Limit(m) = Max({Max({m.k, next}) + m.off, Max({m.k, next}) - 1})
  BY <1>1 DEF Limit, NoMatter, next, NextCount
<1>7. /\ m.cmd = "/next" /\ rd.pause => Limit(m) = -1
      /\ m.cmd = "/next" /\ ~rd.pause => Limit(m) = limit
      /\ m.cmd = "/count-add" /\ ~rd.pause => Limit(m) = -1
      /\ m.cmd = "/init-done" => Limit(m) = limit
      /\ m.cmd \in {"/reinit", "/play"} => Limit(m) = -1
  BY <1>1, <1>2 DEF Limit, NoMatter, next, NextCount
<1>8. QED
  BY <1>2, <1>3, <1>4, <1>5, <1>6, <1>7 DEF reach, next

\* A pending command that is applied leads to no other frames than those it stood for.
LEMMA ApplyStops ==
    ASSUME NEW s \in ReaderState, NEW t, t = Apply(s), NEW l \in Nat,
           Stops(s, s.count, l), s.applyAt < 0 /\ s.one => s.count <= l
    PROVE  /\ Stops(t, t.count, l) /\ (t.applyAt < 0 /\ t.one => t.count <= l)
           /\ ~(t.pause /\ ~t.one) => t.count <= l /\ Stops(t, t.count + 1, l)
<1>1. /\ s.count \in Nat /\ s.applyAt \in Int /\ s.applyOffset \in Int
      /\ s.pause \in BOOLEAN /\ s.one \in BOOLEAN
  BY ReaderFields
<1>2. /\ s.applyAt < 0 => t = s
      /\ s.applyAt >= 0 /\ s.count < s.applyAt =>
            /\ t.one /\ t.pause = s.pause /\ t.count = s.count
            /\ t.applyAt = s.applyAt /\ t.applyOffset = s.applyOffset
      /\ s.applyAt >= 0 /\ s.count >= s.applyAt =>
            /\ t.one /\ (t.pause <=> s.pause \/ s.applyOffset = 0)
            /\ t.count = IF s.count + s.applyOffset >= 0 THEN s.count + s.applyOffset ELSE 0
            /\ t.applyAt = -1 /\ t.applyOffset = 0
  BY ApplyIs
<1>3. CASE s.applyAt < 0
  BY <1>1, <1>2, <1>3 DEF Stops
<1>4. CASE s.applyAt >= 0 /\ s.count < s.applyAt
  <2>1. /\ s.applyOffset = 0 => s.applyAt <= l
        /\ s.applyOffset # 0 => s.pause /\ s.applyAt + s.applyOffset <= l /\ s.applyAt - 1 <= l
    BY <1>1, <1>4 DEF Stops
  <2>2. t.count <= l
    BY <1>1, <1>2, <1>4, <2>1
  <2>3. Stops(t, t.count, l) /\ Stops(t, t.count + 1, l)
    BY <1>1, <1>2, <1>4, <2>1 DEF Stops
  <2>4. QED
    BY <2>2, <2>3
<1>5. CASE s.applyAt >= 0 /\ s.count >= s.applyAt
  <2>1. /\ s.applyOffset = 0 => s.count <= l
        /\ s.applyOffset # 0 => s.pause /\ s.count + s.applyOffset <= l
    BY <1>1, <1>5 DEF Stops
  <2>2. t.pause /\ t.applyAt = -1 /\ t.count <= l
    BY <1>1, <1>2, <1>5, <2>1
  <2>3. QED
    BY <2>2 DEF Stops
<1>6. QED
  BY <1>1, <1>3, <1>4, <1>5

\* Each step keeps the reader within the limit.
LEMMA LimitStep == TypeOK /\ LimitInv /\ [Next]_vars => LimitInv'
<1> SUFFICES ASSUME TypeOK, LimitInv, [Next]_vars PROVE LimitInv'
  OBVIOUS
<1>1. /\ ReaderTyped /\ rd \in ReaderState /\ limit \in Nat \cup {-1}
      /\ rd.count \in Nat /\ rd.applyAt \in Int /\ rd.applyOffset \in Int
      /\ rdCmds \in Seq(ReadMessage)
  BY ReaderFields DEF TypeOK, ReaderTyped
<1>2. ASSUME UNCHANGED <<rd, rdAt, limit>>
      PROVE  LimitInv'
  BY <1>2 DEF LimitInv, NextCount, Stops
<1>3. CASE ReadTurn
  <2>1. PICK t : t = Apply(rd)
    OBVIOUS
  <2>2. rdAt = "top"
    BY <1>3 DEF ReadTurn
  <2>3. CASE limit' >= 0
    <3>1. limit' = limit /\ limit \in Nat
      BY <1>1, <1>3, <2>3 DEF ReadTurn
    <3>2. /\ rd' = t /\ rdAt' \in {"wait", "pop"}
          /\ rdAt' = "pop" => ~(t.pause /\ ~t.one)
      BY <1>3, <2>1, <2>3 DEF ReadTurn
    <3>3. Stops(rd, rd.count, limit) /\ (rd.applyAt < 0 /\ rd.one => rd.count <= limit)
      BY <2>2, <3>1 DEF LimitInv, NextCount
    <3>4. /\ Stops(t, t.count, limit) /\ (t.applyAt < 0 /\ t.one => t.count <= limit)
          /\ ~(t.pause /\ ~t.one) => t.count <= limit /\ Stops(t, t.count + 1, limit)
      BY <1>1, <2>1, <3>1, <3>3, ApplyStops
    <3>5. Stops(rd', NextCount', limit')
      BY <3>1, <3>2, <3>4 DEF NextCount
    <3>6. rdAt' = "pop" \/ (rd'.applyAt < 0 /\ rd'.one) => rd'.count <= limit'
      BY <3>1, <3>2, <3>4
    <3>7. QED
      BY <3>5, <3>6 DEF LimitInv, Stops
  <2>4. QED
    BY <2>3 DEF LimitInv
<1>4. CASE ReadObey
  <2>1. PICK m \in ReadMessage : m = Head(rdCmds)
    BY <1>1, <1>4, FirstAndRest DEF ReadObey
  <2>2. PICK t : t = ReadDecode(rd, m)
    OBVIOUS
  <2>3. /\ rd' = t /\ limit' = Limit(m)
        /\ rdAt \in {"wait", "pop"} /\ (rdAt' = "pop" <=> rdAt = "pop")
    BY <1>4, <2>1, <2>2 DEF ReadObey
  <2>4. PICK n \in Nat : n = NextCount
    BY <1>1 DEF NextCount
  <2>5. PICK r \in Nat : r = IF m.k >= n THEN m.k ELSE n
    BY <2>4 DEF ReadMessage
  <2>6. /\ m.k \in Int /\ m.off \in Int
        /\ m.cmd \in {"/init-done", "/reinit", "/play", "/pause", "/next", "/count-add"}
    BY DEF ReadMessage
  <2>7. rdAt = "pop" => rd.count <= n - 1
    BY <1>1, <2>4 DEF NextCount
  <2>8. t.count = rd.count => NextCount' = n
    BY <2>3, <2>4 DEF NextCount
  <2>9. CASE m.cmd \in {"/reinit", "/play"} \/ (m.cmd = "/count-add" /\ ~rd.pause)
    BY <1>1, <2>3, <2>9, LimitIs DEF LimitInv
  <2>10. CASE m.cmd = "/init-done" \/ (m.cmd = "/next" /\ ~rd.pause)
    <3>1. limit' = limit
      BY <1>1, <2>3, <2>10, LimitIs
    <3>2. /\ t.pause = rd.pause /\ t.one = rd.one /\ t.count = rd.count
          /\ t.applyAt = rd.applyAt /\ t.applyOffset = rd.applyOffset
      BY <1>1, <2>2, <2>10, ReadDecodeIs
    <3>3. QED
      BY <2>3, <2>4, <2>8, <3>1, <3>2 DEF LimitInv, Stops
  <2>11. CASE m.cmd \in {"/pause", "/count-add"} /\ m.k < 0
    <3>1. (rd.pause => limit' = rd.count) /\ (~rd.pause => limit' = -1)
      BY <1>1, <2>3, <2>4, <2>11, LimitIs
    <3>2. t.applyAt = m.k /\ t.pause = rd.pause /\ t.count = rd.count
      BY <1>1, <2>2, <2>11, ReadDecodeIs
    <3>3. CASE rd.pause
      <4>1. limit' = rd.count /\ t.pause /\ t.applyAt < 0
        BY <2>6, <2>11, <3>1, <3>2, <3>3
      <4>2. Stops(rd', NextCount', limit')
        BY <2>3, <4>1 DEF Stops
      <4>3. rd'.count <= limit'
        BY <1>1, <2>3, <3>2, <4>1
      <4>4. QED
        BY <4>2, <4>3 DEF LimitInv, Stops
    <3>4. CASE ~rd.pause
      BY <3>1, <3>4 DEF LimitInv
    <3>5. QED
      BY <3>3, <3>4
  <2>12. CASE m.cmd = "/pause" /\ m.k >= 0
    <3>1. limit' = r
      BY <1>1, <2>3, <2>4, <2>5, <2>12, LimitIs
    <3>2. t.applyAt = m.k /\ t.applyOffset = 0 /\ t.count = rd.count
      BY <1>1, <2>2, <2>12, ReadDecodeIs
    <3>3. QED
      BY <1>1, <2>3, <2>5, <2>6, <2>7, <2>8, <2>12, <3>1, <3>2 DEF LimitInv, Stops
  <2>13. CASE m.cmd = "/next" /\ rd.pause
    <3>1. limit' = -1
      BY <1>1, <2>3, <2>13, LimitIs
    <3>2. QED
      BY <3>1 DEF LimitInv
  <2>14. CASE m.cmd = "/count-add" /\ m.k >= 0 /\ rd.pause
    <3>1. limit' = IF m.off >= -1 THEN r + m.off ELSE r - 1
      BY <1>1, <2>3, <2>4, <2>5, <2>14, LimitIs
    <3>2. t.pause /\ t.applyAt = m.k /\ t.applyOffset = m.off /\ t.count = rd.count
      BY <1>1, <2>2, <2>14, ReadDecodeIs
    <3>3. QED
      BY <1>1, <2>3, <2>5, <2>6, <2>7, <2>8, <2>14, <3>1, <3>2, SMTT(30) DEF LimitInv, Stops
  <2>15. QED
    BY <2>6, <2>9, <2>10, <2>11, <2>12, <2>13, <2>14
<1>5. CASE ReadImage
  <2>1. rdAt = "pop" /\ rdAt' = "top"
    BY <1>5 DEF ReadImage
  <2>2. CASE rdNum <= LastFile
    <3>1. PICK t : t = AfterRead(rd)
      OBVIOUS
    <3>2. /\ t.pause = rd.pause /\ ~t.one /\ t.count = rd.count + 1
          /\ t.applyAt = rd.applyAt /\ t.applyOffset = rd.applyOffset
      BY <1>1, <3>1 DEF AfterRead, ReaderState
    <3>3. rd' = t /\ limit' = limit
      BY <1>5, <2>2, <3>1 DEF ReadImage
    <3>4. NextCount' = NextCount
      BY <2>1, <3>2, <3>3 DEF NextCount
    <3>5. QED
      BY <2>1, <3>2, <3>3, <3>4 DEF LimitInv, Stops
  <2>3. CASE ~(rdNum <= LastFile)
    BY <1>5, <2>3 DEF ReadImage, LimitInv
  <2>4. QED
    BY <2>2, <2>3
<1>6. CASE Sync
  BY <1>2, <1>6 DEF Sync, SyncTurn, SyncObey, SyncDrained, SyncImage, reader
<1>7. ASSUME NEW s \in Ports, Saver(s)
      PROVE  LimitInv'
  BY <1>2, <1>7 DEF Saver, SaveInitDone, SaveTake, SaveWrite, reader
<1>8. CASE Tell
  BY <1>2, <1>8 DEF Tell
<1>9. CASE UNCHANGED vars
  BY <1>2, <1>9 DEF vars, reader
<1>10. QED
  BY <1>3, <1>4, <1>5, <1>6, <1>7, <1>8, <1>9 DEF Next, Reader

\* Each step keeps the reader within the number of frames.
LEMMA FramesStep == TypeOK /\ FramesInv /\ [Next]_vars => FramesInv'
<1> SUFFICES ASSUME TypeOK, FramesInv, [Next]_vars PROVE FramesInv'
  OBVIOUS
<1>1. /\ ReaderTyped /\ rd \in ReaderState /\ frames \in Nat \cup {-1}
      /\ rd.pause \in BOOLEAN /\ rd.one \in BOOLEAN /\ rd.count \in Nat /\ rd.applyAt \in Int
      /\ rdCmds \in Seq(ReadMessage)
  BY ReaderFields DEF TypeOK, ReaderTyped
<1>2. ASSUME UNCHANGED <<rd, rdAt, frames>>
      PROVE  FramesInv'
  BY <1>2 DEF FramesInv, Owed
<1>3. CASE ReadTurn
  <2>1. PICK t : t = Apply(rd)
    OBVIOUS
  <2>2. CASE frames' >= 0
    <3>1. frames' = frames /\ rd.pause /\ rd.applyAt <= 0 /\ frames >= Owed /\ rdAt = "top"
      BY <1>1, <1>3, <2>2 DEF ReadTurn, FramesInv
    <3>2. /\ rd' = t /\ rdAt' \in {"wait", "pop"}
          /\ rdAt' = "pop" => ~(t.pause /\ ~t.one)
      BY <1>3, <2>1, <2>2 DEF ReadTurn
    <3>3. t.pause /\ t.applyAt < 0 /\ (t.one => rd.applyAt = 0 \/ rd.one)
      BY <1>1, <2>1, <3>1, ApplyIs
    <3>4. t.one \in BOOLEAN /\ t.applyAt \in Int
      BY <1>1, <2>1, Applied, ReaderFields
    <3>5. frames >= (IF rd.applyAt = 0 \/ rd.one THEN 1 ELSE 0)
      BY <3>1 DEF Owed
    <3>6. Owed' = IF t.one THEN 1 ELSE 0
      <4>1. t.applyAt # 0
        BY <3>3, <3>4
      <4>2. CASE rdAt' = "pop"
        BY <3>2, <3>3, <3>4, <4>1, <4>2 DEF Owed
      <4>3. CASE rdAt' = "wait"
        BY <3>2, <3>4, <4>1, <4>3 DEF Owed
      <4>4. QED
        BY <3>2, <4>2, <4>3
    <3>7. frames' >= Owed'
      BY <1>1, <3>1, <3>3, <3>4, <3>5, <3>6
    <3>8. QED
      BY <3>2, <3>3, <3>4, <3>7 DEF FramesInv
  <2>3. QED
    BY <2>2 DEF FramesInv
<1>4. CASE ReadObey
  <2>1. PICK m \in ReadMessage : m = Head(rdCmds)
    BY <1>1, <1>4, FirstAndRest DEF ReadObey
  <2>2. PICK t : t = ReadDecode(rd, m)
    OBVIOUS
  <2>3. /\ rd' = t /\ frames' = Frames(m)
        /\ rdAt \in {"wait", "pop"} /\ (rdAt' = "pop" <=> rdAt = "pop")
    BY <1>4, <2>1, <2>2 DEF ReadObey
  <2>4. CASE NoMatter(m)
    <3>1. frames' = frames
      BY <2>3, <2>4 DEF Frames, NoMatter
    <3>2. t.pause = rd.pause /\ t.one = rd.one /\ t.applyAt = rd.applyAt
      BY <1>1, <2>2, <2>4, ReadDecodeIs DEF NoMatter
    <3>3. QED
      BY <2>3, <3>1, <3>2 DEF FramesInv, Owed
  <2>5. CASE m.cmd = "/next" /\ rd.pause
    <3>1. frames' = IF rdAt = "pop" THEN 2 ELSE 1
      BY <2>3, <2>5 DEF Frames, NoMatter
    <3>2. t.pause /\ t.applyAt = 0
      BY <1>1, <2>2, <2>5, ReadDecodeIs
    <3>3. QED
      BY <2>3, <3>1, <3>2 DEF FramesInv, Owed
  <2>6. CASE ~NoMatter(m) /\ ~(m.cmd = "/next" /\ rd.pause)
    <3>1. frames' = -1
      BY <2>3, <2>6 DEF Frames
    <3>2. QED
      BY <3>1 DEF FramesInv
  <2>7. QED
    BY <2>4, <2>5, <2>6
<1>5. CASE ReadImage
  <2>1. rdAt = "pop" /\ rdAt' = "top"
    BY <1>5 DEF ReadImage
  <2>2. CASE rdNum <= LastFile
    <3>1. PICK t : t = AfterRead(rd)
      OBVIOUS
    <3>2. t.pause = rd.pause /\ ~t.one /\ t.applyAt = rd.applyAt
      BY <1>1, <3>1 DEF AfterRead, ReaderState
    <3>3. rd' = t /\ frames' = IF frames > 0 THEN frames - 1 ELSE frames
      BY <1>5, <2>2, <3>1 DEF ReadImage
    <3>4. QED
      BY <1>1, <2>1, <3>2, <3>3 DEF FramesInv, Owed
  <2>3. CASE ~(rdNum <= LastFile)
    BY <1>5, <2>3 DEF ReadImage, FramesInv
  <2>4. QED
    BY <2>2, <2>3
<1>6. CASE Sync
  BY <1>2, <1>6 DEF Sync, SyncTurn, SyncObey, SyncDrained, SyncImage, reader
<1>7. ASSUME NEW s \in Ports, Saver(s)
      PROVE  FramesInv'
  BY <1>2, <1>7 DEF Saver, SaveInitDone, SaveTake, SaveWrite, reader
<1>8. CASE Tell
  BY <1>2, <1>8 DEF Tell
<1>9. CASE UNCHANGED vars
  BY <1>2, <1>9 DEF vars, reader
<1>10. QED
  BY <1>3, <1>4, <1>5, <1>6, <1>7, <1>8, <1>9 DEF Next, Reader

-----------------------------------------------------------------------------
(* The inductive invariant and what follows from it.                       *)

Inv == TypeOK /\ Finite /\ SyncInv /\ SaverInv /\ LimitInv /\ FramesInv

\* It holds when the plugins are created: no /go, no count, no command but "/init-done".
LEMMA InitInv == Init => Inv
<1> SUFFICES ASSUME Init PROVE Inv
  OBVIOUS
<1>1. SyncInv
  BY DEF Init, SyncInv
<1>2. SaverInv
  <2>1. ASSUME NEW s \in Ports
        PROVE  /\ sv[s].count = SaveCount[s] /\ written[s] = 0 /\ hand[s] = NoImage
               /\ s \notin done /\ SaveCount[s] \in Int
    BY RecorderAssumption DEF Init
  <2>2. QED
    BY <2>1, RecorderAssumption DEF SaverInv
<1>3. LimitInv /\ FramesInv
  BY DEF Init, LimitInv, FramesInv
<1>4. QED
  BY <1>1, <1>2, <1>3, InitTyped DEF Inv

\* Every step keeps it.
LEMMA InvStep == Inv /\ [Next]_vars => Inv'
<1> SUFFICES ASSUME Inv, [Next]_vars PROVE Inv'
  OBVIOUS
<1>1. TypeOK' /\ Finite'
  <2>1. CASE Reader
    BY <2>1, ReaderTypes DEF Inv
  <2>2. CASE Sync
    BY <2>2, SyncTypes DEF Inv
  <2>3. ASSUME NEW s \in Ports, Saver(s)
        PROVE  TypeOK' /\ Finite'
    BY <2>3, SaverTypes DEF Inv
  <2>4. CASE Tell
    BY <2>4, TellTypes DEF Inv
  <2>5. CASE UNCHANGED vars
    <3>1. ReaderTyped' /\ SyncTyped' /\ SaversTyped' /\ UNCHANGED <<pool, tells>>
      BY <2>5 DEF vars, reader, sync, saving, Inv, TypeOK, ReaderTyped, SyncTyped, SaversTyped
    <3>2. Saving' = Saving /\ Queued' = Queued /\ syQ' = syQ
      BY <2>5, SaversAtRest DEF vars, saving
    <3>3. QED
      BY <3>1, <3>2 DEF Inv, TypeOK, PoolKept, Finite
  <2>6. QED
    BY <2>1, <2>2, <2>3, <2>4, <2>5 DEF Next
<1>2. SyncInv' /\ SaverInv' /\ LimitInv' /\ FramesInv'
  BY SyncStep, SaverStep, LimitStep, FramesStep DEF Inv
<1>3. QED
  BY <1>1, <1>2 DEF Inv

\* The invariant always holds.
LEMMA Invariance == Spec => []Inv
<1>1. Init => Inv
  BY InitInv
<1>2. Inv /\ [Next]_vars => Inv'
  BY InvStep
<1>3. QED
  BY <1>1, <1>2, PTL DEF Spec

\* The variables keep their types, and no image of the pool is lost or doubled on its way
\* through the reader, the sync and the savers (pluginRead, pluginSync, pluginSave).
THEOREM TypeCorrect == Spec => []TypeOK
<1>1. Inv => TypeOK
  BY DEF Inv
<1>2. QED
  BY <1>1, Invariance, PTL

\* The counts given with /count hold (pluginSync.cpp:125, pluginSave.cpp:187): the sync lets
\* through exactly the images counted out and then ends, and only with a /go for each; a
\* saver writes no more files than its count and says "done" with the last.
THEOREM CountsHold == Spec => []CountsKept
<1>1. Inv => CountsKept
  <2> SUFFICES ASSUME Inv PROVE CountsKept
    OBVIOUS
  <2>1. /\ sy.nbGo \in Nat /\ sy.togo \in Int /\ passed \in Nat /\ gos \in Nat
        /\ allowed \in Nat \cup {-1}
    BY DEF Inv, TypeOK, SyncTyped, SyncState
  <2>2. /\ passed <= gos
        /\ allowed >= 0 => passed <= allowed
        /\ syAt = "ended" => passed = allowed
    BY <2>1 DEF Inv, SyncInv
  <2>3. ASSUME NEW s \in Ports
        PROVE  /\ SaveCount[s] >= 0 => written[s] <= SaveCount[s]
               /\ s \in done => written[s] + Cardinality(Saving \cap {s}) >= SaveCount[s]
    <3>1. /\ sv[s].count \in Int /\ written[s] \in Nat /\ SaveCount[s] \in Int
      BY RecorderAssumption DEF Inv, TypeOK, SaversTyped
    <3>2. /\ SaveCount[s] >= 0 =>
              /\ sv[s].count >= 0
              /\ sv[s].count + written[s] + (IF hand[s] = "save" THEN 1 ELSE 0) = SaveCount[s]
          /\ SaveCount[s] < 0 => sv[s].count < 0
          /\ s \in done => sv[s].count = 0
      BY DEF Inv, SaverInv
    <3>3. hand[s] = "save" => Saving \cap {s} = {s}
      BY RecorderAssumption DEF Saving
    <3>4. Cardinality({s}) = 1 /\ IsFiniteSet({s})
      BY FS_Singleton
    <3>5. Cardinality(Saving \cap {s}) \in Nat
      <4>1. Saving \cap {s} \in SUBSET {s}
        OBVIOUS
      <4>2. QED
        BY <3>4, <4>1, FS_Subset, FS_CardinalityType
    <3>6. hand[s] = "save" => Cardinality(Saving \cap {s}) = 1
      BY <3>3, <3>4
    <3>7. QED
      BY <3>1, <3>2, <3>5, <3>6
  <2>4. QED
    BY <2>2, <2>3 DEF CountsKept
<1>2. QED
  BY <1>1, Invariance, PTL

\* /pause and /count-add in a pause hold, and /next reads one frame (pluginRead.cpp:58, 207):
\* no frame is read after the one whose count the last command named, and no more than one
\* for a /next, also when the reader was waiting for an empty image as it obeyed.
THEOREM PauseKept == Spec => PauseHolds
<1>1. Inv /\ [Next]_vars => [rdAt = "pop" /\ pool' = pool - 1 =>
                                /\ limit < 0 \/ rd.count <= limit
                                /\ frames # 0]_vars
  <2>1. Inv /\ rdAt = "pop" => (limit < 0 \/ rd.count <= limit) /\ frames # 0
    BY DEF Inv, LimitInv, FramesInv, Owed, TypeOK, ReaderTyped
  <2>2. QED
    BY <2>1
<1>2. QED
  BY <1>1, Invariance, PTL DEF Spec, PauseHolds
=============================================================================
