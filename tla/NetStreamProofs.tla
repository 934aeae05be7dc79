--------------------------- MODULE NetStreamProofs --------------------------
(***************************************************************************)
(* Machine-checked proofs about NetStream, for any number of images, of    *)
(* blocks, of buffers and of packets in flight, over TCP or over UDP.      *)
(***************************************************************************)
EXTENDS NetStream, SequenceTheorems, FunctionTheorems, FiniteSetTheorems, TLAPS

(* A sequence without one of its elements.                                 *)

Without(s, i) == SubSeq(s, 1, i - 1) \o SubSeq(s, i + 1, Len(s))

\* The elements before position i.
LEMMA FrontPart ==
    ASSUME NEW S, NEW s \in Seq(S), NEW i \in 1 .. Len(s) + 1
    PROVE  /\ SubSeq(s, 1, i - 1) \in Seq(S) /\ Len(SubSeq(s, 1, i - 1)) = i - 1
           /\ \A j \in 1 .. i - 1 : SubSeq(s, 1, i - 1)[j] = s[j]
<1> DEFINE l == SubSeq(s, 1, i - 1)
<1>1. Len(s) \in Nat /\ i \in Nat /\ i >= 1 /\ i <= Len(s) + 1 /\ \A j \in 1 .. Len(s) : s[j] \in S
  BY LenProperties, ElementOfSeq
<1>2. /\ l \in Seq(S) /\ Len(l) = IF 1 <= i - 1 THEN i - 1 - 1 + 1 ELSE 0
      /\ \A j \in 1 .. (i - 1) - 1 + 1 : l[j] = s[1 + j - 1]
  BY <1>1, SubSeqProperties
<1>3. \A j \in 1 .. i - 1 : j \in 1 .. (i - 1) - 1 + 1 /\ 1 + j - 1 = j
  BY <1>1
<1> HIDE DEF l
<1>4. QED
  BY <1>1, <1>2, <1>3 DEF l

\* The elements from position k on.
LEMMA BackPart ==
    ASSUME NEW S, NEW s \in Seq(S), NEW k \in 1 .. Len(s) + 1
    PROVE  /\ SubSeq(s, k, Len(s)) \in Seq(S) /\ Len(SubSeq(s, k, Len(s))) = Len(s) + 1 - k
           /\ \A j \in 1 .. Len(s) + 1 - k : SubSeq(s, k, Len(s))[j] = s[j + k - 1]
<1> DEFINE r == SubSeq(s, k, Len(s))
<1>1. Len(s) \in Nat /\ k \in Nat /\ k >= 1 /\ k <= Len(s) + 1 /\ \A j \in 1 .. Len(s) : s[j] \in S
  BY LenProperties, ElementOfSeq
<1>2. /\ r \in Seq(S) /\ Len(r) = IF k <= Len(s) THEN Len(s) - k + 1 ELSE 0
      /\ \A j \in 1 .. Len(s) - k + 1 : r[j] = s[k + j - 1]
  BY <1>1, SubSeqProperties
<1>3. \A j \in 1 .. Len(s) + 1 - k : j \in 1 .. Len(s) - k + 1 /\ k + j - 1 = j + k - 1
  BY <1>1
<1> HIDE DEF r
<1>4. QED
  BY <1>1, <1>2, <1>3 DEF r

\* The elements of a sequence without its element i.
LEMMA WithoutElements ==
    ASSUME NEW S, NEW s \in Seq(S), NEW i \in 1 .. Len(s)
    PROVE  /\ Without(s, i) \in Seq(S) /\ Len(Without(s, i)) = Len(s) - 1
           /\ \A j \in 1 .. Len(s) - 1 : Without(s, i)[j] = IF j < i THEN s[j] ELSE s[j + 1]
<1> DEFINE l == SubSeq(s, 1, i - 1)
           r == SubSeq(s, i + 1, Len(s))
<1>1. Len(s) \in Nat /\ i \in Nat /\ i >= 1 /\ i <= Len(s)
  BY LenProperties
<1>2. i \in 1 .. Len(s) + 1 /\ i + 1 \in 1 .. Len(s) + 1
  BY <1>1
<1>3. l \in Seq(S) /\ Len(l) = i - 1 /\ \A j \in 1 .. i - 1 : l[j] = s[j]
  BY <1>2, FrontPart
<1>4. /\ r \in Seq(S) /\ Len(r) = Len(s) + 1 - (i + 1)
      /\ \A j \in 1 .. Len(s) + 1 - (i + 1) : r[j] = s[j + (i + 1) - 1]
  BY <1>2, BackPart
<1> HIDE DEF l, r
<1>5. /\ l \o r \in Seq(S) /\ Len(l \o r) = Len(l) + Len(r)
      /\ \A j \in 1 .. Len(l) + Len(r) : (l \o r)[j] = IF j <= Len(l) THEN l[j] ELSE r[j - Len(l)]
  BY <1>3, <1>4, ConcatProperties
<1>6. ASSUME NEW j \in 1 .. Len(s) - 1
      PROVE  (l \o r)[j] = IF j < i THEN s[j] ELSE s[j + 1]
  <2>1. CASE j < i
    BY <1>1, <1>3, <1>4, <1>5, <2>1
  <2>2. CASE j >= i
    <3>1. (l \o r)[j] = r[j - (i - 1)] /\ j - (i - 1) \in 1 .. Len(s) + 1 - (i + 1)
      BY <1>1, <1>3, <1>4, <1>5, <2>2
    <3>2. r[j - (i - 1)] = s[(j - (i - 1)) + (i + 1) - 1]
      BY <1>4, <3>1
    <3>3. (j - (i - 1)) + (i + 1) - 1 = j + 1
      BY <1>1
    <3>4. QED
      BY <1>1, <2>2, <3>1, <3>2, <3>3
  <2>3. j < i \/ j >= i
    BY <1>1
  <2>4. QED
    BY <2>1, <2>2, <2>3
<1>7. Len(l \o r) = Len(s) - 1
  BY <1>1, <1>3, <1>4, <1>5
<1>8. QED
  BY <1>5, <1>6, <1>7 DEF Without, l, r

-----------------------------------------------------------------------------

(* The inductive invariant.                                                *)

\* Images are numbered in the order of their capture, which the sender keeps.
InOrder ==
    /\ captured = Len(out) + Len(in) + (IF cur = None THEN 0 ELSE 1)
    /\ \A k \in DOMAIN out : out[k] = k
    /\ cur # None => cur = Len(out) + 1
    /\ \A k \in DOMAIN in : in[k] = captured - Len(in) + k
    /\ n <= Len(out)

\* Packet b of image x, 0 being the header, has left the sender if the image was
\* not skipped; it is in flight.
Sent(x, b) == x <= Len(out) \/ (cur = x /\ b + 1 < part)
OnWire(x, b) == \E j \in DOMAIN wire : wire[j].img = x /\ wire[j].b = b

Before(p, q) == p.img < q.img \/ (p.img = q.img /\ p.b < q.b)

\* The wire keeps the order in which packets were sent, also when one comes out early,
\* and the packets of one image have one number.  Of an undisturbed image all that is
\* behind a packet in flight is in flight.
WireInv ==
    /\ \A j \in DOMAIN wire :
          /\ Sent(wire[j].img, wire[j].b)
          /\ wire[j].kind = "image" <=> wire[j].b = 0
          /\ wire[j].img = cur => wire[j].n = n
    /\ \A j, k \in DOMAIN wire : j < k => Before(wire[j], wire[k])
    /\ \A j, k \in DOMAIN wire : wire[j].img = wire[k].img => wire[j].n = wire[k].n
    /\ \A j \in DOMAIN wire : wire[j].img \notin hurt =>
          \A b \in wire[j].b .. Blocks : Sent(wire[j].img, b) => OnWire(wire[j].img, b)

\* The image that is being received, if there is one.
Incoming == IF pending # None THEN pending ELSE head[i0]

\* An undisturbed image is received up to block g, and the rest comes next.
ReceivedTo(g) ==
    /\ IF pending # None THEN g = 0
       ELSE \A k \in 1 .. Blocks : data[i0][k] = IF k <= g THEN Incoming ELSE None
    /\ \A j \in DOMAIN wire :
          wire[j].img >= Incoming /\ (wire[j].img = Incoming => wire[j].b > g)
    /\ Sent(Incoming, g)
    /\ \A b \in g + 1 .. Blocks : Sent(Incoming, b) => OnWire(Incoming, b)

ReceiverInv ==
    /\ pending = None \/ i0 = None
    /\ i0 # None => head[i0] # None
    /\ n0 # NoId =>
          /\ Sent(Incoming, 0)
          /\ cur = Incoming => n0 = n
          /\ \A j \in DOMAIN wire : wire[j].img = Incoming => wire[j].n = n0
          /\ Incoming \notin hurt => \E g \in 0 .. Blocks - 1 : ReceivedTo(g)

Inv == TypeOK /\ InOrder /\ WireInv /\ ReceiverInv /\ WholeUnlessHurt

\* When the sender counts, a number stands for one image; NeverMixed rests on it.
DistinctNumbers ==
    /\ \A j \in DOMAIN wire : wire[j].n <= n /\ (wire[j].n = n => wire[j].img = cur)
    /\ \A j, k \in DOMAIN wire : wire[j].n = wire[k].n => wire[j].img = wire[k].img
    /\ n0 # NoId =>
          /\ n0 <= n /\ (n0 = n => cur = Incoming)
          /\ \A j \in DOMAIN wire : wire[j].n = n0 => wire[j].img = Incoming

-----------------------------------------------------------------------------
(* Facts about sequences.                                                  *)

\* What is left of a sequence when one element is taken out.
LEMMA RemoveAtProperties ==
    ASSUME NEW S, NEW s \in Seq(S), NEW i \in 1 .. Len(s)
    PROVE  /\ RemoveAt(s, i) \in Seq(S)
           /\ Len(RemoveAt(s, i)) = Len(s) - 1
           /\ \A j \in 1 .. Len(s) - 1 : RemoveAt(s, i)[j] = IF j < i THEN s[j] ELSE s[j + 1]
BY WithoutElements DEF RemoveAt, Without

\* Every other element keeps its place in the order.
LEMMA RemoveAtElements ==
    ASSUME NEW S, NEW s \in Seq(S), NEW i \in 1 .. Len(s)
    PROVE  /\ DOMAIN RemoveAt(s, i) = 1 .. Len(s) - 1
           /\ \A j \in 1 .. Len(s) - 1 :
                 \E k \in 1 .. Len(s) \ {i} : RemoveAt(s, i)[j] = s[k] /\ k = IF j < i THEN j ELSE j + 1
           /\ \A k \in 1 .. Len(s) \ {i} : \E j \in 1 .. Len(s) - 1 : RemoveAt(s, i)[j] = s[k]
<1>1. Len(s) \in Nat /\ i \in Nat /\ i >= 1 /\ i <= Len(s)
  BY LenProperties
<1>2. DOMAIN RemoveAt(s, i) = 1 .. Len(s) - 1
  BY RemoveAtProperties, LenProperties
<1>3. ASSUME NEW j \in 1 .. Len(s) - 1
      PROVE  \E k \in 1 .. Len(s) \ {i} : RemoveAt(s, i)[j] = s[k] /\ k = IF j < i THEN j ELSE j + 1
  <2>1. (IF j < i THEN j ELSE j + 1) \in 1 .. Len(s) \ {i}
    BY <1>1
  <2>2. RemoveAt(s, i)[j] = s[IF j < i THEN j ELSE j + 1]
    BY RemoveAtProperties
  <2>3. QED
    BY <2>1, <2>2
<1>4. ASSUME NEW k \in 1 .. Len(s) \ {i}
      PROVE  \E j \in 1 .. Len(s) - 1 : RemoveAt(s, i)[j] = s[k]
  <2>1. CASE k < i
    <3>1. k \in 1 .. Len(s) - 1
      BY <1>1, <2>1
    <3>2. RemoveAt(s, i)[k] = s[k]
      BY <2>1, <3>1, RemoveAtProperties
    <3>3. QED
      BY <3>1, <3>2
  <2>2. CASE k > i
    <3>1. k - 1 \in 1 .. Len(s) - 1 /\ ~(k - 1 < i) /\ (k - 1) + 1 = k
      BY <1>1, <2>2
    <3>2. RemoveAt(s, i)[k - 1] = s[(k - 1) + 1]
      BY <3>1, RemoveAtProperties
    <3>3. QED
      BY <3>1, <3>2
  <2>3. QED
    BY <1>1, <2>1, <2>2
<1>5. QED
  BY <1>2, <1>3, <1>4

-----------------------------------------------------------------------------
(* Facts about the wire and the image that is received.                    *)

\* The fields of the packets in flight.
LEMMA PacketFacts ==
    ASSUME Types
    PROVE  /\ DOMAIN wire = 1 .. Len(wire) /\ Len(wire) \in Nat
           /\ \A j \in DOMAIN wire :
                 /\ wire[j] \in Packet /\ wire[j].img \in Images /\ wire[j].b \in 0 .. Blocks
                 /\ wire[j].n \in Ids /\ wire[j].kind \in {"image", "data"}
<1>1. wire \in Seq(Packet)
  BY DEF Types
<1>2. DOMAIN wire = 1 .. Len(wire) /\ Len(wire) \in Nat /\ \A j \in DOMAIN wire : wire[j] \in Packet
  BY <1>1, LenProperties, ElementOfSeq
<1>3. QED
  BY <1>2 DEF Packet

\* A packet is taken out or comes out to stay: a packet that came out first, once, is
\* gone, and the image of any other is hurt.
Thins(i) ==
    /\ i \in DOMAIN wire /\ (wire' = wire \/ wire' = RemoveAt(wire, i))
    /\ hurt \subseteq hurt' /\ hurt' \subseteq Images
    /\ wire[i].img \in hurt' \/ (i = 1 /\ wire' = RemoveAt(wire, i))

\* Every packet of the wire was there before, in the same order, and only packet i is gone.
LEMMA WireThins ==
    ASSUME Types, NEW i, Thins(i)
    PROVE  /\ wire' \in Seq(Packet) /\ Len(wire') <= Len(wire)
           /\ \A j \in DOMAIN wire' :
                 \E k \in DOMAIN wire : wire'[j] = wire[k] /\ (wire' = wire \/ k # i)
           /\ \A j1, j2 \in DOMAIN wire' : j1 < j2 =>
                 \E k1, k2 \in DOMAIN wire :
                    k1 < k2 /\ wire'[j1] = wire[k1] /\ wire'[j2] = wire[k2]
           /\ \A k \in DOMAIN wire : k # i => \E j \in DOMAIN wire' : wire'[j] = wire[k]
<1>1. wire \in Seq(Packet) /\ DOMAIN wire = 1 .. Len(wire) /\ Len(wire) \in Nat /\ i \in 1 .. Len(wire)
  BY LenProperties DEF Types, Thins
<1>2. CASE wire' = wire
  BY <1>1, <1>2
<1>3. CASE wire' = RemoveAt(wire, i)
  <2>1. /\ wire' \in Seq(Packet) /\ Len(wire') = Len(wire) - 1
        /\ DOMAIN wire' = 1 .. Len(wire) - 1
    <3>1. RemoveAt(wire, i) \in Seq(Packet) /\ Len(RemoveAt(wire, i)) = Len(wire) - 1
      BY <1>1, RemoveAtProperties
    <3>2. DOMAIN RemoveAt(wire, i) = 1 .. Len(wire) - 1
      BY <1>1, <3>1, LenProperties
    <3>3. QED
      BY <1>3, <3>1, <3>2
  <2>2. \A j \in 1 .. Len(wire) - 1 :
           \E k \in 1 .. Len(wire) \ {i} : wire'[j] = wire[k] /\ k = IF j < i THEN j ELSE j + 1
    <3>1. \A j \in 1 .. Len(wire) - 1 :
             \E k \in 1 .. Len(wire) \ {i} :
                RemoveAt(wire, i)[j] = wire[k] /\ k = IF j < i THEN j ELSE j + 1
      BY <1>1, RemoveAtElements
    <3>2. QED
      BY <1>3, <3>1
  <2>3. \A k \in 1 .. Len(wire) \ {i} : \E j \in 1 .. Len(wire) - 1 : wire'[j] = wire[k]
    <3>1. \A k \in 1 .. Len(wire) \ {i} : \E j \in 1 .. Len(wire) - 1 : RemoveAt(wire, i)[j] = wire[k]
      BY <1>1, RemoveAtElements
    <3>2. QED
      BY <1>3, <3>1
  <2>4. ASSUME NEW j1 \in DOMAIN wire', NEW j2 \in DOMAIN wire', j1 < j2
        PROVE  \E k1, k2 \in DOMAIN wire :
                  k1 < k2 /\ wire'[j1] = wire[k1] /\ wire'[j2] = wire[k2]
    <3>1. PICK k1 \in 1 .. Len(wire) : wire'[j1] = wire[k1] /\ k1 = IF j1 < i THEN j1 ELSE j1 + 1
      BY <2>1, <2>2
    <3>2. PICK k2 \in 1 .. Len(wire) : wire'[j2] = wire[k2] /\ k2 = IF j2 < i THEN j2 ELSE j2 + 1
      BY <2>1, <2>2
    <3>3. k1 < k2
      BY <1>1, <2>1, <2>4, <3>1, <3>2
    <3>4. QED
      BY <1>1, <3>1, <3>2, <3>3
  <2>5. \A j \in DOMAIN wire' :
           \E k \in DOMAIN wire : wire'[j] = wire[k] /\ (wire' = wire \/ k # i)
    BY <1>1, <2>1, <2>2
  <2>6. \A k \in DOMAIN wire : k # i => \E j \in DOMAIN wire' : wire'[j] = wire[k]
    BY <1>1, <2>1, <2>3
  <2>7. Len(wire') <= Len(wire)
    BY <1>1, <2>1
  <2>8. QED
    BY <2>1, <2>4, <2>5, <2>6, <2>7
<1>4. QED
  BY <1>2, <1>3 DEF Thins

\* What an arrival does to the wire, and to the images of the packets it overtakes.
LEMMA ArrivalThins ==
    ASSUME Types, NEW i, NEW again \in BOOLEAN, Arrives(i, again)
    PROVE  Thins(i) /\ (i > 1 => \A j \in 1 .. i : wire[j].img \in hurt')
<1>1. wire \in Seq(Packet) /\ DOMAIN wire = 1 .. Len(wire) /\ Len(wire) \in Nat /\ i \in 1 .. Len(wire)
  BY LenProperties DEF Types, Arrives
<1>2. \A j \in 1 .. i : wire[j].img \in Images
  BY <1>1, PacketFacts
<1>3. hurt' = hurt \cup (IF i > 1 THEN {wire[j].img : j \in 1 .. i} ELSE {})
                   \cup (IF again THEN {wire[i].img} ELSE {})
  BY DEF Arrives
<1>4. hurt \subseteq hurt' /\ hurt' \subseteq Images
  BY <1>1, <1>2, <1>3 DEF Types
<1>5. i > 1 => \A j \in 1 .. i : wire[j].img \in hurt'
  BY <1>3
<1>6. wire[i].img \in hurt' \/ (i = 1 /\ wire' = RemoveAt(wire, i))
  <2>1. CASE i > 1
    BY <1>1, <1>5, <2>1
  <2>2. CASE again
    BY <1>3, <2>2
  <2>3. CASE i = 1 /\ ~again
    BY <2>3 DEF Arrives
  <2>4. QED
    BY <1>1, <2>1, <2>2, <2>3
<1>7. wire' = wire \/ wire' = RemoveAt(wire, i)
  BY DEF Arrives
<1>8. QED
  BY <1>1, <1>4, <1>5, <1>6, <1>7 DEF Thins

\* So does a loss.
LEMMA LossThins ==
    ASSUME Types, Lose
    PROVE  \E i \in DOMAIN wire : Thins(i) /\ wire[i].img \in hurt'
<1>1. PICK i \in DOMAIN wire : wire' = RemoveAt(wire, i) /\ hurt' = hurt \cup {wire[i].img}
  BY DEF Lose
<1>2. wire[i].img \in Images
  BY PacketFacts
<1>3. QED
  BY <1>1, <1>2 DEF Thins, Types

\* An image that is received has a number.
LEMMA IncomingImage ==
    ASSUME Types, ReceiverInv, n0 # NoId
    PROVE  Incoming \in Images
BY DEF Types, ReceiverInv, Incoming

-----------------------------------------------------------------------------
(* Types.                                                                  *)

\* Every step keeps the types, among them the bound on the counter n.
LEMMA TypesKept ==
    ASSUME Types, InOrder, WireInv, ReceiverInv, [Next]_vars
    PROVE  Types'
<1> USE NetStreamAssumption
<1>1. CASE Capture
  <2>1. captured + 1 \in Images
    BY <1>1 DEF Capture, Types, Images
  <2>2. Append(in, captured + 1) \in Seq(Images)
    BY <2>1, AppendProperties DEF Types
  <2>3. QED
    BY <1>1, <2>1, <2>2 DEF Capture, Types, Images, receiver
<1>2. CASE TakeImage
  <2>1. Head(in) \in Images /\ Tail(in) \in Seq(Images)
    BY <1>2, HeadTailProperties DEF TakeImage, Types
  <2>2. QED
    BY <1>2, <2>1 DEF TakeImage, Types, receiver, Images
<1>3. CASE SkipImage
  <2>1. Head(in) \in Images /\ Tail(in) \in Seq(Images) /\ Append(out, cur) \in Seq(Images)
    BY <1>3, HeadTailProperties, AppendProperties DEF SkipImage, Types
  <2>2. QED
    BY <1>3, <2>1 DEF SkipImage, Types, receiver, Images
<1>4. CASE SkipDone
  BY <1>4 DEF SkipDone, Types, receiver, Images
<1>5. CASE SendPacket
  <2> DEFINE p == [kind |-> IF part = 1 THEN "image" ELSE "data", n |-> n, img |-> cur, b |-> part - 1]
  <2>1. cur \in Images /\ part \in 1 .. Blocks + 1 /\ Len(wire) < MaxWire /\ wire' = Append(wire, p)
    BY <1>5 DEF SendPacket, Types
  <2>2. p \in Packet
    BY <2>1 DEF Types, Packet
  <2> HIDE DEF p
  <2>3. wire' \in Seq(Packet) /\ Len(wire') <= MaxWire
    <3>1. wire \in Seq(Packet) /\ Len(wire) \in Nat
      BY PacketFacts DEF Types
    <3>2. Append(wire, p) \in Seq(Packet) /\ Len(Append(wire, p)) = Len(wire) + 1
      BY <2>2, <3>1, AppendProperties
    <3>3. QED
      BY <2>1, <3>1, <3>2
  <2>4. UNCHANGED <<captured, in, n0, i0, pending, head, data, pool, Q, arrived, taken, hurt>>
    BY <1>5 DEF SendPacket, receiver
  <2>5. CASE part = Blocks + 1
    <3>1. Append(out, cur) \in Seq(Images)
      BY <2>1, AppendProperties DEF Types
    <3>2. NextN \in Ids
      <4>1. Len(out) \in Nat /\ Len(in) \in Nat
        BY LenProperties DEF Types
      <4>2. n + 1 <= captured
        BY <2>1, <4>1 DEF InOrder, Types, Images, Ids
      <4>3. QED
        BY <4>2 DEF NextN, Ids, Types
    <3>3. out' = Append(out, cur) /\ cur' = None /\ part' = 0 /\ n' = NextN
      BY <1>5, <2>5 DEF SendPacket
    <3>4. QED
      BY <2>3, <2>4, <3>1, <3>2, <3>3 DEF Types
  <2>6. CASE part # Blocks + 1
    <3>1. part' = part + 1 /\ UNCHANGED <<out, cur, n>>
      BY <1>5, <2>6 DEF SendPacket
    <3>2. part' \in 0 .. Blocks + 1
      BY <2>1, <2>6, <3>1
    <3>3. QED
      BY <2>1, <2>3, <2>4, <3>1, <3>2 DEF Types, Images
  <2>7. QED
    BY <2>5, <2>6
<1>6. CASE Lose
  <2>1. PICK i \in DOMAIN wire : Thins(i)
    BY <1>6, LossThins
  <2>2. wire' \in Seq(Packet) /\ Len(wire') <= MaxWire /\ hurt' \in SUBSET Images
    <3>1. wire' \in Seq(Packet) /\ Len(wire') <= Len(wire)
      BY <2>1, WireThins
    <3>2. Len(wire) \in Nat /\ Len(wire') \in Nat /\ Len(wire) <= MaxWire
      BY <3>1, LenProperties DEF Types
    <3>3. QED
      BY <2>1, <3>1, <3>2 DEF Thins
  <2>3. QED
    BY <1>6, <2>2 DEF Lose, Types, sender, receiver
<1>7. ASSUME NEW i \in 1 .. MaxWire, NEW again \in BOOLEAN, Arrives(i, again)
      PROVE  /\ wire' \in Seq(Packet) /\ Len(wire') <= MaxWire /\ hurt' \in SUBSET Images
             /\ i \in DOMAIN wire /\ wire[i].n \in Ids /\ wire[i].img \in Images
             /\ wire[i].b \in 0 .. Blocks
  <2>1. Thins(i)
    BY <1>7, ArrivalThins
  <2>2. wire' \in Seq(Packet) /\ Len(wire') <= Len(wire)
    BY <2>1, WireThins
  <2>3. Len(wire) \in Nat /\ Len(wire') \in Nat /\ Len(wire) <= MaxWire
    BY <2>2, LenProperties DEF Types
  <2>4. QED
    BY <2>1, <2>2, <2>3, PacketFacts DEF Thins
<1>8. ASSUME i0 # None, Deliver
      PROVE  Q' \in Seq(Buffers) /\ arrived' \in SUBSET Images
  <2>1. i0 \in Buffers /\ head[i0] \in Images
    BY <1>8 DEF Types, ReceiverInv
  <2>2. Append(Q, i0) \in Seq(Buffers)
    BY <2>1, AppendProperties DEF Types
  <2>3. QED
    BY <1>8, <2>1, <2>2 DEF Deliver, Types
<1>9. ASSUME NEW i \in 1 .. MaxWire, NEW again \in BOOLEAN, ReceiveHeader(i, again)
      PROVE  Types'
  <2>1. /\ wire' \in Seq(Packet) /\ Len(wire') <= MaxWire /\ hurt' \in SUBSET Images
        /\ n0' \in Ids /\ pending' \in Images /\ i0' = None
    BY <1>7, <1>9 DEF ReceiveHeader
  <2>2. Q' \in Seq(Buffers) /\ arrived' \in SUBSET Images
    BY <1>8, <1>9 DEF ReceiveHeader, Types
  <2>3. n0' # NoId /\ pending' # None
    BY <2>1 DEF Ids, NoId, Images
  <2>4. UNCHANGED <<captured, in, cur, part, n, out, head, data, pool, taken>>
    BY <1>9 DEF ReceiveHeader, sender
  <2>5. QED
    BY <2>1, <2>2, <2>3, <2>4 DEF Types
<1>10. ASSUME NEW i \in 1 .. MaxWire, NEW again \in BOOLEAN, ReceiveData(i, again)
       PROVE  Types'
  <2>1. /\ wire' \in Seq(Packet) /\ Len(wire') <= MaxWire /\ hurt' \in SUBSET Images
        /\ wire[i].n \in Ids /\ wire[i].img \in Images
    BY <1>7, <1>10 DEF ReceiveData
  <2>2. pending = None /\ UNCHANGED <<captured, in, cur, part, n, out, pending, head, pool, taken>>
    BY <1>10 DEF ReceiveData, sender
  <2>3. CASE wire[i].n # n0
    <3>1. UNCHANGED <<n0, i0, data, Q, arrived>>
      BY <1>10, <2>3 DEF ReceiveData
    <3>2. QED
      BY <2>1, <2>2, <3>1 DEF Types
  <2>4. CASE wire[i].n = n0
    <3>1. i0 # None
      BY <2>1, <2>2, <2>4 DEF Types, Ids, NoId
    <3>2. data' = [data EXCEPT ![i0][wire[i].b] = wire[i].img]
      BY <1>10, <2>4 DEF ReceiveData
    <3>3. data' \in [Buffers -> [1 .. Blocks -> Images \cup {None}]]
      BY <2>1, <3>2 DEF Types
    <3>4. CASE LastBlock(wire[i].b)
      <4>1. Deliver /\ i0' = None /\ n0' = NoId
        BY <1>10, <2>4, <3>4 DEF ReceiveData
      <4>2. QED
        BY <1>8, <2>1, <2>2, <3>1, <3>3, <4>1 DEF Types
    <3>5. CASE ~LastBlock(wire[i].b)
      <4>1. UNCHANGED <<n0, i0, Q, arrived>>
        BY <1>10, <2>4, <3>5 DEF ReceiveData
      <4>2. QED
        BY <2>1, <2>2, <3>3, <4>1 DEF Types
    <3>6. QED
      BY <3>4, <3>5
  <2>5. QED
    BY <2>3, <2>4
<1>11. CASE StartImage
  <2>1. Head(pool) \in Buffers /\ Tail(pool) \in Seq(Buffers)
    BY <1>11, HeadTailProperties DEF StartImage, Types
  <2>2. pending \in Images /\ n0 # NoId
    BY <1>11 DEF StartImage, Types
  <2>3. /\ head' \in [Buffers -> Images \cup {None}]
        /\ data' \in [Buffers -> [1 .. Blocks -> Images \cup {None}]]
    BY <1>11, <2>1, <2>2 DEF StartImage, Types
  <2>4. i0' \in Buffers /\ i0' # None /\ pool' \in Seq(Buffers) /\ pending' = None
    BY <1>11, <2>1 DEF StartImage
  <2>5. UNCHANGED <<captured, in, cur, part, n, out, wire, n0, Q, arrived, taken, hurt>>
    BY <1>11 DEF StartImage, sender
  <2>6. QED
    BY <2>2, <2>3, <2>4, <2>5 DEF Types
<1>12. CASE Consume
  <2>1. Head(Q) \in Buffers /\ Tail(Q) \in Seq(Buffers)
    BY <1>12, HeadTailProperties DEF Consume, Types
  <2>2. QED
    BY <1>12, <2>1 DEF Consume, Types, sender
<1>13. CASE Recycle
  <2>1. taken \in Buffers
    BY <1>13 DEF Recycle, Types
  <2>2. <<taken>> \o pool \in Seq(Buffers)
    BY <2>1, ConcatProperties DEF Types
  <2>3. QED
    BY <1>13, <2>1, <2>2 DEF Recycle, Types, sender
<1>14. CASE UNCHANGED vars
  BY <1>14 DEF vars, sender, receiver, Types
<1>15. QED
  BY <1>1, <1>2, <1>3, <1>4, <1>5, <1>6, <1>9, <1>10, <1>11, <1>12, <1>13, <1>14
     DEF Next, SenderStep, Consumer, Receive

-----------------------------------------------------------------------------
(* The order of the images.                                                *)

\* Every step keeps the order of the images.
LEMMA InOrderKept ==
    ASSUME Types, InOrder, [Next]_vars
    PROVE  InOrder'
<1> USE NetStreamAssumption
<1> DEFINE Held == IF cur = None THEN 0 ELSE 1
<1>1. /\ in \in Seq(Images) /\ Len(in) \in Nat /\ DOMAIN in = 1 .. Len(in)
      /\ out \in Seq(Images) /\ Len(out) \in Nat /\ DOMAIN out = 1 .. Len(out)
      /\ captured \in Nat /\ n \in Nat /\ None \notin Images
  BY LenProperties DEF Types, Ids, Images
<1>2. CASE Capture
  <2>1. captured + 1 \in Images
    BY <1>2 DEF Capture, Types, Images
  <2>2. /\ in' = Append(in, captured + 1) /\ in' \in Seq(Images) /\ Len(in') = Len(in) + 1
        /\ DOMAIN in' = 1 .. Len(in) + 1
        /\ \A k \in 1 .. Len(in) : in'[k] = in[k]
        /\ in'[Len(in) + 1] = captured + 1
    BY <1>1, <1>2, <2>1, AppendProperties, LenProperties DEF Capture
  <2>3. captured' = captured + 1 /\ UNCHANGED <<cur, n, out>>
    BY <1>2 DEF Capture
  <2>4. \A k \in DOMAIN in' : in'[k] = captured' - Len(in') + k
    BY <1>1, <2>2, <2>3 DEF InOrder
  <2>5. QED
    BY <1>1, <2>2, <2>3, <2>4 DEF InOrder
<1>3. ASSUME in # <<>>, in' = Tail(in), captured' = captured
      PROVE  /\ Head(in) = captured - Len(in) + 1
             /\ Len(in') = Len(in) - 1
             /\ \A k \in DOMAIN in' : in'[k] = captured' - Len(in') + k
  <2>1. /\ Tail(in) \in Seq(Images) /\ Len(Tail(in)) = Len(in) - 1
        /\ \A k \in 1 .. Len(Tail(in)) : Tail(in)[k] = in[k + 1]
    BY <1>1, <1>3, HeadTailProperties
  <2>2. DOMAIN Tail(in) = 1 .. Len(Tail(in)) /\ Len(Tail(in)) \in Nat
    BY <2>1, LenProperties
  <2>3. Head(in) = in[1] /\ Len(in) >= 1
    BY <1>1, <1>3, <2>1, <2>2
  <2>4. \A k \in 1 .. Len(Tail(in)) : Tail(in)[k] = captured - Len(Tail(in)) + k
    <3>1. TAKE k \in 1 .. Len(Tail(in))
    <3>2. k + 1 \in 1 .. Len(in)
      BY <1>1, <2>1, <2>2
    <3>3. in[k + 1] = captured - Len(in) + (k + 1)
      BY <1>1, <3>2 DEF InOrder
    <3>4. QED
      BY <1>1, <2>1, <2>2, <3>3
  <2>5. QED
    BY <1>1, <1>3, <2>1, <2>2, <2>3, <2>4 DEF InOrder
<1>4. ASSUME out' = Append(out, cur), cur # None
      PROVE  Len(out') = Len(out) + 1 /\ \A k \in DOMAIN out' : out'[k] = k
  <2>1. cur \in Images /\ cur = Len(out) + 1
    BY <1>4 DEF Types, InOrder
  <2>2. /\ out' \in Seq(Images) /\ Len(out') = Len(out) + 1 /\ DOMAIN out' = 1 .. Len(out) + 1
        /\ \A k \in 1 .. Len(out) : out'[k] = out[k]
        /\ out'[Len(out) + 1] = cur
    BY <1>1, <1>4, <2>1, AppendProperties, LenProperties
  <2>3. \A k \in 1 .. Len(out) : out[k] = k
    BY <1>1 DEF InOrder
  <2>4. QED
    BY <1>1, <2>1, <2>2, <2>3
<1>5. CASE TakeImage
  <2>1. /\ cur = None /\ in # <<>> /\ in' = Tail(in) /\ cur' = Head(in)
        /\ UNCHANGED <<captured, n, out>>
    BY <1>5 DEF TakeImage
  <2>2. Head(in) \in Images
    BY <1>1, <2>1, HeadTailProperties
  <2>3. cur' # None /\ cur' = Len(out) + 1
    BY <1>1, <1>3, <2>1, <2>2 DEF InOrder
  <2>4. QED
    BY <1>1, <1>3, <2>1, <2>3 DEF InOrder
<1>6. CASE SkipImage
  <2>1. /\ cur # None /\ in # <<>> /\ in' = Tail(in) /\ cur' = Head(in)
        /\ out' = Append(out, cur) /\ UNCHANGED <<captured, n>>
    BY <1>6 DEF SkipImage
  <2>2. Head(in) \in Images
    BY <1>1, <2>1, HeadTailProperties
  <2>3. cur' # None /\ cur' = Len(out') + 1
    BY <1>1, <1>3, <1>4, <2>1, <2>2 DEF InOrder
  <2>4. captured' = Len(out') + Len(in') + 1 /\ n' <= Len(out')
    BY <1>1, <1>3, <1>4, <2>1 DEF InOrder
  <2>5. /\ \A k \in DOMAIN out' : out'[k] = k
        /\ \A k \in DOMAIN in' : in'[k] = captured' - Len(in') + k
    BY <1>3, <1>4, <2>1
  <2>6. QED
    BY <2>3, <2>4, <2>5 DEF InOrder
<1>7. CASE SkipDone
  BY <1>7 DEF SkipDone, InOrder
<1>8. CASE SendPacket
  <2>1. cur # None /\ UNCHANGED <<captured, in>>
    BY <1>8 DEF SendPacket
  <2>2. CASE part = Blocks + 1
    <3>1. out' = Append(out, cur) /\ cur' = None /\ n' = NextN
      BY <1>8, <2>2 DEF SendPacket
    <3>2. n' <= Len(out')
      BY <1>1, <1>4, <2>1, <3>1 DEF InOrder, NextN
    <3>3. QED
      BY <1>1, <1>4, <2>1, <3>1, <3>2 DEF InOrder
  <2>3. CASE part # Blocks + 1
    <3>1. UNCHANGED <<out, cur, n>>
      BY <1>8, <2>3 DEF SendPacket
    <3>2. QED
      BY <2>1, <3>1 DEF InOrder
  <2>4. QED
    BY <2>2, <2>3
<1>9. CASE UNCHANGED sender
  BY <1>9 DEF sender, InOrder
<1>10. QED
  BY <1>2, <1>5, <1>6, <1>7, <1>8, <1>9
     DEF Next, SenderStep, Consumer, Receive, Lose, ReceiveHeader, ReceiveData, StartImage, Consume,
         Recycle, vars

\* What was passed on, is in the sender's hands or waits is what was captured.
LEMMA OrderPassedOn ==
    ASSUME Types, InOrder
    PROVE  PassedOn
<1> DEFINE c == IF cur = None THEN <<>> ELSE <<cur>>
           l == IF cur = None THEN 0 ELSE 1
<1>1. /\ in \in Seq(Images) /\ Len(in) \in Nat /\ DOMAIN in = 1 .. Len(in)
      /\ out \in Seq(Images) /\ Len(out) \in Nat /\ DOMAIN out = 1 .. Len(out)
      /\ captured \in Nat
  BY LenProperties DEF Types
<1>2. c \in Seq(Images) /\ Len(c) = l /\ l \in 0 .. 1 /\ (l = 1 => c[1] = Len(out) + 1)
  BY DEF Types, InOrder
<1>3. captured = Len(out) + l + Len(in)
  BY <1>1 DEF InOrder
<1> HIDE DEF c, l
<1>4. /\ out \o c \in Seq(Images) /\ Len(out \o c) = Len(out) + l
      /\ \A k \in 1 .. Len(out) + l : (out \o c)[k] = IF k <= Len(out) THEN out[k] ELSE c[k - Len(out)]
  BY <1>1, <1>2, ConcatProperties
<1>5. \A k \in 1 .. Len(out) + l : (out \o c)[k] = k
  <2>1. TAKE k \in 1 .. Len(out) + l
  <2>2. CASE k <= Len(out)
    BY <1>1, <1>2, <1>4, <2>2, SMTT(30) DEF InOrder
  <2>3. CASE k > Len(out)
    <3>1. l = 1 /\ k = Len(out) + 1 /\ k - Len(out) = 1
      BY <1>1, <1>2, <2>3
    <3>2. QED
      BY <1>1, <1>2, <1>4, <2>3, <3>1
  <2>4. k <= Len(out) \/ k > Len(out)
    BY <1>1, <1>2
  <2>5. QED
    BY <2>2, <2>3, <2>4
<1> DEFINE a == (out \o c) \o in
<1>6. /\ a \in Seq(Images) /\ Len(a) = captured
      /\ \A k \in 1 .. captured :
            a[k] = IF k <= Len(out) + l THEN (out \o c)[k] ELSE in[k - (Len(out) + l)]
  <2>1. /\ a \in Seq(Images) /\ Len(a) = Len(out \o c) + Len(in)
        /\ \A k \in 1 .. Len(out \o c) + Len(in) :
              a[k] = IF k <= Len(out \o c) THEN (out \o c)[k] ELSE in[k - Len(out \o c)]
    BY <1>1, <1>4, ConcatProperties
  <2> HIDE DEF a
  <2>2. QED
    BY <1>3, <1>4, <2>1
<1> HIDE DEF a
<1>7. \A k \in 1 .. captured : a[k] = k
  <2>1. TAKE k \in 1 .. captured
  <2>2. CASE k <= Len(out) + l
    BY <1>1, <1>2, <1>5, <1>6, <2>2
  <2>3. CASE k > Len(out) + l
    <3>1. k - (Len(out) + l) \in 1 .. Len(in)
      BY <1>1, <1>2, <1>3, <2>3
    <3>2. in[k - (Len(out) + l)] = captured - Len(in) + (k - (Len(out) + l))
      BY <1>1, <3>1 DEF InOrder
    <3>3. QED
      BY <1>1, <1>2, <1>3, <1>6, <2>3, <3>2
  <2>4. k <= Len(out) + l \/ k > Len(out) + l
    BY <1>1, <1>2
  <2>5. QED
    BY <2>2, <2>3, <2>4
<1>8. a \in [1 .. captured -> Images]
  BY <1>6, LenProperties
<1>9. a = [k \in 1 .. captured |-> k]
  BY <1>7, <1>8
<1>10. QED
  BY <1>9 DEF a, c, PassedOn

-----------------------------------------------------------------------------
(* The receiver's buffers.                                                 *)

\* Putting at the end.
LEMMA AppendOnce ==
    ASSUME NEW S, NEW s \in Seq(S), NEW e \in S
    PROVE  /\ ToSet(Append(s, e)) = ToSet(s) \cup {e}
           /\ IsInjective(s) /\ e \notin ToSet(s) => IsInjective(Append(s, e))
<1> DEFINE t == Append(s, e)
<1>1. DOMAIN s = 1 .. Len(s) /\ Len(s) \in Nat
  BY LenProperties
<1>2. t \in Seq(S) /\ Len(t) = Len(s) + 1 /\ (\A j \in 1 .. Len(s) : t[j] = s[j]) /\ t[Len(s) + 1] = e
  BY AppendProperties
<1>3. DOMAIN t = 1 .. Len(s) + 1
  BY <1>2, LenProperties
<1> HIDE DEF t
<1>4. ToSet(t) = ToSet(s) \cup {e}
  BY <1>1, <1>2, <1>3 DEF ToSet
<1>5. IsInjective(s) /\ e \notin ToSet(s) => IsInjective(t)
  BY <1>1, <1>2, <1>3 DEF ToSet, IsInjective
<1>6. QED
  BY <1>4, <1>5 DEF t

\* Taking from the front.
LEMMA TailOnce ==
    ASSUME NEW S, NEW s \in Seq(S), s # <<>>
    PROVE  /\ ToSet(s) = ToSet(Tail(s)) \cup {Head(s)}
           /\ IsInjective(s) => IsInjective(Tail(s)) /\ Head(s) \notin ToSet(Tail(s))
<1> DEFINE t == Tail(s)
<1>1. DOMAIN s = 1 .. Len(s) /\ Len(s) \in Nat /\ Len(s) >= 1 /\ Head(s) = s[1]
  BY LenProperties, EmptySeq
<1>2. t \in Seq(S) /\ Len(t) = Len(s) - 1 /\ \A j \in 1 .. Len(t) : t[j] = s[j + 1]
  BY HeadTailProperties
<1>3. DOMAIN t = 1 .. Len(s) - 1 /\ \A j \in 1 .. Len(s) - 1 : t[j] = s[j + 1]
  BY <1>2, LenProperties
<1> HIDE DEF t
<1>4. ToSet(s) = ToSet(t) \cup {s[1]}
  <2>1. ASSUME NEW x \in ToSet(s)
        PROVE  x \in ToSet(t) \cup {s[1]}
    <3>1. PICK k \in 1 .. Len(s) : x = s[k]
      BY <1>1 DEF ToSet
    <3>2. CASE k = 1
      BY <3>1, <3>2
    <3>3. CASE k # 1
      <4>1. k - 1 \in 1 .. Len(s) - 1 /\ (k - 1) + 1 = k
        BY <1>1, <3>3
      <4>2. t[k - 1] = x
        BY <1>3, <3>1, <4>1
      <4>3. QED
        BY <1>3, <4>1, <4>2 DEF ToSet
    <3>4. QED
      BY <3>2, <3>3
  <2>2. ASSUME NEW x \in ToSet(t)
        PROVE  x \in ToSet(s)
    <3>1. PICK k \in 1 .. Len(s) - 1 : x = s[k + 1]
      BY <1>3 DEF ToSet
    <3>2. k + 1 \in 1 .. Len(s)
      BY <1>1
    <3>3. QED
      BY <1>1, <3>1, <3>2 DEF ToSet
  <2>3. s[1] \in ToSet(s)
    BY <1>1 DEF ToSet
  <2>4. QED
    BY <2>1, <2>2, <2>3
<1>5. ASSUME IsInjective(s)
      PROVE  IsInjective(t) /\ s[1] \notin ToSet(t)
  <2>1. \A j, k \in 1 .. Len(s) : s[j] = s[k] => j = k
    BY <1>1, <1>5 DEF IsInjective
  <2>2. \A j \in 1 .. Len(s) - 1 : j + 1 \in 1 .. Len(s) /\ j + 1 # 1
    BY <1>1
  <2>3. \A j, k \in 1 .. Len(s) - 1 : t[j] = t[k] => j = k
    <3>1. TAKE j, k \in 1 .. Len(s) - 1
    <3>2. HAVE t[j] = t[k]
    <3>3. s[j + 1] = s[k + 1]
      BY <1>3, <3>2
    <3>4. j + 1 = k + 1
      BY <2>1, <2>2, <3>3
    <3>5. QED
      BY <1>1, <3>4
  <2>4. s[1] \notin ToSet(t)
    BY <1>1, <1>3, <2>1, <2>2 DEF ToSet
  <2>5. QED
    BY <1>3, <2>3, <2>4 DEF IsInjective
<1>6. QED
  BY <1>1, <1>4, <1>5 DEF t

\* Putting back to the front, as recycle() does.
LEMMA PrependOnce ==
    ASSUME NEW S, NEW s \in Seq(S), NEW e \in S
    PROVE  /\ ToSet(<<e>> \o s) = ToSet(s) \cup {e}
           /\ IsInjective(s) /\ e \notin ToSet(s) => IsInjective(<<e>> \o s)
<1> DEFINE t == <<e>> \o s
<1>1. DOMAIN s = 1 .. Len(s) /\ Len(s) \in Nat
  BY LenProperties
<1>2. t \in Seq(S) /\ Len(t) = Len(s) + 1 /\ t[1] = e /\ \A j \in 1 .. Len(s) : t[j + 1] = s[j]
  <2>1. <<e>> \in Seq(S) /\ Len(<<e>>) = 1 /\ <<e>>[1] = e
    OBVIOUS
  <2>2. /\ t \in Seq(S) /\ Len(t) = 1 + Len(s)
        /\ \A j \in 1 .. 1 + Len(s) : t[j] = IF j <= 1 THEN <<e>>[j] ELSE s[j - 1]
    BY <2>1, ConcatProperties
  <2> HIDE DEF t
  <2>3. \A j \in 1 .. Len(s) : j + 1 \in 1 .. 1 + Len(s) /\ ~(j + 1 <= 1) /\ (j + 1) - 1 = j
    BY <1>1
  <2>4. \A j \in 1 .. Len(s) : t[j + 1] = s[j]
    BY <2>2, <2>3
  <2>5. t[1] = e /\ Len(t) = Len(s) + 1
    BY <1>1, <2>1, <2>2
  <2>6. QED
    BY <2>2, <2>4, <2>5
<1>3. DOMAIN t = 1 .. Len(s) + 1
  BY <1>2, LenProperties
<1> HIDE DEF t
<1>4. \A k \in 1 .. Len(s) + 1 : k # 1 => \E j \in 1 .. Len(s) : k = j + 1 /\ t[k] = s[j]
  <2>1. TAKE k \in 1 .. Len(s) + 1
  <2>2. HAVE k # 1
  <2>3. k - 1 \in 1 .. Len(s) /\ (k - 1) + 1 = k
    BY <1>1, <2>2
  <2>4. QED
    BY <1>2, <2>3
<1>5. ToSet(t) = ToSet(s) \cup {e}
  <2>1. ToSet(t) \subseteq ToSet(s) \cup {e}
    BY <1>1, <1>2, <1>3, <1>4 DEF ToSet
  <2>2. \A j \in 1 .. Len(s) : j + 1 \in 1 .. Len(s) + 1 /\ t[j + 1] = s[j]
    BY <1>1, <1>2
  <2>3. ToSet(s) \cup {e} \subseteq ToSet(t)
    BY <1>1, <1>2, <1>3, <2>2 DEF ToSet
  <2>4. QED
    BY <2>1, <2>3
<1>6. ASSUME IsInjective(s), e \notin ToSet(s)
      PROVE  IsInjective(t)
  <2>1. \A k \in 1 .. Len(s) + 1 : k # 1 => t[k] \in ToSet(s)
    BY <1>1, <1>4 DEF ToSet
  <2>2. \A j, k \in 1 .. Len(s) + 1 : j # 1 /\ k # 1 /\ t[j] = t[k] => j = k
    BY <1>1, <1>4, <1>6 DEF IsInjective
  <2>3. QED
    BY <1>2, <1>3, <1>6, <2>1, <2>2 DEF IsInjective
<1>7. QED
  BY <1>5, <1>6 DEF t

\* Every step keeps each buffer in one place.
LEMMA InOnePlaceKept ==
    ASSUME Types, ReceiverInv, InOnePlace, [Next]_vars
    PROVE  InOnePlace'
<1> USE NetStreamAssumption
<1>1. pool \in Seq(Buffers) /\ Q \in Seq(Buffers) /\ ToSet(pool) \subseteq Buffers /\ ToSet(Q) \subseteq Buffers
  BY LenProperties, ElementOfSeq DEF Types, ToSet
<1>2. ASSUME i0 # None, Deliver, i0' = None, UNCHANGED <<pool, taken>>
      PROVE  InOnePlace'
  <2>1. i0 \in Buffers /\ Q' = Append(Q, i0) /\ i0 \notin ToSet(Q)
    BY <1>2 DEF Types, Deliver, InOnePlace
  <2>2. ToSet(Q') = ToSet(Q) \cup {i0} /\ IsInjective(Q')
    BY <1>1, <2>1, AppendOnce DEF InOnePlace
  <2>3. QED
    BY <1>2, <2>1, <2>2 DEF InOnePlace
<1>3. ASSUME UNCHANGED <<pool, Q, i0, taken>>
      PROVE  InOnePlace'
  BY <1>3 DEF InOnePlace
<1>4. ASSUME NEW i \in 1 .. MaxWire, NEW again \in BOOLEAN, ReceiveHeader(i, again)
      PROVE  InOnePlace'
  <2>1. UNCHANGED <<pool, taken>> /\ i0' = None
    BY <1>4 DEF ReceiveHeader
  <2>2. CASE i0 # None
    BY <1>2, <1>4, <2>1, <2>2 DEF ReceiveHeader
  <2>3. CASE i0 = None
    BY <1>3, <1>4, <2>1, <2>3 DEF ReceiveHeader
  <2>4. QED
    BY <2>2, <2>3
<1>5. ASSUME NEW i \in 1 .. MaxWire, NEW again \in BOOLEAN, ReceiveData(i, again)
      PROVE  InOnePlace'
  <2>1. UNCHANGED <<pool, taken>>
    BY <1>5 DEF ReceiveData
  <2>2. CASE wire[i].n = n0 /\ LastBlock(wire[i].b)
    <3>1. Deliver /\ i0' = None
      BY <1>5, <2>2 DEF ReceiveData
    <3>2. i0 # None
      <4>1. wire[i].n \in Ids /\ pending = None
        BY <1>5, PacketFacts DEF ReceiveData, Arrives
      <4>2. QED
        BY <2>2, <4>1 DEF Types, Ids, NoId
    <3>3. QED
      BY <1>2, <2>1, <3>1, <3>2
  <2>3. CASE ~(wire[i].n = n0 /\ LastBlock(wire[i].b))
    BY <1>3, <1>5, <2>1, <2>3 DEF ReceiveData
  <2>4. QED
    BY <2>2, <2>3
<1>6. CASE StartImage
  <2>1. pool # <<>> /\ i0' = Head(pool) /\ pool' = Tail(pool) /\ UNCHANGED <<Q, taken>> /\ i0 = None
    BY <1>6 DEF StartImage, ReceiverInv
  <2>2. /\ ToSet(pool) = ToSet(pool') \cup {i0'}
        /\ IsInjective(pool') /\ i0' \notin ToSet(pool')
    BY <1>1, <2>1, TailOnce DEF InOnePlace
  <2>3. i0' # None /\ i0' \notin ToSet(Q) /\ i0' # taken
    BY <1>1, <2>2 DEF InOnePlace
  <2>4. QED
    BY <2>1, <2>2, <2>3 DEF InOnePlace
<1>7. CASE Consume
  <2>1. Q # <<>> /\ taken' = Head(Q) /\ Q' = Tail(Q) /\ UNCHANGED <<pool, i0>> /\ taken = None
    BY <1>7 DEF Consume
  <2>2. /\ ToSet(Q) = ToSet(Q') \cup {taken'}
        /\ IsInjective(Q') /\ taken' \notin ToSet(Q')
    BY <1>1, <2>1, TailOnce DEF InOnePlace
  <2>3. taken' # None /\ taken' \notin ToSet(pool) /\ taken' # i0
    BY <1>1, <2>2 DEF InOnePlace
  <2>4. QED
    BY <2>1, <2>2, <2>3 DEF InOnePlace
<1>8. CASE Recycle
  <2>1. taken # None /\ pool' = <<taken>> \o pool /\ taken' = None /\ UNCHANGED <<Q, i0>>
    BY <1>8 DEF Recycle
  <2>2. taken \in Buffers /\ taken \notin ToSet(pool) /\ taken \notin ToSet(Q)
    BY <2>1 DEF InOnePlace, Types
  <2>3. ToSet(pool') = ToSet(pool) \cup {taken} /\ IsInjective(pool')
    BY <1>1, <2>1, <2>2, PrependOnce DEF InOnePlace
  <2>4. QED
    BY <2>1, <2>2, <2>3 DEF InOnePlace
<1>9. QED
  BY <1>3, <1>4, <1>5, <1>6, <1>7, <1>8
     DEF Next, SenderStep, Consumer, Receive, Capture, TakeImage, SkipImage, SkipDone, SendPacket,
         Lose, vars, sender, receiver

-----------------------------------------------------------------------------
(* The wire.                                                               *)

\* Taking a packet out keeps the order of the wire and its completeness.
LEMMA WireThinsKept ==
    ASSUME Types, WireInv, NEW i, Thins(i), UNCHANGED sender
    PROVE  WireInv'
<1> USE NetStreamAssumption
<1>1. /\ DOMAIN wire = 1 .. Len(wire) /\ Len(wire) \in Nat
      /\ \A j \in DOMAIN wire :
            wire[j].img \in Images /\ wire[j].b \in 0 .. Blocks /\ wire[j].n \in Ids
  BY PacketFacts
<1>2. \A j \in DOMAIN wire' :
         \E k \in DOMAIN wire : wire'[j] = wire[k] /\ (wire' = wire \/ k # i)
  BY WireThins
<1>3. \A j1, j2 \in DOMAIN wire' : j1 < j2 =>
         \E k1, k2 \in DOMAIN wire : k1 < k2 /\ wire'[j1] = wire[k1] /\ wire'[j2] = wire[k2]
  BY WireThins
<1>4. \A k \in DOMAIN wire : k # i => \E j \in DOMAIN wire' : wire'[j] = wire[k]
  BY WireThins
<1>6. \A j \in DOMAIN wire' :
          /\ Sent(wire'[j].img, wire'[j].b)
          /\ wire'[j].kind = "image" <=> wire'[j].b = 0
          /\ wire'[j].img = cur => wire'[j].n = n
  BY <1>2 DEF WireInv
<1>7. \A j, k \in DOMAIN wire' : j < k => Before(wire'[j], wire'[k])
  <2>1. TAKE j1, j2 \in DOMAIN wire'
  <2>2. HAVE j1 < j2
  <2>3. PICK k1, k2 \in DOMAIN wire : k1 < k2 /\ wire'[j1] = wire[k1] /\ wire'[j2] = wire[k2]
    BY <1>3, <2>2
  <2>4. QED
    BY <2>3 DEF WireInv
<1>8. \A j, k \in DOMAIN wire' : wire'[j].img = wire'[k].img => wire'[j].n = wire'[k].n
  BY <1>2 DEF WireInv
<1>9. ASSUME NEW j \in DOMAIN wire', wire'[j].img \notin hurt',
             NEW b \in wire'[j].b .. Blocks, Sent(wire'[j].img, b)
      PROVE  \E l \in DOMAIN wire' : wire'[l].img = wire'[j].img /\ wire'[l].b = b
  <2>1. PICK k \in DOMAIN wire : wire'[j] = wire[k] /\ (wire' = wire \/ k # i)
    BY <1>2
  <2>2. wire[k].img \notin hurt
    BY <1>9, <2>1 DEF Thins
  <2>3. PICK m \in DOMAIN wire : wire[m].img = wire[k].img /\ wire[m].b = b
    BY <1>9, <2>1, <2>2 DEF WireInv, OnWire
  <2>4. CASE m # i
    BY <1>4, <2>1, <2>3, <2>4
  <2>5. CASE m = i /\ wire' = wire
    BY <2>1, <2>3, <2>5
  <2>6. CASE m = i /\ wire' # wire
    <3>1. i = 1
      BY <1>9, <2>1, <2>3, <2>6 DEF Thins
    <3>2. k # 1 /\ 1 < k
      BY <1>1, <2>1, <2>6, <3>1
    <3>3. Before(wire[1], wire[k])
      BY <2>6, <3>1, <3>2 DEF WireInv
    <3>4. wire[1].b < wire[k].b
      BY <1>1, <2>3, <2>6, <3>1, <3>3 DEF Before, Images
    <3>5. QED
      BY <1>1, <1>9, <2>1, <2>3, <2>6, <3>1, <3>4
  <2>7. QED
    BY <2>4, <2>5, <2>6
<1>10. UNCHANGED <<cur, part, n, out>>
  BY DEF sender
<1>11. \A j \in DOMAIN wire' : wire'[j].img \notin hurt' =>
          \A b \in wire'[j].b .. Blocks : Sent(wire'[j].img, b) =>
             \E l \in DOMAIN wire' : wire'[l].img = wire'[j].img /\ wire'[l].b = b
  BY <1>9
<1>12. QED
  BY <1>6, <1>7, <1>8, <1>10, <1>11 DEF WireInv, Sent, OnWire

\* Packet b of image x has left the sender after the step.
SentNext(x, b) == x <= Len(out') \/ (cur' = x /\ b + 1 < part')

\* Passing an image on unsent, or taking one, makes no packet of the images in flight.
LEMMA NothingSent ==
    ASSUME Types, InOrder, TakeImage \/ SkipImage \/ SkipDone \/ Capture
    PROVE  /\ UNCHANGED <<n, wire, hurt, receiver, taken>>
           /\ \A x \in Images : \A b \in 0 .. Blocks : Sent(x, b) => SentNext(x, b)
           /\ \A x \in Images : Sent(x, 0) =>
                 /\ \A b \in 0 .. Blocks : SentNext(x, b) => Sent(x, b)
                 /\ cur' = x <=> cur = x
<1> USE NetStreamAssumption
<1>1. /\ Len(out) \in Nat /\ Len(in) \in Nat /\ captured \in Nat /\ part \in Nat /\ None \notin Images
  BY LenProperties DEF Types, Images
<1>2. CASE Capture \/ SkipDone
  BY <1>1, <1>2 DEF Capture, SkipDone, Sent, SentNext, Images, Types
<1>3. CASE TakeImage
  <2>1. cur = None /\ part = 0 /\ cur' = Head(in) /\ in # <<>> /\ UNCHANGED <<part, n, out, wire, hurt, receiver, taken>>
    BY <1>3 DEF TakeImage, Types
  <2>2. cur' = Len(out) + 1
    BY <1>3, InOrderKept, <2>1, HeadTailProperties DEF InOrder, Types, Next, SenderStep, Images
  <2>3. QED
    BY <1>1, <2>1, <2>2 DEF Sent, SentNext, Images
<1>4. CASE SkipImage
  <2>1. /\ cur # None /\ part = 0 /\ cur' = Head(in) /\ in # <<>> /\ out' = Append(out, cur)
        /\ UNCHANGED <<part, n, wire, hurt, receiver, taken>>
    BY <1>4 DEF SkipImage
  <2>2. Len(out') = Len(out) + 1
    BY <2>1, AppendProperties DEF Types
  <2>3. cur' = Len(out') + 1 /\ cur = Len(out) + 1
    BY <1>4, InOrderKept, <2>1, HeadTailProperties DEF InOrder, Types, Next, SenderStep, Images
  <2>4. QED
    BY <1>1, <2>1, <2>2, <2>3 DEF Sent, SentNext, Images
<1>5. QED
  BY <1>2, <1>3, <1>4

\* The packet that is sent is the next one of the image in the sender's hands.
LEMMA PacketSent ==
    ASSUME Types, InOrder, SendPacket
    PROVE  /\ cur \in Images /\ cur = Len(out) + 1 /\ part \in 1 .. Blocks + 1
           /\ cur' \in {cur, None} /\ (cur' = cur => n' = n)
           /\ UNCHANGED <<hurt, receiver, taken>>
           /\ wire' \in Seq(Packet) /\ DOMAIN wire' = 1 .. Len(wire) + 1
           /\ \A j \in 1 .. Len(wire) : wire'[j] = wire[j]
           /\ wire'[Len(wire) + 1] = [kind |-> IF part = 1 THEN "image" ELSE "data",
                                      n |-> n, img |-> cur, b |-> part - 1]
           /\ \A x \in Images, b \in 0 .. Blocks :
                 SentNext(x, b) <=> Sent(x, b) \/ (x = cur /\ b = part - 1)
<1> USE NetStreamAssumption
<1> DEFINE p == [kind |-> IF part = 1 THEN "image" ELSE "data", n |-> n, img |-> cur, b |-> part - 1]
<1>1. /\ Len(out) \in Nat /\ None \notin Images /\ wire \in Seq(Packet) /\ Len(wire) \in Nat
  BY LenProperties DEF Types, Images
<1>2. cur \in Images /\ cur = Len(out) + 1 /\ part \in 1 .. Blocks + 1
  BY DEF SendPacket, Types, InOrder
<1>3. wire' = Append(wire, p) /\ UNCHANGED <<hurt, receiver, taken>>
  BY DEF SendPacket
<1>4. p \in Packet
  BY <1>2 DEF Types, Packet
<1> HIDE DEF p
<1>5. /\ wire' \in Seq(Packet) /\ Len(wire') = Len(wire) + 1
      /\ \A j \in 1 .. Len(wire) : wire'[j] = wire[j]
      /\ wire'[Len(wire) + 1] = p
  BY <1>1, <1>3, <1>4, AppendProperties
<1>6. DOMAIN wire' = 1 .. Len(wire) + 1
  BY <1>5, LenProperties
<1>7. CASE part = Blocks + 1
  <2>1. out' = Append(out, cur) /\ cur' = None /\ part' = 0
    BY <1>7 DEF SendPacket
  <2>2. Len(out') = Len(out) + 1
    BY <1>2, <2>1, AppendProperties DEF Types
  <2>3. \A x \in Images, b \in 0 .. Blocks : SentNext(x, b) <=> Sent(x, b) \/ (x = cur /\ b = part - 1)
    BY <1>1, <1>2, <1>7, <2>1, <2>2 DEF Sent, SentNext, Images
  <2>4. QED
    BY <1>1, <1>2, <1>3, <1>5, <1>6, <2>1, <2>3 DEF p
<1>8. CASE part # Blocks + 1
  <2>1. UNCHANGED <<out, cur, n>> /\ part' = part + 1
    BY <1>8 DEF SendPacket
  <2>2. \A x \in Images, b \in 0 .. Blocks : SentNext(x, b) <=> Sent(x, b) \/ (x = cur /\ b = part - 1)
    BY <1>1, <1>2, <1>8, <2>1 DEF Sent, SentNext, Images
  <2>3. QED
    BY <1>2, <1>3, <1>5, <1>6, <2>1, <2>2 DEF p
<1>9. QED
  BY <1>7, <1>8

\* So does sending the next packet.
LEMMA WireSentKept ==
    ASSUME Types, InOrder, WireInv, SendPacket
    PROVE  WireInv'
<1> USE NetStreamAssumption
<1> DEFINE L == Len(wire)
<1>1. /\ DOMAIN wire = 1 .. L /\ L \in Nat /\ None \notin Images /\ Len(out) \in Nat
      /\ \A j \in 1 .. L : wire[j].img \in Images /\ wire[j].b \in 0 .. Blocks /\ wire[j].n \in Ids
  BY PacketFacts, LenProperties DEF Types, Images
<1>2. /\ cur \in Images /\ cur = Len(out) + 1 /\ part \in 1 .. Blocks + 1
      /\ cur' \in {cur, None} /\ (cur' = cur => n' = n) /\ hurt' = hurt
      /\ DOMAIN wire' = 1 .. L + 1
      /\ \A j \in 1 .. L : wire'[j] = wire[j]
  BY PacketSent
<1>3. /\ wire'[L + 1].kind = IF part = 1 THEN "image" ELSE "data"
      /\ wire'[L + 1].n = n /\ wire'[L + 1].img = cur /\ wire'[L + 1].b = part - 1
  BY PacketSent
<1>4. \A x \in Images, b \in 0 .. Blocks : SentNext(x, b) <=> Sent(x, b) \/ (x = cur /\ b = part - 1)
  BY PacketSent
<1> HIDE DEF L
<1>5. \A j \in 1 .. L : Before(wire[j], wire'[L + 1]) /\ (wire[j].img = cur => wire[j].n = n)
  <2>1. TAKE j \in 1 .. L
  <2>2. Sent(wire[j].img, wire[j].b) /\ (wire[j].img = cur => wire[j].n = n)
    BY <1>1 DEF WireInv
  <2>3. /\ wire[j].img \in Nat /\ wire[j].b \in Nat /\ part \in Nat
    BY <1>1, <1>2 DEF Images
  <2>4. Before(wire[j], wire'[L + 1])
    BY <1>1, <1>2, <1>3, <2>2, <2>3 DEF Sent, Before
  <2>5. QED
    BY <2>2, <2>4
<1>6. \A j \in DOMAIN wire' :
          /\ SentNext(wire'[j].img, wire'[j].b)
          /\ wire'[j].kind = "image" <=> wire'[j].b = 0
          /\ wire'[j].img = cur' => wire'[j].n = n'
  <2>1. \A j \in 1 .. L :
          /\ SentNext(wire[j].img, wire[j].b)
          /\ wire[j].kind = "image" <=> wire[j].b = 0
          /\ wire[j].img = cur' => wire[j].n = n'
    <3>1. TAKE j \in 1 .. L
    <3>2. Sent(wire[j].img, wire[j].b) /\ (wire[j].kind = "image" <=> wire[j].b = 0)
      BY <1>1 DEF WireInv
    <3>3. SentNext(wire[j].img, wire[j].b)
      BY <1>1, <1>4, <3>2
    <3>4. wire[j].img = cur' => wire[j].n = n'
      BY <1>1, <1>2, <1>5
    <3>5. QED
      BY <3>2, <3>3, <3>4
  <2>2. /\ SentNext(wire'[L + 1].img, wire'[L + 1].b)
        /\ wire'[L + 1].kind = "image" <=> wire'[L + 1].b = 0
        /\ wire'[L + 1].img = cur' => wire'[L + 1].n = n'
    BY <1>1, <1>2, <1>3, <1>4
  <2>3. \A j \in 1 .. L + 1 : j \in 1 .. L \/ j = L + 1
    BY <1>1
  <2>4. QED
    BY <1>2, <2>1, <2>2, <2>3
<1>7. \A j, k \in DOMAIN wire' : j < k => Before(wire'[j], wire'[k])
  <2>1. \A j, k \in 1 .. L : j < k => Before(wire'[j], wire'[k])
    BY <1>1, <1>2 DEF WireInv
  <2>2. \A j, k \in 1 .. L + 1 : j < k => j \in 1 .. L /\ (k \in 1 .. L \/ k = L + 1)
    BY <1>1
  <2>3. QED
    BY <1>2, <1>5, <2>1, <2>2
<1>8. \A j, k \in DOMAIN wire' : wire'[j].img = wire'[k].img => wire'[j].n = wire'[k].n
  <2>1. \A j, k \in 1 .. L : wire'[j].img = wire'[k].img => wire'[j].n = wire'[k].n
    BY <1>1, <1>2, SMTT(30) DEF WireInv
  <2>2. \A j \in 1 .. L + 1 : j \in 1 .. L \/ j = L + 1
    BY <1>1
  <2>3. QED
    BY <1>2, <1>3, <1>5, <2>1, <2>2
<1>9. ASSUME NEW j \in DOMAIN wire', wire'[j].img \notin hurt',
             NEW b \in wire'[j].b .. Blocks, SentNext(wire'[j].img, b)
      PROVE  \E l \in DOMAIN wire' : wire'[l].img = wire'[j].img /\ wire'[l].b = b
  <2>1. wire'[j].img \in Images /\ wire'[j].b \in 0 .. Blocks /\ L + 1 \in DOMAIN wire'
    BY <1>1, <1>2, <1>3, <1>9
  <2>2. Sent(wire'[j].img, b) \/ (wire'[j].img = cur /\ b = part - 1)
    BY <1>4, <1>9, <2>1
  <2>3. CASE wire'[j].img = cur /\ b = part - 1
    BY <1>3, <2>1, <2>3
  <2>4. CASE Sent(wire'[j].img, b) /\ j \in 1 .. L
    <3>1. wire'[j] = wire[j] /\ j \in DOMAIN wire
      BY <1>1, <1>2, <2>4
    <3>2. OnWire(wire[j].img, b)
      BY <1>2, <1>9, <2>4, <3>1 DEF WireInv
    <3>3. PICK l \in 1 .. L : wire[l].img = wire[j].img /\ wire[l].b = b
      BY <1>1, <3>2 DEF OnWire
    <3>4. l \in DOMAIN wire' /\ wire'[l] = wire[l]
      BY <1>1, <1>2
    <3>5. QED
      BY <3>1, <3>3, <3>4
  <2>5. CASE Sent(wire'[j].img, b) /\ j = L + 1
    BY <1>1, <1>2, <1>3, <1>9, <2>5 DEF Sent
  <2>6. QED
    BY <1>1, <1>2, <1>9, <2>2, <2>3, <2>4, <2>5
<1>10. \A j \in DOMAIN wire' : wire'[j].img \notin hurt' =>
          \A b \in wire'[j].b .. Blocks : SentNext(wire'[j].img, b) =>
             \E l \in DOMAIN wire' : wire'[l].img = wire'[j].img /\ wire'[l].b = b
  BY <1>9
<1>11. QED
  BY <1>6, <1>7, <1>8, <1>10 DEF WireInv, Sent, SentNext, OnWire

\* And so does every step.
LEMMA WireKept ==
    ASSUME Types, InOrder, WireInv, [Next]_vars
    PROVE  WireInv'
<1>1. CASE TakeImage \/ SkipImage \/ SkipDone \/ Capture
  <2>1. /\ UNCHANGED <<n, wire, hurt>>
        /\ \A x \in Images : \A b \in 0 .. Blocks : Sent(x, b) => SentNext(x, b)
        /\ \A x \in Images : Sent(x, 0) =>
              /\ \A b \in 0 .. Blocks : SentNext(x, b) => Sent(x, b)
              /\ cur' = x <=> cur = x
    BY <1>1, NothingSent
  <2>2. \A j \in DOMAIN wire : wire[j].img \in Images /\ wire[j].b \in 0 .. Blocks
    BY PacketFacts
  <2>3. \A j \in DOMAIN wire : Sent(wire[j].img, 0)
    <3>1. ASSUME NEW j \in DOMAIN wire
          PROVE  Sent(wire[j].img, 0)
      <4>1. Sent(wire[j].img, wire[j].b) /\ wire[j].b \in Nat /\ part \in Nat
        BY <2>2, NetStreamAssumption DEF WireInv, Types
      <4>2. QED
        BY <4>1 DEF Sent
    <3>2. QED
      BY <3>1
  <2>4. \A j \in DOMAIN wire :
          /\ SentNext(wire[j].img, wire[j].b)
          /\ wire[j].img = cur' => wire[j].n = n'
    BY <2>1, <2>2, <2>3 DEF WireInv
  <2>5. \A j \in DOMAIN wire : wire[j].img \notin hurt =>
          \A b \in wire[j].b .. Blocks : SentNext(wire[j].img, b) => OnWire(wire[j].img, b)
    <3>1. \A j \in DOMAIN wire : \A b \in wire[j].b .. Blocks : b \in 0 .. Blocks
      BY <2>2, NetStreamAssumption
    <3>2. QED
      BY <2>1, <2>2, <2>3, <3>1 DEF WireInv
  <2>6. QED
    BY <2>1, <2>4, <2>5 DEF WireInv, Sent, SentNext, OnWire
<1>2. CASE SendPacket
  BY <1>2, WireSentKept
<1>3. CASE Lose
  <2>1. UNCHANGED sender
    BY <1>3 DEF Lose
  <2>2. QED
    BY <1>3, <2>1, LossThins, WireThinsKept
<1>4. ASSUME NEW i \in 1 .. MaxWire, NEW again \in BOOLEAN,
             ReceiveHeader(i, again) \/ ReceiveData(i, again)
      PROVE  WireInv'
  <2>1. Arrives(i, again) /\ UNCHANGED sender
    BY <1>4 DEF ReceiveHeader, ReceiveData
  <2>2. QED
    BY <2>1, ArrivalThins, WireThinsKept
<1>5. CASE UNCHANGED <<sender, wire, hurt>>
  BY <1>5 DEF sender, WireInv, Sent, OnWire
<1>6. QED
  BY <1>1, <1>2, <1>3, <1>4, <1>5
     DEF Next, SenderStep, Consumer, Receive, StartImage, Consume, Recycle, vars

-----------------------------------------------------------------------------
(* The image that is received.                                             *)

\* What must stay true of the image that is received, when the receiver does nothing.
LEMMA ReceiverWaits ==
    ASSUME Types, ReceiverInv, UNCHANGED <<n0, i0, pending, head, data>>, hurt \subseteq hurt',
           n0 # NoId =>
              /\ \A b \in 0 .. Blocks : Sent(Incoming, b) => SentNext(Incoming, b)
              /\ cur' = Incoming => n0 = n'
              /\ \A j \in DOMAIN wire' : wire'[j].img = Incoming => wire'[j].n = n0
              /\ Incoming \notin hurt' =>
                    \A g \in 0 .. Blocks - 1 : ReceivedTo(g) =>
                       /\ \A j \in DOMAIN wire' :
                             wire'[j].img >= Incoming /\ (wire'[j].img = Incoming => wire'[j].b > g)
                       /\ \A b \in g + 1 .. Blocks : SentNext(Incoming, b) =>
                             \E l \in DOMAIN wire' : wire'[l].img = Incoming /\ wire'[l].b = b
    PROVE  ReceiverInv'
<1> USE NetStreamAssumption
<1>1. CASE n0 = NoId
  BY <1>1 DEF ReceiverInv
<1>2. CASE n0 # NoId
  <2>1. Sent(Incoming, 0) /\ SentNext(Incoming, 0)
    BY <1>2 DEF ReceiverInv
  <2>2. (IF pending' # None THEN pending' ELSE head'[i0']) = Incoming
    BY DEF Incoming
  <2>3. ASSUME Incoming \notin hurt'
        PROVE  \E g \in 0 .. Blocks - 1 :
                  /\ IF pending' # None THEN g = 0
                     ELSE \A k \in 1 .. Blocks : data'[i0'][k] = IF k <= g THEN Incoming ELSE None
                  /\ \A j \in DOMAIN wire' :
                        wire'[j].img >= Incoming /\ (wire'[j].img = Incoming => wire'[j].b > g)
                  /\ SentNext(Incoming, g)
                  /\ \A b \in g + 1 .. Blocks : SentNext(Incoming, b) =>
                        \E l \in DOMAIN wire' : wire'[l].img = Incoming /\ wire'[l].b = b
    <3>1. PICK g \in 0 .. Blocks - 1 : ReceivedTo(g)
      BY <1>2, <2>3 DEF ReceiverInv
    <3>2. g \in 0 .. Blocks
      OBVIOUS
    <3>3. SentNext(Incoming, g)
      BY <1>2, <3>1, <3>2 DEF ReceivedTo
    <3>4. IF pending' # None THEN g = 0
          ELSE \A k \in 1 .. Blocks : data'[i0'][k] = IF k <= g THEN Incoming ELSE None
      BY <3>1 DEF ReceivedTo
    <3>5. /\ \A j \in DOMAIN wire' :
                wire'[j].img >= Incoming /\ (wire'[j].img = Incoming => wire'[j].b > g)
          /\ \A b \in g + 1 .. Blocks : SentNext(Incoming, b) =>
                \E l \in DOMAIN wire' : wire'[l].img = Incoming /\ wire'[l].b = b
      BY <1>2, <2>3, <3>1
    <3>6. QED
      BY <3>3, <3>4, <3>5
  <2> DEFINE x == IF pending' # None THEN pending' ELSE head'[i0']
  <2>4. /\ SentNext(x, 0)
        /\ cur' = x => n0' = n'
        /\ \A j \in DOMAIN wire' : wire'[j].img = x => wire'[j].n = n0'
        /\ x \notin hurt' => \E g \in 0 .. Blocks - 1 :
              /\ IF pending' # None THEN g = 0
                 ELSE \A k \in 1 .. Blocks : data'[i0'][k] = IF k <= g THEN x ELSE None
              /\ \A j \in DOMAIN wire' : wire'[j].img >= x /\ (wire'[j].img = x => wire'[j].b > g)
              /\ SentNext(x, g)
              /\ \A b \in g + 1 .. Blocks : SentNext(x, b) =>
                    \E l \in DOMAIN wire' : wire'[l].img = x /\ wire'[l].b = b
    BY <1>2, <2>1, <2>2, <2>3
  <2>5. (pending = None \/ i0 = None)' /\ (i0 # None => head[i0] # None)'
    BY DEF ReceiverInv
  <2>6. QED
    BY <2>4, <2>5 DEF ReceiverInv, ReceivedTo, Incoming, Sent, SentNext, OnWire
<1>3. QED
  BY <1>1, <1>2

\* A packet that does not belong to the undisturbed image that is received, or a header,
\* overtakes some packet of it.
LEMMA Overtaken ==
    ASSUME Types, InOrder, WireInv, ReceiverInv, n0 # NoId, NEW i \in DOMAIN wire,
           wire[i].img # Incoming \/ wire[i].b = 0, Incoming \notin hurt
    PROVE  i > 1 /\ \E k \in 1 .. i : wire[k].img = Incoming
<1> USE NetStreamAssumption
<1>1. /\ DOMAIN wire = 1 .. Len(wire) /\ Len(wire) \in Nat /\ Len(out) \in Nat
      /\ wire[i].img \in Nat /\ wire[i].b \in Nat /\ Incoming \in Nat
  BY PacketFacts, LenProperties, IncomingImage, SMTT(30) DEF Types, Images
<1>2. PICK g \in 0 .. Blocks - 1 : ReceivedTo(g)
  BY DEF ReceiverInv
<1>3. wire[i].img > Incoming
  BY <1>1, <1>2 DEF ReceivedTo
<1>4. Incoming <= Len(out)
  <2>1. wire[i].img <= Len(out) \/ (wire[i].img = cur /\ cur = Len(out) + 1)
    BY <1>1 DEF WireInv, Sent, InOrder, Types, Images
  <2>2. QED
    BY <1>1, <1>3, <2>1
<1>5. OnWire(Incoming, g + 1)
  BY <1>2, <1>4 DEF ReceivedTo, Sent
<1>6. PICK k \in DOMAIN wire : wire[k].img = Incoming
  BY <1>5 DEF OnWire
<1>7. ~(i < k) /\ k # i
  <2>1. i < k => Before(wire[i], wire[k])
    BY DEF WireInv
  <2>2. QED
    BY <1>1, <1>3, <1>6, <2>1 DEF Before
<1>8. k \in 1 .. i /\ i > 1
  BY <1>1, <1>7
<1>9. QED
  BY <1>6, <1>8

\* So a header that comes finds the image in i0 hurt, or nothing in i0.
LEMMA HeaderHurts ==
    ASSUME Types, InOrder, WireInv, ReceiverInv, NEW i, NEW again \in BOOLEAN, Arrives(i, again),
           n0 # NoId, wire[i].img # Incoming \/ wire[i].b = 0
    PROVE  Incoming \in hurt'
<1>1. i \in DOMAIN wire /\ hurt \subseteq hurt' /\ (i > 1 => \A j \in 1 .. i : wire[j].img \in hurt')
  BY ArrivalThins DEF Thins
<1>2. QED
  BY <1>1, Overtaken

\* The next packet of an undisturbed image is its next block, and comes out first.
LEMMA NextBlock ==
    ASSUME Types, InOrder, WireInv, ReceiverInv, NEW i, NEW again \in BOOLEAN, Arrives(i, again),
           n0 # NoId, wire[i].b # 0, Incoming \notin hurt',
           NEW g \in 0 .. Blocks - 1, ReceivedTo(g)
    PROVE  /\ i = 1 /\ wire' = RemoveAt(wire, 1) /\ Thins(1)
           /\ wire[1].img = Incoming /\ wire[1].b = g + 1
<1> USE NetStreamAssumption
<1>1. Thins(i) /\ i \in DOMAIN wire /\ (i > 1 => \A j \in 1 .. i : wire[j].img \in hurt')
  BY ArrivalThins DEF Thins
<1>2. wire[i].img = Incoming
  BY HeaderHurts
<1>3. i = 1 /\ wire' = RemoveAt(wire, 1)
  BY <1>1, <1>2 DEF Thins
<1>4. /\ DOMAIN wire = 1 .. Len(wire) /\ Len(wire) \in Nat /\ Len(out) \in Nat
      /\ wire[1].b \in 0 .. Blocks /\ Incoming \in Nat /\ part \in Nat
  BY <1>1, <1>3, PacketFacts, LenProperties, IncomingImage DEF Types, Images
<1>5. wire[1].b > g
  BY <1>1, <1>2, <1>3 DEF ReceivedTo
<1>6. ~(wire[1].b > g + 1)
  <2>1. SUFFICES ASSUME wire[1].b > g + 1 PROVE FALSE
    OBVIOUS
  <2>2. Sent(Incoming, wire[1].b)
    BY <1>1, <1>2, <1>3 DEF WireInv
  <2>3. Sent(Incoming, g + 1)
    BY <1>4, <2>1, <2>2 DEF Sent
  <2>4. OnWire(Incoming, g + 1)
    BY <2>3 DEF ReceivedTo
  <2>5. PICK k \in DOMAIN wire : wire[k].img = Incoming /\ wire[k].b = g + 1
    BY <2>4 DEF OnWire
  <2>6. k # 1 /\ 1 < k
    BY <1>4, <2>1, <2>5
  <2>7. Before(wire[1], wire[k])
    BY <1>1, <1>3, <2>6 DEF WireInv
  <2>8. QED
    BY <1>2, <1>3, <1>4, <2>1, <2>5, <2>7 DEF Before
<1>7. QED
  BY <1>1, <1>2, <1>3, <1>4, <1>5, <1>6

\* The sender's steps and the network's.
LEMMA SenderLeavesReceiver ==
    ASSUME Types, InOrder, WireInv, ReceiverInv,
           TakeImage \/ SkipImage \/ SkipDone \/ Capture \/ SendPacket
    PROVE  ReceiverInv'
<1> USE NetStreamAssumption
<1>1. CASE TakeImage \/ SkipImage \/ SkipDone \/ Capture
  <2>1. /\ UNCHANGED <<n, wire, hurt, n0, i0, pending, head, data>>
        /\ \A x \in Images : \A b \in 0 .. Blocks : Sent(x, b) => SentNext(x, b)
        /\ \A x \in Images : Sent(x, 0) =>
              /\ \A b \in 0 .. Blocks : SentNext(x, b) => Sent(x, b)
              /\ cur' = x <=> cur = x
    BY <1>1, NothingSent DEF receiver
  <2>2. ASSUME n0 # NoId
        PROVE  /\ \A b \in 0 .. Blocks : Sent(Incoming, b) => SentNext(Incoming, b)
               /\ cur' = Incoming => n0 = n'
               /\ \A j \in DOMAIN wire' : wire'[j].img = Incoming => wire'[j].n = n0
    BY <2>1, <2>2, IncomingImage DEF ReceiverInv
  <2>3. ASSUME n0 # NoId, Incoming \notin hurt', NEW g \in 0 .. Blocks - 1, ReceivedTo(g)
        PROVE  /\ \A j \in DOMAIN wire' :
                     wire'[j].img >= Incoming /\ (wire'[j].img = Incoming => wire'[j].b > g)
               /\ \A b \in g + 1 .. Blocks : SentNext(Incoming, b) =>
                     \E l \in DOMAIN wire' : wire'[l].img = Incoming /\ wire'[l].b = b
    <3>1. \A b \in g + 1 .. Blocks : b \in 0 .. Blocks
      OBVIOUS
    <3>2. \A b \in g + 1 .. Blocks : SentNext(Incoming, b) => Sent(Incoming, b)
      BY <2>1, <2>3, <3>1, IncomingImage DEF ReceiverInv
    <3>3. QED
      BY <2>1, <2>3, <3>2 DEF ReceivedTo, OnWire
  <2>4. QED
    BY <2>1, <2>2, <2>3, ReceiverWaits
<1>2. CASE SendPacket
  <2> DEFINE L == Len(wire)
  <2>1. /\ cur \in Images /\ cur = Len(out) + 1 /\ part \in 1 .. Blocks + 1
        /\ cur' \in {cur, None} /\ (cur' = cur => n' = n)
        /\ UNCHANGED <<hurt, receiver, taken>>
        /\ DOMAIN wire' = 1 .. L + 1
        /\ \A j \in 1 .. L : wire'[j] = wire[j]
    BY <1>2, PacketSent
  <2>2. wire'[L + 1].n = n /\ wire'[L + 1].img = cur /\ wire'[L + 1].b = part - 1
    BY <1>2, PacketSent
  <2>3. \A x \in Images, b \in 0 .. Blocks : SentNext(x, b) <=> Sent(x, b) \/ (x = cur /\ b = part - 1)
    BY <1>2, PacketSent
  <2>4. /\ DOMAIN wire = 1 .. L /\ L \in Nat /\ Len(out) \in Nat /\ None \notin Images
    BY PacketFacts, LenProperties DEF Types, Images
  <2> HIDE DEF L
  <2>5. \A j \in DOMAIN wire' : j \in 1 .. L \/ j = L + 1
    BY <2>1, <2>4
  <2>6. UNCHANGED <<n0, i0, pending, head, data, hurt>>
    BY <2>1 DEF receiver
  <2>7. ASSUME n0 # NoId
        PROVE  /\ \A b \in 0 .. Blocks : Sent(Incoming, b) => SentNext(Incoming, b)
               /\ cur' = Incoming => n0 = n'
               /\ \A j \in DOMAIN wire' : wire'[j].img = Incoming => wire'[j].n = n0
    <3>1. Incoming \in Images /\ (cur = Incoming => n0 = n)
      BY <2>7, IncomingImage DEF ReceiverInv
    <3>2. \A j \in 1 .. L : wire[j].img = Incoming => wire[j].n = n0
      BY <2>4, <2>7 DEF ReceiverInv
    <3>3. \A j \in DOMAIN wire' : wire'[j].img = Incoming => wire'[j].n = n0
      BY <2>1, <2>2, <2>5, <3>1, <3>2
    <3>4. QED
      BY <2>1, <2>3, <2>4, <3>1, <3>3
  <2>8. ASSUME n0 # NoId, Incoming \notin hurt', NEW g \in 0 .. Blocks - 1, ReceivedTo(g)
        PROVE  /\ \A j \in DOMAIN wire' :
                     wire'[j].img >= Incoming /\ (wire'[j].img = Incoming => wire'[j].b > g)
               /\ \A b \in g + 1 .. Blocks : SentNext(Incoming, b) =>
                     \E l \in DOMAIN wire' : wire'[l].img = Incoming /\ wire'[l].b = b
    <3>1. Incoming \in Images /\ Sent(Incoming, g)
      BY <2>8, IncomingImage DEF ReceivedTo
    <3>2. cur >= Incoming /\ (cur = Incoming => part - 1 > g)
      BY <2>1, <2>4, <3>1 DEF Sent, Images
    <3>3. \A j \in 1 .. L : wire[j].img >= Incoming /\ (wire[j].img = Incoming => wire[j].b > g)
      BY <2>4, <2>8 DEF ReceivedTo
    <3>4. \A j \in DOMAIN wire' :
             wire'[j].img >= Incoming /\ (wire'[j].img = Incoming => wire'[j].b > g)
      BY <2>1, <2>2, <2>5, <3>2, <3>3
    <3>5. ASSUME NEW b \in g + 1 .. Blocks, SentNext(Incoming, b)
          PROVE  \E l \in DOMAIN wire' : wire'[l].img = Incoming /\ wire'[l].b = b
      <4>1. b \in 0 .. Blocks /\ L + 1 \in DOMAIN wire'
        BY <2>1, <2>4
      <4>2. Sent(Incoming, b) \/ (Incoming = cur /\ b = part - 1)
        BY <2>3, <3>1, <3>5, <4>1
      <4>3. CASE Sent(Incoming, b)
        <5>1. PICK l \in 1 .. L : wire[l].img = Incoming /\ wire[l].b = b
          BY <2>4, <2>8, <4>3 DEF ReceivedTo, OnWire
        <5>2. l \in DOMAIN wire' /\ wire'[l] = wire[l]
          BY <2>1, <2>4
        <5>3. QED
          BY <5>1, <5>2
      <4>4. CASE Incoming = cur /\ b = part - 1
        BY <2>2, <4>1, <4>4
      <4>5. QED
        BY <4>2, <4>3, <4>4
    <3>6. QED
      BY <3>4, <3>5
  <2>9. QED
    BY <2>6, <2>7, <2>8, ReceiverWaits
<1>3. QED
  BY <1>1, <1>2

\* A packet that is taken out without effect was not one of an undisturbed image.
LEMMA ThinningLeavesReceiver ==
    ASSUME Types, InOrder, WireInv, ReceiverInv, NEW i, Thins(i),
           UNCHANGED <<sender, n0, i0, pending, head, data>>,
           n0 # NoId /\ wire[i].img = Incoming => Incoming \in hurt'
    PROVE  ReceiverInv'
<1> USE NetStreamAssumption
<1>1. /\ hurt \subseteq hurt' /\ UNCHANGED <<n0, i0, pending, head, data>>
      /\ UNCHANGED <<cur, part, n, out>>
  BY DEF Thins, sender
<1>2. \A j \in DOMAIN wire' : \E k \in DOMAIN wire : wire'[j] = wire[k]
  BY WireThins
<1>3. \A k \in DOMAIN wire : k # i => \E j \in DOMAIN wire' : wire'[j] = wire[k]
  BY WireThins
<1>4. \A x, b : SentNext(x, b) <=> Sent(x, b)
  BY <1>1 DEF Sent, SentNext
<1>5. ASSUME n0 # NoId
      PROVE  /\ cur' = Incoming => n0 = n'
             /\ \A j \in DOMAIN wire' : wire'[j].img = Incoming => wire'[j].n = n0
  BY <1>1, <1>2, <1>5 DEF ReceiverInv
<1>6. ASSUME n0 # NoId, Incoming \notin hurt', NEW g \in 0 .. Blocks - 1, ReceivedTo(g)
      PROVE  /\ \A j \in DOMAIN wire' :
                   wire'[j].img >= Incoming /\ (wire'[j].img = Incoming => wire'[j].b > g)
             /\ \A b \in g + 1 .. Blocks : SentNext(Incoming, b) =>
                   \E l \in DOMAIN wire' : wire'[l].img = Incoming /\ wire'[l].b = b
  <2>1. \A j \in DOMAIN wire' :
           wire'[j].img >= Incoming /\ (wire'[j].img = Incoming => wire'[j].b > g)
    BY <1>2, <1>6 DEF ReceivedTo
  <2>2. ASSUME NEW b \in g + 1 .. Blocks, SentNext(Incoming, b)
        PROVE  \E l \in DOMAIN wire' : wire'[l].img = Incoming /\ wire'[l].b = b
    <3>1. PICK k \in DOMAIN wire : wire[k].img = Incoming /\ wire[k].b = b
      BY <1>4, <1>6, <2>2 DEF ReceivedTo, OnWire
    <3>2. k # i
      BY <1>6, <3>1
    <3>3. QED
      BY <1>3, <3>1, <3>2
  <2>3. QED
    BY <2>1, <2>2
<1>7. QED
  BY <1>1, <1>4, <1>5, <1>6, ReceiverWaits

\* When the first packet is gone, the ones behind it are left.
LEMMA FirstGone ==
    ASSUME Types, WireInv, 1 \in DOMAIN wire, wire' = RemoveAt(wire, 1)
    PROVE  /\ \A j \in DOMAIN wire' :
                 \E k \in DOMAIN wire : wire'[j] = wire[k] /\ Before(wire[1], wire[k])
           /\ \A k \in DOMAIN wire : k # 1 => \E j \in DOMAIN wire' : wire'[j] = wire[k]
<1>1. wire \in Seq(Packet) /\ DOMAIN wire = 1 .. Len(wire) /\ Len(wire) \in Nat /\ 1 \in 1 .. Len(wire)
  BY PacketFacts DEF Types
<1>2. /\ DOMAIN RemoveAt(wire, 1) = 1 .. Len(wire) - 1
      /\ \A j \in 1 .. Len(wire) - 1 :
            \E k \in 1 .. Len(wire) \ {1} : RemoveAt(wire, 1)[j] = wire[k]
      /\ \A k \in 1 .. Len(wire) \ {1} : \E j \in 1 .. Len(wire) - 1 : RemoveAt(wire, 1)[j] = wire[k]
  <2>1. /\ DOMAIN RemoveAt(wire, 1) = 1 .. Len(wire) - 1
        /\ \A j \in 1 .. Len(wire) - 1 :
              \E k \in 1 .. Len(wire) \ {1} :
                 RemoveAt(wire, 1)[j] = wire[k] /\ k = IF j < 1 THEN j ELSE j + 1
    BY <1>1, RemoveAtElements
  <2>2. \A k \in 1 .. Len(wire) \ {1} : \E j \in 1 .. Len(wire) - 1 : RemoveAt(wire, 1)[j] = wire[k]
    BY <1>1, RemoveAtElements
  <2>3. QED
    BY <2>1, <2>2
<1>3. \A k \in 1 .. Len(wire) \ {1} : 1 < k
  BY <1>1
<1>4. \A k \in 1 .. Len(wire) \ {1} : Before(wire[1], wire[k])
  BY <1>1, <1>3 DEF WireInv
<1>5. QED
  BY <1>1, <1>2, <1>4

\* After a header all blocks of its image are still to come.
LEMMA HeaderStarts ==
    ASSUME Types, InOrder, WireInv, ReceiverInv,
           NEW i \in 1 .. MaxWire, NEW again \in BOOLEAN, ReceiveHeader(i, again)
    PROVE  ReceiverInv'
<1> USE NetStreamAssumption
<1> DEFINE x == wire[i].img
<1>1. /\ Thins(i) /\ i \in DOMAIN wire
  BY ArrivalThins DEF ReceiveHeader, Thins
<1>2. /\ x \in Images /\ wire[i].b = 0 /\ None \notin Images
  BY <1>1, PacketFacts DEF ReceiveHeader, WireInv, Images
<1>3. /\ n0' = wire[i].n /\ pending' = x /\ i0' = None
      /\ UNCHANGED <<cur, part, n, out>>
  BY DEF ReceiveHeader, sender
<1>4. \A j \in DOMAIN wire' : \E k \in DOMAIN wire : wire'[j] = wire[k]
  BY <1>1, WireThins
<1>5. SentNext(x, 0) /\ (cur' = x => n0' = n')
  BY <1>1, <1>2, <1>3 DEF WireInv, Sent, SentNext
<1>6. \A j \in DOMAIN wire' : wire'[j].img = x => wire'[j].n = n0'
  BY <1>1, <1>3, <1>4 DEF WireInv
<1>7. ASSUME x \notin hurt'
      PROVE  /\ \A j \in DOMAIN wire' : wire'[j].img >= x /\ (wire'[j].img = x => wire'[j].b > 0)
             /\ \A b \in 0 + 1 .. Blocks : SentNext(x, b) =>
                   \E l \in DOMAIN wire' : wire'[l].img = x /\ wire'[l].b = b
  <2>1. i = 1 /\ wire' = RemoveAt(wire, 1) /\ 1 \in DOMAIN wire /\ x \notin hurt
    BY <1>1, <1>7 DEF Thins
  <2>2. /\ \A j \in DOMAIN wire' :
              \E k \in DOMAIN wire : wire'[j] = wire[k] /\ Before(wire[1], wire[k])
        /\ \A k \in DOMAIN wire : k # 1 => \E j \in DOMAIN wire' : wire'[j] = wire[k]
    BY <2>1, FirstGone
  <2>3. \A k \in DOMAIN wire : wire[k].img \in Nat /\ wire[k].b \in Nat
    BY PacketFacts DEF Images
  <2>4. \A j \in DOMAIN wire' : wire'[j].img >= x /\ (wire'[j].img = x => wire'[j].b > 0)
    BY <1>2, <2>1, <2>2, <2>3 DEF Before
  <2>5. ASSUME NEW b \in 1 .. Blocks, SentNext(x, b)
        PROVE  \E l \in DOMAIN wire' : wire'[l].img = x /\ wire'[l].b = b
    <3>1. Sent(x, b) /\ b \in wire[1].b .. Blocks
      BY <1>2, <1>3, <2>1, <2>5 DEF Sent, SentNext
    <3>2. OnWire(x, b)
      BY <2>1, <3>1 DEF WireInv
    <3>3. PICK k \in DOMAIN wire : wire[k].img = x /\ wire[k].b = b
      BY <3>2 DEF OnWire
    <3>4. k # 1
      BY <1>2, <2>1, <3>3
    <3>5. QED
      BY <2>2, <3>3, <3>4
  <2>6. QED
    BY <2>4, <2>5
<1> HIDE DEF x
<1>8. pending' # None
  BY <1>2, <1>3
<1>9. SentNext(pending', 0) /\ (cur' = pending' => n0' = n')
  BY <1>3, <1>5
<1>10. \A j \in DOMAIN wire' : wire'[j].img = pending' => wire'[j].n = n0'
  BY <1>3, <1>6
<1>11. pending' \notin hurt' =>
          /\ \A j \in DOMAIN wire' :
                wire'[j].img >= pending' /\ (wire'[j].img = pending' => wire'[j].b > 0)
          /\ SentNext(pending', 0)
          /\ \A b \in 0 + 1 .. Blocks : SentNext(pending', b) =>
                \E l \in DOMAIN wire' : wire'[l].img = pending' /\ wire'[l].b = b
  BY <1>3, <1>5, <1>7
<1>12. 0 \in 0 .. Blocks - 1
  OBVIOUS
<1>13. pending' \notin hurt' => ReceivedTo(0)'
  BY <1>8, <1>11 DEF ReceivedTo, Incoming, Sent, SentNext, OnWire
<1>14. (Incoming = pending)'
  BY <1>8 DEF Incoming
<1>15. QED
  BY <1>3, <1>8, <1>9, <1>10, <1>12, <1>13, <1>14 DEF ReceiverInv, Sent, SentNext

\* A block that is accepted goes to i0, and is the next one if its image is undisturbed.
LEMMA BlockFills ==
    ASSUME Types, InOrder, WireInv, ReceiverInv,
           NEW i \in 1 .. MaxWire, NEW again \in BOOLEAN, ReceiveData(i, again),
           wire[i].n = n0
    PROVE  /\ n0 # NoId /\ pending = None /\ i0 \in Buffers /\ i0 # None /\ Incoming = head[i0]
           /\ Incoming \in Images /\ wire[i].b \in 1 .. Blocks /\ wire[i].img \in Images
           /\ data' = [data EXCEPT ![i0][wire[i].b] = wire[i].img]
           /\ head' = head /\ hurt \subseteq hurt'
           /\ Incoming \notin hurt' =>
                 \E g \in 0 .. Blocks - 1 :
                    /\ wire' = RemoveAt(wire, 1) /\ 1 \in DOMAIN wire /\ ReceivedTo(g)
                    /\ wire[1].img = Incoming /\ wire[1].b = g + 1 /\ i = 1
                    /\ \A k \in 1 .. Blocks : data'[i0][k] = IF k <= g + 1 THEN Incoming ELSE None
<1> USE NetStreamAssumption
<1>1. Thins(i) /\ i \in DOMAIN wire /\ Arrives(i, again) /\ pending = None /\ head' = head
  BY ArrivalThins DEF ReceiveData, Thins
<1>2. wire[i].n \in Ids /\ wire[i].img \in Images /\ wire[i].b \in 1 .. Blocks
  <2>1. wire[i].kind # "image" /\ wire[i].b \in 0 .. Blocks /\ wire[i].n \in Ids /\ wire[i].img \in Images
    BY <1>1, PacketFacts DEF ReceiveData
  <2>2. QED
    BY <1>1, <2>1 DEF WireInv
<1>3. n0 # NoId /\ i0 # None
  BY <1>1, <1>2 DEF Types, Ids, NoId
<1>4. i0 \in Buffers /\ Incoming = head[i0] /\ Incoming \in Images
  BY <1>1, <1>3, IncomingImage DEF Types, Incoming
<1>5. data' = [data EXCEPT ![i0][wire[i].b] = wire[i].img]
  BY DEF ReceiveData
<1>6. ASSUME Incoming \notin hurt'
      PROVE  \E g \in 0 .. Blocks - 1 :
                /\ wire' = RemoveAt(wire, 1) /\ 1 \in DOMAIN wire /\ ReceivedTo(g)
                /\ wire[1].img = Incoming /\ wire[1].b = g + 1 /\ i = 1
                /\ \A k \in 1 .. Blocks : data'[i0][k] = IF k <= g + 1 THEN Incoming ELSE None
  <2>1. Incoming \notin hurt
    BY <1>1, <1>6 DEF Thins
  <2>2. PICK g \in 0 .. Blocks - 1 : ReceivedTo(g)
    BY <1>3, <2>1 DEF ReceiverInv
  <2>3. i = 1 /\ wire' = RemoveAt(wire, 1) /\ wire[1].img = Incoming /\ wire[1].b = g + 1
    BY <1>1, <1>2, <1>3, <1>6, <2>2, NextBlock
  <2>4. \A k \in 1 .. Blocks : data[i0][k] = IF k <= g THEN Incoming ELSE None
    BY <1>1, <2>2 DEF ReceivedTo
  <2>5. \A k \in 1 .. Blocks : data'[i0][k] = IF k = g + 1 THEN Incoming ELSE data[i0][k]
    BY <1>4, <1>5, <2>3 DEF Types
  <2>6. \A k \in 1 .. Blocks : data'[i0][k] = IF k <= g + 1 THEN Incoming ELSE None
    BY <2>4, <2>5
  <2>7. QED
    BY <1>1, <2>2, <2>3, <2>6
<1>7. hurt \subseteq hurt'
  BY <1>1 DEF Thins
<1>8. QED
  BY <1>1, <1>2, <1>3, <1>4, <1>5, <1>6, <1>7

\* A block is received, ignored, or ends its image.
LEMMA DataReceived ==
    ASSUME Types, InOrder, WireInv, ReceiverInv,
           NEW i \in 1 .. MaxWire, NEW again \in BOOLEAN, ReceiveData(i, again)
    PROVE  ReceiverInv'
<1> USE NetStreamAssumption
<1>1. /\ Thins(i) /\ i \in DOMAIN wire /\ Arrives(i, again)
      /\ pending = None /\ UNCHANGED <<sender, pending, head>>
  BY ArrivalThins DEF ReceiveData, Thins
<1>2. CASE wire[i].n # n0
  <2>1. UNCHANGED <<n0, i0, data>>
    BY <1>2 DEF ReceiveData
  <2>2. n0 # NoId => wire[i].img # Incoming
    BY <1>1, <1>2 DEF ReceiverInv
  <2>3. QED
    BY <1>1, <2>1, <2>2, ThinningLeavesReceiver
<1>3. CASE wire[i].n = n0 /\ LastBlock(wire[i].b)
  <2>1. i0' = None /\ n0' = NoId
    BY <1>3 DEF ReceiveData
  <2>2. QED
    BY <2>1 DEF ReceiverInv
<1>4. CASE wire[i].n = n0 /\ ~LastBlock(wire[i].b)
  <2>1. UNCHANGED <<n0, i0>>
    BY <1>4 DEF ReceiveData
  <2>2. /\ n0 # NoId /\ i0 # None /\ Incoming = head[i0] /\ Incoming \in Images
        /\ wire[i].b \in 1 .. Blocks
    BY <1>4, BlockFills
  <2>3. \A j \in DOMAIN wire' : \E k \in DOMAIN wire : wire'[j] = wire[k]
    BY <1>1, WireThins
  <2>4. UNCHANGED <<cur, part, n, out>>
    BY <1>1 DEF sender
  <2>5. SentNext(Incoming, 0) /\ (cur' = Incoming => n0' = n')
    BY <2>1, <2>2, <2>4 DEF ReceiverInv, Sent, SentNext
  <2>6. \A j \in DOMAIN wire' : wire'[j].img = Incoming => wire'[j].n = n0'
    BY <2>1, <2>2, <2>3 DEF ReceiverInv
  <2>7. ASSUME Incoming \notin hurt'
        PROVE  \E g \in 0 .. Blocks - 1 :
                  /\ \A k \in 1 .. Blocks : data'[i0][k] = IF k <= g THEN Incoming ELSE None
                  /\ \A j \in DOMAIN wire' :
                        wire'[j].img >= Incoming /\ (wire'[j].img = Incoming => wire'[j].b > g)
                  /\ SentNext(Incoming, g)
                  /\ \A b \in g + 1 .. Blocks : SentNext(Incoming, b) =>
                        \E l \in DOMAIN wire' : wire'[l].img = Incoming /\ wire'[l].b = b
    <3>1. PICK f \in 0 .. Blocks - 1 :
             /\ wire' = RemoveAt(wire, 1) /\ 1 \in DOMAIN wire /\ ReceivedTo(f)
             /\ wire[1].img = Incoming /\ wire[1].b = f + 1 /\ i = 1
             /\ \A k \in 1 .. Blocks : data'[i0][k] = IF k <= f + 1 THEN Incoming ELSE None
      BY <1>4, <2>7, BlockFills
    <3>2. f + 1 \in 0 .. Blocks - 1
      BY <1>4, <2>2, <3>1 DEF LastBlock
    <3>3. /\ \A j \in DOMAIN wire' :
                \E k \in DOMAIN wire : wire'[j] = wire[k] /\ Before(wire[1], wire[k])
          /\ \A k \in DOMAIN wire : k # 1 => \E j \in DOMAIN wire' : wire'[j] = wire[k]
      BY <3>1, FirstGone
    <3>4. \A k \in DOMAIN wire : wire[k].img \in Nat /\ wire[k].b \in Nat
      BY PacketFacts DEF Images
    <3>5. \A j \in DOMAIN wire' :
             wire'[j].img >= Incoming /\ (wire'[j].img = Incoming => wire'[j].b > f + 1)
      BY <2>2, <3>1, <3>3, <3>4 DEF Before, Images
    <3>6. SentNext(Incoming, f + 1)
      BY <2>4, <3>1 DEF WireInv, Sent, SentNext
    <3>7. ASSUME NEW b \in (f + 1) + 1 .. Blocks, SentNext(Incoming, b)
          PROVE  \E l \in DOMAIN wire' : wire'[l].img = Incoming /\ wire'[l].b = b
      <4>1. b \in f + 1 .. Blocks /\ b # f + 1 /\ Sent(Incoming, b)
        BY <2>4, <3>2, <3>7 DEF Sent, SentNext
      <4>2. PICK k \in DOMAIN wire : wire[k].img = Incoming /\ wire[k].b = b
        BY <3>1, <4>1 DEF ReceivedTo, OnWire
      <4>3. k # 1
        BY <3>1, <4>1, <4>2
      <4>4. QED
        BY <3>3, <4>2, <4>3
    <3>8. QED
      BY <3>1, <3>2, <3>5, <3>6, <3>7
  <2>8. pending' = None /\ head'[i0'] = Incoming /\ i0' = i0 /\ head'[i0'] # None
    BY <1>1, <2>1, <2>2 DEF Images
  <2> DEFINE x == head'[i0']
  <2>9. /\ SentNext(x, 0)
        /\ cur' = x => n0' = n'
        /\ \A j \in DOMAIN wire' : wire'[j].img = x => wire'[j].n = n0'
        /\ x \notin hurt' => \E g \in 0 .. Blocks - 1 :
              /\ \A k \in 1 .. Blocks : data'[i0'][k] = IF k <= g THEN x ELSE None
              /\ \A j \in DOMAIN wire' : wire'[j].img >= x /\ (wire'[j].img = x => wire'[j].b > g)
              /\ SentNext(x, g)
              /\ \A b \in g + 1 .. Blocks : SentNext(x, b) =>
                    \E l \in DOMAIN wire' : wire'[l].img = x /\ wire'[l].b = b
    BY <2>5, <2>6, <2>7, <2>8
  <2>10. QED
    BY <2>8, <2>9 DEF ReceiverInv, ReceivedTo, Incoming, Sent, SentNext, OnWire
<1>5. QED
  BY <1>2, <1>3, <1>4

\* Every step keeps what is known of the image that is received.
LEMMA ReceiverKept ==
    ASSUME Types, InOrder, WireInv, ReceiverInv, [Next]_vars
    PROVE  ReceiverInv'
<1> USE NetStreamAssumption
<1>1. CASE TakeImage \/ SkipImage \/ SkipDone \/ Capture \/ SendPacket
  BY <1>1, SenderLeavesReceiver
<1>2. CASE Lose
  <2>1. UNCHANGED <<sender, n0, i0, pending, head, data>>
    BY <1>2 DEF Lose, receiver
  <2>2. QED
    BY <1>2, <2>1, LossThins, ThinningLeavesReceiver
<1>3. CASE Receive
  BY <1>3, HeaderStarts, DataReceived DEF Receive
<1>4. CASE StartImage
  <2>1. Head(pool) \in Buffers
    BY <1>4, HeadTailProperties DEF StartImage, Types
  <2>2. /\ pending # None /\ pending \in Images /\ i0' = Head(pool) /\ pending' = None
        /\ head' = [head EXCEPT ![Head(pool)] = pending]
        /\ data' = [data EXCEPT ![Head(pool)] = [k \in 1 .. Blocks |-> None]]
        /\ UNCHANGED <<cur, part, n, out, wire, n0, hurt>>
    BY <1>4 DEF StartImage, Types, sender
  <2>3. /\ head'[i0'] = pending /\ \A k \in 1 .. Blocks : data'[i0'][k] = None
    BY <2>1, <2>2 DEF Types
  <2>4. n0 # NoId /\ Incoming = pending
    BY <2>2 DEF Types, Incoming
  <2>5. /\ Sent(pending, 0)
        /\ cur = pending => n0 = n
        /\ \A j \in DOMAIN wire : wire[j].img = pending => wire[j].n = n0
        /\ pending \notin hurt => ReceivedTo(0)
    BY <2>2, <2>4 DEF ReceiverInv, ReceivedTo
  <2>6. pending \notin hurt => ReceivedTo(0)'
    <3>1. \A k \in 1 .. Blocks : data'[i0'][k] = IF k <= 0 THEN pending ELSE None
      BY <2>3
    <3>2. pending \notin hurt =>
             /\ \A j \in DOMAIN wire : wire[j].img >= pending /\ (wire[j].img = pending => wire[j].b > 0)
             /\ Sent(pending, 0)
             /\ \A b \in 0 + 1 .. Blocks : Sent(pending, b) => OnWire(pending, b)
      BY <2>4, <2>5 DEF ReceivedTo
    <3>3. QED
      BY <2>2, <2>3, <3>1, <3>2 DEF ReceivedTo, Incoming, Sent, OnWire
  <2>7. 0 \in 0 .. Blocks - 1
    OBVIOUS
  <2>8. /\ (pending = None \/ i0 = None)' /\ (i0 # None => head[i0] # None)'
    BY <2>2, <2>3
  <2>9. Incoming' = pending
    BY <2>2, <2>3 DEF Incoming
  <2>10. QED
    BY <2>2, <2>5, <2>6, <2>7, <2>8, <2>9 DEF ReceiverInv, Sent
<1>5. CASE UNCHANGED <<sender, wire, n0, i0, pending, head, data, hurt>>
  BY <1>5 DEF sender, ReceiverInv, ReceivedTo, Incoming, Sent, OnWire
<1>6. QED
  BY <1>1, <1>2, <1>3, <1>4, <1>5
     DEF Next, SenderStep, Consumer, Consume, Recycle, vars, receiver

-----------------------------------------------------------------------------
(* What is delivered is whole.                                             *)

\* The image in a buffer is complete, or the network hurt it.
Whole(b) == head[b] \in hurt \/ \A k \in 1 .. Blocks : data[b][k] = head[b]
WholeNext(b) == head'[b] \in hurt' \/ \A k \in 1 .. Blocks : data'[b][k] = head'[b]

\* What was delivered stays whole when only other buffers are filled.
LEMMA WholeStays ==
    ASSUME Types, WholeUnlessHurt, hurt \subseteq hurt',
           \A b \in ToSet(Q) : head'[b] = head[b] /\ data'[b] = data[b],
           Q' \in Seq(Buffers), \A b \in ToSet(Q') : b \in ToSet(Q) \/ WholeNext(b)
    PROVE  WholeUnlessHurt'
<1>1. \A b \in ToSet(Q) : Whole(b)
  BY LenProperties DEF Types, WholeUnlessHurt, Whole, ToSet
<1>2. \A b \in ToSet(Q') : WholeNext(b)
  BY <1>1 DEF Whole, WholeNext
<1>3. \A j \in DOMAIN Q' : Q'[j] \in ToSet(Q')
  BY DEF ToSet
<1>4. \A j \in DOMAIN Q' : WholeNext(Q'[j])
  BY <1>2, <1>3
<1>5. QED
  BY <1>4 DEF WholeUnlessHurt, WholeNext

\* Every step leaves what is delivered whole.
LEMMA WholeKept ==
    ASSUME Types, InOrder, WireInv, ReceiverInv, InOnePlace, WholeUnlessHurt, [Next]_vars
    PROVE  WholeUnlessHurt'
<1> USE NetStreamAssumption
<1>1. Q \in Seq(Buffers) /\ ToSet(Q) \subseteq Buffers
  BY LenProperties, ElementOfSeq DEF Types, ToSet
<1>2. CASE Lose
  <2>1. hurt \subseteq hurt' /\ UNCHANGED <<Q, head, data>>
    BY <1>2 DEF Lose, receiver
  <2>2. QED
    BY <1>1, <2>1, WholeStays
<1>3. ASSUME NEW i \in 1 .. MaxWire, NEW again \in BOOLEAN, ReceiveHeader(i, again)
      PROVE  WholeUnlessHurt'
  <2>1. /\ Thins(i) /\ i \in DOMAIN wire /\ Arrives(i, again) /\ hurt \subseteq hurt'
        /\ pending = None /\ UNCHANGED <<head, data>>
    BY <1>3, ArrivalThins DEF ReceiveHeader, Thins
  <2>2. CASE i0 = None
    BY <1>1, <1>3, <2>1, <2>2, WholeStays DEF ReceiveHeader
  <2>3. CASE i0 # None
    <3>1. Q' = Append(Q, i0) /\ i0 \in Buffers /\ n0 # NoId /\ Incoming = head[i0]
      BY <1>3, <2>1, <2>3 DEF ReceiveHeader, Deliver, Types, Incoming
    <3>2. Q' \in Seq(Buffers) /\ ToSet(Q') = ToSet(Q) \cup {i0}
      BY <1>1, <3>1, AppendOnce, AppendProperties
    <3>3. wire[i].b = 0
      BY <1>3, <2>1 DEF ReceiveHeader, WireInv
    <3>4. WholeNext(i0)
      BY <2>1, <3>1, <3>3, HeaderHurts DEF WholeNext
    <3>5. QED
      BY <2>1, <3>2, <3>4, WholeStays
  <2>4. QED
    BY <2>2, <2>3
<1>4. ASSUME NEW i \in 1 .. MaxWire, NEW again \in BOOLEAN, ReceiveData(i, again)
      PROVE  WholeUnlessHurt'
  <2>1. Thins(i) /\ hurt \subseteq hurt' /\ head' = head
    BY <1>4, ArrivalThins DEF ReceiveData, Thins
  <2>2. CASE wire[i].n # n0
    BY <1>1, <1>4, <2>1, <2>2, WholeStays DEF ReceiveData
  <2>3. CASE wire[i].n = n0
    <3>1. /\ i0 \in Buffers /\ i0 # None /\ Incoming = head[i0] /\ wire[i].b \in 1 .. Blocks
          /\ data' = [data EXCEPT ![i0][wire[i].b] = wire[i].img]
      BY <1>4, <2>3, BlockFills
    <3>2. i0 \notin ToSet(Q)
      BY DEF InOnePlace
    <3>3. \A b \in ToSet(Q) : head'[b] = head[b] /\ data'[b] = data[b]
      BY <1>1, <2>1, <3>1, <3>2 DEF Types
    <3>4. CASE ~LastBlock(wire[i].b)
      <4>1. Q' = Q
        BY <1>4, <2>3, <3>4 DEF ReceiveData
      <4>2. QED
        BY <1>1, <2>1, <3>3, <4>1, WholeStays
    <3>5. CASE LastBlock(wire[i].b)
      <4>1. Q' = Append(Q, i0)
        BY <1>4, <2>3, <3>5 DEF ReceiveData, Deliver
      <4>2. Q' \in Seq(Buffers) /\ ToSet(Q') = ToSet(Q) \cup {i0}
        BY <1>1, <3>1, <4>1, AppendOnce, AppendProperties
      <4>3. ASSUME Incoming \notin hurt'
            PROVE  \A k \in 1 .. Blocks : data'[i0][k] = Incoming
        <5>1. PICK g \in 0 .. Blocks - 1 :
                 /\ wire[1].b = g + 1 /\ i = 1
                 /\ \A k \in 1 .. Blocks : data'[i0][k] = IF k <= g + 1 THEN Incoming ELSE None
          BY <1>4, <2>3, <4>3, BlockFills
        <5>2. g + 1 = Blocks
          BY <3>5, <5>1 DEF LastBlock
        <5>3. QED
          BY <5>1, <5>2
      <4>4. WholeNext(i0)
        BY <2>1, <3>1, <4>3 DEF WholeNext
      <4>5. QED
        BY <2>1, <3>3, <4>2, <4>4, WholeStays
    <3>6. QED
      BY <3>4, <3>5
  <2>4. QED
    BY <2>2, <2>3
<1>5. CASE StartImage
  <2>1. Head(pool) \in Buffers /\ Head(pool) \in ToSet(pool)
    BY <1>5, HeadTailProperties, TailOnce DEF StartImage, Types
  <2>2. Head(pool) \notin ToSet(Q)
    BY <2>1 DEF InOnePlace
  <2>3. \A b \in ToSet(Q) : head'[b] = head[b] /\ data'[b] = data[b]
    BY <1>1, <1>5, <2>2 DEF StartImage, Types
  <2>4. UNCHANGED <<Q, hurt>>
    BY <1>5 DEF StartImage
  <2>5. QED
    BY <1>1, <2>3, <2>4, WholeStays
<1>6. CASE Consume
  <2>1. Q # <<>> /\ Q' = Tail(Q) /\ UNCHANGED <<head, data, hurt>>
    BY <1>6 DEF Consume
  <2>2. Q' \in Seq(Buffers) /\ ToSet(Q') \subseteq ToSet(Q)
    BY <1>1, <2>1, HeadTailProperties, TailOnce
  <2>3. QED
    BY <2>1, <2>2, WholeStays
<1>7. CASE UNCHANGED <<Q, head, data, hurt>>
  BY <1>7 DEF WholeUnlessHurt
<1>8. QED
  BY <1>2, <1>3, <1>4, <1>5, <1>6, <1>7
     DEF Next, SenderStep, Consumer, Receive, Capture, TakeImage, SkipImage, SkipDone, SendPacket,
         Recycle, vars, receiver

-----------------------------------------------------------------------------
(* The invariant.                                                          *)

\* The listener's three buffers are in the pool when it starts.
LEMMA PoolOfAll ==
    /\ SetToSeq(Buffers) \in Seq(Buffers)
    /\ IsInjective(SetToSeq(Buffers)) /\ ToSet(SetToSeq(Buffers)) = Buffers
<1> DEFINE N == Cardinality(Buffers)
           s == SetToSeq(Buffers)
<1>1. N \in Nat /\ ExistsBijection(1 .. N, Buffers)
  BY FS_CardinalityType, NetStreamAssumption
<1>2. PICK f : f \in Bijection(1 .. N, Buffers)
  BY <1>1 DEF ExistsBijection
<1>3. f \in [1 .. N -> Buffers] /\ IsInjective(f)
  BY <1>2 DEF Bijection, Injection
<1>4. s \in [1 .. N -> Buffers] /\ IsInjective(s)
  BY <1>3 DEF SetToSeq
<1>5. s \in Injection(1 .. N, Buffers)
  BY <1>4 DEF Injection
<1>6. Cardinality(1 .. N) = N /\ IsFiniteSet(1 .. N)
  BY <1>1, FS_Interval
<1>7. s \in Surjection(1 .. N, Buffers)
  BY <1>5, <1>6, FS_Injection, NetStreamAssumption
<1> HIDE DEF s, N
<1>8. s \in Seq(Buffers) /\ DOMAIN s = 1 .. N
  BY <1>1, <1>4
<1>9. ToSet(s) = Buffers
  BY <1>4, <1>7, <1>8 DEF ToSet, Surjection
<1>10. QED
  BY <1>4, <1>8, <1>9 DEF s

\* The invariant holds when the threads start.
LEMMA InitInv ==
    ASSUME Init
    PROVE  Inv
<1> USE NetStreamAssumption
<1>1. pool \in Seq(Buffers) /\ IsInjective(pool) /\ ToSet(pool) = Buffers
  BY PoolOfAll DEF Init
<1>2. Types
  BY <1>1 DEF Init, Types, Ids, NoId, Images
<1>3. InOrder
  BY <1>2 DEF Init, InOrder
<1>4. InOnePlace
  BY <1>1 DEF Init, InOnePlace, ToSet, IsInjective
<1>5. WireInv /\ WholeUnlessHurt
  BY DEF Init, WireInv, WholeUnlessHurt
<1>6. ReceiverInv
  BY DEF Init, ReceiverInv
<1>7. QED
  BY <1>2, <1>3, <1>4, <1>5, <1>6, OrderPassedOn DEF Inv, TypeOK

\* Every step keeps the invariant.
LEMMA StepInv ==
    ASSUME Inv, [Next]_vars
    PROVE  Inv'
<1>1. Types /\ InOnePlace /\ InOrder /\ WireInv /\ ReceiverInv /\ WholeUnlessHurt
  BY DEF Inv, TypeOK
<1>2. Types' /\ InOrder'
  BY <1>1, TypesKept, InOrderKept
<1>3. InOnePlace'
  BY <1>1, InOnePlaceKept
<1>4. WireInv'
  BY <1>1, WireKept
<1>5. ReceiverInv'
  BY <1>1, ReceiverKept
<1>6. WholeUnlessHurt'
  BY <1>1, WholeKept
<1>7. PassedOn'
  BY <1>2, OrderPassedOn, PTL
<1>8. QED
  BY <1>2, <1>3, <1>4, <1>5, <1>6, <1>7 DEF Inv, TypeOK

\* The inductive invariant of the transfer of images.
THEOREM Invariance == Spec => []Inv
BY InitInv, StepInv, PTL DEF Spec

\* The sender passes every image on, once and in order (pluginStream.cpp, "In all cases,
\* all the images are eventually sent to the output port"), and each of the receiver's
\* buffers is in one place, whatever the network does to the packets.
THEOREM TypeCorrect == Spec => []TypeOK
<1>1. Inv => TypeOK
  BY DEF Inv
<1>2. QED
  BY <1>1, Invariance, PTL

\* An image that the network left alone arrives with all its blocks: b+bobo.size==dsz
\* may end it without counting them.
THEOREM Complete == Spec => []WholeUnlessHurt
<1>1. Inv => WholeUnlessHurt
  BY DEF Inv
<1>2. QED
  BY <1>1, Invariance, PTL

-----------------------------------------------------------------------------
(* Images are not mixed, when the sender counts.                           *)

\* Every step keeps numbers distinct, when the sender counts.
LEMMA DistinctKept ==
    ASSUME Counts, Types, InOrder, WireInv, ReceiverInv, DistinctNumbers, [Next]_vars
    PROVE  DistinctNumbers'
<1> USE NetStreamAssumption
<1>1. /\ n \in Nat /\ n # NoId /\ DOMAIN wire = 1 .. Len(wire) /\ Len(wire) \in Nat /\ None \notin Images
      /\ \A j \in DOMAIN wire : wire[j].img \in Images /\ wire[j].n \in Nat
  BY PacketFacts DEF Types, Ids, NoId, Images
<1>2. ASSUME NEW i, Thins(i), UNCHANGED <<n, cur, n0, i0, pending, head>>
      PROVE  DistinctNumbers'
  <2>1. \A j \in DOMAIN wire' : \E k \in DOMAIN wire : wire'[j] = wire[k]
    BY <1>2, WireThins
  <2>2. Incoming' = Incoming
    BY <1>2 DEF Incoming
  <2>3. /\ \A j \in DOMAIN wire' : wire'[j].n <= n /\ (wire'[j].n = n => wire'[j].img = cur)
        /\ \A j, k \in DOMAIN wire' : wire'[j].n = wire'[k].n => wire'[j].img = wire'[k].img
        /\ n0 # NoId => \A j \in DOMAIN wire' : wire'[j].n = n0 => wire'[j].img = Incoming
    BY <2>1 DEF DistinctNumbers
  <2>4. QED
    BY <1>2, <2>2, <2>3 DEF DistinctNumbers
<1>3. CASE TakeImage \/ SkipImage \/ SkipDone \/ Capture
  <2>1. /\ UNCHANGED <<n, wire, n0, i0, pending, head>>
        /\ \A x \in Images : Sent(x, 0) => (cur' = x <=> cur = x)
    BY <1>3, NothingSent DEF receiver
  <2>2. Incoming' = Incoming
    BY <2>1 DEF Incoming
  <2>3. \A j \in DOMAIN wire : Sent(wire[j].img, 0)
    <3>1. ASSUME NEW j \in DOMAIN wire
          PROVE  Sent(wire[j].img, 0)
      <4>1. Sent(wire[j].img, wire[j].b) /\ wire[j].b \in Nat /\ part \in Nat
        BY PacketFacts DEF WireInv, Types
      <4>2. QED
        BY <4>1 DEF Sent
    <3>2. QED
      BY <3>1
  <2>4. \A j \in DOMAIN wire : wire[j].n <= n /\ (wire[j].n = n => wire[j].img = cur')
    BY <1>1, <2>1, <2>3 DEF DistinctNumbers
  <2>5. n0 # NoId => (n0 = n => cur' = Incoming)
    BY <2>1, IncomingImage DEF DistinctNumbers, ReceiverInv
  <2>6. QED
    BY <2>1, <2>2, <2>4, <2>5 DEF DistinctNumbers
<1>4. CASE SendPacket
  <2> DEFINE L == Len(wire)
  <2>1. /\ cur \in Images /\ UNCHANGED <<n0, i0, pending, head>>
        /\ DOMAIN wire' = 1 .. L + 1
        /\ \A j \in 1 .. L : wire'[j] = wire[j]
        /\ wire'[L + 1].n = n /\ wire'[L + 1].img = cur
    BY <1>4, PacketSent DEF receiver
  <2>2. (n' = n + 1) \/ (n' = n /\ cur' = cur)
    BY <1>4 DEF SendPacket, NextN
  <2>3. Incoming' = Incoming
    BY <2>1 DEF Incoming
  <2>4. L \in Nat /\ DOMAIN wire = 1 .. L
    BY <1>1
  <2> HIDE DEF L
  <2>5. \A j \in DOMAIN wire' : j \in 1 .. L \/ j = L + 1
    BY <2>1, <2>4
  <2>6. \A j \in DOMAIN wire' : wire'[j].n \in Nat /\ wire'[j].n <= n /\ (wire'[j].n = n => wire'[j].img = cur)
    BY <1>1, <2>1, <2>4, <2>5 DEF DistinctNumbers
  <2>7. \A j \in DOMAIN wire' : wire'[j].n <= n' /\ (wire'[j].n = n' => wire'[j].img = cur')
    BY <1>1, <2>2, <2>6
  <2>8. \A j, k \in DOMAIN wire' : wire'[j].n = wire'[k].n => wire'[j].img = wire'[k].img
    <3>1. \A j, k \in 1 .. L : wire'[j].n = wire'[k].n => wire'[j].img = wire'[k].img
      BY <2>1, <2>4 DEF DistinctNumbers
    <3>2. \A j \in 1 .. L : wire'[j].n = n => wire'[j].img = cur
      BY <2>1, <2>4 DEF DistinctNumbers
    <3>3. QED
      BY <2>1, <2>5, <3>1, <3>2
  <2>9. ASSUME n0 # NoId
        PROVE  /\ n0 <= n' /\ (n0 = n' => cur' = Incoming)
               /\ \A j \in DOMAIN wire' : wire'[j].n = n0 => wire'[j].img = Incoming
    <3>1. n0 \in Nat /\ n0 <= n /\ (n0 = n => cur = Incoming)
      BY <2>9 DEF DistinctNumbers, Types, Ids
    <3>2. \A j \in 1 .. L : wire[j].n = n0 => wire[j].img = Incoming
      BY <2>4, <2>9 DEF DistinctNumbers
    <3>3. \A j \in DOMAIN wire' : wire'[j].n = n0 => wire'[j].img = Incoming
      BY <2>1, <2>5, <3>1, <3>2
    <3>4. QED
      BY <1>1, <2>2, <3>1, <3>3
  <2>10. QED
    BY <2>1, <2>3, <2>7, <2>8, <2>9 DEF DistinctNumbers
<1>5. CASE Lose
  <2>1. UNCHANGED <<n, cur, n0, i0, pending, head>>
    BY <1>5 DEF Lose, sender, receiver
  <2>2. QED
    BY <1>2, <1>5, <2>1, LossThins
<1>6. ASSUME NEW i \in 1 .. MaxWire, NEW again \in BOOLEAN, ReceiveHeader(i, again)
      PROVE  DistinctNumbers'
  <2>1. /\ Thins(i) /\ i \in DOMAIN wire /\ UNCHANGED <<n, cur>>
        /\ n0' = wire[i].n /\ pending' = wire[i].img /\ i0' = None
    BY <1>6, ArrivalThins DEF ReceiveHeader, Thins, sender
  <2>2. \A j \in DOMAIN wire' : \E k \in DOMAIN wire : wire'[j] = wire[k]
    BY <2>1, WireThins
  <2>3. Incoming' = wire[i].img
    BY <1>1, <2>1 DEF Incoming
  <2>4. /\ \A j \in DOMAIN wire' : wire'[j].n <= n /\ (wire'[j].n = n => wire'[j].img = cur)
        /\ \A j, k \in DOMAIN wire' : wire'[j].n = wire'[k].n => wire'[j].img = wire'[k].img
        /\ n0' <= n /\ (n0' = n => cur = wire[i].img)
        /\ \A j \in DOMAIN wire' : wire'[j].n = n0' => wire'[j].img = wire[i].img
    BY <2>1, <2>2 DEF DistinctNumbers
  <2>5. QED
    BY <2>1, <2>3, <2>4 DEF DistinctNumbers
<1>7. ASSUME NEW i \in 1 .. MaxWire, NEW again \in BOOLEAN, ReceiveData(i, again)
      PROVE  DistinctNumbers'
  <2>1. Thins(i) /\ UNCHANGED <<n, cur, pending, head>>
    BY <1>7, ArrivalThins DEF ReceiveData, sender
  <2>2. CASE UNCHANGED <<n0, i0>>
    BY <1>2, <2>1, <2>2
  <2>3. CASE n0' = NoId
    <3>1. \A j \in DOMAIN wire' : \E k \in DOMAIN wire : wire'[j] = wire[k]
      BY <2>1, WireThins
    <3>2. /\ \A j \in DOMAIN wire' : wire'[j].n <= n /\ (wire'[j].n = n => wire'[j].img = cur)
          /\ \A j, k \in DOMAIN wire' : wire'[j].n = wire'[k].n => wire'[j].img = wire'[k].img
      BY <3>1 DEF DistinctNumbers
    <3>3. QED
      BY <2>1, <2>3, <3>2 DEF DistinctNumbers
  <2>4. QED
    BY <1>7, <2>2, <2>3 DEF ReceiveData
<1>8. CASE StartImage
  <2>1. Head(pool) \in Buffers
    BY <1>8, HeadTailProperties DEF StartImage, Types
  <2>2. /\ pending # None /\ i0' = Head(pool) /\ pending' = None
        /\ head' = [head EXCEPT ![Head(pool)] = pending]
        /\ UNCHANGED <<n, cur, wire, n0>>
    BY <1>8 DEF StartImage, sender
  <2>3. Incoming' = Incoming
    BY <2>1, <2>2 DEF Types, Incoming
  <2>4. QED
    BY <2>2, <2>3 DEF DistinctNumbers
<1>9. CASE UNCHANGED <<n, cur, wire, n0, i0, pending, head>>
  BY <1>9 DEF DistinctNumbers, Incoming
<1>10. QED
  BY <1>3, <1>4, <1>5, <1>6, <1>7, <1>8, <1>9
     DEF Next, SenderStep, Consumer, Receive, Consume, Recycle, vars, sender, receiver

\* Every step leaves images unmixed, as long as numbers are distinct.
LEMMA UnmixedKept ==
    ASSUME Types, InOrder, WireInv, ReceiverInv, DistinctNumbers, NeverMixed, [Next]_vars
    PROVE  NeverMixed'
<1> USE NetStreamAssumption
<1>1. CASE UNCHANGED <<head, data>>
  BY <1>1 DEF NeverMixed
<1>2. ASSUME NEW i \in 1 .. MaxWire, NEW again \in BOOLEAN, ReceiveData(i, again), wire[i].n = n0
      PROVE  NeverMixed'
  <2>1. /\ n0 # NoId /\ i0 \in Buffers /\ Incoming = head[i0] /\ wire[i].b \in 1 .. Blocks
        /\ data' = [data EXCEPT ![i0][wire[i].b] = wire[i].img] /\ head' = head
    BY <1>2, BlockFills
  <2>2. wire[i].img = head[i0]
    BY <1>2, <2>1 DEF DistinctNumbers, ReceiveData, Arrives
  <2>3. QED
    BY <2>1, <2>2 DEF NeverMixed, Types
<1>3. CASE StartImage
  <2>1. Head(pool) \in Buffers
    BY <1>3, HeadTailProperties DEF StartImage, Types
  <2>2. QED
    BY <1>3, <2>1 DEF StartImage, NeverMixed, Types
<1>4. QED
  BY <1>1, <1>2, <1>3
     DEF Next, SenderStep, Consumer, Receive, Capture, TakeImage, SkipImage, SkipDone, SendPacket,
         Lose, ReceiveHeader, ReceiveData, Consume, Recycle, vars, receiver

\* "current image id (to identify the correct packets)" (pluginNet.hpp:185): with a sender
\* that counts, as pluginStream does, no block of another image is taken, whatever the
\* network does to the packets.
THEOREM Unmixed == Counts => (Spec => []NeverMixed)
<1> SUFFICES ASSUME Counts PROVE Spec => []NeverMixed
  OBVIOUS
<1>1. Init => DistinctNumbers /\ NeverMixed
  BY DEF Init, DistinctNumbers, NeverMixed
<1>2. Inv /\ DistinctNumbers /\ NeverMixed /\ [Next]_vars => (DistinctNumbers /\ NeverMixed)'
  BY DistinctKept, UnmixedKept DEF Inv, TypeOK
<1>3. QED
  BY <1>1, <1>2, Invariance, PTL DEF Spec

=============================================================================
