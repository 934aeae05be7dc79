----------------------------- MODULE NetStream ------------------------------
(***************************************************************************)
(* Images over the network: pluginStream, pluginNet and the listener       *)
(* pluginNet2 of qpmanager.cpp share one protocol.  The sender cuts an     *)
(* image into a header packet and data packets that carry the sender's     *)
(* counter n; the receiver fills one recyclable image i0 at a time and     *)
(* accepts the data packets that carry the number n0 of the last header.   *)
(* There is no acknowledgement: what UDP loses, duplicates or reorders     *)
(* stays lost, twice or out of order.                                      *)
(***************************************************************************)
EXTENDS Naturals, Sequences, FiniteSets, SequencesExt

CONSTANTS
    MaxImages,  \* bound on the images that are captured, numbered from 1
    Blocks,     \* data packets per image
    Buffers,    \* the recyclable images of the receiver
    MaxWire,    \* bound on the packets in flight
    None,
    Counts,     \* the sender increments n after an image (pluginStream, not pluginNet)
    Realtime,   \* it skips to the newest image of its queue (pluginStream)
    Datagrams   \* packets may be lost, duplicated and reordered (UDP, not TCP)

ASSUME NetStreamAssumption ==
    /\ MaxImages \in Nat /\ Blocks \in Nat \ {0} /\ MaxWire \in Nat \ {0}
    /\ IsFiniteSet(Buffers) /\ None \notin Buffers \cup 1 .. MaxImages
    /\ {Counts, Realtime, Datagrams} \subseteq BOOLEAN

Images == 1 .. MaxImages
NoId == MaxImages + 1       \* n0 = -1
Ids == 0 .. MaxImages
Packet == [kind : {"image", "data"}, n : Ids, img : Images, b : 0 .. Blocks]

VARIABLES
    captured,   \* how many images were captured
    in,         \* the queue of images to send
    cur, part,  \* the image in the sender's hands; 0: looking for a newer one,
                \* 1: header next, 1 + b: block b next
    n,          \* the counter the sender puts into packets
    out,        \* the images the sender passed on to its output port
    wire,       \* the packets in flight
    n0, i0,     \* the number and buffer of the image being received
    pending,    \* the header that waits for an empty buffer, or None
    head, data, \* what each buffer was filled with: header and blocks
    pool, Q,    \* the receiver's empty images, and the images it delivered
    taken,      \* the buffer the consumer works on
    hurt,       \* history: images some packet of which was lost or overtaken
    arrived     \* history: images that were delivered

sender == <<captured, in, cur, part, n, out>>
receiver == <<n0, i0, pending, head, data, pool, Q, arrived>>
vars == <<sender, wire, receiver, taken, hurt>>

\* "In all cases, all the images are eventually sent to the output port", in the order in
\* which they came in, also those that realtime skips.
PassedOn == out \o (IF cur = None THEN <<>> ELSE <<cur>>) \o in = [k \in 1 .. captured |-> k]

\* The receiver's few buffers are never lost or shared: each is in the pool, in i0, in
\* the output queue or with the consumer.
InOnePlace ==
    /\ IsInjective(pool) /\ IsInjective(Q) /\ ToSet(pool) \cap ToSet(Q) = {}
    /\ {i0, taken} \cap (ToSet(pool) \cup ToSet(Q)) = {} /\ (i0 = taken => i0 = None)
    /\ ToSet(pool) \cup ToSet(Q) \cup ({i0, taken} \ {None}) = Buffers

Types ==
    /\ captured \in 0 .. MaxImages
    /\ in \in Seq(Images) /\ out \in Seq(Images)
    /\ cur \in Images \cup {None} /\ part \in 0 .. Blocks + 1
    /\ cur = None => part = 0
    /\ n \in Ids
    /\ wire \in Seq(Packet) /\ Len(wire) <= MaxWire
    /\ n0 \in Ids \cup {NoId} /\ i0 \in Buffers \cup {None}
    /\ pending \in Images \cup {None}
    /\ head \in [Buffers -> Images \cup {None}]
    /\ data \in [Buffers -> [1 .. Blocks -> Images \cup {None}]]
    /\ pool \in Seq(Buffers) /\ Q \in Seq(Buffers)
    /\ taken \in Buffers \cup {None}
    /\ hurt \in SUBSET Images /\ arrived \in SUBSET Images
    /\ n0 # NoId <=> pending # None \/ i0 # None

TypeOK == Types /\ PassedOn /\ InOnePlace

Init ==
    /\ captured = 0 /\ in = <<>> /\ out = <<>>
    /\ cur = None /\ part = 0 /\ n = 0
    /\ wire = <<>>
    /\ n0 = NoId /\ i0 = None /\ pending = None
    /\ head = [b \in Buffers |-> None]
    /\ data = [b \in Buffers |-> [k \in 1 .. Blocks |-> None]]
    /\ pool = SetToSeq(Buffers) /\ Q = <<>> /\ taken = None
    /\ hurt = {} /\ arrived = {}

-----------------------------------------------------------------------------
(* The sender.                                                             *)

Capture ==
    /\ captured < MaxImages
    /\ captured' = captured + 1
    /\ in' = Append(in, captured + 1)
    /\ UNCHANGED <<cur, part, n, out, wire, receiver, taken, hurt>>

TakeImage ==
    /\ cur = None /\ in # <<>>
    /\ cur' = Head(in) /\ in' = Tail(in)
    /\ UNCHANGED <<captured, part, n, out, wire, receiver, taken, hurt>>

\* realtime: as long as there is a newer image, the older one is passed on unsent.
SkipImage ==
    /\ cur # None /\ part = 0 /\ Realtime /\ in # <<>>
    /\ out' = Append(out, cur)
    /\ cur' = Head(in) /\ in' = Tail(in)
    /\ UNCHANGED <<captured, part, n, wire, receiver, taken, hurt>>

SkipDone ==
    /\ cur # None /\ part = 0 /\ (Realtime => in = <<>>)
    /\ part' = 1
    /\ UNCHANGED <<captured, in, cur, n, out, wire, receiver, taken, hurt>>

\* Mutated form of NextN: n only counts the first image.
NextNLazy == IF Counts /\ n = 0 THEN n + 1 ELSE n

\* n++ at the end of pluginStream::loop; pluginNet::sendImage has no such line.
NextN == IF Counts THEN n + 1 ELSE n

\* One packet; after the last one the image goes on to the output port.
SendPacket ==
    /\ cur # None /\ part > 0 /\ Len(wire) < MaxWire
    /\ wire' = Append(wire, [kind |-> IF part = 1 THEN "image" ELSE "data",
                             n |-> n, img |-> cur, b |-> part - 1])
    /\ IF part = Blocks + 1
       THEN out' = Append(out, cur) /\ cur' = None /\ part' = 0 /\ n' = NextN
       ELSE part' = part + 1 /\ UNCHANGED <<out, cur, n>>
    /\ UNCHANGED <<captured, in, receiver, taken, hurt>>

-----------------------------------------------------------------------------
(* The network.                                                            *)

Lose ==
    /\ Datagrams
    /\ \E i \in DOMAIN wire :
          /\ wire' = RemoveAt(wire, i)
          /\ hurt' = hurt \cup {wire[i].img}
    /\ UNCHANGED <<sender, receiver, taken>>

\* A packet comes out, perhaps before older ones, perhaps to come again.
Arrives(i, again) ==
    /\ i \in DOMAIN wire /\ (i > 1 \/ again => Datagrams)
    /\ wire' = IF again THEN wire ELSE RemoveAt(wire, i)
    /\ hurt' = hurt \cup (IF i > 1 THEN {wire[j].img : j \in 1 .. i} ELSE {})
                    \cup (IF again THEN {wire[i].img} ELSE {})

-----------------------------------------------------------------------------
(* The receiver.                                                           *)

\* The image in i0 goes to the output queue, and i0 becomes NULL.
Deliver == Q' = Append(Q, i0) /\ arrived' = arrived \cup {head[i0]}

\* Mutated form of ReceiveHeader: an unfinished image is overwritten in place.
ReceiveHeaderKeeps(i, again) ==
    /\ pending = None /\ Arrives(i, again) /\ wire[i].kind = "image"
    /\ n0' = wire[i].n
    /\ pending' = wire[i].img /\ i0' = None
    /\ UNCHANGED <<sender, head, data, pool, taken, Q, arrived>>

\* Start of an image: an unfinished one is sent on as it is; then the receiver
\* waits for an empty buffer.
ReceiveHeader(i, again) ==
    /\ pending = None /\ Arrives(i, again) /\ wire[i].kind = "image"
    /\ IF i0 # None THEN Deliver ELSE UNCHANGED <<Q, arrived>>
    /\ n0' = wire[i].n
    /\ pending' = wire[i].img /\ i0' = None
    /\ UNCHANGED <<sender, head, data, pool, taken>>

StartImage ==
    /\ pending # None /\ pool # <<>>
    /\ i0' = Head(pool) /\ pool' = Tail(pool)
    /\ head' = [head EXCEPT ![Head(pool)] = pending]
    /\ data' = [data EXCEPT ![Head(pool)] = [k \in 1 .. Blocks |-> None]]
    /\ pending' = None
    /\ UNCHANGED <<sender, wire, n0, Q, arrived, taken, hurt>>

\* Mutated form of LastBlock: the image is complete one block too early.
AlmostLastBlock(b) == b + 1 >= Blocks
\* b+bobo.size==dsz: this packet ends the image, whatever came before it.
LastBlock(b) == b = Blocks

ReceiveData(i, again) ==
    /\ pending = None /\ Arrives(i, again) /\ wire[i].kind = "data"
    /\ IF wire[i].n # n0 THEN UNCHANGED <<n0, i0, data, Q, arrived>>
       ELSE /\ data' = [data EXCEPT ![i0][wire[i].b] = wire[i].img]
            /\ IF LastBlock(wire[i].b) THEN Deliver /\ i0' = None /\ n0' = NoId
               ELSE UNCHANGED <<n0, i0, Q, arrived>>
    /\ UNCHANGED <<sender, pending, head, pool, taken>>

\* Whatever is downstream of the receiver, down to the recycling of the buffer.
Consume ==
    /\ taken = None /\ Q # <<>>
    /\ taken' = Head(Q) /\ Q' = Tail(Q)
    /\ UNCHANGED <<sender, wire, n0, i0, pending, head, data, pool, arrived, hurt>>

\* Mutated form of Recycle: setRecycleQueue was forgotten, the buffer is deleted.
RecycleDeletes ==
    /\ taken # None
    /\ taken' = None
    /\ UNCHANGED <<sender, wire, n0, i0, pending, head, data, pool, Q, arrived, hurt>>

Recycle ==
    /\ taken # None
    /\ pool' = <<taken>> \o pool
    /\ taken' = None
    /\ UNCHANGED <<sender, wire, n0, i0, pending, head, data, Q, arrived, hurt>>

-----------------------------------------------------------------------------
SenderStep == TakeImage \/ SkipImage \/ SkipDone \/ SendPacket
Consumer == Consume \/ Recycle
Receive ==
    \E i \in 1 .. MaxWire : \E again \in BOOLEAN :
        ReceiveHeader(i, again) \/ ReceiveData(i, again)
Next == Capture \/ SenderStep \/ Lose \/ Receive \/ StartImage \/ Consumer

Spec == Init /\ [][Next]_vars

\* The threads run, and the network does not repeat and reorder forever: a packet
\* that is first whenever the receiver listens arrives, unless it gets lost.
FirstArrives == ReceiveHeader(1, FALSE) \/ ReceiveData(1, FALSE)
Fairness ==
    /\ WF_vars(SenderStep) /\ SF_vars(FirstArrives) /\ WF_vars(StartImage) /\ WF_vars(Consumer)

FairSpec == Spec /\ Fairness

-----------------------------------------------------------------------------
(* Safety.                                                                 *)

\* "current image id (to identify the correct packets)" (pluginNet.hpp:185): no
\* block of another image ends up in a received image.
NeverMixed ==
    \A b \in Buffers, k \in 1 .. Blocks :
        data[b][k] # None => data[b][k] = head[b]

\* An image that is delivered is complete, unless the network lost, repeated or
\* reordered some packet of it.
WholeUnlessHurt ==
    \A i \in DOMAIN Q :
        head[Q[i]] \in hurt \/ \A k \in 1 .. Blocks : data[Q[i]][k] = head[Q[i]]

-----------------------------------------------------------------------------
(* Liveness.                                                               *)

\* An image is delivered once its last packet was sent, unless a packet of it was
\* lost, repeated or reordered, however slow the consumer is.
Delivered ==
    \A x \in Images :
        (cur = x /\ part = Blocks + 1) ~> (x \in arrived \/ x \in hurt)
=============================================================================
