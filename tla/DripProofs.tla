----------------------------- MODULE DripProofs -----------------------------
(***************************************************************************)
(* Machine-checked proofs about the two drips.  DripMulti: for any number  *)
(* of movies of any lengths, pools of any size, and offsets that are not   *)
(* negative.  Drip: for any periods, first messages and steps of the clock.*)
(***************************************************************************)
EXTENDS DripMulti, Drip, SequenceTheorems, WellFoundedInduction, TLAPS

NonNegative == \A k \in Inputs : Offset[k] >= 0

(* The inductive invariant.                                                *)

\* The variables of the flow have one value for each input.
Functions ==
    /\ next = [k \in Inputs |-> next[k]]
    /\ Q = [k \in Inputs |-> Q[k]]
    /\ img = [k \in Inputs |-> img[k]]
    /\ away = [k \in Inputs |-> away[k]]

\* The frame that follows f in a movie that loops, and the next one that input k
\* gets: it waits in the queue, or it is decoded next.
FrameAfter(k, f) == (f + 1) % Length[k]
Coming(k) == IF Q[k] = <<>> THEN next[k] ELSE Q[k][1]

\* The frames of a movie come one after the other.
InSequence ==
    \A k \in Inputs :
        /\ \A j \in 1 .. Len(Q[k]) - 1 : Q[k][j + 1] = FrameAfter(k, Q[k][j])
        /\ Q[k] # <<>> => next[k] = FrameAfter(k, Q[k][Len(Q[k])])
        /\ img[k] # None => Coming(k) = FrameAfter(k, img[k])

\* While a group is gathered: target is the greatest number so far.
Gathering ==
    pc = "gather" =>
        /\ skipped = {}
        /\ \A k \in Inputs : k < i <=> img[k] # None
        /\ ~zero => \A k \in Inputs : k < i => img[k] # 0
        /\ \A k \in Inputs : k < i => Number(k) <= target
        /\ IF i = 1 THEN target = -1 ELSE \E k \in Inputs : k < i /\ Number(k) = target

\* While images are skipped: unless a movie started again, the inputs that were
\* dealt with have the target, the others have not passed it; and one of the
\* images that were gathered is not skipped.
Skipping ==
    pc = "skip" =>
        /\ IF zero THEN target = 0 ELSE target > 0
        /\ \A k \in Inputs \ {i} : img[k] # None
        /\ ~zero => \A k \in Inputs : k < i => Number(k) = target
        /\ ~zero => \A k \in Inputs : k > i => Number(k) <= target
        /\ i \in Inputs /\ img[i] = None =>
              ~zero /\ (Coming(i) = 0 \/ Coming(i) + Offset[i] <= target)
        /\ i \in Inputs /\ img[i] # None => zero \/ img[i] = 0 \/ Number(i) <= target
        /\ \E k \in Inputs \ skipped : img[k] # None /\ Number(k) >= target

Inv == TypeOK /\ Functions /\ InSequence /\ Gathering /\ Skipping /\ InStepOrRestart

\* What needs no assumption on the offsets: an image is kept for each input that
\* was dealt with, and for each but the one that is being skipped.
Handed ==
    /\ pc = "gather" => \A k \in Inputs : k < i <=> img[k] # None
    /\ pc = "skip" => \A k \in Inputs \ {i} : img[k] # None

FlowInv == TypeOK /\ Functions /\ InSequence /\ Handed

-----------------------------------------------------------------------------
(* Facts about frames and queues, and the initial states.                  *)

\* The next frame in a loop is the next number or 0.
LEMMA AfterFrame ==
    ASSUME NEW k \in Inputs, NEW f \in Frames(k)
    PROVE  /\ FrameAfter(k, f) \in Frames(k)
           /\ FrameAfter(k, f) = f + 1 \/ FrameAfter(k, f) = 0
<1> USE DripMultiAssumption DEF FrameAfter, Frames
<1>1. Length[k] \in Nat /\ Length[k] > 0
  OBVIOUS
<1>2. CASE f + 1 < Length[k]
  <2>1. (f + 1) % Length[k] = f + 1
    BY <1>1, <1>2
  <2>2. QED
    BY <1>1, <1>2, <2>1
<1>3. CASE f + 1 = Length[k]
  <2>1. (f + 1) % Length[k] = 0
    BY <1>1, <1>3
  <2>2. QED
    BY <1>1, <2>1
<1>4. QED
  BY <1>1, <1>2, <1>3

\* Appending a frame to a queue.
LEMMA Appended ==
    ASSUME NEW k \in Inputs, NEW q \in Seq(Frames(k)), NEW f \in Frames(k)
    PROVE  /\ Append(q, f) \in Seq(Frames(k))
           /\ Len(Append(q, f)) = Len(q) + 1
           /\ \A j \in 1 .. Len(q) : Append(q, f)[j] = q[j]
           /\ Append(q, f)[Len(q) + 1] = f
           /\ Append(q, f) # <<>>
  BY AppendProperties

\* Taking the first frame of a queue.
LEMMA TakenFrame ==
    ASSUME NEW k \in Inputs, NEW q \in Seq(Frames(k)), q # <<>>
    PROVE  /\ Head(q) = q[1] /\ Head(q) \in Frames(k)
           /\ Len(q) \in Nat /\ Len(q) > 0
           /\ Tail(q) \in Seq(Frames(k))
           /\ Len(Tail(q)) = Len(q) - 1
           /\ \A j \in 1 .. Len(q) - 1 : Tail(q)[j] = q[j + 1]
           /\ Tail(q) = <<>> <=> Len(q) = 1
<1>1. Len(q) \in Nat /\ Len(q) > 0
  BY EmptySeq
<1>2. Tail(q) \in Seq(Frames(k)) /\ Len(Tail(q)) = Len(q) - 1
  BY <1>1, HeadTailProperties
<1>3. Tail(q) = <<>> <=> Len(q) = 1
  BY <1>1, <1>2, EmptySeq
<1>4. Head(q) = q[1] /\ Head(q) \in Frames(k)
  BY HeadTailProperties, <1>1
<1>5. \A j \in 1 .. Len(q) - 1 : Tail(q)[j] = q[j + 1]
  BY <1>1
<1>6. QED
  BY <1>1, <1>2, <1>3, <1>4, <1>5

\* The invariant holds when the plugin was initialized and the sources are anywhere.
LEMMA InitInv == Init => Inv
<1> SUFFICES ASSUME Init PROVE Inv
  OBVIOUS
<1> USE DripMultiAssumption DEF Init
<1>1. TypeOK
  <2>1. ASSUME NEW k \in Inputs
        PROVE  /\ next[k] \in Frames(k) /\ Q[k] \in Seq(Frames(k))
               /\ img[k] = None /\ away[k] \in 0 .. Pool
               /\ Len(Q[k]) + away[k] + (IF img[k] = None THEN 0 ELSE 1) <= Pool
    BY <2>1, EmptySeq DEF None
  <2>2. i \in 1 .. N + 1 /\ target \in Int /\ skipped \in SUBSET Inputs
    OBVIOUS
  <2>3. {zero, sync, paused, initializing} \subseteq BOOLEAN
    OBVIOUS
  <2>4. QED
    BY <2>1, <2>2, <2>3 DEF TypeOK
<1>2. Functions
  BY DEF Functions
<1>3. InSequence
  BY DEF InSequence, None
<1>4. Gathering /\ Skipping
  BY DEF Gathering, Skipping
<1>5. InStepOrRestart
  BY DEF InStepOrRestart, Inputs
<1>6. QED
  BY <1>1, <1>2, <1>3, <1>4, <1>5 DEF Inv

-----------------------------------------------------------------------------
(* The steps.                                                              *)

\* Taking an image out of a queue, as Gather and TakeNext do.
LEMMA TakeFromFacts ==
    ASSUME TypeOK, Functions, InSequence, NEW k \in Inputs, Q[k] # <<>>, img[k] = None, TakeFrom(k)
    PROVE  /\ img' = [m \in Inputs |-> img'[m]] /\ Q' = [m \in Inputs |-> Q'[m]]
           /\ img'[k] = Coming(k) /\ img'[k] \in Frames(k) /\ img'[k] # None
           /\ Q'[k] = Tail(Q[k]) /\ Q'[k] \in Seq(Frames(k)) /\ Len(Q'[k]) = Len(Q[k]) - 1
           /\ \A m \in Inputs \ {k} : img'[m] = img[m] /\ Q'[m] = Q[m]
<1>1. Q[k] \in Seq(Frames(k))
  BY DEF TypeOK
<1>2. /\ img'[k] = Head(Q[k]) /\ Q'[k] = Tail(Q[k])
      /\ img' = [m \in Inputs |-> img'[m]] /\ Q' = [m \in Inputs |-> Q'[m]]
      /\ \A m \in Inputs \ {k} : img'[m] = img[m] /\ Q'[m] = Q[m]
  BY DEF TakeFrom, Functions
<1>3. Head(Q[k]) = Coming(k) /\ Head(Q[k]) \in Frames(k)
  BY <1>1, TakenFrame DEF Coming
<1>4. Head(Q[k]) # None
  BY <1>3, DripMultiAssumption DEF Frames, None
<1>5. QED
  BY <1>1, <1>2, <1>3, <1>4, TakenFrame

\* Taking an image leaves the types and the pools as they are.
LEMMA TakenInputs ==
    ASSUME TypeOK, Functions, InSequence, NEW m \in Inputs, Q[m] # <<>>, img[m] = None, TakeFrom(m),
           next' = next, away' = away
    PROVE  \A k \in Inputs :
           /\ next'[k] \in Frames(k) /\ Q'[k] \in Seq(Frames(k))
           /\ img'[k] \in Frames(k) \cup {None} /\ away'[k] \in 0 .. Pool
           /\ Len(Q'[k]) + away'[k] + (IF img'[k] = None THEN 0 ELSE 1) <= Pool
<1> SUFFICES ASSUME NEW k \in Inputs
             PROVE  /\ next'[k] \in Frames(k) /\ Q'[k] \in Seq(Frames(k))
                    /\ img'[k] \in Frames(k) \cup {None} /\ away'[k] \in 0 .. Pool
                    /\ Len(Q'[k]) + away'[k] + (IF img'[k] = None THEN 0 ELSE 1) <= Pool
  OBVIOUS
<1>1. CASE k = m
  <2>1. Len(Q[k]) \in Nat /\ away[k] \in Nat
    BY DEF TypeOK
  <2>2. Len(Q[k]) + away[k] + 0 <= Pool /\ next[k] \in Frames(k) /\ away[k] \in 0 .. Pool
    BY <1>1 DEF TypeOK
  <2>3. /\ img'[k] \in Frames(k) /\ img'[k] # None
        /\ Q'[k] \in Seq(Frames(k)) /\ Len(Q'[k]) = Len(Q[k]) - 1
    BY <1>1, TakeFromFacts
  <2>4. QED
    BY <2>1, <2>2, <2>3
<1>2. CASE k # m
  BY <1>2, TakeFromFacts DEF TypeOK
<1>3. QED
  BY <1>1, <1>2

\* The types, and the size of the pools, are kept by every step.
LEMMA TypeStep == FlowInv /\ [Next]_vars => TypeOK'
<1> SUFFICES ASSUME FlowInv, [Next]_vars PROVE TypeOK'
  OBVIOUS
<1> USE DripMultiAssumption DEF FlowInv
<1>1. CASE UNCHANGED vars
  BY <1>1 DEF vars, flow, loopv, flags, TypeOK
<1>2. ASSUME NEW k \in Inputs, Produce(k) PROVE TypeOK'
  <2>1. FrameAfter(k, next[k]) \in Frames(k) /\ next'[k] = FrameAfter(k, next[k])
    BY <1>2, AfterFrame DEF TypeOK, Produce, FrameAfter, Functions
  <2>2. /\ Q'[k] = Append(Q[k], next[k])
        /\ \A m \in Inputs \ {k} : next'[m] = next[m] /\ Q'[m] = Q[m]
    BY <1>2 DEF Produce, Functions
  <2>3. Q'[k] \in Seq(Frames(k)) /\ Len(Q'[k]) = Len(Q[k]) + 1 /\ Len(Q[k]) \in Nat
    BY <2>2, Appended DEF TypeOK
  <2>4. Len(Q'[k]) + away[k] + (IF img[k] = None THEN 0 ELSE 1) <= Pool
    BY <1>2, <2>3 DEF TypeOK, Produce
  <2>5. QED
    BY <1>2, <2>1, <2>2, <2>3, <2>4 DEF TypeOK, Produce, loopv, flags
<1>3. ASSUME NEW k \in Inputs, ComeBack(k) PROVE TypeOK'
  <2>1. away'[k] = away[k] - 1 /\ \A m \in Inputs \ {k} : away'[m] = away[m]
    BY <1>3 DEF ComeBack, Functions
  <2>2. away'[k] \in 0 .. Pool /\ Len(Q[k]) \in Nat
    BY <1>3, <2>1 DEF TypeOK, ComeBack
  <2>3. QED
    BY <1>3, <2>1, <2>2 DEF TypeOK, ComeBack, loopv, flags
<1>4. CASE Gather
  <2>1. i \in Inputs /\ img[i] = None
    BY <1>4 DEF Gather, Handed, TypeOK, Inputs
  <2>2. TakeFrom(i) /\ Q[i] # <<>>
    BY <1>4 DEF Gather
  <2> USE <2>1, <2>2
  <2>3. target' \in Int /\ i' \in 1 .. N + 1 /\ zero' \in BOOLEAN
    <3>1. Head(Q[i]) \in Int
      BY TakenFrame DEF TypeOK, Frames
    <3>2. QED
      BY <1>4, <3>1 DEF Gather, TypeOK, Inputs
  <2>4. next' = next /\ away' = away
    BY <1>4 DEF Gather
  <2>5. \A k \in Inputs :
           /\ next'[k] \in Frames(k) /\ Q'[k] \in Seq(Frames(k))
           /\ img'[k] \in Frames(k) \cup {None} /\ away'[k] \in 0 .. Pool
           /\ Len(Q'[k]) + away'[k] + (IF img'[k] = None THEN 0 ELSE 1) <= Pool
    BY <2>4, TakenInputs
  <2>6. QED
    BY <1>4, <2>3, <2>5 DEF Gather, TypeOK, flags
<1>5. CASE TakeNext
  <2>1. i \in Inputs /\ img[i] = None /\ Q[i] # <<>> /\ TakeFrom(i) /\ next' = next /\ away' = away
    BY <1>5 DEF TakeNext, TypeOK, Inputs
  <2>2. \A k \in Inputs :
           /\ next'[k] \in Frames(k) /\ Q'[k] \in Seq(Frames(k))
           /\ img'[k] \in Frames(k) \cup {None} /\ away'[k] \in 0 .. Pool
           /\ Len(Q'[k]) + away'[k] + (IF img'[k] = None THEN 0 ELSE 1) <= Pool
    BY <2>1, TakenInputs
  <2>3. QED
    BY <1>5, <2>2 DEF TakeNext, TypeOK, loopv, flags
<1>6. CASE Skip
  <2>1. i \in Inputs
    BY <1>6 DEF Skip, TypeOK, Inputs
  <2>2. img'[i] = None /\ \A m \in Inputs \ {i} : img'[m] = img[m]
    BY <1>6, <2>1 DEF Skip, Functions
  <2>3. Len(Q[i]) \in Nat /\ away[i] \in Nat
    BY <2>1 DEF TypeOK
  <2>4. \A k \in Inputs :
           /\ next'[k] \in Frames(k) /\ Q'[k] \in Seq(Frames(k))
           /\ img'[k] \in Frames(k) \cup {None} /\ away'[k] \in 0 .. Pool
           /\ Len(Q'[k]) + away'[k] + (IF img'[k] = None THEN 0 ELSE 1) <= Pool
    BY <1>6, <2>1, <2>2, <2>3 DEF Skip, TypeOK
  <2>5. QED
    BY <1>6, <2>1, <2>4 DEF Skip, TypeOK, flags
<1>7. CASE Send
  <2>1. \A k \in Inputs : Len(Q[k]) \in Nat /\ away[k] \in Nat
    BY DEF TypeOK
  <2>2. \A k \in Inputs : img'[k] = None /\ away'[k] \in {away[k], away[k] + 1}
    BY <1>7 DEF Send
  <2>3. \A k \in Inputs : img[k] # None /\ Q'[k] = Q[k] /\ next'[k] = next[k]
    BY <1>7 DEF Send, TypeOK
  <2>4. \A k \in Inputs : /\ away'[k] \in 0 .. Pool
                          /\ Len(Q'[k]) + away'[k] + (IF img'[k] = None THEN 0 ELSE 1) <= Pool
    <3>1. TAKE k \in Inputs
    <3>2. Len(Q[k]) + away[k] + 1 <= Pool /\ Pool \in Nat
      BY <2>3 DEF TypeOK
    <3>3. QED
      BY <2>1, <2>2, <2>3, <3>2, SMTT(30)
  <2>5. \A k \in Inputs : next'[k] \in Frames(k) /\ Q'[k] \in Seq(Frames(k))
    BY <2>3 DEF TypeOK
  <2>6. /\ pc' = "top" /\ i' = i /\ target' = target /\ skipped' = skipped
        /\ zero' = zero /\ sync' = sync /\ paused' = paused /\ initializing' = initializing
    BY <1>7 DEF Send, loopv, flags
  <2>7. QED
    BY <2>2, <2>4, <2>5, <2>6 DEF TypeOK
<1>8. CASE LoopStart \/ Processed \/ Polled \/ Gathered \/ Restart \/ Arrived \/ Matched \/ Command
  <2>1. /\ next' = next /\ Q' = Q /\ img' = img /\ away' = away
    BY <1>8 DEF LoopStart, Processed, Polled, Gathered, Restart, Arrived, Matched, Command, flow
  <2>2. /\ i' \in 1 .. N + 1 /\ target' \in Int /\ skipped' \in SUBSET Inputs
    BY <1>8 DEF LoopStart, Processed, Polled, Gathered, Restart, Arrived, Matched, Command, loopv, TypeOK
  <2>3. {zero', sync', paused', initializing'} \subseteq BOOLEAN
    BY <1>8 DEF LoopStart, Processed, Polled, Gathered, Restart, Arrived, Matched, Command,
                Obey, loopv, flags, TypeOK
  <2>4. /\ pc' \in {"top", "init", "pause", "batch", "poll", "gather", "skip", "send"}
        /\ pc' \in {"top", "init", "pause", "batch", "poll"} =>
              pc \in {"top", "init", "pause", "batch", "poll"}
    BY <1>8 DEF LoopStart, Processed, Polled, Gathered, Restart, Arrived, Matched, Command
  <2>5. pc' = "send" => \A k \in Inputs : img[k] # None
    <3>1. CASE Gathered
      BY <3>1 DEF Gathered, Handed, Inputs, TypeOK
    <3>2. CASE Matched
      BY <3>2 DEF Matched, Handed, Inputs, TypeOK
    <3>3. QED
      BY <1>8, <3>1, <3>2 DEF LoopStart, Processed, Polled, Restart, Arrived, Command
  <2>6. QED
    BY <2>1, <2>2, <2>3, <2>4, <2>5 DEF TypeOK
<1>9. QED
  BY <1>1, <1>2, <1>3, <1>4, <1>5, <1>6, <1>7, <1>8 DEF Next, Step

\* InSequence of one input.
InOrder(k) ==
    /\ \A j \in 1 .. Len(Q[k]) - 1 : Q[k][j + 1] = FrameAfter(k, Q[k][j])
    /\ Q[k] # <<>> => next[k] = FrameAfter(k, Q[k][Len(Q[k])])
    /\ img[k] # None => Coming(k) = FrameAfter(k, img[k])

\* The inputs that a step leaves alone stay in order, also when their image goes.
LEMMA Untouched ==
    ASSUME InSequence, NEW k \in Inputs, Q'[k] = Q[k], next'[k] = next[k], img'[k] \in {img[k], None}
    PROVE  InOrder(k)'
  BY DEF InSequence, InOrder, Coming, FrameAfter

\* Taking an image leaves the movies in sequence.
LEMMA TakenInSequence ==
    ASSUME TypeOK, Functions, InSequence, NEW m \in Inputs, Q[m] # <<>>, img[m] = None, TakeFrom(m),
           next' = next
    PROVE  InSequence'
<1>1. ASSUME NEW k \in Inputs \ {m} PROVE InOrder(k)'
  BY <1>1, TakeFromFacts, Untouched
<1>2. InOrder(m)'
  <2>1. Q[m] \in Seq(Frames(m))
    BY DEF TypeOK
  <2>2. /\ Q'[m] = Tail(Q[m]) /\ img'[m] = Q[m][1] /\ next'[m] = next[m]
    BY TakeFromFacts DEF Coming
  <2>3. /\ Len(Q[m]) \in Nat /\ Len(Q[m]) > 0
        /\ Len(Q'[m]) = Len(Q[m]) - 1
        /\ \A j \in 1 .. Len(Q[m]) - 1 : Q'[m][j] = Q[m][j + 1]
        /\ Q'[m] = <<>> <=> Len(Q[m]) = 1
    BY <2>1, <2>2, TakenFrame
  <2>4. \A j \in 1 .. Len(Q[m]) - 1 : Q[m][j + 1] = FrameAfter(m, Q[m][j])
    BY DEF InSequence
  <2>5. next[m] = FrameAfter(m, Q[m][Len(Q[m])])
    BY DEF InSequence
  <2>6. \A j \in 1 .. Len(Q'[m]) - 1 : Q'[m][j + 1] = FrameAfter(m, Q'[m][j])
    <3>1. TAKE j \in 1 .. Len(Q'[m]) - 1
    <3>2. j \in 1 .. Len(Q[m]) - 1 /\ j + 1 \in 1 .. Len(Q[m]) - 1
      BY <2>3
    <3>3. Q'[m][j] = Q[m][j + 1] /\ Q'[m][j + 1] = Q[m][j + 1 + 1]
      BY <2>3, <3>2
    <3>4. QED
      BY <2>4, <3>2, <3>3
  <2>7. Q'[m] # <<>> => next'[m] = FrameAfter(m, Q'[m][Len(Q'[m])])
    <3>1. HAVE Q'[m] # <<>>
    <3>2. Len(Q'[m]) \in 1 .. Len(Q[m]) - 1 /\ Len(Q'[m]) + 1 = Len(Q[m])
      BY <2>3, <3>1
    <3>3. Q'[m][Len(Q'[m])] = Q[m][Len(Q[m])]
      BY <2>3, <3>2
    <3>4. QED
      BY <2>2, <2>5, <3>3
  <2>8. Coming(m)' = FrameAfter(m, img'[m])
    <3>1. CASE Q'[m] = <<>>
      BY <2>2, <2>3, <2>5, <3>1 DEF Coming
    <3>2. CASE Q'[m] # <<>>
      <4>1. 1 \in 1 .. Len(Q[m]) - 1
        BY <2>3, <3>2
      <4>2. Q'[m][1] = Q[m][1 + 1] /\ Q[m][1 + 1] = FrameAfter(m, Q[m][1])
        BY <2>3, <2>4, <4>1
      <4>3. QED
        BY <2>2, <3>2, <4>2 DEF Coming
    <3>3. QED
      BY <3>1, <3>2
  <2>9. QED
    BY <2>6, <2>7, <2>8 DEF InOrder, FrameAfter
<1>3. QED
  BY <1>1, <1>2 DEF InSequence, InOrder

\* The movies stay in sequence: sources, queues and the images in hand.
LEMMA SequenceStep == FlowInv /\ [Next]_vars => Functions' /\ InSequence'
<1> SUFFICES ASSUME FlowInv, [Next]_vars PROVE Functions' /\ InSequence'
  OBVIOUS
<1> USE DripMultiAssumption DEF FlowInv
<1>1. CASE UNCHANGED flow
  <2>1. Functions'
    BY <1>1 DEF flow, Functions
  <2>2. \A k \in Inputs : InOrder(k)'
    BY <1>1, Untouched DEF flow
  <2>3. QED
    BY <2>1, <2>2 DEF InSequence, InOrder
<1>2. ASSUME NEW m \in Inputs, Produce(m) PROVE Functions' /\ InSequence'
  <2>1. /\ next'[m] = FrameAfter(m, next[m]) /\ Q'[m] = Append(Q[m], next[m]) /\ img' = img
        /\ \A k \in Inputs \ {m} : next'[k] = next[k] /\ Q'[k] = Q[k]
        /\ Functions'
    BY <1>2 DEF Produce, Functions, FrameAfter
  <2>2. ASSUME NEW k \in Inputs \ {m} PROVE InOrder(k)'
    BY <2>1, <2>2, Untouched
  <2>3. InOrder(m)'
    <3>1. /\ Len(Q[m]) \in Nat /\ Len(Q'[m]) = Len(Q[m]) + 1 /\ Q'[m] # <<>>
          /\ \A j \in 1 .. Len(Q[m]) : Q'[m][j] = Q[m][j]
          /\ Q'[m][Len(Q[m]) + 1] = next[m]
      <4>1. Q[m] \in Seq(Frames(m)) /\ next[m] \in Frames(m) /\ Len(Q[m]) \in Nat
        BY DEF TypeOK
      <4>2. /\ Len(Append(Q[m], next[m])) = Len(Q[m]) + 1
            /\ \A j \in 1 .. Len(Q[m]) : Append(Q[m], next[m])[j] = Q[m][j]
            /\ Append(Q[m], next[m])[Len(Q[m]) + 1] = next[m]
            /\ Append(Q[m], next[m]) # <<>>
        BY <4>1, Appended
      <4>3. QED
        BY <2>1, <4>1, <4>2
    <3>2. \A j \in 1 .. Len(Q'[m]) - 1 : Q'[m][j + 1] = FrameAfter(m, Q'[m][j])
      <4>1. TAKE j \in 1 .. Len(Q'[m]) - 1
      <4>2. CASE j = Len(Q[m])
        <5>1. Q[m] # <<>>
          BY <3>1, <4>2, EmptySeq
        <5>2. QED
          BY <3>1, <4>2, <5>1, SMTT(30) DEF InSequence
      <4>3. CASE j # Len(Q[m])
        <5>1. j \in 1 .. Len(Q[m]) - 1 /\ j \in 1 .. Len(Q[m]) /\ j + 1 \in 1 .. Len(Q[m])
          BY <3>1, <4>3
        <5>2. QED
          BY <3>1, <5>1 DEF InSequence
      <4>4. QED
        BY <4>2, <4>3
    <3>3. next'[m] = FrameAfter(m, Q'[m][Len(Q'[m])])
      BY <2>1, <3>1
    <3>4. Coming(m)' = Coming(m)
      <4>1. CASE Q[m] = <<>>
        BY <3>1, <4>1, EmptySeq DEF Coming
      <4>2. CASE Q[m] # <<>>
        <5>1. 1 \in 1 .. Len(Q[m])
          BY <3>1, <4>2, EmptySeq DEF TypeOK
        <5>2. QED
          BY <3>1, <4>2, <5>1 DEF Coming
      <4>3. QED
        BY <4>1, <4>2
    <3>5. img'[m] # None => Coming(m)' = FrameAfter(m, img'[m])
      BY <2>1, <3>4 DEF InSequence
    <3>6. QED
      BY <3>2, <3>3, <3>5 DEF InOrder, FrameAfter
  <2>4. QED
    BY <2>1, <2>2, <2>3 DEF InSequence, InOrder
<1>3. CASE Gather \/ TakeNext
  <2>1. PICK m \in Inputs : Q[m] # <<>> /\ img[m] = None /\ TakeFrom(m) /\ next' = next /\ away' = away
    BY <1>3 DEF Gather, TakeNext, Handed, TypeOK, Inputs
  <2>2. QED
    BY <2>1, TakeFromFacts, TakenInSequence DEF Functions
<1>4. CASE Skip \/ Send \/ \E k \in Inputs : ComeBack(k)
  <2>1. /\ next' = next /\ Q' = Q
        /\ \A k \in Inputs : img'[k] \in {img[k], None}
        /\ Functions'
    BY <1>4 DEF Skip, Send, ComeBack, Functions
  <2>2. \A k \in Inputs : InOrder(k)'
    BY <2>1, Untouched
  <2>3. QED
    BY <2>1, <2>2 DEF InSequence, InOrder
<1>5. CASE LoopStart \/ Processed \/ Polled \/ Gathered \/ Restart \/ Arrived \/ Matched \/ Command
  BY <1>1, <1>5 DEF LoopStart, Processed, Polled, Gathered, Restart, Arrived, Matched, Command
<1>6. QED
  BY <1>1, <1>2, <1>3, <1>4, <1>5 DEF Next, Step, vars

\* An image is taken for one input after the other, and the next one for an input
\* whose image was skipped (the loops of loop() and skipAllUntil()).
LEMMA HandedStep == FlowInv /\ [Next]_vars => Handed'
<1> SUFFICES ASSUME FlowInv, [Next]_vars PROVE Handed'
  OBVIOUS
<1> USE DripMultiAssumption DEF FlowInv
<1>1. CASE Gather
  <2>1. i \in Inputs /\ pc' = "gather" /\ i' = i + 1 /\ img[i] = None /\ TakeFrom(i) /\ Q[i] # <<>>
    BY <1>1 DEF Gather, Handed, TypeOK, Inputs
  <2>2. img'[i] # None /\ \A k \in Inputs \ {i} : img'[k] = img[k]
    BY <2>1, TakeFromFacts
  <2>3. \A k \in Inputs : k \in Int /\ (k < i <=> img[k] # None)
    BY <1>1 DEF Gather, Handed, Inputs
  <2>4. ASSUME NEW k \in Inputs PROVE k < i + 1 <=> img'[k] # None
    <3>1. k \in Int /\ i \in Int /\ (k < i + 1 <=> k < i \/ k = i)
      BY <2>1 DEF Inputs
    <3>2. QED
      BY <2>2, <2>3, <3>1, Zenon
  <2>5. QED
    BY <2>1, <2>4 DEF Handed
<1>2. CASE TakeNext
  <2>1. i \in Inputs /\ pc' = "skip" /\ pc = "skip" /\ i' = i /\ img[i] = None /\ TakeFrom(i) /\ Q[i] # <<>>
    BY <1>2 DEF TakeNext, loopv, TypeOK, Inputs
  <2>2. \A k \in Inputs \ {i} : img'[k] = img[k]
    BY <2>1, TakeFromFacts
  <2>3. QED
    BY <2>1, <2>2 DEF Handed
<1>3. CASE Skip
  BY <1>3 DEF Skip, Handed, Functions
<1>4. CASE Gathered
  <2>1. pc' \in {"skip", "send"} /\ img' = img /\ pc = "gather" /\ i > N
    BY <1>4 DEF Gathered, flow
  <2>2. \A k \in Inputs : k < i
    BY <2>1 DEF Inputs, TypeOK
  <2>3. QED
    BY <2>1, <2>2 DEF Handed
<1>5. CASE Restart \/ Arrived
  <2>1. pc = "skip" /\ pc' = "skip" /\ img' = img /\ i \in Inputs /\ img[i] # None
    BY <1>5 DEF Restart, Arrived, flow, TypeOK, Inputs, None
  <2>2. QED
    BY <2>1 DEF Handed
<1>6. CASE Polled
  <2>1. pc = "poll" /\ pc' = "gather" /\ i' = 1 /\ img' = img
    BY <1>6 DEF Polled, flow
  <2>2. \A k \in Inputs : img[k] = None /\ k \in Int /\ k >= 1
    BY <2>1 DEF TypeOK, Inputs
  <2>3. QED
    BY <2>1, <2>2 DEF Handed
<1>7. CASE LoopStart \/ Processed \/ Matched \/ Command \/ Send
  BY <1>7 DEF LoopStart, Processed, Matched, Command, Send, Handed
<1>8. CASE UNCHANGED vars
  BY <1>8 DEF vars, flow, loopv, Handed
<1>9. CASE \E k \in Inputs : Produce(k) \/ ComeBack(k)
  BY <1>9 DEF Produce, ComeBack, loopv, Handed
<1>10. QED
  BY <1>1, <1>2, <1>3, <1>4, <1>5, <1>6, <1>7, <1>8, <1>9 DEF Next, Step

\* While a group is gathered, target is the greatest number of its images.
LEMMA GatheringStep == Inv /\ [Next]_vars /\ NonNegative => Gathering'
<1> SUFFICES ASSUME Inv, [Next]_vars, NonNegative, pc' = "gather" PROVE Gathering'
  BY DEF Gathering
<1> USE DripMultiAssumption DEF Inv
<1>1. CASE Polled
  <2>1. /\ i' = 1 /\ target' = -1 /\ skipped' = {} /\ img' = img
        /\ \A k \in Inputs : img[k] = None /\ k \in Nat /\ k > 0
    BY <1>1 DEF Polled, flow, TypeOK, Inputs
  <2>2. QED
    BY <2>1 DEF Gathering
<1>2. CASE Gather
  <2>1. i \in Inputs /\ i \in Int /\ i >= 1 /\ pc = "gather" /\ i' = i + 1 /\ skipped' = skipped
    BY <1>2 DEF Gather, TypeOK, Inputs
  <2>2. \A k \in Inputs : k \in Int /\ (k < i <=> img[k] # None)
    BY <2>1 DEF Gathering, Inputs
  <2>3. TakeFrom(i) /\ Q[i] # <<>> /\ img[i] = None
    BY <1>2, <2>1, <2>2 DEF Gather
  <2>4. /\ img'[i] # None /\ img'[i] \in Frames(i) /\ img'[i] = Head(Q[i])
        /\ \A k \in Inputs \ {i} : img'[k] = img[k]
    BY <2>1, <2>3, TakeFromFacts, TakenFrame DEF Coming, TypeOK
  <2>5. /\ img'[i] \in Int /\ img'[i] >= 0 /\ Offset[i] \in Int /\ Offset[i] >= 0 /\ target \in Int
    BY <2>1, <2>4 DEF TypeOK, Frames, NonNegative
  <2>6. /\ zero' = (zero \/ img'[i] = 0)
        /\ target' = IF img'[i] + Offset[i] > target THEN img'[i] + Offset[i] ELSE target
    BY <1>2, <2>4 DEF Gather
  <2>7. \A k \in Inputs : k < i' <=> k < i \/ k = i
    BY <2>1, <2>2
  <2>8. \A k \in Inputs : k < i' <=> img'[k] # None
    BY <2>2, <2>4, <2>7
  <2>9. ~zero' => \A k \in Inputs : k < i' => img'[k] # 0
    <3>1. ASSUME ~zero', NEW k \in Inputs, k < i' PROVE img'[k] # 0
      <4>1. ~zero /\ img'[i] # 0
        BY <2>6, <3>1
      <4>2. k # i => img[k] # 0
        BY <2>1, <2>7, <3>1, <4>1 DEF Gathering
      <4>3. QED
        BY <2>4, <4>1, <4>2
    <3>2. QED
      BY <3>1
  <2>10. /\ \A k \in Inputs : k = i => Number(k)' = img'[i] + Offset[i]
         /\ img'[i] + Offset[i] <= target' /\ target <= target' /\ target' \in Int
    BY <2>5, <2>6 DEF Number
  <2>11. ASSUME NEW k \in Inputs, k < i PROVE Number(k)' = Number(k) /\ Number(k) <= target /\ Number(k) \in Int
    <3>1. k # i /\ img[k] # None
      BY <2>1, <2>2, <2>11
    <3>2. img[k] \in Int /\ Offset[k] \in Int
      BY <3>1 DEF TypeOK, Frames
    <3>3. Number(k) <= target
      BY <2>1, <2>11 DEF Gathering
    <3>4. QED
      BY <2>4, <3>1, <3>2, <3>3 DEF Number
  <2>12. \A k \in Inputs : k < i' => Number(k)' <= target'
    BY <2>5, <2>7, <2>10, <2>11
  <2>13. \E k \in Inputs : k < i' /\ Number(k)' = target'
    <3>1. CASE img'[i] + Offset[i] > target
      BY <2>1, <2>6, <2>7, <2>10, <3>1
    <3>2. CASE ~(img'[i] + Offset[i] > target)
      <4>1. target' = target /\ i # 1
        BY <2>1, <2>5, <2>6, <3>2 DEF Gathering
      <4>2. PICK k \in Inputs : k < i /\ Number(k) = target
        BY <2>1, <4>1 DEF Gathering
      <4>3. QED
        BY <2>7, <2>11, <4>1, <4>2
    <3>3. QED
      BY <3>1, <3>2
  <2>14. skipped' = {} /\ i' # 1
    BY <2>1 DEF Gathering
  <2>15. QED
    BY <2>8, <2>9, <2>12, <2>13, <2>14 DEF Gathering
<1>3. CASE UNCHANGED vars \/ \E k \in Inputs : Produce(k) \/ ComeBack(k)
  <2>1. img' = img /\ pc' = pc /\ i' = i /\ zero' = zero /\ target' = target /\ skipped' = skipped
    BY <1>3 DEF vars, flow, loopv, Produce, ComeBack
  <2>2. QED
    BY <2>1 DEF Gathering, Number
<1>4. QED
  BY <1>1, <1>2, <1>3 DEF Next, Step, LoopStart, Processed, Gathered, Restart, Arrived, Skip,
                          TakeNext, Matched, Send, Command

\* What a source produces waits behind what is to come.
LEMMA ProducedBehind ==
    ASSUME TypeOK, Functions, NEW m \in Inputs, Produce(m), NEW k \in Inputs
    PROVE  Coming(k)' = Coming(k)
<1>1. CASE k # m
  BY <1>1 DEF Produce, Coming
<1>2. CASE k = m
  <2>1. Q'[m] = Append(Q[m], next[m]) /\ Q[m] \in Seq(Frames(m)) /\ next[m] \in Frames(m)
    BY DEF Produce, Functions, TypeOK
  <2>2. Q'[m] # <<>> /\ Len(Q[m]) \in Nat
        /\ (\A j \in 1 .. Len(Q[m]) : Q'[m][j] = Q[m][j]) /\ Q'[m][Len(Q[m]) + 1] = next[m]
    BY <2>1, Appended
  <2>3. CASE Q[m] = <<>>
    BY <1>2, <2>2, <2>3, EmptySeq DEF Coming
  <2>4. CASE Q[m] # <<>>
    <3>1. 1 \in 1 .. Len(Q[m])
      BY <2>1, <2>2, <2>4, EmptySeq
    <3>2. QED
      BY <1>2, <2>2, <2>4, <3>1 DEF Coming
  <2>5. QED
    BY <2>3, <2>4
<1>3. QED
  BY <1>1, <1>2

\* The arithmetic types of the numbers that are compared.
LEMMA Numbers ==
    ASSUME TypeOK, NonNegative
    PROVE  /\ target \in Int /\ i \in Int /\ N \in Int
           /\ \A k \in Inputs : /\ k \in Int /\ k >= 1 /\ k <= N
                                /\ Offset[k] \in Int /\ Offset[k] >= 0
                                /\ Coming(k) \in Frames(k) /\ Coming(k) \in Int
                                /\ img[k] # None =>
                                      /\ img[k] \in Frames(k) /\ img[k] \in Int /\ img[k] >= 0
                                      /\ Number(k) \in Int /\ Number(k) >= img[k]
<1>1. target \in Int /\ i \in Int /\ N \in Int
  BY DripMultiAssumption DEF TypeOK
<1> SUFFICES ASSUME NEW k \in Inputs
             PROVE  /\ k \in Int /\ k >= 1 /\ k <= N /\ Offset[k] \in Int /\ Offset[k] >= 0
                    /\ Coming(k) \in Frames(k) /\ Coming(k) \in Int
                    /\ img[k] # None => /\ img[k] \in Frames(k) /\ img[k] \in Int /\ img[k] >= 0
                                        /\ Number(k) \in Int /\ Number(k) >= img[k]
  BY <1>1
<1>2. k \in Int /\ k >= 1 /\ k <= N /\ Offset[k] \in Int /\ Offset[k] >= 0
  BY DripMultiAssumption DEF Inputs, NonNegative
<1>3. Coming(k) \in Frames(k)
  <2>1. Q[k] \in Seq(Frames(k)) /\ next[k] \in Frames(k)
    BY DEF TypeOK
  <2>2. QED
    BY <2>1, TakenFrame DEF Coming
<1>4. Coming(k) \in Int
  BY <1>3 DEF Frames
<1>5. ASSUME img[k] # None
      PROVE  img[k] \in Frames(k) /\ img[k] \in Int /\ img[k] >= 0
             /\ Number(k) \in Int /\ Number(k) >= img[k]
  BY <1>2, <1>5, DripMultiAssumption DEF TypeOK, Frames, Number
<1>6. QED
  BY <1>2, <1>3, <1>4, <1>5

\* The argument of the module: no skip goes past the target without meeting frame 0,
\* because the numbers of a movie grow by one up to its end.
LEMMA SkippingStep == Inv /\ [Next]_vars /\ NonNegative => Skipping'
<1> SUFFICES ASSUME Inv, [Next]_vars, NonNegative, pc' = "skip" PROVE Skipping'
  BY DEF Skipping
<1> USE DripMultiAssumption, Numbers DEF Inv
<1>1. CASE Gathered
  <2>1. /\ pc = "gather" /\ i > N /\ i' = 1 /\ target' = (IF zero THEN 0 ELSE target)
        /\ img' = img /\ Q' = Q /\ next' = next /\ zero' = zero /\ skipped' = skipped
    BY <1>1 DEF Gathered, flow
  <2>2. \A k \in Inputs : k < i /\ img[k] # None
    BY <2>1 DEF Gathering
  <2>3. \A k \in Inputs : Number(k)' = Number(k)
    BY <2>1 DEF Number
  <2>4. \A k \in Inputs : Number(k) <= target
    BY <2>1, <2>2 DEF Gathering
  <2>5. PICK m \in Inputs : Number(m) = target
    <3>1. i # 1
      BY <2>1
    <3>2. QED
      BY <2>1, <3>1 DEF Gathering
  <2>6. IF zero THEN target' = 0 ELSE target' = target /\ target > 0
    <3>1. ~zero => img[m] # 0 /\ img[m] >= 0 /\ img[m] \in Int /\ Number(m) >= img[m]
      BY <2>1, <2>2 DEF Gathering
    <3>2. QED
      BY <2>1, <2>5, <3>1
  <2>7. m \in Inputs \ skipped' /\ img'[m] # None /\ Number(m)' >= target'
    <3>1. Number(m) \in Int /\ Number(m) >= 0
      BY <2>2
    <3>2. QED
      BY <2>1, <2>2, <2>3, <2>5, <2>6, <3>1 DEF Gathering
  <2>8. ~zero' => \A k \in Inputs : Number(k)' <= target'
    BY <2>1, <2>3, <2>4
  <2>9. \A k \in Inputs : ~(k < i') /\ img'[k] # None
    BY <2>1, <2>2
  <2>10. i' \in Inputs /\ img'[i'] # None => zero' \/ img'[i'] = 0 \/ Number(i)' <= target'
    BY <2>1, <2>4 DEF Number
  <2>11. QED
    BY <2>1, <2>6, <2>7, <2>8, <2>9, <2>10 DEF Skipping
<1>2. CASE Restart
  <2>1. /\ pc = "skip" /\ i \in Inputs /\ img[i] = 0 /\ zero' = TRUE /\ target' = 0 /\ i' = 1
        /\ img' = img /\ skipped' = skipped
    BY <1>2 DEF Restart, flow, Inputs, TypeOK
  <2>2. \A k \in Inputs : img[k] # None
    BY <2>1 DEF Skipping, None
  <2>3. PICK m \in Inputs \ skipped : img[m] # None
    BY <2>1 DEF Skipping
  <2>4. Number(m)' = Number(m) /\ Number(m) >= 0
    BY <2>1, <2>3 DEF Number
  <2>5. QED
    BY <2>1, <2>2, <2>3, <2>4 DEF Skipping
<1>3. CASE Arrived
  <2>1. /\ pc = "skip" /\ i \in Inputs /\ img[i] # None /\ ~(img[i] = 0 /\ target # 0) /\ Number(i) >= target
        /\ i' = i + 1 /\ img' = img /\ Q' = Q /\ next' = next
        /\ zero' = zero /\ target' = target /\ skipped' = skipped
    BY <1>3 DEF Arrived, Reached, flow, Inputs, TypeOK
  <2>2. \A k \in Inputs : Number(k)' = Number(k) /\ img[k] # None
    BY <2>1 DEF Number, Skipping
  <2>3. IF zero' THEN target' = 0 ELSE target' > 0
    BY <2>1 DEF Skipping
  <2>4. ~zero => Number(i) = target
    <3>1. ~zero => Number(i) <= target
      BY <2>1, <2>3 DEF Skipping
    <3>2. QED
      BY <2>1, <3>1
  <2>5. \A k \in Inputs : /\ k < i' => k < i \/ k = i
                          /\ k > i' \/ k = i' => k > i
    BY <2>1
  <2>6. ~zero' => \A k \in Inputs : k < i' => Number(k)' = target'
    BY <2>1, <2>2, <2>4, <2>5 DEF Skipping
  <2>7. ~zero' => \A k \in Inputs : k > i' \/ k = i' => Number(k)' <= target'
    BY <2>1, <2>2, <2>5 DEF Skipping
  <2>8. \E k \in Inputs \ skipped' : img'[k] # None /\ Number(k)' >= target'
    BY <2>1, <2>2 DEF Skipping
  <2>9. i' \in Inputs => zero' \/ Number(i)' <= target'
    BY <2>7 DEF Number
  <2>10. QED
    BY <2>1, <2>2, <2>3, <2>6, <2>7, <2>8, <2>9 DEF Skipping
<1>4. CASE Skip
  <2>1. /\ pc = "skip" /\ i \in Inputs /\ img[i] # None /\ ~(img[i] = 0 /\ target # 0) /\ ~(Number(i) >= target)
        /\ i' = i /\ Q' = Q /\ next' = next
        /\ zero' = zero /\ target' = target /\ skipped' = skipped \cup {i}
    BY <1>4 DEF Skip, Reached, Inputs, TypeOK
  <2>2. img'[i] = None /\ \A k \in Inputs \ {i} : img'[k] = img[k] /\ Number(k)' = Number(k)
    BY <1>4, <2>1 DEF Skip, Functions, Number
  <2>3. ~zero /\ target > 0
    BY <2>1 DEF Skipping
  <2>4. Coming(i) = img[i] + 1 \/ Coming(i) = 0
    BY <2>1, AfterFrame DEF InSequence
  <2>5. Coming(i) = 0 \/ Coming(i) + Offset[i] <= target
    <3>1. Number(i) = img[i] + Offset[i] /\ Number(i) < target
      BY <2>1 DEF Number
    <3>2. QED
      BY <2>1, <2>4, <3>1
  <2>6. Coming(i)' = Coming(i)
    BY <2>1 DEF Coming
  <2>7. \E k \in Inputs \ skipped' : img'[k] # None /\ Number(k)' >= target'
    <3>1. PICK k \in Inputs \ skipped : img[k] # None /\ Number(k) >= target
      BY <2>1 DEF Skipping
    <3>2. k # i
      BY <2>1, <3>1
    <3>3. QED
      BY <2>1, <2>2, <3>1, <3>2
  <2>8. \A k \in Inputs \ {i} : img'[k] # None
    BY <2>1, <2>2 DEF Skipping
  <2>9. \A k \in Inputs : /\ k < i => Number(k)' = target
                          /\ k > i => Number(k)' <= target
    <3>1. \A k \in Inputs : (k < i => Number(k) = target /\ k # i) /\ (k > i => Number(k) <= target /\ k # i)
      BY <2>1, <2>3 DEF Skipping
    <3>2. QED
      BY <2>2, <3>1
  <2>10. QED
    BY <2>1, <2>2, <2>3, <2>5, <2>6, <2>7, <2>8, <2>9 DEF Skipping
<1>5. CASE TakeNext
  <2>1. /\ pc = "skip" /\ i \in Inputs /\ img[i] = None /\ Q[i] # <<>> /\ TakeFrom(i)
        /\ i' = i /\ next' = next /\ zero' = zero /\ target' = target /\ skipped' = skipped
    BY <1>5 DEF TakeNext, loopv, Inputs, TypeOK
  <2>2. /\ img'[i] = Coming(i) /\ img'[i] # None
        /\ \A k \in Inputs \ {i} : img'[k] = img[k]
    BY <2>1, TakeFromFacts
  <2>3. ~zero /\ target > 0 /\ (Coming(i) = 0 \/ Coming(i) + Offset[i] <= target)
    BY <2>1 DEF Skipping
  <2>4. img'[i] = 0 \/ Number(i)' <= target
    BY <2>1, <2>2, <2>3 DEF Number
  <2>5. \A k \in Inputs \ {i} : img'[k] # None /\ Number(k)' = Number(k)
    BY <2>1, <2>2 DEF Skipping, Number
  <2>6. \E k \in Inputs \ skipped' : img'[k] # None /\ Number(k)' >= target'
    <3>1. PICK k \in Inputs \ skipped : img[k] # None /\ Number(k) >= target
      BY <2>1 DEF Skipping
    <3>2. k # i
      BY <2>1, <3>1
    <3>3. QED
      BY <2>1, <2>5, <3>1, <3>2
  <2>7. \A k \in Inputs : /\ k < i => Number(k)' = target
                          /\ k > i => Number(k)' <= target
    <3>1. \A k \in Inputs : (k < i => Number(k) = target /\ k # i) /\ (k > i => Number(k) <= target /\ k # i)
      BY <2>1, <2>3 DEF Skipping
    <3>2. QED
      BY <2>5, <3>1
  <2>8. QED
    BY <2>1, <2>2, <2>3, <2>4, <2>5, <2>6, <2>7 DEF Skipping
<1>6. CASE UNCHANGED vars \/ \E k \in Inputs : Produce(k) \/ ComeBack(k)
  <2>1. /\ img' = img /\ pc' = pc /\ i' = i /\ zero' = zero /\ target' = target /\ skipped' = skipped
        /\ \A k \in Inputs : Number(k)' = Number(k)
    BY <1>6 DEF vars, flow, loopv, Produce, ComeBack, Number
  <2>2. \A k \in Inputs : Coming(k)' = Coming(k)
    <3>1. CASE UNCHANGED vars \/ \E k \in Inputs : ComeBack(k)
      BY <3>1 DEF vars, flow, ComeBack, Coming
    <3>2. CASE \E k \in Inputs : Produce(k)
      BY <3>2, ProducedBehind
    <3>3. QED
      BY <1>6, <3>1, <3>2
  <2>3. i \in Inputs => Coming(i)' = Coming(i) /\ Number(i)' = Number(i)
    BY <2>1, <2>2
  <2>4. QED
    BY <2>1, <2>3 DEF Skipping
<1>7. QED
  BY <1>1, <1>2, <1>3, <1>4, <1>5, <1>6 DEF Next, Step, LoopStart, Processed, Polled, Gather,
                                            Matched, Send, Command

\* A group leaves when all inputs were dealt with.
LEMMA PropertyStep == Inv /\ [Next]_vars /\ NonNegative => InStepOrRestart'
<1> SUFFICES ASSUME Inv, [Next]_vars, NonNegative PROVE InStepOrRestart'
  OBVIOUS
<1> USE DripMultiAssumption DEF Inv
<1>1. (pc' = "send" /\ sync') => Same' \/ zero'
  <2>1. CASE Matched
    <3>1. /\ pc = "skip" /\ i > N /\ i \in Int /\ img' = img /\ zero' = zero
          /\ \A k \in Inputs : k < i
      BY <2>1 DEF Matched, flow, loopv, Inputs, TypeOK
    <3>2. ~zero => \A k \in Inputs : Number(k)' = target
      BY <3>1 DEF Skipping, Number
    <3>3. QED
      BY <3>1, <3>2 DEF Same
  <2>2. CASE Gathered
    BY <2>2 DEF Gathered, flags
  <2>3. CASE UNCHANGED vars \/ \E k \in Inputs : Produce(k) \/ ComeBack(k)
    <3>1. pc' = pc /\ sync' = sync /\ zero' = zero /\ img' = img
      BY <2>3 DEF vars, flow, loopv, flags, Produce, ComeBack
    <3>2. QED
      BY <3>1 DEF InStepOrRestart, Same, Number
  <2>4. QED
    BY <2>1, <2>2, <2>3 DEF Next, Step, LoopStart, Processed, Polled, Gather, Restart, Arrived, Skip,
                            TakeNext, Send, Command
<1>2. skipped' # Inputs
  <2>1. CASE Polled
    <3>1. 1 \in Inputs /\ skipped' = {}
      BY <2>1 DEF Polled, Inputs
    <3>2. QED
      BY <3>1
  <2>2. CASE Skip
    <3>1. pc' = "skip" /\ Skipping'
      BY <2>2, SkippingStep DEF Skip
    <3>2. QED
      BY <3>1 DEF Skipping
  <2>3. CASE ~Polled /\ ~Skip
    <3>1. skipped' = skipped
      BY <2>3 DEF Next, Step, vars, loopv, LoopStart, Processed, Gather, Gathered, Restart, Arrived,
                  TakeNext, Matched, Send, Command, Produce, ComeBack
    <3>2. QED
      BY <3>1 DEF InStepOrRestart
  <2>4. QED
    BY <2>1, <2>2, <2>3
<1>3. QED
  BY <1>1, <1>2 DEF InStepOrRestart

-----------------------------------------------------------------------------
(* The theorems.                                                           *)

\* The flow of the images is part of the invariant.
LEMMA InvFlows == Inv => FlowInv
  BY DEF Inv, FlowInv, Handed, Gathering, Skipping

\* The invariant is inductive.
LEMMA InvStep == Inv /\ [Next]_vars /\ NonNegative => Inv'
  BY InvFlows, TypeStep, SequenceStep, GatheringStep, SkippingStep, PropertyStep DEF Inv

\* Whatever the offsets are, the images flow in sequence.
THEOREM FlowInvariance == Spec => []FlowInv
<1>1. Init => FlowInv
  BY InitInv, InvFlows
<1>2. FlowInv /\ [Next]_vars => FlowInv'
  BY TypeStep, SequenceStep, HandedStep DEF FlowInv
<1>3. QED
  BY <1>1, <1>2, PTL DEF Spec

\* If no offset is negative, the invariant holds in every state.
THEOREM Invariance == ASSUME NonNegative PROVE Spec => []Inv
  BY InitInv, InvStep, PTL DEF Spec

\* The types of the variables, and no source has more images than its pool (loop() gives
\* back or sends every image that it takes).
THEOREM TypeCorrect == Spec => []TypeOK
<1>1. FlowInv => TypeOK
  BY DEF FlowInv
<1>2. QED
  BY <1>1, FlowInvariance, PTL

\* Whatever the number and the lengths of the movies, a group that leaves under /sync has
\* one frame number unless a movie started again, and skipAllUntil never skips an image
\* of every input.
THEOREM InStep == ASSUME NonNegative PROVE Spec => []InStepOrRestart
<1>1. Inv => InStepOrRestart
  BY DEF Inv
<1>2. QED
  BY <1>1, Invariance, PTL

-----------------------------------------------------------------------------
(* The drip of one movie: the fields of the plugin and its commands.       *)

DripFields ==
    [start : Int, period : Periods \cup {Slowest}, paused : BOOLEAN, pauseStart : Nat, n : Nat,
     predisplay : BOOLEAN, count : {c \in Int : c >= -1}, initializing : BOOLEAN, flush : BOOLEAN]

\* A pause has begun.
PauseBegan(s, now) == s.paused /\ ~s.initializing => s.pauseStart <= now

\* No pending command refers to the future.
Referred == \A k \in DOMAIN cmds : cmds[k].ref <= clock

\* What is so when a change leaves the fields s as t, at time now.
Proper(s, t, now) == t \in DripFields /\ PauseBegan(t, now) /\ t.n \in {s.n, 0}

\* A change of the rate (remoten/fps, remoten/newfps): the period is never 0.
LEMMA ResetFpsProper ==
    ASSUME NEW s \in DripFields, NEW now \in Nat, PauseBegan(s, now),
           NEW r \in Nat, NEW p \in Periods
    PROVE  Proper(s, ResetFps(s, r, p), now)
<1>1. s.start \in Int /\ s.period \in Nat /\ s.period > 0 /\ p \in Nat
  <2>1. s.start \in Int /\ s.period \in Periods \cup {Slowest}
    BY DEF DripFields
  <2>2. \A x \in Periods \cup {Slowest} : x \in Nat /\ x > 0
    BY DripAssumption
  <2>3. QED
    BY <2>1, <2>2
<1>2. PICK x : x = (r - s.start) * p
  OBVIOUS
<1>3. x \in Int
  BY <1>1, <1>2
<1>4. PICK y : y = x \div s.period
  OBVIOUS
<1>5. y \in Int
  BY <1>1, <1>3, <1>4
<1>6. ResetFps(s, r, p) = [s EXCEPT !.start = r - y, !.period = p]
  BY <1>2, <1>4 DEF ResetFps
<1>7. r - y \in Int
  BY <1>5
<1>8. QED
  BY <1>6, <1>7 DEF Proper, PauseBegan, DripFields

\* The beginning of a pause, at a time that is not in the future.
LEMMA HoldProper ==
    ASSUME NEW s \in DripFields, NEW now \in Nat, NEW r \in Nat, r <= now
    PROVE  Proper(s, Hold(s, r), now)
  BY DEF Hold, Proper, PauseBegan, DripFields

\* The end of a pause: the schedule is later by its length.
LEMMA GoOnProper ==
    ASSUME NEW s \in DripFields, NEW now \in Nat, NEW r \in Nat
    PROVE  Proper(s, GoOn(s, r), now)
<1>1. PICK x : x = s.start + r - s.pauseStart
  OBVIOUS
<1>2. x \in Int
  BY <1>1 DEF DripFields
<1>3. GoOn(s, r) = [s EXCEPT !.paused = FALSE, !.start = x]
  BY <1>1 DEF GoOn, DripFields
<1>4. QED
  BY <1>2, <1>3 DEF Proper, PauseBegan, DripFields

\* decode() before /start.
LEMMA ObeyInitProper ==
    ASSUME NEW s \in DripFields, NEW now \in Nat, NEW m \in Message, s.initializing
    PROVE  Proper(s, ObeyInit(s, m, now), now)
<1> DEFINE t == ObeyInit(s, m, now)
<1>1. CASE m.cmd = "/start"
  <2>1. m.arg \in Int
    BY <1>1 DEF Message
  <2>2. PICK x : x = IF m.ref = Now THEN now + m.arg ELSE m.arg
    OBVIOUS
  <2>3. x \in Int
    BY <2>1, <2>2
  <2>4. t = [s EXCEPT !.start = x, !.initializing = FALSE, !.paused = FALSE, !.n = 0]
    BY <1>1, <2>2 DEF ObeyInit
  <2>5. t = [start |-> x, period |-> s.period, paused |-> FALSE, pauseStart |-> s.pauseStart,
             n |-> 0, predisplay |-> s.predisplay, count |-> s.count, initializing |-> FALSE,
             flush |-> s.flush]
    BY <2>4 DEF DripFields
  <2>6. QED
    BY <2>3, <2>5 DEF Proper, PauseBegan, DripFields
<1>2. CASE m.cmd = "/fps"
  <2>1. m.arg \in Periods
    BY <1>2 DEF Message
  <2>2. t = [s EXCEPT !.period = m.arg]
    BY <1>2 DEF ObeyInit
  <2>3. QED
    BY <2>1, <2>2 DEF Proper, PauseBegan, DripFields
<1>3. CASE m.cmd = "/count"
  <2>1. m.arg \in Int /\ m.arg >= -1
    BY <1>3 DEF Message
  <2>2. t = [s EXCEPT !.count = m.arg, !.n = 0]
    BY <1>3 DEF ObeyInit
  <2>3. t = [start |-> s.start, period |-> s.period, paused |-> s.paused,
             pauseStart |-> s.pauseStart, n |-> 0, predisplay |-> s.predisplay,
             count |-> m.arg, initializing |-> s.initializing, flush |-> s.flush]
    BY <2>2 DEF DripFields
  <2>4. QED
    BY <2>1, <2>3 DEF Proper, PauseBegan, DripFields
<1>4. CASE m.cmd = "/predisplay-first"
  <2>1. t = [s EXCEPT !.predisplay = TRUE]
    BY <1>4 DEF ObeyInit
  <2>2. QED
    BY <2>1 DEF Proper, PauseBegan, DripFields
<1>5. CASE m.cmd \notin {"/start", "/fps", "/count", "/predisplay-first"}
  <2>1. t = s
    BY <1>5 DEF ObeyInit
  <2>2. QED
    BY <2>1 DEF Proper, PauseBegan, DripFields
<1>6. QED
  BY <1>1, <1>2, <1>3, <1>4, <1>5

\* decode() after /start.
LEMMA ObeyRunningProper ==
    ASSUME NEW s \in DripFields, NEW now \in Nat, PauseBegan(s, now),
           NEW m \in Message, m.ref <= now
    PROVE  Proper(s, ObeyRunning(s, m, now), now)
<1> DEFINE t == ObeyRunning(s, m, now)
<1>1. PICK r : r = IF m.ref = Now THEN now ELSE m.ref
  OBVIOUS
<1>2. r \in Nat /\ r <= now
  <2>1. m.ref \in Nat \cup {Now}
    BY DEF Message
  <2>2. QED
    BY <1>1, <2>1
<1>3. Proper(s, s, now)
  BY DEF Proper
<1>4. CASE m.cmd = "/reset"
  <2>1. t = [s EXCEPT !.initializing = TRUE]
    BY <1>4 DEF ObeyRunning
  <2>2. QED
    BY <2>1 DEF Proper, PauseBegan, DripFields
<1>5. CASE m.cmd = "/flush"
  <2>1. t = [s EXCEPT !.flush = TRUE]
    BY <1>5 DEF ObeyRunning
  <2>2. QED
    BY <2>1 DEF Proper, PauseBegan, DripFields
<1>6. CASE m.cmd \in {"/fps", "/fpsnow"}
  <2>1. m.arg \in Periods
    BY <1>6 DEF Message
  <2>2. t = ResetFps(s, r, m.arg)
    BY <1>1, <1>6 DEF ObeyRunning
  <2>3. QED
    BY <1>2, <2>1, <2>2, ResetFpsProper
<1>7. CASE m.cmd = "/pause"
  <2>1. t = IF s.paused THEN GoOn(s, r) ELSE Hold(s, r)
    BY <1>1, <1>7 DEF ObeyRunning
  <2>2. QED
    BY <1>2, <2>1, GoOnProper, HoldProper
<1>8. CASE m.cmd = "/pausenow"
  <2>1. t = IF s.paused /\ ~m.arg THEN GoOn(s, r) ELSE IF ~s.paused /\ m.arg THEN Hold(s, r) ELSE s
    BY <1>1, <1>8 DEF ObeyRunning
  <2>2. t \in {s, GoOn(s, r), Hold(s, r)}
    BY <2>1, Zenon
  <2>3. QED
    BY <1>2, <1>3, <2>2, GoOnProper, HoldProper
<1>9. CASE m.cmd \notin {"/reset", "/flush", "/fps", "/fpsnow", "/pause", "/pausenow"}
  <2>1. t = s
    BY <1>9 DEF ObeyRunning
  <2>2. QED
    BY <1>3, <2>1
<1>10. QED
  BY <1>4, <1>5, <1>6, <1>7, <1>8, <1>9

\* decode(): the fields keep their types, and no command but the first ones moves n.
LEMMA ObeyedProper ==
    ASSUME NEW s \in DripFields, NEW now \in Nat, PauseBegan(s, now),
           NEW m \in Message, m.ref <= now
    PROVE  Proper(s, Obeyed(s, m, now), now)
  BY ObeyInitProper, ObeyRunningProper DEF Obeyed

\* The count of images that remain (/count) is never below -1, and one image is counted.
LEMMA CountedProper ==
    ASSUME NEW s \in DripFields, NEW now \in Nat, PauseBegan(s, now)
    PROVE  /\ CountAfterSend([s EXCEPT !.n = @ + 1]) \in DripFields
           /\ PauseBegan(CountAfterSend([s EXCEPT !.n = @ + 1]), now)
<1>1. PICK u : u = [s EXCEPT !.n = @ + 1]
  OBVIOUS
<1>2. /\ u \in DripFields /\ u.count = s.count
      /\ u.paused = s.paused /\ u.initializing = s.initializing /\ u.pauseStart = s.pauseStart
  <2>1. u = [start |-> s.start, period |-> s.period, paused |-> s.paused,
             pauseStart |-> s.pauseStart, n |-> s.n + 1, predisplay |-> s.predisplay,
             count |-> s.count, initializing |-> s.initializing, flush |-> s.flush]
    BY <1>1 DEF DripFields
  <2>2. s.n + 1 \in Nat
    BY DEF DripFields
  <2>3. QED
    BY <2>1, <2>2 DEF DripFields
<1>3. CASE u.count < 0
  <2>1. CountAfterSend(u) = u
    BY <1>3 DEF CountAfterSend
  <2>2. QED
    BY <1>1, <1>2, <2>1 DEF PauseBegan
<1>4. CASE ~(u.count < 0)
  <2>1. PICK b : b = (u.initializing \/ u.count = 1)
    OBVIOUS
  <2>2. b \in BOOLEAN /\ (~b => ~u.initializing)
    BY <2>1, Zenon
  <2>3. PICK t : t = CountAfterSend(u)
    OBVIOUS
  <2>4. PICK c : c = u.count - 1
    OBVIOUS
  <2>5. c \in Int /\ c >= -1
    <3>1. u.count \in Int
      BY <1>2 DEF DripFields
    <3>2. QED
      BY <1>4, <2>4, <3>1
  <2>6. t = [u EXCEPT !.count = c, !.initializing = b]
    <3>1. t = [u EXCEPT !.count = u.count - 1, !.initializing = (u.initializing \/ u.count = 1)]
      BY <1>4, <2>3 DEF CountAfterSend
    <3>2. QED
      BY <2>1, <2>4, <3>1, Zenon
  <2>7. t = [start |-> u.start, period |-> u.period, paused |-> u.paused,
             pauseStart |-> u.pauseStart, n |-> u.n, predisplay |-> u.predisplay,
             count |-> c, initializing |-> b, flush |-> u.flush]
    BY <1>2, <2>6 DEF DripFields
  <2>8. t \in DripFields
    BY <1>2, <2>2, <2>5, <2>7 DEF DripFields
  <2>9. t.paused = s.paused /\ t.pauseStart = s.pauseStart /\ t.initializing = b
    BY <1>2, <2>7
  <2>10. ~b => ~s.initializing
    BY <1>2, <2>2
  <2>11. PauseBegan(t, now)
    BY <2>9, <2>10 DEF PauseBegan
  <2>12. QED
    BY <1>1, <2>3, <2>8, <2>11
<1>5. QED
  BY <1>3, <1>4

-----------------------------------------------------------------------------
(* The invariant of the drip of one movie.                                 *)

DripShape ==
    /\ clock \in Nat /\ cmds \in Seq(Message) /\ images \in 0 .. MaxImages
    /\ at \in {"top", "flush", "init", "test", "paused", "sleep", "pop"}
    /\ dp \in DripFields /\ PauseBegan(dp, clock)
    /\ Referred

\* The time of the next image, and whether it is shown at once.
Due(s) == s.start + s.n * s.period
AtOnce == dp.predisplay /\ dp.n = 0

\* Asleep, the thread waits for the time of the next image, and no pause began; awake,
\* it is past that time unless a command was obeyed since; and no image left in a pause
\* that begins now.
OnSchedule ==
    /\ at = "sleep" => ~changed /\ ~dp.paused /\ (AtOnce \/ wakeAt = Due(dp))
    /\ at = "pop" => changed \/ AtOnce \/ (~dp.paused /\ clock >= Due(dp))
    /\ at = "pop" /\ ~changed => ~dp.paused
    /\ at = "pop" /\ dp.paused => inPause = 0

DripInv == DripShape /\ OnSchedule

\* What the type invariant says follows.
LEMMA ShapeTypes == DripShape => DripTypeOK
<1> SUFFICES ASSUME DripShape PROVE DripTypeOK
  OBVIOUS
<1>1. /\ dp.start \in Int /\ dp.period \in Periods \cup {Slowest} /\ dp.n \in Nat
      /\ dp.paused \in BOOLEAN /\ dp.initializing \in BOOLEAN
      /\ dp.count \in Int /\ dp.count >= -1
  BY DEF DripShape, DripFields
<1>2. QED
  BY <1>1 DEF DripShape, DripTypeOK, PauseBegan

\* A time is a number.
LEMMA DueIsInt == ASSUME NEW s \in DripFields PROVE Due(s) \in Int
<1>1. s.start \in Int /\ s.n \in Int /\ s.period \in Int
  <2>1. s.start \in Int /\ s.period \in Periods \cup {Slowest} /\ s.n \in Nat
    BY DEF DripFields
  <2>2. \A x \in Periods \cup {Slowest} : x \in Int
    BY DripAssumption
  <2>3. QED
    BY <2>1, <2>2
<1>2. QED
  BY <1>1 DEF Due

\* At the beginning the thread waits for /start, with the first commands.
LEMMA DripInitInv == DripInit => DripInv
<1> SUFFICES ASSUME DripInit PROVE DripInv
  OBVIOUS
<1>1. dp \in DripFields /\ PauseBegan(dp, clock)
  BY DripAssumption DEF DripInit, DripFields, PauseBegan
<1>2. cmds \in Seq(Message) /\ \A k \in DOMAIN cmds : cmds[k].ref \in {0, Now}
  BY DripAssumption DEF DripInit
<1>3. Referred
  BY <1>2 DEF Referred, DripInit, Now
<1>4. QED
  BY <1>1, <1>2, <1>3, DripAssumption DEF DripInv, DripShape, OnSchedule, DripInit

\* Every command that is sent is one the drip understands, and refers to no later time.
LEMMA Sent ==
    ASSUME clock \in Nat, TellTimed \/ TellNow \/ TellFlush \/ TellReset \/ TellStart
    PROVE  \E m \in Message : m.ref <= clock /\ Tell(m)
<1>1. CASE TellTimed
  <2>1. CASE Tell(Msg("/pause", 0, clock))
    <3>1. Msg("/pause", 0, clock) \in Message /\ Msg("/pause", 0, clock).ref <= clock
      BY DEF Msg, Message
    <3>2. QED
      BY <2>1, <3>1
  <2>2. ASSUME NEW p \in Periods, Tell(Msg("/fps", p, clock))
        PROVE  \E m \in Message : m.ref <= clock /\ Tell(m)
    <3>1. Msg("/fps", p, clock) \in Message /\ Msg("/fps", p, clock).ref <= clock
      BY DEF Msg, Message
    <3>2. QED
      BY <2>2, <3>1
  <2>3. QED
    BY <1>1, <2>1, <2>2 DEF TellTimed
<1>2. CASE TellNow
  <2>1. ASSUME NEW b \in BOOLEAN, Tell(Msg("/pausenow", b, Now))
        PROVE  \E m \in Message : m.ref <= clock /\ Tell(m)
    <3>1. Msg("/pausenow", b, Now) \in Message /\ Msg("/pausenow", b, Now).ref <= clock
      BY DEF Msg, Message, Now
    <3>2. QED
      BY <2>1, <3>1
  <2>2. ASSUME NEW p \in Periods, Tell(Msg("/fpsnow", p, Now))
        PROVE  \E m \in Message : m.ref <= clock /\ Tell(m)
    <3>1. Msg("/fpsnow", p, Now) \in Message /\ Msg("/fpsnow", p, Now).ref <= clock
      BY DEF Msg, Message, Now
    <3>2. QED
      BY <2>2, <3>1
  <2>3. QED
    BY <1>2, <2>1, <2>2 DEF TellNow
<1>3. CASE TellFlush
  <2>1. Msg("/flush", 0, 0) \in Message /\ Msg("/flush", 0, 0).ref <= clock
    BY DEF Msg, Message
  <2>2. QED
    BY <1>3, <2>1 DEF TellFlush
<1>4. CASE TellReset
  <2>1. Msg("/reset", 0, 0) \in Message /\ Msg("/reset", 0, 0).ref <= clock
    BY DEF Msg, Message
  <2>2. QED
    BY <1>4, <2>1 DEF TellReset
<1>5. CASE TellStart
  <2>1. ASSUME NEW t \in {clock, clock + Grain}, Tell(Msg("/start", t, clock))
        PROVE  \E m \in Message : m.ref <= clock /\ Tell(m)
    <3>1. Msg("/start", t, clock) \in Message /\ Msg("/start", t, clock).ref <= clock
      BY DripAssumption DEF Msg, Message
    <3>2. QED
      BY <2>1, <3>1
  <2>2. ASSUME NEW t \in {0, Grain}, Tell(Msg("/start", t, Now))
        PROVE  \E m \in Message : m.ref <= clock /\ Tell(m)
    <3>1. Msg("/start", t, Now) \in Message /\ Msg("/start", t, Now).ref <= clock
      BY DripAssumption DEF Msg, Message, Now
    <3>2. QED
      BY <2>2, <3>1
  <2>3. QED
    BY <1>5, <2>1, <2>2 DEF TellStart
<1>6. QED
  BY <1>1, <1>2, <1>3, <1>4, <1>5

\* Obeying the first pending command leaves proper fields and commands.
LEMMA HeadObeyed ==
    ASSUME DripShape, cmds # <<>>, ObeyHead
    PROVE  /\ Proper(dp, dp', clock)
           /\ cmds' \in Seq(Message)
           /\ \A k \in DOMAIN cmds' : cmds'[k].ref <= clock
<1>1. cmds \in Seq(Message) /\ cmds' = Tail(cmds) /\ clock \in Nat
  BY DEF DripShape, ObeyHead
<1>2. Len(cmds) \in Nat /\ Len(cmds) > 0
  BY <1>1, EmptySeq
<1>3. Head(cmds) = cmds[1] /\ Head(cmds) \in Message
  BY <1>1, <1>2, HeadTailProperties
<1>4. /\ Tail(cmds) \in Seq(Message) /\ Len(Tail(cmds)) = Len(cmds) - 1
      /\ \A k \in 1 .. Len(cmds) - 1 : Tail(cmds)[k] = cmds[k + 1]
  BY <1>1, <1>2, HeadTailProperties
<1>5. \A k \in 1 .. Len(cmds) : cmds[k].ref <= clock
  BY <1>1 DEF DripShape, Referred
<1>6. Proper(dp, dp', clock)
  <2>1. dp' = Obeyed(dp, Head(cmds), clock)
    BY DEF ObeyHead
  <2>2. Head(cmds).ref <= clock
    BY <1>2, <1>3, <1>5
  <2>3. QED
    BY <1>1, <1>3, <2>1, <2>2, ObeyedProper DEF DripShape
<1>7. ASSUME NEW k \in DOMAIN cmds' PROVE cmds'[k].ref <= clock
  <2>1. k \in 1 .. Len(cmds) - 1
    BY <1>1, <1>4
  <2>2. k + 1 \in 1 .. Len(cmds)
    BY <1>2, <2>1
  <2>3. QED
    BY <1>1, <1>4, <1>5, <2>1, <2>2
<1>8. QED
  BY <1>1, <1>4, <1>6, <1>7

-----------------------------------------------------------------------------
(* The steps of the drip of one movie.                                     *)

\* Every step keeps the types, and the references of the commands in the past.
LEMMA ShapeStep == DripShape /\ [DripNext]_dripVars => DripShape'
<1> SUFFICES ASSUME DripShape, [DripNext]_dripVars PROVE DripShape'
  OBVIOUS
<1>1. CASE UNCHANGED dripVars
  BY <1>1 DEF dripVars, DripShape, Referred, PauseBegan
<1>2. CASE Tick
  <2>1. clock \in Nat /\ clock' \in Nat /\ clock <= clock'
    BY <1>2, DripAssumption DEF Tick, DripShape
  <2>2. dp' = dp /\ cmds' = cmds /\ images' = images /\ at' = at
    BY <1>2 DEF Tick
  <2>3. PauseBegan(dp, clock)'
    <3>1. dp.pauseStart \in Nat
      BY DEF DripShape, DripFields
    <3>2. QED
      BY <2>1, <2>2, <3>1 DEF DripShape, PauseBegan
  <2>4. Referred'
    <3>1. ASSUME NEW k \in DOMAIN cmds PROVE cmds[k].ref <= clock'
      <4>1. cmds[k] \in Message /\ cmds[k].ref <= clock
        BY <3>1 DEF DripShape, Referred
      <4>2. cmds[k].ref \in Int
        BY <4>1 DEF Message, Now
      <4>3. QED
        BY <2>1, <4>1, <4>2
    <3>2. QED
      BY <2>2, <3>1 DEF Referred
  <2>5. QED
    BY <2>1, <2>2, <2>3, <2>4 DEF DripShape
<1>3. CASE Arrive
  <2>1. images' \in 0 .. MaxImages
    BY <1>3, DripAssumption DEF Arrive, DripShape
  <2>2. QED
    BY <1>3, <2>1 DEF Arrive, DripShape, Referred, PauseBegan
<1>4. CASE Turn
  <2>1. at' \in {"flush", "init", "paused", "sleep"}
    BY <1>4 DEF Turn
  <2>2. QED
    BY <1>4, <2>1 DEF Turn, DripShape, Referred, PauseBegan
<1>5. ASSUME cmds # <<>>, ObeyHead, UNCHANGED <<clock, images>>,
             at' \in {"top", "test", "init", "paused", "pop", "flush"}
      PROVE  DripShape'
  <2>1. Proper(dp, dp', clock) /\ cmds' \in Seq(Message) /\ \A k \in DOMAIN cmds' : cmds'[k].ref <= clock
    BY <1>5, HeadObeyed
  <2>2. Referred'
    BY <1>5, <2>1 DEF Referred
  <2>3. QED
    BY <1>5, <2>1, <2>2 DEF DripShape, Proper, PauseBegan
<1>6. CASE ObeyInWait
  <2>1. at' \in {"top", "test", "init", "paused"}
    BY <1>6 DEF ObeyInWait
  <2>2. QED
    BY <1>5, <1>6, <2>1 DEF ObeyInWait
<1>7. CASE ObeyInPop
  BY <1>5, <1>7 DEF ObeyInPop
<1>8. CASE FlushImage
  <2>1. images' \in 0 .. MaxImages
    BY <1>8, DripAssumption DEF FlushImage, DripShape
  <2>2. QED
    BY <1>8, <2>1 DEF FlushImage, DripShape, Referred, PauseBegan
<1>9. CASE Flushed
  <2>1. dp' \in DripFields /\ PauseBegan(dp, clock)'
    BY <1>9 DEF Flushed, DripShape, DripFields, PauseBegan
  <2>2. QED
    BY <1>9, <2>1 DEF Flushed, DripShape, Referred
<1>10. CASE Wake
  BY <1>10 DEF Wake, DripShape, Referred, PauseBegan
<1>11. CASE SendImage
  <2>1. images' \in 0 .. MaxImages
    BY <1>11, DripAssumption DEF SendImage, DripShape
  <2>2. dp' \in DripFields /\ PauseBegan(dp', clock)
    BY <1>11, CountedProper DEF SendImage, DripShape
  <2>3. QED
    BY <1>11, <2>1, <2>2 DEF SendImage, DripShape, Referred, PauseBegan
<1>12. CASE TellTimed \/ TellNow \/ TellFlush \/ TellReset \/ TellStart
  <2>1. clock \in Nat
    BY DEF DripShape
  <2>2. PICK m \in Message : m.ref <= clock /\ Tell(m)
    BY <1>12, <2>1, Sent
  <2>3. cmds \in Seq(Message) /\ cmds' = Append(cmds, m)
    BY <2>2 DEF Tell, DripShape
  <2>4. /\ cmds' \in Seq(Message) /\ Len(cmds') = Len(cmds) + 1 /\ Len(cmds) \in Nat
        /\ \A k \in 1 .. Len(cmds) : cmds'[k] = cmds[k]
        /\ cmds'[Len(cmds) + 1] = m
    BY <2>3, AppendProperties
  <2>5. Referred'
    <3>1. ASSUME NEW k \in DOMAIN cmds' PROVE cmds'[k].ref <= clock
      <4>1. k \in 1 .. Len(cmds) \/ k = Len(cmds) + 1
        BY <2>4
      <4>2. ASSUME k \in 1 .. Len(cmds) PROVE cmds'[k].ref <= clock
        BY <2>3, <2>4, <4>2 DEF DripShape, Referred
      <4>3. QED
        BY <2>2, <2>4, <4>1, <4>2
    <3>2. QED
      BY <2>2, <3>1 DEF Referred, Tell
  <2>6. QED
    BY <2>2, <2>4, <2>5 DEF Tell, DripShape, PauseBegan
<1>13. QED
  BY <1>1, <1>2, <1>3, <1>4, <1>6, <1>7, <1>8, <1>9, <1>10, <1>11, <1>12 DEF DripNext, Thread

\* A step leaves the thread on schedule.
LEMMA ScheduleStep == DripInv /\ [DripNext]_dripVars => OnSchedule'
<1> SUFFICES ASSUME DripInv, [DripNext]_dripVars PROVE OnSchedule'
  OBVIOUS
<1>1. ASSUME UNCHANGED <<dp, at, wakeAt, changed, inPause>>, clock' >= clock, clock' \in Int
      PROVE  OnSchedule'
  <2>1. PICK d : d = Due(dp)
    OBVIOUS
  <2>2. d \in Int /\ clock \in Int /\ Due(dp)' = d
    BY <1>1, <2>1, DueIsInt DEF DripInv, DripShape, Due
  <2>3. clock >= d => clock' >= d
    BY <1>1, <2>2
  <2>4. QED
    BY <1>1, <2>1, <2>2, <2>3 DEF DripInv, OnSchedule, AtOnce
<1>2. clock \in Int
  BY DEF DripInv, DripShape
<1>3. CASE UNCHANGED dripVars
  BY <1>1, <1>2, <1>3 DEF dripVars
<1>4. CASE Tick
  <2>1. clock' >= clock /\ clock' \in Int
    BY <1>2, <1>4, DripAssumption DEF Tick
  <2>2. QED
    BY <1>1, <1>4, <2>1 DEF Tick
<1>5. CASE Arrive \/ FlushImage
  BY <1>1, <1>2, <1>5 DEF Arrive, FlushImage
<1>6. CASE Turn
  <2>1. CASE at' = "sleep"
    <3>1. ~dp.paused /\ changed' = FALSE /\ dp' = dp
      BY <1>6, <2>1 DEF Turn
    <3>2. AtOnce \/ wakeAt' = Due(dp)
      BY <1>6, <2>1 DEF Turn, Due, AtOnce
    <3>3. QED
      BY <2>1, <3>1, <3>2 DEF OnSchedule, AtOnce, Due
  <2>2. CASE at' # "sleep"
    <3>1. at' # "pop"
      BY <1>6 DEF Turn
    <3>2. QED
      BY <2>2, <3>1 DEF OnSchedule
  <2>3. QED
    BY <2>1, <2>2
<1>7. CASE ObeyInWait
  <2>1. at' # "sleep" /\ at' # "pop"
    BY <1>7 DEF ObeyInWait
  <2>2. QED
    BY <2>1 DEF OnSchedule
<1>8. CASE ObeyInPop
  <2>1. at' = at /\ at # "sleep" /\ changed' = TRUE /\ inPause' = IF dp.paused THEN inPause ELSE 0
    BY <1>8 DEF ObeyInPop, ObeyHead
  <2>2. at' = "pop" => inPause' = 0
    BY <2>1 DEF DripInv, OnSchedule
  <2>3. QED
    BY <2>1, <2>2 DEF OnSchedule
<1>9. CASE Flushed \/ SendImage
  BY <1>9 DEF Flushed, SendImage, OnSchedule
<1>10. CASE Wake
  <2>1. /\ at = "sleep" /\ at' = "pop" /\ clock >= wakeAt /\ UNCHANGED <<clock, dp, changed, inPause>>
    BY <1>10 DEF Wake
  <2>2. AtOnce \/ clock >= Due(dp)
    BY <2>1 DEF DripInv, OnSchedule
  <2>3. ~dp.paused
    BY <2>1 DEF DripInv, OnSchedule
  <2>4. QED
    BY <2>1, <2>2, <2>3 DEF OnSchedule, AtOnce, Due
<1>11. CASE TellTimed \/ TellNow \/ TellFlush \/ TellReset \/ TellStart
  <2>1. clock \in Nat
    BY DEF DripInv, DripShape
  <2>2. PICK m \in Message : Tell(m)
    BY <1>11, <2>1, Sent
  <2>3. QED
    BY <1>1, <1>2, <2>2 DEF Tell
<1>12. QED
  BY <1>3, <1>4, <1>5, <1>6, <1>7, <1>8, <1>9, <1>10, <1>11 DEF DripNext, Thread

\* Only sending an image counts one, and only when it is due (loop()).
LEMMA LeavesStep ==
    ASSUME DripInv, [DripNext]_dripVars, dp'.n = dp.n + 1
    PROVE  /\ changed \/ (dp.predisplay /\ dp.n = 0) \/ (~dp.paused /\ clock >= dp.start + dp.n * dp.period)
           /\ dp.paused => inPause = 0
<1>1. dp.n \in Nat
  BY DEF DripInv, DripShape, DripFields
<1>2. dp'.n # dp.n /\ dp'.n # 0
  BY <1>1
<1>3. ~ObeyInWait /\ ~ObeyInPop
  <2>1. cmds # <<>> /\ ObeyHead => dp'.n \in {dp.n, 0}
    BY HeadObeyed DEF DripInv, Proper
  <2>2. QED
    BY <1>2, <2>1 DEF ObeyInWait, ObeyInPop
<1>4. ~Flushed
  BY <1>2 DEF Flushed, DripInv, DripShape, DripFields
<1>5. dp' # dp
  BY <1>2
<1>6. ~(TellTimed \/ TellNow \/ TellFlush \/ TellReset \/ TellStart)
  <2>1. \A m \in Message : ~Tell(m)
    BY <1>5 DEF Tell
  <2>2. clock \in Nat
    BY DEF DripInv, DripShape
  <2>3. QED
    BY <2>1, <2>2, Sent
<1>7. SendImage
  BY <1>3, <1>4, <1>5, <1>6 DEF DripNext, Thread, Tick, Arrive, Turn, FlushImage, Wake, dripVars
<1>8. at = "pop"
  BY <1>7 DEF SendImage
<1>9. QED
  BY <1>8 DEF DripInv, OnSchedule, AtOnce, Due

-----------------------------------------------------------------------------
(* The theorems about the drip of one movie.                               *)

\* The invariant is inductive, and holds in every state.
THEOREM DripInvariance == DripSpec => []DripInv
<1>1. DripInv /\ [DripNext]_dripVars => DripInv'
  BY ShapeStep, ScheduleStep DEF DripInv
<1>2. QED
  BY <1>1, DripInitInv, PTL DEF DripSpec

\* The types, for any rates and any first commands: no period is ever 0 (so no division by
\* 0 in remoten/fps), the count never falls below -1 (loop() counts down), and a pause did
\* not begin later than now.
THEOREM DripTypeCorrect == DripSpec => []DripTypeOK
<1>1. DripInv => DripTypeOK
  BY ShapeTypes DEF DripInv
<1>2. QED
  BY <1>1, DripInvariance, PTL

\* Whatever commands are sent and whenever they are obeyed, an image leaves when it is due
\* and no pause holds it, unless a command was obeyed while loop() waited in the pop; and
\* one image at most slips through a pause.
THEOREM LeavesWhenDue == DripSpec => LeavesInTime
<1>1. DripInv /\ [DripNext]_dripVars =>
        [dp'.n = dp.n + 1 =>
           /\ \/ changed
              \/ dp.predisplay /\ dp.n = 0
              \/ ~dp.paused /\ clock >= dp.start + dp.n * dp.period
           /\ dp.paused => inPause = 0]_dripVars
  BY LeavesStep
<1>2. QED
  BY <1>1, DripInvariance, PTL DEF DripSpec, LeavesInTime

-----------------------------------------------------------------------------
(* The arithmetic of the schedule: where the film is, and that no command    *)
(* makes it jump.                                                            *)

\* The position at time t, in the units of HeadPos: Slowest \div period per unit of time.
Position(s, t) == ((IF s.paused THEN s.pauseStart ELSE t) - s.start) * (Slowest \div s.period)

\* No time has to be rounded: the code reckons in fractions of seconds, the model in units.
Exact(s, r, p) == \E k \in Int : (r - s.start) * p = k * s.period

\* Division without remainder.
LEMMA ExactDivision ==
    ASSUME NEW k \in Int, NEW p \in Nat, p > 0
    PROVE  (k * p) \div p = k
<1>1. PICK x : x = k * p
  OBVIOUS
<1>2. x \in Int
  BY <1>1
<1>3. PICK q : q = x \div p
  OBVIOUS
<1>4. q \in Int /\ q * p <= x /\ x < (q + 1) * p
  BY <1>2, <1>3
<1>5. q <= k
  <2>1. SUFFICES ASSUME k + 1 <= q PROVE FALSE
    BY <1>4
  <2>2. (k + 1) * p <= q * p
    BY <2>1, <1>4
  <2>3. (k + 1) * p = x + p
    BY <1>1
  <2>4. (k + 1) * p \in Int /\ q * p \in Int
    BY <1>4
  <2>5. QED
    BY <1>2, <1>4, <2>2, <2>3, <2>4
<1>6. k <= q
  <2>1. SUFFICES ASSUME q + 1 <= k PROVE FALSE
    BY <1>4
  <2>2. (q + 1) * p <= k * p
    BY <2>1, <1>4
  <2>3. QED
    BY <1>1, <1>2, <1>4, <2>2
<1>7. QED
  BY <1>1, <1>3, <1>4, <1>5, <1>6

\* A change of the rate keeps the position at its time.
LEMMA RateKeepsPosition ==
    ASSUME NEW s \in DripFields, ~s.paused, NEW r \in Int, NEW p \in Periods, Exact(s, r, p),
           NEW a \in Nat, Slowest = a * p, NEW b \in Nat, Slowest = b * s.period
    PROVE  Position(ResetFps(s, r, p), r) = Position(s, r)
<1>1. /\ s.start \in Int /\ s.period \in Nat /\ s.period > 0 /\ p \in Nat /\ p > 0
      /\ Slowest \in Nat
  <2>1. s.start \in Int /\ s.period \in Periods \cup {Slowest}
    BY DEF DripFields
  <2>2. \A x \in Periods \cup {Slowest} : x \in Nat /\ x > 0
    BY DripAssumption
  <2>3. QED
    BY <2>1, <2>2
<1>2. PICK k \in Int : (r - s.start) * p = k * s.period
  BY DEF Exact
<1>3. Slowest \div s.period = b /\ Slowest \div p = a
  BY <1>1, ExactDivision
<1>4. ((r - s.start) * p) \div s.period = k
  BY <1>1, <1>2, ExactDivision
<1>5. PICK y : y = r - k
  OBVIOUS
<1>6. ResetFps(s, r, p) = [s EXCEPT !.start = y, !.period = p]
  BY <1>4, <1>5 DEF ResetFps
<1>7. /\ ResetFps(s, r, p).start = y /\ ResetFps(s, r, p).period = p
      /\ ~ResetFps(s, r, p).paused
  BY <1>6 DEF DripFields
<1>8. Position(ResetFps(s, r, p), r) = k * a
  <2>1. r - y = k
    BY <1>5
  <2>2. QED
    BY <1>3, <1>7, <2>1 DEF Position
<1>9. Position(s, r) = (r - s.start) * b
  BY <1>3 DEF Position
<1>10. k * a = (r - s.start) * b
  <2>1. PICK d : d = r - s.start
    OBVIOUS
  <2>2. d \in Int
    BY <1>1, <2>1
  <2>3. d * p = k * s.period
    BY <1>2, <2>1
  <2>4. (k * a) * s.period = (d * b) * s.period
    <3>1. (k * a) * s.period = a * (k * s.period)
      BY <1>1
    <3>2. a * (d * p) = d * (a * p)
      BY <1>1, <2>2
    <3>3. d * (b * s.period) = (d * b) * s.period
      BY <1>1, <2>2
    <3>4. QED
      BY <2>3, <3>1, <3>2, <3>3
  <2>5. PICK u, v : u = k * a /\ v = d * b
    OBVIOUS
  <2>6. u \in Int /\ v \in Int /\ u * s.period = v * s.period
    BY <2>2, <2>4, <2>5
  <2>7. (u * s.period) \div s.period = u /\ (v * s.period) \div s.period = v
    BY <1>1, <2>6, ExactDivision
  <2>8. QED
    BY <2>1, <2>5, <2>6, <2>7
<1>11. QED
  BY <1>8, <1>9, <1>10

\* A pause and its end keep the position at their time.
LEMMA PauseKeepsPosition ==
    ASSUME NEW s \in DripFields, NEW r \in Nat
    PROVE  /\ ~s.paused => Position(Hold(s, r), r) = Position(s, r)
           /\ s.paused => Position(GoOn(s, r), r) = Position(s, r)
<1>1. s.start \in Int /\ s.pauseStart \in Int
  BY DEF DripFields
<1>2. ASSUME ~s.paused PROVE Position(Hold(s, r), r) = Position(s, r)
  <2>1. /\ Hold(s, r).paused /\ Hold(s, r).pauseStart = r
        /\ Hold(s, r).start = s.start /\ Hold(s, r).period = s.period
    BY DEF Hold, DripFields
  <2>2. QED
    BY <1>2, <2>1 DEF Position
<1>3. ASSUME s.paused PROVE Position(GoOn(s, r), r) = Position(s, r)
  <2>1. PICK x : x = s.start + r - s.pauseStart
    OBVIOUS
  <2>2. GoOn(s, r) = [s EXCEPT !.paused = FALSE, !.start = x]
    BY <2>1 DEF GoOn, DripFields
  <2>3. ~GoOn(s, r).paused /\ GoOn(s, r).start = x /\ GoOn(s, r).period = s.period
    BY <2>2 DEF DripFields
  <2>4. r - x = s.pauseStart - s.start
    BY <1>1, <2>1
  <2>5. QED
    BY <1>3, <2>3, <2>4 DEF Position
<1>4. QED
  BY <1>2, <1>3

\* A command with a time reference r, obeyed at any later time, leaves the film at r where
\* it was, for all the rates whose periods divide Slowest (remoten/fps, remoten/newfps,
\* pluginDrip.hpp:65); a change of the rate in a pause is excepted, see the README.
THEOREM NoJump ==
    ASSUME NEW s \in DripFields, ~s.initializing, NEW now \in Nat,
           NEW m \in Message, m.cmd \in {"/fps", "/fpsnow", "/pause", "/pausenow"},
           NEW r \in Nat, r = IF m.ref = Now THEN now ELSE m.ref,
           \A p \in Periods \cup {Slowest} : \E a \in Nat : Slowest = a * p,
           m.cmd \in {"/fps", "/fpsnow"} => ~s.paused /\ Exact(s, r, m.arg)
    PROVE  Position(Obeyed(s, m, now), r) = Position(s, r)
<1> DEFINE t == Obeyed(s, m, now)
<1>1. t = ObeyRunning(s, m, now)
  BY DEF Obeyed
<1>2. CASE m.cmd \in {"/fps", "/fpsnow"}
  <2>1. m.arg \in Periods
    BY <1>2 DEF Message
  <2>2. t = ResetFps(s, r, m.arg)
    BY <1>1, <1>2 DEF ObeyRunning
  <2>3. s.period \in Periods \cup {Slowest}
    BY DEF DripFields
  <2>4. PICK a \in Nat : Slowest = a * m.arg
    BY <2>1
  <2>5. PICK b \in Nat : Slowest = b * s.period
    BY <2>3
  <2>6. QED
    BY <1>2, <2>1, <2>2, <2>4, <2>5, RateKeepsPosition
<1>3. CASE m.cmd = "/pause"
  <2>1. t = IF s.paused THEN GoOn(s, r) ELSE Hold(s, r)
    BY <1>1, <1>3 DEF ObeyRunning
  <2>2. QED
    BY <2>1, PauseKeepsPosition
<1>4. CASE m.cmd = "/pausenow"
  <2>1. t = IF s.paused /\ ~m.arg THEN GoOn(s, r) ELSE IF ~s.paused /\ m.arg THEN Hold(s, r) ELSE s
    BY <1>1, <1>4 DEF ObeyRunning
  <2>2. (s.paused /\ t = GoOn(s, r)) \/ (~s.paused /\ t = Hold(s, r)) \/ t = s
    BY <2>1, Zenon
  <2>3. QED
    BY <2>2, PauseKeepsPosition
<1>5. QED
  BY <1>2, <1>3, <1>4

-----------------------------------------------------------------------------
(* The schedule follows a playhead.  First, what obeying a sequence of       *)
(* messages means: induction over their number, by the least counterexample. *)

\* A non-empty set of natural numbers has a least one.
LEMMA LeastNatural ==
    ASSUME NEW S \in SUBSET Nat, S # {}
    PROVE  \E x \in S : \A y \in S : x <= y
<1> DEFINE R == {ss \in Nat \X Nat : ss[1] < ss[2]}
<1>1. IsWellFoundedOn(R, Nat)
  BY NatLessThanWellFounded, Zenon DEF OpToRel
<1>2. PICK x \in S : \A y \in S : ~(<<y, x>> \in R)
  BY <1>1, WFMin, Zenon
<1>3. ASSUME NEW y \in S
      PROVE  x <= y
  <2>1. x \in Nat /\ y \in Nat
    OBVIOUS
  <2>2. <<y, x>> \in Nat \X Nat /\ <<y, x>>[1] = y /\ <<y, x>>[2] = x
    BY <2>1
  <2>3. ~(y < x)
    BY <1>2, <2>2, Zenon
  <2>4. QED
    BY <2>1, <2>3
<1>4. QED
  BY <1>3

\* A set that holds 0, and after each of its numbers the next one up to n.
LEMMA UpTo ==
    ASSUME NEW n \in Nat, NEW S \in SUBSET Nat, 0 \in S,
           \A k \in 0 .. n : k \in S /\ k < n => k + 1 \in S
    PROVE  0 .. n \subseteq S
<1> SUFFICES ASSUME (0 .. n) \ S # {} PROVE FALSE
  OBVIOUS
<1>1. PICK x \in (0 .. n) \ S : \A y \in (0 .. n) \ S : x <= y
  <2>1. (0 .. n) \ S \in SUBSET Nat
    OBVIOUS
  <2>2. QED
    BY <2>1, LeastNatural
<1>2. x \in Nat /\ x # 0 /\ x <= n
  BY <1>1
<1>3. x - 1 \in 0 .. n /\ x - 1 < n
  BY <1>2
<1>4. x - 1 \in S
  BY <1>1, <1>2, <1>3
<1>5. (x - 1) + 1 = x
  BY <1>2
<1>6. QED
  BY <1>1, <1>3, <1>4, <1>5

\* The fields after each number of messages.
IsTrace(f, s, q, now, n) ==
    f = [k \in 0 .. n |-> IF k = 0 THEN s ELSE Obeyed(f[k - 1], q[k], now)]

\* There are such fields, however many messages there are.
LEMMA SomeTrace ==
    ASSUME NEW s, NEW q, NEW now, NEW n \in Nat
    PROVE  \E f : IsTrace(f, s, q, now, n)
<1> DEFINE S == {j \in Nat : \E f : IsTrace(f, s, q, now, j)}
<1>1. 0 \in S
  <2>1. IsTrace([k \in 0 .. 0 |-> s], s, q, now, 0)
    <3>1. \A k \in 0 .. 0 : k = 0
      OBVIOUS
    <3>2. QED
      BY <3>1 DEF IsTrace
  <2>2. QED
    BY <2>1
<1>2. ASSUME NEW j \in 0 .. n, j \in S, j < n PROVE j + 1 \in S
  <2>1. PICK f : IsTrace(f, s, q, now, j)
    BY <1>2
  <2>2. \A k \in 0 .. j : f[k] = IF k = 0 THEN s ELSE Obeyed(f[k - 1], q[k], now)
    BY <2>1 DEF IsTrace
  <2>3. PICK g : g = [k \in 0 .. j + 1 |-> IF k = j + 1 THEN Obeyed(f[j], q[j + 1], now) ELSE f[k]]
    OBVIOUS
  <2>4. \A k \in 0 .. j : g[k] = f[k]
    BY <2>3
  <2>5. ASSUME NEW k \in 0 .. j + 1
        PROVE  g[k] = IF k = 0 THEN s ELSE Obeyed(g[k - 1], q[k], now)
    <3>1. CASE k = j + 1
      <4>1. k # 0 /\ k - 1 = j /\ j \in 0 .. j
        BY <3>1
      <4>2. g[k - 1] = f[j]
        BY <2>4, <4>1
      <4>3. QED
        BY <2>3, <3>1, <4>1, <4>2
    <3>2. CASE k = 0
      <4>1. 0 \in 0 .. j
        OBVIOUS
      <4>2. QED
        BY <2>2, <2>4, <3>2, <4>1
    <3>3. CASE k # j + 1 /\ k # 0
      <4>1. k \in 0 .. j /\ k - 1 \in 0 .. j
        BY <3>3
      <4>2. QED
        BY <2>2, <2>4, <3>3, <4>1
    <3>4. QED
      BY <3>1, <3>2, <3>3
  <2>6. g = [k \in 0 .. j + 1 |-> g[k]]
    BY <2>3
  <2>7. IsTrace(g, s, q, now, j + 1)
    BY <2>5, <2>6 DEF IsTrace
  <2>8. QED
    BY <2>7
<1>3. n \in S
  <2>1. 0 .. n \subseteq S
    BY <1>1, <1>2, UpTo
  <2>2. QED
    BY <2>1
<1>4. QED
  BY <1>3

\* The equations of Obeying.
LEMMA ObeyingSteps ==
    ASSUME NEW s, NEW q, NEW now, Len(q) \in Nat
    PROVE  /\ Obeying(s, q, now)[0] = s
           /\ \A k \in 1 .. Len(q) : Obeying(s, q, now)[k] = Obeyed(Obeying(s, q, now)[k - 1], q[k], now)
<1> DEFINE f == Obeying(s, q, now)
<1>1. PICK g : IsTrace(g, s, q, now, Len(q))
  BY SomeTrace
<1>2. f = CHOOSE h : IsTrace(h, s, q, now, Len(q))
  BY DEF Obeying, IsTrace
<1>3. IsTrace(f, s, q, now, Len(q))
  BY <1>1, <1>2, Zenon
<1>4. QED
  BY <1>3 DEF IsTrace

\* Messages that two sequences share have the same effect.
LEMMA SamePrefix ==
    ASSUME NEW s, NEW q, NEW r, NEW now, Len(q) \in Nat, Len(r) \in Nat,
           NEW n \in Nat, n <= Len(q), n <= Len(r), \A k \in 1 .. n : q[k] = r[k]
    PROVE  \A k \in 0 .. n : Obeying(s, q, now)[k] = Obeying(s, r, now)[k]
<1> DEFINE S == {k \in Nat : Obeying(s, q, now)[k] = Obeying(s, r, now)[k]}
<1>1. 0 \in S
  BY ObeyingSteps
<1>2. ASSUME NEW k \in 0 .. n, k \in S, k < n PROVE k + 1 \in S
  <2>1. k + 1 \in 1 .. n /\ k + 1 \in 1 .. Len(q) /\ k + 1 \in 1 .. Len(r) /\ (k + 1) - 1 = k
    BY <1>2
  <2>2. /\ Obeying(s, q, now)[k + 1] = Obeyed(Obeying(s, q, now)[k], q[k + 1], now)
        /\ Obeying(s, r, now)[k + 1] = Obeyed(Obeying(s, r, now)[k], r[k + 1], now)
    BY <2>1, ObeyingSteps
  <2>3. QED
    BY <1>2, <2>1, <2>2
<1>3. QED
  BY <1>1, <1>2, UpTo

\* The first message and then the others.
LEMMA HeadFirst ==
    ASSUME NEW s, NEW q \in Seq(Message), q # <<>>, NEW now
    PROVE  /\ Len(Tail(q)) = Len(q) - 1
           /\ \A k \in 0 .. Len(q) - 1 :
                  Obeying(Obeyed(s, Head(q), now), Tail(q), now)[k] = Obeying(s, q, now)[k + 1]
<1>1. Len(q) \in Nat /\ Len(q) > 0
  BY EmptySeq
<1>2. PICK r : r = Tail(q)
  OBVIOUS
<1>3. Len(r) = Len(q) - 1 /\ Head(q) = q[1] /\ \A k \in 1 .. Len(q) - 1 : r[k] = q[k + 1]
  BY <1>1, <1>2, HeadTailProperties
<1>4. PICK n : n = Len(q) - 1
  OBVIOUS
<1>5. n \in Nat /\ Len(r) = n /\ Len(q) = n + 1
  BY <1>1, <1>3, <1>4
<1>6. PICK f : f = Obeying(s, q, now)
  OBVIOUS
<1>7. PICK g : g = Obeying(Obeyed(s, Head(q), now), r, now)
  OBVIOUS
<1>8. f[0] = s /\ \A k \in 1 .. Len(q) : f[k] = Obeyed(f[k - 1], q[k], now)
  BY <1>1, <1>6, ObeyingSteps
<1>9. g[0] = Obeyed(s, Head(q), now) /\ \A k \in 1 .. Len(r) : g[k] = Obeyed(g[k - 1], r[k], now)
  BY <1>5, <1>7, ObeyingSteps
<1> DEFINE S == {k \in Nat : g[k] = f[k + 1]}
<1>10. 0 \in S
  <2>1. 1 \in 1 .. Len(q) /\ 1 - 1 = 0 /\ 0 + 1 = 1
    BY <1>1
  <2>2. f[1] = Obeyed(f[0], q[1], now)
    BY <1>8, <2>1
  <2>3. QED
    BY <1>3, <1>8, <1>9, <2>1, <2>2
<1>11. ASSUME NEW k \in 0 .. n, k \in S, k < n PROVE k + 1 \in S
  <2>1. /\ k + 1 \in 1 .. Len(r) /\ (k + 1) - 1 = k
        /\ (k + 1) + 1 \in 1 .. Len(q) /\ ((k + 1) + 1) - 1 = k + 1
        /\ k + 1 \in 1 .. Len(q) - 1
    BY <1>5, <1>11
  <2>2. g[k + 1] = Obeyed(g[k], r[k + 1], now)
    BY <1>9, <2>1
  <2>3. f[(k + 1) + 1] = Obeyed(f[k + 1], q[(k + 1) + 1], now)
    BY <1>8, <2>1
  <2>4. r[k + 1] = q[(k + 1) + 1]
    BY <1>3, <2>1
  <2>5. QED
    BY <1>11, <2>2, <2>3, <2>4
<1>12. 0 .. n \subseteq S
  BY <1>5, <1>10, <1>11, UpTo
<1>13. QED
  BY <1>2, <1>3, <1>4, <1>6, <1>7, <1>12

\* One more message.
LEMMA OneMore ==
    ASSUME NEW s, NEW q \in Seq(Message), NEW m \in Message, NEW now
    PROVE  /\ \A k \in 0 .. Len(q) : Obeying(s, Append(q, m), now)[k] = Obeying(s, q, now)[k]
           /\ Obeying(s, Append(q, m), now)[Len(q) + 1] = Obeyed(Obeying(s, q, now)[Len(q)], m, now)
<1>1. PICK r : r = Append(q, m)
  OBVIOUS
<1>2. /\ Len(q) \in Nat /\ Len(r) \in Nat /\ Len(r) = Len(q) + 1
      /\ r[Len(q) + 1] = m /\ \A k \in 1 .. Len(q) : r[k] = q[k]
  BY <1>1, AppendProperties
<1>3. PICK n : n = Len(q)
  OBVIOUS
<1>4. n \in Nat /\ n <= Len(q) /\ n <= Len(r) /\ n + 1 \in 1 .. Len(r) /\ (n + 1) - 1 = n
  BY <1>2, <1>3
<1>5. \A k \in 1 .. n : r[k] = q[k]
  BY <1>2, <1>3
<1>6. \A k \in 0 .. n : Obeying(s, r, now)[k] = Obeying(s, q, now)[k]
  BY <1>2, <1>4, <1>5, SamePrefix
<1>7. Obeying(s, r, now)[n + 1] = Obeyed(Obeying(s, r, now)[n], r[n + 1], now)
  BY <1>2, <1>4, ObeyingSteps
<1>8. n \in 0 .. n
  BY <1>4
<1>9. QED
  BY <1>1, <1>2, <1>3, <1>6, <1>7, <1>8

\* The number of messages before the first one that means now.
IsTimedCount(n, q) ==
    /\ n \in 0 .. Len(q)
    /\ \A k \in 1 .. n : q[k].ref # Now
    /\ n < Len(q) => q[n + 1].ref = Now

\* There is one such number, and TimedCount is it.
LEMMA TimedCountIs ==
    ASSUME NEW q, Len(q) \in Nat
    PROVE  /\ IsTimedCount(TimedCount(q), q)
           /\ \A n : IsTimedCount(n, q) => n = TimedCount(q)
<1> DEFINE S == {n \in 0 .. Len(q) : n < Len(q) => q[n + 1].ref = Now}
<1>1. S \in SUBSET Nat /\ Len(q) \in S
  OBVIOUS
<1>2. PICK x \in S : \A y \in S : x <= y
  BY <1>1, LeastNatural
<1>3. ASSUME NEW k \in 1 .. x PROVE q[k].ref # Now
  <2>1. x \in 0 .. Len(q)
    OBVIOUS
  <2>2. k - 1 \in 0 .. Len(q) /\ k - 1 < Len(q) /\ (k - 1) + 1 = k /\ ~(x <= k - 1)
    BY <2>1, <1>3
  <2>3. k - 1 \notin S
    BY <1>2, <2>2
  <2>4. QED
    BY <2>2, <2>3
<1>4. IsTimedCount(x, q)
  BY <1>2, <1>3 DEF IsTimedCount
<1>5. TimedCount(q) = CHOOSE n \in 0 .. Len(q) :
          (\A k \in 1 .. n : q[k].ref # Now) /\ (n < Len(q) => q[n + 1].ref = Now)
  BY DEF TimedCount
<1>6. IsTimedCount(TimedCount(q), q)
  <2>1. /\ x \in 0 .. Len(q)
        /\ (\A k \in 1 .. x : q[k].ref # Now) /\ (x < Len(q) => q[x + 1].ref = Now)
    BY <1>4 DEF IsTimedCount
  <2>2. /\ TimedCount(q) \in 0 .. Len(q)
        /\ \A k \in 1 .. TimedCount(q) : q[k].ref # Now
        /\ TimedCount(q) < Len(q) => q[TimedCount(q) + 1].ref = Now
    BY <1>5, <2>1, Zenon
  <2>3. QED
    BY <2>2 DEF IsTimedCount
<1>7. ASSUME NEW n, NEW i1, IsTimedCount(n, q), IsTimedCount(i1, q) PROVE ~(n < i1)
  <2>1. SUFFICES ASSUME n < i1 PROVE FALSE
    OBVIOUS
  <2>2. n \in 0 .. Len(q) /\ i1 \in 0 .. Len(q)
    BY <1>7 DEF IsTimedCount
  <2>3. n + 1 \in 1 .. i1 /\ n < Len(q)
    BY <2>1, <2>2
  <2>4. QED
    BY <1>7, <2>3 DEF IsTimedCount
<1>8. ASSUME NEW n, IsTimedCount(n, q) PROVE n = TimedCount(q)
  <2>1. ~(n < TimedCount(q)) /\ ~(TimedCount(q) < n)
    BY <1>6, <1>7, <1>8
  <2>2. n \in Nat /\ TimedCount(q) \in Nat
    BY <1>6, <1>8 DEF IsTimedCount
  <2>3. QED
    BY <2>1, <2>2
<1>9. QED
  BY <1>6, <1>8

\* The fields are proper after each message.
LEMMA ObeyingProper ==
    ASSUME NEW s \in DripFields, NEW now \in Nat, PauseBegan(s, now),
           NEW q \in Seq(Message), \A k \in 1 .. Len(q) : q[k].ref <= now
    PROVE  \A k \in 0 .. Len(q) : Obeying(s, q, now)[k] \in DripFields /\ PauseBegan(Obeying(s, q, now)[k], now)
<1>1. PICK n : n = Len(q)
  OBVIOUS
<1>2. n \in Nat /\ Len(q) \in Nat
  BY <1>1
<1>3. PICK f : f = Obeying(s, q, now)
  OBVIOUS
<1>4. f[0] = s /\ \A k \in 1 .. n : f[k] = Obeyed(f[k - 1], q[k], now)
  BY <1>1, <1>2, <1>3, ObeyingSteps
<1> DEFINE S == {k \in Nat : f[k] \in DripFields /\ PauseBegan(f[k], now)}
<1>5. 0 \in S
  BY <1>4
<1>6. ASSUME NEW k \in 0 .. n, k \in S, k < n PROVE k + 1 \in S
  <2>1. k + 1 \in 1 .. n /\ (k + 1) - 1 = k
    BY <1>2, <1>6
  <2>2. f[k + 1] = Obeyed(f[k], q[k + 1], now)
    BY <1>4, <2>1
  <2>3. q[k + 1] \in Message /\ q[k + 1].ref <= now
    BY <1>1, <2>1
  <2>4. Proper(f[k], f[k + 1], now)
    BY <1>6, <2>2, <2>3, ObeyedProper
  <2>5. QED
    BY <2>1, <2>4 DEF Proper
<1>7. 0 .. n \subseteq S
  BY <1>2, <1>5, <1>6, UpTo
<1>8. QED
  BY <1>1, <1>3, <1>7


\* The mode, whether it waits for /start and whether it pauses: after a command, t.
ModeFits(s, m, t) ==
    /\ s.initializing /\ m.cmd = "/start" => t.initializing = FALSE /\ t.paused = FALSE
    /\ s.initializing /\ m.cmd # "/start" => t.initializing = TRUE /\ t.paused = s.paused
    /\ ~s.initializing /\ m.cmd = "/reset" => t.initializing = TRUE /\ t.paused = s.paused
    /\ ~s.initializing /\ m.cmd = "/pause" =>
          t.initializing = FALSE /\ t.paused = IF s.paused THEN FALSE ELSE TRUE
    /\ ~s.initializing /\ m.cmd = "/pausenow" => t.initializing = FALSE /\ t.paused = m.arg
    /\ ~s.initializing /\ m.cmd \notin {"/reset", "/pause", "/pausenow"} =>
          t.initializing = FALSE /\ t.paused = s.paused

\* The mode after a command.
LEMMA ObeyedMode ==
    ASSUME NEW s \in DripFields, NEW m \in Message, NEW now
    PROVE  ModeFits(s, m, Obeyed(s, m, now))
<1>0. PICK t : t = Obeyed(s, m, now)
  OBVIOUS
<1>1. ASSUME s.initializing, m.cmd = "/start" PROVE t.initializing = FALSE /\ t.paused = FALSE
  <2>1. PICK x : x = IF m.ref = Now THEN now + m.arg ELSE m.arg
    OBVIOUS
  <2>2. t = [s EXCEPT !.start = x, !.initializing = FALSE, !.paused = FALSE, !.n = 0]
    BY <1>0, <1>1, <2>1 DEF Obeyed, ObeyInit
  <2>3. QED
    BY <2>2 DEF DripFields
<1>2. ASSUME s.initializing, m.cmd # "/start" PROVE t.initializing = TRUE /\ t.paused = s.paused
  <2>1. \/ t = [s EXCEPT !.period = m.arg]
        \/ t = [s EXCEPT !.count = m.arg, !.n = 0]
        \/ t = [s EXCEPT !.predisplay = TRUE]
        \/ t = s
    BY <1>0, <1>2 DEF Obeyed, ObeyInit
  <2>2. t.initializing = s.initializing /\ t.paused = s.paused
    BY <2>1 DEF DripFields
  <2>3. s.initializing = TRUE
    BY <1>2 DEF DripFields
  <2>4. QED
    BY <2>2, <2>3
<1>3. ASSUME ~s.initializing PROVE s.initializing = FALSE /\ t = ObeyRunning(s, m, now)
  BY <1>0, <1>3 DEF DripFields, Obeyed
<1>4. PICK r : r = IF m.ref = Now THEN now ELSE m.ref
  OBVIOUS
<1>5. /\ GoOn(s, r).paused = FALSE /\ GoOn(s, r).initializing = s.initializing
      /\ Hold(s, r).paused = TRUE /\ Hold(s, r).initializing = s.initializing
  <2>1. PICK x : x = s.start + r - s.pauseStart
    OBVIOUS
  <2>2. GoOn(s, r) = [s EXCEPT !.paused = FALSE, !.start = x]
    BY <2>1 DEF GoOn, DripFields
  <2>3. QED
    BY <2>2 DEF Hold, DripFields
<1>6. ASSUME ~s.initializing, m.cmd = "/reset" PROVE t.initializing = TRUE /\ t.paused = s.paused
  <2>1. t = [s EXCEPT !.initializing = TRUE]
    BY <1>3, <1>6 DEF ObeyRunning
  <2>2. QED
    BY <2>1 DEF DripFields
<1>7. ASSUME ~s.initializing, m.cmd = "/pause"
      PROVE  t.initializing = FALSE /\ t.paused = IF s.paused THEN FALSE ELSE TRUE
  <2>1. t = IF s.paused THEN GoOn(s, r) ELSE Hold(s, r)
    BY <1>3, <1>4, <1>7 DEF ObeyRunning
  <2>2. QED
    BY <1>3, <1>5, <1>7, <2>1
<1>8. ASSUME ~s.initializing, m.cmd = "/pausenow" PROVE t.initializing = FALSE /\ t.paused = m.arg
  <2>1. t = IF s.paused /\ ~m.arg THEN GoOn(s, r) ELSE IF ~s.paused /\ m.arg THEN Hold(s, r) ELSE s
    BY <1>3, <1>4, <1>8 DEF ObeyRunning
  <2>2. m.arg \in BOOLEAN /\ s.paused \in BOOLEAN
    BY <1>8 DEF Message, DripFields
  <2>3. CASE m.arg = TRUE
    <3>1. CASE s.paused = TRUE
      <4>1. t = s
        BY <2>1, <2>3, <3>1
      <4>2. QED
        BY <1>3, <1>8, <2>3, <3>1, <4>1
    <3>2. CASE s.paused = FALSE
      <4>1. t = Hold(s, r)
        BY <2>1, <2>3, <3>2
      <4>2. QED
        BY <1>3, <1>5, <1>8, <2>3, <4>1
    <3>3. QED
      BY <2>2, <3>1, <3>2
  <2>4. CASE m.arg = FALSE
    <3>1. CASE s.paused = TRUE
      <4>1. t = GoOn(s, r)
        BY <2>1, <2>4, <3>1
      <4>2. QED
        BY <1>3, <1>5, <1>8, <2>4, <4>1
    <3>2. CASE s.paused = FALSE
      <4>1. t = s
        BY <2>1, <2>4, <3>2
      <4>2. QED
        BY <1>3, <1>8, <2>4, <3>2, <4>1
    <3>3. QED
      BY <2>2, <3>1, <3>2
  <2>5. QED
    BY <2>2, <2>3, <2>4
<1>9. ASSUME ~s.initializing, m.cmd \notin {"/reset", "/pause", "/pausenow"}
      PROVE  t.initializing = FALSE /\ t.paused = s.paused
  <2>1. PICK y : y = r - ((r - s.start) * m.arg) \div s.period
    OBVIOUS
  <2>2. ResetFps(s, r, m.arg) = [s EXCEPT !.start = y, !.period = m.arg]
    BY <2>1 DEF ResetFps
  <2>3. t = [s EXCEPT !.flush = TRUE] \/ t = ResetFps(s, r, m.arg) \/ t = s
    BY <1>3, <1>4, <1>9 DEF ObeyRunning
  <2>4. t.initializing = s.initializing /\ t.paused = s.paused
    BY <2>2, <2>3 DEF DripFields
  <2>5. QED
    BY <1>3, <1>9, <2>4
<1>10. QED
  BY <1>0, <1>1, <1>2, <1>6, <1>7, <1>8, <1>9 DEF ModeFits

SameMode(s, t) == s.initializing = t.initializing /\ s.paused = t.paused

\* A command changes the mode in the same way whenever it is obeyed.
LEMMA ModeAlone ==
    ASSUME NEW s \in DripFields, NEW t \in DripFields, SameMode(s, t),
           NEW m \in Message, NEW n1, NEW n2
    PROVE  SameMode(Obeyed(s, m, n1), Obeyed(t, m, n2))
<1>1. PICK x, y : x = Obeyed(s, m, n1) /\ y = Obeyed(t, m, n2)
  OBVIOUS
<1>2. ModeFits(s, m, x) /\ ModeFits(t, m, y)
  BY <1>1, ObeyedMode
<1>3. SameMode(x, y)
  BY <1>2 DEF ModeFits, SameMode
<1>4. QED
  BY <1>1, <1>3

\* So do several.
LEMMA ModesAlone ==
    ASSUME NEW s \in DripFields, NEW n1 \in Nat, NEW n2 \in Nat, n1 <= n2, PauseBegan(s, n1),
           NEW q \in Seq(Message), \A k \in 1 .. Len(q) : q[k].ref <= n1
    PROVE  \A k \in 0 .. Len(q) : SameMode(Obeying(s, q, n1)[k], Obeying(s, q, n2)[k])
<1>1. PICK n : n = Len(q)
  OBVIOUS
<1>2. n \in Nat /\ Len(q) \in Nat
  BY <1>1
<1>3. PICK f, g : f = Obeying(s, q, n1) /\ g = Obeying(s, q, n2)
  OBVIOUS
<1>4. f[0] = s /\ \A k \in 1 .. n : f[k] = Obeyed(f[k - 1], q[k], n1)
  BY <1>1, <1>2, <1>3, ObeyingSteps
<1>5. g[0] = s /\ \A k \in 1 .. n : g[k] = Obeyed(g[k - 1], q[k], n2)
  BY <1>1, <1>2, <1>3, ObeyingSteps
<1>6. \A k \in 0 .. n : f[k] \in DripFields
  BY <1>1, <1>3, ObeyingProper
<1>7. \A k \in 0 .. n : g[k] \in DripFields
  <2>1. PauseBegan(s, n2)
    <3>1. s.pauseStart \in Nat
      BY DEF DripFields
    <3>2. QED
      BY <3>1 DEF PauseBegan
  <2>2. ASSUME NEW k \in 1 .. Len(q) PROVE q[k].ref <= n2
    <3>1. q[k].ref \in Int
      <4>1. q[k] \in Message
        OBVIOUS
      <4>2. QED
        BY <4>1 DEF Message, Now
    <3>2. QED
      BY <3>1
  <2>3. QED
    BY <1>1, <1>3, <2>1, <2>2, ObeyingProper
<1> DEFINE S == {k \in Nat : SameMode(f[k], g[k])}
<1>8. 0 \in S
  BY <1>4, <1>5 DEF SameMode
<1>9. ASSUME NEW k \in 0 .. n, k \in S, k < n PROVE k + 1 \in S
  <2>1. k + 1 \in 1 .. n /\ (k + 1) - 1 = k
    BY <1>2, <1>9
  <2>2. q[k + 1] \in Message
    BY <1>1, <2>1
  <2>3. SameMode(f[k + 1], g[k + 1])
    BY <1>4, <1>5, <1>6, <1>7, <1>9, <2>1, <2>2, ModeAlone
  <2>4. QED
    BY <2>1, <2>3
<1>10. 0 .. n \subseteq S
  BY <1>2, <1>8, <1>9, UpTo
<1>11. QED
  BY <1>1, <1>3, <1>10

\* A command with a time reference has the same effect whenever it is obeyed.
LEMMA TimedAlone ==
    ASSUME NEW s, NEW m, m.ref # Now, NEW n1, NEW n2
    PROVE  Obeyed(s, m, n1) = Obeyed(s, m, n2)
<1>1. ObeyInit(s, m, n1) = ObeyInit(s, m, n2)
  BY DEF ObeyInit
<1>2. ObeyRunning(s, m, n1) = ObeyRunning(s, m, n2)
  BY DEF ObeyRunning
<1>3. QED
  BY <1>1, <1>2 DEF Obeyed

\* So have several.
LEMMA TimedObeying ==
    ASSUME NEW s, NEW q, Len(q) \in Nat, NEW n \in Nat, n <= Len(q),
           \A k \in 1 .. n : q[k].ref # Now, NEW n1, NEW n2
    PROVE  \A k \in 0 .. n : Obeying(s, q, n1)[k] = Obeying(s, q, n2)[k]
<1>1. PICK f, g : f = Obeying(s, q, n1) /\ g = Obeying(s, q, n2)
  OBVIOUS
<1>2. f[0] = s /\ \A k \in 1 .. Len(q) : f[k] = Obeyed(f[k - 1], q[k], n1)
  BY <1>1, ObeyingSteps
<1>3. g[0] = s /\ \A k \in 1 .. Len(q) : g[k] = Obeyed(g[k - 1], q[k], n2)
  BY <1>1, ObeyingSteps
<1> DEFINE S == {k \in Nat : f[k] = g[k]}
<1>4. 0 \in S
  BY <1>2, <1>3
<1>5. ASSUME NEW k \in 0 .. n, k \in S, k < n PROVE k + 1 \in S
  <2>1. k + 1 \in 1 .. n /\ k + 1 \in 1 .. Len(q) /\ (k + 1) - 1 = k
    BY <1>5
  <2>2. f[k + 1] = Obeyed(f[k], q[k + 1], n1) /\ g[k + 1] = Obeyed(g[k], q[k + 1], n2)
    BY <1>2, <1>3, <2>1
  <2>3. Obeyed(f[k], q[k + 1], n1) = Obeyed(f[k], q[k + 1], n2)
    BY <2>1, TimedAlone
  <2>4. QED
    BY <1>5, <2>2, <2>3
<1>6. 0 .. n \subseteq S
  BY <1>4, <1>5, UpTo
<1>7. QED
  BY <1>1, <1>6

-----------------------------------------------------------------------------
(* The schedule that is planned: the fields when the commands that carry a   *)
(* time are obeyed.                                                          *)

Plan(s, q, now) == Obeying(s, q, now)[TimedCount(q)]

\* The fields that the schedule depends on.
Agrees(s, t) == SameMode(s, t) /\ t.start = s.start /\ t.period = s.period /\ t.pauseStart = s.pauseStart

\* What a command that means now finds when it is obeyed.
NowFits(s, m) ==
    \/ m.cmd = "/start" /\ s.initializing /\ \E j \in Nat : m.arg = j * Grain
    \/ m.cmd = "/pausenow" /\ ~s.initializing
    \/ m.cmd = "/fpsnow" /\ ~s.initializing /\ ~s.paused

\* The pending commands: those that mean now find a drip they are for, and behind them are
\* only others of their kind and /flush.
Orderly(s, q, now) ==
    /\ \A k \in 1 .. Len(q) : q[k].ref = Now => NowFits(Obeying(s, q, now)[k - 1], q[k])
    /\ \A k, l \in 1 .. Len(q) : k < l /\ q[k].ref = Now => q[l].ref = Now \/ q[l].cmd = "/flush"

\* /flush does not change the schedule.
LEMMA FlushAgrees ==
    ASSUME NEW s \in DripFields, NEW m, m.cmd = "/flush", NEW now
    PROVE  Agrees(s, Obeyed(s, m, now))
<1>1. Obeyed(s, m, now) = [s EXCEPT !.flush = TRUE] \/ Obeyed(s, m, now) = s
  BY DEF Obeyed, ObeyInit, ObeyRunning
<1>2. QED
  BY <1>1 DEF Agrees, SameMode, DripFields

\* Nor do several.
LEMMA FlushesAgree ==
    ASSUME NEW s \in DripFields, NEW now \in Nat, PauseBegan(s, now),
           NEW q \in Seq(Message), \A k \in 1 .. Len(q) : q[k].ref <= now,
           NEW n \in 0 .. Len(q), \A k \in 1 .. n : q[k].cmd = "/flush"
    PROVE  Agrees(s, Obeying(s, q, now)[n])
<1>1. PICK f : f = Obeying(s, q, now)
  OBVIOUS
<1>2. f[0] = s /\ \A k \in 1 .. Len(q) : f[k] = Obeyed(f[k - 1], q[k], now)
  BY <1>1, ObeyingSteps
<1>3. \A k \in 0 .. Len(q) : f[k] \in DripFields
  BY <1>1, ObeyingProper
<1> DEFINE S == {k \in Nat : Agrees(s, f[k])}
<1>4. 0 \in S
  BY <1>2 DEF Agrees, SameMode
<1>5. ASSUME NEW k \in 0 .. n, k \in S, k < n PROVE k + 1 \in S
  <2>1. k + 1 \in 1 .. n /\ k + 1 \in 1 .. Len(q) /\ (k + 1) - 1 = k /\ k \in 0 .. Len(q)
    BY <1>5
  <2>2. f[k + 1] = Obeyed(f[k], q[k + 1], now)
    BY <1>2, <2>1
  <2>3. Agrees(f[k], f[k + 1])
    BY <1>3, <2>1, <2>2, FlushAgrees
  <2>4. Agrees(s, f[k + 1])
    BY <1>5, <2>3 DEF Agrees, SameMode
  <2>5. QED
    BY <2>1, <2>4
<1>6. n \in Nat /\ n \in 0 .. n
  OBVIOUS
<1>7. 0 .. n \subseteq S
  BY <1>4, <1>5, <1>6, UpTo
<1>8. QED
  BY <1>1, <1>6, <1>7

\* Time goes by: the plan stays.
LEMMA PlanLater ==
    ASSUME NEW s, NEW q, Len(q) \in Nat, NEW n1, NEW n2
    PROVE  Plan(s, q, n1) = Plan(s, q, n2)
<1>1. PICK n : n = TimedCount(q)
  OBVIOUS
<1>2. n \in 0 .. Len(q) /\ \A k \in 1 .. n : q[k].ref # Now
  BY <1>1, TimedCountIs DEF IsTimedCount
<1>3. n \in Nat /\ n <= Len(q) /\ n \in 0 .. n
  BY <1>2
<1>4. \A k \in 0 .. n : Obeying(s, q, n1)[k] = Obeying(s, q, n2)[k]
  BY <1>2, <1>3, TimedObeying
<1>5. QED
  BY <1>1, <1>3, <1>4 DEF Plan

\* A command with a time reference is obeyed: the plan stays.
LEMMA PlanTimedHead ==
    ASSUME NEW s, NEW q \in Seq(Message), q # <<>>, NEW now, Head(q).ref # Now
    PROVE  Plan(Obeyed(s, Head(q), now), Tail(q), now) = Plan(s, q, now)
<1>1. Len(q) \in Nat /\ Len(q) > 0
  BY EmptySeq
<1>2. PICK r : r = Tail(q)
  OBVIOUS
<1>3. Len(r) = Len(q) - 1 /\ Head(q) = q[1] /\ \A k \in 1 .. Len(q) - 1 : r[k] = q[k + 1]
  BY <1>1, <1>2, HeadTailProperties
<1>4. PICK n : n = TimedCount(q)
  OBVIOUS
<1>5. IsTimedCount(n, q)
  BY <1>1, <1>4, TimedCountIs
<1>6. n # 0
  <2>1. SUFFICES ASSUME n = 0 PROVE FALSE
    OBVIOUS
  <2>2. n < Len(q) /\ n + 1 = 1
    BY <1>1, <2>1
  <2>3. QED
    BY <1>3, <1>5, <2>2 DEF IsTimedCount
<1>7. n \in 1 .. Len(q) /\ n - 1 \in 0 .. Len(q) - 1 /\ (n - 1) + 1 = n
  BY <1>1, <1>5, <1>6 DEF IsTimedCount
<1>8. IsTimedCount(n - 1, r)
  <2>1. ASSUME NEW k \in 1 .. n - 1 PROVE r[k].ref # Now
    <3>1. k \in 1 .. Len(q) - 1 /\ k + 1 \in 1 .. n
      BY <1>7, <2>1
    <3>2. QED
      BY <1>3, <1>5, <3>1 DEF IsTimedCount
  <2>2. ASSUME n - 1 < Len(r) PROVE r[(n - 1) + 1].ref = Now
    <3>1. n < Len(q) /\ n \in 1 .. Len(q) - 1
      BY <1>3, <1>7, <2>2
    <3>2. QED
      BY <1>3, <1>5, <1>7, <3>1 DEF IsTimedCount
  <2>3. QED
    BY <1>3, <1>7, <2>1, <2>2 DEF IsTimedCount
<1>9. TimedCount(r) = n - 1
  <2>1. Len(r) \in Nat
    BY <1>1, <1>3
  <2>2. QED
    BY <1>8, <2>1, TimedCountIs
<1>10. Obeying(Obeyed(s, Head(q), now), r, now)[n - 1] = Obeying(s, q, now)[n]
  <2>1. PICK j : j = n - 1
    OBVIOUS
  <2>2. j \in 0 .. Len(q) - 1 /\ j + 1 = n
    BY <1>7, <2>1
  <2>3. Obeying(Obeyed(s, Head(q), now), r, now)[j] = Obeying(s, q, now)[j + 1]
    BY <1>2, <2>2, HeadFirst
  <2>4. QED
    BY <2>1, <2>2, <2>3
<1>11. QED
  BY <1>2, <1>4, <1>9, <1>10 DEF Plan

\* A command that means now is obeyed: until then the plan is what the fields say, and
\* then it is again.
LEMMA PlanNowHead ==
    ASSUME NEW s \in DripFields, NEW now \in Nat, PauseBegan(s, now),
           NEW q \in Seq(Message), q # <<>>, \A k \in 1 .. Len(q) : q[k].ref <= now,
           Head(q).ref = Now, Orderly(s, q, now)
    PROVE  /\ Plan(s, q, now) = s
           /\ Agrees(Obeyed(s, Head(q), now), Plan(Obeyed(s, Head(q), now), Tail(q), now))
<1>1. Len(q) \in Nat /\ Len(q) > 0
  BY EmptySeq
<1>2. PICK r : r = Tail(q)
  OBVIOUS
<1>3. /\ Len(r) = Len(q) - 1 /\ Head(q) = q[1] /\ \A k \in 1 .. Len(q) - 1 : r[k] = q[k + 1]
      /\ Head(q) \in Message /\ r \in Seq(Message)
  BY <1>1, <1>2, HeadTailProperties
<1>4. Plan(s, q, now) = s
  <2>1. IsTimedCount(0, q)
    <3>1. 0 \in 0 .. Len(q) /\ 0 + 1 = 1 /\ 1 .. 0 = {}
      BY <1>1
    <3>2. QED
      BY <1>3, <3>1 DEF IsTimedCount
  <2>2. TimedCount(q) = 0
    BY <1>1, <2>1, TimedCountIs
  <2>3. QED
    BY <1>1, <2>2, ObeyingSteps DEF Plan
<1>5. PICK t : t = Obeyed(s, Head(q), now)
  OBVIOUS
<1>6. t \in DripFields /\ PauseBegan(t, now)
  <2>1. Head(q).ref <= now
    BY <1>1, <1>3
  <2>2. QED
    BY <1>3, <1>5, <2>1, ObeyedProper DEF Proper
<1>7. PICK n : n = TimedCount(r)
  OBVIOUS
<1>8. Len(r) \in Nat
  BY <1>1, <1>3
<1>9. n \in 0 .. Len(r) /\ \A k \in 1 .. n : r[k].ref # Now
  BY <1>7, <1>8, TimedCountIs DEF IsTimedCount
<1>10. ASSUME NEW k \in 1 .. n PROVE r[k].cmd = "/flush"
  <2>1. k \in 1 .. Len(q) - 1 /\ k + 1 \in 1 .. Len(q) /\ 1 \in 1 .. Len(q) /\ 1 < k + 1
    BY <1>1, <1>3, <1>9
  <2>2. q[k + 1].ref = Now \/ q[k + 1].cmd = "/flush"
    BY <1>3, <2>1 DEF Orderly
  <2>3. QED
    BY <1>3, <1>9, <2>1, <2>2
<1>11. ASSUME NEW k \in 1 .. Len(r) PROVE r[k].ref <= now
  <2>1. k \in 1 .. Len(q) - 1 /\ k + 1 \in 1 .. Len(q)
    BY <1>1, <1>3
  <2>2. QED
    BY <1>3, <2>1
<1>12. Agrees(t, Obeying(t, r, now)[n])
  BY <1>3, <1>6, <1>9, <1>10, <1>11, FlushesAgree
<1>13. QED
  BY <1>2, <1>4, <1>5, <1>7, <1>12 DEF Plan

\* A command is sent: it changes the plan if it carries a time, and nobody else's time
\* comes before it.
LEMMA PlanAppend ==
    ASSUME NEW s, NEW q \in Seq(Message), NEW m \in Message, NEW now
    PROVE  /\ (\E k \in 1 .. Len(q) : q[k].ref = Now) \/ m.ref = Now =>
                  Plan(s, Append(q, m), now) = Plan(s, q, now)
           /\ ~(\E k \in 1 .. Len(q) : q[k].ref = Now) =>
                  Plan(s, q, now) = Obeying(s, q, now)[Len(q)]
           /\ ~(\E k \in 1 .. Len(q) : q[k].ref = Now) /\ m.ref # Now =>
                  Plan(s, Append(q, m), now) = Obeyed(Plan(s, q, now), m, now)
<1>1. PICK r : r = Append(q, m)
  OBVIOUS
<1>2. /\ Len(q) \in Nat /\ Len(r) \in Nat /\ Len(r) = Len(q) + 1
      /\ r[Len(q) + 1] = m /\ \A k \in 1 .. Len(q) : r[k] = q[k]
  BY <1>1, AppendProperties
<1>3. PICK n : n = TimedCount(q)
  OBVIOUS
<1>4. n \in 0 .. Len(q) /\ (\A k \in 1 .. n : q[k].ref # Now) /\ (n < Len(q) => q[n + 1].ref = Now)
  BY <1>2, <1>3, TimedCountIs DEF IsTimedCount
<1>5. ASSUME (\E k \in 1 .. Len(q) : q[k].ref = Now) \/ m.ref = Now
      PROVE  Plan(s, r, now) = Plan(s, q, now)
  <2>1. n = Len(q) => ~\E k \in 1 .. Len(q) : q[k].ref = Now
    BY <1>4
  <2>2. r[n + 1].ref = Now
    <3>1. CASE n = Len(q)
      BY <1>2, <1>5, <2>1, <3>1
    <3>2. CASE n # Len(q)
      <4>1. n < Len(q) /\ n + 1 \in 1 .. Len(q)
        BY <1>2, <1>4, <3>2
      <4>2. QED
        BY <1>2, <1>4, <4>1
    <3>3. QED
      BY <3>1, <3>2
  <2>3. \A k \in 1 .. n : r[k].ref # Now
    <3>1. \A k \in 1 .. n : k \in 1 .. Len(q)
      BY <1>2, <1>4
    <3>2. QED
      BY <1>2, <1>4, <3>1
  <2>4. n \in 0 .. Len(r)
    BY <1>2, <1>4
  <2>5. IsTimedCount(n, r)
    BY <2>2, <2>3, <2>4 DEF IsTimedCount
  <2>6. TimedCount(r) = n
    BY <1>2, <2>5, TimedCountIs
  <2>7. Obeying(s, r, now)[n] = Obeying(s, q, now)[n]
    BY <1>1, <1>4, OneMore
  <2>8. QED
    BY <1>3, <2>6, <2>7 DEF Plan
<1>6. ASSUME ~\E k \in 1 .. Len(q) : q[k].ref = Now PROVE n = Len(q)
  <2>1. SUFFICES ASSUME n # Len(q) PROVE FALSE
    OBVIOUS
  <2>2. n < Len(q) /\ n + 1 \in 1 .. Len(q)
    BY <1>2, <1>4, <2>1
  <2>3. QED
    BY <1>4, <1>6, <2>2
<1>7. ASSUME ~\E k \in 1 .. Len(q) : q[k].ref = Now, m.ref # Now
      PROVE  Plan(s, r, now) = Obeyed(Plan(s, q, now), m, now)
  <2>1. \A k \in 1 .. Len(r) : r[k].ref # Now
    <3>1. \A k \in 1 .. Len(r) : k \in 1 .. Len(q) \/ k = Len(q) + 1
      BY <1>2
    <3>2. QED
      BY <1>2, <1>7, <3>1
  <2>2. Len(r) \in 0 .. Len(r) /\ ~(Len(r) < Len(r))
    BY <1>2
  <2>3. IsTimedCount(Len(r), r)
    BY <2>1, <2>2 DEF IsTimedCount
  <2>4. TimedCount(r) = Len(q) + 1
    BY <1>2, <2>3, TimedCountIs
  <2>5. Obeying(s, r, now)[Len(q) + 1] = Obeyed(Obeying(s, q, now)[Len(q)], m, now)
    BY <1>1, OneMore
  <2>6. QED
    BY <1>3, <1>6, <1>7, <2>4, <2>5 DEF Plan
<1>8. QED
  BY <1>1, <1>3, <1>5, <1>6, <1>7 DEF Plan

\* Time goes by: who is there for a command stays.
LEMMA OrderlyLater ==
    ASSUME NEW s \in DripFields, NEW n1 \in Nat, NEW n2 \in Nat, n1 <= n2, PauseBegan(s, n1),
           NEW q \in Seq(Message), \A k \in 1 .. Len(q) : q[k].ref <= n1, Orderly(s, q, n1)
    PROVE  Orderly(s, q, n2)
<1>1. ASSUME NEW k \in 1 .. Len(q), q[k].ref = Now PROVE NowFits(Obeying(s, q, n2)[k - 1], q[k])
  <2>1. k - 1 \in 0 .. Len(q)
    OBVIOUS
  <2>2. SameMode(Obeying(s, q, n1)[k - 1], Obeying(s, q, n2)[k - 1])
    BY <2>1, ModesAlone
  <2>3. NowFits(Obeying(s, q, n1)[k - 1], q[k])
    BY <1>1 DEF Orderly
  <2>4. QED
    BY <2>2, <2>3 DEF NowFits, SameMode
<1>2. QED
  BY <1>1 DEF Orderly

\* A command is obeyed: the others find what they found.
LEMMA OrderlyTail ==
    ASSUME NEW s, NEW q \in Seq(Message), q # <<>>, NEW now, Orderly(s, q, now)
    PROVE  Orderly(Obeyed(s, Head(q), now), Tail(q), now)
<1>1. Len(q) \in Nat /\ Len(q) > 0
  BY EmptySeq
<1>2. PICK r : r = Tail(q)
  OBVIOUS
<1>3. Len(r) = Len(q) - 1 /\ \A k \in 1 .. Len(q) - 1 : r[k] = q[k + 1]
  BY <1>1, <1>2, HeadTailProperties
<1>4. PICK g : g = Obeying(Obeyed(s, Head(q), now), r, now)
  OBVIOUS
<1>5. \A k \in 0 .. Len(q) - 1 : g[k] = Obeying(s, q, now)[k + 1]
  BY <1>2, <1>4, HeadFirst
<1>6. ASSUME NEW k \in 1 .. Len(r), r[k].ref = Now PROVE NowFits(g[k - 1], r[k])
  <2>1. PICK j : j = k - 1
    OBVIOUS
  <2>2. j \in 0 .. Len(q) - 1 /\ j + 1 = k /\ k \in 1 .. Len(q) - 1 /\ k + 1 \in 1 .. Len(q) /\ (k + 1) - 1 = k
    BY <1>1, <1>3, <2>1
  <2>3. g[j] = Obeying(s, q, now)[k]
    BY <1>5, <2>2
  <2>4. r[k] = q[k + 1]
    BY <1>3, <2>2
  <2>5. NowFits(Obeying(s, q, now)[(k + 1) - 1], q[k + 1])
    BY <1>6, <2>2, <2>4 DEF Orderly
  <2>6. QED
    BY <2>1, <2>2, <2>3, <2>4, <2>5
<1>7. ASSUME NEW k \in 1 .. Len(r), NEW l \in 1 .. Len(r), k < l, r[k].ref = Now
      PROVE  r[l].ref = Now \/ r[l].cmd = "/flush"
  <2>1. /\ k \in 1 .. Len(q) - 1 /\ l \in 1 .. Len(q) - 1
        /\ k + 1 \in 1 .. Len(q) /\ l + 1 \in 1 .. Len(q) /\ k + 1 < l + 1
    BY <1>1, <1>3, <1>7
  <2>2. r[k] = q[k + 1] /\ r[l] = q[l + 1]
    BY <1>3, <2>1
  <2>3. QED
    BY <1>7, <2>1, <2>2 DEF Orderly
<1>8. Orderly(Obeyed(s, Head(q), now), r, now)
  BY <1>4, <1>6, <1>7 DEF Orderly
<1>9. QED
  BY <1>2, <1>8

\* A command is sent to a drip it is for.
LEMMA OrderlyAppend ==
    ASSUME NEW s, NEW q \in Seq(Message), NEW m \in Message, NEW now, Orderly(s, q, now),
           m.ref = Now => NowFits(Obeying(s, q, now)[Len(q)], m),
           (\E k \in 1 .. Len(q) : q[k].ref = Now) => m.ref = Now \/ m.cmd = "/flush"
    PROVE  Orderly(s, Append(q, m), now)
<1>1. PICK r : r = Append(q, m)
  OBVIOUS
<1>2. /\ Len(q) \in Nat /\ Len(r) = Len(q) + 1
      /\ r[Len(q) + 1] = m /\ \A k \in 1 .. Len(q) : r[k] = q[k]
  BY <1>1, AppendProperties
<1>3. \A k \in 0 .. Len(q) : Obeying(s, r, now)[k] = Obeying(s, q, now)[k]
  BY <1>1, OneMore
<1>4. ASSUME NEW k \in 1 .. Len(r), r[k].ref = Now PROVE NowFits(Obeying(s, r, now)[k - 1], r[k])
  <2>1. CASE k \in 1 .. Len(q)
    <3>1. r[k] = q[k]
      BY <1>2, <2>1
    <3>2. PICK j : j = k - 1
      OBVIOUS
    <3>3. j \in 0 .. Len(q)
      BY <1>2, <2>1, <3>2
    <3>4. Obeying(s, r, now)[j] = Obeying(s, q, now)[j]
      BY <1>3, <3>3
    <3>5. NowFits(Obeying(s, q, now)[k - 1], q[k])
      BY <1>4, <2>1, <3>1 DEF Orderly
    <3>6. QED
      BY <3>1, <3>2, <3>4, <3>5
  <2>2. CASE k = Len(q) + 1
    <3>1. r[k] = m /\ k - 1 = Len(q) /\ Len(q) \in 0 .. Len(q)
      BY <1>2, <2>2
    <3>2. Obeying(s, r, now)[k - 1] = Obeying(s, q, now)[Len(q)]
      BY <1>3, <3>1
    <3>3. QED
      BY <1>4, <3>1, <3>2
  <2>3. QED
    BY <1>2, <2>1, <2>2
<1>5. ASSUME NEW k \in 1 .. Len(r), NEW l \in 1 .. Len(r), k < l, r[k].ref = Now
      PROVE  r[l].ref = Now \/ r[l].cmd = "/flush"
  <2>1. k \in 1 .. Len(q)
    BY <1>2, <1>5
  <2>2. r[k] = q[k]
    BY <1>2, <2>1
  <2>3. CASE l \in 1 .. Len(q)
    <3>1. r[l] = q[l]
      BY <1>2, <2>3
    <3>2. QED
      BY <1>5, <2>1, <2>2, <2>3, <3>1 DEF Orderly
  <2>4. CASE l = Len(q) + 1
    <3>1. r[l] = m
      BY <1>2, <2>4
    <3>2. QED
      BY <1>5, <2>1, <2>2, <3>1
  <2>5. QED
    BY <1>2, <2>3, <2>4
<1>6. QED
  BY <1>1, <1>4, <1>5 DEF Orderly

-----------------------------------------------------------------------------
(* What a command does to the schedule is a step of the playhead.            *)

ModeOf(s) == IF s.initializing THEN "stopped" ELSE IF s.paused THEN "still" ELSE "moving"
RateOf(s) == Slowest \div s.period
PosOf(s, now) == IF s.initializing THEN 0 ELSE Position(s, now)

\* Positions are whole steps of the clock.
OnGrid(s, now) == \E j \in Int : PosOf(s, now) = j * Grain

\* The playhead is turned: stopped, started, its rate changed, held or released, or left alone.
Turned(s, t, now) ==
    \/ ModeOf(t) = "stopped"
    \/ ModeOf(s) = "stopped" /\ ModeOf(t) = "moving" /\ PosOf(t, now) \in Int /\ PosOf(t, now) <= 0
    \/ PosOf(t, now) = PosOf(s, now) /\ ModeOf(s) = "moving" /\ ModeOf(t) = "moving"
    \/ /\ PosOf(t, now) = PosOf(s, now) /\ RateOf(t) = RateOf(s)
       /\ ModeOf(s) # "stopped" /\ ModeOf(t) # "stopped"
    \/ Agrees(s, t)

\* What agrees stands still.
LEMMA AgreesSame ==
    ASSUME NEW s, NEW t, Agrees(s, t), NEW now
    PROVE  ModeOf(s) = ModeOf(t) /\ RateOf(s) = RateOf(t) /\ PosOf(s, now) = PosOf(t, now)
  BY DEF Agrees, SameMode, ModeOf, RateOf, PosOf, Position

\* The rate is a whole number.
LEMMA WholeRate ==
    ASSUME WholeSteps, NEW s \in DripFields
    PROVE  /\ RateOf(s) \in Nat \ {0} /\ Slowest = RateOf(s) * s.period
           /\ s.period \in Nat \ {0} /\ Slowest \in Nat \ {0} /\ Grain \in Nat
           /\ RateOf(s) \in {Slowest \div p : p \in Periods \cup {Slowest}}
<1>1. s.period \in Periods \cup {Slowest}
  BY DEF DripFields
<1>2. s.period \in Nat \ {0} /\ Slowest \in Nat \ {0} /\ Grain \in Nat
  BY <1>1, DripAssumption
<1>3. PICK a \in 1 .. Slowest : Slowest = a * s.period
  BY <1>1 DEF WholeSteps
<1>4. a \in Nat /\ a > 0
  BY <1>2, <1>3
<1>5. (a * s.period) \div s.period = a
  BY <1>2, <1>4, ExactDivision
<1>6. RateOf(s) = a
  BY <1>3, <1>5 DEF RateOf
<1>7. RateOf(s) \in {Slowest \div p : p \in Periods \cup {Slowest}}
  BY <1>1 DEF RateOf
<1>8. QED
  BY <1>2, <1>3, <1>4, <1>6, <1>7

\* On whole steps no time is rounded when the rate changes.
LEMMA GridExact ==
    ASSUME WholeSteps, NEW s \in DripFields, ~s.initializing, ~s.paused, NEW now \in Nat,
           OnGrid(s, now), NEW p \in Periods
    PROVE  Exact(s, now, p)
<1>1. PICK b : b = RateOf(s)
  OBVIOUS
<1>2. b \in Nat \ {0} /\ Slowest = b * s.period /\ s.period \in Nat \ {0} /\ Slowest \in Nat /\ Grain \in Nat
  BY <1>1, WholeRate
<1>3. PICK d : d = now - s.start
  OBVIOUS
<1>4. d \in Int
  BY <1>3 DEF DripFields
<1>5. PICK j \in Int : d * b = j * Grain
  BY <1>1, <1>3 DEF OnGrid, PosOf, Position, RateOf
<1>6. p \in Nat
  BY DripAssumption
<1>7. PICK c \in Nat : Grain * p = c * Slowest
  <2>1. PICK c \in 0 .. Grain * p : Grain * p = c * Slowest
    BY DEF WholeSteps
  <2>2. QED
    BY <2>1
<1>8. (d * p) * b = ((j * c) * s.period) * b
  <2>1. (d * p) * b = (d * b) * p
    BY <1>2, <1>4, <1>6
  <2>2. (j * Grain) * p = j * (Grain * p)
    BY <1>2, <1>6
  <2>3. j * (c * Slowest) = (j * c) * Slowest
    BY <1>2
  <2>4. (j * c) * (b * s.period) = ((j * c) * s.period) * b
    BY <1>2
  <2>5. QED
    BY <1>2, <1>5, <1>7, <2>1, <2>2, <2>3, <2>4
<1>9. PICK u, v : u = d * p /\ v = (j * c) * s.period
  OBVIOUS
<1>10. u \in Int /\ v \in Int /\ u * b = v * b
  BY <1>2, <1>4, <1>6, <1>8, <1>9
<1>11. (u * b) \div b = u /\ (v * b) \div b = v
  BY <1>2, <1>10, ExactDivision
<1>12. d * p = (j * c) * s.period /\ j * c \in Int
  BY <1>9, <1>10, <1>11
<1>13. QED
  BY <1>3, <1>12 DEF Exact

\* What the programs and the network send turns the playhead, at the time it is sent.
LEMMA Turns ==
    ASSUME WholeSteps, NEW s \in DripFields, NEW now \in Nat, PauseBegan(s, now), OnGrid(s, now),
           NEW m \in Message, m.ref = Now \/ m.ref = now \/ m.cmd \in {"/flush", "/reset"}, m.ref <= now,
           \/ m.cmd = "/flush"
           \/ m.cmd = "/reset" /\ ~s.initializing
           \/ m.cmd \in {"/pause", "/pausenow"} /\ ~s.initializing
           \/ m.cmd \in {"/fps", "/fpsnow"} /\ ~s.initializing /\ ~s.paused
           \/ /\ m.cmd = "/start" /\ s.initializing
              /\ \E j \in Nat : (IF m.ref = Now THEN now + m.arg ELSE m.arg) = now + j * Grain
    PROVE  Turned(s, Obeyed(s, m, now), now) /\ OnGrid(Obeyed(s, m, now), now)
<1>1. PICK t : t = Obeyed(s, m, now)
  OBVIOUS
<1>2. t \in DripFields /\ ModeFits(s, m, t)
  BY <1>1, ObeyedProper, ObeyedMode DEF Proper
<1>3. CASE m.cmd = "/flush"
  <2>1. Agrees(s, t)
    BY <1>1, <1>3, FlushAgrees
  <2>2. PosOf(s, now) = PosOf(t, now)
    BY <2>1, AgreesSame
  <2>3. QED
    BY <1>1, <2>1, <2>2 DEF Turned, OnGrid
<1>4. CASE m.cmd = "/reset" /\ ~s.initializing
  <2>1. t.initializing = TRUE
    BY <1>2, <1>4 DEF ModeFits
  <2>2. ModeOf(t) = "stopped" /\ PosOf(t, now) = 0
    BY <2>1 DEF ModeOf, PosOf
  <2>3. 0 = 0 * Grain
    BY DripAssumption
  <2>4. QED
    BY <1>1, <2>2, <2>3 DEF Turned, OnGrid
<1>5. ASSUME m.cmd \in {"/pause", "/pausenow", "/fps", "/fpsnow"}, ~s.initializing,
             m.cmd \in {"/fps", "/fpsnow"} => ~s.paused
      PROVE  t.initializing = FALSE /\ PosOf(t, now) = PosOf(s, now) /\ OnGrid(t, now)
  <2>1. t.initializing = FALSE
    BY <1>2, <1>5 DEF ModeFits
  <2>2. now = IF m.ref = Now THEN now ELSE m.ref
    BY <1>5
  <2>3. \A p \in Periods \cup {Slowest} : \E a \in Nat : Slowest = a * p
    <3>1. ASSUME NEW p \in Periods \cup {Slowest} PROVE \E a \in Nat : Slowest = a * p
      <4>1. PICK a \in 1 .. Slowest : Slowest = a * p
        BY DEF WholeSteps
      <4>2. a \in Nat
        BY <4>1
      <4>3. QED
        BY <4>1, <4>2
    <3>2. QED
      BY <3>1
  <2>4. ASSUME m.cmd \in {"/fps", "/fpsnow"} PROVE ~s.paused /\ Exact(s, now, m.arg)
    <3>1. m.arg \in Periods
      BY <2>4 DEF Message
    <3>2. QED
      BY <1>5, <2>4, <3>1, GridExact
  <2>5. Position(t, now) = Position(s, now)
    BY <1>1, <1>5, <2>2, <2>3, <2>4, NoJump
  <2>6. PosOf(t, now) = PosOf(s, now)
    BY <1>5, <2>1, <2>5 DEF PosOf
  <2>7. QED
    BY <2>1, <2>6 DEF OnGrid
<1>6. CASE m.cmd \in {"/pause", "/pausenow"} /\ ~s.initializing
  <2>1. t.initializing = FALSE /\ PosOf(t, now) = PosOf(s, now) /\ OnGrid(t, now)
    BY <1>5, <1>6
  <2>2. t \in {s, Hold(s, now), GoOn(s, now)}
    <3>1. t = ObeyRunning(s, m, now)
      BY <1>1, <1>6 DEF Obeyed
    <3>2. now = IF m.ref = Now THEN now ELSE m.ref
      BY <1>6
    <3>3. CASE m.cmd = "/pause"
      <4>1. t = IF s.paused THEN GoOn(s, now) ELSE Hold(s, now)
        BY <3>1, <3>2, <3>3 DEF ObeyRunning
      <4>2. QED
        BY <4>1
    <3>4. CASE m.cmd = "/pausenow"
      <4>1. t = IF s.paused /\ ~m.arg THEN GoOn(s, now) ELSE IF ~s.paused /\ m.arg THEN Hold(s, now) ELSE s
        BY <3>1, <3>2, <3>4 DEF ObeyRunning
      <4>2. QED
        BY <4>1, Zenon
    <3>5. QED
      BY <1>6, <3>3, <3>4
  <2>3. t.period = s.period
    BY <2>2 DEF Hold, GoOn, DripFields
  <2>4. ModeOf(s) # "stopped" /\ ModeOf(t) # "stopped" /\ RateOf(t) = RateOf(s)
    BY <1>6, <2>1, <2>3 DEF ModeOf, RateOf
  <2>5. QED
    BY <1>1, <2>1, <2>4 DEF Turned
<1>7. CASE m.cmd \in {"/fps", "/fpsnow"} /\ ~s.initializing /\ ~s.paused
  <2>1. t.initializing = FALSE /\ PosOf(t, now) = PosOf(s, now) /\ OnGrid(t, now)
    BY <1>5, <1>7
  <2>2. t.paused = s.paused
    BY <1>2, <1>7 DEF ModeFits
  <2>3. ModeOf(s) = "moving" /\ ModeOf(t) = "moving"
    BY <1>7, <2>1, <2>2 DEF ModeOf
  <2>4. QED
    BY <1>1, <2>1, <2>3 DEF Turned
<1>8. CASE /\ m.cmd = "/start" /\ s.initializing
           /\ \E j \in Nat : (IF m.ref = Now THEN now + m.arg ELSE m.arg) = now + j * Grain
  <2>1. PICK j \in Nat : (IF m.ref = Now THEN now + m.arg ELSE m.arg) = now + j * Grain
    BY <1>8
  <2>2. PICK x : x = now + j * Grain
    OBVIOUS
  <2>3. t = [s EXCEPT !.start = x, !.initializing = FALSE, !.paused = FALSE, !.n = 0]
    BY <1>1, <1>8, <2>1, <2>2 DEF Obeyed, ObeyInit
  <2>4. t.start = x /\ t.period = s.period /\ t.initializing = FALSE /\ t.paused = FALSE
    BY <2>3 DEF DripFields
  <2>5. PICK a : a = RateOf(s)
    OBVIOUS
  <2>6. a \in Nat /\ Grain \in Nat
    BY <2>5, WholeRate
  <2>7. PosOf(t, now) = (now - x) * a
    BY <2>4, <2>5 DEF PosOf, Position, RateOf
  <2>8. PICK y : y = j * Grain
    OBVIOUS
  <2>9. y \in Nat /\ now - x = -y
    BY <2>2, <2>6, <2>8
  <2>10. (now - x) * a = -(y * a) /\ y * a \in Nat
    BY <2>6, <2>9
  <2>11. PICK z : z = y * a
    OBVIOUS
  <2>12. PosOf(t, now) \in Int /\ PosOf(t, now) <= 0
    BY <2>7, <2>10, <2>11
  <2>13. -(y * a) = (-(j * a)) * Grain
    BY <2>6, <2>8
  <2>14. -(j * a) \in Int
    BY <2>6
  <2>15. OnGrid(t, now)
    BY <2>7, <2>10, <2>13, <2>14 DEF OnGrid
  <2>16. ModeOf(s) = "stopped" /\ ModeOf(t) = "moving"
    BY <1>8, <2>4 DEF ModeOf
  <2>17. QED
    BY <1>1, <2>12, <2>15, <2>16 DEF Turned
<1>9. QED
  BY <1>3, <1>4, <1>6, <1>7, <1>8

-----------------------------------------------------------------------------
(* The steps of the thread and of those who send, as steps of the playhead.  *)

PlayInv == DripInv /\ Orderly(dp, cmds, clock) /\ OnGrid(Schedule, clock)

\* The head is where the schedule says.
LEMMA HeadIs == HeadMode = ModeOf(Schedule) /\ HeadRate = RateOf(Schedule) /\ HeadPos = PosOf(Schedule, clock)
  BY DEF HeadMode, HeadRate, HeadPos, ModeOf, RateOf, PosOf, Position

\* The plan is made of proper fields.
LEMMA PlanProper ==
    ASSUME NEW s \in DripFields, NEW now \in Nat, PauseBegan(s, now),
           NEW q \in Seq(Message), \A k \in 1 .. Len(q) : q[k].ref <= now
    PROVE  Plan(s, q, now) \in DripFields /\ PauseBegan(Plan(s, q, now), now)
<1>1. TimedCount(q) \in 0 .. Len(q)
  BY TimedCountIs DEF IsTimedCount
<1>2. QED
  BY <1>1, ObeyingProper DEF Plan

\* Without pending commands the plan is what the fields say.
LEMMA PlanEmpty ==
    ASSUME NEW s, NEW now
    PROVE  Plan(s, <<>>, now) = s /\ Orderly(s, <<>>, now)
<1>1. Len(<<>>) = 0 /\ Len(<<>>) \in Nat
  OBVIOUS
<1>2. TimedCount(<<>>) = 0
  BY <1>1, TimedCountIs DEF IsTimedCount
<1>3. Plan(s, <<>>, now) = s
  BY <1>1, <1>2, ObeyingSteps DEF Plan
<1>4. 1 .. Len(<<>>) = {}
  BY <1>1
<1>5. QED
  BY <1>3, <1>4 DEF Orderly

\* What the invariant says in these terms, and of the next state.
LEMMA InvFacts ==
    ASSUME DripInv
    PROVE  /\ Schedule = Plan(dp, cmds, clock) /\ clock \in Nat /\ cmds \in Seq(Message)
           /\ dp \in DripFields /\ PauseBegan(dp, clock)
           /\ \A k \in 1 .. Len(cmds) : cmds[k].ref <= clock
           /\ Schedule \in DripFields /\ PauseBegan(Schedule, clock)
<1>1. /\ clock \in Nat /\ cmds \in Seq(Message) /\ dp \in DripFields /\ PauseBegan(dp, clock)
      /\ \A k \in 1 .. Len(cmds) : cmds[k].ref <= clock
  BY DEF DripInv, DripShape, Referred
<1>2. Schedule = Plan(dp, cmds, clock)
  BY DEF Schedule, Plan
<1>3. QED
  BY <1>1, <1>2, PlanProper

\* What turns the schedule is a step of the playhead.
LEMMA TurnIsStep ==
    ASSUME WholeSteps, Schedule \in DripFields, Schedule' \in DripFields, clock' = clock,
           Turned(Schedule, Schedule', clock)
    PROVE  PH!Next \/ UNCHANGED <<clock, PH!Head>>
<1>1. HeadMode = ModeOf(Schedule) /\ HeadRate = RateOf(Schedule) /\ HeadPos = PosOf(Schedule, clock)
  BY HeadIs
<1>2. HeadMode' = ModeOf(Schedule') /\ HeadRate' = RateOf(Schedule') /\ HeadPos' = PosOf(Schedule', clock)
  <2>1. HeadMode' = ModeOf(Schedule') /\ HeadRate' = RateOf(Schedule') /\ HeadPos' = PosOf(Schedule', clock')
    BY DEF HeadMode, HeadRate, HeadPos, ModeOf, RateOf, PosOf, Position
  <2>2. QED
    BY <2>1
<1>3. RateOf(Schedule') \in {Slowest \div p : p \in Periods \cup {Slowest}}
  BY WholeRate
<1>4. CASE ModeOf(Schedule') = "stopped"
  <2>1. HeadPos' = 0
    BY <1>2, <1>4 DEF ModeOf, PosOf
  <2>2. PH!Stop
    BY <1>2, <1>3, <1>4, <2>1 DEF PH!Stop
  <2>3. QED
    BY <2>2 DEF PH!Next
<1>5. CASE /\ ModeOf(Schedule) = "stopped" /\ ModeOf(Schedule') = "moving"
           /\ PosOf(Schedule', clock) \in Int /\ PosOf(Schedule', clock) <= 0
  <2>1. PH!Start
    BY <1>1, <1>2, <1>3, <1>5 DEF PH!Start
  <2>2. QED
    BY <2>1 DEF PH!Next
<1>6. CASE /\ PosOf(Schedule', clock) = PosOf(Schedule, clock)
           /\ ModeOf(Schedule) = "moving" /\ ModeOf(Schedule') = "moving"
  <2>1. PH!SetRate
    BY <1>1, <1>2, <1>3, <1>6 DEF PH!SetRate
  <2>2. QED
    BY <2>1 DEF PH!Next
<1>7. CASE /\ PosOf(Schedule', clock) = PosOf(Schedule, clock) /\ RateOf(Schedule') = RateOf(Schedule)
           /\ ModeOf(Schedule) # "stopped" /\ ModeOf(Schedule') # "stopped"
  <2>1. HeadMode \in {"moving", "still"} /\ HeadMode' \in {"moving", "still"}
    BY <1>1, <1>2, <1>7 DEF ModeOf
  <2>2. PH!Pause \/ PH!Resume \/ UNCHANGED <<clock, PH!Head>>
    BY <1>1, <1>2, <1>7, <2>1 DEF PH!Pause, PH!Resume, PH!Head
  <2>3. QED
    BY <2>2 DEF PH!Next
<1>8. CASE Agrees(Schedule, Schedule')
  <2>1. /\ ModeOf(Schedule) = ModeOf(Schedule') /\ RateOf(Schedule) = RateOf(Schedule')
        /\ PosOf(Schedule, clock) = PosOf(Schedule', clock)
    BY <1>8, AgreesSame
  <2>2. QED
    BY <1>1, <1>2, <2>1 DEF PH!Head
<1>9. QED
  BY <1>4, <1>5, <1>6, <1>7, <1>8 DEF Turned

\* The clock moves the playhead.
LEMMA TickIsStep ==
    ASSUME WholeSteps, Schedule \in DripFields, clock \in Nat, OnGrid(Schedule, clock),
           clock' = clock + Grain, Schedule' = Schedule
    PROVE  PH!Next /\ OnGrid(Schedule', clock')
<1>1. HeadMode = ModeOf(Schedule) /\ HeadRate = RateOf(Schedule) /\ HeadPos = PosOf(Schedule, clock)
  BY HeadIs
<1>2. HeadMode' = ModeOf(Schedule') /\ HeadRate' = RateOf(Schedule') /\ HeadPos' = PosOf(Schedule', clock')
  BY DEF HeadMode, HeadRate, HeadPos, ModeOf, RateOf, PosOf, Position
<1>3. PICK s, a : s = Schedule /\ a = RateOf(s)
  OBVIOUS
<1>4. s \in DripFields /\ a \in Nat /\ Grain \in Nat
  BY <1>3, WholeRate
<1>5. PICK j \in Int : PosOf(s, clock) = j * Grain
  BY <1>3 DEF OnGrid
<1>6. CASE ModeOf(s) = "moving"
  <2>1. PICK d : d = clock - s.start
    OBVIOUS
  <2>2. d \in Int
    BY <1>4, <2>1 DEF DripFields
  <2>3. PosOf(s, clock) = d * a
    BY <1>3, <1>6, <2>1 DEF ModeOf, PosOf, Position, RateOf
  <2>4. (clock + Grain) - s.start = d + Grain
    BY <1>4, <2>1 DEF DripFields
  <2>5. PosOf(s, clock + Grain) = (d + Grain) * a
    BY <1>3, <1>6, <2>4 DEF ModeOf, PosOf, Position, RateOf
  <2>6. (d + Grain) * a = d * a + Grain * a
    BY <1>4, <2>2
  <2>7. PosOf(s, clock + Grain) = PosOf(s, clock) + Grain * a
    BY <2>3, <2>5, <2>6
  <2>8. PH!Tick
    BY <1>1, <1>2, <1>3, <1>6, <2>7 DEF PH!Tick
  <2>9. j * Grain + Grain * a = (j + a) * Grain /\ j + a \in Int
    BY <1>4
  <2>10. OnGrid(s, clock + Grain)
    BY <1>5, <2>7, <2>9 DEF OnGrid
  <2>11. QED
    BY <1>3, <2>8, <2>10 DEF PH!Next
<1>7. CASE ModeOf(s) # "moving"
  <2>1. PosOf(s, clock + Grain) = PosOf(s, clock)
    BY <1>7 DEF ModeOf, PosOf, Position
  <2>2. PH!Tick
    BY <1>1, <1>2, <1>3, <1>7, <2>1 DEF PH!Tick
  <2>3. OnGrid(s, clock + Grain)
    BY <1>5, <2>1 DEF OnGrid
  <2>4. QED
    BY <1>3, <2>2, <2>3 DEF PH!Next
<1>8. QED
  BY <1>6, <1>7

\* The next state of a step, in these terms.
LEMMA NextFacts ==
    ASSUME DripInv, [DripNext]_dripVars
    PROVE  /\ Schedule' = Plan(dp', cmds', clock') /\ clock' \in Nat /\ cmds' \in Seq(Message)
           /\ dp' \in DripFields /\ PauseBegan(dp', clock')
           /\ \A k \in 1 .. Len(cmds') : cmds'[k].ref <= clock'
           /\ Schedule' \in DripFields
<1>1. DripShape'
  BY ShapeStep DEF DripInv
<1>2. /\ clock' \in Nat /\ cmds' \in Seq(Message) /\ dp' \in DripFields /\ PauseBegan(dp', clock')
      /\ \A k \in 1 .. Len(cmds') : cmds'[k].ref <= clock'
  BY <1>1 DEF DripShape, Referred, PauseBegan
<1>3. Schedule' = Plan(dp', cmds', clock')
  BY DEF Schedule, Plan
<1>4. QED
  BY <1>2, <1>3, PlanProper

\* What a step of the drip must be in terms of the playhead.
Followed ==
    /\ PH!Next \/ UNCHANGED <<clock, PH!Head>>
    /\ Orderly(dp', cmds', clock') /\ OnGrid(Schedule', clock')

\* A step that keeps the commands and the clock, and of the fields those of the schedule.
LEMMA QuietStep ==
    ASSUME WholeSteps, PlayInv, [DripNext]_dripVars, cmds' = cmds, clock' = clock,
           dp' = dp \/ (cmds = <<>> /\ (Agrees(dp, dp') \/ dp'.initializing))
    PROVE  Followed
<1>1. Schedule \in DripFields /\ Schedule = Plan(dp, cmds, clock)
  BY InvFacts DEF PlayInv
<1>2. Schedule' \in DripFields /\ Schedule' = Plan(dp', cmds', clock')
  BY NextFacts DEF PlayInv
<1>3. Turned(Schedule, Schedule', clock) /\ Orderly(dp', cmds', clock') /\ OnGrid(Schedule', clock')
  <2>1. CASE dp' = dp
    <3>1. Schedule' = Schedule
      BY <1>1, <1>2, <2>1
    <3>2. Agrees(Schedule, Schedule')
      BY <3>1 DEF Agrees, SameMode
    <3>3. QED
      BY <2>1, <3>1, <3>2 DEF PlayInv, Turned
  <2>2. CASE cmds = <<>>
    <3>1. Schedule = dp /\ Schedule' = dp' /\ Orderly(dp', cmds', clock')
      BY <1>1, <1>2, <2>2, PlanEmpty
    <3>2. CASE Agrees(dp, dp')
      <4>1. PosOf(dp, clock) = PosOf(dp', clock)
        BY <3>2, AgreesSame
      <4>2. QED
        BY <3>1, <3>2, <4>1 DEF PlayInv, OnGrid, Turned
    <3>3. CASE dp'.initializing
      <4>1. ModeOf(dp') = "stopped" /\ PosOf(dp', clock) = 0
        BY <3>3 DEF ModeOf, PosOf
      <4>2. 0 = 0 * Grain
        BY DripAssumption
      <4>3. QED
        BY <3>1, <4>1, <4>2 DEF OnGrid, Turned
    <3>4. CASE dp' = dp
      BY <2>1, <3>4
    <3>5. QED
      BY <3>2, <3>3, <3>4
  <2>3. QED
    BY <2>1, <2>2
<1>4. QED
  BY <1>1, <1>2, <1>3, TurnIsStep DEF Followed

\* Sending an image stops the schedule or leaves it alone.
LEMMA CountedAgrees ==
    ASSUME NEW s \in DripFields, NEW t, t = CountAfterSend([s EXCEPT !.n = @ + 1])
    PROVE  Agrees(s, t) \/ t.initializing
<1>1. PICK u : u = [s EXCEPT !.n = @ + 1]
  OBVIOUS
<1>2. u \in DripFields /\ Agrees(s, u)
  <2>1. u = [start |-> s.start, period |-> s.period, paused |-> s.paused,
             pauseStart |-> s.pauseStart, n |-> s.n + 1, predisplay |-> s.predisplay,
             count |-> s.count, initializing |-> s.initializing, flush |-> s.flush]
    BY <1>1 DEF DripFields
  <2>2. s.n + 1 \in Nat
    BY DEF DripFields
  <2>3. QED
    BY <2>1, <2>2 DEF DripFields, Agrees, SameMode
<1>3. CASE u.count < 0
  BY <1>1, <1>2, <1>3 DEF CountAfterSend
<1>4. CASE ~(u.count < 0)
  <2>1. PICK b : b = (u.initializing \/ u.count = 1)
    OBVIOUS
  <2>2. b \in BOOLEAN /\ (~b => ~u.initializing)
    BY <2>1, Zenon
  <2>3. t = [u EXCEPT !.count = u.count - 1, !.initializing = (u.initializing \/ u.count = 1)]
    BY <1>1, <1>4 DEF CountAfterSend
  <2>4. PICK c : c = u.count - 1
    OBVIOUS
  <2>5. t = [u EXCEPT !.count = c, !.initializing = b]
    BY <2>1, <2>3, <2>4, Zenon
  <2>6. /\ t.initializing = b /\ t.paused = u.paused /\ t.start = u.start
        /\ t.period = u.period /\ t.pauseStart = u.pauseStart
    BY <1>2, <2>5 DEF DripFields
  <2>7. CASE b
    BY <2>6, <2>7
  <2>8. CASE ~b
    <3>1. b = FALSE /\ u.initializing = FALSE
      BY <1>2, <2>2, <2>8 DEF DripFields
    <3>2. QED
      BY <1>2, <2>6, <3>1 DEF Agrees, SameMode
  <2>9. QED
    BY <2>7, <2>8
<1>5. QED
  BY <1>3, <1>4

\* A pending command is obeyed, sooner or later.
LEMMA HeadStep ==
    ASSUME WholeSteps, PlayInv, [DripNext]_dripVars, cmds # <<>>, ObeyHead, clock' = clock
    PROVE  Followed
<1>1. PICK m : m = Head(cmds)
  OBVIOUS
<1>2. /\ Schedule \in DripFields /\ Schedule = Plan(dp, cmds, clock) /\ clock \in Nat
      /\ cmds \in Seq(Message) /\ dp \in DripFields /\ PauseBegan(dp, clock)
      /\ \A k \in 1 .. Len(cmds) : cmds[k].ref <= clock
  BY InvFacts DEF PlayInv
<1>3. Schedule' \in DripFields /\ Schedule' = Plan(dp', cmds', clock')
  BY NextFacts DEF PlayInv
<1>4. dp' = Obeyed(dp, m, clock) /\ cmds' = Tail(cmds)
  BY <1>1 DEF ObeyHead
<1>5. Orderly(dp, cmds, clock) /\ OnGrid(Schedule, clock)
  BY DEF PlayInv
<1>6. Orderly(dp', cmds', clock')
  BY <1>1, <1>2, <1>4, <1>5, OrderlyTail
<1>7. CASE m.ref # Now
  <2>1. Schedule' = Schedule
    BY <1>1, <1>2, <1>3, <1>4, <1>7, PlanTimedHead
  <2>2. Agrees(Schedule, Schedule')
    BY <2>1 DEF Agrees, SameMode
  <2>3. QED
    BY <1>2, <1>3, <1>5, <1>6, <2>1, <2>2, TurnIsStep DEF Followed, Turned
<1>8. CASE m.ref = Now
  <2>1. Schedule = dp /\ Agrees(dp', Schedule')
    BY <1>1, <1>2, <1>3, <1>4, <1>5, <1>8, PlanNowHead
  <2>2. m \in Message /\ m.ref <= clock /\ NowFits(dp, m)
    <3>1. Len(cmds) \in Nat /\ Len(cmds) > 0 /\ m = cmds[1] /\ m \in Message
      BY <1>1, <1>2, EmptySeq, HeadTailProperties
    <3>2. 1 \in 1 .. Len(cmds) /\ 1 - 1 = 0
      BY <3>1
    <3>3. NowFits(Obeying(dp, cmds, clock)[0], m)
      BY <1>5, <1>8, <3>1, <3>2 DEF Orderly
    <3>4. QED
      BY <1>2, <3>1, <3>2, <3>3, ObeyingSteps
  <2>3. Turned(dp, dp', clock) /\ OnGrid(dp', clock)
    <3>1. \/ m.cmd \in {"/pause", "/pausenow"} /\ ~dp.initializing
          \/ m.cmd \in {"/fps", "/fpsnow"} /\ ~dp.initializing /\ ~dp.paused
          \/ /\ m.cmd = "/start" /\ dp.initializing
             /\ \E j \in Nat : (IF m.ref = Now THEN clock + m.arg ELSE m.arg) = clock + j * Grain
      BY <1>8, <2>2 DEF NowFits
    <3>2. QED
      BY <1>2, <1>4, <1>5, <1>8, <2>1, <2>2, <3>1, Turns
  <2>4. /\ ModeOf(dp') = ModeOf(Schedule') /\ RateOf(dp') = RateOf(Schedule')
        /\ PosOf(dp', clock) = PosOf(Schedule', clock)
    BY <2>1, AgreesSame
  <2>5. Agrees(dp, dp') => Agrees(dp, Schedule')
    BY <2>1 DEF Agrees, SameMode
  <2>6. Turned(Schedule, Schedule', clock)
    BY <2>1, <2>3, <2>4, <2>5 DEF Turned
  <2>7. OnGrid(Schedule', clock')
    BY <2>3, <2>4 DEF OnGrid
  <2>8. QED
    BY <1>2, <1>3, <1>6, <2>6, <2>7, TurnIsStep DEF Followed
<1>9. QED
  BY <1>7, <1>8

\* What is sent is meant for the drip as it will be when the pending commands are obeyed.
Turning(s, m) ==
    \/ m.cmd = "/flush"
    \/ m.cmd = "/reset" /\ ~s.initializing
    \/ m.cmd \in {"/pause", "/pausenow"} /\ ~s.initializing
    \/ m.cmd \in {"/fps", "/fpsnow"} /\ ~s.initializing /\ ~s.paused
    \/ /\ m.cmd = "/start" /\ s.initializing
       /\ \E j \in Nat : (IF m.ref = Now THEN clock + m.arg ELSE m.arg) = clock + j * Grain

Meant(m) ==
    /\ m.ref <= clock
    /\ m.ref = Now \/ m.ref = clock \/ m.cmd \in {"/flush", "/reset"}
    /\ m.ref = Now => NowFits(Final, m)
    /\ NowPending => m.ref = Now \/ m.cmd = "/flush"
    /\ ~NowPending => Turning(Final, m)

\* So is all that the programs and the network send.
LEMMA SentMeant ==
    ASSUME clock \in Nat, TellTimed \/ TellNow \/ TellFlush \/ TellReset \/ TellStart
    PROVE  \E m \in Message : Meant(m) /\ Tell(m)
<1>1. CASE TellTimed
  <2>1. ~Final.initializing /\ ~NowPending
    BY <1>1 DEF TellTimed, Running
  <2>2. CASE Tell(Msg("/pause", 0, clock))
    <3>1. PICK m : m = Msg("/pause", 0, clock)
      OBVIOUS
    <3>2. m \in Message /\ m.ref = clock /\ m.ref # Now /\ m.cmd = "/pause"
      BY <3>1 DEF Msg, Message, Now
    <3>3. Meant(m)
      BY <2>1, <3>2 DEF Meant, Turning
    <3>4. QED
      BY <2>2, <3>1, <3>2, <3>3
  <2>3. ASSUME NEW p \in Periods, ~Final.paused, Tell(Msg("/fps", p, clock))
        PROVE  \E m \in Message : Meant(m) /\ Tell(m)
    <3>1. PICK m : m = Msg("/fps", p, clock)
      OBVIOUS
    <3>2. m \in Message /\ m.ref = clock /\ m.ref # Now /\ m.cmd = "/fps"
      BY <3>1 DEF Msg, Message, Now
    <3>3. Meant(m)
      BY <2>1, <2>3, <3>2 DEF Meant, Turning
    <3>4. QED
      BY <2>3, <3>1, <3>2, <3>3
  <2>4. QED
    BY <1>1, <2>2, <2>3 DEF TellTimed
<1>2. CASE TellNow
  <2>1. ~Final.initializing
    BY <1>2 DEF TellNow, Running
  <2>2. ASSUME NEW b \in BOOLEAN, Tell(Msg("/pausenow", b, Now))
        PROVE  \E m \in Message : Meant(m) /\ Tell(m)
    <3>1. PICK m : m = Msg("/pausenow", b, Now)
      OBVIOUS
    <3>2. m \in Message /\ m.ref = Now /\ m.ref <= clock /\ m.cmd = "/pausenow"
      BY <3>1 DEF Msg, Message, Now
    <3>3. Meant(m)
      BY <2>1, <3>2 DEF Meant, Turning, NowFits
    <3>4. QED
      BY <2>2, <3>1, <3>2, <3>3
  <2>3. ASSUME NEW p \in Periods, ~Final.paused, Tell(Msg("/fpsnow", p, Now))
        PROVE  \E m \in Message : Meant(m) /\ Tell(m)
    <3>1. PICK m : m = Msg("/fpsnow", p, Now)
      OBVIOUS
    <3>2. m \in Message /\ m.ref = Now /\ m.ref <= clock /\ m.cmd = "/fpsnow"
      BY <3>1 DEF Msg, Message, Now
    <3>3. Meant(m)
      BY <2>1, <2>3, <3>2 DEF Meant, Turning, NowFits
    <3>4. QED
      BY <2>3, <3>1, <3>2, <3>3
  <2>4. QED
    BY <1>2, <2>2, <2>3 DEF TellNow
<1>3. CASE TellFlush
  <2>1. PICK m : m = Msg("/flush", 0, 0)
    OBVIOUS
  <2>2. m \in Message /\ m.ref = 0 /\ m.ref # Now /\ m.ref <= clock /\ m.cmd = "/flush"
    BY <2>1 DEF Msg, Message, Now
  <2>3. Meant(m)
    BY <2>2 DEF Meant, Turning
  <2>4. QED
    BY <1>3, <2>1, <2>2, <2>3 DEF TellFlush
<1>4. CASE TellReset
  <2>1. ~Final.initializing /\ ~NowPending
    BY <1>4 DEF TellReset, Running
  <2>2. PICK m : m = Msg("/reset", 0, 0)
    OBVIOUS
  <2>3. m \in Message /\ m.ref = 0 /\ m.ref # Now /\ m.ref <= clock /\ m.cmd = "/reset"
    BY <2>2 DEF Msg, Message, Now
  <2>4. Meant(m)
    BY <2>1, <2>3 DEF Meant, Turning
  <2>5. QED
    BY <1>4, <2>2, <2>3, <2>4 DEF TellReset
<1>5. CASE TellStart
  <2>1. Final.initializing /\ ~NowPending
    BY <1>5 DEF TellStart
  <2>2. 0 * Grain = 0 /\ 1 * Grain = Grain /\ Grain \in Nat /\ clock + 0 = clock
    BY <1>5, DripAssumption
  <2>3. ASSUME NEW t \in {clock, clock + Grain}, Tell(Msg("/start", t, clock))
        PROVE  \E m \in Message : Meant(m) /\ Tell(m)
    <3>1. PICK m : m = Msg("/start", t, clock)
      OBVIOUS
    <3>2. m \in Message /\ m.ref = clock /\ m.ref # Now /\ m.cmd = "/start" /\ m.arg = t
      BY <2>2, <3>1 DEF Msg, Message, Now
    <3>3. \E j \in Nat : m.arg = clock + j * Grain
      <4>1. t = clock + 0 * Grain \/ t = clock + 1 * Grain
        BY <2>2, <2>3
      <4>2. QED
        BY <3>2, <4>1
    <3>4. Meant(m)
      BY <2>1, <3>2, <3>3 DEF Meant, Turning
    <3>5. QED
      BY <2>3, <3>1, <3>2, <3>4
  <2>4. ASSUME NEW t \in {0, Grain}, Tell(Msg("/start", t, Now))
        PROVE  \E m \in Message : Meant(m) /\ Tell(m)
    <3>1. PICK m : m = Msg("/start", t, Now)
      OBVIOUS
    <3>2. m \in Message /\ m.ref = Now /\ m.ref <= clock /\ m.cmd = "/start" /\ m.arg = t
      BY <2>2, <3>1 DEF Msg, Message, Now
    <3>3. PICK j \in Nat : m.arg = j * Grain
      <4>1. t = 0 * Grain \/ t = 1 * Grain
        BY <2>2, <2>4
      <4>2. QED
        BY <3>2, <4>1
    <3>4. clock + m.arg = clock + j * Grain
      BY <3>3
    <3>5. Meant(m)
      BY <2>1, <3>2, <3>3, <3>4 DEF Meant, Turning, NowFits
    <3>6. QED
      BY <2>4, <3>1, <3>2, <3>5
  <2>5. QED
    BY <1>5, <2>3, <2>4 DEF TellStart
<1>6. QED
  BY <1>1, <1>2, <1>3, <1>4, <1>5

\* A command is sent.
LEMMA TellStep ==
    ASSUME WholeSteps, PlayInv, [DripNext]_dripVars, NEW m \in Message, Meant(m), Tell(m)
    PROVE  Followed
<1>1. /\ Schedule \in DripFields /\ Schedule = Plan(dp, cmds, clock) /\ clock \in Nat
      /\ cmds \in Seq(Message) /\ PauseBegan(Schedule, clock)
  BY InvFacts DEF PlayInv
<1>2. Schedule' \in DripFields /\ Schedule' = Plan(dp', cmds', clock')
  BY NextFacts DEF PlayInv
<1>3. dp' = dp /\ cmds' = Append(cmds, m) /\ clock' = clock
  BY DEF Tell
<1>4. Orderly(dp, cmds, clock) /\ OnGrid(Schedule, clock)
  BY DEF PlayInv
<1>5. NowPending <=> \E k \in 1 .. Len(cmds) : cmds[k].ref = Now
  BY <1>1 DEF NowPending
<1>6. Orderly(dp', cmds', clock')
  <2>1. m.ref = Now => NowFits(Obeying(dp, cmds, clock)[Len(cmds)], m)
    BY DEF Meant, Final
  <2>2. (\E k \in 1 .. Len(cmds) : cmds[k].ref = Now) => m.ref = Now \/ m.cmd = "/flush"
    BY <1>5 DEF Meant
  <2>3. QED
    BY <1>1, <1>3, <1>4, <2>1, <2>2, OrderlyAppend
<1>7. CASE NowPending \/ m.ref = Now
  <2>1. Schedule' = Schedule
    BY <1>1, <1>2, <1>3, <1>5, <1>7, PlanAppend
  <2>2. Agrees(Schedule, Schedule')
    BY <2>1 DEF Agrees, SameMode
  <2>3. QED
    BY <1>1, <1>2, <1>3, <1>4, <1>6, <2>1, <2>2, TurnIsStep DEF Followed, Turned
<1>8. CASE ~NowPending /\ m.ref # Now
  <2>1. Schedule = Final /\ Schedule' = Obeyed(Schedule, m, clock)
    BY <1>1, <1>2, <1>3, <1>5, <1>8, PlanAppend DEF Final
  <2>2. Turned(Schedule, Obeyed(Schedule, m, clock), clock) /\ OnGrid(Obeyed(Schedule, m, clock), clock)
    <3>1. Turning(Schedule, m)
      BY <1>8, <2>1 DEF Meant
    <3>2. m.ref <= clock /\ (m.ref = Now \/ m.ref = clock \/ m.cmd \in {"/flush", "/reset"})
      BY DEF Meant
    <3>3. QED
      BY <1>1, <1>4, <3>1, <3>2, Turns DEF Turning
  <2>3. QED
    BY <1>1, <1>2, <1>3, <1>6, <2>1, <2>2, TurnIsStep DEF Followed
<1>9. QED
  BY <1>7, <1>8

\* Every step of the drip is one of the playhead, or none.
LEMMA FollowStep ==
    ASSUME WholeSteps, PlayInv, [DripNext]_dripVars
    PROVE  Followed
<1>1. /\ Schedule \in DripFields /\ Schedule = Plan(dp, cmds, clock) /\ clock \in Nat
      /\ cmds \in Seq(Message) /\ dp \in DripFields /\ PauseBegan(dp, clock)
      /\ \A k \in 1 .. Len(cmds) : cmds[k].ref <= clock
  BY InvFacts DEF PlayInv
<1>2. CASE UNCHANGED dripVars \/ Arrive \/ Turn \/ FlushImage \/ Wake
  <2>1. cmds' = cmds /\ clock' = clock /\ dp' = dp
    BY <1>2 DEF dripVars, Arrive, Turn, FlushImage, Wake
  <2>2. QED
    BY <2>1, QuietStep
<1>3. CASE Tick
  <2>1. dp' = dp /\ cmds' = cmds /\ clock' = clock + Grain /\ Grain \in Nat
    BY <1>3, DripAssumption DEF Tick
  <2>2. Schedule' = Plan(dp', cmds', clock') /\ Len(cmds) \in Nat
    BY <1>1, NextFacts DEF PlayInv
  <2>3. Schedule' = Schedule
    BY <1>1, <2>1, <2>2, PlanLater
  <2>4. PH!Next /\ OnGrid(Schedule', clock')
    BY <1>1, <2>1, <2>3, TickIsStep DEF PlayInv
  <2>5. Orderly(dp', cmds', clock')
    <3>1. clock' \in Nat /\ clock <= clock' /\ Orderly(dp, cmds, clock)
      BY <1>1, <2>1 DEF PlayInv
    <3>2. Orderly(dp, cmds, clock')
      BY <1>1, <3>1, OrderlyLater
    <3>3. QED
      BY <2>1, <3>2
  <2>6. QED
    BY <2>4, <2>5 DEF Followed
<1>4. CASE ObeyInWait \/ ObeyInPop
  <2>1. cmds # <<>> /\ ObeyHead /\ clock' = clock
    BY <1>4 DEF ObeyInWait, ObeyInPop
  <2>2. QED
    BY <2>1, HeadStep
<1>5. CASE Flushed
  <2>1. cmds = <<>> /\ cmds' = cmds /\ clock' = clock /\ Agrees(dp, dp')
    BY <1>1, <1>5 DEF Flushed, Agrees, SameMode, DripFields
  <2>2. QED
    BY <2>1, QuietStep
<1>6. CASE SendImage
  <2>1. cmds = <<>> /\ cmds' = cmds /\ clock' = clock /\ (Agrees(dp, dp') \/ dp'.initializing)
    BY <1>1, <1>6, CountedAgrees DEF SendImage
  <2>2. QED
    BY <2>1, QuietStep
<1>7. CASE TellTimed \/ TellNow \/ TellFlush \/ TellReset \/ TellStart
  <2>1. PICK m \in Message : Meant(m) /\ Tell(m)
    BY <1>1, <1>7, SentMeant
  <2>2. QED
    BY <2>1, TellStep
<1>8. QED
  BY <1>2, <1>3, <1>4, <1>5, <1>6, <1>7 DEF DripNext, Thread

\* The programs' first messages: all wait for /start, and only it means now.
LEMMA PlayInit ==
    ASSUME WholeSteps, SettingsFirst, DripInit
    PROVE  PlayInv /\ PH!Init
<1>1. DripInv
  BY DripInitInv
<1>2. /\ Schedule \in DripFields /\ Schedule = Plan(dp, cmds, clock) /\ clock \in Nat
      /\ cmds \in Seq(Message) /\ dp \in DripFields /\ Len(cmds) \in Nat
      /\ \A k \in 0 .. Len(cmds) : Obeying(dp, cmds, clock)[k] \in DripFields
  <2>1. /\ PauseBegan(dp, clock) /\ \A k \in 1 .. Len(cmds) : cmds[k].ref <= clock
        /\ dp \in DripFields /\ clock \in Nat /\ cmds \in Seq(Message)
    BY <1>1, InvFacts
  <2>2. QED
    BY <1>1, <2>1, InvFacts, ObeyingProper
<1>3. ASSUME NEW k \in 1 .. Len(cmds)
      PROVE  \/ cmds[k].cmd \in {"/fps", "/count", "/predisplay-first"} /\ cmds[k].ref # Now
             \/ /\ k = Len(cmds) /\ cmds[k].cmd = "/start" /\ cmds[k].ref = Now
                /\ \E j \in 0 .. cmds[k].arg : cmds[k].arg = j * Grain
  BY <1>2, <1>3 DEF SettingsFirst, DripInit
<1>4. PICK f : f = Obeying(dp, cmds, clock)
  OBVIOUS
<1>5. f[0] = dp /\ \A k \in 1 .. Len(cmds) : f[k] = Obeyed(f[k - 1], cmds[k], clock)
  BY <1>2, <1>4, ObeyingSteps
<1>6. dp.initializing
  BY DEF DripInit
<1> DEFINE S == {k \in Nat : \/ k > 0 /\ k = Len(cmds) /\ cmds[k].cmd = "/start"
                         \/ f[k].initializing}
<1>7. 0 .. Len(cmds) \subseteq S
  <2>1. 0 \in S
    BY <1>5, <1>6
  <2>2. ASSUME NEW k \in 0 .. Len(cmds), k \in S, k < Len(cmds) PROVE k + 1 \in S
    <3>1. k + 1 \in 1 .. Len(cmds) /\ (k + 1) - 1 = k /\ k # Len(cmds)
      BY <1>2, <2>2
    <3>2. f[k].initializing /\ f[k] \in DripFields
      BY <1>2, <1>4, <2>2, <3>1
    <3>3. cmds[k + 1] \in Message /\ f[k + 1] = Obeyed(f[k], cmds[k + 1], clock)
      BY <1>2, <1>5, <3>1
    <3>4. ModeFits(f[k], cmds[k + 1], f[k + 1])
      BY <3>2, <3>3, ObeyedMode
    <3>5. CASE cmds[k + 1].cmd = "/start"
      <4>1. k + 1 = Len(cmds)
        BY <1>3, <3>1, <3>5
      <4>2. QED
        BY <3>1, <3>5, <4>1
    <3>6. CASE cmds[k + 1].cmd # "/start"
      <4>1. f[k + 1].initializing = TRUE
        BY <3>2, <3>4, <3>6 DEF ModeFits
      <4>2. QED
        BY <3>1, <4>1
    <3>7. QED
      BY <3>5, <3>6
  <2>3. QED
    BY <1>2, <2>1, <2>2, UpTo
<1>8. Orderly(dp, cmds, clock)
  <2>1. ASSUME NEW k \in 1 .. Len(cmds), cmds[k].ref = Now PROVE NowFits(f[k - 1], cmds[k])
    <3>1. /\ k = Len(cmds) /\ cmds[k].cmd = "/start"
          /\ \E j \in 0 .. cmds[k].arg : cmds[k].arg = j * Grain
      BY <1>3, <2>1
    <3>2. k - 1 \in 0 .. Len(cmds) /\ k - 1 # Len(cmds)
      BY <1>2, <2>1, <3>1
    <3>3. f[k - 1].initializing
      BY <1>7, <3>2
    <3>4. \E j \in Nat : cmds[k].arg = j * Grain
      <4>1. PICK j \in 0 .. cmds[k].arg : cmds[k].arg = j * Grain
        BY <3>1
      <4>2. cmds[k] \in Message
        BY <1>2
      <4>3. j \in Nat
        OBVIOUS
      <4>4. QED
        BY <4>1, <4>3
    <3>5. QED
      BY <3>1, <3>3, <3>4 DEF NowFits
  <2>2. ASSUME NEW k \in 1 .. Len(cmds), NEW l \in 1 .. Len(cmds), k < l, cmds[k].ref = Now
        PROVE  FALSE
    <3>1. k = Len(cmds)
      BY <1>3, <2>2
    <3>2. QED
      BY <1>2, <2>2, <3>1
  <2>3. QED
    BY <1>4, <2>1, <2>2 DEF Orderly
<1>9. Schedule.initializing
  <2>1. PICK n : n = TimedCount(cmds)
    OBVIOUS
  <2>2. n \in 0 .. Len(cmds) /\ \A k \in 1 .. n : cmds[k].ref # Now
    BY <1>2, <2>1, TimedCountIs DEF IsTimedCount
  <2>3. ~(n > 0 /\ n = Len(cmds) /\ cmds[n].cmd = "/start")
    <3>1. SUFFICES ASSUME n > 0, n = Len(cmds), cmds[n].cmd = "/start" PROVE FALSE
      OBVIOUS
    <3>2. n \in 1 .. n /\ n \in 1 .. Len(cmds)
      BY <1>2, <2>2, <3>1
    <3>3. QED
      BY <1>3, <2>2, <3>1, <3>2
  <2>4. f[n].initializing
    BY <1>7, <2>2, <2>3
  <2>5. QED
    BY <1>2, <1>4, <2>1, <2>4 DEF Plan
<1>10. ModeOf(Schedule) = "stopped" /\ PosOf(Schedule, clock) = 0
  BY <1>9 DEF ModeOf, PosOf
<1>11. OnGrid(Schedule, clock)
  <2>1. 0 = 0 * Grain
    BY DripAssumption
  <2>2. QED
    BY <1>10, <2>1 DEF OnGrid
<1>12. PH!Init
  <2>1. RateOf(Schedule) \in {Slowest \div p : p \in Periods \cup {Slowest}}
    BY <1>2, WholeRate
  <2>2. clock = 0
    BY DEF DripInit
  <2>3. QED
    BY <1>10, <2>1, <2>2, HeadIs DEF PH!Init, PH!Modes
<1>13. QED
  BY <1>1, <1>8, <1>11, <1>12 DEF PlayInv

\* pluginDrip implements the playhead, for any rates, any settings and any number of commands:
\* however late the commands with a time reference are obeyed (loop(), decode()), the film
\* is where it would be if they had been obeyed in time, and it never jumps.
THEOREM Follows == ASSUME WholeSteps, SettingsFirst PROVE DripSpec => FollowsPlayhead
<1>1. DripInit => PlayInv /\ PH!Init
  BY PlayInit
<1>2. PlayInv /\ [DripNext]_dripVars => PlayInv' /\ [PH!Next]_<<clock, PH!Head>>
  <2>1. SUFFICES ASSUME PlayInv, [DripNext]_dripVars
                 PROVE  PlayInv' /\ [PH!Next]_<<clock, PH!Head>>
    OBVIOUS
  <2>2. Followed
    BY <2>1, FollowStep
  <2>3. DripInv'
    BY <2>1, ShapeStep, ScheduleStep DEF PlayInv, DripInv
  <2>4. QED
    BY <2>2, <2>3 DEF Followed, PlayInv
<1>3. QED
  BY <1>1, <1>2, PTL DEF DripSpec, FollowsPlayhead, PH!Spec
=============================================================================
