----------------------------- MODULE MovieProofs -----------------------------
(* Proofs about the movie programs: every image is in one place, whatever is *)
(* told to the player; no image shows a film that was closed; saveMovie has  *)
(* saved what it passed on when it quits.                                    *)
EXTENDS MoviePrograms, SequenceTheorems, FiniteSetTheorems, TLAPS

Item == Image \cup {MovieDone}

\* The places of out that hold an image.
Shown(o) == {i \in DOMAIN o : o[i] # MovieDone}

\* r is o with the images of sent and then "end" messages behind it.
Grown(o, r, sent) ==
    /\ r \in Seq(Item)
    /\ Len(r) >= Len(o) + Len(sent)
    /\ \A i \in 1 .. Len(o) : r[i] = o[i]
    /\ \A i \in 1 .. Len(sent) : r[Len(o) + i] = sent[i]
    /\ \A i \in Len(o) + Len(sent) + 1 .. Len(r) : r[i] = MovieDone

-----------------------------------------------------------------------------
(* Images in the queue and in the hands of the workers, and their number.    *)

\* The "end" message is no image.
LEMMA DoneIsNoImage == MovieDone \notin Image
BY DEF MovieDone, Image

\* What the player puts behind the queue.
LEMMA Grows ==
    ASSUME NEW o \in Seq(Item), NEW sent \in Seq(Image), NEW k \in Nat,
           NEW dones \in Seq(Item), Len(dones) = k, \A e \in 1 .. k : dones[e] = MovieDone
    PROVE  Grown(o, o \o sent \o dones, sent) /\ Len(o \o sent \o dones) = Len(o) + Len(sent) + k
<1>1. dones \in Seq(Item) /\ Len(dones) = k /\ \A e \in 1 .. k : dones[e] = MovieDone
  OBVIOUS
<1>2. sent \in Seq(Item)
  BY SeqMonotonic DEF Item
<1>3. /\ o \o sent \in Seq(Item) /\ Len(o \o sent) = Len(o) + Len(sent)
      /\ \A i \in 1 .. Len(o) + Len(sent) :
            (o \o sent)[i] = IF i <= Len(o) THEN o[i] ELSE sent[i - Len(o)]
  BY <1>2, ConcatProperties
<1> DEFINE os == o \o sent
<1>4. os \in Seq(Item)
  BY <1>3
<1> HIDE DEF os
<1>5. /\ os \o dones \in Seq(Item) /\ Len(os \o dones) = Len(os) + k
      /\ \A i \in 1 .. Len(os) + k :
            (os \o dones)[i] = IF i <= Len(os) THEN os[i] ELSE dones[i - Len(os)]
  BY <1>1, <1>4, ConcatProperties
<1>6. PICK r : r = os \o dones
  OBVIOUS
<1>7. Len(o) \in Nat /\ Len(sent) \in Nat
  BY LenProperties
<1>8. Len(os) = Len(o) + Len(sent)
  BY <1>3 DEF os
<1>9. \A i \in 1 .. Len(o) : r[i] = o[i]
  BY <1>3, <1>5, <1>6, <1>7, <1>8 DEF os
<1>10. \A i \in 1 .. Len(sent) : r[Len(o) + i] = sent[i]
  BY <1>3, <1>5, <1>6, <1>7, <1>8 DEF os
<1>11. \A i \in Len(o) + Len(sent) + 1 .. Len(r) : r[i] = MovieDone
  BY <1>1, <1>5, <1>6, <1>7, <1>8
<1>12. r \in Seq(Item) /\ Len(r) = Len(o) + Len(sent) + k
  BY <1>5, <1>6, <1>8
<1>13. Len(r) >= Len(o) + Len(sent)
  BY <1>7, <1>12
<1>14. QED
  BY <1>6, <1>9, <1>10, <1>11, <1>12, <1>13 DEF Grown, os

\* There are finitely many images in a queue.
LEMMA ShownFinite ==
    ASSUME NEW o \in Seq(Item)
    PROVE  IsFiniteSet(Shown(o))
<1>1. Len(o) \in Nat /\ DOMAIN o = 1 .. Len(o)
  BY LenProperties
<1>2. IsFiniteSet(1 .. Len(o))
  BY <1>1, FS_Interval
<1>3. Shown(o) \in SUBSET (1 .. Len(o))
  BY <1>1 DEF Shown
<1>4. QED
  BY <1>2, <1>3, FS_Subset

\* The number of images grows by the images sent, of which there is one at most.
LEMMA ShownGrows ==
    ASSUME NEW o \in Seq(Item), NEW r, NEW sent \in Seq(Image), Len(sent) <= 1,
           Grown(o, r, sent)
    PROVE  /\ IsFiniteSet(Shown(o)) /\ IsFiniteSet(Shown(r))
           /\ Cardinality(Shown(r)) = Cardinality(Shown(o)) + Len(sent)
<1>1. /\ Len(o) \in Nat /\ DOMAIN o = 1 .. Len(o) /\ Len(sent) \in Nat
      /\ Len(r) \in Nat /\ DOMAIN r = 1 .. Len(r)
  BY LenProperties DEF Grown
<1>2. IsFiniteSet(Shown(o))
  BY <1>1, ShownFinite
<1>3. \A i \in 1 .. Len(sent) : sent[i] \in Image
  BY ElementOfSeq
<1>4. CASE Len(sent) = 0
  <2>1. Shown(r) = Shown(o)
    BY <1>1, <1>4 DEF Shown, Grown
  <2>2. Cardinality(Shown(o)) \in Nat
    BY <1>2, FS_CardinalityType
  <2>3. QED
    BY <1>2, <1>4, <2>1, <2>2
<1>5. CASE Len(sent) = 1
  <2>1. r[Len(o) + 1] # MovieDone
    BY <1>1, <1>3, <1>5, DoneIsNoImage DEF Grown
  <2>2. Shown(r) = Shown(o) \cup {Len(o) + 1}
    BY <1>1, <1>5, <2>1 DEF Shown, Grown
  <2>3. Len(o) + 1 \notin Shown(o)
    BY <1>1 DEF Shown
  <2>4. QED
    BY <1>2, <1>5, <2>2, <2>3, FS_AddElement
<1>6. Len(sent) = 0 \/ Len(sent) = 1
  <2>1. PICK k : k = Len(sent)
    OBVIOUS
  <2>2. k \in Nat /\ k <= 1
    BY <1>1, <2>1
  <2>3. QED
    BY <2>1, <2>2
<1>7. QED
  BY <1>4, <1>5, <1>6, Zenon

\* It shrinks when an image is taken and not when the "end" message is.
LEMMA ShownShrinks ==
    ASSUME NEW o \in Seq(Item), o # <<>>, NEW r, r = Tail(o)
    PROVE  /\ r \in Seq(Item) /\ Head(o) \in Item
           /\ IsFiniteSet(Shown(o)) /\ IsFiniteSet(Shown(r))
           /\ Cardinality(Shown(r)) =
                IF Head(o) # MovieDone THEN Cardinality(Shown(o)) - 1 ELSE Cardinality(Shown(o))
<1>1. /\ Len(o) \in Nat \ {0} /\ DOMAIN o = 1 .. Len(o)
      /\ r \in Seq(Item) /\ Head(o) \in Item /\ Len(r) = Len(o) - 1
      /\ \A i \in 1 .. Len(r) : r[i] = o[i + 1]
  BY LenProperties, EmptySeq, HeadTailProperties
<1>2. DOMAIN r = 1 .. Len(r) /\ Head(o) = o[1]
  BY <1>1, LenProperties
<1>3. IsFiniteSet(Shown(o)) /\ IsFiniteSet(Shown(r))
  BY <1>1, ShownFinite
<1> DEFINE f == [i \in Shown(r) |-> i + 1]
           T == Shown(o) \ {1}
<1>4. \A i \in Shown(r) : i \in 1 .. Len(r) /\ i + 1 \in T
  BY <1>1, <1>2 DEF Shown
<1>5. f \in [Shown(r) -> T] /\ \A i \in Shown(r) : f[i] = i + 1
  BY <1>4
<1>6. \A j \in T : j - 1 \in Shown(r) /\ (j - 1) + 1 = j
  BY <1>1, <1>2 DEF Shown
<1> HIDE DEF f, T
<1>7. f \in Injection(Shown(r), T)
  BY <1>4, <1>5 DEF Injection, IsInjective
<1>8. f \in Surjection(Shown(r), T)
  <2>1. \A j \in T : \E i \in Shown(r) : f[i] = j
    BY <1>5, <1>6
  <2>2. QED
    BY <1>5, <2>1 DEF Surjection
<1>9. Cardinality(T) = Cardinality(Shown(r))
  BY <1>3, <1>7, <1>8, FS_Bijection DEF ExistsBijection, Bijection
<1>10. Cardinality(T) =
         IF 1 \in Shown(o) THEN Cardinality(Shown(o)) - 1 ELSE Cardinality(Shown(o))
  BY <1>3, FS_RemoveElement DEF T
<1>11. 1 \in Shown(o) <=> Head(o) # MovieDone
  BY <1>1, <1>2 DEF Shown
<1>12. QED
  BY <1>1, <1>3, <1>9, <1>10, <1>11

\* There are finitely many workers.
LEMMA FewWorkers == IsFiniteSet(Workers)
<1>1. IsFiniteSet({"K"})
  BY FS_Singleton
<1>2. IsFiniteSet({"K"} \cup {"SA"})
  BY <1>1, FS_AddElement
<1>3. IsFiniteSet(({"K"} \cup {"SA"}) \cup {"SB"})
  BY <1>2, FS_AddElement
<1>4. Workers = ({"K"} \cup {"SA"}) \cup {"SB"}
  BY DEF Workers, Savers
<1>5. QED
  BY <1>3, <1>4

\* The workers that hold an image.
Holding(h) == {w \in Workers : h[w] # NoImage}

\* A worker's hands.
LEMMA HandsFill ==
    ASSUME NEW h, DOMAIN h = Workers, NEW w \in Workers, h[w] = NoImage, NEW i, i # NoImage,
           NEW g, g = [h EXCEPT ![w] = i]
    PROVE  /\ IsFiniteSet(Holding(h)) /\ IsFiniteSet(Holding(g))
           /\ Cardinality(Holding(g)) = Cardinality(Holding(h)) + 1
<1>1. IsFiniteSet(Workers)
  BY FewWorkers
<1>2. IsFiniteSet(Holding(h))
  BY <1>1, FS_Subset DEF Holding
<1>3. Holding(g) = Holding(h) \cup {w} /\ w \notin Holding(h)
  BY DEF Holding
<1>4. QED
  BY <1>2, <1>3, FS_AddElement

\* They are empty again.
LEMMA HandsEmpty ==
    ASSUME NEW h, DOMAIN h = Workers, NEW w \in Workers, h[w] # NoImage,
           NEW g, g = [h EXCEPT ![w] = NoImage]
    PROVE  /\ IsFiniteSet(Holding(h)) /\ IsFiniteSet(Holding(g))
           /\ Cardinality(Holding(g)) = Cardinality(Holding(h)) - 1
<1>1. IsFiniteSet(Workers)
  BY FewWorkers
<1>2. IsFiniteSet(Holding(h))
  BY <1>1, FS_Subset DEF Holding
<1>3. Holding(g) = Holding(h) \ {w} /\ w \in Holding(h)
  BY DEF Holding
<1>4. QED
  BY <1>2, <1>3, FS_RemoveElement
-----------------------------------------------------------------------------
(* What the commands do to the fields.                                       *)

Fields ==
    [opened : BOOLEAN, hasClosed : BOOLEAN, paused : BOOLEAN, film : Films \cup {NoFilm},
     next : Nat, frame : [film : Films \cup {NoFilm}, at : Nat], frameNum : Nat,
     frameLength : Nat, triage : [Ports -> Nat], ends : Nat]

\* stopMovie() closes the film and sends "end", if a film is open.
LEMMA StopMade ==
    ASSUME NEW s \in Fields, NEW t, t = StopMovie(s)
    PROVE  /\ t \in Fields
           /\ ~s.opened => t = s
           /\ s.opened => /\ ~t.opened /\ t.hasClosed /\ t.frame = Blank
                          /\ t.ends = s.ends + 1
           /\ t.film = s.film /\ t.next = s.next /\ t.frameNum = s.frameNum
           /\ t.paused = s.paused /\ t.frameLength = s.frameLength /\ t.triage = s.triage
<1>1. CASE ~s.opened
  BY <1>1 DEF StopMovie
<1>2. CASE s.opened
  <2>1. t = [[s EXCEPT !.opened = FALSE, !.hasClosed = TRUE, !.frame = Blank]
                EXCEPT !.ends = @ + 1]
    BY <1>2 DEF StopMovie, End
  <2>2. t = [opened |-> FALSE, hasClosed |-> TRUE, paused |-> s.paused, film |-> s.film,
             next |-> s.next, frame |-> Blank, frameNum |-> s.frameNum,
             frameLength |-> s.frameLength, triage |-> s.triage, ends |-> s.ends + 1]
    BY <2>1 DEF Fields
  <2>3. Blank \in [film : Films \cup {NoFilm}, at : Nat]
    BY DEF Blank
  <2>4. QED
    BY <1>2, <2>2, <2>3 DEF Fields
<1>3. QED
  BY <1>1, <1>2

\* restartMovie() opens the film, if none is open and it can be opened.
LEMMA RestartMade ==
    ASSUME NEW s \in Fields, NEW t, t = RestartMovie(s)
    PROVE  /\ t \in Fields
           /\ s.opened \/ ~Opens(s.film) => t = s
           /\ ~s.opened /\ Opens(s.film) =>
                /\ t.opened /\ t.next = 0 /\ t.frame = Blank /\ t.frameNum = 0
                /\ t.frameLength = 0 \/ t.frameLength = Frames[s.film]
           /\ t.film = s.film /\ t.hasClosed = s.hasClosed /\ t.paused = s.paused
           /\ t.triage = s.triage /\ t.ends = s.ends
<1>1. CASE s.opened \/ ~Opens(s.film)
  BY <1>1 DEF RestartMovie
<1>2. CASE ~s.opened /\ Opens(s.film)
  <2>1. PICK k : k = IF s.film \in Counted THEN Frames[s.film] ELSE 0
    OBVIOUS
  <2>2. k \in Nat /\ (k = 0 \/ k = Frames[s.film])
    BY <1>2, <2>1, MovieAssumption DEF Opens
  <2>3. t = [s EXCEPT !.opened = TRUE, !.next = 0, !.frame = Blank, !.frameNum = 0,
                      !.frameLength = k]
    BY <1>2, <2>1 DEF RestartMovie
  <2>4. t = [opened |-> TRUE, hasClosed |-> s.hasClosed, paused |-> s.paused, film |-> s.film,
             next |-> 0, frame |-> Blank, frameNum |-> 0,
             frameLength |-> k, triage |-> s.triage, ends |-> s.ends]
    BY <2>3 DEF Fields
  <2>5. Blank \in [film : Films \cup {NoFilm}, at : Nat]
    BY DEF Blank
  <2>6. QED
    BY <1>2, <2>2, <2>4, <2>5 DEF Fields
<1>3. QED
  BY <1>1, <1>2

\* /start closes the film that is open and opens the new one; if it cannot be
\* opened, "end" is sent.
LEMMA StartMade ==
    ASSUME NEW s \in Fields, NEW f \in Films, NEW t, t = StartMovie(s, f)
    PROVE  /\ t \in Fields /\ t.film = f /\ t.opened = Opens(f)
           /\ s.opened => t.hasClosed
           /\ ~s.opened => t.hasClosed = s.hasClosed
           /\ t.opened => /\ t.next = 0 /\ t.frame = Blank /\ t.frameNum = 0
                          /\ t.frameLength = 0 \/ t.frameLength = Frames[f]
           /\ t.paused = s.paused /\ t.triage = s.triage
           /\ ~s.opened /\ t.opened => t.ends = s.ends
           /\ ~s.opened /\ ~t.opened => t.ends = s.ends + 1 /\ t.frameNum = s.frameNum
<1>1. PICK u : u = StopMovie(s)
  OBVIOUS
<1>2. /\ u \in Fields /\ ~u.opened
      /\ s.opened => u.hasClosed
      /\ ~s.opened => u = s
      /\ u.paused = s.paused /\ u.triage = s.triage /\ u.frameNum = s.frameNum
  BY <1>1, StopMade
<1>3. PICK v : v = [u EXCEPT !.film = f]
  OBVIOUS
<1>4. /\ v \in Fields /\ ~v.opened /\ v.film = f /\ v.hasClosed = u.hasClosed /\ v.frameNum = u.frameNum
      /\ v.paused = u.paused /\ v.triage = u.triage /\ v.ends = u.ends
  BY <1>2, <1>3 DEF Fields
<1>5. PICK w : w = RestartMovie(v)
  OBVIOUS
<1>6. /\ w \in Fields
      /\ ~Opens(f) => w = v
      /\ Opens(f) => /\ w.opened /\ w.next = 0 /\ w.frame = Blank /\ w.frameNum = 0
                     /\ w.frameLength = 0 \/ w.frameLength = Frames[f]
      /\ w.film = f /\ w.hasClosed = v.hasClosed /\ w.paused = v.paused
      /\ w.triage = v.triage /\ w.ends = v.ends
  BY <1>4, <1>5, RestartMade
<1>7. t = IF w.opened THEN w ELSE End(w)
  BY <1>1, <1>3, <1>5 DEF StartMovie
<1>8. CASE Opens(f)
  <2>1. t = w
    BY <1>6, <1>7, <1>8
  <2>2. QED
    BY <1>2, <1>4, <1>6, <1>8, <2>1
<1>9. CASE ~Opens(f)
  <2>1. t = [v EXCEPT !.ends = @ + 1]
    BY <1>4, <1>6, <1>7, <1>9 DEF End
  <2>2. /\ t \in Fields /\ t.opened = v.opened /\ t.film = v.film /\ t.hasClosed = v.hasClosed
        /\ t.paused = v.paused /\ t.triage = v.triage /\ t.ends = v.ends + 1 /\ t.frameNum = v.frameNum
    BY <1>4, <2>1 DEF Fields
  <2>3. v.opened = FALSE /\ Opens(f) = FALSE
    BY <1>4, <1>9 DEF Fields, Opens
  <2>4. QED
    BY <1>2, <1>4, <1>9, <2>2, <2>3
<1>10. QED
  BY <1>8, <1>9

\* /rewind goes back to the first frame of the film that is open, or opens it.
LEMMA RewindMade ==
    ASSUME NEW s \in Fields, NEW t, t = Rewind(s)
    PROVE  /\ t \in Fields /\ t.film = s.film /\ t.hasClosed = s.hasClosed
           /\ t.triage = s.triage /\ t.ends = s.ends
           /\ s.opened => t.opened /\ t.next = 0 /\ t.frame = s.frame
           /\ ~s.opened /\ t.opened => Opens(t.film) /\ t.next = 0 /\ t.frame = Blank
<1>1. CASE s.opened
  <2>1. t = [s EXCEPT !.next = 0, !.frameNum = 0]
    BY <1>1 DEF Rewind
  <2>2. t = [opened |-> s.opened, hasClosed |-> s.hasClosed, paused |-> s.paused, film |-> s.film,
             next |-> 0, frame |-> s.frame, frameNum |-> 0,
             frameLength |-> s.frameLength, triage |-> s.triage, ends |-> s.ends]
    BY <2>1 DEF Fields
  <2>3. QED
    BY <1>1, <2>2 DEF Fields
<1>2. CASE ~s.opened
  <2>1. t = RestartMovie(s)
    BY <1>2 DEF Rewind
  <2>2. QED
    BY <1>2, <2>1, RestartMade
<1>3. QED
  BY <1>1, <1>2

-----------------------------------------------------------------------------
(* What every command keeps.                                                 *)

\* The frame that is decoded is of the film that is open; before the first one
\* there is something to decode.
Sound(s) ==
    s.opened =>
        /\ Opens(s.film)
        /\ s.frame.film = s.film \/ (s.frame = Blank /\ s.next < Frames[s.film])

\* The frame that waits for its image is of the film that is open, or the film
\* was closed meanwhile.
InHand(s) == ~s.hasClosed => s.opened /\ s.frame.film = s.film

SeekInside(c) == c.cmd = "/seek" => \A f \in Films : Opens(f) => c.arg < Frames[f]

\* Whatever is told to the player: types, the frame and the bindings.
LEMMA DecodeKeeps ==
    ASSUME NEW s \in Fields, NEW m \in Command, NEW t, t = Decode(s, m)
    PROVE  /\ t \in Fields
           /\ Sound(s) /\ SeekInside(m) => Sound(t)
           /\ InHand(s) => InHand(t)
           /\ m.cmd # "/defevent" => t.triage = s.triage
           /\ m.cmd = "/defevent" => t.triage = [s.triage EXCEPT ![m.arg] = @ + 1]
<1>1. CASE m.cmd = "/start"
  <2>1. m.arg \in Films /\ t = StartMovie(s, m.arg)
    BY <1>1 DEF Command, Decode
  <2>2. /\ t \in Fields /\ t.film = m.arg /\ t.opened = Opens(m.arg)
        /\ s.opened => t.hasClosed
        /\ ~s.opened => t.hasClosed = s.hasClosed
        /\ t.opened => t.next = 0 /\ t.frame = Blank
        /\ t.triage = s.triage
    BY <2>1, StartMade
  <2>3. Sound(t)
    BY <2>2 DEF Sound, Opens
  <2>4. InHand(s) => InHand(t)
    BY <2>2 DEF InHand
  <2>5. QED
    BY <1>1, <2>2, <2>3, <2>4
<1>2. CASE m.cmd = "/stop"
  <2>1. t = StopMovie(s)
    BY <1>2 DEF Decode
  <2>2. /\ t \in Fields /\ ~t.opened /\ t.triage = s.triage
        /\ ~s.opened => t = s
        /\ s.opened => t.hasClosed
    BY <2>1, StopMade
  <2>3. QED
    BY <1>2, <2>2 DEF Sound, InHand
<1>3. CASE m.cmd = "/pause" \/ m.cmd = "/toggle"
  <2>1. PICK b \in BOOLEAN : t = [s EXCEPT !.paused = b]
    <3>1. CASE m.cmd = "/pause"
      BY <3>1 DEF Decode, Command
    <3>2. CASE m.cmd = "/toggle"
      BY <3>2 DEF Decode
    <3>3. QED
      BY <1>3, <3>1, <3>2
  <2>2. /\ t \in Fields /\ t.opened = s.opened /\ t.film = s.film /\ t.frame = s.frame
        /\ t.next = s.next /\ t.hasClosed = s.hasClosed /\ t.triage = s.triage
    BY <2>1 DEF Fields
  <2>3. QED
    BY <1>3, <2>2 DEF Sound, InHand
<1>4. CASE m.cmd = "/rewind"
  <2>1. t = Rewind(s)
    BY <1>4 DEF Decode
  <2>2. /\ t \in Fields /\ t.film = s.film /\ t.hasClosed = s.hasClosed /\ t.triage = s.triage
        /\ s.opened => t.opened /\ t.next = 0 /\ t.frame = s.frame
        /\ ~s.opened /\ t.opened => Opens(t.film) /\ t.next = 0 /\ t.frame = Blank
    BY <2>1, RewindMade
  <2>3. Sound(s) => Sound(t)
    BY <2>2 DEF Sound, Opens
  <2>4. InHand(s) => InHand(t)
    BY <2>2 DEF InHand
  <2>5. QED
    BY <1>4, <2>2, <2>3, <2>4
<1>5. CASE m.cmd = "/seek"
  <2>1. m.arg \in Nat /\ t = [s EXCEPT !.next = m.arg]
    BY <1>5 DEF Decode, Command
  <2>2. /\ t \in Fields /\ t.opened = s.opened /\ t.film = s.film /\ t.frame = s.frame
        /\ t.next = m.arg /\ t.hasClosed = s.hasClosed /\ t.triage = s.triage
    BY <2>1 DEF Fields
  <2>3. Sound(s) /\ SeekInside(m) => Sound(t)
    BY <1>5, <2>2 DEF Sound, SeekInside, Opens
  <2>4. InHand(s) => InHand(t)
    BY <2>2 DEF InHand
  <2>5. QED
    BY <1>5, <2>2, <2>3, <2>4
<1>6. CASE m.cmd = "/set/length"
  <2>1. m.arg \in Nat /\ t = SetLength(s, m.arg)
    BY <1>6 DEF Decode, Command
  <2>2. \E k \in Nat : t = [s EXCEPT !.frameLength = k]
    <3>1. s.frameNum + m.arg \in Nat /\ s = [s EXCEPT !.frameLength = s.frameLength]
      BY <2>1 DEF Fields
    <3>2. s.frameLength \in Nat
      BY DEF Fields
    <3>3. QED
      BY <2>1, <3>1, <3>2 DEF SetLength
  <2>3. PICK k \in Nat : t = [s EXCEPT !.frameLength = k]
    BY <2>2
  <2>4. /\ t \in Fields /\ t.opened = s.opened /\ t.film = s.film /\ t.frame = s.frame
        /\ t.next = s.next /\ t.hasClosed = s.hasClosed /\ t.triage = s.triage
    BY <2>3 DEF Fields
  <2>5. QED
    BY <1>6, <2>4 DEF Sound, InHand
<1>7. CASE m.cmd = "/defevent"
  <2>1. PICK g : g = [s.triage EXCEPT ![m.arg] = @ + 1]
    OBVIOUS
  <2>2. m.arg \in Ports /\ t = [s EXCEPT !.triage = g]
    BY <1>7, <2>1 DEF Decode, Command
  <2>3. g \in [Ports -> Nat]
    BY <2>1, <2>2 DEF Fields
  <2>4. /\ t \in Fields /\ t.opened = s.opened /\ t.film = s.film /\ t.frame = s.frame
        /\ t.next = s.next /\ t.hasClosed = s.hasClosed /\ t.triage = g
    BY <2>2, <2>3 DEF Fields
  <2>5. QED
    BY <1>7, <2>1, <2>4 DEF Sound, InHand
<1>8. QED
  BY <1>1, <1>2, <1>3, <1>4, <1>5, <1>6, <1>7 DEF Command

-----------------------------------------------------------------------------
(* The messages that wait for the player.                                    *)

\* The commands in them.
Said(q) == {c \in Command : \E i \in DOMAIN q : \E j \in DOMAIN q[i] : q[i][j] = c}

\* The first command of the first message is obeyed; the others stay.
LEMMA Obeys ==
    ASSUME NEW q \in Seq(Message), q # <<>>, NEW r,
           \/ Len(Head(q)) > 1 /\ r = [q EXCEPT ![1] = Tail(Head(q))]
           \/ Len(Head(q)) = 1 /\ r = Tail(q)
    PROVE  /\ Head(Head(q)) \in Said(q)
           /\ r \in Seq(Message) /\ Said(r) \subseteq Said(q)
<1>1. /\ Len(q) \in Nat \ {0} /\ DOMAIN q = 1 .. Len(q) /\ Head(q) = q[1] /\ Head(q) \in Message
      /\ \A i \in DOMAIN q : q[i] \in Message
  BY LenProperties, EmptySeq, HeadTailProperties, ElementOfSeq
<1>2. PICK m : m = Head(q)
  OBVIOUS
<1>3. m \in Seq(Command) /\ m # <<>>
  BY <1>1, <1>2 DEF Message
<1>4. /\ Len(m) \in Nat \ {0} /\ DOMAIN m = 1 .. Len(m) /\ Head(m) = m[1] /\ Head(m) \in Command
      /\ Tail(m) \in Seq(Command) /\ Len(Tail(m)) = Len(m) - 1
      /\ \A i \in 1 .. Len(Tail(m)) : Tail(m)[i] = m[i + 1]
  BY <1>3, LenProperties, EmptySeq, HeadTailProperties
<1>5. Head(m) \in Said(q)
  BY <1>1, <1>2, <1>4 DEF Said
<1>6. CASE Len(m) > 1 /\ r = [q EXCEPT ![1] = Tail(m)]
  <2>1. DOMAIN Tail(m) = 1 .. Len(Tail(m)) /\ Tail(m) # <<>>
    <3>1. DOMAIN Tail(m) = 1 .. Len(Tail(m))
      BY <1>4, LenProperties
    <3>2. Len(Tail(m)) # 0
      BY <1>4, <1>6
    <3>3. QED
      BY <3>1, <3>2, EmptySeq
  <2>2. Tail(m) \in Message
    BY <1>4, <2>1 DEF Message
  <2>3. 1 \in 1 .. Len(q)
    BY <1>1
  <2>4. r \in Seq(Message)
    BY <1>6, <2>2, <2>3, ExceptSeq
  <2>5. DOMAIN r = DOMAIN q /\ r[1] = Tail(m) /\ \A i \in DOMAIN q : i # 1 => r[i] = q[i]
    BY <1>1, <1>6, <2>3
  <2>6. ASSUME NEW i \in DOMAIN r, NEW j \in DOMAIN r[i]
        PROVE  \E k \in DOMAIN q : \E l \in DOMAIN q[k] : q[k][l] = r[i][j]
    <3>1. CASE i = 1
      <4>1. j \in 1 .. Len(m) - 1
        BY <1>4, <2>1, <2>5, <3>1
      <4>2. j + 1 \in DOMAIN m /\ m[j + 1] = r[i][j]
        BY <1>4, <2>5, <3>1, <4>1
      <4>3. QED
        BY <1>1, <1>2, <2>3, <4>2
    <3>2. CASE i # 1
      BY <2>5, <3>2
    <3>3. QED
      BY <3>1, <3>2
  <2>7. Said(r) \subseteq Said(q)
    BY <2>6 DEF Said
  <2>8. QED
    BY <1>2, <1>5, <2>4, <2>7
<1>7. CASE Len(m) = 1 /\ r = Tail(q)
  <2>1. /\ r \in Seq(Message) /\ Len(r) = Len(q) - 1
        /\ \A i \in 1 .. Len(r) : r[i] = q[i + 1]
    BY <1>7, HeadTailProperties
  <2>2. DOMAIN r = 1 .. Len(r)
    BY <2>1, LenProperties
  <2>3. \A i \in DOMAIN r : i + 1 \in DOMAIN q /\ r[i] = q[i + 1]
    <3>1. PICK n : n = Len(q)
      OBVIOUS
    <3>2. n \in Nat \ {0} /\ DOMAIN q = 1 .. n /\ DOMAIN r = 1 .. n - 1
      BY <1>1, <2>1, <2>2, <3>1
    <3>3. \A i \in 1 .. n - 1 : i + 1 \in 1 .. n
      BY <3>2
    <3>4. QED
      BY <2>1, <2>2, <3>2, <3>3
  <2>4. Said(r) \subseteq Said(q)
    BY <2>3 DEF Said
  <2>5. QED
    BY <1>2, <1>5, <2>1, <2>4
<1>8. QED
  BY <1>2, <1>6, <1>7

\* A program sends one more command.
LEMMA Tells ==
    ASSUME NEW q \in Seq(Message), NEW c \in Command, NEW r, r = Append(q, <<c>>)
    PROVE  r \in Seq(Message) /\ Said(r) \subseteq Said(q) \cup {c}
<1>1. <<c>> \in Message /\ DOMAIN <<c>> = 1 .. 1 /\ <<c>>[1] = c
  BY DEF Message
<1>2. Len(q) \in Nat /\ DOMAIN q = 1 .. Len(q)
  BY LenProperties
<1>3. PICK n : n = Len(q)
  OBVIOUS
<1>4. PICK u : u = <<c>>
  OBVIOUS
<1>5. /\ r \in Seq(Message) /\ Len(r) = n + 1
      /\ \A i \in 1 .. n : r[i] = q[i]
      /\ r[n + 1] = u
  BY <1>1, <1>3, <1>4, AppendProperties
<1>6. DOMAIN r = 1 .. n + 1
  BY <1>5, LenProperties
<1>7. \A i \in DOMAIN r : (i \in DOMAIN q /\ r[i] = q[i]) \/ r[i] = u
  BY <1>2, <1>3, <1>5, <1>6
<1>8. \A j \in DOMAIN u : u[j] = c
  BY <1>1, <1>4
<1>9. QED
  BY <1>5, <1>7, <1>8 DEF Said

-----------------------------------------------------------------------------
(* Types, and the count of the images.                                       *)

PlayerTyped ==
    /\ ff \in Fields /\ ff.ends = 0
    /\ pc \in {"top", "wait", "poll", "pop"}
    /\ cmds \in Seq(Message)
    /\ pool \in Nat
    /\ out \in Seq(Item)
    /\ status \in Nat

ProgramTyped ==
    /\ main \in [at : {"first", "second", "drain", "poll", "quit"}, film : 1 .. Len(Playlist),
                 held : {0, 1}, chosen : Image \cup {NoImage}, zero : BOOLEAN]
    /\ hands \in [Workers -> Image \cup {NoImage}]
    /\ save \in Seq(Image)
    /\ display \in Nat
    /\ judged \subseteq Image /\ passed \subseteq Image /\ written \subseteq Image

\* saveMovie binds "end" to the status queue only: what the skipper takes is an
\* image.
NoMarks ==
    prog = "saveMovie" =>
        /\ \A i \in DOMAIN out : out[i] # MovieDone
        /\ ff.triage["out"] = 0
        /\ Cmd("/defevent", "out") \notin Said(cmds)

InOnePlace ==
    pool + Cardinality(Shown(out)) + Len(save) + display + main.held
        + Cardinality(Holding(hands)) = PoolSize

CountInv == PlayerTyped /\ ProgramTyped /\ NoMarks /\ InOnePlace

\* The player's fields, queue and "end" events after a step.
LEMMA Became ==
    ASSUME PlayerTyped, NEW s \in Fields, NEW sent \in Seq(Image), Len(sent) <= 1,
           Becomes(s, sent)
    PROVE  /\ ff' \in Fields /\ ff'.ends = 0 /\ ff' = [s EXCEPT !.ends = 0]
           /\ ff'.triage = s.triage
           /\ out' \in Seq(Item) /\ status' \in Nat
           /\ Grown(out, out', sent)
           /\ s.triage["out"] = 0 => Len(out') = Len(out) + Len(sent)
           /\ Cardinality(Shown(out')) = Cardinality(Shown(out)) + Len(sent)
<1>1. s.ends \in Nat /\ s.triage["out"] \in Nat /\ s.triage["status"] \in Nat
  BY DEF Fields, Ports
<1>2. PICK k : k = s.ends * s.triage["out"]
  OBVIOUS
<1>3. PICK l : l = s.ends * s.triage["status"]
  OBVIOUS
<1>4. k \in Nat /\ l \in Nat /\ (s.triage["out"] = 0 => k = 0)
  BY <1>1, <1>2, <1>3
<1>5. out \in Seq(Item) /\ status \in Nat
  BY DEF PlayerTyped
<1>6. PICK dones : dones = [e \in 1 .. s.ends * s.triage["out"] |-> MovieDone]
  OBVIOUS
<1>7. Grown(out, out', sent) /\ Len(out') = Len(out) + Len(sent) + k
  <2>1. dones \in Seq(Item) /\ Len(dones) = k /\ \A e \in 1 .. k : dones[e] = MovieDone
    <3>1. MovieDone \in Item
      BY DEF Item
    <3>2. dones = [e \in 1 .. k |-> MovieDone]
      BY <1>2, <1>6
    <3>3. dones \in Seq(Item)
      BY <1>4, <3>1, <3>2
    <3>4. QED
      BY <1>4, <3>2, <3>3
  <2>2. out' = out \o sent \o dones
    BY <1>6, Zenon DEF Becomes
  <2>3. QED
    BY <1>4, <1>5, <2>1, <2>2, Grows
<1>8. Cardinality(Shown(out')) = Cardinality(Shown(out)) + Len(sent)
  BY <1>5, <1>7, ShownGrows
<1>9. status' \in Nat
  <2>1. status' = status + l
    BY <1>3 DEF Becomes
  <2>2. QED
    BY <1>4, <1>5, <2>1
<1>10. ff' = [s EXCEPT !.ends = 0]
  BY DEF Becomes
<1>11. ff' \in Fields /\ ff'.ends = 0 /\ ff'.triage = s.triage
  BY <1>10 DEF Fields
<1>12. Len(out) \in Nat /\ Len(sent) \in Nat
  BY <1>5, LenProperties
<1>13. s.triage["out"] = 0 => Len(out') = Len(out) + Len(sent)
  BY <1>4, <1>7, <1>12
<1>14. out' \in Seq(Item)
  BY <1>7 DEF Grown
<1>15. QED
  BY <1>7, <1>8, <1>9, <1>10, <1>11, <1>13, <1>14

\* If no "end" message is sent to it, the queue holds images only.
LEMMA Unmarked ==
    ASSUME NEW o \in Seq(Item), NEW sent \in Seq(Image), NEW r, Grown(o, r, sent),
           Len(r) = Len(o) + Len(sent), \A i \in DOMAIN o : o[i] # MovieDone
    PROVE  \A i \in DOMAIN r : r[i] # MovieDone
<1>1. PICK k : k = Len(o)
  OBVIOUS
<1>2. PICK l : l = Len(sent)
  OBVIOUS
<1>3. /\ k \in Nat /\ DOMAIN o = 1 .. k /\ l \in Nat /\ r \in Seq(Item)
      /\ \A i \in 1 .. l : sent[i] \in Image
  BY <1>1, <1>2, LenProperties, ElementOfSeq DEF Grown
<1>4. DOMAIN r = 1 .. k + l
  BY <1>1, <1>2, <1>3, LenProperties
<1>5. /\ \A i \in 1 .. k : r[i] = o[i]
      /\ \A i \in 1 .. l : r[k + i] = sent[i]
  BY <1>1, <1>2 DEF Grown
<1>6. ASSUME NEW i \in 1 .. k + l
      PROVE  r[i] # MovieDone
  <2>1. CASE i <= k
    BY <1>3, <1>5, <2>1
  <2>2. CASE i > k
    <3>1. i - k \in 1 .. l /\ i = k + (i - k)
      BY <1>3, <2>2
    <3>2. r[i] \in Image
      BY <1>3, <1>5, <3>1
    <3>3. QED
      BY <3>2, DoneIsNoImage
  <2>3. QED
    BY <1>3, <2>1, <2>2
<1>7. QED
  BY <1>4, <1>6

\* An empty sequence and a sequence of one image are sent.
LEMMA Sent ==
    ASSUME NEW e, e = <<>> \/ \E i \in Image : e = <<i>>
    PROVE  /\ e \in Seq(Image) /\ Len(e) <= 1
           /\ e = <<>> => Len(e) = 0
           /\ \A i \in Image : e = <<i>> => Len(e) = 1 /\ e[1] = i
<1>1. CASE e = <<>>
  <2>1. e \in Seq(Image) /\ Len(e) = 0
    BY <1>1, EmptySeq
  <2>2. QED
    BY <1>1, <2>1
<1>2. ASSUME NEW i \in Image, e = <<i>>
      PROVE  e \in Seq(Image) /\ Len(e) = 1 /\ e[1] = i
  BY <1>2
<1>3. CASE \E i \in Image : e = <<i>>
  <2>1. e \in Seq(Image) /\ Len(e) = 1
    BY <1>2, <1>3
  <2>2. QED
    BY <1>2, <2>1, EmptySeq
<1>4. QED
  BY <1>1, <1>3

\* A step of the player moves an image from the pool to the queue, or none.
LEMMA PlayerKeeps ==
    ASSUME PlayerTyped, NoMarks, FfmpegStep, prog' = prog
    PROVE  /\ PlayerTyped' /\ NoMarks'
           /\ pool' + Cardinality(Shown(out')) = pool + Cardinality(Shown(out))
<1>1. /\ ff \in Fields /\ ff.ends = 0 /\ pc \in {"top", "wait", "poll", "pop"}
      /\ cmds \in Seq(Message) /\ pool \in Nat /\ out \in Seq(Item) /\ status \in Nat
  BY DEF PlayerTyped
<1>2. IsFiniteSet(Shown(out)) /\ Cardinality(Shown(out)) \in Nat
  BY <1>1, ShownFinite, FS_CardinalityType
<1>3. ASSUME NEW s \in Fields, NEW sent \in Seq(Image), Len(sent) <= 1, Becomes(s, sent),
             prog = "saveMovie" => s.triage["out"] = 0
      PROVE  /\ ff' \in Fields /\ ff'.ends = 0 /\ out' \in Seq(Item) /\ status' \in Nat
             /\ prog = "saveMovie" => /\ \A i \in DOMAIN out' : out'[i] # MovieDone
                                      /\ ff'.triage["out"] = 0
             /\ Cardinality(Shown(out')) = Cardinality(Shown(out)) + Len(sent)
  <2>1. /\ ff' \in Fields /\ ff'.ends = 0 /\ ff'.triage = s.triage
        /\ out' \in Seq(Item) /\ status' \in Nat
        /\ Grown(out, out', sent)
        /\ s.triage["out"] = 0 => Len(out') = Len(out) + Len(sent)
        /\ Cardinality(Shown(out')) = Cardinality(Shown(out)) + Len(sent)
    BY <1>3, Became
  <2>2. ASSUME prog = "saveMovie"
        PROVE  \A i \in DOMAIN out' : out'[i] # MovieDone
    BY <1>1, <1>3, <2>1, <2>2, Unmarked DEF NoMarks
  <2>3. QED
    BY <1>3, <2>1, <2>2
<1>4. CASE Begin
  BY <1>1, <1>2, <1>4 DEF Begin, PlayerTyped, NoMarks
<1>5. CASE NothingToPlay
  BY <1>1, <1>2, <1>5 DEF NothingToPlay, PlayerTyped, NoMarks
<1>6. CASE ObeyCommand
  <2>1. PICK q : q = cmds'
    OBVIOUS
  <2>2. PICK m : m = Head(Head(cmds))
    OBVIOUS
  <2>3. /\ cmds # <<>> /\ pool' = pool /\ pc' \in {"top", "wait", "poll", "pop"}
        /\ Becomes(Decode(ff, m), <<>>)
        /\ \/ Len(Head(cmds)) > 1 /\ q = [cmds EXCEPT ![1] = Tail(Head(cmds))]
           \/ Len(Head(cmds)) = 1 /\ q = Tail(cmds)
    BY <1>1, <1>6, <2>1, <2>2 DEF ObeyCommand
  <2>4. m \in Said(cmds) /\ q \in Seq(Message) /\ Said(q) \subseteq Said(cmds)
    BY <1>1, <2>2, <2>3, Obeys
  <2>5. m \in Command
    BY <2>4 DEF Said
  <2>6. PICK t : t = Decode(ff, m)
    OBVIOUS
  <2>7. /\ t \in Fields
        /\ m.cmd # "/defevent" => t.triage = ff.triage
        /\ m.cmd = "/defevent" => t.triage = [ff.triage EXCEPT ![m.arg] = @ + 1]
    BY <1>1, <2>5, <2>6, DecodeKeeps
  <2>8. ASSUME prog = "saveMovie"
        PROVE  t.triage["out"] = 0
    <3>1. ff.triage["out"] = 0 /\ m # Cmd("/defevent", "out")
      BY <2>4, <2>8 DEF NoMarks
    <3>2. CASE m.cmd = "/defevent"
      <4>1. m = Cmd("/defevent", m.arg) /\ m.arg \in Ports
        BY <2>5, <3>2 DEF Command, Cmd
      <4>2. m.arg # "out"
        BY <3>1, <4>1
      <4>3. ff.triage \in [Ports -> Nat] /\ "out" \in Ports
        BY <1>1 DEF Fields, Ports
      <4>4. QED
        BY <2>7, <3>1, <3>2, <4>2, <4>3
    <3>3. CASE m.cmd # "/defevent"
      BY <2>7, <3>1, <3>3
    <3>4. QED
      BY <3>2, <3>3
  <2>9. PICK e : e = <<>> /\ Becomes(t, e)
    BY <2>3, <2>6
  <2> e \in Seq(Image) /\ Len(e) = 0 /\ Len(e) <= 1
    BY <2>9, Sent
  <2>10. /\ ff' \in Fields /\ ff'.ends = 0 /\ out' \in Seq(Item) /\ status' \in Nat
         /\ prog = "saveMovie" => /\ \A i \in DOMAIN out' : out'[i] # MovieDone
                                  /\ ff'.triage["out"] = 0
         /\ Cardinality(Shown(out')) = Cardinality(Shown(out)) + Len(e)
    BY <1>3, <2>7, <2>8, <2>9
  <2>11. PlayerTyped'
    BY <1>1, <2>1, <2>3, <2>4, <2>10 DEF PlayerTyped
  <2>12. NoMarks'
    BY <2>1, <2>4, <2>10 DEF NoMarks
  <2>13. QED
    BY <1>1, <1>2, <2>3, <2>9, <2>10, <2>11, <2>12
<1>7. CASE DecodeFrame
  <2>1. pc' \in {"top", "wait", "poll", "pop"} /\ cmds' = cmds /\ pool' = pool
    BY <1>7 DEF DecodeFrame
  <2>2. CASE Becomes(StopMovie(ff), <<>>)
    <3>1. PICK t : t = StopMovie(ff)
      OBVIOUS
    <3>2. t \in Fields /\ t.triage = ff.triage
      BY <1>1, <3>1, StopMade
    <3>3. PICK e : e = <<>> /\ Becomes(t, e)
      BY <2>2, <3>1
    <3> e \in Seq(Image) /\ Len(e) = 0 /\ Len(e) <= 1
      BY <3>3, Sent
    <3>4. /\ ff' \in Fields /\ ff'.ends = 0 /\ out' \in Seq(Item) /\ status' \in Nat
          /\ prog = "saveMovie" => /\ \A i \in DOMAIN out' : out'[i] # MovieDone
                                   /\ ff'.triage["out"] = 0
          /\ Cardinality(Shown(out')) = Cardinality(Shown(out)) + Len(e)
      BY <1>3, <3>2, <3>3 DEF NoMarks
    <3>5. PlayerTyped'
      BY <1>1, <2>1, <3>4 DEF PlayerTyped
    <3>6. NoMarks'
      BY <2>1, <3>4 DEF NoMarks
    <3>7. QED
      BY <1>1, <1>2, <2>1, <3>3, <3>4, <3>5, <3>6
  <2>3. CASE /\ ff' = [ff EXCEPT !.frame = [film |-> ff.film, at |-> ff.next], !.next = @ + 1]
             /\ UNCHANGED <<out, status>>
    <3>1. PICK b : b = [film |-> ff.film, at |-> ff.next]
      OBVIOUS
    <3>2. b \in [film : Films \cup {NoFilm}, at : Nat] /\ ff.next + 1 \in Nat
      BY <1>1, <3>1 DEF Fields
    <3>3. ff' = [ff EXCEPT !.frame = b, !.next = ff.next + 1]
      BY <2>3, <3>1
    <3>4. ff' \in Fields /\ ff'.ends = 0 /\ ff'.triage = ff.triage
      BY <1>1, <3>2, <3>3 DEF Fields
    <3>5. QED
      BY <1>1, <1>2, <2>1, <2>3, <3>4 DEF PlayerTyped, NoMarks
  <2>4. CASE UNCHANGED <<ff, out, status>>
    BY <1>1, <1>2, <2>1, <2>4 DEF PlayerTyped, NoMarks
  <2>5. QED
    BY <1>7, <2>2, <2>3, <2>4 DEF DecodeFrame
<1>8. CASE DropImage
  <2>1. ff' = [ff EXCEPT !.hasClosed = FALSE] /\ UNCHANGED <<cmds, pool, out, status>> /\ pc' = "top"
    BY <1>8 DEF DropImage
  <2>2. ff' \in Fields /\ ff'.ends = 0 /\ ff'.triage = ff.triage
    BY <1>1, <2>1 DEF Fields
  <2>3. QED
    BY <1>1, <1>2, <2>1, <2>2 DEF PlayerTyped, NoMarks
<1>9. CASE SendImage
  <2>1. PICK image : image = [n |-> ff.frameNum, film |-> ff.frame.film, at |-> ff.frame.at]
    OBVIOUS
  <2>2. image \in Image
    BY <1>1, <2>1 DEF Fields, Image
  <2>3. PICK s : s = [ff EXCEPT !.frameNum = @ + 1]
    OBVIOUS
  <2>4. s \in Fields /\ s.triage = ff.triage
    <3>1. ff.frameNum + 1 \in Nat /\ s = [ff EXCEPT !.frameNum = ff.frameNum + 1]
      BY <1>1, <2>3 DEF Fields
    <3>2. QED
      BY <1>1, <3>1 DEF Fields
  <2>5. PICK t : t = IF s.frameLength > 0 /\ s.frameNum > s.frameLength THEN StopMovie(s) ELSE s
    OBVIOUS
  <2>6. t \in Fields /\ t.triage = ff.triage
    BY <2>4, <2>5, StopMade
  <2>7. PICK e : e = <<image>>
    OBVIOUS
  <2> e \in Seq(Image) /\ Len(e) = 1 /\ Len(e) <= 1
    BY <2>2, <2>7, Sent
  <2>8. /\ Becomes(t, e) /\ pool > 0 /\ pool' = pool - 1 /\ pc' = "top" /\ cmds' = cmds
    BY <1>9, <2>1, <2>3, <2>5, <2>7 DEF SendImage
  <2>9. /\ ff' \in Fields /\ ff'.ends = 0 /\ out' \in Seq(Item) /\ status' \in Nat
        /\ prog = "saveMovie" => /\ \A i \in DOMAIN out' : out'[i] # MovieDone
                                 /\ ff'.triage["out"] = 0
        /\ Cardinality(Shown(out')) = Cardinality(Shown(out)) + Len(e)
    BY <1>3, <2>6, <2>7, <2>8 DEF NoMarks
  <2>10. PlayerTyped'
    BY <1>1, <2>8, <2>9 DEF PlayerTyped
  <2>11. NoMarks'
    BY <2>8, <2>9 DEF NoMarks
  <2>12. QED
    BY <1>1, <1>2, <2>7, <2>8, <2>9, <2>10, <2>11
<1>10. QED
  BY <1>4, <1>5, <1>6, <1>7, <1>8, <1>9 DEF FfmpegStep

-----------------------------------------------------------------------------
(* The other actions: the programs and the plugins behind the player.        *)

\* What it takes to keep the invariant of the count: the types, and the sum.
LEMMA CountParts ==
    ASSUME CountInv
    PROVE  /\ out \in Seq(Item) /\ IsFiniteSet(Shown(out)) /\ Cardinality(Shown(out)) \in Nat
           /\ hands \in [Workers -> Image \cup {NoImage}]
           /\ IsFiniteSet(Holding(hands)) /\ Cardinality(Holding(hands)) \in Nat
           /\ Len(save) \in Nat /\ display \in Nat /\ pool \in Nat /\ main.held \in {0, 1}
           /\ PoolSize \in Nat /\ NoImage \notin Image
<1>1. /\ out \in Seq(Item) /\ save \in Seq(Image) /\ display \in Nat /\ pool \in Nat
      /\ hands \in [Workers -> Image \cup {NoImage}] /\ main.held \in {0, 1}
  BY DEF CountInv, PlayerTyped, ProgramTyped
<1>2. IsFiniteSet(Shown(out))
  BY <1>1, ShownFinite
<1>3. Holding(hands) \in SUBSET Workers
  BY DEF Holding
<1>4. IsFiniteSet(Holding(hands))
  BY <1>3, FewWorkers, FS_Subset
<1>5. QED
  BY <1>1, <1>2, <1>4, FS_CardinalityType, LenProperties, MovieAssumption

\* An item leaves the queue behind the player.
LEMMA OutTaken ==
    ASSUME CountInv, out # <<>>, out' = Tail(out), prog' = prog, ff' = ff,
           prog = "saveMovie" => cmds' = cmds
    PROVE  /\ out' \in Seq(Item) /\ NoMarks'
           /\ Head(out) \in Item
           /\ Head(out) # MovieDone => Head(out) \in Image
           /\ prog = "saveMovie" => Head(out) # MovieDone
           /\ Cardinality(Shown(out')) \in Nat
           /\ Head(out) # MovieDone => Cardinality(Shown(out')) = Cardinality(Shown(out)) - 1
           /\ Head(out) = MovieDone => Cardinality(Shown(out')) = Cardinality(Shown(out))
<1>1. out \in Seq(Item)
  BY DEF CountInv, PlayerTyped
<1>2. PICK o : o = out'
  OBVIOUS
<1>3. /\ o \in Seq(Item) /\ Head(out) \in Item /\ IsFiniteSet(Shown(o))
      /\ Cardinality(Shown(o)) =
            IF Head(out) # MovieDone THEN Cardinality(Shown(out)) - 1 ELSE Cardinality(Shown(out))
  BY <1>1, <1>2, ShownShrinks
<1>4. Cardinality(Shown(o)) \in Nat
  BY <1>3, FS_CardinalityType
<1>5. /\ DOMAIN out = 1 .. Len(out) /\ Len(out) \in Nat \ {0} /\ Head(out) = out[1]
      /\ Len(o) = Len(out) - 1 /\ \A i \in 1 .. Len(o) : o[i] = out[i + 1]
  BY <1>1, <1>2, LenProperties, EmptySeq, HeadTailProperties
<1>6. DOMAIN o = 1 .. Len(o)
  BY <1>3, LenProperties
<1>7. \A i \in DOMAIN o : i + 1 \in DOMAIN out /\ o[i] = out[i + 1]
  <2>1. PICK n : n = Len(out)
    OBVIOUS
  <2>2. n \in Nat \ {0} /\ DOMAIN o = 1 .. n - 1 /\ DOMAIN out = 1 .. n
    BY <1>5, <1>6, <2>1
  <2>3. QED
    BY <1>5, <1>6, <2>2
<1>8. ASSUME prog = "saveMovie"
      PROVE  Head(out) # MovieDone /\ \A i \in DOMAIN o : o[i] # MovieDone
  <2>1. \A i \in DOMAIN out : out[i] # MovieDone
    BY <1>8 DEF CountInv, NoMarks
  <2>2. 1 \in DOMAIN out
    BY <1>5
  <2>3. QED
    BY <1>5, <1>7, <2>1, <2>2
<1>9. NoMarks'
  BY <1>2, <1>8 DEF CountInv, NoMarks
<1>10. QED
  BY <1>2, <1>3, <1>4, <1>8, <1>9 DEF Item

\* The count at the start: the pool is full.
LEMMA CountStart == Init => CountInv
<1> SUFFICES ASSUME Init PROVE CountInv
  OBVIOUS
<1>1. /\ prog \in Programs
      /\ main \in [at : {"first"}, film : 1 .. Len(Playlist), held : {0},
                   chosen : {NoImage}, zero : {TRUE}]
      /\ hands = [w \in Workers |-> NoImage] /\ save = <<>> /\ display = 0
      /\ judged = {} /\ passed = {} /\ written = {}
      /\ ff = InitPlayer /\ pc = "top" /\ pool = PoolSize /\ out = <<>> /\ status = 0
      /\ cmds = FirstMessages(prog, Playlist[main.film])
  BY DEF Init, FfmpegInit
<1>2. Playlist[main.film] \in Films
  BY <1>1, MovieAssumption, ElementOfSeq
<1>3. PICK f \in Films : f = Playlist[main.film]
  BY <1>2
<1>4. /\ Cmd("/start", f) \in Command
      /\ Cmd("/defevent", "out") \in Command /\ Cmd("/defevent", "status") \in Command
  BY DEF Command, Cmd, Ports
<1>5. /\ <<Cmd("/start", f), Cmd("/defevent", "out")>> \in Message
      /\ <<Cmd("/start", f), Cmd("/defevent", "status")>> \in Message
      /\ <<Cmd("/defevent", "status")>> \in Message
  BY <1>4 DEF Message
<1>6. cmds \in Seq(Message)
  <2>1. prog \in {"extractPattern", "saveMovie", "playMovie", "anyone"}
    BY <1>1, MovieAssumption
  <2>2. CASE prog = "extractPattern"
    <3>1. cmds = << <<Cmd("/start", f), Cmd("/defevent", "out")>> >>
      BY <1>1, <1>3, <2>2 DEF FirstMessages
    <3>2. QED
      BY <1>5, <3>1
  <2>3. CASE prog = "saveMovie"
    <3>1. cmds = << <<Cmd("/start", f), Cmd("/defevent", "status")>> >>
      BY <1>1, <1>3, <2>3 DEF FirstMessages
    <3>2. QED
      BY <1>5, <3>1
  <2>4. CASE prog = "playMovie"
    <3>1. cmds = << <<Cmd("/defevent", "status")>> >>
      BY <1>1, <2>4 DEF FirstMessages
    <3>2. QED
      BY <1>5, <3>1
  <2>5. CASE prog = "anyone"
    <3>1. cmds = <<>>
      BY <1>1, <2>5 DEF FirstMessages
    <3>2. QED
      BY <3>1, EmptySeq
  <2>6. QED
    BY <2>1, <2>2, <2>3, <2>4, <2>5
<1>7. PlayerTyped
  <2>1. InitPlayer \in Fields /\ InitPlayer.ends = 0
    <3>1. Blank \in [film : Films \cup {NoFilm}, at : Nat]
      BY DEF Blank
    <3>2. [port \in Ports |-> 0] \in [Ports -> Nat]
      OBVIOUS
    <3>3. QED
      BY <3>1, <3>2 DEF InitPlayer, Fields
  <2>2. QED
    BY <1>1, <1>6, <2>1, EmptySeq, MovieAssumption DEF PlayerTyped
<1>8. ProgramTyped
  BY <1>1, EmptySeq DEF ProgramTyped
<1>9. NoMarks
  <2>1. ASSUME prog = "saveMovie"
        PROVE  Cmd("/defevent", "out") \notin Said(cmds)
    <3>1. PICK a : a = Cmd("/start", f)
      OBVIOUS
    <3>2. PICK b : b = Cmd("/defevent", "status")
      OBVIOUS
    <3>3. cmds = << <<a, b>> >>
      BY <1>1, <1>3, <2>1, <3>1, <3>2 DEF FirstMessages
    <3>4. \A i \in DOMAIN cmds : \A j \in DOMAIN cmds[i] : cmds[i][j] = a \/ cmds[i][j] = b
      BY <3>3
    <3>5. a # Cmd("/defevent", "out") /\ b # Cmd("/defevent", "out")
      BY <3>1, <3>2 DEF Cmd
    <3>6. QED
      BY <3>4, <3>5 DEF Said
  <2>2. ff.triage["out"] = 0
    BY <1>1 DEF InitPlayer, Ports
  <2>3. QED
    BY <1>1, <2>1, <2>2 DEF NoMarks
<1>10. InOnePlace
  <2>1. Shown(out) = {} /\ Holding(hands) = {}
    BY <1>1 DEF Shown, Holding
  <2>2. Cardinality(Shown(out)) = 0 /\ Cardinality(Holding(hands)) = 0
    BY <2>1, FS_EmptySet
  <2>3. Len(save) = 0 /\ main.held = 0 /\ PoolSize \in Nat
    BY <1>1, EmptySeq, MovieAssumption
  <2>4. QED
    BY <1>1, <2>2, <2>3 DEF InOnePlace
<1>11. QED
  BY <1>7, <1>8, <1>9, <1>10 DEF CountInv

\* The player's own steps keep the count.
LEMMA CountPlayer ==
    ASSUME CountInv, Player
    PROVE  CountInv'
<1>1. FfmpegStep /\ UNCHANGED progVars
  BY DEF Player
<1>2. UNCHANGED <<prog, main, hands, save, display, judged, passed, written>>
  BY <1>1 DEF progVars
<1>3. /\ PlayerTyped' /\ NoMarks'
      /\ pool' + Cardinality(Shown(out')) = pool + Cardinality(Shown(out))
  BY <1>1, <1>2, PlayerKeeps DEF CountInv
<1>4. ProgramTyped'
  BY <1>2 DEF CountInv, ProgramTyped
<1>5. Cardinality(Shown(out')) \in Nat /\ pool' \in Nat
  <2>1. out' \in Seq(Item) /\ pool' \in Nat
    BY <1>3 DEF PlayerTyped
  <2>2. QED
    BY <2>1, ShownFinite, FS_CardinalityType
<1>6. InOnePlace'
  <2>1. Len(save') = Len(save) /\ display' = display /\ main'.held = main.held
          /\ Cardinality(Holding(hands')) = Cardinality(Holding(hands))
    BY <1>2
  <2>2. InOnePlace
    BY DEF CountInv
  <2>3. QED
    BY <1>3, <1>5, <2>1, <2>2, CountParts DEF InOnePlace
<1>7. QED
  BY <1>3, <1>4, <1>6 DEF CountInv

\* The viewer gives an image back.
LEMMA CountShow ==
    ASSUME CountInv, Show
    PROVE  CountInv'
<1>1. /\ display > 0 /\ display' = display - 1 /\ pool' = pool + 1
      /\ UNCHANGED <<ff, pc, cmds, out, status, prog, main, hands, save, judged, passed, written>>
  BY DEF Show
<1>2. PlayerTyped' /\ NoMarks'
  BY <1>1 DEF CountInv, PlayerTyped, NoMarks
<1>3. ProgramTyped'
  BY <1>1 DEF CountInv, ProgramTyped
<1>4. InOnePlace'
  BY <1>1, CountParts DEF CountInv, InOnePlace
<1>5. QED
  BY <1>2, <1>3, <1>4 DEF CountInv

\* extractPattern's main thread holds an image, shows the one before, and
\* recycles those that come too early.
LEMMA CountExtract ==
    ASSUME CountInv, Extract
    PROVE  CountInv'
<1>1. prog = "extractPattern" /\ out # <<>> /\ out' = Tail(out) /\ prog' = prog
      /\ UNCHANGED <<ff, pc, status, hands, save, judged, passed>>
  BY DEF Extract, FirstPass, FirstPassDone, SecondPassSkip, SecondPassKeep, SecondPassDone, AtHead
<1>2. /\ out' \in Seq(Item) /\ NoMarks'
      /\ Head(out) # MovieDone => Head(out) \in Image
      /\ Cardinality(Shown(out')) \in Nat
      /\ Head(out) # MovieDone => Cardinality(Shown(out')) = Cardinality(Shown(out)) - 1
      /\ Head(out) = MovieDone => Cardinality(Shown(out')) = Cardinality(Shown(out))
  BY <1>1, OutTaken
<1>3. main \in [at : {"first", "second", "drain", "poll", "quit"}, film : 1 .. Len(Playlist),
                held : {0, 1}, chosen : Image \cup {NoImage}, zero : BOOLEAN]
  BY DEF CountInv, ProgramTyped
<1>4. ASSUME cmds' \in Seq(Message), pool' \in Nat
      PROVE  PlayerTyped'
  BY <1>1, <1>2, <1>4 DEF CountInv, PlayerTyped
<1>5. cmds \in Seq(Message) /\ pool \in Nat /\ display \in Nat
  BY DEF CountInv, PlayerTyped, ProgramTyped
<1>6. ASSUME main' \in [at : {"first", "second", "drain", "poll", "quit"}, film : 1 .. Len(Playlist),
                        held : {0, 1}, chosen : Image \cup {NoImage}, zero : BOOLEAN],
             display' \in Nat, written' \subseteq Image
      PROVE  ProgramTyped'
  BY <1>1, <1>6 DEF CountInv, ProgramTyped
<1>7. ASSUME pool' + Cardinality(Shown(out')) + display' + main'.held
               = pool + Cardinality(Shown(out)) + display + main.held,
             pool' \in Nat, display' \in Nat, main'.held \in Nat
      PROVE  InOnePlace'
  <2>1. Len(save') = Len(save) /\ Cardinality(Holding(hands')) = Cardinality(Holding(hands))
    BY <1>1
  <2>2. PICK k : k = Len(save)
    OBVIOUS
  <2>3. PICK l : l = Cardinality(Holding(hands))
    OBVIOUS
  <2>4. PICK c : c = Cardinality(Shown(out))
    OBVIOUS
  <2>5. PICK d : d = Cardinality(Shown(out'))
    OBVIOUS
  <2>6. /\ k \in Nat /\ l \in Nat /\ c \in Nat /\ d \in Nat /\ pool \in Nat
        /\ display \in Nat /\ main.held \in Nat
    BY <1>2, <2>2, <2>3, <2>4, <2>5, CountParts
  <2>7. pool + c + k + display + main.held + l = PoolSize
    BY <2>2, <2>3, <2>4 DEF CountInv, InOnePlace
  <2>8. pool' + d + display' + main'.held = pool + c + display + main.held
    BY <1>7, <2>4, <2>5
  <2>9. pool' + d + k + display' + main'.held + l = PoolSize
    BY <1>7, <2>6, <2>7, <2>8
  <2>10. QED
    BY <2>1, <2>2, <2>3, <2>5, <2>9 DEF InOnePlace
<1>8. written \subseteq Image
  BY DEF CountInv, ProgramTyped
<1>9. CASE FirstPass
  <2>1. /\ Head(out) # MovieDone /\ display' = display + main.held
        /\ UNCHANGED <<cmds, pool, written>>
        /\ \E c \in Image \cup {NoImage} : main' = [main EXCEPT !.held = 1, !.chosen = c]
    <3>1. PICK c \in (IF main.held = 0 THEN {NoImage}
                      ELSE IF main.chosen = NoImage THEN {Head(out)}
                      ELSE {main.chosen, Head(out)}) :
             main' = [main EXCEPT !.held = 1, !.chosen = c]
      BY <1>9 DEF FirstPass
    <3>2. Head(out) # MovieDone
      BY <1>9 DEF FirstPass
    <3>3. main.chosen \in Image \cup {NoImage} /\ Head(out) \in Image
      BY <1>2, <1>3, <3>2
    <3>4. c \in Image \cup {NoImage}
      BY <3>3
    <3>5. QED
      BY <1>9, <3>1, <3>2, <3>4 DEF FirstPass
  <2>2. PICK c \in Image \cup {NoImage} : main' = [main EXCEPT !.held = 1, !.chosen = c]
    BY <2>1
  <2>3. /\ main' \in [at : {"first", "second", "drain", "poll", "quit"}, film : 1 .. Len(Playlist),
                      held : {0, 1}, chosen : Image \cup {NoImage}, zero : BOOLEAN]
        /\ main'.held = 1
    BY <1>3, <2>2
  <2>4. main.held \in {0, 1} /\ display' \in Nat
    BY <1>3, <1>5, <2>1
  <2>5. PlayerTyped' /\ ProgramTyped'
    BY <1>4, <1>5, <1>6, <1>8, <2>1, <2>3, <2>4
  <2>6. InOnePlace'
    <3>1. Cardinality(Shown(out)) \in Nat
      BY CountParts
    <3>2. pool' + Cardinality(Shown(out')) + display' + main'.held
             = pool + Cardinality(Shown(out)) + display + main.held
      BY <1>2, <1>5, <3>1, <2>1, <2>3, <2>4
    <3>3. pool' \in Nat /\ display' \in Nat /\ main'.held \in Nat
      BY <1>5, <2>1, <2>3, <2>4
    <3>4. QED
      BY <1>7, <3>2, <3>3
  <2>7. QED
    BY <1>2, <2>5, <2>6 DEF CountInv
<1>10. CASE FirstPassDone
  <2>1. /\ Head(out) = MovieDone /\ display' = display + main.held
        /\ main' = [main EXCEPT !.at = "second", !.held = 0]
        /\ TellPlayer(Cmd("/rewind", 0)) /\ UNCHANGED <<pool, written>>
    BY <1>10 DEF FirstPassDone
  <2>2. PICK c : c = Cmd("/rewind", 0)
    OBVIOUS
  <2>3. c \in Command /\ cmds' = Append(cmds, <<c>>)
    BY <2>1, <2>2 DEF TellPlayer, Command, Cmd
  <2>4. cmds' \in Seq(Message)
    BY <1>5, <2>3, Tells
  <2>5. /\ main' \in [at : {"first", "second", "drain", "poll", "quit"}, film : 1 .. Len(Playlist),
                      held : {0, 1}, chosen : Image \cup {NoImage}, zero : BOOLEAN]
        /\ main'.held = 0
    BY <1>3, <2>1
  <2>6. main.held \in {0, 1} /\ display' \in Nat
    BY <1>3, <1>5, <2>1
  <2>7. PlayerTyped' /\ ProgramTyped'
    BY <1>4, <1>5, <1>6, <1>8, <2>1, <2>4, <2>5, <2>6
  <2>8. InOnePlace'
    <3>1. Cardinality(Shown(out)) \in Nat
      BY CountParts
    <3>2. pool' + Cardinality(Shown(out')) + display' + main'.held
             = pool + Cardinality(Shown(out)) + display + main.held
      BY <1>2, <1>5, <3>1, <2>1, <2>5, <2>6
    <3>3. pool' \in Nat /\ display' \in Nat /\ main'.held \in Nat
      BY <1>5, <2>1, <2>5, <2>6
    <3>4. QED
      BY <1>7, <3>2, <3>3
  <2>9. QED
    BY <1>2, <2>7, <2>8 DEF CountInv
<1>11. CASE SecondPassSkip
  <2>1. /\ Head(out) # MovieDone /\ pool' = pool + 1
        /\ UNCHANGED <<cmds, display, written>>
        /\ main' = [main EXCEPT !.zero = @ /\ Head(out).n # 0]
    BY <1>11 DEF SecondPassSkip
  <2>2. /\ main' \in [at : {"first", "second", "drain", "poll", "quit"}, film : 1 .. Len(Playlist),
                      held : {0, 1}, chosen : Image \cup {NoImage}, zero : BOOLEAN]
        /\ main'.held = main.held
    <3>1. PICK b \in BOOLEAN : main' = [main EXCEPT !.zero = b]
      BY <1>3, <2>1
    <3>2. QED
      BY <1>3, <3>1
  <2>3. main.held \in {0, 1} /\ pool' \in Nat
    BY <1>3, <1>5, <2>1
  <2>4. PlayerTyped' /\ ProgramTyped'
    BY <1>4, <1>5, <1>6, <1>8, <2>1, <2>2, <2>3
  <2>5. InOnePlace'
    <3>1. Cardinality(Shown(out)) \in Nat
      BY CountParts
    <3>2. pool' + Cardinality(Shown(out')) + display' + main'.held
             = pool + Cardinality(Shown(out)) + display + main.held
      BY <1>2, <1>5, <3>1, <2>1, <2>2, <2>3
    <3>3. pool' \in Nat /\ display' \in Nat /\ main'.held \in Nat
      BY <1>5, <2>1, <2>2, <2>3
    <3>4. QED
      BY <1>7, <3>2, <3>3
  <2>6. QED
    BY <1>2, <2>4, <2>5 DEF CountInv
<1>12. CASE SecondPassKeep
  <2>1. /\ Head(out) # MovieDone /\ display' = display + 1
        /\ UNCHANGED <<cmds, pool>>
        /\ written' = written \cup {Head(out)}
        /\ main' = [main EXCEPT !.at = "quit", !.zero = FALSE]
    BY <1>12 DEF SecondPassKeep
  <2>2. /\ main' \in [at : {"first", "second", "drain", "poll", "quit"}, film : 1 .. Len(Playlist),
                      held : {0, 1}, chosen : Image \cup {NoImage}, zero : BOOLEAN]
        /\ main'.held = main.held
    BY <1>3, <2>1
  <2>3. main.held \in {0, 1} /\ display' \in Nat /\ written' \subseteq Image
    BY <1>2, <1>3, <1>5, <1>8, <2>1
  <2>4. PlayerTyped' /\ ProgramTyped'
    BY <1>4, <1>5, <1>6, <2>1, <2>2, <2>3
  <2>5. InOnePlace'
    <3>1. Cardinality(Shown(out)) \in Nat
      BY CountParts
    <3>2. pool' + Cardinality(Shown(out')) + display' + main'.held
             = pool + Cardinality(Shown(out)) + display + main.held
      BY <1>2, <1>5, <3>1, <2>1, <2>2, <2>3
    <3>3. pool' \in Nat /\ display' \in Nat /\ main'.held \in Nat
      BY <1>5, <2>1, <2>2, <2>3
    <3>4. QED
      BY <1>7, <3>2, <3>3
  <2>6. QED
    BY <1>2, <2>4, <2>5 DEF CountInv
<1>13. CASE SecondPassDone
  <2>1. /\ Head(out) = MovieDone /\ UNCHANGED <<cmds, pool, display, written>>
        /\ main' = [main EXCEPT !.at = "quit"]
    BY <1>13 DEF SecondPassDone
  <2>2. /\ main' \in [at : {"first", "second", "drain", "poll", "quit"}, film : 1 .. Len(Playlist),
                      held : {0, 1}, chosen : Image \cup {NoImage}, zero : BOOLEAN]
        /\ main'.held = main.held
    BY <1>3, <2>1
  <2>3. main.held \in {0, 1}
    BY <1>3
  <2>4. PlayerTyped' /\ ProgramTyped'
    BY <1>4, <1>5, <1>6, <1>8, <2>1, <2>2
  <2>5. InOnePlace'
    <3>1. Cardinality(Shown(out)) \in Nat
      BY CountParts
    <3>2. pool' + Cardinality(Shown(out')) + display' + main'.held
             = pool + Cardinality(Shown(out)) + display + main.held
      BY <1>2, <1>5, <3>1, <2>1, <2>2, <2>3
    <3>3. pool' \in Nat /\ display' \in Nat /\ main'.held \in Nat
      BY <1>5, <2>1, <2>2, <2>3
    <3>4. QED
      BY <1>7, <3>2, <3>3
  <2>6. QED
    BY <1>2, <2>4, <2>5 DEF CountInv
<1>14. QED
  BY <1>9, <1>10, <1>11, <1>12, <1>13 DEF Extract

\* The skipper takes an image, and sends it on or gives it back.
LEMMA CountSkipper ==
    ASSUME CountInv, Skipper
    PROVE  CountInv'
<1>1. /\ hands \in [Workers -> Image \cup {NoImage}] /\ save \in Seq(Image) /\ display \in Nat
      /\ judged \subseteq Image /\ passed \subseteq Image /\ pool \in Nat
  BY DEF CountInv, PlayerTyped, ProgramTyped
<1>2. "K" \in Workers
  BY DEF Workers
<1>3. CASE SkipTakes
  <2>1. /\ prog = "saveMovie" /\ hands["K"] = NoImage /\ out # <<>> /\ out' = Tail(out)
        /\ hands' = [hands EXCEPT !["K"] = Head(out)]
        /\ UNCHANGED <<ff, pc, cmds, pool, status, prog, main, save, display, judged, passed, written>>
    BY <1>3 DEF SkipTakes
  <2>2. /\ out' \in Seq(Item) /\ NoMarks' /\ Head(out) \in Image
        /\ Cardinality(Shown(out')) \in Nat
        /\ Cardinality(Shown(out')) = Cardinality(Shown(out)) - 1
    BY <2>1, OutTaken
  <2>3. /\ hands' \in [Workers -> Image \cup {NoImage}]
        /\ Cardinality(Holding(hands')) = Cardinality(Holding(hands)) + 1
    <3>1. PICK g : g = hands'
      OBVIOUS
    <3>2. Head(out) # NoImage
      BY <2>2, CountParts
    <3>3. Cardinality(Holding(g)) = Cardinality(Holding(hands)) + 1
      BY <1>1, <1>2, <2>1, <3>1, <3>2, HandsFill
    <3>4. QED
      BY <1>1, <2>1, <2>2, <3>1, <3>3
  <2>4. PlayerTyped' /\ ProgramTyped'
    BY <2>1, <2>2, <2>3 DEF CountInv, PlayerTyped, ProgramTyped
  <2>5. InOnePlace'
    <3>1. Len(save') = Len(save) /\ InOnePlace
      BY <2>1 DEF CountInv
    <3>2. PICK c, l, h : c = Cardinality(Shown(out)) /\ l = Len(save) /\ h = Cardinality(Holding(hands))
      OBVIOUS
    <3>3. PICK d, k, g : d = Cardinality(Shown(out')) /\ k = Len(save') /\ g = Cardinality(Holding(hands'))
      OBVIOUS
    <3>4. /\ pool \in Nat /\ c \in Nat /\ l \in Nat /\ h \in Nat /\ display \in Nat
          /\ main.held \in Nat
      BY <3>2, CountParts
    <3>5. d = c - 1 /\ g = h + 1 /\ k = l /\ pool' = pool /\ display' = display /\ main'.held = main.held
      BY <2>1, <2>2, <2>3, <3>1, <3>2, <3>3
    <3>6. pool' + d + k + display' + main'.held + g = pool + c + l + display + main.held + h
      BY <3>4, <3>5
    <3>7. QED
      BY <3>1, <3>2, <3>3, <3>6 DEF InOnePlace
  <2>6. QED
    BY <2>2, <2>4, <2>5 DEF CountInv
<1>4. CASE SkipJudges
  <2>1. /\ hands["K"] # NoImage /\ hands' = [hands EXCEPT !["K"] = NoImage]
        /\ judged' = judged \cup {hands["K"]}
        /\ \/ save' = Append(save, hands["K"]) /\ passed' = passed \cup {hands["K"]} /\ pool' = pool
           \/ pool' = pool + 1 /\ save' = save /\ passed' = passed
        /\ UNCHANGED <<ff, pc, cmds, out, status, prog, main, display, written>>
    BY <1>4 DEF SkipJudges
  <2>2. hands["K"] \in Image
    BY <1>1, <1>2, <2>1
  <2>3. /\ hands' \in [Workers -> Image \cup {NoImage}]
        /\ Cardinality(Holding(hands')) = Cardinality(Holding(hands)) - 1
    <3>1. PICK g : g = hands'
      OBVIOUS
    <3>2. Cardinality(Holding(g)) = Cardinality(Holding(hands)) - 1
      BY <1>1, <1>2, <2>1, <3>1, HandsEmpty
    <3>3. QED
      BY <1>1, <2>1, <3>1, <3>2
  <2>4. /\ save' \in Seq(Image) /\ passed' \subseteq Image /\ pool' \in Nat
        /\ Len(save') + pool' = Len(save) + pool + 1 /\ Len(save') \in Nat
    <3>1. CASE save' = Append(save, hands["K"]) /\ passed' = passed \cup {hands["K"]} /\ pool' = pool
      <4>1. Append(save, hands["K"]) \in Seq(Image) /\ Len(Append(save, hands["K"])) = Len(save) + 1
        BY <1>1, <2>2, AppendProperties
      <4>2. QED
        BY <1>1, <2>2, <3>1, <4>1, CountParts
    <3>2. CASE pool' = pool + 1 /\ save' = save /\ passed' = passed
      BY <1>1, <3>2, CountParts
    <3>3. QED
      BY <2>1, <3>1, <3>2
  <2>5. PlayerTyped' /\ ProgramTyped' /\ NoMarks'
    BY <2>1, <2>2, <2>3, <2>4 DEF CountInv, PlayerTyped, ProgramTyped, NoMarks
  <2>6. InOnePlace'
    <3>1. Cardinality(Shown(out')) = Cardinality(Shown(out)) /\ InOnePlace
          /\ display' = display /\ main'.held = main.held
      BY <2>1 DEF CountInv
    <3>2. PICK c, l, h : c = Cardinality(Shown(out)) /\ l = Len(save) /\ h = Cardinality(Holding(hands))
      OBVIOUS
    <3>3. PICK d, k, g : d = Cardinality(Shown(out')) /\ k = Len(save') /\ g = Cardinality(Holding(hands'))
      OBVIOUS
    <3>4. /\ pool \in Nat /\ c \in Nat /\ l \in Nat /\ h \in Nat /\ display \in Nat
          /\ main.held \in Nat
      BY <3>2, CountParts
    <3>5. k + pool' = l + pool + 1 /\ g = h - 1 /\ d = c /\ display' = display /\ main'.held = main.held
      BY <2>3, <2>4, <3>1, <3>2, <3>3
    <3>6. k \in Nat /\ pool' \in Nat /\ k = l + pool + 1 - pool'
      BY <2>3, <2>4, <3>1, <3>2, <3>3, <3>4
    <3>7. pool' + d + k + display' + main'.held + g = pool + c + l + display + main.held + h
      BY <3>4, <3>5, <3>6
    <3>8. QED
      BY <3>1, <3>2, <3>3, <3>7 DEF InOnePlace
  <2>7. QED
    BY <2>5, <2>6 DEF CountInv
<1>5. QED
  BY <1>3, <1>4 DEF Skipper

\* A saver takes an image, and hands it on to the viewer.
LEMMA CountSaver ==
    ASSUME CountInv, NEW s \in Savers, Saver(s)
    PROVE  CountInv'
<1>1. /\ hands \in [Workers -> Image \cup {NoImage}] /\ save \in Seq(Image) /\ display \in Nat
      /\ written \subseteq Image
  BY DEF CountInv, PlayerTyped, ProgramTyped
<1>2. s \in Workers
  BY DEF Workers
<1>3. CASE SaverTakes(s)
  <2>1. /\ hands[s] = NoImage /\ save # <<>> /\ save' = Tail(save)
        /\ hands' = [hands EXCEPT ![s] = Head(save)]
        /\ UNCHANGED <<ffmpegVars, prog, main, display, judged, passed, written>>
    BY <1>3 DEF SaverTakes
  <2>2. UNCHANGED <<ff, pc, cmds, pool, out, status>>
    BY <2>1 DEF ffmpegVars
  <2>3. Head(save) \in Image /\ save' \in Seq(Image) /\ Len(save') = Len(save) - 1
    BY <1>1, <2>1, HeadTailProperties
  <2>4. /\ hands' \in [Workers -> Image \cup {NoImage}]
        /\ Cardinality(Holding(hands')) = Cardinality(Holding(hands)) + 1
    <3>1. PICK g : g = hands'
      OBVIOUS
    <3>2. Head(save) # NoImage
      BY <2>3, CountParts
    <3>3. Cardinality(Holding(g)) = Cardinality(Holding(hands)) + 1
      BY <1>1, <1>2, <2>1, <3>1, <3>2, HandsFill
    <3>4. QED
      BY <1>1, <2>1, <2>3, <3>1, <3>3
  <2>5. PlayerTyped' /\ ProgramTyped' /\ NoMarks'
    BY <2>1, <2>2, <2>3, <2>4 DEF CountInv, PlayerTyped, ProgramTyped, NoMarks
  <2>6. InOnePlace'
    <3>1. /\ Cardinality(Shown(out')) = Cardinality(Shown(out)) /\ InOnePlace
          /\ display' = display /\ main'.held = main.held /\ pool' = pool
      BY <2>1, <2>2 DEF CountInv
    <3>2. PICK c, l, h : c = Cardinality(Shown(out)) /\ l = Len(save) /\ h = Cardinality(Holding(hands))
      OBVIOUS
    <3>3. PICK d, k, g : d = Cardinality(Shown(out')) /\ k = Len(save') /\ g = Cardinality(Holding(hands'))
      OBVIOUS
    <3>4. /\ pool \in Nat /\ c \in Nat /\ l \in Nat /\ h \in Nat /\ display \in Nat
          /\ main.held \in Nat
      BY <3>2, CountParts
    <3>5. k = l - 1 /\ g = h + 1 /\ d = c /\ pool' = pool /\ display' = display /\ main'.held = main.held
      BY <2>3, <2>4, <3>1, <3>2, <3>3
    <3>6. pool' + d + k + display' + main'.held + g = pool + c + l + display + main.held + h
      BY <3>4, <3>5
    <3>7. QED
      BY <3>1, <3>2, <3>3, <3>6 DEF InOnePlace
  <2>7. QED
    BY <2>5, <2>6 DEF CountInv
<1>4. CASE SaverWrites(s)
  <2>1. /\ hands[s] # NoImage /\ display' = display + 1
        /\ written' = {i \in written : i.n # hands[s].n} \cup {hands[s]}
        /\ hands' = [hands EXCEPT ![s] = NoImage]
        /\ UNCHANGED <<ffmpegVars, prog, main, save, judged, passed>>
    BY <1>4 DEF SaverWrites
  <2>2. UNCHANGED <<ff, pc, cmds, pool, out, status>>
    BY <2>1 DEF ffmpegVars
  <2>3. hands[s] \in Image /\ written' \subseteq Image /\ display' \in Nat
    BY <1>1, <1>2, <2>1
  <2>4. /\ hands' \in [Workers -> Image \cup {NoImage}]
        /\ Cardinality(Holding(hands')) = Cardinality(Holding(hands)) - 1
    <3>1. PICK g : g = hands'
      OBVIOUS
    <3>2. Cardinality(Holding(g)) = Cardinality(Holding(hands)) - 1
      BY <1>1, <1>2, <2>1, <3>1, HandsEmpty
    <3>3. QED
      BY <1>1, <2>1, <3>1, <3>2
  <2>5. PlayerTyped' /\ ProgramTyped' /\ NoMarks'
    BY <2>1, <2>2, <2>3, <2>4 DEF CountInv, PlayerTyped, ProgramTyped, NoMarks
  <2>6. InOnePlace'
    <3>1. /\ Cardinality(Shown(out')) = Cardinality(Shown(out)) /\ InOnePlace
          /\ Len(save') = Len(save) /\ main'.held = main.held /\ pool' = pool
      BY <2>1, <2>2 DEF CountInv
    <3>2. PICK c, l, h : c = Cardinality(Shown(out)) /\ l = Len(save) /\ h = Cardinality(Holding(hands))
      OBVIOUS
    <3>3. PICK d, k, g : d = Cardinality(Shown(out')) /\ k = Len(save') /\ g = Cardinality(Holding(hands'))
      OBVIOUS
    <3>4. /\ pool \in Nat /\ c \in Nat /\ l \in Nat /\ h \in Nat /\ display \in Nat
          /\ main.held \in Nat
      BY <3>2, CountParts
    <3>5. display' = display + 1 /\ g = h - 1 /\ d = c /\ k = l /\ pool' = pool /\ main'.held = main.held
      BY <2>1, <2>4, <3>1, <3>2, <3>3
    <3>6. pool' + d + k + display' + main'.held + g = pool + c + l + display + main.held + h
      BY <3>4, <3>5
    <3>7. QED
      BY <3>1, <3>2, <3>3, <3>6 DEF InOnePlace
  <2>7. QED
    BY <2>5, <2>6 DEF CountInv
<1>5. QED
  BY <1>3, <1>4 DEF Saver

\* What programs and people tell the player moves no image.
LEMMA CountTold ==
    ASSUME CountInv, prog # "saveMovie", NEW c \in Command, TellPlayer(c),
           UNCHANGED <<ff, pc, pool, out, status, prog, hands, save, display, judged, passed, written>>,
           main' \in [at : {"first", "second", "drain", "poll", "quit"}, film : 1 .. Len(Playlist),
                      held : {0, 1}, chosen : Image \cup {NoImage}, zero : BOOLEAN],
           main'.held = main.held
    PROVE  CountInv'
<1>1. PICK q : q = cmds'
  OBVIOUS
<1>2. cmds \in Seq(Message) /\ q = Append(cmds, <<c>>)
  BY <1>1 DEF CountInv, PlayerTyped, TellPlayer
<1>3. cmds' \in Seq(Message)
  BY <1>1, <1>2, Tells
<1>4. PlayerTyped' /\ ProgramTyped' /\ NoMarks'
  BY <1>3 DEF CountInv, PlayerTyped, ProgramTyped, NoMarks
<1>5. InOnePlace'
  <2>1. /\ Cardinality(Shown(out')) = Cardinality(Shown(out)) /\ InOnePlace
        /\ Len(save') = Len(save) /\ Cardinality(Holding(hands')) = Cardinality(Holding(hands))
    BY DEF CountInv
  <2>2. QED
    BY <2>1 DEF InOnePlace
<1>6. QED
  BY <1>4, <1>5 DEF CountInv

\* The main threads of saveMovie and playMovie, the viewer's key, the network
\* and the drip.
LEMMA CountMain ==
    ASSUME CountInv, SaveMain \/ PlayMain \/ KeyN \/ AnyoneSends \/ DripSends
    PROVE  CountInv'
<1>1. /\ main \in [at : {"first", "second", "drain", "poll", "quit"}, film : 1 .. Len(Playlist),
                   held : {0, 1}, chosen : Image \cup {NoImage}, zero : BOOLEAN]
      /\ status \in Nat /\ display \in Nat
  BY DEF CountInv, PlayerTyped, ProgramTyped
<1>2. Len(Playlist) \in Nat \ {0} /\ \A k \in 1 .. Len(Playlist) : Playlist[k] \in Films
  BY MovieAssumption, LenProperties, EmptySeq, ElementOfSeq
<1>3. ASSUME UNCHANGED <<ff, pc, cmds, pool, out, prog, hands, save, display, judged, passed, written>>,
             status' \in Nat,
             main' \in [at : {"first", "second", "drain", "poll", "quit"}, film : 1 .. Len(Playlist),
                        held : {0, 1}, chosen : Image \cup {NoImage}, zero : BOOLEAN],
             main'.held = main.held
      PROVE  CountInv'
  <2>1. PlayerTyped' /\ ProgramTyped' /\ NoMarks'
    BY <1>3 DEF CountInv, PlayerTyped, ProgramTyped, NoMarks
  <2>2. InOnePlace'
    <3>1. /\ Cardinality(Shown(out')) = Cardinality(Shown(out)) /\ InOnePlace
          /\ Len(save') = Len(save) /\ Cardinality(Holding(hands')) = Cardinality(Holding(hands))
      BY <1>3 DEF CountInv
    <3>2. QED
      BY <1>3, <3>1 DEF InOnePlace
  <2>3. QED
    BY <2>1, <2>2 DEF CountInv
<1>4. CASE SaveMain
  <2>1. /\ UNCHANGED <<ff, pc, cmds, pool, out, status, prog, hands, save, display, judged, passed, written>>
        /\ main' = [main EXCEPT !.at = "drain"] \/ main' = [main EXCEPT !.at = "quit"]
    BY <1>4 DEF SaveMain, ffmpegVars
  <2>2. /\ main' \in [at : {"first", "second", "drain", "poll", "quit"}, film : 1 .. Len(Playlist),
                      held : {0, 1}, chosen : Image \cup {NoImage}, zero : BOOLEAN]
        /\ main'.held = main.held
    BY <1>1, <2>1
  <2>3. QED
    BY <1>1, <1>3, <2>1, <2>2
<1>5. CASE StartFilm
  <2>1. PICK c : c = Cmd("/start", Playlist[main.film])
    OBVIOUS
  <2>2. Playlist[main.film] \in Films
    BY <1>1, <1>2
  <2>3. c \in Command
    BY <2>1, <2>2 DEF Command, Cmd
  <2>4. /\ prog = "playMovie" /\ TellPlayer(c) /\ main' = [main EXCEPT !.at = "poll"]
        /\ UNCHANGED <<ff, pc, pool, out, status, prog, hands, save, display, judged, passed, written>>
    BY <1>5, <2>1 DEF StartFilm
  <2>5. /\ main' \in [at : {"first", "second", "drain", "poll", "quit"}, film : 1 .. Len(Playlist),
                      held : {0, 1}, chosen : Image \cup {NoImage}, zero : BOOLEAN]
        /\ main'.held = main.held
    BY <1>1, <2>4
  <2>6. QED
    BY <2>3, <2>4, <2>5, CountTold
<1>6. CASE FilmDone
  <2>1. PICK k : k = (main.film % Len(Playlist)) + 1
    OBVIOUS
  <2>2. k \in 1 .. Len(Playlist)
    BY <1>1, <1>2, <2>1
  <2>3. /\ status > 0 /\ status' = status - 1
        /\ main' = [main EXCEPT !.at = "first", !.film = k]
        /\ UNCHANGED <<ff, pc, cmds, pool, out, prog, hands, save, display, judged, passed, written>>
    BY <1>6, <2>1 DEF FilmDone
  <2>4. /\ main' \in [at : {"first", "second", "drain", "poll", "quit"}, film : 1 .. Len(Playlist),
                      held : {0, 1}, chosen : Image \cup {NoImage}, zero : BOOLEAN]
        /\ main'.held = main.held
    BY <1>1, <2>2, <2>3
  <2>5. status' \in Nat
    BY <1>1, <2>3
  <2>6. QED
    BY <1>3, <2>3, <2>4, <2>5
<1>7. CASE KeyN \/ AnyoneSends
  <2>1. /\ prog # "saveMovie" /\ UNCHANGED <<ff, pc, pool, out, status, progVars>>
        /\ \E c \in Command : TellPlayer(c)
    <3>1. Cmd("/set/length", 1) \in Command
      BY DEF Command, Cmd
    <3>2. Commands \subseteq Command
      BY MovieAssumption
    <3>3. QED
      BY <1>7, <3>1, <3>2 DEF KeyN, AnyoneSends
  <2>2. UNCHANGED <<prog, main, hands, save, display, judged, passed, written>>
    BY <2>1 DEF progVars
  <2>3. QED
    BY <1>1, <2>1, <2>2, CountTold
<1>8. CASE DripSends
  <2>1. /\ prog # "saveMovie" /\ out # <<>> /\ out' = Tail(out)
        /\ display' = IF Head(out) = MovieDone THEN display ELSE display + 1
        /\ UNCHANGED <<ff, pc, cmds, pool, status, prog, main, hands, save, judged, passed, written>>
    BY <1>8 DEF DripSends
  <2>2. /\ out' \in Seq(Item) /\ NoMarks'
        /\ Cardinality(Shown(out')) \in Nat
        /\ Head(out) # MovieDone => Cardinality(Shown(out')) = Cardinality(Shown(out)) - 1
        /\ Head(out) = MovieDone => Cardinality(Shown(out')) = Cardinality(Shown(out))
    BY <2>1, OutTaken
  <2>3. display' \in Nat /\ Cardinality(Shown(out')) + display' = Cardinality(Shown(out)) + display
    BY <1>1, <2>1, <2>2, CountParts
  <2>4. PlayerTyped' /\ ProgramTyped'
    BY <2>1, <2>2, <2>3 DEF CountInv, PlayerTyped, ProgramTyped
  <2>5. InOnePlace'
    <3>1. /\ Cardinality(Holding(hands')) = Cardinality(Holding(hands)) /\ InOnePlace
          /\ Len(save') = Len(save) /\ main'.held = main.held /\ pool' = pool
      BY <2>1 DEF CountInv
    <3>2. PICK c, l, h : c = Cardinality(Shown(out)) /\ l = Len(save) /\ h = Cardinality(Holding(hands))
      OBVIOUS
    <3>3. PICK d, k, g : d = Cardinality(Shown(out')) /\ k = Len(save') /\ g = Cardinality(Holding(hands'))
      OBVIOUS
    <3>4. /\ pool \in Nat /\ c \in Nat /\ l \in Nat /\ h \in Nat /\ display \in Nat
          /\ main.held \in Nat
      BY <3>2, CountParts
    <3>5. d + display' = c + display /\ k = l /\ g = h /\ pool' = pool /\ main'.held = main.held
      BY <2>2, <2>3, <3>1, <3>2, <3>3
    <3>6. d \in Nat /\ display' \in Nat /\ d = c + display - display'
      BY <2>2, <2>3, <3>3, <3>4, <3>5
    <3>7. pool' + d + k + display' + main'.held + g = pool + c + l + display + main.held + h
      BY <3>4, <3>5, <3>6
    <3>8. QED
      BY <3>1, <3>2, <3>3, <3>7 DEF InOnePlace
  <2>6. QED
    BY <2>2, <2>4, <2>5 DEF CountInv
<1>9. QED
  BY <1>4, <1>5, <1>6, <1>7, <1>8 DEF PlayMain

\* Every step keeps the count.
LEMMA CountStep ==
    ASSUME CountInv, [Next]_vars
    PROVE  CountInv'
<1>1. CASE UNCHANGED vars
  <2>1. UNCHANGED <<ff, pc, cmds, pool, out, status, prog, main, hands, save, display,
                    judged, passed, written>>
    BY <1>1 DEF vars, ffmpegVars, progVars
  <2>2. PlayerTyped' /\ ProgramTyped' /\ NoMarks'
    BY <2>1 DEF CountInv, PlayerTyped, ProgramTyped, NoMarks
  <2>3. InOnePlace'
    <3>1. /\ Cardinality(Holding(hands')) = Cardinality(Holding(hands)) /\ InOnePlace
          /\ Cardinality(Shown(out')) = Cardinality(Shown(out))
          /\ Len(save') = Len(save)
      BY <2>1 DEF CountInv
    <3>2. QED
      BY <2>1, <3>1 DEF InOnePlace
  <2>4. QED
    BY <2>2, <2>3 DEF CountInv
<1>2. CASE Next
  BY <1>2, CountPlayer, CountShow, CountExtract, CountSkipper, CountSaver, CountMain, Zenon DEF Next
<1>3. QED
  BY <1>1, <1>2

\* The count and the types hold in every state.
THEOREM CountInvariance == Spec => []CountInv
<1>1. Init => CountInv
  BY CountStart
<1>2. CountInv /\ [Next]_vars => CountInv'
  BY CountStep
<1>3. QED
  BY <1>1, <1>2, PTL DEF Spec

\* Types, and the count of the images: whatever is told to the player at any
\* moment, the images of the pool are in the pool, in a queue, in the viewer or
\* in a worker's hands, each in one of them (DropImage and SendImage, the skipper
\* and the savers).
THEOREM TypeCorrect == Spec => []TypeOK
<1>1. CountInv => TypeOK
  <2> SUFFICES ASSUME CountInv PROVE TypeOK
    OBVIOUS
  <2>1. PlayerTyped /\ ProgramTyped /\ InOnePlace
    BY DEF CountInv
  <2>2. pool \in 0 .. PoolSize
    BY <2>1, CountParts DEF InOnePlace
  <2>3. FfmpegTypeOK
    BY <2>1, <2>2 DEF PlayerTyped, FfmpegTypeOK, Fields, Item
  <2>4. pool + Cardinality({i \in DOMAIN out : out[i] # MovieDone}) + Len(save) + display
         + main.held + Cardinality({w \in Workers : hands[w] # NoImage}) = PoolSize
    BY <2>1, Zenon DEF InOnePlace, Shown, Holding
  <2>5. main.at \in {"first", "second", "drain", "poll", "quit"} /\ cmds \in Seq(Message)
    BY <2>1 DEF ProgramTyped, PlayerTyped
  <2>6. QED
    BY <2>3, <2>4, <2>5 DEF TypeOK
<1>2. QED
  BY <1>1, CountInvariance, PTL

-----------------------------------------------------------------------------
(* No image shows a film that is not open any more.                          *)

FilmInv ==
    /\ Sound(ff)
    /\ pc = "pop" => InHand(ff)
    /\ \A c \in Said(cmds) : SeekInside(c)

\* What a step appends to out is of the film that is open, or an "end" message.
Fresh ==
    \A i \in Len(out) + 1 .. Len(out') :
        out'[i] # MovieDone => ff.opened /\ out'[i].film = ff.film

\* An "end" message is no image of any film.
LEMMA FreshEnds ==
    ASSUME out \in Seq(Item), NEW e, e = <<>>, Grown(out, out', e)
    PROVE  Fresh
<1>1. PICK k, l : k = Len(out) /\ l = Len(out')
  OBVIOUS
<1>2. k \in Nat /\ l \in Nat /\ Len(e) = 0
  BY <1>1, LenProperties, EmptySeq DEF Grown
<1>3. \A i \in k + 1 .. l : out'[i] = MovieDone
  BY <1>1, <1>2 DEF Grown
<1>4. QED
  BY <1>1, <1>3 DEF Fresh

\* An image of the film that is open, and "end" messages behind it.
LEMMA FreshImage ==
    ASSUME out \in Seq(Item), NEW image \in Image, NEW e, e = <<image>>, Grown(out, out', e),
           ff.opened, image.film = ff.film
    PROVE  Fresh
<1>1. PICK k, l : k = Len(out) /\ l = Len(out')
  OBVIOUS
<1>2. k \in Nat /\ l \in Nat /\ Len(e) = 1 /\ e[1] = image
  BY <1>1, LenProperties, Sent DEF Grown
<1>3. out'[k + 1] = image /\ \A i \in k + 2 .. l : out'[i] = MovieDone
  <2>1. out'[k + 1] = image
    BY <1>1, <1>2 DEF Grown
  <2>2. \A i \in k + 1 + 1 .. l : out'[i] = MovieDone
    BY <1>1, <1>2 DEF Grown
  <2>3. QED
    BY <1>2, <2>1, <2>2
<1>4. ASSUME NEW i \in k + 1 .. l, out'[i] # MovieDone
      PROVE  out'[i] = image
  BY <1>2, <1>3, <1>4
<1>5. QED
  BY <1>1, <1>4 DEF Fresh

\* A queue that did not grow.
LEMMA FreshLess ==
    ASSUME out \in Seq(Item), out' = out \/ (out # <<>> /\ out' = Tail(out))
    PROVE  Fresh
<1>1. PICK k, l : k = Len(out) /\ l = Len(out')
  OBVIOUS
<1>2. k \in Nat /\ l \in Nat /\ l <= k
  BY <1>1, LenProperties, EmptySeq, HeadTailProperties
<1>3. QED
  BY <1>1, <1>2 DEF Fresh

\* The programs' first messages hold no /seek.
LEMMA FilmStart == Init => FilmInv
<1> SUFFICES ASSUME Init PROVE FilmInv
  OBVIOUS
<1>1. /\ ff = InitPlayer /\ pc = "top" /\ prog \in Programs
      /\ cmds = FirstMessages(prog, Playlist[main.film])
  BY DEF Init, FfmpegInit
<1>2. PICK f : f = Playlist[main.film]
  OBVIOUS
<1>3. PICK a, b, c : a = Cmd("/start", f) /\ b = Cmd("/defevent", "out") /\ c = Cmd("/defevent", "status")
  OBVIOUS
<1>4. cmds = << <<a, b>> >> \/ cmds = << <<a, c>> >> \/ cmds = << <<c>> >> \/ cmds = <<>>
  BY <1>1, <1>2, <1>3, MovieAssumption DEF FirstMessages
<1>5. \A i \in DOMAIN cmds : \A j \in DOMAIN cmds[i] : cmds[i][j] \in {a, b, c}
  BY <1>4
<1>6. \A x \in {a, b, c} : SeekInside(x)
  BY <1>3 DEF Cmd, SeekInside
<1>7. \A x \in Said(cmds) : SeekInside(x)
  BY <1>5, <1>6 DEF Said
<1>8. Sound(ff)
  BY <1>1 DEF InitPlayer, Sound
<1>9. QED
  BY <1>1, <1>7, <1>8 DEF FilmInv

\* The player: a frame that it decoded of a film that was closed is thrown away.
LEMMA FilmPlayer ==
    ASSUME PlayerTyped, FilmInv, FfmpegStep
    PROVE  FilmInv' /\ Fresh
<1>1. /\ ff \in Fields /\ ff.ends = 0 /\ pc \in {"top", "wait", "poll", "pop"}
      /\ cmds \in Seq(Message) /\ pool \in Nat /\ out \in Seq(Item) /\ status \in Nat
  BY DEF PlayerTyped
<1>2. /\ Sound(ff) /\ (pc = "pop" => InHand(ff))
      /\ \A c \in Said(cmds) : SeekInside(c)
  BY DEF FilmInv
<1>3. ASSUME NEW s \in Fields, NEW t, t = [s EXCEPT !.ends = 0]
      PROVE  /\ Sound(s) => Sound(t)
             /\ InHand(s) => InHand(t)
  <2>1. /\ t.opened = s.opened /\ t.film = s.film /\ t.frame = s.frame /\ t.next = s.next
        /\ t.hasClosed = s.hasClosed
    BY <1>3 DEF Fields
  <2>2. QED
    BY <2>1 DEF Sound, InHand
<1>4. CASE Begin \/ NothingToPlay
  <2>1. ff' = ff /\ cmds' = cmds /\ out' = out /\ pc' # "pop"
    BY <1>4 DEF Begin, NothingToPlay
  <2>2. QED
    BY <1>1, <1>2, <2>1, FreshLess DEF FilmInv
<1>5. CASE ObeyCommand
  <2>1. PICK q : q = cmds'
    OBVIOUS
  <2>2. PICK m : m = Head(Head(cmds))
    OBVIOUS
  <2>3. /\ cmds # <<>> /\ (pc' = "pop" => pc = "pop")
        /\ Becomes(Decode(ff, m), <<>>)
        /\ \/ Len(Head(cmds)) > 1 /\ q = [cmds EXCEPT ![1] = Tail(Head(cmds))]
           \/ Len(Head(cmds)) = 1 /\ q = Tail(cmds)
    BY <1>1, <1>5, <2>1, <2>2 DEF ObeyCommand
  <2>4. m \in Said(cmds) /\ Said(q) \subseteq Said(cmds)
    BY <1>1, <2>2, <2>3, Obeys
  <2>5. m \in Command /\ SeekInside(m)
    BY <1>2, <2>4 DEF Said
  <2>6. PICK t : t = Decode(ff, m)
    OBVIOUS
  <2>7. t \in Fields /\ Sound(t) /\ (InHand(ff) => InHand(t))
    BY <1>1, <1>2, <2>5, <2>6, DecodeKeeps
  <2>8. PICK e : e = <<>> /\ Becomes(t, e)
    BY <2>3, <2>6
  <2>9. e \in Seq(Image) /\ Len(e) <= 1
    BY <2>8, Sent
  <2>10. ff' = [t EXCEPT !.ends = 0] /\ Grown(out, out', e)
    BY <2>7, <2>8, <2>9, Became
  <2>11. Fresh
    BY <1>1, <2>8, <2>10, FreshEnds
  <2>12. PICK u : u = ff'
    OBVIOUS
  <2>13. Sound(u) /\ (InHand(ff) => InHand(u))
    BY <1>3, <2>7, <2>10, <2>12
  <2>14. FilmInv'
    BY <1>2, <2>1, <2>3, <2>4, <2>12, <2>13 DEF FilmInv, Sound, InHand
  <2>15. QED
    BY <2>11, <2>14
<1>6. CASE DecodeFrame
  <2>1. cmds' = cmds /\ ff.opened
    BY <1>6 DEF DecodeFrame
  <2>2. CASE Becomes(StopMovie(ff), <<>>) /\ pc' = "top"
    <3>1. PICK t : t = StopMovie(ff)
      OBVIOUS
    <3>2. t \in Fields /\ ~t.opened
      BY <1>1, <2>1, <3>1, StopMade
    <3>3. PICK e : e = <<>> /\ Becomes(t, e)
      BY <2>2, <3>1
    <3>4. e \in Seq(Image) /\ Len(e) <= 1
      BY <3>3, Sent
    <3>5. ff' = [t EXCEPT !.ends = 0] /\ Grown(out, out', e)
      BY <3>2, <3>3, <3>4, Became
    <3>6. ~ff'.opened
      BY <3>2, <3>5 DEF Fields
    <3>7. Fresh
      BY <1>1, <3>3, <3>5, FreshEnds
    <3>8. QED
      BY <1>2, <2>1, <2>2, <3>6, <3>7 DEF FilmInv, Sound
  <2>3. CASE /\ ff' = [ff EXCEPT !.frame = [film |-> ff.film, at |-> ff.next], !.next = @ + 1]
             /\ out' = out
    <3>1. PICK b : b = [film |-> ff.film, at |-> ff.next]
      OBVIOUS
    <3>2. ff' = [ff EXCEPT !.frame = b, !.next = ff.next + 1]
      BY <2>3, <3>1
    <3>3. /\ ff'.opened = ff.opened /\ ff'.film = ff.film /\ ff'.frame = b
          /\ ff'.hasClosed = ff.hasClosed
      BY <1>1, <3>2 DEF Fields
    <3>4. b.film = ff.film
      BY <3>1
    <3>5. Sound(ff)' /\ InHand(ff)'
      BY <1>2, <2>1, <3>3, <3>4 DEF Sound, InHand
    <3>6. Fresh
      BY <1>1, <2>3, FreshLess
    <3>7. QED
      BY <1>2, <2>1, <3>5, <3>6 DEF FilmInv
  <2>4. CASE ff.next >= Frames[ff.film] /\ UNCHANGED <<ff, out>>
    <3>1. Opens(ff.film) /\ (ff.frame.film = ff.film \/ ff.next < Frames[ff.film])
      BY <1>2, <2>1 DEF Sound
    <3>2. ff.next \in Nat /\ Frames[ff.film] \in Nat
      BY <1>1, <3>1, MovieAssumption DEF Fields, Opens
    <3>3. ff.frame.film = ff.film
      BY <2>4, <3>1, <3>2
    <3>4. Fresh
      BY <1>1, <2>4, FreshLess
    <3>5. QED
      BY <1>2, <2>1, <2>4, <3>3, <3>4 DEF FilmInv, InHand
  <2>5. QED
    BY <1>6, <2>2, <2>3, <2>4 DEF DecodeFrame
<1>7. CASE DropImage
  <2>1. ff' = [ff EXCEPT !.hasClosed = FALSE] /\ cmds' = cmds /\ out' = out /\ pc' = "top"
    BY <1>7 DEF DropImage
  <2>2. ff'.opened = ff.opened /\ ff'.film = ff.film /\ ff'.frame = ff.frame /\ ff'.next = ff.next
    BY <1>1, <2>1 DEF Fields
  <2>3. Fresh
    BY <1>1, <2>1, FreshLess
  <2>4. QED
    BY <1>2, <2>1, <2>2, <2>3 DEF FilmInv, Sound
<1>8. CASE SendImage
  <2>1. pc = "pop" /\ ff.opened /\ ~ff.hasClosed /\ pc' = "top" /\ cmds' = cmds
    BY <1>8 DEF SendImage
  <2>2. PICK image : image = [n |-> ff.frameNum, film |-> ff.frame.film, at |-> ff.frame.at]
    OBVIOUS
  <2>3. image \in Image
    BY <1>1, <2>2 DEF Fields, Image
  <2>4. image.film = ff.film
    BY <1>2, <2>1, <2>2 DEF InHand
  <2>5. PICK s : s = [ff EXCEPT !.frameNum = @ + 1]
    OBVIOUS
  <2>6. s = [ff EXCEPT !.frameNum = ff.frameNum + 1] /\ ff.frameNum + 1 \in Nat
    BY <1>1, <2>5 DEF Fields
  <2>7. /\ s \in Fields /\ s.opened = ff.opened /\ s.film = ff.film /\ s.frame = ff.frame
        /\ s.next = ff.next
    BY <1>1, <2>6 DEF Fields
  <2>8. PICK t : t = IF s.frameLength > 0 /\ s.frameNum > s.frameLength THEN StopMovie(s) ELSE s
    OBVIOUS
  <2>9. t \in Fields /\ Sound(t)
    <3>1. CASE t = s
      BY <1>2, <2>7, <3>1 DEF Sound
    <3>2. CASE t = StopMovie(s)
      <4>1. t \in Fields /\ ~t.opened
        BY <2>1, <2>7, <3>2, StopMade
      <4>2. QED
        BY <4>1 DEF Sound
    <3>3. QED
      BY <2>8, <3>1, <3>2
  <2>10. PICK e : e = <<image>>
    OBVIOUS
  <2>11. e \in Seq(Image) /\ Len(e) <= 1
    BY <2>3, <2>10, Sent
  <2>12. Becomes(t, e)
    BY <1>8, <2>2, <2>5, <2>8, <2>10 DEF SendImage
  <2>13. ff' = [t EXCEPT !.ends = 0] /\ Grown(out, out', e)
    BY <2>9, <2>11, <2>12, Became
  <2>14. Fresh
    BY <1>1, <2>1, <2>3, <2>4, <2>10, <2>13, FreshImage
  <2>15. PICK u : u = ff'
    OBVIOUS
  <2>16. Sound(u)
    BY <1>3, <2>9, <2>13, <2>15
  <2>17. QED
    BY <1>2, <2>1, <2>14, <2>15, <2>16 DEF FilmInv, Sound
<1>9. QED
  BY <1>4, <1>5, <1>6, <1>7, <1>8 DEF FfmpegStep

\* The others leave the player alone or send it a command; nobody seeks past the
\* end of a film.
LEMMA FilmStep ==
    ASSUME CountInv, FilmInv, [Next]_vars
    PROVE  FilmInv' /\ Fresh
<1>1. PlayerTyped /\ out \in Seq(Item) /\ cmds \in Seq(Message)
  BY DEF CountInv, PlayerTyped
<1>2. CASE Player
  BY <1>1, <1>2, FilmPlayer DEF Player
<1>3. ASSUME UNCHANGED <<ff, pc>>, out' = out \/ (out # <<>> /\ out' = Tail(out)),
             cmds' = cmds \/ \E c \in Command : SeekInside(c) /\ TellPlayer(c)
      PROVE  FilmInv' /\ Fresh
  <2>1. \A c \in Said(cmds') : SeekInside(c)
    <3>1. CASE cmds' = cmds
      BY <3>1 DEF FilmInv
    <3>2. CASE \E c \in Command : SeekInside(c) /\ TellPlayer(c)
      <4>1. PICK c \in Command : SeekInside(c) /\ TellPlayer(c)
        BY <3>2
      <4>2. PICK q : q = cmds'
        OBVIOUS
      <4>3. Said(q) \subseteq Said(cmds) \cup {c}
        BY <1>1, <4>1, <4>2, Tells DEF TellPlayer
      <4>4. QED
        BY <4>1, <4>2, <4>3 DEF FilmInv
    <3>3. QED
      BY <1>3, <3>1, <3>2
  <2>2. FilmInv'
    BY <1>3, <2>1 DEF FilmInv, Sound, InHand
  <2>3. QED
    BY <1>1, <1>3, <2>2, FreshLess
<1>4. CASE UNCHANGED vars
  BY <1>3, <1>4 DEF vars, ffmpegVars
<1>5. CASE Show
  BY <1>3, <1>5 DEF Show
<1>6. CASE Extract
  <2>1. Cmd("/rewind", 0) \in Command /\ SeekInside(Cmd("/rewind", 0))
    BY DEF Command, Cmd, SeekInside
  <2>2. /\ UNCHANGED <<ff, pc>> /\ out # <<>> /\ out' = Tail(out)
        /\ cmds' = cmds \/ TellPlayer(Cmd("/rewind", 0))
    BY <1>6 DEF Extract, FirstPass, FirstPassDone, SecondPassSkip, SecondPassKeep, SecondPassDone, AtHead
  <2>3. QED
    BY <1>3, <2>1, <2>2
<1>7. CASE Skipper
  BY <1>3, <1>7 DEF Skipper, SkipTakes, SkipJudges
<1>8. CASE \E s \in Savers : Saver(s)
  BY <1>3, <1>8 DEF Saver, SaverTakes, SaverWrites, ffmpegVars
<1>9. CASE SaveMain
  BY <1>3, <1>9 DEF SaveMain, ffmpegVars
<1>10. CASE PlayMain
  <2>1. CASE StartFilm
    <3>1. PICK c : c = Cmd("/start", Playlist[main.film])
      OBVIOUS
    <3>2. main.film \in 1 .. Len(Playlist)
      BY DEF CountInv, ProgramTyped
    <3>3. Playlist[main.film] \in Films
      BY <3>2, MovieAssumption, ElementOfSeq
    <3>4. c \in Command /\ SeekInside(c)
      BY <3>1, <3>3 DEF Command, Cmd, SeekInside
    <3>5. UNCHANGED <<ff, pc, out>> /\ TellPlayer(c)
      BY <2>1, <3>1 DEF StartFilm
    <3>6. QED
      BY <1>3, <3>4, <3>5
  <2>2. CASE FilmDone
    BY <1>3, <2>2 DEF FilmDone
  <2>3. QED
    BY <1>10, <2>1, <2>2 DEF PlayMain
<1>11. CASE DripSends
  BY <1>3, <1>11 DEF DripSends
<1>12. CASE KeyN
  <2>1. Cmd("/set/length", 1) \in Command /\ SeekInside(Cmd("/set/length", 1))
    BY DEF Command, Cmd, SeekInside
  <2>2. UNCHANGED <<ff, pc, out>> /\ TellPlayer(Cmd("/set/length", 1))
    BY <1>12 DEF KeyN
  <2>3. QED
    BY <1>3, <2>1, <2>2
<1>13. CASE AnyoneSends
  <2>1. PICK c \in Commands : TellPlayer(c)
    BY <1>13 DEF AnyoneSends
  <2>2. c \in Command /\ SeekInside(c)
    BY MovieAssumption, SeekAssumption DEF SeekInside
  <2>3. UNCHANGED <<ff, pc, out>>
    BY <1>13 DEF AnyoneSends
  <2>4. QED
    BY <1>3, <2>1, <2>2, <2>3
<1>14. QED
  BY <1>2, <1>4, <1>5, <1>6, <1>7, <1>8, <1>9, <1>10, <1>11, <1>12, <1>13 DEF Next

\* Whatever was stopped, started, rewound or sought while the thread waited for
\* an image: the image that it sends is a frame of the film that is open (the
\* test hasClosed after the pop; hasClosed is set by stopMovie() only).
THEOREM NeverStale == Spec => NoStaleFilm
<1>1. Init => FilmInv
  BY FilmStart
<1>2. CountInv /\ FilmInv /\ [Next]_vars => FilmInv'
  BY FilmStep
<1>3. CountInv /\ FilmInv /\ [Next]_vars =>
        [\A i \in Len(out) + 1 .. Len(out') :
            out'[i] # MovieDone => ff.opened /\ out'[i].film = ff.film]_ffmpegVars
  BY FilmStep DEF Fresh
<1>4. QED
  BY <1>1, <1>2, <1>3, CountInvariance, PTL DEF Spec, NoStaleFilm

-----------------------------------------------------------------------------
(* What saveMovie's threads have seen, passed on and written.                *)

\* What is in a queue, and in the hands of the savers.
Inside(q) == {q[i] : i \in DOMAIN q}
InHands(h) == {h[s] : s \in Savers} \ {NoImage}

\* The player's queue after a step that sends no "end" message to it.
LEMMA InsideGrown ==
    ASSUME NEW o \in Seq(Item), NEW sent \in Seq(Image), NEW r, Grown(o, r, sent),
           Len(r) = Len(o) + Len(sent)
    PROVE  Inside(r) = Inside(o) \cup Inside(sent)
<1>1. PICK k, l : k = Len(o) /\ l = Len(sent)
  OBVIOUS
<1>2. /\ k \in Nat /\ DOMAIN o = 1 .. k /\ l \in Nat /\ DOMAIN sent = 1 .. l /\ r \in Seq(Item)
  BY <1>1, LenProperties DEF Grown
<1>3. DOMAIN r = 1 .. k + l
  BY <1>1, <1>2, LenProperties
<1>4. /\ \A i \in 1 .. k : r[i] = o[i]
      /\ \A i \in 1 .. l : r[k + i] = sent[i]
  BY <1>1, <1>2 DEF Grown
<1>5. ASSUME NEW i \in 1 .. k + l
      PROVE  r[i] \in Inside(o) \cup Inside(sent)
  <2>1. CASE i <= k
    <3>1. i \in 1 .. k
      BY <1>2, <2>1
    <3>2. QED
      BY <1>2, <1>4, <3>1 DEF Inside
  <2>2. CASE i > k
    <3>1. i - k \in 1 .. l /\ i = k + (i - k)
      BY <1>2, <2>2
    <3>2. r[i] = sent[i - k]
      BY <1>4, <3>1
    <3>3. QED
      BY <1>2, <3>1, <3>2 DEF Inside
  <2>3. QED
    BY <1>2, <2>1, <2>2
<1>6. \A i \in 1 .. k : i \in DOMAIN r /\ r[i] = o[i]
  BY <1>2, <1>3, <1>4
<1>7. \A i \in 1 .. l : k + i \in DOMAIN r /\ r[k + i] = sent[i]
  BY <1>2, <1>3, <1>4
<1>8. Inside(o) \subseteq Inside(r)
  BY <1>2, <1>6 DEF Inside
<1>9. Inside(sent) \subseteq Inside(r)
  BY <1>2, <1>7 DEF Inside
<1>10. Inside(r) \subseteq Inside(o) \cup Inside(sent)
  BY <1>3, <1>5 DEF Inside
<1>11. QED
  BY <1>8, <1>9, <1>10

\* The first of a queue is taken.
LEMMA InsideTail ==
    ASSUME NEW S, NEW q \in Seq(S), q # <<>>
    PROVE  Inside(q) = {Head(q)} \cup Inside(Tail(q))
<1>1. PICK n : n = Len(q)
  OBVIOUS
<1>2. n \in Nat /\ n > 0 /\ DOMAIN q = 1 .. n /\ Head(q) = q[1]
  <2>1. Len(q) \in Nat /\ DOMAIN q = 1 .. Len(q)
    BY LenProperties
  <2>2. Len(q) # 0
    BY EmptySeq
  <2>3. QED
    BY <1>1, <2>1, <2>2, HeadTailProperties
<1>3. /\ Tail(q) \in Seq(S) /\ Len(Tail(q)) = n - 1
      /\ \A i \in 1 .. n - 1 : Tail(q)[i] = q[i + 1]
  BY <1>1, <1>2, HeadTailProperties
<1>4. DOMAIN Tail(q) = 1 .. n - 1
  BY <1>3, LenProperties
<1>5. \A i \in 1 .. n - 1 : i + 1 \in 1 .. n
  BY <1>2
<1>6. \A i \in 1 .. n : i = 1 \/ (i - 1 \in 1 .. n - 1 /\ i = (i - 1) + 1)
  BY <1>2
<1>7. 1 \in 1 .. n
  BY <1>2
<1>8. ASSUME NEW i \in 1 .. n
      PROVE  q[i] = Head(q) \/ q[i] \in Inside(Tail(q))
  <2>1. CASE i = 1
    BY <1>2, <2>1
  <2>2. CASE i - 1 \in 1 .. n - 1 /\ i = (i - 1) + 1
    <3>1. Tail(q)[i - 1] = q[i]
      BY <1>3, <2>2
    <3>2. QED
      BY <1>4, <2>2, <3>1 DEF Inside
  <2>3. QED
    BY <1>6, <2>1, <2>2
<1>9. Inside(Tail(q)) \subseteq Inside(q)
  BY <1>2, <1>3, <1>4, <1>5 DEF Inside
<1>10. Head(q) \in Inside(q)
  BY <1>2, <1>7 DEF Inside
<1>11. Inside(q) \subseteq {Head(q)} \cup Inside(Tail(q))
  BY <1>2, <1>8 DEF Inside
<1>12. QED
  BY <1>9, <1>10, <1>11

\* One more is put behind it.
LEMMA InsideAppend ==
    ASSUME NEW S, NEW q \in Seq(S), NEW x \in S
    PROVE  Inside(Append(q, x)) = Inside(q) \cup {x}
<1>1. PICK n : n = Len(q)
  OBVIOUS
<1>2. n \in Nat /\ DOMAIN q = 1 .. n
  BY <1>1, LenProperties
<1>3. PICK r : r = Append(q, x)
  OBVIOUS
<1>4. /\ r \in Seq(S) /\ Len(r) = n + 1
      /\ \A i \in 1 .. n : r[i] = q[i]
      /\ r[n + 1] = x
  BY <1>1, <1>3, AppendProperties
<1>5. DOMAIN r = 1 .. n + 1
  BY <1>4, LenProperties
<1>6. \A i \in 1 .. n + 1 : i \in 1 .. n \/ i = n + 1
  BY <1>2
<1>7. n + 1 \in 1 .. n + 1 /\ \A i \in 1 .. n : i \in 1 .. n + 1
  BY <1>2
<1>8. Inside(r) \subseteq Inside(q) \cup {x}
  BY <1>2, <1>4, <1>5, <1>6 DEF Inside
<1>9. Inside(q) \subseteq Inside(r)
  BY <1>2, <1>4, <1>5, <1>7 DEF Inside
<1>10. x \in Inside(r)
  BY <1>4, <1>5, <1>7 DEF Inside
<1>11. QED
  BY <1>3, <1>8, <1>9, <1>10

\* A saver takes an image.
LEMMA InHandsFill ==
    ASSUME NEW h, DOMAIN h = Workers, NEW s \in Savers, h[s] = NoImage, NEW i, i # NoImage,
           NEW g, g = [h EXCEPT ![s] = i]
    PROVE  InHands(g) = InHands(h) \cup {i}
<1>1. s \in Workers /\ Savers \subseteq Workers
  BY DEF Workers
<1>2. g[s] = i /\ \A w \in Savers : w # s => g[w] = h[w]
  BY <1>1
<1>3. QED
  BY <1>2 DEF InHands

\* It hands it on.
LEMMA InHandsEmpty ==
    ASSUME NEW h, DOMAIN h = Workers, NEW s \in Savers, h[s] # NoImage,
           NEW g, g = [h EXCEPT ![s] = NoImage]
    PROVE  InHands(h) = InHands(g) \cup {h[s]}
<1>1. s \in Workers /\ Savers \subseteq Workers
  BY DEF Workers
<1>2. g[s] = NoImage /\ \A w \in Savers : w # s => g[w] = h[w]
  BY <1>1
<1>3. QED
  BY <1>2 DEF InHands

-----------------------------------------------------------------------------
(* saveMovie: the film is played from its first frame to its last, in order, *)
(* and each image of it is numbered after its frame.                         *)

TheFilm == Playlist[main.film]
Named(f, k) == [n |-> k, film |-> f, at |-> k]

StartThenBind(f) == << <<Cmd("/start", f), Cmd("/defevent", "status")>> >>
OnlyBind == << <<Cmd("/defevent", "status")>> >>

\* The film was played to its end; the player has nothing to do any more.
Over == ~ff.opened /\ cmds = <<>> /\ ff.frameNum = Frames[TheFilm]

\* Both commands are obeyed while the player waits at its first turn.
Asked ==
    /\ cmds \in {StartThenBind(TheFilm), OnlyBind, <<>>}
    /\ cmds # <<>> => pc \in {"top", "wait"} /\ ff.frameNum = 0
    /\ cmds = StartThenBind(TheFilm) => ~ff.opened /\ ~ff.hasClosed /\ ff.triage["status"] = 0
    /\ cmds = OnlyBind => pc = "wait"

\* The next frame is the one that the next image will be numbered after.
InOrder ==
    /\ ff.opened =>
         /\ ff.film = TheFilm /\ Opens(TheFilm) /\ ~ff.hasClosed
         /\ ff.frameLength \in {0, Frames[TheFilm]}
         /\ ff.frameNum <= Frames[TheFilm]
         /\ pc # "pop" => ff.next = ff.frameNum
    /\ pc = "pop" =>
         /\ ff.opened /\ ff.next = ff.frameNum + 1 /\ ff.frameNum < Frames[TheFilm]
         /\ ff.frame = [film |-> TheFilm, at |-> ff.frameNum]

\* The main thread hears of the end only after it; then it waits for the pool.
Told ==
    /\ main.at \in {"first", "drain", "quit"}
    /\ status > 0 => Over
    /\ main.at # "first" => Over
    /\ main.at = "quit" => pool = PoolSize

\* Each frame that was sent is in the queue, in the skipper's hands or judged.
Seen ==
    judged \cup Inside(out) \cup ({hands["K"]} \ {NoImage})
        = {Named(TheFilm, k) : k \in 0 .. ff.frameNum - 1}

\* Each image that was passed on is in the queue, in a saver's hands or in a file.
Kept ==
    /\ passed \subseteq judged
    /\ passed = written \cup Inside(save) \cup InHands(hands)

SaveInv == prog = "saveMovie" => Asked /\ InOrder /\ Told /\ Seen /\ Kept

\* One more frame.
LEMMA OneMore ==
    ASSUME NEW f, NEW k \in Nat
    PROVE  {Named(f, j) : j \in 0 .. (k + 1) - 1} = {Named(f, j) : j \in 0 .. k - 1} \cup {Named(f, k)}
<1>1. \A j : j \in 0 .. (k + 1) - 1 <=> j \in 0 .. k - 1 \/ j = k
  OBVIOUS
<1>2. QED
  BY <1>1

\* When all images are back, nobody holds one.
LEMMA AllBack ==
    ASSUME CountInv, prog = "saveMovie", pool = PoolSize
    PROVE  /\ out = <<>> /\ save = <<>> /\ display = 0
           /\ \A w \in Workers : hands[w] = NoImage
<1>1. PICK c, l, h : c = Cardinality(Shown(out)) /\ l = Len(save) /\ h = Cardinality(Holding(hands))
  OBVIOUS
<1>2. /\ pool \in Nat /\ c \in Nat /\ l \in Nat /\ h \in Nat /\ display \in Nat
      /\ main.held \in Nat
  BY <1>1, CountParts
<1>3. pool + c + l + display + main.held + h = pool
  BY <1>1 DEF CountInv, InOnePlace
<1>4. c = 0 /\ l = 0 /\ display = 0 /\ h = 0
  BY <1>2, <1>3
<1>5. Shown(out) = {} /\ Holding(hands) = {}
  BY <1>1, <1>4, CountParts, FS_EmptySet
<1>6. out \in Seq(Item) /\ save \in Seq(Image)
  BY DEF CountInv, PlayerTyped, ProgramTyped
<1>7. DOMAIN out = {}
  BY <1>5 DEF CountInv, NoMarks, Shown
<1>8. out = <<>>
  <2>1. Len(out) \in Nat /\ DOMAIN out = 1 .. Len(out)
    BY <1>6, LenProperties
  <2>2. Len(out) = 0
    BY <1>7, <2>1
  <2>3. QED
    BY <1>6, <2>2, EmptySeq
<1>9. save = <<>>
  BY <1>1, <1>4, <1>6, EmptySeq
<1>10. QED
  BY <1>4, <1>5, <1>8, <1>9 DEF Holding

\* saveMovie starts the film and binds "end" in one message.
LEMMA SaveStart == Init => SaveInv
<1> SUFFICES ASSUME Init, prog = "saveMovie" PROVE Asked /\ InOrder /\ Told /\ Seen /\ Kept
  BY DEF SaveInv
<1>1. /\ main \in [at : {"first"}, film : 1 .. Len(Playlist), held : {0},
                   chosen : {NoImage}, zero : {TRUE}]
      /\ hands = [w \in Workers |-> NoImage] /\ save = <<>>
      /\ judged = {} /\ passed = {} /\ written = {}
      /\ ff = InitPlayer /\ pc = "top" /\ out = <<>> /\ status = 0
      /\ cmds = FirstMessages(prog, Playlist[main.film])
  BY DEF Init, FfmpegInit
<1>2. cmds = StartThenBind(TheFilm)
  BY <1>1 DEF FirstMessages, StartThenBind, TheFilm
<1>3. /\ ~ff.opened /\ ~ff.hasClosed /\ ff.frameNum = 0 /\ ff.triage["status"] = 0
  BY <1>1 DEF InitPlayer, Ports
<1>4. Asked
  <2>1. Len(cmds[1]) = 2 /\ cmds # <<>>
    BY <1>2 DEF StartThenBind
  <2>2. cmds # OnlyBind
    <3>1. Len(OnlyBind[1]) = 1
      BY DEF OnlyBind
    <3>2. QED
      BY <2>1, <3>1
  <2>3. QED
    BY <1>1, <1>2, <1>3, <2>2 DEF Asked
<1>5. InOrder
  BY <1>1, <1>3 DEF InOrder
<1>6. Told
  BY <1>1 DEF Told
<1>7. Inside(<<>>) = {}
  BY EmptySeq DEF Inside
<1>8. Seen
  <2>1. hands["K"] = NoImage
    BY <1>1 DEF Workers
  <2>2. {Named(TheFilm, k) : k \in 0 .. ff.frameNum - 1} = {}
    BY <1>3
  <2>3. QED
    BY <1>1, <1>7, <2>1, <2>2 DEF Seen
<1>9. Kept
  <2>1. InHands(hands) = {}
    BY <1>1 DEF InHands, Workers
  <2>2. QED
    BY <1>1, <1>7, <2>1 DEF Kept
<1>10. QED
  BY <1>4, <1>5, <1>6, <1>8, <1>9

\* The two messages of saveMovie's program to the player.
LEMMA TwoMessages ==
    ASSUME NEW f
    PROVE  /\ StartThenBind(f) # <<>> /\ OnlyBind # <<>> /\ StartThenBind(f) # OnlyBind
           /\ Len(Head(StartThenBind(f))) = 2 /\ Len(Head(OnlyBind)) = 1
           /\ Head(Head(StartThenBind(f))) = Cmd("/start", f)
           /\ [StartThenBind(f) EXCEPT ![1] = Tail(Head(StartThenBind(f)))] = OnlyBind
           /\ Head(Head(OnlyBind)) = Cmd("/defevent", "status") /\ Tail(OnlyBind) = <<>>
<1>1. PICK a, b : a = Cmd("/start", f) /\ b = Cmd("/defevent", "status")
  OBVIOUS
<1>2. StartThenBind(f) = << <<a, b>> >> /\ OnlyBind = << <<b>> >>
  BY <1>1 DEF StartThenBind, OnlyBind
<1>3. PICK p, m : p = <<a, b>> /\ m = <<b>>
  OBVIOUS
<1>4. /\ Len(p) = 2 /\ Len(m) = 1 /\ Head(p) = a /\ Tail(p) = m /\ Head(m) = b
  BY <1>3
<1>5. StartThenBind(f) = <<p>> /\ OnlyBind = <<m>>
  BY <1>2, <1>3
<1>6. Head(<<p>>) = p /\ Head(<<m>>) = m /\ Tail(<<m>>) = <<>> /\ [<<p>> EXCEPT ![1] = m] = <<m>>
      /\ <<p>> # <<>> /\ <<m>> # <<>>
  OBVIOUS
<1>7. PICK x, y : x = StartThenBind(f) /\ y = OnlyBind
  OBVIOUS
<1>8. x = <<p>> /\ y = <<m>> /\ p # m
  BY <1>4, <1>5, <1>7
<1>9. x # y
  BY <1>6, <1>8
<1>10. /\ x # <<>> /\ y # <<>>
       /\ Head(x) = p /\ Head(y) = m /\ Tail(y) = <<>>
       /\ [x EXCEPT ![1] = m] = y
  BY <1>6, <1>8
<1>11. /\ Len(Head(x)) = 2 /\ Len(Head(y)) = 1
       /\ Head(Head(x)) = Cmd("/start", f)
       /\ [x EXCEPT ![1] = Tail(Head(x))] = y
       /\ Head(Head(y)) = Cmd("/defevent", "status")
  BY <1>1, <1>4, <1>10, Zenon
<1>12. QED
  BY <1>7, <1>9, <1>10, <1>11, Zenon

\* The player obeys saveMovie's commands before it decodes the first frame.
LEMMA SaveObeys ==
    ASSUME CountInv, SaveInv, prog = "saveMovie", ObeyCommand, UNCHANGED progVars
    PROVE  Asked' /\ InOrder' /\ Told' /\ Seen'
<1>1. /\ ff \in Fields /\ ff.ends = 0 /\ out \in Seq(Item) /\ status \in Nat
      /\ main.film \in 1 .. Len(Playlist)
      /\ PlayerTyped
  BY DEF CountInv, PlayerTyped, ProgramTyped
<1>2. Asked /\ InOrder /\ Told /\ Seen
  BY DEF SaveInv
<1>3. UNCHANGED <<prog, main, hands, judged>>
  BY DEF progVars
<1>4. PICK f : f = TheFilm
  OBVIOUS
<1>5. TheFilm' = f /\ f \in Films
  BY <1>1, <1>3, <1>4, MovieAssumption, ElementOfSeq DEF TheFilm
<1>6. /\ cmds # <<>> /\ pc = "wait" /\ pool' = pool
      /\ cmds = StartThenBind(f) \/ cmds = OnlyBind
  BY <1>2, <1>4 DEF ObeyCommand, Asked
<1>7. ~Over /\ status = 0 /\ main.at = "first" /\ ff.frameNum = 0
  BY <1>1, <1>2, <1>6 DEF Over, Told, Asked
<1>8. ASSUME NEW t \in Fields, NEW e, e = <<>>, Becomes(t, e), t.triage["out"] = 0, t.frameNum = 0
      PROVE  Seen' /\ ff' = [t EXCEPT !.ends = 0]
  <2>1. e \in Seq(Image) /\ Len(e) <= 1 /\ Len(e) = 0
    BY <1>8, Sent
  <2>2. /\ ff' = [t EXCEPT !.ends = 0] /\ Grown(out, out', e)
        /\ Len(out') = Len(out) + Len(e)
    BY <1>1, <1>8, <2>1, Became
  <2>3. PICK r : r = out'
    OBVIOUS
  <2>4. Inside(r) = Inside(out) \cup Inside(e)
    BY <1>1, <2>1, <2>2, <2>3, InsideGrown
  <2>5. Inside(e) = {}
    BY <1>8, EmptySeq DEF Inside
  <2>6. Inside(out') = Inside(out)
    BY <2>3, <2>4, <2>5
  <2>7. ff'.frameNum = ff.frameNum
    BY <1>7, <1>8, <2>2 DEF Fields
  <2>8. QED
    BY <1>2, <1>3, <1>4, <1>5, <2>2, <2>6, <2>7 DEF Seen
<1>9. CASE cmds = StartThenBind(f)
  <2>1. /\ Len(Head(cmds)) = 2 /\ Head(Head(cmds)) = Cmd("/start", f)
        /\ [cmds EXCEPT ![1] = Tail(Head(cmds))] = OnlyBind
    BY <1>9, TwoMessages
  <2>2. cmds' = OnlyBind /\ pc' = "wait" /\ Becomes(Decode(ff, Cmd("/start", f)), <<>>)
    BY <1>6, <2>1 DEF ObeyCommand
  <2>3. PICK t : t = StartMovie(ff, f)
    OBVIOUS
  <2>4. ~ff.opened /\ ~ff.hasClosed /\ ff.triage["status"] = 0 /\ ff.triage["out"] = 0
    BY <1>2, <1>4, <1>9 DEF Asked, CountInv, NoMarks
  <2>5. /\ t \in Fields /\ t.film = f /\ t.opened = Opens(f) /\ ~t.hasClosed
        /\ t.opened => t.next = 0 /\ t.frameLength \in {0, Frames[f]}
        /\ t.triage = ff.triage /\ t.frameNum = 0
    BY <1>1, <1>5, <1>7, <2>3, <2>4, StartMade
  <2>6. PICK e : e = <<>> /\ Becomes(t, e)
    <3>1. Decode(ff, Cmd("/start", f)) = t
      BY <2>3 DEF Decode, Cmd
    <3>2. QED
      BY <2>2, <3>1
  <2>7. Seen' /\ ff' = [t EXCEPT !.ends = 0]
    BY <1>8, <2>4, <2>5, <2>6
  <2>8. /\ ff'.film = f /\ ff'.opened = Opens(f) /\ ~ff'.hasClosed /\ ff'.frameNum = 0
        /\ ff'.opened => ff'.next = 0 /\ ff'.frameLength \in {0, Frames[f]}
    BY <2>5, <2>7 DEF Fields
  <2>9. status' = 0
    <3>1. t.ends \in Nat /\ t.triage["status"] = 0
      BY <2>4, <2>5 DEF Fields
    <3>2. status' = status + t.ends * t.triage["status"]
      BY <2>6 DEF Becomes
    <3>3. QED
      BY <1>7, <3>1, <3>2
  <2>10. Asked'
    <3>1. OnlyBind # StartThenBind(f) /\ OnlyBind # <<>>
      BY TwoMessages
    <3>2. OnlyBind' = OnlyBind /\ StartThenBind(TheFilm)' = StartThenBind(f)
      BY <1>5 DEF OnlyBind, StartThenBind
    <3>3. QED
      BY <2>2, <2>8, <3>1, <3>2 DEF Asked
  <2>11. InOrder'
    <3>1. ff'.opened => Opens(f) /\ Frames[f] \in Nat
      BY <2>8, MovieAssumption DEF Opens
    <3>2. QED
      BY <1>5, <2>2, <2>8, <3>1 DEF InOrder
  <2>12. Told'
    BY <1>3, <1>6, <1>7, <2>9 DEF Told
  <2>13. QED
    BY <2>7, <2>10, <2>11, <2>12
<1>10. CASE cmds = OnlyBind
  <2>1. Len(Head(cmds)) = 1 /\ Head(Head(cmds)) = Cmd("/defevent", "status") /\ Tail(cmds) = <<>>
    BY <1>10, TwoMessages
  <2>2. cmds' = <<>> /\ pc' = "poll" /\ Becomes(Decode(ff, Cmd("/defevent", "status")), <<>>)
    <3>1. ~(Len(Head(cmds)) > 1)
      <4>1. PICK n : n = Len(Head(cmds))
        OBVIOUS
      <4>2. n = 1
        BY <2>1, <4>1, Zenon
      <4>3. ~(n > 1)
        BY <4>2
      <4>4. QED
        BY <4>1, <4>3, Zenon
    <3>2. cmds' = Tail(cmds) /\ pc' = (IF pc = "wait" THEN "poll" ELSE pc)
      BY <3>1 DEF ObeyCommand
    <3>3. QED
      BY <1>6, <2>1, <3>2 DEF ObeyCommand
  <2>3. PICK g : g = [ff.triage EXCEPT !["status"] = @ + 1]
    OBVIOUS
  <2>4. g \in [Ports -> Nat] /\ g["out"] = 0
    BY <1>1, <2>3 DEF Fields, Ports, CountInv, NoMarks
  <2>5. PICK t : t = [ff EXCEPT !.triage = g]
    OBVIOUS
  <2>6. /\ t \in Fields /\ t.opened = ff.opened /\ t.film = ff.film /\ t.hasClosed = ff.hasClosed
        /\ t.next = ff.next /\ t.frameNum = ff.frameNum /\ t.frameLength = ff.frameLength
        /\ t.ends = 0 /\ t.triage = g
    BY <1>1, <2>4, <2>5 DEF Fields
  <2>7. PICK e : e = <<>> /\ Becomes(t, e)
    <3>1. Decode(ff, Cmd("/defevent", "status")) = t
      BY <2>3, <2>5 DEF Decode, Cmd
    <3>2. QED
      BY <2>2, <3>1
  <2>8. Seen' /\ ff' = [t EXCEPT !.ends = 0]
    BY <1>7, <1>8, <2>4, <2>6, <2>7
  <2>9. /\ ff'.opened = ff.opened /\ ff'.film = ff.film /\ ff'.hasClosed = ff.hasClosed
        /\ ff'.next = ff.next /\ ff'.frameNum = ff.frameNum /\ ff'.frameLength = ff.frameLength
    BY <2>6, <2>8 DEF Fields
  <2>10. status' = 0
    <3>1. g["status"] \in Nat
      BY <2>4 DEF Ports
    <3>2. status' = status + t.ends * t.triage["status"]
      BY <2>7 DEF Becomes
    <3>3. QED
      BY <1>7, <2>6, <3>1, <3>2
  <2>11. Asked'
    <3>1. OnlyBind # <<>> /\ StartThenBind(f) # <<>>
      BY TwoMessages
    <3>2. OnlyBind' = OnlyBind /\ StartThenBind(TheFilm)' = StartThenBind(f)
      BY <1>5 DEF OnlyBind, StartThenBind
    <3>3. QED
      BY <2>2, <3>1, <3>2 DEF Asked
  <2>12. InOrder'
    BY <1>2, <1>4, <1>5, <1>6, <2>2, <2>9 DEF InOrder
  <2>13. Told'
    BY <1>3, <1>6, <1>7, <2>10 DEF Told
  <2>14. QED
    BY <2>8, <2>11, <2>12, <2>13
<1>11. QED
  BY <1>6, <1>9, <1>10

\* The player plays the film in order: after frame k comes the image k, then
\* frame k + 1; it says "end" after the last one.
LEMMA SavePlays ==
    ASSUME CountInv, SaveInv, prog = "saveMovie", FfmpegStep, UNCHANGED progVars
    PROVE  Asked' /\ InOrder' /\ Told' /\ Seen'
<1>1. /\ ff \in Fields /\ ff.ends = 0 /\ out \in Seq(Item) /\ status \in Nat /\ pool \in Nat
      /\ main.film \in 1 .. Len(Playlist)
      /\ PlayerTyped
  BY DEF CountInv, PlayerTyped, ProgramTyped
<1>2. Asked /\ InOrder /\ Told /\ Seen
  BY DEF SaveInv
<1>3. UNCHANGED <<prog, main, hands, judged>>
  BY DEF progVars
<1>4. PICK f : f = TheFilm
  OBVIOUS
<1>5. TheFilm' = f /\ f \in Films
  BY <1>1, <1>3, <1>4, MovieAssumption, ElementOfSeq DEF TheFilm
<1>6. Frames[f] \in Nat /\ ff.frameNum \in Nat /\ ff.next \in Nat
  BY <1>1, <1>5, MovieAssumption DEF Fields
<1>7. /\ StartThenBind(TheFilm)' = StartThenBind(f) /\ OnlyBind' = OnlyBind
      /\ OnlyBind # <<>> /\ StartThenBind(f) # <<>> /\ StartThenBind(f) # OnlyBind
  BY <1>5, TwoMessages DEF OnlyBind, StartThenBind
<1>8. CASE Begin
  <2>1. UNCHANGED <<ff, cmds, pool, out, status>> /\ pc = "top"
        /\ pc' = IF ff.opened /\ ~ff.paused THEN "poll" ELSE "wait"
    BY <1>8 DEF Begin
  <2>2. Asked'
    BY <1>2, <1>4, <1>7, <2>1 DEF Asked
  <2>3. InOrder'
    BY <1>2, <1>4, <1>5, <2>1 DEF InOrder
  <2>4. Told' /\ Seen'
    BY <1>2, <1>3, <1>4, <1>5, <2>1 DEF Told, Seen, Over
  <2>5. QED
    BY <2>2, <2>3, <2>4
<1>9. CASE NothingToPlay
  <2>1. UNCHANGED <<ff, cmds, pool, out, status>> /\ pc = "poll" /\ pc' = "top"
    BY <1>9 DEF NothingToPlay
  <2>2. Asked'
    BY <1>2, <1>4, <1>7, <2>1 DEF Asked
  <2>3. InOrder'
    BY <1>2, <1>4, <1>5, <2>1 DEF InOrder
  <2>4. Told' /\ Seen'
    BY <1>2, <1>3, <1>4, <1>5, <2>1 DEF Told, Seen, Over
  <2>5. QED
    BY <2>2, <2>3, <2>4
<1>10. CASE DecodeFrame
  <2>1. pc = "poll" /\ cmds = <<>> /\ ff.opened /\ UNCHANGED <<cmds, pool>>
    BY <1>10 DEF DecodeFrame
  <2>2. ~Over /\ status = 0 /\ main.at = "first"
    BY <1>1, <1>2, <2>1 DEF Over, Told
  <2>3. /\ ff.film = f /\ Opens(f) /\ ~ff.hasClosed /\ ff.frameLength \in {0, Frames[f]}
        /\ ff.frameNum <= Frames[f] /\ ff.next = ff.frameNum
    BY <1>2, <1>4, <2>1 DEF InOrder
  <2>4. Asked'
    BY <1>7, <2>1 DEF Asked
  <2>5. CASE /\ ff.next < Frames[ff.film]
             /\ ff' = [ff EXCEPT !.frame = [film |-> ff.film, at |-> ff.next], !.next = @ + 1]
             /\ pc' = "pop"
             /\ UNCHANGED <<out, status>>
    <3>1. PICK b : b = [film |-> ff.film, at |-> ff.next]
      OBVIOUS
    <3>2. ff' = [ff EXCEPT !.frame = b, !.next = ff.next + 1]
      BY <2>5, <3>1
    <3>3. /\ ff'.opened = ff.opened /\ ff'.film = ff.film /\ ff'.hasClosed = ff.hasClosed
          /\ ff'.frameLength = ff.frameLength /\ ff'.frameNum = ff.frameNum
          /\ ff'.frame = b /\ ff'.next = ff.next + 1
      BY <1>1, <3>2 DEF Fields
    <3>4. b = [film |-> f, at |-> ff.frameNum]
      BY <2>3, <3>1
    <3>5. InOrder'
      BY <1>5, <1>6, <2>1, <2>3, <2>5, <3>3, <3>4 DEF InOrder
    <3>6. Told'
      BY <1>3, <2>2, <2>5 DEF Told
    <3>7. Seen'
      BY <1>2, <1>3, <1>4, <1>5, <2>5, <3>3 DEF Seen
    <3>8. QED
      BY <2>4, <3>5, <3>6, <3>7
  <2>6. CASE /\ ff.next >= Frames[ff.film]
             /\ Becomes(StopMovie(ff), <<>>)
             /\ pc' = "top"
    <3>1. PICK t : t = StopMovie(ff)
      OBVIOUS
    <3>2. /\ t \in Fields /\ ~t.opened /\ t.frameNum = ff.frameNum /\ t.triage = ff.triage
      BY <1>1, <2>1, <3>1, StopMade
    <3>3. PICK e : e = <<>> /\ Becomes(t, e)
      BY <2>6, <3>1
    <3>4. e \in Seq(Image) /\ Len(e) <= 1 /\ Len(e) = 0
      BY <3>3, Sent
    <3>5. t.triage["out"] = 0
      BY <3>2 DEF CountInv, NoMarks
    <3>6. /\ ff' = [t EXCEPT !.ends = 0] /\ Grown(out, out', e)
          /\ Len(out') = Len(out) + Len(e)
      BY <1>1, <3>2, <3>3, <3>4, <3>5, Became
    <3>7. ~ff'.opened /\ ff'.frameNum = ff.frameNum
      BY <3>2, <3>6 DEF Fields
    <3>8. PICK r : r = out'
      OBVIOUS
    <3>9. Inside(r) = Inside(out) \cup Inside(e) /\ Inside(e) = {}
      <4>1. Inside(r) = Inside(out) \cup Inside(e)
        BY <1>1, <3>4, <3>6, <3>8, InsideGrown
      <4>2. Inside(e) = {}
        BY <3>3, EmptySeq DEF Inside
      <4>3. QED
        BY <4>1, <4>2
    <3>10. Inside(out') = Inside(out)
      BY <3>8, <3>9
    <3>11. Seen'
      BY <1>2, <1>3, <1>4, <1>5, <3>7, <3>10 DEF Seen
    <3>12. InOrder'
      BY <2>6, <3>7 DEF InOrder
    <3>13. ff.frameNum = Frames[f]
      BY <1>6, <2>3, <2>6
    <3>14. Over'
      BY <1>5, <2>1, <3>7, <3>13 DEF Over
    <3>15. Told'
      BY <1>3, <2>2, <3>14 DEF Told
    <3>16. QED
      BY <2>4, <3>11, <3>12, <3>15
  <2>7. ~(ff.next >= Frames[ff.film] /\ ff.frameNum = 0)
    <3>1. Frames[f] > 0
      BY <2>3 DEF Opens
    <3>2. QED
      BY <1>6, <2>3, <3>1
  <2>8. QED
    BY <1>10, <2>5, <2>6, <2>7 DEF DecodeFrame
<1>11. CASE SendImage
  <2>1. /\ pc = "pop" /\ cmds = <<>> /\ pool > 0 /\ ff.opened /\ ~ff.hasClosed
        /\ pool' = pool - 1 /\ pc' = "top" /\ cmds' = cmds
    BY <1>11 DEF SendImage
  <2>2. ~Over /\ status = 0 /\ main.at = "first"
    BY <1>1, <1>2, <2>1 DEF Over, Told
  <2>3. /\ ff.film = f /\ Opens(f) /\ ff.frameLength \in {0, Frames[f]}
        /\ ff.frameNum < Frames[f] /\ ff.next = ff.frameNum + 1
        /\ ff.frame = [film |-> f, at |-> ff.frameNum]
    BY <1>2, <1>4, <2>1 DEF InOrder
  <2>4. Asked'
    BY <1>7, <2>1 DEF Asked
  <2>5. PICK image : image = [n |-> ff.frameNum, film |-> ff.frame.film, at |-> ff.frame.at]
    OBVIOUS
  <2>6. image = Named(f, ff.frameNum)
    BY <2>3, <2>5 DEF Named
  <2>7. image \in Image
    BY <1>5, <1>6, <2>6 DEF Named, Image
  <2>8. PICK s : s = [ff EXCEPT !.frameNum = @ + 1]
    OBVIOUS
  <2>9. s = [ff EXCEPT !.frameNum = ff.frameNum + 1] /\ ff.frameNum + 1 \in Nat
    BY <1>1, <1>6, <2>8 DEF Fields
  <2>10. /\ s \in Fields /\ s.opened = ff.opened /\ s.film = ff.film /\ s.hasClosed = ff.hasClosed
         /\ s.next = ff.next /\ s.frameNum = ff.frameNum + 1 /\ s.frameLength = ff.frameLength
         /\ s.triage = ff.triage /\ s.ends = 0
    BY <1>1, <2>9 DEF Fields
  <2>11. ~(s.frameLength > 0 /\ s.frameNum > s.frameLength)
    BY <1>6, <2>3, <2>10
  <2>12. PICK e : e = <<image>>
    OBVIOUS
  <2>13. Becomes(s, e)
    BY <1>11, <2>5, <2>8, <2>11, <2>12 DEF SendImage
  <2>14. e \in Seq(Image) /\ Len(e) = 1 /\ Len(e) <= 1 /\ Inside(e) = {image}
    <3>1. e \in Seq(Image) /\ Len(e) = 1 /\ Len(e) <= 1
      BY <2>7, <2>12, Sent
    <3>2. Inside(e) = {image}
      BY <2>12 DEF Inside
    <3>3. QED
      BY <3>1, <3>2
  <2>15. s.triage["out"] = 0
    BY <2>10 DEF CountInv, NoMarks
  <2>16. /\ ff' = [s EXCEPT !.ends = 0] /\ Grown(out, out', e)
         /\ Len(out') = Len(out) + Len(e)
    BY <1>1, <2>10, <2>13, <2>14, <2>15, Became
  <2>17. /\ ff'.opened = ff.opened /\ ff'.film = ff.film /\ ff'.hasClosed = ff.hasClosed
         /\ ff'.next = ff.next /\ ff'.frameNum = ff.frameNum + 1 /\ ff'.frameLength = ff.frameLength
    BY <2>10, <2>16 DEF Fields
  <2>18. PICK r : r = out'
    OBVIOUS
  <2>19. Inside(r) = Inside(out) \cup Inside(e)
    BY <1>1, <2>14, <2>16, <2>18, InsideGrown
  <2>20. Inside(out') = Inside(out) \cup {Named(f, ff.frameNum)}
    BY <2>6, <2>14, <2>18, <2>19
  <2>21. Seen'
    <3>1. judged \cup Inside(out) \cup ({hands["K"]} \ {NoImage})
            = {Named(f, k) : k \in 0 .. ff.frameNum - 1}
      BY <1>2, <1>4 DEF Seen
    <3>2. {Named(f, k) : k \in 0 .. (ff.frameNum + 1) - 1}
            = {Named(f, k) : k \in 0 .. ff.frameNum - 1} \cup {Named(f, ff.frameNum)}
      BY <1>6, OneMore
    <3>3. judged' \cup Inside(out') \cup ({hands'["K"]} \ {NoImage})
            = {Named(f, k) : k \in 0 .. (ff.frameNum + 1) - 1}
      BY <1>3, <2>20, <3>1, <3>2
    <3>4. QED
      BY <1>5, <2>17, <3>3 DEF Seen
  <2>22. InOrder'
    BY <1>5, <1>6, <2>1, <2>3, <2>17 DEF InOrder
  <2>23. status' = 0
    <3>1. s.triage["status"] \in Nat
      BY <2>10 DEF Fields, Ports
    <3>2. status' = status + s.ends * s.triage["status"]
      BY <2>13 DEF Becomes
    <3>3. QED
      BY <2>2, <2>10, <3>1, <3>2
  <2>24. Told'
    BY <1>3, <2>2, <2>23 DEF Told
  <2>25. QED
    BY <2>4, <2>21, <2>22, <2>24
<1>12. CASE DropImage
  <2>1. pc = "pop" /\ (~ff.opened \/ ff.hasClosed)
    BY <1>12 DEF DropImage
  <2>2. ff.opened /\ ~ff.hasClosed
    BY <1>2, <2>1 DEF InOrder
  <2>3. QED
    BY <1>1, <2>1, <2>2 DEF Fields
<1>13. QED
  BY <1>8, <1>9, <1>10, <1>11, <1>12, SaveObeys DEF FfmpegStep

\* The skipper: what it takes, it has judged when its hands are empty again.
LEMMA SaveSkips ==
    ASSUME CountInv, SaveInv, prog = "saveMovie", Skipper
    PROVE  SaveInv'
<1>1. /\ hands \in [Workers -> Image \cup {NoImage}] /\ save \in Seq(Image) /\ out \in Seq(Item)
      /\ "K" \in Workers /\ Savers \subseteq Workers /\ "K" \notin Savers
  BY DEF CountInv, PlayerTyped, ProgramTyped, Workers, Savers
<1>2. Asked /\ InOrder /\ Told /\ Seen /\ Kept
  BY DEF SaveInv
<1>3. UNCHANGED <<ff, pc, cmds, status, main, prog>>
  BY DEF Skipper, SkipTakes, SkipJudges
<1>4. TheFilm' = TheFilm
  BY <1>3 DEF TheFilm
<1>5. Asked' /\ InOrder'
  BY <1>2, <1>3, <1>4 DEF Asked, InOrder, StartThenBind, OnlyBind
<1>6. CASE SkipTakes
  <2>1. /\ hands["K"] = NoImage /\ out # <<>> /\ out' = Tail(out)
        /\ hands' = [hands EXCEPT !["K"] = Head(out)]
        /\ UNCHANGED <<pool, save, judged, passed, written>>
    BY <1>6 DEF SkipTakes
  <2>2. Inside(out) = {Head(out)} \cup Inside(Tail(out))
    BY <1>1, <2>1, InsideTail
  <2>3. Head(out) # NoImage
    <3>1. Head(out) \in Item /\ Head(out) = out[1] /\ 1 \in DOMAIN out
      BY <1>1, <2>1, HeadTailProperties, LenProperties, EmptySeq
    <3>2. Head(out) # MovieDone
      BY <3>1 DEF CountInv, NoMarks
    <3>3. QED
      BY <3>1, <3>2, CountParts DEF Item
  <2>4. hands'["K"] = Head(out) /\ InHands(hands') = InHands(hands)
    BY <1>1, <2>1 DEF InHands
  <2>5. Seen'
    BY <1>2, <1>3, <1>4, <2>1, <2>2, <2>3, <2>4 DEF Seen
  <2>6. Told' /\ Kept'
    BY <1>2, <1>3, <1>4, <2>1, <2>4 DEF Told, Kept, Over
  <2>7. QED
    BY <1>5, <2>5, <2>6 DEF SaveInv
<1>7. CASE SkipJudges
  <2>1. PICK i : i = hands["K"]
    OBVIOUS
  <2>2. /\ i # NoImage /\ hands' = [hands EXCEPT !["K"] = NoImage]
        /\ judged' = judged \cup {i}
        /\ \/ save' = Append(save, i) /\ passed' = passed \cup {i} /\ pool' = pool
           \/ pool' = pool + 1 /\ save' = save /\ passed' = passed
        /\ UNCHANGED <<out, written>>
    BY <1>7, <2>1 DEF SkipJudges
  <2>3. i \in Image
    BY <1>1, <2>1, <2>2
  <2>4. hands'["K"] = NoImage /\ InHands(hands') = InHands(hands)
    BY <1>1, <2>2 DEF InHands
  <2>5. Seen'
    BY <1>2, <1>3, <1>4, <2>1, <2>2, <2>4 DEF Seen
  <2>6. main.at # "quit"
    BY <1>1, <1>2, <2>1, <2>2, AllBack DEF Told
  <2>7. Told'
    BY <1>2, <1>3, <1>4, <2>6 DEF Told, Over
  <2>8. Kept'
    <3>1. CASE save' = Append(save, i) /\ passed' = passed \cup {i}
      <4>1. Inside(save') = Inside(save) \cup {i}
        BY <1>1, <2>3, <3>1, InsideAppend
      <4>2. QED
        BY <1>2, <2>2, <2>4, <3>1, <4>1 DEF Kept
    <3>2. CASE save' = save /\ passed' = passed
      BY <1>2, <2>2, <2>4, <3>2 DEF Kept
    <3>3. QED
      BY <2>2, <3>1, <3>2
  <2>9. QED
    BY <1>5, <2>5, <2>7, <2>8 DEF SaveInv
<1>8. QED
  BY <1>6, <1>7 DEF Skipper

\* The savers: no image is written over another, as each has its own number.
LEMMA SaveWrites ==
    ASSUME CountInv, SaveInv, prog = "saveMovie", NEW s \in Savers, Saver(s)
    PROVE  SaveInv'
<1>1. /\ hands \in [Workers -> Image \cup {NoImage}] /\ save \in Seq(Image)
      /\ s \in Workers /\ "K" # s /\ "K" \in Workers
  BY DEF CountInv, ProgramTyped, Workers, Savers
<1>2. Asked /\ InOrder /\ Told /\ Seen /\ Kept
  BY DEF SaveInv
<1>3. UNCHANGED <<ff, pc, cmds, out, pool, status, main, prog, judged, passed>>
  BY DEF Saver, SaverTakes, SaverWrites, ffmpegVars
<1>4. TheFilm' = TheFilm
  BY <1>3 DEF TheFilm
<1>5. Asked' /\ InOrder' /\ Told'
  BY <1>2, <1>3, <1>4 DEF Asked, InOrder, Told, Over, StartThenBind, OnlyBind
<1>6. PICK g : g = hands'
  OBVIOUS
<1>7. hands'["K"] = hands["K"]
  BY <1>1 DEF Saver, SaverTakes, SaverWrites
<1>8. Seen'
  BY <1>2, <1>3, <1>4, <1>7 DEF Seen
<1>9. CASE SaverTakes(s)
  <2>1. /\ hands[s] = NoImage /\ save # <<>>
        /\ g = [hands EXCEPT ![s] = Head(save)]
        /\ save' = Tail(save) /\ written' = written
    BY <1>6, <1>9 DEF SaverTakes
  <2>2. Inside(save) = {Head(save)} \cup Inside(Tail(save))
    BY <1>1, <2>1, InsideTail
  <2>3. Head(save) # NoImage
    BY <1>1, <2>1, HeadTailProperties, CountParts
  <2>4. InHands(g) = InHands(hands) \cup {Head(save)}
    BY <1>1, <2>1, <2>3, InHandsFill
  <2>5. Kept'
    BY <1>2, <1>3, <1>6, <2>1, <2>2, <2>4 DEF Kept
  <2>6. QED
    BY <1>5, <1>8, <2>5 DEF SaveInv
<1>10. CASE SaverWrites(s)
  <2>1. PICK i : i = hands[s]
    OBVIOUS
  <2>2. /\ i # NoImage /\ written' = {j \in written : j.n # i.n} \cup {i}
        /\ g = [hands EXCEPT ![s] = NoImage] /\ save' = save
    BY <1>6, <1>10, <2>1 DEF SaverWrites
  <2>3. InHands(hands) = InHands(g) \cup {i}
    BY <1>1, <2>1, <2>2, InHandsEmpty
  <2>4. passed = written \cup Inside(save) \cup InHands(hands) /\ passed \subseteq judged
    BY <1>2 DEF Kept
  <2>5. \A j \in judged : \E k : j = Named(TheFilm, k)
    BY <1>2 DEF Seen
  <2>6. PICK k : i = Named(TheFilm, k)
    BY <2>3, <2>4, <2>5
  <2>7. ASSUME NEW j \in written, j.n = i.n
        PROVE  j = i
    <3>1. PICK l : j = Named(TheFilm, l)
      BY <2>4, <2>5
    <3>2. l = k
      BY <2>6, <2>7, <3>1 DEF Named
    <3>3. QED
      BY <2>6, <3>1, <3>2
  <2>8. written' = written \cup {i}
    BY <2>2, <2>7
  <2>9. Kept'
    BY <1>2, <1>3, <1>6, <2>2, <2>3, <2>4, <2>8 DEF Kept
  <2>10. QED
    BY <1>5, <1>8, <2>9 DEF SaveInv
<1>11. QED
  BY <1>9, <1>10 DEF Saver

\* saveMovie's main thread goes on when "end" came, and when all images are back.
LEMMA SaveStep ==
    ASSUME CountInv, SaveInv, [Next]_vars
    PROVE  SaveInv'
<1>1. prog' = prog
  BY DEF Next, Player, progVars, Show, Extract, FirstPass, FirstPassDone, SecondPassSkip, SecondPassKeep,
         SecondPassDone, Skipper, SkipTakes, SkipJudges, Saver, SaverTakes, SaverWrites, SaveMain,
         PlayMain, StartFilm, FilmDone, DripSends, KeyN, AnyoneSends, vars, ffmpegVars
<1>2. CASE prog # "saveMovie"
  BY <1>1, <1>2 DEF SaveInv
<1> SUFFICES ASSUME prog = "saveMovie" PROVE SaveInv'
  BY <1>2
<1>3. Asked /\ InOrder /\ Told /\ Seen /\ Kept
  BY DEF SaveInv
<1>4. CASE UNCHANGED vars
  <2>1. UNCHANGED <<ff, pc, cmds, pool, out, status, prog, main, hands, save, judged, passed, written>>
    BY <1>4 DEF vars, ffmpegVars, progVars
  <2>2. TheFilm' = TheFilm
    BY <2>1 DEF TheFilm
  <2>3. Asked' /\ InOrder' /\ Told' /\ Seen' /\ Kept'
    BY <1>3, <2>1, <2>2 DEF Asked, InOrder, Told, Over, Seen, Kept, StartThenBind, OnlyBind
  <2>4. QED
    BY <2>3 DEF SaveInv
<1>5. CASE Player
  <2>1. Asked' /\ InOrder' /\ Told' /\ Seen'
    BY <1>5, SavePlays DEF Player
  <2>2. UNCHANGED <<hands, save, judged, passed, written>>
    BY <1>5 DEF Player, progVars
  <2>3. Kept'
    BY <1>3, <2>2 DEF Kept
  <2>4. QED
    BY <2>1, <2>3 DEF SaveInv
<1>6. CASE Show
  <2>1. /\ display > 0
        /\ UNCHANGED <<ff, pc, cmds, out, status, prog, main, hands, save, judged, passed, written>>
    BY <1>6 DEF Show
  <2>2. main.at # "quit"
    BY <1>3, <2>1, AllBack DEF Told
  <2>3. TheFilm' = TheFilm
    BY <2>1 DEF TheFilm
  <2>4. Asked' /\ InOrder' /\ Told' /\ Seen' /\ Kept'
    BY <1>3, <2>1, <2>2, <2>3 DEF Asked, InOrder, Told, Over, Seen, Kept, StartThenBind, OnlyBind
  <2>5. QED
    BY <2>4 DEF SaveInv
<1>7. CASE SaveMain
  <2>1. /\ UNCHANGED <<ff, pc, cmds, pool, out, status, prog, hands, save, judged, passed, written>>
        /\ \/ main.at = "first" /\ status > 0 /\ main' = [main EXCEPT !.at = "drain"]
           \/ main.at = "drain" /\ pool = PoolSize /\ main' = [main EXCEPT !.at = "quit"]
    BY <1>7 DEF SaveMain, ffmpegVars
  <2>2. main'.film = main.film /\ main'.at \in {"drain", "quit"} /\ (main'.at = "quit" => pool = PoolSize)
    BY <2>1 DEF CountInv, ProgramTyped
  <2>3. TheFilm' = TheFilm
    BY <2>2 DEF TheFilm
  <2>4. Over
    BY <1>3, <2>1 DEF Told
  <2>5. Over'
    BY <2>1, <2>3, <2>4 DEF Over
  <2>6. Told'
    BY <2>1, <2>2, <2>5 DEF Told
  <2>7. Asked' /\ InOrder' /\ Seen' /\ Kept'
    BY <1>3, <2>1, <2>3 DEF Asked, InOrder, Seen, Kept, StartThenBind, OnlyBind
  <2>8. QED
    BY <2>6, <2>7 DEF SaveInv
<1>8. CASE Skipper
  BY <1>8, SaveSkips
<1>9. CASE \E s \in Savers : Saver(s)
  BY <1>9, SaveWrites
<1>10. ~Extract /\ ~PlayMain /\ ~DripSends /\ ~KeyN /\ ~AnyoneSends
  BY DEF Extract, FirstPass, FirstPassDone, SecondPassSkip, SecondPassKeep, SecondPassDone, AtHead,
         PlayMain, StartFilm, FilmDone, DripSends, KeyN, AnyoneSends
<1>11. QED
  BY <1>4, <1>5, <1>6, <1>7, <1>8, <1>9, <1>10 DEF Next

\* When saveMovie quits, the skipper has judged every frame of the film, and each
\* image that it passed on is in a file of its own: the main thread first waits
\* for "end", then until the pool is full again; only then nobody holds an image.
THEOREM NoneLeftBehind == Spec => []SavedBeforeQuit
<1>1. Init => SaveInv
  BY SaveStart
<1>2. CountInv /\ SaveInv /\ [Next]_vars => SaveInv'
  BY SaveStep
<1>3. CountInv /\ SaveInv => SavedBeforeQuit
  <2> SUFFICES ASSUME CountInv, SaveInv, prog = "saveMovie", main.at = "quit"
               PROVE  /\ {i.at : i \in judged} = 0 .. Frames[Playlist[main.film]] - 1
                      /\ written = passed
    BY DEF SavedBeforeQuit
  <2>1. Told /\ Seen /\ Kept
    BY DEF SaveInv
  <2>2. pool = PoolSize /\ Over
    BY <2>1 DEF Told
  <2>3. /\ out = <<>> /\ save = <<>> /\ \A w \in Workers : hands[w] = NoImage
    BY <2>2, AllBack
  <2>4. Inside(<<>>) = {} /\ InHands(hands) = {} /\ hands["K"] = NoImage
    <3>1. Inside(<<>>) = {}
      BY EmptySeq DEF Inside
    <3>2. Savers \subseteq Workers /\ "K" \in Workers
      BY DEF Workers
    <3>3. InHands(hands) = {}
      BY <2>3, <3>2 DEF InHands
    <3>4. QED
      BY <2>3, <3>1, <3>2, <3>3
  <2>5. written = passed
    BY <2>1, <2>3, <2>4 DEF Kept
  <2>6. judged = {Named(TheFilm, k) : k \in 0 .. Frames[TheFilm] - 1}
    BY <2>1, <2>2, <2>3, <2>4 DEF Seen, Over
  <2>7. \A k : Named(TheFilm, k).at = k
    BY DEF Named
  <2>8. {i.at : i \in judged} = 0 .. Frames[TheFilm] - 1
    BY <2>6, <2>7
  <2>9. QED
    BY <2>5, <2>8 DEF TheFilm
<1>4. QED
  BY <1>1, <1>2, <1>3, CountInvariance, PTL DEF Spec
=============================================================================
