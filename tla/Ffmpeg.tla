------------------------------- MODULE Ffmpeg -------------------------------
(* pluginFfmpeg: the thread that decodes a movie into the images of a pool,  *)
(* under commands that may come at any moment, also while it waits for an    *)
(* image. A frame is its film and its position: what an image shows (film,   *)
(* at) and how it is numbered (n) are different things.                      *)
(*                                                                           *)
(* The places of a turn of loop():                                           *)
(*   top   before the test isOpened / paused                                 *)
(*   wait  in pop_front_ctrl_wait, no movie or a pause                       *)
(*   poll  in pop_front_ctrl_nowait, before a frame is decoded               *)
(*   pop   in pop_front_wait, a frame is decoded and needs an image          *)
EXTENDS Integers, Sequences

CONSTANTS
    Films,      \* file names
    NoFilm,     \* the empty file name
    Frames,     \* [Films -> number of frames], 0 for a file that does not open
    Counted,    \* the files that tell how many frames they have
    PoolSize    \* images given to the pool

VARIABLES
    ff,         \* the fields of the plugin
    pc,         \* place in loop()
    cmds,       \* control lane of Q_IN: messages, each a sequence of commands
    pool,       \* number of empty images in Q_IN
    out,        \* queue at Q_OUT: images and messages
    status      \* number of messages in the queue of the "end" event

ffmpegVars == <<ff, pc, cmds, pool, out, status>>

Image == [n : Nat, film : Films \cup {NoFilm}, at : Nat]
MovieDone == [n |-> -1, film |-> NoFilm, at |-> 0]     \* the "end" message in out
Blank == [film |-> NoFilm, at |-> 0]

Ports == {"out", "status"}      \* where a binding of the "end" event may lead

InitPlayer ==
    [opened |-> FALSE, hasClosed |-> FALSE, paused |-> FALSE, film |-> NoFilm,
     next |-> 0, frame |-> Blank, frameNum |-> 0, frameLength |-> 0,
     triage |-> [port \in Ports |-> 0], ends |-> 0]

-----------------------------------------------------------------------------
(* Effects of the commands on the fields. "triage" counts the bindings of    *)
(* the "end" event by port, "ends" the events of this step.                  *)

End(s) == [s EXCEPT !.ends = @ + 1]

\* Mutated form of StopMovie: hasClosed is not set.
StopMovieNoMark(s) ==
    IF s.opened THEN End([s EXCEPT !.opened = FALSE, !.frame = Blank]) ELSE s

StopMovie(s) ==
    IF s.opened
    THEN End([s EXCEPT !.opened = FALSE, !.hasClosed = TRUE, !.frame = Blank])
    ELSE s

Opens(f) == f \in Films /\ Frames[f] > 0

RestartMovie(s) ==
    IF s.opened \/ ~Opens(s.film)
    THEN s
    ELSE [s EXCEPT !.opened = TRUE, !.next = 0, !.frame = Blank, !.frameNum = 0,
                   !.frameLength = IF s.film \in Counted THEN Frames[s.film] ELSE 0]

\* Mutated form of StartMovie: a film that does not open sends no "end".
StartMovieSilent(s, f) == RestartMovie([StopMovie(s) EXCEPT !.film = f])

StartMovie(s, f) ==
    LET t == RestartMovie([StopMovie(s) EXCEPT !.film = f])
    IN  IF t.opened THEN t ELSE End(t)

Rewind(s) ==
    IF s.opened THEN [s EXCEPT !.next = 0, !.frameNum = 0] ELSE RestartMovie(s)

SetLength(s, k) ==
    IF s.frameLength > s.frameNum + k
    THEN [s EXCEPT !.frameLength = s.frameNum + k] ELSE s

Decode(s, m) ==
    CASE m.cmd = "/start"      -> StartMovie(s, m.arg)
      [] m.cmd = "/stop"       -> StopMovie(s)
      [] m.cmd = "/pause"      -> [s EXCEPT !.paused = m.arg]
      [] m.cmd = "/toggle"     -> [s EXCEPT !.paused = ~@]
      [] m.cmd = "/rewind"     -> Rewind(s)
      [] m.cmd = "/seek"       -> [s EXCEPT !.next = m.arg]
      [] m.cmd = "/set/length" -> SetLength(s, m.arg)
      [] m.cmd = "/defevent"   -> [s EXCEPT !.triage[m.arg] = @ + 1]

\* The state after the fields became s and an image or nothing was sent: each
\* event goes through the bindings to the regular lane of out and to the status
\* queue.
Becomes(s, sent) ==
    /\ ff' = [s EXCEPT !.ends = 0]
    /\ out' = out \o sent \o [e \in 1 .. s.ends * s.triage["out"] |-> MovieDone]
    /\ status' = status + s.ends * s.triage["status"]

-----------------------------------------------------------------------------
\* The program puts its first messages into the queue before it starts the thread.
FfmpegInit(messages) ==
    /\ ff = InitPlayer
    /\ pc = "top"
    /\ cmds = messages
    /\ pool = PoolSize
    /\ out = <<>>
    /\ status = 0

Begin ==
    /\ pc = "top"
    /\ pc' = IF ff.opened /\ ~ff.paused THEN "poll" ELSE "wait"
    /\ UNCHANGED <<ff, cmds, pool, out, status>>

\* The next command of the first message, at any of the three pops; only a whole
\* message ends the wait. A /seek without a movie ends the program (av_seek_frame
\* gets the NULL that avformat_close_input leaves): no step here.
ObeyCommand ==
    /\ pc \in {"wait", "poll", "pop"}
    /\ cmds # <<>>
    /\ LET message == Head(cmds)
       IN  /\ Head(message).cmd = "/seek" => ff.opened
           /\ Becomes(Decode(ff, Head(message)), <<>>)
           /\ \/ /\ Len(message) > 1
                 /\ cmds' = [cmds EXCEPT ![1] = Tail(message)]
                 /\ pc' = pc
              \/ /\ Len(message) = 1
                 /\ cmds' = Tail(cmds)
                 /\ pc' = IF pc = "wait" THEN "poll" ELSE pc
    /\ UNCHANGED pool

NothingToPlay ==
    /\ pc = "poll" /\ cmds = <<>>
    /\ ~ff.opened \/ ff.paused
    /\ pc' = "top"
    /\ UNCHANGED <<ff, cmds, pool, out, status>>

\* GetNextFrameNew. A movie that ends before its first image is sent with what
\* the frame held.
DecodeFrame ==
    /\ pc = "poll" /\ cmds = <<>>
    /\ ff.opened /\ ~ff.paused
    /\ \/ /\ ff.next < Frames[ff.film]
          /\ ff' = [ff EXCEPT !.frame = [film |-> ff.film, at |-> ff.next], !.next = @ + 1]
          /\ pc' = "pop"
          /\ UNCHANGED <<out, status>>
       \/ /\ ff.next >= Frames[ff.film]
          /\ ff.frameNum > 0
          /\ Becomes(StopMovie(ff), <<>>)
          /\ pc' = "top"
       \/ /\ ff.next >= Frames[ff.film]
          /\ ff.frameNum = 0
          /\ pc' = "pop"
          /\ UNCHANGED <<ff, out, status>>
    /\ UNCHANGED <<cmds, pool>>

\* Mutated form of DropImage: the image is not recycled.
DropImageKeeps ==
    /\ pc = "pop" /\ cmds = <<>> /\ pool > 0
    /\ ~ff.opened \/ ff.hasClosed
    /\ ff' = [ff EXCEPT !.hasClosed = FALSE]
    /\ pool' = pool - 1
    /\ pc' = "top"
    /\ UNCHANGED <<cmds, out, status>>

\* The movie was closed while the thread waited for the image, or at any time
\* since the last image that was dropped here.
DropImage ==
    /\ pc = "pop" /\ cmds = <<>> /\ pool > 0
    /\ ~ff.opened \/ ff.hasClosed
    /\ ff' = [ff EXCEPT !.hasClosed = FALSE]
    /\ pc' = "top"
    /\ UNCHANGED <<cmds, pool, out, status>>

SendImage ==
    /\ pc = "pop" /\ cmds = <<>> /\ pool > 0
    /\ ff.opened /\ ~ff.hasClosed
    /\ LET image == [n |-> ff.frameNum, film |-> ff.frame.film, at |-> ff.frame.at]
           s == [ff EXCEPT !.frameNum = @ + 1]
       IN  Becomes(IF s.frameLength > 0 /\ s.frameNum > s.frameLength THEN StopMovie(s) ELSE s,
                   <<image>>)
    /\ pool' = pool - 1
    /\ pc' = "top"
    /\ UNCHANGED cmds

FfmpegStep ==
    Begin \/ ObeyCommand \/ NothingToPlay \/ DecodeFrame \/ DropImage \/ SendImage

-----------------------------------------------------------------------------
FfmpegTypeOK ==
    /\ ff.opened \in BOOLEAN /\ ff.hasClosed \in BOOLEAN /\ ff.paused \in BOOLEAN
    /\ ff.film \in Films \cup {NoFilm}
    /\ ff.next \in Nat /\ ff.frameNum \in Nat /\ ff.frameLength \in Nat
    /\ ff.frame \in [film : Films \cup {NoFilm}, at : Nat]
    /\ ff.triage \in [Ports -> Nat] /\ ff.ends = 0
    /\ pc \in {"top", "wait", "poll", "pop"}
    /\ pool \in 0..PoolSize
    /\ out \in Seq(Image \cup {MovieDone})
    /\ status \in Nat

(* No image shows a film that is not open any more: whatever was stopped,    *)
(* started or rewound while the thread waited for an image, the frame that   *)
(* it decoded before is thrown away (the test hasClosed after the pop,       *)
(* pluginFfmpeg.cpp:283).                                                    *)
NoStaleFilm ==
    [][\A i \in Len(out) + 1 .. Len(out') :
            out'[i] # MovieDone => ff.opened /\ out'[i].film = ff.film]_ffmpegVars
=============================================================================
