---------------------------- MODULE MoviePrograms ----------------------------
(* Programs that drive the movie player, with the plugins behind it:         *)
(*   extractPattern  reads a film, chooses an image, rewinds, finds it again *)
(*   saveMovie       player -> skip -> two savers -> viewer, and quits when  *)
(*                   all images are back                                     *)
(*   playMovie       plays a list of films for ever, the next one at the end *)
(*                   of the last; the viewer's N key shortens the film       *)
(*   anyone          any commands at any time, as the network may send them  *)
(* An image is in one place: the pool, a queue or a worker's hands.          *)
EXTENDS Ffmpeg, FiniteSets

CONSTANTS
    Programs,       \* the programs of this instance
    Playlist,       \* sequence of films
    Commands,       \* what anyone may send
    MaxCmds,        \* bound: messages of anyone's that wait for the player
    MaxSeek,        \* bound: anyone seeks only before that many images were sent
    NoImage

VARIABLES
    prog,           \* the program that runs
    main,           \* its main thread: place and local variables
    hands,          \* the image each worker holds, or NoImage
    save,           \* the queue between the skipper and the savers
    display,        \* number of images in the viewer's queue
    judged,         \* history: numbers of the images the skipper has seen
    passed,         \* history: the images it passed on
    written         \* history: the images in the files

progVars == <<prog, main, hands, save, display, judged, passed, written>>
vars == <<ffmpegVars, progVars>>

Savers == {"SA", "SB"}
Workers == {"K"} \cup Savers
Cmd(c, a) == [cmd |-> c, arg |-> a]

\* What the player's port understands, and a message: some of it, in order.
Command ==
    [cmd : {"/start"}, arg : Films] \cup [cmd : {"/pause"}, arg : BOOLEAN]
        \cup [cmd : {"/stop", "/toggle", "/rewind"}, arg : {0}]
        \cup [cmd : {"/seek", "/set/length"}, arg : Nat]
        \cup [cmd : {"/defevent"}, arg : Ports]
Message == Seq(Command) \ {<<>>}

ASSUME MovieAssumption ==
    /\ Programs \subseteq {"extractPattern", "saveMovie", "playMovie", "anyone"}
    /\ NoFilm \notin Films /\ NoImage \notin Image
    /\ Frames \in [Films -> Nat]
    /\ PoolSize \in Nat
    /\ Playlist \in Seq(Films) /\ Playlist # <<>>
    /\ Commands \subseteq Command

\* Nobody seeks past the end of a film. Where av_seek_frame leads to then is the
\* demuxer's choice; before the first image it may send a frame never decoded.
ASSUME SeekAssumption ==
    \A c \in Commands : c.cmd = "/seek" => \A f \in Films : Opens(f) => c.arg < Frames[f]

\* What each program sends before it starts its threads. The binding of the
\* "end" event comes after /start in extractPattern and saveMovie.
FirstMessages(p, f) ==
    CASE p = "extractPattern" -> << <<Cmd("/start", f), Cmd("/defevent", "out")>> >>
      [] p = "saveMovie"      -> << <<Cmd("/start", f), Cmd("/defevent", "status")>> >>
      [] p = "playMovie"      -> << <<Cmd("/defevent", "status")>> >>
      [] p = "anyone"         -> <<>>

Init ==
    /\ prog \in Programs
    /\ main \in [at : {"first"}, film : 1..Len(Playlist), held : {0},
                 chosen : {NoImage}, zero : {TRUE}]
    /\ prog \in {"playMovie", "anyone"} => main.film = 1
    /\ FfmpegInit(FirstMessages(prog, Playlist[main.film]))
    /\ hands = [w \in Workers |-> NoImage]
    /\ save = <<>>
    /\ display = 0
    /\ judged = {} /\ passed = {} /\ written = {}

Player == FfmpegStep /\ UNCHANGED progVars
Proceeds == Player /\ cmds' = cmds

\* The viewer takes an image, shows it and gives it back.
Show ==
    /\ display > 0
    /\ display' = display - 1
    /\ pool' = pool + 1
    /\ UNCHANGED <<ff, pc, cmds, out, status, prog, main, hands, save, judged, passed, written>>

TellPlayer(command) == cmds' = Append(cmds, <<command>>)

-----------------------------------------------------------------------------
(* extractPattern: the main thread itself takes the images.                  *)

AtHead(at) == prog = "extractPattern" /\ main.at = at /\ out # <<>>

\* It keeps the last image for the comparison; any but the first may become the
\* choice of the clusters that are computed at the end.
FirstPass ==
    /\ AtHead("first") /\ Head(out) # MovieDone
    /\ out' = Tail(out)
    /\ display' = display + main.held
    /\ \E c \in (IF main.held = 0 THEN {NoImage}
               ELSE IF main.chosen = NoImage THEN {Head(out)}
               ELSE {main.chosen, Head(out)}) :
           main' = [main EXCEPT !.held = 1, !.chosen = c]
    /\ UNCHANGED <<ff, pc, cmds, pool, status, prog, hands, save, judged, passed, written>>

FirstPassDone ==
    /\ AtHead("first") /\ Head(out) = MovieDone
    /\ out' = Tail(out)
    /\ display' = display + main.held
    /\ main' = [main EXCEPT !.at = "second", !.held = 0]
    /\ TellPlayer(Cmd("/rewind", 0))
    /\ UNCHANGED <<ff, pc, pool, status, prog, hands, save, judged, passed, written>>

TooEarly(image) == (main.zero /\ image.n # 0) \/ image.n < main.chosen.n

SecondPassSkip ==
    /\ AtHead("second") /\ Head(out) # MovieDone /\ TooEarly(Head(out))
    /\ out' = Tail(out)
    /\ main' = [main EXCEPT !.zero = @ /\ Head(out).n # 0]
    /\ pool' = pool + 1
    /\ UNCHANGED <<ff, pc, cmds, status, prog, hands, save, display, judged, passed, written>>

SecondPassKeep ==
    /\ AtHead("second") /\ Head(out) # MovieDone /\ ~TooEarly(Head(out))
    /\ out' = Tail(out)
    /\ written' = written \cup {Head(out)}
    /\ display' = display + 1
    /\ main' = [main EXCEPT !.at = "quit", !.zero = FALSE]
    /\ UNCHANGED <<ff, pc, cmds, pool, status, prog, hands, save, judged, passed>>

SecondPassDone ==
    /\ AtHead("second") /\ Head(out) = MovieDone
    /\ out' = Tail(out)
    /\ main' = [main EXCEPT !.at = "quit"]
    /\ UNCHANGED <<ff, pc, cmds, pool, status, prog, hands, save, display, judged, passed, written>>

Extract == FirstPass \/ FirstPassDone \/ SecondPassSkip \/ SecondPassKeep \/ SecondPassDone

-----------------------------------------------------------------------------
(* saveMovie                                                                 *)

SkipTakes ==
    /\ prog = "saveMovie" /\ hands["K"] = NoImage
    /\ out # <<>>
    /\ hands' = [hands EXCEPT !["K"] = Head(out)]
    /\ out' = Tail(out)
    /\ UNCHANGED <<ff, pc, cmds, pool, status, prog, main, save, display, judged, passed, written>>

\* The first image is never sent; of the others, those that /skip and /seuil let
\* through.
SkipJudges ==
    /\ hands["K"] # NoImage
    /\ judged' = judged \cup {hands["K"]}
    /\ \/ /\ judged # {}
          /\ save' = Append(save, hands["K"])
          /\ passed' = passed \cup {hands["K"]}
          /\ UNCHANGED pool
       \/ /\ pool' = pool + 1
          /\ UNCHANGED <<save, passed>>
    /\ hands' = [hands EXCEPT !["K"] = NoImage]
    /\ UNCHANGED <<ff, pc, cmds, out, status, prog, main, display, written>>

SaverTakes(s) ==
    /\ hands[s] = NoImage /\ save # <<>>
    /\ hands' = [hands EXCEPT ![s] = Head(save)]
    /\ save' = Tail(save)
    /\ UNCHANGED <<ffmpegVars, prog, main, display, judged, passed, written>>

\* Mode "id": the file is named after the number of the image.
SaverWrites(s) ==
    /\ hands[s] # NoImage
    /\ written' = {i \in written : i.n # hands[s].n} \cup {hands[s]}
    /\ display' = display + 1
    /\ hands' = [hands EXCEPT ![s] = NoImage]
    /\ UNCHANGED <<ffmpegVars, prog, main, save, judged, passed>>

Saver(s) == SaverTakes(s) \/ SaverWrites(s)

\* Mutated form of SaveMain: quits with one image still away.
SaveMainEarly ==
    /\ prog = "saveMovie"
    /\ \/ main.at = "first" /\ status > 0 /\ main' = [main EXCEPT !.at = "drain"]
       \/ main.at = "drain" /\ pool >= PoolSize - 1 /\ main' = [main EXCEPT !.at = "quit"]
    /\ UNCHANGED <<ffmpegVars, prog, hands, save, display, judged, passed, written>>

\* The main thread polls queueSizeCtrl("status"), then queueSize("recycle").
SaveMain ==
    /\ prog = "saveMovie"
    /\ \/ main.at = "first" /\ status > 0 /\ main' = [main EXCEPT !.at = "drain"]
       \/ main.at = "drain" /\ pool = PoolSize /\ main' = [main EXCEPT !.at = "quit"]
    /\ UNCHANGED <<ffmpegVars, prog, hands, save, display, judged, passed, written>>

-----------------------------------------------------------------------------
(* playMovie and anyone                                                      *)

StartFilm ==
    /\ prog = "playMovie" /\ main.at = "first"
    /\ TellPlayer(Cmd("/start", Playlist[main.film]))
    /\ main' = [main EXCEPT !.at = "poll"]
    /\ UNCHANGED <<ff, pc, pool, out, status, prog, hands, save, display, judged, passed, written>>

FilmDone ==
    /\ prog = "playMovie" /\ main.at = "poll" /\ status > 0
    /\ status' = status - 1
    /\ main' = [main EXCEPT !.at = "first", !.film = (@ % Len(Playlist)) + 1]
    /\ UNCHANGED <<ff, pc, cmds, pool, out, prog, hands, save, display, judged, passed, written>>

\* The binding of the viewer's key N; 90 images in the code. Bound: a key is not
\* pressed before the last one was obeyed.
KeyN ==
    /\ prog = "playMovie" /\ cmds = <<>>
    /\ TellPlayer(Cmd("/set/length", 1))
    /\ UNCHANGED <<ff, pc, pool, out, status, progVars>>

AnyoneSends ==
    /\ prog = "anyone" /\ Len(cmds) < MaxCmds
    /\ \E c \in Commands : (c.cmd = "/seek" => ff.frameNum < MaxSeek) /\ TellPlayer(c)
    /\ UNCHANGED <<ff, pc, pool, out, status, progVars>>

\* pluginDrip, whose schedule is in module Drip, sends every image on to the viewer.
DripSends ==
    /\ prog \in {"playMovie", "anyone"} /\ out # <<>>
    /\ out' = Tail(out)
    /\ display' = IF Head(out) = MovieDone THEN display ELSE display + 1
    /\ UNCHANGED <<ff, pc, cmds, pool, status, prog, main, hands, save, judged, passed, written>>

-----------------------------------------------------------------------------
Skipper == SkipTakes \/ SkipJudges
PlayMain == StartFilm \/ FilmDone

Next ==
    \/ Player \/ Show \/ Extract \/ Skipper \/ SaveMain \/ PlayMain \/ DripSends
    \/ \E s \in Savers : Saver(s)
    \/ KeyN \/ AnyoneSends

\* Keys are not pressed so fast that the player does nothing but obey them.
Fairness ==
    /\ WF_vars(Player) /\ SF_vars(Proceeds) /\ WF_vars(Show) /\ WF_vars(Extract) /\ WF_vars(Skipper)
    /\ WF_vars(SaveMain) /\ WF_vars(PlayMain) /\ WF_vars(DripSends)
    /\ \A s \in Savers : WF_vars(Saver(s))

Spec == Init /\ [][Next]_vars /\ Fairness
-----------------------------------------------------------------------------
(* Types, and the count of the images: none is lost or made.                 *)
TypeOK ==
    /\ FfmpegTypeOK
    /\ cmds \in Seq(Message)
    /\ main.at \in {"first", "second", "drain", "poll", "quit"}
    /\ pool + Cardinality({i \in DOMAIN out : out[i] # MovieDone}) + Len(save) + display
         + main.held + Cardinality({w \in Workers : hands[w] # NoImage}) = PoolSize

(* When saveMovie quits, the skipper has seen every frame of the film and     *)
(* each image that it passed on is in a file of its own ("pour garantir que  *)
(* les images sont toutes sauvegardees", saveMovie.cpp:283).                 *)
SavedBeforeQuit ==
    prog = "saveMovie" /\ main.at = "quit" =>
        /\ {i.at : i \in judged} = 0 .. Frames[Playlist[main.film]] - 1
        /\ written = passed

(* extractPattern and saveMovie end if their film opens; playMovie comes to   *)
(* every film of its list again and again, also when some do not open, and   *)
(* when keys shorten the films.                                              *)
ProgramsGoOn ==
    /\ (prog \in {"extractPattern", "saveMovie"} /\ Opens(Playlist[main.film]))
         ~> main.at = "quit"
    /\ \A f \in 1..Len(Playlist) : []<>(prog = "playMovie" => main.film = f)

(* extractPattern chooses an image of the first pass and takes its number for *)
(* the number of a frame ("numero d'image dans la sequence video",           *)
(* pluginFfmpeg.cpp:287): the image saved in the second pass is that frame.  *)
SameFrameTwice ==
    prog = "extractPattern" => \A i \in written : i.at = main.chosen.at
=============================================================================
