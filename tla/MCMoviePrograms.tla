--------------------------- MODULE MCMoviePrograms ---------------------------
(* A small instance of MoviePrograms: a film that tells its length, one that *)
(* does not, one that cannot be opened.                                      *)
EXTENDS MoviePrograms, TLC

CONSTANTS long, short, missing

FramesOf == long :> 3 @@ short :> 2 @@ missing :> 0
FilmList == <<long, missing, short>>

\* What the network may send: the programs' own commands, a seek and a stop.
AnyCommands ==
    {Cmd("/start", f) : f \in {long, short}}
        \cup {Cmd("/pause", b) : b \in BOOLEAN}
        \cup {Cmd("/stop", 0), Cmd("/rewind", 0), Cmd("/seek", 1), Cmd("/set/length", 1)}
=============================================================================
