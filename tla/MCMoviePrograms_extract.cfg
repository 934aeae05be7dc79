\* The first image after a film that has ended is dropped and not counted.
SPECIFICATION Spec
CONSTANTS
    long = long
    short = short
    missing = missing
    NoFilm = NoFilm
    NoImage = NoImage
    Films = {long, short, missing}
    Frames <- FramesOf
    Counted = {long}
    PoolSize = 2
    Playlist <- FilmList
    Commands <- AnyCommands
    MaxCmds = 1
    MaxSeek = 2
    Programs = {"extractPattern"}
INVARIANTS SameFrameTwice
CHECK_DEADLOCK FALSE
