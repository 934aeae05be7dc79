\* All four programs; they end, so a state without a step is no deadlock.
SPECIFICATION Spec
CONSTANTS
    long = long
    short = short
    missing = missing
    NoFilm = NoFilm
    NoImage = NoImage
    Films = {long, short, missing}
    Frames <- FramesOf
    Counted = {long}
    PoolSize = 2
    Playlist <- FilmList
    Commands <- AnyCommands
    MaxCmds = 1
    MaxSeek = 2
    Programs = {"extractPattern", "saveMovie", "playMovie", "anyone"}
INVARIANTS TypeOK SavedBeforeQuit
PROPERTIES NoStaleFilm ProgramsGoOn
CHECK_DEADLOCK FALSE
