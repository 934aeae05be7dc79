------------------------------ MODULE Recorder ------------------------------
(* A chain of pluginRead, pluginSync and pluginSave plugins that share a pool *)
(* of images: numbered files are read, let through one by one, distributed   *)
(* over the savers, and written to other files.                              *)
(*                                                                           *)
(* Places: of the reader  top, wait (pop_front_ctrl_wait), pop               *)
(*                        (pop_front_wait, its file number is chosen)        *)
(*         of the sync    top, wait, drain (pop_front_ctrl_nowait), image    *)
(*                        (pop_front_noctrl_wait), ended                     *)
EXTENDS Integers, SequencesExt

CONSTANTS
    Savers,         \* sequence of the ports of /distribute
    Wirings,        \* the sets of those ports that may exist and have a queue
    LastFile,       \* files 0 .. LastFile can be read
    MaxCounts,      \* arguments of the reader's /max, negative for no end
    PoolSize,
    SaveCount,      \* the argument of each saver's /count, negative for no end
    ReadCommands, SyncCommands,
    MaxTells,       \* bound: commands sent to the reader and to the sync
    NoImage

VARIABLES
    rd, rdMax, rdAt, rdNum, rdCmds, \* the reader, its /max, the number it is about to read
    sy, syAt, syCmds, syQ, out,     \* the sync, its input queue, the ports that have a queue
    sv, svQ, hand,                  \* the savers, their queues, the image being saved
    pool,                           \* number of empty images
    written, done,                  \* how many files each saver wrote, who sent "done"
    tells,
    limit, frames,                  \* history: the last count that may be read, how many frames
                                    \* may be, -1: any
    passed, gos, allowed            \* history of the sync: images, /go's, images counted out

reader == <<rd, rdMax, rdAt, rdNum, rdCmds, limit, frames>>
sync == <<sy, syAt, syCmds, out, passed, gos, allowed>>
saving == <<sv, hand, written, done>>
vars == <<reader, sync, syQ, saving, svQ, pool, tells>>

Ports == Range(Savers)
Cmd(c, k) == [cmd |-> c, k |-> k, off |-> 0]

\* The messages that the two plugins decode; /pause and /count-add are for count k.
ReadMessage == [cmd : {"/init-done", "/reinit", "/play", "/pause", "/next", "/count-add"},
                k : Int, off : Int]
SyncMessage == [cmd : {"/go", "/count", "/manual", "/auto"}, k : Int, off : Int]

ASSUME RecorderAssumption ==
    /\ Len(Savers) \in Nat \ {0} /\ DOMAIN Savers = 1 .. Len(Savers)
    /\ Wirings \subseteq SUBSET Ports
    /\ LastFile \in Nat /\ MaxCounts \subseteq Int
    /\ PoolSize \in Nat /\ MaxTells \in Nat
    /\ SaveCount \in [Ports -> Int]
    /\ ReadCommands \subseteq ReadMessage
    /\ SyncCommands \subseteq SyncMessage
    /\ NoImage \notin {"save", "pass"}

Init ==
    /\ rd = [pause |-> FALSE, one |-> FALSE, count |-> 0, applyAt |-> -1, applyOffset |-> 0,
             initializing |-> TRUE]
    /\ rdMax \in MaxCounts
    /\ rdAt = "top" /\ rdNum = 0 /\ rdCmds = <<Cmd("/init-done", 0)>>
    /\ limit = -1 /\ frames = -1
    /\ sy = [manual |-> TRUE, nbGo |-> 0, togo |-> 0, n |-> 0]
    /\ syAt = "top" /\ syCmds = <<>> /\ syQ = <<>> /\ out \in Wirings
    /\ passed = 0 /\ gos = 0 /\ allowed = -1
    /\ sv = [s \in Ports |-> [initializing |-> TRUE, count |-> SaveCount[s]]]
    /\ svQ = [s \in Ports |-> <<>>] /\ hand = [s \in Ports |-> NoImage]
    /\ written = [s \in Ports |-> 0] /\ done = {}
    /\ pool = PoolSize
    /\ tells = 0

-----------------------------------------------------------------------------
(* pluginRead                                                                *)

\* The pending /pause or /count-add, applied when its count is reached.
Apply(s) ==
    CASE s.applyAt < 0 -> s
      [] s.applyAt >= 0 /\ s.count < s.applyAt -> [s EXCEPT !.one = TRUE]
      [] OTHER -> [s EXCEPT !.pause = @ \/ s.applyOffset = 0,
                            !.count = Max({0, @ + s.applyOffset}),
                            !.one = TRUE, !.applyAt = -1, !.applyOffset = 0]

Rewound(s) == [s EXCEPT !.initializing = TRUE, !.count = 0]

ReadTurn ==
    LET s == Apply(rd)
        waits == s.initializing \/ (s.pause /\ ~s.one)
        ended == rdMax >= 0 /\ s.count >= rdMax
    IN  /\ rdAt = "top"
        /\ rd' = IF ~waits /\ ended THEN Rewound(s) ELSE s
        /\ rdAt' = IF waits THEN "wait" ELSE IF ended THEN "top" ELSE "pop"
        /\ rdNum' = IF rdAt' = "pop" THEN s.count ELSE 0
        /\ limit' = IF ~waits /\ ended THEN -1 ELSE limit
        /\ frames' = IF ~waits /\ ended THEN -1 ELSE frames
        /\ UNCHANGED <<rdMax, rdCmds, sync, syQ, saving, svQ, pool, tells>>

ReadDecode(s, m) ==
    CASE m.cmd = "/init-done" -> [s EXCEPT !.initializing = FALSE]
      [] m.cmd = "/reinit" -> [Rewound(s) EXCEPT !.applyAt = -1, !.applyOffset = 0]
      [] m.cmd = "/play" -> [s EXCEPT !.pause = FALSE, !.applyAt = -1, !.applyOffset = 0]
      [] m.cmd = "/pause" -> [s EXCEPT !.applyAt = m.k, !.applyOffset = 0]
      [] m.cmd = "/next" -> IF s.pause THEN [s EXCEPT !.applyAt = 0, !.applyOffset = 1] ELSE s
      [] m.cmd = "/count-add" -> [s EXCEPT !.applyAt = m.k, !.applyOffset = m.off]

\* Commands that leave the meaning of the last one as it is.
NoMatter(m) == m.cmd = "/init-done" \/ (m.cmd = "/next" /\ ~rd.pause)

\* What /pause and /count-add mean for the last frame that may be read in their wake. A
\* frame whose image is being waited for is read in any case. A negative count is never
\* reached: such a command only takes back the pending one.
Limit(m) ==
    LET next == IF rdAt = "pop" THEN rd.count + 1 ELSE rd.count
        reach == Max({m.k, next})
    IN  CASE m.cmd \in {"/pause", "/count-add"} /\ m.k < 0 /\ rd.pause -> rd.count
          [] m.cmd = "/pause" /\ m.k >= 0 -> reach
          [] m.cmd = "/count-add" /\ m.k >= 0 /\ rd.pause -> Max({reach + m.off, reach - 1})
          [] NoMatter(m) -> limit
          [] OTHER -> -1

\* What /next in a pause means: one more frame. Which one is not "the next frame" of
\* pluginRead.hpp: the pause at frame k leaves the count at k + 1, /next adds 1 to it,
\* and k + 2 is read.
Frames(m) ==
    CASE m.cmd = "/next" /\ rd.pause -> IF rdAt = "pop" THEN 2 ELSE 1
      [] NoMatter(m) -> frames
      [] OTHER -> -1

ReadObey ==
    /\ rdAt \in {"wait", "pop"} /\ rdCmds # <<>>
    /\ rd' = ReadDecode(rd, Head(rdCmds))
    /\ limit' = Limit(Head(rdCmds)) /\ frames' = Frames(Head(rdCmds))
    /\ rdCmds' = Tail(rdCmds)
    /\ rdAt' = IF rdAt = "wait" /\ Len(rdCmds) = 1 THEN "top" ELSE rdAt
    /\ UNCHANGED <<rdMax, rdNum, sync, syQ, saving, svQ, pool, tells>>

\* Mutated form of AfterRead: the reader goes on after the one frame of a pause.
AfterReadKeepsOne(s) == [s EXCEPT !.count = @ + 1]

AfterRead(s) == [s EXCEPT !.one = FALSE, !.count = @ + 1]

\* The file with the number chosen before the wait, whatever was obeyed in it. A
\* file that cannot be read ends the sequence.
ReadImage ==
    /\ rdAt = "pop" /\ rdCmds = <<>> /\ pool > 0
    /\ IF rdNum <= LastFile
       THEN /\ rd' = AfterRead(rd)
            /\ syQ' = Append(syQ, rdNum)
            /\ pool' = pool - 1
            /\ frames' = IF frames > 0 THEN frames - 1 ELSE frames
            /\ UNCHANGED limit
       ELSE /\ rd' = Rewound(rd)
            /\ limit' = -1 /\ frames' = -1
            /\ UNCHANGED <<syQ, pool>>
    /\ rdAt' = "top" /\ rdNum' = 0
    /\ UNCHANGED <<rdMax, rdCmds, sync, saving, svQ, tells>>

-----------------------------------------------------------------------------
\* Mutated form of Recycled: the image is kept.
RecycledNot == pool

\* An image that nobody needs any more goes back to the pool.
Recycled == pool + 1

(* pluginSync                                                                *)

SyncTurn ==
    /\ syAt = "top"
    /\ syAt' = IF sy.manual THEN "wait" ELSE "drain"
    /\ UNCHANGED <<reader, sy, syCmds, syQ, out, passed, gos, allowed, saving, svQ, pool, tells>>

SyncDecode(s, m) ==
    CASE m.cmd = "/go" -> [s EXCEPT !.nbGo = @ + 1]
      [] m.cmd = "/count" -> [s EXCEPT !.togo = m.k]
      [] m.cmd = "/manual" -> [s EXCEPT !.manual = TRUE]
      [] m.cmd = "/auto" -> [s EXCEPT !.manual = FALSE]

\* After the last message of the wait the images of the /go's received go through.
SyncObey ==
    LET m == Head(syCmds)
    IN  /\ syAt \in {"wait", "drain"} /\ syCmds # <<>>
        /\ sy' = SyncDecode(sy, m)
        /\ syCmds' = Tail(syCmds)
        /\ syAt' = IF syAt = "drain" \/ Len(syCmds) > 1 THEN syAt
                   ELSE IF sy'.nbGo > 0 THEN "image" ELSE "top"
        /\ gos' = IF m.cmd = "/go" THEN gos + 1 ELSE gos
        /\ allowed' = IF m.cmd # "/count" THEN allowed ELSE IF m.k > 0 THEN passed + m.k ELSE -1
        /\ UNCHANGED <<reader, syQ, out, passed, saving, svQ, pool, tells>>

\* automatic: one image at each turn, whatever /go's there were
SyncDrained ==
    /\ syAt = "drain" /\ syCmds = <<>>
    /\ sy' = [sy EXCEPT !.nbGo = 1]
    /\ syAt' = "image"
    /\ gos' = gos + 1
    /\ UNCHANGED <<reader, syCmds, syQ, out, passed, allowed, saving, svQ, pool, tells>>

\* The ports of /distribute that have a queue.
Known == {i \in DOMAIN Savers : Savers[i] \in out}

\* When the loop over the outputs, which starts at the image number, comes to port i.
Turn(i) == (i - 1 - sy.n) % Len(Savers)

\* The first of the shortest queues.
Shortest ==
    LET before(i, j) ==
            \/ Len(svQ[Savers[i]]) < Len(svQ[Savers[j]])
            \/ Len(svQ[Savers[i]]) = Len(svQ[Savers[j]]) /\ Turn(i) <= Turn(j)
    IN  Savers[CHOOSE i \in Known : \A j \in Known : before(i, j)]

\* Mutated form of IsLast: the limit is tested before it is counted down.
IsLastTooLate == sy.togo = 0

IsLast == sy.togo = 1

\* The image goes to a saver, or back to the pool when no output is known.
SyncImage ==
    /\ syAt = "image" /\ syQ # <<>>
    /\ IF Known # {}
       THEN svQ' = [svQ EXCEPT ![Shortest] = Append(@, Head(syQ))] /\ UNCHANGED pool
       ELSE pool' = Recycled /\ UNCHANGED svQ
    /\ syQ' = Tail(syQ)
    /\ sy' = [sy EXCEPT !.n = @ + 1, !.togo = @ - 1, !.nbGo = @ - 1]
    /\ syAt' = IF IsLast THEN "ended" ELSE IF sy.nbGo > 1 THEN "image" ELSE "top"
    /\ passed' = passed + 1
    /\ UNCHANGED <<reader, syCmds, out, gos, allowed, saving, tells>>

-----------------------------------------------------------------------------
(* pluginSave, mode "id": the file is named after the image number.          *)

SaveInitDone(s) ==
    /\ sv[s].initializing
    /\ sv' = [sv EXCEPT ![s].initializing = FALSE]
    /\ UNCHANGED <<reader, sync, syQ, hand, written, done, svQ, pool, tells>>

\* The count is taken, and the end of it announced, before the image is written.
SaveTake(s) ==
    LET c == sv[s].count
    IN  /\ ~sv[s].initializing /\ hand[s] = NoImage /\ svQ[s] # <<>>
        /\ svQ' = [svQ EXCEPT ![s] = Tail(@)]
        /\ hand' = [hand EXCEPT ![s] = IF c # 0 THEN "save" ELSE "pass"]
        /\ sv' = [sv EXCEPT ![s].count = IF c > 0 THEN c - 1 ELSE c]
        /\ done' = IF c = 1 THEN done \cup {s} ELSE done
        /\ UNCHANGED <<reader, sync, syQ, written, pool, tells>>

SaveWrite(s) ==
    /\ hand[s] # NoImage
    /\ written' = [written EXCEPT ![s] = IF hand[s] = "save" THEN @ + 1 ELSE @]
    /\ hand' = [hand EXCEPT ![s] = NoImage]
    /\ pool' = Recycled
    /\ UNCHANGED <<reader, sync, syQ, sv, done, svQ, tells>>

-----------------------------------------------------------------------------
Tell ==
    /\ tells < MaxTells
    /\ tells' = tells + 1
    /\ \/ \E m \in ReadCommands : rdCmds' = Append(rdCmds, m) /\ UNCHANGED syCmds
       \/ \E m \in SyncCommands : syCmds' = Append(syCmds, m) /\ UNCHANGED rdCmds
    /\ UNCHANGED <<rd, rdMax, rdAt, rdNum, limit, frames, sy, syAt, out, passed, gos, allowed, syQ,
                   saving, svQ, pool>>

Reader == ReadTurn \/ ReadObey \/ ReadImage
Sync == SyncTurn \/ SyncObey \/ SyncDrained \/ SyncImage
Saver(s) == SaveInitDone(s) \/ SaveTake(s) \/ SaveWrite(s)

Next == Reader \/ Sync \/ (\E s \in Ports : Saver(s)) \/ Tell

Spec == Init /\ [][Next]_vars
-----------------------------------------------------------------------------

(* Properties *)

Saving == {s \in Ports : hand[s] # NoImage}

\* The places taken in the queues of the savers.
Queued == UNION {{s} \X DOMAIN svQ[s] : s \in Ports}

\* Every image of the pool is in one queue or in one pair of hands, also when a file
\* cannot be read or is not to be saved.
PoolKept == pool + Len(syQ) + Cardinality(Saving) + Cardinality(Queued) = PoolSize

ReaderState == [pause : BOOLEAN, one : BOOLEAN, count : Nat, applyAt : Int,
                applyOffset : Int, initializing : BOOLEAN]
SyncState == [manual : BOOLEAN, nbGo : Nat, togo : Int, n : Nat]

ReaderTyped ==
    /\ rd \in ReaderState /\ rdMax \in Int /\ rdNum \in Nat
    /\ rdAt \in {"top", "wait", "pop"}
    /\ rdCmds \in Seq(ReadMessage) /\ limit \in Nat \cup {-1} /\ frames \in Nat \cup {-1}

SyncTyped ==
    /\ sy \in SyncState /\ syAt \in {"top", "wait", "drain", "image", "ended"}
    /\ syCmds \in Seq(SyncMessage) /\ syQ \in Seq(Nat) /\ out \subseteq Ports
    /\ passed \in Nat /\ gos \in Nat /\ allowed \in Nat \cup {-1}

SaversTyped ==
    /\ sv \in [Ports -> [initializing : BOOLEAN, count : Int]]
    /\ svQ \in [Ports -> Seq(Nat)]
    /\ hand \in [Ports -> {"save", "pass", NoImage}]
    /\ written \in [Ports -> Nat] /\ done \subseteq Ports

\* The types of the variables, and what becomes of the images.
TypeOK ==
    /\ ReaderTyped /\ SyncTyped /\ SaversTyped
    /\ pool \in Nat /\ tells \in Nat
    /\ PoolKept

\* pluginRead.hpp, "/pause k", "/count-add" in pause and "/next": whatever the reader is
\* doing when it obeys (waiting for an image included), no frame is read after the one
\* that the count of the command names, and a /next reads one frame and no more, until
\* another command asks for it.
PauseHolds ==
    [][rdAt = "pop" /\ pool' = pool - 1 =>
          /\ limit < 0 \/ rd.count <= limit
          /\ frames # 0]_vars

\* The counts of pluginSync and pluginSave: the sync lets through no more images than
\* there were /go's or automatic turns, and ends exactly when the number that /count
\* gave has passed; a saver writes no more files than its /count, and its "done"
\* is sent when at most the file in its hands is missing.
CountsKept ==
    /\ passed <= gos
    /\ allowed >= 0 => passed <= allowed
    /\ syAt = "ended" => passed = allowed
    /\ \A s \in Ports :
        /\ SaveCount[s] >= 0 => written[s] <= SaveCount[s]
        /\ s \in done => written[s] + Cardinality(Saving \cap {s}) >= SaveCount[s]
=============================================================================
