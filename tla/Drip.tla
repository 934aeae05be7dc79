-------------------------------- MODULE Drip --------------------------------
(* pluginDrip lets images through at their time: number n at start + n *     *)
(* period. Commands change start and period; those with a time reference are *)
(* computed from it, however late they are obeyed. pluginDripMulti has the   *)
(* same schedule. Time is counted in units; 1 / fps is the period.           *)
(*                                                                           *)
(* The places of a turn of loop():                                           *)
(*   top     before the tests of flush, initializing, paused                 *)
(*   flush   in the loop that empties the queue                              *)
(*   init    in pop_front_ctrl_wait, until /start                            *)
(*   test    after the initialization, before the test of paused             *)
(*   paused  in pop_front_ctrl_wait, during a pause                          *)
(*   sleep   in waitForFrame                                                 *)
(*   pop     in pop_front_wait, the image's time has come                    *)
EXTENDS Integers, Sequences

CONSTANTS
    Periods,        \* units per image
    Slowest,        \* a common multiple of the periods
    Grain,          \* units per step of the clock
    MaxTime,        \* bound on the clock
    MaxImages,      \* bound: images that wait in the queue
    MaxTells,       \* bound: commands sent after the first ones
    Beginnings      \* the messages that programs send before they start the thread

VARIABLES
    clock,
    dp,             \* the fields of the plugin
    at,             \* place in loop()
    wakeAt,         \* when waitForFrame returns, 0 outside of it
    cmds,           \* control lane of Q_IN
    images,         \* number of images in Q_IN
    tells,          \* commands sent
    changed,        \* history: a command was obeyed since waitForFrame
    inPause         \* history: images that left since the pause began

dripVars == <<clock, dp, at, wakeAt, cmds, images, tells, changed, inPause>>

Now == -1           \* the time reference of /fpsnow and /pausenow
Msg(c, v, r) == [cmd |-> c, arg |-> v, ref |-> r]

\* What the drip understands, with the type of the argument and the time that it
\* refers to; a count of -1 stands for every negative one, which is infinite.
Message ==
    [cmd : {"/start"}, arg : Int, ref : Nat \cup {Now}]
        \cup [cmd : {"/fps", "/fpsnow"}, arg : Periods, ref : Nat \cup {Now}]
        \cup [cmd : {"/count"}, arg : Nat \cup {-1}, ref : Nat \cup {Now}]
        \cup [cmd : {"/pausenow"}, arg : BOOLEAN, ref : Nat \cup {Now}]
        \cup [cmd : {"/pause", "/flush", "/reset", "/predisplay-first"}, arg : {0}, ref : Nat \cup {Now}]

\* The first messages refer to the time at which the program starts, or to now.
ASSUME DripAssumption ==
    /\ Periods \subseteq Nat \ {0} /\ Slowest \in Nat \ {0}
    /\ Grain \in Nat /\ MaxImages \in Nat
    /\ Beginnings \subseteq Seq(Message)
    /\ \A b \in Beginnings : \A k \in DOMAIN b : b[k].ref \in {0, Now}

\* What FollowsPlayhead needs.  The steps of the clock are so coarse that no time has to be
\* rounded (the code reckons in seconds, as double):
WholeSteps ==
    \A p \in Periods \cup {Slowest} :
        (\E a \in 1 .. Slowest : Slowest = a * p) /\ (\E c \in 0 .. Grain * p : Grain * p = c * Slowest)

\* and the programs send their settings first, then /start, for now or later.
SettingsFirst ==
    \A b \in Beginnings : \A k \in DOMAIN b :
        \/ b[k].cmd \in {"/fps", "/count", "/predisplay-first"} /\ b[k].ref # Now
        \/ /\ k = Len(b) /\ b[k].cmd = "/start" /\ b[k].ref = Now
           /\ \E j \in 0 .. b[k].arg : b[k].arg = j * Grain

-----------------------------------------------------------------------------
(* decode(): s are the fields, m the message, now the time it is obeyed.     *)

\* Mutated form of ResetFps: counts from the images that left.
ResetFpsFromImage(s, r, p) == [s EXCEPT !.start = r - p * s.n, !.period = p]

\* The position at r stays where it is: remoten/fps and remoten/newfps.
ResetFps(s, r, p) ==
    [s EXCEPT !.start = r - ((r - s.start) * p) \div s.period, !.period = p]

Hold(s, r) == [s EXCEPT !.paused = TRUE, !.pauseStart = r]

GoOn(s, r) == [s EXCEPT !.paused = FALSE, !.start = @ + r - s.pauseStart]

ObeyInit(s, m, now) ==
    CASE m.cmd = "/start" ->
            [s EXCEPT !.start = IF m.ref = Now THEN now + m.arg ELSE m.arg,
                      !.initializing = FALSE, !.paused = FALSE, !.n = 0]
      [] m.cmd = "/fps" -> [s EXCEPT !.period = m.arg]
      [] m.cmd = "/count" -> [s EXCEPT !.count = m.arg, !.n = 0]
      [] m.cmd = "/predisplay-first" -> [s EXCEPT !.predisplay = TRUE]
      [] OTHER -> s

ObeyRunning(s, m, now) ==
    LET r == IF m.ref = Now THEN now ELSE m.ref
    IN  CASE m.cmd = "/reset" -> [s EXCEPT !.initializing = TRUE]
          [] m.cmd = "/flush" -> [s EXCEPT !.flush = TRUE]
          [] m.cmd \in {"/fps", "/fpsnow"} -> ResetFps(s, r, m.arg)
          [] m.cmd = "/pause" -> IF s.paused THEN GoOn(s, r) ELSE Hold(s, r)
          [] m.cmd = "/pausenow" ->
                IF s.paused /\ ~m.arg THEN GoOn(s, r)
                ELSE IF ~s.paused /\ m.arg THEN Hold(s, r) ELSE s
          [] OTHER -> s

Obeyed(s, m, now) == IF s.initializing THEN ObeyInit(s, m, now) ELSE ObeyRunning(s, m, now)

\* The fields as the messages of q are obeyed, one after the other.
Obeying(s, q, now) ==
    LET after[k \in 0 .. Len(q)] == IF k = 0 THEN s ELSE Obeyed(after[k - 1], q[k], now)
    IN  after

\* The fields once the pending messages are obeyed.
Final == Obeying(dp, cmds, clock)[Len(cmds)]

-----------------------------------------------------------------------------
(* The thread                                                                *)

DripInit ==
    /\ clock = 0
    /\ dp = [start |-> 0, period |-> Slowest, paused |-> FALSE, pauseStart |-> 0, n |-> 0,
             predisplay |-> FALSE, count |-> -1, initializing |-> TRUE, flush |-> FALSE]
    /\ at = "top"
    /\ wakeAt = 0
    /\ cmds \in Beginnings
    /\ images = 0
    /\ tells = 0
    /\ changed = FALSE
    /\ inPause = 0

Tick ==
    /\ clock < MaxTime
    /\ clock' = clock + Grain
    /\ UNCHANGED <<dp, at, wakeAt, cmds, images, tells, changed, inPause>>

Arrive ==
    /\ images < MaxImages
    /\ images' = images + 1
    /\ UNCHANGED <<clock, dp, at, wakeAt, cmds, tells, changed, inPause>>

\* What loop() does without waiting, up to its next wait.
Turn ==
    /\ at \in {"top", "test"}
    /\ at' = CASE at = "top" /\ dp.flush        -> "flush"
               [] at = "top" /\ ~dp.flush /\ dp.initializing -> "init"
               [] OTHER -> IF dp.paused THEN "paused" ELSE "sleep"
    /\ wakeAt' = IF at' # "sleep" THEN wakeAt
                 ELSE IF dp.predisplay /\ dp.n = 0 THEN clock
                 ELSE dp.start + dp.n * dp.period
    /\ changed' = FALSE
    /\ UNCHANGED <<clock, dp, cmds, images, tells, inPause>>

ObeyHead ==
    /\ dp' = Obeyed(dp, Head(cmds), clock)
    /\ cmds' = Tail(cmds)
    /\ inPause' = IF dp.paused THEN inPause ELSE 0

\* Mutated form of ObeyInWait: leaves the wait without looking at paused again.
ObeyInWaitGoesOn ==
    /\ at \in {"init", "paused"} /\ cmds # <<>>
    /\ ObeyHead
    /\ at' = CASE Len(cmds) > 1 -> at
               [] Len(cmds) = 1 /\ at = "init" -> IF dp'.initializing THEN "top" ELSE "test"
               [] OTHER -> "sleep"
    /\ UNCHANGED <<clock, wakeAt, images, tells, changed>>

\* A message in pop_front_ctrl_wait: it returns when there are no more.
ObeyInWait ==
    /\ at \in {"init", "paused"} /\ cmds # <<>>
    /\ ObeyHead
    /\ at' = CASE Len(cmds) > 1 -> at
               [] Len(cmds) = 1 /\ at = "init" /\ ~dp'.initializing -> "test"
               [] OTHER -> "top"
    /\ UNCHANGED <<clock, wakeAt, images, tells, changed>>

ObeyInPop ==
    /\ at \in {"pop", "flush"} /\ cmds # <<>>
    /\ ObeyHead
    /\ changed' = TRUE
    /\ UNCHANGED <<clock, at, wakeAt, images, tells>>

FlushImage ==
    /\ at = "flush" /\ cmds = <<>> /\ images > 0
    /\ images' = images - 1
    /\ UNCHANGED <<clock, dp, at, wakeAt, cmds, tells, changed, inPause>>

Flushed ==
    /\ at = "flush" /\ cmds = <<>> /\ images = 0
    /\ dp' = [dp EXCEPT !.flush = FALSE]
    /\ at' = "top"
    /\ UNCHANGED <<clock, wakeAt, cmds, images, tells, changed, inPause>>

\* waitForFrame returns; the smoothing of the wait (offset) is left out.
Wake ==
    /\ at = "sleep"
    /\ clock >= wakeAt
    /\ at' = "pop"
    /\ wakeAt' = 0
    /\ UNCHANGED <<clock, dp, cmds, images, tells, changed, inPause>>

\* Mutated form of CountAfterSend: a negative count is counted down, too.
CountAlways(s) == [s EXCEPT !.count = @ - 1, !.initializing = @ \/ s.count = 1]

CountAfterSend(s) ==
    IF s.count < 0 THEN s
    ELSE [s EXCEPT !.count = @ - 1, !.initializing = @ \/ s.count = 1]

SendImage ==
    /\ at = "pop" /\ cmds = <<>> /\ images > 0
    /\ images' = images - 1
    /\ dp' = CountAfterSend([dp EXCEPT !.n = @ + 1])
    /\ at' = "top"
    /\ inPause' = IF dp.paused THEN inPause + 1 ELSE inPause
    /\ UNCHANGED <<clock, wakeAt, cmds, tells, changed>>

Thread ==
    Turn \/ ObeyInWait \/ ObeyInPop \/ FlushImage \/ Flushed \/ Wake \/ SendImage

-----------------------------------------------------------------------------
(* Programs and the network send commands. Those with a reference time refer *)
(* to the time they are sent.                                                *)

Tell(m) ==
    /\ tells < MaxTells
    /\ tells' = tells + 1
    /\ cmds' = Append(cmds, m)
    /\ UNCHANGED <<clock, dp, at, wakeAt, images, changed, inPause>>

Running == dp.count < 0 /\ ~dp.initializing /\ ~Final.initializing
NowPending == \E i \in DOMAIN cmds : cmds[i].ref = Now

TellTimed ==
    /\ Running /\ ~NowPending
    /\ \/ Tell(Msg("/pause", 0, clock))
       \/ /\ ~Final.paused        \* otherwise the position jumps: see README
          /\ \E p \in Periods : Tell(Msg("/fps", p, clock))

TellNow ==
    /\ Running
    /\ \/ \E b \in BOOLEAN : Tell(Msg("/pausenow", b, Now))
       \/ /\ ~Final.paused
          /\ \E p \in Periods : Tell(Msg("/fpsnow", p, Now))

TellFlush == Running /\ Tell(Msg("/flush", 0, 0))

TellReset == Running /\ ~NowPending /\ Tell(Msg("/reset", 0, 0))

\* Only a drip that waits for it, or will, gets a /start.
TellStart ==
    /\ Final.initializing /\ ~NowPending
    /\ \/ \E t \in {clock, clock + Grain} : Tell(Msg("/start", t, clock))
       \/ \E delay \in {0, Grain} : Tell(Msg("/start", delay, Now))

DripNext == Tick \/ Arrive \/ Thread \/ TellTimed \/ TellNow \/ TellFlush \/ TellReset \/ TellStart

DripSpec == DripInit /\ [][DripNext]_dripVars
-----------------------------------------------------------------------------
(* The playhead: where the schedule is once the pending commands with a       *)
(* reference time are obeyed.                                                 *)

TimedCount(q) ==
    CHOOSE n \in 0 .. Len(q) :
        (\A k \in 1 .. n : q[k].ref # Now) /\ (n < Len(q) => q[n + 1].ref = Now)

Schedule == Obeying(dp, cmds, clock)[TimedCount(cmds)]
HeadMode == IF Schedule.initializing THEN "stopped" ELSE IF Schedule.paused THEN "still" ELSE "moving"
HeadRate == Slowest \div Schedule.period
HeadPos ==
    IF Schedule.initializing THEN 0
    ELSE ((IF Schedule.paused THEN Schedule.pauseStart ELSE clock) - Schedule.start) * HeadRate

PH == INSTANCE Playhead WITH Step <- Grain, Rates <- {Slowest \div p : p \in Periods \cup {Slowest}},
                             mode <- HeadMode, rate <- HeadRate, pos <- HeadPos

(* Types and bounds; also that half units are enough for every start time.    *)
DripTypeOK ==
    /\ clock \in Nat /\ cmds \in Seq(Message)
    /\ dp.start \in Int /\ dp.period \in Periods \cup {Slowest} /\ dp.n \in Nat
    /\ dp.paused \in BOOLEAN /\ dp.initializing \in BOOLEAN
    /\ dp.count \in Int /\ dp.count >= -1
    /\ dp.paused /\ ~dp.initializing => dp.pauseStart <= clock
    /\ images \in 0..MaxImages
    /\ at \in {"top", "flush", "init", "test", "paused", "sleep", "pop"}

(* However late the commands with a reference time are obeyed, and whatever   *)
(* is sent meanwhile, the schedule is that of a playhead that obeyed them in  *)
(* time ("This allows the synchronization of the framerate change between    *)
(* sperate instances", pluginDrip.hpp:65): the rate changes without a jump,  *)
(* a pause holds the position.                                               *)
FollowsPlayhead == PH!Spec

(* An image leaves when it is due and no pause holds it, unless a command was *)
(* obeyed while it waited in the pop; and only one image can slip through a   *)
(* pause in that way.                                                        *)
LeavesInTime ==
    [][dp'.n = dp.n + 1 =>
         /\ \/ changed
            \/ dp.predisplay /\ dp.n = 0
            \/ ~dp.paused /\ clock >= dp.start + dp.n * dp.period
         /\ dp.paused => inPause = 0]_dripVars
=============================================================================
