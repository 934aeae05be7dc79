----------------------------- MODULE DripMulti ------------------------------
(***************************************************************************)
(* pluginDripMulti (src/imgv/pluginDripMulti.cpp): groups of images, one   *)
(* from each input, leave together, and with /sync they should carry the   *)
(* same frame number.  The inputs are movies that loop, decoded by other   *)
(* threads into pools of recycled images.  When the groups leave (fps,     *)
(* /pause times) is left out here: only which images make up a group, and  *)
(* how the commands stop the flow.                                         *)
(***************************************************************************)
EXTENDS Integers, Sequences, FiniteSets

CONSTANTS
    N,          \* the number of inputs, in the order of their /in commands
    Length,     \* the number of frames of each movie
    Offset,     \* noffset of each input
    Outs,       \* the inputs that have an /out; the others are recycled
    Pool        \* how many images each source has to recycle

Inputs == 1 .. N
None == -1
Frames(i) == 0 .. Length[i] - 1

ASSUME DripMultiAssumption ==
    /\ N \in Nat \ {0} /\ Pool \in Nat \ {0}
    /\ Length \in [Inputs -> Nat \ {0}] /\ Offset \in [Inputs -> Int]
    /\ Outs \subseteq Inputs

VARIABLES
    next,           \* the frame each source decodes next
    Q,              \* the frames that wait at each input
    img,            \* in[i].img
    away,           \* the images of each source that are further downstream
    pc,             \* where loop() is
    i,              \* the input it is at
    zero, target,   \* its locals zero and nmax, then the argument of skipAllUntil
    sync, paused, initializing,
    skipped         \* history: the inputs that lost an image for this group

flow == <<next, Q, img, away>>
loopv == <<i, zero, target, skipped>>
flags == <<sync, paused, initializing>>
vars == <<flow, pc, loopv, flags>>

TypeOK ==
    /\ \A k \in Inputs : /\ next[k] \in Frames(k) /\ Q[k] \in Seq(Frames(k))
                         /\ img[k] \in Frames(k) \cup {None} /\ away[k] \in 0 .. Pool
                         /\ Len(Q[k]) + away[k] + (IF img[k] = None THEN 0 ELSE 1) <= Pool
    /\ pc \in {"top", "init", "pause", "batch", "poll", "gather", "skip", "send"}
    /\ pc \in {"top", "init", "pause", "batch", "poll"} => \A k \in Inputs : img[k] = None
    /\ pc = "send" => \A k \in Inputs : img[k] # None
    /\ i \in 1 .. N + 1
    /\ target \in Int /\ skipped \in SUBSET Inputs
    /\ {zero, sync, paused, initializing} \subseteq BOOLEAN

Init ==
    /\ next \in [Inputs -> UNION {Frames(k) : k \in Inputs}] /\ \A k \in Inputs : next[k] \in Frames(k)
    /\ Q = [k \in Inputs |-> <<>>]
    /\ img = [k \in Inputs |-> None]
    /\ away = [k \in Inputs |-> 0]
    /\ pc = "top" /\ i = 1 /\ zero = FALSE /\ target = -1 /\ skipped = {}
    /\ sync = TRUE /\ paused = FALSE /\ initializing = TRUE

-----------------------------------------------------------------------------
(* The sources and what is downstream of the outputs.                      *)

Produce(k) ==
    /\ Len(Q[k]) + away[k] + (IF img[k] = None THEN 0 ELSE 1) < Pool
    /\ next' = [next EXCEPT ![k] = (@ + 1) % Length[k]]
    /\ Q' = [Q EXCEPT ![k] = Append(@, next[k])]
    /\ UNCHANGED <<img, away, pc, loopv, flags>>

ComeBack(k) ==
    /\ away[k] > 0
    /\ away' = [away EXCEPT ![k] = @ - 1]
    /\ UNCHANGED <<next, Q, img, pc, loopv, flags>>

-----------------------------------------------------------------------------
(* Commands.                                                               *)

\* loop() waits for commands while it is initializing or paused, else it polls.
LoopStart ==
    /\ pc = "top"
    /\ pc' = IF initializing THEN "init" ELSE IF paused THEN "pause" ELSE "poll"
    /\ UNCHANGED <<flow, loopv, flags>>

\* decode(): /reset and /stop, /start (which also ends a pause), /pause, /sync.
Obey ==
    \/ initializing' = TRUE /\ UNCHANGED <<sync, paused>>
    \/ initializing /\ initializing' = FALSE /\ paused' = FALSE /\ UNCHANGED sync
    \/ ~initializing /\ paused' = ~paused /\ UNCHANGED <<sync, initializing>>
    \/ sync' = ~sync /\ UNCHANGED <<paused, initializing>>

\* A batch of commands is processed one by one; where loop() waits there is one
\* at least.
Command ==
    /\ pc \in {"init", "pause", "batch", "poll"}
    /\ Obey
    /\ pc' = IF pc = "poll" THEN "poll" ELSE "batch"
    /\ UNCHANGED <<flow, loopv>>

\* loop() that waited for a batch has processed it, and starts again.
Processed ==
    /\ pc = "batch"
    /\ pc' = "top"
    /\ UNCHANGED <<flow, loopv, flags>>

\* After polling, a group is made even if a command has just paused the plugin.
Polled ==
    /\ pc = "poll"
    /\ pc' = "gather"
    /\ i' = 1 /\ zero' = FALSE /\ target' = -1 /\ skipped' = {}
    /\ UNCHANGED <<flow, flags>>

-----------------------------------------------------------------------------
(* A group of images.                                                      *)

Number(k) == img[k] + Offset[k]
TakeFrom(k) == img' = [img EXCEPT ![k] = Head(Q[k])] /\ Q' = [Q EXCEPT ![k] = Tail(@)]

\* pop_front_noctrl_wait of each input in turn.
Gather ==
    /\ pc = "gather" /\ i <= N /\ Q[i] # <<>>
    /\ TakeFrom(i)
    /\ LET n == Head(Q[i])
           noffset == n + Offset[i]
       IN  zero' = (zero \/ n = 0) /\ target' = IF noffset > target THEN noffset ELSE target
    /\ i' = i + 1
    /\ UNCHANGED <<next, away, pc, flags, skipped>>

Gathered ==
    /\ pc = "gather" /\ i > N
    /\ pc' = IF sync THEN "skip" ELSE "send"
    /\ i' = 1 /\ target' = IF zero THEN 0 ELSE target
    /\ UNCHANGED <<flow, zero, flags, skipped>>

\* skipAllUntil(target).  A movie that starts again ends the search: the function
\* calls itself with 0.
Restart ==
    /\ pc = "skip" /\ i <= N /\ img[i] = 0 /\ target # 0
    /\ zero' = TRUE /\ target' = 0 /\ i' = 1
    /\ UNCHANGED <<flow, pc, flags, skipped>>

\* Mutated form of Reached: the image of the wanted number is skipped as well.
ReachedAfter(k) == Number(k) > target
Reached(k) == Number(k) >= target

Arrived ==
    /\ pc = "skip" /\ i <= N /\ img[i] # None
    /\ ~(img[i] = 0 /\ target # 0) /\ Reached(i)
    /\ i' = i + 1
    /\ UNCHANGED <<flow, pc, zero, target, flags, skipped>>

Skip ==
    /\ pc = "skip" /\ i <= N /\ img[i] # None
    /\ ~(img[i] = 0 /\ target # 0) /\ ~Reached(i)
    /\ img' = [img EXCEPT ![i] = None]
    /\ skipped' = skipped \cup {i}
    /\ UNCHANGED <<next, Q, away, pc, i, zero, target, flags>>

TakeNext ==
    /\ pc = "skip" /\ i <= N /\ img[i] = None /\ Q[i] # <<>>
    /\ TakeFrom(i)
    /\ UNCHANGED <<next, away, pc, loopv, flags>>

\* Mutated form of Matched: only the first input is waited for.
MatchedFirst ==
    /\ pc = "skip" /\ i > 1
    /\ pc' = "send"
    /\ UNCHANGED <<flow, loopv, flags>>

Matched ==
    /\ pc = "skip" /\ i > N
    /\ pc' = "send"
    /\ UNCHANGED <<flow, loopv, flags>>

\* Mutated form of Send: the images without an /out are neither sent nor recycled.
SendOnly ==
    /\ pc = "send"
    /\ away' = [k \in Inputs |-> IF k \in Outs THEN away[k] + 1 ELSE away[k]]
    /\ img' = [k \in Inputs |-> IF k \in Outs THEN None ELSE img[k]]
    /\ pc' = "top"
    /\ UNCHANGED <<next, Q, loopv, flags>>

\* Every image with an /out goes to its port, what is left is recycled.
Send ==
    /\ pc = "send"
    /\ away' = [k \in Inputs |-> IF k \in Outs THEN away[k] + 1 ELSE away[k]]
    /\ img' = [k \in Inputs |-> None]
    /\ pc' = "top"
    /\ UNCHANGED <<next, Q, loopv, flags>>

-----------------------------------------------------------------------------
Step ==
    \/ LoopStart \/ Processed \/ Polled \/ Gather \/ Gathered \/ Restart \/ Arrived \/ Skip \/ TakeNext
    \/ Matched \/ Send

Next == Step \/ Command \/ \E k \in Inputs : Produce(k) \/ ComeBack(k)

Spec == Init /\ [][Next]_vars

\* The threads run; commands come or not.
Fairness ==
    /\ WF_vars(Step)
    /\ \A k \in Inputs : WF_vars(Produce(k)) /\ WF_vars(ComeBack(k))

FairSpec == Spec /\ Fairness

-----------------------------------------------------------------------------
(* Safety.                                                                 *)

Same == \A j, k \in Inputs : Number(j) = Number(k)

\* "wait for all input to have n=0 ... wait for all input <nmax to reach nmax"
\* (pluginDripMulti.cpp:130): with /sync, a group that leaves has one frame number,
\* unless a movie started again while the group was made (skipAllUntil(0) skips nothing);
\* and never more is skipped than must be: some input lost no image to the group.
InStepOrRestart ==
    /\ (pc = "send" /\ sync) => Same \/ zero
    /\ skipped # Inputs

-----------------------------------------------------------------------------
(* Liveness.                                                               *)

\* Movies that got out of step when one of them looped are in step again and
\* again, as long as the plugin is left alone (skipAllUntil, lines 210-227).
BackInStep ==
    <>[](sync /\ ~paused /\ ~initializing) => []<>(pc = "send" /\ Same)
=============================================================================
