------------------------------ MODULE MCRQueue ------------------------------
(* A small instance of RQueue: which thread uses which operations.         *)
EXTENDS RQueue, TLC

CONSTANTS t1, t2, t3

\* A thread with every operation that does not wait, and two consumers that wait
\* on different conditions: a plugin that takes whatever comes, at either end,
\* and gives it back, and one that waits for control messages only, or for
\* anything but those.
EveryUse ==
    t1 :> PushOps \cup PopOps
        @@ t2 :> {"pop_front_wait", "pop_back_wait"}
        @@ t3 :> {"pop_front_ctrl_wait", "pop_front_noctrl_wait"}
=============================================================================
