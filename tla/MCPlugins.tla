----------------------------- MODULE MCPlugins ------------------------------
(* A source that takes empty images from a recycling pool, and a sink that   *)
(* gives them back: the smallest pipeline with every kind of connection.     *)
EXTENDS Plugins, TLC

CONSTANTS src, snk, pool, mid, i1, i2, i3

PipeIn == src :> pool @@ snk :> mid
PipeOut == src :> mid @@ snk :> None
PipeEvent == src :> mid @@ snk :> None
\* The source announces its images in the control lane.
PipeEventOp == src :> "push_back_ctrl" @@ snk :> "push_back_ctrl"
PipePool == pool :> <<i1, i2>> @@ mid :> <<>>

\* The source polls its control lane and its commands, then takes an empty image from
\* the back of its pool; the sink waits for images and commands alike.
PipeLoop == src :> <<"ctrl_nowait", "noctrl_nowait", "back_wait">> @@ snk :> <<"front_wait">>
=============================================================================
