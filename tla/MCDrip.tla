------------------------------- MODULE MCDrip -------------------------------
(* A small instance of Drip: two rates, one twice the other, and the first   *)
(* messages of playMovie, of a program that shows the first image at once,   *)
(* and of one that counts its images (scanImages).                           *)
EXTENDS Drip

TwoPeriods == {2, 4}
ProgramStarts ==
    {<<Msg("/fps", 4, 0), Msg("/start", Grain, Now)>>,
     <<Msg("/fps", 2, 0), Msg("/predisplay-first", 0, 0), Msg("/start", Grain, Now)>>,
     <<Msg("/fps", 2, 0), Msg("/count", 2, 0), Msg("/start", 0, Now)>>}

\* What the proofs about FollowsPlayhead assume holds here.
ASSUME MCDripAssumption == WholeSteps /\ SettingsFirst
=============================================================================
