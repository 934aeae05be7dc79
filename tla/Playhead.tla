------------------------------ MODULE Playhead ------------------------------
(* What the schedule of a drip promises: a playhead that moves over the      *)
(* film at the rate that was asked for, from the moment it was asked for. A  *)
(* change of rate bends its path and does not make it jump; a pause holds it.*)
EXTENDS Integers

CONSTANTS Rates, Step       \* positions per unit of time; units per step of the clock

VARIABLES clock, mode, rate, pos

Head == <<mode, rate, pos>>
Modes == {"stopped", "moving", "still"}

Init ==
    /\ clock = 0
    /\ mode \in Modes
    /\ rate \in Rates
    /\ pos \in Int

Tick ==
    /\ clock' = clock + Step
    /\ pos' = IF mode = "moving" THEN pos + Step * rate ELSE pos
    /\ UNCHANGED <<mode, rate>>

\* Position 0 is reached at any time from now.
Start ==
    /\ mode = "stopped"
    /\ mode' = "moving"
    /\ rate' \in Rates
    /\ pos' \in Int /\ pos' <= 0
    /\ UNCHANGED clock

SetRate ==
    /\ mode = "moving"
    /\ rate' \in Rates
    /\ UNCHANGED <<clock, mode, pos>>

Pause ==
    /\ mode = "moving" /\ mode' = "still"
    /\ UNCHANGED <<clock, rate, pos>>

Resume ==
    /\ mode = "still" /\ mode' = "moving"
    /\ UNCHANGED <<clock, rate, pos>>

Stop ==
    /\ mode' = "stopped" /\ pos' = 0 /\ rate' \in Rates
    /\ UNCHANGED clock

Next == Tick \/ Start \/ SetRate \/ Pause \/ Resume \/ Stop

Spec == Init /\ [][Next]_<<clock, Head>>
=============================================================================
