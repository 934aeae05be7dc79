\* Movies that loop: what holds of the groups, and that they fall in step again.
SPECIFICATION FairSpec
CONSTANTS
    N = 3
    Length <- Lengths
    Offset <- Offsets
    Outs = {1}
    Pool = 2
INVARIANTS TypeOK InStepOrRestart
PROPERTIES BackInStep
