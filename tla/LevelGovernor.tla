---------------------------- MODULE LevelGovernor ----------------------------
(***************************************************************************)
(* What the player may rely on, whichever selector picks the level: the    *)
(* level is always a rung of the ladder, it may fall at any time, and it   *)
(* climbs one rung at a time, each climb a settled period after the change *)
(* before it.  AbrRecommended and AbrTrend are shown to implement it.      *)
(***************************************************************************)
EXTENDS Integers

CONSTANTS
    NumLevels,  \* number of rungs
    StartLevel, \* the rung published first
    Settle,     \* time that must have passed, and more, before a climb
    CalmCap     \* saturation of calm

VARIABLES
    level,      \* the published rung
    calm        \* time since the level last changed, saturated at CalmCap

Init == /\ level = StartLevel
        /\ calm = 0

Pass == /\ calm' = IF calm < CalmCap THEN calm + 1 ELSE calm
        /\ UNCHANGED level

Fall == /\ level' \in 0 .. level - 1
        /\ calm' = 0

Climb == /\ level + 1 < NumLevels
         /\ calm > Settle
         /\ level' = level + 1
         /\ calm' = 0

Next == Pass \/ Fall \/ Climb

Spec == Init /\ [][Next]_<<level, calm>>
=============================================================================
