SPECIFICATION FairSpec
CONSTANTS
    k1 = k1  k2 = k2
    a1 = a1  a2 = a2  a3 = a3  a4 = a4
    Keys <- MCKeys
    Actors <- MCActors
    Nobody = Nobody
    NoKey = NoKey
INVARIANTS NoStrandedWaiter
PROPERTIES NoOvertaking AbstractSpec LockMovesOn
