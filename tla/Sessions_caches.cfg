SPECIFICATION FairSpec
CONSTANTS
    Helpers <- AllHelpers
    Profiles = {p1, p2}
    MaxFaults = 1
    MaxEnds = 2
    MaxRotations = 1
INVARIANTS TypeOK EffectsAsReported OneRepetitionSuffices EmptiedIsFresh
PROPERTIES OthersOnlyAfterThem CallsHeal
CHECK_DEADLOCK FALSE
