CONSTANTS
    N <- Side
    Commands <- CommandLines
    Versions = {"baseMask", "mask1", "mask2", "mask3", "mask4", "mask5", "mask6"}
    Fills = {0, 77}
SPECIFICATION FairSpec
INVARIANT TypeOK
INVARIANT WeightedAverage
INVARIANT EveryNeighbourOnce
PROPERTY OutsideUntouched
INVARIANT UndefinedOnlyIfThin
INVARIANT SavedReadsBack
PROPERTY MainSucceeds
CHECK_DEADLOCK FALSE
