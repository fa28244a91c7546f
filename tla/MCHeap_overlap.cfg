CONSTANTS
    HeapSize = 10
    MAX_UNUSED_BYTES = 4
    SizeModulus = 64
    Requests <- SmallRequests
    SearchAlgs <- NextFitOnly
    GuardSizes <- EitherGuard
    Bases <- AllBases
    Regions <- AllRegions
    Junk = Junk
    NULL = NULL
SPECIFICATION Spec
INVARIANT LivePayloadsDisjoint
CHECK_DEADLOCK FALSE
