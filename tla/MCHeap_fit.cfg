CONSTANTS
    HeapSize = 12
    MAX_UNUSED_BYTES = 4
    SizeModulus = 64
    Requests <- SmallRequests
    SearchAlgs <- FitAlgs
    GuardSizes <- EitherGuard
    Bases <- AllBases
    Regions <- AllRegions
    Junk = Junk
    NULL = NULL
SPECIFICATION FairSpec
INVARIANT TypeOK
INVARIANT HeapConsistent
INVARIANT FitInvariant
INVARIANT PayloadsIntact
INVARIANT PayloadsPlaced
INVARIANT WasteBounded
INVARIANT AllFreedIsOneBlock
PROPERTY TakesRightBlock
PROPERTY MallocReturns
PROPERTY ImplementsAllocator
