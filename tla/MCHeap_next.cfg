CONSTANTS
    HeapSize = 10
    MAX_UNUSED_BYTES = 4
    SizeModulus = 64
    Requests <- SmallRequests
    SearchAlgs <- NextFitOnly
    GuardSizes <- EitherGuard
    Bases <- AllBases
    Regions <- AllRegions
    Junk = Junk
    NULL = NULL
SPECIFICATION FairSpec
PROPERTY PayloadsKept
PROPERTY SpoiltOnlyByMerge
PROPERTY NullMissesOnlyFirst
PROPERTY SearchEnds
CHECK_DEADLOCK FALSE
