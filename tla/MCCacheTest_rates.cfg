CONSTANTS
    Experiments <- Predicted
    Caches <- ArgsOf
    sizeof_long = 8
    MAX_SIZE = 1024
    ArrayLength = 1536
    mem <- Array
    Addresses <- AllLongs
    Rands = {0}
    JunkTag = 0
    JunkByte = 0
    MaxReads = 1536
SPECIFICATION TestSpec
INVARIANT SumOfArray
INVARIANT MissRateAsPredicted
CHECK_DEADLOCK FALSE
