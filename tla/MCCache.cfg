CONSTANTS
    Caches <- SmallCaches
    sizeof_long = 2
    mem <- Bytes
    Addresses <- Reads
    Rands = {0, 1, 2, 3, 4, 5}
    JunkTag = 0
    JunkByte = 0
    MaxReads = 6
SPECIFICATION HSpec
INVARIANT TypeOK
INVARIANT SetsSound
INVARIANT ReadsReturnMemory
INVARIANT LruOrder
INVARIANT NoNeedlessMiss
CHECK_DEADLOCK FALSE
