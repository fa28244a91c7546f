CONSTANTS
    Threads = {t1, t2}
    Names <- AllNames
    Requests <- SomeRequests
    InodeTable <- Places
    bg_inode_table <- Tables
    s_inodes_per_group = 4
    s_inode_size = 3
    Directories <- Lists
    direct_size <- Direct
    Garbled <- SomeGarbled
    Stale = {"x"}
    Unread <- SomeUnread
    Faults = {"inode", "content", "table"}
    VolumeFiles <- SomeFiles
    NULL = NULL
    Tree <- SmallTree
    Kind <- Kinds
SPECIFICATION FairMSpec
INVARIANT TypeOK
INVARIANT AnswerRight
INVARIANT MountedRight
INVARIANT UndefinedOnlyByOverlap
INVARIANT HandlerFitsKind
PROPERTY Served
CHECK_DEADLOCK FALSE
