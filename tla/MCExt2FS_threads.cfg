CONSTANTS
    Threads = {t1, t2}
    Names <- AllNames
    Requests <- SomeRequests
    InodeTable <- Places
    bg_inode_table <- Tables
    s_inodes_per_group = 4
    s_inode_size = 3
    Directories <- Lists
    direct_size <- Direct
    Garbled <- SomeGarbled
    Stale = {}
    Unread <- SomeUnread
    Faults = {}
    VolumeFiles <- SomeFiles
    NULL = NULL
    Tree <- SmallTree
    Kind <- Kinds
SPECIFICATION MSpec
INVARIANT LookupFindsFile
CHECK_DEADLOCK FALSE
