CONSTANTS
    block_size = 2
    disk <- Volume
    DiskSize <- Size
    AddressModulus = 1024
    Files <- Inodes
    Offsets <- Starts
    Sizes = {0, 1, 2, 3, 5, 8, 40}
    Disks = {"sound", "failing"}
    Unset = Unset
    Where <- Places
SPECIFICATION FairSpec
INVARIANT TypeOK
INVARIANT RightWords
INVARIANT AllOrNothing
INVARIANT NothingBehindEnd
INVARIANT SolidIsServed
PROPERTY Answered
