CONSTANTS
    block_size = 2
    disk <- Volume
    DiskSize <- Size
    AddressModulus = 1024
    Files <- Inodes
    Offsets <- Starts
    Sizes = {0, 1, 2, 3, 5, 8, 40}
    Disks = {"sound"}
    Unset = Unset
    Where <- Places
SPECIFICATION Spec
INVARIANT ShortOnlyAtEnd
