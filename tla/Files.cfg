\* A shell and one program, two descriptors each, blocks of two bytes; no name is
\* longer than FILENAME_LEN.
CONSTANTS
    PCB_SIZE = 2
    MAX_FD_AMNT = 4
    FILENAME_LEN = 2
    BlockSize = 2
    MAX_LOAD = 6
    direntries <- Disk
    inodes <- DiskInodes
    ElfBlocks = {3}
    Names <- ShortNames
    Counts <- ReadCounts
    Nothing = Nothing
SPECIFICATION Spec
INVARIANTS TypeOK DescriptorsKept ReadsInOrder ListingComplete
PROPERTY ImplementsOpenFiles
