CONSTANTS
    NumPages  <- MCNumPages
    MaxOrder  <- MCMaxOrder
    Usable    <- MCUsable
    BlockSize <- MCBlockSize
SPECIFICATION Spec
INVARIANTS
    TypeOK
    NoOverlap
    NoLeak
    ExactAccounting
    FullyCoalesced
    NoFalseOOM
PROPERTIES
    MergeUnlinksListed
