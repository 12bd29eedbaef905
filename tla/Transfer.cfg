CONSTANTS
    Batches <- SmallBatches
    ChunkSize = 2
    MaxBuffer = 3
    LowWater = 1
SPECIFICATION FairSpec
CHECK_DEADLOCK FALSE
INVARIANTS
    TypeOK
    FilesIntact
    DownloadsOffered
    TransferInv
    CompleteMeansEverything
    CancelStops
    SenderReportsEverything
PROPERTIES
    ImplementsTransfer
    BatchArrives
