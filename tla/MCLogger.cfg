SPECIFICATION FairViewerSpec
CONSTANTS
    Writers = {timer, ui}
    UI = ui
    Channels = {viewer}
    RingSize = 2
    Capacity = 1
    MaxLines = 3
    Errors = {2}
    MaxEnding = 1
    MaxPosted = 1
INVARIANTS
    TypeOK
    LinesAreLatest
    WorksOnlyWhenAsked
PROPERTIES
    
    LogNeverBlocks
    ViewCatchesUp
