CONSTANTS
    Capacity = 1
    DecoderCanFail = FALSE
    MaxPackets = 1
    MaxEras = 2
SPECIFICATION FairSpec
PROPERTIES
    ResumeShowsFrame
CHECK_DEADLOCK FALSE
