SPECIFICATION FairSpec
CONSTANTS
    ByteSize = 4
    NumEncoders = 1
    MaxSkip = 2
    StartPPR <- MCStartPPR
    StartHold <- MCStartHold
    PPRBytes <- MCPPRBytes
    HoldBytes <- MCHoldBytes
INVARIANTS TypeOK DecoderInv HeldDirection
PROPERTIES Resync NoDrift BackInRange DirectionAgrees ImplementsDial SpinDown
