SPECIFICATION DSpec
CONSTANTS
    ByteSize = 4
    NumEncoders = 1
    MaxSkip = 1
    StartPPR <- MCStartPPR
    StartHold <- MCStartHold
    PPRBytes <- MCNone
    HoldBytes <- MCNone
    SettingsHigh = 1
PROPERTY AbsolutePosition
