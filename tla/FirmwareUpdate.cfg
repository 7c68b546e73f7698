SPECIFICATION Spec
CONSTANTS
    MaxMemory = 8
    AddressSize = 10
    BlockSize = 2
    ToolCode = 4
    Chips <- MCChips
    Files <- MCFiles
    Strays <- MCStrays
    NoFile = NoFile
    MaxTries = 2
    MaxUnplugs = 1
INVARIANTS TypeOK ImageIsFile UpdatedMeansProgrammed
PROPERTIES FlashOnlyFromWholeFile UpdateEnds
