SPECIFICATION FairSpec
CONSTANTS
    ByteSize = 4
    Reload = 6
INVARIANTS TypeOK PS2AssertBounded
PROPERTIES PS2Drains LightsDrain
