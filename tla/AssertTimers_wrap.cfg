SPECIFICATION Spec
CONSTANTS
    ByteSize = 4
    Reload = 6
INVARIANT LightsTimeoutKept
