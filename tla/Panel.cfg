SPECIFICATION FairSpec
CONSTANTS
    WordSize = 5
    Reload = 3
    Used <- MCUsed
    Spins <- MCSpins
    HostMaps <- MCHostMaps
    CustomPokes <- MCPokes
INVARIANT HostLightsKept
PROPERTIES PadFollows LightsFollow
