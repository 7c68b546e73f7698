SPECIFICATION Spec
CONSTANTS
    Board = 2
    TeethUsed <- MCTeeth
    LightsUsed <- MCLights
    MapsUsed <- MCMaps
INVARIANTS TypeOK MixedOnlyByFailure ReopensAsClosed
PROPERTY AppliedAsChosen
