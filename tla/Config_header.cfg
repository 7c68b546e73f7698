SPECIFICATION Spec
CONSTANTS
    HeaderSize = 2
    Pokes <- MCPokes
INVARIANT HeaderMeansInitialized
