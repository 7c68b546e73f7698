SPECIFICATION Spec
CONSTANTS
    HeaderSize = 2
    Pokes <- MCPokes
INVARIANTS TypeOK SaveIsDurable HeaderHealed NeverInverted
PROPERTY ImplementsDurable
