SPECIFICATION Spec
CONSTANTS
    Packets = 2
    None = None
INVARIANTS TypeOK AnswersMatch ReportsArrive 
PROPERTY MainLoopReturns
