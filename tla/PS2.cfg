SPECIFICATION Spec
CONSTANTS
    StateSize = 8
    CardBytes <- MCCardBytes
    MaxCard = 6
    MaxSince = 9
    MaxScans = 3
INVARIANTS TypeOK PollAnswered HighNotOlder
PROPERTY SilentAfterFrame
