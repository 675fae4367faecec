SPECIFICATION Spec
CONSTANTS
    MaxVersion = 2
    NoURL = {0}
    NoConfig = NoConfig
INVARIANT
    StatusHonest
