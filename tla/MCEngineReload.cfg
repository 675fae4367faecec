SPECIFICATION MCSpec
CONSTANTS
    Callers = {timer}
    Configs = {cfg1, cfg2}
    Instances = {i1, i2}
    Nobody = Nobody
    NoConfig = NoConfig
    NoInstance = NoInstance
PROPERTY
    PreviousKeptOnFailure
