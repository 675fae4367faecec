SPECIFICATION FairSpec
CONSTANTS
    Callers = {timer, ui, other}
    Configs = {cfg1, cfg2}
    Instances = {i1, i2}
    Nobody = Nobody
    NoConfig = NoConfig
    NoInstance = NoInstance
INVARIANTS
    TypeOK
    OneBox
    NoLeak
    StateTruthful
PROPERTIES
    ImplementsAbs
    CallsReturn
