SPECIFICATION Spec
CONSTANTS
    Tags <- MCTags
    Numbered <- MCNumbered
    AutoTags = {"auto"}
    FlagTags = {"flag"}
    Names <- MCTags
    SafeTag <- MCSafeTag
    NoFragment = NoFragment
    Undecodable = Undecodable
    Nothing = Nothing
    Bodies <- MCBodies
INVARIANTS
    TypeOK
    ReferencesResolve
    ListedIsProxied
    DistinctNamesRoute
CHECK_DEADLOCK FALSE
