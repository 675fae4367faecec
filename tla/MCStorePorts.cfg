SPECIFICATION WindowSpec
CONSTANTS
    Procs = {p, q}
    Fields = {url, lang, over}
    FormFields = {url, lang}
    UrlField = url
    Ids = {i, j}
    Tags = {a, b, c}
    MaxPort = 2
    MaxEdits = 2
    NoProc = NoProc
    Missing = Missing
    Torn = Torn
    NoForm = NoForm
    Windows = {p, q}
    CurrentVersion <- RunningVersion
    Releases <- Published
    NotANumber = NotANumber
    MaxChecks = 2
SYMMETRY Symmetry
INVARIANT
    PortsSurviveRestart
