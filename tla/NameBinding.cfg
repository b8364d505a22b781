SPECIFICATION NameSpec
CONSTANTS
    Locals = {x}
    Globals = {g}
    This = this
    NoName = NoName
    Features = {"nestedFn", "fieldFn"}
    MaxCells = 2
    MaxVids = 2
    MaxMentions = 1
    MaxFrames = 3
    MaxCalls = 2
    Files <- MCFiles
    EntryFile <- MCEntryFile
    Cwd = "app"
    Packages = "lib"
    Urls = {"http"}
    Cache = "cache"
    Specs = {"util", "ui"}
    Declared = {m, n}
    m = m
    n = n
    Kinds = {"class", "split"}
    MaxModules = 3
    MaxStatements = 4
SYMMETRY Symmetry
INVARIANTS NoDangling OneCellPerVariable ImportedNamesAreExact
PROPERTIES ImportsLeaveTheirImporter
CHECK_DEADLOCK FALSE
