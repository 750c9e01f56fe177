\* Templates from every listed input, catalogs changed by two requests, databases
\* of earlier versions started three times, and two updates of the GFWList.
CONSTANTS
    Inputs <- MCInputs
    NoTemplate = NoTemplate
    Nodes <- MCNodes
    Feeds <- MCFeeds
    FirstCatalog <- MCFirst
    MaxServers = 2
    MaxSubs = 2
    MaxSubLen = 3
    MaxMembers = 2
    MaxRequests = 2
    FreshPages = TRUE
    NoNode = NoNode
    Bolts <- MCBolts
    Databases <- MCDatabases
    NoFile = NoFile
    Blank = Blank
    MaxDbSubs = 2
    MaxBoots = 3
    MaxChoices = 2
    Updaters = {"request", "ticker"}
    MaxRelease = 2
    Inodes = {1, 2, 3, 4}
    MaxUpdates = 2
    MaxKillsG = 1
SPECIFICATION DataSpec
INVARIANTS  CatalogSafe MigrationKeeps GfwListSafe
PROPERTIES SelectionsAreKept
CHECK_DEADLOCK FALSE
