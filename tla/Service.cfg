\* Everyone runs on; requests may give up and the background update competes.
CONSTANTS
    r1 = r1
    r2 = r2
    s1 = s1
    s2 = s2
    g1 = g1
    NoOne = NoOne
    Requests = {r1, r2}
    Subs = {s2}
    Mode <- MCMode
    Groups = {g1}
    MaxVersion = 2
    a = a
    b = b
    NoServer = NoServer
    Off = Off
    Test = Test
    Selections = {a}
    Versions = {1}
    FailClosed = {}
    NeedsGfwlist = {1}
    GfwlistMode = {1}
    Operations = {"Replace", "Latency"}
    Background = TRUE
    c1 = c1
    c2 = c2
    c3 = c3
    Clients = {c1, c2, c3}
    Products = {"running_state"}
    BoxSize = 1
    MaxMessages = 2
SPECIFICATION ServiceSpec
INVARIANTS FeedSafe
PROPERTIES WorkerIsLive RequestsFinish LeaversAreForgotten
CHECK_DEADLOCK FALSE
