\* Two requests, which may give up, against one worker; and every request on
\* the configuration, without the background update.
CONSTANTS
    r1 = r1
    r2 = r2
    s1 = s1
    s2 = s2
    g1 = g1
    NoOne = NoOne
    Requests = {r1, r2}
    Subs = {s1, s2}
    Mode <- MCMode
    Groups = {g1}
    MaxVersion = 2
    a = a
    b = b
    NoServer = NoServer
    Off = Off
    Test = Test
    Selections = {a, b}
    Versions = {1, 2}
    FailClosed = {1}
    NeedsGfwlist = {1, 2}
    GfwlistMode = {2}
    Operations = {"Start", "Stop", "Connect", "Disconnect", "Replace", "Apply", "Subscription", "Delete", "Import", "Latency", "Gfwlist"}
    Background = FALSE
SPECIFICATION RequestsSpec
INVARIANTS WritesWhatItProbed RecoveryKeepsADeadline FailureRestores 
 
CHECK_DEADLOCK FALSE
