\* A subscription update whose reload fails.
CONSTANTS
    a = a
    b = b
    NoServer = NoServer
    Off = Off
    Test = Test
    Selections = {a, b}
    Versions = {1, 2}
    FailClosed = {}
    NeedsGfwlist = {2}
    GfwlistMode = {2}
    Operations = {"Subscription"}
    Background = FALSE
SPECIFICATION Spec
INVARIANTS SubscriptionStored
