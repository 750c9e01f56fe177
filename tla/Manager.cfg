\* No hooks: a start for an equal netfilter setting retains the interception.
\* Every goroutine runs on; starts, reloads and stops come at any moment.
CONSTANTS
    tproxy = tproxy
    tun = tun
    sysproxy = sysproxy
    closed = closed
    NoSetting = NoSetting
    Settings = {tproxy, sysproxy}
    TransparentClose = {}
    TransparentType <- MCType
    Lite = FALSE
    TransparentHook = FALSE
    CoreHook = FALSE
    Preserve = {TRUE, FALSE}
    Callers = {"stop"}
    StoreFails = TRUE
    MaxGeneration = 2
    MaxStarts = 2
    MaxDeaths = 1
    Sources = {1}
    UdpConns = {1, 2, 3}
    DnsConns = {1, 2, 3}
    Relays = {1, 2}
    UdpQueue = 1
    DnsMaxSessions = 1
    DnsUDPIdle = 1
    MaxDatagrams = 3
SPECIFICATION ManagerSpec
INVARIANTS RetentionIsSafe   ProcessSafe InboundSafe FailureIsReported
PROPERTIES ManagerGoesOn CoresEnd InboundEnds
CHECK_DEADLOCK FALSE
