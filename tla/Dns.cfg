CONSTANTS
    qdirect = qdirect
    qproxy = qproxy
    qreject = qreject
    qbypass = qbypass
    qstub = qstub
    udirect = udirect
    uproxy = uproxy
    NoUpstream = NoUpstream
    Queries = {qdirect, qproxy, qreject, qbypass, qstub}
    Upstreams = {udirect, uproxy}
    NameOf <- MCName
    Action <- MCAction
    RoutedTo <- MCRoute
    AddrOf <- MCAddr
    TagOf <- MCTag
    Handlers = {h1, h2}
    Prefetchers = {p1, p2}
    TTLs = {0, 9}
    MaxSize = 1
    MinTTL = 2
    MaxTTL = 3
    Threshold = 1
    Prefetch = TRUE
    NegativeCache = TRUE
    NegativeTTL = 1
    Backoff <- MCBackoff
    MaxClock = 4
    MaxQueries = 3
    Nil = Nil
    RuleSets <- MCRuleSets
    DefaultRules <- MCDefault
    NodeSets <- MCNodes
    NameQueries <- MCQueries
    IPs <- MCIPs
    Loopback = {"127.0.0.1", "127.2.0.17"}
    SystemDns <- MCSystem
    LiveDns <- MCLive
    OwnDns <- MCOwn
    PublicDns <- MCPublic
    Answers <- MCAnswers
    Sites <- MCSites
    Slots = {s1, s2}
    Channels <- MCChannels
    ProxyMap = {"proxy"}
    Lookups = {q1}
    ListenSettings <- MCSettings
    Hosts <- MCHosts
SPECIFICATION DnsSpec
INVARIANTS CacheSafe  ExchangeIsSafe ModuleIsSafe
CHECK_DEADLOCK FALSE
