CONSTANTS
    NfHosts <- MCNfHosts
    NetFamily <- MCNetFamily
    DnsPorts = {"52353", "5353"}
    MaxKills = 1
    Contents = {"link", "missing", "empty", "dhcp"}
    MaxKillsR = 2
    MaxWritesR = 2
    Targets = {t1, t2}
    UserChoices = {"off", "corp"}
    NoSnapshot = NoSnapshot
    MaxKillsP = 2
    MaxChangesP = 2
    Services = {wifi, lan}
    NoFile = NoFile
    MaxKillsT = 1
SPECIFICATION HostSpec
INVARIANTS NetfilterSafe  ProxyIsGivenBack 
PROPERTIES StopLeavesNothing UsersEntriesStay
CHECK_DEADLOCK FALSE
