----------------------------- MODULE DnsModule -----------------------------
(***************************************************************************)
(* Start and stop of the core process and of its DNS module: executeRun     *)
(* (run.go), startDnsModuleWithXray and stopDnsModule (dns_module.go),      *)
(* Start and Stop of DnsModule (module.go) and of DnsListener (listener.go).*)
(* The addresses the module listens on come from the service's settings     *)
(* (dnsModuleListenAddr, dnsModuleExtraListenAddrs, template_dns.go).       *)
(*                                                                         *)
(* Interleaved: the main goroutine, a serving goroutine per socket, and     *)
(* the queries in flight.  m.mu is an RWMutex: main holds it over the whole *)
(* of Start and Stop, a query takes it for reading in GetRouter and         *)
(* GetUpstreamManager.                                                      *)
(***************************************************************************)
EXTENDS Integers, Sequences, FiniteSets

CONSTANTS
    Lookups,        \* the queries in flight, at most
    ListenSettings, \* [listen : [host, port], shared : BOOLEAN]: DnsListenAddr, port sharing or IP forwarding
    Hosts           \* [os, ipv6, tun, port53]: the platform, and whether port 53 is free

VARIABLES
    mphase,         \* where the main goroutine is
    mlock,          \* whether main holds m.mu
    maddrs,         \* the addresses of the listener configuration
    mnext,          \* the index Start binds or Stop shuts down next
    mservers,       \* per address and protocol: the server
    mqueries,       \* per query: [at, server]
    mxray           \* the xray instance: "down", "up" or "closed"

moduleVars == <<mphase, mlock, maddrs, mnext, mservers, mqueries, mxray>>
-----------------------------------------------------------------------------
(* The listener addresses *)

Addr(h, p) == [host |-> h, port |-> p]
Stock == Addr("0.0.0.0", "52353")
\* An empty host is the wildcard to the kernel, and to net.ParseIP no address
Unspecified(h) == h \in {"", "0.0.0.0", "::"}
IsLoopback(h) == h \in {"127.0.0.1", "127.2.0.17", "::1"}
IsV4(h) == h \notin {"::", "::1"}
NoAddr == Addr("", "")

dnsModuleListenAddr(set) ==
    IF set.listen \notin {NoAddr, Stock} THEN set.listen
    ELSE IF set.shared THEN Stock ELSE Addr("127.0.0.1", "52353")

\* DnsModulePort: the port of DnsListenAddr, the stock one when it has none
dnsModulePort(set) == IF set.listen = NoAddr THEN "52353" ELSE set.listen.port

dnsModuleExtraListenAddrs(set, host) ==
    LET h  == dnsModuleListenAddr(set).host
        p  == dnsModulePort(set)
        v6 == IF ~Unspecified(h) /\ IsV4(h) /\ host.ipv6 THEN <<Addr("::1", p)>> ELSE <<>>
        covered == IF Unspecified(h) THEN <<>>
                   ELSE (IF IsLoopback(h) THEN <<>> ELSE <<Addr("127.0.0.1", p)>>)
                        \o <<Addr("127.2.0.17", p)>>
    IN  CASE host.os = "darwin" -> v6 \o (IF host.tun /\ host.port53 THEN <<Addr("127.0.0.1", "53")>> ELSE <<>>)
          [] host.os = "linux" -> v6 \o covered
                                     \o (IF host.port53 THEN <<Addr("127.2.0.17", "53")>> ELSE <<>>)
          [] OTHER -> v6

\* The kernel refuses a second socket on an address, and one beside a wildcard
Conflicts(a, b) == a.port = b.port /\ (a.host = b.host \/ Unspecified(a.host) \/ Unspecified(b.host))
-----------------------------------------------------------------------------
Protocols == {"udp", "tcp"}
NoQuery == [at |-> "none", server |-> <<0, "udp">>]
Servers == DOMAIN mservers
On(srv) == {q \in Lookups : mqueries[q].at # "none" /\ mqueries[q].server = srv}

ModuleAt(from, to) == mphase = from /\ mphase' = to

\* Mutant: the module starts before the core does.
StartXray_NotStarted ==
    /\ mphase = "boot"
    /\ \/ mphase' = "module" /\ mxray' = mxray
       \/ mphase' = "exited" /\ UNCHANGED mxray
    /\ UNCHANGED <<mlock, maddrs, mnext, mservers, mqueries>>

\* startXrayFromFiles and server.Start
StartXray ==
    /\ mphase = "boot"
    /\ \/ mphase' = "module" /\ mxray' = "up"
       \/ mphase' = "exited" /\ UNCHANGED mxray
    /\ UNCHANGED <<mlock, maddrs, mnext, mservers, mqueries>>

\* startDnsModuleWithXray up to the listener: a configuration without
\* dns_module is skipped, one that cannot be read or built ends the process
startDnsModuleWithXray ==
    /\ mphase = "module"
    /\ \/ mphase' = "binding" /\ mlock' = TRUE
       \/ mphase' = "running" /\ UNCHANGED mlock
       \/ mphase' = "exited" /\ UNCHANGED mlock
    /\ mnext' = 1
    /\ UNCHANGED <<maddrs, mservers, mqueries, mxray>>

Bound(i) == mservers[<<i, "udp">>] # "none"
Bindable(i) == \A j \in 1 .. Len(maddrs) : Bound(j) => ~Conflicts(maddrs[i], maddrs[j])

\* startPair: both sockets are bound and their goroutines started, or neither
startPair ==
    /\ mphase = "binding" /\ mnext <= Len(maddrs) /\ Bindable(mnext)
    /\ mservers' = [s \in Servers |-> IF s[1] = mnext THEN "bound" ELSE mservers[s]]
    /\ mnext' = mnext + 1
    /\ UNCHANGED <<mphase, mlock, maddrs, mqueries, mxray>>

\* another process has the address, or an earlier listener of ours
BindFails ==
    /\ mnext <= Len(maddrs) /\ ModuleAt("binding", "cleanup")
    /\ mnext' = 1
    /\ UNCHANGED <<mlock, maddrs, mservers, mqueries, mxray>>

\* the end of Start; GetRouter and Reload follow without the lock
Started ==
    /\ mnext > Len(maddrs) /\ ModuleAt("binding", "running")
    /\ mlock' = FALSE
    /\ UNCHANGED <<maddrs, mnext, mservers, mqueries, mxray>>

\* A serving goroutine reaches ActivateAndServe
ActivateAndServe(srv) ==
    /\ mservers[srv] = "bound"
    /\ mservers' = [mservers EXCEPT ![srv] = "serving"]
    /\ UNCHANGED <<mphase, mlock, maddrs, mnext, mqueries, mxray>>

\* SIGTERM: the deferred stopDnsModule, then Stop takes the lock
Signal ==
    /\ ModuleAt("running", IF \E s \in Servers : mservers[s] # "none" THEN "stopping" ELSE "closing")
    /\ UNCHANGED <<mlock, maddrs, mnext, mservers, mqueries, mxray>>
StopLocks ==
    /\ ModuleAt("stopping", "shutdown") /\ mlock' = TRUE /\ mnext' = 1
    /\ UNCHANGED <<maddrs, mservers, mqueries, mxray>>

\* The servers of l.servers in the order Stop shuts them down
ShutdownOrder == [k \in 1 .. 2 * Len(maddrs) |-> <<(k + 1) \div 2, IF k % 2 = 1 THEN "udp" ELSE "tcp">>]
Current == ShutdownOrder[mnext]

\* Shutdown of one server: it stops reading and waits for its handlers; one
\* that has not been activated yet only returns an error
ShutdownBegins ==
    /\ mphase \in {"shutdown", "cleanup"} /\ mnext <= 2 * Len(maddrs)
    /\ mservers[Current] = "serving"
    /\ mservers' = [mservers EXCEPT ![Current] = "closing"]
    /\ UNCHANGED <<mphase, mlock, maddrs, mnext, mqueries, mxray>>
ShutdownReturns ==
    /\ mphase \in {"shutdown", "cleanup"} /\ mnext <= 2 * Len(maddrs)
    /\ mservers[Current] = "closing" => On(Current) = {}
    /\ mservers[Current] # "serving"
    /\ mservers' = [mservers EXCEPT ![Current] = IF @ = "closing" THEN "stopped" ELSE @]
    /\ mnext' = mnext + 1
    /\ UNCHANGED <<mphase, mlock, maddrs, mqueries, mxray>>

\* wg.Wait: every serving goroutine has returned
ListenerStopped ==
    /\ mnext > 2 * Len(maddrs) /\ \A s \in Servers : mservers[s] \in {"none", "stopped"}
    /\ \/ ModuleAt("shutdown", "closing") \/ ModuleAt("cleanup", "exited")
    /\ mlock' = FALSE
    /\ UNCHANGED <<maddrs, mnext, mservers, mqueries, mxray>>

\* server.Close, and the process is gone
CloseXray ==
    /\ ModuleAt("closing", "exited") /\ mxray' = "closed"
    /\ UNCHANGED <<mlock, maddrs, mnext, mservers, mqueries>>

Move(q, from, to) == mqueries[q].at = from /\ mqueries' = [mqueries EXCEPT ![q].at = to]
QueryOnly == UNCHANGED <<mphase, mlock, maddrs, mnext, mservers, mxray>>

Arrives(q, srv) ==
    /\ mphase # "exited" /\ mqueries[q].at = "none" /\ mservers[srv] = "serving"
    /\ mqueries' = [mqueries EXCEPT ![q] = [at |-> "waiting", server |-> srv]]
    /\ QueryOnly
\* HandleQuery: GetRouter, then GetUpstreamManager
GetRouter(q) == mphase # "exited" /\ ~mlock /\ Move(q, "waiting", "routed") /\ QueryOnly
GetUpstreamManager(q) == mphase # "exited" /\ ~mlock /\ Move(q, "routed", "exchanging") /\ QueryOnly
LookupAnswered(q) ==
    /\ mphase # "exited" /\ mqueries[q].at = "exchanging"
    /\ mqueries' = [mqueries EXCEPT ![q] = NoQuery] /\ QueryOnly

ModuleInit ==
    /\ mphase = "boot" /\ mlock = FALSE /\ mnext = 1 /\ mxray = "down"
    /\ \E set \in ListenSettings, host \in Hosts :
          maddrs = <<dnsModuleListenAddr(set)>> \o dnsModuleExtraListenAddrs(set, host)
    /\ mservers = [s \in (1 .. Len(maddrs)) \X Protocols |-> "none"]
    /\ mqueries = [q \in Lookups |-> NoQuery]

MainStep ==
    \/ StartXray \/ startDnsModuleWithXray \/ startPair \/ Started
    \/ StopLocks \/ ShutdownBegins \/ ShutdownReturns \/ ListenerStopped \/ CloseXray
QueryStep(q) == GetRouter(q) \/ GetUpstreamManager(q) \/ LookupAnswered(q)

ModuleNext ==
    \/ MainStep \/ BindFails \/ Signal
    \/ \E s \in Servers : ActivateAndServe(s)
    \/ \E q \in Lookups : QueryStep(q) \/ \E s \in Servers : Arrives(q, s)

ModuleSpec == ModuleInit /\ [][ModuleNext]_moduleVars
-----------------------------------------------------------------------------
(* The lock is held in Start and Stop only; a stopped server has no query.   *)
ModuleTypeOK ==
    /\ mlock <=> mphase \in {"binding", "cleanup", "shutdown"}
    /\ \A s \in Servers : mservers[s] \in {"none", "bound", "serving", "closing", "stopped"}
    /\ \A q \in Lookups : mqueries[q].at # "none" => mservers[mqueries[q].server] # "stopped"

(* The xray instance outlives the queries: while one is being exchanged, its *)
(* dispatcher is up (executeRun starts xray first and closes it last).       *)
XrayOutlivesQueries ==
    \A q \in Lookups : mphase # "exited" /\ mqueries[q].at = "exchanging" => mxray = "up"

(* A graceful exit answers every query it accepted: once xray is closed no   *)
(* query is in flight and no socket of the module is still served.           *)
ClosedIsQuiet ==
    mxray = "closed" => \A s \in Servers : mservers[s] \in {"none", "stopped"} /\ On(s) = {}

(* No query is routed before Start is through: until then GetRouter waits.   *)
RoutedAfterStart ==
    \A q \in Lookups : mqueries[q].at \in {"routed", "exchanging"} => mphase \notin {"boot", "module", "binding", "cleanup"}

(* While the module keeps a port other than 53 and a host other than the     *)
(* hijack's own 127.2.0.17, the addresses the service adds for it            *)
(* (dnsModuleExtraListenAddrs) are ones the kernel allows beside each other; *)
(* a collision would end the core with code 23.                              *)
ListenersDoNotCollide ==
    maddrs[1].port # "53" /\ maddrs[1].host # "127.2.0.17" =>
        \A i, j \in 1 .. Len(maddrs) : i # j => ~Conflicts(maddrs[i], maddrs[j])

(* Start, stop and queries in flight: xray is there for every exchange, a    *)
(* closed module is quiet, nothing is routed early, and no two listeners     *)
(* collide.                                                                  *)
ModuleIsSafe ==
    ModuleTypeOK /\ XrayOutlivesQueries /\ ClosedIsQuiet /\ RoutedAfterStart /\ ListenersDoNotCollide

(* A stop ends: after SIGTERM the main goroutine reaches the exit.           *)
StopReturns == mphase = "stopping" ~> mphase = "exited"
=============================================================================
