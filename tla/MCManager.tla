----------------------------- MODULE MCManager -----------------------------
(***************************************************************************)
(* The manager that retains interception (CoreProcessManager) and the core *)
(* processes below its lock (CoreProcess), and the TUN inbound inside a    *)
(* core (TunInbound), side by side.  A behaviour follows one of them       *)
(* (unit); a fair action of another is not enabled in it, so the fairness  *)
(* of each is asked of its own behaviours.                                 *)
(***************************************************************************)
EXTENDS MCCoreProcessManager, CoreProcess, TunInbound

VARIABLE unit

\* Of the inbound a behaviour follows one kind of traffic, or the device: the
\* kinds share no more than the input path and the hijack's mutex.
Inbound == {"datagrams", "queries", "streams", "device"}
OneKind ==
    /\ unit # "datagrams" => UNCHANGED udpVars /\ tninput'.pc # "missed"
    /\ unit # "queries" => UNCHANGED dnsVars
    /\ unit # "streams" => UNCHANGED relayVars
    /\ unit \in {"streams", "device"} => UNCHANGED tncount
    /\ unit # "device" => tnpump' \in [Pumps -> {"off", "run"}] /\ tnwatch'.pc \in {"off", "wait"}
    /\ unit \in {"datagrams", "streams"} => tnhandler' \in {"down", "up"}

ManagerInit ==
    /\ unit \in {"manager", "process"} \cup Inbound
    /\ Init
    /\ ProcessInit
    /\ TunInboundInit
    /\ unit # "process" => cpos = "unix" /\ ~cpfixed /\ cpports = Free

ManagerNext ==
    /\ UNCHANGED unit
    /\ \/ unit = "manager" /\ Next /\ UNCHANGED <<processVars, tunInboundVars>>
       \/ unit = "process" /\ ProcessNext /\ UNCHANGED <<vars, tunInboundVars>>
       \/ unit \in Inbound /\ TunInboundNext /\ OneKind /\ UNCHANGED <<vars, processVars>>

-----------------------------------------------------------------------------
(* Fairness.                                                               *)

\* As FairSpec of CoreProcessManager.
ManagerFairness ==
    LET on == unit = "manager" IN
    /\ SF_vars(on /\ StartStep)
    /\ SF_vars(on /\ \E g \in Generations : handleUnexpectedStop(g))
    /\ WF_vars(on /\ \E g \in Generations : Monitor(g))

\* The code's own steps go on, a core loads, and one that is signalled ends;
\* the manager's mutex reaches a waiter.  No core has to crash and nobody has
\* to ask for a start.
ProcessFairness ==
    LET on == unit = "process" IN
    /\ WF_processVars(on /\ \E q \in Starts :
            NewProcess(q) \/ CoreBinds(q) \/ Signalled(q) \/ WaitReturns(q))
    /\ SF_processVars(on /\ \E q \in Starts : waiterReports(q))

\* Some goroutine that can run does, or time passes; the dispatcher ends a link
\* only when its queue is closed, and no device has to fail.
InboundFairness ==
    LET on == unit \in Inbound IN
    WF_tunInboundVars(on /\ (InputReturns \/ watch \/ CloseRest \/ PumpUnblocks \/ Tick
        \/ \E c \in UdpConns : Drains(c)
        \/ \E d \in DnsConns : readReplies(d)
        \/ \E r \in Relays : Relay(r)
        \/ \E i \in Pumps : PumpCloses(i)))

ManagerSpec ==
    /\ ManagerInit
    /\ [][ManagerNext]_<<unit, vars, processVars, tunInboundVars>>
    /\ ManagerFairness /\ ProcessFairness /\ InboundFairness
=============================================================================
