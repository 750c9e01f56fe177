---------------------------- MODULE MCService ----------------------------
(***************************************************************************)
(* What must eventually happen for a client: the worker and the requests   *)
(* (Automation), the reloads (ConfigApply) and the clients of the feed     *)
(* (MessageFeed), side by side.  A behaviour follows one of the models     *)
(* (unit); a fair action of another model is not enabled in it, so each    *)
(* model's fairness is asked of its own behaviours.                        *)
(***************************************************************************)
EXTENDS MCRequests, MessageFeed

CONSTANTS c1, c2, c3

\* The worker has stopped and nobody asks.
AutomationOver ==
    /\ req = [r \in Requests |-> "done"] /\ mutation = NoOne /\ configMu = NoOne
    /\ ctx = "none" /\ wake = FALSE /\ stopping = TRUE
    /\ policy = [s \in Subs |-> 1] /\ catalog = 1
    /\ wpc = "ended" /\ todo = {} /\ cur = NoOne /\ regularDue = FALSE
    /\ sawPolicy = [s \in Subs |-> 0] /\ sawCatalog = 0 /\ signature = [s \in Subs |-> 0]
    /\ nextUpdate = [s \in Subs |-> "none"] /\ nextHealth = [s \in Subs |-> "none"]
    /\ nextRetry = [s \in Subs |-> "none"]
    /\ groupNext = [g \in Groups |-> "none"] /\ groupSignature = [g \in Groups |-> 0]

ServiceInit ==
    /\ unit \in {"automation", "config", "feed"}
    /\ IF unit = "automation" THEN AutomationInit ELSE AutomationOver
    /\ Init
    /\ unit # "config" => core = Off /\ store = [sel |-> NoServer, ver |-> 1]
    /\ FeedInit

ServiceNext ==
    /\ UNCHANGED unit
    /\ \/ unit = "automation" /\ AutomationNext /\ UNCHANGED <<vars, feedVars>>
       \/ unit = "config" /\ Next /\ UNCHANGED <<automationVars, feedVars>>
       \/ unit = "feed" /\ FeedNext /\ UNCHANGED <<automationVars, vars>>

-----------------------------------------------------------------------------
(* Fairness.                                                                *)

\* The worker's goroutine runs on, downloads and probes have timeouts, time
\* passes, and a handler that has the turn finishes.  Nothing obliges a client
\* to wait, or the lock to be free when a request polls for it.
AutomationFairness ==
    LET on == unit = "automation" IN
    /\ WF_automationVars(on /\ Worker)
    /\ WF_automationVars(on /\ Tick)
    /\ \A r \in Requests :
          /\ WF_automationVars(on /\ TakeTurn(r)) /\ WF_automationVars(on /\ GiveUp(r))
          /\ WF_automationVars(on /\ TryLock(r)) /\ WF_automationVars(on /\ (Mutate(r) \/ Release(r)))

\* Every thread runs on; start's mutex is handed to a waiter that has waited
\* long enough.
ConfigFairness ==
    LET on == unit = "config" IN
    /\ WF_vars(on /\ Outcome)
    /\ WF_vars(on /\ BackgroundDone)
    /\ \A t \in Threads :
          /\ WF_vars(on /\ (NewTemplateFromConnectedServers(t) \/ Stop(t) \/ StartCommit(t)))
          /\ SF_vars(on /\ StartProcess(t))

\* Goroutines that can run do run; clients and producers owe nothing.
FeedFairness ==
    LET on == unit = "feed" IN
    WF_feedVars(on /\ \E c \in Clients, m \in Products :
        \/ SubscribeMessage(c, m)
        \/ NewMessageHandler(c)
        \/ WriteReturns(c)
        \/ Read(c, m)
        \/ RangeEnds(c, m)
        \/ \E ok \in BOOLEAN : Write(c, m, ok))

ServiceSpec ==
    /\ ServiceInit
    /\ [][ServiceNext]_<<unit, automationVars, vars, feedVars>>
    /\ AutomationFairness /\ ConfigFairness /\ FeedFairness
=============================================================================
