----------------------------- MODULE Automation -----------------------------
(***************************************************************************)
(* The automation worker (subscription updates and automatic groups) and   *)
(* the dashboard requests it shares the configuration with.                *)
(*                                                                         *)
(* Requests take the one-slot mutation channel, cancel the worker's pass,  *)
(* and poll for ConfigurationMu until five seconds have passed.  The       *)
(* worker downloads and probes without the lock and compares what it saw   *)
(* with the configuration once it has it.                                  *)
(*                                                                         *)
(* Time: a deadline is "none" (the zero time), "later" or "due".  The      *)
(* configuration: policy[s] stands for subscriptionPolicySignature (0: not *)
(* there, or disabled), catalog for automaticGroupSignature.               *)
(***************************************************************************)
EXTENDS Naturals

CONSTANTS
    Requests,      \* dashboard requests; each is made once
    Subs, Mode,    \* subscriptions and their update mode
    Groups,        \* automatic and KeepCurrent groups
    NoOne,         \* no holder, no subscription, no group
    MaxVersion     \* bound: how many policies and catalogs are told apart

Modes == {"on_start", "at_interval", "interval_failsafe"}
Deadlines == {"none", "later", "due"}

ASSUME AutomationAssumption ==
    /\ Mode \in [Subs -> Modes]
    /\ MaxVersion \in Nat \ {0}
    /\ NoOne \notin Requests \cup Subs \cup Groups \cup {"worker"}
    /\ "worker" \notin Requests

VARIABLES
    req,           \* where each request is
    mutation,      \* who has the slot of the mutation channel
    configMu,      \* who holds ConfigurationMu
    ctx,           \* the context of the worker's pass
    wake,          \* automationWake is full
    stopping,      \* the function StartAutomation returned has been called
    policy, catalog,
    wpc,           \* where the worker is
    todo,          \* subscriptions or groups this pass has not come to yet
    cur,           \* the one it is at
    regularDue,    \* process's local of that name
    sawPolicy, sawCatalog,              \* what this pass read
    nextUpdate, nextHealth, nextRetry,  \* subscriptionSchedule
    signature,     \* subscriptionSchedule.signature, 0 when there is none
    groupNext, groupSignature           \* groupSchedule; signature 0: none

requests == <<req, mutation>>
conf     == <<policy, catalog>>
schedule == <<nextUpdate, nextHealth, nextRetry, signature>>
groups   == <<groupNext, groupSignature>>
pass     == <<wpc, todo, cur, regularDue, sawPolicy, sawCatalog>>
automationVars     == <<requests, configMu, ctx, wake, stopping, conf, pass, schedule, groups>>

\* Every variable keeps its type.
AutomationTypeOK ==
    /\ req \in [Requests -> {"waiting", "turn", "polling", "mutating", "releasing", "done", "refused"}]
    /\ mutation \in Requests \cup {NoOne}
    /\ configMu \in Requests \cup {"worker", NoOne}
    /\ ctx \in {"none", "live", "cancelled"}
    /\ wake \in BOOLEAN
    /\ stopping \in BOOLEAN
    /\ policy \in [Subs -> 0..MaxVersion]
    /\ catalog \in 1..MaxVersion
    /\ wpc \in {"enter", "read", "subs", "health", "fetch", "update", "finish", "check",
                "catalog", "groups", "probe", "lock", "write", "sleep", "asleep", "ended"}
    /\ todo \in (SUBSET Subs) \cup (SUBSET Groups)
    /\ cur \in Subs \cup Groups \cup {NoOne}
    /\ regularDue \in BOOLEAN
    /\ sawPolicy \in [Subs -> 0..MaxVersion]
    /\ sawCatalog \in 0..MaxVersion
    /\ \A d \in {nextUpdate, nextHealth, nextRetry} : d \in [Subs -> Deadlines]
    /\ signature \in [Subs -> 0..MaxVersion]
    /\ groupNext \in [Groups -> Deadlines]
    /\ groupSignature \in [Groups -> 0..MaxVersion]

AutomationInit ==
    /\ req = [r \in Requests |-> "waiting"]
    /\ mutation = NoOne
    /\ configMu = NoOne
    /\ ctx = "none"
    /\ wake = FALSE
    /\ stopping = FALSE
    /\ policy = [s \in Subs |-> 1]
    /\ catalog = 1
    /\ wpc = "enter"
    /\ todo = {}
    /\ cur = NoOne
    /\ regularDue = FALSE
    /\ sawPolicy = [s \in Subs |-> 0]
    /\ sawCatalog = 0
    /\ nextUpdate = [s \in Subs |-> "none"]
    /\ nextHealth = [s \in Subs |-> "none"]
    /\ nextRetry = [s \in Subs |-> "none"]
    /\ signature = [s \in Subs |-> 0]
    /\ groupNext = [g \in Groups |-> "none"]
    /\ groupSignature = [g \in Groups |-> 0]

-----------------------------------------------------------------------------
(* beginMutation and the function it returns.                              *)

\* The slot is taken, and whatever the worker is doing is cancelled.
TakeTurn(r) ==
    /\ req[r] = "waiting"
    /\ mutation = NoOne
    /\ mutation' = r
    /\ ctx' = IF ctx = "live" THEN "cancelled" ELSE ctx
    /\ req' = [req EXCEPT ![r] = "turn"]
    /\ UNCHANGED <<configMu, wake, stopping, conf, pass, schedule, groups>>

\* ConfigurationMu is taken at once or, when it is held, tried for again.
TryLock(r) ==
    \/ /\ req[r] \in {"turn", "polling"}
       /\ configMu = NoOne
       /\ configMu' = r
       /\ req' = [req EXCEPT ![r] = "mutating"]
       /\ UNCHANGED <<mutation, ctx, wake, stopping, conf, pass, schedule, groups>>
    \/ /\ req[r] = "turn"
       /\ configMu # NoOne
       /\ req' = [req EXCEPT ![r] = "polling"]
       /\ UNCHANGED <<mutation, configMu, ctx, wake, stopping, conf, pass, schedule, groups>>

\* The five seconds are over, or the client went away.
GiveUp(r) ==
    /\ req[r] \in {"waiting", "polling"}
    /\ mutation' = IF mutation = r THEN NoOne ELSE mutation
    /\ req' = [req EXCEPT ![r] = "refused"]
    /\ UNCHANGED <<configMu, ctx, wake, stopping, conf, pass, schedule, groups>>

\* The handler: it edits, adds or removes a subscription, a group or a server,
\* or touches none of them.  Nothing of it is visible before the unlock.
Mutate(r) ==
    /\ req[r] = "mutating"
    /\ configMu' = NoOne
    /\ req' = [req EXCEPT ![r] = "releasing"]
    /\ catalog' \in 1..MaxVersion
    /\ \/ UNCHANGED policy
       \/ \E s \in Subs, v \in 0..MaxVersion : policy' = [policy EXCEPT ![s] = v]
    /\ UNCHANGED <<mutation, ctx, wake, stopping, pass, schedule, groups>>

\* Mutant: a wake-up is sent only to a worker that is asleep.
Release_WakeSleeper(r) ==
    /\ req[r] = "releasing"
    /\ wake' = (wake \/ wpc = "asleep")
    /\ mutation' = NoOne
    /\ req' = [req EXCEPT ![r] = "done"]
    /\ UNCHANGED <<configMu, ctx, stopping, conf, pass, schedule, groups>>

\* NotifyAutomation, then the slot is given back.
Release(r) ==
    /\ req[r] = "releasing"
    /\ wake' = TRUE
    /\ mutation' = NoOne
    /\ req' = [req EXCEPT ![r] = "done"]
    /\ UNCHANGED <<configMu, ctx, stopping, conf, pass, schedule, groups>>

-----------------------------------------------------------------------------
(* step(), first half: process() for every enabled subscription.           *)

Cancelled == ctx = "cancelled"
Failsafe(s) == Mode[s] = "interval_failsafe"

\* The pass goes on with the next subscription.
NextSub == wpc' = "subs" /\ cur' = NoOne

\* step returns a.nextDeadline().
PassReturns == wpc' = "sleep" /\ cur' = NoOne

StepEnter ==
    /\ wpc = "enter"
    /\ ctx' = IF stopping THEN "cancelled" ELSE "live"
    /\ wpc' = "read"
    /\ UNCHANGED <<requests, configMu, wake, stopping, conf, todo, cur, regularDue, sawPolicy,
                   sawCatalog, schedule, groups>>

StepRead ==
    /\ wpc = "read"
    /\ configMu = NoOne
    /\ sawPolicy' = policy
    /\ todo' = {s \in Subs : policy[s] # 0}
    /\ wpc' = "subs"
    /\ UNCHANGED <<requests, configMu, ctx, wake, stopping, conf, cur, regularDue, sawCatalog,
                   schedule, groups>>

\* process up to its first download or probe.  A schedule made for another
\* signature is replaced by one that is due for an update.
Process(s) ==
    LET fresh   == signature[s] # sawPolicy[s]
        regular == fresh \/ nextUpdate[s] = "due"
        retry   == ~fresh /\ nextRetry[s] = "due"
        health  == ~fresh /\ nextHealth[s] = "due"
        reset(d, v) == [d EXCEPT ![s] = v]
    IN  /\ wpc = "subs"
        /\ s \in todo
        /\ todo' = todo \ {s}
        /\ cur' = s
        /\ signature' = reset(signature, sawPolicy[s])
        /\ regularDue' = regular
        /\ IF ~regular /\ ~retry
           THEN /\ wpc' = IF health THEN "health" ELSE "subs"
                /\ nextHealth' = IF health THEN reset(nextHealth, "later") ELSE nextHealth
                /\ UNCHANGED <<nextUpdate, nextRetry>>
           ELSE /\ wpc' = "fetch"
                /\ nextUpdate' = IF ~Failsafe(s) THEN IF fresh THEN reset(nextUpdate, "due") ELSE nextUpdate
                                 ELSE IF regular THEN reset(nextUpdate, "later") ELSE nextUpdate
                /\ nextHealth' = IF Failsafe(s) \/ fresh THEN reset(nextHealth, "none") ELSE nextHealth
                /\ nextRetry' = IF Failsafe(s) THEN reset(nextRetry, "later")
                                ELSE IF fresh THEN reset(nextRetry, "none") ELSE nextRetry
        /\ UNCHANGED <<requests, configMu, ctx, wake, stopping, conf, sawPolicy, sawCatalog, groups>>

\* subscriptionUnavailable on the health deadline: an unreachable subscription
\* is updated at once.
Health ==
    /\ wpc = "health"
    /\ \/ Cancelled /\ PassReturns /\ nextHealth' = [nextHealth EXCEPT ![cur] = "later"]
          /\ UNCHANGED nextRetry
       \/ ~Cancelled /\ NextSub /\ nextHealth' = [nextHealth EXCEPT ![cur] = "later"]
          /\ UNCHANGED nextRetry
       \/ /\ ~Cancelled /\ wpc' = "fetch" /\ UNCHANGED cur
          /\ nextHealth' = [nextHealth EXCEPT ![cur] = "none"]
          /\ nextRetry' = IF Failsafe(cur) THEN [nextRetry EXCEPT ![cur] = "later"] ELSE nextRetry
    /\ UNCHANGED <<requests, configMu, ctx, wake, stopping, conf, todo, regularDue, sawPolicy,
                   sawCatalog, nextUpdate, signature, groups>>

\* The deferred function of a failsafe subscription whose pass was cancelled.
Rearmed ==
    /\ nextRetry' = IF Failsafe(cur) THEN [nextRetry EXCEPT ![cur] = "later"] ELSE nextRetry
    /\ nextUpdate' = IF Failsafe(cur) /\ regularDue THEN [nextUpdate EXCEPT ![cur] = "later"]
                     ELSE nextUpdate

Fetch ==
    /\ wpc = "fetch"
    /\ \/ Cancelled /\ PassReturns /\ Rearmed
       \/ ~Cancelled /\ wpc' \in {"update", "finish"} /\ UNCHANGED <<cur, nextRetry, nextUpdate>>
    /\ UNCHANGED <<requests, configMu, ctx, wake, stopping, conf, todo, regularDue, sawPolicy,
                   sawCatalog, nextHealth, signature, groups>>

\* Mutant: what was downloaded is stored without a second look.
ApplyUpdate_Unchecked ==
    /\ wpc = "update"
    /\ configMu = NoOne
    /\ catalog' \in 1..MaxVersion
    /\ wpc' = "finish"
    /\ UNCHANGED <<requests, configMu, ctx, wake, stopping, policy, todo, cur, regularDue, sawPolicy,
                   sawCatalog, schedule, groups>>

\* applyUpdate: the lock is taken, the context and the signature are compared,
\* and the nodes, which may be new ones, are stored.
ApplyUpdate ==
    /\ wpc = "update"
    /\ configMu = NoOne
    /\ IF ~Cancelled /\ policy[cur] = sawPolicy[cur]
       THEN catalog' \in 1..MaxVersion
       ELSE UNCHANGED catalog
    /\ wpc' = "finish"
    /\ UNCHANGED <<requests, configMu, ctx, wake, stopping, policy, todo, cur, regularDue, sawPolicy,
                   sawCatalog, schedule, groups>>

\* Where the deadline of a regular update goes once it has been made.
Finish ==
    /\ wpc = "finish"
    /\ nextUpdate' = IF regularDue
                     THEN [nextUpdate EXCEPT ![cur] = IF Mode[cur] = "on_start" THEN "none" ELSE "later"]
                     ELSE nextUpdate
    /\ \/ /\ ~Failsafe(cur) /\ NextSub
          /\ nextHealth' = [nextHealth EXCEPT ![cur] = "none"]
          /\ nextRetry' = [nextRetry EXCEPT ![cur] = "none"]
       \/ Failsafe(cur) /\ wpc' = "check" /\ UNCHANGED <<cur, nextHealth, nextRetry>>
    /\ UNCHANGED <<requests, configMu, ctx, wake, stopping, conf, todo, regularDue, sawPolicy,
                   sawCatalog, signature, groups>>

\* Mutant: the deadlines are cleared before the probe that sets one of them.
Check_ClearFirst ==
    /\ wpc = "check"
    /\ \/ /\ Cancelled /\ PassReturns
          /\ nextHealth' = [nextHealth EXCEPT ![cur] = "none"]
          /\ nextRetry' = [nextRetry EXCEPT ![cur] = "none"]
       \/ /\ ~Cancelled /\ NextSub
          /\ nextHealth' = [nextHealth EXCEPT ![cur] = "later"]
          /\ nextRetry' = [nextRetry EXCEPT ![cur] = "none"]
    /\ UNCHANGED <<requests, configMu, ctx, wake, stopping, conf, todo, regularDue, sawPolicy,
                   sawCatalog, nextUpdate, signature, groups>>

\* subscriptionUnavailable after the update: health is checked again later, or
\* the update is retried later.
Check ==
    /\ wpc = "check"
    /\ \/ Cancelled /\ PassReturns /\ Rearmed /\ UNCHANGED nextHealth
       \/ /\ ~Cancelled /\ NextSub /\ UNCHANGED nextUpdate
          /\ \E healthy \in BOOLEAN :
                /\ nextHealth' = [nextHealth EXCEPT ![cur] = IF healthy THEN "later" ELSE "none"]
                /\ nextRetry' = [nextRetry EXCEPT ![cur] = IF healthy THEN "none" ELSE "later"]
    /\ UNCHANGED <<requests, configMu, ctx, wake, stopping, conf, todo, regularDue, sawPolicy,
                   sawCatalog, signature, groups>>

-----------------------------------------------------------------------------
(* step(), second half: processGroup() for every managed group.            *)

\* Schedules of subscriptions this pass did not see are dropped, the catalog
\* and the groups' settings are read.
StepCatalog ==
    LET gone == {s \in Subs : sawPolicy[s] = 0}
        drop(d, v) == [s \in Subs |-> IF s \in gone THEN v ELSE d[s]]
    IN  /\ wpc = "subs"
        /\ todo = {}
        /\ configMu = NoOne
        /\ signature' = drop(signature, 0)
        /\ nextUpdate' = drop(nextUpdate, "none")
        /\ nextHealth' = drop(nextHealth, "none")
        /\ nextRetry' = drop(nextRetry, "none")
        /\ sawCatalog' = catalog
        /\ todo' = Groups
        /\ cur' = NoOne
        /\ wpc' = "groups"
        /\ UNCHANGED <<requests, configMu, ctx, wake, stopping, conf, regularDue, sawPolicy, groups>>

\* The test of the context behind processGroup: a cancelled pass returns the
\* zero time instead of a deadline.
GroupReturned == IF Cancelled THEN "asleep" ELSE "groups"

\* A group is probed when its deadline is due or its signature has changed.
ProcessGroup(g) ==
    /\ wpc = "groups"
    /\ g \in todo
    /\ todo' = todo \ {g}
    /\ IF groupSignature[g] = sawCatalog /\ groupNext[g] = "later"
       THEN wpc' = GroupReturned /\ UNCHANGED <<cur, groupSignature>>
       ELSE wpc' = "probe" /\ cur' = g /\ groupSignature' = [groupSignature EXCEPT ![g] = sawCatalog]
    /\ UNCHANGED <<requests, configMu, ctx, wake, stopping, conf, regularDue, sawPolicy, sawCatalog,
                   schedule, groupNext>>

\* The end of processGroup for a group that was due.
GroupDone ==
    /\ groupNext' = [groupNext EXCEPT ![cur] = "later"]
    /\ cur' = NoOne
    /\ wpc' = GroupReturned

ProbeGroup ==
    /\ wpc = "probe"
    /\ \/ GroupDone
       \/ ~Cancelled /\ wpc' = "lock" /\ UNCHANGED <<cur, groupNext>>
    /\ UNCHANGED <<requests, configMu, ctx, wake, stopping, conf, todo, regularDue, sawPolicy,
                   sawCatalog, schedule, groupSignature>>

\* Mutant: the signature is not computed again under the lock.
LockGroup_Unchecked ==
    /\ wpc = "lock"
    /\ configMu = NoOne
    /\ IF Cancelled
       THEN GroupDone /\ UNCHANGED configMu
       ELSE configMu' = "worker" /\ wpc' = "write" /\ UNCHANGED <<cur, groupNext>>
    /\ UNCHANGED <<requests, ctx, wake, stopping, conf, todo, regularDue, sawPolicy, sawCatalog,
                   schedule, groupSignature>>

\* ConfigurationMu is held while the members are written and the core reloaded,
\* provided the pass is not cancelled and what was probed is still the catalog.
LockGroup ==
    /\ wpc = "lock"
    /\ configMu = NoOne
    /\ IF Cancelled \/ catalog # sawCatalog
       THEN GroupDone /\ UNCHANGED configMu
       ELSE configMu' = "worker" /\ wpc' = "write" /\ UNCHANGED <<cur, groupNext>>
    /\ UNCHANGED <<requests, ctx, wake, stopping, conf, todo, regularDue, sawPolicy, sawCatalog,
                   schedule, groupSignature>>

\* The write and the reload have succeeded or failed.
WriteGroup ==
    /\ wpc = "write"
    /\ configMu' = NoOne
    /\ GroupDone
    /\ UNCHANGED <<requests, ctx, wake, stopping, conf, todo, regularDue, sawPolicy, sawCatalog,
                   schedule, groupSignature>>

StepReturn ==
    /\ wpc = "groups"
    /\ todo = {}
    /\ PassReturns
    /\ UNCHANGED <<requests, configMu, ctx, wake, stopping, conf, todo, regularDue, sawPolicy,
                   sawCatalog, schedule, groups>>

-----------------------------------------------------------------------------
(* The loop of StartAutomation: "sleep" waits for the next deadline or a   *)
(* wake-up, "asleep" for a wake-up only.  The context, which step drops    *)
(* when it returns, is reset on the way out: nothing reads it in between.  *)

Due(d) == \E x \in DOMAIN d : d[x] = "due"
Pending(d) == \E x \in DOMAIN d : d[x] # "none"
AnyDue == Due(nextUpdate) \/ Due(nextHealth) \/ Due(nextRetry) \/ Due(groupNext)

Sleep ==
    /\ wpc \in {"sleep", "asleep"}
    /\ ~stopping
    /\ ctx' = "none"
    /\ \/ wake /\ wake' = FALSE
       \/ wpc = "sleep" /\ AnyDue /\ UNCHANGED wake
    /\ todo' = {}
    /\ wpc' = "enter"
    /\ UNCHANGED <<requests, configMu, stopping, conf, cur, regularDue, sawPolicy, sawCatalog,
                   schedule, groups>>

\* The parent context is cancelled; the caller waits for the worker to end.
StopAutomation ==
    /\ ~stopping
    /\ stopping' = TRUE
    /\ ctx' = IF ctx = "live" THEN "cancelled" ELSE ctx
    /\ UNCHANGED <<requests, configMu, wake, conf, pass, schedule, groups>>

WorkerEnds ==
    /\ wpc \in {"sleep", "asleep"}
    /\ stopping
    /\ wpc' = "ended"
    /\ UNCHANGED <<requests, configMu, ctx, wake, stopping, conf, todo, cur, regularDue,
                   sawPolicy, sawCatalog, schedule, groups>>

\* Time passes: a deadline is reached, in an order that the intervals decide.
Elapses(d) == \E x \in DOMAIN d : d[x] = "later" /\ d' = [d EXCEPT ![x] = "due"]
Tick ==
    /\ \/ Elapses(nextUpdate) /\ UNCHANGED <<nextHealth, nextRetry, groupNext>>
       \/ Elapses(nextHealth) /\ UNCHANGED <<nextUpdate, nextRetry, groupNext>>
       \/ Elapses(nextRetry) /\ UNCHANGED <<nextUpdate, nextHealth, groupNext>>
       \/ Elapses(groupNext) /\ UNCHANGED <<nextUpdate, nextHealth, nextRetry>>
    /\ UNCHANGED <<requests, configMu, ctx, wake, stopping, conf, pass, signature, groupSignature>>

Worker ==
    \/ StepEnter \/ StepRead
    \/ \E s \in Subs : Process(s)
    \/ Health \/ Fetch \/ ApplyUpdate \/ Finish \/ Check
    \/ StepCatalog
    \/ \E g \in Groups : ProcessGroup(g)
    \/ ProbeGroup \/ LockGroup \/ WriteGroup
    \/ StepReturn
    \/ Sleep
    \/ WorkerEnds

AutomationNext ==
    \/ Worker
    \/ \E r \in Requests : TakeTurn(r) \/ GiveUp(r) \/ TryLock(r) \/ Mutate(r) \/ Release(r)
    \/ Tick
    \/ StopAutomation

AutomationSpec == AutomationInit /\ [][AutomationNext]_automationVars

-----------------------------------------------------------------------------
(* Properties.                                                             *)

\* While the worker writes a group's members and reloads the core, the catalog
\* is the one it probed: no request, update or deletion has come in between the
\* probe, which runs without ConfigurationMu, and the write (automation.go:472).
WritesWhatItProbed == wpc = "write" => configMu = "worker" /\ sawCatalog = catalog

\* A download is stored only for the subscription it was made for: policies do
\* not change between a pass's read and its store (automation.go:188).
StoresWhatItFetchedAct ==
    wpc = "update" /\ catalog' # catalog => ctx = "live" /\ policy[cur] = sawPolicy[cur] /\ policy[cur] # 0
StoresWhatItFetched == [][configMu = NoOne => StoresWhatItFetchedAct]_automationVars

\* "a dashboard mutation must not consume the only deadline that can resume
\* recovery" (automation.go:269): whenever a pass is over, a failsafe
\* subscription has a health or retry deadline and one for its next update,
\* wherever in it the pass was cancelled.
RecoveryKeepsADeadline ==
    wpc \in {"sleep", "asleep"} =>
        \A s \in Subs : Failsafe(s) /\ signature[s] # 0 =>
            nextUpdate[s] # "none" /\ (nextHealth[s] # "none" \/ nextRetry[s] # "none")

\* A change of the catalog reaches the worker, also when it was made while a
\* pass was running: the wake-up waits in the channel (automation.go:31).
ChangesAreSeen ==
    \A v \in 1..MaxVersion : []<>(catalog = v => sawCatalog = v \/ stopping)

\* Every request is answered: it changes the configuration or is refused, and
\* gives the turn back.  (What it waits for is never undone, so that it holds
\* again and again says that it comes to hold.)
RequestsAreAnswered == []<>(\A r \in Requests : req[r] \in {"done", "refused"} /\ mutation # r)

\* A pass that has deadlines ahead is followed by another, also when it was
\* cancelled: the request that cancelled it wakes the worker as it releases the
\* lock (controller.go:44).  A request that has cancelled a pass and gives up
\* wakes nobody (controller.go:32), and is excepted.
PassesGoOn ==
    []<>(wpc \in {"sleep", "asleep"} /\ Pending(groupNext) => stopping \/ \E r \in Requests : req[r] = "refused")

\* The shutdown that waits for the worker (automation.go:669) does not wait for
\* ever, wherever the pass is and whoever holds ConfigurationMu.
WorkerStops == []<>(stopping => wpc = "ended")

\* The worker and the requests that compete with it for the lock get on: changes
\* are seen, passes follow each other, requests are answered, and shutdown ends.
WorkerIsLive == ChangesAreSeen /\ PassesGoOn /\ RequestsAreAnswered /\ WorkerStops
=============================================================================
