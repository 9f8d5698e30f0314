---------------------------- MODULE Convergence ----------------------------
(***************************************************************************)
(* swarm/convergence.py: verify() polls the tasks and the replicas of one  *)
(* stack after a detached docker stack deploy, while Swarm starts the      *)
(* tasks of the update, tasks exit and are restarted, or somebody removes  *)
(* the stack.  Each docker call of the poll is a step of its own.          *)
(*                                                                         *)
(* Services have one replica.  Time is in 32nds of a second, in which the  *)
(* first six sleeps, 2 s growing by one half, are whole numbers.           *)
(***************************************************************************)
EXTENDS Integers, FiniteSets

CONSTANTS
  Services,     \* services of the stack
  Inits,        \* those that run once (anchor deploy-init)
  StartFirst,   \* those whose update starts the new task before the old stops
  Globals,      \* those whose replicas may transiently read "N/A"
  Timeout, Interval, MaxInterval,
  MaxExits      \* bound: how often tasks exit

ASSUME ConvergenceAssumption ==
  /\ Inits \subseteq Services /\ StartFirst \subseteq Services \ Inits
  /\ Globals \subseteq Services
  /\ Timeout \in Nat /\ Interval \in Nat \ {0} /\ MaxInterval \in Nat \ {0}
  /\ Interval <= MaxInterval
  /\ MaxExits \in Nat

\* A compose file has finitely many services.
ASSUME FiniteAssumption == IsFiniteSet(Services)

VARIABLES
  old,        \* service -> its task of the previous deploy still runs
  cur,        \* service -> state of its task of this deploy, or "none"
  last,       \* service -> how its newest ended task ended, or "none"
  begun,      \* services whose update Swarm has begun
  removed,    \* the stack was removed
  exits,      \* number of exits so far
  vpc,        \* where verify() is
  clock,      \* time since it started
  delay,      \* sleep_for
  low,        \* services listed below their replicas, not looked at yet
  unhealthy,  \* services reported so far
  converged,  \* what Phase 1 found
  underway,   \* history: services whose update the first poll could see and
              \* whose task has not exited since
  quiet,      \* history: Swarm has not changed anything since verify() started
  blind       \* history: a stack_ps or service_ps call has failed

stackVars == <<old, cur, last, begun, removed, exits>>
verifyVars == <<vpc, clock, delay, low, unhealthy, converged>>
historyVars == <<underway, quiet, blind>>
vars == <<stackVars, verifyVars, historyVars>>

\* What the code tells apart: PENDING_STATES, here "Preparing", and the states
\* before them (New, Assigned, Accepted), which it does not list.
TaskStates == {"none", "Assigned", "Preparing", "Running"}
EndStates == {"none", "Complete", "Failed", "Shutdown"}

TypeOK ==
  /\ old \in [Services -> BOOLEAN]
  /\ cur \in [Services -> TaskStates]
  /\ last \in [Services -> EndStates]
  /\ begun \subseteq Services
  /\ removed \in BOOLEAN
  /\ exits \in 0..MaxExits
  /\ vpc \in {"start", "tasks", "replicas", "exempt", "sleep", "collect", "judge", "done", "raised"}
  /\ clock \in Nat /\ delay \in Interval..MaxInterval
  /\ low \subseteq Services /\ unhealthy \subseteq Services
  /\ converged \in BOOLEAN
  /\ underway \subseteq Services
  /\ quiet \in BOOLEAN /\ blind \in BOOLEAN

\* The stack was never deployed, or an earlier deploy left it settled.
Init ==
  /\ \/ old = [s \in Services |-> FALSE] /\ last = [s \in Services |-> "none"]
     \/ /\ old = [s \in Services |-> s \notin Inits]
        /\ last \in [Services -> {"none", "Complete", "Failed"}]
        /\ \A s \in Inits : last[s] # "none"
  /\ cur = [s \in Services |-> "none"]
  /\ begun = {} /\ removed = FALSE /\ exits = 0
  /\ vpc = "start" /\ clock = 0 /\ delay = Interval
  /\ low = {} /\ unhealthy = {} /\ converged = FALSE
  /\ underway = {} /\ quiet = TRUE /\ blind = FALSE

-----------------------------------------------------------------------------
(* Swarm.                                                                  *)

Changed == quiet' = FALSE /\ UNCHANGED <<verifyVars, blind>>

\* The orchestrator gets to the service: a stop-first update stops the old task.
Begin(s) ==
  /\ s \notin begun /\ ~removed
  /\ begun' = begun \cup {s}
  /\ cur' = [cur EXCEPT ![s] = "Assigned"]
  /\ IF old[s] /\ s \notin StartFirst
       THEN /\ old' = [old EXCEPT ![s] = FALSE]
            /\ last' = [last EXCEPT ![s] = "Shutdown"]
       ELSE UNCHANGED <<old, last>>
  /\ UNCHANGED <<removed, exits, underway>>
  /\ Changed

Prepare(s) ==
  /\ cur[s] = "Assigned"
  /\ cur' = [cur EXCEPT ![s] = "Preparing"]
  /\ UNCHANGED <<old, last, begun, removed, exits, underway>>
  /\ Changed

Start(s) ==
  /\ cur[s] = "Preparing"
  /\ cur' = [cur EXCEPT ![s] = "Running"]
  /\ old' = [old EXCEPT ![s] = FALSE]
  /\ last' = IF old[s] THEN [last EXCEPT ![s] = "Shutdown"] ELSE last
  /\ UNCHANGED <<begun, removed, exits, underway>>
  /\ Changed

\* A task ends.  Init sidecars are restarted on failure only, the others always.
Exit(s) ==
  /\ cur[s] \in {"Preparing", "Running"} /\ exits < MaxExits
  /\ exits' = exits + 1
  /\ \E how \in {"Complete", "Failed"} :
       /\ cur[s] = "Preparing" => how = "Failed"
       /\ last' = [last EXCEPT ![s] = how]
       /\ cur' = [cur EXCEPT ![s] = IF s \in Inits /\ how = "Complete"
                                      THEN "none" ELSE "Assigned"]
  /\ underway' = underway \ {s}
  /\ UNCHANGED <<old, begun, removed>>
  /\ Changed

RemoveStack ==
  /\ ~removed
  /\ removed' = TRUE
  /\ old' = [s \in Services |-> FALSE]
  /\ cur' = [s \in Services |-> "none"]
  /\ UNCHANGED <<last, begun, exits, underway>>
  /\ Changed

SwarmStep ==
  \/ RemoveStack
  \/ \E s \in Services : Begin(s) \/ Prepare(s) \/ Start(s) \/ Exit(s)

-----------------------------------------------------------------------------
(* verify().                                                               *)

Running(s) == old[s] \/ cur[s] = "Running"
BelowDesired == {s \in Services : ~removed /\ ~Running(s)}
PendingTasks == {s \in Services : cur[s] = "Preparing"}

\* is_task_complete(): asks about any service, an init sidecar or not.
IsTaskComplete(s) == last[s] = "Complete"

Goto(label) == vpc' = label

\* Swarm prepares or runs the new task, or has stopped the old one for it.
Underway(s) ==
  \/ cur[s] \in {"Preparing", "Running"}
  \/ cur[s] = "Assigned" /\ ~old[s] /\ ~IsTaskComplete(s)

\* docker stack deploy has returned; the history starts here.
StartVerify ==
  /\ vpc = "start"
  /\ Goto("tasks")
  /\ underway' = {s \in Services : Underway(s)} /\ quiet' = TRUE
  /\ UNCHANGED <<stackVars, clock, delay, low, unhealthy, converged, blind>>

\* stack_ps and service_ps are called with check=False: a call that fails reads
\* as one that lists no task.
Listed(answered) == blind' = (blind \/ ~answered)

\* As if only the replicas were polled, and as if the loop had no deadline.
PollTasks_ReplicasOnly ==
  /\ vpc = "tasks" /\ clock < Timeout
  /\ Goto("replicas")
  /\ UNCHANGED <<stackVars, clock, delay, low, unhealthy, converged, historyVars>>
PollTasks_NoDeadline ==
  /\ vpc = "tasks"
  /\ Goto(IF PendingTasks = {} THEN "replicas" ELSE "sleep")
  /\ UNCHANGED <<stackVars, clock, delay, low, unhealthy, converged, historyVars>>

\* Head of the loop, and stack_ps.
PollTasks ==
  /\ vpc = "tasks" /\ clock < Timeout
  /\ \E answered \in BOOLEAN :
       /\ Listed(answered)
       /\ Goto(IF answered /\ PendingTasks # {} THEN "sleep" ELSE "replicas")
  /\ UNCHANGED <<stackVars, clock, delay, low, unhealthy, converged, underway, quiet>>

\* _all_replicas_healthy: one stack_services call, then a service_ps call for
\* each service below; an unreadable replica count is not healthy.
PollReplicas ==
  /\ vpc = "replicas"
  /\ \E unread \in SUBSET Globals :
       IF unread \ {s \in Services : removed} # {}
         THEN Goto("sleep") /\ UNCHANGED low
         ELSE Goto("exempt") /\ low' = BelowDesired
  /\ UNCHANGED <<stackVars, clock, delay, unhealthy, converged, historyVars>>

PollExempt ==
  /\ vpc = "exempt"
  /\ \E s \in low, answered \in BOOLEAN :
       /\ Listed(answered)
       /\ IF answered /\ IsTaskComplete(s)
            THEN low' = low \ {s} /\ UNCHANGED vpc
            ELSE low' = {} /\ Goto("sleep")
  /\ UNCHANGED <<stackVars, clock, delay, unhealthy, converged, underway, quiet>>

PollConverged ==
  /\ vpc = "exempt" /\ low = {}
  /\ converged' = TRUE
  /\ Goto("collect")
  /\ UNCHANGED <<stackVars, clock, delay, low, unhealthy, historyVars>>

\* As if the growth had no cap.
Sleep_Uncapped ==
  /\ vpc = "sleep"
  /\ clock' = clock + delay
  /\ delay' = (3 * delay) \div 2
  /\ Goto("tasks")
  /\ UNCHANGED <<stackVars, low, unhealthy, converged, historyVars>>

\* As if the timeout were counted from the last poll.
Sleep_DeadlineAnew ==
  /\ vpc = "sleep"
  /\ clock' = 0
  /\ UNCHANGED delay
  /\ Goto("tasks")
  /\ UNCHANGED <<stackVars, low, unhealthy, converged, historyVars>>

Sleep ==
  /\ vpc = "sleep"
  /\ clock' = clock + delay
  /\ delay' = IF (3 * delay) \div 2 < MaxInterval THEN (3 * delay) \div 2 ELSE MaxInterval
  /\ Goto("tasks")
  /\ UNCHANGED <<stackVars, low, unhealthy, converged, historyVars>>

\* As if nothing followed the loop when the deadline has passed.
PollTimesOut_Never == vpc = "tasks" /\ clock >= Timeout /\ FALSE /\ UNCHANGED vars

PollTimesOut ==
  /\ vpc = "tasks" /\ clock >= Timeout
  /\ Goto("collect")
  /\ UNCHANGED <<stackVars, clock, delay, low, unhealthy, converged, historyVars>>

\* As if unreadable counts were skipped.
Collect_SkipsUnread ==
  /\ vpc = "collect"
  /\ \E unread \in SUBSET Globals : low' = BelowDesired \ unread
  /\ unhealthy' = {}
  /\ Goto("judge")
  /\ UNCHANGED <<stackVars, clock, delay, converged, historyVars>>

\* _collect_unhealthy: one stack_services call again; unreadable counts are
\* reported at once, the rest is asked about one by one.
Collect ==
  /\ vpc = "collect"
  /\ \E unread \in SUBSET Globals :
       /\ unhealthy' = unread \ {s \in Services : removed}
       /\ low' = BelowDesired \ unread
  /\ Goto("judge")
  /\ UNCHANGED <<stackVars, clock, delay, converged, historyVars>>

Judge ==
  /\ vpc = "judge"
  /\ \E s \in low, answered \in BOOLEAN :
       /\ Listed(answered)
       /\ unhealthy' = IF answered /\ IsTaskComplete(s) THEN unhealthy
                                                       ELSE unhealthy \cup {s}
       /\ low' = low \ {s}
  /\ UNCHANGED <<stackVars, vpc, clock, delay, converged, underway, quiet>>

Verdict ==
  /\ vpc = "judge" /\ low = {}
  /\ Goto("done")
  /\ UNCHANGED <<stackVars, clock, delay, low, unhealthy, converged, historyVars>>

\* stack_services is checked: if it fails, verify() raises and the deploy fails.
ServicesFail ==
  /\ vpc \in {"replicas", "collect"}
  /\ Goto("raised")
  /\ UNCHANGED <<stackVars, clock, delay, low, unhealthy, converged, historyVars>>

VerifyStep ==
  \/ StartVerify
  \/ PollTasks \/ PollReplicas \/ PollExempt \/ PollConverged
  \/ Sleep \/ PollTimesOut
  \/ Collect \/ Judge \/ Verdict \/ ServicesFail

Next == SwarmStep \/ VerifyStep

Spec == Init /\ [][Next]_vars

\* verify() is a loop of calls that return; Swarm owes it nothing.
FairSpec == Spec /\ WF_vars(VerifyStep)

-----------------------------------------------------------------------------
\* deploy_stack returns 0.
Succeeded == vpc = "done" /\ converged /\ unhealthy = {}

Healthy(s) == Running(s) \/ IsTaskComplete(s)

\* The poll gives up in time: the last sleep starts before the deadline and is
\* at most MaxInterval long, whatever Swarm does meanwhile.
VerdictInTime == clock < Timeout + MaxInterval

\* If no call fails and Swarm changes nothing while verify() runs, its several calls add up to
\* one look at the stack: it succeeds only if every service is healthy and no
\* task is being prepared, and otherwise it waits until the timeout and names
\* exactly the unhealthy services, with those that could not be read.
QuietVerdictIsExact ==
  vpc = "done" /\ quiet /\ ~blind /\ ~removed =>
    /\ converged => PendingTasks = {} /\ \A s \in Services : Healthy(s)
    /\ ~converged => clock >= Timeout
    /\ {s \in Services : ~Healthy(s)} \subseteq unhealthy
    /\ unhealthy \subseteq {s \in Services : ~Healthy(s)} \cup Globals

\* Success is no news about old tasks: a service whose new task was already
\* being prepared when verify() started, or whose old task an update had
\* stopped by then, runs its new task, unless that task exited meanwhile.
SuccessMeansRunning ==
  Succeeded /\ ~blind /\ ~removed => \A s \in underway : cur[s] = "Running"

\* What verify() has left, as a pair <<time, calls>>: the time until its last sleep is
\* over, and the docker calls and conclusions until it sleeps or ends.
VerifyLeft ==
  LET time == 1 + Timeout + MaxInterval - clock
      all == Cardinality(Services)
  IN CASE vpc = "start" -> <<time + 1, 0>>
       [] vpc = "tasks" -> <<time, 3 + all>>
       [] vpc = "replicas" -> <<time, 2 + all>>
       [] vpc = "exempt" -> <<time, 1 + Cardinality(low)>>
       [] vpc = "sleep" -> <<time, 0>>
       [] vpc = "collect" -> <<0, 2 + all>>
       [] vpc = "judge" -> <<0, 1 + Cardinality(low)>>
       [] OTHER -> <<0, 0>>

Lower(a, b) == a[1] < b[1] \/ (a[1] = b[1] /\ a[2] < b[2])

\* Each step of verify() brings it nearer its verdict, and nothing Swarm does in
\* the meantime, an exit that starts the update over or a removal, sets it back.
VerifyAdvances ==
  [][IF VerifyStep THEN Lower(VerifyLeft', VerifyLeft) ELSE VerifyLeft' = VerifyLeft]_vars

\* verify() answers, whether the stack settles or not.
VerifyEnds == <>(vpc \in {"done", "raised"})

\* .mise/README.md:165 says that verify polls until services converge: when it
\* succeeds, Swarm has at least begun the update of every service.
SuccessMeansUpdated == Succeeded /\ ~blind /\ ~removed => begun = Services
=============================================================================
