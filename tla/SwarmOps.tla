----------------------------- MODULE SwarmOps -----------------------------
(***************************************************************************)
(* Deploys, cleanups and removals that operators run side by side against  *)
(* one manager.  Nothing serialises them: no lock, no lease, only the      *)
(* checks of each docker call.                                             *)
(***************************************************************************)
EXTENDS StackDeploy, Cleanup, StackRemove

vars == <<swarmVars, deployVars, cleanupVars, removeVars>>

Init ==
  /\ SwarmInit
  /\ DeployInit
  /\ CleanupInit
  /\ RemoveInit

RunSwarm ==
  SwarmNext /\ Disturb /\ UNCHANGED <<deployVars, cpc, items, netlist, removeVars>>

RunTask(t) ==
  TaskStep(t) /\ Disturb /\ UNCHANGED <<cpc, items, netlist, removeVars>>

LoseTask(t) == KillTask(t) /\ UNCHANGED <<cleanupVars, removeVars>>

RunCleaner(c) == CleanerStep(c) /\ UNCHANGED <<deployVars, removeVars>>

LoseCleaner(c) == AbortCleanup(c) /\ UNCHANGED <<deployVars, removeVars>>

RunRemover(r) ==
  RemoverStep(r) /\ Disturb /\ UNCHANGED <<deployVars, cpc, items, netlist>>

Next ==
  \/ RunSwarm
  \/ \E t \in Tasks : RunTask(t) \/ LoseTask(t)
  \/ \E c \in Cleaners : RunCleaner(c) \/ LoseCleaner(c)
  \/ \E r \in Removers : RunRemover(r)

Spec == Init /\ [][Next]_vars

\* Each run is a sequential process whose docker calls return, so it takes a
\* step when it can.  Swarm promises nothing: an update or a drain may hang.
Fairness ==
  /\ \A t \in Tasks : WF_vars(RunTask(t))
  /\ \A c \in Cleaners : WF_vars(RunCleaner(c))
  /\ \A r \in Removers : WF_vars(RunRemover(r))

FairSpec == Spec /\ Fairness

-----------------------------------------------------------------------------
\* Every variable has its type.
TypeOK == SwarmTypeOK /\ DeployTypeOK /\ CleanupTypeOK /\ RemoveTypeOK

\* No interleaving of deploys, cleanups and removals leaves a service that
\* refers to a secret or config that does not exist: deploy.py creates before
\* it deploys, and secret_rm never forces.  A specification that a rollback
\* brought back is excepted, because docker lets a cleanup remove its items
\* while the update that replaced it is still going on.
ReferencedItemsExist ==
  \A s \in Stacks :
    Deployed(s) /\ rollout[s] # "rolledback"
      => \A b \in Needs[s] : Present(Item(b, live[s].ver))

\* A service mounts the contents its own deploy resolved, never those an older
\* or concurrent deploy left under the same name.  Two runs that drew their
\* version within one second at one commit are excepted: the second finds the
\* names taken, and skips them.
ServicesMountWhatWasResolved ==
  \A s \in Stacks :
    Deployed(s) /\ live[s].ver \notin clash
      => \A b \in Needs[s] :
           \/ store[Item(b, live[s].ver)] = live[s].want[b]
           \/ rollout[s] = "rolledback" /\ ~Present(Item(b, live[s].ver))

\* Services stay attached to networks that exist, although cleanup.py tries to
\* remove every network and stack deploy looks at them before it uses them.
AttachedNetworksExist ==
  \A s \in Stacks : Deployed(s) => Uses[s] \subseteq nets

\* A cleanup that nothing disturbed leaves no versioned item behind that no
\* service refers to, even though each list is taken only once.
QuietCleanupIsThorough ==
  \A c \in Cleaners :
    cpc[c] = "done" /\ quiet[c]
      => \A n \in Names : Present(n) /\ Versioned(n) => InUse(n)

\* A task that ran its loop to the end names every stack it did not hand to
\* Swarm, whatever step failed, and reports success only if there is none.
TasksReportFailures ==
  \A t \in Tasks :
    /\ result[t] \in {"ok", "failed"} =>
         \A i \in DOMAIN Plan[t] : Plan[t][i] \in failed[t] \cup handed[t]
    /\ result[t] = "ok" => failed[t] = {}

\* As long as no cleanup has run, docker stack deploy finds what the steps
\* before it were to provide: all versioned secrets of the stack, and, in a
\* task that depends on swarm:init-networks, all networks.
PreparedMeansDeployable ==
  (\A c \in Cleaners : cpc[c] = "idle") =>
    \A t \in Tasks :
      /\ pc[t] = "create" /\ todo[t] = {} =>
           \A b \in Needed(t) : Present(Item(b, ver[t]))
      /\ t \in InitsNets /\ pc[t] \in InDeploy => Networks \subseteq nets

\* What a stack finds under the names of a specification: the store, not what the
\* deploy believes.  A version drawn twice makes that nobody's.
Seen(s, spec) ==
  IF spec = None THEN [is |-> "nothing"]
  ELSE IF spec.ver \in clash THEN [is |-> "unclear", ver |-> spec.ver]
  ELSE [is |-> "contents", ver |-> spec.ver, of |-> [b \in Needs[s] |-> store[Item(b, spec.ver)]]]

\* What a task is about to hand to Swarm, and for which stack.
OfferOf(t) ==
  IF pc[t] \notin InDeploy \ {"verify"} THEN [for |-> None, what |-> [is |-> "nothing"]]
  ELSE [for |-> Current(t),
        what |-> IF ver[t] \in clash THEN [is |-> "unclear", ver |-> ver[t]]
                 ELSE [is |-> "contents", ver |-> ver[t],
                       of |-> [b \in Needs[Current(t)] |-> vals[t][b]]]]

Contents == INSTANCE StackContents
              WITH Runs <- Tasks,
                   offered <- [t \in Tasks |-> OfferOf(t)],
                   mounted <- [s \in Stacks |-> Seen(s, live[s])],
                   previous <- [s \in Stacks |-> Seen(s, prior[s])]

\* The contents a stack mounts change as a whole, by its own deploy, its rollback or
\* its removal: no other run, no cleanup, no failure or kill half-way changes them.
ContentsAreAtomic == Contents!Spec

-----------------------------------------------------------------------------
\* How far a run is from its end, as a pair <<rounds, calls>>: the turns of its loop
\* that are left, and the docker calls that are left of this turn at most.
Turns(plan, i) == IF i \in DOMAIN plan THEN 1 + Len(plan) - i ELSE 0

TaskLeft(t) ==
  CASE pc[t] = "init" -> <<2 + Len(Plan[t]), 2 * Cardinality(pending[t])>>
    [] pc[t] = "mknet" -> <<2 + Len(Plan[t]), 2 * Cardinality(pending[t]) + 1>>
    [] pc[t] = "next" -> <<1 + Turns(Plan[t], idx[t]), 4 + Cardinality(Secrets)>>
    [] pc[t] = "validate" -> <<1 + Turns(Plan[t], idx[t]), 3 + Cardinality(Secrets)>>
    [] pc[t] = "create" -> <<1 + Turns(Plan[t], idx[t]), 2 + Cardinality(todo[t])>>
    [] pc[t] = "services" -> <<1 + Turns(Plan[t], idx[t]), 1>>
    [] pc[t] = "verify" -> <<1 + Turns(Plan[t], idx[t]), 0>>
    [] OTHER -> <<0, 0>>

Phases == [idle |-> 5, secret |-> 4, config |-> 3, network |-> 2, prune |-> 1, done |-> 0]
CleanerLeft(c) == <<Phases[cpc[c]], Cardinality(items[c]) + Cardinality(netlist[c])>>

RemoverLeft(r) ==
  CASE rpc[r] = "next" -> <<1 + Turns(RemovePlan[r], ridx[r]), 2>>
    [] rpc[r] = "rm" -> <<1 + Turns(RemovePlan[r], ridx[r]), 1>>
    [] rpc[r] = "drain" -> <<1 + Turns(RemovePlan[r], ridx[r]), 0>>
    [] OTHER -> <<0, 0>>

Lower(a, b) == a[1] < b[1] \/ (a[1] = b[1] /\ a[2] < b[2])

\* Each step of a run, also one that fails, brings it nearer its end, and no other
\* run, cleanup or event at the manager sets it back: nothing is tried twice, and no
\* list grows while it is worked off.
RunsAdvance ==
  [][/\ \A t \in Tasks : IF RunTask(t) \/ LoseTask(t)
                          THEN Lower(TaskLeft(t)', TaskLeft(t))
                          ELSE TaskLeft(t)' = TaskLeft(t)
     /\ \A c \in Cleaners : IF RunCleaner(c) \/ LoseCleaner(c)
                             THEN Lower(CleanerLeft(c)', CleanerLeft(c))
                             ELSE CleanerLeft(c)' = CleanerLeft(c)
     /\ \A r \in Removers : IF RunRemover(r)
                             THEN Lower(RemoverLeft(r)', RemoverLeft(r))
                             ELSE RemoverLeft(r)' = RemoverLeft(r)]_vars

\* Every run comes to an end, also when an update never converges or a stack
\* never drains: the polling loops have deadlines.
RunsTerminate ==
  /\ \A t \in Tasks : <>(pc[t] = "done")
  /\ \A c \in Cleaners : <>(cpc[c] = "done")
  /\ \A r \in Removers : <>(rpc[r] = "done")
=============================================================================
