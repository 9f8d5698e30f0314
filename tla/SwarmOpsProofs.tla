-------------------------- MODULE SwarmOpsProofs --------------------------
(***************************************************************************)
(* Proofs that the safety invariants of SwarmOps hold for any number of    *)
(* stacks, secrets, deploy tasks, cleanups and removals.                   *)
(*                                                                         *)
(* None of the invariants is inductive alone.  IndInv adds what they rest  *)
(* on, in named parts, each about one hand-over between the components.    *)
(***************************************************************************)
EXTENDS SwarmOps, FiniteSetTheorems, TLAPS

-----------------------------------------------------------------------------
(* The inductive invariant.                                                *)

\* A task inside a deploy is at a stack of its plan and has a version; a task
\* about to create a network has one in hand.
TaskShape ==
  \A t \in Tasks :
    /\ pc[t] \in InDeploy => idx[t] \in DOMAIN Plan[t] /\ ver[t] \in Versions
    /\ pc[t] = "mknet" => missing[t] \in Networks
    /\ todo[t] # {} => pc[t] \in InDeploy \cup {"done"}

\* A remover between the check and the report is at a stack of its plan.
RemoverShape ==
  \A r \in Removers :
    rpc[r] \in {"rm", "drain"} => ridx[r] \in DOMAIN RemovePlan[r]

\* Past validation every base name of the stack has a content, and only the
\* secrets of the stack are to be created.
Resolved ==
  \A t \in Tasks :
    pc[t] \in {"create", "services"} =>
      /\ \A b \in Needs[Current(t)] : vals[t][b] \in Values
      /\ todo[t] \subseteq Needed(t)

\* An update is of a stack that has services, and had others to go back to.
UpdatesDeployed ==
  \A s \in Stacks : rollout[s] = "updating" => Deployed(s) /\ prior[s] # None

\* Every version in sight was drawn by a run.
VersionsDrawn ==
  /\ \A n \in Names : Present(n) => n.ver \in drawn
  /\ \A t \in Tasks : ver[t] # None => ver[t] \in drawn
  /\ \A s \in Stacks : /\ Deployed(s) => live[s].ver \in drawn
                       /\ prior[s] # None => prior[s].ver \in drawn

\* A version without a clash belongs to one deploy in progress at most, and
\* before that deploy hands its services over no stack knows the version.
VersionsOwned ==
  \A t \in Tasks :
    /\ pc[t] \in InDeploy /\ ver[t] \notin clash
         => \A u \in Tasks \ {t} : pc[u] \in InDeploy => ver[u] # ver[t]
    /\ pc[t] \in InDeploy \ {"verify"} /\ ver[t] \notin clash
         => \A s \in Stacks : /\ Deployed(s) => live[s].ver # ver[t]
                              /\ prior[s] # None => prior[s].ver # ver[t]

\* What a deploy in progress finds under its own version is its own.
OwnItems ==
  \A t \in Tasks :
    ver[t] \notin clash =>
      /\ pc[t] = "validate" =>
           \A b \in Bases : ~Present(Item(b, ver[t]))
      /\ pc[t] \in {"create", "services"} =>
           /\ existing[t] = {}
           /\ \A b \in Needs[Current(t)] :
                store[Item(b, ver[t])] \in {None, vals[t][b]}

\* What a specification finds under its version is what its deploy resolved.
OwnMounts ==
  \A s \in Stacks :
    /\ Deployed(s) /\ live[s].ver \notin clash
         => \A b \in Needs[s] :
              store[Item(b, live[s].ver)] \in {None, live[s].want[b]}
    /\ prior[s] # None /\ prior[s].ver \notin clash
         => \A b \in Needs[s] :
              store[Item(b, prior[s].ver)] \in {None, prior[s].want[b]}

\* The items an undisturbed cleanup may still have to remove are on its list.
SweepProgress ==
  \A c \in Cleaners : quiet[c] =>
    \A n \in Names : Present(n) /\ Versioned(n) /\ ~InUse(n) =>
      \/ cpc[c] = "idle"
      \/ cpc[c] = "secret" /\ (n.base \in Configs \/ n \in items[c])
      \/ cpc[c] = "config" /\ n \in items[c]

\* The loop of a task leaves no stack behind it unaccounted for.
StacksAccounted ==
  \A t \in Tasks :
    /\ \A i \in DOMAIN Plan[t] : i < idx[t] => Plan[t][i] \in failed[t] \cup handed[t]
    /\ pc[t] = "verify" => Current(t) \in handed[t]
    /\ result[t] \in {"ok", "failed"} => idx[t] \notin DOMAIN Plan[t]
    /\ result[t] = "ok" => failed[t] = {}
    /\ pc[t] # "done" => result[t] = "running"

\* Until a cleanup starts, what the preparing steps provided is there.
Prepared ==
  (\A c \in Cleaners : cpc[c] = "idle") =>
    \A t \in Tasks :
      /\ pc[t] \in {"create", "services"} =>
           \A b \in Needed(t) \ todo[t] : Present(Item(b, ver[t]))
      /\ pc[t] = "create" => \A b \in existing[t] : Present(Item(b, ver[t]))
      /\ pc[t] = "init" => Networks \ pending[t] \subseteq nets
      /\ pc[t] = "mknet" => Networks \ (pending[t] \cup {missing[t]}) \subseteq nets
      /\ t \in InitsNets /\ pc[t] \notin {"init", "mknet", "done"}
           => Networks \subseteq nets

IndInv ==
  /\ TypeOK /\ TaskShape /\ RemoverShape /\ Resolved /\ UpdatesDeployed
  /\ VersionsDrawn /\ VersionsOwned /\ OwnItems /\ OwnMounts
  /\ ReferencedItemsExist /\ AttachedNetworksExist
  /\ SweepProgress /\ StacksAccounted /\ Prepared

-----------------------------------------------------------------------------
(* What a step is, seen from the manager and the tasks.                    *)

\* A step is one of a task, the end of a task, or leaves every task alone and
\* changes the manager in one of six ways, if at all.
LEMMA StepKinds ==
  ASSUME [Next]_vars
  PROVE  \/ \E t \in Tasks : TaskStep(t) /\ Disturb /\ UNCHANGED <<cpc, items, netlist>>
         \/ \E t \in Tasks : KillTask(t) /\ UNCHANGED cleanupVars
         \/ /\ UNCHANGED deployVars
            /\ \/ SwarmNext /\ Disturb /\ UNCHANGED <<cpc, items, netlist>>
               \/ \E c \in Cleaners : CleanerStep(c) \/ AbortCleanup(c)
               \/ \E r \in Removers :
                    RemoverStep(r) /\ Disturb /\ UNCHANGED <<cpc, items, netlist>>
               \/ UNCHANGED <<swarmVars, cleanupVars>>
  BY DEF Next, vars, RunSwarm, RunTask, LoseTask, RunCleaner, LoseCleaner, RunRemover,
         cleanupVars, deployVars

\* A cleaner or a remover leaves the manager alone except by the removal of an
\* item, of a network, or of a stack.
LEMMA CleanerOnManager ==
  ASSUME NEW c \in Cleaners, CleanerStep(c) \/ AbortCleanup(c)
  PROVE  TryRemoveItem(c) \/ TryRemoveNetwork(c) \/ UNCHANGED swarmVars
  BY DEF CleanerStep, ListSecrets, ListConfigs, ListNetworks, PruneNodes,
         FinishCleanup, AbortCleanup

LEMMA RemoverOnManager ==
  ASSUME NEW r \in Removers, RemoverStep(r)
  PROVE  CallStackRm(r) \/ UNCHANGED swarmVars
  BY DEF RemoverStep, CheckDeployed, RemoveFails, PollDrained, PollTimeout,
         FinishRemove

\* The stack a task deploys is one of the stacks.
LEMMA CurrentStack ==
  ASSUME TypeOK, TaskShape, NEW t \in Tasks, pc[t] \in InDeploy
  PROVE  /\ Current(t) \in Stacks
         /\ Needs[Current(t)] \subseteq Bases
         /\ ver[t] \in Versions
  BY TaskAssumption, SwarmAssumption DEF TaskShape, Current

\* The same for a task whose loop has a stack left.
LEMMA PlannedStack ==
  ASSUME NEW t \in Tasks, idx[t] \in DOMAIN Plan[t]
  PROVE  Current(t) \in Stacks /\ Needs[Current(t)] \subseteq Bases
  BY TaskAssumption, SwarmAssumption DEF Current

-----------------------------------------------------------------------------
(* Types.                                                                  *)

LEMMA SwarmTypes ==
  ASSUME IndInv, SwarmNext
  PROVE  SwarmTypeOK'
<1> USE DEF IndInv, TypeOK, SwarmTypeOK
<1>1. CASE Tick
  BY <1>1, SwarmAssumption DEF Tick
<1>2. ASSUME NEW s \in Stacks, UpdateCompletes(s)
      PROVE  SwarmTypeOK'
  BY <1>2 DEF UpdateCompletes
<1>3. ASSUME NEW s \in Stacks, UpdateRollsBack(s)
      PROVE  SwarmTypeOK'
  BY <1>3 DEF UpdateRollsBack
<1>4. ASSUME NEW s \in Stacks, TasksDrained(s)
      PROVE  SwarmTypeOK'
  BY <1>4 DEF TasksDrained
<1> QED BY <1>1, <1>2, <1>3, <1>4 DEF SwarmNext

LEMMA CleanerTypes ==
  ASSUME IndInv, NEW c \in Cleaners, CleanerStep(c) \/ AbortCleanup(c)
  PROVE  SwarmTypeOK' /\ CleanupTypeOK'
<1> USE DEF IndInv, TypeOK, SwarmTypeOK, CleanupTypeOK, CleanerPCs, swarmVars
<1>1. CASE ListSecrets(c) \/ ListConfigs(c) \/ ListNetworks(c)
  BY <1>1 DEF ListSecrets, ListConfigs, ListNetworks, Candidates
<1>2. CASE TryRemoveItem(c)
  BY <1>2 DEF TryRemoveItem, ItemRm
<1>3. CASE TryRemoveNetwork(c)
  BY <1>3 DEF TryRemoveNetwork, NetworkRm
<1>4. CASE PruneNodes(c) \/ FinishCleanup(c) \/ AbortCleanup(c)
  BY <1>4 DEF PruneNodes, FinishCleanup, AbortCleanup
<1> QED BY <1>1, <1>2, <1>3, <1>4 DEF CleanerStep

\* A remover that calls docker stack rm names one of the stacks.
LEMMA TargetStack ==
  ASSUME TypeOK, RemoverShape, NEW r \in Removers, rpc[r] \in {"rm", "drain"}
  PROVE  Target(r) \in Stacks
<1>1. RemovePlan[r] \in Seq(Stacks)
  BY RemoverAssumption
<1> QED BY <1>1 DEF RemoverShape, Target

LEMMA RemoverTypes ==
  ASSUME IndInv, NEW r \in Removers, RemoverStep(r)
  PROVE  SwarmTypeOK' /\ RemoveTypeOK'
<1> USE DEF IndInv, TypeOK, SwarmTypeOK, RemoveTypeOK
<1>1. CASE CallStackRm(r)
  <2>1. Target(r) \in Stacks
    BY <1>1, TargetStack DEF CallStackRm
  <2> QED BY <1>1, <2>1 DEF CallStackRm, StackRm, RemoverPCs
<1>2. ASSUME NEW o \in Outcomes, Report(r, o)
      PROVE  RemoveTypeOK'
  BY <1>2 DEF Report, RemoverPCs
<1>3. CASE CheckDeployed(r)
  BY <1>2, <1>3 DEF CheckDeployed, RemoverPCs, Outcomes, swarmVars
<1>4. CASE RemoveFails(r) \/ PollDrained(r) \/ PollTimeout(r)
  BY <1>2, <1>4 DEF RemoveFails, PollDrained, PollTimeout, Outcomes, swarmVars
<1>5. CASE FinishRemove(r)
  BY <1>5 DEF FinishRemove, RemoverPCs, swarmVars
<1> QED BY <1>1, <1>3, <1>4, <1>5 DEF RemoverStep

-----------------------------------------------------------------------------
(* The steps of a task.                                                    *)

\* The ways a deploy ends, successful or not, have one effect: the loop moves
\* on, and the stack joins the failed ones unless it was verified.
StackExits(t) ==
  \/ PrepareFails(t) \/ ValidateFails(t) \/ DockerCallFails(t)
  \/ VerifyFails(t) \/ Verified(t)

LEMMA ExitEffect ==
  ASSUME TaskShape, NEW t \in Tasks, StackExits(t)
  PROVE  /\ idx[t] \in DOMAIN Plan[t]
         /\ NextStack(t)
         /\ UNCHANGED <<pending, missing, result, handed, drawn, clash, swarmVars>>
         /\ \/ failed' = [failed EXCEPT ![t] = @ \cup {Current(t)}]
            \/ pc[t] = "verify" /\ UNCHANGED failed
         /\ pc[t] \in {"next"} \cup InDeploy
  BY DEF StackExits, PrepareFails, ValidateFails, DockerCallFails, VerifyFails,
         Verified, ExitFailed, TaskShape, InDeploy, At

LEMMA TaskCases ==
  ASSUME NEW t \in Tasks, TaskStep(t) \/ KillTask(t)
  PROVE  \/ InspectNetwork(t) \/ CreateNetwork(t) \/ CreateNetworkFails(t)
         \/ NetworksReady(t) \/ PrepareStack(t) \/ ValidateAndList(t)
         \/ CreateSecret(t) \/ StackDeployConfigs(t) \/ StackDeployServices(t)
         \/ StackExits(t) \/ FinishTask(t) \/ KillTask(t)
  BY DEF TaskStep, StackExits

LEMMA DeployTypes ==
  ASSUME IndInv, NEW t \in Tasks, TaskStep(t) \/ KillTask(t)
  PROVE  DeployTypeOK' /\ SwarmTypeOK'
<1> USE DEF IndInv, TypeOK, SwarmTypeOK, DeployTypeOK, Goto, At
<1>1. CASE InspectNetwork(t)
  BY <1>1 DEF InspectNetwork, TaskPCs, swarmVars
<1>2. CASE CreateNetwork(t)
  BY <1>2 DEF CreateNetwork, TaskPCs, TaskShape
<1>3. CASE CreateNetworkFails(t)
  BY <1>3 DEF CreateNetworkFails, TaskPCs, swarmVars
<1>4. CASE NetworksReady(t)
  BY <1>4 DEF NetworksReady, TaskPCs, swarmVars
<1>5. CASE PrepareStack(t)
  <2>1. PICK sha \in Shas, w \in Sources :
          LET stamp == [sha |-> sha, sec |-> now] IN
          /\ ver' = [ver EXCEPT ![t] = DeployVersion(sha)]
          /\ vals' = [vals EXCEPT ![t] = w]
          /\ clash' = IF stamp \in drawn THEN clash \cup {stamp} ELSE clash
          /\ drawn' = drawn \cup {stamp}
    BY <1>5 DEF PrepareStack
  <2>2. [sha |-> sha, sec |-> now] \in Versions /\ DeployVersion(sha) \in Versions
    BY DEF Versions, DeployVersion
  <2>3. drawn' \subseteq Versions /\ clash' \subseteq drawn'
    BY <2>1, <2>2
  <2>4. ver' \in [Tasks -> Versions \cup {None}] /\ vals' \in [Tasks -> Sources]
    BY <2>1, <2>2
  <2> QED BY <1>5, <2>3, <2>4 DEF PrepareStack, TaskPCs, swarmVars
<1>6. CASE ValidateAndList(t)
  BY <1>6 DEF ValidateAndList, Needed, TaskPCs, swarmVars
<1>7. CASE CreateSecret(t)
  <2>1. pc[t] \in InDeploy /\ pc[t] = "create"
    BY <1>7 DEF CreateSecret, InDeploy
  <2>2. Current(t) \in Stacks /\ ver[t] \in Versions
    BY <2>1, CurrentStack
  <2>3. PICK b \in todo[t] : EnsureSecret(t, b) /\ todo' = [todo EXCEPT ![t] = @ \ {b}]
    BY <1>7 DEF CreateSecret
  <2>4. vals[t][b] \in Values
    BY <2>1, <2>3 DEF Resolved, Needed
  <2>5. store' \in [Names -> Values \cup {None}]
    BY <2>3, <2>4 DEF EnsureSecret, SecretCreate
  <2> QED BY <1>7, <2>3, <2>5 DEF CreateSecret
<1>8. CASE StackDeployConfigs(t)
  <2>1. vals[t] \in Sources
    OBVIOUS
  <2>2. store' \in [Names -> Values \cup {None}]
    BY <1>8, <2>1 DEF StackDeployConfigs, Sources, Bases, Names
  <2> QED BY <1>8, <2>2 DEF StackDeployConfigs, TaskPCs
<1>9. CASE StackDeployServices(t)
  <2>1. pc[t] \in InDeploy
    BY <1>9 DEF StackDeployServices, InDeploy
  <2>2. Current(t) \in Stacks /\ ver[t] \in Versions
    BY <2>1, CurrentStack
  <2>3. [ver |-> ver[t], want |-> vals[t]] \in Specs
    BY <2>2 DEF Specs
  <2> QED BY <1>9, <2>2, <2>3 DEF StackDeployServices, InstallSpec, TaskPCs
<1>10. CASE StackExits(t)
  <2>1. Current(t) \in Stacks
    BY <1>10, ExitEffect, PlannedStack
  <2>2. NoVals \in Sources
    BY DEF NoVals, Sources
  <2>3. NextStack(t) /\ UNCHANGED <<pending, missing, result, handed, drawn, clash,
                                     swarmVars>>
    BY <1>10, ExitEffect
  <2>4. failed' \in [Tasks -> SUBSET Stacks]
    BY <1>10, <2>1, ExitEffect
  <2>5. idx' \in [Tasks -> Nat \ {0}] /\ pc' \in [Tasks -> TaskPCs]
    BY <2>3 DEF NextStack, TaskPCs
  <2>6. /\ ver' \in [Tasks -> Versions \cup {None}]
        /\ vals' \in [Tasks -> Sources]
        /\ existing' \in [Tasks -> SUBSET Secrets]
        /\ todo' \in [Tasks -> SUBSET Secrets]
    BY <2>2, <2>3 DEF NextStack
  <2> QED BY <2>3, <2>4, <2>5, <2>6 DEF swarmVars
<1>11. CASE FinishTask(t)
  BY <1>11 DEF FinishTask, TaskPCs, swarmVars
<1>12. CASE KillTask(t)
  BY <1>12 DEF KillTask, TaskPCs, swarmVars
<1> QED BY <1>1, <1>2, <1>3, <1>4, <1>5, <1>6, <1>7, <1>8, <1>9, <1>10, <1>11,
           <1>12, TaskCases

\* Every variable keeps its type.
LEMMA TypesStep ==
  ASSUME IndInv, [Next]_vars
  PROVE  TypeOK'
<1>1. ASSUME Disturb, UNCHANGED <<cpc, items, netlist>>
      PROVE  CleanupTypeOK'
  <2>1. quiet' \in [Cleaners -> BOOLEAN]
    BY <1>1 DEF IndInv, TypeOK, CleanupTypeOK, Disturb
  <2> QED BY <1>1, <2>1 DEF IndInv, TypeOK, CleanupTypeOK
<1>2. UNCHANGED deployVars => DeployTypeOK'
  BY DEF IndInv, TypeOK, DeployTypeOK, deployVars, taskLocal
<1>3. UNCHANGED cleanupVars => CleanupTypeOK'
  BY DEF IndInv, TypeOK, CleanupTypeOK, cleanupVars
<1>4. UNCHANGED removeVars => RemoveTypeOK'
  BY DEF IndInv, TypeOK, RemoveTypeOK, removeVars
<1>5. UNCHANGED swarmVars => SwarmTypeOK'
  BY DEF IndInv, TypeOK, SwarmTypeOK, swarmVars
<1>6. CASE RunSwarm
  BY <1>1, <1>2, <1>4, <1>6, SwarmTypes DEF RunSwarm, TypeOK
<1>7. ASSUME NEW t \in Tasks, RunTask(t) \/ LoseTask(t)
      PROVE  TypeOK'
  BY <1>1, <1>3, <1>4, <1>7, DeployTypes DEF RunTask, LoseTask, TypeOK
<1>8. ASSUME NEW c \in Cleaners, RunCleaner(c) \/ LoseCleaner(c)
      PROVE  TypeOK'
  BY <1>2, <1>4, <1>8, CleanerTypes DEF RunCleaner, LoseCleaner, TypeOK
<1>9. ASSUME NEW r \in Removers, RunRemover(r)
      PROVE  TypeOK'
  BY <1>1, <1>2, <1>9, RemoverTypes DEF RunRemover, TypeOK
<1>10. CASE UNCHANGED vars
  BY <1>2, <1>3, <1>4, <1>5, <1>10 DEF vars, TypeOK
<1> QED BY <1>6, <1>7, <1>8, <1>9, <1>10 DEF Next

-----------------------------------------------------------------------------
(* The parts of IndInv that are about the tasks alone.                     *)

\* A step leaves the variables of the tasks alone, or is a task's.
LEMMA TaskOrNot ==
  ASSUME [Next]_vars
  PROVE  UNCHANGED deployVars \/ \E t \in Tasks : TaskStep(t) \/ KillTask(t)
  BY StepKinds

LEMMA TaskShapeStep ==
  ASSUME IndInv, [Next]_vars
  PROVE  TaskShape'
<1> USE DEF IndInv, TaskShape, InDeploy
<1>1. CASE UNCHANGED deployVars
  BY <1>1 DEF deployVars, taskLocal
<1>2. ASSUME NEW t \in Tasks, TaskStep(t) \/ KillTask(t)
      PROVE  TaskShape'
  <2> USE DEF TypeOK, DeployTypeOK, Goto, At
  <2>1. CASE InspectNetwork(t) \/ CreateNetwork(t) \/ CreateNetworkFails(t)
    BY <2>1 DEF InspectNetwork, CreateNetwork, CreateNetworkFails
  <2>2. CASE NetworksReady(t) \/ FinishTask(t) \/ KillTask(t)
    BY <2>2 DEF NetworksReady, FinishTask, KillTask
  <2>3. CASE PrepareStack(t)
    <3>1. PICK sha \in Shas : ver' = [ver EXCEPT ![t] = DeployVersion(sha)]
      BY <2>3 DEF PrepareStack
    <3>2. DeployVersion(sha) \in Versions
      BY DEF DeployVersion, Versions, SwarmTypeOK
    <3> QED BY <2>3, <3>1, <3>2 DEF PrepareStack
  <2>4. CASE ValidateAndList(t)
    BY <2>4 DEF ValidateAndList
  <2>5. CASE CreateSecret(t)
    BY <2>5 DEF CreateSecret
  <2>6. CASE StackDeployConfigs(t) \/ StackDeployServices(t)
    BY <2>6 DEF StackDeployConfigs, StackDeployServices
  <2>7. CASE StackExits(t)
    BY <2>7, ExitEffect DEF NextStack
  <2> QED BY <1>2, <2>1, <2>2, <2>3, <2>4, <2>5, <2>6, <2>7, TaskCases
<1> QED BY <1>1, <1>2, TaskOrNot

LEMMA RemoverShapeStep ==
  ASSUME IndInv, [Next]_vars
  PROVE  RemoverShape'
<1> USE DEF IndInv, RemoverShape
<1>1. CASE UNCHANGED removeVars
  BY <1>1 DEF removeVars
<1>2. ASSUME NEW r \in Removers, RunRemover(r)
      PROVE  RemoverShape'
  BY <1>2 DEF RunRemover, RemoverStep, CheckDeployed, RemoveFails, CallStackRm,
     PollDrained, PollTimeout, FinishRemove, Report, TypeOK, RemoveTypeOK
<1> QED BY <1>1, <1>2 DEF Next, vars, RunSwarm, RunTask, LoseTask, RunCleaner,
           LoseCleaner

LEMMA ResolvedStep ==
  ASSUME IndInv, [Next]_vars
  PROVE  Resolved'
<1> USE DEF IndInv, Resolved
<1>1. CASE UNCHANGED deployVars
  BY <1>1 DEF deployVars, taskLocal, Needed, Current
<1>2. ASSUME NEW t \in Tasks, TaskStep(t) \/ KillTask(t)
      PROVE  Resolved'
  <2> USE DEF TypeOK, DeployTypeOK, Goto, At, Needed, Current
  <2>1. CASE InspectNetwork(t) \/ CreateNetwork(t) \/ CreateNetworkFails(t)
    BY <2>1 DEF InspectNetwork, CreateNetwork, CreateNetworkFails
  <2>2. CASE NetworksReady(t) \/ FinishTask(t) \/ KillTask(t)
    BY <2>2 DEF NetworksReady, FinishTask, KillTask
  <2>3. CASE PrepareStack(t)
    BY <2>3 DEF PrepareStack
  <2>4. CASE ValidateAndList(t)
    <3>1. Needs[Current(t)] \subseteq Bases
      BY <2>4, CurrentStack DEF ValidateAndList, InDeploy
    <3>2. \A b \in Needs[Current(t)] : vals[t][b] \in Values
      BY <2>4, <3>1 DEF ValidateAndList, ConfigFileMissing, SecretSourceMissing, Sources,
         Bases
    <3> QED BY <2>4, <3>2 DEF ValidateAndList
  <2>5. CASE CreateSecret(t)
    BY <2>5 DEF CreateSecret
  <2>6. CASE StackDeployConfigs(t) \/ StackDeployServices(t)
    BY <2>6 DEF StackDeployConfigs, StackDeployServices
  <2>7. CASE StackExits(t)
    BY <2>7, ExitEffect DEF NextStack
  <2> QED BY <1>2, <2>1, <2>2, <2>3, <2>4, <2>5, <2>6, <2>7, TaskCases
<1> QED BY <1>1, <1>2, TaskOrNot

\* Every stack behind the loop is accounted for: the step that moves on either
\* adds the stack to the failed ones or comes after the hand-over.
LEMMA AccountedStep ==
  ASSUME IndInv, [Next]_vars
  PROVE  StacksAccounted'
<1> USE DEF IndInv, StacksAccounted
<1>1. CASE UNCHANGED deployVars
  BY <1>1 DEF deployVars, taskLocal, Current
<1>2. ASSUME NEW t \in Tasks, TaskStep(t) \/ KillTask(t)
      PROVE  StacksAccounted'
  <2> USE DEF TypeOK, DeployTypeOK, Goto, At, Current
  <2>1. CASE InspectNetwork(t) \/ CreateNetwork(t) \/ CreateNetworkFails(t)
    BY <2>1 DEF InspectNetwork, CreateNetwork, CreateNetworkFails
  <2>2. CASE NetworksReady(t) \/ KillTask(t)
    BY <2>2 DEF NetworksReady, KillTask
  <2>3. CASE PrepareStack(t) \/ ValidateAndList(t) \/ CreateSecret(t)
    BY <2>3 DEF PrepareStack, ValidateAndList, CreateSecret
  <2>4. CASE StackDeployConfigs(t)
    BY <2>4 DEF StackDeployConfigs
  <2>5. CASE StackDeployServices(t)
    BY <2>5 DEF StackDeployServices
  <2>6. CASE FinishTask(t)
    BY <2>6 DEF FinishTask
  <2>7. CASE StackExits(t)
    <3>1. Current(t) \in failed'[t] \cup handed'[t]
      BY <2>7, ExitEffect, PlannedStack
    <3>2. /\ idx' = [idx EXCEPT ![t] = @ + 1]
          /\ pc' = [pc EXCEPT ![t] = "next"]
          /\ handed' = handed /\ result' = result
          /\ \A u \in Tasks : failed[u] \subseteq failed'[u]
          /\ \A u \in Tasks \ {t} : failed'[u] = failed[u]
          /\ pc[t] # "done"
      BY <2>7, ExitEffect DEF NextStack, InDeploy
    <3>3. \A i \in DOMAIN Plan[t] :
             i < idx'[t] => Plan[t][i] \in failed'[t] \cup handed'[t]
      <4>1. \A i \in DOMAIN Plan[t] : i \in Nat
        BY TaskAssumption
      <4> QED BY <3>1, <3>2, <4>1
    <3> QED BY <3>2, <3>3
  <2> QED BY <1>2, <2>1, <2>2, <2>3, <2>4, <2>5, <2>6, <2>7, TaskCases
<1> QED BY <1>1, <1>2, TaskOrNot

-----------------------------------------------------------------------------
(* The parts of IndInv that relate the tasks to the manager.               *)

\* The steps that change the manager and are not a task's.
ManagerStep ==
  \/ Tick
  \/ \E s \in Stacks : UpdateCompletes(s) \/ UpdateRollsBack(s) \/ TasksDrained(s)
  \/ \E c \in Cleaners : TryRemoveItem(c) \/ TryRemoveNetwork(c)
  \/ \E r \in Removers : CallStackRm(r)

LEMMA ManagerOrTask ==
  ASSUME [Next]_vars
  PROVE  \/ UNCHANGED <<deployVars, swarmVars>>
         \/ UNCHANGED deployVars /\ ManagerStep
         \/ \E t \in Tasks : TaskStep(t) \/ KillTask(t)
  BY StepKinds, CleanerOnManager, RemoverOnManager DEF ManagerStep, SwarmNext

\* Task steps that leave the manager alone.
TaskOnly(t) ==
  \/ InspectNetwork(t) \/ CreateNetworkFails(t) \/ NetworksReady(t)
  \/ ValidateAndList(t) \/ StackExits(t) \/ FinishTask(t) \/ KillTask(t)

LEMMA TaskOnlyEffect ==
  ASSUME TaskShape, NEW t \in Tasks, TaskOnly(t)
  PROVE  UNCHANGED <<swarmVars, drawn, clash>>
  BY ExitEffect DEF TaskOnly, InspectNetwork, CreateNetworkFails, NetworksReady,
     ValidateAndList, FinishTask, KillTask

LEMMA TaskOnManager ==
  ASSUME NEW t \in Tasks, TaskStep(t) \/ KillTask(t)
  PROVE  \/ CreateNetwork(t) \/ PrepareStack(t) \/ CreateSecret(t)
         \/ StackDeployConfigs(t) \/ StackDeployServices(t) \/ TaskOnly(t)
  BY TaskCases DEF TaskOnly

\* The stack in front of a task that touches the manager, and what a deploy
\* calls on behalf of it.
LEMMA ServicesTypes ==
  ASSUME TypeOK, TaskShape, NEW t \in Tasks, StackDeployServices(t)
  PROVE  /\ Current(t) \in Stacks
         /\ [ver |-> ver[t], want |-> vals[t]] \in Specs
         /\ None \notin Values
  BY CurrentStack, SwarmAssumption, NoneAssumption
     DEF StackDeployServices, At, InDeploy, TypeOK, DeployTypeOK, Specs

LEMMA UpdatesDeployedStep ==
  ASSUME IndInv, [Next]_vars
  PROVE  UpdatesDeployed'
<1> USE DEF IndInv, UpdatesDeployed, TypeOK, SwarmTypeOK, Deployed
<1>1. CASE UNCHANGED swarmVars
  BY <1>1 DEF swarmVars
<1>2. CASE ManagerStep
  <2>1. CASE Tick
    BY <2>1 DEF Tick
  <2>2. ASSUME NEW s \in Stacks, UpdateCompletes(s) \/ UpdateRollsBack(s) \/ TasksDrained(s)
        PROVE  UpdatesDeployed'
    BY <2>2 DEF UpdateCompletes, UpdateRollsBack, TasksDrained
  <2>3. ASSUME NEW c \in Cleaners, TryRemoveItem(c) \/ TryRemoveNetwork(c)
        PROVE  UpdatesDeployed'
    BY <2>3 DEF TryRemoveItem, TryRemoveNetwork
  <2>4. ASSUME NEW r \in Removers, CallStackRm(r)
        PROVE  UpdatesDeployed'
    BY <2>4 DEF CallStackRm, StackRm
  <2> QED BY <1>2, <2>1, <2>2, <2>3, <2>4 DEF ManagerStep
<1>3. ASSUME NEW t \in Tasks, TaskStep(t) \/ KillTask(t)
      PROVE  UpdatesDeployed'
  <2>1. CASE TaskOnly(t)
    BY <1>1, <2>1, TaskOnlyEffect
  <2>2. CASE CreateNetwork(t) \/ PrepareStack(t) \/ CreateSecret(t) \/ StackDeployConfigs(t)
    BY <2>2 DEF CreateNetwork, PrepareStack, CreateSecret, StackDeployConfigs, swarmVars
  <2>3. CASE StackDeployServices(t)
    BY <2>3, ServicesTypes, NoneAssumption DEF StackDeployServices, InstallSpec
  <2> QED BY <1>3, <2>1, <2>2, <2>3, TaskOnManager
<1> QED BY <1>1, <1>2, <1>3, ManagerOrTask

\* A service keeps the items it refers to: they exist when it takes its
\* specification, and no removal takes an item that is in use.
LEMMA ReferencedStep ==
  ASSUME IndInv, [Next]_vars
  PROVE  ReferencedItemsExist'
<1> USE DEF IndInv, ReferencedItemsExist, TypeOK, SwarmTypeOK, Deployed, Present
<1>1. CASE UNCHANGED swarmVars
  BY <1>1 DEF swarmVars
<1>2. CASE ManagerStep
  <2>1. CASE Tick
    BY <2>1 DEF Tick
  <2>2. ASSUME NEW s \in Stacks, UpdateCompletes(s)
        PROVE  ReferencedItemsExist'
    BY <2>2 DEF UpdateCompletes
  <2>3. ASSUME NEW s \in Stacks, UpdateRollsBack(s) \/ TasksDrained(s)
        PROVE  ReferencedItemsExist'
    BY <2>3 DEF UpdateRollsBack, TasksDrained
  <2>4. ASSUME NEW c \in Cleaners, TryRemoveItem(c)
        PROVE  ReferencedItemsExist'
    <3>1. PICK n \in items[c] : ItemRm(n)
      BY <2>4 DEF TryRemoveItem
    <3>2. ASSUME NEW s \in Stacks, live'[s] # None, rollout'[s] # "rolledback",
                 NEW b \in Needs[s]
          PROVE  store'[Item(b, live'[s].ver)] # None
      <4>1. live' = live /\ rollout' = rollout
        BY <2>4 DEF TryRemoveItem
      <4>2. store[Item(b, live[s].ver)] # None
        BY <3>2, <4>1
      <4>3. Item(b, live[s].ver) = n => InUse(n)
        BY <3>2, <4>1 DEF InUse, Item
      <4>4. Item(b, live[s].ver) \in Names
        BY <3>2, <4>1, SwarmAssumption DEF Item, Names, Specs
      <4> QED BY <3>1, <4>1, <4>2, <4>3, <4>4 DEF ItemRm
    <3> QED BY <3>2 DEF Item
  <2>5. ASSUME NEW c \in Cleaners, TryRemoveNetwork(c)
        PROVE  ReferencedItemsExist'
    BY <2>5 DEF TryRemoveNetwork
  <2>6. ASSUME NEW r \in Removers, CallStackRm(r)
        PROVE  ReferencedItemsExist'
    BY <2>6 DEF CallStackRm, StackRm
  <2> QED BY <1>2, <2>1, <2>2, <2>3, <2>4, <2>5, <2>6 DEF ManagerStep
<1>3. ASSUME NEW t \in Tasks, TaskStep(t) \/ KillTask(t)
      PROVE  ReferencedItemsExist'
  <2>1. CASE TaskOnly(t)
    BY <1>1, <2>1, TaskOnlyEffect
  <2>2. CASE CreateNetwork(t) \/ PrepareStack(t)
    BY <2>2 DEF CreateNetwork, PrepareStack, swarmVars
  <2>3. ASSUME live' = live, rollout' = rollout,
               \A n \in Names : store[n] # None => store'[n] # None
        PROVE  ReferencedItemsExist'
    BY <2>3, SwarmAssumption DEF Item, Names, Specs
  <2>4. CASE CreateSecret(t)
    <3>1. PICK b \in todo[t] : EnsureSecret(t, b)
      BY <2>4 DEF CreateSecret
    <3>2. vals[t][b] # None
      BY <2>4, <3>1, NoneAssumption DEF CreateSecret, At, Resolved, Needed
    <3> QED BY <2>3, <2>4, <3>1, <3>2 DEF CreateSecret, EnsureSecret, SecretCreate
  <2>5. CASE StackDeployConfigs(t)
    <3>1. \A b \in Needs[Current(t)] : vals[t][b] # None
      BY <2>5, NoneAssumption DEF StackDeployConfigs, At, Resolved
    <3> QED BY <2>3, <2>5, <3>1 DEF StackDeployConfigs
  <2>6. CASE StackDeployServices(t)
    BY <2>6, ServicesTypes DEF StackDeployServices, InstallSpec
  <2> QED BY <1>3, <2>1, <2>2, <2>4, <2>5, <2>6, TaskOnManager
<1> QED BY <1>1, <1>2, <1>3, ManagerOrTask

LEMMA AttachedStep ==
  ASSUME IndInv, [Next]_vars
  PROVE  AttachedNetworksExist'
<1> USE DEF IndInv, AttachedNetworksExist, TypeOK, SwarmTypeOK, Deployed
<1>1. CASE UNCHANGED swarmVars
  BY <1>1 DEF swarmVars
<1>2. CASE ManagerStep
  <2>1. CASE Tick
    BY <2>1 DEF Tick
  <2>2. ASSUME NEW s \in Stacks, UpdateCompletes(s) \/ UpdateRollsBack(s) \/ TasksDrained(s)
        PROVE  AttachedNetworksExist'
    BY <2>2 DEF UpdateCompletes, UpdateRollsBack, TasksDrained, UpdatesDeployed
  <2>3. ASSUME NEW c \in Cleaners, TryRemoveItem(c)
        PROVE  AttachedNetworksExist'
    BY <2>3 DEF TryRemoveItem
  <2>4. ASSUME NEW c \in Cleaners, TryRemoveNetwork(c)
        PROVE  AttachedNetworksExist'
    BY <2>4 DEF TryRemoveNetwork, NetworkRm, Attached
  <2>5. ASSUME NEW r \in Removers, CallStackRm(r)
        PROVE  AttachedNetworksExist'
    BY <2>5 DEF CallStackRm, StackRm
  <2> QED BY <1>2, <2>1, <2>2, <2>3, <2>4, <2>5 DEF ManagerStep
<1>3. ASSUME NEW t \in Tasks, TaskStep(t) \/ KillTask(t)
      PROVE  AttachedNetworksExist'
  <2>1. CASE TaskOnly(t)
    BY <1>1, <2>1, TaskOnlyEffect
  <2>2. CASE CreateNetwork(t) \/ PrepareStack(t) \/ CreateSecret(t) \/ StackDeployConfigs(t)
    BY <2>2 DEF CreateNetwork, PrepareStack, CreateSecret, StackDeployConfigs, swarmVars
  <2>3. CASE StackDeployServices(t)
    BY <2>3, ServicesTypes DEF StackDeployServices, InstallSpec
  <2> QED BY <1>3, <2>1, <2>2, <2>3, TaskOnManager
<1> QED BY <1>1, <1>2, <1>3, ManagerOrTask

\* Versions come from runs: nothing names a version that no run has drawn.
LEMMA DrawnStep ==
  ASSUME IndInv, [Next]_vars
  PROVE  VersionsDrawn'
<1> USE DEF IndInv, VersionsDrawn, TypeOK, SwarmTypeOK, DeployTypeOK, Deployed, Present
<1>1. CASE UNCHANGED <<deployVars, swarmVars>>
  BY <1>1 DEF swarmVars, deployVars, taskLocal
<1>2. CASE UNCHANGED deployVars /\ ManagerStep
  <2>1. ver' = ver /\ drawn' = drawn
    BY <1>2 DEF deployVars, taskLocal
  <2>2. CASE Tick
    BY <2>1, <2>2 DEF Tick
  <2>3. ASSUME NEW s \in Stacks, UpdateCompletes(s) \/ UpdateRollsBack(s) \/ TasksDrained(s)
        PROVE  VersionsDrawn'
    BY <2>1, <2>3 DEF UpdateCompletes, UpdateRollsBack, TasksDrained
  <2>4. ASSUME NEW c \in Cleaners, TryRemoveItem(c) \/ TryRemoveNetwork(c)
        PROVE  VersionsDrawn'
    BY <2>1, <2>4 DEF TryRemoveItem, TryRemoveNetwork, ItemRm
  <2>5. ASSUME NEW r \in Removers, CallStackRm(r)
        PROVE  VersionsDrawn'
    BY <2>1, <2>5 DEF CallStackRm, StackRm
  <2> QED BY <1>2, <2>2, <2>3, <2>4, <2>5 DEF ManagerStep
<1>3. ASSUME NEW t \in Tasks, TaskStep(t) \/ KillTask(t)
      PROVE  VersionsDrawn'
  <2>1. CASE TaskOnly(t)
    <3>1. UNCHANGED <<swarmVars, drawn>>
      BY <2>1, TaskOnlyEffect
    <3>2. ver' = ver \/ ver' = [ver EXCEPT ![t] = None]
      BY <2>1, ExitEffect DEF TaskOnly, InspectNetwork, CreateNetworkFails,
         NetworksReady, ValidateAndList, FinishTask, KillTask, NextStack
    <3> QED BY <3>1, <3>2 DEF swarmVars
  <2>2. CASE CreateNetwork(t)
    BY <2>2 DEF CreateNetwork
  <2>3. CASE PrepareStack(t)
    BY <2>3 DEF PrepareStack, DeployVersion, swarmVars
  <2>4. ASSUME UNCHANGED <<ver, drawn, live, prior>>, ver[t] # None,
               \A n \in Names : store'[n] # None => store[n] # None \/ n.ver = ver[t]
        PROVE  VersionsDrawn'
    BY <2>4
  <2>5. CASE CreateSecret(t)
    <3>1. ver[t] \in Versions
      BY <2>5, CurrentStack DEF CreateSecret, At, InDeploy
    <3>2. PICK b \in todo[t] : EnsureSecret(t, b)
      BY <2>5 DEF CreateSecret
    <3>3. \A n \in Names : store'[n] # None => store[n] # None \/ n.ver = ver[t]
      BY <3>1, <3>2 DEF EnsureSecret, SecretCreate, Item
    <3> QED BY <2>4, <2>5, <3>1, <3>3, NoneAssumption DEF CreateSecret
  <2>6. CASE StackDeployConfigs(t)
    <3>1. ver[t] \in Versions
      BY <2>6, CurrentStack DEF StackDeployConfigs, At, InDeploy
    <3> QED BY <2>4, <2>6, <3>1, NoneAssumption DEF StackDeployConfigs
  <2>7. CASE StackDeployServices(t)
    <3>1. ver[t] \in Versions
      BY <2>7, CurrentStack DEF StackDeployServices, At, InDeploy
    <3> QED BY <2>7, <3>1, NoneAssumption DEF StackDeployServices, InstallSpec
  <2> QED BY <1>3, <2>1, <2>2, <2>3, <2>5, <2>6, <2>7, TaskOnManager
<1> QED BY <1>1, <1>2, <1>3, ManagerOrTask

\* A version stays with the deploy that drew it: whoever draws it again marks
\* it as a clash, and the hand-over is the only way it reaches a stack.
LEMMA OwnedStep ==
  ASSUME IndInv, [Next]_vars
  PROVE  VersionsOwned'
<1> USE DEF IndInv, VersionsOwned, TypeOK, SwarmTypeOK, DeployTypeOK, Deployed
<1>1. CASE UNCHANGED <<deployVars, swarmVars>>
  BY <1>1 DEF swarmVars, deployVars, taskLocal
<1>2. CASE UNCHANGED deployVars /\ ManagerStep
  <2>1. pc' = pc /\ ver' = ver /\ clash' = clash
    BY <1>2 DEF deployVars, taskLocal
  <2>2. CASE Tick
    BY <2>1, <2>2 DEF Tick
  <2>3. ASSUME NEW s \in Stacks, UpdateCompletes(s) \/ UpdateRollsBack(s) \/ TasksDrained(s)
        PROVE  VersionsOwned'
    BY <2>1, <2>3 DEF UpdateCompletes, UpdateRollsBack, TasksDrained
  <2>4. ASSUME NEW c \in Cleaners, TryRemoveItem(c) \/ TryRemoveNetwork(c)
        PROVE  VersionsOwned'
    BY <2>1, <2>4 DEF TryRemoveItem, TryRemoveNetwork
  <2>5. ASSUME NEW r \in Removers, CallStackRm(r)
        PROVE  VersionsOwned'
    BY <2>1, <2>5 DEF CallStackRm, StackRm
  <2> QED BY <1>2, <2>2, <2>3, <2>4, <2>5 DEF ManagerStep
<1>3. ASSUME NEW t \in Tasks, TaskStep(t) \/ KillTask(t)
      PROVE  VersionsOwned'
  <2>1. ASSUME UNCHANGED <<clash, live, prior>>,
               \A u \in Tasks : pc'[u] \in InDeploy =>
                 /\ pc[u] \in InDeploy /\ ver'[u] = ver[u]
                 /\ pc'[u] # "verify" => pc[u] # "verify"
        PROVE  VersionsOwned'
    BY <2>1
  <2>2. CASE TaskOnly(t)
    <3>1. UNCHANGED <<swarmVars, clash>>
      BY <2>2, TaskOnlyEffect
    <3>2. CASE StackExits(t)
      <4>1. NextStack(t)
        BY <3>2, ExitEffect
      <4> QED BY <2>1, <3>1, <4>1 DEF NextStack, Goto, InDeploy, swarmVars
    <3>3. CASE ValidateAndList(t)
      BY <2>1, <3>1, <3>3 DEF ValidateAndList, At, Goto, InDeploy, swarmVars
    <3>4. CASE InspectNetwork(t) \/ CreateNetworkFails(t) \/ NetworksReady(t)
               \/ FinishTask(t) \/ KillTask(t)
      BY <2>1, <3>1, <3>4 DEF InspectNetwork, CreateNetworkFails, NetworksReady,
         FinishTask, KillTask, Goto, InDeploy, swarmVars
    <3> QED BY <2>2, <3>2, <3>3, <3>4 DEF TaskOnly
  <2>3. CASE CreateNetwork(t) \/ CreateSecret(t) \/ StackDeployConfigs(t)
    BY <2>1, <2>3 DEF CreateNetwork, CreateSecret, StackDeployConfigs, At, Goto, InDeploy
  <2>4. CASE PrepareStack(t)
    <3>1. PICK sha \in Shas :
            LET stamp == [sha |-> sha, sec |-> now] IN
            /\ ver' = [ver EXCEPT ![t] = stamp]
            /\ clash' = IF stamp \in drawn THEN clash \cup {stamp} ELSE clash
      BY <2>4 DEF PrepareStack, DeployVersion
    <3> DEFINE stamp == [sha |-> sha, sec |-> now]
    <3>2. UNCHANGED <<live, prior>> /\ pc' = [pc EXCEPT ![t] = "validate"] /\ pc[t] = "next"
      BY <2>4 DEF PrepareStack, Goto, At, swarmVars
    <3>3. ver'[t] = stamp /\ \A u \in Tasks \ {t} : ver'[u] = ver[u] /\ pc'[u] = pc[u]
      BY <3>1, <3>2
    <3>4. stamp \in drawn => stamp \in clash'
      BY <3>1
    <3>5. clash \subseteq clash'
      BY <3>1
    <3>6. \A u \in Tasks \ {t} : pc[u] \in InDeploy => ver[u] \in drawn
      BY NoneAssumption DEF TaskShape, VersionsDrawn
    <3>7. \A s \in Stacks : /\ live[s] # None => live[s].ver \in drawn
                            /\ prior[s] # None => prior[s].ver \in drawn
      BY DEF VersionsDrawn
    <3> HIDE DEF stamp
    <3> QED BY <3>2, <3>3, <3>4, <3>5, <3>6, <3>7
  <2>5. CASE StackDeployServices(t)
    <3>1. /\ pc[t] = "services" /\ pc' = [pc EXCEPT ![t] = "verify"]
          /\ UNCHANGED <<ver, clash>>
          /\ live' = [live EXCEPT ![Current(t)] = [ver |-> ver[t], want |-> vals[t]]]
          /\ prior' = [prior EXCEPT ![Current(t)] = live[Current(t)]]
      BY <2>5 DEF StackDeployServices, InstallSpec, At, Goto
    <3>2. \A s \in Stacks :
            /\ live'[s] = live[s] \/ live'[s].ver = ver[t]
            /\ prior'[s] = prior[s] \/ prior'[s] = live[s]
      BY <3>1, <2>5, ServicesTypes
    <3> QED BY <3>1, <3>2 DEF InDeploy
  <2> QED BY <1>3, <2>2, <2>3, <2>4, <2>5, TaskOnManager
<1> QED BY <1>1, <1>2, <1>3, ManagerOrTask

\* What changes the store: a removal takes items away, a deploy adds items of
\* its own version, anything else leaves it alone.
LEMMA StoreStep ==
  ASSUME IndInv, [Next]_vars
  PROVE  \/ UNCHANGED deployVars /\ \A n \in Names : store'[n] \in {None, store[n]}
         \/ \E t \in Tasks : CreateSecret(t) \/ StackDeployConfigs(t)
         \/ \E t \in Tasks : (TaskStep(t) \/ KillTask(t)) /\ UNCHANGED <<store>>
                               /\ ~CreateSecret(t) /\ ~StackDeployConfigs(t)
<1> USE DEF IndInv, TypeOK, SwarmTypeOK
<1>1. CASE UNCHANGED deployVars /\ ManagerStep
  <2>1. ASSUME NEW c \in Cleaners, TryRemoveItem(c)
        PROVE  \A n \in Names : store'[n] \in {None, store[n]}
    BY <2>1 DEF TryRemoveItem, ItemRm
  <2>2. ASSUME store' = store
        PROVE  \A n \in Names : store'[n] \in {None, store[n]}
    BY <2>2
  <2> QED BY <1>1, <2>1, <2>2 DEF ManagerStep, Tick, UpdateCompletes, UpdateRollsBack,
             TasksDrained, TryRemoveNetwork, CallStackRm
<1>2. ASSUME NEW t \in Tasks, TaskStep(t) \/ KillTask(t)
      PROVE  CreateSecret(t) \/ StackDeployConfigs(t) \/ UNCHANGED store
  <2>1. TaskOnly(t) => UNCHANGED store
    BY TaskOnlyEffect DEF swarmVars
  <2> QED BY <1>2, <2>1, TaskOnManager DEF CreateNetwork, PrepareStack,
             StackDeployServices, swarmVars
<1>3. CASE UNCHANGED <<deployVars, swarmVars>>
  BY <1>3 DEF swarmVars
<1> QED BY <1>1, <1>2, <1>3, ManagerOrTask

\* A deploy writes the store only under its own version, and there only what
\* it resolved.
LEMMA StoreWrites ==
  ASSUME IndInv, NEW t \in Tasks, CreateSecret(t) \/ StackDeployConfigs(t)
  PROVE  /\ pc[t] = "create" /\ pc'[t] \in {"create", "services"}
         /\ \A u \in Tasks \ {t} : pc'[u] = pc[u]
         /\ UNCHANGED <<ver, vals, idx, existing, clash, live, prior>>
         /\ \A n \in Names : store'[n] # store[n] => n.ver = ver[t]
         /\ \A b \in Bases : store'[Item(b, ver[t])] \in
                               {store[Item(b, ver[t])], vals[t][b]}
<1> USE DEF IndInv, TypeOK, SwarmTypeOK, DeployTypeOK, At, Goto
<1>1. ver[t] \in Versions /\ \A b \in Bases : Item(b, ver[t]) \in Names
  BY CurrentStack DEF CreateSecret, StackDeployConfigs, InDeploy, Item, Names
<1>2. CASE CreateSecret(t)
  <2>1. PICK b \in todo[t] : EnsureSecret(t, b)
    BY <1>2 DEF CreateSecret
  <2>2. \/ store' = store
        \/ store' = [store EXCEPT ![Item(b, ver[t])] = vals[t][b]]
    BY <2>1 DEF EnsureSecret, SecretCreate
  <2> QED BY <1>1, <1>2, <2>2 DEF CreateSecret, Item
<1>3. CASE StackDeployConfigs(t)
  BY <1>1, <1>3 DEF StackDeployConfigs, Item
<1> QED BY <1>2, <1>3

LEMMA OwnItemsStep ==
  ASSUME IndInv, [Next]_vars
  PROVE  OwnItems'
<1> USE DEF IndInv, TypeOK, SwarmTypeOK, DeployTypeOK
<1>1. ASSUME UNCHANGED deployVars, \A n \in Names : store'[n] \in {None, store[n]}
      PROVE  OwnItems'
  <2>1. ASSUME NEW t \in Tasks, pc[t] \in {"validate", "create", "services"},
               NEW b \in Bases
        PROVE  store'[Item(b, ver[t])] \in {None, store[Item(b, ver[t])]}
    BY <1>1, <2>1, CurrentStack DEF InDeploy, Item, Names
  <2>2. \A t \in Tasks : pc[t] \in {"create", "services"} => Needs[Current(t)] \subseteq Bases
    BY CurrentStack DEF InDeploy
  <2> QED BY <1>1, <2>1, <2>2 DEF OwnItems, deployVars, taskLocal, Current, Present
<1>2. ASSUME NEW t \in Tasks, CreateSecret(t) \/ StackDeployConfigs(t)
      PROVE  OwnItems'
  <2>1. ASSUME NEW u \in Tasks \ {t}, ver[u] \notin clash, NEW b \in Bases,
               pc[u] \in InDeploy
        PROVE  store'[Item(b, ver[u])] = store[Item(b, ver[u])]
    <3>1. ver[u] # ver[t]
      BY <1>2, <2>1, StoreWrites DEF VersionsOwned, InDeploy
    <3>2. Item(b, ver[u]) \in Names
      BY <2>1, CurrentStack DEF Item, Names
    <3> QED BY <1>2, <3>1, <3>2, StoreWrites DEF Item
  <2>2. \A u \in Tasks : pc[u] \in InDeploy => Needs[Current(u)] \subseteq Bases
    BY CurrentStack
  <2>3. ASSUME NEW u \in Tasks \ {t}, ver'[u] \notin clash'
        PROVE  /\ pc'[u] = "validate" => \A b \in Bases : ~Present(Item(b, ver[u]))'
               /\ pc'[u] \in {"create", "services"} =>
                    /\ existing'[u] = {}
                    /\ \A b \in Needs[Current(u)'] :
                         store'[Item(b, ver'[u])] \in {None, vals'[u][b]}
    BY <1>2, <2>1, <2>2, <2>3, StoreWrites DEF OwnItems, InDeploy, Present, Current
  <2>4. ASSUME ver'[t] \notin clash'
        PROVE  /\ existing'[t] = {}
               /\ \A b \in Needs[Current(t)'] :
                    store'[Item(b, ver'[t])] \in {None, vals'[t][b]}
    BY <1>2, <2>2, <2>4, StoreWrites DEF OwnItems, InDeploy, Current
  <2>5. pc'[t] # "validate"
    BY <1>2, StoreWrites
  <2> QED BY <2>3, <2>4, <2>5 DEF OwnItems, Present
<1>3. ASSUME NEW t \in Tasks, TaskStep(t) \/ KillTask(t), UNCHANGED store,
             ~CreateSecret(t), ~StackDeployConfigs(t)
      PROVE  OwnItems'
  <2>1. ASSUME clash' = clash,
               \A u \in Tasks : pc'[u] \in {"validate", "create", "services"} =>
                 /\ pc'[u] = pc[u] /\ idx'[u] = idx[u] /\ ver'[u] = ver[u]
                 /\ vals'[u] = vals[u] /\ existing'[u] = existing[u]
        PROVE  OwnItems'
    BY <1>3, <2>1 DEF OwnItems, Current, Present
  <2>2. CASE StackExits(t)
    <3>1. NextStack(t) /\ clash' = clash
      BY <2>2, ExitEffect
    <3> QED BY <2>1, <3>1 DEF NextStack, Goto
  <2>3. CASE InspectNetwork(t) \/ CreateNetwork(t) \/ CreateNetworkFails(t)
             \/ NetworksReady(t) \/ FinishTask(t) \/ KillTask(t)
             \/ StackDeployServices(t)
    BY <2>1, <2>3 DEF InspectNetwork, CreateNetwork, CreateNetworkFails, NetworksReady,
       FinishTask, KillTask, StackDeployServices, Goto
  <2>4. CASE ValidateAndList(t)
    <3>1. Needed(t) \subseteq Bases /\ Needs[Current(t)] \subseteq Bases
      BY <2>4, CurrentStack DEF ValidateAndList, At, InDeploy, Needed
    <3>2. /\ pc[t] = "validate" /\ pc' = [pc EXCEPT ![t] = "create"]
          /\ existing' = [existing EXCEPT ![t] =
                            {b \in Needed(t) : Present(Item(b, ver[t]))}]
          /\ UNCHANGED <<ver, vals, idx, clash>>
      BY <2>4 DEF ValidateAndList, At, Goto
    <3>3. ver[t] \notin clash => \A b \in Bases : store[Item(b, ver[t])] = None
      BY <3>2 DEF OwnItems, Present
    <3>4. ver[t] \notin clash => existing'[t] = {}
      BY <3>1, <3>2, <3>3 DEF Present
    <3>5. ASSUME NEW u \in Tasks \ {t}
          PROVE  pc'[u] = pc[u] /\ existing'[u] = existing[u]
      BY <3>2
    <3> QED BY <1>3, <3>1, <3>2, <3>3, <3>4, <3>5 DEF OwnItems, Current, Present
  <2>5. CASE PrepareStack(t)
    <3>1. PICK sha \in Shas :
            LET stamp == [sha |-> sha, sec |-> now] IN
            /\ ver' = [ver EXCEPT ![t] = stamp]
            /\ clash' = IF stamp \in drawn THEN clash \cup {stamp} ELSE clash
      BY <2>5 DEF PrepareStack, DeployVersion
    <3> DEFINE stamp == [sha |-> sha, sec |-> now]
    <3>2. /\ pc' = [pc EXCEPT ![t] = "validate"] /\ UNCHANGED <<idx, existing>>
          /\ \A u \in Tasks \ {t} : vals'[u] = vals[u]
      BY <2>5 DEF PrepareStack, Goto
    <3>3. ver'[t] = stamp /\ \A u \in Tasks \ {t} : ver'[u] = ver[u]
      BY <3>1
    <3>4. clash \subseteq clash' /\ (stamp \in drawn => stamp \in clash')
      BY <3>1
    <3>5. ASSUME stamp \notin clash', NEW b \in Bases
          PROVE  store[Item(b, stamp)] = None
      <4>1. Item(b, stamp) \in Names /\ Item(b, stamp).ver = stamp
        BY DEF Item, Names, Versions
      <4> QED BY <3>4, <3>5, <4>1 DEF VersionsDrawn, Present
    <3> HIDE DEF stamp
    <3>6. ASSUME NEW u \in Tasks \ {t}
          PROVE  pc'[u] = pc[u]
      BY <3>2
    <3> QED BY <1>3, <3>2, <3>3, <3>4, <3>5, <3>6 DEF OwnItems, Current, Present
  <2> QED BY <1>3, <2>2, <2>3, <2>4, <2>5, TaskCases
<1> QED BY <1>1, <1>2, <1>3, StoreStep

\* What a specification mounts was its own deploy's, and stays so: nobody else
\* writes under its version.
LEMMA OwnMountsStep ==
  ASSUME IndInv, [Next]_vars
  PROVE  OwnMounts'
<1> USE DEF IndInv, TypeOK, SwarmTypeOK, DeployTypeOK, Deployed
<1>1. ASSUME NEW s \in Stacks, NEW b \in Needs[s]
      PROVE  \A sp \in Specs : Item(b, sp.ver) \in Names /\ Item(b, sp.ver).ver = sp.ver
  BY SwarmAssumption DEF Item, Names, Specs
<1>2. ASSUME \A s \in Stacks : /\ live'[s] \in {None, live[s], prior[s]}
                               /\ prior'[s] \in {None, live[s], prior[s]},
             \A n \in Names : store'[n] \in {None, store[n]},
             clash \subseteq clash'
      PROVE  OwnMounts'
  BY <1>1, <1>2 DEF OwnMounts
<1>3. CASE UNCHANGED <<deployVars, swarmVars>>
  BY <1>2, <1>3 DEF deployVars, swarmVars
<1>4. CASE UNCHANGED deployVars /\ ManagerStep
  <2>1. clash' = clash
    BY <1>4 DEF deployVars
  <2>2. CASE Tick
    BY <1>2, <2>1, <2>2 DEF Tick
  <2>3. ASSUME NEW s \in Stacks, UpdateCompletes(s) \/ UpdateRollsBack(s) \/ TasksDrained(s)
        PROVE  OwnMounts'
    BY <1>2, <2>1, <2>3 DEF UpdateCompletes, UpdateRollsBack, TasksDrained
  <2>4. ASSUME NEW c \in Cleaners, TryRemoveItem(c) \/ TryRemoveNetwork(c)
        PROVE  OwnMounts'
    BY <1>2, <2>1, <2>4 DEF TryRemoveItem, TryRemoveNetwork, ItemRm
  <2>5. ASSUME NEW r \in Removers, CallStackRm(r)
        PROVE  OwnMounts'
    BY <1>2, <2>1, <2>5 DEF CallStackRm, StackRm
  <2> QED BY <1>4, <2>2, <2>3, <2>4, <2>5 DEF ManagerStep
<1>5. ASSUME NEW t \in Tasks, TaskStep(t) \/ KillTask(t)
      PROVE  OwnMounts'
  <2>1. CASE TaskOnly(t)
    BY <1>2, <2>1, TaskOnlyEffect DEF swarmVars
  <2>2. CASE CreateNetwork(t)
    BY <1>2, <2>2 DEF CreateNetwork
  <2>3. CASE PrepareStack(t)
    <3>1. clash \subseteq clash'
      BY <2>3 DEF PrepareStack
    <3> QED BY <1>2, <2>3, <3>1 DEF PrepareStack, swarmVars
  <2>4. CASE CreateSecret(t) \/ StackDeployConfigs(t)
    <3>1. UNCHANGED <<clash, live, prior>> /\ pc[t] = "create"
      BY <2>4, StoreWrites
    <3>2. \A sp \in Specs, s \in Stacks : sp.ver # ver[t] =>
             \A b \in Needs[s] : store'[Item(b, sp.ver)] = store[Item(b, sp.ver)]
      BY <1>1, <2>4, StoreWrites
    <3>3. ver[t] \notin clash =>
             \A s \in Stacks : /\ live[s] # None => live[s].ver # ver[t]
                               /\ prior[s] # None => prior[s].ver # ver[t]
      BY <3>1 DEF VersionsOwned, InDeploy
    <3> QED BY <3>1, <3>2, <3>3 DEF OwnMounts
  <2>5. CASE StackDeployServices(t)
    <3> DEFINE sp == [ver |-> ver[t], want |-> vals[t]]
    <3>1. /\ pc[t] = "services" /\ UNCHANGED <<store, clash>>
          /\ live' = [live EXCEPT ![Current(t)] = sp]
          /\ prior' = [prior EXCEPT ![Current(t)] = live[Current(t)]]
      BY <2>5 DEF StackDeployServices, InstallSpec, At
    <3>2. ver[t] \notin clash => \A b \in Needs[Current(t)] :
                                    store[Item(b, sp.ver)] \in {None, sp.want[b]}
      BY <3>1 DEF OwnItems
    <3>3. sp.ver = ver[t]
      OBVIOUS
    <3> HIDE DEF sp
    <3>4. \A s \in Stacks : /\ live'[s] = IF s = Current(t) THEN sp ELSE live[s]
                            /\ prior'[s] \in {live[s], prior[s]}
      BY <3>1
    <3> QED BY <3>1, <3>2, <3>3, <3>4 DEF OwnMounts
  <2> QED BY <1>5, <2>1, <2>2, <2>3, <2>4, <2>5, TaskOnManager
<1> QED BY <1>3, <1>4, <1>5, ManagerOrTask

-----------------------------------------------------------------------------
(* The cleanup.                                                            *)

\* Each phase of an undisturbed cleanup starts with everything it has to
\* remove on its list, and leaves the list only when it is empty.
LEMMA SweepStep ==
  ASSUME IndInv, [Next]_vars
  PROVE  SweepProgress'
<1> USE DEF IndInv, TypeOK, SwarmTypeOK, CleanupTypeOK, SweepProgress, Present, Versioned,
            InUse, Deployed
<1>1. CASE Disturb /\ UNCHANGED <<cpc, items, netlist>>
  <2>1. \A c \in Cleaners : quiet'[c] => quiet[c] /\ store' = store /\ live' = live
    BY <1>1 DEF Disturb
  <2> QED BY <1>1, <2>1
<1>2. CASE UNCHANGED <<swarmVars, cleanupVars>>
  BY <1>2 DEF swarmVars, cleanupVars
<1>3. ASSUME NEW c \in Cleaners, CleanerStep(c) \/ AbortCleanup(c)
      PROVE  SweepProgress'
  <2> USE DEF swarmVars
  <2>1. \A n \in Names : n.base \in Secrets \cup Configs
    BY DEF Names, Bases
  <2>2. CASE ListSecrets(c) \/ ListConfigs(c)
    BY <2>1, <2>2 DEF ListSecrets, ListConfigs, Candidates
  <2>3. CASE TryRemoveItem(c)
    <3>1. PICK n \in items[c] : ItemRm(n) /\ items' = [items EXCEPT ![c] = @ \ {n}]
      BY <2>3 DEF TryRemoveItem
    <3>2. n \in Names
      BY <3>1
    <3>3. UNCHANGED <<cpc, quiet, live>>
      BY <2>3 DEF TryRemoveItem
    <3>4. \A m \in Names : store'[m] # None => store[m] # None
      BY <3>1, <3>2 DEF ItemRm
    <3>5. InUse(n) \/ store'[n] = None
      BY <3>1, <3>2 DEF ItemRm
    <3> QED BY <3>1, <3>3, <3>4, <3>5
  <2>4. CASE ListNetworks(c)
    BY <2>4 DEF ListNetworks
  <2>5. CASE TryRemoveNetwork(c)
    BY <2>5 DEF TryRemoveNetwork
  <2>6. CASE PruneNodes(c) \/ FinishCleanup(c) \/ AbortCleanup(c)
    BY <2>6 DEF PruneNodes, FinishCleanup, AbortCleanup
  <2> QED BY <1>3, <2>2, <2>3, <2>4, <2>5, <2>6 DEF CleanerStep
<1>4. ASSUME NEW t \in Tasks, KillTask(t), UNCHANGED cleanupVars
      PROVE  SweepProgress'
  BY <1>2, <1>4 DEF KillTask
<1> QED BY <1>1, <1>2, <1>3, <1>4, StepKinds

-----------------------------------------------------------------------------
(* The preparation.                                                        *)

\* Until a cleanup starts, no step takes an item or a network away.
LEMMA NothingLost ==
  ASSUME IndInv, [Next]_vars, \A c \in Cleaners : cpc'[c] = "idle"
  PROVE  /\ \A c \in Cleaners : cpc[c] = "idle"
         /\ \A n \in Names : Present(n) => Present(n)'
         /\ nets \subseteq nets'
<1> USE DEF IndInv, TypeOK, SwarmTypeOK, CleanupTypeOK, Present
<1>1. \A c \in Cleaners : CleanerStep(c) \/ AbortCleanup(c) => cpc'[c] # "idle"
  BY DEF CleanerStep, AbortCleanup, ListSecrets, ListConfigs, ListNetworks,
     TryRemoveItem, TryRemoveNetwork, PruneNodes, FinishCleanup
<1>2. \A c \in Cleaners : cpc[c] = "idle"
  BY <1>1, StepKinds DEF cleanupVars
<1>3. \A c \in Cleaners : ~TryRemoveItem(c) /\ ~TryRemoveNetwork(c)
  BY <1>2 DEF TryRemoveItem, TryRemoveNetwork
<1>4. CASE UNCHANGED swarmVars
  BY <1>2, <1>4 DEF swarmVars
<1>5. CASE ManagerStep
  <2>1. UNCHANGED <<store, nets>>
    BY <1>3, <1>5 DEF ManagerStep, Tick, UpdateCompletes, UpdateRollsBack, TasksDrained,
       CallStackRm
  <2> QED BY <1>2, <2>1
<1>6. ASSUME NEW t \in Tasks, TaskStep(t) \/ KillTask(t)
      PROVE  (\A n \in Names : Present(n) => Present(n)') /\ nets \subseteq nets'
  <2>1. CASE TaskOnly(t)
    BY <2>1, TaskOnlyEffect DEF swarmVars
  <2>2. CASE CreateNetwork(t) \/ PrepareStack(t) \/ StackDeployServices(t)
    BY <2>2 DEF CreateNetwork, PrepareStack, StackDeployServices, swarmVars
  <2>3. CASE CreateSecret(t)
    <3>1. PICK b \in todo[t] : EnsureSecret(t, b)
      BY <2>3 DEF CreateSecret
    <3>2. vals[t][b] # None
      BY <2>3, <3>1, NoneAssumption DEF CreateSecret, At, Resolved, Needed
    <3> QED BY <2>3, <3>1, <3>2 DEF CreateSecret, EnsureSecret, SecretCreate
  <2>4. CASE StackDeployConfigs(t)
    <3>1. \A b \in Needs[Current(t)] : vals[t][b] # None
      BY <2>4, NoneAssumption DEF StackDeployConfigs, At, Resolved
    <3> QED BY <2>4, <3>1 DEF StackDeployConfigs
  <2> QED BY <1>6, <2>1, <2>2, <2>3, <2>4, TaskOnManager
<1> QED BY <1>2, <1>4, <1>5, <1>6, ManagerOrTask

\* The part of Prepared about one task.
PreparedTask(t) ==
  /\ pc[t] \in {"create", "services"} =>
       \A b \in Needed(t) \ todo[t] : Present(Item(b, ver[t]))
  /\ pc[t] = "create" => \A b \in existing[t] : Present(Item(b, ver[t]))
  /\ pc[t] = "init" => Networks \ pending[t] \subseteq nets
  /\ pc[t] = "mknet" => Networks \ (pending[t] \cup {missing[t]}) \subseteq nets
  /\ t \in InitsNets /\ pc[t] \notin {"init", "mknet", "done"} => Networks \subseteq nets

\* A task whose own variables are left alone stays prepared.
LEMMA StaysPrepared ==
  ASSUME IndInv, [Next]_vars, \A c \in Cleaners : cpc'[c] = "idle",
         NEW u \in Tasks,
         \/ pc'[u] = pc[u]
         \/ pc'[u] \notin {"init", "mknet", "create"}
              /\ pc[u] \in {"next"} \cup InDeploy
              /\ (pc'[u] = "services" => pc[u] = "create"),
         idx'[u] = idx[u] \/ pc'[u] = "next",
         pc'[u] \in {"create", "services"} =>
           ver'[u] = ver[u] /\ existing'[u] = existing[u] /\ todo'[u] = todo[u],
         pc'[u] \in {"init", "mknet"} =>
           pending'[u] = pending[u] /\ missing'[u] = missing[u]
  PROVE  PreparedTask(u)'
<1>1. /\ PreparedTask(u)
      /\ \A n \in Names : Present(n) => Present(n)'
      /\ nets \subseteq nets'
  BY NothingLost DEF IndInv, Prepared, PreparedTask
<1>2. pc'[u] \in {"create", "services"} => pc[u] \in {"create", "services"}
  OBVIOUS
<1>3. pc[u] \in {"create", "services"} =>
        /\ Needed(u) \subseteq Bases
        /\ \A b \in Bases : Item(b, ver[u]) \in Names
  BY CurrentStack DEF IndInv, InDeploy, Item, Names, Needed
<1>4. existing[u] \subseteq Bases
  BY DEF IndInv, TypeOK, DeployTypeOK, Bases
<1>5. pc'[u] \in {"create", "services"} =>
        \A b \in Bases : Present(Item(b, ver[u])) => Present(Item(b, ver[u]))'
  BY <1>1, <1>2, <1>3 DEF Present
<1>6. pc'[u] \in {"create", "services"} =>
        \A b \in (Needed(u) \ todo[u])' : Present(Item(b, ver[u]))'
  BY <1>1, <1>2, <1>3, <1>5 DEF PreparedTask, Needed, Current, Present
<1>7. pc'[u] = "create" => \A b \in existing'[u] : Present(Item(b, ver[u]))'
  BY <1>1, <1>2, <1>4, <1>5 DEF PreparedTask, Present
<1>8. /\ pc'[u] = "init" => Networks \ pending'[u] \subseteq nets'
      /\ pc'[u] = "mknet" => Networks \ (pending'[u] \cup {missing'[u]}) \subseteq nets'
      /\ u \in InitsNets /\ pc'[u] \notin {"init", "mknet", "done"} => Networks \subseteq nets'
  BY <1>1 DEF PreparedTask, InDeploy
<1> QED BY <1>6, <1>7, <1>8 DEF PreparedTask

LEMMA PreparedStep ==
  ASSUME IndInv, [Next]_vars
  PROVE  Prepared'
<1> USE DEF IndInv, TypeOK, SwarmTypeOK, DeployTypeOK
<1> SUFFICES ASSUME \A c \in Cleaners : cpc'[c] = "idle"
             PROVE  \A u \in Tasks : PreparedTask(u)'
  BY DEF Prepared, PreparedTask
<1>1. \A u \in Tasks : PreparedTask(u)
  BY NothingLost DEF Prepared, PreparedTask
<1>2. CASE UNCHANGED deployVars
  BY <1>2, StaysPrepared DEF deployVars, taskLocal
<1>3. ASSUME NEW t \in Tasks, TaskStep(t) \/ KillTask(t)
      PROVE  \A u \in Tasks : PreparedTask(u)'
  <2> USE DEF Goto, At
  <2>1. CASE InspectNetwork(t) \/ CreateNetwork(t) \/ CreateNetworkFails(t)
    <3>1. PreparedTask(t)
      BY <1>1
    <3>2. PreparedTask(t)'
      BY <2>1, <3>1 DEF InspectNetwork, CreateNetwork, CreateNetworkFails, PreparedTask,
         swarmVars
    <3>3. \A u \in Tasks \ {t} : PreparedTask(u)'
      BY <2>1, StaysPrepared DEF InspectNetwork, CreateNetwork, CreateNetworkFails
    <3> QED BY <3>2, <3>3
  <2>2. CASE NetworksReady(t)
    <3>1. PreparedTask(t)
      BY <1>1
    <3>2. PreparedTask(t)'
      BY <2>2, <3>1 DEF NetworksReady, PreparedTask, swarmVars
    <3>3. \A u \in Tasks \ {t} : PreparedTask(u)'
      BY <2>2, StaysPrepared DEF NetworksReady
    <3> QED BY <3>2, <3>3
  <2>3. CASE FinishTask(t) \/ KillTask(t)
    <3>1. PreparedTask(t)'
      BY <2>3 DEF FinishTask, KillTask, PreparedTask
    <3>2. \A u \in Tasks \ {t} : PreparedTask(u)'
      BY <2>3, StaysPrepared DEF FinishTask, KillTask
    <3> QED BY <3>1, <3>2
  <2>4. CASE PrepareStack(t) \/ StackDeployServices(t)
    BY <2>4, StaysPrepared DEF PrepareStack, StackDeployServices, InDeploy
  <2>5. CASE StackDeployConfigs(t)
    BY <2>5, StaysPrepared DEF StackDeployConfigs, InDeploy
  <2>6. CASE StackExits(t)
    <3>1. NextStack(t) /\ UNCHANGED <<pending, missing>> /\ pc[t] \in {"next"} \cup InDeploy
      BY <2>6, ExitEffect
    <3> QED BY <3>1, StaysPrepared DEF NextStack
  <2>7. CASE ValidateAndList(t)
    <3>1. PreparedTask(t)
      BY <1>1
    <3>2. /\ \A b \in existing'[t] : Present(Item(b, ver[t]))
          /\ todo'[t] = Needed(t)
          /\ UNCHANGED <<ver, idx, store, nets>>
          /\ pc[t] = "validate" /\ pc'[t] = "create"
      BY <2>7 DEF ValidateAndList, swarmVars
    <3>3. PreparedTask(t)'
      BY <3>1, <3>2 DEF PreparedTask, Needed, Current, Present
    <3>4. \A u \in Tasks \ {t} : PreparedTask(u)'
      BY <2>7, StaysPrepared DEF ValidateAndList
    <3> QED BY <3>3, <3>4
  <2>8. CASE CreateSecret(t)
    <3>1. PICK b \in todo[t] : EnsureSecret(t, b) /\ todo' = [todo EXCEPT ![t] = @ \ {b}]
      BY <2>8 DEF CreateSecret
    <3>2. pc[t] = "create" /\ UNCHANGED <<pc, ver, idx, existing, nets, pending, missing>>
      BY <2>8 DEF CreateSecret
    <3>3. PreparedTask(t) /\ \A n \in Names : Present(n) => store'[n] # None
      BY <1>1, NothingLost DEF Present
    <3>4. /\ Needed(t) \subseteq Bases /\ existing[t] \subseteq Bases /\ b \in Needed(t)
          /\ \A a \in Bases : Item(a, ver[t]) \in Names
      BY <3>1, <3>2, CurrentStack DEF Resolved, InDeploy, Item, Names, Needed, Bases
    <3>5. vals[t][b] # None
      BY <3>2, <3>4, NoneAssumption DEF Resolved, Needed
    <3>6. store'[Item(b, ver[t])] # None
      BY <3>1, <3>2, <3>3, <3>4, <3>5 DEF EnsureSecret, SecretCreate, PreparedTask
    <3>7. \A a \in Needed(t) \ todo'[t] : store'[Item(a, ver[t])] # None
      BY <3>1, <3>2, <3>3, <3>4, <3>6 DEF PreparedTask
    <3>8. \A a \in existing[t] : store'[Item(a, ver[t])] # None
      BY <3>2, <3>3, <3>4 DEF PreparedTask
    <3>9. PreparedTask(t)'
      BY <3>2, <3>3, <3>7, <3>8 DEF PreparedTask, Present, Needed, Current
    <3>10. \A u \in Tasks \ {t} : PreparedTask(u)'
      BY <3>1, <3>2, StaysPrepared
    <3> QED BY <3>9, <3>10
  <2> QED BY <1>3, <2>1, <2>2, <2>3, <2>4, <2>5, <2>6, <2>7, <2>8, TaskCases
<1> QED BY <1>2, <1>3, TaskOrNot

-----------------------------------------------------------------------------
(* The theorems.                                                           *)

LEMMA InitImpliesIndInv ==
  ASSUME Init
  PROVE  IndInv
<1> USE SwarmAssumption DEF Init, SwarmInit, DeployInit, CleanupInit, RemoveInit
<1>1. TypeOK
  <2>1. SwarmTypeOK
    BY DEF SwarmTypeOK
  <2>2. NoVals \in Sources
    BY DEF NoVals, Sources
  <2>3. DeployTypeOK
    BY <2>2 DEF DeployTypeOK, TaskPCs
  <2> QED BY <2>1, <2>3 DEF TypeOK, CleanupTypeOK, RemoveTypeOK, CleanerPCs, RemoverPCs,
             Outcomes
<1>2. /\ TaskShape /\ RemoverShape /\ Resolved /\ UpdatesDeployed
      /\ VersionsOwned /\ OwnItems /\ OwnMounts
      /\ ReferencedItemsExist /\ AttachedNetworksExist
  BY DEF TaskShape, RemoverShape, Resolved, UpdatesDeployed, VersionsOwned,
     OwnItems, OwnMounts, ReferencedItemsExist, AttachedNetworksExist, InDeploy, Deployed
<1>3. VersionsDrawn /\ SweepProgress
  BY DEF VersionsDrawn, Deployed, Present, SweepProgress
<1>4. StacksAccounted
  <2>1. \A t \in Tasks : \A i \in DOMAIN Plan[t] : ~(i < 1)
    BY TaskAssumption
  <2> QED BY <2>1 DEF StacksAccounted
<1>5. Prepared
  BY DEF Prepared
<1> QED BY <1>1, <1>2, <1>3, <1>4, <1>5 DEF IndInv

LEMMA IndInvStep ==
  ASSUME IndInv, [Next]_vars
  PROVE  IndInv'
  BY TypesStep, TaskShapeStep, RemoverShapeStep, ResolvedStep, UpdatesDeployedStep,
     DrawnStep, OwnedStep, OwnItemsStep, OwnMountsStep, ReferencedStep, AttachedStep,
     SweepStep, AccountedStep, PreparedStep
     DEF IndInv

\* The invariant holds in every reachable state, whatever tasks, cleanups and
\* removals operators start and wherever they are interrupted.
THEOREM Invariance == Spec => []IndInv
<1>1. Init => IndInv
  BY InitImpliesIndInv
<1>2. IndInv /\ [Next]_vars => IndInv'
  BY IndInvStep
<1> QED BY <1>1, <1>2, PTL DEF Spec

\* Every variable of the manager and of the runs keeps its type.
THEOREM TypeCorrect == Spec => []TypeOK
<1>1. IndInv => TypeOK
  BY DEF IndInv
<1> QED BY <1>1, Invariance, PTL

\* No service refers to a secret or config that a cleanup removed: create
\* before deploy, and removal without force, are enough whatever runs at once.
THEOREM ServicesKeepTheirItems == Spec => []ReferencedItemsExist
<1>1. IndInv => ReferencedItemsExist
  BY DEF IndInv
<1> QED BY <1>1, Invariance, PTL

\* Versions drawn in different seconds or at different commits are enough to
\* keep the contents of concurrent and successive deploys apart.
THEOREM MountsAreFaithful == Spec => []ServicesMountWhatWasResolved
<1>1. IndInv => ServicesMountWhatWasResolved
  BY DEF IndInv, OwnMounts, ReferencedItemsExist, ServicesMountWhatWasResolved, Present
<1> QED BY <1>1, Invariance, PTL

\* A network a service is attached to survives every cleanup.
THEOREM NetworksSurvive == Spec => []AttachedNetworksExist
<1>1. IndInv => AttachedNetworksExist
  BY DEF IndInv
<1> QED BY <1>1, Invariance, PTL

\* One pass over lists taken once is enough, if nothing disturbs the cleanup:
\* it leaves no versioned item that no service refers to.
THEOREM CleanupIsThorough == Spec => []QuietCleanupIsThorough
<1>1. IndInv => QuietCleanupIsThorough
  BY DEF IndInv, SweepProgress, QuietCleanupIsThorough
<1> QED BY <1>1, Invariance, PTL

\* Every stack of a task that ran to its end was handed to Swarm or reported.
THEOREM FailuresAreReported == Spec => []TasksReportFailures
<1>1. IndInv => TasksReportFailures
  <2> SUFFICES ASSUME IndInv, NEW t \in Tasks, result[t] \in {"ok", "failed"},
                      NEW i \in DOMAIN Plan[t]
               PROVE  Plan[t][i] \in failed[t] \cup handed[t]
    BY DEF IndInv, StacksAccounted, TasksReportFailures
  <2>1. i \in 1..Len(Plan[t]) /\ idx[t] \in Nat \ {0} /\ DOMAIN Plan[t] = 1..Len(Plan[t])
        /\ Len(Plan[t]) \in Nat
    BY TaskAssumption DEF IndInv, TypeOK, DeployTypeOK
  <2>2. idx[t] \notin DOMAIN Plan[t]
    BY DEF IndInv, StacksAccounted
  <2>3. i < idx[t]
    BY <2>1, <2>2
  <2> QED BY <2>3 DEF IndInv, StacksAccounted
<1> QED BY <1>1, Invariance, PTL

\* Until a cleanup starts, what the preparing steps of a deploy provided is
\* still there when docker stack deploy needs it.
THEOREM PreparationHolds == Spec => []PreparedMeansDeployable
<1>1. IndInv => PreparedMeansDeployable
  BY DEF IndInv, Prepared, PreparedMeansDeployable, InDeploy
<1> QED BY <1>1, Invariance, PTL

-----------------------------------------------------------------------------
(* The stacks implement StackContents.                                     *)

offers == [t \in Tasks |-> OfferOf(t)]
mounts == [s \in Stacks |-> Seen(s, live[s])]
fallbacks == [s \in Stacks |-> Seen(s, prior[s])]

\* A step that is none of a task's leaves the offers alone.
LEMMA OffersKept ==
  ASSUME UNCHANGED deployVars
  PROVE  offers' = offers
  BY DEF offers, OfferOf, Current, deployVars, taskLocal

\* What a specification is seen to hold stays while the items under its version do.
LEMMA SeenKept ==
  ASSUME NEW s \in Stacks, UNCHANGED <<clash, live, prior>>
  PROVE  /\ (live[s] # None /\ live[s].ver \notin clash =>
               \A b \in Needs[s] :
                 store'[Item(b, live[s].ver)] = store[Item(b, live[s].ver)])
              => mounts'[s] = mounts[s]
         /\ (prior[s] # None /\ prior[s].ver \notin clash =>
               \A b \in Needs[s] :
                 store'[Item(b, prior[s].ver)] = store[Item(b, prior[s].ver)])
              => fallbacks'[s] = fallbacks[s]
<1>1. ASSUME live[s] # None /\ live[s].ver \notin clash =>
               \A b \in Needs[s] :
                 store'[Item(b, live[s].ver)] = store[Item(b, live[s].ver)]
      PROVE  mounts'[s] = mounts[s]
  <2>1. CASE live[s] # None /\ live[s].ver \notin clash
    <3>1. [b \in Needs[s] |-> store'[Item(b, live[s].ver)]]
            = [b \in Needs[s] |-> store[Item(b, live[s].ver)]]
      BY <1>1, <2>1
    <3> QED BY <2>1, <3>1 DEF mounts, Seen
  <2>2. CASE ~(live[s] # None /\ live[s].ver \notin clash)
    BY <2>2 DEF mounts, Seen
  <2> QED BY <2>1, <2>2
<1>2. ASSUME prior[s] # None /\ prior[s].ver \notin clash =>
               \A b \in Needs[s] :
                 store'[Item(b, prior[s].ver)] = store[Item(b, prior[s].ver)]
      PROVE  fallbacks'[s] = fallbacks[s]
  <2>1. CASE prior[s] # None /\ prior[s].ver \notin clash
    <3>1. [b \in Needs[s] |-> store'[Item(b, prior[s].ver)]]
            = [b \in Needs[s] |-> store[Item(b, prior[s].ver)]]
      BY <1>2, <2>1
    <3> QED BY <2>1, <3>1 DEF fallbacks, Seen
  <2>2. CASE ~(prior[s] # None /\ prior[s].ver \notin clash)
    BY <2>2 DEF fallbacks, Seen
  <2> QED BY <2>1, <2>2
<1> QED BY <1>1, <1>2

\* So nothing is seen to change when neither specifications nor store do.
LEMMA StacksKept ==
  ASSUME UNCHANGED <<store, live, prior, clash>>
  PROVE  mounts' = mounts /\ fallbacks' = fallbacks
  BY DEF mounts, fallbacks, Seen

\* A step of the manager settles, rolls back or removes, or takes an item that no
\* stack mounts.
LEMMA ManagerMaps ==
  ASSUME IndInv, UNCHANGED deployVars, ManagerStep
  PROVE  [Contents!Next]_<<offers, mounts, fallbacks>>
<1> USE DEF IndInv, TypeOK, SwarmTypeOK
<1>1. offers' = offers /\ clash' = clash
  BY OffersKept DEF deployVars
<1>2. ASSUME UNCHANGED <<store, live, prior>>
      PROVE  UNCHANGED <<offers, mounts, fallbacks>>
  BY <1>1, <1>2, StacksKept
<1>3. ASSUME NEW s \in Stacks, UpdateCompletes(s)
      PROVE  Contents!Settle(s)
  <2>1. mounts' = mounts
    BY <1>1, <1>3 DEF UpdateCompletes, mounts, Seen
  <2>2. fallbacks' = [fallbacks EXCEPT ![s] = Contents!Nothing]
    BY <1>1, <1>3 DEF UpdateCompletes, fallbacks, Seen, Contents!Nothing
  <2> QED BY <1>1, <2>1, <2>2 DEF Contents!Settle, offers, mounts, fallbacks
<1>4. ASSUME NEW s \in Stacks, UpdateRollsBack(s)
      PROVE  Contents!RollBack(s)
  <2>1. mounts' = [mounts EXCEPT ![s] = fallbacks[s]]
    BY <1>1, <1>4 DEF UpdateRollsBack, mounts, fallbacks, Seen
  <2>2. fallbacks' = [fallbacks EXCEPT ![s] = Contents!Nothing]
    BY <1>1, <1>4 DEF UpdateRollsBack, fallbacks, Seen, Contents!Nothing
  <2>3. fallbacks[s] # Contents!Nothing
    BY <1>4 DEF UpdateRollsBack, UpdatesDeployed, fallbacks, Seen, Contents!Nothing
  <2> QED BY <1>1, <2>1, <2>2, <2>3 DEF Contents!RollBack, offers, mounts, fallbacks
<1>5. ASSUME NEW r \in Removers, CallStackRm(r)
      PROVE  \E s \in Stacks : Contents!Remove(s)
  <2>1. Target(r) \in Stacks /\ StackRm(Target(r)) /\ store' = store
    BY <1>5, TargetStack DEF CallStackRm
  <2>2. mounts' = [mounts EXCEPT ![Target(r)] = Contents!Nothing]
    BY <1>1, <2>1 DEF StackRm, mounts, Seen, Contents!Nothing
  <2>3. fallbacks' = [fallbacks EXCEPT ![Target(r)] = Contents!Nothing]
    BY <1>1, <2>1 DEF StackRm, fallbacks, Seen, Contents!Nothing
  <2> QED BY <1>1, <2>1, <2>2, <2>3 DEF Contents!Remove, offers, mounts, fallbacks
<1>6. ASSUME NEW c \in Cleaners, TryRemoveItem(c), store' # store
      PROVE  \E v \in Versions, b \in Bases : Contents!Lose(v, b)
  <2>1. PICK n \in Names : ~InUse(n) /\ store' = [store EXCEPT ![n] = None]
    BY <1>6 DEF TryRemoveItem, ItemRm, CleanupTypeOK
  <2>2. n.base \in Bases /\ n.ver \in Versions /\ n = Item(n.base, n.ver)
    BY DEF Names, Item
  <2>3. UNCHANGED <<live, prior>>
    BY <1>6 DEF TryRemoveItem
  <2>4. ASSUME NEW b, NEW v, b # n.base \/ v # n.ver
        PROVE  store'[Item(b, v)] = store[Item(b, v)]
    BY <2>1, <2>2, <2>4 DEF Item
  <2>5. \A s \in Stacks : Contents!Bears(mounts[s], n.ver) => n.base \notin Needs[s]
    BY <2>1 DEF InUse, Deployed, mounts, Seen, Contents!Bears, Contents!Nothing
  <2>6. mounts' = mounts
    <3>1. ASSUME NEW s \in Stacks
          PROVE  mounts'[s] = mounts[s]
      <4>1. live[s] # None => \A b \in Needs[s] : b # n.base \/ live[s].ver # n.ver
        BY <2>1 DEF InUse, Deployed
      <4> QED BY <1>1, <2>3, <2>4, <4>1, SeenKept
    <3> QED BY <3>1 DEF mounts
  <2> DEFINE Loses(s) == fallbacks[s].is = "contents" /\ Contents!Bears(fallbacks[s], n.ver)
  <2>7. ASSUME NEW s \in Stacks
        PROVE  fallbacks'[s] =
                 IF Loses(s) THEN Contents!Holds(n.ver, [fallbacks[s].of EXCEPT ![n.base] = None])
                 ELSE fallbacks[s]
    <3>1. CASE prior[s] # None /\ prior[s].ver = n.ver /\ n.ver \notin clash
      <4>1. fallbacks[s] = Contents!Holds(n.ver, [b \in Needs[s] |-> store[Item(b, n.ver)]])
        BY <3>1 DEF fallbacks, Seen, Contents!Holds
      <4>2. Loses(s)
        BY <4>1 DEF Contents!Holds, Contents!Bears, Contents!Nothing
      <4>3. fallbacks[s].of = [b \in Needs[s] |-> store[Item(b, n.ver)]]
        BY <4>1 DEF Contents!Holds
      <4>4. \A b \in Needs[s] : store'[Item(b, n.ver)] =
                               IF b = n.base THEN None ELSE store[Item(b, n.ver)]
        BY <2>1, <2>2, <2>4
      <4>5. [b \in Needs[s] |-> store'[Item(b, n.ver)]]
              = [fallbacks[s].of EXCEPT ![n.base] = None]
        BY <4>3, <4>4
      <4> QED BY <1>1, <2>3, <3>1, <4>2, <4>5 DEF fallbacks, Seen, Contents!Holds
    <3>2. CASE ~(prior[s] # None /\ prior[s].ver = n.ver /\ n.ver \notin clash)
      <4>1. ~Loses(s)
        BY <3>2 DEF fallbacks, Seen, Contents!Bears, Contents!Nothing
      <4>2. fallbacks'[s] = fallbacks[s]
        BY <1>1, <2>3, <2>4, <3>2, SeenKept
      <4> QED BY <4>1, <4>2
    <3> QED BY <3>1, <3>2
  <2>8. fallbacks' = [s \in Stacks |->
          IF Loses(s) THEN Contents!Holds(n.ver, [fallbacks[s].of EXCEPT ![n.base] = None])
          ELSE fallbacks[s]]
    BY <2>7 DEF fallbacks
  <2>9. Contents!Lose(n.ver, n.base)
    BY <1>1, <2>5, <2>6, <2>8 DEF Contents!Lose, offers, mounts, fallbacks
  <2> QED BY <2>2, <2>9
<1>7. ASSUME NEW c \in Cleaners, TryRemoveItem(c) \/ TryRemoveNetwork(c), store' = store
      PROVE  UNCHANGED <<offers, mounts, fallbacks>>
  BY <1>2, <1>7 DEF TryRemoveItem, TryRemoveNetwork
<1>8. Tick => UNCHANGED <<offers, mounts, fallbacks>>
  BY <1>2 DEF Tick
<1>9. ASSUME NEW s \in Stacks, TasksDrained(s)
      PROVE  UNCHANGED <<offers, mounts, fallbacks>>
  BY <1>2, <1>9 DEF TasksDrained
<1>10. ASSUME NEW s \in Stacks, UpdateCompletes(s) \/ UpdateRollsBack(s)
       PROVE  Contents!Next
  BY <1>3, <1>4, <1>10 DEF Contents!Next
<1>11. ASSUME NEW r \in Removers, CallStackRm(r)
       PROVE  Contents!Next
  BY <1>5, <1>11 DEF Contents!Next
<1>12. ASSUME NEW c \in Cleaners, TryRemoveItem(c) \/ TryRemoveNetwork(c)
       PROVE  Contents!Next \/ UNCHANGED <<offers, mounts, fallbacks>>
  <2>1. CASE store' = store
    BY <1>7, <1>12, <2>1
  <2>2. CASE store' # store
    <3>1. TryRemoveItem(c)
      BY <1>12, <2>2 DEF TryRemoveNetwork
    <3> QED BY <1>6, <2>2, <3>1 DEF Contents!Next
  <2> QED BY <2>1, <2>2
<1> HIDE DEF IndInv, TypeOK, SwarmTypeOK
<1> QED BY <1>8, <1>9, <1>10, <1>11, <1>12 DEF ManagerStep

\* A task inside a deploy offers something, a task elsewhere nothing.
LEMMA OffersWhat ==
  ASSUME NEW t \in Tasks
  PROVE  /\ pc[t] \notin InDeploy \ {"verify"} => offers[t] = Contents!NoOffer
         /\ pc[t] \in InDeploy \ {"verify"} /\ ver[t] \in clash
              => offers[t] = Contents!Offer(Current(t), Contents!Unclear(ver[t]))
         /\ pc[t] \in InDeploy \ {"verify"} /\ ver[t] \notin clash
              => offers[t] = Contents!Offer(Current(t),
                   Contents!Holds(ver[t], [b \in Needs[Current(t)] |-> vals[t][b]]))
  BY DEF offers, OfferOf, Contents!NoOffer, Contents!Nothing, Contents!Offer,
     Contents!Unclear, Contents!Holds

\* The offer of a task that keeps its place, version and contents stays.
LEMMA OfferKept ==
  ASSUME NEW t \in Tasks, clash' = clash,
         \/ UNCHANGED <<ver[t], idx[t], vals[t]>> /\ pc'[t] \in InDeploy \ {"verify"}
                                  /\ pc[t] \in InDeploy \ {"verify"}
         \/ pc'[t] \notin InDeploy \ {"verify"} /\ pc[t] \notin InDeploy \ {"verify"}
  PROVE  offers'[t] = offers[t]
  BY DEF offers, OfferOf, Current

\* A task that does not touch the manager keeps its offer or withdraws it.
LEMMA TaskOnlyMaps ==
  ASSUME IndInv, NEW t \in Tasks, TaskOnly(t)
  PROVE  [Contents!Next]_<<offers, mounts, fallbacks>>
<1> USE DEF IndInv, TypeOK, DeployTypeOK
<1>1. UNCHANGED <<swarmVars, clash>>
  BY TaskOnlyEffect
<1>2. mounts' = mounts /\ fallbacks' = fallbacks
  BY <1>1, StacksKept DEF swarmVars
<1>3. CASE InspectNetwork(t) \/ CreateNetworkFails(t) \/ NetworksReady(t)
           \/ ValidateAndList(t)
  <2>1. \A u \in Tasks : offers'[u] = offers[u]
    BY <1>1, <1>3, OfferKept DEF InspectNetwork, CreateNetworkFails, NetworksReady,
       ValidateAndList, InDeploy, At, Goto
  <2>2. offers' = offers
    BY <2>1 DEF offers
  <2> QED BY <1>2, <2>2
<1>4. CASE StackExits(t) \/ FinishTask(t) \/ KillTask(t)
  <2>1. /\ pc'[t] \in {"next", "done"}
        /\ \A u \in Tasks \ {t} : UNCHANGED <<pc[u], ver[u], idx[u], vals[u]>>
    BY <1>4, ExitEffect DEF NextStack, FinishTask, KillTask, Goto
  <2>2. \A u \in Tasks \ {t} : offers'[u] = offers[u]
    BY <1>1, <2>1, OfferKept
  <2>3. offers'[t] = Contents!NoOffer
    BY <2>1 DEF offers, OfferOf, Contents!NoOffer, Contents!Nothing, InDeploy
  <2>4. offers' = [offers EXCEPT ![t] = Contents!NoOffer]
    BY <2>2, <2>3 DEF offers
  <2>5. Contents!Withdraw(t)
    BY <1>2, <2>4 DEF Contents!Withdraw, offers, mounts, fallbacks
  <2> QED BY <2>5 DEF Contents!Next
<1> QED BY <1>3, <1>4 DEF TaskOnly

\* What a deploy writes before it hands over is under a version no stack bears.
LEMMA WritesMap ==
  ASSUME IndInv, NEW t \in Tasks, CreateSecret(t) \/ StackDeployConfigs(t)
  PROVE  UNCHANGED <<offers, mounts, fallbacks>>
<1> USE DEF IndInv, TypeOK, DeployTypeOK
<1>1. /\ pc[t] = "create" /\ pc'[t] \in {"create", "services"}
      /\ \A u \in Tasks \ {t} : pc'[u] = pc[u]
      /\ UNCHANGED <<ver, vals, idx, clash, live, prior>>
      /\ \A n \in Names : store'[n] # store[n] => n.ver = ver[t]
  BY StoreWrites
<1>2. offers' = offers
  <2>1. \A u \in Tasks : offers'[u] = offers[u]
    BY <1>1, OfferKept DEF InDeploy
  <2> QED BY <2>1 DEF offers
<1>3. ASSUME NEW s \in Stacks, NEW spec \in Specs, spec = live[s] \/ spec = prior[s],
             spec.ver \notin clash
      PROVE  \A b \in Needs[s] : store'[Item(b, spec.ver)] = store[Item(b, spec.ver)]
  <2>1. spec.ver # ver[t] /\ spec.ver \in Versions
    BY <1>1, <1>3, NoneAssumption DEF VersionsOwned, InDeploy, Deployed, Specs
  <2>2. \A b \in Needs[s] : Item(b, spec.ver) \in Names /\ Item(b, spec.ver).ver = spec.ver
    BY <2>1, SwarmAssumption DEF Item, Names
  <2> QED BY <1>1, <2>1, <2>2
<1>4. ASSUME NEW s \in Stacks
      PROVE  mounts'[s] = mounts[s] /\ fallbacks'[s] = fallbacks[s]
  <2>1. live[s] \in Specs \cup {None} /\ prior[s] \in Specs \cup {None}
    BY DEF SwarmTypeOK
  <2> QED BY <1>1, <1>3, <2>1, SeenKept
<1> QED BY <1>2, <1>4 DEF mounts, fallbacks

\* The hand-over mounts what the task offered, and keeps what was mounted.
LEMMA HandOverMaps ==
  ASSUME IndInv, NEW t \in Tasks, StackDeployServices(t)
  PROVE  Contents!Deploy(t, Current(t))
<1> USE DEF IndInv, TypeOK, SwarmTypeOK, DeployTypeOK
<1> DEFINE s == Current(t)
           spec == [ver |-> ver[t], want |-> vals[t]]
<1>1. /\ pc[t] = "services" /\ pc' = [pc EXCEPT ![t] = "verify"]
      /\ UNCHANGED <<ver, vals, idx, clash, store>>
      /\ live' = [live EXCEPT ![s] = spec]
      /\ prior' = [prior EXCEPT ![s] = live[s]]
      /\ \A b \in Needs[s] : Present(Item(b, ver[t]))
  BY DEF StackDeployServices, InstallSpec, At, Goto
<1>2. s \in Stacks /\ spec # None
  <2>1. s \in Stacks /\ spec \in Specs
    BY ServicesTypes
  <2> HIDE DEF s, spec
  <2> QED BY <2>1, NoneAssumption
<1>3. offers[t].for = s
  BY <1>1 DEF offers, OfferOf, InDeploy
<1>4. ver[t] \in clash => offers[t].what = Contents!Unclear(ver[t])
  <2>1. ver[t] \in clash => offers[t] = Contents!Offer(s, Contents!Unclear(ver[t]))
    BY <1>1, OffersWhat DEF InDeploy
  <2> QED BY <2>1 DEF Contents!Offer
<1>5. ver[t] \notin clash =>
        offers[t].what = Contents!Holds(ver[t], [b \in Needs[s] |-> vals[t][b]])
  <2>1. ver[t] \notin clash => offers[t] =
          Contents!Offer(s, Contents!Holds(ver[t], [b \in Needs[s] |-> vals[t][b]]))
    BY <1>1, OffersWhat DEF InDeploy
  <2> QED BY <2>1 DEF Contents!Offer
<1>6. offers[t].what = Seen(s, spec)
  <2>1. CASE ver[t] \in clash
    BY <1>2, <1>4, <2>1 DEF Seen, Contents!Unclear
  <2>2. CASE ver[t] \notin clash
    <3>1. \A b \in Needs[s] : store[Item(b, ver[t])] = vals[t][b]
      BY <1>1, <2>2 DEF OwnItems, Present
    <3>2. [b \in Needs[s] |-> store[Item(b, ver[t])]] = [b \in Needs[s] |-> vals[t][b]]
      BY <3>1
    <3> QED BY <1>2, <1>5, <2>2, <3>2 DEF Seen, Contents!Holds
  <2> QED BY <2>1, <2>2
<1>7. /\ offers[t].what # Contents!Nothing
      /\ offers[t].what.is = "contents" => offers[t].what.of \in [Needs[s] -> Values]
  <2>1. CASE ver[t] \in clash
    BY <1>4, <2>1 DEF Contents!Unclear, Contents!Nothing
  <2>2. CASE ver[t] \notin clash
    <3>1. [b \in Needs[s] |-> vals[t][b]] \in [Needs[s] -> Values]
      BY <1>1 DEF Resolved
    <3> QED BY <1>5, <2>2, <3>1 DEF Contents!Holds, Contents!Nothing
  <2> QED BY <2>1, <2>2
<1> HIDE DEF s, spec
<1>8. mounts' = [mounts EXCEPT ![s] = offers[t].what]
  <2>1. \A q \in Stacks : Seen(q, live[q])' =
                            IF q = s THEN offers[t].what ELSE Seen(q, live[q])
    BY <1>1, <1>2, <1>6 DEF Seen
  <2> QED BY <2>1 DEF mounts
<1>9. fallbacks' = [fallbacks EXCEPT ![s] = mounts[s]]
  <2>1. \A q \in Stacks : Seen(q, prior[q])' =
                            IF q = s THEN Seen(s, live[s]) ELSE Seen(q, prior[q])
    BY <1>1, <1>2 DEF Seen
  <2> QED BY <1>2, <2>1 DEF mounts, fallbacks
<1>10. offers' = [offers EXCEPT ![t] = Contents!NoOffer]
  <2>1. \A u \in Tasks \ {t} : offers'[u] = offers[u]
    BY <1>1, OfferKept
  <2>2. offers'[t] = Contents!NoOffer
    BY <1>1 DEF offers, OfferOf, Contents!NoOffer, Contents!Nothing
  <2> QED BY <2>1, <2>2 DEF offers
<1>11. Contents!Deploy(t, s)
  BY <1>3, <1>7, <1>8, <1>9, <1>10 DEF Contents!Deploy, offers, mounts, fallbacks
<1> QED BY <1>11 DEF s

\* A version drawn for the first time comes with an offer of its own; drawn again,
\* it takes the certainty from all that bears it.
LEMMA PrepareMaps ==
  ASSUME IndInv, NEW t \in Tasks, PrepareStack(t)
  PROVE  \E v \in Versions :
           Contents!Resolve(t, Current(t), v) \/ Contents!ResolveTwin(t, Current(t), v)
<1> USE DEF IndInv, TypeOK, SwarmTypeOK, DeployTypeOK
<1>1. PICK sha \in Shas, w \in Sources :
        LET stamp == [sha |-> sha, sec |-> now] IN
        /\ ver' = [ver EXCEPT ![t] = stamp]
        /\ vals' = [vals EXCEPT ![t] = w]
        /\ clash' = IF stamp \in drawn THEN clash \cup {stamp} ELSE clash
  BY DEF PrepareStack, DeployVersion
<1> DEFINE s == Current(t)
           stamp == [sha |-> sha, sec |-> now]
           c == [b \in Needs[s] |-> w[b]]
<1>2. /\ pc[t] = "next" /\ pc' = [pc EXCEPT ![t] = "validate"]
      /\ UNCHANGED <<idx, store, live, prior>>
      /\ s \in Stacks /\ Needs[s] \subseteq Bases
  BY PlannedStack DEF PrepareStack, At, Goto, swarmVars
<1>3. ver'[t] = stamp /\ vals'[t] = w /\ pc'[t] = "validate" /\ Current(t)' = s
  BY <1>1, <1>2 DEF Current
<1>4. \A u \in Tasks \ {t} : UNCHANGED <<pc[u], ver[u], idx[u], vals[u]>>
  BY <1>1, <1>2
<1>5. clash' = IF stamp \in drawn THEN clash \cup {stamp} ELSE clash
  BY <1>1
<1>6. c \in [Needs[s] -> Values \cup {None}]
  BY <1>2 DEF Sources
<1>7. offers[t] = Contents!NoOffer
  BY <1>2, OffersWhat DEF InDeploy
<1>8. stamp \in Versions
  BY DEF Versions
<1> HIDE DEF s, stamp
<1>9. CASE stamp \notin drawn
  <2>1. clash' = clash /\ stamp \notin clash
    BY <1>5, <1>9
  <2>2. offers'[t] = Contents!Offer(s, Contents!Holds(stamp, c))
    BY <1>3, <2>1 DEF offers, OfferOf, InDeploy, Contents!Offer, Contents!Holds
  <2>3. \A u \in Tasks \ {t} : offers'[u] = offers[u]
    BY <1>4, <2>1, OfferKept
  <2>4. offers' = [offers EXCEPT ![t] = Contents!Offer(s, Contents!Holds(stamp, c))]
    BY <2>2, <2>3 DEF offers
  <2>5. mounts' = mounts /\ fallbacks' = fallbacks
    BY <1>2, <2>1, StacksKept
  <2>6. \A u \in Tasks : ~Contents!Bears(offers[u].what, stamp)
    <3>1. \A u \in Tasks : pc[u] \in InDeploy => ver[u] # stamp
      BY <1>9, NoneAssumption DEF VersionsDrawn, TaskShape
    <3> QED BY <3>1 DEF offers, OfferOf, Contents!Bears, Contents!Nothing
  <2>7. \A q \in Stacks : /\ ~Contents!Bears(mounts[q], stamp)
                          /\ ~Contents!Bears(fallbacks[q], stamp)
    BY <1>9 DEF VersionsDrawn, Deployed, mounts, fallbacks, Seen, Contents!Bears,
       Contents!Nothing
  <2> HIDE DEF c
  <2>8. Contents!Resolve(t, s, stamp)
    BY <1>6, <1>7, <2>4, <2>5, <2>6, <2>7 DEF Contents!Resolve, offers, mounts, fallbacks
  <2> QED BY <1>8, <2>8 DEF s
<1>10. CASE stamp \in drawn
  <2>1. clash' = clash \cup {stamp}
    BY <1>5, <1>10
  <2>2. offers'[t] = Contents!Offer(s, Contents!Unclear(stamp))
    BY <1>3, <2>1 DEF offers, OfferOf, InDeploy, Contents!Offer, Contents!Unclear
  <2>3. ASSUME NEW u \in Tasks \ {t}
        PROVE  offers'[u] = Contents!Offer(offers[u].for,
                                           Contents!Blurred(offers[u].what, stamp))
    <3> USE DEF Contents!Offer, Contents!Blurred, Contents!Bears, Contents!Nothing,
                Contents!Unclear
    <3>1. CASE pc[u] \in InDeploy \ {"verify"}
      BY <1>4, <2>1, <3>1 DEF offers, OfferOf, Current
    <3>2. CASE pc[u] \notin InDeploy \ {"verify"}
      BY <1>4, <3>2 DEF offers, OfferOf
    <3> QED BY <3>1, <3>2
  <2>4. mounts' = [q \in Stacks |-> Contents!Blurred(mounts[q], stamp)]
    BY <1>2, <2>1 DEF mounts, Seen, Contents!Blurred, Contents!Bears, Contents!Nothing,
       Contents!Unclear
  <2>5. fallbacks' = [q \in Stacks |-> Contents!Blurred(fallbacks[q], stamp)]
    BY <1>2, <2>1 DEF fallbacks, Seen, Contents!Blurred, Contents!Bears, Contents!Nothing,
       Contents!Unclear
  <2>6. offers' = [q \in Tasks |->
          IF q = t THEN Contents!Offer(s, Contents!Unclear(stamp))
          ELSE Contents!Offer(offers[q].for, Contents!Blurred(offers[q].what, stamp))]
    BY <2>2, <2>3 DEF offers
  <2>7. Contents!ResolveTwin(t, s, stamp)
    BY <1>7, <2>4, <2>5, <2>6 DEF Contents!ResolveTwin, offers, mounts, fallbacks
  <2> QED BY <1>8, <2>7 DEF s
<1> QED BY <1>9, <1>10

\* Each step of the system is a step of StackContents, or changes none of its state.
LEMMA StepImplements ==
  ASSUME IndInv, [Next]_vars
  PROVE  [Contents!Next]_<<offers, mounts, fallbacks>>
<1>1. CASE UNCHANGED <<deployVars, swarmVars>>
  BY <1>1, OffersKept, StacksKept DEF deployVars, swarmVars
<1>2. CASE UNCHANGED deployVars /\ ManagerStep
  BY <1>2, ManagerMaps
<1>3. ASSUME NEW t \in Tasks, TaskStep(t) \/ KillTask(t)
      PROVE  [Contents!Next]_<<offers, mounts, fallbacks>>
  <2>1. CASE TaskOnly(t)
    BY <2>1, TaskOnlyMaps
  <2>2. CASE CreateNetwork(t)
    <3>1. \A u \in Tasks : offers'[u] = offers[u]
      BY <2>2, OfferKept DEF CreateNetwork, At, Goto, InDeploy, IndInv, TypeOK, DeployTypeOK
    <3>2. offers' = offers
      BY <3>1 DEF offers
    <3> QED BY <2>2, <3>2, StacksKept DEF CreateNetwork
  <2>3. CASE PrepareStack(t)
    <3>1. Current(t) \in Stacks
      BY <2>3, PlannedStack DEF PrepareStack
    <3> QED BY <2>3, <3>1, PrepareMaps DEF Contents!Next
  <2>4. CASE CreateSecret(t) \/ StackDeployConfigs(t)
    BY <2>4, WritesMap
  <2>5. CASE StackDeployServices(t)
    <3>1. Current(t) \in Stacks
      BY <2>5, ServicesTypes DEF IndInv
    <3> QED BY <2>5, <3>1, HandOverMaps DEF Contents!Next
  <2> QED BY <1>3, <2>1, <2>2, <2>3, <2>4, <2>5, TaskOnManager
<1> QED BY <1>1, <1>2, <1>3, ManagerOrTask

\* The contents a stack mounts change only as StackContents says, as a whole, whatever
\* deploys, cleanups and removals run at once and wherever they fail or are killed.
THEOREM DeploysKeepContentsWhole == Spec => ContentsAreAtomic
<1>1. Init => Contents!Init
  BY DEF Init, SwarmInit, DeployInit, Contents!Init, OfferOf, Seen, InDeploy,
     Contents!NoOffer, Contents!Nothing
<1>2. IndInv /\ [Next]_vars => [Contents!Next]_<<offers, mounts, fallbacks>>
  BY StepImplements
<1> QED BY <1>1, <1>2, Invariance, PTL
        DEF Spec, ContentsAreAtomic, Contents!Spec, offers, mounts, fallbacks
-----------------------------------------------------------------------------
(* The countdown of a run.                                                 *)

\* The sets a run works off are finite, and taking an element out makes one fewer.
LEMMA FiniteNames == IsFiniteSet(Names)
<1> DEFINE Stamps == Shas \X (0..MaxTime)
           Cells == Bases \X Versions
           Stamp == [p \in Stamps |-> [sha |-> p[1], sec |-> p[2]]]
           Cell == [p \in Cells |-> [base |-> p[1], ver |-> p[2]]]
<1>1. IsFiniteSet(0..MaxTime)
  BY SwarmAssumption, FS_Interval
<1>2. IsFiniteSet(Stamps)
  BY <1>1, FiniteAssumption, FS_Product
<1>3. Stamp \in Surjection(Stamps, Versions)
  <2>1. ASSUME NEW v \in Versions
        PROVE  \E p \in Stamps : Stamp[p] = v
    <3>1. <<v.sha, v.sec>> \in Stamps /\ v = [sha |-> v.sha, sec |-> v.sec]
      BY DEF Versions
    <3> QED BY <3>1
  <2>2. Stamp \in [Stamps -> Versions]
    BY DEF Versions
  <2> QED BY <2>1, <2>2 DEF Surjection
<1>4. IsFiniteSet(Versions)
  BY <1>2, <1>3, FS_Surjection
<1>5. IsFiniteSet(Cells)
  BY <1>4, FiniteAssumption, FS_Product
<1>6. Cell \in Surjection(Cells, Names)
  <2>1. ASSUME NEW n \in Names
        PROVE  \E p \in Cells : Cell[p] = n
    <3>1. <<n.base, n.ver>> \in Cells /\ n = [base |-> n.base, ver |-> n.ver]
      BY DEF Names
    <3> QED BY <3>1
  <2>2. Cell \in [Cells -> Names]
    BY DEF Names
  <2> QED BY <2>1, <2>2 DEF Surjection
<1> QED BY <1>5, <1>6, FS_Surjection

LEMMA FiniteSizes ==
  ASSUME NEW S, NEW T \in SUBSET S, IsFiniteSet(S)
  PROVE  /\ Cardinality(S) \in Nat /\ Cardinality(T) \in Nat
         /\ Cardinality(T) <= Cardinality(S)
         /\ IsFiniteSet(T)
         /\ \A x \in T : Cardinality(T \ {x}) = Cardinality(T) - 1
<1>1. IsFiniteSet(T) /\ Cardinality(T) <= Cardinality(S)
  BY FS_Subset
<1>2. Cardinality(S) \in Nat /\ Cardinality(T) \in Nat
  BY <1>1, FS_CardinalityType
<1>3. ASSUME NEW x \in T
      PROVE  Cardinality(T \ {x}) = Cardinality(T) - 1
  BY <1>1, <1>3, FS_RemoveElement
<1> QED BY <1>1, <1>2, <1>3

LEMMA FiniteSecrets == IsFiniteSet(Secrets)
<1>1. Secrets \in SUBSET Bases
  BY DEF Bases
<1> QED BY <1>1, FiniteAssumption, FiniteSizes

\* The turns of a loop become fewer when it moves on.
LEMMA TurnsCount ==
  ASSUME NEW plan \in Seq(Stacks), NEW i \in Nat \ {0}
  PROVE  /\ Turns(plan, i) \in Nat /\ Turns(plan, i) <= Len(plan)
         /\ i \in DOMAIN plan => Turns(plan, i + 1) < Turns(plan, i)
  BY DEF Turns

\* The numbers the countdown of a task is made of.
LEMMA TaskSizes ==
  ASSUME TypeOK, NEW t \in Tasks
  PROVE  /\ Cardinality(Secrets) \in Nat /\ Cardinality(Networks) \in Nat
         /\ Cardinality(pending[t]) \in Nat
         /\ \A n \in pending[t] : Cardinality(pending[t] \ {n}) = Cardinality(pending[t]) - 1
         /\ Cardinality(todo[t]) \in Nat /\ Cardinality(todo[t]) <= Cardinality(Secrets)
         /\ \A b \in todo[t] : Cardinality(todo[t] \ {b}) = Cardinality(todo[t]) - 1
         /\ Plan[t] \in Seq(Stacks) /\ Len(Plan[t]) \in Nat
         /\ Turns(Plan[t], idx[t]) \in Nat
         /\ Turns(Plan[t], idx[t]) <= Len(Plan[t])
         /\ idx[t] \in DOMAIN Plan[t] =>
              /\ Turns(Plan[t], idx[t] + 1) \in Nat
              /\ Turns(Plan[t], idx[t] + 1) < Turns(Plan[t], idx[t])
<1>1. /\ pending[t] \in SUBSET Networks /\ todo[t] \in SUBSET Secrets
      /\ idx[t] \in Nat \ {0} /\ idx[t] + 1 \in Nat \ {0}
  BY DEF TypeOK, DeployTypeOK
<1>2. IsFiniteSet(Secrets) /\ IsFiniteSet(Networks)
  BY FiniteSecrets, FiniteAssumption
<1>3. Plan[t] \in Seq(Stacks) /\ Len(Plan[t]) \in Nat
  BY TaskAssumption
<1>4. /\ Cardinality(Networks) \in Nat
      /\ Cardinality(pending[t]) \in Nat
      /\ \A n \in pending[t] : Cardinality(pending[t] \ {n}) = Cardinality(pending[t]) - 1
  BY <1>1, <1>2, FiniteSizes
<1>5. /\ Cardinality(Secrets) \in Nat
      /\ Cardinality(todo[t]) \in Nat /\ Cardinality(todo[t]) <= Cardinality(Secrets)
      /\ \A b \in todo[t] : Cardinality(todo[t] \ {b}) = Cardinality(todo[t]) - 1
  BY <1>1, <1>2, FiniteSizes
<1> QED BY <1>1, <1>3, <1>4, <1>5, TurnsCount

\* A step of a task, its failures and its end included, lowers what it has left.
LEMMA TaskAdvances ==
  ASSUME IndInv, NEW t \in Tasks, TaskStep(t) \/ KillTask(t)
  PROVE  Lower(TaskLeft(t)', TaskLeft(t))
<1> DEFINE Size == Cardinality(Secrets)
           Nets == Cardinality(pending[t])
           Items == Cardinality(todo[t])
           Here == Turns(Plan[t], idx[t])
<1>1. /\ Size \in Nat /\ Nets \in Nat /\ Items \in Nat /\ Items <= Size
      /\ Len(Plan[t]) \in Nat /\ Here \in Nat /\ Here <= Len(Plan[t])
  BY TaskSizes DEF IndInv
<1>2. pc[t] \in TaskPCs /\ pc \in [Tasks -> TaskPCs]
  BY DEF IndInv, TypeOK, DeployTypeOK
<1> HIDE DEF Size, Nets, Items, Here
<1> USE DEF Goto, At, TaskPCs, Lower
<1>3. CASE InspectNetwork(t)
  <2>1. PICK net \in pending[t] : pending' = [pending EXCEPT ![t] = @ \ {net}]
    BY <1>3 DEF InspectNetwork
  <2>2. Cardinality(pending'[t]) = Nets - 1
    BY <2>1, TaskSizes DEF IndInv, TypeOK, DeployTypeOK, Nets
  <2>3. TaskLeft(t) = <<2 + Len(Plan[t]), 2 * Nets>>
    BY <1>3 DEF InspectNetwork, TaskLeft, Nets
  <2>4. TaskLeft(t)' = <<2 + Len(Plan[t]), 2 * (Nets - 1)>>
           \/ TaskLeft(t)' = <<2 + Len(Plan[t]), 2 * (Nets - 1) + 1>>
    BY <1>2, <1>3, <2>2 DEF InspectNetwork, TaskLeft
  <2> QED BY <1>1, <2>3, <2>4
<1>4. CASE CreateNetwork(t)
  <2>1. TaskLeft(t) = <<2 + Len(Plan[t]), 2 * Nets + 1>>
    BY <1>4 DEF CreateNetwork, TaskLeft, Nets
  <2>2. TaskLeft(t)' = <<2 + Len(Plan[t]), 2 * Nets>>
    BY <1>2, <1>4 DEF CreateNetwork, TaskLeft, Nets
  <2> QED BY <1>1, <2>1, <2>2
<1>5. CASE CreateNetworkFails(t) \/ FinishTask(t) \/ KillTask(t)
  <2>1. TaskLeft(t)[1] \in Nat /\ TaskLeft(t)[1] > 0
    BY <1>1, <1>2, <1>5 DEF CreateNetworkFails, FinishTask, KillTask, TaskLeft, Here
  <2>2. TaskLeft(t)' = <<0, 0>>
    BY <1>2, <1>5 DEF CreateNetworkFails, FinishTask, KillTask, TaskLeft
  <2> QED BY <2>1, <2>2
<1>6. CASE NetworksReady(t)
  <2>1. TaskLeft(t) = <<2 + Len(Plan[t]), 2 * Nets>>
    BY <1>6 DEF NetworksReady, TaskLeft, Nets
  <2>2. TaskLeft(t)' = <<1 + Here, 4 + Size>>
    BY <1>2, <1>6 DEF NetworksReady, TaskLeft, Here, Size
  <2> QED BY <1>1, <2>1, <2>2
<1>7. CASE PrepareStack(t)
  <2>1. TaskLeft(t) = <<1 + Here, 4 + Size>>
    BY <1>7 DEF PrepareStack, TaskLeft, Here, Size
  <2>2. TaskLeft(t)' = <<1 + Here, 3 + Size>>
    BY <1>2, <1>7 DEF PrepareStack, TaskLeft, Here, Size
  <2> QED BY <1>1, <2>1, <2>2
<1>8. CASE ValidateAndList(t)
  <2>1. TaskLeft(t) = <<1 + Here, 3 + Size>>
    BY <1>8 DEF ValidateAndList, TaskLeft, Here, Size
  <2>2. TaskLeft(t)' = <<1 + Here, 2 + Cardinality(todo'[t])>>
    BY <1>2, <1>8 DEF ValidateAndList, TaskLeft, Here
  <2>3. todo'[t] \in SUBSET Secrets /\ IsFiniteSet(Secrets)
    BY <1>8, FiniteSecrets DEF ValidateAndList, Needed, IndInv, TypeOK, DeployTypeOK
  <2>4. Cardinality(todo'[t]) \in Nat /\ Cardinality(todo'[t]) <= Size
    BY <2>3, FiniteSizes DEF Size
  <2> QED BY <1>1, <2>1, <2>2, <2>4
<1>9. CASE CreateSecret(t)
  <2>1. PICK b \in todo[t] : todo' = [todo EXCEPT ![t] = @ \ {b}]
    BY <1>9 DEF CreateSecret
  <2>2. Cardinality(todo'[t]) = Items - 1
    BY <2>1, TaskSizes DEF IndInv, TypeOK, DeployTypeOK, Items
  <2>3. TaskLeft(t) = <<1 + Here, 2 + Items>>
    BY <1>9 DEF CreateSecret, TaskLeft, Here, Items
  <2>4. TaskLeft(t)' = <<1 + Here, 2 + (Items - 1)>>
    BY <1>9, <2>2 DEF CreateSecret, TaskLeft, Here
  <2> QED BY <1>1, <2>3, <2>4
<1>10. CASE StackDeployConfigs(t)
  <2>1. TaskLeft(t) = <<1 + Here, 2 + Items>>
    BY <1>10 DEF StackDeployConfigs, TaskLeft, Here, Items
  <2>2. TaskLeft(t)' = <<1 + Here, 1>>
    BY <1>2, <1>10 DEF StackDeployConfigs, TaskLeft, Here
  <2> QED BY <1>1, <2>1, <2>2
<1>11. CASE StackDeployServices(t)
  <2>1. TaskLeft(t) = <<1 + Here, 1>>
    BY <1>11 DEF StackDeployServices, TaskLeft, Here
  <2>2. TaskLeft(t)' = <<1 + Here, 0>>
    BY <1>2, <1>11 DEF StackDeployServices, TaskLeft, Here
  <2> QED BY <1>1, <2>1, <2>2
<1>12. CASE StackExits(t)
  <2>1. /\ idx[t] \in DOMAIN Plan[t] /\ NextStack(t)
        /\ pc[t] \in {"next", "validate", "create", "services", "verify"}
    BY <1>12, ExitEffect DEF IndInv, InDeploy
  <2>2. TaskLeft(t)[1] = 1 + Here
    BY <2>1 DEF TaskLeft, Here
  <2>3. TaskLeft(t)'[1] = 1 + Turns(Plan[t], idx[t] + 1)
    BY <1>2, <2>1 DEF NextStack, TaskLeft, IndInv, TypeOK, DeployTypeOK
  <2>4. Turns(Plan[t], idx[t] + 1) \in Nat /\ Turns(Plan[t], idx[t] + 1) < Here
    BY <2>1, TaskSizes DEF IndInv, Here
  <2> QED BY <1>1, <2>2, <2>3, <2>4
<1> QED BY <1>3, <1>4, <1>5, <1>6, <1>7, <1>8, <1>9, <1>10, <1>11, <1>12, TaskCases

\* The same for the lists of a cleanup.
LEMMA CleanerSizes ==
  ASSUME TypeOK, NEW c \in Cleaners
  PROVE  /\ IsFiniteSet(Names) /\ IsFiniteSet(Networks)
         /\ cpc[c] \in CleanerPCs
         /\ Cardinality(items[c]) \in Nat /\ Cardinality(netlist[c]) \in Nat
         /\ \A n \in items[c] : Cardinality(items[c] \ {n}) = Cardinality(items[c]) - 1
         /\ \A n \in netlist[c] :
              Cardinality(netlist[c] \ {n}) = Cardinality(netlist[c]) - 1
<1>1. items[c] \in SUBSET Names /\ netlist[c] \in SUBSET Networks /\ cpc[c] \in CleanerPCs
  BY DEF TypeOK, CleanupTypeOK
<1>2. IsFiniteSet(Names) /\ IsFiniteSet(Networks)
  BY FiniteNames, FiniteAssumption
<1> QED BY <1>1, <1>2, FiniteSizes

\* A step of a cleanup lowers what it has left; one that removes an item or a network
\* by the item or the network, tried once whether docker refuses it or not.
LEMMA CleanerAdvances ==
  ASSUME IndInv, NEW c \in Cleaners, CleanerStep(c) \/ AbortCleanup(c)
  PROVE  Lower(CleanerLeft(c)', CleanerLeft(c))
<1>1. /\ cpc \in [Cleaners -> CleanerPCs] /\ items \in [Cleaners -> SUBSET Names]
      /\ netlist \in [Cleaners -> SUBSET Networks]
  BY DEF IndInv, TypeOK, CleanupTypeOK
<1>2. CASE TryRemoveItem(c)
  <2>1. PICK n \in items[c] : items' = [items EXCEPT ![c] = @ \ {n}]
    BY <1>2 DEF TryRemoveItem
  <2>2. Cardinality(items'[c]) = Cardinality(items[c]) - 1
    BY <1>1, <2>1, CleanerSizes DEF IndInv
  <2>3. cpc'[c] = cpc[c] /\ netlist'[c] = netlist[c]
    BY <1>2 DEF TryRemoveItem
  <2>4. Cardinality(items[c]) \in Nat /\ Cardinality(netlist[c]) \in Nat
    BY CleanerSizes DEF IndInv
  <2> QED BY <2>2, <2>3, <2>4 DEF Lower, CleanerLeft
<1>3. CASE TryRemoveNetwork(c)
  <2>1. PICK n \in netlist[c] : netlist' = [netlist EXCEPT ![c] = @ \ {n}]
    BY <1>3 DEF TryRemoveNetwork
  <2>2. Cardinality(netlist'[c]) = Cardinality(netlist[c]) - 1
    BY <1>1, <2>1, CleanerSizes DEF IndInv
  <2>3. cpc'[c] = cpc[c] /\ items'[c] = items[c]
    BY <1>3 DEF TryRemoveNetwork
  <2>4. Cardinality(items[c]) \in Nat /\ Cardinality(netlist[c]) \in Nat
    BY CleanerSizes DEF IndInv
  <2> QED BY <2>2, <2>3, <2>4 DEF Lower, CleanerLeft
<1>4. CASE \/ ListSecrets(c) \/ ListConfigs(c) \/ ListNetworks(c) \/ PruneNodes(c)
           \/ FinishCleanup(c) \/ AbortCleanup(c)
  <2>1. /\ cpc[c] \in CleanerPCs /\ cpc'[c] \in CleanerPCs
        /\ Phases[cpc'[c]] < Phases[cpc[c]]
    BY <1>1, <1>4 DEF ListSecrets, ListConfigs, ListNetworks, PruneNodes, FinishCleanup,
                      AbortCleanup, Phases, CleanerPCs
  <2> QED BY <2>1 DEF Lower, CleanerLeft
<1> QED BY <1>2, <1>3, <1>4 DEF CleanerStep

\* A step of a removal lowers what it has left, whatever the polls of the drain say.
LEMMA RemoverAdvances ==
  ASSUME IndInv, NEW r \in Removers, RemoverStep(r)
  PROVE  Lower(RemoverLeft(r)', RemoverLeft(r))
<1> DEFINE Here == Turns(RemovePlan[r], ridx[r])
           After == Turns(RemovePlan[r], ridx[r] + 1)
<1>1. /\ RemovePlan[r] \in Seq(Stacks) /\ ridx[r] \in Nat \ {0}
      /\ rpc \in [Removers -> RemoverPCs] /\ ridx \in [Removers -> Nat \ {0}]
  BY RemoverAssumption DEF IndInv, TypeOK, RemoveTypeOK
<1>2. /\ Here \in Nat /\ After \in Nat
      /\ ridx[r] \in DOMAIN RemovePlan[r] => After < Here
  BY <1>1, TurnsCount
<1>3. rpc[r] \in {"rm", "drain"} => ridx[r] \in DOMAIN RemovePlan[r]
  BY DEF IndInv, RemoverShape
<1> USE DEF Lower, RemoverPCs
<1>4. ASSUME NEW o \in Outcomes, Report(r, o), rpc[r] \in {"next", "rm", "drain"},
             ridx[r] \in DOMAIN RemovePlan[r]
      PROVE  Lower(RemoverLeft(r)', RemoverLeft(r))
  <2>1. RemoverLeft(r)[1] = 1 + Here
    BY <1>4 DEF RemoverLeft
  <2>2. RemoverLeft(r)' = <<1 + After, 2>>
    BY <1>1, <1>4 DEF Report, RemoverLeft
  <2> QED BY <1>2, <1>4, <2>1, <2>2
<1>5. CASE CheckDeployed(r) /\ rpc' = [rpc EXCEPT ![r] = "rm"] /\ UNCHANGED ridx
  <2>1. RemoverLeft(r) = <<1 + Here, 2>>
    BY <1>5 DEF CheckDeployed, RemoverLeft
  <2>2. RemoverLeft(r)' = <<1 + Here, 1>>
    BY <1>1, <1>5 DEF RemoverLeft
  <2> QED BY <1>2, <2>1, <2>2
<1>6. CASE CheckDeployed(r) /\ Report(r, "not deployed")
  BY <1>4, <1>6 DEF CheckDeployed, Outcomes
<1>7. CASE RemoveFails(r) \/ PollDrained(r) \/ PollTimeout(r)
  BY <1>3, <1>4, <1>7 DEF RemoveFails, PollDrained, PollTimeout, Outcomes
<1>8. CASE CallStackRm(r)
  <2>1. RemoverLeft(r) = <<1 + Here, 1>>
    BY <1>8 DEF CallStackRm, RemoverLeft
  <2>2. RemoverLeft(r)' = <<1 + Here, 0>>
    BY <1>1, <1>8 DEF CallStackRm, RemoverLeft
  <2> QED BY <1>2, <2>1, <2>2
<1>9. CASE FinishRemove(r)
  <2>1. RemoverLeft(r)[1] = 1 + Here
    BY <1>9 DEF FinishRemove, RemoverLeft
  <2>2. RemoverLeft(r)' = <<0, 0>>
    BY <1>1, <1>9 DEF FinishRemove, RemoverLeft
  <2> QED BY <1>2, <2>1, <2>2
<1> QED BY <1>5, <1>6, <1>7, <1>8, <1>9 DEF RemoverStep, CheckDeployed

\* A step of one run leaves what the others have left as it is.
LEMMA TaskStepIsLocal ==
  ASSUME IndInv, NEW t \in Tasks, TaskStep(t) \/ KillTask(t), NEW u \in Tasks \ {t}
  PROVE  TaskLeft(u)' = TaskLeft(u)
<1> DEFINE Same == /\ pc'[u] = pc[u] /\ pending'[u] = pending[u]
                   /\ idx'[u] = idx[u] /\ todo'[u] = todo[u]
<1> USE DEF IndInv, TypeOK, DeployTypeOK, Goto, At
<1>1. CASE InspectNetwork(t) \/ CreateNetwork(t) \/ CreateNetworkFails(t)
  <2>1. Same
    BY <1>1 DEF InspectNetwork, CreateNetwork, CreateNetworkFails
  <2> QED BY <2>1 DEF TaskLeft
<1>2. CASE NetworksReady(t) \/ FinishTask(t) \/ KillTask(t) \/ PrepareStack(t)
  <2>1. Same
    BY <1>2 DEF NetworksReady, FinishTask, KillTask, PrepareStack
  <2> QED BY <2>1 DEF TaskLeft
<1>3. CASE \/ ValidateAndList(t) \/ CreateSecret(t)
           \/ StackDeployConfigs(t) \/ StackDeployServices(t)
  <2>1. Same
    BY <1>3 DEF ValidateAndList, CreateSecret, StackDeployConfigs, StackDeployServices
  <2> QED BY <2>1 DEF TaskLeft
<1>4. CASE StackExits(t)
  <2>1. NextStack(t) /\ UNCHANGED pending
    BY <1>4, ExitEffect
  <2>2. Same
    BY <2>1 DEF NextStack
  <2> QED BY <2>2 DEF TaskLeft
<1> QED BY <1>1, <1>2, <1>3, <1>4, TaskCases

LEMMA CleanerStepIsLocal ==
  ASSUME IndInv, NEW c \in Cleaners, CleanerStep(c) \/ AbortCleanup(c),
         NEW d \in Cleaners \ {c}
  PROVE  CleanerLeft(d)' = CleanerLeft(d)
<1>1. cpc'[d] = cpc[d] /\ items'[d] = items[d] /\ netlist'[d] = netlist[d]
  BY DEF IndInv, TypeOK, CleanupTypeOK, CleanerStep, ListSecrets, TryRemoveItem,
         ListConfigs, ListNetworks, TryRemoveNetwork, PruneNodes, FinishCleanup,
         AbortCleanup
<1> QED BY <1>1 DEF CleanerLeft

LEMMA RemoverStepIsLocal ==
  ASSUME IndInv, NEW r \in Removers, RemoverStep(r), NEW q \in Removers \ {r}
  PROVE  RemoverLeft(q)' = RemoverLeft(q)
<1>1. rpc'[q] = rpc[q] /\ ridx'[q] = ridx[q]
  BY DEF IndInv, TypeOK, RemoveTypeOK, RemoverStep, CheckDeployed, RemoveFails,
         CallStackRm, PollDrained, PollTimeout, FinishRemove, Report
<1> QED BY <1>1 DEF RemoverLeft

\* A countdown changes only by a step of its run.
LEMMA TaskCountdown ==
  ASSUME IndInv, Next, NEW t \in Tasks
  PROVE  IF RunTask(t) \/ LoseTask(t) THEN Lower(TaskLeft(t)', TaskLeft(t))
                                      ELSE TaskLeft(t)' = TaskLeft(t)
<1>1. CASE RunTask(t) \/ LoseTask(t)
  BY <1>1, TaskAdvances DEF RunTask, LoseTask
<1>2. CASE ~(RunTask(t) \/ LoseTask(t))
  <2>1. ASSUME NEW u \in Tasks, RunTask(u) \/ LoseTask(u)
        PROVE  TaskLeft(t)' = TaskLeft(t)
    <3>1. t \in Tasks \ {u}
      BY <1>2, <2>1
    <3> QED BY <2>1, <3>1, TaskStepIsLocal DEF RunTask, LoseTask
  <2>2. UNCHANGED deployVars => TaskLeft(t)' = TaskLeft(t)
    BY DEF deployVars, taskLocal, TaskLeft
  <2>3. UNCHANGED deployVars \/ \E u \in Tasks : RunTask(u) \/ LoseTask(u)
    BY DEF Next, RunSwarm, RunCleaner, LoseCleaner, RunRemover
  <2> QED BY <1>2, <2>1, <2>2, <2>3
<1> QED BY <1>1, <1>2

LEMMA CleanerCountdown ==
  ASSUME IndInv, Next, NEW c \in Cleaners
  PROVE  IF RunCleaner(c) \/ LoseCleaner(c) THEN Lower(CleanerLeft(c)', CleanerLeft(c))
                                            ELSE CleanerLeft(c)' = CleanerLeft(c)
<1>1. CASE RunCleaner(c) \/ LoseCleaner(c)
  BY <1>1, CleanerAdvances DEF RunCleaner, LoseCleaner
<1>2. CASE ~(RunCleaner(c) \/ LoseCleaner(c))
  <2>1. ASSUME NEW d \in Cleaners, RunCleaner(d) \/ LoseCleaner(d)
        PROVE  CleanerLeft(c)' = CleanerLeft(c)
    <3>1. c \in Cleaners \ {d}
      BY <1>2, <2>1
    <3> QED BY <2>1, <3>1, CleanerStepIsLocal DEF RunCleaner, LoseCleaner
  <2>2. UNCHANGED <<cpc, items, netlist>> => CleanerLeft(c)' = CleanerLeft(c)
    BY DEF CleanerLeft
  <2>3. \/ UNCHANGED <<cpc, items, netlist>>
        \/ \E d \in Cleaners : RunCleaner(d) \/ LoseCleaner(d)
    BY DEF Next, RunSwarm, RunTask, LoseTask, RunRemover, cleanupVars
  <2> QED BY <1>2, <2>1, <2>2, <2>3
<1> QED BY <1>1, <1>2

LEMMA RemoverCountdown ==
  ASSUME IndInv, Next, NEW r \in Removers
  PROVE  IF RunRemover(r) THEN Lower(RemoverLeft(r)', RemoverLeft(r))
                          ELSE RemoverLeft(r)' = RemoverLeft(r)
<1>1. CASE RunRemover(r)
  BY <1>1, RemoverAdvances DEF RunRemover
<1>2. CASE ~RunRemover(r)
  <2>1. ASSUME NEW q \in Removers, RunRemover(q)
        PROVE  RemoverLeft(r)' = RemoverLeft(r)
    <3>1. r \in Removers \ {q}
      BY <1>2, <2>1
    <3> QED BY <2>1, <3>1, RemoverStepIsLocal DEF RunRemover
  <2>2. UNCHANGED removeVars => RemoverLeft(r)' = RemoverLeft(r)
    BY DEF removeVars, RemoverLeft
  <2>3. UNCHANGED removeVars \/ \E q \in Removers : RunRemover(q)
    BY DEF Next, RunSwarm, RunTask, LoseTask, RunCleaner, LoseCleaner
  <2> QED BY <1>2, <2>1, <2>2, <2>3
<1> QED BY <1>1, <1>2

\* Every step of a run, and no step of anything else, brings the run nearer its end,
\* for any number of runs, stacks and items: what RunsTerminate rests on.
THEOREM RunsCountDown == Spec => RunsAdvance
<1> DEFINE Advance ==
      /\ \A t \in Tasks : IF RunTask(t) \/ LoseTask(t)
                            THEN Lower(TaskLeft(t)', TaskLeft(t))
                            ELSE TaskLeft(t)' = TaskLeft(t)
      /\ \A c \in Cleaners : IF RunCleaner(c) \/ LoseCleaner(c)
                               THEN Lower(CleanerLeft(c)', CleanerLeft(c))
                               ELSE CleanerLeft(c)' = CleanerLeft(c)
      /\ \A r \in Removers : IF RunRemover(r)
                               THEN Lower(RemoverLeft(r)', RemoverLeft(r))
                               ELSE RemoverLeft(r)' = RemoverLeft(r)
<1>1. ASSUME IndInv, [Next]_vars
      PROVE  [Advance]_vars
  <2>1. CASE UNCHANGED vars
    BY <2>1
  <2>2. CASE Next
    BY <1>1, <2>2, TaskCountdown, CleanerCountdown, RemoverCountdown
  <2> QED BY <1>1, <2>1, <2>2
<1> HIDE DEF Advance
<1>2. RunsAdvance <=> [][Advance]_vars
  BY DEF RunsAdvance, Advance
<1> QED BY <1>1, <1>2, Invariance, PTL DEF Spec

\* What a run has left is a pair of numbers, in every state of the invariant.
CountsAreNumbers ==
  /\ \A t \in Tasks : TaskLeft(t) \in Nat \X Nat
  /\ \A c \in Cleaners : CleanerLeft(c) \in Nat \X Nat
  /\ \A r \in Removers : RemoverLeft(r) \in Nat \X Nat

LEMMA LeftIsNumbers ==
  ASSUME IndInv
  PROVE  CountsAreNumbers
<1>1. ASSUME NEW t \in Tasks
      PROVE  TaskLeft(t) \in Nat \X Nat
  <2> DEFINE Size == Cardinality(Secrets)
             Nets == Cardinality(pending[t])
             Items == Cardinality(todo[t])
             Here == Turns(Plan[t], idx[t])
  <2>1. Size \in Nat /\ Nets \in Nat /\ Items \in Nat /\ Here \in Nat /\ Len(Plan[t]) \in Nat
    BY TaskSizes DEF IndInv
  <2>2. TaskLeft(t) \in {<<2 + Len(Plan[t]), 2 * Nets>>, <<2 + Len(Plan[t]), 2 * Nets + 1>>,
                        <<1 + Here, 4 + Size>>, <<1 + Here, 3 + Size>>, <<1 + Here, 2 + Items>>,
                        <<1 + Here, 1>>, <<1 + Here, 0>>, <<0, 0>>}
    BY DEF TaskLeft
  <2> HIDE DEF Size, Nets, Items, Here
  <2> QED BY <2>1, <2>2
<1>2. ASSUME NEW c \in Cleaners
      PROVE  CleanerLeft(c) \in Nat \X Nat
  BY CleanerSizes DEF CleanerLeft, Phases, CleanerPCs, IndInv
<1>3. ASSUME NEW r \in Removers
      PROVE  RemoverLeft(r) \in Nat \X Nat
  <2>1. RemovePlan[r] \in Seq(Stacks) /\ ridx[r] \in Nat \ {0}
    BY RemoverAssumption DEF IndInv, TypeOK, RemoveTypeOK
  <2> QED BY <2>1, TurnsCount DEF RemoverLeft
<1> QED BY <1>1, <1>2, <1>3 DEF CountsAreNumbers

\* Of pairs of natural numbers no sequence goes down for ever.
LEMMA DescentEnds ==
  \A f \in [Nat -> Nat \X Nat] : \E n \in Nat : ~Lower(f[n + 1], f[n])
<1> DEFINE Less == {ss \in Nat \X Nat : ss[1] < ss[2]}
           Lex == LexPairOrdering(Less, Less, Nat, Nat)
<1>1. OpToRel(<, Nat) = Less
  BY Zenon DEF OpToRel
<1>2. IsWellFoundedOn(Less, Nat)
  BY <1>1, NatLessThanWellFounded, Zenon
<1> HIDE DEF Less
<1>3. IsWellFoundedOn(Lex, Nat \X Nat)
  BY <1>2, WFLexPairOrdering
<1>4. ASSUME NEW a \in Nat \X Nat, NEW b \in Nat \X Nat, Lower(a, b)
      PROVE  <<a, b>> \in Lex
  <2> DEFINE p == <<a, b>>
  <2>1. /\ p \in (Nat \X Nat) \X (Nat \X Nat)
        /\ p[1][1] = a[1] /\ p[2][1] = b[1] /\ p[1][2] = a[2] /\ p[2][2] = b[2]
    OBVIOUS
  <2>2. a[1] \in Nat /\ a[2] \in Nat /\ b[1] \in Nat /\ b[2] \in Nat
    OBVIOUS
  <2>3. \/ <<a[1], b[1]>> \in Less
        \/ a[1] = b[1] /\ <<a[2], b[2]>> \in Less
    BY <1>4, <2>2 DEF Lower, Less
  <2> HIDE DEF p
  <2>4. p \in Lex
    BY <2>1, <2>3 DEF LexPairOrdering
  <2> QED BY <2>4 DEF p
<1>5. ASSUME NEW f \in [Nat -> Nat \X Nat]
      PROVE  \E n \in Nat : ~Lower(f[n + 1], f[n])
  <2>1. PICK n \in Nat : <<f[n + 1], f[n]>> \notin Lex
    BY <1>3 DEF IsWellFoundedOn
  <2>2. f[n + 1] \in Nat \X Nat /\ f[n] \in Nat \X Nat
    OBVIOUS
  <2> QED BY <1>4, <2>1, <2>2
<1> QED BY <1>5

\* No run takes endlessly many steps: what it has left is a pair of natural numbers
\* in every state, each of its steps lowers the pair, nothing else changes it, and
\* no such pair can be lowered for ever.
THEOREM NoRunIsEndless ==
  /\ Spec => []CountsAreNumbers
  /\ Spec => RunsAdvance
  /\ \A f \in [Nat -> Nat \X Nat] : \E n \in Nat : ~Lower(f[n + 1], f[n])
<1>1. Spec => []CountsAreNumbers
  <2>1. IndInv => CountsAreNumbers
    BY LeftIsNumbers
  <2> QED BY <2>1, Invariance, PTL
<1>2. Spec => RunsAdvance
  BY RunsCountDown
<1> QED BY <1>1, <1>2, DescentEnds
=============================================================================
