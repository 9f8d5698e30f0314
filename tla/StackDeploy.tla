---------------------------- MODULE StackDeploy ----------------------------
(***************************************************************************)
(* The tasks swarm:deploy, site:deploy-infra and site:deploy-apps: create  *)
(* the external networks if the task depends on swarm:init-networks, then  *)
(* run swarm/deploy.py on each stack in turn, collecting the stacks that   *)
(* failed.  Several tasks may run at once, on one machine or on several.   *)
(*                                                                         *)
(* Every docker call is a step of its own, because other tasks, a cleanup  *)
(* or a removal run between two of them.  Any call may fail, and a task    *)
(* may be killed at any point.                                             *)
(***************************************************************************)
EXTENDS Swarm

CONSTANTS
  Tasks,       \* runs of a deploy task
  Plan,        \* task -> the stacks it deploys, in order
  InitsNets    \* the tasks that depend on swarm:init-networks

ASSUME TaskAssumption ==
  /\ Plan \in [Tasks -> Seq(Stacks)]
  /\ InitsNets \subseteq Tasks

VARIABLES
  pc,        \* task -> where it is
  pending,   \* networks swarm.networks init has not looked at yet
  missing,   \* the network it found absent and is about to create, or None
  idx,       \* position in Plan[t]
  ver,       \* DEPLOY_VERSION of the current stack, or None
  vals,      \* contents resolved for the current stack
  existing,  \* the snapshot create_versioned_secrets took, as base names
  todo,      \* base names ensure() was not called for yet
  failed,    \* the bash array "failed", as stacks
  result,    \* how the task ended
  handed,    \* history: stacks this task handed to Swarm
  drawn,     \* history: versions taken so far
  clash      \* history: versions taken twice, within one second at one commit

taskLocal == <<pc, pending, missing, idx, ver, vals, existing, todo, failed,
               result, handed>>
deployVars == <<taskLocal, drawn, clash>>

NoVals == [b \in Bases |-> None]

TaskPCs == {"init", "mknet", "next", "validate", "create", "services", "verify",
            "done"}
InDeploy == {"validate", "create", "services", "verify"}

DeployTypeOK ==
  /\ pc \in [Tasks -> TaskPCs]
  /\ pending \in [Tasks -> SUBSET Networks]
  /\ missing \in [Tasks -> Networks \cup {None}]
  /\ idx \in [Tasks -> Nat \ {0}]
  /\ ver \in [Tasks -> Versions \cup {None}]
  /\ vals \in [Tasks -> Sources]
  /\ existing \in [Tasks -> SUBSET Secrets]
  /\ todo \in [Tasks -> SUBSET Secrets]
  /\ failed \in [Tasks -> SUBSET Stacks]
  /\ result \in [Tasks -> {"running", "ok", "failed", "netfailed", "killed"}]
  /\ handed \in [Tasks -> SUBSET Stacks]
  /\ drawn \subseteq Versions
  /\ clash \subseteq drawn

DeployInit ==
  /\ pc = [t \in Tasks |-> IF t \in InitsNets THEN "init" ELSE "next"]
  /\ pending = [t \in Tasks |-> Networks]
  /\ missing = [t \in Tasks |-> None]
  /\ idx = [t \in Tasks |-> 1]
  /\ ver = [t \in Tasks |-> None]
  /\ vals = [t \in Tasks |-> NoVals]
  /\ existing = [t \in Tasks |-> {}]
  /\ todo = [t \in Tasks |-> {}]
  /\ failed = [t \in Tasks |-> {}]
  /\ result = [t \in Tasks |-> "running"]
  /\ handed = [t \in Tasks |-> {}]
  /\ drawn = {}
  /\ clash = {}

At(t, label) == pc[t] = label
Goto(t, label) == pc' = [pc EXCEPT ![t] = label]

\* The stack being deployed; defined while idx[t] is within the plan.
Current(t) == Plan[t][idx[t]]
Needed(t) == Needs[Current(t)] \cap Secrets

-----------------------------------------------------------------------------
(* swarm.networks init: inspect each network, create it if that failed.    *)

InspectNetwork(t) ==
  /\ At(t, "init")
  /\ \E net \in pending[t] :
       /\ pending' = [pending EXCEPT ![t] = @ \ {net}]
       /\ \/ net \in nets /\ UNCHANGED <<pc, missing>>
          \/ /\ net \notin nets
             /\ missing' = [missing EXCEPT ![t] = net]
             /\ Goto(t, "mknet")
  /\ UNCHANGED <<idx, ver, vals, existing, todo, failed, result, handed,
                 drawn, clash, swarmVars>>

CreateNetwork(t) ==
  /\ At(t, "mknet")
  /\ missing[t] \notin nets
  /\ nets' = nets \cup {missing[t]}
  /\ missing' = [missing EXCEPT ![t] = None]
  /\ Goto(t, "init")
  /\ UNCHANGED <<pending, idx, ver, vals, existing, todo, failed, result, handed,
                 drawn, clash, now, store, live, prior, rollout, draining>>

\* The name was taken since the inspect, or docker refused: SwarmError, and a
\* task whose dependency failed does not run.
CreateNetworkFails(t) ==
  /\ At(t, "mknet")
  /\ missing' = [missing EXCEPT ![t] = None]
  /\ Goto(t, "done")
  /\ result' = [result EXCEPT ![t] = "netfailed"]
  /\ UNCHANGED <<pending, idx, ver, vals, existing, todo, failed, handed,
                 drawn, clash, swarmVars>>

NetworksReady(t) ==
  /\ At(t, "init")
  /\ pending[t] = {}
  /\ Goto(t, "next")
  /\ UNCHANGED <<pending, missing, idx, ver, vals, existing, todo, failed,
                 result, handed, drawn, clash, swarmVars>>

-----------------------------------------------------------------------------
(* swarm.deploy on one stack.                                              *)

\* The loop of the task goes on to the next stack; the process that deployed
\* this one has exited and forgotten what it held.
NextStack(t) ==
  /\ idx' = [idx EXCEPT ![t] = @ + 1]
  /\ ver' = [ver EXCEPT ![t] = None]
  /\ vals' = [vals EXCEPT ![t] = NoVals]
  /\ existing' = [existing EXCEPT ![t] = {}]
  /\ todo' = [todo EXCEPT ![t] = {}]
  /\ Goto(t, "next")

\* As if the loop lacked "|| failed+=".
ExitFailed_NotCollected(t) ==
  NextStack(t) /\ UNCHANGED <<pending, missing, failed, result, handed, drawn, clash>>

\* Exit code 1: the stack joins the array of failed stacks.
ExitFailed(t) ==
  /\ failed' = [failed EXCEPT ![t] = @ \cup {Current(t)}]
  /\ NextStack(t)
  /\ UNCHANGED <<pending, missing, result, handed, drawn, clash>>

\* As if the version were the commit alone, or its seconds were rounded up.
DeployVersion_NoEpoch(sha) == [sha |-> sha, sec |-> 0]
DeployVersion_RoundedUp(sha) == [sha |-> sha, sec |-> now + 1]

\* generate_deploy_version: <sha>_<epoch seconds>.
DeployVersion(sha) == [sha |-> sha, sec |-> now]

\* _prepare_stack up to the rendered document: draw the version, read the
\* secret sources, build and push, render.  Sources may change between runs.
PrepareStack(t) ==
  /\ At(t, "next")
  /\ idx[t] \in DOMAIN Plan[t]
  /\ \E sha \in Shas, w \in Sources :
       LET stamp == [sha |-> sha, sec |-> now] IN
       /\ \A b \in Bases \ Needs[Current(t)] : w[b] = None
       /\ ver' = [ver EXCEPT ![t] = DeployVersion(sha)]
       /\ vals' = [vals EXCEPT ![t] = w]
       /\ clash' = IF stamp \in drawn THEN clash \cup {stamp} ELSE clash
       /\ drawn' = drawn \cup {stamp}
  /\ Goto(t, "validate")
  /\ UNCHANGED <<pending, missing, idx, existing, todo, failed, result, handed,
                 swarmVars>>

\* No compose.yml, no age key, a failed decryption, build, push or render.
PrepareFails(t) ==
  /\ At(t, "next")
  /\ idx[t] \in DOMAIN Plan[t]
  /\ ExitFailed(t)
  /\ UNCHANGED swarmVars

\* A config whose file is not there, a secret with no source: either ends the
\* deploy before anything is created.
ConfigFileMissing(t) == \E b \in Needs[Current(t)] \cap Configs : vals[t][b] = None
SecretSourceMissing(t) == \E b \in Needed(t) : vals[t][b] = None

\* The secrets that exist are listed, once, unless the stack needs none.
ValidateAndList(t) ==
  /\ At(t, "validate")
  /\ ~ConfigFileMissing(t) /\ ~SecretSourceMissing(t)
  /\ existing' = [existing EXCEPT ![t] =
                    {b \in Needed(t) : Present(Item(b, ver[t]))}]
  /\ todo' = [todo EXCEPT ![t] = Needed(t)]
  /\ Goto(t, "create")
  /\ UNCHANGED <<pending, missing, idx, ver, vals, failed, result, handed,
                 drawn, clash, swarmVars>>

ValidateFails(t) ==
  /\ At(t, "validate")
  /\ ConfigFileMissing(t) \/ SecretSourceMissing(t)
  /\ ExitFailed(t)
  /\ UNCHANGED swarmVars

\* As if ensure() compared base names, so that any version counted as this one.
EnsureSecret_AnyVersion(t, b) ==
  \/ (\E n \in Names : n.base = b /\ Present(n)) /\ UNCHANGED store
  \/ SecretCreate(Item(b, ver[t]), vals[t][b])

\* ensure(): what the snapshot lists is skipped, the rest is created.  The
\* order within the loops is not modelled.
EnsureSecret(t, b) ==
  \/ b \in existing[t] /\ UNCHANGED store
  \/ b \notin existing[t] /\ SecretCreate(Item(b, ver[t]), vals[t][b])

CreateSecret(t) ==
  /\ At(t, "create")
  /\ \E b \in todo[t] :
       /\ EnsureSecret(t, b)
       /\ todo' = [todo EXCEPT ![t] = @ \ {b}]
  /\ UNCHANGED <<pc, pending, missing, idx, ver, vals, existing, failed, result,
                 handed, drawn, clash, now, nets, live, prior, rollout, draining>>

\* docker stack deploy, first half: the external networks must exist, then the
\* configs are created.  A config that exists must have the same content.
StackDeployConfigs(t) ==
  LET cfgs == Needs[Current(t)] \cap Configs IN
  /\ At(t, "create")
  /\ todo[t] = {}
  /\ Uses[Current(t)] \subseteq nets
  /\ \A b \in cfgs : store[Item(b, ver[t])] \in {None, vals[t][b]}
  /\ store' = [n \in Names |-> IF n.ver = ver[t] /\ n.base \in cfgs
                                 THEN vals[t][n.base] ELSE store[n]]
  /\ Goto(t, "services")
  /\ UNCHANGED <<pending, missing, idx, ver, vals, existing, todo, failed,
                 result, handed, drawn, clash, now, nets, live, prior, rollout,
                 draining>>

\* docker stack deploy, second half: every network and item a service refers to
\* must exist still, and the services take the new specification.
StackDeployServices(t) ==
  /\ At(t, "services")
  /\ Uses[Current(t)] \subseteq nets
  /\ \A b \in Needs[Current(t)] : Present(Item(b, ver[t]))
  /\ InstallSpec(Current(t), [ver |-> ver[t], want |-> vals[t]])
  /\ handed' = [handed EXCEPT ![t] = @ \cup {Current(t)}]
  /\ Goto(t, "verify")
  /\ UNCHANGED <<pending, missing, idx, ver, vals, existing, todo, failed,
                 result, drawn, clash, now, store, nets, draining>>

\* A docker call fails: the name is taken, a network or an item is missing, a
\* config differs, the manager is unreachable.
DockerCallFails(t) ==
  /\ pc[t] \in {"validate", "create", "services"}
  /\ ExitFailed(t)
  /\ UNCHANGED swarmVars

\* convergence.verify() answers; module Convergence says what that is worth.
Verified(t) ==
  /\ At(t, "verify")
  /\ NextStack(t)
  /\ UNCHANGED <<pending, missing, failed, result, handed, drawn, clash, swarmVars>>

VerifyFails(t) ==
  /\ At(t, "verify")
  /\ ExitFailed(t)
  /\ UNCHANGED swarmVars

FinishTask(t) ==
  /\ At(t, "next")
  /\ idx[t] \notin DOMAIN Plan[t]
  /\ result' = [result EXCEPT ![t] = IF failed[t] = {} THEN "ok" ELSE "failed"]
  /\ Goto(t, "done")
  /\ UNCHANGED <<pending, missing, idx, ver, vals, existing, todo, failed,
                 handed, drawn, clash, swarmVars>>

\* The operator interrupts the task, or its machine goes down.
KillTask(t) ==
  /\ pc[t] # "done"
  /\ Goto(t, "done")
  /\ result' = [result EXCEPT ![t] = "killed"]
  /\ UNCHANGED <<pending, missing, idx, ver, vals, existing, todo, failed,
                 handed, drawn, clash, swarmVars>>

TaskStep(t) ==
  \/ InspectNetwork(t) \/ CreateNetwork(t) \/ CreateNetworkFails(t)
  \/ NetworksReady(t)
  \/ PrepareStack(t) \/ PrepareFails(t)
  \/ ValidateAndList(t) \/ ValidateFails(t)
  \/ CreateSecret(t)
  \/ StackDeployConfigs(t) \/ StackDeployServices(t) \/ DockerCallFails(t)
  \/ Verified(t) \/ VerifyFails(t)
  \/ FinishTask(t)
=============================================================================
