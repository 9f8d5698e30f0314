# A verification development for docker-swarm-cluster

TLA+ models of the programs in this repository, the TLC configurations that
check them on small instances, and proofs, checked by TLAPS, that hold for
instances of any size. Paths are those of the repository; `swarm/` stands for
`.mise/python/swarm/`.

## The system

The repository describes a Docker Swarm homelab and carries the programs that
run it. The data (compose files, dashboards, configuration of third-party
services) is not modelled; the programs are these.

| part | state it keeps | operations | hard behaviour | correct when |
|---|---|---|---|---|
| deploy tasks (`tasks/swarm.toml`, `tasks/site.toml`, `swarm/networks.py`, `swarm/deploy.py`, `swarm/secrets.py`) | the loop over stacks with its array of failed stacks; per stack a version, the resolved secrets, a snapshot of the secrets that exist | create networks, prepare, create secrets, `docker stack deploy`, verify | no lock: other deploys, a cleanup and removals run between any two docker calls; any call fails; the process is killed | services refer to what exists and mount what their own deploy resolved; failures are reported |
| cleanup (`swarm/cleanup.py`) | the list of the current phase | list and try to remove secrets, configs, networks; prune nodes | lists are stale when used; Docker's "in use" check is the only safety | nothing in use is lost; nothing unused stays |
| stack removal (`swarm/remove.py`) | position, deadline | check, `docker stack rm`, poll | the poll reads an exit code; tasks drain for ever | ends; reports what happened |
| convergence poll (`swarm/convergence.py`) | deadline, backoff | poll tasks and replicas, collect unhealthy services | reads of two calls, old tasks right after a detached deploy, rollbacks | says converged only of the deploy's own services |
| docker CLI layer, nodes, ssh, registry login (`swarm/_docker.py`, `nodes.py`, `_ssh.py`, `registry_auth.py`) | none | calls and parsing, placement constraints, fan-out to nodes | partial failure of nodes | every node has a result; a service is looked for where Swarm may run it |
| validation and status (`swarm/validate.py`, `status.py`) | `failed`, the parsed documents, the results of each node | render, check files and secrets, look for bind mounts over ssh | docker calls fail, connections break half-way, files come and go | a run that passes has checked everything; each path is reported once, and truly |
| compose projects (`.mise/python/compose/`) | none | render, build, up, down | partial failure | |
| shared library (`.mise/python/core/`) | output prefix | processes, sops, output | | |
| mail forwarder (`stacks/apps/forwarder/build/forwarder/`) | IMAP connection, error count; the mailbox is its database | poll, match, forward, extract, mark, move | crash between forward and mark, timeouts, sequence numbers, a batch limit | every matching mail is forwarded, once if possible |
| device mapping manager (`stacks/infra/70_dmm/`) | none of its own; the filter programs of the containers' cgroups | scan running containers, handle start events, scan again at a systemd reload | events missed, two goroutines on one cgroup, replacement of programs call by call | running containers can use the devices they mount, and keep what they were granted |
| haproxy endpoint sidecar (`compose/swarm-vps/haproxy/build/endpoint/`) | delay | read the WireGuard endpoint and HAProxy's address, set address, set state | the peer roams and HAProxy is recreated between two calls; one of two settings fails | HAProxy follows the endpoint and is enabled |
| borgmatic exporter (`stacks/infra/20_backup/config/borgmatic/exporter.py`) | the metrics file, one temporary file | read, look up, merge, replace | failing lookups, kills, hooks that overlap | a hook changes its own target's row, at once |
| init sidecars (`*/bootstrap/*.sh`, `init.sh`) | none | create if absent | run again at every deploy | idempotent |

Operators start the tasks, from one machine or several. They meet only in the
Swarm manager: its store of secrets and configs, its networks, its services.
The forwarder, the device manager, the sidecar and the exporter are deployed by
them but share no state with them or each other.

## Modules

| module | models | extends |
|---|---|---|
| `Swarm` | the manager as the tooling relies on it: store, networks, the specification of each stack, updates that complete or roll back, draining tasks, and the effect of each CLI call | |
| `StackDeploy` | the deploy tasks | `Swarm` |
| `Cleanup` | `swarm:cleanup` | `Swarm` |
| `StackRemove` | `swarm:remove`, `site:drain` | `Swarm` |
| `StackContents` | what the deploy tasks promise: the contents a stack mounts change as a whole | |
| `SwarmOps` | all of them side by side, the properties; an instance of `StackContents` is the refinement | the three above, `StackContents` (INSTANCE) |
| `SwarmOpsProofs` | the theorems about `SwarmOps` | `SwarmOps`, `TLAPS` |
| `MCSwarmOps` | values of the constants for TLC | `SwarmOps` |
| `Convergence` | `verify()` against a Swarm that updates the services | |
| `ConvergenceProofs` | the theorems about `Convergence` | `Convergence`, `TLAPS` |
| `MCConvergence` | values of its constants | `Convergence` |
| `Forwarder` | tasks of the mail forwarder, their mailbox and its owner | |
| `ForwarderProofs` | the theorems about `Forwarder` | `Forwarder`, `TLAPS` |
| `MCForwarder` | values of its constants | `Forwarder` |
| `Dmm` | the two goroutines of the device mapping manager, the containers of its node, systemd | |
| `DmmProofs` | the theorems about `Dmm` | `Dmm`, `TLAPS` |
| `MCDmm` | values of its constants | `Dmm` |
| `MetricsStore` | what the metrics exporter promises: a store with a row for each target | |
| `Exporter` | hooks of the exporter on their two files; an instance of `MetricsStore` is the refinement | `MetricsStore` (INSTANCE) |
| `ExporterProofs` | the theorems about `Exporter` | `Exporter`, `TLAPS` |
| `Endpoint` | the loop of the endpoint sidecar, HAProxy, WireGuard | |
| `Rules` | loading a rule of the forwarder, matching a mail, filtering an action | |
| `RulesProofs` | the theorems about `Rules` | `Rules`, `TLAPS` |
| `Validate` | `validate()`, placement constraints, the ssh fan-out, the nodes' disks | |
| `ValidateProofs` | the theorems about `Validate` | `Validate`, `TLAPS` |
| `Helpers` | the disjoint sum of the four | `Exporter`, `Endpoint`, `Rules`, `Validate` |
| `HelpersProofs` | that `Helpers` runs the four as specified; types of `Endpoint` | `Helpers`, `TLAPS` |
| `MCHelpers` | values of its constants | `Helpers` |

### How state and actions correspond to the code

`Swarm`. Docker is not in the repository; the module states what
`swarm/_docker.py` and its callers rely on. The name of an item is a record of
base name and version, the version a record of a sha and a second, as
`generate_deploy_version` builds it. A stack is the unit of update: `live[s]` is
the specification its services have, `prior[s]` what an automatic rollback would
restore (`failure_action: rollback` in `stacks/_shared/anchors.yml`), and
`rollout[s]` which of the two happens. `want` in a specification is history: the
contents the deploy resolved. `ItemRm` and `NetworkRm` are `check=False` calls,
whose refusal the callers read as "in use".

`StackDeploy`. One action per docker call. A task at `pc[t] = "init"` runs
`init_networks`: `InspectNetwork`, then `CreateNetwork` or `CreateNetworkFails`
with other runs in between. `PrepareStack` is `_prepare_stack` up to the rendered
document, which touches nothing the other runs see: it draws the version and
resolves any contents, or none, for the base names. `ValidateAndList` and
`ValidateFails` are `_provision_versioned_resources` up to the snapshot
`existing`; `CreateSecret` is one call of `ensure`. `docker stack deploy` is two
steps, because it creates configs before it touches services and both look at
what exists. `Verified` and `VerifyFails` are the two answers of
`convergence.verify`. `ExitFailed` is the `|| failed+=` of the loop, which goes
on. `KillTask` ends a task anywhere.

`Cleanup`. The two list comprehensions of a phase are a list action and one
removal attempt per element, in any order. `AbortCleanup` stands for a list call
that raises and for a kill. `quiet` is history: since the cleanup started nobody
else changed an item or a specification.

`StackRemove`. `CheckDeployed` is `docker stack ls`; the poll ends in
`PollDrained` when `docker stack ps` fails, or in `PollTimeout`. `PollFaults`
says whether that call may fail for other reasons.

`Convergence` opens the step `Verified` / `VerifyFails` of `StackDeploy`. For
each service Swarm may still run the task of the previous deploy (`old`) and
moves the one of this deploy through `cur`: `"Preparing"` stands for the
`PENDING_STATES` of the code, `"Assigned"` for the earlier states, which that
list does not name. `last` is what `is_task_complete` reads. `Begin` is the moment
the orchestrator reaches a service, which a detached deploy does not wait for.
`verify()` is one action per docker call, with the services still to be asked
about in `low`. `stack_ps` and `service_ps` are `check=False`, so a failed call
reads as an empty list (`blind` records it); `stack_services` is checked and raises
(`ServicesFail`). Time advances in `Sleep` only, in 32nds of a second, in which
the backoff 2 s, 3 s, 4.5 s ... consists of whole numbers. The history variables
`underway` and `quiet` say what the first poll could see and whether Swarm has
moved since.

`Forwarder`. A mail is the number of its arrival. IMAP sequence numbers are
`Rank` in `view`, the mails the session knows of; `cycle` holds the locals of
`process_emails`: `ids` (`email_ids`), `n` and `cur` (number and mail in hand),
`todo` (sends left). One action per IMAP or SMTP call: `Select`, `Search`,
`Fetch`, one `Forward` or `Extract` per recipient or task, `Mark`, `Copy`,
`Delete`, `Expunge`; `Skip` and `MoveRaises` are the exception handlers inside the
loop, `CycleFails` the one of `main()` around it. `config` is chosen once.
Whether a mail was delivered is not state: `forward_email` logs a failure and the
caller goes on either way. The service is updated start-first
(`compose.yml:56-61`), so `StartNext` and `Terminate` let two tasks overlap.

`Dmm`. `th` holds the two goroutines: `main()`, which scans and then reads start
events, and the listener started at `main.go:61`, which scans at each `Reloading`
signal. Both run `processContainer`: `Inspect` per container, then per device
`Rule` (find the attached programs, generate new ones), `Detach` per old
program and `Attach` per new one, each a system call of its own. A program
records the runtime's program it descends from, the reload it comes from, and the
devices prepended to it; `gone` keeps the kernel's notion that a program detached
by the other goroutine is not its successor of the same text. `excused`, `harmed`
and `kept` are history. The module states of systemd what `main.go:63-95`
supposes: a reload sends the signal before and after, and puts the original
programs back in between. A start between the scan and the subscription reaches
nobody; a container that is removed before it is inspected makes the manager
panic, and `docker run --restart always` (`launch.sh:22`) starts it again.

`Exporter`. A text is what `read_prior` reads out of a file: a row per target.
`Fire` is `main()` up to the lookups, which read nothing but the metrics file;
`Info` and `Listing` are the two calls of `run_borgmatic`, each of which may fail;
`Open`, `Write` and `Rename` the three steps at `exporter.py:200-202`. `hook[r].file`
says which file a hook's descriptor is of: a rename by another hook turns the
temporary file it has open into the metrics file (`AfterRename`), and a text
written over another leaves the end of a longer one (`Over`). `fired` counts hooks
and is the clock. `disturbed` is history: two hooks overlapped. borgmatic fires
hooks in turn, so only a run started by hand beside cron's overlaps.

`Endpoint`. One action per call of the loop at `endpoint.sh:43-64`: `CheckSocket`,
`ReadPeer`, `ReadState`, `SetAddr`, `SetReady`. `hap` fails when HAProxy does not
listen, and may fail otherwise; socat reports success also when HAProxy refuses an
address of another family. `proxy` is HAProxy with its socket, which stays in the
volume when the container ends; `halfway` is history for the state between the two
settings.

`Rules`. A keyword is absent from a text, inside a word of it, or a word of it,
which is all that substring and `\b` search tell apart. A rule is kept as written
(`rule`) and as loaded (`loaded`). `LoadConfig`, `MatchRule` and `FilterAction` are
`load_config`, one round of `get_matching_rules` and one of its caller's loop over
actions. `Written` and `Means...` at the end read the meaning off the rule as written,
from the documentation, independently of the operators of the code.

`Validate`. `CheckFile` is one round of the loop over documents, with three docker
calls; `InspectNodes` and `NodePaths` collect the bind mounts by the node that
`FindMatchingNode` gives. Bind mounts are numbered: `PathsOn` puts those of one node
in the order in which the code builds its list, which is all the code uses of a
path's name besides `Owned`, the stack it belongs to. `TakeHost` is a worker of
`parallel_run`; `TestPath` and `StatPath` are the two halves of the shell command of
each path, between which a file may go; `Break` loses the connection and keeps what
was printed. `Place` and `Status` match lines to paths by position
(`validate.py:134-156`), and `FileReport` is one round of the display loop with its
owners and its set of lines already displayed.

`Helpers` is a disjoint sum: each behaviour is one of one of the four programs,
which share no state.

## What the runs check

| run | instance | shows |
|---|---|---|
| `cleanup` | stack A (a secret, a config, a network) deployed twice by one task, one cleanup, one removal whose poll may fail at any time, two shas and `local`, one second | four of the safety properties below and the refinement, with every interleaving of the four processes and the manager |
| `tasks` | stacks A and B sharing a secret; a task for both, a task for A; two seconds | services mount what their own deploy resolved, failures are reported, prepared means deployable |
| `live` | as `cleanup`, with one version, one value and no faults of the poll | every run counts down and terminates |

* `ReferencedItemsExist`: the services of a stack refer to items that exist.
  Docker's check does not cover the specification a rollback restores, so a
  stack that was rolled back is excepted; TLC shows the exception is needed.
* `ServicesMountWhatWasResolved`: services mount what their deploy resolved.
  Excepted are versions drawn twice (same second, same commit), where the second
  deploy skips names that exist.
* `AttachedNetworksExist`: services keep their networks through cleanups.
* `QuietCleanupIsThorough`: an undisturbed cleanup leaves no versioned item that
  is not in use, although it lists once and a refused removal is final. Items of a
  version `local`, or of a sha longer than seven digits, are no candidates
  (`cleanup.py:37`) and stay, although README.md:170-171 says that old versions
  persist until a cleanup.
* `TasksReportFailures`: every stack of a finished task was handed over or is
  reported.
* `PreparedMeansDeployable`: until a cleanup starts, secrets and networks that
  the preparing steps provided are there for `docker stack deploy`.
* `ContentsAreAtomic`: the refinement. The contents a stack finds under the names it
  mounts, read from the store and not from what a deploy believes, change only in one
  step, by a deploy that puts there all it resolved, by a rollback to what was mounted
  before, or by a removal. A cleanup takes only items that no stack mounts, which a
  rollback might restore (`Lose`), and a version drawn twice makes what bears it unclear (`ResolveTwin`);
  without either step of `StackContents` TLC finds the refinement violated.
* `RunsAdvance`: a countdown. `TaskLeft`, `CleanerLeft` and `RemoverLeft` are the turns
  of its loop and the docker calls a run has left; each of its own steps lowers them,
  also one that fails, and no other run and nothing at the manager touches them. A
  retry of a failed stack would break it, or a list read again while it is worked
  off. The wait for a drain or for convergence is one step here; for the loop of
  `verify()` there is `VerifyAdvances`.
* `RunsTerminate`: liveness, under weak fairness of each run. It says that a removal
  ends, not that the stack has drained: any failing `docker stack ps` counts as the
  end of the drain, not only the one of `remove.py:42-46`.

| run | instance | shows |
|---|---|---|
| `verify` | an init sidecar, a service updated start-first, one updated stop-first whose count may read `N/A`; a timeout of three sleeps; one exit of a task | `verify()` ends in time and its verdict means what the next properties say |
| `detach` | as `verify` | violated: success although Swarm has not begun an update, which `.mise/README.md:165` (verify polls until services converge) does not say |
| `mailbox` | one task, three mails of which the second matches no rule, batches of two, two faults | mails are moved, not lost, and every matching one is attended to |
| `update` | two tasks that overlap, two mails, one fault | sends, marks and moves of two tasks at once |
| `move` | one task, two mails, one fault | violated: `config.py:81-82` moves mails, but a COPY answered NO (`processing.py:242`) deletes them |
| `grant` | one container with two devices, one reload, one failure or kill of the manager | no program is lost, grants stay, mounts are granted |
| `race` | the same without failures | violated: both goroutines replacing the programs of one cgroup around a reload leave it without a device for good, against `v2.go:168-170` and `70_dmm/README.md:15` |
| `helpers` | exporter: two targets, two runs, two hooks; endpoint: three addresses, one of another family, three events; rules: two keywords, twelve filters for each of two pairs; validation: two nodes, two stacks, two paths, one worker, one change on a disk | the properties of the four programs below |
| `words` | the rules alone | violated: a filter with `body_words` and no `body` never sees the body (`processing.py:94`), against `processing.py:46-47` |

* `VerdictInTime`: the clock stays below timeout plus the longest sleep.
* `QuietVerdictIsExact`: if Swarm stands still and no call fails, success means
  that every service is healthy and no task is pending, and a failure comes
  after the whole timeout and names the unhealthy services, and besides them only
  services whose count was unreadable.
* `SuccessMeansRunning`: success is not news about old tasks, for services whose
  update the first poll could see. `detach` shows that the restriction is needed.
* `VerifyAdvances`: the countdown of `verify()`. `VerifyLeft` is the time until its last
  sleep is over, and the calls until it sleeps or ends; its own steps lower it, and no
  task that exits and starts over, no update that begins late and no removal sets it
  back. A timeout counted from the last poll would.
* `MarkedAfterSending`: a mail is marked only after all its sends were attempted.
* `HandlesWhatItFound`: unless mails are moved, the numbers on a task's list keep
  naming the mails they were taken from. With moves they do not: each expunge
  shifts those behind it (`processing.py:242-244`), and in the run `mailbox`, with
  three mails, TLC shows this when the exception is taken out.
* `RepeatsHaveACause`: nothing is sent twice unless a task died or failed between
  send and mark, or two tasks had the mail on their lists.
* `MovedMailIsCopied`: a mail that left the mailbox is in the folder, unless the
  server refused the COPY or another session's expunge shifted the numbers
  between COPY and STORE; both exceptions are needed.
* `MatchingMailIsAttended`: liveness, if there are fewer mails without a matching
  rule than a batch holds. With a batch of one the unmatched mail blocks the
  others for ever, which TLC shows when the premise is dropped.
* `NoProgramIsLost`: a successor of every program the runtime attached is attached
  or in the hands of a goroutine, unless the manager failed or died there.
* `GrantsAreKept`: a device once granted stays so until a reload, whatever is
  prepended later and in whatever order, also while a goroutine replaces the
  programs: no program between the first detach and the last attach refuses it.
* `MountsAreGranted`: liveness. Excepted are containers that since the last scan
  started unseen, met an error, or had both goroutines at work on them; `race`
  shows that the last exception is needed.

* `StoreIsKept`: the refinement. Until two hooks overlap, the metrics file changes
  as `MetricsStore` says: by one step per hook, which changes its own target's row,
  keeps counters and the time of the last success over failed lookups and failed
  backups, and leaves every other row alone; kills at any point change nothing.
* `DirectPathComesUp`: liveness. Once the peer stays at an address HAProxy can take and
  HAProxy stays up, the server ends with that address and enabled, except when the
  second setting was lost after the first (`endpoint.sh:48-49`): later rounds find
  the address right and never make the server ready. TLC shows the exception is
  needed.
* `RulesMeanTheirText`: matching and filtering agree with the documented meaning, but
  for filters with `body_words` alone (see `words`) and includes whose keys hold no
  keyword, which match nothing instead of everything.
* `EveryPathIsReported`, `VerdictsAreTrue`, `ChecksAreNotSkipped`,
  `PathsAreCheckedWhereServicesRun`: a validation that ends with 0 has reported each
  bind mount exactly once, truly as far as the disks stood still, of documents that
  were all checked, on nodes Swarm may use. The exceptions, each needed: a path that
  vanishes between test and stat shifts the lines of its node
  (`validate.py:138-156`); a second rendering that fails is passed over
  (`validate.py:205-209`); constraints without spaces are ignored (`nodes.py:92-94`).

Every property has a mutant in `PROJECT.json`, an operator beside the definition
it changes, that makes TLC report the property violated.

Bounds. `MaxTime` is the last second of the clock: two seconds, or two shas, are
enough for two deploys with equal and with different versions, which is all the code
can tell apart. `tasks` has the seconds; `cleanup` has the shas and `local`, which no
cleanup removes. Two values tell "the same content" from "another". One secret and one
config are enough because items interact only through one version; two stacks
that share a secret name cover its reuse. One cleaner, because cleaners only
remove, and one remover. `CHECK_DEADLOCK FALSE`: a state in which every run has
ended and the clock stands still is the intended end.

In `Convergence` three services are one of each kind the code or Swarm treats
differently; a timeout of three sleeps lets the backoff grow, meet its cap and
pass the deadline; one exit is enough for a task to fail or complete at any moment
(`CHECK_DEADLOCK FALSE`: after the verdict nothing is left to do). In `Forwarder`
three mails and batches of two give an unmatched mail in front of a matching one
and a mail beyond the batch; two mails suffice where numbers shift, since one
removed mail renumbers the other. Deadlock is checked there: the loop never
stops. In `Dmm` one container is enough because the code treats each alone; two
devices are needed for a grant to be lost by the next, one reload for a stale
program, one fault for each single failure. `Bases` has one program, what runc
attaches. `CHECK_DEADLOCK FALSE`: the manager waits for events when the container
has ended.

In `Helpers` two hooks are enough for a prior row, an overlap and each failure; a
third adds only a descriptor of a file that is gone, and was checked once by hand
(`MaxHooks = 3`, 1.3 million states). Three events let the sidecar be restarted or
a call lost between the two settings, the peer roam, and HAProxy be recreated. Two
keywords are one that matches and one that does not, under each key. One worker
makes the second node wait; its limit is four in the code, where more nodes add
only interleavings of jobs that share nothing. `CHECK_DEADLOCK FALSE`: validation
ends, a refused configuration stops, and hooks are bounded.

Fairness. Each run is a sequential process that calls docker and waits for the
answer, so a step that is enabled for ever is taken: `WF` of the steps of each
task, cleanup and removal. Nothing is assumed of Swarm, which may never finish an
update or a drain, and nothing forces or forbids kills. `verify()` is such a
process, too; `FairSpec` of `Convergence` assumes nothing of Swarm. A forwarder
task is a loop of calls with timeouts, which Swarm restarts: `WF` of the steps of
each task, the restart included. In `Dmm` the Go scheduler runs both goroutines,
docker restarts the manager, and a reload that began ends. The endpoint loop sleeps
and goes on: `WF` of its next step; nothing else in `Helpers` is fair.

## What is proved

`SwarmOpsProofs` proves each safety property of the runs `cleanup`, `tasks` and `live`
for every value of the constants: any number of stacks, items, tasks, cleanups,
removals and seconds, under `SwarmAssumption`, `NoneAssumption`,
`TaskAssumption` and `RemoverAssumption`, which say that the constants have their
types and `None` is no value, and for the countdown `FiniteAssumption`: the base names,
networks and shas are finitely many.

None of the properties is inductive. `IndInv` adds

* `TaskShape`, `RemoverShape`, `Resolved`: where a process is determines what its
  variables hold, so that a task writes contents and never `None`;
* `VersionsDrawn`, `VersionsOwned`: every version in sight was drawn, and one
  without a clash belongs to one deploy in progress and, before the hand-over, to
  no stack. This is why contents of two deploys do not mix;
* `OwnItems`, `OwnMounts`: what a deploy finds under its version is its own, and
  so is what its specification mounts, before, during and after a rollback;
* `UpdatesDeployed`: an update is of a deployed stack, so a rollback never attaches
  a removed stack to a network that is gone;
* `SweepProgress`: at each phase of a quiet cleanup every item it must still
  remove is on its list or belongs to a later phase;
* `StacksAccounted`: the prefix of the plan behind the loop is accounted for;
* `Prepared`: what is inspected, listed or created so far exists.

The step lemmas go through the actions one by one; `ManagerOrTask`,
`TaskOnManager` and `StoreStep` reduce them to the actions that touch the
variables at hand.

`RunsCountDown` and `NoRunIsEndless` are the part of `RunsTerminate` that needs no
fairness. The countdown of a run is a pair of natural numbers (`LeftIsNumbers`, from
the finiteness of the items and networks), each step of the run lowers it
(`TaskAdvances`, `CleanerAdvances`, `RemoverAdvances`), steps of others leave it alone
(`TaskStepIsLocal` and its like), and such pairs do not go down for ever
(`DescentEnds`, from the lexicographic ordering of the library). `TaskShape` and
`RemoverShape` are needed: a deploy in progress is at a stack of its plan, so that
leaving it makes the turns fewer. What `RunsTerminate` says besides, that a run which
has not ended can take a step and under fairness does, is only model-checked: `ENABLED`
is out of the prover's reach.

`DeploysKeepContentsWhole` is the refinement of `StackContents`, from the same
invariant. `offers`, `mounts` and `fallbacks` are the abstract state. What the steps of
a deploy write before the hand-over is invisible (`WritesMap`), because
`VersionsOwned` says that no stack knows its version yet; the hand-over mounts exactly
what was resolved (`HandOverMaps`), because of `OwnItems` and `Resolved`; a version
drawn again is a `ResolveTwin` (`PrepareMaps`); an item a cleanup removes is in no
`mounts`, as it is not in use, and its loss shows in `fallbacks` alone (`ManagerMaps`).
`UpdatesDeployed` also says that an update has something to go back to.

`ExporterProofs` proves for any targets, runs and number of hooks, under
`ExporterAssumption`, that every variable keeps its type, and `ExporterKeepsStore`:
the exporter implements `MetricsStore`. The refinement needs the invariant `Orderly`,
which holds until two hooks overlap: there is one hook at most (`Alone`), what it has
collected is a draft of one step of the store on the file as it is now (`Drafted`), and
what it is about to rename is that draft (`Placed`). `StepMaps` takes the actions one
by one: a rename is a `Record` of the store, an overlap its `Disturbed`, everything else
a stutter.

`RulesProofs` proves `RulesMatchAsWritten` for any rules, mails and keywords. The
argument is about operators, not about steps: loading keeps the keywords of a filter,
each under its key (`KeywordsAreKept`); checking what was loaded finds what occurs
(`StopMeansOccurs`), and so on up to `MatchIsMeant` and `FilterIsMeant`. The invariant
`Computed` only says that a verdict is what those operators compute. `RulesAssumption`
says that mails, rules and their filters have their forms.

`ConvergenceProofs` proves the safety properties of the run `verify` for any services,
times and number of exits, from one invariant with a part for each: `InTime` (a sleep
begins before the deadline, and lasts at most `MaxInterval`), `Exact` (as long as
Swarm stands still, what `low`, `unhealthy` and the phase say adds up to one look at
the stack), `NoOldNews` (a service whose update was underway at the first poll keeps
the poll from succeeding until its task runs), with `Phases` and `BegunFirst`, which
tell which variables mean something when. `VerifyCountsDown` and `VerifyIsNotEndless`
are its countdown, argued as that of the runs above: `InTime` makes the time left a
natural number, `FiniteAssumption` the calls.

`ForwarderProofs` proves the four safety properties of the forwarder and its types, for
any number of mails, tasks and faults. Types need `Attending`: the mail in hand
matches a rule, and every send not left in `todo` was attempted; from it follows that
marking comes last. For moves, `CopiedFirst` says that what is flagged, and what a task
between COPY and STORE is about to flag, is in the folder; a new mail does not
disturb it, since no session knows the mail. Without moves, `Listed` says that the
numbers left are ranks of mails the search found, and that the mail in hand is off the
list; it needs that ranks are injective (`RankIsInjective`). `Repeating` accounts for
every send attempted: the mail is marked, at risk, or in the hands of the task that
sent it, and what two tasks have both listed is at risk.

`DmmProofs` proves the three invariants of the device mapping manager for any
containers, devices, programs of the runtime, reloads and faults. `Owes` says that a
goroutine holds a new program for each one it has detached or still wants to detach,
which is why the last attach settles what it owes; `Granting` says that not only the
programs attached but also those about to be attached, by either goroutine, allow what
was granted; `Together`, that no goroutine is at work when the manager starts.

`ValidateProofs` proves the four properties of validation for any stacks, documents,
paths, hosts, workers and changes on the disks, from one invariant, `ValidateInv`. None
of the four can be seen from the end of a run alone. `RunShape` says what each phase
has collected; `DocsChecked`, that in a run that has not failed every document behind
the loop was checked, but for what the second rendering dropped. `JobFollows` says of
each host that it has printed one line for each path behind it, unless the connection
broke, and that these lines are true of every path that has not changed (`LinesTrue`);
once a path vanished between test and stat, nothing is said of that host.
`ReportsFollow` says that what was displayed is what the files behind the loop own, each
line once. The attempt also found a mistake in `VerdictsAreTrue`, which was a `CASE`
whose guards overlapped: TLC takes the first that holds, the logic leaves it open.

`HelpersProofs` proves `HelpersAreTheirPrograms`: `Helpers` implies the
specification of each of the four programs, so what is proved of them separately holds
of the sum that TLC checks. `HelpersTypeCorrect` adds the types of `Endpoint`,
whose only invariant besides is that the address about to be set is not empty.

What stays with TLC:
`RunsTerminate`, `VerifyEnds`, `MatchingMailIsAttended`, `MountsAreGranted` and
`DirectPathComesUp` are liveness, which needs `ENABLED`; of the first two, the countdowns
are proved. The violated properties are not
theorems, of course.

## What is left out

* `Needs` and `Uses` are constants: a stack's compose file does not change which
  items and networks it names while runs are going on.
* `docker stack deploy` updates all services of a stack in one step. A failure
  between two services of a stack is not told apart from one before or after.
* Image builds and pushes, and node prunes, change nothing the properties read.
* The order of `ensure` calls and of removals within a phase is left open.
* `Convergence`: services with more than one replica, and the wording of reports.
* `Forwarder`: which rules match a mail is a constant, with the sends they ask
  for; other clients read mail but do not remove any; backoff times and the age
  the health check reads; the contents of mails and attachments.
* `Dmm`: cgroup v1; directories among the mounts, whose files would be more
  devices; the length of a program, which grows with every scan; a bus
  connection lost later than at the start; containers that are started again.
* `Exporter`: metrics of a whole repository, which each hook drops from the prior file
  and writes again only if its own lookup succeeds; values of gauges.
* `Endpoint`: time, and with it the two poll intervals.
* `Rules`: several rules at once, which do not influence each other; decoding of
  subjects and bodies; environment variables; extract patterns.
* `Validate`: order of the queue of hosts; volumes that are no binds; permissions.

Not modelled: `status.py`, rendering, the compose projects, the shared library,
registry login and the init sidecars. They are sequences of calls without state of
their own, and what could be said of them restates their code.

## Plan

Done: the deploy, cleanup and removal composition, the modules `Convergence`,
`Forwarder`, `Dmm`, and the four helpers, two of the parts with a refinement; all
their safety properties are proved, and the countdowns of the runs and of `verify()`.
Next, in this order:

1. A specification of what `verify` promises to a deploy, implemented by
   `Convergence` and used by the step `Verified` of `StackDeploy`.
2. `status.py` and `parse_replicas`, compared with what `Convergence` counts as
   healthy.
3. A second instance of `Dmm` with two containers and no reload, for a panic that
   hits the other goroutine's container; a start missed at startup as a run of
   its own.
