------------------------------- MODULE Swarm -------------------------------
(***************************************************************************)
(* The Swarm manager as the tooling under .mise/python/swarm sees it       *)
(* through the docker CLI: the store of versioned secrets and configs, the *)
(* overlay networks, and for each stack the specification its services     *)
(* run.  Docker itself is not in the repository; what is written here is   *)
(* the behaviour swarm/_docker.py and its callers rely on.                 *)
(*                                                                         *)
(* A stack is the unit of update: its services take a new specification    *)
(* together, and the specification is known by the deploy version suffix   *)
(* of the items it mounts.                                                 *)
(***************************************************************************)
EXTENDS Naturals, Sequences, FiniteSets

CONSTANTS
  Stacks,      \* directories of stacks/infra and stacks/apps
  Secrets,     \* base names of versioned secrets (shared by stacks or not)
  Configs,     \* base names of versioned, file-backed configs
  Networks,    \* external overlay networks
  Needs,       \* stack -> base names its compose.yml names with _<version>
  Uses,        \* stack -> external networks its services attach to
  Values,      \* contents of secrets and config files
  Shas,        \* what the sha part of a version can be, "local" included
  ShortShas,   \* those of them that are 7 hex digits
  MaxTime,     \* bound: last second of the clock
  None         \* absence of a value, a version, a specification, a network

Bases == Secrets \cup Configs

ASSUME SwarmAssumption ==
  /\ Secrets \cap Configs = {}
  /\ Needs \in [Stacks -> SUBSET Bases]
  /\ Uses \in [Stacks -> SUBSET Networks]
  /\ ShortShas \subseteq Shas
  /\ MaxTime \in Nat

\* A deploy creates finitely many items, on finitely many networks.
ASSUME FiniteAssumption ==
  IsFiniteSet(Bases) /\ IsFiniteSet(Networks) /\ IsFiniteSet(Shas)

VARIABLES
  now,       \* epoch seconds
  store,     \* name of a secret or config -> its immutable content, or None
  nets,      \* overlay networks that exist
  live,      \* stack -> specification its services have, or None
  prior,     \* stack -> specification an automatic rollback would restore
  rollout,   \* stack -> "idle", "updating" or "rolledback"
  draining   \* stacks removed whose tasks still run

swarmVars == <<now, store, nets, live, prior, rollout, draining>>

Versions == [sha : Shas, sec : 0..MaxTime]
Names == [base : Bases, ver : Versions]

\* What a run resolved for each base name: a content, or nothing.
Sources == [Bases -> Values \cup {None}]

\* A specification: the version its items carry and, as history, the contents
\* the deploy that installed it had resolved for them.
Specs == [ver : Versions, want : Sources]

\* None is none of the things whose absence it marks.
ASSUME NoneAssumption ==
  /\ None \notin Values
  /\ None \notin Networks
  /\ None \notin Versions
  /\ None \notin Specs

Item(b, v) == [base |-> b, ver |-> v]

Present(n) == store[n] # None
Deployed(s) == live[s] # None

\* Docker's "in use" check: a service specification refers to the item.  The
\* specification a rollback would restore does not count.
InUse(n) ==
  \E s \in Stacks : /\ Deployed(s)
                    /\ live[s].ver = n.ver
                    /\ n.base \in Needs[s]

\* A network is in use while a service or a task that still drains is attached.
Attached(net) ==
  \E s \in Stacks : net \in Uses[s] /\ (Deployed(s) \/ s \in draining)

-----------------------------------------------------------------------------
SwarmInit ==
  /\ now = 0
  /\ store = [n \in Names |-> None]
  /\ nets = {}
  /\ live = [s \in Stacks |-> None]
  /\ prior = [s \in Stacks |-> None]
  /\ rollout = [s \in Stacks |-> "idle"]
  /\ draining = {}

Tick ==
  /\ now < MaxTime
  /\ now' = now + 1
  /\ UNCHANGED <<store, nets, live, prior, rollout, draining>>

\* Every task of the update runs: the update is over.
UpdateCompletes(s) ==
  /\ rollout[s] = "updating"
  /\ rollout' = [rollout EXCEPT ![s] = "idle"]
  /\ prior' = [prior EXCEPT ![s] = None]
  /\ UNCHANGED <<now, store, nets, live, draining>>

\* A new task fails and failure_action is rollback: the services go back to
\* the specification they had before.
UpdateRollsBack(s) ==
  /\ rollout[s] = "updating"
  /\ live' = [live EXCEPT ![s] = prior[s]]
  /\ prior' = [prior EXCEPT ![s] = None]
  /\ rollout' = [rollout EXCEPT ![s] = "rolledback"]
  /\ UNCHANGED <<now, store, nets, draining>>

TasksDrained(s) ==
  /\ s \in draining
  /\ draining' = draining \ {s}
  /\ UNCHANGED <<now, store, nets, live, prior, rollout>>

SwarmNext ==
  \/ Tick
  \/ \E s \in Stacks : UpdateCompletes(s) \/ UpdateRollsBack(s) \/ TasksDrained(s)

-----------------------------------------------------------------------------
(* Calls of the CLI.  Each states its effect; its callers state the rest.  *)

\* docker secret create: fails if the name is taken.
SecretCreate(n, val) ==
  /\ ~Present(n)
  /\ store' = [store EXCEPT ![n] = val]

\* As if the removal were forced.
ItemRm_Forced(n) == store' = [store EXCEPT ![n] = None]

\* docker secret rm / config rm, run with check=False: removes the item unless
\* a service refers to it, and reports nothing else to the caller.
ItemRm(n) ==
  store' = IF InUse(n) THEN store ELSE [store EXCEPT ![n] = None]

\* As if attached tasks were disconnected first.
NetworkRm_Forced(net) == nets' = nets \ {net}

\* docker network rm: likewise.
NetworkRm(net) ==
  nets' = IF Attached(net) THEN nets ELSE nets \ {net}

\* Services are created or updated to the new specification.
InstallSpec(s, spec) ==
  /\ live' = [live EXCEPT ![s] = spec]
  /\ prior' = [prior EXCEPT ![s] = live[s]]
  /\ rollout' = [rollout EXCEPT ![s] = IF Deployed(s) THEN "updating" ELSE "idle"]

\* docker stack rm: services go at once, their tasks drain.
StackRm(s) ==
  /\ live' = [live EXCEPT ![s] = None]
  /\ prior' = [prior EXCEPT ![s] = None]
  /\ rollout' = [rollout EXCEPT ![s] = "idle"]
  /\ draining' = IF Deployed(s) THEN draining \cup {s} ELSE draining

\* docker stack ps: rc 0 while the stack has services or tasks.
StackListed(s) == Deployed(s) \/ s \in draining

SwarmTypeOK ==
  /\ now \in 0..MaxTime
  /\ store \in [Names -> Values \cup {None}]
  /\ nets \subseteq Networks
  /\ live \in [Stacks -> Specs \cup {None}]
  /\ prior \in [Stacks -> Specs \cup {None}]
  /\ rollout \in [Stacks -> {"idle", "updating", "rolledback"}]
  /\ draining \subseteq Stacks
=============================================================================
