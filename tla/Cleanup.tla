------------------------------ MODULE Cleanup ------------------------------
(***************************************************************************)
(* swarm/cleanup.py: list the versioned secrets and try to remove each,    *)
(* then the configs, then the overlay networks, then prune the nodes.  The *)
(* lists are taken once per phase and used while deploys go on.            *)
(***************************************************************************)
EXTENDS Swarm

CONSTANT Cleaners   \* runs of swarm:cleanup

VARIABLES
  cpc,       \* cleaner -> where it is
  items,     \* candidates of the phase it has not tried yet
  netlist,   \* networks it has not tried yet
  quiet      \* history: nothing but cleaners changed items or
             \* specifications since it started

cleanupVars == <<cpc, items, netlist, quiet>>

CleanerPCs == {"idle", "secret", "config", "network", "prune", "done"}

CleanupTypeOK ==
  /\ cpc \in [Cleaners -> CleanerPCs]
  /\ items \in [Cleaners -> SUBSET Names]
  /\ netlist \in [Cleaners -> SUBSET Networks]
  /\ quiet \in [Cleaners -> BOOLEAN]

CleanupInit ==
  /\ cpc = [c \in Cleaners |-> "idle"]
  /\ items = [c \in Cleaners |-> {}]
  /\ netlist = [c \in Cleaners |-> {}]
  /\ quiet = [c \in Cleaners |-> FALSE]

\* VERSIONED_PATTERN: the sha part has exactly seven hex digits.
Versioned(n) == n.ver.sha \in ShortShas

Candidates(kind) == {n \in Names : Present(n) /\ n.base \in kind /\ Versioned(n)}

ListSecrets(c) ==
  /\ cpc[c] = "idle"
  /\ items' = [items EXCEPT ![c] = Candidates(Secrets)]
  /\ cpc' = [cpc EXCEPT ![c] = "secret"]
  /\ quiet' = [quiet EXCEPT ![c] = TRUE]
  /\ UNCHANGED <<netlist, swarmVars>>

\* As if the first refusal ended the phase.
TryRemoveItem_StopsAtRefusal(c) ==
  /\ cpc[c] \in {"secret", "config"}
  /\ \E n \in items[c] :
       /\ ItemRm(n)
       /\ items' = [items EXCEPT ![c] = IF InUse(n) THEN {} ELSE @ \ {n}]
  /\ UNCHANGED <<cpc, netlist, quiet, now, nets, live, prior, rollout, draining>>

\* One removal of the comprehension; a refusal only means "in use".
TryRemoveItem(c) ==
  /\ cpc[c] \in {"secret", "config"}
  /\ \E n \in items[c] : /\ ItemRm(n)
                         /\ items' = [items EXCEPT ![c] = @ \ {n}]
  /\ UNCHANGED <<cpc, netlist, quiet, now, nets, live, prior, rollout, draining>>

ListConfigs(c) ==
  /\ cpc[c] = "secret"
  /\ items[c] = {}
  /\ items' = [items EXCEPT ![c] = Candidates(Configs)]
  /\ cpc' = [cpc EXCEPT ![c] = "config"]
  /\ UNCHANGED <<netlist, quiet, swarmVars>>

\* ingress, the only system network, is not among the external ones.
ListNetworks(c) ==
  /\ cpc[c] = "config"
  /\ items[c] = {}
  /\ netlist' = [netlist EXCEPT ![c] = nets]
  /\ cpc' = [cpc EXCEPT ![c] = "network"]
  /\ UNCHANGED <<items, quiet, swarmVars>>

TryRemoveNetwork(c) ==
  /\ cpc[c] = "network"
  /\ \E net \in netlist[c] : /\ NetworkRm(net)
                             /\ netlist' = [netlist EXCEPT ![c] = @ \ {net}]
  /\ UNCHANGED <<cpc, items, quiet, now, store, live, prior, rollout, draining>>

\* The node list is read and every node pruned, in parallel; a node that
\* fails is only reported.
PruneNodes(c) ==
  /\ cpc[c] = "network"
  /\ netlist[c] = {}
  /\ cpc' = [cpc EXCEPT ![c] = "prune"]
  /\ UNCHANGED <<items, netlist, quiet, swarmVars>>

FinishCleanup(c) ==
  /\ cpc[c] = "prune"
  /\ cpc' = [cpc EXCEPT ![c] = "done"]
  /\ UNCHANGED <<items, netlist, quiet, swarmVars>>

\* A list call fails (its result is checked), or the run is killed.
AbortCleanup(c) ==
  /\ cpc[c] \in {"idle", "secret", "config", "network", "prune"}
  /\ cpc' = [cpc EXCEPT ![c] = "done"]
  /\ items' = [items EXCEPT ![c] = {}]
  /\ netlist' = [netlist EXCEPT ![c] = {}]
  /\ quiet' = [quiet EXCEPT ![c] = FALSE]
  /\ UNCHANGED swarmVars

CleanerStep(c) ==
  \/ ListSecrets(c) \/ TryRemoveItem(c) \/ ListConfigs(c)
  \/ ListNetworks(c) \/ TryRemoveNetwork(c)
  \/ PruneNodes(c) \/ FinishCleanup(c)

\* Any other step of the system: the cleaners of which it changes an item or
\* a specification are no longer undisturbed.
Disturb == quiet' = [c \in Cleaners |-> quiet[c] /\ store' = store /\ live' = live]
=============================================================================
