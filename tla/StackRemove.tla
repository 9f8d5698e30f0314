---------------------------- MODULE StackRemove ----------------------------
(***************************************************************************)
(* swarm/remove.py under the tasks swarm:remove and site:drain: for each   *)
(* stack in turn, check that it is deployed, remove it, and poll until     *)
(* docker stack ps fails or the deadline passes.                           *)
(***************************************************************************)
EXTENDS Swarm

CONSTANTS
  Removers,    \* runs of swarm:remove or site:drain
  RemovePlan,  \* remover -> the stacks it removes, in order
  PollFaults   \* whether docker stack ps may fail for other reasons

ASSUME RemoverAssumption ==
  /\ RemovePlan \in [Removers -> Seq(Stacks)]
  /\ PollFaults \in BOOLEAN

VARIABLES
  rpc,       \* remover -> where it is
  ridx,      \* position in RemovePlan[r]
  report     \* the last line it printed, as an outcome

removeVars == <<rpc, ridx, report>>

RemoverPCs == {"next", "rm", "drain", "done"}
Outcomes == {"none", "not deployed", "removed", "still draining", "failed"}

RemoveTypeOK ==
  /\ rpc \in [Removers -> RemoverPCs]
  /\ ridx \in [Removers -> Nat \ {0}]
  /\ report \in [Removers -> Outcomes]

RemoveInit ==
  /\ rpc = [r \in Removers |-> "next"]
  /\ ridx = [r \in Removers |-> 1]
  /\ report = [r \in Removers |-> "none"]

Target(r) == RemovePlan[r][ridx[r]]

\* As if a stack whose removal failed were tried again.
Report_Retries(r, outcome) ==
  /\ report' = [report EXCEPT ![r] = outcome]
  /\ ridx' = IF outcome = "failed" THEN ridx ELSE [ridx EXCEPT ![r] = @ + 1]
  /\ rpc' = [rpc EXCEPT ![r] = "next"]

\* remove_stack returns, and the loop of the task goes on in every case.
Report(r, outcome) ==
  /\ report' = [report EXCEPT ![r] = outcome]
  /\ ridx' = [ridx EXCEPT ![r] = @ + 1]
  /\ rpc' = [rpc EXCEPT ![r] = "next"]

\* docker stack ls lists stacks that have services.
CheckDeployed(r) ==
  /\ rpc[r] = "next"
  /\ ridx[r] \in DOMAIN RemovePlan[r]
  /\ \/ ~Deployed(Target(r)) /\ Report(r, "not deployed")
     \/ /\ Deployed(Target(r))
        /\ rpc' = [rpc EXCEPT ![r] = "rm"]
        /\ report' = [report EXCEPT ![r] = "none"]
        /\ UNCHANGED ridx
  /\ UNCHANGED swarmVars

\* The reference does not resolve, or a docker call raises.
RemoveFails(r) ==
  /\ rpc[r] \in {"next", "rm"}
  /\ ridx[r] \in DOMAIN RemovePlan[r]
  /\ Report(r, "failed")
  /\ UNCHANGED swarmVars

CallStackRm(r) ==
  /\ rpc[r] = "rm"
  /\ StackRm(Target(r))
  /\ rpc' = [rpc EXCEPT ![r] = "drain"]
  /\ UNCHANGED <<ridx, report, now, store, nets>>

\* docker stack ps exits with rc # 0.
PollFailed(s) == ~StackListed(s) \/ PollFaults

PollDrained(r) ==
  /\ rpc[r] = "drain"
  /\ PollFailed(Target(r))
  /\ Report(r, "removed")
  /\ UNCHANGED swarmVars

\* As if the wait had no deadline.
PollTimeout_Never(r) == rpc[r] = "drain" /\ FALSE /\ UNCHANGED <<removeVars, swarmVars>>

\* The deadline passed: a warning, and still exit code 0.
PollTimeout(r) ==
  /\ rpc[r] = "drain"
  /\ Report(r, "still draining")
  /\ UNCHANGED swarmVars

FinishRemove(r) ==
  /\ rpc[r] = "next"
  /\ ridx[r] \notin DOMAIN RemovePlan[r]
  /\ rpc' = [rpc EXCEPT ![r] = "done"]
  /\ UNCHANGED <<ridx, report, swarmVars>>

RemoverStep(r) ==
  \/ CheckDeployed(r) \/ RemoveFails(r) \/ CallStackRm(r)
  \/ PollDrained(r) \/ PollTimeout(r) \/ FinishRemove(r)
=============================================================================
