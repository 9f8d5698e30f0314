------------------------------ MODULE Validate ------------------------------
(***************************************************************************)
(* validate.py: the compose documents of some stacks are checked one after *)
(* the other; if all are well, the sources of their bind mounts are looked *)
(* for, on the node nodes.py resolves for each service, over one ssh       *)
(* connection per node (_ssh.py).  Meanwhile files come and go on the      *)
(* nodes, connections break and docker calls fail.                         *)
(***************************************************************************)
EXTENDS Naturals, Sequences, FiniteSets, SequencesExt

CONSTANTS
  Nodes,       \* swarm nodes in the order docker lists them: hostname, fields
  Paths,       \* every bind mount source, numbered in sorted order
  Stacks,      \* directories with a compose file
  Checkouts,   \* possible working copies: a document for each stack
  Requests,    \* what may be asked for: sequences of stacks
  Disks,       \* what may be on the nodes' disks at first
  Workers,     \* max_workers
  MaxChanges   \* bound: how many files come or go while nodes are looked at

Hosts == {n.hostname : n \in ToSet(Nodes)}
Unresolved == "UNRESOLVED"

\* What docker makes of a stack's compose file, or would, and what it mounts.
IsDocument(doc) ==
  /\ doc.renders \in BOOLEAN /\ doc.accepted \in BOOLEAN
  /\ \A s \in doc.services : s.binds \subseteq Paths

ASSUME ValidateAssumption ==
  /\ Nodes \in Seq(ToSet(Nodes)) /\ Unresolved \notin Hosts
  /\ Paths \subseteq Nat /\ IsFiniteSet(Paths)
  /\ \A c \in Checkouts : DOMAIN c = Stacks /\ \A f \in Stacks : IsDocument(c[f])
  /\ Requests \subseteq Seq(Stacks)
  /\ Disks \subseteq [Hosts -> SUBSET Paths]
  /\ Workers \in Nat \ {0} /\ MaxChanges \in Nat

VARIABLES
  run,      \* validate(): where it is, what it was asked, what it has collected
  jobs,     \* check_paths_on_node for each host
  disk,     \* which paths exist on each host
  changed,  \* history: hosts and paths that came or went during the run
  shifted   \* history: hosts where a path vanished between its test and its stat

validateVars == <<run, jobs, disk, changed, shifted>>

NoJob == [pc |-> "waiting", i |-> 1, lines |-> <<>>, broke |-> FALSE]

ValidateInit ==
  /\ run = [pc |-> "begin", files |-> <<>>, docs |-> <<>>, i |-> 1, failed |-> FALSE,
            json |-> <<>>, reports |-> <<>>, exit |-> "none"]
  /\ jobs = [h \in Hosts |-> NoJob]
  /\ disk = [h \in Hosts |-> {}]
  /\ changed = {} /\ shifted = {}

-----------------------------------------------------------------------------
(* nodes.py.  A constraint is glued if it is written without spaces.       *)

KnownFields == {"node.labels.type", "node.role", "node.hostname"}

ParseConstraints(constraints) == {c \in constraints : ~c.glued}

\* Only labels, role and hostname are looked up.
Actual(node, field) == IF field \in KnownFields THEN node.fields[field] ELSE ""

\* As if an exclusion were read as a requirement.
MatchConstraint_Equal(c, node) == Actual(node, c.field) = c.value

MatchConstraint(c, node) == (c.op = "==") = (Actual(node, c.field) = c.value)

\* The first node that satisfies all constraints.
FindMatchingNode(constraints) ==
  LET fitting == {k \in DOMAIN Nodes :
                    \A c \in ParseConstraints(constraints) : MatchConstraint(c, Nodes[k])}
  IN IF fitting = {} THEN Unresolved ELSE Nodes[Min(fitting)].hostname

-----------------------------------------------------------------------------
(* validate.py and secrets.py on one document.                             *)

\* mounted_secret_files: a secret is mounted under its target, or its own name.
MountedSecretFiles(doc) ==
  {IF e.target = "" THEN e.source ELSE e.target : e \in doc.secrets}

\* validate_config_files, then validate_secret_paths.
FilesAreThere(doc) == doc.configs \subseteq doc.onDisk /\ doc.mentions \subseteq MountedSecretFiles(doc)

\* collect_bind_mounts, of a file whose JSON was parsed.
NodePaths(f) ==
  IF run.json[f] # "parsed" THEN {}
  ELSE UNION {{FindMatchingNode(s.constraints)} \X s.binds : s \in run.docs[f].services}

AllNodePaths == UNION {NodePaths(f) : f \in ToSet(run.files)}

PathsOn(h) == {p \in Paths : <<h, p>> \in AllNodePaths}

\* The place of a path in the sorted list of those of a host.
Place(h, p) == Cardinality({q \in PathsOn(h) : q <= p})

\* The stack of the last file that has the path.
Owner(np) == run.files[Max({k \in DOMAIN run.files : np \in NodePaths(run.files[k])})]

-----------------------------------------------------------------------------
Exit(code) == run' = [run EXCEPT !.pc = "done", !.exit = code]

\* Stacks are resolved before anything is rendered.
BeginValidate ==
  /\ run.pc = "begin"
  /\ \E files \in Requests, docs \in Checkouts :
       run' = [run EXCEPT !.pc = "files", !.files = files, !.docs = docs,
                          !.json = [f \in DOMAIN docs |-> "none"]]
  /\ disk' \in Disks
  /\ UNCHANGED <<jobs, changed, shifted>>

UnresolvableStack ==
  /\ run.pc = "begin"
  /\ Exit("1")
  /\ UNCHANGED <<jobs, disk, changed, shifted>>

\* As if only the last file counted.
Failed_Last(before, now) == now

\* failed is never reset.
Failed(before, now) == before \/ now

\* A round of the loop over the files: rendered as YAML, put to docker stack config,
\* rendered as JSON, its files and secrets looked for.  Each docker call may fail; a
\* failure of the last leaves an empty document and no complaint.
CheckFile ==
  /\ run.pc = "files" /\ run.i <= Len(run.files)
  /\ \E answered \in SUBSET {"yaml", "stack", "json"} :
       LET f == run.files[run.i]
           doc == run.docs[f]
           valid == {"yaml", "stack"} \subseteq answered /\ doc.renders /\ doc.accepted
           parsed == valid /\ "json" \in answered
       IN run' = [run EXCEPT
            !.i = @ + 1,
            !.failed = Failed(@, ~valid \/ (parsed /\ ~FilesAreThere(doc))),
            !.json[f] = IF parsed THEN "parsed" ELSE IF valid THEN "empty" ELSE @]
  /\ UNCHANGED <<jobs, disk, changed, shifted>>

FilesFail ==
  /\ run.pc = "files" /\ run.i > Len(run.files) /\ run.failed
  /\ Exit("1")
  /\ UNCHANGED <<jobs, disk, changed, shifted>>

\* inspect_nodes, which may raise; then the paths of all stacks are collected.
InspectNodes ==
  /\ run.pc = "files" /\ run.i > Len(run.files) /\ ~run.failed
  /\ \/ run' = [run EXCEPT !.pc = "nodes", !.i = 1]
     \/ Exit("1")
  /\ UNCHANGED <<jobs, disk, changed, shifted>>

-----------------------------------------------------------------------------
(* parallel_run of check_paths_on_node.                                    *)

Running(h) == jobs[h].pc \in {"test", "stat"}
NextPath(h) == CHOOSE p \in PathsOn(h) : Place(h, p) = jobs[h].i

\* As if every host had a worker.
TakeHost_AtOnce(h) ==
  /\ run.pc = "nodes" /\ jobs[h].pc = "waiting" /\ PathsOn(h) # {}
  /\ jobs' = [jobs EXCEPT ![h].pc = "test"]
  /\ UNCHANGED <<run, disk, changed, shifted>>

\* A worker takes a host; the queue is in the order of the files, here in any order.
TakeHost(h) ==
  /\ run.pc = "nodes" /\ jobs[h].pc = "waiting" /\ PathsOn(h) # {}
  /\ Cardinality({g \in Hosts : Running(g)}) < Workers
  /\ jobs' = [jobs EXCEPT ![h].pc = "test"]
  /\ UNCHANGED <<run, disk, changed, shifted>>

\* The job after a path whose test or stat printed some lines.
AfterPath(h, printed) ==
  [jobs[h] EXCEPT !.i = @ + 1, !.lines = @ \o printed,
                  !.pc = IF jobs[h].i = Cardinality(PathsOn(h)) THEN "done" ELSE "test"]

\* As if a missing path printed nothing.
TestPath_Silent(h) ==
  /\ jobs[h].pc = "test"
  /\ jobs' = [jobs EXCEPT ![h] = IF NextPath(h) \in disk[h]
                                 THEN [@ EXCEPT !.pc = "stat"]
                                 ELSE AfterPath(h, <<>>)]
  /\ UNCHANGED <<run, disk, changed, shifted>>

\* [ -e path ], with MISSING for one that is not there.
TestPath(h) ==
  /\ jobs[h].pc = "test"
  /\ jobs' = [jobs EXCEPT ![h] = IF NextPath(h) \in disk[h]
                                 THEN [@ EXCEPT !.pc = "stat"]
                                 ELSE AfterPath(h, <<"missing">>)]
  /\ UNCHANGED <<run, disk, changed, shifted>>

\* stat prints nothing to stdout if the path is gone by now.
StatPath(h) ==
  /\ jobs[h].pc = "stat"
  /\ IF NextPath(h) \in disk[h]
     THEN jobs' = [jobs EXCEPT ![h] = AfterPath(h, <<"ok">>)] /\ UNCHANGED shifted
     ELSE jobs' = [jobs EXCEPT ![h] = AfterPath(h, <<>>)] /\ shifted' = shifted \cup {h}
  /\ UNCHANGED <<run, disk, changed>>

\* The connection is refused or lost; what has been printed is kept.
Break(h) ==
  /\ Running(h)
  /\ jobs' = [jobs EXCEPT ![h].pc = "done", ![h].broke = TRUE]
  /\ UNCHANGED <<run, disk, changed, shifted>>

\* A file comes or goes on a node.
DiskChanges(h) ==
  /\ run.pc = "nodes" /\ Cardinality(changed) < MaxChanges
  /\ \E p \in Paths :
       /\ disk' = [disk EXCEPT ![h] = IF p \in @ THEN @ \ {p} ELSE @ \cup {p}]
       /\ changed' = changed \cup {<<h, p>>}
  /\ UNCHANGED <<run, jobs, shifted>>

-----------------------------------------------------------------------------
\* Lines are matched to paths by position; the tail is unreachable, and so is
\* everything on a node that was not resolved.
Status(n, p) ==
  IF n = Unresolved \/ Place(n, p) > Len(jobs[n].lines) THEN "unreachable"
  ELSE jobs[n].lines[Place(n, p)]

AllDone == \A h \in Hosts : PathsOn(h) = {} \/ jobs[h].pc = "done"
Displayed == UNION ToSet(run.reports)

\* What a file has to report: the results, on its nodes, of the paths it owns.
Owned(f) ==
  {[stack |-> f, node |-> np[1], path |-> np[2], status |-> Status(np[1], np[2])] :
     np \in {x \in AllNodePaths : x[1] \in {y[1] : y \in NodePaths(f)} /\ Owner(x) = f}}

\* As if lines already displayed were displayed again.
FileReport_Again(f) == Owned(f)

\* The lines of one round of the display loop.
FileReport(f) == Owned(f) \ Displayed

ReportFile ==
  /\ run.pc = "nodes" /\ AllDone /\ run.i <= Len(run.files)
  /\ run' = [run EXCEPT !.reports = Append(@, FileReport(run.files[run.i])), !.i = @ + 1]
  /\ UNCHANGED <<jobs, disk, changed, shifted>>

\* Missing paths are warnings.
EndValidate ==
  /\ run.pc = "nodes" /\ AllDone /\ run.i > Len(run.files)
  /\ Exit("0")
  /\ UNCHANGED <<jobs, disk, changed, shifted>>

ValidateNext ==
  \/ BeginValidate \/ UnresolvableStack \/ CheckFile \/ FilesFail \/ InspectNodes
  \/ \E h \in Hosts : TakeHost(h) \/ TestPath(h) \/ StatPath(h) \/ Break(h) \/ DiskChanges(h)
  \/ ReportFile \/ EndValidate

ValidateSpec == ValidateInit /\ [][ValidateNext]_validateVars

-----------------------------------------------------------------------------
ValidateTypeOK ==
  /\ run.pc \in {"begin", "files", "nodes", "done"} /\ run.exit \in {"none", "0", "1"}
  /\ run.failed \in BOOLEAN /\ run.i \in 1 .. Len(run.files) + 1
  /\ jobs \in [Hosts -> [pc : {"waiting", "test", "stat", "done"}, i : 1 .. Cardinality(Paths) + 1,
                         lines : SeqOf({"ok", "missing"}, Cardinality(Paths)), broke : BOOLEAN]]
  /\ Cardinality({h \in Hosts : Running(h)}) <= Workers
  /\ disk \in [Hosts -> SUBSET Paths]
  /\ changed \subseteq Hosts \X Paths /\ shifted \subseteq Hosts

Passed == run.exit = "0"

\* A run that ends well has reported each bind mount of each document it parsed
\* exactly once, under a stack that has it, also if a stack was asked for twice, two
\* stacks mount one path of one node, or a connection broke ("rather than silently
\* dropped", validate.py:123-129).
EveryPathIsReported ==
  Passed =>
    \A np \in AllNodePaths :
      /\ Cardinality({k \in DOMAIN run.reports :
                        \E l \in run.reports[k] : <<l.node, l.path>> = np}) = 1
      /\ Cardinality({l \in Displayed : <<l.node, l.path>> = np}) = 1
      /\ \A l \in Displayed : <<l.node, l.path>> = np => np \in NodePaths(l.stack)

\* What is reported of a path is so on its node, and is reported unreachable only if
\* it is; except for a path that came or went meanwhile, and for all paths of a node
\* on which one vanished between its test and its stat, which shifts the lines.
VerdictsAreTrue ==
  \A l \in Displayed :
    IF l.node = Unresolved THEN l.status = "unreachable"
    ELSE \/ l.node \in shifted \/ <<l.node, l.path>> \in changed
         \/ l.status = "ok" /\ l.path \in disk[l.node]
         \/ l.status = "missing" /\ l.path \notin disk[l.node]
         \/ l.status = "unreachable" /\ jobs[l.node].broke

\* A run that ends well has rendered every document and found every config file and
\* every mentioned secret, in whatever order stacks were asked for and fail, except
\* of a document that docker would not render a second time, as JSON.
ChecksAreNotSkipped ==
  Passed =>
    \A f \in ToSet(run.files) :
      /\ run.docs[f].renders /\ run.docs[f].accepted
      /\ run.json[f] = "parsed" => FilesAreThere(run.docs[f])

\* The node a service's paths are looked for on is one Swarm may place it on, and a
\* service is unresolved only if Swarm cannot place it, except for constraints written
\* without spaces, which are ignored, and on fields nodes.py does not know.
Understood(constraints) == \A c \in constraints : ~c.glued /\ c.field \in KnownFields
MayRun(node, constraints) ==
  \A c \in constraints : (c.op = "==") = (node.fields[c.field] = c.value)
PathsAreCheckedWhereServicesRun ==
  \A f \in DOMAIN run.docs : \A s \in run.docs[f].services :
    Understood(s.constraints) =>
      LET candidates == {n \in ToSet(Nodes) : MayRun(n, s.constraints)}
          node == FindMatchingNode(s.constraints)
      IN IF candidates = {} THEN node = Unresolved
         ELSE node \in {n.hostname : n \in candidates}
=============================================================================
