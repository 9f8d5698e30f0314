--------------------------- MODULE ValidateProofs ---------------------------
(***************************************************************************)
(* What a validation promises, for any nodes, stacks, paths and workers.   *)
(* The invariant follows the run: the documents checked so far, the lines  *)
(* each host has printed so far, the reports displayed so far.             *)
(***************************************************************************)
EXTENDS Validate, FiniteSetTheorems, WellFoundedInduction, TLAPS

-----------------------------------------------------------------------------
(* Numbers and sequences.                                                  *)

\* A nonempty set of naturals has a least element.
LEMMA MinIsLeast ==
  ASSUME NEW S \in SUBSET Nat, S # {}
  PROVE  Min(S) \in S /\ \A y \in S : Min(S) <= y
<1> DEFINE Less == {ss \in Nat \X Nat : ss[1] < ss[2]}
<1>1. OpToRel(<, Nat) = Less
  BY Zenon DEF OpToRel
<1>2. IsWellFoundedOn(Less, Nat)
  BY <1>1, NatLessThanWellFounded, Zenon
<1> HIDE DEF Less
<1>3. PICK x \in S : \A y \in S : <<y, x>> \notin Less
  BY <1>2, WFMin
<1>4. ASSUME NEW y \in S PROVE x <= y
  <2>1. x \in Nat /\ y \in Nat
    OBVIOUS
  <2>2. y < x => <<y, x>> \in Less
    BY <2>1 DEF Less
  <2> QED BY <1>3, <2>1, <2>2
<1> QED BY <1>4 DEF Min

\* A nonempty set of naturals that has a bound has a greatest element.
LEMMA MaxIsGreatest ==
  ASSUME NEW n \in Nat, NEW S \in SUBSET 1..n, S # {}
  PROVE  Max(S) \in S /\ \A y \in S : Max(S) >= y
<1> DEFINE T == {n - x : x \in S}
<1>0. \A x \in S : x \in 1..n
  OBVIOUS
<1>1. T \in SUBSET Nat /\ T # {}
  <2>1. \A x \in S : n - x \in Nat
    BY <1>0
  <2> QED BY <2>1
<1>2. PICK x \in S : Min(T) = n - x
  BY <1>1, MinIsLeast
<1>3. \A y \in S : n - x <= n - y
  BY <1>1, <1>2, MinIsLeast
<1>4. \A y \in S : x >= y
  BY <1>3
<1> QED BY <1>4 DEF Max

\* What SeqOf is.
LEMMA SeqOfIsSeq ==
  ASSUME NEW S, NEW n \in Nat
  PROVE  \A s : s \in SeqOf(S, n) <=> s \in Seq(S) /\ Len(s) <= n
<1>1. ASSUME NEW s, s \in SeqOf(S, n)
      PROVE  s \in Seq(S) /\ Len(s) <= n
  BY <1>1 DEF SeqOf
<1>2. ASSUME NEW s, s \in Seq(S), Len(s) <= n
      PROVE  s \in SeqOf(S, n)
  <2>1. s \in [1..Len(s) -> S] /\ Len(s) \in 0..n
    BY <1>2
  <2> QED BY <2>1 DEF SeqOf
<1> QED BY <1>1, <1>2

\* What a sequence becomes with another behind it.
LEMMA Extended ==
  ASSUME NEW S, NEW s \in Seq(S), NEW t \in Seq(S)
  PROVE  /\ s \o t \in Seq(S) /\ Len(s \o t) = Len(s) + Len(t)
         /\ Len(s) \in Nat /\ Len(t) \in Nat
         /\ \A k \in 1..Len(s) : (s \o t)[k] = s[k]
         /\ Len(t) = 1 => (s \o t)[Len(s) + 1] = t[1]
OBVIOUS

-----------------------------------------------------------------------------
(* nodes.py.                                                               *)

\* The numbers of the nodes that fit.
Fitting(constraints) ==
  {k \in DOMAIN Nodes :
     \A c \in ParseConstraints(constraints) : MatchConstraint(c, Nodes[k])}

\* The first of the nodes that fit, if any does.
LEMMA FoundFits ==
  ASSUME NEW constraints
  PROVE  \/ Fitting(constraints) = {} /\ FindMatchingNode(constraints) = Unresolved
         \/ \E k \in Fitting(constraints) : FindMatchingNode(constraints) = Nodes[k].hostname
<1>1. Fitting(constraints) \in SUBSET Nat
  BY ValidateAssumption DEF Fitting
<1>2. CASE Fitting(constraints) = {}
  BY <1>2 DEF FindMatchingNode, Fitting
<1>3. CASE Fitting(constraints) # {}
  <2>1. Min(Fitting(constraints)) \in Fitting(constraints)
    BY <1>1, <1>3, MinIsLeast
  <2>2. FindMatchingNode(constraints) = Nodes[Min(Fitting(constraints))].hostname
    BY <1>3 DEF FindMatchingNode, Fitting
  <2> QED BY <2>1, <2>2
<1> QED BY <1>2, <1>3

\* Nodes are looked for on hosts, or not at all.
Places == Hosts \cup {Unresolved}

LEMMA FoundIsPlace == \A constraints : FindMatchingNode(constraints) \in Places
<1> SUFFICES ASSUME NEW constraints PROVE FindMatchingNode(constraints) \in Places
  OBVIOUS
<1>1. \A k \in Fitting(constraints) : Nodes[k].hostname \in Hosts
  BY DEF Fitting, Hosts, ToSet
<1> QED BY <1>1, FoundFits DEF Places

\* Swarm may place a service on the node found for it, and on none if none is found.
LEMMA FoundMayRun ==
  ASSUME NEW constraints, Understood(constraints)
  PROVE  LET candidates == {n \in ToSet(Nodes) : MayRun(n, constraints)}
             node == FindMatchingNode(constraints)
         IN IF candidates = {} THEN node = Unresolved
            ELSE node \in {n.hostname : n \in candidates}
<1> DEFINE candidates == {n \in ToSet(Nodes) : MayRun(n, constraints)}
<1>1. ParseConstraints(constraints) = constraints
  BY DEF Understood, ParseConstraints
<1>2. \A k \in DOMAIN Nodes, c \in constraints :
        MatchConstraint(c, Nodes[k]) <=> (c.op = "==") = (Nodes[k].fields[c.field] = c.value)
  BY DEF Understood, MatchConstraint, Actual
<1>3. \A k \in DOMAIN Nodes : k \in Fitting(constraints) <=> MayRun(Nodes[k], constraints)
  BY <1>1, <1>2 DEF Fitting, MayRun
<1>4. \A k \in Fitting(constraints) : Nodes[k] \in candidates
  BY <1>3 DEF Fitting, ToSet
<1>5. Fitting(constraints) = {} => candidates = {}
  BY <1>3 DEF ToSet
<1>6. CASE Fitting(constraints) = {}
  BY <1>5, <1>6, FoundFits
<1>7. CASE \E k \in Fitting(constraints) : FindMatchingNode(constraints) = Nodes[k].hostname
  BY <1>4, <1>7
<1> QED BY <1>6, <1>7, FoundFits

\* A bind mount is looked for on a node that Swarm may run the service on, whatever
\* the document, and not looked for only if there is none (nodes.py:117-124).
THEOREM PathsAreWhereServicesRun == ValidateSpec => []PathsAreCheckedWhereServicesRun
<1>1. PathsAreCheckedWhereServicesRun
  BY FoundMayRun DEF PathsAreCheckedWhereServicesRun
<1> QED BY <1>1, PTL

-----------------------------------------------------------------------------
(* The invariant.                                                          *)

Lines == [stack : Stacks, node : Places, path : Paths,
          status : {"ok", "missing", "unreachable"}]

\* The documents are parsed for good, and what is mounted where stands fixed.
Fixed == run.pc = "nodes" \/ Passed

Begun == run.pc = "files" \/ Fixed

RunShape ==
  /\ run = [pc |-> run.pc, files |-> run.files, docs |-> run.docs, i |-> run.i,
            failed |-> run.failed, json |-> run.json, reports |-> run.reports,
            exit |-> run.exit]
  /\ run.files \in Seq(Stacks) /\ run.reports \in Seq(SUBSET Lines)
  /\ run.exit # "none" => run.pc = "done"
  /\ run.pc = "begin" => run.i = 1
  /\ Begun => run.docs \in Checkouts /\ run.json \in [Stacks -> {"none", "parsed", "empty"}]

\* Nothing is held against a document behind the loop, unless the run has failed.
IsChecked(f) ==
  /\ run.docs[f].renders /\ run.docs[f].accepted
  /\ run.json[f] = "parsed" => FilesAreThere(run.docs[f])

DocsChecked ==
  /\ Fixed => ~run.failed
  /\ Begun /\ ~run.failed =>
       \A k \in DOMAIN run.files : Fixed \/ k < run.i => IsChecked(run.files[k])

\* The lines a host has printed answer its first paths, as far as its disk stood still.
LinesTrue(h) ==
  \A p \in PathsOn(h) :
    Place(h, p) <= Len(jobs[h].lines) /\ <<h, p>> \notin changed =>
      (jobs[h].lines[Place(h, p)] = "ok" <=> p \in disk[h])

\* A host has a line for each path behind it, and in the end for each, unless the
\* connection broke or lines were shifted.
JobFollows(h) ==
  /\ jobs[h].pc = "waiting" => jobs[h] = NoJob
  /\ jobs[h].pc # "waiting" => Fixed /\ PathsOn(h) # {}
  /\ Running(h) => jobs[h].i <= Cardinality(PathsOn(h))
  /\ Len(jobs[h].lines) < jobs[h].i
  /\ h \notin shifted =>
       /\ Running(h) => Len(jobs[h].lines) = jobs[h].i - 1
       /\ jobs[h].pc = "done" /\ ~jobs[h].broke =>
            Len(jobs[h].lines) = Cardinality(PathsOn(h))
       /\ LinesTrue(h)

\* What is displayed is what the files behind the loop own, each line once; nothing is
\* displayed before all hosts are done.
ReportsFollow ==
  /\ run.reports # <<>> => Fixed /\ AllDone
  /\ Passed => AllDone /\ run.i = Len(run.files) + 1
  /\ Fixed => /\ Len(run.reports) = run.i - 1
              /\ Displayed = UNION {Owned(run.files[k]) : k \in 1 .. run.i - 1}
  /\ \A k, l \in DOMAIN run.reports : k # l => run.reports[k] \cap run.reports[l] = {}

ValidateInv ==
  ValidateTypeOK /\ RunShape /\ DocsChecked /\ (\A h \in Hosts : JobFollows(h)) /\ ReportsFollow

-----------------------------------------------------------------------------
(* Which paths there are, where, and whose.                                *)

\* Bind mounts are pairs of a place and a path.
LEMMA NodePathsType ==
  ASSUME RunShape, Begun, NEW f \in Stacks
  PROVE  NodePaths(f) \subseteq Places \X Paths
<1>1. run.docs \in Checkouts
  BY DEF RunShape
<1>2. \A s \in run.docs[f].services : s.binds \subseteq Paths
  BY <1>1, ValidateAssumption DEF IsDocument
<1>3. ASSUME NEW s \in run.docs[f].services
      PROVE  {FindMatchingNode(s.constraints)} \X s.binds \subseteq Places \X Paths
  <2>1. FindMatchingNode(s.constraints) \in Places
    BY FoundIsPlace
  <2> QED BY <1>2, <2>1
<1>4. CASE run.json[f] # "parsed"
  BY <1>4 DEF NodePaths
<1>5. CASE run.json[f] = "parsed"
  <2> DEFINE S(s) == {FindMatchingNode(s.constraints)} \X s.binds
  <2>1. NodePaths(f) = UNION {S(s) : s \in run.docs[f].services}
    BY <1>5 DEF NodePaths
  <2>2. \A s \in run.docs[f].services : S(s) \subseteq Places \X Paths
    BY <1>3
  <2> HIDE DEF S
  <2> QED BY <2>1, <2>2
<1> QED BY <1>4, <1>5

\* Every bind mount is of a file.
LEMMA MountHasFile ==
  ASSUME RunShape
  PROVE  \A np : np \in AllNodePaths <=> \E k \in DOMAIN run.files : np \in NodePaths(run.files[k])
BY DEF AllNodePaths, ToSet

\* The owner of a bind mount is a stack that has it.
LEMMA OwnerHasIt ==
  ASSUME RunShape, NEW np \in AllNodePaths
  PROVE  \E k \in DOMAIN run.files : Owner(np) = run.files[k] /\ np \in NodePaths(run.files[k])
<1> DEFINE S == {k \in DOMAIN run.files : np \in NodePaths(run.files[k])}
<1>1. S # {}
  BY MountHasFile
<1>2. Len(run.files) \in Nat /\ DOMAIN run.files = 1..Len(run.files)
  BY DEF RunShape
<1>3. S \in SUBSET 1..Len(run.files)
  BY <1>2
<1>4. Max(S) \in S
  BY <1>1, <1>2, <1>3, MaxIsGreatest
<1>5. Owner(np) = run.files[Max(S)]
  BY DEF Owner
<1> HIDE DEF S
<1>6. S \subseteq DOMAIN run.files /\ \A k \in S : np \in NodePaths(run.files[k])
  BY DEF S
<1> QED BY <1>4, <1>5, <1>6

\* The paths of a host are finitely many.
LEMMA PathsFinite ==
  ASSUME NEW h
  PROVE  /\ IsFiniteSet(PathsOn(h)) /\ Cardinality(PathsOn(h)) \in Nat
         /\ Cardinality(PathsOn(h)) <= Cardinality(Paths) /\ Cardinality(Paths) \in Nat
<1>1. PathsOn(h) \in SUBSET Paths
  BY DEF PathsOn
<1>2. IsFiniteSet(Paths)
  BY ValidateAssumption
<1>3. IsFiniteSet(PathsOn(h)) /\ Cardinality(PathsOn(h)) <= Cardinality(Paths)
  BY <1>1, <1>2, FS_Subset
<1> QED BY <1>2, <1>3, FS_CardinalityType

\* The place of a path is a line of the answer.
LEMMA PlaceInBounds ==
  ASSUME NEW h, NEW p \in PathsOn(h)
  PROVE  Place(h, p) \in 1..Cardinality(PathsOn(h))
<1> DEFINE Upto == {q \in PathsOn(h) : q <= p}
<1>1. Upto \in SUBSET PathsOn(h)
  OBVIOUS
<1>2. IsFiniteSet(Upto) /\ Cardinality(Upto) <= Cardinality(PathsOn(h))
  BY <1>1, PathsFinite, FS_Subset
<1>3. p \in Nat
  BY ValidateAssumption DEF PathsOn
<1>4. p \in Upto
  BY <1>3
<1>5. Cardinality(Upto) \in Nat /\ Cardinality(Upto) # 0
  BY <1>2, <1>4, FS_CardinalityType, FS_EmptySet
<1> QED BY <1>2, <1>5, PathsFinite DEF Place

\* No two paths of a host have the same place.
LEMMA PlaceIsInjective ==
  ASSUME NEW h, NEW p \in PathsOn(h), NEW q \in PathsOn(h), Place(h, p) = Place(h, q)
  PROVE  p = q
<1> DEFINE Upto(x) == {y \in PathsOn(h) : y <= x}
<1>0. \A x \in PathsOn(h) : x \in Nat
  BY ValidateAssumption DEF PathsOn
<1>1. ASSUME NEW a \in PathsOn(h), NEW b \in PathsOn(h), a < b
      PROVE  Place(h, a) # Place(h, b)
  <2>1. Upto(a) \in SUBSET Upto(b) /\ b \in Upto(b) /\ b \notin Upto(a)
    BY <1>0, <1>1
  <2>2. IsFiniteSet(Upto(b))
    BY PathsFinite, FS_Subset
  <2>3. Cardinality(Upto(b)) = Cardinality(Upto(a)) => Upto(b) = Upto(a)
    BY <2>1, <2>2, FS_Subset
  <2> QED BY <2>1, <2>3 DEF Place
<1>2. CASE p < q
  BY <1>1, <1>2
<1>3. CASE q < p
  BY <1>1, <1>3
<1> QED BY <1>0, <1>2, <1>3

\* The path in hand is the one whose place is due.
LEMMA NextIsDue ==
  ASSUME NEW h, NEW p \in PathsOn(h), Place(h, p) = jobs[h].i
  PROVE  NextPath(h) = p
<1>1. NextPath(h) \in PathsOn(h) /\ Place(h, NextPath(h)) = jobs[h].i
  BY DEF NextPath
<1> QED BY <1>1, PlaceIsInjective

\* What is mounted where stands fixed as long as the documents do.
LEMMA MountsStay ==
  ASSUME run'.files = run.files, run'.docs = run.docs, run'.json = run.json
  PROVE  /\ \A f : NodePaths(f)' = NodePaths(f)
         /\ AllNodePaths' = AllNodePaths
         /\ \A h : PathsOn(h)' = PathsOn(h)
         /\ \A h, p : Place(h, p)' = Place(h, p)
         /\ \A np : Owner(np)' = Owner(np)
<1>1. \A f : NodePaths(f)' = NodePaths(f)
  BY DEF NodePaths
<1>2. AllNodePaths' = AllNodePaths
  BY <1>1 DEF AllNodePaths
<1>3. \A h : PathsOn(h)' = PathsOn(h)
  BY <1>2 DEF PathsOn
<1>4. \A h, p : Place(h, p)' = Place(h, p)
  BY <1>3 DEF Place
<1>5. \A np : Owner(np)' = Owner(np)
  BY <1>1 DEF Owner
<1> QED BY <1>1, <1>2, <1>3, <1>4, <1>5

\* The same facts in a form that holds of any state, the next one included.
LEMMA PlacesBounded == \A h : \A p \in PathsOn(h) : Place(h, p) \in 1..Cardinality(PathsOn(h))
BY PlaceInBounds

LEMMA PathCounts ==
  \A h : Cardinality(PathsOn(h)) \in Nat /\ Cardinality(PathsOn(h)) <= Cardinality(Paths)
BY PathsFinite

-----------------------------------------------------------------------------
(* What the actions do to the record of the run.                           *)

LEMMA ExitFields ==
  ASSUME RunShape, NEW code, Exit(code)
  PROVE  run' = [pc |-> "done", files |-> run.files, docs |-> run.docs, i |-> run.i,
                 failed |-> run.failed, json |-> run.json, reports |-> run.reports, exit |-> code]
<1> DEFINE r == [pc |-> run.pc, files |-> run.files, docs |-> run.docs, i |-> run.i,
                 failed |-> run.failed, json |-> run.json, reports |-> run.reports,
                 exit |-> run.exit]
<1>1. run = r
  BY DEF RunShape
<1>2. run' = [r EXCEPT !.pc = "done", !.exit = code]
  BY <1>1 DEF Exit
<1> QED BY <1>2

LEMMA BeginFields ==
  ASSUME RunShape, NEW fs, NEW ds, NEW js,
         run' = [run EXCEPT !.pc = "files", !.files = fs, !.docs = ds, !.json = js]
  PROVE  run' = [pc |-> "files", files |-> fs, docs |-> ds, i |-> run.i,
                 failed |-> run.failed, json |-> js, reports |-> run.reports, exit |-> run.exit]
<1> DEFINE r == [pc |-> run.pc, files |-> run.files, docs |-> run.docs, i |-> run.i,
                 failed |-> run.failed, json |-> run.json, reports |-> run.reports,
                 exit |-> run.exit]
<1>1. run = r
  BY DEF RunShape
<1>2. run' = [r EXCEPT !.pc = "files", !.files = fs, !.docs = ds, !.json = js]
  BY <1>1
<1> QED BY <1>2

LEMMA NodesFields ==
  ASSUME RunShape, run' = [run EXCEPT !.pc = "nodes", !.i = 1]
  PROVE  run' = [pc |-> "nodes", files |-> run.files, docs |-> run.docs, i |-> 1,
                 failed |-> run.failed, json |-> run.json, reports |-> run.reports,
                 exit |-> run.exit]
<1> DEFINE r == [pc |-> run.pc, files |-> run.files, docs |-> run.docs, i |-> run.i,
                 failed |-> run.failed, json |-> run.json, reports |-> run.reports,
                 exit |-> run.exit]
<1>1. run = r
  BY DEF RunShape
<1>2. run' = [r EXCEPT !.pc = "nodes", !.i = 1]
  BY <1>1
<1> QED BY <1>2

LEMMA ReportFields ==
  ASSUME RunShape, ReportFile
  PROVE  run' = [pc |-> run.pc, files |-> run.files, docs |-> run.docs, i |-> run.i + 1,
                 failed |-> run.failed, json |-> run.json,
                 reports |-> Append(run.reports, FileReport(run.files[run.i])), exit |-> run.exit]
<1> DEFINE r == [pc |-> run.pc, files |-> run.files, docs |-> run.docs, i |-> run.i,
                 failed |-> run.failed, json |-> run.json, reports |-> run.reports,
                 exit |-> run.exit]
<1>1. run = r
  BY DEF RunShape
<1> DEFINE rep == FileReport(run.files[run.i])
<1>2. run' = [run EXCEPT !.reports = Append(@, rep), !.i = @ + 1]
  BY DEF ReportFile
<1> HIDE DEF rep
<1>3. run' = [r EXCEPT !.reports = Append(@, rep), !.i = @ + 1]
  BY <1>1, <1>2
<1>4. run' = [pc |-> run.pc, files |-> run.files, docs |-> run.docs, i |-> run.i + 1,
              failed |-> run.failed, json |-> run.json,
              reports |-> Append(run.reports, rep), exit |-> run.exit]
  BY <1>3
<1> QED BY <1>4 DEF rep

\* A round of the loop over the files: a document passes, or the run has failed.
LEMMA CheckFields ==
  ASSUME RunShape, CheckFile
  PROVE  \E valid \in BOOLEAN, parsed \in BOOLEAN :
           LET f == run.files[run.i]
               doc == run.docs[f]
               bad == ~valid \/ (parsed /\ ~FilesAreThere(doc))
           IN /\ parsed => valid
              /\ valid => doc.renders /\ doc.accepted
              /\ run' = [pc |-> run.pc, files |-> run.files, docs |-> run.docs, i |-> run.i + 1,
                         failed |-> run.failed \/ bad,
                         json |-> [run.json EXCEPT ![f] =
                                     IF parsed THEN "parsed" ELSE IF valid THEN "empty" ELSE @],
                         reports |-> run.reports, exit |-> run.exit]
<1> DEFINE r == [pc |-> run.pc, files |-> run.files, docs |-> run.docs, i |-> run.i,
                 failed |-> run.failed, json |-> run.json, reports |-> run.reports,
                 exit |-> run.exit]
<1>1. run = r
  BY DEF RunShape
<1> DEFINE f == run.files[run.i]
           doc == run.docs[f]
<1>2. PICK answered \in SUBSET {"yaml", "stack", "json"} :
        LET valid == {"yaml", "stack"} \subseteq answered /\ doc.renders /\ doc.accepted
            parsed == valid /\ "json" \in answered
        IN run' = [run EXCEPT
             !.i = @ + 1,
             !.failed = Failed(@, ~valid \/ (parsed /\ ~FilesAreThere(doc))),
             !.json[f] = IF parsed THEN "parsed" ELSE IF valid THEN "empty" ELSE @]
  BY DEF CheckFile
<1> DEFINE valid == {"yaml", "stack"} \subseteq answered /\ doc.renders /\ doc.accepted
           parsed == valid /\ "json" \in answered
           bad == ~valid \/ (parsed /\ ~FilesAreThere(doc))
           tag == IF parsed THEN "parsed" ELSE IF valid THEN "empty" ELSE run.json[f]
<1>3. run' = [run EXCEPT !.i = run.i + 1, !.failed = run.failed \/ bad,
                         !.json = [run.json EXCEPT ![f] = tag]]
  BY <1>2 DEF Failed
<1>4. valid \in BOOLEAN /\ parsed \in BOOLEAN /\ (parsed => valid) /\ (valid => doc.renders /\ doc.accepted)
  OBVIOUS
<1> HIDE DEF valid, parsed
<1>5. run' = [r EXCEPT !.i = run.i + 1, !.failed = run.failed \/ bad,
                       !.json = [run.json EXCEPT ![f] = tag]]
  BY <1>1, <1>3
<1> HIDE DEF bad, tag, f
<1>6. run' = [pc |-> run.pc, files |-> run.files, docs |-> run.docs, i |-> run.i + 1,
              failed |-> run.failed \/ bad, json |-> [run.json EXCEPT ![f] = tag],
              reports |-> run.reports, exit |-> run.exit]
  BY <1>5
<1> QED BY <1>4, <1>6 DEF bad, tag, f

-----------------------------------------------------------------------------
(* The invariant holds at first and while the documents are checked.       *)

JobStates == [pc : {"waiting", "test", "stat", "done"}, i : 1 .. Cardinality(Paths) + 1,
              lines : SeqOf({"ok", "missing"}, Cardinality(Paths)), broke : BOOLEAN]

\* A host nobody has asked yet has answered nothing.
LEMMA FreshFollows == \A h \in Hosts : jobs[h] = NoJob => JobFollows(h)
<1> SUFFICES ASSUME NEW h \in Hosts, jobs[h] = NoJob PROVE JobFollows(h)
  OBVIOUS
<1>1. jobs[h].pc = "waiting" /\ jobs[h].i = 1 /\ jobs[h].lines = <<>>
  BY DEF NoJob
<1>2. Len(jobs[h].lines) = 0
  BY <1>1
<1>3. LinesTrue(h)
  BY <1>2, PlacesBounded, PathCounts DEF LinesTrue
<1> QED BY <1>1, <1>2, <1>3 DEF JobFollows, Running

LEMMA NoJobType == NoJob \in JobStates
<1>1. <<>> \in SeqOf({"ok", "missing"}, Cardinality(Paths))
  <2>1. Cardinality(Paths) \in Nat
    BY PathsFinite
  <2>2. <<>> \in Seq({"ok", "missing"}) /\ Len(<<>>) <= Cardinality(Paths)
    BY <2>1
  <2> QED BY <2>1, <2>2, SeqOfIsSeq
<1>2. 1 \in 1 .. Cardinality(Paths) + 1
  BY PathsFinite
<1> QED BY <1>1, <1>2 DEF NoJob, JobStates

\* Without a job nobody works.
LEMMA IdleWorkers ==
  (\A h \in Hosts : jobs[h] = NoJob) => Cardinality({h \in Hosts : Running(h)}) <= Workers
<1> SUFFICES ASSUME \A h \in Hosts : jobs[h] = NoJob
             PROVE  Cardinality({h \in Hosts : Running(h)}) <= Workers
  OBVIOUS
<1>1. {h \in Hosts : Running(h)} = {}
  BY DEF Running, NoJob
<1> QED BY <1>1, FS_EmptySet, ValidateAssumption

LEMMA ValidateInitInv == ValidateInit => ValidateInv
<1> SUFFICES ASSUME ValidateInit PROVE ValidateInv
  OBVIOUS
<1>1. run = [pc |-> "begin", files |-> <<>>, docs |-> <<>>, i |-> 1, failed |-> FALSE,
             json |-> <<>>, reports |-> <<>>, exit |-> "none"]
  BY DEF ValidateInit
<1>2. ~Fixed /\ ~Begun /\ ~Passed
  BY <1>1 DEF Fixed, Begun, Passed
<1>3. \A h \in Hosts : jobs[h] = NoJob
  BY DEF ValidateInit
<1>4. jobs \in [Hosts -> JobStates]
  BY NoJobType DEF ValidateInit
<1>5. ValidateTypeOK
  BY <1>1, <1>3, <1>4, IdleWorkers DEF ValidateTypeOK, ValidateInit, JobStates
<1>6. RunShape
  BY <1>1, <1>2 DEF RunShape
<1>7. ReportsFollow
  BY <1>1, <1>2 DEF ReportsFollow
<1> QED BY <1>2, <1>3, <1>5, <1>6, <1>7, FreshFollows DEF ValidateInv, DocsChecked

\* Before the documents are parsed, no host has been asked.
LEMMA NobodyAsked ==
  ASSUME ValidateInv, ~Fixed
  PROVE  (\A h \in Hosts : jobs[h] = NoJob) /\ run.reports = <<>>
BY DEF ValidateInv, JobFollows, ReportsFollow

\* A step while no host has been asked.
LEMMA EarlyStep ==
  ASSUME ValidateInv, ~Fixed, UNCHANGED <<jobs, changed, shifted>>,
         disk' \in [Hosts -> SUBSET Paths],
         RunShape', DocsChecked', ~Passed', run'.reports = <<>>,
         run'.pc \in {"files", "nodes", "done"}, run'.exit \in {"none", "1"},
         run'.failed \in BOOLEAN, run'.i \in 1 .. Len(run'.files) + 1,
         run'.pc = "nodes" => run'.i = 1
  PROVE  ValidateInv'
<1>1. \A h \in Hosts : jobs'[h] = NoJob
  BY NobodyAsked
<1>2. (\A h \in Hosts : jobs[h] = NoJob => JobFollows(h))'
  BY FreshFollows, PTL
<1>3. \A h \in Hosts : JobFollows(h)'
  BY <1>1, <1>2
<1>4. (Cardinality({h \in Hosts : Running(h)}) <= Workers)'
  BY NobodyAsked DEF Running, ValidateInv, ValidateTypeOK
<1>5. ValidateTypeOK'
  BY <1>4 DEF ValidateTypeOK, ValidateInv
<1>6. Displayed' = {}
  BY DEF Displayed, ToSet
<1>7. ReportsFollow'
  <2>1. Fixed' => run'.i = 1
    BY DEF Fixed
  <2>2. Fixed' => UNION {Owned(run.files[k])' : k \in 1 .. run'.i - 1} = {}
    BY <2>1
  <2> QED BY <1>6, <2>1, <2>2 DEF ReportsFollow
<1> QED BY <1>3, <1>5, <1>7 DEF ValidateInv

LEMMA BeginInv ==
  ASSUME ValidateInv, BeginValidate
  PROVE  ValidateInv'
<1>0. RunShape /\ ValidateTypeOK /\ run.pc = "begin" /\ run.i = 1
  BY DEF ValidateInv, BeginValidate, RunShape
<1>1. ~Fixed /\ run.exit = "none"
  BY <1>0 DEF Fixed, Passed, RunShape, ValidateTypeOK
<1>2. PICK files \in Requests, docs \in Checkouts :
        run' = [run EXCEPT !.pc = "files", !.files = files, !.docs = docs,
                           !.json = [f \in DOMAIN docs |-> "none"]]
  BY DEF BeginValidate
<1>3. run' = [pc |-> "files", files |-> files, docs |-> docs, i |-> run.i,
              failed |-> run.failed, json |-> [f \in DOMAIN docs |-> "none"],
              reports |-> run.reports, exit |-> run.exit]
  BY <1>0, <1>2, BeginFields
<1>4. run.reports = <<>>
  BY <1>1, NobodyAsked
<1>5. files \in Seq(Stacks) /\ DOMAIN docs = Stacks
  BY ValidateAssumption
<1>6. RunShape'
  <2>1. run'.reports \in Seq(SUBSET Lines)
    BY <1>3, <1>4
  <2> QED BY <1>0, <1>1, <1>3, <1>5, <2>1 DEF RunShape
<1>7. ~Passed' /\ DocsChecked'
  BY <1>0, <1>1, <1>3, <1>5 DEF Passed, DocsChecked, Fixed
<1>8. run'.failed \in BOOLEAN /\ run'.i \in 1 .. Len(run'.files) + 1
  BY <1>0, <1>3, <1>5 DEF ValidateTypeOK
<1>9. disk' \in [Hosts -> SUBSET Paths] /\ UNCHANGED <<jobs, changed, shifted>>
  BY ValidateAssumption DEF BeginValidate
<1> QED BY <1>1, <1>3, <1>4, <1>6, <1>7, <1>8, <1>9, EarlyStep

LEMMA EarlyExitInv ==
  ASSUME ValidateInv, ~Fixed, Exit("1"), UNCHANGED <<jobs, disk, changed, shifted>>
  PROVE  ValidateInv'
<1>0. RunShape /\ ValidateTypeOK
  BY DEF ValidateInv
<1>1. run' = [pc |-> "done", files |-> run.files, docs |-> run.docs, i |-> run.i,
              failed |-> run.failed, json |-> run.json, reports |-> run.reports, exit |-> "1"]
  BY <1>0, ExitFields
<1>2. run.reports = <<>>
  BY NobodyAsked
<1>3. ~Passed' /\ ~Fixed' /\ ~Begun'
  BY <1>1 DEF Passed, Fixed, Begun
<1>4. RunShape' /\ DocsChecked'
  BY <1>0, <1>1, <1>3 DEF RunShape, DocsChecked
<1>5. disk' \in [Hosts -> SUBSET Paths]
  BY <1>0 DEF ValidateTypeOK
<1>6. run'.failed \in BOOLEAN /\ run'.i \in 1 .. Len(run'.files) + 1
  BY <1>0, <1>1 DEF ValidateTypeOK
<1> QED BY <1>1, <1>2, <1>3, <1>4, <1>5, <1>6, EarlyStep

LEMMA CheckInv ==
  ASSUME ValidateInv, CheckFile
  PROVE  ValidateInv'
<1>0. RunShape /\ ValidateTypeOK /\ DocsChecked /\ run.pc = "files" /\ run.i <= Len(run.files)
  BY DEF ValidateInv, CheckFile
<1>1. ~Fixed /\ Begun /\ run.exit = "none"
  BY <1>0 DEF Fixed, Begun, Passed, RunShape, ValidateTypeOK
<1> DEFINE f == run.files[run.i]
           doc == run.docs[f]
<1>2. PICK valid \in BOOLEAN, parsed \in BOOLEAN :
        /\ parsed => valid
        /\ valid => doc.renders /\ doc.accepted
        /\ run' = [pc |-> run.pc, files |-> run.files, docs |-> run.docs, i |-> run.i + 1,
                   failed |-> run.failed \/ ~valid \/ (parsed /\ ~FilesAreThere(doc)),
                   json |-> [run.json EXCEPT ![f] =
                               IF parsed THEN "parsed" ELSE IF valid THEN "empty" ELSE @],
                   reports |-> run.reports, exit |-> run.exit]
  BY <1>0, CheckFields
<1>3. run.reports = <<>> /\ run.i \in 1..Len(run.files) /\ Len(run.files) \in Nat
  BY <1>0, <1>1, NobodyAsked DEF RunShape, ValidateTypeOK
<1>4. f \in Stacks /\ run.json \in [Stacks -> {"none", "parsed", "empty"}]
  BY <1>0, <1>1, <1>3 DEF RunShape
<1>5. run'.json \in [Stacks -> {"none", "parsed", "empty"}]
  BY <1>2, <1>4
<1>6. ~Passed' /\ ~Fixed'
  BY <1>0, <1>1, <1>2 DEF Passed, Fixed
<1>7. RunShape'
  BY <1>0, <1>1, <1>2, <1>5, <1>6 DEF RunShape, Begun
<1>8. DocsChecked'
  <2> SUFFICES ASSUME ~run'.failed, NEW k \in DOMAIN run.files, k < run.i + 1
               PROVE  IsChecked(run.files[k])'
    BY <1>2, <1>6 DEF DocsChecked
  <2>1. valid /\ ~run.failed /\ (parsed => FilesAreThere(doc))
    BY <1>2
  <2>2. k < run.i => IsChecked(run.files[k])
    BY <1>0, <1>1, <2>1 DEF DocsChecked
  <2>3. k = run.i \/ k < run.i
    BY <1>3
  <2> HIDE DEF doc, f
  <2>4. CASE run.files[k] = f
    <3>1. PICK g \in Stacks : g = f
      BY <1>4
    <3>2. run'.files[k] = g /\ run'.docs[g] = doc
      BY <1>2, <2>4, <3>1 DEF doc
    <3>3. run'.json[g] = "parsed" => parsed
      BY <1>2, <1>4, <2>1, <3>1
    <3>4. IsChecked(g)'
      BY <1>2, <2>1, <3>2, <3>3 DEF IsChecked
    <3> QED BY <3>2, <3>4 DEF IsChecked
  <2>5. CASE run.files[k] # f
    <3>1. IsChecked(run.files[k])
      BY <2>2, <2>3, <2>5 DEF f
    <3>2. run'.json[run.files[k]] = run.json[run.files[k]]
      BY <1>0, <1>2, <1>4, <2>5 DEF RunShape
    <3> QED BY <1>2, <3>1, <3>2 DEF IsChecked, FilesAreThere, MountedSecretFiles
  <2> QED BY <2>4, <2>5
<1>9. disk' \in [Hosts -> SUBSET Paths] /\ UNCHANGED <<jobs, changed, shifted>>
  BY <1>0 DEF ValidateTypeOK, CheckFile
<1>10. run'.failed \in BOOLEAN /\ run'.i \in 1 .. Len(run'.files) + 1
  BY <1>2, <1>3
<1> QED BY <1>0, <1>1, <1>2, <1>3, <1>6, <1>7, <1>8, <1>9, <1>10, EarlyStep

LEMMA InspectInv ==
  ASSUME ValidateInv, InspectNodes
  PROVE  ValidateInv'
<1>0. /\ RunShape /\ ValidateTypeOK /\ DocsChecked
      /\ run.pc = "files" /\ run.i > Len(run.files) /\ ~run.failed
      /\ UNCHANGED <<jobs, disk, changed, shifted>>
  BY DEF ValidateInv, InspectNodes
<1>1. ~Fixed /\ Begun /\ run.exit = "none"
  BY <1>0 DEF Fixed, Begun, Passed, RunShape, ValidateTypeOK
<1>2. CASE Exit("1")
  BY <1>0, <1>1, <1>2, EarlyExitInv
<1>3. CASE run' = [run EXCEPT !.pc = "nodes", !.i = 1]
  <2>1. run' = [pc |-> "nodes", files |-> run.files, docs |-> run.docs, i |-> 1,
                failed |-> run.failed, json |-> run.json, reports |-> run.reports,
                exit |-> run.exit]
    BY <1>0, <1>3, NodesFields
  <2>2. run.reports = <<>> /\ Len(run.files) \in Nat
    BY <1>0, <1>1, NobodyAsked DEF RunShape
  <2>3. ~Passed' /\ Fixed' /\ RunShape'
    BY <1>0, <1>1, <2>1 DEF Passed, Fixed, RunShape, Begun
  <2>4. \A k \in DOMAIN run.files : IsChecked(run.files[k])
    <3>1. \A k \in DOMAIN run.files : k < run.i
      BY <1>0, <2>2 DEF RunShape, ValidateTypeOK
    <3> QED BY <1>0, <1>1, <3>1 DEF DocsChecked
  <2>5. \A k \in DOMAIN run.files : IsChecked(run.files[k])'
    BY <2>1, <2>4 DEF IsChecked, FilesAreThere, MountedSecretFiles
  <2>6. DocsChecked'
    BY <1>0, <2>1, <2>5 DEF DocsChecked
  <2>7. disk' \in [Hosts -> SUBSET Paths]
    BY <1>0 DEF ValidateTypeOK
  <2>8. run'.failed \in BOOLEAN /\ run'.i \in 1 .. Len(run'.files) + 1
    BY <1>0, <2>1, <2>2 DEF ValidateTypeOK
  <2> QED BY <1>0, <1>1, <2>1, <2>2, <2>3, <2>6, <2>7, <2>8, EarlyStep
<1> QED BY <1>2, <1>3 DEF InspectNodes

-----------------------------------------------------------------------------
(* The invariant holds while the hosts answer.                             *)

LEMMA HostsFinite == IsFiniteSet(Hosts)
<1>1. Len(Nodes) \in Nat /\ DOMAIN Nodes = 1..Len(Nodes)
  BY ValidateAssumption
<1>2. IsFiniteSet(1..Len(Nodes))
  BY <1>1, FS_Interval
<1> DEFINE name(k) == Nodes[k].hostname
           f == [k \in 1..Len(Nodes) |-> name(k)]
<1>3. Hosts = {name(k) : k \in 1..Len(Nodes)}
  BY <1>1 DEF Hosts, ToSet
<1>4. f \in Surjection(1..Len(Nodes), Hosts)
  BY <1>3 DEF Surjection
<1> QED BY <1>2, <1>4, FS_Surjection

\* A host that is not done has not been displayed, nor has any other.
LEMMA WorkingReports ==
  ASSUME ValidateInv, ~AllDone, UNCHANGED run
  PROVE  ReportsFollow'
<1>1. run.reports = <<>> /\ ~Passed /\ ReportsFollow /\ ValidateTypeOK
  BY DEF ValidateInv, ReportsFollow
<1>2. Displayed' = {}
  BY <1>1 DEF Displayed, ToSet
<1>3. ~Passed' /\ Fixed' = Fixed
  BY <1>1 DEF Passed, Fixed
<1>4. Fixed => run.i = 1
  BY <1>1 DEF ReportsFollow, ValidateTypeOK
<1>5. Fixed => UNION {Owned(run.files[k])' : k \in 1 .. run.i - 1} = {}
  BY <1>4
<1> QED BY <1>1, <1>2, <1>3, <1>4, <1>5 DEF ReportsFollow

\* What is known of a host stays so as long as nothing happens to it.
LEMMA JobStays ==
  ASSUME NEW g \in Hosts, JobFollows(g), UNCHANGED <<run, changed>>, jobs'[g] = jobs[g],
         disk'[g] = disk[g], g \in shifted' <=> g \in shifted
  PROVE  JobFollows(g)'
<1>1. /\ PathsOn(g)' = PathsOn(g)
      /\ \A p : Place(g, p)' = Place(g, p)
  BY MountsStay
<1>2. Fixed' = Fixed /\ Running(g)' = Running(g)
  BY DEF Fixed, Passed, Running
<1>3. LinesTrue(g)' <=> LinesTrue(g)
  BY <1>1 DEF LinesTrue
<1> QED BY <1>1, <1>2, <1>3 DEF JobFollows

\* A step of the job of a host.
LEMMA HostStep ==
  ASSUME ValidateInv, ~AllDone, NEW h \in Hosts, NEW j \in JobStates,
         UNCHANGED <<run, disk, changed>>, shifted' \in {shifted, shifted \cup {h}},
         jobs' = [jobs EXCEPT ![h] = j], JobFollows(h)',
         (Cardinality({g \in Hosts : Running(g)}) <= Workers)'
  PROVE  ValidateInv'
<1>0. ValidateTypeOK /\ RunShape /\ DocsChecked
  BY DEF ValidateInv
<1>1. jobs \in [Hosts -> JobStates]
  BY <1>0 DEF ValidateTypeOK, JobStates
<1>2. jobs' \in [Hosts -> JobStates]
  BY <1>1
<1>3. ValidateTypeOK'
  BY <1>0, <1>2 DEF ValidateTypeOK, JobStates
<1>4. RunShape' /\ DocsChecked'
  BY <1>0 DEF RunShape, DocsChecked, Begun, Fixed, Passed, IsChecked, FilesAreThere,
              MountedSecretFiles
<1>5. ASSUME NEW g \in Hosts, g # h
      PROVE  JobFollows(g)'
  <2>1. jobs'[g] = jobs[g] /\ (g \in shifted' <=> g \in shifted)
    BY <1>1, <1>5
  <2> QED BY <2>1, JobStays DEF ValidateInv
<1>6. ReportsFollow'
  BY WorkingReports
<1> QED BY <1>3, <1>4, <1>5, <1>6 DEF ValidateInv

\* A host that works or waits is not done.
LEMMA BusyIsNotDone ==
  ASSUME ValidateInv, NEW h \in Hosts,
         Running(h) \/ (jobs[h].pc = "waiting" /\ PathsOn(h) # {})
  PROVE  ~AllDone
BY DEF ValidateInv, JobFollows, Running, AllDone

\* Nobody starts to work when a worker goes on or ends.
LEMMA NoMoreWorkers ==
  ASSUME ValidateInv, NEW h \in Hosts, Running(h), \A g \in Hosts \ {h} : jobs'[g] = jobs[g]
  PROVE  (Cardinality({g \in Hosts : Running(g)}) <= Workers)'
<1> DEFINE now == {g \in Hosts : Running(g)}
           next == {g \in Hosts : Running(g)'}
<1>1. next \in SUBSET now
  BY DEF Running
<1>2. IsFiniteSet(now)
  BY HostsFinite, FS_Subset
<1>3. Cardinality(next) <= Cardinality(now) /\ Cardinality(now) \in Nat /\ Cardinality(next) \in Nat
  BY <1>1, <1>2, FS_Subset, FS_CardinalityType
<1>4. Cardinality(now) <= Workers
  BY DEF ValidateInv, ValidateTypeOK
<1> HIDE DEF now
<1>5. Cardinality(next) <= Workers
  BY <1>3, <1>4, ValidateAssumption
<1> QED BY <1>5

LEMMA TakeInv ==
  ASSUME ValidateInv, NEW h \in Hosts, TakeHost(h)
  PROVE  ValidateInv'
<1>0. ValidateTypeOK /\ JobFollows(h) /\ run.pc = "nodes"
  BY DEF ValidateInv, TakeHost
<1> DEFINE j == [pc |-> "test", i |-> 1, lines |-> <<>>, broke |-> FALSE]
<1>1. jobs[h] = NoJob /\ PathsOn(h) # {} /\ UNCHANGED <<run, disk, changed, shifted>>
  BY <1>0 DEF TakeHost, JobFollows
<1>2. jobs \in [Hosts -> JobStates]
  BY <1>0 DEF ValidateTypeOK, JobStates
<1>3. jobs' = [jobs EXCEPT ![h] = j]
  <2> DEFINE r == [pc |-> "waiting", i |-> 1, lines |-> <<>>, broke |-> FALSE]
  <2>1. jobs[h] = r
    BY <1>1 DEF NoJob
  <2> HIDE DEF r
  <2>2. jobs' = [jobs EXCEPT ![h] = [r EXCEPT !.pc = "test"]]
    BY <1>2, <2>1 DEF TakeHost
  <2>3. jobs'[h] = [r EXCEPT !.pc = "test"]
    BY <1>2, <2>2
  <2>4. jobs'[h] = j
    BY <2>3 DEF r
  <2> QED BY <2>2, <2>3, <2>4
<1>4. j \in JobStates
  BY NoJobType DEF NoJob, JobStates
<1>5. jobs'[h] = j
  BY <1>2, <1>3
<1>6. JobFollows(h)'
  <2>1. /\ PathsOn(h)' = PathsOn(h)
        /\ \A p : Place(h, p)' = Place(h, p)
    BY <1>1, MountsStay
  <2>2. Cardinality(PathsOn(h)) \in Nat /\ Cardinality(PathsOn(h)) # 0
    BY <1>1, PathsFinite, FS_EmptySet
  <2>3. Len(jobs'[h].lines) = 0 /\ jobs'[h].i = 1 /\ jobs'[h].pc = "test"
    BY <1>5
  <2>4. LinesTrue(h)'
    BY <2>1, <2>3, PlacesBounded, PathCounts DEF LinesTrue
  <2>5. Fixed'
    BY <1>0, <1>1 DEF Fixed
  <2> QED BY <1>1, <2>1, <2>2, <2>3, <2>4, <2>5 DEF JobFollows
<1>7. (Cardinality({g \in Hosts : Running(g)}) <= Workers)'
  <2> DEFINE now == {g \in Hosts : Running(g)}
             next == {g \in Hosts : Running(g)'}
  <2>1. next \in SUBSET (now \cup {h})
    BY <1>2, <1>3 DEF Running
  <2>2. IsFiniteSet(now) /\ Cardinality(now) \in Nat
    BY HostsFinite, FS_Subset, FS_CardinalityType
  <2>3. IsFiniteSet(now \cup {h}) /\ Cardinality(now \cup {h}) <= Cardinality(now) + 1
    BY <2>2, FS_AddElement
  <2>4. Cardinality(next) <= Cardinality(now \cup {h})
    BY <2>1, <2>3, FS_Subset
  <2>5. Cardinality(now \cup {h}) \in Nat /\ Cardinality(next) \in Nat
    BY <2>1, <2>3, FS_Subset, FS_CardinalityType
  <2>6. Cardinality(now) < Workers
    BY DEF TakeHost
  <2> HIDE DEF now
  <2>7. Cardinality(next) <= Workers
    BY <2>2, <2>3, <2>4, <2>5, <2>6, ValidateAssumption
  <2> QED BY <2>7
<1>8. ~AllDone
  BY <1>1, BusyIsNotDone DEF NoJob
<1> QED BY <1>1, <1>3, <1>4, <1>6, <1>7, <1>8, HostStep

LEMMA BreakInv ==
  ASSUME ValidateInv, NEW h \in Hosts, Break(h)
  PROVE  ValidateInv'
<1>0. /\ ValidateTypeOK /\ JobFollows(h) /\ Running(h)
      /\ UNCHANGED <<run, disk, changed, shifted>>
  BY DEF ValidateInv, Break
<1>1. jobs \in [Hosts -> JobStates]
  BY <1>0 DEF ValidateTypeOK, JobStates
<1> DEFINE j == [pc |-> "done", i |-> jobs[h].i, lines |-> jobs[h].lines, broke |-> TRUE]
<1>2. jobs' = [jobs EXCEPT ![h] = j]
  <2> DEFINE r == [pc |-> jobs[h].pc, i |-> jobs[h].i, lines |-> jobs[h].lines,
                   broke |-> jobs[h].broke]
  <2>1. jobs[h] = r
    BY <1>1 DEF JobStates
  <2> HIDE DEF r
  <2>2. jobs' = [jobs EXCEPT ![h] = [r EXCEPT !.pc = "done", !.broke = TRUE]]
    BY <1>1, <2>1 DEF Break
  <2>3. jobs'[h] = [r EXCEPT !.pc = "done", !.broke = TRUE]
    BY <1>1, <2>2
  <2>4. jobs'[h] = j
    BY <2>3 DEF r
  <2> QED BY <2>2, <2>3, <2>4
<1>3. j \in JobStates
  BY <1>1 DEF JobStates
<1>4. jobs'[h] = j /\ \A g \in Hosts \ {h} : jobs'[g] = jobs[g]
  BY <1>1, <1>2
<1>5. JobFollows(h)'
  <2>1. /\ PathsOn(h)' = PathsOn(h)
        /\ \A p : Place(h, p)' = Place(h, p)
    BY <1>0, MountsStay
  <2>2. jobs'[h].pc = "done" /\ jobs'[h].broke /\ jobs'[h].i = jobs[h].i /\ jobs'[h].lines = jobs[h].lines
    BY <1>4
  <2>3. LinesTrue(h) <=> LinesTrue(h)'
    BY <1>0, <2>1, <2>2 DEF LinesTrue
  <2>4. Fixed'
    BY <1>0 DEF Fixed, Passed, JobFollows, Running
  <2> QED BY <1>0, <2>1, <2>2, <2>3, <2>4 DEF JobFollows, Running
<1> QED BY <1>0, <1>2, <1>3, <1>4, <1>5, NoMoreWorkers, BusyIsNotDone, HostStep
\* The next path of a host has been answered, or has vanished.
LEMMA AfterPathInv ==
  ASSUME ValidateInv, NEW h \in Hosts, Running(h), NEW printed \in {<<>>, <<"ok">>, <<"missing">>},
         jobs' = [jobs EXCEPT ![h] = AfterPath(h, printed)], UNCHANGED <<run, disk, changed>>,
         \/ shifted' = shifted \cup {h}
         \/ /\ UNCHANGED shifted /\ printed # <<>>
            /\ printed = <<"ok">> <=> NextPath(h) \in disk[h]
  PROVE  ValidateInv'
<1>0. ValidateTypeOK /\ JobFollows(h)
  BY DEF ValidateInv
<1>1. jobs \in [Hosts -> JobStates]
  BY <1>0 DEF ValidateTypeOK, JobStates
<1> DEFINE size == Cardinality(PathsOn(h))
           i == jobs[h].i
           lines == jobs[h].lines
           broke == jobs[h].broke
           next == IF i = size THEN "done" ELSE "test"
           j == [pc |-> next, i |-> i + 1, lines |-> lines \o printed, broke |-> broke]
<1>2. /\ size \in Nat /\ size <= Cardinality(Paths) /\ Cardinality(Paths) \in Nat
      /\ i \in Nat /\ i <= size /\ broke \in BOOLEAN /\ 0 < i
  BY <1>0, <1>1, PathsFinite DEF JobStates, JobFollows
<1>3. /\ lines \in Seq({"ok", "missing"}) /\ Len(lines) < i /\ Len(lines) \in Nat
      /\ h \notin shifted => Len(lines) = i - 1 /\ LinesTrue(h)
  <2>1. lines \in Seq({"ok", "missing"})
    BY <1>1, <1>2, SeqOfIsSeq DEF JobStates
  <2> QED BY <1>0, <2>1 DEF JobFollows
<1>5. jobs'[h] = j /\ \A g \in Hosts \ {h} : jobs'[g] = jobs[g]
  <2> DEFINE r == [pc |-> jobs[h].pc, i |-> i, lines |-> lines, broke |-> broke]
  <2>1. jobs[h] = r
    BY <1>1 DEF JobStates
  <2> HIDE DEF r
  <2>2. jobs'[h] = [r EXCEPT !.i = i + 1, !.lines = lines \o printed, !.pc = next]
    <3>1. jobs'[h] = AfterPath(h, printed)
      BY <1>1
    <3>2. jobs'[h] = [jobs[h] EXCEPT !.i = i + 1, !.lines = lines \o printed, !.pc = next]
      BY <3>1 DEF AfterPath
    <3> QED BY <2>1, <3>2
  <2>3. jobs'[h] = j
    BY <2>2 DEF r
  <2> QED BY <1>1, <2>3
<1> HIDE DEF i, lines, broke
<1>6. /\ printed \in Seq({"ok", "missing"}) /\ Len(printed) \in {0, 1}
      /\ printed # <<>> => /\ Len(printed) = 1
                           /\ printed = <<"ok">> <=> printed[1] = "ok"
  <2>1. CASE printed = <<>>
    BY <2>1
  <2>2. CASE printed = <<"ok">>
    BY <2>2
  <2>3. CASE printed = <<"missing">>
    <3>1. printed[1] = "missing" /\ printed # <<"ok">>
      BY <2>3
    <3> QED BY <2>3, <3>1
  <2> QED BY <2>1, <2>2, <2>3
<1> DEFINE answered == lines \o printed
           more == Len(printed)
           had == Len(lines)
<1>4. /\ answered \in Seq({"ok", "missing"}) /\ Len(answered) = had + more
      /\ had \in Nat /\ more \in {0, 1}
      /\ \A k \in 1..had : answered[k] = lines[k]
      /\ more = 1 => answered[had + 1] = printed[1]
  BY <1>3, <1>6, Extended
<1> HIDE DEF answered, more
<1>7. j \in JobStates
  <2>1. answered \in SeqOf({"ok", "missing"}, Cardinality(Paths))
    <3>1. Len(answered) <= Cardinality(Paths)
      BY <1>2, <1>3, <1>4
    <3> QED BY <1>2, <1>4, <3>1, SeqOfIsSeq
  <2>2. i + 1 \in 1 .. Cardinality(Paths) + 1
    BY <1>2
  <2> QED BY <1>2, <2>1, <2>2 DEF JobStates, answered
<1>8. jobs' = [jobs EXCEPT ![h] = j]
  BY <1>1, <1>5
<1> HIDE DEF size
<1>9. PathsOn(h)' = PathsOn(h) /\ \A p : Place(h, p)' = Place(h, p)
  BY MountsStay
<1>10. ASSUME h \notin shifted'
       PROVE  LinesTrue(h)'
  <2>1. had = i - 1 /\ LinesTrue(h) /\ printed # <<>> /\ more = 1
    BY <1>3, <1>6, <1>10 DEF more
  <2> SUFFICES ASSUME NEW p \in PathsOn(h), Place(h, p) <= i, <<h, p>> \notin changed
               PROVE  answered[Place(h, p)] = "ok" <=> p \in disk[h]
    <3>1. jobs'[h].lines = answered /\ Len(answered) = i
      BY <1>2, <1>4, <1>5, <2>1 DEF answered
    <3> QED BY <1>9, <3>1 DEF LinesTrue
  <2>2. Place(h, p) \in Nat /\ 1 <= Place(h, p)
    BY PlaceInBounds, PathsFinite
  <2>3. CASE Place(h, p) = i
    <3>1. answered[i] = printed[1]
      BY <1>2, <1>4, <2>1
    <3>2. NextPath(h) = p
      BY <2>3, NextIsDue DEF i
    <3>3. printed = <<"ok">> <=> printed[1] = "ok"
      BY <1>6, <2>1
    <3> QED BY <1>10, <2>3, <3>1, <3>2, <3>3
  <2>4. CASE Place(h, p) < i
    <3>1. answered[Place(h, p)] = lines[Place(h, p)]
      BY <1>2, <1>3, <1>4, <2>1, <2>2, <2>4
    <3>2. lines[Place(h, p)] = "ok" <=> p \in disk[h]
      BY <1>2, <2>1, <2>2, <2>4 DEF LinesTrue, lines
    <3> QED BY <3>1, <3>2
  <2> QED BY <1>2, <2>2, <2>3, <2>4
<1>11. JobFollows(h)'
  <2>1. Fixed' /\ PathsOn(h) # {}
    BY <1>0 DEF Fixed, Passed, JobFollows, Running
  <2>2. /\ jobs'[h].pc = next /\ jobs'[h].i = i + 1 /\ jobs'[h].lines = answered
        /\ jobs'[h].broke = broke
    BY <1>5 DEF answered
  <2>3. Running(h)' <=> i # size
    BY <2>2 DEF Running
  <2>4. Len(answered) < i + 1
    BY <1>2, <1>3, <1>4
  <2>5. h \notin shifted' => Len(answered) = i
    <3>1. h \notin shifted' => h \notin shifted /\ more = 1
      BY <1>6 DEF more
    <3> QED BY <1>2, <1>3, <1>4, <3>1
  <2>6. /\ jobs'[h].pc # "waiting"
        /\ Running(h)' => i + 1 <= size
        /\ Len(jobs'[h].lines) < jobs'[h].i
        /\ h \notin shifted' => Len(jobs'[h].lines) = jobs'[h].i - 1
        /\ jobs'[h].pc = "done" => i = size
    BY <1>2, <2>2, <2>3, <2>4, <2>5
  <2> QED BY <1>9, <1>10, <2>1, <2>2, <2>5, <2>6 DEF JobFollows, size
<1>12. shifted' \in {shifted, shifted \cup {h}}
  OBVIOUS
<1> QED BY <1>5, <1>7, <1>8, <1>11, <1>12, NoMoreWorkers, BusyIsNotDone, HostStep
LEMMA TestInv ==
  ASSUME ValidateInv, NEW h \in Hosts, TestPath(h)
  PROVE  ValidateInv'
<1>0. /\ ValidateTypeOK /\ JobFollows(h) /\ Running(h) /\ jobs[h].pc = "test"
      /\ UNCHANGED <<run, disk, changed, shifted>>
  BY DEF ValidateInv, TestPath, Running
<1>1. jobs \in [Hosts -> JobStates]
  BY <1>0 DEF ValidateTypeOK, JobStates
<1>2. CASE NextPath(h) \notin disk[h]
  <2>1. jobs' = [jobs EXCEPT ![h] = AfterPath(h, <<"missing">>)]
    BY <1>2 DEF TestPath
  <2>2. <<"missing">> # <<"ok">> /\ <<"missing">> # <<>>
    <3>1. <<"missing">>[1] # <<"ok">>[1]
      OBVIOUS
    <3> QED BY <3>1
  <2> QED BY <1>0, <1>2, <2>1, <2>2, AfterPathInv
<1>3. CASE NextPath(h) \in disk[h]
  <2> DEFINE j == [pc |-> "stat", i |-> jobs[h].i, lines |-> jobs[h].lines,
                   broke |-> jobs[h].broke]
             r == [pc |-> jobs[h].pc, i |-> jobs[h].i, lines |-> jobs[h].lines,
                   broke |-> jobs[h].broke]
  <2>1. jobs[h] = r
    BY <1>1 DEF JobStates
  <2> HIDE DEF r
  <2>2. jobs' = [jobs EXCEPT ![h] = [r EXCEPT !.pc = "stat"]]
    BY <1>1, <1>3, <2>1 DEF TestPath
  <2>3. jobs'[h] = [r EXCEPT !.pc = "stat"] /\ \A g \in Hosts \ {h} : jobs'[g] = jobs[g]
    BY <1>1, <2>2
  <2>4. jobs'[h] = j
    BY <2>3 DEF r
  <2>5. jobs' = [jobs EXCEPT ![h] = j] /\ j \in JobStates
    BY <1>1, <2>2, <2>3, <2>4 DEF JobStates
  <2>6. JobFollows(h)'
    <3>1. /\ PathsOn(h)' = PathsOn(h)
          /\ \A p : Place(h, p)' = Place(h, p)
      BY <1>0, MountsStay
    <3>2. /\ jobs'[h].pc = "stat" /\ jobs'[h].i = jobs[h].i /\ jobs'[h].lines = jobs[h].lines
      BY <2>4
    <3>3. LinesTrue(h) <=> LinesTrue(h)'
      BY <1>0, <3>1, <3>2 DEF LinesTrue
    <3>4. Fixed'
      BY <1>0 DEF Fixed, Passed, JobFollows
    <3> QED BY <1>0, <3>1, <3>2, <3>3, <3>4 DEF JobFollows, Running
  <2> QED BY <1>0, <2>3, <2>5, <2>6, NoMoreWorkers, BusyIsNotDone, HostStep
<1> QED BY <1>2, <1>3

LEMMA StatInv ==
  ASSUME ValidateInv, NEW h \in Hosts, StatPath(h)
  PROVE  ValidateInv'
<1>1. Running(h) /\ UNCHANGED <<run, disk, changed>>
  BY DEF StatPath, Running
<1>2. CASE NextPath(h) \in disk[h]
  <2>1. jobs' = [jobs EXCEPT ![h] = AfterPath(h, <<"ok">>)] /\ UNCHANGED shifted
    BY <1>2 DEF StatPath
  <2>2. <<"ok">> # <<>>
    OBVIOUS
  <2> QED BY <1>1, <1>2, <2>1, <2>2, AfterPathInv
<1>3. CASE NextPath(h) \notin disk[h]
  <2>1. jobs' = [jobs EXCEPT ![h] = AfterPath(h, <<>>)] /\ shifted' = shifted \cup {h}
    BY <1>3 DEF StatPath
  <2> QED BY <1>1, <2>1, AfterPathInv
<1> QED BY <1>2, <1>3

\* A file that comes or goes leaves what is displayed as it is.
LEMMA DiskInv ==
  ASSUME ValidateInv, NEW h \in Hosts, DiskChanges(h)
  PROVE  ValidateInv'
<1>0. /\ ValidateTypeOK /\ RunShape /\ DocsChecked /\ ReportsFollow
      /\ UNCHANGED <<run, jobs, shifted>>
  BY DEF ValidateInv, DiskChanges
<1>1. PICK p \in Paths : /\ disk' = [disk EXCEPT ![h] = IF p \in @ THEN @ \ {p} ELSE @ \cup {p}]
                         /\ changed' = changed \cup {<<h, p>>}
  BY DEF DiskChanges
<1>2. /\ \A f : NodePaths(f)' = NodePaths(f)
      /\ AllNodePaths' = AllNodePaths
      /\ \A g : PathsOn(g)' = PathsOn(g)
      /\ \A g, q : Place(g, q)' = Place(g, q)
      /\ \A np : Owner(np)' = Owner(np)
  BY <1>0, MountsStay
<1>3. \A g \in Hosts : \A q : <<g, q>> \notin changed' => <<g, q>> \notin changed /\ (q \in disk'[g] <=> q \in disk[g])
  BY <1>0, <1>1 DEF ValidateTypeOK
<1>4. ASSUME NEW g \in Hosts
      PROVE  JobFollows(g)'
  <2>1. JobFollows(g) /\ Fixed' = Fixed /\ Running(g)' = Running(g)
    BY <1>0 DEF ValidateInv, Fixed, Passed, Running
  <2>2. LinesTrue(g) => LinesTrue(g)'
    BY <1>0, <1>2, <1>3 DEF LinesTrue
  <2> QED BY <1>0, <1>2, <2>1, <2>2 DEF JobFollows
<1>5. ValidateTypeOK'
  <2>1. disk' \in [Hosts -> SUBSET Paths] /\ changed' \subseteq Hosts \X Paths
    BY <1>0, <1>1 DEF ValidateTypeOK
  <2> QED BY <1>0, <2>1 DEF ValidateTypeOK, Running
<1>6. RunShape' /\ DocsChecked'
  BY <1>0 DEF RunShape, DocsChecked, Begun, Fixed, Passed, IsChecked, FilesAreThere,
              MountedSecretFiles
<1>7. ReportsFollow'
  <2>1. \A f : Owned(f)' = Owned(f)
    BY <1>0, <1>2 DEF Owned, Status
  <2>2. AllDone' = AllDone /\ Displayed' = Displayed
    BY <1>0, <1>2 DEF AllDone, Displayed
  <2> QED BY <1>0, <2>1, <2>2 DEF ReportsFollow, Fixed, Passed
<1> QED BY <1>4, <1>5, <1>6, <1>7 DEF ValidateInv
-----------------------------------------------------------------------------
(* The invariant holds while the results are displayed.                    *)

\* A result is one of the three.
LEMMA StatusType ==
  ASSUME ValidateInv, NEW np \in AllNodePaths, np \in Places \X Paths
  PROVE  Status(np[1], np[2]) \in {"ok", "missing", "unreachable"}
<1> DEFINE n == np[1]
           p == np[2]
<1>1. np = <<n, p>> /\ n \in Places /\ p \in Paths
  OBVIOUS
<1>2. CASE n = Unresolved
  BY <1>2 DEF Status
<1>3. CASE n # Unresolved /\ Place(n, p) > Len(jobs[n].lines)
  BY <1>3 DEF Status
<1>4. CASE n # Unresolved /\ ~(Place(n, p) > Len(jobs[n].lines))
  <2>1. n \in Hosts
    BY <1>1, <1>4 DEF Places
  <2>2. p \in PathsOn(n)
    BY <1>1 DEF PathsOn
  <2>3. jobs[n].lines \in Seq({"ok", "missing"})
    BY <2>1, SeqOfIsSeq, PathsFinite DEF ValidateInv, ValidateTypeOK
  <2>4. Place(n, p) \in 1..Len(jobs[n].lines)
    BY <1>4, <2>2, <2>3, PlaceInBounds, PathsFinite
  <2>5. jobs[n].lines[Place(n, p)] \in {"ok", "missing"}
    BY <2>3, <2>4
  <2> QED BY <1>4, <2>5 DEF Status
<1> QED BY <1>2, <1>3, <1>4

\* What a file has to report are lines.
LEMMA OwnedType ==
  ASSUME ValidateInv, Fixed, NEW f \in Stacks
  PROVE  Owned(f) \subseteq Lines
<1>1. RunShape /\ Begun
  BY DEF ValidateInv, Begun
<1>2. AllNodePaths \subseteq Places \X Paths
  <2>1. \A g \in ToSet(run.files) : g \in Stacks
    BY <1>1 DEF RunShape, ToSet
  <2>2. \A g \in ToSet(run.files) : NodePaths(g) \subseteq Places \X Paths
    BY <1>1, <2>1, NodePathsType
  <2> QED BY <2>2 DEF AllNodePaths
<1>3. \A np \in AllNodePaths : Status(np[1], np[2]) \in {"ok", "missing", "unreachable"}
  BY <1>2, StatusType
<1>4. ASSUME NEW np \in AllNodePaths
      PROVE  [stack |-> f, node |-> np[1], path |-> np[2], status |-> Status(np[1], np[2])] \in Lines
  BY <1>2, <1>3 DEF Lines
<1> QED BY <1>4 DEF Owned

\* Nothing is displayed again: the reports are apart, and make up what is displayed.
LEMMA ReportedSoFar ==
  ASSUME NEW reports \in Seq(SUBSET Lines), NEW own \in SUBSET Lines,
         \A k, l \in DOMAIN reports : k # l => reports[k] \cap reports[l] = {},
         NEW more, more = Append(reports, own \ UNION ToSet(reports))
  PROVE  /\ more \in Seq(SUBSET Lines) /\ Len(more) = Len(reports) + 1
         /\ UNION ToSet(more) = (UNION ToSet(reports)) \cup own
         /\ \A k, l \in DOMAIN more : k # l => more[k] \cap more[l] = {}
<1> DEFINE n == Len(reports)
           old == UNION ToSet(reports)
           rep == own \ old
<1> HIDE DEF rep
<1>1. n \in Nat /\ DOMAIN reports = 1..n
  OBVIOUS
<1>2. rep \in SUBSET Lines
  BY DEF rep
<1>3. /\ more \in Seq(SUBSET Lines) /\ Len(more) = n + 1 /\ DOMAIN more = 1 .. n + 1
      /\ more[n + 1] = rep /\ \A k \in 1..n : more[k] = reports[k]
  <2>1. more = Append(reports, rep)
    BY DEF rep
  <2> QED BY <1>1, <1>2, <2>1
<1>4. \A k \in 1..n : reports[k] \subseteq old
  BY <1>1 DEF ToSet
<1>5. UNION ToSet(more) = old \cup own
  <2> HIDE DEF n
  <2>1. ToSet(more) = ToSet(reports) \cup {rep}
    <3>1. ASSUME NEW r
          PROVE  r \in ToSet(more) <=> r \in ToSet(reports) \/ r = rep
      <4> DEFINE Of(q, m) == \E k \in 1..m : r = q[k]
      <4>1. r \in ToSet(more) <=> Of(more, n + 1)
        BY <1>3 DEF ToSet
      <4>2. r \in ToSet(reports) <=> Of(reports, n)
        BY <1>1 DEF ToSet, n
      <4>3. Of(more, n) <=> Of(reports, n)
        BY <1>3
      <4>4. Of(more, n + 1) <=> Of(more, n) \/ r = rep
        <5>1. n \in Nat
          BY <1>1 DEF n
        <5>2. 1 .. n + 1 = 1..n \cup {n + 1}
          BY <5>1
        <5> QED BY <1>3, <5>2
      <4> HIDE DEF Of
      <4> QED BY <4>1, <4>2, <4>3, <4>4
    <3> QED BY <3>1
  <2>2. UNION ToSet(more) = old \cup rep
    BY <2>1
  <2> QED BY <2>2 DEF rep
<1>6. ASSUME NEW k \in 1 .. n + 1, NEW l \in 1 .. n + 1, k # l
      PROVE  more[k] \cap more[l] = {}
  <2>1. CASE k \in 1..n /\ l \in 1..n
    BY <1>1, <1>3, <1>6, <2>1
  <2>2. CASE k = n + 1 /\ l \in 1..n
    BY <1>3, <1>4, <2>2 DEF rep
  <2>3. CASE k \in 1..n /\ l = n + 1
    BY <1>3, <1>4, <2>3 DEF rep
  <2> QED BY <1>1, <1>6, <2>1, <2>2, <2>3
<1> QED BY <1>3, <1>5, <1>6

\* What is to be reported stays so once all hosts are done.
LEMMA OwnedStays ==
  ASSUME run'.files = run.files, run'.docs = run.docs, run'.json = run.json, UNCHANGED jobs
  PROVE  \A f : Owned(f)' = Owned(f)
BY MountsStay DEF Owned, Status

\* A step of the display.
LEMMA DisplayStep ==
  ASSUME ValidateInv, Fixed, Fixed', AllDone, UNCHANGED <<jobs, disk, changed, shifted>>,
         run'.files = run.files, run'.docs = run.docs, run'.json = run.json,
         run'.failed = run.failed, run'.pc \in {"nodes", "done"}, run'.exit \in {"none", "0"},
         run'.i \in 1 .. Len(run.files) + 1, RunShape', ReportsFollow'
  PROVE  ValidateInv'
<1>0. ValidateTypeOK /\ DocsChecked
  BY DEF ValidateInv
<1>1. ValidateTypeOK'
  BY <1>0 DEF ValidateTypeOK, Running
<1>2. DocsChecked'
  BY <1>0 DEF DocsChecked, IsChecked, FilesAreThere, MountedSecretFiles, Begun
<1>3. ASSUME NEW h \in Hosts
      PROVE  JobFollows(h)'
  <2>1. /\ PathsOn(h)' = PathsOn(h)
        /\ \A p : Place(h, p)' = Place(h, p)
    BY MountsStay
  <2>2. JobFollows(h) /\ Running(h)' = Running(h)
    BY DEF ValidateInv, Running
  <2>3. LinesTrue(h)' <=> LinesTrue(h)
    BY <2>1 DEF LinesTrue
  <2> QED BY <2>1, <2>2, <2>3 DEF JobFollows
<1> QED BY <1>1, <1>2, <1>3 DEF ValidateInv

LEMMA ReportInv ==
  ASSUME ValidateInv, ReportFile
  PROVE  ValidateInv'
<1>0. /\ RunShape /\ ReportsFollow /\ ValidateTypeOK /\ AllDone
      /\ run.pc = "nodes" /\ run.i <= Len(run.files)
      /\ UNCHANGED <<jobs, disk, changed, shifted>>
  BY DEF ValidateInv, ReportFile
<1> DEFINE f == run.files[run.i]
<1>1. Fixed /\ ~Passed /\ Begun /\ run.exit = "none" /\ run.i \in 1..Len(run.files) /\ Len(run.files) \in Nat
  BY <1>0 DEF Fixed, Passed, Begun, RunShape, ValidateTypeOK
<1>2. run' = [pc |-> run.pc, files |-> run.files, docs |-> run.docs, i |-> run.i + 1,
              failed |-> run.failed, json |-> run.json,
              reports |-> Append(run.reports, FileReport(f)), exit |-> run.exit]
  BY <1>0, ReportFields
<1>3. f \in Stacks
  BY <1>0, <1>1 DEF RunShape
<1>4. Owned(f) \in SUBSET Lines
  BY <1>1, <1>3, OwnedType
<1>5. run'.reports = Append(run.reports, Owned(f) \ Displayed)
  BY <1>2 DEF FileReport
<1>6. /\ run'.reports \in Seq(SUBSET Lines) /\ Len(run'.reports) = Len(run.reports) + 1
      /\ Displayed' = Displayed \cup Owned(f)
      /\ \A k, l \in DOMAIN run'.reports : k # l => run'.reports[k] \cap run'.reports[l] = {}
  <2>1. /\ run.reports \in Seq(SUBSET Lines)
        /\ \A k, l \in DOMAIN run.reports : k # l => run.reports[k] \cap run.reports[l] = {}
    BY <1>0 DEF RunShape, ReportsFollow
  <2> DEFINE reports == run.reports
             more == run'.reports
             own == Owned(f)
             old == Displayed
             all == Displayed'
  <2>2. old = UNION ToSet(reports) /\ all = UNION ToSet(more)
    BY DEF Displayed
  <2>3. own \in SUBSET Lines /\ more = Append(reports, own \ UNION ToSet(reports))
    BY <1>4, <1>5, <2>2
  <2>4. /\ reports \in Seq(SUBSET Lines)
        /\ \A k, l \in DOMAIN reports : k # l => reports[k] \cap reports[l] = {}
    BY <2>1
  <2> HIDE DEF reports, more, own, old, all
  <2>5. /\ more \in Seq(SUBSET Lines) /\ Len(more) = Len(reports) + 1
        /\ UNION ToSet(more) = (UNION ToSet(reports)) \cup own
        /\ \A k, l \in DOMAIN more : k # l => more[k] \cap more[l] = {}
    BY <2>3, <2>4, ReportedSoFar
  <2> QED BY <2>2, <2>5 DEF reports, more, own, old, all
<1>7. Fixed' /\ ~Passed' /\ RunShape'
  BY <1>0, <1>1, <1>2, <1>6 DEF Fixed, Passed, RunShape, Begun
<1>8. \A g : Owned(g)' = Owned(g)
  BY <1>0, <1>2, OwnedStays
<1>9. ReportsFollow'
  <2>1. Len(run'.reports) = run'.i - 1
    BY <1>0, <1>1, <1>2, <1>6 DEF ReportsFollow
  <2>2. Displayed' = UNION {Owned(run.files[k]) : k \in 1 .. run.i}
    <3>1. Displayed = UNION {Owned(run.files[k]) : k \in 1 .. run.i - 1}
      BY <1>0, <1>1 DEF ReportsFollow
    <3>2. 1 .. run.i = (1 .. run.i - 1) \cup {run.i}
      BY <1>1
    <3> QED BY <1>6, <3>1, <3>2
  <2>3. (Displayed = UNION {Owned(run.files[k]) : k \in 1 .. run.i - 1})'
    <3> DEFINE own(k) == Owned(run.files[k])
               ownNext(k) == Owned(run.files[k])'
    <3>1. run'.files = run.files /\ run'.i - 1 = run.i
      BY <1>1, <1>2
    <3>2. \A k : ownNext(k) = own(k)
      BY <1>8, <3>1
    <3> HIDE DEF own, ownNext
    <3>3. UNION {ownNext(k) : k \in 1 .. run.i} = UNION {own(k) : k \in 1 .. run.i}
      BY <3>2
    <3> QED BY <2>2, <3>1, <3>3 DEF own, ownNext
  <2>4. AllDone'
    BY <1>0, <1>2, MountsStay DEF AllDone
  <2>5. run'.files = run.files
    BY <1>2
  <2> QED BY <1>6, <1>7, <2>1, <2>3, <2>4, <2>5 DEF ReportsFollow
<1>10. run'.i \in 1 .. Len(run.files) + 1
  BY <1>1, <1>2
<1> QED BY <1>0, <1>1, <1>2, <1>7, <1>9, <1>10, DisplayStep

LEMMA EndInv ==
  ASSUME ValidateInv, EndValidate
  PROVE  ValidateInv'
<1>0. /\ RunShape /\ ReportsFollow /\ ValidateTypeOK /\ AllDone
      /\ run.pc = "nodes" /\ run.i > Len(run.files) /\ Exit("0")
      /\ UNCHANGED <<jobs, disk, changed, shifted>>
  BY DEF ValidateInv, EndValidate
<1>1. run' = [pc |-> "done", files |-> run.files, docs |-> run.docs, i |-> run.i,
              failed |-> run.failed, json |-> run.json, reports |-> run.reports, exit |-> "0"]
  BY <1>0, ExitFields
<1>2. Fixed /\ Begun /\ Fixed' /\ Passed'
  BY <1>0, <1>1 DEF Fixed, Passed, Begun
<1>3. run.i = Len(run.files) + 1
  BY <1>0 DEF ValidateTypeOK, RunShape
<1>4. RunShape'
  BY <1>0, <1>1, <1>2 DEF RunShape
<1>5. \A g : Owned(g)' = Owned(g)
  BY <1>0, <1>1, OwnedStays
<1>6. AllDone' /\ Displayed' = Displayed
  BY <1>0, <1>1, MountsStay DEF AllDone, Displayed
<1>7. ReportsFollow'
  BY <1>0, <1>1, <1>2, <1>3, <1>5, <1>6 DEF ReportsFollow
<1>8. run'.i \in 1 .. Len(run.files) + 1
  BY <1>0, <1>1 DEF ValidateTypeOK
<1> QED BY <1>0, <1>1, <1>2, <1>4, <1>7, <1>8, DisplayStep
-----------------------------------------------------------------------------
(* The theorems.                                                           *)

LEMMA ValidateStepInv == ValidateInv /\ [ValidateNext]_validateVars => ValidateInv'
<1> SUFFICES ASSUME ValidateInv, [ValidateNext]_validateVars PROVE ValidateInv'
  OBVIOUS
<1>1. CASE BeginValidate
  BY <1>1, BeginInv
<1>2. CASE UnresolvableStack \/ FilesFail
  <2>1. ~Fixed /\ Exit("1") /\ UNCHANGED <<jobs, disk, changed, shifted>>
    BY <1>2 DEF UnresolvableStack, FilesFail, Fixed, Passed, ValidateInv, RunShape
  <2> QED BY <2>1, EarlyExitInv
<1>3. CASE CheckFile
  BY <1>3, CheckInv
<1>4. CASE InspectNodes
  BY <1>4, InspectInv
<1>5. ASSUME NEW h \in Hosts, TakeHost(h) PROVE ValidateInv'
  BY <1>5, TakeInv
<1>6. ASSUME NEW h \in Hosts, TestPath(h) PROVE ValidateInv'
  BY <1>6, TestInv
<1>7. ASSUME NEW h \in Hosts, StatPath(h) PROVE ValidateInv'
  BY <1>7, StatInv
<1>8. ASSUME NEW h \in Hosts, Break(h) PROVE ValidateInv'
  BY <1>8, BreakInv
<1>9. ASSUME NEW h \in Hosts, DiskChanges(h) PROVE ValidateInv'
  BY <1>9, DiskInv
<1>10. CASE ReportFile
  BY <1>10, ReportInv
<1>11. CASE EndValidate
  BY <1>11, EndInv
<1>12. CASE UNCHANGED validateVars
  <2>1. /\ run' = run /\ jobs' = jobs /\ disk' = disk /\ changed' = changed /\ shifted' = shifted
    BY <1>12 DEF validateVars
  <2>2. ValidateTypeOK' /\ RunShape' /\ DocsChecked'
    BY <2>1 DEF ValidateInv, ValidateTypeOK, RunShape, DocsChecked, Running, Begun, Fixed, Passed,
                IsChecked, FilesAreThere, MountedSecretFiles
  <2>3. \A h \in Hosts : JobFollows(h)'
    BY <2>1, JobStays DEF ValidateInv
  <2>4. ReportsFollow'
    <3>1. /\ \A f : Owned(f)' = Owned(f)
          /\ AllDone' = AllDone /\ Displayed' = Displayed
      BY <2>1, OwnedStays, MountsStay DEF AllDone, Displayed
    <3> QED BY <2>1, <3>1 DEF ReportsFollow, ValidateInv, Fixed, Passed
  <2> QED BY <2>2, <2>3, <2>4 DEF ValidateInv
<1> QED BY <1>1, <1>2, <1>3, <1>4, <1>5, <1>6, <1>7, <1>8, <1>9, <1>10, <1>11, <1>12
        DEF ValidateNext

LEMMA ValidateInvHolds == ValidateSpec => []ValidateInv
BY ValidateInitInv, ValidateStepInv, PTL DEF ValidateSpec

\* The run, the answers of the hosts and the histories keep to what they range over, and
\* no more hosts are asked at a time than there are workers (validate.py:251-254).
THEOREM ValidateTypeCorrect == ValidateSpec => []ValidateTypeOK
<1>1. ValidateInv => ValidateTypeOK
  BY DEF ValidateInv
<1> QED BY <1>1, ValidateInvHolds, PTL

\* A run that ends well has rendered every document it was asked for and found its
\* config files and secrets, in whatever order documents fail (validate.py:183-223).
THEOREM ChecksAreDone == ValidateSpec => []ChecksAreNotSkipped
<1>1. ValidateInv => ChecksAreNotSkipped
  BY DEF ValidateInv, DocsChecked, Fixed, Begun, IsChecked, ChecksAreNotSkipped, ToSet
<1> QED BY <1>1, ValidateInvHolds, PTL

\* What is displayed is of a bind mount of the file that owns it.
LEMMA DisplayedIsOwned ==
  ASSUME ValidateInv, NEW l \in Displayed
  PROVE  /\ Fixed /\ AllDone
         /\ l.node \in Places /\ l.path \in Paths
         /\ <<l.node, l.path>> \in AllNodePaths
         /\ l = [stack |-> Owner(<<l.node, l.path>>), node |-> l.node, path |-> l.path,
                 status |-> Status(l.node, l.path)]
<1>1. RunShape /\ ReportsFollow
  BY DEF ValidateInv
<1>2. run.reports # <<>>
  BY DEF Displayed, ToSet
<1>3. Fixed /\ AllDone /\ Displayed = UNION {Owned(run.files[k]) : k \in 1 .. run.i - 1}
  BY <1>1, <1>2 DEF ReportsFollow
<1>4. PICK f : l \in Owned(f)
  BY <1>3
<1>5. PICK np \in AllNodePaths :
        /\ Owner(np) = f
        /\ l = [stack |-> f, node |-> np[1], path |-> np[2], status |-> Status(np[1], np[2])]
  BY <1>4 DEF Owned
<1>6. np \in Places \X Paths
  <2>1. PICK k \in DOMAIN run.files : np \in NodePaths(run.files[k])
    BY <1>1, MountHasFile
  <2>2. run.files[k] \in Stacks
    BY <1>1 DEF RunShape
  <2> QED BY <1>1, <1>3, <2>1, <2>2, NodePathsType DEF Begun
<1>7. l.node = np[1] /\ l.path = np[2] /\ np = <<l.node, l.path>>
  BY <1>5, <1>6
<1> QED BY <1>3, <1>5, <1>6, <1>7

\* A run that ends well has reported each bind mount exactly once, under a stack that
\* has it, whatever is asked for twice, shared or unreachable (validate.py:256-282).
THEOREM PathsAreReported == ValidateSpec => []EveryPathIsReported
<1> SUFFICES ASSUME ValidateInv, Passed, NEW np \in AllNodePaths
             PROVE  /\ Cardinality({k \in DOMAIN run.reports :
                                      \E l \in run.reports[k] : <<l.node, l.path>> = np}) = 1
                    /\ Cardinality({l \in Displayed : <<l.node, l.path>> = np}) = 1
                    /\ \A l \in Displayed : <<l.node, l.path>> = np => np \in NodePaths(l.stack)
  <2>1. ValidateInv => EveryPathIsReported
    BY DEF EveryPathIsReported
  <2> QED BY <2>1, ValidateInvHolds, PTL
<1>1. RunShape /\ ReportsFollow /\ Fixed /\ Begun
  BY DEF ValidateInv, Fixed, Begun
<1>2. PICK m \in DOMAIN run.files : Owner(np) = run.files[m] /\ np \in NodePaths(run.files[m])
  BY <1>1, OwnerHasIt
<1>3. np \in Places \X Paths
  <2>1. run.files[m] \in Stacks
    BY <1>1 DEF RunShape
  <2> QED BY <1>1, <1>2, <2>1, NodePathsType
<1> DEFINE line == [stack |-> Owner(np), node |-> np[1], path |-> np[2],
                    status |-> Status(np[1], np[2])]
<1>4. line \in Displayed /\ <<line.node, line.path>> = np
  <2>1. line \in Owned(run.files[m])
    BY <1>2, <1>3 DEF Owned
  <2>2. m \in 1 .. run.i - 1
    BY <1>1 DEF ReportsFollow, RunShape
  <2>3. line \in Displayed
    BY <1>1, <2>1, <2>2 DEF ReportsFollow
  <2> QED BY <1>3, <2>3
<1>5. \A l \in Displayed : <<l.node, l.path>> = np => l = line
  <2> SUFFICES ASSUME NEW l \in Displayed, <<l.node, l.path>> = np PROVE l = line
    OBVIOUS
  <2>1. l.node = np[1] /\ l.path = np[2]
    OBVIOUS
  <2>2. l = [stack |-> Owner(<<l.node, l.path>>), node |-> l.node, path |-> l.path,
             status |-> Status(l.node, l.path)]
    BY DisplayedIsOwned
  <2> QED BY <2>1, <2>2
<1> HIDE DEF line
<1>6. {l \in Displayed : <<l.node, l.path>> = np} = {line}
  BY <1>4, <1>5
<1>7. PICK k \in DOMAIN run.reports : line \in run.reports[k]
  BY <1>4 DEF Displayed, ToSet
<1>8. {i \in DOMAIN run.reports : \E l \in run.reports[i] : <<l.node, l.path>> = np} = {k}
  <2>1. \A i \in DOMAIN run.reports : \A l \in run.reports[i] : l \in Displayed
    BY DEF Displayed, ToSet
  <2>2. ASSUME NEW i \in DOMAIN run.reports, NEW l \in run.reports[i], <<l.node, l.path>> = np
        PROVE  i = k
    <3>1. line \in run.reports[i]
      BY <1>5, <2>1, <2>2
    <3>2. i # k => run.reports[i] \cap run.reports[k] = {}
      BY <1>1 DEF ReportsFollow
    <3> QED BY <1>7, <3>1, <3>2
  <2> QED BY <1>4, <1>7, <2>2
<1>9. np \in NodePaths(line.stack)
  BY <1>2 DEF line
<1> QED BY <1>5, <1>6, <1>8, <1>9, FS_Singleton

\* A line answers its path, unless something changed that it depends on.
LEMMA LineIsTrue ==
  ASSUME ValidateInv, NEW l \in Displayed, l.node # Unresolved,
         l.node \notin shifted, <<l.node, l.path>> \notin changed
  PROVE  \/ l.status = "ok" /\ l.path \in disk[l.node]
         \/ l.status = "missing" /\ l.path \notin disk[l.node]
         \/ l.status = "unreachable" /\ jobs[l.node].broke
<1> DEFINE h == l.node
           p == l.path
<1>1. /\ AllDone /\ h \in Hosts /\ p \in PathsOn(h)
      /\ l.status = Status(h, p)
  BY DisplayedIsOwned DEF Places, PathsOn
<1>2. JobFollows(h) /\ jobs[h].pc = "done"
  BY <1>1 DEF ValidateInv, AllDone
<1>3. jobs[h].lines \in Seq({"ok", "missing"})
  BY <1>1, SeqOfIsSeq, PathsFinite DEF ValidateInv, ValidateTypeOK
<1>4. Place(h, p) \in 1..Cardinality(PathsOn(h)) /\ Cardinality(PathsOn(h)) \in Nat
  BY <1>1, PlaceInBounds, PathsFinite
<1>5. CASE Place(h, p) > Len(jobs[h].lines)
  <2>1. jobs[h].broke
    BY <1>2, <1>3, <1>4, <1>5 DEF JobFollows
  <2> QED BY <1>1, <1>5, <2>1 DEF Status
<1>6. CASE ~(Place(h, p) > Len(jobs[h].lines))
  <2>1. Place(h, p) \in 1..Len(jobs[h].lines)
    BY <1>3, <1>4, <1>6
  <2>2. jobs[h].lines[Place(h, p)] \in {"ok", "missing"}
    BY <1>3, <2>1
  <2>3. jobs[h].lines[Place(h, p)] = "ok" <=> p \in disk[h]
    BY <1>1, <1>2, <2>1 DEF JobFollows, LinesTrue
  <2>4. l.status = jobs[h].lines[Place(h, p)]
    BY <1>1, <1>6 DEF Status
  <2> QED BY <2>2, <2>3, <2>4
<1> QED BY <1>5, <1>6

\* A verdict is true of the node's disk, but for what changed meanwhile and for the
\* lines that a vanished file shifted (validate.py:153-156).
THEOREM VerdictsHold == ValidateSpec => []VerdictsAreTrue
<1>1. ASSUME ValidateInv, NEW l \in Displayed, l.node = Unresolved
      PROVE  l.status = "unreachable"
  <2>1. l = [stack |-> Owner(<<l.node, l.path>>), node |-> l.node, path |-> l.path,
             status |-> Status(l.node, l.path)]
    BY <1>1, DisplayedIsOwned
  <2>2. l.status = Status(l.node, l.path)
    BY <2>1
  <2> QED BY <1>1, <2>2 DEF Status
<1>2. ValidateInv => VerdictsAreTrue
  BY <1>1, LineIsTrue DEF VerdictsAreTrue
<1> QED BY <1>2, ValidateInvHolds, PTL
=============================================================================
