------------------------- MODULE ConvergenceProofs --------------------------
(***************************************************************************)
(* The safety properties of verify(), for any services, times and exits,   *)
(* from one inductive invariant with a part for each of them.              *)
(***************************************************************************)
EXTENDS Convergence, FiniteSetTheorems, TLAPS

\* Only the end of a poll sets converged; the lists are empty where they are not used.
Phases ==
  /\ converged => vpc \in {"collect", "judge", "done", "raised"}
  /\ vpc = "start" => underway = {}
  /\ vpc = "done" => low = {}

\* A poll, and with it a sleep, begins before the deadline.
InTime ==
  /\ clock < Timeout + MaxInterval
  /\ vpc \in {"replicas", "exempt", "sleep"} => clock < Timeout
  /\ vpc \in {"collect", "judge", "done"} /\ ~converged => clock >= Timeout

\* What verify() has concluded so far is so, if Swarm stands still and all calls
\* are answered.
Exact ==
  quiet /\ ~blind /\ ~removed =>
    /\ vpc \in {"replicas", "exempt"} => PendingTasks = {}
    /\ vpc = "exempt" => \A s \in Services \ low : Healthy(s)
    /\ converged => PendingTasks = {} /\ \A s \in Services : Healthy(s)
    /\ vpc = "judge" => \A s \in low : ~Running(s)
    /\ vpc \in {"judge", "done"} =>
         /\ {s \in Services : ~Healthy(s)} \subseteq low \cup unhealthy
         /\ unhealthy \subseteq {s \in Services : ~Healthy(s)} \cup Globals

\* The task of this deploy runs, or nothing else does and nothing exempts it.
Exposed(s) == cur[s] = "Running" \/ (~old[s] /\ ~IsTaskComplete(s))

\* A service whose update was underway keeps the poll from succeeding until its
\* task runs.
NoOldNews ==
  ~blind /\ ~removed =>
    /\ \A s \in underway : cur[s] # "none" /\ (cur[s] = "Assigned" => Exposed(s))
    /\ vpc = "replicas" => \A s \in underway : Exposed(s)
    /\ vpc = "exempt" =>
         \A s \in underway : cur[s] = "Running" \/ (s \in low /\ ~IsTaskComplete(s))
    /\ converged => \A s \in underway : cur[s] = "Running"

\* Only a service whose update has begun has a task of this deploy.
BegunFirst == \A s \in Services : cur[s] # "none" => s \in begun

\* The inductive invariant.
Inv == TypeOK /\ Phases /\ InTime /\ Exact /\ BegunFirst /\ NoOldNews

-----------------------------------------------------------------------------
\* The delay between polls grows, up to its limit: it stays a length of time.
LEMMA DelayGrows ==
  ASSUME NEW d \in Interval..MaxInterval
  PROVE  (IF (3 * d) \div 2 < MaxInterval THEN (3 * d) \div 2 ELSE MaxInterval)
           \in Interval..MaxInterval
BY ConvergenceAssumption

\* Before the first poll nothing is concluded.
LEMMA InitInv == Init => Inv
<1> SUFFICES ASSUME Init PROVE Inv
  OBVIOUS
<1> USE ConvergenceAssumption DEF Init
<1>1. TypeOK
  <2>1. old \in [Services -> BOOLEAN] /\ cur \in [Services -> TaskStates]
    BY DEF TaskStates
  <2>2. last \in [Services -> EndStates]
    BY DEF EndStates
  <2>3. clock \in Nat /\ delay \in Interval..MaxInterval /\ exits \in 0..MaxExits
    OBVIOUS
  <2> QED BY <2>1, <2>2, <2>3 DEF TypeOK
<1>2. Phases /\ InTime /\ BegunFirst
  BY DEF Phases, InTime, BegunFirst
<1>3. Exact
  BY DEF Exact
<1>4. NoOldNews
  BY DEF NoOldNews
<1> QED BY <1>1, <1>2, <1>3, <1>4 DEF Inv

\* No step takes a variable out of its type.
LEMMA StepType == TypeOK /\ [Next]_vars => TypeOK'
<1> SUFFICES ASSUME TypeOK, [Next]_vars PROVE TypeOK'
  OBVIOUS
<1> USE ConvergenceAssumption DEF TypeOK, TaskStates, EndStates, Goto, Listed, Changed, stackVars, verifyVars, historyVars
<1>1. ASSUME NEW s \in Services, Begin(s) PROVE TypeOK'
  BY <1>1 DEF Begin
<1>2. ASSUME NEW s \in Services, Prepare(s) PROVE TypeOK'
  BY <1>2 DEF Prepare
<1>3. ASSUME NEW s \in Services, Start(s) PROVE TypeOK'
  BY <1>3 DEF Start
<1>4. ASSUME NEW s \in Services, Exit(s) PROVE TypeOK'
  <2>1. PICK how \in {"Complete", "Failed"} :
          /\ last' = [last EXCEPT ![s] = how]
          /\ cur' = [cur EXCEPT ![s] = IF s \in Inits /\ how = "Complete"
                                         THEN "none" ELSE "Assigned"]
    BY <1>4 DEF Exit
  <2>2. last' \in [Services -> EndStates] /\ cur' \in [Services -> TaskStates]
    BY <2>1
  <2>3. exits' \in 0..MaxExits /\ underway' \subseteq Services
    BY <1>4 DEF Exit
  <2> QED BY <1>4, <2>2, <2>3 DEF Exit
<1>5. CASE RemoveStack
  BY <1>5 DEF RemoveStack
<1>6. CASE StartVerify
  BY <1>6 DEF StartVerify
<1>7. CASE PollTasks
  BY <1>7 DEF PollTasks
<1>8. CASE PollReplicas
  BY <1>8 DEF PollReplicas, BelowDesired
<1>9. CASE PollExempt
  BY <1>9 DEF PollExempt
<1>10. CASE PollConverged
  BY <1>10 DEF PollConverged
<1>11. CASE Sleep
  <2>1. clock' \in Nat
    BY <1>11 DEF Sleep
  <2>2. delay' \in Interval..MaxInterval
    BY <1>11, DelayGrows DEF Sleep
  <2> QED BY <1>11, <2>1, <2>2 DEF Sleep
<1>12. CASE PollTimesOut
  BY <1>12 DEF PollTimesOut
<1>13. CASE Collect
  BY <1>13 DEF Collect, BelowDesired
<1>14. CASE Judge
  BY <1>14 DEF Judge
<1>15. CASE Verdict
  BY <1>15 DEF Verdict
<1>16. CASE ServicesFail
  BY <1>16 DEF ServicesFail
<1>17. CASE UNCHANGED vars
  BY <1>17 DEF vars
<1> QED
  BY <1>1, <1>2, <1>3, <1>4, <1>5, <1>6, <1>7, <1>8, <1>9, <1>10, <1>11, <1>12, <1>13,
     <1>14, <1>15, <1>16, <1>17 DEF Next, SwarmStep, VerifyStep

\* Swarm touches nothing of verify(), and ends the quiet.
LEMMA SwarmIsLoud ==
  ASSUME SwarmStep
  PROVE  ~quiet' /\ UNCHANGED <<verifyVars, blind>>
BY DEF SwarmStep, RemoveStack, Begin, Prepare, Start, Exit, Changed

\* What Swarm does between two calls: only a conclusion about a quiet swarm could suffer.
LEMMA SwarmInv == ASSUME Inv, SwarmStep PROVE Phases' /\ InTime' /\ Exact' /\ BegunFirst' /\ NoOldNews'
<1> USE DEF Inv, TypeOK
<1>1. UNCHANGED verifyVars /\ UNCHANGED blind /\ ~quiet'
  BY SwarmIsLoud
<1>2. underway' \subseteq underway
  BY DEF SwarmStep, RemoveStack, Begin, Prepare, Start, Exit
<1>3. Phases'
  BY <1>1, <1>2 DEF Phases, verifyVars
<1>4. InTime' /\ Exact'
  BY <1>1 DEF InTime, Exact, verifyVars
<1>5. BegunFirst'
  BY DEF BegunFirst, SwarmStep, RemoveStack, Begin, Prepare, Start, Exit
<1>6. NoOldNews'
  <2>1. CASE RemoveStack
    BY <2>1 DEF RemoveStack, NoOldNews
  <2> USE <1>1 DEF NoOldNews, Exposed, IsTaskComplete, verifyVars
  <2>2. ASSUME NEW s \in Services, Begin(s) PROVE NoOldNews'
    <3>1. ~blind /\ ~removed => s \notin underway
      BY <2>2 DEF Begin, BegunFirst
    <3>2. \A q \in Services \ {s} : cur'[q] = cur[q] /\ old'[q] = old[q] /\ last'[q] = last[q]
      BY <2>2 DEF Begin
    <3>3. UNCHANGED <<removed, underway>>
      BY <2>2 DEF Begin
    <3> QED BY <3>1, <3>2, <3>3
  <2>3. ASSUME NEW s \in Services, Prepare(s) PROVE NoOldNews'
    BY <2>3 DEF Prepare
  <2>4. ASSUME NEW s \in Services, Start(s) PROVE NoOldNews'
    BY <2>4 DEF Start
  <2>5. ASSUME NEW s \in Services, Exit(s) PROVE NoOldNews'
    <3>1. \A q \in Services \ {s} : cur'[q] = cur[q] /\ old'[q] = old[q] /\ last'[q] = last[q]
      BY <2>5 DEF Exit
    <3>2. UNCHANGED removed /\ underway' = underway \ {s}
      BY <2>5 DEF Exit
    <3> QED BY <3>1, <3>2
  <2> QED BY <2>1, <2>2, <2>3, <2>4, <2>5 DEF SwarmStep
<1> QED BY <1>3, <1>4, <1>5, <1>6

\* Each step of verify() concludes what its calls have shown.
LEMMA VerifyInv == ASSUME Inv, VerifyStep PROVE Phases' /\ InTime' /\ Exact' /\ BegunFirst' /\ NoOldNews'
<1> DEFINE Goal == Phases' /\ InTime' /\ Exact' /\ BegunFirst' /\ NoOldNews'
<1> USE ConvergenceAssumption
    DEF Inv, TypeOK, Goto, Listed, stackVars, historyVars, Healthy, Running, IsTaskComplete,
        PendingTasks, BelowDesired
<1>1. BegunFirst'
  BY DEF BegunFirst, VerifyStep, StartVerify, PollTasks, PollReplicas, PollExempt, PollConverged,
         Sleep, PollTimesOut, Collect, Judge, Verdict, ServicesFail
<1>2. CASE StartVerify
  BY <1>1, <1>2 DEF StartVerify, Phases, InTime, Exact, NoOldNews, Exposed, Underway
<1>3. CASE PollTasks
  <2>1. Phases' /\ InTime'
    BY <1>3 DEF PollTasks, Phases, InTime
  <2>2. PICK answered \in BOOLEAN :
          /\ blind' = (blind \/ ~answered)
          /\ vpc' = IF answered /\ PendingTasks # {} THEN "sleep" ELSE "replicas"
    BY <1>3 DEF PollTasks
  <2>3. ~converged
    BY <1>3 DEF PollTasks, Phases
  <2>4. UNCHANGED <<old, cur, last, begun, removed, converged, underway, quiet, low, unhealthy>>
    BY <1>3 DEF PollTasks
  <2>5. ~blind' => (vpc' \in {"replicas", "sleep"}) /\ (vpc' = "replicas" => PendingTasks = {})
    BY <2>2
  <2>6. Exact'
    BY <2>2, <2>3, <2>4, <2>5 DEF Exact
  <2>7. NoOldNews'
    <3>1. CASE blind' \/ removed
      BY <3>1, <2>4 DEF NoOldNews
    <3>2. CASE ~blind' /\ ~removed
      <4>1. \A s \in underway : cur[s] # "none" /\ (cur[s] = "Assigned" => Exposed(s))
        BY <3>2, <2>2 DEF NoOldNews
      <4>2. vpc' = "replicas" => \A s \in underway : Exposed(s)
        BY <4>1, <2>5, <3>2 DEF TaskStates, Exposed
      <4> QED BY <4>1, <4>2, <2>2, <2>3, <2>4 DEF NoOldNews, Exposed
    <3> QED BY <3>1, <3>2
  <2> QED BY <1>1, <2>1, <2>6, <2>7
<1>4. CASE PollReplicas
  BY <1>1, <1>4 DEF PollReplicas, Phases, InTime, Exact, NoOldNews, Exposed
<1>5. CASE PollExempt
  BY <1>1, <1>5 DEF PollExempt, Phases, InTime, Exact, NoOldNews, Exposed
<1>6. CASE PollConverged
  BY <1>1, <1>6 DEF PollConverged, Phases, InTime, Exact, NoOldNews, Exposed
<1>7. CASE Sleep
  BY <1>1, <1>7 DEF Sleep, Phases, InTime, Exact, NoOldNews, Exposed
<1>8. CASE PollTimesOut
  BY <1>1, <1>8 DEF PollTimesOut, Phases, InTime, Exact, NoOldNews, Exposed
<1>9. CASE Collect
  BY <1>1, <1>9 DEF Collect, Phases, InTime, Exact, NoOldNews, Exposed
<1>10. CASE Judge
  BY <1>1, <1>10 DEF Judge, Phases, InTime, Exact, NoOldNews, Exposed
<1>11. CASE Verdict
  BY <1>1, <1>11 DEF Verdict, Phases, InTime, Exact, NoOldNews, Exposed
<1>12. CASE ServicesFail
  BY <1>1, <1>12 DEF ServicesFail, Phases, InTime, Exact, NoOldNews, Exposed
<1> QED
  BY <1>2, <1>3, <1>4, <1>5, <1>6, <1>7, <1>8, <1>9, <1>10, <1>11, <1>12 DEF VerifyStep

\* The invariant is inductive.
LEMMA StepInv == Inv /\ [Next]_vars => Inv'
<1> SUFFICES ASSUME Inv, [Next]_vars PROVE Inv'
  OBVIOUS
<1>1. TypeOK'
  BY StepType DEF Inv
<1>2. CASE SwarmStep
  BY <1>1, <1>2, SwarmInv DEF Inv
<1>3. CASE VerifyStep
  BY <1>1, <1>3, VerifyInv DEF Inv
<1>4. CASE UNCHANGED vars
  BY <1>1, <1>4 DEF Inv, Phases, InTime, Exact, BegunFirst, NoOldNews, Exposed, vars, stackVars,
     verifyVars, historyVars, Healthy, Running, IsTaskComplete, PendingTasks
<1> QED BY <1>2, <1>3, <1>4 DEF Next

\* It holds of every state of the specification.
LEMMA Invariance == Spec => []Inv
BY InitInv, StepInv, PTL DEF Spec

-----------------------------------------------------------------------------
\* The variables of verify(), its clock and delay among them, keep their types.
THEOREM VerifyTypeCorrect == Spec => []TypeOK
<1>1. Inv => TypeOK
  BY DEF Inv
<1> QED BY <1>1, Invariance, PTL

\* The poll gives up in time, whatever the timeout and the sleeps are.
THEOREM VerdictComesInTime == Spec => []VerdictInTime
<1>1. Inv => VerdictInTime
  BY DEF Inv, InTime, VerdictInTime
<1> QED BY <1>1, Invariance, PTL

\* If Swarm stands still and every call is answered, verify() (convergence.py) reports
\* the services that do not run, no others.
THEOREM VerdictIsExact == Spec => []QuietVerdictIsExact
<1>1. Inv => QuietVerdictIsExact
  BY DEF Inv, Phases, InTime, Exact, QuietVerdictIsExact
<1> QED BY <1>1, Invariance, PTL

\* verify() succeeds only when the tasks of this deploy run, also if tasks of an
\* earlier one still did when it began.
THEOREM SuccessIsNews == Spec => []SuccessMeansRunning
<1>1. Inv => SuccessMeansRunning
  BY DEF Inv, NoOldNews, SuccessMeansRunning, Succeeded
<1> QED BY <1>1, Invariance, PTL

-----------------------------------------------------------------------------
(* The countdown of verify().                                              *)

\* The sets verify() works off are finite, and taking a service out makes one fewer.
LEMMA Sizes ==
  ASSUME NEW T \in SUBSET Services
  PROVE  /\ Cardinality(Services) \in Nat /\ Cardinality(T) \in Nat
         /\ Cardinality(T) <= Cardinality(Services)
         /\ \A s \in T : Cardinality(T \ {s}) = Cardinality(T) - 1
         /\ T = {} => Cardinality(T) = 0
<1>1. IsFiniteSet(T) /\ Cardinality(T) <= Cardinality(Services)
  BY FiniteAssumption, FS_Subset
<1>2. Cardinality(Services) \in Nat /\ Cardinality(T) \in Nat
  BY <1>1, FiniteAssumption, FS_CardinalityType
<1>3. ASSUME NEW s \in T
      PROVE  Cardinality(T \ {s}) = Cardinality(T) - 1
  BY <1>1, <1>3, FS_RemoveElement
<1>4. T = {} => Cardinality(T) = 0
  BY FS_EmptySet
<1> QED BY <1>1, <1>2, <1>3, <1>4

\* What verify() has left is a pair of numbers, as no sleep ends after its limit.
LEMMA LeftIsNumbers ==
  ASSUME Inv
  PROVE  VerifyLeft \in Nat \X Nat
<1> DEFINE Time == 1 + Timeout + MaxInterval - clock
           All == Cardinality(Services)
           Low == Cardinality(low)
<1>1. Time \in Nat /\ Time > 0
  BY ConvergenceAssumption DEF Inv, TypeOK, InTime
<1>2. low \in SUBSET Services
  BY DEF Inv, TypeOK
<1>3. All \in Nat /\ Low \in Nat
  BY <1>2, Sizes
<1>4. VerifyLeft \in {<<Time + 1, 0>>, <<Time, 3 + All>>, <<Time, 2 + All>>, <<Time, 1 + Low>>,
                      <<Time, 0>>, <<0, 2 + All>>, <<0, 1 + Low>>, <<0, 0>>}
  BY DEF VerifyLeft
<1> HIDE DEF Time, All, Low
<1> QED BY <1>1, <1>3, <1>4

\* Each call of the poll and of the report, and each sleep, lowers it.
LEMMA VerifyStepAdvances ==
  ASSUME Inv, VerifyStep
  PROVE  Lower(VerifyLeft', VerifyLeft)
<1> DEFINE Time == 1 + Timeout + MaxInterval - clock
           All == Cardinality(Services)
           Low == Cardinality(low)
<1>1. Time \in Nat /\ Time > 0
  BY ConvergenceAssumption DEF Inv, TypeOK, InTime
<1>2. low \in SUBSET Services
  BY DEF Inv, TypeOK
<1>3. All \in Nat /\ Low \in Nat /\ \A s \in low : Cardinality(low \ {s}) = Low - 1
  BY <1>2, Sizes
<1>4. Cardinality(BelowDesired) \in Nat /\ Cardinality(BelowDesired) <= All
  <2>1. BelowDesired \in SUBSET Services
    BY DEF BelowDesired
  <2> QED BY <2>1, Sizes
<1> USE DEF Goto, Lower
<1>5. CASE StartVerify
  <2>1. VerifyLeft = <<Time + 1, 0>> /\ VerifyLeft' = <<Time, 3 + All>>
    BY <1>5 DEF StartVerify, VerifyLeft
  <2> HIDE DEF Time, All
  <2> QED BY <1>1, <2>1
<1>6. CASE PollTasks
  <2>1. VerifyLeft = <<Time, 3 + All>>
    BY <1>6 DEF PollTasks, VerifyLeft
  <2>2. VerifyLeft' = <<Time, 0>> \/ VerifyLeft' = <<Time, 2 + All>>
    BY <1>6 DEF PollTasks, VerifyLeft
  <2> HIDE DEF Time, All
  <2> QED BY <1>1, <1>3, <2>1, <2>2
<1>7. CASE PollReplicas
  <2>1. VerifyLeft = <<Time, 2 + All>>
    BY <1>7 DEF PollReplicas, VerifyLeft
  <2>2. VerifyLeft' = <<Time, 0>> \/ VerifyLeft' = <<Time, 1 + Cardinality(BelowDesired)>>
    BY <1>7 DEF PollReplicas, VerifyLeft
  <2> HIDE DEF Time, All
  <2> QED BY <1>1, <1>3, <1>4, <2>1, <2>2
<1>8. CASE PollExempt
  <2>1. VerifyLeft = <<Time, 1 + Low>>
    BY <1>8 DEF PollExempt, VerifyLeft
  <2>2. VerifyLeft' = <<Time, 0>> \/ VerifyLeft' = <<Time, 1 + (Low - 1)>>
    BY <1>3, <1>8 DEF PollExempt, VerifyLeft
  <2> HIDE DEF Time, Low
  <2> QED BY <1>1, <1>3, <2>1, <2>2
<1>9. CASE PollConverged \/ PollTimesOut
  <2>1. VerifyLeft[1] = Time /\ VerifyLeft'[1] = 0
    BY <1>9 DEF PollConverged, PollTimesOut, VerifyLeft
  <2> HIDE DEF Time
  <2> QED BY <1>1, <2>1
<1>10. CASE Sleep
  <2>1. VerifyLeft = <<Time, 0>>
    BY <1>10 DEF Sleep, VerifyLeft
  <2>2. VerifyLeft' = <<1 + Timeout + MaxInterval - (clock + delay), 3 + All>>
    BY <1>10 DEF Sleep, VerifyLeft
  <2>3. clock \in Nat /\ delay \in Nat /\ delay > 0 /\ Timeout \in Nat /\ MaxInterval \in Nat
    BY ConvergenceAssumption DEF Inv, TypeOK
  <2>4. 1 + Timeout + MaxInterval - (clock + delay) < Time
    BY <2>3
  <2> QED BY <2>1, <2>2, <2>4
<1>11. CASE Collect
  <2>1. VerifyLeft = <<0, 2 + All>>
    BY <1>11 DEF Collect, VerifyLeft
  <2>2. low' \in SUBSET Services /\ VerifyLeft' = <<0, 1 + Cardinality(low')>>
    BY <1>11 DEF Collect, VerifyLeft, BelowDesired
  <2>3. Cardinality(low') \in Nat /\ Cardinality(low') <= All
    BY <2>2, Sizes
  <2> HIDE DEF All
  <2> QED BY <1>3, <2>1, <2>2, <2>3
<1>12. CASE Judge
  <2>1. VerifyLeft = <<0, 1 + Low>>
    BY <1>12 DEF Judge, VerifyLeft
  <2>2. VerifyLeft' = <<0, 1 + (Low - 1)>>
    BY <1>3, <1>12 DEF Judge, VerifyLeft
  <2> HIDE DEF Low
  <2> QED BY <1>3, <2>1, <2>2
<1>13. CASE Verdict
  <2>1. VerifyLeft = <<0, 1 + Low>> /\ VerifyLeft' = <<0, 0>>
    BY <1>13 DEF Verdict, VerifyLeft
  <2> HIDE DEF Low
  <2> QED BY <1>3, <2>1
<1>14. CASE ServicesFail
  <2>1. VerifyLeft \in {<<Time, 2 + All>>, <<0, 2 + All>>} /\ VerifyLeft' = <<0, 0>>
    BY <1>14 DEF ServicesFail, VerifyLeft
  <2> HIDE DEF Time, All
  <2> QED BY <1>1, <1>3, <2>1
<1> QED BY <1>5, <1>6, <1>7, <1>8, <1>9, <1>10, <1>11, <1>12, <1>13, <1>14 DEF VerifyStep

\* Swarm does not touch what verify() keeps.
LEMMA SwarmLeavesCountdown ==
  ASSUME SwarmStep
  PROVE  VerifyLeft' = VerifyLeft
<1>1. UNCHANGED verifyVars
  BY DEF SwarmStep, RemoveStack, Begin, Prepare, Start, Exit, Changed
<1> QED BY <1>1 DEF verifyVars, VerifyLeft

\* Each step of verify() brings it nearer its verdict, whatever Swarm does meanwhile,
\* for any services, timeout and intervals.
THEOREM VerifyCountsDown == Spec => VerifyAdvances
<1> DEFINE Advance == IF VerifyStep THEN Lower(VerifyLeft', VerifyLeft)
                                    ELSE VerifyLeft' = VerifyLeft
<1>1. ASSUME Inv, [Next]_vars
      PROVE  [Advance]_vars
  <2>1. CASE UNCHANGED vars
    BY <2>1
  <2>2. CASE Next
    BY <1>1, <2>2, VerifyStepAdvances, SwarmLeavesCountdown DEF Next
  <2> QED BY <1>1, <2>1, <2>2
<1> HIDE DEF Advance
<1>2. VerifyAdvances <=> [][Advance]_vars
  BY DEF VerifyAdvances, Advance
<1> QED BY <1>1, <1>2, Invariance, PTL DEF Spec

\* Of pairs of natural numbers no sequence goes down for ever.
LEMMA DescentEnds ==
  \A f \in [Nat -> Nat \X Nat] : \E n \in Nat : ~Lower(f[n + 1], f[n])
<1> DEFINE Less == {ss \in Nat \X Nat : ss[1] < ss[2]}
           Lex == LexPairOrdering(Less, Less, Nat, Nat)
<1>1. OpToRel(<, Nat) = Less
  BY Zenon DEF OpToRel
<1>2. IsWellFoundedOn(Less, Nat)
  BY <1>1, NatLessThanWellFounded, Zenon
<1> HIDE DEF Less
<1>3. IsWellFoundedOn(Lex, Nat \X Nat)
  BY <1>2, WFLexPairOrdering
<1>4. ASSUME NEW a \in Nat \X Nat, NEW b \in Nat \X Nat, Lower(a, b)
      PROVE  <<a, b>> \in Lex
  <2> DEFINE p == <<a, b>>
  <2>1. /\ p \in (Nat \X Nat) \X (Nat \X Nat)
        /\ p[1][1] = a[1] /\ p[2][1] = b[1] /\ p[1][2] = a[2] /\ p[2][2] = b[2]
    OBVIOUS
  <2>2. a[1] \in Nat /\ a[2] \in Nat /\ b[1] \in Nat /\ b[2] \in Nat
    OBVIOUS
  <2>3. \/ <<a[1], b[1]>> \in Less
        \/ a[1] = b[1] /\ <<a[2], b[2]>> \in Less
    BY <1>4, <2>2 DEF Lower, Less
  <2> HIDE DEF p
  <2>4. p \in Lex
    BY <2>1, <2>3 DEF LexPairOrdering
  <2> QED BY <2>4 DEF p
<1>5. ASSUME NEW f \in [Nat -> Nat \X Nat]
      PROVE  \E n \in Nat : ~Lower(f[n + 1], f[n])
  <2>1. PICK n \in Nat : <<f[n + 1], f[n]>> \notin Lex
    BY <1>3 DEF IsWellFoundedOn
  <2>2. f[n + 1] \in Nat \X Nat /\ f[n] \in Nat \X Nat
    OBVIOUS
  <2> QED BY <1>4, <2>1, <2>2
<1> QED BY <1>5

\* What it has left is in every state a pair of natural numbers, which cannot be lowered
\* for ever: verify() makes finitely many calls, although Swarm may never settle.
THEOREM VerifyIsNotEndless ==
  /\ Spec => [](VerifyLeft \in Nat \X Nat)
  /\ Spec => VerifyAdvances
  /\ \A f \in [Nat -> Nat \X Nat] : \E n \in Nat : ~Lower(f[n + 1], f[n])
<1>1. Spec => [](VerifyLeft \in Nat \X Nat)
  <2>1. Inv => VerifyLeft \in Nat \X Nat
    BY LeftIsNumbers
  <2> QED BY <2>1, Invariance, PTL
<1> QED BY <1>1, VerifyCountsDown, DescentEnds
=============================================================================
