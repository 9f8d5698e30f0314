-------------------------- MODULE ForwarderProofs ---------------------------
(***************************************************************************)
(* The safety properties of Forwarder, for any mails, rules, tasks and     *)
(* faults.  Inv gives the types and that marking comes last; CopiedFirst   *)
(* is about moves; Listed and Repeating hold where mails are not moved.    *)
(***************************************************************************)
EXTENDS Forwarder, FiniteSetTheorems, WellFoundedInduction, TLAPS

\* Mails can be counted.
LEMMA MailSetsAreFinite ==
  ASSUME NEW S \in SUBSET Mails
  PROVE  IsFiniteSet(S) /\ Cardinality(S) \in 0..N
<1>1. IsFiniteSet(Mails) /\ Cardinality(Mails) = N
  BY FS_Interval, ForwarderAssumption DEF Mails
<1>2. IsFiniteSet(S) /\ Cardinality(S) <= N
  BY <1>1, FS_Subset
<1>3. Cardinality(S) \in Nat
  BY <1>2, FS_CardinalityType
<1> QED BY <1>2, <1>3, ForwarderAssumption

\* A number on a list is one of a mail.
LEMMA RankType ==
  ASSUME NEW S \in SUBSET Mails, NEW m \in S
  PROVE  Rank(S, m) \in 1..N
<1> DEFINE T == {x \in S : x <= m}
<1>1. IsFiniteSet(T) /\ Cardinality(T) \in 0..N
  BY MailSetsAreFinite
<1>2. m \in T
  BY DEF Mails
<1>3. Cardinality(T) # 0
  BY <1>1, <1>2, FS_EmptySet
<1> QED BY <1>1, <1>3, ForwarderAssumption DEF Rank

\* As long as the session's mails stay the same, a number names one mail.
LEMMA RankIsInjective ==
  ASSUME NEW S \in SUBSET Mails, NEW m \in S, NEW n \in S, Rank(S, m) = Rank(S, n)
  PROVE  m = n
<1> DEFINE Upto(k) == {x \in S : x <= k}
<1>1. ASSUME NEW a \in S, NEW b \in S, a < b
      PROVE  Rank(S, a) # Rank(S, b)
  <2>0. \A x \in S : x \in Int
    BY DEF Mails
  <2>1. Upto(a) \subseteq Upto(b) /\ b \in Upto(b) /\ b \notin Upto(a)
    BY <1>1, <2>0
  <2>2. IsFiniteSet(Upto(b))
    BY MailSetsAreFinite
  <2>3. Cardinality(Upto(a)) = Cardinality(Upto(b)) => Upto(a) = Upto(b)
    BY <2>1, <2>2, FS_Subset
  <2> QED BY <2>1, <2>3 DEF Rank
<1>2. m \in Nat /\ n \in Nat
  BY DEF Mails
<1>3. CASE m < n
  BY <1>1, <1>3
<1>4. CASE n < m
  BY <1>1, <1>4
<1> QED BY <1>2, <1>3, <1>4

-----------------------------------------------------------------------------
\* The mail in hand matches a rule and was in the mailbox, and every send that is not
\* left to do was attempted.
Acting(p) ==
  pc[p] = "act" =>
    /\ cycle[p].cur \in Matching /\ cycle[p].cur \in 1..arrived
    /\ {cycle[p].cur} \X (Work(cycle[p].cur) \ cycle[p].todo) \subseteq tried

\* A session knows no mail that has not arrived.
Known(p) == cycle[p].view \subseteq 1..arrived

Attending == \A p \in Tasks : Acting(p) /\ Known(p)

\* The sends for a mail are known ones.
LEMMA WorkType == \A m \in Matching : Work(m) \subseteq Jobs
BY ForwarderAssumption DEF Work

\* No more mails arrive than the bound says.
LEMMA ArrivedAreMails == TypeOK => 1..arrived \subseteq Mails
BY ForwarderAssumption DEF TypeOK, Mails

\* A search finds unread mails that the session knows of.
LEMMA FoundIsUnread ==
  ASSUME TypeOK, NEW p \in Tasks
  PROVE  Batch(Unread(p)) \subseteq (cycle[p].view \cap inbox) \ seen
BY DEF Batch, Unread

\* A list of numbers is one of mails.
LEMMA ListType ==
  ASSUME TypeOK, NEW p \in Tasks, NEW S \in SUBSET cycle[p].view
  PROVE  {Rank(cycle[p].view, m) : m \in S} \subseteq Mails
<1>1. cycle[p].view \in SUBSET Mails
  BY DEF TypeOK, Cycles
<1> QED BY <1>1, RankType DEF Mails

\* Assignments to the local variables of a cycle keep their types.
LEMMA SetView ==
  ASSUME NEW f \in [Tasks -> Cycles], NEW p \in Tasks, NEW S \in SUBSET Mails
  PROVE  [f EXCEPT ![p].view = S] \in [Tasks -> Cycles]
BY DEF Cycles

\* The same.
LEMMA SetIds ==
  ASSUME NEW f \in [Tasks -> Cycles], NEW p \in Tasks, NEW S \in SUBSET Mails
  PROVE  [f EXCEPT ![p].ids = S] \in [Tasks -> Cycles]
BY DEF Cycles

\* The same.
LEMMA SetTodo ==
  ASSUME NEW f \in [Tasks -> Cycles], NEW p \in Tasks, NEW J \in SUBSET Jobs
  PROVE  [f EXCEPT ![p].todo = J] \in [Tasks -> Cycles]
BY DEF Cycles

\* The same.
LEMMA SetList ==
  ASSUME NEW f \in [Tasks -> Cycles], NEW p \in Tasks, NEW R \in SUBSET Mails, NEW S \in SUBSET Mails
  PROVE  [f EXCEPT ![p].ids = R, ![p].found = S] \in [Tasks -> Cycles]
BY DEF Cycles

\* The same.
LEMMA SetFetched ==
  ASSUME NEW f \in [Tasks -> Cycles], NEW p \in Tasks, NEW S \in SUBSET Mails,
         NEW k \in 0..N, NEW m \in 0..N, NEW J \in SUBSET Jobs
  PROVE  [f EXCEPT ![p].ids = S, ![p].n = k, ![p].cur = m, ![p].todo = J] \in [Tasks -> Cycles]
<1> DEFINE g == [f EXCEPT ![p].ids = S, ![p].n = k, ![p].cur = m, ![p].todo = J]
<1>1. DOMAIN g = Tasks /\ \A q \in Tasks \ {p} : g[q] = f[q]
  OBVIOUS
<1>2. g[p] = [view |-> f[p].view, ids |-> S, n |-> k, cur |-> m, todo |-> J, found |-> f[p].found]
  BY DEF Cycles
<1>3. g[p] \in Cycles
  BY <1>2 DEF Cycles
<1>4. g = [q \in Tasks |-> g[q]]
  OBVIOUS
<1> HIDE DEF g
<1>5. g \in [Tasks -> Cycles]
  BY <1>1, <1>3, <1>4
<1> QED BY <1>5 DEF g

\* The same.
LEMMA SetDone ==
  ASSUME NEW f \in [Tasks -> Cycles], NEW p \in Tasks, NEW k \in 0..N, NEW m \in 0..N, NEW J \in SUBSET Jobs
  PROVE  [f EXCEPT ![p].n = k, ![p].cur = m, ![p].todo = J] \in [Tasks -> Cycles]
BY DEF Cycles

\* The same.
LEMMA SetExpunged ==
  ASSUME NEW f \in [Tasks -> Cycles], NEW p \in Tasks, NEW S \in SUBSET Mails, NEW k \in 0..N, NEW m \in 0..N
  PROVE  [f EXCEPT ![p].view = S, ![p].n = k, ![p].cur = m] \in [Tasks -> Cycles]
BY DEF Cycles

\* The types at first: an empty mailbox and one task.
LEMMA InitType == Init => TypeOK
<1> SUFFICES ASSUME Init PROVE TypeOK
  OBVIOUS
<1>1. NoCycle \in Cycles
  BY ForwarderAssumption DEF NoCycle, Cycles
<1>2. pc \in [Tasks -> {"absent", "down"}]
  BY DEF Init
<1>3. 1..arrived = {}
  BY DEF Init
<1>4. arrived \in 0..N /\ faults \in 0..MaxFaults
  BY ForwarderAssumption DEF Init
<1>5. conn \in [Tasks -> {"none", "up", "dead"}] /\ cycle \in [Tasks -> Cycles]
  BY <1>1 DEF Init
<1> QED BY <1>2, <1>3, <1>4, <1>5 DEF Init, TypeOK

\* What others do to the mailbox, the connections and the tasks keeps the types.
LEMMA EnvironmentType ==
  ASSUME TypeOK, Attending, Environment
  PROVE  TypeOK'
<1> USE ForwarderAssumption DEF TypeOK, Fault, Goto, historyVars, mailboxVars
<1>1. NoCycle \in Cycles
  BY DEF NoCycle, Cycles
<1>2. CASE Arrive
  BY <1>2 DEF Arrive, Mails
<1>3. ASSUME NEW m \in Mails, OwnerReads(m) PROVE TypeOK'
  BY <1>3 DEF OwnerReads
<1>4. ASSUME NEW p \in Tasks, Drop(p) PROVE TypeOK'
  BY <1>4 DEF Drop
<1>5. ASSUME NEW p \in Tasks, StartNext(p) PROVE TypeOK'
  BY <1>5 DEF StartNext
<1>6. ASSUME NEW p \in Tasks, Terminate(p) PROVE TypeOK'
  BY <1>6 DEF Terminate
<1>7. ASSUME NEW p \in Tasks, Kill(p) PROVE TypeOK'
  <2>1. risked' \subseteq 1..arrived
    BY <1>7 DEF Kill, Attending, Acting
  <2>2. cycle' \in [Tasks -> Cycles]
    BY <1>7, <1>1 DEF Kill
  <2> QED BY <1>7, <2>1, <2>2 DEF Kill
<1> QED BY <1>2, <1>3, <1>4, <1>5, <1>6, <1>7 DEF Environment

\* So does each step of a task, given that it attends to what it has in hand.
LEMMA StepOfTaskType ==
  ASSUME TypeOK, Attending, NEW p \in Tasks, ForwarderStep(p)
  PROVE  TypeOK'
<1> USE DEF TypeOK, Fault, NoFault, Goto, historyVars, mailboxVars
<1>0. NoCycle \in Cycles /\ 1..arrived \subseteq Mails /\ 0 \in 0..N /\ {} \in SUBSET Jobs
  BY ArrivedAreMails, ForwarderAssumption DEF NoCycle, Cycles
<1>b. MaxFaults \in Nat /\ N \in Nat
  BY ForwarderAssumption
<1> USE <1>b
<1>a. cycle[p].view \in SUBSET Mails /\ cycle[p].ids \in SUBSET Mails /\ cycle[p].todo \in SUBSET Jobs
  BY DEF Cycles
<1>1. CASE Start(p)
  BY <1>1 DEF Start
<1>2. CASE GetImap(p)
  BY <1>2 DEF GetImap
<1>3. CASE CycleFails(p)
  BY <1>0, <1>3 DEF CycleFails
<1>4. CASE Exit(p)
  BY <1>4 DEF Exit
<1>5. CASE Select(p)
  <2>1. cycle' \in [Tasks -> Cycles]
    BY <1>0, <1>5, SetView DEF Select
  <2> QED BY <1>5, <2>1 DEF Select
<1>6. CASE Search(p)
  <2> DEFINE S == Batch(Unread(p))
             R == {Rank(cycle[p].view, m) : m \in S}
  <2>1. S \subseteq cycle[p].view /\ S \subseteq inbox
    BY FoundIsUnread
  <2>2. R \subseteq Mails
    BY <2>1, ListType
  <2>3. cycle' = [cycle EXCEPT ![p].ids = R, ![p].found = S]
    BY <1>6 DEF Search, List
  <2>4. risked' \subseteq 1..arrived
    <3>1. risked' = risked \cup (S \cap InOtherHands(p)) /\ UNCHANGED arrived
      BY <1>6 DEF Search
    <3> QED BY <2>1, <3>1
  <2>5. S \subseteq Mails
    BY <1>0, <2>1
  <2> HIDE DEF S, R
  <2>6. cycle' \in [Tasks -> Cycles]
    BY <1>0, <2>2, <2>3, <2>5, SetList
  <2> QED BY <1>6, <2>4, <2>6 DEF Search
<1>7. CASE SearchRefused(p)
  BY <1>0, <1>7 DEF SearchRefused
<1>8. CASE Fetch(p)
  <2> DEFINE k == First(cycle[p].ids)
  <2>1. PICK m \in Fetched(p) :
          IF m \in Matching
          THEN /\ cycle' = [cycle EXCEPT ![p].ids = @ \ {k}, ![p].n = k,
                                        ![p].cur = m, ![p].todo = Work(m)]
               /\ Goto(p, "act")
          ELSE /\ cycle' = [cycle EXCEPT ![p].ids = @ \ {k}]
               /\ UNCHANGED pc
    BY <1>8 DEF Fetch
  <2>k. m \in At(cycle[p].view, k)
    BY DEF Fetched
  <2> HIDE DEF k
  <2>2. m \in Mails
    BY <1>0 DEF Fetched
  <2>3. CASE m \in Matching
    <3>1. Work(m) \in SUBSET Jobs
      BY <2>3, WorkType
    <3>2. k \in 0..N
      <4>1. At(cycle[p].view, k) # {}
        BY <2>k
      <4>2. PICK x \in cycle[p].view : Rank(cycle[p].view, x) = k
        BY <4>1 DEF At
      <4>3. cycle[p].view \in SUBSET Mails
        BY DEF Cycles
      <4> QED BY <4>2, <4>3, RankType
    <3>3. cycle' \in [Tasks -> Cycles]
      <4>1. cycle[p].ids \ {k} \in SUBSET Mails /\ m \in 0..N
        BY <1>a, <2>2 DEF Mails
      <4>2. cycle' = [cycle EXCEPT ![p].ids = cycle[p].ids \ {k}, ![p].n = k,
                                   ![p].cur = m, ![p].todo = Work(m)]
        BY <2>1, <2>3
      <4> QED BY <4>1, <4>2, <3>1, <3>2, SetFetched
    <3> QED BY <1>8, <2>1, <2>3, <3>3 DEF Fetch
  <2>4. CASE m \notin Matching
    <3>1. cycle' \in [Tasks -> Cycles]
      <4>1. cycle[p].ids \ {k} \in SUBSET Mails
        BY <1>a
      <4>2. cycle' = [cycle EXCEPT ![p].ids = cycle[p].ids \ {k}]
        BY <2>1, <2>4
      <4> QED BY <1>0, <4>1, <4>2, SetIds
    <3> QED BY <1>8, <2>1, <2>4, <3>1 DEF Fetch
  <2> QED BY <2>3, <2>4
<1>9. CASE Skip(p)
  <2>1. cycle' \in [Tasks -> Cycles]
    <3>1. cycle' = [cycle EXCEPT ![p].ids = cycle[p].ids \ {First(cycle[p].ids)}]
      BY <1>9 DEF Skip
    <3>2. cycle[p].ids \ {First(cycle[p].ids)} \in SUBSET Mails
      BY <1>a
    <3> QED BY <1>0, <3>1, <3>2, SetIds
  <2> QED BY <1>9, <2>1 DEF Skip
<1>10. ASSUME NEW j \in cycle[p].todo, Tries(p, j), pc[p] = "act" PROVE TypeOK'
  <2>1. cycle' \in [Tasks -> Cycles]
    <3>1. cycle' = [cycle EXCEPT ![p].todo = cycle[p].todo \ {j}]
      BY <1>10 DEF Tries
    <3>2. cycle[p].todo \ {j} \in SUBSET Jobs
      BY <1>a
    <3> QED BY <1>0, <3>1, <3>2, SetTodo
  <2>2. tried' \subseteq Matching \X Jobs
    BY <1>10 DEF Tries, Attending, Acting, Cycles
  <2> QED BY <1>10, <2>1, <2>2 DEF Tries
<1>11. ASSUME AfterMark(p) \/ DoneWith(p)
       PROVE  cycle' \in [Tasks -> Cycles] /\ \E l \in {"copy", "next"} : Goto(p, l)
  <2>1. cycle' = cycle \/ cycle' = [cycle EXCEPT ![p].n = 0, ![p].cur = 0, ![p].todo = {}]
    BY <1>11 DEF AfterMark, DoneWith
  <2>2. cycle' \in [Tasks -> Cycles]
    <3>1. [cycle EXCEPT ![p].n = 0, ![p].cur = 0, ![p].todo = {}] \in [Tasks -> Cycles]
      BY <1>0, SetDone
    <3> QED BY <2>1, <3>1
  <2> QED BY <1>11, <2>2 DEF AfterMark, DoneWith
<1>12. CASE Mark(p)
  <2>1. cycle[p].cur \in 1..arrived
    BY <1>12 DEF Mark, Attending, Acting
  <2>2. cycle' \in [Tasks -> Cycles] /\ \E l \in {"copy", "next"} : Goto(p, l)
    BY <1>11, <1>12 DEF Mark
  <2>3. seen' \subseteq 1..arrived /\ marked' \subseteq seen' /\ risked' \subseteq 1..arrived
    BY <1>12, <2>1 DEF Mark, MarkSeen, NotMarked
  <2>4. faults' \in 0..MaxFaults
    BY <1>12 DEF Mark
  <2> QED BY <1>12, <2>2, <2>3, <2>4 DEF Mark
<1>13. CASE LeaveUnread(p)
  <2>1. cycle[p].cur \in 1..arrived
    BY <1>13 DEF LeaveUnread, Attending, Acting
  <2>2. cycle' \in [Tasks -> Cycles] /\ \E l \in {"copy", "next"} : Goto(p, l)
    BY <1>11, <1>13 DEF LeaveUnread
  <2> QED BY <1>13, <2>1, <2>2 DEF LeaveUnread
<1>14. CASE Copy(p)
  <2>1. cycle' \in [Tasks -> Cycles]
    <3>1. cycle' = cycle \/ cycle' = [cycle EXCEPT ![p].view = cycle[p].view \cap inbox]
      BY <1>14 DEF Copy
    <3>2. cycle[p].view \cap inbox \in SUBSET Mails
      BY <1>a
    <3>3. [cycle EXCEPT ![p].view = cycle[p].view \cap inbox] \in [Tasks -> Cycles]
      BY <3>2, SetView
    <3> QED BY <3>1, <3>3
  <2>2. folder' \subseteq 1..arrived /\ astray' \in BOOLEAN
    BY <1>14 DEF Copy
  <2>3. faults' \in 0..MaxFaults /\ pc' = [pc EXCEPT ![p] = "delete"]
    BY <1>14 DEF Copy
  <2>4. UNCHANGED <<config, arrived, inbox, seen, deleted, conn, stop, tried, marked, risked>>
    BY <1>14 DEF Copy
  <2> QED BY <2>1, <2>2, <2>3, <2>4
<1>15. CASE Delete(p)
  <2>1. deleted' \subseteq inbox
    BY <1>15 DEF Delete
  <2>2. faults' \in 0..MaxFaults /\ pc' = [pc EXCEPT ![p] = "expunge"]
    BY <1>15 DEF Delete
  <2>3. UNCHANGED <<config, arrived, inbox, seen, folder, conn, cycle, stop, tried, marked, risked, astray>>
    BY <1>15 DEF Delete
  <2> QED BY <2>1, <2>2, <2>3
<1>16. CASE Expunge(p)
  <2>1. cycle' \in [Tasks -> Cycles]
    <3>1. cycle' = [cycle EXCEPT ![p].view = cycle[p].view \cap inbox', ![p].n = 0, ![p].cur = 0]
      BY <1>16 DEF Expunge
    <3>2. cycle[p].view \cap inbox' \in SUBSET Mails
      BY <1>a
    <3> QED BY <1>0, <3>1, <3>2, SetExpunged
  <2> QED BY <1>16, <2>1 DEF Expunge
<1>17. CASE MoveRaises(p)
  <2>1. cycle' \in [Tasks -> Cycles] /\ \E l \in {"copy", "next"} : Goto(p, l)
    BY <1>11, <1>17 DEF MoveRaises
  <2> QED BY <1>17, <2>1 DEF MoveRaises
<1>18. CASE EndCycle(p)
  BY <1>0, <1>18 DEF EndCycle
<1> QED
  BY <1>1, <1>2, <1>3, <1>4, <1>5, <1>6, <1>7, <1>8, <1>9, <1>10, <1>12, <1>13, <1>14,
     <1>15, <1>16, <1>17, <1>18 DEF ForwarderStep, Forward, Extract

\* And so does every step.
LEMMA StepType == TypeOK /\ Attending /\ [Next]_vars => TypeOK'
<1> SUFFICES ASSUME TypeOK, Attending, [Next]_vars PROVE TypeOK'
  OBVIOUS
<1>1. CASE UNCHANGED vars
  BY <1>1 DEF vars, mailboxVars, historyVars, TypeOK
<1> QED BY <1>1, EnvironmentType, StepOfTaskType DEF Next

-----------------------------------------------------------------------------
(* What the tasks have in hand, field by field.                            *)

\* A step of one task leaves the local variables of the others alone.
Others(p) == \A q \in Tasks \ {p} : pc'[q] = pc[q] /\ cycle'[q] = cycle[q]

\* What one step of a task may do to its own local variables.
LEMMA OthersKept ==
  ASSUME TypeOK, NEW p \in Tasks, ForwarderStep(p)
  PROVE  Others(p)
<1> USE DEF TypeOK, Others, Goto
<1>1. CASE Start(p) \/ GetImap(p) \/ CycleFails(p) \/ Exit(p) \/ SearchRefused(p) \/ EndCycle(p)
  BY <1>1 DEF Start, GetImap, CycleFails, Exit, SearchRefused, EndCycle
<1>2. CASE Select(p) \/ Search(p) \/ Fetch(p) \/ Skip(p)
  BY <1>2 DEF Select, Search, List, Fetch, Skip
<1>3. CASE Forward(p) \/ Extract(p)
  BY <1>3 DEF Forward, Extract, Tries
<1>4. CASE Mark(p) \/ LeaveUnread(p) \/ MoveRaises(p)
  BY <1>4 DEF Mark, LeaveUnread, AfterMark, DoneWith, MoveRaises
<1>5. CASE Copy(p) \/ Delete(p) \/ Expunge(p)
  BY <1>5 DEF Copy, Delete, Expunge
<1> QED BY <1>1, <1>2, <1>3, <1>4, <1>5 DEF ForwarderStep

\* A task that dies forgets its cycle, and the other tasks keep theirs.
LEMMA KillKeepsOthers ==
  ASSUME TypeOK, NEW p \in Tasks, Kill(p)
  PROVE  Others(p) /\ cycle'[p] = NoCycle /\ pc'[p] \in {"gone", "down"}
BY DEF TypeOK, Others, Kill, Goto

\* Mails only arrive, and history only grows.
LEMMA ArrivedGrows ==
  ASSUME TypeOK, [Next]_vars
  PROVE  /\ arrived \in Nat /\ arrived' \in Nat /\ arrived <= arrived'
         /\ 1..arrived \subseteq 1..arrived'
         /\ tried \subseteq tried' /\ risked \subseteq risked' /\ UNCHANGED config
<1>1. arrived' = arrived \/ (arrived' = arrived + 1 /\ Arrive)
  BY DEF Next, Environment, Arrive, OwnerReads, Drop, StartNext, Terminate, Kill, ForwarderStep,
     Start, GetImap, CycleFails, Exit, Select, Search, SearchRefused, Fetch, Skip, Forward, Extract,
     Tries, Mark, LeaveUnread, Copy, Delete, Expunge, MoveRaises, EndCycle, mailboxVars, vars
<1>2. arrived \in Nat
  BY DEF TypeOK
<1>3. tried \subseteq tried' /\ risked \subseteq risked' /\ UNCHANGED config
  BY DEF Next, Environment, Arrive, OwnerReads, Drop, StartNext, Terminate, Kill, ForwarderStep,
     Start, GetImap, CycleFails, Exit, Select, Search, SearchRefused, Fetch, Skip, Forward, Extract,
     Tries, Mark, LeaveUnread, Copy, Delete, Expunge, MoveRaises, EndCycle, historyVars, vars
<1> QED BY <1>1, <1>2, <1>3

\* At first nothing is in hand and nothing is marked.
LEMMA InitAttending == Init => Attending /\ MarkedAfterSending
BY DEF Init, Attending, Acting, Known, MarkedAfterSending, NoCycle

\* Attending is a fact about each task and about sets that only grow.
LEMMA AttendingGrows ==
  ASSUME TypeOK, Attending, [Next]_vars, NEW p \in Tasks, pc'[p] = pc[p], cycle'[p] = cycle[p]
  PROVE  (Acting(p) /\ Known(p))'
<1>1. 1..arrived \subseteq 1..arrived' /\ tried \subseteq tried'
  BY ArrivedGrows
<1>2. Known(p)'
  BY <1>1 DEF Attending, Known
<1>3. Acting(p)'
  BY <1>1 DEF Attending, Acting
<1> QED BY <1>2, <1>3

\* What others do leaves the mail in hand attended to.
LEMMA EnvironmentAttends ==
  ASSUME TypeOK, Attending, Environment
  PROVE  Attending'
<1>0. [Next]_vars
  BY DEF Next
<1>1. CASE \E p \in Tasks : Kill(p)
  <2>1. PICK p \in Tasks : Kill(p)
    BY <1>1
  <2>2. (Acting(p) /\ Known(p))'
    BY <2>1, KillKeepsOthers DEF Acting, Known, NoCycle
  <2> QED BY <1>0, <2>1, <2>2, KillKeepsOthers, AttendingGrows DEF Others, Attending
<1>2. CASE \E p \in Tasks : StartNext(p) \/ Terminate(p)
  <2>1. PICK p \in Tasks : StartNext(p) \/ Terminate(p)
    BY <1>2
  <2>2. cycle' = cycle /\ Others(p) /\ (pc'[p] = pc[p] \/ pc'[p] # "act")
    BY <2>1 DEF StartNext, Terminate, Goto, Others, TypeOK
  <2>3. 1..arrived \subseteq 1..arrived'
    BY <1>0, ArrivedGrows
  <2>4. pc'[p] # "act" => (Acting(p) /\ Known(p))'
    BY <2>2, <2>3 DEF Acting, Known, Attending
  <2> QED BY <1>0, <2>2, <2>4, AttendingGrows DEF Others, Attending
<1>3. CASE UNCHANGED <<pc, cycle>>
  BY <1>0, <1>3, AttendingGrows DEF Attending
<1> QED BY <1>1, <1>2, <1>3 DEF Environment, Arrive, OwnerReads, Drop

-----------------------------------------------------------------------------
(* The effect of each action of a task on its own local variables.         *)

Same(p, fields) == \A x \in fields : cycle'[p][x] = cycle[p][x]
AllFields == {"view", "ids", "n", "cur", "todo", "found"}

\* Nothing is in hand, or never was.
LEMMA QuietFields ==
  ASSUME TypeOK, NEW p \in Tasks,
         Start(p) \/ GetImap(p) \/ CycleFails(p) \/ Exit(p) \/ SearchRefused(p) \/ EndCycle(p)
  PROVE  /\ pc[p] # "act" /\ pc'[p] \in {"rest", "select", "gone"}
         /\ cycle'[p] = NoCycle \/ (cycle'[p] = cycle[p] /\ pc[p] \in {"down", "rest"})
         /\ UNCHANGED <<mailboxVars, tried, marked, risked, astray>>
BY DEF TypeOK, Goto, Start, GetImap, CycleFails, Exit, SearchRefused, EndCycle, historyVars

\* SELECT tells the session the mails of the mailbox.
LEMMA SelectFields ==
  ASSUME TypeOK, NEW p \in Tasks, Select(p)
  PROVE  /\ pc[p] = "select" /\ pc'[p] = "search"
         /\ cycle'[p].view = inbox /\ Same(p, AllFields \ {"view"})
         /\ UNCHANGED <<mailboxVars, tried, marked, risked, astray>>
BY DEF TypeOK, Cycles, Goto, Select, historyVars, Same, AllFields

\* A search makes the list.
LEMMA SearchFields ==
  ASSUME TypeOK, NEW p \in Tasks, Search(p)
  PROVE  /\ pc[p] = "search" /\ pc'[p] = "next"
         /\ cycle'[p].found = Batch(Unread(p))
         /\ cycle'[p].ids = {Rank(cycle[p].view, m) : m \in Batch(Unread(p))}
         /\ Same(p, AllFields \ {"ids", "found"})
         /\ risked' = risked \cup (Batch(Unread(p)) \cap InOtherHands(p))
         /\ UNCHANGED <<mailboxVars, tried, marked, astray>>
<1> DEFINE S == Batch(Unread(p))
           R == {Rank(cycle[p].view, m) : m \in S}
<1>1. cycle' = [cycle EXCEPT ![p].ids = R, ![p].found = S]
  BY DEF Search, List
<1> HIDE DEF S, R
<1>2. cycle'[p].ids = R /\ cycle'[p].found = S /\ Same(p, AllFields \ {"ids", "found"})
  BY <1>1 DEF TypeOK, Cycles, Same, AllFields
<1> QED BY <1>2 DEF Search, Goto, TypeOK, S, R

\* A fetch takes the first number off the list, and maybe a mail in hand.
LEMMA FetchFields ==
  ASSUME TypeOK, NEW p \in Tasks, Fetch(p)
  PROVE  /\ pc[p] = "next" /\ cycle[p].ids # {}
         /\ Same(p, {"view", "found"}) /\ cycle'[p].ids = cycle[p].ids \ {First(cycle[p].ids)}
         /\ UNCHANGED <<mailboxVars, tried, marked, risked, astray>>
         /\ \/ /\ pc'[p] = "act" /\ cycle'[p].n = First(cycle[p].ids)
               /\ cycle'[p].cur \in Fetched(p) \cap Matching
               /\ cycle'[p].todo = Work(cycle'[p].cur)
            \/ pc'[p] = "next" /\ Same(p, {"n", "cur", "todo"})
<1>1. PICK m \in Fetched(p) :
       IF m \in Matching
         THEN /\ cycle' = [cycle EXCEPT ![p].ids = @ \ {First(cycle[p].ids)}, ![p].n = First(cycle[p].ids),
                                        ![p].cur = m, ![p].todo = Work(m)]
              /\ Goto(p, "act")
         ELSE /\ cycle' = [cycle EXCEPT ![p].ids = @ \ {First(cycle[p].ids)}]
              /\ UNCHANGED pc
  BY DEF Fetch
<1>2. cycle[p].ids # {} /\ pc[p] = "next"
  BY DEF Fetch, InLoop
<1>3. UNCHANGED <<mailboxVars, tried, marked, risked, astray>>
  BY DEF Fetch, historyVars
<1>4. CASE m \in Matching
  <2> DEFINE k == First(cycle[p].ids)
             W == Work(m)
  <2>1. cycle' = [cycle EXCEPT ![p].ids = @ \ {k}, ![p].n = k, ![p].cur = m, ![p].todo = W]
    BY <1>1, <1>4
  <2> HIDE DEF k, W
  <2>2. /\ cycle'[p].view = cycle[p].view /\ cycle'[p].found = cycle[p].found
        /\ cycle'[p].ids = cycle[p].ids \ {k} /\ cycle'[p].n = k
        /\ cycle'[p].cur = m /\ cycle'[p].todo = W
    BY <2>1 DEF TypeOK, Cycles
  <2>3. pc'[p] = "act"
    BY <1>1, <1>4 DEF Goto, TypeOK
  <2> QED BY <1>2, <1>3, <1>4, <2>2, <2>3 DEF Same, k, W
<1>5. CASE m \notin Matching
  <2> DEFINE k == First(cycle[p].ids)
  <2>1. cycle' = [cycle EXCEPT ![p].ids = @ \ {k}] /\ UNCHANGED pc
    BY <1>1, <1>5
  <2> HIDE DEF k
  <2>2. /\ cycle'[p].view = cycle[p].view /\ cycle'[p].found = cycle[p].found
        /\ cycle'[p].ids = cycle[p].ids \ {k} /\ cycle'[p].n = cycle[p].n
        /\ cycle'[p].cur = cycle[p].cur /\ cycle'[p].todo = cycle[p].todo
    BY <2>1 DEF TypeOK, Cycles
  <2> QED BY <1>2, <1>3, <2>1, <2>2 DEF Same, k
<1> QED BY <1>4, <1>5

\* A mail that is not fetched is off the list.
LEMMA SkipFields ==
  ASSUME TypeOK, NEW p \in Tasks, Skip(p)
  PROVE  /\ pc[p] = "next" /\ pc'[p] = "next"
         /\ cycle'[p].ids \subseteq cycle[p].ids /\ Same(p, AllFields \ {"ids"})
         /\ UNCHANGED <<mailboxVars, tried, marked, risked, astray>>
<1> DEFINE k == First(cycle[p].ids)
<1>1. cycle' = [cycle EXCEPT ![p].ids = @ \ {k}]
  BY DEF Skip
<1> HIDE DEF k
<1>2. cycle'[p].ids \subseteq cycle[p].ids /\ Same(p, AllFields \ {"ids"})
  BY <1>1 DEF TypeOK, Cycles, Same, AllFields
<1> QED BY <1>2 DEF Skip, InLoop, historyVars

\* One send is attempted.
LEMMA TriesFields ==
  ASSUME TypeOK, NEW p \in Tasks, Forward(p) \/ Extract(p)
  PROVE  /\ pc[p] = "act" /\ pc'[p] = "act"
         /\ \E j \in cycle[p].todo :
              /\ cycle'[p].todo = cycle[p].todo \ {j}
              /\ tried' = tried \cup {<<cycle[p].cur, j>>}
         /\ Same(p, AllFields \ {"todo"})
         /\ UNCHANGED <<mailboxVars, marked, risked, astray>>
<1>1. PICK j \in cycle[p].todo : Tries(p, j)
  BY DEF Forward, Extract
<1>2. cycle'[p].todo = cycle[p].todo \ {j} /\ Same(p, AllFields \ {"todo"})
  BY <1>1 DEF Tries, TypeOK, Cycles, Same, AllFields
<1>3. pc[p] = "act"
  BY DEF Forward, Extract
<1> QED BY <1>1, <1>2, <1>3 DEF Tries

\* After the sends a task goes on to the move or to the next mail.
LEMMA AfterMarkFields ==
  ASSUME TypeOK, NEW p \in Tasks, AfterMark(p) \/ DoneWith(p)
  PROVE  /\ (pc'[p] = "copy" /\ config.move /\ cycle'[p] = cycle[p])
            \/ (pc'[p] = "next" /\ cycle'[p].cur = 0)
         /\ Same(p, {"view", "ids", "found"})
BY DEF TypeOK, Cycles, AfterMark, DoneWith, Goto, Same

\* The mail in hand is marked, or at risk of being sent again.
LEMMA MarkFields ==
  ASSUME TypeOK, NEW p \in Tasks, Mark(p) \/ LeaveUnread(p)
  PROVE  /\ pc[p] = "act" /\ cycle[p].todo = {}
         /\ (pc'[p] = "copy" /\ config.move /\ cycle'[p] = cycle[p])
            \/ (pc'[p] = "next" /\ cycle'[p].cur = 0)
         /\ Same(p, {"view", "ids", "found"})
         /\ cycle[p].cur \in seen' \/ cycle[p].cur \in risked'
         /\ seen \subseteq seen' /\ marked' \subseteq marked \cup {cycle[p].cur}
         /\ UNCHANGED <<arrived, inbox, deleted, folder, tried, astray>>
<1>1. AfterMark(p) \/ DoneWith(p)
  BY DEF Mark, LeaveUnread
<1>2. pc[p] = "act" /\ cycle[p].todo = {} /\ UNCHANGED <<arrived, inbox, deleted, folder, tried, astray>>
  BY DEF Mark, LeaveUnread, mailboxVars
<1>3. /\ cycle[p].cur \in seen' \/ cycle[p].cur \in risked'
      /\ seen \subseteq seen' /\ marked' \subseteq marked \cup {cycle[p].cur}
  BY DEF Mark, LeaveUnread, MarkSeen, NotMarked, mailboxVars
<1> QED BY <1>1, <1>2, <1>3, AfterMarkFields

\* A copy is made, unless the history says otherwise.
LEMMA CopyFields ==
  ASSUME TypeOK, NEW p \in Tasks, Copy(p)
  PROVE  /\ pc[p] = "copy" /\ pc'[p] = "delete"
         /\ cycle'[p].view \subseteq cycle[p].view /\ Same(p, AllFields \ {"view"})
         /\ folder \subseteq folder'
         /\ ~astray' => ~astray /\ Target(p) \cap inbox \subseteq folder' /\ Target(p)' = Target(p)
         /\ UNCHANGED <<arrived, inbox, seen, deleted, tried, marked, risked>>
<1>1. cycle' = cycle \/ cycle' = [cycle EXCEPT ![p].view = cycle[p].view \cap inbox]
  BY DEF Copy
<1>2. cycle'[p].view \subseteq cycle[p].view /\ Same(p, AllFields \ {"view"})
  BY <1>1 DEF TypeOK, Cycles, Same, AllFields
<1>3. pc[p] = "copy" /\ pc'[p] = "delete"
  BY DEF Copy, Goto, TypeOK
<1>4. folder \subseteq folder'
  BY DEF Copy
<1>5. ~astray' => ~astray /\ Target(p) \cap inbox \subseteq folder' /\ Target(p)' = Target(p)
  BY DEF Copy
<1> QED BY <1>2, <1>3, <1>4, <1>5 DEF Copy

\* Only the target of the STORE is flagged.
LEMMA DeleteFields ==
  ASSUME TypeOK, NEW p \in Tasks, Delete(p)
  PROVE  /\ pc[p] = "delete" /\ pc'[p] = "expunge" /\ cycle'[p] = cycle[p]
         /\ deleted' \subseteq deleted \cup (Target(p) \cap inbox)
         /\ UNCHANGED <<arrived, inbox, seen, folder, tried, marked, risked, astray>>
<1>1. deleted' \subseteq deleted \cup (Target(p) \cap inbox)
  BY DEF Delete
<1> QED BY <1>1 DEF Delete, Goto, TypeOK, historyVars

\* What is flagged leaves the mailbox.
LEMMA ExpungeFields ==
  ASSUME TypeOK, NEW p \in Tasks, Expunge(p)
  PROVE  /\ pc[p] = "expunge" /\ pc'[p] = "next" /\ cycle'[p].cur = 0
         /\ cycle'[p].view \subseteq cycle[p].view
         /\ inbox' = inbox \ deleted /\ deleted' = {}
         /\ UNCHANGED <<arrived, seen, folder, tried, marked, risked, astray>>
<1>1. cycle' = [cycle EXCEPT ![p].view = cycle[p].view \cap inbox', ![p].n = 0, ![p].cur = 0]
  BY DEF Expunge
<1>2. cycle'[p].view = cycle[p].view \cap inbox' /\ cycle'[p].cur = 0
  BY <1>1 DEF TypeOK, Cycles
<1> QED BY <1>2 DEF Expunge, Goto, TypeOK, historyVars

\* A move that raises leaves the mailbox alone.
LEMMA RaiseFields ==
  ASSUME TypeOK, NEW p \in Tasks, MoveRaises(p)
  PROVE  /\ pc[p] \in {"copy", "delete", "expunge"} /\ pc'[p] = "next" /\ cycle'[p].cur = 0
         /\ Same(p, {"view", "ids", "found"})
         /\ UNCHANGED <<mailboxVars, tried, marked, risked, astray>>
<1>1. DoneWith(p) /\ pc[p] \in {"copy", "delete", "expunge"}
  BY DEF MoveRaises
<1>2. pc'[p] = "next" /\ cycle'[p].cur = 0 /\ Same(p, {"view", "ids", "found"})
  BY <1>1 DEF DoneWith, TypeOK, Cycles, Goto, Same
<1> QED BY <1>1, <1>2 DEF MoveRaises, historyVars

-----------------------------------------------------------------------------
(* Mails are marked after every send for them was attempted.               *)

\* Each step of a task attends to the mail in hand, and marks it last.
LEMMA TaskAttends ==
  ASSUME TypeOK, Attending, MarkedAfterSending, NEW p \in Tasks, ForwarderStep(p)
  PROVE  Attending' /\ MarkedAfterSending'
<1>0. [Next]_vars
  BY DEF Next
<1>a. Acting(p) /\ Known(p)
  BY DEF Attending
<1>b. inbox \subseteq 1..arrived /\ 1..arrived \subseteq 1..arrived' /\ tried \subseteq tried'
  BY <1>0, ArrivedGrows DEF TypeOK
<1> SUFFICES (Acting(p) /\ Known(p))' /\ (\A m \in marked' : m \in marked \/ (m \in Matching /\ {m} \X Work(m) \subseteq tried))
  BY <1>0, <1>b, OthersKept, AttendingGrows DEF Others, Attending, MarkedAfterSending
<1>1. CASE Start(p) \/ GetImap(p) \/ CycleFails(p) \/ Exit(p) \/ SearchRefused(p) \/ EndCycle(p)
  BY <1>a, <1>b, <1>1, QuietFields DEF Acting, Known, NoCycle
<1>2. CASE Select(p)
  BY <1>b, <1>2, SelectFields DEF Acting, Known
<1>3. CASE Search(p)
  <2>1. cycle'[p].view = cycle[p].view
    BY <1>3, SearchFields DEF Same, AllFields
  <2> QED BY <1>a, <1>b, <1>3, <2>1, SearchFields DEF Acting, Known
<1>4. CASE Fetch(p)
  <2>1. cycle'[p].view = cycle[p].view /\ marked' = marked /\ arrived' = arrived
    BY <1>4, FetchFields DEF Same, mailboxVars
  <2>2. CASE pc'[p] = "act"
    <3>1. cycle'[p].cur \in inbox /\ cycle'[p].cur \in Matching /\ cycle'[p].todo = Work(cycle'[p].cur)
      BY <1>4, <2>2, FetchFields DEF Fetched
    <3> QED BY <1>a, <1>b, <2>1, <3>1 DEF Acting, Known
  <2>3. CASE pc'[p] # "act"
    BY <1>a, <1>b, <2>1, <2>3 DEF Acting, Known
  <2> QED BY <2>2, <2>3
<1>5. CASE Skip(p)
  <2>1. cycle'[p].view = cycle[p].view
    BY <1>5, SkipFields DEF Same, AllFields
  <2> QED BY <1>a, <1>b, <1>5, <2>1, SkipFields DEF Acting, Known
<1>6. CASE Forward(p) \/ Extract(p)
  <2>1. cycle'[p].view = cycle[p].view /\ cycle'[p].cur = cycle[p].cur
    BY <1>6, TriesFields DEF Same, AllFields
  <2>2. PICK j \in cycle[p].todo : /\ cycle'[p].todo = cycle[p].todo \ {j}
                                   /\ tried' = tried \cup {<<cycle[p].cur, j>>}
    BY <1>6, TriesFields
  <2>3. pc[p] = "act" /\ marked' = marked
    BY <1>6, TriesFields
  <2>4. {cycle[p].cur} \X (Work(cycle[p].cur) \ cycle'[p].todo) \subseteq tried'
    BY <1>a, <2>2, <2>3 DEF Acting
  <2> QED BY <1>a, <1>b, <2>1, <2>3, <2>4 DEF Acting, Known
<1>7. CASE Mark(p) \/ LeaveUnread(p)
  <2>1. cycle'[p].view = cycle[p].view /\ pc'[p] # "act"
    BY <1>7, MarkFields DEF Same
  <2>2. cycle[p].cur \in Matching /\ {cycle[p].cur} \X Work(cycle[p].cur) \subseteq tried
    BY <1>a, <1>7, MarkFields DEF Acting
  <2>3. marked' \subseteq marked \cup {cycle[p].cur}
    BY <1>7, MarkFields
  <2> QED BY <1>a, <1>b, <2>1, <2>2, <2>3 DEF Acting, Known
<1>8. CASE Copy(p)
  BY <1>a, <1>b, <1>8, CopyFields DEF Acting, Known
<1>9. CASE Delete(p)
  BY <1>a, <1>b, <1>9, DeleteFields DEF Acting, Known
<1>10. CASE Expunge(p)
  BY <1>a, <1>b, <1>10, ExpungeFields DEF Acting, Known
<1>11. CASE MoveRaises(p)
  <2>1. cycle'[p].view = cycle[p].view
    BY <1>11, RaiseFields DEF Same
  <2> QED BY <1>a, <1>b, <1>11, <2>1, RaiseFields DEF Acting, Known
<1> QED
  BY <1>1, <1>2, <1>3, <1>4, <1>5, <1>6, <1>7, <1>8, <1>9, <1>10, <1>11 DEF ForwarderStep

\* The inductive invariant on which the others build.
Inv == TypeOK /\ Attending /\ MarkedAfterSending

\* The owner reads mails, and only tasks mark them.
LEMMA EnvironmentMarksNothing == Environment => UNCHANGED marked /\ tried' = tried
BY DEF Environment, Arrive, OwnerReads, Drop, StartNext, Terminate, Kill, historyVars

\* The types, and marking last, hold of every state.
LEMMA Invariance == Spec => []Inv
<1>1. Init => Inv
  BY InitType, InitAttending DEF Inv
<1>2. Inv /\ [Next]_vars => Inv'
  <2> SUFFICES ASSUME Inv, [Next]_vars PROVE Inv'
    OBVIOUS
  <2>1. TypeOK'
    BY StepType DEF Inv
  <2>2. CASE UNCHANGED vars
    BY <2>1, <2>2 DEF Inv, vars, mailboxVars, historyVars, Attending, Acting, Known, MarkedAfterSending
  <2>3. CASE Environment
    BY <2>1, <2>3, EnvironmentAttends, EnvironmentMarksNothing DEF Inv, MarkedAfterSending
  <2>4. CASE \E p \in Tasks : ForwarderStep(p)
    BY <2>1, <2>4, TaskAttends DEF Inv
  <2> QED BY <2>2, <2>3, <2>4 DEF Next
<1> QED BY <1>1, <1>2, PTL DEF Spec

\* The mailbox, the tasks and their cycles keep their types: mails are flagged in the
\* mailbox only, lists hold numbers of mails.
THEOREM ForwarderTypeCorrect == Spec => []TypeOK
BY Invariance, PTL DEF Inv

\* process_emails() (processing.py) marks a mail as read only after it has attempted
\* every send for it, whichever tasks run, die and lose connections.
THEOREM MarkingComesLast == Spec => []MarkedAfterSending
BY Invariance, PTL DEF Inv

-----------------------------------------------------------------------------
(* Mails leave the mailbox for the folder only.                            *)

\* What is flagged as deleted has a copy, and so has what a task is about to flag.
CopiedFirst ==
  ~astray =>
    /\ 1..arrived \ inbox \subseteq folder
    /\ deleted \subseteq folder
    /\ \A p \in Tasks : pc[p] = "delete" => Target(p) \cap inbox \subseteq folder

\* The target of a STORE is a matter of the session alone.
LEMMA TargetKept ==
  ASSUME NEW p \in Tasks, cycle'[p] = cycle[p]
  PROVE  Target(p)' = Target(p)
BY DEF Target, At, Rank

\* No mail enters the mailbox but a new one, which no session knows.
LEMMA OthersTargets ==
  ASSUME TypeOK, Attending, CopiedFirst, NEW p \in Tasks, cycle'[p] = cycle[p], pc'[p] = pc[p],
         pc[p] = "delete", ~astray, folder \subseteq folder', inbox' \cap 1..arrived \subseteq inbox
  PROVE  Target(p)' \cap inbox' \subseteq folder'
<1>1. Target(p) \subseteq 1..arrived
  BY DEF Attending, Known, Target, At
<1> QED BY <1>1, TargetKept DEF CopiedFirst

\* What others do flags and removes nothing.
LEMMA EnvironmentCopies ==
  ASSUME TypeOK, Attending, CopiedFirst, Environment
  PROVE  CopiedFirst'
<1>1. UNCHANGED <<deleted, folder, astray>>
  BY DEF Environment, Arrive, OwnerReads, Drop, StartNext, Terminate, Kill, mailboxVars, historyVars
<1>2. /\ inbox' \cap 1..arrived \subseteq inbox
      /\ 1..arrived' \ inbox' \subseteq 1..arrived \ inbox
  <2>1. CASE Arrive
    BY <2>1 DEF Arrive, TypeOK
  <2>2. CASE ~Arrive
    BY <2>2 DEF Environment, OwnerReads, Drop, StartNext, Terminate, Kill, mailboxVars
  <2> QED BY <2>1, <2>2
<1>3. ASSUME NEW q \in Tasks, pc'[q] = "delete"
      PROVE  pc[q] = "delete" /\ cycle'[q] = cycle[q]
  <2>1. CASE \E p \in Tasks : Kill(p)
    BY <1>3, <2>1, KillKeepsOthers DEF Others
  <2>2. CASE \E p \in Tasks : StartNext(p) \/ Terminate(p)
    BY <1>3, <2>2 DEF StartNext, Terminate, Goto, TypeOK
  <2>3. CASE UNCHANGED <<pc, cycle>>
    BY <1>3, <2>3
  <2> QED BY <2>1, <2>2, <2>3 DEF Environment, Arrive, OwnerReads, Drop
<1>4. ASSUME ~astray, NEW q \in Tasks, pc'[q] = "delete"
      PROVE  Target(q)' \cap inbox' \subseteq folder'
  BY <1>1, <1>2, <1>3, <1>4, OthersTargets
<1> QED BY <1>1, <1>2, <1>4 DEF CopiedFirst

\* Each step of a move keeps a copy ahead of the flag, and the flag of the removal.
LEMMA TaskCopies ==
  ASSUME TypeOK, Attending, CopiedFirst, NEW p \in Tasks, ForwarderStep(p)
  PROVE  CopiedFirst'
<1>0. Others(p)
  BY OthersKept
<1>1. ASSUME folder \subseteq folder', inbox' \cap 1..arrived \subseteq inbox, ~astray,
             pc'[p] = "delete" => Target(p)' \cap inbox' \subseteq folder'
      PROVE  \A q \in Tasks : pc'[q] = "delete" => Target(q)' \cap inbox' \subseteq folder'
  BY <1>0, <1>1, OthersTargets DEF Others
<1>2. CASE UNCHANGED <<mailboxVars, astray>> /\ pc'[p] # "delete"
  BY <1>1, <1>2 DEF CopiedFirst, mailboxVars
<1>3. CASE Mark(p) \/ LeaveUnread(p)
  <2>1. UNCHANGED <<arrived, inbox, deleted, folder, astray>> /\ pc'[p] # "delete"
    BY <1>3, MarkFields
  <2> QED BY <1>1, <2>1 DEF CopiedFirst
<1>4. CASE Copy(p)
  <2>1. UNCHANGED <<arrived, inbox, deleted>> /\ folder \subseteq folder'
    BY <1>4, CopyFields
  <2>2. ~astray' => ~astray /\ Target(p)' \cap inbox' \subseteq folder'
    BY <1>4, <2>1, CopyFields
  <2> QED BY <1>1, <2>1, <2>2 DEF CopiedFirst
<1>5. CASE Delete(p)
  <2>1. /\ pc[p] = "delete" /\ pc'[p] # "delete"
        /\ deleted' \subseteq deleted \cup (Target(p) \cap inbox)
        /\ UNCHANGED <<arrived, inbox, folder, astray>>
    BY <1>5, DeleteFields
  <2> QED BY <1>1, <2>1 DEF CopiedFirst
<1>6. CASE Expunge(p)
  <2>1. /\ pc'[p] # "delete" /\ inbox' = inbox \ deleted /\ deleted' = {}
        /\ UNCHANGED <<arrived, folder, astray>>
    BY <1>6, ExpungeFields
  <2> QED BY <1>1, <2>1 DEF CopiedFirst
<1>7. CASE \/ Start(p) \/ GetImap(p) \/ CycleFails(p) \/ Exit(p) \/ SearchRefused(p) \/ EndCycle(p)
  <2>1. UNCHANGED <<mailboxVars, astray>> /\ pc'[p] # "delete"
    BY <1>7, QuietFields
  <2> QED BY <1>2, <2>1
<1>8. CASE Select(p) \/ Search(p)
  <2>1. UNCHANGED <<mailboxVars, astray>> /\ pc'[p] # "delete"
    BY <1>8, SelectFields, SearchFields
  <2> QED BY <1>2, <2>1
<1>9. CASE Fetch(p) \/ Skip(p)
  <2>1. UNCHANGED <<mailboxVars, astray>> /\ pc'[p] # "delete"
    BY <1>9, FetchFields, SkipFields
  <2> QED BY <1>2, <2>1
<1>10. CASE Forward(p) \/ Extract(p) \/ MoveRaises(p)
  <2>1. UNCHANGED <<mailboxVars, astray>> /\ pc'[p] # "delete"
    BY <1>10, TriesFields, RaiseFields
  <2> QED BY <1>2, <2>1
<1> QED BY <1>3, <1>4, <1>5, <1>6, <1>7, <1>8, <1>9, <1>10 DEF ForwarderStep

\* Copies come first in every state.
LEMMA CopiesInvariance == Spec => []CopiedFirst
<1>1. Init => CopiedFirst
  BY DEF Init, CopiedFirst
<1>2. Inv /\ CopiedFirst /\ [Next]_vars => CopiedFirst'
  <2> SUFFICES ASSUME Inv, CopiedFirst, [Next]_vars PROVE CopiedFirst'
    OBVIOUS
  <2>1. CASE UNCHANGED vars
    BY <2>1 DEF vars, mailboxVars, historyVars, CopiedFirst, Target, At, Rank
  <2> QED BY <2>1, EnvironmentCopies, TaskCopies DEF Inv, Next
<1> QED BY <1>1, <1>2, Invariance, PTL DEF Spec

\* A mail that leaves the mailbox is in the folder (processing.py), unless a COPY was
\* refused or another task expunged between COPY and STORE.
THEOREM MovesKeepMail == Spec => []MovedMailIsCopied
<1>1. CopiedFirst => MovedMailIsCopied
  BY DEF CopiedFirst, MovedMailIsCopied
<1> QED BY <1>1, CopiesInvariance, PTL

-----------------------------------------------------------------------------
(* Unless mails are moved, a number on a list keeps naming its mail.       *)

\* A list that is not empty has a first number.
LEMMA FirstIsListed ==
  ASSUME NEW S \in SUBSET Mails, S # {}
  PROVE  First(S) \in S
<1> DEFINE R == {ss \in Nat \X Nat : ss[1] < ss[2]}
<1>0. OpToRel(<, Nat) = R
  BY Zenon DEF OpToRel
<1>1. S \subseteq Nat
  BY DEF Mails
<1>2. IsWellFoundedOn(R, Nat)
  BY <1>0, NatLessThanWellFounded, Zenon
<1> HIDE DEF R
<1>3. PICK k \in S : \A j \in S : <<j, k>> \notin R
  BY <1>1, <1>2, WFMin
<1>4. \A j \in S : k <= j
  <2>1. ASSUME NEW j \in S PROVE k <= j
    <3>1. k \in Nat /\ j \in Nat
      BY <1>1
    <3>2. j < k => <<j, k>> \in R
      BY <3>1 DEF R
    <3> QED BY <3>1, <3>2, <1>3
  <2> QED BY <2>1
<1> QED BY <1>3, <1>4 DEF First

\* A task without a move: its list is of mails its search found, and the mail in hand
\* is one of them and off the list.
ListedBy(p) ==
  /\ pc[p] \notin {"copy", "delete", "expunge"}
  /\ pc[p] \notin {"next", "act"} => cycle[p].ids = {} /\ cycle[p].found = {} /\ cycle[p].cur = 0
  /\ cycle[p].found \subseteq cycle[p].view
  /\ cycle[p].ids \subseteq {Rank(cycle[p].view, m) : m \in cycle[p].found}
  /\ pc[p] = "act" => cycle[p].cur \in cycle[p].found /\ Rank(cycle[p].view, cycle[p].cur) \notin cycle[p].ids
  /\ pc[p] = "next" => cycle[p].cur = 0

Listed == \A p \in Tasks : ListedBy(p)

\* A list that nothing touches stays what it is.
LEMMA ListedKept ==
  ASSUME NEW p \in Tasks, ListedBy(p), cycle'[p] = cycle[p],
         pc'[p] = pc[p] \/ (pc'[p] \notin {"copy", "delete", "expunge", "next", "act"}
                            /\ pc[p] \notin {"next", "act"})
  PROVE  ListedBy(p)'
BY DEF ListedBy, Rank

\* A task without a cycle has no list.
LEMMA NothingListed ==
  ASSUME NEW p \in Tasks, cycle'[p] = NoCycle, pc'[p] \notin {"copy", "delete", "expunge", "next", "act"}
  PROVE  ListedBy(p)'
BY DEF ListedBy, NoCycle

\* What others do touches no list, but to drop it.
LEMMA EnvironmentLists ==
  ASSUME TypeOK, Listed, Environment
  PROVE  Listed'
<1>1. CASE \E p \in Tasks : Kill(p)
  BY <1>1, KillKeepsOthers, NothingListed, ListedKept DEF Others, Listed
<1>2. CASE \E p \in Tasks : StartNext(p) \/ Terminate(p)
  <2>1. PICK p \in Tasks : StartNext(p) \/ Terminate(p)
    BY <1>2
  <2>2. /\ cycle' = cycle /\ \A q \in Tasks \ {p} : pc'[q] = pc[q]
        /\ pc'[p] = pc[p] \/ (pc[p] \in {"absent", "down"} /\ pc'[p] \in {"down", "gone"})
    BY <2>1 DEF StartNext, Terminate, Goto, TypeOK
  <2> QED BY <2>2, ListedKept DEF Listed
<1>3. CASE UNCHANGED <<pc, cycle>>
  BY <1>3, ListedKept DEF Listed
<1> QED BY <1>1, <1>2, <1>3 DEF Environment, Arrive, OwnerReads, Drop

\* What is fetched by the first number is the mail that the number was taken from.
LEMMA FetchedIsFound ==
  ASSUME TypeOK, NEW p \in Tasks, ListedBy(p), cycle[p].ids # {}, NEW m \in Fetched(p)
  PROVE  /\ m \in cycle[p].found /\ Rank(cycle[p].view, m) = First(cycle[p].ids)
         /\ First(cycle[p].ids) \in cycle[p].ids
<1>1. cycle[p].view \in SUBSET Mails /\ cycle[p].ids \in SUBSET Mails
  BY DEF TypeOK, Cycles
<1>2. First(cycle[p].ids) \in cycle[p].ids
  BY <1>1, FirstIsListed
<1>3. m \in cycle[p].view /\ Rank(cycle[p].view, m) = First(cycle[p].ids)
  BY DEF Fetched, At
<1>4. PICK x \in cycle[p].found : Rank(cycle[p].view, x) = First(cycle[p].ids)
  BY <1>2 DEF ListedBy
<1>5. x \in cycle[p].view
  BY <1>4 DEF ListedBy
<1>6. x = m
  BY <1>1, <1>3, <1>4, <1>5, RankIsInjective
<1> QED BY <1>2, <1>3, <1>4, <1>6

\* Each step of a task keeps its list; without moves no EXPUNGE changes the numbers.
LEMMA TaskLists ==
  ASSUME TypeOK, Listed, ~config.move, NEW p \in Tasks, ForwarderStep(p)
  PROVE  Listed'
<1>0. ListedBy(p)
  BY DEF Listed
<1> SUFFICES ListedBy(p)'
  BY OthersKept, ListedKept DEF Others, Listed
<1>1. CASE Start(p) \/ GetImap(p) \/ CycleFails(p) \/ Exit(p) \/ SearchRefused(p) \/ EndCycle(p)
  BY <1>0, <1>1, QuietFields, NothingListed, ListedKept
<1>2. CASE Select(p)
  <2>1. /\ cycle'[p].ids = cycle[p].ids /\ cycle'[p].found = cycle[p].found /\ cycle'[p].cur = cycle[p].cur
        /\ pc[p] = "select" /\ pc'[p] = "search"
    BY <1>2, SelectFields DEF Same, AllFields
  <2> QED BY <1>0, <2>1 DEF ListedBy
<1>3. CASE Search(p)
  <2>1. /\ cycle'[p].view = cycle[p].view /\ cycle'[p].cur = cycle[p].cur
        /\ pc[p] = "search" /\ pc'[p] = "next"
        /\ cycle'[p].found = Batch(Unread(p))
        /\ cycle'[p].ids = {Rank(cycle[p].view, m) : m \in Batch(Unread(p))}
    BY <1>3, SearchFields DEF Same, AllFields
  <2>2. cycle'[p].found \subseteq cycle'[p].view
    BY <2>1, FoundIsUnread
  <2>3. cycle'[p].ids = {Rank(cycle'[p].view, m) : m \in cycle'[p].found}
    BY <2>1
  <2> QED BY <1>0, <2>1, <2>2, <2>3 DEF ListedBy, Rank
<1>4. CASE Fetch(p)
  <2>1. /\ cycle'[p].view = cycle[p].view /\ cycle'[p].found = cycle[p].found
        /\ cycle'[p].ids = cycle[p].ids \ {First(cycle[p].ids)}
        /\ pc[p] = "next" /\ cycle[p].ids # {}
    BY <1>4, FetchFields DEF Same
  <2>2. CASE pc'[p] = "act"
    <3>1. cycle'[p].cur \in Fetched(p)
      BY <1>4, <2>2, FetchFields
    <3>2. cycle'[p].cur \in cycle[p].found /\ Rank(cycle[p].view, cycle'[p].cur) = First(cycle[p].ids)
      BY <1>0, <2>1, <3>1, FetchedIsFound
    <3> QED BY <1>0, <2>1, <2>2, <3>2 DEF ListedBy, Rank
  <2>3. CASE pc'[p] = "next" /\ Same(p, {"n", "cur", "todo"})
    <3>1. cycle'[p].cur = cycle[p].cur
      BY <2>3 DEF Same
    <3> QED BY <1>0, <2>1, <2>3, <3>1 DEF ListedBy, Rank
  <2> QED BY <1>4, <2>2, <2>3, FetchFields
<1>5. CASE Skip(p)
  <2>1. /\ cycle'[p].view = cycle[p].view /\ cycle'[p].found = cycle[p].found
        /\ cycle'[p].cur = cycle[p].cur /\ cycle'[p].ids \subseteq cycle[p].ids
        /\ pc[p] = "next" /\ pc'[p] = "next"
    BY <1>5, SkipFields DEF Same, AllFields
  <2> QED BY <1>0, <2>1 DEF ListedBy, Rank
<1>6. CASE Forward(p) \/ Extract(p)
  <2>1. /\ cycle'[p].view = cycle[p].view /\ cycle'[p].found = cycle[p].found
        /\ cycle'[p].cur = cycle[p].cur /\ cycle'[p].ids = cycle[p].ids
        /\ pc[p] = "act" /\ pc'[p] = "act"
    BY <1>6, TriesFields DEF Same, AllFields
  <2> QED BY <1>0, <2>1 DEF ListedBy, Rank
<1>7. CASE Mark(p) \/ LeaveUnread(p)
  <2>1. /\ cycle'[p].view = cycle[p].view /\ cycle'[p].found = cycle[p].found
        /\ cycle'[p].ids = cycle[p].ids /\ pc[p] = "act" /\ pc'[p] = "next" /\ cycle'[p].cur = 0
    BY <1>7, MarkFields DEF Same
  <2> QED BY <1>0, <2>1 DEF ListedBy, Rank
<1>8. CASE Copy(p) \/ Delete(p) \/ Expunge(p) \/ MoveRaises(p)
  BY <1>0, <1>8, CopyFields, DeleteFields, ExpungeFields, RaiseFields DEF ListedBy
<1> QED BY <1>1, <1>2, <1>3, <1>4, <1>5, <1>6, <1>7, <1>8 DEF ForwarderStep

\* Without moves, lists are kept in every state.
LEMMA ListedInvariance == Spec => [](~config.move => Listed)
<1>1. Init => Listed
  BY DEF Init, Listed, ListedBy, NoCycle
<1>2. Inv /\ (~config.move => Listed) /\ [Next]_vars => (~config.move => Listed)'
  <2> SUFFICES ASSUME Inv, Listed, ~config.move, [Next]_vars PROVE Listed'
    BY ArrivedGrows DEF Inv
  <2>1. CASE UNCHANGED vars
    BY <2>1, ListedKept DEF vars, Listed
  <2> QED BY <2>1, EnvironmentLists, TaskLists DEF Inv, Next
<1> QED BY <1>1, <1>2, Invariance, PTL DEF Spec

\* Without moves, the mail a task fetches for a number (processing.py) is one that its
\* search found unread, however mails arrive and connections are lost meanwhile.
THEOREM ListNamesItsMails == Spec => []HandlesWhatItFound
<1>1. (~config.move => Listed) => HandlesWhatItFound
  BY DEF Listed, ListedBy, HandlesWhatItFound
<1> QED BY <1>1, ListedInvariance, PTL

-----------------------------------------------------------------------------
(* Unless mails are moved, what is sent again was left unmarked by a task  *)
(* that died or could not mark it, or was listed by two tasks.             *)

\* What two tasks have on their lists may be sent by both.
Shared(p, q) == cycle[p].found \cap cycle[q].found \subseteq risked

\* After a send was attempted the mail is marked, is at risk, or is in the hands of
\* the task that sent it.
Accounted(m, j) ==
  m \in risked \/ m \in seen
  \/ \E p \in Tasks : pc[p] = "act" /\ cycle[p].cur = m /\ j \notin cycle[p].todo

\* No send was attempted for a mail that is still on a list, or in hand and not sent.
Unsent(p) ==
  /\ \A m \in cycle[p].found, j \in Jobs :
       Rank(cycle[p].view, m) \in cycle[p].ids /\ <<m, j>> \in tried => m \in risked
  /\ \A j \in cycle[p].todo :
       pc[p] = "act" /\ <<cycle[p].cur, j>> \in tried => cycle[p].cur \in risked

Repeating ==
  /\ \A p \in Tasks : \A q \in Tasks \ {p} : Shared(p, q)
  /\ \A m \in Matching, j \in Jobs : <<m, j>> \in tried => Accounted(m, j)
  /\ \A p \in Tasks : Unsent(p)

\* Nothing is sent, and the local variables of one task change.
LEMMA RepeatingKept ==
  ASSUME Repeating, NEW p \in Tasks, Others(p), tried' = tried,
         seen \subseteq seen', risked \subseteq risked',
         \A q \in Tasks \ {p} : cycle'[p].found \cap cycle[q].found \subseteq risked',
         Unsent(p)',
         pc[p] = "act" /\ pc'[p] # "act" => cycle[p].cur \in seen' \cup risked',
         pc[p] = "act" /\ pc'[p] = "act" => cycle'[p] = cycle[p]
  PROVE  Repeating'
<1>1. ASSUME NEW q \in Tasks, NEW r \in Tasks \ {q} PROVE Shared(q, r)'
  <2>1. CASE q = p
    BY <2>1 DEF Others, Shared
  <2>2. CASE r = p
    BY <2>2 DEF Others, Shared
  <2>3. CASE q # p /\ r # p
    BY <2>3 DEF Others, Shared, Repeating
  <2> QED BY <2>1, <2>2, <2>3
<1>2. ASSUME NEW m \in Matching, NEW j \in Jobs, <<m, j>> \in tried'
      PROVE  Accounted(m, j)'
  <2>1. Accounted(m, j)
    BY <1>2 DEF Repeating
  <2>2. CASE m \in risked \/ m \in seen
    BY <2>2 DEF Accounted
  <2>3. CASE \E q \in Tasks : pc[q] = "act" /\ cycle[q].cur = m /\ j \notin cycle[q].todo
    BY <2>3 DEF Accounted, Others
  <2> QED BY <2>1, <2>2, <2>3 DEF Accounted
<1>3. ASSUME NEW q \in Tasks PROVE Unsent(q)'
  <2>1. CASE q = p
    BY <2>1
  <2>2. CASE q # p
    BY <2>2 DEF Others, Unsent, Repeating, Rank
  <2> QED BY <2>1, <2>2
<1> QED BY <1>1, <1>2, <1>3 DEF Repeating

\* The same, when the list of the task only gets shorter.
LEMMA ShorterListRepeats ==
  ASSUME Repeating, NEW p \in Tasks, Others(p), tried' = tried,
         seen \subseteq seen', risked \subseteq risked', pc'[p] # "act",
         cycle'[p] = NoCycle
           \/ (Same(p, {"view", "found"}) /\ cycle'[p].ids \subseteq cycle[p].ids)
           \/ (cycle'[p].ids = {} /\ cycle'[p].found = {}),
         pc[p] = "act" => cycle[p].cur \in seen' \cup risked'
  PROVE  Repeating'
<1>1. cycle'[p].found \subseteq cycle[p].found
  BY DEF Same, NoCycle
<1>2. \A q \in Tasks \ {p} : cycle'[p].found \cap cycle[q].found \subseteq risked'
  BY <1>1 DEF Repeating, Shared
<1>3. Unsent(p)'
  BY DEF Same, NoCycle, Repeating, Unsent, Rank
<1> QED BY <1>2, <1>3, RepeatingKept

\* A death puts the mail in hand at risk; nothing else outside makes a repeat.
LEMMA EnvironmentRepeats ==
  ASSUME TypeOK, Repeating, Environment
  PROVE  Repeating'
<1>0. tried' = tried /\ risked \subseteq risked' /\ seen \subseteq seen'
  BY DEF Environment, Arrive, OwnerReads, Drop, StartNext, Terminate, Kill, historyVars, mailboxVars
<1>1. CASE \E p \in Tasks : Kill(p)
  <2>1. PICK p \in Tasks : Kill(p)
    BY <1>1
  <2>2. pc[p] = "act" => cycle[p].cur \in risked'
    BY <2>1 DEF Kill
  <2>3. Others(p) /\ cycle'[p] = NoCycle /\ pc'[p] # "act"
    BY <2>1, KillKeepsOthers
  <2> QED BY <1>0, <2>2, <2>3, ShorterListRepeats
<1>2. CASE \E p \in Tasks : StartNext(p) \/ Terminate(p)
  <2>1. PICK p \in Tasks : StartNext(p) \/ Terminate(p)
    BY <1>2
  <2>2. cycle' = cycle /\ \A q \in Tasks : pc'[q] = "act" <=> pc[q] = "act"
    BY <2>1 DEF StartNext, Terminate, Goto, TypeOK
  <2> QED BY <1>0, <2>2 DEF Repeating, Shared, Accounted, Unsent, Rank
<1>3. CASE UNCHANGED <<pc, cycle>>
  BY <1>0, <1>3 DEF Repeating, Shared, Accounted, Unsent, Rank
<1> QED BY <1>1, <1>2, <1>3 DEF Environment, Arrive, OwnerReads, Drop

\* An attempt for a mail in hand: the other tasks that have it on their lists, and
\* the mails still on this one's.
LEMMA TriesRepeats ==
  ASSUME TypeOK, Listed, Repeating, NEW p \in Tasks, Forward(p) \/ Extract(p)
  PROVE  Repeating'
<1>1. PICK j \in cycle[p].todo : /\ cycle'[p].todo = cycle[p].todo \ {j}
                                 /\ tried' = tried \cup {<<cycle[p].cur, j>>}
  BY TriesFields
<1>2. /\ pc[p] = "act" /\ pc'[p] = "act" /\ seen' = seen /\ risked' = risked
      /\ cycle'[p].view = cycle[p].view /\ cycle'[p].ids = cycle[p].ids
      /\ cycle'[p].found = cycle[p].found /\ cycle'[p].cur = cycle[p].cur
  BY TriesFields DEF Same, AllFields, mailboxVars
<1>3. Others(p)
  BY OthersKept DEF ForwarderStep
<1>4. cycle[p].cur \in cycle[p].found /\ Rank(cycle[p].view, cycle[p].cur) \notin cycle[p].ids
  BY <1>2 DEF Listed, ListedBy
<1>5. ASSUME NEW q \in Tasks \ {p}, cycle[p].cur \in cycle[q].found
      PROVE  cycle[p].cur \in risked
  BY <1>4, <1>5 DEF Repeating, Shared
<1>6. ASSUME NEW q \in Tasks, NEW r \in Tasks \ {q} PROVE Shared(q, r)'
  <2>1. cycle'[q].found = cycle[q].found /\ cycle'[r].found = cycle[r].found
    BY <1>2, <1>3 DEF Others
  <2> QED BY <1>2, <2>1 DEF Shared, Repeating
<1>7. ASSUME NEW m \in Matching, NEW i \in Jobs, <<m, i>> \in tried'
      PROVE  Accounted(m, i)'
  <2>1. CASE <<m, i>> \in tried
    <3>1. Accounted(m, i)
      BY <2>1 DEF Repeating
    <3>2. CASE m \in risked \/ m \in seen
      BY <1>2, <3>2 DEF Accounted
    <3>3. CASE \E q \in Tasks : pc[q] = "act" /\ cycle[q].cur = m /\ i \notin cycle[q].todo
      BY <1>1, <1>2, <1>3, <3>3 DEF Accounted, Others
    <3> QED BY <3>1, <3>2, <3>3 DEF Accounted
  <2>2. CASE m = cycle[p].cur /\ i = j
    BY <1>1, <1>2, <2>2 DEF Accounted
  <2> QED BY <1>1, <1>7, <2>1, <2>2
<1>8. ASSUME NEW q \in Tasks \ {p} PROVE Unsent(q)'
  <2>1. cycle'[q] = cycle[q] /\ pc'[q] = pc[q]
    BY <1>3 DEF Others
  <2>2. pc[q] = "act" => cycle[q].cur \in cycle[q].found
    BY DEF Listed, ListedBy
  <2>3. Unsent(q)
    BY DEF Repeating
  <2> QED BY <1>1, <1>2, <1>5, <2>1, <2>2, <2>3 DEF Unsent, Rank
<1>9. Unsent(p)'
  <2>1. Unsent(p)
    BY DEF Repeating
  <2>2. ASSUME NEW m \in cycle[p].found, NEW i \in Jobs,
               Rank(cycle[p].view, m) \in cycle[p].ids, <<m, i>> \in tried'
        PROVE  m \in risked
    <3>1. m # cycle[p].cur
      BY <1>4, <2>2
    <3> QED BY <1>1, <2>1, <2>2, <3>1 DEF Unsent
  <2>3. ASSUME NEW i \in cycle'[p].todo, <<cycle[p].cur, i>> \in tried'
        PROVE  cycle[p].cur \in risked
    BY <1>1, <1>2, <2>1, <2>3 DEF Unsent
  <2> QED BY <1>2, <2>2, <2>3 DEF Unsent, Rank
<1> QED BY <1>6, <1>7, <1>8, <1>9 DEF Repeating

\* Each step of a task keeps the account of what was sent.
LEMMA TaskRepeats ==
  ASSUME TypeOK, Listed, Repeating, ~config.move, NEW p \in Tasks, ForwarderStep(p)
  PROVE  Repeating'
<1>0. Others(p) /\ risked \subseteq risked' /\ ListedBy(p) /\ Unsent(p)
  BY OthersKept, ArrivedGrows DEF Next, Listed, Repeating
<1>1. CASE Start(p) \/ GetImap(p) \/ CycleFails(p) \/ Exit(p) \/ SearchRefused(p) \/ EndCycle(p)
  <2>1. /\ tried' = tried /\ seen' = seen /\ pc[p] # "act" /\ pc'[p] # "act"
        /\ cycle'[p] = NoCycle \/ cycle'[p] = cycle[p]
    BY <1>1, QuietFields DEF mailboxVars
  <2> QED BY <1>0, <2>1, ShorterListRepeats DEF Same
<1>2. CASE Select(p)
  <2>1. /\ tried' = tried /\ seen' = seen /\ pc[p] # "act" /\ pc'[p] # "act"
        /\ cycle'[p].ids = {} /\ cycle'[p].found = {}
    BY <1>0, <1>2, SelectFields DEF Same, AllFields, mailboxVars, ListedBy
  <2> QED BY <1>0, <2>1, ShorterListRepeats
<1>3. CASE Search(p)
  <2> DEFINE S == Batch(Unread(p))
  <2>1. /\ tried' = tried /\ seen' = seen /\ pc[p] = "search" /\ pc'[p] = "next"
        /\ cycle'[p].view = cycle[p].view /\ cycle'[p].found = S
        /\ risked' = risked \cup (S \cap InOtherHands(p))
    BY <1>3, SearchFields DEF Same, AllFields, mailboxVars
  <2>2. \A q \in Tasks \ {p} : cycle'[p].found \cap cycle[q].found \subseteq risked'
    BY <2>1 DEF InOtherHands
  <2>3. ASSUME NEW m \in S, NEW j \in Jobs, <<m, j>> \in tried
        PROVE  m \in risked'
    <3>1. m \notin seen
      BY FoundIsUnread
    <3>2. m \in Matching
      BY <2>3 DEF TypeOK
    <3>3. m \in risked \/ \E q \in Tasks : pc[q] = "act" /\ cycle[q].cur = m
      BY <2>3, <3>1, <3>2 DEF Repeating, Accounted
    <3>4. ASSUME NEW q \in Tasks, pc[q] = "act", cycle[q].cur = m
          PROVE  m \in InOtherHands(p)
      <4>1. m \in cycle[q].found /\ q # p
        BY <2>1, <3>4 DEF Listed, ListedBy
      <4> QED BY <4>1 DEF InOtherHands
    <3> QED BY <2>1, <3>3, <3>4
  <2>4. Unsent(p)'
    BY <2>1, <2>3 DEF Unsent
  <2> QED BY <1>0, <2>1, <2>2, <2>4, RepeatingKept
<1>4. CASE Fetch(p)
  <2>1. /\ cycle'[p].view = cycle[p].view /\ cycle'[p].found = cycle[p].found
        /\ cycle'[p].ids = cycle[p].ids \ {First(cycle[p].ids)}
        /\ pc[p] = "next" /\ cycle[p].ids # {} /\ tried' = tried /\ seen' = seen /\ risked' = risked
    BY <1>4, FetchFields DEF Same, mailboxVars
  <2>2. CASE pc'[p] = "act"
    <3>1. cycle'[p].cur \in Fetched(p) /\ cycle'[p].cur \in Matching /\ cycle'[p].todo = Work(cycle'[p].cur)
      BY <1>4, <2>2, FetchFields
    <3>2. cycle'[p].cur \in cycle[p].found /\ Rank(cycle[p].view, cycle'[p].cur) \in cycle[p].ids
      BY <1>0, <2>1, <3>1, FetchedIsFound
    <3>3. Unsent(p)'
      BY <1>0, <2>1, <3>1, <3>2, WorkType DEF Unsent, Rank
    <3>4. \A q \in Tasks \ {p} : cycle'[p].found \cap cycle[q].found \subseteq risked'
      BY <2>1 DEF Repeating, Shared
    <3> QED BY <1>0, <2>1, <3>3, <3>4, RepeatingKept
  <2>3. CASE pc'[p] # "act"
    BY <1>0, <2>1, <2>3, ShorterListRepeats DEF Same
  <2> QED BY <2>2, <2>3
<1>5. CASE Skip(p)
  <2>1. /\ tried' = tried /\ seen' = seen /\ pc[p] # "act" /\ pc'[p] # "act"
        /\ Same(p, {"view", "found"}) /\ cycle'[p].ids \subseteq cycle[p].ids
    BY <1>5, SkipFields DEF Same, AllFields, mailboxVars
  <2> QED BY <1>0, <2>1, ShorterListRepeats
<1>6. CASE Forward(p) \/ Extract(p)
  BY <1>6, TriesRepeats
<1>7. CASE Mark(p) \/ LeaveUnread(p)
  <2>1. /\ tried' = tried /\ seen \subseteq seen' /\ pc'[p] # "act"
        /\ Same(p, {"view", "found"}) /\ cycle'[p].ids \subseteq cycle[p].ids
        /\ cycle[p].cur \in seen' \cup risked'
    BY <1>7, MarkFields DEF Same
  <2> QED BY <1>0, <2>1, ShorterListRepeats
<1>8. CASE Copy(p) \/ Delete(p) \/ Expunge(p) \/ MoveRaises(p)
  BY <1>0, <1>8, CopyFields, DeleteFields, ExpungeFields, RaiseFields DEF ListedBy
<1> QED BY <1>1, <1>2, <1>3, <1>4, <1>5, <1>6, <1>7, <1>8 DEF ForwarderStep

\* Without moves, sends are accounted for in every state.
LEMMA RepeatingInvariance == Spec => [](~config.move => Repeating)
<1>1. Init => Repeating
  BY DEF Init, Repeating, Shared, Unsent, NoCycle
<1>2. Inv /\ (~config.move => Listed) /\ (~config.move => Repeating) /\ [Next]_vars
        => (~config.move => Repeating)'
  <2> SUFFICES ASSUME Inv, Listed, Repeating, ~config.move, [Next]_vars PROVE Repeating'
    BY ArrivedGrows DEF Inv
  <2>1. CASE UNCHANGED vars
    BY <2>1 DEF vars, historyVars, mailboxVars, Repeating, Shared, Accounted, Unsent, Rank
  <2> QED BY <2>1, EnvironmentRepeats, TaskRepeats DEF Inv, Next
<1> QED BY <1>1, <1>2, Invariance, ListedInvariance, PTL DEF Spec

\* Without moves, a send is attempted again only for a mail that a task left unmarked,
\* by dying or a failed STORE, or that two tasks had listed (processing.py, compose.yml).
THEOREM RepeatsAreAccountedFor == Spec => []RepeatsHaveACause
<1>1. Inv /\ (~config.move => Repeating) => RepeatsHaveACause
  BY DEF Repeating, Unsent, RepeatsHaveACause
<1> QED BY <1>1, Invariance, RepeatingInvariance, PTL
=============================================================================
