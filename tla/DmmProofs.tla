----------------------------- MODULE DmmProofs ------------------------------
(***************************************************************************)
(* The safety properties of Dmm, for any containers, devices, programs of  *)
(* the runtime, reloads and faults.                                        *)
(***************************************************************************)
EXTENDS Dmm, TLAPS

\* What a set of programs are successors of.
Chains(S) == {Chain(p) : p \in S}

\* A goroutine is replacing programs.
Working(t) == th[t].pc \in {"detach", "attach"}

\* A goroutine that is at the programs of a container has one in hand.
InHand(t) == th[t].pc \in {"rule", "detach", "attach"} => th[t].c \in Containers

\* For each program it has taken or still wants to take, it holds a new one.
Owes(t) ==
  /\ Chains(th[t].old) \cup th[t].took \subseteq Chains(th[t].new)
  /\ th[t].pc = "attach" => th[t].old = {}

\* The goroutines run and end together; a reload that has begun is counted.
Together ==
  /\ th["main"].pc = "off" => th["reload"].pc = "off"
  /\ reloading = "begun" => reloads > 0

\* The programs of a container allow what it was granted, and so do those that a
\* goroutine is about to attach to it.
Granting ==
  \A c \in Containers : \A d \in kept[c] :
    /\ life[c] = "running"
    /\ \A p \in progs[c] : d \in p.allows
    /\ \A t \in Threads : th[t].c = c => \A p \in th[t].new : d \in p.allows

\* The inductive invariant.
Inv ==
  /\ TypeOK
  /\ \A t \in Threads : InHand(t) /\ Owes(t)
  /\ Together
  /\ NoProgramIsLost
  /\ Granting

-----------------------------------------------------------------------------
(* Programs.                                                               *)

\* A reload that wipes or has wiped is counted, so originals have a known generation.
LEMMA WipesType ==
  ASSUME TypeOK, Together
  PROVE  Wipes \in 0..MaxReloads
BY DmmAssumption DEF TypeOK, Together, Wipes

\* The runtime attaches programs that refuse all devices, one of each base.
LEMMA OriginalType ==
  ASSUME NEW g \in 0..MaxReloads
  PROVE  /\ Original(g) \subseteq Program
         /\ \A b \in Bases : \E p \in Original(g) : Chain(p) = <<b, g>>
<1>1. \A b \in Bases : [base |-> b, gen |-> g, allows |-> {}] \in Original(g)
  BY DEF Original
<1>2. Original(g) \subseteq Program
  BY DEF Original, Program
<1>3. ASSUME NEW b \in Bases
      PROVE  \E p \in Original(g) : Chain(p) = <<b, g>>
  <2>1. Chain([base |-> b, gen |-> g, allows |-> {}]) = <<b, g>>
    BY DEF Chain
  <2> QED BY <1>1, <2>1
<1> QED BY <1>2, <1>3

\* A rule is prepended to a program: it allows one device more.
LEMMA PrependType ==
  ASSUME NEW p \in Program, NEW d \in Devices
  PROVE  /\ Prepend(p, d) \in Program /\ Chain(Prepend(p, d)) = Chain(p)
         /\ p.allows \subseteq Prepend(p, d).allows
BY DEF Prepend, Program, Chain

\* What a program is a successor of.
LEMMA ChainType == \A p \in Program : Chain(p) \in Bases \X (0..MaxReloads)
BY DEF Chain, Program

-----------------------------------------------------------------------------
(* Steps that leave the programs of all containers alone.                  *)

\* A goroutine that is at no programs before and after a step.
Idles(t) ==
  /\ th' \in [Threads -> Goroutines]
  /\ \A u \in Threads \ {t} : th'[u] = th[u]
  /\ ~Working(t) /\ ~Working(t)' /\ th[t].pc # "off" /\ th'[t].pc # "off"
  /\ th'[t].old = {} /\ th'[t].new = {} /\ th'[t].took = {} /\ th'[t].gone = {}
  /\ InHand(t)'

\* The node stays as it is.
Quiet ==
  /\ UNCHANGED <<life, reloads, reloading, progs, kept, harmed>>
  /\ signals' \in Nat /\ listening' \in BOOLEAN
  /\ events' \subseteq Containers /\ subscribed' \in BOOLEAN
  /\ faults' \in 0..MaxFaults /\ excused' \subseteq Containers \X Causes

\* Such a step keeps all that is claimed.
LEMMA IdlesKeeps ==
  ASSUME Inv, NEW t \in Threads, Idles(t), Quiet
  PROVE  Inv'
<1>1. TypeOK'
  BY DEF Inv, TypeOK, Idles, Working, Quiet
<1>2. \A u \in Threads : InHand(u)' /\ Owes(u)'
  BY DEF Inv, Idles, InHand, Owes, Chains, Working
<1>3. Together'
  BY DEF Inv, Together, Idles, Threads, Quiet
<1>4. NoProgramIsLost'
  <2>1. th[t].took = {}
    BY DEF Inv, TypeOK, Idles, Working, Quiet
  <2> QED BY <2>1 DEF Inv, NoProgramIsLost, Idles, Running, Wipes, Quiet
<1>5. Granting'
  BY DEF Inv, Granting, Idles, Quiet
<1> QED BY <1>1, <1>2, <1>3, <1>4, <1>5 DEF Inv


\* The local variables of one goroutine become r.
Becomes(t, r) == th' = [th EXCEPT ![t] = r]

\* The same, given what the local variables become.
LEMMA BecomesIdle ==
  ASSUME Inv, NEW t \in Threads, NEW r \in Goroutines, Becomes(t, r), Quiet,
         ~Working(t), th[t].pc # "off", r.pc \notin {"off", "detach", "attach"},
         r.old = th[t].old, r.new = th[t].new, r.took = th[t].took, r.gone = th[t].gone,
         r.pc = "rule" => r.c \in Containers
  PROVE  Inv'
<1>1. th \in [Threads -> Goroutines]
  BY DEF Inv, TypeOK
<1>2. th'[t] = r /\ \A u \in Threads \ {t} : th'[u] = th[u]
  BY <1>1 DEF Becomes
<1>3. r.old = {} /\ r.new = {} /\ r.took = {} /\ r.gone = {}
  BY DEF Inv, TypeOK, Working
<1>4. Idles(t)
  BY <1>1, <1>2, <1>3 DEF Idles, Working, InHand, Becomes
<1> QED BY <1>4, IdlesKeeps

\* The steps of a goroutine between two replacements.
LEMMA IdleSteps ==
  ASSUME Inv, NEW t \in Threads,
         \/ Scan(t) \/ Finish(t) \/ Inspect(t) \/ ContainerDone(t)
         \/ t = "main" /\ (Subscribe \/ TakeEvent)
         \/ t = "reload" /\ TakeSignal
  PROVE  Inv'
<1>t. TypeOK /\ th \in [Threads -> Goroutines] /\ th[t] \in Goroutines
  BY DEF Inv, TypeOK
<1>1. CASE Scan(t)
  <2> DEFINE r == [th[t] EXCEPT !.pc = "next", !.queue = Running]
  <2>1. Becomes(t, r)
    BY <1>t, <1>1 DEF Scan, Becomes
  <2>2. Quiet /\ ~Working(t) /\ th[t].pc # "off"
    BY <1>t, <1>1 DEF Scan, Quiet, nodeVars, channelVars, TypeOK, Working
  <2>3. /\ r \in Goroutines /\ r.pc = "next" /\ r.old = th[t].old /\ r.new = th[t].new
        /\ r.took = th[t].took /\ r.gone = th[t].gone
    BY <1>t DEF Goroutines, Running
  <2> HIDE DEF r
  <2> QED BY <2>1, <2>2, <2>3, BecomesIdle
<1>2. CASE Finish(t)
  <2>1. PICK l \in {"subscribe", "listen"} : th' = [th EXCEPT ![t].pc = l]
    BY <1>2 DEF Finish
  <2> DEFINE r == [th[t] EXCEPT !.pc = l]
  <2>2. Becomes(t, r)
    BY <1>t, <2>1 DEF Becomes
  <2>3. Quiet /\ ~Working(t) /\ th[t].pc # "off"
    BY <1>t, <1>2 DEF Finish, Quiet, nodeVars, channelVars, TypeOK, Working
  <2>4. /\ r \in Goroutines /\ r.pc = l /\ r.old = th[t].old /\ r.new = th[t].new
        /\ r.took = th[t].took /\ r.gone = th[t].gone
    BY <1>t DEF Goroutines
  <2> HIDE DEF r
  <2> QED BY <2>1, <2>2, <2>3, <2>4, BecomesIdle
<1>3. CASE Inspect(t)
  <2>1. PICK c \in th[t].queue :
          \/ th' = [th EXCEPT ![t].pc = "rule", ![t].c = c, ![t].queue = @ \ {c}, ![t].devs = Mounts[c]]
          \/ th' = [th EXCEPT ![t].queue = @ \ {c}]
    BY <1>3 DEF Inspect
  <2>2. c \in Containers /\ Mounts[c] \in SUBSET Devices
    BY <1>t, DmmAssumption DEF Goroutines
  <2>3. Quiet
    <3>1. excused' \subseteq Containers \X Causes
      <4>1. th[t].queue \subseteq Containers
        BY <1>t DEF Goroutines
      <4>2. UNCHANGED excused \/ \E x \in th[t].queue : Excuse(x)
        BY <1>3 DEF Inspect
      <4> QED BY <1>t, <4>1, <4>2 DEF Excuse, Causes, TypeOK
    <3>2. faults' \in 0..MaxFaults
      <4>1. Fault \/ NoFault
        BY <1>3 DEF Inspect
      <4> QED BY <1>t, <4>1, DmmAssumption DEF Fault, NoFault, TypeOK
    <3>3. UNCHANGED <<nodeVars, progs, channelVars, harmed, kept>>
      BY <1>3 DEF Inspect
    <3> QED BY <1>t, <3>1, <3>2, <3>3 DEF Quiet, nodeVars, channelVars, TypeOK
  <2>4. ~Working(t) /\ th[t].pc = "next"
    BY <1>3 DEF Inspect, Working
  <2> DEFINE D == Mounts[c]
             r == [th[t] EXCEPT !.pc = "rule", !.c = c, !.queue = @ \ {c}, !.devs = D]
             s == [th[t] EXCEPT !.queue = @ \ {c}]
  <2> HIDE DEF D
  <2>5. Becomes(t, r) \/ Becomes(t, s)
    BY <1>t, <2>1 DEF Becomes, D
  <2>6. /\ r \in Goroutines /\ r.pc = "rule" /\ r.c = c /\ r.old = th[t].old /\ r.new = th[t].new
        /\ r.took = th[t].took /\ r.gone = th[t].gone
    BY <1>t, <2>2 DEF Goroutines, D
  <2>7. /\ s \in Goroutines /\ s.pc = th[t].pc /\ s.old = th[t].old /\ s.new = th[t].new
        /\ s.took = th[t].took /\ s.gone = th[t].gone
    BY <1>t DEF Goroutines
  <2> HIDE DEF r, s
  <2> QED BY <2>2, <2>3, <2>4, <2>5, <2>6, <2>7, BecomesIdle
<1>4. CASE ContainerDone(t)
  <2> DEFINE r == [th[t] EXCEPT !.pc = "next", !.c = None, !.devs = {}]
  <2>1. Becomes(t, r)
    BY <1>t, <1>4 DEF ContainerDone, Becomes
  <2>2. Quiet /\ ~Working(t) /\ th[t].pc # "off"
    BY <1>t, <1>4 DEF ContainerDone, Quiet, nodeVars, channelVars, TypeOK, Working
  <2>3. /\ r \in Goroutines /\ r.pc = "next" /\ r.old = th[t].old /\ r.new = th[t].new
        /\ r.took = th[t].took /\ r.gone = th[t].gone
    BY <1>t DEF Goroutines
  <2> HIDE DEF r
  <2> QED BY <2>1, <2>2, <2>3, BecomesIdle
<1>5. CASE (t = "main" /\ Subscribe) \/ (t = "reload" /\ TakeSignal)
  <2>1. PICK l \in {"listen", "scan"} : th' = [th EXCEPT ![t].pc = l]
    BY <1>5 DEF Subscribe, TakeSignal
  <2> DEFINE r == [th[t] EXCEPT !.pc = l]
  <2>2. Becomes(t, r)
    BY <1>t, <2>1 DEF Becomes
  <2>3. Quiet /\ ~Working(t) /\ th[t].pc # "off"
    <3>1. CASE Subscribe /\ t = "main"
      BY <1>t, <3>1 DEF Subscribe, Quiet, nodeVars, TypeOK, Working
    <3>2. CASE TakeSignal /\ t = "reload"
      BY <1>t, <3>2 DEF TakeSignal, Quiet, nodeVars, TypeOK, Working
    <3> QED BY <1>5, <3>1, <3>2
  <2>4. /\ r \in Goroutines /\ r.pc = l /\ r.old = th[t].old /\ r.new = th[t].new
        /\ r.took = th[t].took /\ r.gone = th[t].gone
    BY <1>t DEF Goroutines
  <2> HIDE DEF r
  <2> QED BY <2>1, <2>2, <2>3, <2>4, BecomesIdle
<1>6. CASE t = "main" /\ TakeEvent
  <2>1. PICK c \in events : th' = [th EXCEPT ![t].pc = "next", ![t].queue = {c}]
    BY <1>6 DEF TakeEvent
  <2> DEFINE r == [th[t] EXCEPT !.pc = "next", !.queue = {c}]
  <2>2. Becomes(t, r)
    BY <1>t, <2>1 DEF Becomes
  <2>3. Quiet /\ ~Working(t) /\ th[t].pc # "off"
    BY <1>t, <1>6 DEF TakeEvent, Quiet, nodeVars, TypeOK, Working
  <2>4. c \in Containers
    BY <1>t, <2>1 DEF TypeOK
  <2>5. /\ r \in Goroutines /\ r.pc = "next" /\ r.old = th[t].old /\ r.new = th[t].new
        /\ r.took = th[t].took /\ r.gone = th[t].gone
    BY <1>t, <2>4 DEF Goroutines
  <2> HIDE DEF r
  <2> QED BY <2>2, <2>3, <2>5, BecomesIdle
<1> QED BY <1>1, <1>2, <1>3, <1>4, <1>5, <1>6

-----------------------------------------------------------------------------
(* The node, and the beginning and end of the manager.                     *)

\* A goroutine that does not run has nothing.
LEMMA OffType == Off \in Goroutines /\ Off.pc = "off" /\ Off.old = {} /\ Off.gone = {}
                 /\ Off.new = {} /\ Off.took = {} /\ Off.c = None
BY DEF Off, Goroutines

\* At first nothing is replaced and nothing granted.
LEMMA InitInv == Init => Inv
<1> SUFFICES ASSUME Init PROVE Inv
  OBVIOUS
<1>1. \A t \in Threads : th[t] = Off
  BY DEF Init
<1>2. 0 \in 0..MaxReloads /\ 0 \in 0..MaxFaults
  BY DmmAssumption
<1>3. TypeOK
  BY <1>1, <1>2, OffType, OriginalType DEF Init, TypeOK
<1>4. NoProgramIsLost
  BY <1>2, OriginalType DEF Init, NoProgramIsLost, Running, Wipes
<1>5. \A t \in Threads : InHand(t) /\ Owes(t)
  BY <1>1, OffType DEF InHand, Owes, Chains
<1>6. Together /\ Granting
  BY <1>1, OffType DEF Init, Together, Granting, Threads
<1> QED BY <1>3, <1>4, <1>5, <1>6 DEF Inv

\* The goroutines end: what they owed is lost, and the history says so.
LEMMA DiesInv ==
  ASSUME Inv, Dies, faults' \in 0..MaxFaults
  PROVE  Inv'
<1>1. \A t \in Threads : th'[t] = Off
  BY DEF Dies
<1>2. TypeOK'
  <2>1. harmed' \subseteq Containers
    BY DEF Inv, TypeOK, Dies, Running
  <2>2. th' \in [Threads -> Goroutines]
    BY OffType DEF Dies
  <2>3. UNCHANGED <<nodeVars, progs, excused, kept>> /\ signals' = 0 /\ listening' = FALSE
        /\ events' = {} /\ subscribed' = FALSE
    BY DEF Dies
  <2>4. \A t \in Threads : th'[t].gone = {} /\ th'[t].old = {} /\ th'[t].new = {} /\ th'[t].took = {}
    BY <1>1, OffType
  <2> QED BY <2>1, <2>2, <2>3, <2>4 DEF Inv, TypeOK, nodeVars
<1>3. NoProgramIsLost'
  <2>1. ASSUME NEW c \in Running \ harmed', NEW b \in Bases
        PROVE  \E p \in progs[c] : Chain(p) = <<b, Wipes>>
    <3>1. c \in Running \ harmed /\ c \notin Victims
      BY <2>1 DEF Dies
    <3>2. \A t \in Threads : th[t].c = c => th[t].took = {}
      BY <3>1 DEF Victims
    <3> QED BY <3>1, <3>2 DEF Inv, NoProgramIsLost
  <2>2. UNCHANGED <<life, progs, reloads, reloading>>
    BY DEF Dies, nodeVars
  <2> QED BY <2>1, <2>2 DEF NoProgramIsLost, Running, Wipes
<1>4. \A t \in Threads : InHand(t)' /\ Owes(t)'
  BY <1>1, OffType DEF InHand, Owes, Chains
<1>5. Together' /\ Granting'
  BY <1>1, OffType DEF Inv, Dies, Together, Granting, Threads, nodeVars
<1> QED BY <1>2, <1>3, <1>4, <1>5 DEF Inv

\* What containers, systemd, docker's restart and a kill do.
LEMMA NodeInv ==
  ASSUME Inv, NodeStep \/ Begin
  PROVE  Inv'
<1>t. TypeOK /\ Together /\ Granting /\ NoProgramIsLost /\ \A t \in Threads : InHand(t) /\ Owes(t)
  BY DEF Inv
<1>n. MaxReloads \in Nat /\ MaxFaults \in Nat
  BY DmmAssumption
<1>1. ASSUME NEW c \in Containers, ContainerStart(c) PROVE Inv'
  <2>1. Original(Wipes) \subseteq Program /\ \A b \in Bases : \E p \in Original(Wipes) : Chain(p) = <<b, Wipes>>
    BY <1>t, WipesType, OriginalType
  <2>2. TypeOK'
    BY <1>t, <1>1, <2>1 DEF ContainerStart, TypeOK, Causes
  <2>3. NoProgramIsLost'
    BY <1>t, <1>1, <2>1 DEF ContainerStart, TypeOK, NoProgramIsLost, Running, Wipes
  <2>4. Together' /\ \A t \in Threads : InHand(t)' /\ Owes(t)'
    BY <1>t, <1>1 DEF ContainerStart, Together, InHand, Owes, Chains
  <2>5. Granting'
    BY <1>t, <1>1 DEF ContainerStart, TypeOK, Granting
  <2> QED BY <2>2, <2>3, <2>4, <2>5 DEF Inv
<1>2. ASSUME NEW c \in Containers, ContainerStop(c) \/ ContainerRemove(c) PROVE Inv'
  <2>1. /\ life' = [life EXCEPT ![c] = life'[c]] /\ life'[c] \in {"stopped", "removed"}
        /\ progs' = progs \/ progs' = [progs EXCEPT ![c] = {}]
        /\ kept' = kept \/ kept' = [kept EXCEPT ![c] = {}]
        /\ harmed' = harmed \/ harmed' = harmed \ {c}
        /\ excused' \subseteq excused
        /\ UNCHANGED <<reloads, reloading, channelVars, th, faults>>
    BY <1>t, <1>2 DEF ContainerStop, ContainerRemove, TypeOK
  <2>2. TypeOK'
    <3>1. life' \in [Containers -> {"absent", "running", "stopped", "removed"}]
      BY <1>t, <2>1 DEF TypeOK
    <3>2. progs' \in [Containers -> SUBSET Program] /\ kept' \in [Containers -> SUBSET Devices]
      BY <1>t, <2>1 DEF TypeOK
    <3>3. \A x \in Containers : life'[x] # "running" => progs'[x] = {}
      BY <1>t, <1>2 DEF ContainerStop, ContainerRemove, TypeOK
    <3> QED BY <1>t, <2>1, <3>1, <3>2, <3>3 DEF TypeOK, channelVars
  <2>3. NoProgramIsLost'
    BY <1>t, <2>1 DEF TypeOK, NoProgramIsLost, Running, Wipes
  <2>4. Together' /\ \A t \in Threads : InHand(t)' /\ Owes(t)'
    BY <1>t, <2>1 DEF Together, InHand, Owes, Chains
  <2>5. Granting'
    BY <1>t, <1>2 DEF ContainerStop, ContainerRemove, TypeOK, Granting
  <2> QED BY <2>2, <2>3, <2>4, <2>5 DEF Inv
<1>3. CASE ReloadBegin
  <2>1. Wipes' = Wipes
    BY <1>t, <1>3 DEF ReloadBegin, Wipes, TypeOK
  <2>2. TypeOK'
    BY <1>t, <1>n, <1>3 DEF ReloadBegin, Signal, TypeOK
  <2>3. NoProgramIsLost'
    BY <1>t, <1>3, <2>1 DEF ReloadBegin, NoProgramIsLost, Running
  <2>4. Together' /\ \A t \in Threads : InHand(t)' /\ Owes(t)'
    <3>1. reloads' > 0
      BY <1>t, <1>n, <1>3 DEF ReloadBegin, TypeOK
    <3> QED BY <1>t, <1>3, <3>1 DEF ReloadBegin, Together, InHand, Owes, Chains
  <2>5. Granting'
    BY <1>t, <1>3 DEF ReloadBegin, Granting
  <2> QED BY <2>2, <2>3, <2>4, <2>5 DEF Inv
<1>4. CASE ReloadWipe
  <2>1. reloads \in 0..MaxReloads /\ Wipes' = reloads
    BY <1>t, <1>4 DEF ReloadWipe, Wipes, TypeOK
  <2>2. Original(reloads) \subseteq Program /\ \A b \in Bases : \E p \in Original(reloads) : Chain(p) = <<b, reloads>>
    BY <2>1, OriginalType
  <2>3. TypeOK'
    BY <1>t, <1>4, <2>2 DEF ReloadWipe, TypeOK, Running, Causes, channelVars
  <2>4. NoProgramIsLost'
    BY <1>4, <2>1, <2>2 DEF ReloadWipe, NoProgramIsLost, Running
  <2>5. Together' /\ \A t \in Threads : InHand(t)' /\ Owes(t)'
    BY <1>t, <1>4 DEF ReloadWipe, Together, InHand, Owes, Chains
  <2>6. Granting'
    BY <1>4 DEF ReloadWipe, Granting
  <2> QED BY <2>3, <2>4, <2>5, <2>6 DEF Inv
<1>5. CASE ReloadEnd
  <2>1. TypeOK'
    BY <1>t, <1>5 DEF ReloadEnd, Signal, TypeOK
  <2>2. NoProgramIsLost' /\ Granting'
    BY <1>t, <1>5 DEF ReloadEnd, NoProgramIsLost, Running, Wipes, Granting
  <2>3. Together' /\ \A t \in Threads : InHand(t)' /\ Owes(t)'
    BY <1>t, <1>5 DEF ReloadEnd, Together, InHand, Owes, Chains
  <2> QED BY <2>1, <2>2, <2>3 DEF Inv
<1>6. CASE Kill
  BY <1>t, <1>n, <1>6, DiesInv DEF Kill, Fault, TypeOK
<1>7. CASE Begin
  <2>1. \A t \in Threads : th[t].took = {}
    BY <1>t, <1>7 DEF Begin, Together, TypeOK, Threads
  <2>2. /\ th' \in [Threads -> Goroutines]
        /\ \A t \in Threads : /\ th'[t].pc \in {"scan", "listen"} /\ th'[t].took = {} /\ th'[t].gone = {}
                              /\ th'[t].old = {} /\ th'[t].new = {}
    BY <1>7 DEF Begin, Off, Goroutines
  <2>3. /\ UNCHANGED <<nodeVars, progs, signals, events, subscribed, excused, harmed, kept>>
        /\ listening' \in BOOLEAN /\ faults' \in 0..MaxFaults
    <3>1. faults' \in 0..MaxFaults
      BY <1>t, <1>n, <1>7 DEF Begin, Fault, NoFault, TypeOK
    <3>2. listening' \in BOOLEAN
      BY <1>7 DEF Begin
    <3> QED BY <1>7, <3>1, <3>2 DEF Begin
  <2>4. TypeOK'
    BY <1>t, <2>2, <2>3 DEF TypeOK, nodeVars
  <2>5. NoProgramIsLost' /\ Granting'
    BY <1>t, <2>1, <2>2, <2>3 DEF NoProgramIsLost, Running, Wipes, Granting, nodeVars
  <2>6. Together' /\ \A t \in Threads : InHand(t)' /\ Owes(t)'
    BY <1>t, <2>2, <2>3 DEF Together, InHand, Owes, Chains, nodeVars, Threads
  <2> QED BY <2>4, <2>5, <2>6 DEF Inv
<1> QED
  BY <1>1, <1>2, <1>3, <1>4, <1>5, <1>6, <1>7 DEF NodeStep, ReloadGoesOn

-----------------------------------------------------------------------------
(* Programs are replaced.                                                  *)

\* The goroutine gives up, or is done with, what it had in hand of the programs.
LEMMA NextRuleFields ==
  ASSUME TypeOK, NEW t \in Threads, NextRule(t)
  PROVE  /\ th' \in [Threads -> Goroutines] /\ \A u \in Threads \ {t} : th'[u] = th[u]
         /\ th'[t].pc = "rule" /\ th'[t].c = th[t].c
         /\ th'[t].old = {} /\ th'[t].gone = {} /\ th'[t].new = {} /\ th'[t].took = {}
<1> DEFINE r == [th[t] EXCEPT !.pc = "rule", !.old = {}, !.gone = {}, !.new = {}, !.took = {}]
<1>1. th \in [Threads -> Goroutines] /\ th[t] \in Goroutines
  BY DEF TypeOK
<1>2. th' = [th EXCEPT ![t] = r]
  BY <1>1 DEF NextRule
<1>3. /\ r \in Goroutines /\ r.pc = "rule" /\ r.c = th[t].c
      /\ r.old = {} /\ r.gone = {} /\ r.new = {} /\ r.took = {}
  BY <1>1 DEF Goroutines
<1> HIDE DEF r
<1> QED BY <1>1, <1>2, <1>3

\* What is found is going to be replaced by what allows one device more.
LEMMA RuleInv ==
  ASSUME Inv, NEW t \in Threads, Rule(t)
  PROVE  Inv'
<1>t. TypeOK /\ Together /\ Granting /\ NoProgramIsLost /\ \A u \in Threads : InHand(u) /\ Owes(u)
  BY DEF Inv
<1>0. /\ th \in [Threads -> Goroutines] /\ th[t] \in Goroutines /\ th[t].pc = "rule" /\ th[t].c \in Containers
      /\ th[t].old = {} /\ th[t].new = {} /\ th[t].took = {} /\ th[t].gone = {}
      /\ UNCHANGED <<nodeVars, progs, channelVars, harmed, kept>>
  BY <1>t DEF Rule, InHand, TypeOK
<1> DEFINE c == th[t].c
           found == progs[c]
<1>1. PICK d \in th[t].devs :
        \/ /\ NoFault
           /\ excused' \in {excused, excused \cup {<<c, "contended">>}}
           /\ th' = [th EXCEPT ![t].pc = "detach", ![t].devs = @ \ {d}, ![t].old = found,
                               ![t].new = {Prepend(p, d) : p \in found}]
        \/ /\ Fault \/ NoFault
           /\ th' = [th EXCEPT ![t].devs = @ \ {d}]
           /\ Excuse(c)
  BY DEF Rule
<1>2. d \in Devices /\ found \subseteq Program
  BY <1>t, <1>0, <1>1 DEF Goroutines, TypeOK
<1>3. excused' \subseteq Containers \X Causes
  BY <1>t, <1>0, <1>1 DEF Excuse, Causes, TypeOK
<1>4. faults' \in 0..MaxFaults
  BY <1>t, <1>1, DmmAssumption DEF Fault, NoFault, TypeOK
<1>5. Quiet
  BY <1>t, <1>0, <1>3, <1>4 DEF Quiet, nodeVars, channelVars, TypeOK
<1>6. CASE th' = [th EXCEPT ![t].devs = @ \ {d}]
  <2> DEFINE r == [th[t] EXCEPT !.devs = @ \ {d}]
  <2>1. Becomes(t, r)
    BY <1>0, <1>6 DEF Becomes
  <2>2. /\ r \in Goroutines /\ r.pc = th[t].pc /\ r.c = th[t].c /\ r.old = th[t].old
        /\ r.new = th[t].new /\ r.took = th[t].took /\ r.gone = th[t].gone
    BY <1>0 DEF Goroutines
  <2> HIDE DEF r
  <2> QED BY <1>0, <1>5, <2>1, <2>2, BecomesIdle DEF Working
<1>7. CASE th' = [th EXCEPT ![t].pc = "detach", ![t].devs = @ \ {d}, ![t].old = found,
                            ![t].new = {Prepend(p, d) : p \in found}]
  <2> DEFINE f == found
             n == {Prepend(p, d) : p \in found}
             r == [th[t] EXCEPT !.pc = "detach", !.devs = @ \ {d}, !.old = f, !.new = n]
  <2>1. n \subseteq Program /\ Chains(f) \subseteq Chains(n)
    BY <1>2, PrependType DEF Chains
  <2>2. \A x \in Devices : (\A p \in f : x \in p.allows) => (\A p \in n : x \in p.allows)
    BY <1>2, PrependType
  <2>3. f \subseteq Program
    BY <1>2
  <2> HIDE DEF f, n
  <2>4. th' = [th EXCEPT ![t] = r]
    BY <1>0, <1>7 DEF f, n
  <2>5. /\ r \in Goroutines /\ r.pc = "detach" /\ r.c = c /\ r.old = f
        /\ r.new = n /\ r.took = th[t].took /\ r.gone = th[t].gone
    BY <1>0, <2>1, <2>3 DEF Goroutines
  <2> HIDE DEF r
  <2>6. /\ th' \in [Threads -> Goroutines] /\ \A u \in Threads \ {t} : th'[u] = th[u]
        /\ th'[t].pc = "detach" /\ th'[t].c = c /\ th'[t].old = f
        /\ th'[t].new = n /\ th'[t].took = {} /\ th'[t].gone = {}
    BY <1>0, <2>4, <2>5
  <2>7. TypeOK'
    BY <1>t, <1>5, <2>6 DEF TypeOK, Quiet
  <2>8. \A u \in Threads : InHand(u)' /\ Owes(u)'
    BY <1>t, <1>0, <2>1, <2>6 DEF InHand, Owes, Chains
  <2>9. Together'
    BY <1>t, <1>0, <1>5, <2>6 DEF Together, Quiet, Threads
  <2>10. NoProgramIsLost'
    BY <1>t, <1>0, <1>5, <2>6 DEF NoProgramIsLost, Quiet, Running, Wipes
  <2>11. Granting'
    <3>1. kept \in [Containers -> SUBSET Devices]
      BY <1>t DEF TypeOK
    <3>2. \A x \in kept[c] : \A p \in n : x \in p.allows
      BY <1>t, <1>0, <2>2, <3>1 DEF Granting, f
    <3> QED BY <1>t, <1>5, <2>6, <3>2 DEF Granting, Quiet
  <2> QED BY <2>7, <2>8, <2>9, <2>10, <2>11 DEF Inv
<1> QED BY <1>1, <1>6, <1>7

\* The goroutine stops replacing: it owes nothing more, which is well if all is
\* attached, and in the history if not.
LEMMA StopsReplacing ==
  ASSUME Inv, NEW t \in Threads, Working(t), NextRule(t),
         UNCHANGED <<nodeVars, channelVars>>, faults' \in 0..MaxFaults,
         excused' \subseteq Containers \X Causes, harmed' \subseteq Containers,
         NoProgramIsLost', progs' \in [Containers -> SUBSET Program],
         kept' \in [Containers -> SUBSET Devices],
         \A c \in Containers : life[c] # "running" => progs'[c] = {} /\ kept'[c] = kept[c],
         \A c \in Containers : \A d \in kept'[c] :
           /\ \A p \in progs'[c] : d \in p.allows
           /\ \A u \in Threads \ {t} : th[u].c = c => \A p \in th[u].new : d \in p.allows
  PROVE  Inv'
<1>t. TypeOK /\ Together /\ Granting /\ \A u \in Threads : InHand(u) /\ Owes(u)
  BY DEF Inv
<1>1. /\ th' \in [Threads -> Goroutines] /\ \A u \in Threads \ {t} : th'[u] = th[u]
      /\ th'[t].pc = "rule" /\ th'[t].c = th[t].c
      /\ th'[t].old = {} /\ th'[t].gone = {} /\ th'[t].new = {} /\ th'[t].took = {}
  BY <1>t, NextRuleFields
<1>2. TypeOK'
  BY <1>t, <1>1 DEF TypeOK, nodeVars, channelVars
<1>3. \A u \in Threads : InHand(u)' /\ Owes(u)'
  BY <1>t, <1>1 DEF InHand, Owes, Chains, Working
<1>4. Together'
  BY <1>t, <1>1 DEF Together, Working, nodeVars, Threads
<1>5. Granting'
  BY <1>t, <1>1 DEF Granting, nodeVars
<1> QED BY <1>2, <1>3, <1>4, <1>5 DEF Inv

\* A program that is detached is owed; one that is gone already ends the replacement.
LEMMA DetachInv ==
  ASSUME Inv, NEW t \in Threads, Detach(t)
  PROVE  Inv'
<1>t. TypeOK /\ Together /\ Granting /\ NoProgramIsLost /\ \A u \in Threads : InHand(u) /\ Owes(u)
  BY DEF Inv
<1> DEFINE c == th[t].c
<1>0. /\ th \in [Threads -> Goroutines] /\ th[t].pc = "detach" /\ c \in Containers
      /\ UNCHANGED <<nodeVars, channelVars, faults, kept>>
      /\ progs \in [Containers -> SUBSET Program]
  BY <1>t DEF Detach, InHand, TypeOK
<1>1. CASE /\ NextRule(t) /\ Excuse(c) /\ UNCHANGED progs
           /\ harmed' = IF th[t].took # {} THEN harmed \cup ({c} \cap Running) ELSE harmed
  <2>1. excused' \subseteq Containers \X Causes /\ harmed' \subseteq Containers
    BY <1>t, <1>0, <1>1 DEF Excuse, Causes, TypeOK, Running
  <2>2. NoProgramIsLost'
    <3>1. \A u \in Threads : th'[u].c = th[u].c /\ (u # t => th'[u].took = th[u].took)
      BY <1>t, <1>1, NextRuleFields
    <3>2. ASSUME NEW x \in Running \ harmed', NEW b \in Bases
          PROVE  \/ \E p \in progs[x] : Chain(p) = <<b, Wipes>>
                 \/ \E u \in Threads : th'[u].c = x /\ <<b, Wipes>> \in th'[u].took
      <4>1. x \in Running \ harmed
        BY <1>1, <3>2
      <4>2. th[t].c = x => th[t].took = {}
        BY <1>1, <3>2
      <4> QED BY <1>t, <3>1, <4>1, <4>2 DEF NoProgramIsLost
    <3> QED BY <1>0, <1>1, <3>2 DEF NoProgramIsLost, Running, Wipes, nodeVars
  <2> QED BY <1>t, <1>0, <1>1, <2>1, <2>2, StopsReplacing DEF Working, TypeOK, Granting
<1>2. ASSUME NEW p \in th[t].old, p \in progs[c] \ th[t].gone,
             progs' = [progs EXCEPT ![c] = @ \ {p}],
             th' = [u \in Threads |->
                      IF u = t
                        THEN [th[t] EXCEPT !.old = @ \ {p}, !.took = @ \cup {Chain(p)},
                                           !.pc = IF th[t].old = {p} THEN "attach" ELSE "detach"]
                      ELSE IF th[u].c = c /\ p \in th[u].old
                        THEN [th[u] EXCEPT !.gone = @ \cup {p}]
                      ELSE th[u]],
             UNCHANGED <<excused, harmed>>
      PROVE  Inv'
  <2>1. p \in Program /\ Chain(p) \in Bases \X (0..MaxReloads)
    BY <1>0, <1>2, ChainType
  <2>2. /\ th'[t] \in Goroutines /\ th'[t].c = c /\ th'[t].old = th[t].old \ {p}
        /\ th'[t].took = th[t].took \cup {Chain(p)} /\ th'[t].new = th[t].new
        /\ th'[t].gone = th[t].gone
        /\ th'[t].pc = IF th[t].old = {p} THEN "attach" ELSE "detach"
    <3> DEFINE l == IF th[t].old = {p} THEN "attach" ELSE "detach"
               k == Chain(p)
               r == [th[t] EXCEPT !.old = @ \ {p}, !.took = @ \cup {k}, !.pc = l]
    <3>1. l \in {"attach", "detach"} /\ k \in Bases \X (0..MaxReloads) /\ th[t] \in Goroutines
      BY <1>0, <2>1
    <3>2. th'[t] = r
      BY <1>2
    <3> HIDE DEF l, k
    <3>3. /\ r \in Goroutines /\ r.c = c /\ r.old = th[t].old \ {p}
          /\ r.took = th[t].took \cup {k} /\ r.new = th[t].new
          /\ r.gone = th[t].gone /\ r.pc = l
      BY <3>1 DEF Goroutines
    <3> QED BY <3>2, <3>3 DEF l, k
  <2>3. ASSUME NEW u \in Threads \ {t}
        PROVE  /\ th'[u] \in Goroutines /\ th'[u].c = th[u].c /\ th'[u].old = th[u].old
               /\ th'[u].took = th[u].took /\ th'[u].new = th[u].new /\ th'[u].pc = th[u].pc
               /\ th'[u].gone \subseteq th'[u].old
    <3>1. th[u] \in Goroutines /\ th[u].gone \subseteq th[u].old
      BY <1>t, <1>0 DEF TypeOK
    <3>2. th'[u] = th[u] \/ (p \in th[u].old /\ th'[u] = [th[u] EXCEPT !.gone = @ \cup {p}])
      BY <1>2
    <3> QED BY <2>1, <3>1, <3>2 DEF Goroutines
  <2>4. DOMAIN th' = Threads /\ th' = [u \in Threads |-> th'[u]]
    BY <1>2
  <2>5. th' \in [Threads -> Goroutines]
    <3>1. \A u \in Threads : th'[u] \in Goroutines
      BY <2>2, <2>3
    <3> QED BY <2>4, <3>1
  <2>6. \A x \in Containers : progs'[x] \subseteq progs[x]
    BY <1>0, <1>2
  <2>7. TypeOK'
    <3>1. th'[t].gone \subseteq th'[t].old
      BY <1>t, <1>2, <2>2 DEF TypeOK
    <3>2. progs' \in [Containers -> SUBSET Program]
      BY <1>0, <1>2
    <3>3. \A u \in Threads :
            /\ th'[u].gone \subseteq th'[u].old
            /\ th'[u].pc \notin {"detach", "attach"} => th'[u].old \cup th'[u].new = {} /\ th'[u].took = {}
      BY <1>t, <2>2, <2>3, <3>1 DEF TypeOK
    <3> QED BY <1>t, <1>0, <1>2, <2>5, <2>6, <3>2, <3>3 DEF TypeOK, nodeVars, channelVars
  <2>8. \A u \in Threads : InHand(u)' /\ Owes(u)'
    <3>1. InHand(t)' /\ Owes(t)'
      BY <1>t, <1>0, <2>2 DEF InHand, Owes, Chains
    <3>2. ASSUME NEW u \in Threads \ {t} PROVE InHand(u)' /\ Owes(u)'
      BY <1>t, <2>3 DEF InHand, Owes, Chains
    <3> QED BY <3>1, <3>2
  <2>9. Together'
    BY <1>t, <1>0, <2>2, <2>3 DEF Together, nodeVars, Threads
  <2>10. NoProgramIsLost'
    <3>1. ASSUME NEW x \in Running \ harmed, NEW b \in Bases
          PROVE  \/ \E q \in progs'[x] : Chain(q) = <<b, Wipes>>
                 \/ \E u \in Threads : th'[u].c = x /\ <<b, Wipes>> \in th'[u].took
      <4>1. CASE \E u \in Threads : th[u].c = x /\ <<b, Wipes>> \in th[u].took
        BY <2>2, <2>3, <4>1
      <4>2. ASSUME NEW q \in progs[x], Chain(q) = <<b, Wipes>>
            PROVE  \/ q \in progs'[x]
                   \/ th'[t].c = x /\ <<b, Wipes>> \in th'[t].took
        BY <1>0, <1>2, <2>2, <4>2 DEF Running
      <4> QED BY <1>t, <3>1, <4>1, <4>2 DEF NoProgramIsLost
    <3>2. UNCHANGED <<life, reloads, reloading, harmed>>
      BY <1>0, <1>2 DEF nodeVars
    <3>3. Running' = Running /\ Wipes' = Wipes
      BY <3>2 DEF Running, Wipes
    <3> QED BY <3>1, <3>2, <3>3 DEF NoProgramIsLost
  <2>11. Granting'
    <3>1. \A u \in Threads : th'[u].c = th[u].c /\ th'[u].new = th[u].new
      BY <2>2, <2>3
    <3> QED BY <1>t, <1>0, <2>6, <3>1 DEF Granting, nodeVars
  <2> QED BY <2>7, <2>8, <2>9, <2>10, <2>11 DEF Inv
<1>3. \/ /\ NextRule(t) /\ Excuse(c) /\ UNCHANGED progs
         /\ harmed' = IF th[t].took # {} THEN harmed \cup ({c} \cap Running) ELSE harmed
      \/ \E p \in th[t].old :
           /\ p \in progs[c] \ th[t].gone
           /\ progs' = [progs EXCEPT ![c] = @ \ {p}]
           /\ th' = [u \in Threads |->
                      IF u = t
                        THEN [th[t] EXCEPT !.old = @ \ {p}, !.took = @ \cup {Chain(p)},
                                           !.pc = IF th[t].old = {p} THEN "attach" ELSE "detach"]
                      ELSE IF th[u].c = c /\ p \in th[u].old
                        THEN [th[u] EXCEPT !.gone = @ \cup {p}]
                      ELSE th[u]]
           /\ UNCHANGED <<excused, harmed>>
  BY DEF Detach
<1> QED BY <1>1, <1>2, <1>3

\* A program that is attached is owed no more; a failure is in the history.
LEMMA AttachInv ==
  ASSUME Inv, NEW t \in Threads, Attach(t)
  PROVE  Inv'
<1>t. TypeOK /\ Together /\ Granting /\ NoProgramIsLost /\ \A u \in Threads : InHand(u) /\ Owes(u)
  BY DEF Inv
<1> DEFINE c == th[t].c
<1>0. /\ th \in [Threads -> Goroutines] /\ th[t].pc = "attach" /\ c \in Containers
      /\ UNCHANGED <<nodeVars, channelVars>>
      /\ progs \in [Containers -> SUBSET Program] /\ kept \in [Containers -> SUBSET Devices]
      /\ th[t].old = {} /\ th[t].new \subseteq Program
  BY <1>t DEF Attach, InHand, Owes, TypeOK, Goroutines
<1>a. UNCHANGED <<life, reloads, reloading>> /\ Running' = Running /\ Wipes' = Wipes
  BY <1>0 DEF nodeVars, Running, Wipes
<1>1. CASE /\ Fault \/ NoFault
           /\ NextRule(t) /\ Excuse(c)
           /\ harmed' = harmed \cup ({c} \cap Running)
           /\ UNCHANGED <<progs, kept>>
  <2>1. excused' \subseteq Containers \X Causes /\ harmed' \subseteq Containers
    BY <1>t, <1>0, <1>1 DEF Excuse, Causes, TypeOK, Running
  <2>2. faults' \in 0..MaxFaults
    BY <1>t, <1>1, DmmAssumption DEF Fault, NoFault, TypeOK
  <2>3. NoProgramIsLost'
    <3>1. \A u \in Threads : th'[u].c = th[u].c /\ (u # t => th'[u].took = th[u].took)
      BY <1>t, <1>1, NextRuleFields
    <3>2. ASSUME NEW x \in Running \ harmed', NEW b \in Bases
          PROVE  \/ \E p \in progs[x] : Chain(p) = <<b, Wipes>>
                 \/ \E u \in Threads : th'[u].c = x /\ <<b, Wipes>> \in th'[u].took
      <4>1. x \in Running \ harmed /\ th[t].c # x
        BY <1>1, <3>2
      <4> QED BY <1>t, <3>1, <4>1 DEF NoProgramIsLost
    <3> QED BY <1>a, <1>1, <3>2 DEF NoProgramIsLost
  <2> QED BY <1>t, <1>0, <1>1, <2>1, <2>2, <2>3, StopsReplacing DEF Working, TypeOK, Granting
<1>2. ASSUME NEW p \in th[t].new, life[c] = "running", NoFault, UNCHANGED <<excused, harmed>>,
             progs' = [progs EXCEPT ![c] = @ \cup {p}]
      PROVE  /\ p \in Program /\ progs' \in [Containers -> SUBSET Program]
             /\ \A x \in Containers : life[x] # "running" => progs'[x] = {}
             /\ \A x \in Containers : \A d \in kept[x] : \A q \in progs'[x] : d \in q.allows
             /\ faults' \in 0..MaxFaults
  <2>1. p \in Program /\ progs' \in [Containers -> SUBSET Program]
    BY <1>0, <1>2
  <2>2. \A x \in Containers : life[x] # "running" => progs'[x] = {}
    BY <1>t, <1>0, <1>2 DEF TypeOK
  <2>3. \A x \in Containers : \A d \in kept[x] : \A q \in progs'[x] : d \in q.allows
    BY <1>t, <1>0, <1>2 DEF Granting
  <2>4. faults' \in 0..MaxFaults
    BY <1>t, <1>2 DEF NoFault, TypeOK
  <2> QED BY <2>1, <2>2, <2>3, <2>4
<1>3. ASSUME NEW p \in th[t].new, life[c] = "running", NoFault, UNCHANGED <<excused, harmed>>,
             progs' = [progs EXCEPT ![c] = @ \cup {p}],
             th[t].new = {p}, NextRule(t),
             kept' = IF Replacing(c)' THEN kept
                     ELSE [kept EXCEPT ![c] = @ \cup {d \in Devices : Allowed(c, d)'}]
      PROVE  Inv'
  <2>1. \A u \in Threads : th'[u].c = th[u].c /\ (u # t => th'[u] = th[u])
    BY <1>t, <1>3, NextRuleFields
  <2>2. NoProgramIsLost'
    <3>1. ASSUME NEW x \in Running \ harmed, NEW b \in Bases
          PROVE  \/ \E q \in progs'[x] : Chain(q) = <<b, Wipes>>
                 \/ \E u \in Threads : th'[u].c = x /\ <<b, Wipes>> \in th'[u].took
      <4>1. ASSUME NEW u \in Threads, th[u].c = x, <<b, Wipes>> \in th[u].took
            PROVE  \/ \E q \in progs'[x] : Chain(q) = <<b, Wipes>>
                   \/ th'[u].c = x /\ <<b, Wipes>> \in th'[u].took
        <5>1. CASE u # t
          BY <2>1, <4>1, <5>1
        <5>2. CASE u = t
          <6>1. Chain(p) = <<b, Wipes>>
            BY <1>t, <1>3, <4>1, <5>2 DEF Owes, Chains
          <6>2. p \in progs'[x]
            BY <1>0, <1>3, <4>1, <5>2
          <6> QED BY <6>1, <6>2
        <5> QED BY <5>1, <5>2
      <4>2. \A q \in progs[x] : q \in progs'[x]
        BY <1>0, <1>3 DEF Running
      <4> QED BY <1>t, <3>1, <4>1, <4>2 DEF NoProgramIsLost
    <3> QED BY <1>a, <1>3, <3>1 DEF NoProgramIsLost
  <2>3. kept' \in [Containers -> SUBSET Devices]
    BY <1>0, <1>3
  <2>4. \A x \in Containers : life[x] # "running" => kept'[x] = kept[x]
    BY <1>0, <1>3
  <2>5. ASSUME NEW x \in Containers, NEW d \in kept'[x]
        PROVE  /\ \A q \in progs'[x] : d \in q.allows
               /\ \A u \in Threads \ {t} : th[u].c = x => \A q \in th[u].new : d \in q.allows
    <3>1. CASE d \in kept[x]
      BY <1>t, <1>2, <1>3, <3>1 DEF Granting
    <3>2. CASE d \notin kept[x]
      <4>1. x = c /\ ~Replacing(c)' /\ Allowed(c, d)'
        BY <1>0, <1>3, <2>5, <3>2
      <4>2. \A q \in progs'[x] : d \in q.allows
        BY <2>1, <4>1 DEF Allowed
      <4>3. \A u \in Threads \ {t} : th[u].c = x => th[u].pc \notin {"detach", "attach"}
        <5>1. \A u \in Threads : ~(th'[u].c = th[t].c' /\ th'[u].pc \in {"detach", "attach"})
          BY <4>1 DEF Replacing
        <5> QED BY <2>1, <4>1, <5>1
      <4> QED BY <1>t, <4>2, <4>3 DEF TypeOK
    <3> QED BY <3>1, <3>2
  <2> QED
    BY <1>t, <1>0, <1>2, <1>3, <2>2, <2>3, <2>4, <2>5, StopsReplacing DEF Working, TypeOK
<1>4. ASSUME NEW p \in th[t].new, life[c] = "running", NoFault, UNCHANGED <<excused, harmed>>,
             progs' = [progs EXCEPT ![c] = @ \cup {p}],
             th' = [th EXCEPT ![t].new = @ \ {p}, ![t].took = @ \ {Chain(p)}],
             UNCHANGED kept
      PROVE  Inv'
  <2> DEFINE k == Chain(p)
             r == [th[t] EXCEPT !.new = @ \ {p}, !.took = @ \ {k}]
  <2>1. th'[t] = r /\ \A u \in Threads \ {t} : th'[u] = th[u]
    BY <1>0, <1>4
  <2> HIDE DEF k
  <2>2. /\ r \in Goroutines /\ r.c = c /\ r.pc = "attach" /\ r.old = {} /\ r.gone = th[t].gone
        /\ r.new = th[t].new \ {p} /\ r.took = th[t].took \ {k}
    BY <1>0 DEF Goroutines
  <2>3. th' \in [Threads -> Goroutines]
    <3>1. th' = [th EXCEPT ![t] = r]
      BY <1>0, <1>4 DEF k
    <3> HIDE DEF r
    <3> QED BY <1>0, <2>2, <3>1
  <2> HIDE DEF r
  <2>4. TypeOK'
    <3>1. \A u \in Threads :
            /\ th'[u].gone \subseteq th'[u].old
            /\ th'[u].pc \notin {"detach", "attach"} => th'[u].old \cup th'[u].new = {} /\ th'[u].took = {}
      BY <1>t, <1>0, <2>1, <2>2 DEF TypeOK
    <3> QED BY <1>t, <1>0, <1>2, <1>4, <2>3, <3>1 DEF TypeOK, nodeVars, channelVars
  <2>5. \A u \in Threads : InHand(u)' /\ Owes(u)'
    <3>1. InHand(t)' /\ Owes(t)'
      BY <1>t, <1>0, <2>1, <2>2 DEF InHand, Owes, Chains, k
    <3>2. ASSUME NEW u \in Threads \ {t} PROVE InHand(u)' /\ Owes(u)'
      BY <1>t, <2>1 DEF InHand, Owes, Chains
    <3> QED BY <3>1, <3>2
  <2>6. Together'
    BY <1>t, <1>0, <1>a, <2>1, <2>2 DEF Together, Threads
  <2>7. NoProgramIsLost'
    <3>1. ASSUME NEW x \in Running \ harmed, NEW b \in Bases
          PROVE  \/ \E q \in progs'[x] : Chain(q) = <<b, Wipes>>
                 \/ \E u \in Threads : th'[u].c = x /\ <<b, Wipes>> \in th'[u].took
      <4>1. ASSUME NEW u \in Threads, th[u].c = x, <<b, Wipes>> \in th[u].took
            PROVE  \/ \E q \in progs'[x] : Chain(q) = <<b, Wipes>>
                   \/ th'[u].c = x /\ <<b, Wipes>> \in th'[u].took
        <5>1. CASE u # t
          BY <2>1, <4>1, <5>1
        <5>2. CASE u = t /\ k # <<b, Wipes>>
          BY <2>1, <2>2, <4>1, <5>2
        <5>3. CASE u = t /\ k = <<b, Wipes>>
          <6>1. p \in progs'[x]
            BY <1>0, <1>4, <4>1, <5>3
          <6> QED BY <5>3, <6>1 DEF k
        <5> QED BY <5>1, <5>2, <5>3
      <4>2. \A q \in progs[x] : q \in progs'[x]
        BY <1>0, <1>4 DEF Running
      <4> QED BY <1>t, <3>1, <4>1, <4>2 DEF NoProgramIsLost
    <3>2. harmed' = harmed /\ Running' = Running /\ Wipes' = Wipes
      BY <1>a, <1>4
    <3> QED BY <3>1, <3>2 DEF NoProgramIsLost
  <2>8. Granting'
    <3>1. \A u \in Threads : th'[u].c = th[u].c /\ th'[u].new \subseteq th[u].new
      BY <2>1, <2>2
    <3>2. life' = life /\ kept' = kept
      BY <1>a, <1>4
    <3>3. \A x \in Containers : \A d \in kept[x] : \A q \in progs'[x] : d \in q.allows
      BY <1>2, <1>4
    <3> QED BY <1>t, <3>1, <3>2, <3>3 DEF Granting
  <2> QED BY <2>4, <2>5, <2>6, <2>7, <2>8 DEF Inv
<1>5. \/ /\ Fault \/ NoFault
         /\ NextRule(t) /\ Excuse(c)
         /\ harmed' = harmed \cup ({c} \cap Running)
         /\ UNCHANGED <<progs, kept>>
      \/ /\ life[c] = "running" /\ NoFault /\ UNCHANGED <<excused, harmed>>
         /\ \E p \in th[t].new :
              /\ progs' = [progs EXCEPT ![c] = @ \cup {p}]
              /\ \/ /\ th[t].new = {p} /\ NextRule(t)
                    /\ kept' = IF Replacing(c)' THEN kept
                               ELSE [kept EXCEPT ![c] = @ \cup {d \in Devices : Allowed(c, d)'}]
                 \/ /\ th' = [th EXCEPT ![t].new = @ \ {p}, ![t].took = @ \ {Chain(p)}]
                    /\ UNCHANGED kept
  BY DEF Attach
<1> QED BY <1>1, <1>3, <1>4, <1>5

-----------------------------------------------------------------------------
\* The invariant is inductive.
LEMMA StepInv == Inv /\ [Next]_vars => Inv'
<1> SUFFICES ASSUME Inv, [Next]_vars PROVE Inv'
  OBVIOUS
<1>1. CASE UNCHANGED vars
  <2>1. UNCHANGED <<life, reloads, reloading, progs, signals, listening, events, subscribed,
                    th, faults, excused, harmed, kept>>
    BY <1>1 DEF vars, nodeVars, channelVars
  <2>2. TypeOK'
    BY <2>1 DEF Inv, TypeOK
  <2>3. (\A t \in Threads : InHand(t) /\ Owes(t))' /\ Together'
    BY <2>1 DEF Inv, InHand, Owes, Chains, Together
  <2>4. NoProgramIsLost' /\ Granting'
    BY <2>1 DEF Inv, NoProgramIsLost, Running, Wipes, Granting
  <2> QED BY <2>2, <2>3, <2>4 DEF Inv
<1>2. CASE NodeStep \/ Begin
  BY <1>2, NodeInv
<1>3. ASSUME NEW t \in Threads, ProcessStep(t) PROVE Inv'
  <2>1. CASE InspectPanics(t)
    BY <2>1, DiesInv DEF InspectPanics, NoFault, Inv, TypeOK
  <2> QED BY <1>3, <2>1, IdleSteps, RuleInv, DetachInv, AttachInv DEF ProcessStep
<1>4. CASE Subscribe \/ TakeEvent \/ TakeSignal
  BY <1>4, IdleSteps DEF Threads
<1>5. "main" \in Threads /\ "reload" \in Threads
  BY DEF Threads
<1> QED BY <1>1, <1>2, <1>3, <1>4, <1>5 DEF Next, MainStep, ReloadStep

\* It holds of every state.
LEMMA Invariance == Spec => []Inv
BY InitInv, StepInv, PTL DEF Spec

\* The programs of the cgroups and what the goroutines (main.go) hold of them keep their
\* types: a container that does not run has none.
THEOREM DmmTypeCorrect == Spec => []TypeOK
BY Invariance, PTL DEF Inv

\* However the two goroutines replace the programs of a container (ebpf.go, v2.go), none is
\* lost unless the manager failed or died in between.
THEOREM ProgramsAreNotLost == Spec => []NoProgramIsLost
BY Invariance, PTL DEF Inv

\* What a container was granted it keeps until the next reload: prepending a rule (v2.go)
\* keeps what the program allowed, and no older program comes back.
THEOREM GrantsLast == Spec => []GrantsAreKept
<1>1. Inv => GrantsAreKept
  BY DEF Inv, Granting, GrantsAreKept, Allowed, Running
<1> QED BY <1>1, Invariance, PTL
=============================================================================
