-------------------------------- MODULE Dmm --------------------------------
(***************************************************************************)
(* stacks/infra/70_dmm: the device mapping manager of one node.  It gives  *)
(* each container access to the devices among its mounts, by replacing the *)
(* device filter programs of its cgroup (cgroup v2).  Two goroutines do    *)
(* so: main(), for running containers and start events, and a listener for *)
(* systemd reloads, which put the original programs back.                  *)
(***************************************************************************)
EXTENDS Integers, FiniteSets

CONSTANTS
  Containers, Devices,
  Mounts,      \* container -> devices it mounts
  Bases,       \* programs the runtime attaches to a cgroup
  None,
  MaxReloads,  \* bound: systemd reloads
  MaxFaults    \* bound: how often something fails

ASSUME DmmAssumption ==
  /\ Mounts \in [Containers -> SUBSET Devices]
  /\ Bases # {} /\ None \notin Containers
  /\ MaxReloads \in Nat /\ MaxFaults \in Nat

Threads == {"main", "reload"}
Causes == {"unseen", "error", "contended"}

VARIABLES
  life,        \* container -> "absent", "running", "stopped", "removed"
  progs,       \* container -> programs attached to its cgroup
  reloads,     \* number of reloads so far
  reloading,   \* where systemd is in one: "no", "begun", "wiped"
  signals,     \* Reloading signals in the channel c
  listening,   \* main() is connected to the system bus
  events,      \* containers whose start event is in the channel msgs
  subscribed,  \* cli.Events has been called
  th,          \* the goroutines, see Off
  faults,
  excused,     \* history: containers that started unseen or got an error since
               \* the last scan began
  harmed,      \* history: containers that lost a program by an error or a kill
  kept         \* history: container -> devices it was granted since the last reload

nodeVars == <<life, reloads, reloading>>
channelVars == <<signals, listening, events, subscribed>>
vars == <<nodeVars, progs, channelVars, th, faults, excused, harmed, kept>>

\* A program refuses the devices, except those for which instructions were
\* prepended.  Program and successors share base and gen, so a cgroup has at most one
\* program of each base and gen.
Program == [base : Bases, gen : 0..MaxReloads, allows : SUBSET Devices]
Original(g) == [base : Bases, gen : {g}, allows : {{}}]
Chain(p) == <<p.base, p.gen>>

\* The kernel asks all programs of the cgroup.
Running == {c \in Containers : life[c] = "running"}
Allowed(c, d) == \A p \in progs[c] : d \in p.allows

Replacing(c) == \E t \in Threads : th[t].c = c /\ th[t].pc \in {"detach", "attach"}

\* queue: containers left to process; c: the one in hand; devs: its devices left;
\* old: programs left to detach; gone: those of them the other goroutine has
\* detached; new: programs left to attach; took: what it detached and owes.
Off == [pc |-> "off", queue |-> {}, c |-> None, devs |-> {}, old |-> {}, gone |-> {},
        new |-> {}, took |-> {}]

Goroutines == [pc : {"off", "scan", "next", "rule", "detach", "attach", "subscribe", "listen"},
               queue : SUBSET Containers, c : Containers \cup {None}, devs : SUBSET Devices,
               old : SUBSET Program, gone : SUBSET Program, new : SUBSET Program,
               took : SUBSET (Bases \X (0..MaxReloads))]

TypeOK ==
  /\ life \in [Containers -> {"absent", "running", "stopped", "removed"}]
  /\ progs \in [Containers -> SUBSET Program]
  /\ \A c \in Containers : life[c] # "running" => progs[c] = {}
  /\ reloads \in 0..MaxReloads /\ reloading \in {"no", "begun", "wiped"}
  /\ signals \in Nat /\ listening \in BOOLEAN
  /\ events \subseteq Containers /\ subscribed \in BOOLEAN
  /\ th \in [Threads -> Goroutines]
  /\ \A t \in Threads :
       /\ th[t].gone \subseteq th[t].old
       /\ th[t].pc \notin {"detach", "attach"} => th[t].old \cup th[t].new = {} /\ th[t].took = {}
  /\ faults \in 0..MaxFaults
  /\ excused \subseteq Containers \X Causes /\ harmed \subseteq Containers
  /\ kept \in [Containers -> SUBSET Devices]

Init ==
  /\ life \in [Containers -> {"absent", "running"}]
  /\ progs = [c \in Containers |-> IF life[c] = "running" THEN Original(0) ELSE {}]
  /\ reloads = 0 /\ reloading = "no"
  /\ signals = 0 /\ listening = FALSE /\ events = {} /\ subscribed = FALSE
  /\ th = [t \in Threads |-> Off]
  /\ faults = 0 /\ excused = {} /\ harmed = {} /\ kept = [c \in Containers |-> {}]

Fault == faults < MaxFaults /\ faults' = faults + 1
NoFault == UNCHANGED faults

-----------------------------------------------------------------------------
(* The node: containers and systemd.                                       *)

\* main() has taken its list and does not get events yet.
Unseen == th["main"].pc \notin {"off", "scan"} /\ ~subscribed

Wipes == IF reloading = "begun" THEN reloads - 1 ELSE reloads

ContainerStart(c) ==
  /\ life[c] = "absent"
  /\ life' = [life EXCEPT ![c] = "running"]
  /\ progs' = [progs EXCEPT ![c] = Original(Wipes)]
  /\ events' = IF subscribed THEN events \cup {c} ELSE events
  /\ excused' = IF Unseen THEN excused \cup {<<c, "unseen">>} ELSE excused
  /\ UNCHANGED <<reloads, reloading, signals, listening, subscribed, th, faults, harmed, kept>>

ContainerStop(c) ==
  /\ life[c] = "running"
  /\ life' = [life EXCEPT ![c] = "stopped"]
  /\ progs' = [progs EXCEPT ![c] = {}]
  /\ excused' = excused \ ({c} \X Causes) /\ harmed' = harmed \ {c}
  /\ kept' = [kept EXCEPT ![c] = {}]
  /\ UNCHANGED <<reloads, reloading, channelVars, th, faults>>

ContainerRemove(c) ==
  /\ life[c] = "stopped"
  /\ life' = [life EXCEPT ![c] = "removed"]
  /\ UNCHANGED <<reloads, reloading, progs, channelVars, th, faults, excused, harmed, kept>>

Signal == signals' = IF listening THEN signals + 1 ELSE signals

ReloadBegin ==
  /\ reloading = "no" /\ reloads < MaxReloads
  /\ reloads' = reloads + 1 /\ reloading' = "begun"
  /\ Signal
  /\ UNCHANGED <<life, progs, listening, events, subscribed, th, faults, excused, harmed, kept>>

\* If main() has no bus connection, nothing repairs this before the next start.
ReloadWipe ==
  /\ reloading = "begun" /\ reloading' = "wiped"
  /\ progs' = [c \in Containers |-> IF life[c] = "running" THEN Original(reloads) ELSE {}]
  /\ excused' = IF ~listening /\ th["main"].pc # "off"
                THEN excused \cup {<<c, "unseen">> : c \in Running} ELSE excused
  /\ harmed' = {} /\ kept' = [c \in Containers |-> {}]
  /\ UNCHANGED <<life, reloads, channelVars, th, faults>>

ReloadEnd ==
  /\ reloading = "wiped" /\ reloading' = "no"
  /\ Signal
  /\ UNCHANGED <<life, reloads, progs, listening, events, subscribed, th, faults, excused,
                 harmed, kept>>

ReloadGoesOn == ReloadWipe \/ ReloadEnd

-----------------------------------------------------------------------------
(* main().                                                                 *)

\* docker run --restart always.  Without the system bus there is no listener.
Begin ==
  /\ th["main"].pc = "off"
  /\ th' = [t \in Threads |-> [Off EXCEPT !.pc = IF t = "main" THEN "scan" ELSE "listen"]]
  /\ \/ listening' = TRUE /\ NoFault
     \/ listening' = FALSE /\ Fault
  /\ UNCHANGED <<nodeVars, progs, signals, events, subscribed, excused, harmed, kept>>

Victims == {th[t].c : t \in {u \in Threads : th[u].took # {}}}

Dies ==
  /\ th' = [t \in Threads |-> Off]
  /\ signals' = 0 /\ listening' = FALSE /\ events' = {} /\ subscribed' = FALSE
  /\ harmed' = harmed \cup (Victims \cap Running)
  /\ UNCHANGED <<nodeVars, progs, excused, kept>>

\* An error that panics or is fatal, docker rm -f by the launcher, or a kill.
Kill == th["main"].pc # "off" /\ Fault /\ Dies

\* checkExistingContainers().
Scan(t) ==
  /\ th[t].pc = "scan"
  /\ th' = [th EXCEPT ![t].pc = "next",
                      ![t].queue = Running]
  /\ excused' = {}
  /\ UNCHANGED <<nodeVars, progs, channelVars, faults, harmed, kept>>

Finish(t) ==
  /\ th[t].pc = "next" /\ th[t].queue = {}
  /\ th' = [th EXCEPT ![t].pc = IF t = "main" /\ ~subscribed THEN "subscribe" ELSE "listen"]
  /\ UNCHANGED <<nodeVars, progs, channelVars, faults, excused, harmed, kept>>

Subscribe ==
  /\ th["main"].pc = "subscribe"
  /\ subscribed' = TRUE
  /\ th' = [th EXCEPT !["main"].pc = "listen"]
  /\ UNCHANGED <<nodeVars, progs, signals, listening, events, faults, excused, harmed, kept>>

TakeEvent ==
  /\ th["main"].pc = "listen"
  /\ \E c \in events :
       /\ events' = events \ {c}
       /\ th' = [th EXCEPT !["main"].pc = "next", !["main"].queue = {c}]
  /\ UNCHANGED <<nodeVars, progs, signals, listening, subscribed, faults, excused, harmed, kept>>

\* As if a signal were no reason to scan.
TakeSignal_Ignored ==
  /\ th["reload"].pc = "listen" /\ signals > 0
  /\ signals' = signals - 1
  /\ UNCHANGED <<nodeVars, progs, listening, events, subscribed, th, faults, excused, harmed, kept>>

\* The signal that begins a reload and the one that ends it are treated alike.
TakeSignal ==
  /\ th["reload"].pc = "listen" /\ signals > 0
  /\ signals' = signals - 1
  /\ th' = [th EXCEPT !["reload"].pc = "scan"]
  /\ UNCHANGED <<nodeVars, progs, listening, events, subscribed, faults, excused, harmed, kept>>

-----------------------------------------------------------------------------
(* processContainer() and AddDeviceRules().                                *)

Excuse(c) ==
  excused' = IF life[c] = "running" THEN excused \cup {<<c, "error">>} ELSE excused
NextRule(t) == th' = [th EXCEPT ![t].pc = "rule", ![t].old = {}, ![t].gone = {}, ![t].new = {},
                                ![t].took = {}]

\* ContainerInspect fails: panic.
InspectPanics(t) ==
  /\ th[t].pc = "next" /\ \E c \in th[t].queue : life[c] = "removed"
  /\ NoFault
  /\ Dies

\* A container that has stopped is passed over, like one whose cgroup is not found.
Inspect(t) ==
  /\ th[t].pc = "next"
  /\ \E c \in th[t].queue :
       \/ /\ life[c] = "running" /\ NoFault
          /\ th' = [th EXCEPT ![t].pc = "rule", ![t].c = c, ![t].queue = @ \ {c},
                              ![t].devs = Mounts[c]]
          /\ UNCHANGED excused
       \/ /\ life[c] # "removed"
          /\ IF life[c] = "running" THEN Fault ELSE NoFault
          /\ th' = [th EXCEPT ![t].queue = @ \ {c}]
          /\ Excuse(c)
  /\ UNCHANGED <<nodeVars, progs, channelVars, harmed, kept>>

\* All mounts are done, or the process is gone.
ContainerDone(t) ==
  /\ th[t].pc = "rule" /\ (th[t].devs = {} \/ life[th[t].c] # "running")
  /\ th' = [th EXCEPT ![t].pc = "next", ![t].c = None, ![t].devs = {}]
  /\ UNCHANGED <<nodeVars, progs, channelVars, faults, excused, harmed, kept>>

\* As if the new program held nothing but the new rule.
Prepend_Fresh(p, d) == [p EXCEPT !.allows = {d}]

Prepend(p, d) == [p EXCEPT !.allows = @ \cup {d}]

\* One applyDeviceRules(): find the attached programs, generate the new ones.  With
\* none attached the generated program does not load.
Rule(t) ==
  /\ th[t].pc = "rule" /\ life[th[t].c] = "running"
  /\ \E d \in th[t].devs :
       LET found == progs[th[t].c] IN
       \/ /\ found # {} /\ NoFault
          /\ excused' = IF Replacing(th[t].c) THEN excused \cup {<<th[t].c, "contended">>}
                         ELSE excused
          /\ th' = [th EXCEPT ![t].pc = "detach", ![t].devs = @ \ {d}, ![t].old = found,
                              ![t].new = {Prepend(p, d) : p \in found}]
       \/ /\ IF found = {} THEN NoFault ELSE Fault
          /\ th' = [th EXCEPT ![t].devs = @ \ {d}]
          /\ Excuse(th[t].c)
  /\ UNCHANGED <<nodeVars, progs, channelVars, harmed, kept>>

\* The other goroutine, systemd or the end of the container may have detached it
\* already: then the rest is left undone, the programs taken so far too.
Detach(t) ==
  /\ th[t].pc = "detach"
  /\ LET c == th[t].c IN
     \E p \in th[t].old :
       \/ /\ p \in progs[c] \ th[t].gone
          /\ progs' = [progs EXCEPT ![c] = @ \ {p}]
          /\ th' = [u \in Threads |->
                      IF u = t
                        THEN [th[t] EXCEPT !.old = @ \ {p}, !.took = @ \cup {Chain(p)},
                                           !.pc = IF th[t].old = {p} THEN "attach" ELSE "detach"]
                      ELSE IF th[u].c = c /\ p \in th[u].old
                        THEN [th[u] EXCEPT !.gone = @ \cup {p}]
                      ELSE th[u]]
          /\ UNCHANGED <<excused, harmed>>
       \/ /\ p \notin progs[c] \ th[t].gone
          /\ NextRule(t)
          /\ Excuse(c)
          /\ harmed' = IF th[t].took # {} THEN harmed \cup ({c} \cap Running) ELSE harmed
          /\ UNCHANGED progs
  /\ UNCHANGED <<nodeVars, channelVars, faults, kept>>

\* As if it returned after the first program.
Attach_First(t) ==
  /\ th[t].pc = "attach" /\ life[th[t].c] = "running"
  /\ \E p \in th[t].new : progs' = [progs EXCEPT ![th[t].c] = @ \cup {p}]
  /\ NextRule(t)
  /\ UNCHANGED <<nodeVars, channelVars, faults, excused, harmed, kept>>

\* As if the cgroup of a container that is gone took programs.
Attach_Gone(t) ==
  /\ th[t].pc = "attach"
  /\ progs' = [progs EXCEPT ![th[t].c] = @ \cup th[t].new]
  /\ NextRule(t)
  /\ UNCHANGED <<nodeVars, channelVars, faults, excused, harmed, kept>>

Attach(t) ==
  /\ th[t].pc = "attach"
  /\ LET c == th[t].c IN
     \/ /\ life[c] = "running" /\ NoFault
        /\ \E p \in th[t].new :
             /\ progs' = [progs EXCEPT ![c] = @ \cup {p}]
             /\ IF th[t].new = {p}
                  THEN /\ NextRule(t)
                       /\ kept' = IF Replacing(c)' THEN kept
                                    ELSE [kept EXCEPT ![c] = @ \cup {d \in Devices : Allowed(c, d)'}]
                  ELSE /\ th' = [th EXCEPT ![t].new = @ \ {p}, ![t].took = @ \ {Chain(p)}]
                       /\ UNCHANGED kept
        /\ UNCHANGED <<excused, harmed>>
     \/ /\ IF life[c] = "running" THEN Fault ELSE NoFault
        /\ NextRule(t)
        /\ Excuse(c)
        /\ harmed' = harmed \cup ({c} \cap Running)
        /\ UNCHANGED <<progs, kept>>
  /\ UNCHANGED <<nodeVars, channelVars>>

ProcessStep(t) ==
  \/ Scan(t) \/ Finish(t)
  \/ InspectPanics(t) \/ Inspect(t) \/ ContainerDone(t)
  \/ Rule(t) \/ Detach(t) \/ Attach(t)

MainStep == Begin \/ Subscribe \/ TakeEvent \/ ProcessStep("main")
ReloadStep == TakeSignal \/ ProcessStep("reload")

NodeStep ==
  \/ \E c \in Containers : ContainerStart(c) \/ ContainerStop(c) \/ ContainerRemove(c)
  \/ ReloadBegin \/ ReloadGoesOn
  \/ Kill

Next == NodeStep \/ MainStep \/ ReloadStep

Spec == Init /\ [][Next]_vars

\* Goroutines are scheduled, docker restarts the manager, and a reload ends.
FairSpec == Spec /\ WF_vars(MainStep) /\ WF_vars(ReloadStep) /\ WF_vars(ReloadGoesOn)

-----------------------------------------------------------------------------
Granted(c) == \A d \in Mounts[c] : Allowed(c, d)

\* Replacing programs loses none of them: of each program the runtime attached to a
\* running container, at its start or in the latest reload, a successor is attached
\* or one of the goroutines owes it, whatever the other does to the same cgroup,
\* unless the manager failed or died in between.
NoProgramIsLost ==
  \A c \in Running \ harmed, b \in Bases :
    \/ \E p \in progs[c] : Chain(p) = <<b, Wipes>>
    \/ \E t \in Threads : th[t].c = c /\ <<b, Wipes>> \in th[t].took

\* What a container was granted it keeps until the next reload, also while its
\* programs are being replaced: whatever order its devices are taken in, however often
\* that happens, and whatever a program from before a reload, attached too late, says.
GrantsAreKept == \A c \in Running : \A d \in kept[c] : Allowed(c, d)

\* In the end every running container can use the devices it mounts, whatever was
\* started, stopped, killed and reloaded, except one that started between the
\* scan and the subscription, or that had, since the last scan, an error or both
\* goroutines replacing its programs at once.
MountsAreGranted ==
  <>[](\A c \in Running : Granted(c) \/ <<c, "contended">> \in excused
                          \/ <<c, "unseen">> \in excused \/ <<c, "error">> \in excused)

\* README.md: the manager writes an allow rule for every device mount of every running
\* container.  v2.go: replacing the programs need not be atomic.  So a container the
\* manager was told of, and had no error with, can use its devices in the end.
ReplacingIsAtomicEnough ==
  <>[](\A c \in Running : Granted(c)
                          \/ <<c, "unseen">> \in excused \/ <<c, "error">> \in excused)
=============================================================================
