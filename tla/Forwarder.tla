----------------------------- MODULE Forwarder -----------------------------
(***************************************************************************)
(* stacks/apps/forwarder: tasks of one service poll a mailbox over IMAP,   *)
(* send what the rules say about new mail, and mark or move the mail.      *)
(* The service is updated start-first, so two tasks may poll at once.      *)
(*                                                                         *)
(* A mail is the number of its arrival.  IMAP names it by its rank among   *)
(* the mails a session knows of, and that is what a cycle's list holds.    *)
(***************************************************************************)
EXTENDS Integers, FiniteSets

CONSTANTS
  N,          \* bound: how many mails arrive
  Matching,   \* mails that some enabled rule matches
  Jobs,
  Forwards,   \* mail -> its forward_recipients
  Extracts,   \* mail -> its extract_tasks
  MaxEmailsPerCycle,
  NTasks,     \* bound: how many tasks Swarm starts one after the other
  MaxFaults   \* bound: how often something fails

Mails == 1..N
Tasks == 1..NTasks

ASSUME ForwarderAssumption ==
  /\ N \in Nat /\ Matching \subseteq Mails
  /\ Forwards \in [Matching -> SUBSET Jobs]
  /\ Extracts \in [Matching -> SUBSET Jobs]
  /\ \A m \in Matching : Forwards[m] \cap Extracts[m] = {}
  /\ MaxEmailsPerCycle \in Nat \ {0}
  /\ NTasks \in Nat \ {0} /\ MaxFaults \in Nat

VARIABLES
  config,    \* MARK_AS_READ, and whether MOVE_TO_FOLDER is set
  arrived,   \* number of mails so far
  inbox, seen, deleted, folder,   \* the mailbox: IMAP_FOLDER, its flags, MOVE_TO_FOLDER
  pc,        \* where a task is
  conn,      \* its IMAP connection: "none", "up", "dead"
  cycle,     \* the local variables of its process_emails(), see NoCycle
  stop,      \* tasks that got SIGTERM
  faults,
  tried,     \* history: sends attempted
  marked,    \* history: mails that a task, not the owner, marked as read
  risked,    \* history: mails that may rightly be sent again
  astray     \* history: the server refused a COPY, or ranks changed between a
             \* COPY and the STORE after it

mailboxVars == <<arrived, inbox, seen, deleted, folder>>
historyVars == <<tried, marked, risked, astray>>
vars == <<config, mailboxVars, pc, conn, cycle, stop, faults, historyVars>>

Work(m) == Forwards[m] \cup Extracts[m]

\* view: the mails the session knows of; ids: email_ids left; n: email_id in hand;
\* cur: the mail fetched for it, 0 if none; todo: its sends left; found: history,
\* the mails that the search found.
Cycles == [view : SUBSET Mails, ids : SUBSET Mails, n : 0..N, cur : 0..N,
           todo : SUBSET Jobs, found : SUBSET Mails]
NoCycle == [view |-> {}, ids |-> {}, n |-> 0, cur |-> 0, todo |-> {}, found |-> {}]

TypeOK ==
  /\ config \in [mark : BOOLEAN, move : BOOLEAN]
  /\ arrived \in 0..N
  /\ inbox \subseteq 1..arrived /\ deleted \subseteq inbox
  /\ seen \subseteq 1..arrived /\ folder \subseteq 1..arrived
  /\ pc \in [Tasks -> {"absent", "down", "rest", "select", "search", "next",
                       "act", "copy", "delete", "expunge", "gone"}]
  /\ conn \in [Tasks -> {"none", "up", "dead"}]
  /\ cycle \in [Tasks -> Cycles]
  /\ stop \subseteq Tasks /\ faults \in 0..MaxFaults
  /\ tried \subseteq Matching \X Jobs /\ marked \subseteq seen
  /\ risked \subseteq 1..arrived /\ astray \in BOOLEAN

Init ==
  /\ config \in [mark : BOOLEAN, move : BOOLEAN]
  /\ arrived = 0 /\ inbox = {} /\ seen = {} /\ deleted = {} /\ folder = {}
  /\ pc = [p \in Tasks |-> IF p = 1 THEN "down" ELSE "absent"]
  /\ conn = [p \in Tasks |-> "none"]
  /\ cycle = [p \in Tasks |-> NoCycle]
  /\ stop = {} /\ faults = 0
  /\ tried = {} /\ marked = {} /\ risked = {} /\ astray = FALSE

Fault == faults < MaxFaults /\ faults' = faults + 1
NoFault == UNCHANGED faults
Goto(p, label) == pc' = [pc EXCEPT ![p] = label]

-----------------------------------------------------------------------------
(* The mailbox, its owner, and Swarm.                                      *)

Rank(S, m) == Cardinality({x \in S : x <= m})
At(S, k) == {m \in S : Rank(S, m) = k}
First(S) == CHOOSE k \in S : \A j \in S : k <= j

Arrive ==
  /\ arrived < N
  /\ arrived' = arrived + 1
  /\ inbox' = inbox \cup {arrived'}
  /\ UNCHANGED <<config, seen, deleted, folder, pc, conn, cycle, stop, faults, historyVars>>

OwnerReads(m) ==
  /\ m \in inbox \ seen
  /\ seen' = seen \cup {m}
  /\ UNCHANGED <<config, arrived, inbox, deleted, folder, pc, conn, cycle, stop, faults,
                 historyVars>>

Drop(p) ==
  /\ conn[p] = "up" /\ Fault
  /\ conn' = [conn EXCEPT ![p] = "dead"]
  /\ UNCHANGED <<config, mailboxVars, pc, cycle, stop, historyVars>>

\* An update of the service starts the next task.
StartNext(p) ==
  /\ p > 1 /\ pc[p] = "absent" /\ pc[p - 1] # "absent"
  /\ Goto(p, "down")
  /\ UNCHANGED <<config, mailboxVars, conn, cycle, stop, faults, historyVars>>

\* Start-first: the old task gets SIGTERM when the new one runs.
Terminate(p) ==
  /\ p + 1 \in Tasks /\ p \notin stop /\ pc[p + 1] \notin {"absent", "down"}
  /\ stop' = stop \cup {p}
  /\ IF pc[p] = "down" THEN Goto(p, "gone") ELSE UNCHANGED pc
  /\ UNCHANGED <<config, mailboxVars, conn, cycle, faults, historyVars>>

\* By the end of the grace period, the health check or a crash; Swarm restarts a
\* task that it does not want to stop.
Kill(p) ==
  /\ pc[p] \notin {"absent", "down", "gone"} /\ Fault
  /\ Goto(p, IF p \in stop THEN "gone" ELSE "down")
  /\ conn' = [conn EXCEPT ![p] = "none"]
  /\ cycle' = [cycle EXCEPT ![p] = NoCycle]
  /\ risked' = IF pc[p] = "act" THEN risked \cup {cycle[p].cur} ELSE risked
  /\ UNCHANGED <<config, mailboxVars, stop, tried, marked, astray>>

Environment ==
  \/ Arrive
  \/ \E m \in Mails : OwnerReads(m)
  \/ \E p \in Tasks : Drop(p) \/ StartNext(p) \/ Terminate(p) \/ Kill(p)

-----------------------------------------------------------------------------
(* runner.py.                                                              *)

\* validate_config() passes, with its test of the connection.
Start(p) ==
  /\ pc[p] = "down"
  /\ Goto(p, "rest")
  /\ UNCHANGED <<config, mailboxVars, conn, cycle, stop, faults, historyVars>>

\* A cycle begins; the connection is used again unless it is too old.
GetImap(p) ==
  /\ pc[p] = "rest" /\ p \notin stop
  /\ \/ conn[p] # "none" /\ UNCHANGED conn
     \/ conn' = [conn EXCEPT ![p] = "up"]
  /\ Goto(p, "select")
  /\ UNCHANGED <<config, mailboxVars, cycle, stop, faults, historyVars>>

\* process_emails() raises; main() invalidates the connections and backs off.
CycleFails(p) ==
  /\ \/ pc[p] = "rest" /\ p \notin stop /\ Fault
     \/ pc[p] \in {"select", "search"} /\ (IF conn[p] = "up" THEN Fault ELSE NoFault)
  /\ Goto(p, "rest")
  /\ conn' = [conn EXCEPT ![p] = "none"]
  /\ cycle' = [cycle EXCEPT ![p] = NoCycle]
  /\ UNCHANGED <<config, mailboxVars, stop, historyVars>>

Exit(p) ==
  /\ pc[p] = "rest" /\ p \in stop
  /\ Goto(p, "gone")
  /\ conn' = [conn EXCEPT ![p] = "none"]
  /\ UNCHANGED <<config, mailboxVars, cycle, stop, faults, historyVars>>

-----------------------------------------------------------------------------
(* process_emails().                                                       *)

Select(p) ==
  /\ pc[p] = "select" /\ conn[p] = "up"
  /\ cycle' = [cycle EXCEPT ![p].view = inbox]
  /\ Goto(p, "search")
  /\ UNCHANGED <<config, mailboxVars, conn, stop, faults, historyVars>>

Batch(S) == {m \in S : Rank(S, m) <= MaxEmailsPerCycle}
Unread(p) == (cycle[p].view \cap inbox) \ seen
List(p, S) == cycle' = [cycle EXCEPT ![p].ids = {Rank(cycle[p].view, m) : m \in S},
                                     ![p].found = S]

\* Mails that another task has on its list, too, and may still send.
InOtherHands(p) == UNION {cycle[q].found : q \in Tasks \ {p}}

\* As if all mails were searched.
Search_All(p) ==
  /\ pc[p] = "search" /\ conn[p] = "up"
  /\ cycle' = [cycle EXCEPT
       ![p].ids = {Rank(cycle[p].view, m) : m \in Batch(cycle[p].view \cap inbox)},
       ![p].found = Batch(Unread(p))]
  /\ risked' = risked \cup (Batch(Unread(p)) \cap InOtherHands(p))
  /\ Goto(p, "next")
  /\ UNCHANGED <<config, mailboxVars, conn, stop, faults, tried, marked, astray>>

Search(p) ==
  /\ pc[p] = "search" /\ conn[p] = "up"
  /\ List(p, Batch(Unread(p)))
  /\ risked' = risked \cup (Batch(Unread(p)) \cap InOtherHands(p))
  /\ Goto(p, "next")
  /\ UNCHANGED <<config, mailboxVars, conn, stop, faults, tried, marked, astray>>

\* The search is answered NO: the cycle counts as a success.
SearchRefused(p) ==
  /\ pc[p] = "search" /\ conn[p] = "up" /\ Fault
  /\ Goto(p, "rest")
  /\ cycle' = [cycle EXCEPT ![p] = NoCycle]
  /\ UNCHANGED <<config, mailboxVars, conn, stop, historyVars>>

InLoop(p) == pc[p] = "next" /\ p \notin stop /\ cycle[p].ids # {}
Fetched(p) == At(cycle[p].view, First(cycle[p].ids)) \cap inbox

\* As if BODY[] were fetched, which marks the mail as read.
Fetch_NoPeek(p) ==
  /\ InLoop(p) /\ conn[p] = "up"
  /\ LET k == First(cycle[p].ids) IN
     \E m \in Fetched(p) \cap Matching :
       /\ cycle' = [cycle EXCEPT ![p].ids = @ \ {k}, ![p].n = k,
                                 ![p].cur = m, ![p].todo = Work(m)]
       /\ Goto(p, "act")
       /\ seen' = seen \cup {m} /\ marked' = marked \cup ({m} \ seen)
  /\ UNCHANGED <<config, arrived, inbox, deleted, folder, conn, stop, faults, tried,
                 risked, astray>>

\* BODY.PEEK[] leaves the mail unread; a mail without a matching rule is left.
Fetch(p) ==
  /\ InLoop(p) /\ conn[p] = "up"
  /\ LET k == First(cycle[p].ids) IN
     \E m \in Fetched(p) :
       IF m \in Matching
         THEN /\ cycle' = [cycle EXCEPT ![p].ids = @ \ {k}, ![p].n = k,
                                        ![p].cur = m, ![p].todo = Work(m)]
              /\ Goto(p, "act")
         ELSE /\ cycle' = [cycle EXCEPT ![p].ids = @ \ {k}]
              /\ UNCHANGED pc
  /\ UNCHANGED <<config, mailboxVars, conn, stop, faults, historyVars>>

\* Nothing fetched.  Only a timeout invalidates the connection; the loop goes on,
\* in vain if the connection is gone.
Skip(p) ==
  /\ InLoop(p)
  /\ cycle' = [cycle EXCEPT ![p].ids = @ \ {First(@)}]
  /\ \/ (conn[p] # "up" \/ Fetched(p) = {}) /\ NoFault /\ UNCHANGED conn
     \/ conn[p] = "up" /\ Fault /\ conn' \in {conn, [conn EXCEPT ![p] = "none"]}
  /\ UNCHANGED <<config, mailboxVars, pc, stop, historyVars>>

\* Whether a mail goes out makes no difference here: a failure is logged, and that
\* is all.
Tries(p, j) ==
  /\ cycle' = [cycle EXCEPT ![p].todo = @ \ {j}]
  /\ tried' = tried \cup {<<cycle[p].cur, j>>}
  /\ UNCHANGED <<config, mailboxVars, pc, conn, stop, faults, marked, risked, astray>>

\* One recipient of forward_email().
Forward(p) ==
  /\ pc[p] = "act"
  /\ \E j \in cycle[p].todo \cap Forwards[cycle[p].cur] : Tries(p, j)

\* One extract_and_send(), after all of forward_email().
Extract(p) ==
  /\ pc[p] = "act"
  /\ cycle[p].todo \cap Forwards[cycle[p].cur] = {}
  /\ \E j \in cycle[p].todo : Tries(p, j)

DoneWith(p) ==
  /\ Goto(p, "next")
  /\ cycle' = [cycle EXCEPT ![p].n = 0, ![p].cur = 0, ![p].todo = {}]
AfterMark(p) == IF config.move THEN Goto(p, "copy") /\ UNCHANGED cycle ELSE DoneWith(p)

MarkSeen(m) == seen' = seen \cup {m} /\ marked' = marked \cup ({m} \ seen)
NotMarked == UNCHANGED <<seen, marked>>

\* As if the mail were never marked.
Mark_Never(p) ==
  /\ pc[p] = "act" /\ cycle[p].todo = {} /\ config.mark
  /\ NoFault /\ NotMarked /\ UNCHANGED risked
  /\ AfterMark(p)
  /\ UNCHANGED <<config, arrived, inbox, deleted, folder, conn, stop, tried, astray>>

\* The STORE of \Seen: done, answered NO, which nobody looks at, or raising, with
\* or without its effect; then the rest of the mail is skipped.
Mark(p) ==
  /\ pc[p] = "act" /\ cycle[p].todo = {} /\ config.mark
  /\ LET m == cycle[p].cur IN
     \/ /\ conn[p] = "up" /\ m \in inbox /\ NoFault
        /\ MarkSeen(m) /\ UNCHANGED risked
        /\ AfterMark(p)
     \/ /\ conn[p] = "up" /\ (IF m \in inbox THEN Fault ELSE NoFault)
        /\ NotMarked /\ risked' = risked \cup {m}
        /\ AfterMark(p)
     \/ /\ IF conn[p] = "up" THEN Fault ELSE NoFault
        /\ NotMarked \/ (conn[p] = "up" /\ m \in inbox /\ MarkSeen(m))
        /\ risked' = risked \cup {m}
        /\ DoneWith(p)
  /\ UNCHANGED <<config, arrived, inbox, deleted, folder, conn, stop, tried, astray>>

\* MARK_AS_READ is false.
LeaveUnread(p) ==
  /\ pc[p] = "act" /\ cycle[p].todo = {} /\ ~config.mark
  /\ risked' = risked \cup {cycle[p].cur}
  /\ AfterMark(p)
  /\ UNCHANGED <<config, mailboxVars, conn, stop, faults, tried, marked, astray>>

Target(p) == At(cycle[p].view, cycle[p].n)

\* As if the mail were flagged without a copy of it.
Copy_Skipped(p) ==
  /\ pc[p] = "copy" /\ conn[p] = "up"
  /\ Goto(p, "delete")
  /\ UNCHANGED <<config, mailboxVars, conn, cycle, stop, faults, historyVars>>

\* imaplib returns a NO like an OK, and nobody looks.  With the answer to a COPY
\* the server may tell what other sessions have expunged.
Copy(p) ==
  /\ pc[p] = "copy" /\ conn[p] = "up"
  /\ \/ folder' = folder \cup (Target(p) \cap inbox) /\ NoFault
     \/ Target(p) \cap inbox # {} /\ Fault /\ UNCHANGED folder
  /\ cycle' \in {cycle, [cycle EXCEPT ![p].view = @ \cap inbox]}
  /\ astray' = (astray \/ ~(Target(p) \cap inbox \subseteq folder')
                       \/ Target(p)' # Target(p))
  /\ Goto(p, "delete")
  /\ UNCHANGED <<config, arrived, inbox, seen, deleted, conn, stop, tried, marked, risked>>

\* As if the number on the list were a UID.
Delete_AsUid(p) ==
  /\ pc[p] = "delete" /\ conn[p] = "up"
  /\ deleted' = deleted \cup {cycle[p].n} /\ NoFault
  /\ Goto(p, "expunge")
  /\ UNCHANGED <<config, arrived, inbox, seen, folder, conn, cycle, stop, historyVars>>

Delete(p) ==
  /\ pc[p] = "delete" /\ conn[p] = "up"
  /\ \/ Target(p) # {} /\ deleted' = deleted \cup (Target(p) \cap inbox) /\ NoFault
     \/ Fault /\ UNCHANGED deleted
  /\ Goto(p, "expunge")
  /\ UNCHANGED <<config, arrived, inbox, seen, folder, conn, cycle, stop, historyVars>>

\* EXPUNGE removes whatever is flagged; ids keeps the old ranks.
Expunge(p) ==
  /\ pc[p] = "expunge" /\ conn[p] = "up"
  /\ inbox' = inbox \ deleted /\ deleted' = {}
  /\ cycle' = [cycle EXCEPT ![p].view = @ \cap inbox', ![p].n = 0, ![p].cur = 0]
  /\ Goto(p, "next")
  /\ UNCHANGED <<config, arrived, seen, folder, conn, stop, faults, historyVars>>

\* A step of the move raises, which is logged; the mail counts as processed.
MoveRaises(p) ==
  /\ pc[p] \in {"copy", "delete", "expunge"}
  /\ IF conn[p] # "up" \/ (pc[p] = "delete" /\ Target(p) = {}) THEN NoFault ELSE Fault
  /\ DoneWith(p)
  /\ UNCHANGED <<config, mailboxVars, conn, stop, historyVars>>

\* The list is done, or SIGTERM came.
EndCycle(p) ==
  /\ pc[p] = "next" /\ (cycle[p].ids = {} \/ p \in stop)
  /\ Goto(p, "rest")
  /\ cycle' = [cycle EXCEPT ![p] = NoCycle]
  /\ UNCHANGED <<config, mailboxVars, conn, stop, faults, historyVars>>

ForwarderStep(p) ==
  \/ Start(p) \/ GetImap(p) \/ CycleFails(p) \/ Exit(p)
  \/ Select(p) \/ Search(p) \/ SearchRefused(p)
  \/ Fetch(p) \/ Skip(p) \/ Forward(p) \/ Extract(p) \/ Mark(p) \/ LeaveUnread(p)
  \/ Copy(p) \/ Delete(p) \/ Expunge(p) \/ MoveRaises(p)
  \/ EndCycle(p)

Next == Environment \/ \E p \in Tasks : ForwarderStep(p)

Spec == Init /\ [][Next]_vars

\* A task is a loop of calls that return or time out, and Swarm restarts it.
FairSpec == Spec /\ \A p \in Tasks : WF_vars(ForwarderStep(p))

-----------------------------------------------------------------------------
\* A mail is marked as read only after every send for it was attempted: a task
\* that dies in between leaves the mail to the next one.
MarkedAfterSending == \A m \in marked : m \in Matching /\ {m} \X Work(m) \subseteq tried

\* Unless mails are moved, a task only handles mails that its search found unread:
\* the ranks on its list keep naming the mails they were taken from.
HandlesWhatItFound ==
  \A p \in Tasks : ~config.move /\ cycle[p].cur # 0 => cycle[p].cur \in cycle[p].found

\* Unless mails are moved, a task sends again only what an earlier one may have left
\* unmarked, because it died or its STORE failed, or what both tasks of an update
\* had listed.
RepeatsHaveACause ==
  \A p \in Tasks, j \in Jobs :
    ~config.move /\ pc[p] = "act" /\ j \in cycle[p].todo /\ <<cycle[p].cur, j>> \in tried
      => cycle[p].cur \in risked

\* Mails leave the mailbox for the folder only, unless the server refuses a COPY or
\* the EXPUNGE of another task changes ranks between COPY and STORE.
MovedMailIsCopied == ~astray => 1..arrived \ inbox \subseteq folder

\* Every send was attempted, the owner has read it, or it was moved.
Attended(m) == {m} \X Work(m) \subseteq tried \/ m \in seen \ marked \/ m \notin inbox

\* While a batch has room for a matching mail, each one is attended to, however
\* often the task is killed or the connection lost before that.
MatchingMailIsAttended ==
  \A m \in Matching :
    (config.mark /\ Cardinality(Mails \ Matching) < MaxEmailsPerCycle /\ m \in inbox)
      ~> Attended(m)

\* config.py:81-82: mails are moved after forwarding, so none leaves the mailbox
\* but for the folder.
MoveKeepsMail == 1..arrived \ inbox \subseteq folder
=============================================================================
