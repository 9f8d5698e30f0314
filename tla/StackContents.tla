--------------------------- MODULE StackContents ---------------------------
(***************************************************************************)
(* What versioned secrets and configs are for: the contents a stack mounts *)
(* change as a whole or not at all.  A run resolves contents for a stack   *)
(* under a version, and one step puts them in the place of what the stack  *)
(* mounted before; an update that fails brings that back.  Nobody else's   *)
(* run, cleanup or removal changes what a stack mounts.                    *)
(*                                                                         *)
(* Two exceptions: a cleanup may take from the previous contents what no   *)
(* stack mounts, and a version that is drawn twice promises nothing about  *)
(* what bears it.                                                          *)
(***************************************************************************)
CONSTANTS Stacks, Runs, Bases, Needs, Values, Versions, None

VARIABLES
  offered,   \* run -> the stack it deploys and the contents it resolved
  mounted,   \* stack -> the contents its services find
  previous   \* stack -> the contents a rollback would bring back

Nothing == [is |-> "nothing"]
Unclear(v) == [is |-> "unclear", ver |-> v]
Holds(v, c) == [is |-> "contents", ver |-> v, of |-> c]

Bears(what, v) == what # Nothing /\ what.ver = v

NoOffer == [for |-> None, what |-> Nothing]
Offer(s, what) == [for |-> s, what |-> what]

Init ==
  /\ offered = [r \in Runs |-> NoOffer]
  /\ mounted = [s \in Stacks |-> Nothing]
  /\ previous = [s \in Stacks |-> Nothing]

\* A run resolves contents, not all of them perhaps, under a version nobody bears.
Resolve(r, s, v) ==
  /\ offered[r] = NoOffer
  /\ \A q \in Runs : ~Bears(offered[q].what, v)
  /\ \A q \in Stacks : ~Bears(mounted[q], v) /\ ~Bears(previous[q], v)
  /\ \E c \in [Needs[s] -> Values \cup {None}] :
       offered' = [offered EXCEPT ![r] = Offer(s, Holds(v, c))]
  /\ UNCHANGED <<mounted, previous>>

Blurred(what, v) == IF Bears(what, v) THEN Unclear(v) ELSE what

\* The version was drawn before: what bears it is no longer known.
ResolveTwin(r, s, v) ==
  /\ offered[r] = NoOffer
  /\ offered' = [q \in Runs |->
       IF q = r THEN Offer(s, Unclear(v))
                ELSE Offer(offered[q].for, Blurred(offered[q].what, v))]
  /\ mounted' = [q \in Stacks |-> Blurred(mounted[q], v)]
  /\ previous' = [q \in Stacks |-> Blurred(previous[q], v)]

\* The run ends, by success, failure or a kill.
Withdraw(r) ==
  /\ offered' = [offered EXCEPT ![r] = NoOffer]
  /\ UNCHANGED <<mounted, previous>>

\* All of the contents, and exactly those the run resolved, are mounted at once.
Deploy(r, s) ==
  /\ offered[r].for = s /\ offered[r].what # Nothing
  /\ offered[r].what.is = "contents" => offered[r].what.of \in [Needs[s] -> Values]
  /\ mounted' = [mounted EXCEPT ![s] = offered[r].what]
  /\ previous' = [previous EXCEPT ![s] = mounted[s]]
  /\ offered' = [offered EXCEPT ![r] = NoOffer]

\* The update is over.
Settle(s) ==
  /\ previous' = [previous EXCEPT ![s] = Nothing]
  /\ UNCHANGED <<offered, mounted>>

\* The update failed: the stack mounts what it mounted before.
RollBack(s) ==
  /\ previous[s] # Nothing
  /\ mounted' = [mounted EXCEPT ![s] = previous[s]]
  /\ previous' = [previous EXCEPT ![s] = Nothing]
  /\ UNCHANGED offered

Remove(s) ==
  /\ mounted' = [mounted EXCEPT ![s] = Nothing]
  /\ previous' = [previous EXCEPT ![s] = Nothing]
  /\ UNCHANGED offered

\* A cleanup removes an item that no stack mounts.
Lose(v, b) ==
  /\ \A s \in Stacks : Bears(mounted[s], v) => b \notin Needs[s]
  /\ previous' = [s \in Stacks |->
       IF previous[s].is = "contents" /\ Bears(previous[s], v)
         THEN Holds(v, [previous[s].of EXCEPT ![b] = None]) ELSE previous[s]]
  /\ UNCHANGED <<offered, mounted>>

Next ==
  \/ \E s \in Stacks : Settle(s) \/ RollBack(s) \/ Remove(s)
  \/ \E v \in Versions, b \in Bases : Lose(v, b)
  \/ \E r \in Runs :
       \/ Withdraw(r)
       \/ \E s \in Stacks :
            \/ Deploy(r, s)
            \/ \E v \in Versions : Resolve(r, s, v) \/ ResolveTwin(r, s, v)

Spec == Init /\ [][Next]_<<offered, mounted, previous>>
=============================================================================
