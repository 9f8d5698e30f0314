------------------------------ MODULE Exporter ------------------------------
(***************************************************************************)
(* exporter.py of the backup stack: hooks that borgmatic fires after each  *)
(* create action.  A hook reads the metrics file, asks borgmatic about the *)
(* archives, and replaces the file through one shared temporary file.      *)
(* A run of borgmatic fires its hooks in turn; a run started by hand       *)
(* (README.md of the stack) may overlap the one cron started.              *)
(*                                                                         *)
(* The text of a file is what read_prior() keeps of it: a row of metrics   *)
(* for each target.                                                        *)
(***************************************************************************)
EXTENDS Naturals

CONSTANTS
  Targets,
  Runs,      \* runs of borgmatic
  MaxHooks   \* bound: how many hooks are fired

ASSUME ExporterAssumption == Targets # {} /\ MaxHooks \in Nat

VARIABLES
  metrics,   \* text of OUT_PATH; no file reads like an empty one
  tmp,       \* the text of TMP_PATH as a set, {} if there is no such file
  hook,      \* the hook of each run, see Idle
  fired,     \* hooks so far; also the clock
  disturbed  \* history: two hooks overlapped

exporterVars == <<metrics, tmp, hook, fired, disturbed>>

Gauges == {"archive", "count"}
Rows == [runs : Nat, successes : Nat, failures : Nat, last : 0..fired,
         gauges : SUBSET Gauges]
Texts == [Targets -> Rows]

NoRow == [runs |-> 0, successes |-> 0, failures |-> 0, last |-> 0, gauges |-> {}]
EmptyText == [t \in Targets |-> NoRow]

\* text: what main() has collected to write; file: which file it has opened.
Idle == [pc |-> "idle", target |-> CHOOSE t \in Targets : TRUE,
         text |-> EmptyText, file |-> "none"]

ExporterTypeOK ==
  /\ metrics \in Texts
  /\ tmp \subseteq Texts /\ \A x, y \in tmp : x = y
  /\ hook \in [Runs -> [pc : {"idle", "info", "list", "open", "write", "rename"},
                        target : Targets, text : Texts,
                        file : {"none", "tmp", "out", "gone"}]]
  /\ fired \in 0..MaxHooks /\ disturbed \in BOOLEAN

ExporterInit ==
  /\ metrics = EmptyText /\ tmp = {}
  /\ hook = [r \in Runs |-> Idle]
  /\ fired = 0 /\ disturbed = FALSE

Busy(r) == hook[r].pc # "idle"
At(r, label) == hook[r].pc = label
Goto(r, label) == hook' = [hook EXCEPT ![r].pc = label]

\* As if the time of the last success were forgotten by a failure.
Row_Forgets(prior, ok, now) ==
  [prior EXCEPT !.runs = @ + 1, !.successes = @ + (IF ok THEN 1 ELSE 0),
                !.failures = @ + (IF ok THEN 0 ELSE 1),
                !.last = IF ok THEN now ELSE 0, !.gauges = {}]

\* Counters go on from the prior file; gauges are looked up anew.
Row(prior, ok, now) ==
  [prior EXCEPT !.runs = @ + 1, !.successes = @ + (IF ok THEN 1 ELSE 0),
                !.failures = @ + (IF ok THEN 0 ELSE 1),
                !.last = IF ok THEN now ELSE @, !.gauges = {}]

\* main() up to the lookups: the rows of other targets are preserved.
Fire(r, t, ok) ==
  /\ ~Busy(r) /\ fired < MaxHooks
  /\ fired' = fired + 1
  /\ hook' = [hook EXCEPT ![r] =
       [pc |-> "info", target |-> t, file |-> "none",
        text |-> [metrics EXCEPT ![t] = Row(@, ok, fired + 1)]]]
  /\ disturbed' = (disturbed \/ \E q \in Runs \ {r} : Busy(q))
  /\ UNCHANGED <<metrics, tmp>>

\* What a hook writes once a lookup has found some gauges.
Found(h, gauges) == [h.text EXCEPT ![h.target].gauges = @ \cup gauges]

\* borgmatic info: it may fail or time out, or know no archive yet.
Info(r) ==
  /\ At(r, "info")
  /\ \E gauges \in SUBSET {"archive"} :
       hook' = [hook EXCEPT ![r].pc = "list", ![r].text = Found(hook[r], gauges)]
  /\ UNCHANGED <<metrics, tmp, fired, disturbed>>

\* borgmatic list.
Listing(r) ==
  /\ At(r, "list")
  /\ \E gauges \in SUBSET {"count"} :
       hook' = [hook EXCEPT ![r].pc = "open", ![r].text = Found(hook[r], gauges)]
  /\ UNCHANGED <<metrics, tmp, fired, disturbed>>

\* open(TMP_PATH, "w") empties the file, also under a hook that has it open.
Open(r) ==
  /\ At(r, "open")
  /\ tmp' = {EmptyText}
  /\ hook' = [hook EXCEPT ![r].pc = "write", ![r].file = "tmp"]
  /\ UNCHANGED <<metrics, fired, disturbed>>

\* A text written over another from the start may leave the end of a longer one,
\* whose rows the next read then finds.
Over(old, new) ==
  {[t \in Targets |-> IF t \in S THEN old[t] ELSE new[t]] :
     S \in SUBSET {t \in Targets : old[t] # NoRow}}

\* The text reaches the file when it is closed, whatever its name is by then.
Write(r) ==
  /\ At(r, "write")
  /\ Goto(r, "rename")
  /\ CASE hook[r].file = "tmp" ->
            /\ \E old \in tmp : \E text \in Over(old, hook[r].text) : tmp' = {text}
            /\ UNCHANGED metrics
       [] hook[r].file = "out" -> metrics' \in Over(metrics, hook[r].text) /\ UNCHANGED tmp
       [] OTHER -> UNCHANGED <<metrics, tmp>>
  /\ UNCHANGED <<fired, disturbed>>

\* os.rename: descriptors of the temporary file now are of the metrics file, those
\* of the old metrics file of none.
AfterRename(h) ==
  CASE h.file = "tmp" -> [h EXCEPT !.file = "out"]
    [] h.file = "out" -> [h EXCEPT !.file = "gone"]
    [] OTHER -> h

Rename(r) ==
  /\ At(r, "rename")
  /\ \E text \in tmp :
       /\ metrics' = text /\ tmp' = {}
       /\ hook' = [q \in Runs |-> IF q = r THEN Idle ELSE AfterRename(hook[q])]
  /\ UNCHANGED <<fired, disturbed>>

\* The temporary file is gone, because another hook has renamed it.
RenameFails(r) ==
  /\ At(r, "rename") /\ tmp = {}
  /\ hook' = [hook EXCEPT ![r] = Idle]
  /\ UNCHANGED <<metrics, tmp, fired, disturbed>>

\* The hook or its container is killed; what it has not flushed is lost.
Die(r) ==
  /\ Busy(r)
  /\ hook' = [hook EXCEPT ![r] = Idle]
  /\ UNCHANGED <<metrics, tmp, fired, disturbed>>

ExporterNext ==
  \E r \in Runs :
    \/ \E t \in Targets, ok \in BOOLEAN : Fire(r, t, ok)
    \/ Info(r) \/ Listing(r) \/ Open(r) \/ Write(r) \/ Rename(r) \/ RenameFails(r)
    \/ Die(r)

ExporterSpec == ExporterInit /\ [][ExporterNext]_exporterVars

-----------------------------------------------------------------------------
\* The metrics file is a store of rows in which each hook changes its own target's
\* row at once, whatever lookup fails and whenever a hook is killed, until two
\* hooks overlap (exporter.py:4-5, and "counters persist" in the stack's README).
Store == INSTANCE MetricsStore
           WITH rows <- metrics, Times <- 1..MaxHooks
StoreIsKept == Store!Spec
=============================================================================
