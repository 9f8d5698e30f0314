--------------------------- MODULE ExporterProofs ---------------------------
(***************************************************************************)
(* Proofs about Exporter: its variables keep their types, and it           *)
(* implements the store of MetricsStore.                                   *)
(***************************************************************************)
EXTENDS Exporter, TLAPS

(* What a hook makes of its row, with all gauges found. *)
Draft(row, ok, found, now) ==
  [runs |-> row.runs + 1,
   successes |-> row.successes + (IF ok THEN 1 ELSE 0),
   failures |-> row.failures + (IF ok THEN 0 ELSE 1),
   last |-> IF ok THEN now ELSE row.last,
   gauges |-> found]

(* A busy hook is alone, and its text is that of the metrics file but for its own
   row, whose time is later than that of any row in the file. *)
Alone == \A q, r \in Runs : Busy(q) /\ Busy(r) => q = r

Drafted(r) ==
  /\ \A u \in Targets : metrics[u].last < fired
  /\ \E ok \in BOOLEAN, found \in SUBSET Gauges :
       hook[r].text = [metrics EXCEPT ![hook[r].target] =
         Draft(metrics[hook[r].target], ok, found, fired)]

(* The file a busy hook has opened is the temporary one, empty or its own. *)
Placed(r) ==
  /\ At(r, "write") => hook[r].file = "tmp" /\ tmp = {EmptyText}
  /\ At(r, "rename") => tmp = {hook[r].text}

Orderly == Alone /\ \A r \in Runs : Busy(r) => Drafted(r) /\ Placed(r)

KeptInv == ExporterTypeOK /\ (~disturbed => Orderly)

-----------------------------------------------------------------------------
(* The states of a hook. *)
Hooks == [pc : {"idle", "info", "list", "open", "write", "rename"},
          target : Targets, text : Texts, file : {"none", "tmp", "out", "gone"}]

(* A row that is written is a draft without gauges. *)
LEMMA RowIsDraft ==
  ASSUME NEW prior \in Rows, NEW ok \in BOOLEAN, NEW now \in Nat
  PROVE  Row(prior, ok, now) = Draft(prior, ok, {}, now)
  <1>1. prior \in [runs : Nat, successes : Nat, failures : Nat, last : 0..fired,
                   gauges : SUBSET Gauges]
    BY DEF Rows
  <1>2. CASE ok
    <2>1. Row(prior, ok, now) =
            [prior EXCEPT !.runs = @ + 1, !.successes = @ + 1, !.failures = @ + 0,
                          !.last = now, !.gauges = {}]
      BY <1>2 DEF Row
    <2>2. Draft(prior, ok, {}, now) =
            [runs |-> prior.runs + 1, successes |-> prior.successes + 1,
             failures |-> prior.failures + 0, last |-> now, gauges |-> {}]
      BY <1>2 DEF Draft
    <2> QED BY <1>1, <2>1, <2>2
  <1>3. CASE ~ok
    <2>1. Row(prior, ok, now) =
            [prior EXCEPT !.runs = @ + 1, !.successes = @ + 0, !.failures = @ + 1,
                          !.last = prior.last, !.gauges = {}]
      BY <1>1, <1>3 DEF Row
    <2>2. Draft(prior, ok, {}, now) =
            [runs |-> prior.runs + 1, successes |-> prior.successes + 0,
             failures |-> prior.failures + 1, last |-> prior.last, gauges |-> {}]
      BY <1>3 DEF Draft
    <2> QED BY <1>1, <2>1, <2>2
  <1> QED BY <1>2, <1>3

(* A draft has the type of a row at the time of the hook. *)
LEMMA DraftType ==
  ASSUME NEW prior \in Rows, NEW ok \in BOOLEAN, fired \in Nat, NEW now \in Nat,
         fired <= now, NEW found \in SUBSET Gauges
  PROVE  Draft(prior, ok, found, now) \in
           [runs : Nat, successes : Nat, failures : Nat, last : 0..now,
            gauges : SUBSET Gauges]
  <1>1. /\ prior.runs \in Nat /\ prior.successes \in Nat /\ prior.failures \in Nat
        /\ prior.last \in 0..fired
    BY DEF Rows
  <1>2. prior.runs + 1 \in Nat BY <1>1
  <1>3. prior.successes + (IF ok THEN 1 ELSE 0) \in Nat BY <1>1
  <1>4. prior.failures + (IF ok THEN 0 ELSE 1) \in Nat BY <1>1
  <1>5. (IF ok THEN now ELSE prior.last) \in 0..now BY <1>1
  <1> QED BY <1>2, <1>3, <1>4, <1>5 DEF Draft

(* Texts of earlier are texts of later. *)
LEMMA TextsGrow ==
  ASSUME fired \in Nat, fired' \in Nat, fired' >= fired
  PROVE  Texts \subseteq Texts'
  BY DEF Texts, Rows

(* Finding gauges keeps the type of a text. *)
LEMMA FoundType ==
  ASSUME NEW h, h.text \in Texts, h.target \in Targets, NEW gauges \in SUBSET Gauges
  PROVE  Found(h, gauges) \in Texts
  BY DEF Found, Texts, Rows

(* What is left of an older text in the file is a row all the same. *)
LEMMA OverType ==
  ASSUME NEW old \in Texts, NEW new \in Texts
  PROVE  Over(old, new) \subseteq Texts
  BY DEF Over, Texts

LEMMA IdleType ==
  ASSUME fired \in Nat
  PROVE  /\ Idle.target \in Targets /\ Idle.text \in Texts
         /\ Idle.pc = "idle" /\ Idle.file = "none"
  <1>1. (CHOOSE t \in Targets : TRUE) \in Targets BY ExporterAssumption
  <1>2. EmptyText \in Texts BY DEF EmptyText, Texts, Rows, NoRow
  <1> QED BY <1>1, <1>2 DEF Idle

(* A text of which only rows of an empty file could remain is the text. *)
LEMMA OverEmpty ==
  ASSUME NEW new \in Texts
  PROVE  Over(EmptyText, new) = {new}
  <1>1. {t \in Targets : EmptyText[t] # NoRow} = {} BY DEF EmptyText
  <1>2. new = [t \in Targets |-> new[t]] BY DEF Texts
  <1> QED BY <1>1, <1>2 DEF Over

-----------------------------------------------------------------------------
(* The variables of the exporter keep their types: in particular every time in
   the file is one at which a hook has fired, and the temporary file is one file. *)
LEMMA InitType == ExporterInit => ExporterTypeOK
  <1> SUFFICES ASSUME ExporterInit PROVE ExporterTypeOK OBVIOUS
  <1>1. fired \in Nat BY DEF ExporterInit
  <1>2. metrics \in Texts BY DEF ExporterInit, EmptyText, Texts, Rows, NoRow
  <1>3. Idle \in Hooks BY <1>1, IdleType DEF Idle, Hooks
  <1>4. hook \in [Runs -> Hooks] BY <1>3 DEF ExporterInit
  <1>5. tmp = {} /\ disturbed = FALSE BY DEF ExporterInit
  <1>6. fired \in 0..MaxHooks BY ExporterAssumption DEF ExporterInit
  <1> QED BY <1>2, <1>4, <1>5, <1>6 DEF ExporterTypeOK, Hooks

LEMMA StepType == ExporterTypeOK /\ [ExporterNext]_exporterVars => ExporterTypeOK'
  <1> SUFFICES ASSUME ExporterTypeOK, [ExporterNext]_exporterVars PROVE ExporterTypeOK'
    OBVIOUS
  <1>t. /\ metrics \in Texts /\ tmp \subseteq Texts /\ \A x, y \in tmp : x = y
        /\ hook \in [Runs -> Hooks] /\ fired \in Nat /\ fired <= MaxHooks
        /\ MaxHooks \in Nat /\ disturbed \in BOOLEAN
    BY ExporterAssumption DEF ExporterTypeOK, Hooks
  <1>g. SUFFICES /\ metrics' \in Texts' /\ tmp' \subseteq Texts' /\ \A x, y \in tmp' : x = y
                 /\ hook' \in [Runs -> Hooks'] /\ fired' \in 0..MaxHooks
                 /\ disturbed' \in BOOLEAN
    BY DEF ExporterTypeOK, Hooks
  <1>s. ASSUME UNCHANGED fired PROVE Texts' = Texts /\ Hooks' = Hooks
    BY <1>s DEF Texts, Rows, Hooks
  <1>i. Idle \in Hooks BY <1>t, IdleType DEF Idle, Hooks
  <1>1. ASSUME NEW r \in Runs, NEW t \in Targets, NEW ok \in BOOLEAN, Fire(r, t, ok)
        PROVE  /\ metrics' \in Texts' /\ tmp' \subseteq Texts' /\ \A x, y \in tmp' : x = y
               /\ hook' \in [Runs -> Hooks'] /\ fired' \in 0..MaxHooks
               /\ disturbed' \in BOOLEAN
    <2>1. fired' = fired + 1 /\ fired + 1 <= MaxHooks BY <1>1, <1>t DEF Fire
    <2>2. Texts \subseteq Texts' BY <2>1, <1>t, TextsGrow
    <2>3. Hooks \subseteq Hooks' BY <2>2 DEF Hooks
    <2>4. [metrics EXCEPT ![t] = Row(metrics[t], ok, fired + 1)] \in Texts'
      <3>1. metrics[t] \in Rows BY <1>t DEF Texts
      <3>2. Row(metrics[t], ok, fired + 1) \in Rows'
        <4>1. Row(metrics[t], ok, fired + 1) = Draft(metrics[t], ok, {}, fired + 1)
          BY <3>1, <1>t, RowIsDraft
        <4>2. fired + 1 \in Nat /\ fired <= fired + 1 /\ {} \in SUBSET Gauges BY <1>t
        <4> QED BY <3>1, <4>1, <4>2, <2>1, <1>t, DraftType DEF Rows
      <3>3. metrics \in [Targets -> Rows'] BY <2>2, <1>t DEF Texts
      <3> QED BY <3>2, <3>3 DEF Texts
    <2>5. hook' \in [Runs -> Hooks'] BY <1>1, <2>3, <2>4, <1>t DEF Fire, Hooks
    <2> QED BY <1>1, <2>1, <2>2, <2>5, <1>t DEF Fire
  <1>2. ASSUME NEW r \in Runs, Info(r) \/ Listing(r), fired' = fired
        PROVE  hook' \in [Runs -> Hooks]
    <2>1. PICK gauges \in SUBSET Gauges, l \in {"list", "open"} :
            hook' = [hook EXCEPT ![r].pc = l, ![r].text = Found(hook[r], gauges)]
      BY <1>2 DEF Info, Listing, Gauges
    <2>2. hook[r] \in Hooks /\ Found(hook[r], gauges) \in Texts
      BY <1>t, FoundType DEF Hooks
    <2> QED BY <2>1, <2>2, <1>t DEF Hooks
  <1>3. ASSUME NEW r \in Runs, Info(r) \/ Listing(r)
        PROVE  /\ metrics' \in Texts' /\ tmp' \subseteq Texts' /\ \A x, y \in tmp' : x = y
               /\ hook' \in [Runs -> Hooks'] /\ fired' \in 0..MaxHooks
               /\ disturbed' \in BOOLEAN
    <2>1. UNCHANGED <<metrics, tmp, fired, disturbed>> BY <1>3 DEF Info, Listing
    <2>2. hook' \in [Runs -> Hooks] BY <1>2, <1>3, <2>1
    <2> QED BY <2>1, <2>2, <1>s, <1>t
  <1>4. ASSUME NEW r \in Runs, Open(r)
        PROVE  /\ metrics' \in Texts' /\ tmp' \subseteq Texts' /\ \A x, y \in tmp' : x = y
               /\ hook' \in [Runs -> Hooks'] /\ fired' \in 0..MaxHooks
               /\ disturbed' \in BOOLEAN
    <2>1. EmptyText \in Texts BY <1>t DEF EmptyText, Texts, Rows, NoRow
    <2>2. hook' \in [Runs -> Hooks] BY <1>4, <1>t DEF Open, Hooks
    <2> QED BY <1>4, <2>1, <2>2, <1>s, <1>t DEF Open
  <1>5. ASSUME NEW r \in Runs, Write(r)
        PROVE  /\ metrics' \in Texts' /\ tmp' \subseteq Texts' /\ \A x, y \in tmp' : x = y
               /\ hook' \in [Runs -> Hooks'] /\ fired' \in 0..MaxHooks
               /\ disturbed' \in BOOLEAN
    <2>1. hook[r] \in Hooks /\ hook[r].text \in Texts BY <1>t DEF Hooks
    <2>2. hook' \in [Runs -> Hooks] BY <1>5, <1>t DEF Write, Goto, Hooks
    <2>3. metrics' \in Texts /\ tmp' \subseteq Texts /\ \A x, y \in tmp' : x = y
      <3>1. CASE hook[r].file = "tmp"
        <4>1. PICK old \in tmp : \E text \in Over(old, hook[r].text) : tmp' = {text}
          BY <1>5, <3>1 DEF Write
        <4>2. UNCHANGED metrics BY <1>5, <3>1 DEF Write
        <4>3. Over(old, hook[r].text) \subseteq Texts BY <2>1, <1>t, OverType
        <4> QED BY <4>1, <4>2, <4>3, <1>t
      <3>2. CASE hook[r].file = "out"
        <4>1. metrics' \in Over(metrics, hook[r].text) /\ UNCHANGED tmp
          BY <1>5, <3>2 DEF Write
        <4> QED BY <4>1, <2>1, <1>t, OverType
      <3>3. CASE hook[r].file \notin {"tmp", "out"}
        BY <1>5, <3>3, <1>t DEF Write
      <3> QED BY <3>1, <3>2, <3>3
    <2>4. fired' = fired /\ disturbed' = disturbed BY <1>5 DEF Write
    <2> QED BY <2>2, <2>3, <2>4, <1>s, <1>t
  <1>6. ASSUME NEW r \in Runs, Rename(r)
        PROVE  /\ metrics' \in Texts' /\ tmp' \subseteq Texts' /\ \A x, y \in tmp' : x = y
               /\ hook' \in [Runs -> Hooks'] /\ fired' \in 0..MaxHooks
               /\ disturbed' \in BOOLEAN
    <2>1. PICK text \in tmp :
            /\ metrics' = text /\ tmp' = {}
            /\ hook' = [q \in Runs |-> IF q = r THEN Idle ELSE AfterRename(hook[q])]
      BY <1>6 DEF Rename
    <2>2. \A q \in Runs : AfterRename(hook[q]) \in Hooks
      BY <1>t DEF AfterRename, Hooks
    <2>3. hook' \in [Runs -> Hooks] BY <2>1, <2>2, <1>i
    <2>4. fired' = fired /\ disturbed' = disturbed BY <1>6 DEF Rename
    <2> QED BY <2>1, <2>3, <2>4, <1>s, <1>t
  <1>7. ASSUME NEW r \in Runs, RenameFails(r) \/ Die(r)
        PROVE  /\ metrics' \in Texts' /\ tmp' \subseteq Texts' /\ \A x, y \in tmp' : x = y
               /\ hook' \in [Runs -> Hooks'] /\ fired' \in 0..MaxHooks
               /\ disturbed' \in BOOLEAN
    BY <1>7, <1>s, <1>t, <1>i DEF RenameFails, Die
  <1>8. CASE UNCHANGED exporterVars
    BY <1>8, <1>s, <1>t DEF exporterVars
  <1> QED BY <1>1, <1>3, <1>4, <1>5, <1>6, <1>7, <1>8 DEF ExporterNext

(* exporter.py never writes anything but rows, and no row from the future. *)
THEOREM ExporterTypeCorrect == ExporterSpec => []ExporterTypeOK
  BY InitType, StepType, PTL DEF ExporterSpec
-----------------------------------------------------------------------------
(* At first no hook is busy. *)
LEMMA InitOrderly == ExporterInit => Orderly
  BY IdleType DEF ExporterInit, Orderly, Alone, Busy

(* While hooks have not overlapped, the one that is busy can rely on the files. *)
LEMMA StepOrderly ==
  ASSUME KeptInv, ExporterNext, ~disturbed'
  PROVE  Orderly'
  <1>t. /\ metrics \in Texts /\ hook \in [Runs -> Hooks] /\ fired \in Nat
        /\ \A u \in Targets : metrics[u] \in Rows /\ metrics[u].last \in 0..fired
    BY ExporterAssumption DEF KeptInv, ExporterTypeOK, Hooks, Texts, Rows
  <1>d. ~disturbed
    BY DEF ExporterNext, Fire, Info, Listing, Open, Write, Rename, RenameFails, Die
  <1>o. Orderly BY <1>d DEF KeptInv
  <1>i. Idle.pc = "idle" BY DEF Idle
  <1>1. ASSUME NEW r \in Runs, NEW t \in Targets, NEW ok \in BOOLEAN, Fire(r, t, ok)
        PROVE  Orderly'
    <2>1. \A q \in Runs : ~Busy(q) BY <1>1 DEF Fire
    <2>2. \A q \in Runs \ {r} : hook'[q] = hook[q] /\ ~Busy(q)'
      BY <1>1, <2>1, <1>t DEF Fire, Busy
    <2>3. /\ hook'[r].pc = "info" /\ hook'[r].target = t
          /\ hook'[r].text = [metrics EXCEPT ![t] = Row(metrics[t], ok, fired + 1)]
          /\ metrics' = metrics /\ fired' = fired + 1
      BY <1>1, <1>t DEF Fire
    <2>4. Row(metrics[t], ok, fired + 1) = Draft(metrics[t], ok, {}, fired + 1)
      BY <1>t, RowIsDraft
    <2>5. \A u \in Targets : metrics'[u].last < fired' BY <1>t, <2>3
    <2>6. Drafted(r)'
      <3>1. hook'[r].text = [metrics' EXCEPT ![hook'[r].target] =
              Draft(metrics'[hook'[r].target], ok, {}, fired')]
        BY <2>3, <2>4
      <3> QED BY <3>1, <2>5 DEF Drafted
    <2>7. Placed(r)' BY <2>3 DEF Placed, At
    <2> QED BY <2>2, <2>6, <2>7 DEF Orderly, Alone
  <1>2. ASSUME NEW r \in Runs, Info(r) \/ Listing(r) PROVE Orderly'
    <2>1. PICK gauges \in SUBSET Gauges, l \in {"list", "open"} :
            hook' = [hook EXCEPT ![r].pc = l, ![r].text = Found(hook[r], gauges)]
      BY <1>2 DEF Info, Listing, Gauges
    <2>2. UNCHANGED <<metrics, tmp, fired>> /\ Busy(r)
      BY <1>2 DEF Info, Listing, At, Busy
    <2>3. /\ \A q \in Runs : hook'[q].pc # "idle" => Busy(q)
          /\ \A q \in Runs \ {r} : ~Busy(q) /\ hook'[q].pc = "idle"
      BY <2>1, <2>2, <1>o, <1>t DEF Orderly, Alone, Busy
    <2>4. /\ hook'[r].pc \in {"list", "open"} /\ hook'[r].target = hook[r].target
          /\ hook'[r].text = Found(hook[r], gauges)
      BY <2>1, <1>t DEF Hooks
    <2>5. Drafted(r) BY <2>2, <1>o DEF Orderly
    <2>6. PICK ok \in BOOLEAN, found \in SUBSET Gauges :
            hook[r].text = [metrics EXCEPT ![hook[r].target] =
              Draft(metrics[hook[r].target], ok, found, fired)]
      BY <2>5 DEF Drafted
    <2>7. hook[r].target \in Targets /\ metrics \in [Targets -> Rows]
      BY <1>t DEF Hooks, Texts
    <2>8. Found(hook[r], gauges) = [metrics EXCEPT ![hook[r].target] =
            Draft(metrics[hook[r].target], ok, found \cup gauges, fired)]
      <3> DEFINE row == metrics[hook[r].target]
      <3>1. [Draft(row, ok, found, fired) EXCEPT !.gauges = @ \cup gauges]
              = Draft(row, ok, found \cup gauges, fired)
        BY DEF Draft
      <3>2. hook[r].text[hook[r].target] = Draft(row, ok, found, fired) BY <2>6, <2>7
      <3>3. Found(hook[r], gauges) = [hook[r].text EXCEPT ![hook[r].target] =
              [hook[r].text[hook[r].target] EXCEPT !.gauges = @ \cup gauges]]
        BY DEF Found
      <3>4. Found(hook[r], gauges) = [hook[r].text EXCEPT ![hook[r].target] =
              Draft(row, ok, found \cup gauges, fired)]
        BY <3>1, <3>2, <3>3
      <3> HIDE DEF row
      <3>5. [[metrics EXCEPT ![hook[r].target] = Draft(row, ok, found, fired)]
               EXCEPT ![hook[r].target] = Draft(row, ok, found \cup gauges, fired)]
            = [metrics EXCEPT ![hook[r].target] = Draft(row, ok, found \cup gauges, fired)]
        BY <2>7
      <3> QED BY <2>6, <3>4, <3>5 DEF row
    <2>9. Drafted(r)'
      <3>1. hook'[r].text = [metrics' EXCEPT ![hook'[r].target] =
              Draft(metrics'[hook'[r].target], ok, found \cup gauges, fired')]
        BY <2>2, <2>4, <2>8
      <3>2. \A u \in Targets : metrics'[u].last < fired' BY <2>2, <2>5 DEF Drafted
      <3> QED BY <3>1, <3>2 DEF Drafted
    <2>10. Placed(r)' BY <2>4 DEF Placed, At
    <2> QED BY <2>3, <2>9, <2>10 DEF Orderly, Alone, Busy
  <1>3. ASSUME NEW r \in Runs, Open(r) \/ Write(r) PROVE Orderly'
    <2>1. /\ Busy(r) /\ UNCHANGED fired
          /\ \A q \in Runs \ {r} : hook'[q] = hook[q]
          /\ hook'[r].text = hook[r].text /\ hook'[r].target = hook[r].target
      BY <1>3, <1>t DEF Open, Write, Goto, At, Busy, Hooks
    <2>2. \A q \in Runs \ {r} : ~Busy(q) /\ ~Busy(q)'
      BY <2>1, <1>o DEF Orderly, Alone, Busy
    <2>3. Drafted(r) /\ Placed(r) BY <2>1, <1>o DEF Orderly
    <2>4. CASE Open(r)
      <3>1. /\ hook'[r].pc = "write" /\ hook'[r].file = "tmp" /\ tmp' = {EmptyText}
            /\ metrics' = metrics
        BY <2>4, <1>t DEF Open, Hooks
      <3>2. Placed(r)' BY <3>1 DEF Placed, At
      <3>3. Drafted(r)' BY <2>1, <2>3, <3>1 DEF Drafted
      <3> QED BY <2>2, <3>2, <3>3 DEF Orderly, Alone
    <2>5. CASE Write(r)
      <3>1. hook[r].file = "tmp" /\ tmp = {EmptyText} BY <2>5, <2>3 DEF Write, Placed
      <3>2. PICK text \in Over(EmptyText, hook[r].text) : tmp' = {text}
        BY <2>5, <3>1 DEF Write
      <3>3. text = hook[r].text
        <4>1. hook[r].text \in Texts BY <1>t DEF Hooks
        <4> QED BY <4>1, <3>2, OverEmpty
      <3>4. metrics' = metrics /\ hook'[r].pc = "rename"
        BY <2>5, <3>1, <1>t DEF Write, Goto, Hooks
      <3>5. Placed(r)' BY <2>1, <3>2, <3>3, <3>4 DEF Placed, At
      <3>6. Drafted(r)' BY <2>1, <2>3, <3>4 DEF Drafted
      <3> QED BY <2>2, <3>5, <3>6 DEF Orderly, Alone
    <2> QED BY <1>3, <2>4, <2>5
  <1>4. ASSUME NEW r \in Runs, Rename(r) \/ RenameFails(r) \/ Die(r) PROVE Orderly'
    <2>1. Busy(r) BY <1>4 DEF Rename, RenameFails, Die, At, Busy
    <2>2. \A q \in Runs \ {r} : ~Busy(q) BY <2>1, <1>o DEF Orderly, Alone
    <2>3. \A q \in Runs : ~Busy(q)'
      <3>1. CASE Rename(r)
        <4>1. \A q \in Runs : hook'[q] = IF q = r THEN Idle ELSE AfterRename(hook[q])
          BY <3>1 DEF Rename
        <4>2. \A q \in Runs : AfterRename(hook[q]).pc = hook[q].pc
          BY <1>t DEF AfterRename, Hooks
        <4> QED BY <4>1, <4>2, <2>2, <1>i DEF Busy
      <3>2. CASE RenameFails(r) \/ Die(r)
        BY <3>2, <2>2, <1>i, <1>t DEF RenameFails, Die, Busy
      <3> QED BY <1>4, <3>1, <3>2
    <2> QED BY <2>3 DEF Orderly, Alone
  <1> QED BY <1>1, <1>2, <1>3, <1>4 DEF ExporterNext

LEMMA KeptInvHolds == ExporterSpec => []KeptInv
  <1>1. ExporterInit => KeptInv BY InitType, InitOrderly DEF KeptInv
  <1>2. KeptInv /\ [ExporterNext]_exporterVars => KeptInv'
    <2> SUFFICES ASSUME KeptInv, [ExporterNext]_exporterVars PROVE KeptInv' OBVIOUS
    <2>1. ExporterTypeOK' BY StepType DEF KeptInv
    <2>2. CASE ExporterNext BY <2>1, <2>2, StepOrderly DEF KeptInv
    <2>3. CASE UNCHANGED exporterVars
      BY <2>1, <2>3 DEF KeptInv, exporterVars, Orderly, Alone, Busy, Drafted, Placed, At
    <2> QED BY <2>2, <2>3
  <1> QED BY <1>1, <1>2, PTL DEF ExporterSpec

-----------------------------------------------------------------------------
(* The rename of an undisturbed hook is the step of the store. *)
LEMMA RenameRecords ==
  ASSUME KeptInv, ~disturbed, NEW r \in Runs, Rename(r)
  PROVE  \E t \in Targets, ok \in BOOLEAN : Store!Record(t, ok)
  <1>1. Busy(r) /\ At(r, "rename") BY DEF Rename, At, Busy
  <1>2. Drafted(r) /\ Placed(r) BY <1>1 DEF KeptInv, Orderly
  <1>3. metrics' = hook[r].text BY <1>1, <1>2 DEF Rename, Placed
  <1>4. PICK ok \in BOOLEAN, found \in SUBSET Gauges :
          hook[r].text = [metrics EXCEPT ![hook[r].target] =
            Draft(metrics[hook[r].target], ok, found, fired)]
    BY <1>2 DEF Drafted
  <1>5. hook[r].target \in Targets /\ metrics \in [Targets -> Rows] /\ fired \in 0..MaxHooks
    BY DEF KeptInv, ExporterTypeOK, Texts
  <1>6. fired \in 1..MaxHooks
    <2>1. metrics[hook[r].target].last < fired BY <1>2, <1>5 DEF Drafted
    <2>2. metrics[hook[r].target].last \in 0..fired BY <1>5 DEF Rows
    <2> QED BY <2>1, <2>2, <1>5, ExporterAssumption
  <1>7. metrics' = [metrics EXCEPT ![hook[r].target] =
          [runs |-> @.runs + 1,
           successes |-> @.successes + (IF ok THEN 1 ELSE 0),
           failures |-> @.failures + (IF ok THEN 0 ELSE 1),
           last |-> IF ok THEN fired ELSE @.last,
           gauges |-> found]]
    BY <1>3, <1>4, <1>5 DEF Draft
  <1>8. \A u \in Targets : metrics[u].last < fired BY <1>2 DEF Drafted
  <1>9. Store!Record(hook[r].target, ok) BY <1>6, <1>7, <1>8 DEF Store!Record
  <1> QED BY <1>5, <1>9

(* Every step of the exporter is one of the store, or leaves it alone. *)
LEMMA StepMaps ==
  ASSUME KeptInv, [ExporterNext]_exporterVars
  PROVE  [Store!Next]_<<metrics, disturbed>>
  <1>1. CASE disturbed'
    BY <1>1 DEF KeptInv, ExporterTypeOK, Store!Next, Store!Disturbed
  <1>2. CASE UNCHANGED exporterVars BY <1>2 DEF exporterVars
  <1>3. CASE ~disturbed' /\ ExporterNext
    <2>1. ~disturbed /\ UNCHANGED disturbed
      <3>1. ~disturbed
        BY <1>3 DEF ExporterNext, Fire, Info, Listing, Open, Write, Rename, RenameFails, Die
      <3>2. disturbed \in BOOLEAN /\ disturbed' \in BOOLEAN
        BY StepType DEF KeptInv, ExporterTypeOK
      <3> QED BY <1>3, <3>1, <3>2
    <2>2. ASSUME NEW r \in Runs, Rename(r) PROVE Store!Next
      BY <2>1, <2>2, RenameRecords DEF Store!Next, Store!Undisturbed
    <2>3. ASSUME NEW r \in Runs, Write(r) PROVE UNCHANGED metrics
      <3>1. hook[r].file = "tmp"
        BY <2>1, <2>3 DEF KeptInv, Orderly, Placed, Write, Busy, At
      <3> QED BY <2>3, <3>1 DEF Write
    <2>4. ASSUME NEW r \in Runs,
                 \/ \E t \in Targets, ok \in BOOLEAN : Fire(r, t, ok)
                 \/ Info(r) \/ Listing(r) \/ Open(r) \/ RenameFails(r) \/ Die(r)
          PROVE  UNCHANGED metrics
      BY <2>4 DEF Fire, Info, Listing, Open, RenameFails, Die
    <2> QED BY <1>3, <2>1, <2>2, <2>3, <2>4 DEF ExporterNext
  <1> QED BY <1>1, <1>2, <1>3

(* The exporter is the store of MetricsStore: until two hooks overlap, the metrics
   file changes only by the whole row of one target at a time, whatever lookup fails
   and wherever a hook is killed (exporter.py:4-5). *)
THEOREM ExporterKeepsStore == ExporterSpec => StoreIsKept
  <1>1. ExporterInit => Store!Init
    BY DEF ExporterInit, Store!Init, EmptyText, NoRow, Store!NoRow
  <1>2. KeptInv /\ [ExporterNext]_exporterVars => [Store!Next]_<<metrics, disturbed>>
    BY StepMaps
  <1> QED BY <1>1, <1>2, KeptInvHolds, PTL DEF ExporterSpec, StoreIsKept, Store!Spec
=============================================================================
