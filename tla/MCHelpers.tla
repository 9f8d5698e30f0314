----------------------------- MODULE MCHelpers ------------------------------
(* Values of the constants of Helpers for TLC. *)
EXTENDS Helpers

(* Rules: two keywords; a mail with every mixture of them, or one of each domain. *)
List(ks) == [form |-> "list", list |-> ks]
Object(f) == [form |-> "object", object |-> f]
MCFilters == {NoFilter, [form |-> "broken"], List({Blank}), List({"k", "l"}),
  Object(<<>>), Object("subject" :> {Blank}), Object("body" :> {"l"}),
  Object("body_words" :> {"k"}), Object("subject" :> {"k"} @@ "body" :> {"l"}),
  Object("body" :> {Blank} @@ "body_words" :> {"k"}),
  Object("body" :> {"l"} @@ "body_words" :> {"k"}),
  Object("subject_words" :> {"k", "l"} @@ "body_words" :> {"k"})}
MCTexts == {o \in [{"k", "l"} -> {"absent", "inside", "word"}] : o["l"] # "inside"}
MCMails == {[sender |-> "same", subject |-> s, body |-> b] : s, b \in MCTexts}
  \cup {[sender |-> d, subject |-> NoText, body |-> NoText] : d \in Domains}

Always == [include |-> NoFilter, exclude |-> NoFilter]
Simple == [enabled |-> TRUE, senders |-> {"domain"},
           include |-> NoFilter, exclude |-> NoFilter, action |-> Always]
MCRawRules ==
       {[Simple EXCEPT !.include = i, !.exclude = e] : i, e \in MCFilters}
  \cup {[Simple EXCEPT !.action = [include |-> i, exclude |-> e]] : i, e \in MCFilters}
  \cup {[Simple EXCEPT !.enabled = b, !.senders = s] :
          b \in BOOLEAN, s \in SUBSET SenderPatterns}

(* Validate: a manager with a label and a worker without; two stacks. *)
Node(h, type, role) ==
  [hostname |-> h,
   fields |-> "node.labels.type" :> type @@ "node.role" :> role
              @@ "node.hostname" :> h @@ "node.platform.os" :> "linux"]
MCNodes == <<Node("n1", "vm", "manager"), Node("n2", "", "worker")>>

Constraint(field, op, value) == [field |-> field, op |-> op, value |-> value, glued |-> FALSE]
OnVm == Constraint("node.labels.type", "==", "vm")
NotVm == Constraint("node.labels.type", "!=", "vm")
Worker == Constraint("node.role", "==", "worker")
Linux == Constraint("node.platform.os", "==", "linux")
Service(binds, constraints) == [binds |-> binds, constraints |-> constraints]

Good == [renders |-> TRUE, accepted |-> TRUE, configs |-> {"c"}, onDisk |-> {"c"},
         mentions |-> {"s"}, secrets |-> {[source |-> "db", target |-> "s"]},
         services |-> {Service({1, 2}, {OnVm}), Service({2}, {NotVm})}]
MCCheckouts ==
  {"a" :> d @@ "b" :> e :
     d \in {Good, [Good EXCEPT !.services = {Service({1}, {Linux}),
                                             Service({2}, {[NotVm EXCEPT !.glued = TRUE]})}]},
     e \in {Good, [Good EXCEPT !.services = {Service({1}, {Worker})}],
            [Good EXCEPT !.services = {Service({2}, {NotVm, OnVm})}],
            [Good EXCEPT !.secrets = {[source |-> "db", target |-> ""]}],
            [Good EXCEPT !.onDisk = {}], [Good EXCEPT !.renders = FALSE]}}
MCRequests == {<<>>, <<"a">>, <<"a", "b">>, <<"b", "a">>, <<"a", "a">>}
MCDisks == {[h \in Hosts |-> ps] : ps \in {{}, {1}, Paths}}
=============================================================================
