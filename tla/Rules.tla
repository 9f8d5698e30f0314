------------------------------- MODULE Rules --------------------------------
(***************************************************************************)
(* Which rules of the mail forwarder a mail matches, and which of their    *)
(* actions it passes: load_config of config.py, the filters of matching.py *)
(* and get_matching_rules and _check_action_filter of processing.py.       *)
(*                                                                         *)
(* A keyword is absent from a text, inside a word of it, or a word of it.  *)
(* A filter is written as a list, or as an object with some of four keys.  *)
(***************************************************************************)
EXTENDS Naturals

CONSTANTS
  Keywords,
  Blank,     \* a keyword of nothing but spaces
  Mails,     \* records of the domain of the sender, and two texts
  RawRules   \* rules as they are written in the config file

Keys == {"subject", "body", "subject_words", "body_words"}
Occurrences == [Keywords -> {"absent", "inside", "word"}]
NoText == [k \in Keywords |-> "absent"]

\* Filters as written; "broken" stands for one that is refused: a wrong type, or an
\* unknown key.
RawObjects == UNION {[ks -> SUBSET (Keywords \cup {Blank})] : ks \in SUBSET Keys}
RawFilters ==
       [form : {"none", "broken"}]
  \cup [form : {"list"}, list : SUBSET (Keywords \cup {Blank})]
  \cup [form : {"object"}, object : RawObjects]

SenderPatterns == {"exact", "domain", "subdomains", "shorthand"}
Domains == {"same", "sub", "other"}

ActionFilters == [include : RawFilters, exclude : RawFilters]

ASSUME RulesAssumption ==
  /\ Blank \notin Keywords
  /\ Mails \subseteq [sender : Domains, subject : Occurrences, body : Occurrences]
  /\ RawRules \subseteq [enabled : BOOLEAN, senders : SUBSET SenderPatterns,
                         include : RawFilters, exclude : RawFilters, action : ActionFilters]

VARIABLES
  mail,      \* the mail that is looked at
  rule,      \* the rule as it is written
  loaded,    \* what load_config made of it
  verdict    \* what became of the mail under the rule

rulesVars == <<mail, rule, loaded, verdict>>

NoMail == [sender |-> "other", subject |-> NoText, body |-> NoText]
NoFilter == [form |-> "none"]
NoRule == [enabled |-> FALSE, senders |-> {}, include |-> NoFilter, exclude |-> NoFilter,
           action |-> [include |-> NoFilter, exclude |-> NoFilter]]

RulesInit ==
  /\ mail = NoMail /\ rule = NoRule /\ loaded = NoRule
  /\ verdict = "waiting"

-----------------------------------------------------------------------------
(* config.py *)

Stripped(kws) == kws \ {Blank}

\* _validate_keyword_filter
LoadFilter(raw) ==
  CASE raw.form = "none" -> [form |-> "list", list |-> {}]
    [] raw.form = "list" -> [form |-> "list", list |-> Stripped(raw.list)]
    [] OTHER -> [form |-> "object",
                 object |-> [k \in DOMAIN raw.object |-> Stripped(raw.object[k])]]

Filters(r) == {r.include, r.exclude, r.action.include, r.action.exclude}
Refused(r) == r.senders = {} \/ \E f \in Filters(r) : f.form = "broken"

LoadRule(r) ==
  [r EXCEPT !.include = LoadFilter(@), !.exclude = LoadFilter(@),
            !.action.include = LoadFilter(@), !.action.exclude = LoadFilter(@)]

-----------------------------------------------------------------------------
(* matching.py *)

\* match_sender_pattern; the address of "exact" is one of the domain "same".
MatchSender(domain, pattern) ==
  CASE pattern \in {"exact", "domain"} -> domain = "same"
    [] pattern \in {"subdomains", "shorthand"} -> domain = "sub"

\* normalize_keyword_filter: an object, without keys if there is no filter.
Normalize(filter) ==
  IF filter.form = "object" THEN filter.object
  ELSE [k \in {x \in {"subject"} : filter.list # {}} |-> filter.list]

Get(filter, key) == IF key \in DOMAIN filter THEN filter[key] ELSE {}
Empty(filter) == DOMAIN filter = {}

\* As if keywords were looked up as substrings under every key.
CheckKeywords_Substring(subject, body, filter) ==
  \/ \E k \in Get(filter, "subject") \cup Get(filter, "subject_words") : subject[k] # "absent"
  \/ \E k \in Get(filter, "body") \cup Get(filter, "body_words") : body[k] # "absent"

\* check_keywords
CheckKeywords(subject, body, filter) ==
  \/ \E k \in Get(filter, "subject") : subject[k] # "absent"
  \/ \E k \in Get(filter, "body") : body[k] # "absent"
  \/ \E k \in Get(filter, "subject_words") : subject[k] = "word"
  \/ \E k \in Get(filter, "body_words") : body[k] = "word"

-----------------------------------------------------------------------------
(* processing.py *)

\* The key body alone decides whether the body is read.
NeedsBody(filter) == Get(filter, "body") # {}
CurrentBody(m, filter) == IF NeedsBody(filter) THEN m.body ELSE NoText

Passes(subject, body, filter) == Empty(filter) \/ CheckKeywords(subject, body, filter)

Included(m, r) ==
  LET f == Normalize(r.include) IN Passes(m.subject, CurrentBody(m, f), f)
Excluded(m, r) ==
  LET f == Normalize(r.exclude) IN ~Empty(f) /\ CheckKeywords(m.subject, CurrentBody(m, f), f)

SenderMatched(m, r) == r.enabled /\ \E p \in r.senders : MatchSender(m.sender, p)

\* _check_action_filter, with the real body.
ActionPasses(m, action) ==
  LET inc == Normalize(action.include)
      exc == Normalize(action.exclude)
  IN /\ Passes(m.subject, m.body, inc)
     /\ ~(~Empty(exc) /\ CheckKeywords(m.subject, m.body, exc))

\* The container starts: a config with a refused rule stops it.
LoadConfig ==
  /\ verdict = "waiting"
  /\ \E r \in RawRules :
       /\ rule' = r
       /\ IF Refused(r) THEN verdict' = "refused" /\ UNCHANGED loaded
                        ELSE verdict' = "loaded" /\ loaded' = LoadRule(r)
  /\ UNCHANGED mail

\* One round of the loop of get_matching_rules.
MatchRule ==
  /\ verdict = "loaded"
  /\ \E m \in Mails :
       /\ mail' = m
       /\ verdict' = IF SenderMatched(m, loaded) /\ Included(m, loaded) /\ ~Excluded(m, loaded)
                     THEN "matched" ELSE "unmatched"
  /\ UNCHANGED <<rule, loaded>>

\* process_emails on an action of a matching rule.
FilterAction ==
  /\ verdict = "matched"
  /\ verdict' = IF ActionPasses(mail, loaded.action) THEN "acts" ELSE "filtered"
  /\ UNCHANGED <<mail, rule, loaded>>

\* The next mail, under the same rules.
NextMail ==
  /\ verdict \in {"unmatched", "acts", "filtered"}
  /\ mail' = NoMail /\ verdict' = "loaded"
  /\ UNCHANGED <<rule, loaded>>

RulesNext == LoadConfig \/ MatchRule \/ FilterAction \/ NextMail

RulesSpec == RulesInit /\ [][RulesNext]_rulesVars

-----------------------------------------------------------------------------
(* What the documentation says of a rule, read off the rule as it is written. *)

\* The keywords of a written filter, each with its key.
Written(raw) ==
  CASE raw.form = "list" -> {"subject"} \X Stripped(raw.list)
    [] raw.form = "object" ->
         UNION {{key} \X Stripped(raw.object[key]) : key \in DOMAIN raw.object}
    [] OTHER -> {}

Occurs(m, w) ==
  LET found == IF w[1] \in {"subject", "subject_words"} THEN m.subject[w[2]] ELSE m.body[w[2]]
  IN found # "absent" /\ (w[1] \in {"subject", "body"} \/ found = "word")

SomeOccurs(m, raw) == \E w \in Written(raw) : Occurs(m, w)

PatternMeans(pattern) ==
  [exact |-> {"same"}, domain |-> {"same"}, subdomains |-> {"sub"}, shorthand |-> {"sub"}][pattern]

\* The text of a filter pair: any included keyword, no excluded one, and an empty
\* include lets every mail pass.
MeansPass(m, include, exclude) ==
  (Written(include) = {} \/ SomeOccurs(m, include)) /\ ~SomeOccurs(m, exclude)

MeansMatch(m, r) ==
  /\ r.enabled /\ \E p \in r.senders : m.sender \in PatternMeans(p)
  /\ MeansPass(m, r.include, r.exclude)

\* Filters the code reads differently: words of a body that nothing else makes it
\* read, and an include whose keys hold no keyword.
HasKey(raw, key) == \E w \in Written(raw) : w[1] = key
Blind(raw) == HasKey(raw, "body_words") /\ ~HasKey(raw, "body")
Hollow(raw) == raw.form = "object" /\ DOMAIN raw.object # {} /\ Written(raw) = {}

RulesTypeOK ==
  /\ (mail = NoMail \/ mail \in Mails) /\ (rule = NoRule \/ rule \in RawRules)
  /\ loaded = IF verdict \in {"waiting", "refused"} THEN NoRule ELSE LoadRule(rule)
  /\ verdict \in {"waiting", "refused", "loaded", "matched", "unmatched", "acts", "filtered"}

Decided == verdict \in {"matched", "unmatched", "acts", "filtered"}

\* A rule matches exactly the mails its text says, and its action is taken for
\* exactly those its filter says (the five points of get_matching_rules), whatever
\* form the filters are written in and whenever the body is read, but for filters
\* with body_words alone and for an include without keywords.
RulesMeanTheirText ==
  /\ Decided /\ ~Blind(rule.include) /\ ~Blind(rule.exclude) /\ ~Hollow(rule.include) =>
       ((verdict # "unmatched") <=> MeansMatch(mail, rule))
  /\ verdict \in {"acts", "filtered"} /\ ~Hollow(rule.action.include) =>
       ((verdict = "acts") <=> MeansPass(mail, rule.action.include, rule.action.exclude))

\* The same without the exception for body_words: "at least one keyword must match
\* in subject/body", "NO keyword can match in subject/body" (processing.py:46-47).
KeywordsCountEverywhere ==
  Decided /\ ~Hollow(rule.include) => ((verdict # "unmatched") <=> MeansMatch(mail, rule))
=============================================================================
