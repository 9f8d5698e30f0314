---------------------------- MODULE RulesProofs -----------------------------
(***************************************************************************)
(* Rules match what they say, for any rules, mails and keywords.  The      *)
(* operators of the code are compared with the text of a filter one after  *)
(* the other; the invariant Computed only says that a verdict is what they *)
(* compute.                                                                *)
(***************************************************************************)
EXTENDS Rules, TLAPS

\* What the code makes of a written filter.
Loaded(f) == Normalize(LoadFilter(f))

\* A filter that the code does not refuse.
Sound(f) == f \in RawFilters /\ f.form # "broken"

\* Loading and normalizing a filter keep its keywords, each under its key.
LEMMA KeywordsAreKept ==
  ASSUME NEW f, Sound(f)
  PROVE  /\ DOMAIN Loaded(f) \subseteq Keys
         /\ \A key \in DOMAIN Loaded(f) : Loaded(f)[key] \subseteq Keywords
         /\ Written(f) = UNION {{key} \X Loaded(f)[key] : key \in DOMAIN Loaded(f)}
<1>1. CASE f.form = "none"
  <2>1. Loaded(f) = [k \in {} |-> {}] /\ DOMAIN Loaded(f) = {}
    BY <1>1 DEF Loaded, Normalize, LoadFilter
  <2>2. Written(f) = {}
    BY <1>1 DEF Written
  <2> QED BY <2>1, <2>2
<1>2. CASE f.form = "list"
  <2> DEFINE s == Stripped(f.list)
  <2>1. s \subseteq Keywords
    BY <1>2 DEF Sound, RawFilters, Stripped
  <2>2. Written(f) = {"subject"} \X s
    BY <1>2 DEF Written
  <2>3. LoadFilter(f) = [form |-> "list", list |-> s]
    BY <1>2 DEF LoadFilter
  <2>4. Loaded(f) = [k \in {x \in {"subject"} : s # {}} |-> s]
    BY <2>3 DEF Loaded, Normalize
  <2> HIDE DEF s
  <2>5. CASE s = {}
    <3>1. DOMAIN Loaded(f) = {}
      BY <2>4, <2>5
    <3> QED BY <3>1, <2>2, <2>5
  <2>6. CASE s # {}
    <3>1. DOMAIN Loaded(f) = {"subject"} /\ Loaded(f)["subject"] = s
      BY <2>4, <2>6
    <3> QED BY <3>1, <2>1, <2>2 DEF Keys
  <2> QED BY <2>5, <2>6
<1>3. CASE f.form = "object"
  <2>1. f.object \in RawObjects
    BY <1>3 DEF Sound, RawFilters
  <2>2. PICK ks \in SUBSET Keys : f.object \in [ks -> SUBSET (Keywords \cup {Blank})]
    BY <2>1 DEF RawObjects
  <2>3. DOMAIN f.object = ks
    BY <2>2
  <2>4. Loaded(f) = [k \in ks |-> Stripped(f.object[k])]
    BY <1>3, <2>3 DEF Loaded, Normalize, LoadFilter
  <2>5. DOMAIN Loaded(f) = ks /\ \A key \in ks : Loaded(f)[key] = Stripped(f.object[key])
    BY <2>4
  <2>6. Written(f) = UNION {{key} \X Stripped(f.object[key]) : key \in ks}
    BY <1>3, <2>3 DEF Written
  <2>7. Written(f) = UNION {{key} \X Loaded(f)[key] : key \in ks}
    BY <2>5, <2>6
  <2>8. \A key \in ks : Stripped(f.object[key]) \subseteq Keywords
    BY <2>2 DEF Stripped
  <2> QED BY <2>2, <2>5, <2>7, <2>8
<1> QED BY <1>1, <1>2, <1>3 DEF Sound, RawFilters

\* The keywords the code looks up under a key are those written with that key.
LEMMA GetIsWritten ==
  ASSUME NEW f, Sound(f)
  PROVE  /\ \A key, k : <<key, k>> \in Written(f) <=> k \in Get(Loaded(f), key)
         /\ \A w \in Written(f) : w = <<w[1], w[2]>> /\ w[1] \in Keys /\ w[2] \in Keywords
         /\ \A key : Get(Loaded(f), key) \subseteq Keywords
<1>1. Written(f) = UNION {{key} \X Loaded(f)[key] : key \in DOMAIN Loaded(f)}
  BY KeywordsAreKept
<1>2. \A key, k : <<key, k>> \in Written(f) <=> key \in DOMAIN Loaded(f) /\ k \in Loaded(f)[key]
  BY <1>1
<1>3. \A w \in Written(f) : w = <<w[1], w[2]>>
  BY <1>1
<1> QED BY <1>2, <1>3, KeywordsAreKept DEF Get

\* An occurrence of any written keyword is what check_keywords looks for.
LEMMA CheckMeansOccurs ==
  ASSUME NEW f, Sound(f), NEW m
  PROVE  CheckKeywords(m.subject, m.body, Loaded(f)) <=> SomeOccurs(m, f)
<1> DEFINE g(key) == Get(Loaded(f), key)
<1>1. SomeOccurs(m, f) <=> \E key \in Keys, k \in Keywords : k \in g(key) /\ Occurs(m, <<key, k>>)
  <2>1. ASSUME NEW w \in Written(f), Occurs(m, w)
        PROVE  \E key \in Keys, k \in Keywords : k \in g(key) /\ Occurs(m, <<key, k>>)
    BY <2>1, GetIsWritten
  <2>2. ASSUME NEW key \in Keys, NEW k \in Keywords, k \in g(key), Occurs(m, <<key, k>>)
        PROVE  \E w \in Written(f) : Occurs(m, w)
    BY <2>2, GetIsWritten
  <2> QED BY <2>1, <2>2 DEF SomeOccurs
<1>2. \A k : /\ Occurs(m, <<"subject", k>>) <=> m.subject[k] # "absent"
             /\ Occurs(m, <<"body", k>>) <=> m.body[k] # "absent"
             /\ Occurs(m, <<"subject_words", k>>) <=> m.subject[k] = "word"
             /\ Occurs(m, <<"body_words", k>>) <=> m.body[k] = "word"
  BY DEF Occurs
<1>3. \A key : g(key) \subseteq Keywords
  BY GetIsWritten
<1>4. SomeOccurs(m, f) <=>
        \/ \E k \in g("subject") : Occurs(m, <<"subject", k>>)
        \/ \E k \in g("body") : Occurs(m, <<"body", k>>)
        \/ \E k \in g("subject_words") : Occurs(m, <<"subject_words", k>>)
        \/ \E k \in g("body_words") : Occurs(m, <<"body_words", k>>)
  BY <1>1, <1>3 DEF Keys
<1> QED BY <1>2, <1>4 DEF CheckKeywords

-----------------------------------------------------------------------------
\* An empty filter is one without keys; it is loaded from a filter without keywords,
\* and unless its keys are hollow every filter without keywords loads as empty.
LEMMA EmptyMeansUnwritten ==
  ASSUME NEW f, Sound(f)
  PROVE  /\ Empty(Loaded(f)) => Written(f) = {}
         /\ ~Hollow(f) /\ Written(f) = {} => Empty(Loaded(f))
<1>1. Empty(Loaded(f)) => Written(f) = {}
  BY KeywordsAreKept DEF Empty
<1>2. ASSUME ~Hollow(f), Written(f) = {}
      PROVE  Empty(Loaded(f))
  <2>1. CASE f.form = "none"
    BY <2>1 DEF Loaded, Normalize, LoadFilter, Empty
  <2>2. CASE f.form = "list"
    <3>1. Written(f) = {"subject"} \X Stripped(f.list)
      BY <2>2 DEF Written
    <3>2. Stripped(f.list) = {}
      <4>1. ASSUME NEW k \in Stripped(f.list)
            PROVE  <<"subject", k>> \in {"subject"} \X Stripped(f.list)
        OBVIOUS
      <4> QED BY <4>1, <3>1, <1>2
    <3>3. LoadFilter(f) = [form |-> "list", list |-> {}]
      BY <2>2, <3>2 DEF LoadFilter
    <3> QED BY <3>3 DEF Loaded, Normalize, Empty
  <2>3. CASE f.form = "object"
    <3>1. DOMAIN f.object = {}
      BY <2>3, <1>2 DEF Hollow
    <3>2. LoadFilter(f) = [form |-> "object", object |-> [k \in {} |-> Stripped(f.object[k])]]
      BY <2>3, <3>1 DEF LoadFilter
    <3> QED BY <3>2 DEF Loaded, Normalize, Empty
  <2> QED BY <2>1, <2>2, <2>3 DEF Sound, RawFilters
<1> QED BY <1>1, <1>2

\* A filter that is not blind is checked as if its body had been read.
LEMMA BodyIsReadWhenNeeded ==
  ASSUME NEW f, Sound(f), ~Blind(f), NEW m
  PROVE  CheckKeywords(m.subject, CurrentBody(m, Loaded(f)), Loaded(f))
           <=> CheckKeywords(m.subject, m.body, Loaded(f))
<1>1. CASE NeedsBody(Loaded(f))
  BY <1>1 DEF CurrentBody
<1>2. CASE ~NeedsBody(Loaded(f))
  <2>1. Get(Loaded(f), "body") = {}
    BY <1>2 DEF NeedsBody
  <2>2. ~HasKey(f, "body")
    <3>1. ASSUME NEW w \in Written(f), w[1] = "body"
          PROVE  FALSE
      BY <3>1, <2>1, GetIsWritten
    <3> QED BY <3>1 DEF HasKey
  <2>3. ~HasKey(f, "body_words")
    BY <2>2 DEF Blind
  <2>4. Get(Loaded(f), "body_words") = {}
    <3>1. ASSUME NEW k \in Get(Loaded(f), "body_words")
          PROVE  FALSE
      <4>1. <<"body_words", k>> \in Written(f)
        BY GetIsWritten
      <4> QED BY <4>1, <2>3 DEF HasKey
    <3> QED BY <3>1
  <2> QED BY <2>1, <2>4 DEF CheckKeywords
<1> QED BY <1>1, <1>2

\* An include lets a mail pass exactly if it has no keyword or one that occurs.
LEMMA PassMeansOccurs ==
  ASSUME NEW f, Sound(f), ~Hollow(f), NEW m
  PROVE  Passes(m.subject, m.body, Loaded(f)) <=> (Written(f) = {} \/ SomeOccurs(m, f))
BY CheckMeansOccurs, EmptyMeansUnwritten DEF Passes

\* An exclude stops a mail exactly if one of its keywords occurs.
LEMMA StopMeansOccurs ==
  ASSUME NEW f, Sound(f), NEW m
  PROVE  ~Empty(Loaded(f)) /\ CheckKeywords(m.subject, m.body, Loaded(f)) <=> SomeOccurs(m, f)
BY CheckMeansOccurs, EmptyMeansUnwritten DEF SomeOccurs

\* A pattern matches the senders it is documented to match.
LEMMA SendersMean ==
  ASSUME NEW domain \in Domains, NEW pattern \in SenderPatterns
  PROVE  MatchSender(domain, pattern) <=> domain \in PatternMeans(pattern)
<1>1. CASE pattern \in {"exact", "domain"}
  <2>1. MatchSender(domain, pattern) <=> domain = "same"
    BY <1>1 DEF MatchSender
  <2> QED BY <1>1, <2>1 DEF PatternMeans
<1>2. CASE pattern \in {"subdomains", "shorthand"}
  <2>1. MatchSender(domain, pattern) <=> domain = "sub"
    BY <1>2 DEF MatchSender
  <2> QED BY <1>2, <2>1 DEF PatternMeans
<1> QED BY <1>1, <1>2 DEF SenderPatterns

-----------------------------------------------------------------------------
\* Loading a rule keeps all but its filters.
LEMMA LoadedRule ==
  ASSUME NEW r \in RawRules
  PROVE  /\ LoadRule(r).enabled = r.enabled /\ LoadRule(r).senders = r.senders
         /\ LoadRule(r).include = LoadFilter(r.include)
         /\ LoadRule(r).exclude = LoadFilter(r.exclude)
         /\ LoadRule(r).action.include = LoadFilter(r.action.include)
         /\ LoadRule(r).action.exclude = LoadFilter(r.action.exclude)
BY RulesAssumption DEF LoadRule, ActionFilters

\* A rule that is not refused has filters that are well formed.
LEMMA FiltersAreSound ==
  ASSUME NEW r \in RawRules, ~Refused(r)
  PROVE  \A f \in Filters(r) : Sound(f)
BY RulesAssumption DEF Refused, Filters, Sound, ActionFilters

\* Deciding about a loaded rule is reading the rule as it was written.
LEMMA MatchIsMeant ==
  ASSUME NEW r \in RawRules, ~Refused(r), NEW m \in Mails,
         ~Blind(r.include), ~Blind(r.exclude), ~Hollow(r.include)
  PROVE  SenderMatched(m, LoadRule(r)) /\ Included(m, LoadRule(r)) /\ ~Excluded(m, LoadRule(r))
           <=> MeansMatch(m, r)
<1>1. Sound(r.include) /\ Sound(r.exclude)
  BY FiltersAreSound DEF Filters
<1>2. SenderMatched(m, LoadRule(r)) <=> r.enabled /\ \E p \in r.senders : m.sender \in PatternMeans(p)
  <2>1. m.sender \in Domains /\ r.senders \subseteq SenderPatterns
    BY RulesAssumption
  <2> QED BY <2>1, SendersMean, LoadedRule DEF SenderMatched
<1>3. Included(m, LoadRule(r)) <=> (Written(r.include) = {} \/ SomeOccurs(m, r.include))
  <2>1. Included(m, LoadRule(r)) <=>
          Passes(m.subject, CurrentBody(m, Loaded(r.include)), Loaded(r.include))
    BY LoadedRule DEF Included, Loaded
  <2>2. Passes(m.subject, CurrentBody(m, Loaded(r.include)), Loaded(r.include))
          <=> Passes(m.subject, m.body, Loaded(r.include))
    BY <1>1, BodyIsReadWhenNeeded DEF Passes
  <2> QED BY <1>1, <2>1, <2>2, PassMeansOccurs
<1>4. Excluded(m, LoadRule(r)) <=> SomeOccurs(m, r.exclude)
  <2>1. Excluded(m, LoadRule(r)) <=>
          ~Empty(Loaded(r.exclude))
            /\ CheckKeywords(m.subject, CurrentBody(m, Loaded(r.exclude)), Loaded(r.exclude))
    BY LoadedRule DEF Excluded, Loaded
  <2> QED BY <1>1, <2>1, BodyIsReadWhenNeeded, StopMeansOccurs
<1> QED BY <1>2, <1>3, <1>4 DEF MeansMatch, MeansPass

\* The same for an action of the rule.
LEMMA FilterIsMeant ==
  ASSUME NEW r \in RawRules, ~Refused(r), NEW m, ~Hollow(r.action.include)
  PROVE  ActionPasses(m, LoadRule(r).action) <=> MeansPass(m, r.action.include, r.action.exclude)
<1>1. Sound(r.action.include) /\ Sound(r.action.exclude)
  BY FiltersAreSound DEF Filters
<1>2. ActionPasses(m, LoadRule(r).action) <=>
        /\ Passes(m.subject, m.body, Loaded(r.action.include))
        /\ ~(~Empty(Loaded(r.action.exclude))
              /\ CheckKeywords(m.subject, m.body, Loaded(r.action.exclude)))
  BY LoadedRule DEF ActionPasses, Loaded
<1> QED BY <1>1, <1>2, PassMeansOccurs, StopMeansOccurs DEF MeansPass

-----------------------------------------------------------------------------
\* A verdict is what the code computes of the loaded rule, which it made of one it
\* did not refuse.
LoadedIsRule ==
  verdict \in {"waiting", "refused"} \/
    (rule \in RawRules /\ ~Refused(rule) /\ loaded = LoadRule(rule))

VerdictIsComputed ==
  Decided =>
    /\ mail \in Mails
    /\ (verdict # "unmatched") <=>
         SenderMatched(mail, loaded) /\ Included(mail, loaded) /\ ~Excluded(mail, loaded)
    /\ verdict \in {"acts", "filtered"} =>
         ((verdict = "acts") <=> ActionPasses(mail, loaded.action))

Computed == RulesTypeOK /\ LoadedIsRule /\ VerdictIsComputed

\* The invariant holds before a config is loaded.
LEMMA RulesInitComputed == RulesInit => Computed
BY DEF RulesInit, Computed, RulesTypeOK, LoadedIsRule, VerdictIsComputed, Decided

\* Every step keeps it.
LEMMA RulesStepComputed == Computed /\ [RulesNext]_rulesVars => Computed'
<1> SUFFICES ASSUME Computed, [RulesNext]_rulesVars
             PROVE  Computed'
  OBVIOUS
<1> USE DEF Computed, RulesTypeOK, LoadedIsRule, VerdictIsComputed, Decided
<1>1. CASE LoadConfig
  BY <1>1 DEF LoadConfig
<1>2. CASE MatchRule
  BY <1>2 DEF MatchRule
<1>3. CASE FilterAction
  BY <1>3 DEF FilterAction
<1>4. CASE NextMail
  BY <1>4 DEF NextMail
<1>5. CASE UNCHANGED rulesVars
  BY <1>5 DEF rulesVars
<1> QED BY <1>1, <1>2, <1>3, <1>4, <1>5 DEF RulesNext

\* Every variable keeps its type, and loaded stays what load_config made of the rule.
THEOREM RulesTypeCorrect == RulesSpec => []RulesTypeOK
<1>1. Computed => RulesTypeOK
  BY DEF Computed
<1> QED BY <1>1, RulesInitComputed, RulesStepComputed, PTL DEF RulesSpec

\* Rules match, and filters pass, exactly the mails their text says, for any set of
\* rules, keywords and mails (get_matching_rules, _check_action_filter).
THEOREM RulesMatchAsWritten == RulesSpec => []RulesMeanTheirText
<1>1. ASSUME Computed
      PROVE  RulesMeanTheirText
  <2>1. CASE ~Decided
    BY <2>1 DEF RulesMeanTheirText, Decided
  <2>2. CASE Decided
    <3>1. rule \in RawRules /\ ~Refused(rule) /\ loaded = LoadRule(rule)
      BY <1>1, <2>2 DEF Computed, LoadedIsRule, Decided
    <3>2. mail \in Mails
      BY <1>1, <2>2 DEF Computed, VerdictIsComputed
    <3>3. ASSUME ~Blind(rule.include), ~Blind(rule.exclude), ~Hollow(rule.include)
          PROVE  (verdict # "unmatched") <=> MeansMatch(mail, rule)
      BY <1>1, <2>2, <3>1, <3>2, <3>3, MatchIsMeant DEF Computed, VerdictIsComputed
    <3>4. ASSUME verdict \in {"acts", "filtered"}, ~Hollow(rule.action.include)
          PROVE  (verdict = "acts")
                   <=> MeansPass(mail, rule.action.include, rule.action.exclude)
      BY <1>1, <2>2, <3>1, <3>4, FilterIsMeant DEF Computed, VerdictIsComputed
    <3> QED BY <3>3, <3>4 DEF RulesMeanTheirText
  <2> QED BY <2>1, <2>2
<1> QED BY <1>1, RulesInitComputed, RulesStepComputed, PTL DEF RulesSpec
=============================================================================
