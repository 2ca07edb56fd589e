-------------------------- MODULE RuleFilterProofs --------------------------
(* Theorems about RuleFilter for every number of calls, every content of the *)
(* two tables, every life of the cache and every time a load takes.          *)
EXTENDS RuleFilter, TLAPS

USE RuleAssumption

(* What a call changes of itself, and a call that is over.                   *)
LEMMA IdleType == Idle \in Call
  BY DEF Idle, Call, Queries, Ticks, Versions

LEMMA BuildRulesType ==
  ASSUME NEW D \in SUBSET DomainRows, NEW K \in SUBSET KeywordRows
  PROVE  BuildRules(D, K) \in Rules
  BY DEF BuildRules, Rules, GlobalDomains, UserDomains, Names

LEMMA FilterType ==
  ASSUME NEW rules, NEW m PROVE Filter(rules, m) \in Reasons
  BY DEF Filter, Reasons

(* A call under way has a mail and started no earlier than a load may last.  *)
CallInv(w) ==
    /\ h[w].stage = "idle" => h[w].pending = {}
    /\ h[w].stage = "load" =>
          h[w].mail \in Mails /\ h[w].start <= now /\ now - h[w].start <= MaxQuery

TypeInv ==
    /\ TypeOK
    /\ \A w \in Workers : CallInv(w)
    /\ cache # None => cache.loadedAt <= now

LEMMA TypeInit == ASSUME Init PROVE TypeInv
<1>1. TypeOK
  BY IdleType DEF Init, TypeOK, Ticks, Versions
<1> QED BY <1>1 DEF TypeInv, CallInv, Init, Idle

(* What each step does to the calls, as plain facts.                         *)
LEMMA StartLoadStep ==
  ASSUME TypeInv, NEW w \in Workers, NEW m \in Mails, StartLoad(w, m)
  PROVE  /\ h' \in [Workers -> Call] /\ \A v \in Workers \ {w} : h'[v] = h[v]
         /\ h'[w].stage = "load" /\ h'[w].mail = m /\ h'[w].start = now
         /\ h'[w].pending = Queries
         /\ UNCHANGED <<tableVars, cache, now, floor>> /\ result' = None
<1> DEFINE call == [Idle EXCEPT !.stage = "load", !.mail = m, !.start = now, !.pending = Queries]
<1>1. /\ call \in Call /\ call.stage = "load" /\ call.mail = m /\ call.start = now
      /\ call.pending = Queries
  <2>1. now \in Ticks
    BY DEF TypeInv, TypeOK
  <2> QED BY <2>1, IdleType DEF Call
<1>2. h' = [h EXCEPT ![w] = call] /\ h \in [Workers -> Call]
  BY DEF StartLoad, TypeInv, TypeOK
<1> HIDE DEF call
<1> QED BY <1>1, <1>2 DEF StartLoad

LEMMA ReadDomainsStep ==
  ASSUME TypeInv, NEW w \in Workers, ReadDomains(w)
  PROVE  /\ h' \in [Workers -> Call] /\ \A v \in Workers \ {w} : h'[v] = h[v]
         /\ h'[w].stage = h[w].stage /\ h'[w].mail = h[w].mail /\ h'[w].start = h[w].start
         /\ h'[w].pending = h[w].pending \ {"filterDomain"}
         /\ h'[w].domains = domains /\ h'[w].keywords = h[w].keywords
         /\ h'[w].seen = [h[w].seen EXCEPT !["filterDomain"] = version]
         /\ "filterDomain" \in h[w].pending
         /\ UNCHANGED <<tableVars, cache, now, floor>> /\ result' = None
<1>1. h \in [Workers -> Call] /\ h[w] \in Call /\ version \in Versions
  BY DEF TypeInv, TypeOK
<1>2. h' = [h EXCEPT ![w] =
              [h[w] EXCEPT !.pending = h[w].pending \ {"filterDomain"}, !.domains = domains,
                           !.seen = [h[w].seen EXCEPT !["filterDomain"] = version]]]
  BY DEF ReadDomains
<1> QED BY <1>1, <1>2, SMTT(40) DEF ReadDomains, Call, TypeInv, TypeOK, Queries, Versions

LEMMA ReadKeywordsStep ==
  ASSUME TypeInv, NEW w \in Workers, ReadKeywords(w)
  PROVE  /\ h' \in [Workers -> Call] /\ \A v \in Workers \ {w} : h'[v] = h[v]
         /\ h'[w].stage = h[w].stage /\ h'[w].mail = h[w].mail /\ h'[w].start = h[w].start
         /\ h'[w].pending = h[w].pending \ {"filterKeyword"}
         /\ h'[w].keywords = keywords /\ h'[w].domains = h[w].domains
         /\ h'[w].seen = [h[w].seen EXCEPT !["filterKeyword"] = version]
         /\ "filterKeyword" \in h[w].pending
         /\ UNCHANGED <<tableVars, cache, now, floor>> /\ result' = None
<1>1. h \in [Workers -> Call] /\ h[w] \in Call /\ version \in Versions
  BY DEF TypeInv, TypeOK
<1>2. h' = [h EXCEPT ![w] =
              [h[w] EXCEPT !.pending = h[w].pending \ {"filterKeyword"}, !.keywords = keywords,
                           !.seen = [h[w].seen EXCEPT !["filterKeyword"] = version]]]
  BY DEF ReadKeywords
<1> QED BY <1>1, <1>2 DEF ReadKeywords, Call, TypeInv, TypeOK, Queries, Versions

LEMMA OverStep ==
  ASSUME TypeInv, NEW w \in Workers, h' = [h EXCEPT ![w] = Idle]
  PROVE  /\ h' \in [Workers -> Call] /\ \A v \in Workers \ {w} : h'[v] = h[v]
         /\ h'[w].stage = "idle" /\ h'[w].pending = {}
<1>1. h'[w] = Idle
  BY DEF TypeInv, TypeOK
<1>2. h' \in [Workers -> Call] /\ \A v \in Workers \ {w} : h'[v] = h[v]
  BY IdleType DEF TypeInv, TypeOK
<1> QED BY <1>1, <1>2 DEF Idle

LEMMA StoreRulesStep ==
  ASSUME TypeInv, NEW w \in Workers, StoreRules(w)
  PROVE  /\ cache' = [loadedAt |-> now, rules |-> BuildRules(h[w].domains, h[w].keywords),
                      seen |-> h[w].seen]
         /\ cache' \in [loadedAt: Ticks, rules: Rules, seen: [Queries -> Versions]]
         /\ result' = [mail |-> h[w].mail,
                       reason |-> Filter(BuildRules(h[w].domains, h[w].keywords), h[w].mail)]
         /\ result' \in [mail: Mails, reason: Reasons]
         /\ h' = [h EXCEPT ![w] = Idle] /\ h[w].stage = "load" /\ h[w].pending = {}
         /\ UNCHANGED <<tableVars, now, floor>>
<1> DEFINE rules == BuildRules(h[w].domains, h[w].keywords)
<1>1. h[w] \in Call /\ now \in Ticks /\ CallInv(w)
  BY DEF TypeInv, TypeOK
<1>2. rules \in Rules
  BY <1>1, BuildRulesType DEF Call
<1>3. Filter(rules, h[w].mail) \in Reasons
  BY FilterType
<1>4. /\ cache' = [loadedAt |-> now, rules |-> rules, seen |-> h[w].seen]
      /\ result' = [mail |-> h[w].mail, reason |-> Filter(rules, h[w].mail)]
      /\ h' = [h EXCEPT ![w] = Idle] /\ h[w].stage = "load" /\ h[w].pending = {}
      /\ UNCHANGED <<tableVars, now, floor>>
  BY DEF StoreRules
<1>5. h[w].seen \in [Queries -> Versions] /\ h[w].mail \in Mails
  BY <1>1, <1>4 DEF Call, CallInv
<1> HIDE DEF rules
<1>6. /\ cache' \in [loadedAt: Ticks, rules: Rules, seen: [Queries -> Versions]]
      /\ result' \in [mail: Mails, reason: Reasons]
  BY <1>1, <1>2, <1>3, <1>4, <1>5
<1> QED BY <1>4, <1>6 DEF rules

LEMMA ChangeStep ==
  ASSUME TypeInv, NEW r \in Rows, ChangeRule(r)
  PROVE  /\ version' = version + 1 /\ version' \in Versions
         /\ changed' \in [Rows -> Ticks \cup {-CacheTtl - MaxQuery}]
         /\ changed'[r] = now /\ \A x \in Rows \ {r} : changed'[x] = changed[x]
         /\ UNCHANGED <<cache, h, now, floor>> /\ result' = None
  BY DEF ChangeRule, TypeInv, TypeOK, Versions, Ticks

LEMMA TypeStep == ASSUME TypeInv, [Next]_vars PROVE TypeInv'
<1> USE DEF TypeInv
<1>0. now \in Ticks /\ Ticks \subseteq Int
  BY DEF TypeOK, Ticks
<1>1. CASE Tick
  <2>1. now' \in Ticks /\ now' = now + 1
    BY <1>1 DEF Tick, TypeOK, Ticks
  <2>2. /\ UNCHANGED <<tableVars, cache, h, floor>> /\ result' = None
        /\ \A w \in Workers : h[w].stage = "load" => now - h[w].start < MaxQuery
    BY <1>1 DEF Tick
  <2>3. TypeOK'
    BY <2>1, <2>2 DEF TypeOK, tableVars
  <2>4. ASSUME NEW w \in Workers PROVE CallInv(w)'
    <3>1. h[w].start \in Int /\ now \in Int /\ CallInv(w)
      BY <1>0 DEF TypeOK, Call
    <3>2. h[w].stage = "load" => h[w].start <= now + 1 /\ now + 1 - h[w].start <= MaxQuery
      BY <2>2, <3>1 DEF CallInv
    <3> QED BY <2>1, <2>2, <3>1, <3>2 DEF CallInv
  <2>5. (cache # None => cache.loadedAt <= now)'
    BY <1>0, <2>1, <2>2 DEF TypeOK
  <2> QED BY <2>3, <2>4, <2>5
<1>2. CASE InvalidateCache \/ Restart
  <2>1. /\ cache' = None /\ result' = None /\ UNCHANGED <<tableVars, now>>
        /\ h' = h \/ h' = [w \in Workers |-> Idle]
        /\ floor' \in Versions
    BY <1>2 DEF InvalidateCache, Restart, TypeOK, tableVars
  <2>2. TypeOK'
    BY <2>1, IdleType DEF TypeOK, tableVars
  <2>3. \A w \in Workers : CallInv(w)'
    BY <2>1 DEF CallInv, Idle
  <2> QED BY <2>1, <2>2, <2>3
<1>3. CASE \/ \E r \in DomainRows : ChangeDomain(r)
           \/ \E r \in KeywordRows : ChangeKeyword(r)
  <2>1. PICK r \in Rows : ChangeRule(r)
    BY <1>3 DEF ChangeDomain, ChangeKeyword, Rows
  <2>2. domains' \subseteq DomainRows /\ keywords' \subseteq KeywordRows
    BY <1>3 DEF ChangeDomain, ChangeKeyword, Toggle, TypeOK
  <2> QED BY <2>1, <2>2, ChangeStep DEF TypeOK, CallInv
<1>4. ASSUME NEW w \in Workers, NEW m \in Mails, ApplyCached(w, m) PROVE TypeInv'
  <2>1. Filter(cache.rules, m) \in Reasons
    BY FilterType
  <2>2. result' \in [mail: Mails, reason: Reasons] /\ UNCHANGED <<tableVars, cache, h, now, floor>>
    BY <1>4, <2>1 DEF ApplyCached
  <2> QED BY <2>2 DEF TypeOK, tableVars, CallInv
<1>5. ASSUME NEW w \in Workers, NEW m \in Mails, StartLoad(w, m) PROVE TypeInv'
  <2>1. TypeOK'
    BY <1>5, StartLoadStep DEF TypeOK, tableVars
  <2>2. ASSUME NEW v \in Workers PROVE CallInv(v)'
    <3>1. CASE v = w
      BY <1>0, <1>5, <3>1, StartLoadStep DEF CallInv
    <3>2. CASE v # w
      BY <1>5, <3>2, StartLoadStep DEF CallInv
    <3> QED BY <3>1, <3>2
  <2> QED BY <1>5, <2>1, <2>2, StartLoadStep
<1>6. ASSUME NEW w \in Workers, ReadDomains(w) PROVE TypeInv'
  <2>1. TypeOK'
    BY <1>6, ReadDomainsStep DEF TypeOK, tableVars
  <2>2. \A v \in Workers : CallInv(v)'
    BY <1>6, ReadDomainsStep, ZenonT(60) DEF CallInv
  <2> QED BY <1>6, <2>1, <2>2, ReadDomainsStep
<1>7. ASSUME NEW w \in Workers, ReadKeywords(w) PROVE TypeInv'
  <2>1. TypeOK'
    BY <1>7, ReadKeywordsStep DEF TypeOK, tableVars
  <2>2. \A v \in Workers : CallInv(v)'
    BY <1>7, ReadKeywordsStep, ZenonT(60) DEF CallInv
  <2> QED BY <1>7, <2>1, <2>2, ReadKeywordsStep
<1>8. ASSUME NEW w \in Workers, StoreRules(w) PROVE TypeInv'
  <2>1. /\ h' \in [Workers -> Call] /\ \A v \in Workers \ {w} : h'[v] = h[v]
        /\ h'[w].stage = "idle" /\ h'[w].pending = {}
    BY <1>8, StoreRulesStep, OverStep
  <2>2. TypeOK'
    BY <1>8, <2>1, StoreRulesStep DEF TypeOK, tableVars
  <2>3. \A v \in Workers : CallInv(v)'
    BY <1>8, <2>1, StoreRulesStep DEF CallInv
  <2>4. cache'.loadedAt <= now'
    BY <1>0, <1>8, StoreRulesStep
  <2> QED BY <2>2, <2>3, <2>4
<1>9. ASSUME NEW w \in Workers, FailLoad(w) PROVE TypeInv'
  <2>1. /\ h' \in [Workers -> Call] /\ \A v \in Workers \ {w} : h'[v] = h[v]
        /\ h'[w].stage = "idle" /\ h'[w].pending = {}
        /\ UNCHANGED <<tableVars, cache, now, floor>> /\ result' = None
    BY <1>9, OverStep DEF FailLoad
  <2>2. TypeOK'
    BY <2>1 DEF TypeOK, tableVars
  <2>3. \A v \in Workers : CallInv(v)'
    BY <2>1 DEF CallInv
  <2> QED BY <2>1, <2>2, <2>3
<1>10. CASE UNCHANGED vars
  BY <1>10 DEF vars, tableVars, TypeOK, CallInv
<1> QED BY <1>1, <1>2, <1>3, <1>4, <1>5, <1>6, <1>7, <1>8, <1>9, <1>10 DEF Next

(* Every state the process reaches is one the types of rule-filter.service.ts *)
(* describe, and no load outlives the time a query may take.                 *)
THEOREM TypeCorrect == Spec => []TypeInv
<1>1. Init => TypeInv
  BY TypeInit
<1>2. TypeInv /\ [Next]_vars => TypeInv'
  BY TypeStep
<1> QED BY <1>1, <1>2, PTL DEF Spec

-----------------------------------------------------------------------------
(* Rows that differ from the present tables have changed since t.            *)
DomainsSince(D, t)  == \A r \in DomainRows : ~(r \in D <=> r \in domains) => changed[r] >= t
KeywordsSince(K, t) == \A r \in KeywordRows : ~(r \in K <=> r \in keywords) => changed[r] >= t

(* What a query of a load returned: it is no older than the load, than the   *)
(* last invalidation that caught nobody, and than any rules cached before    *)
(* the load started.                                                         *)
QueryInv(w) ==
    /\ "filterDomain" \notin h[w].pending => DomainsSince(h[w].domains, h[w].start)
    /\ "filterKeyword" \notin h[w].pending => KeywordsSince(h[w].keywords, h[w].start)
    /\ \A q \in Queries \ h[w].pending :
          /\ h[w].seen[q] >= floor /\ h[w].seen[q] <= version
          /\ cache # None /\ h[w].start > cache.loadedAt => h[w].seen[q] >= cache.seen[q]

(* The rules in the cache are those of tables of one load before it.         *)
CacheInv ==
    cache # None =>
        /\ \E D \in SUBSET DomainRows, K \in SUBSET KeywordRows :
              /\ cache.rules = BuildRules(D, K)
              /\ DomainsSince(D, cache.loadedAt - MaxQuery)
              /\ KeywordsSince(K, cache.loadedAt - MaxQuery)
        /\ \A q \in Queries : cache.seen[q] >= floor /\ cache.seen[q] <= version

RulesInv ==
    /\ TypeInv
    /\ floor <= version
    /\ \A w \in Workers : h[w].stage = "load" => QueryInv(w)
    /\ CacheInv

LEMMA RulesInit == ASSUME Init PROVE RulesInv
<1>1. TypeInv
  BY TypeInit
<1> QED BY <1>1 DEF RulesInv, CacheInv, Init, Idle

(* A change of a row at the present time makes every difference recent.      *)
LEMMA SinceStep ==
  ASSUME TypeInv, NEW r \in Rows, ChangeRule(r), NEW t \in Int, t <= now,
         NEW D, NEW K,
         \/ domains' = Toggle(domains, r) /\ UNCHANGED keywords
         \/ keywords' = Toggle(keywords, r) /\ UNCHANGED domains
  PROVE  /\ DomainsSince(D, t) => DomainsSince(D, t)'
         /\ KeywordsSince(K, t) => KeywordsSince(K, t)'
<1>1. /\ changed'[r] >= t /\ \A x \in Rows \ {r} : changed'[x] = changed[x]
      /\ \A x \in Rows \ {r} : (x \in domains' <=> x \in domains) /\ (x \in keywords' <=> x \in keywords)
  BY ChangeStep DEF Toggle
<1> QED BY <1>1 DEF DomainsSince, KeywordsSince, Rows

(* A step that keeps the tables and their history.                           *)
LEMMA KeptQuery ==
  ASSUME NEW w \in Workers, QueryInv(w), UNCHANGED tableVars, h'[w] = h[w],
         UNCHANGED <<cache, floor>>
  PROVE  QueryInv(w)'
  BY DEF QueryInv, DomainsSince, KeywordsSince, tableVars

LEMMA KeptCache ==
  ASSUME CacheInv, UNCHANGED tableVars, UNCHANGED <<cache, floor>>
  PROVE  CacheInv'
  BY DEF CacheInv, DomainsSince, KeywordsSince, tableVars

LEMMA RulesTypes ==
  ASSUME TypeInv
  PROVE  /\ now \in Int /\ version \in Int /\ floor \in Int /\ MaxQuery \in Nat /\ CacheTtl \in Nat
         /\ \A w \in Workers : /\ h[w] \in Call /\ h[w].start \in Int
                               /\ \A q \in Queries : h[w].seen[q] \in Int
         /\ cache # None => cache.loadedAt \in Int /\ \A q \in Queries : cache.seen[q] \in Int
         /\ \A r \in Rows : changed[r] \in Int
  BY DEF TypeInv, TypeOK, Call, Ticks, Versions

LEMMA RulesStep == ASSUME RulesInv, [Next]_vars PROVE RulesInv'
<1> USE DEF RulesInv
<1>0. TypeInv'
  BY TypeStep
<1>1. CASE Tick \/ UNCHANGED vars
  <2>1. UNCHANGED <<tableVars, cache, h, floor>>
    BY <1>1 DEF Tick, vars
  <2>2. floor' <= version'
    BY <2>1 DEF tableVars
  <2> QED BY <1>0, <2>1, <2>2, KeptQuery, KeptCache
<1>2. CASE InvalidateCache
  <2>1. /\ cache' = None /\ UNCHANGED <<tableVars, h>>
        /\ floor' = IF \A w \in Workers : h[w].stage = "idle" THEN version ELSE floor
    BY <1>2 DEF InvalidateCache
  <2>2. floor' <= version'
    BY <2>1, RulesTypes DEF tableVars
  <2>3. ASSUME NEW w \in Workers, h'[w].stage = "load" PROVE QueryInv(w)'
    <3>1. h[w].stage = "load" /\ floor' = floor /\ QueryInv(w)
      BY <2>1, <2>3
    <3> QED BY <2>1, <3>1 DEF QueryInv, DomainsSince, KeywordsSince, tableVars
  <2> QED BY <1>0, <2>1, <2>2, <2>3 DEF CacheInv
<1>3. CASE Restart
  <2>1. cache' = None /\ UNCHANGED <<tableVars, floor>> /\ h' = [w \in Workers |-> Idle]
    BY <1>3 DEF Restart
  <2> QED BY <1>0, <2>1 DEF CacheInv, Idle, tableVars
<1>4. CASE \/ \E r \in DomainRows : ChangeDomain(r)
           \/ \E r \in KeywordRows : ChangeKeyword(r)
  <2>1. PICK r \in Rows : /\ ChangeRule(r)
                         /\ \/ domains' = Toggle(domains, r) /\ UNCHANGED keywords
                            \/ keywords' = Toggle(keywords, r) /\ UNCHANGED domains
    BY <1>4 DEF ChangeDomain, ChangeKeyword, Rows
  <2>2. version' = version + 1 /\ UNCHANGED <<cache, h, now, floor>>
    BY <2>1, ChangeStep
  <2>3. ASSUME NEW w \in Workers, h[w].stage = "load" PROVE QueryInv(w)'
    <3>1. QueryInv(w) /\ h[w].start \in Int /\ h[w].start <= now
      BY <2>3, RulesTypes DEF TypeInv, CallInv
    <3>2. /\ DomainsSince(h[w].domains, h[w].start) => DomainsSince(h[w].domains, h[w].start)'
          /\ KeywordsSince(h[w].keywords, h[w].start) => KeywordsSince(h[w].keywords, h[w].start)'
      <4>1. \A D, K : \A t \in Int : t <= now =>
                /\ DomainsSince(D, t) => DomainsSince(D, t)'
                /\ KeywordsSince(K, t) => KeywordsSince(K, t)'
        BY <2>1, SinceStep
      <4> QED BY <2>2, <3>1, <4>1
    <3> QED BY <2>2, <3>1, <3>2, RulesTypes DEF QueryInv
  <2>4. ASSUME cache # None PROVE CacheInv'
    <3>1. PICK D \in SUBSET DomainRows, K \in SUBSET KeywordRows :
              /\ cache.rules = BuildRules(D, K)
              /\ DomainsSince(D, cache.loadedAt - MaxQuery)
              /\ KeywordsSince(K, cache.loadedAt - MaxQuery)
      BY <2>4 DEF CacheInv
    <3>2. cache.loadedAt - MaxQuery \in Int /\ cache.loadedAt - MaxQuery <= now
      BY <2>4, RulesTypes DEF TypeInv
    <3>3. /\ DomainsSince(D, cache.loadedAt - MaxQuery)'
          /\ KeywordsSince(K, cache.loadedAt - MaxQuery)'
      BY <2>1, <2>2, <3>1, <3>2, SinceStep
    <3> QED BY <2>2, <2>4, <3>1, <3>3, RulesTypes DEF CacheInv
  <2>5. CacheInv'
    BY <2>2, <2>4 DEF CacheInv
  <2>6. floor' <= version'
    BY <2>2, RulesTypes
  <2> QED BY <1>0, <2>2, <2>3, <2>5, <2>6
<1>5. ASSUME NEW w \in Workers, NEW m \in Mails, ApplyCached(w, m) PROVE RulesInv'
  <2>1. UNCHANGED <<tableVars, cache, h, floor>>
    BY <1>5 DEF ApplyCached
  <2> QED BY <1>0, <2>1, KeptQuery, KeptCache DEF tableVars
<1>6. ASSUME NEW w \in Workers, NEW m \in Mails, StartLoad(w, m) PROVE RulesInv'
  <2>1. UNCHANGED <<tableVars, cache, floor>> /\ h'[w].pending = Queries
    BY <1>6, StartLoadStep
  <2>2. QueryInv(w)'
    BY <2>1 DEF QueryInv, Queries
  <2>3. \A v \in Workers \ {w} : h'[v] = h[v]
    BY <1>6, StartLoadStep
  <2> QED BY <1>0, <2>1, <2>2, <2>3, KeptQuery, KeptCache DEF tableVars
<1>7. ASSUME NEW w \in Workers, ReadDomains(w) PROVE RulesInv'
  <2>1. /\ UNCHANGED <<tableVars, cache, floor>> /\ \A v \in Workers \ {w} : h'[v] = h[v]
        /\ h'[w].stage = h[w].stage /\ h'[w].pending = h[w].pending \ {"filterDomain"}
        /\ h'[w].domains = domains /\ h'[w].keywords = h[w].keywords /\ h'[w].start = h[w].start
        /\ h'[w].seen = [h[w].seen EXCEPT !["filterDomain"] = version]
    BY <1>7, ReadDomainsStep
  <2>2. ASSUME h[w].stage = "load" PROVE QueryInv(w)'
    <3>1. QueryInv(w)
      BY <2>2
    <3>2. h'[w].seen["filterDomain"] = version /\ h'[w].seen["filterKeyword"] = h[w].seen["filterKeyword"]
      BY <2>1, RulesTypes DEF Call, Queries
    <3>3. cache # None => cache.seen["filterDomain"] <= version
      BY DEF CacheInv, Queries
    <3>4. DomainsSince(h[w].domains, h[w].start)'
      BY <2>1 DEF DomainsSince, tableVars
    <3>5. "filterKeyword" \notin h[w].pending => KeywordsSince(h[w].keywords, h[w].start)'
      BY <2>1, <3>1 DEF QueryInv, KeywordsSince, tableVars
    <3>6. version <= version /\ version' = version
      BY <2>1, RulesTypes DEF tableVars
    <3>7. ASSUME NEW q \in Queries \ h'[w].pending
          PROVE  /\ h'[w].seen[q] >= floor /\ h'[w].seen[q] <= version
                 /\ cache # None /\ h[w].start > cache.loadedAt => h'[w].seen[q] >= cache.seen[q]
      BY <2>1, <3>1, <3>2, <3>3, <3>6, <3>7, RulesTypes DEF QueryInv, Queries
    <3> QED BY <2>1, <3>4, <3>5, <3>6, <3>7 DEF QueryInv
  <2> QED BY <1>0, <2>1, <2>2, KeptQuery, KeptCache DEF tableVars
<1>8. ASSUME NEW w \in Workers, ReadKeywords(w) PROVE RulesInv'
  <2>1. /\ UNCHANGED <<tableVars, cache, floor>> /\ \A v \in Workers \ {w} : h'[v] = h[v]
        /\ h'[w].stage = h[w].stage /\ h'[w].pending = h[w].pending \ {"filterKeyword"}
        /\ h'[w].keywords = keywords /\ h'[w].domains = h[w].domains /\ h'[w].start = h[w].start
        /\ h'[w].seen = [h[w].seen EXCEPT !["filterKeyword"] = version]
    BY <1>8, ReadKeywordsStep
  <2>2. ASSUME h[w].stage = "load" PROVE QueryInv(w)'
    <3>1. QueryInv(w)
      BY <2>2
    <3>2. h'[w].seen["filterKeyword"] = version /\ h'[w].seen["filterDomain"] = h[w].seen["filterDomain"]
      BY <2>1, RulesTypes DEF Call, Queries
    <3>3. cache # None => cache.seen["filterKeyword"] <= version
      BY DEF CacheInv, Queries
    <3>4. KeywordsSince(h[w].keywords, h[w].start)'
      BY <2>1 DEF KeywordsSince, tableVars
    <3>5. "filterDomain" \notin h[w].pending => DomainsSince(h[w].domains, h[w].start)'
      BY <2>1, <3>1 DEF QueryInv, DomainsSince, tableVars
    <3>6. version <= version /\ version' = version
      BY <2>1, RulesTypes DEF tableVars
    <3>7. ASSUME NEW q \in Queries \ h'[w].pending
          PROVE  /\ h'[w].seen[q] >= floor /\ h'[w].seen[q] <= version
                 /\ cache # None /\ h[w].start > cache.loadedAt => h'[w].seen[q] >= cache.seen[q]
      BY <2>1, <3>1, <3>2, <3>3, <3>6, <3>7, RulesTypes DEF QueryInv, Queries
    <3> QED BY <2>1, <3>4, <3>5, <3>6, <3>7 DEF QueryInv
  <2> QED BY <1>0, <2>1, <2>2, KeptQuery, KeptCache DEF tableVars
<1>9. ASSUME NEW w \in Workers, StoreRules(w) PROVE RulesInv'
  <2>1. /\ cache' = [loadedAt |-> now, rules |-> BuildRules(h[w].domains, h[w].keywords),
                     seen |-> h[w].seen]
        /\ h[w].stage = "load" /\ h[w].pending = {} /\ UNCHANGED <<tableVars, floor>>
    BY <1>9, StoreRulesStep
  <2>2. /\ h' \in [Workers -> Call] /\ \A v \in Workers \ {w} : h'[v] = h[v]
        /\ h'[w].stage = "idle"
    BY <1>9, StoreRulesStep, OverStep
  <2>3. QueryInv(w) /\ CallInv(w)
    BY <2>1 DEF TypeInv
  <2>4. cache'.loadedAt = now /\ cache'.seen = h[w].seen
        /\ cache'.rules = BuildRules(h[w].domains, h[w].keywords)
    BY <2>1
  <2>5. h[w].start >= now - MaxQuery /\ h[w].start \in Int
    BY <2>1, <2>3, RulesTypes DEF CallInv
  <2>6. PICK D \in SUBSET DomainRows, K \in SUBSET KeywordRows :
              D = h[w].domains /\ K = h[w].keywords
    BY RulesTypes DEF Call
  <2>7. CacheInv'
    <3>1. DomainsSince(D, h[w].start) /\ KeywordsSince(K, h[w].start)
      BY <2>1, <2>3, <2>6 DEF QueryInv
    <3>2. DomainsSince(D, now - MaxQuery) /\ KeywordsSince(K, now - MaxQuery)
      BY <2>5, <3>1, RulesTypes DEF DomainsSince, KeywordsSince, Rows
    <3>3. DomainsSince(D, cache.loadedAt - MaxQuery)' /\ KeywordsSince(K, cache.loadedAt - MaxQuery)'
      BY <2>1, <2>4, <3>2 DEF DomainsSince, KeywordsSince, tableVars
    <3>4. \A q \in Queries : h[w].seen[q] >= floor' /\ h[w].seen[q] <= version'
      BY <2>1, <2>3 DEF QueryInv, tableVars
    <3> QED BY <2>4, <2>6, <3>3, <3>4 DEF CacheInv
  <2>8. ASSUME NEW v \in Workers, h'[v].stage = "load" PROVE QueryInv(v)'
    <3>1. v # w /\ h'[v] = h[v] /\ QueryInv(v) /\ ~(h[v].start > now)
      BY <2>2, <2>8, RulesTypes DEF TypeInv, CallInv
    <3> QED BY <2>1, <2>4, <3>1 DEF QueryInv, DomainsSince, KeywordsSince, tableVars
  <2> QED BY <1>0, <2>1, <2>7, <2>8 DEF tableVars
<1>10. ASSUME NEW w \in Workers, FailLoad(w) PROVE RulesInv'
  <2>1. /\ \A v \in Workers \ {w} : h'[v] = h[v]
        /\ h'[w].stage = "idle" /\ UNCHANGED <<tableVars, cache, floor>>
    BY <1>10, OverStep DEF FailLoad
  <2> QED BY <1>0, <2>1, KeptQuery, KeptCache DEF tableVars
<1> QED BY <1>1, <1>2, <1>3, <1>4, <1>5, <1>6, <1>7, <1>8, <1>9, <1>10 DEF Next

(* The rules of every load and of the cache are those of the tables, but for *)
(* rows changed since the load began (getRules reads, then stores them).     *)
THEOREM RulesInvariant == Spec => []RulesInv
<1>1. Init => RulesInv
  BY RulesInit
<1>2. RulesInv /\ [Next]_vars => RulesInv'
  BY RulesStep
<1> QED BY <1>1, <1>2, PTL DEF Spec

(* No rules from before an invalidation that caught no load under way are    *)
(* used again (invalidateCache).                                             *)
THEOREM InvalidationsHold == Spec => []InvalidationHolds
<1>1. RulesInv => InvalidationHolds
  BY DEF RulesInv, CacheInv, InvalidationHolds
<1> QED BY <1>1, RulesInvariant, PTL

-----------------------------------------------------------------------------
(* The step that RulesNeverGoBack allows.                                    *)
NoGoingBack ==
    cache # None /\ cache' # None /\ Older(cache', cache)
        => \E w \in Workers : h[w].stage = "load" /\ h[w].start <= cache.loadedAt

LEMMA NoGoingBackStep == ASSUME RulesInv, [Next]_vars PROVE NoGoingBack
<1> SUFFICES ASSUME cache # None, cache' # None, Older(cache', cache)
             PROVE  \E w \in Workers : h[w].stage = "load" /\ h[w].start <= cache.loadedAt
  BY DEF NoGoingBack
<1>1. cache' # cache
  BY RulesTypes DEF Older, RulesInv
<1>2. PICK w \in Workers : StoreRules(w)
  BY <1>1 DEF Next, Tick, InvalidateCache, Restart, ChangeDomain, ChangeKeyword, ChangeRule,
              ApplyCached, StartLoad, ReadDomains, ReadKeywords, FailLoad, vars
<1>3. h[w].stage = "load" /\ h[w].pending = {} /\ cache'.seen = h[w].seen
  BY <1>2, StoreRulesStep DEF RulesInv
<1>4. QueryInv(w)
  BY <1>3 DEF RulesInv
<1>5. ~(h[w].start > cache.loadedAt)
  BY <1>3, <1>4, RulesTypes DEF QueryInv, Older, RulesInv
<1> QED BY <1>3, <1>5, RulesTypes DEF RulesInv

(* Rules are replaced by rules read earlier only by a load under way since   *)
(* before the cache was filled (getRules stores what it awaited).            *)
THEOREM CacheNeverGoesBack == Spec => RulesNeverGoBack
<1>1. RulesInv /\ [Next]_vars => [NoGoingBack]_vars
  BY NoGoingBackStep
<1> QED BY <1>1, RulesInvariant, PTL DEF Spec, RulesNeverGoBack, NoGoingBack

-----------------------------------------------------------------------------
(* What the rules of a mail's user say of it, as RulesTakeEffect does.       *)
Verdict(D, K, m) ==
    LET theirs == {r \in D : r.isGlobal # "false" \/ r.userId = m.user}
        hits == {r \in K : r.keyword \in m.words}
        score == MapThenSumSet(Weight, hits)
    IN IF \E r \in theirs : r.domain \in m.domains THEN "domain_whitelist"
       ELSE IF score >= MinKeywordScore THEN "keyword_match" ELSE "no_match"

(* The cached lists, one for all users and one per user, give the verdict of *)
(* the rows they were built from.                                            *)
LEMMA FilterIsVerdict ==
  ASSUME NEW D \in SUBSET DomainRows, NEW K \in SUBSET KeywordRows, NEW m \in Mails
  PROVE  Filter(BuildRules(D, K), m) = Verdict(D, K, m)
<1> DEFINE rules == BuildRules(D, K)
<1>1. /\ rules.global = GlobalDomains(D) /\ rules.keywords = K
      /\ rules.user[m.user] = UserDomains(D, m.user)
  BY DEF BuildRules, Users
<1>2. KeywordScore(rules, m) = MapThenSumSet(Weight, {r \in K : r.keyword \in m.words})
  BY <1>1 DEF KeywordScore
<1>3. m.domains \cap (rules.global \cup rules.user[m.user]) # {} <=>
      \E r \in {r \in D : r.isGlobal # "false" \/ r.userId = m.user} : r.domain \in m.domains
  BY <1>1 DEF GlobalDomains, UserDomains
<1> HIDE DEF rules
<1>4. Filter(rules, m) = Verdict(D, K, m)
  BY <1>2, <1>3 DEF Filter, Verdict
<1> QED BY <1>4 DEF rules

(* Rows that differ have changed too recently to be settled.                 *)
LEMMA SettledAgree ==
  ASSUME TypeInv, NEW t \in Int, t > now - CacheTtl - MaxQuery,
         NEW D \in SUBSET DomainRows, NEW K \in SUBSET KeywordRows,
         DomainsSince(D, t), KeywordsSince(K, t)
  PROVE  D \in LikelyTables(DomainRows, domains) /\ K \in LikelyTables(KeywordRows, keywords)
<1>1. \A r \in Rows : Settled(r) => ~(changed[r] >= t)
  BY RulesTypes DEF Settled
<1>2. /\ \A r \in DomainRows : Settled(r) => (r \in D <=> r \in domains)
      /\ \A r \in KeywordRows : Settled(r) => (r \in K <=> r \in keywords)
  BY <1>1 DEF DomainsSince, KeywordsSince, Rows
<1>3. D \in LikelyTables(DomainRows, domains)
  BY <1>2, Zenon DEF LikelyTables
<1>4. K \in LikelyTables(KeywordRows, keywords)
  BY <1>2, ZenonT(60) DEF LikelyTables
<1> QED BY <1>3, <1>4

LEMMA EffectStep == ASSUME RulesInv, RulesTakeEffect, [Next]_vars PROVE RulesTakeEffect'
<1>1. CASE UNCHANGED vars
  <2>1. /\ LikelyTables(DomainRows, domains)' = LikelyTables(DomainRows, domains)
        /\ LikelyTables(KeywordRows, keywords)' = LikelyTables(KeywordRows, keywords)
    BY <1>1 DEF LikelyTables, Settled, vars, tableVars
  <2>2. result' = result
    BY <1>1 DEF vars
  <2> QED BY <2>1, <2>2, ZenonT(60) DEF RulesTakeEffect
<1>2. ASSUME NEW w \in Workers, NEW m \in Mails, ApplyCached(w, m) PROVE RulesTakeEffect'
  <2>1. /\ Fresh /\ UNCHANGED <<tableVars, now>>
        /\ result'.mail = m /\ result'.reason = Filter(cache.rules, m)
    BY <1>2 DEF ApplyCached
  <2>2. cache # None /\ now - cache.loadedAt < CacheTtl
    BY <2>1 DEF Fresh
  <2>3. PICK D \in SUBSET DomainRows, K \in SUBSET KeywordRows :
              /\ cache.rules = BuildRules(D, K)
              /\ DomainsSince(D, cache.loadedAt - MaxQuery)
              /\ KeywordsSince(K, cache.loadedAt - MaxQuery)
    BY <2>2 DEF RulesInv, CacheInv
  <2>4. /\ cache.loadedAt - MaxQuery \in Int
        /\ cache.loadedAt - MaxQuery > now - CacheTtl - MaxQuery
    BY <2>2, RulesTypes DEF RulesInv
  <2>5. D \in LikelyTables(DomainRows, domains) /\ K \in LikelyTables(KeywordRows, keywords)
    BY <2>3, <2>4, SettledAgree DEF RulesInv
  <2>6. D \in LikelyTables(DomainRows, domains)' /\ K \in LikelyTables(KeywordRows, keywords)'
    BY <2>1, <2>5 DEF LikelyTables, Settled, tableVars
  <2>7. result'.reason = Verdict(D, K, result'.mail)
    BY <2>1, <2>3, FilterIsVerdict
  <2> QED BY <2>6, <2>7 DEF RulesTakeEffect, Verdict
<1>3. ASSUME NEW w \in Workers, StoreRules(w) PROVE RulesTakeEffect'
  <2>1. /\ result'.mail = h[w].mail
        /\ result'.reason = Filter(BuildRules(h[w].domains, h[w].keywords), h[w].mail)
        /\ h[w].stage = "load" /\ h[w].pending = {} /\ UNCHANGED <<tableVars, now>>
    BY <1>3, StoreRulesStep DEF RulesInv
  <2>2. QueryInv(w) /\ CallInv(w) /\ h[w] \in Call /\ h[w].start \in Int
    BY <2>1, RulesTypes DEF RulesInv, TypeInv
  <2>3. PICK D \in SUBSET DomainRows, K \in SUBSET KeywordRows :
              D = h[w].domains /\ K = h[w].keywords
    BY <2>2 DEF Call
  <2>4. DomainsSince(D, h[w].start) /\ KeywordsSince(K, h[w].start)
    BY <2>1, <2>2, <2>3 DEF QueryInv
  <2>5. h[w].start > now - CacheTtl - MaxQuery
    BY <2>1, <2>2, RulesTypes DEF CallInv, RulesInv
  <2>6. D \in LikelyTables(DomainRows, domains) /\ K \in LikelyTables(KeywordRows, keywords)
    BY <2>2, <2>4, <2>5, SettledAgree DEF RulesInv
  <2>7. D \in LikelyTables(DomainRows, domains)' /\ K \in LikelyTables(KeywordRows, keywords)'
    BY <2>1, <2>6 DEF LikelyTables, Settled, tableVars
  <2>8. result'.reason = Verdict(D, K, result'.mail)
    BY <2>1, <2>2, <2>3, FilterIsVerdict DEF CallInv
  <2> QED BY <2>7, <2>8 DEF RulesTakeEffect, Verdict
<1>4. CASE result' = None
  BY <1>4 DEF RulesTakeEffect
<1> QED BY <1>1, <1>2, <1>3, <1>4
        DEF Next, Tick, InvalidateCache, Restart, ChangeDomain, ChangeKeyword, ChangeRule,
            StartLoad, ReadDomains, ReadKeywords, FailLoad

(* A changed rule takes effect within the life of the cache and one load:    *)
(* every verdict of apply is that of the present rows, but for rows changed  *)
(* within that time, and never uses another user's domains.                  *)
THEOREM ChangesTakeEffect == Spec => []RulesTakeEffect
<1>1. Init => RulesTakeEffect
  BY DEF Init, RulesTakeEffect
<1>2. RulesInv /\ RulesTakeEffect /\ [Next]_vars => RulesTakeEffect'
  BY EffectStep
<1> QED BY <1>1, <1>2, RulesInvariant, PTL DEF Spec

(* Types, for the run that checks them.                                      *)
THEOREM TypesHold == Spec => []TypeOK
<1>1. TypeInv => TypeOK
  BY DEF TypeInv
<1> QED BY <1>1, TypeCorrect, PTL

=============================================================================
