----------------------------- MODULE RuleFilter -----------------------------
(***************************************************************************)
(* The rule filter of one backend process: a mail passes if its sender's   *)
(* domain is listed, or if the weights of the listed keywords in its text  *)
(* add up.  The rules live in two tables and are cached; concurrent        *)
(* handlers load them concurrently, each with two separate queries.        *)
(*                                                                         *)
(* Nothing in the program writes the tables: rules are changed in the      *)
(* database, row by row, while the process runs.                           *)
(***************************************************************************)
EXTENDS Integers, FiniteSetsExt

CONSTANTS
    Workers,          \* calls of apply that can be in flight at once
    Mails,            \* mails handlers apply the filter to
    DomainRows,       \* rows filter_domains may hold
    KeywordRows,      \* rows filter_keywords may hold
    None,             \* null: no rules cached, no result, a weight that is NULL
    CacheTtl,         \* CACHE_TTL_MS, in ticks
    MinKeywordScore,  \* MIN_KEYWORD_SCORE
    MaxQuery,         \* bound: ticks the queries of a load take
    MaxClock,         \* bound: ticks that pass
    MaxChanges        \* bound: changes of the tables

ASSUME RuleAssumption ==
    /\ \A r \in DomainRows : r.isGlobal \in {"true", "false", "null"}
    /\ \A r \in KeywordRows : r.weight \in Int \cup {None}
    /\ None \notin Int /\ MinKeywordScore \in Int
    /\ CacheTtl \in Nat \ {0} /\ MaxQuery \in Nat /\ MaxClock \in Nat /\ MaxChanges \in Nat

Rows  == DomainRows \cup KeywordRows
Users == {m.user : m \in Mails}
Queries == {"filterDomain", "filterKeyword"}
Reasons == {"domain_whitelist", "keyword_match", "no_match"}

VARIABLES
    domains, keywords,  \* the rows of filter_domains and filter_keywords
    cache,              \* the rules in memory, or None
    h,                  \* the calls of apply
    now,
    result,             \* what the last step returned from apply, if it did
    \* History: changes of either table, when each row last changed, and the
    \* oldest version an invalidation left to be read.
    version, changed, floor

tableVars == <<domains, keywords, version, changed>>
vars == <<tableVars, cache, h, now, result, floor>>

Ticks == 0..MaxClock
Versions == 0..MaxChanges

(* What the rows make of the rules: a row is global unless it says it is     *)
(* not, and a row that is neither global nor somebody's is no rule.  Every   *)
(* keyword row counts, also one that repeats another's keyword.              *)
GlobalDomains(D)  == {r.domain : r \in {x \in D : x.isGlobal # "false"}}

UserDomains(D, u) == {r.domain : r \in {x \in D : x.isGlobal = "false" /\ x.userId = u}}
Weight(r) == IF r.weight = None THEN 1 ELSE r.weight

BuildRules(D, K) ==
    [global   |-> GlobalDomains(D),
     user     |-> [u \in Users |-> UserDomains(D, u)],
     keywords |-> K]

(* A mail is its user, the listed domains that are its sender's or a parent  *)
(* of it, and the keywords in its text.                                      *)
KeywordScore(rules, m) ==
    MapThenSumSet(Weight, {r \in rules.keywords : r.keyword \in m.words})

Filter(rules, m) ==
    IF m.domains \cap (rules.global \cup rules.user[m.user]) # {} THEN "domain_whitelist"
    ELSE IF KeywordScore(rules, m) >= MinKeywordScore THEN "keyword_match"
    ELSE "no_match"

(* A call waits for the queries in pending; seen are the versions the others *)
(* returned, and start is when it found the cache of no use.                 *)
Call == [stage: {"idle", "load"}, mail: Mails \cup {None}, start: Ticks,
         pending: SUBSET Queries, domains: SUBSET DomainRows,
         keywords: SUBSET KeywordRows, seen: [Queries -> Versions]]
Idle == [stage |-> "idle", mail |-> None, start |-> 0, pending |-> {},
         domains |-> {}, keywords |-> {}, seen |-> [q \in Queries |-> 0]]

Names == {r.domain : r \in DomainRows}
Rules == [global: SUBSET Names, user: [Users -> SUBSET Names], keywords: SUBSET KeywordRows]

TypeOK ==
    /\ domains \subseteq DomainRows /\ keywords \subseteq KeywordRows
    /\ cache = None \/ cache \in [loadedAt: Ticks, rules: Rules, seen: [Queries -> Versions]]
    /\ h \in [Workers -> Call]
    /\ now \in Ticks
    /\ result = None \/ result \in [mail: Mails, reason: Reasons]
    /\ version \in Versions /\ floor \in Versions
    /\ changed \in [Rows -> Ticks \cup {-CacheTtl - MaxQuery}]

-----------------------------------------------------------------------------
(* The tables hold all the rows, and have for longer than any cache lives.   *)
Init ==
    /\ domains = DomainRows /\ keywords = KeywordRows
    /\ version = 0
    /\ changed = [r \in Rows |-> -CacheTtl - MaxQuery]
    /\ cache = None
    /\ h = [w \in Workers |-> Idle]
    /\ now = 0 /\ result = None /\ floor = 0

(* Time passes while queries are under way, but a query that takes too long  *)
(* fails.                                                                    *)
Tick ==
    /\ now < MaxClock
    /\ \A w \in Workers : h[w].stage = "load" => now - h[w].start < MaxQuery
    /\ now' = now + 1
    /\ result' = None
    /\ UNCHANGED <<tableVars, cache, h, floor>>

(* A row is inserted or deleted in the database.                             *)
Toggle(S, r) == IF r \in S THEN S \ {r} ELSE S \cup {r}
ChangeRule(r) ==
    /\ version < MaxChanges
    /\ version' = version + 1
    /\ changed' = [changed EXCEPT ![r] = now]
    /\ result' = None
    /\ UNCHANGED <<cache, h, now, floor>>

ChangeDomain(r)  == ChangeRule(r) /\ domains' = Toggle(domains, r) /\ UNCHANGED keywords
ChangeKeyword(r) == ChangeRule(r) /\ keywords' = Toggle(keywords, r) /\ UNCHANGED domains

\* Mutant: rules are used for one tick too many.
FreshTooLong == IF cache = None THEN FALSE ELSE now - cache.loadedAt <= CacheTtl

Fresh == IF cache = None THEN FALSE ELSE now - cache.loadedAt < CacheTtl

(* apply with rules in the cache: nothing is awaited.                        *)
ApplyCached(w, m) ==
    /\ h[w].stage = "idle" /\ Fresh
    /\ result' = [mail |-> m, reason |-> Filter(cache.rules, m)]
    /\ UNCHANGED <<tableVars, cache, h, now, floor>>

(* apply without: both queries are sent and awaited together.                *)
StartLoad(w, m) ==
    /\ h[w].stage = "idle" /\ ~ Fresh
    /\ h' = [h EXCEPT ![w] = [Idle EXCEPT !.stage = "load", !.mail = m, !.start = now,
                                          !.pending = Queries]]
    /\ result' = None
    /\ UNCHANGED <<tableVars, cache, now, floor>>

(* The database answers the queries in either order, each from the table as  *)
(* it then is.                                                               *)
ReadDomains(w) ==
    /\ "filterDomain" \in h[w].pending
    /\ h' = [h EXCEPT ![w].pending = @ \ {"filterDomain"}, ![w].domains = domains,
                      ![w].seen["filterDomain"] = version]
    /\ result' = None
    /\ UNCHANGED <<tableVars, cache, now, floor>>

ReadKeywords(w) ==
    /\ "filterKeyword" \in h[w].pending
    /\ h' = [h EXCEPT ![w].pending = @ \ {"filterKeyword"}, ![w].keywords = keywords,
                      ![w].seen["filterKeyword"] = version]
    /\ result' = None
    /\ UNCHANGED <<tableVars, cache, now, floor>>

\* Mutant: the cache notes when it expires where it is read as when it was filled.
StoreExpiry(w) ==
    /\ h[w].stage = "load" /\ h[w].pending = {}
    /\ LET rules == BuildRules(h[w].domains, h[w].keywords)
       IN /\ cache' = [loadedAt |-> now + CacheTtl, rules |-> rules, seen |-> h[w].seen]
          /\ result' = [mail |-> h[w].mail, reason |-> Filter(rules, h[w].mail)]
    /\ h' = [h EXCEPT ![w] = Idle]
    /\ UNCHANGED <<tableVars, now, floor>>

(* Both have answered: the rules replace whatever the cache holds by now.    *)
StoreRules(w) ==
    /\ h[w].stage = "load" /\ h[w].pending = {}
    /\ LET rules == BuildRules(h[w].domains, h[w].keywords)
       IN /\ cache' = [loadedAt |-> now, rules |-> rules, seen |-> h[w].seen]
          /\ result' = [mail |-> h[w].mail, reason |-> Filter(rules, h[w].mail)]
    /\ h' = [h EXCEPT ![w] = Idle]
    /\ UNCHANGED <<tableVars, now, floor>>

\* Mutant: a query that fails counts as an empty table.
FailWithNoRules(w) ==
    /\ h[w].stage = "load"
    /\ cache' = [loadedAt |-> now, rules |-> BuildRules({}, {}), seen |-> Idle.seen]
    /\ h' = [h EXCEPT ![w] = Idle]
    /\ result' = None
    /\ UNCHANGED <<tableVars, now, floor>>

(* A query fails and apply throws.                                           *)
FailLoad(w) ==
    /\ h[w].stage = "load"
    /\ h' = [h EXCEPT ![w] = Idle]
    /\ result' = None
    /\ UNCHANGED <<tableVars, cache, now, floor>>

\* Mutant: the invalidation is left to the next expiry.
InvalidateNothing ==
    /\ cache # None
    /\ floor' = IF \A w \in Workers : h[w].stage = "idle" THEN version ELSE floor
    /\ result' = None
    /\ UNCHANGED <<tableVars, cache, h, now>>

InvalidateCache ==
    /\ cache # None
    /\ cache' = None
    /\ floor' = IF \A w \in Workers : h[w].stage = "idle" THEN version ELSE floor
    /\ result' = None
    /\ UNCHANGED <<tableVars, h, now>>

(* The process is replaced: its calls and its cache are gone.                *)
Restart ==
    /\ cache' = None
    /\ h' = [w \in Workers |-> Idle]
    /\ result' = None
    /\ UNCHANGED <<tableVars, now, floor>>

Next ==
    \/ Tick \/ InvalidateCache \/ Restart
    \/ \E r \in DomainRows : ChangeDomain(r)
    \/ \E r \in KeywordRows : ChangeKeyword(r)
    \/ \E w \in Workers, m \in Mails : ApplyCached(w, m) \/ StartLoad(w, m)
    \/ \E w \in Workers :
          ReadDomains(w) \/ ReadKeywords(w) \/ StoreRules(w) \/ FailLoad(w)

Spec == Init /\ [][Next]_vars

-----------------------------------------------------------------------------
(* What the tables may have been, going by the rows that have not changed    *)
(* for as long as rules may stay in use.                                     *)
Settled(r) == now - changed[r] >= CacheTtl + MaxQuery
LikelyTables(S, T) == {U \in SUBSET S : \A r \in S : Settled(r) => (r \in U <=> r \in T)}

(* A change of the rules takes effect within the life of the cache and the   *)
(* time of a load, in both directions: every verdict is that of tables whose *)
(* rows are the present ones, but for rows changed within that time.  So no  *)
(* mail passes on a row removed before, is dropped despite a row added       *)
(* before, or passes on another user's row, whichever loads overlap.         *)
RulesTakeEffect ==
    result # None =>
        \E D \in LikelyTables(DomainRows, domains),
           K \in LikelyTables(KeywordRows, keywords) :
              LET m == result.mail
                  theirs == {r \in D : r.isGlobal # "false" \/ r.userId = m.user}
                  hits == {r \in K : r.keyword \in m.words}
                  score == MapThenSumSet(Weight, hits)
              IN result.reason =
                    IF \E r \in theirs : r.domain \in m.domains THEN "domain_whitelist"
                    ELSE IF score >= MinKeywordScore THEN "keyword_match" ELSE "no_match"

(* The rules in use never go back to older ones, except that a load under    *)
(* way since before the cache was filled may overwrite it.                   *)
Older(c, d) == \E q \in Queries : c.seen[q] < d.seen[q]
RulesNeverGoBack ==
    [][cache # None /\ cache' # None /\ Older(cache', cache)
         => \E w \in Workers : h[w].stage = "load" /\ h[w].start <= cache.loadedAt]_vars

(* After an invalidation with no load under way, no rules from before it are *)
(* used again.  (A load under way brings them back: the cache is filled when *)
(* it ends.)                                                                 *)
InvalidationHolds ==
    cache # None => \A q \in Queries : cache.seen[q] >= floor

=============================================================================
