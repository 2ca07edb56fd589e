-------------------------- MODULE MailIngestProofs --------------------------
(* Theorems about MailIngest for every value of its constants.               *)
EXTENDS MailIngest, FiniteSetTheorems, TLAPS

USE IngestAssumption, WorkerAssumption

(* A message that is out for delivery is still in the subscription.          *)
LeaseHeld == lease # NoWorker => pending > 0
TypeInv == TypeOK /\ LeaseHeld

LEMMA BetweenType == ASSUME NEW lo, NEW hi PROVE Between(lo, hi) \subseteq Mails
  BY DEF Between

LEMMA EndsType == ASSUME NEW S, S \subseteq Mails
                  PROVE  Oldest(S) \subseteq S /\ Newest(S) \subseteq S
  BY DEF Oldest, Newest

LEMMA SpendType ==
  ASSUME TypeOK, NEW kind \in Faults, Spend(kind)
  PROVE  spent' \in [Faults -> Nat]
  BY DEF TypeOK, Spend

LEMMA IdleType == Idle \in Invocation
  BY DEF Idle, Invocation, Stages, Cursors, NoCursor

LEMMA HistoryIds ==
  ASSUME TypeOK, NEW w \in Workers
  PROVE  h[w].base \in Int /\ horizon \in Int /\ arrived \in Int
  BY DEF TypeOK, Invocation, Cursors, NoCursor

(* The account, the mailbox, the subscription and the tables keep their      *)
(* types, and a message out for delivery stays in the subscription, whatever *)
(* step is taken.                                                            *)
THEOREM TypeCorrect == Spec => []TypeInv
<1>1. Init => TypeInv
  BY IdleType DEF Init, TypeInv, TypeOK, LeaseHeld, Cursors, NoCursor, NoWatch, Mails
<1>2. TypeInv /\ [Next]_vars => TypeInv'
  <2> SUFFICES ASSUME TypeInv, [Next]_vars PROVE TypeInv'
    OBVIOUS
  <2> USE DEF TypeInv, TypeOK, LeaseHeld, mailboxVars, accountVars, queueVars, dbVars
  <2>1. CASE NewMail
    BY <2>1 DEF NewMail
  <2>2. CASE DeleteMail
    BY <2>2, BetweenType, SpendType DEF DeleteMail, Faults
  <2>3. CASE AgeMail
    <3>1. aged' \in 0..MaxMails
      BY <2>3, BetweenType DEF AgeMail, Mails
    <3> QED BY <2>3, <3>1, SpendType DEF AgeMail, Faults
  <2>4. CASE ExpireHistory
    <3>1. horizon' \in 0..MaxMails
      BY <2>4, BetweenType DEF ExpireHistory, Mails
    <3> QED BY <2>4, <3>1, SpendType DEF ExpireHistory, Faults
  <2>5. CASE ReceiveWebhook \/ SafetyPoll
    BY <2>5 DEF ReceiveWebhook, SafetyPoll, Publish
  <2>6. CASE AckDeadline
    BY <2>6, SpendType DEF AckDeadline, Faults
  <2>7. CASE DeadLetter
    BY <2>7 DEF DeadLetter
  <2>8. CASE RegisterWatch
    BY <2>8, SpendType DEF RegisterWatch, Faults, Cursors, NoCursor
  <2>9. CASE SaveWatch
    <3>1. watch' \in Cursors /\ cursor' \in Cursors
      BY <2>9 DEF SaveWatch, Cursors, NoWatch, NoCursor
    <3>2. skipped' \in [Reasons -> SUBSET Mails]
      BY <2>9, BetweenType DEF SaveWatch, Unrecorded, Reasons
    <3> QED BY <2>9, <3>1, <3>2 DEF SaveWatch
  <2>10. CASE Reconnect
    BY <2>10 DEF Reconnect
  <2>11. ASSUME NEW w \in Workers, Deliver(w) \/ Handler(w) \/ RejectToken(w) \/ Fail(w)
         PROVE  TypeInv'
    <3> USE <2>11
    <3>0. h[w] \in Invocation /\ w # NoWorker
      OBVIOUS
    <3>1. ASSUME Return(w) PROVE /\ h' \in [Workers -> Invocation]
                                 /\ lease' \in Workers \cup {NoWorker}
                                 /\ pending' \in Nat /\ attempts' \in Nat /\ LeaseHeld'
      BY <3>1, <3>0, IdleType DEF Return, Ack
    <3>2. ASSUME Throw(w) PROVE /\ h' \in [Workers -> Invocation]
                                /\ lease' \in Workers \cup {NoWorker}
                                /\ pending' \in Nat /\ attempts' \in Nat /\ LeaseHeld'
      BY <3>2, <3>0, IdleType DEF Throw, Nack
    <3>3. CASE Deliver(w)
      BY <3>3, <3>0 DEF Deliver, Invocation, Stages
    <3>4. CASE LoadActive(w)
      <4>1. CASE status # "active"
        BY <4>1, <3>4, <3>1 DEF LoadActive
      <4>2. CASE status = "active"
        BY <4>2, <3>4, <3>0 DEF LoadActive, Invocation, Stages
      <4> QED BY <4>1, <4>2
    <3>5. CASE ListHistory(w)
      <4>1. CASE h[w].base < horizon
        <5>1. h' = [h EXCEPT ![w].resynced = TRUE, ![w].stage = "resync"]
          <6>1. ~ (h[w].base >= horizon)
            BY <4>1, HistoryIds
          <6> QED BY <6>1, <3>5 DEF ListHistory
        <5>2. h' \in [Workers -> Invocation]
          BY <5>1, <3>0 DEF Invocation, Stages
        <5> QED BY <5>2, <3>5 DEF ListHistory
      <4>2. CASE h[w].base >= horizon
        <5> DEFINE found == Oldest(Between(h[w].base, arrived))
        <5>1. found \subseteq Mails
          BY BetweenType, EndsType
        <5>2. arrived \in Cursors
          BY DEF Cursors, NoCursor
        <5> HIDE DEF found
        <5>3. h' = [h EXCEPT ![w].listed = found, ![w].todo = found,
                             ![w].next = arrived, ![w].stage = "metadata"]
          BY <4>2, <3>5, <3>0 DEF ListHistory, found, Invocation, Cursors, NoCursor
        <5>4. h' \in [Workers -> Invocation]
          BY <5>1, <5>2, <5>3, <3>0 DEF Invocation, Stages
        <5> QED BY <5>4, <3>5 DEF ListHistory
      <4> QED BY <4>1, <4>2, <3>0 DEF Invocation, Cursors, NoCursor
    <3>6. CASE ListRecent(w)
      <4> DEFINE found == Newest(Between(aged, arrived) \ gone)
      <4>1. found \subseteq Mails
        BY BetweenType, EndsType
      <4> HIDE DEF found
      <4>2. h' = [h EXCEPT ![w].listed = found, ![w].todo = found,
                           ![w].stage = "profile"]
        BY <3>6 DEF ListRecent, found
      <4>3. h' \in [Workers -> Invocation]
        BY <4>1, <4>2, <3>0 DEF Invocation, Stages
      <4> QED BY <4>3, <3>6 DEF ListRecent
    <3>7. CASE GetProfile(w)
      <4>1. arrived \in Cursors
        BY DEF Cursors, NoCursor
      <4>2. h' \in [Workers -> Invocation]
        BY <4>1, <3>7, <3>0 DEF GetProfile, Invocation, Stages
      <4> QED BY <4>2, <3>7 DEF GetProfile
    <3>8. CASE FetchMetadata(w)
      <4>1. CASE h[w].listed \cap gone # {}
        BY <4>1, <3>8, <3>2 DEF FetchMetadata
      <4>2. CASE h[w].listed \cap gone = {}
        BY <4>2, <3>8, <3>0 DEF FetchMetadata, Invocation, Stages
      <4> QED BY <4>1, <4>2
    <3>9. CASE FindMail(w)
      <4> PICK m \in h[w].todo :
             \/ h' = [h EXCEPT ![w].todo = @ \ {m}]
             \/ h' = [h EXCEPT ![w].todo = @ \ {m}, ![w].mail = m, ![w].stage = "create"]
        BY <3>9 DEF FindMail
      <4>1. m \in 0..MaxMails
        BY <3>0 DEF Invocation, Mails
      <4>2. h' \in [Workers -> Invocation]
        BY <4>1, <3>0 DEF Invocation, Stages
      <4> QED BY <4>2, <3>9 DEF FindMail
    <3>10. CASE CreateRow(w)
      <4>1. h' \in [Workers -> Invocation]
        BY <3>10, <3>0 DEF CreateRow, Invocation, Stages
      <4>2. rows' \in [Mails -> Nat]
        BY <3>10, <3>0 DEF CreateRow
      <4> QED BY <4>1, <4>2, <3>10 DEF CreateRow
    <3>11. CASE PublishClassify(w)
      <4>1. h' \in [Workers -> Invocation]
        <5>1. 0 \in 0..MaxMails
          OBVIOUS
        <5> QED BY <5>1, <3>11, <3>0 DEF PublishClassify, Invocation, Stages
      <4>2. classify' \in [Mails -> Nat]
        <5> DEFINE m == h[w].mail
        <5>1. classify' = [classify EXCEPT ![m] = @ + 1]
          BY <3>11 DEF PublishClassify
        <5> HIDE DEF m
        <5>2. CASE m \in Mails
          BY <5>1, <5>2
        <5>3. CASE m \notin Mails
          <6>1. classify' = classify
            BY <5>1, <5>3
          <6> QED BY <6>1
        <5> QED BY <5>2, <5>3
      <4> QED BY <4>1, <4>2, <3>11 DEF PublishClassify
    <3>12. CASE SaveCursor(w)
      <4>1. cursor' \in Cursors
        BY <3>12, <3>0 DEF SaveCursor, Invocation
      <4>2. skipped' \in [Reasons -> SUBSET Mails]
        BY <3>12, BetweenType DEF SaveCursor, Unrecorded, Reasons
      <4> QED BY <4>1, <4>2, <3>12, <3>1 DEF SaveCursor
    <3>13. CASE RejectToken(w)
      <4>1. h' \in [Workers -> Invocation]
        BY <3>13, <3>0 DEF RejectToken, Invocation, Stages
      <4> QED BY <4>1, <3>13, SpendType DEF RejectToken, Faults
    <3>14. CASE MarkReauthRequired(w)
      BY <3>14, <3>1 DEF MarkReauthRequired
    <3>15. CASE Fail(w)
      BY <3>15, <3>2, SpendType DEF Fail, Faults
    <3> QED BY <2>11, <3>3, <3>4, <3>5, <3>6, <3>7, <3>8, <3>9, <3>10, <3>11,
               <3>12, <3>13, <3>14, <3>15 DEF Handler
  <2>12. CASE UNCHANGED vars
    BY <2>12 DEF vars
  <2> QED BY <2>1, <2>2, <2>3, <2>4, <2>5, <2>6, <2>7, <2>8, <2>9, <2>10, <2>11,
             <2>12 DEF Next
<1> QED BY <1>1, <1>2, PTL DEF Spec

(* Every variable keeps its type.                                            *)
THEOREM TypesHold == Spec => []TypeOK
<1>1. TypeInv => TypeOK
  BY DEF TypeInv
<1> QED BY <1>1, TypeCorrect, PTL

-----------------------------------------------------------------------------
(* The end of history.list that is kept holds the next MaxFetch mails.       *)
LEMMA OldestAreNext ==
  ASSUME NEW lo \in Int, lo >= 0, NEW hi \in Int, NEW m \in Between(lo, hi)
  PROVE  m \in Oldest(Between(lo, hi)) <=> m <= lo + MaxFetch
<1> DEFINE S == Between(lo, hi)
           T == {x \in S : x <= m}
<1>1. m \in Int /\ lo < m /\ m <= hi /\ m <= MaxMails
  BY DEF Between, Mails
<1>2. T = (lo + 1)..m
  BY <1>1 DEF Between, Mails
<1>3. Cardinality(T) = m - lo
  <2>1. lo + 1 \in Int /\ m \in Int /\ ~ (lo + 1 > m) /\ m - (lo + 1) + 1 = m - lo
    BY <1>1
  <2> HIDE DEF T
  <2> QED BY <1>2, <2>1, FS_Interval
<1>4. m \in Oldest(S) <=> Cardinality(T) <= MaxFetch
  BY DEF Oldest
<1> QED BY <1>1, <1>3, <1>4

(* The inductive invariant behind the claims on cursor and rows: what a      *)
(* handler knows at each stage, although the account, the mailbox and the    *)
(* tables move under it.                                                     *)
Fetched == {"metadata", "record", "create", "publish"}

\* A handler creates rows of passing mail, and the row it is publishing is
\* one no handler published and no other is publishing.
RowInHand(w) ==
    /\ h[w].stage \in {"create", "publish"} => h[w].mail \in Passing
    /\ At(w, "publish") => /\ rows[h[w].mail] = 1 /\ classify[h[w].mail] = 0
                           /\ \A v \in Workers : At(v, "publish") =>
                                v = w \/ h[v].mail # h[w].mail

\* Everything up to the cursor it loaded is covered, for good.
BaseCovered(w) == \A m \in Passing : m <= h[w].base => Covered(m)

\* Everything up to the cursor it will store is covered, still to be
\* recorded by it, or was never listed.
NextCovered(w) ==
    /\ h[w].stage \in {"profile", "metadata"} => h[w].todo = h[w].listed
    /\ h[w].stage \in Fetched => \A m \in Passing : m <= h[w].next =>
          \/ Covered(m) \/ m \in h[w].todo
          \/ At(w, "create") /\ h[w].mail = m
          \/ m \in Between(h[w].base, h[w].next) \ h[w].listed

\* A history fetch listed the MaxFetch mails next to its cursor, and no more.
ListedFirst(w) ==
    /\ h[w].stage \in {"resync", "profile"} => h[w].resynced
    /\ h[w].stage \in Fetched /\ ~ h[w].resynced =>
          \A m \in Between(h[w].base, h[w].next) :
             m \in h[w].listed <=> m <= h[w].base + MaxFetch

\* What it listed is recorded, or still to be recorded by it.
ListRecorded(w) ==
    h[w].stage \in Fetched =>
       \A m \in Passing \cap h[w].listed :
          \/ m \in h[w].todo \/ rows[m] > 0
          \/ At(w, "create") /\ h[w].mail = m

HandlerInv(w) == /\ RowInHand(w) /\ BaseCovered(w) /\ NextCovered(w)
                 /\ ListedFirst(w) /\ ListRecorded(w)

IngestInv ==
    /\ ClassifyAtMostOnce /\ CursorCovers
    /\ \A w \in Workers : /\ RowInHand(w) /\ BaseCovered(w) /\ NextCovered(w)
                          /\ ListedFirst(w) /\ ListRecorded(w)

(* What one handler knows survives every step that leaves it alone, deletes  *)
(* no row, forgets no skipped mail, and does not publish its mail.           *)
Grows == /\ \A m \in Mails : rows[m] > 0 => rows'[m] > 0
         /\ \A r \in Reasons : skipped[r] \subseteq skipped'[r]

LEMMA CoveredGrows ==
  ASSUME Grows, NEW m \in Mails, Covered(m) PROVE Covered(m)'
  BY DEF Grows, Covered

LEMMA HandlerFrame ==
  ASSUME Grows, NEW v \in Workers, HandlerInv(v), h'[v] = h[v], RowInHand(v)'
  PROVE  HandlerInv(v)'
<1>1. BaseCovered(v)'
  BY CoveredGrows DEF HandlerInv, BaseCovered
<1>2. NextCovered(v)'
  BY CoveredGrows DEF HandlerInv, NextCovered, At, Between
<1>3. ListedFirst(v)'
  BY DEF HandlerInv, ListedFirst, Between
<1>4. ListRecorded(v)'
  BY DEF HandlerInv, ListRecorded, At, Grows
<1> QED BY <1>1, <1>2, <1>3, <1>4 DEF HandlerInv

(* The same for the claims on one row in the hands of two handlers.          *)
LEMMA RowsFrame ==
  ASSUME NEW v \in Workers, RowInHand(v), h'[v] = h[v], UNCHANGED dbVars,
         \A u \in Workers : h'[u] # h[u] => h'[u].stage # "publish"
  PROVE  RowInHand(v)'
  BY DEF RowInHand, At, dbVars

LEMMA OthersFrame ==
  ASSUME IngestInv, Grows, NEW w \in Workers,
         \A v \in Workers \ {w} : h'[v] = h[v] /\ RowInHand(v)',
         HandlerInv(w)'
  PROVE  \A v \in Workers : HandlerInv(v)'
  BY HandlerFrame DEF IngestInv, HandlerInv

(* A step of one handler that touches neither the tables nor the cursor.     *)
LEMMA LocalStep ==
  ASSUME TypeInv, IngestInv, NEW w \in Workers,
         UNCHANGED <<rows, classify, skipped, cursor>>,
         \A v \in Workers \ {w} : h'[v] = h[v],
         h'[w].stage # "publish",
         HandlerInv(w)'
  PROVE  IngestInv'
<1>1. Grows
  BY DEF Grows
<1>2. \A v \in Workers \ {w} : RowInHand(v)'
  BY RowsFrame DEF IngestInv, dbVars
<1>3. \A v \in Workers : HandlerInv(v)'
  BY <1>1, <1>2, OthersFrame
<1>4. ClassifyAtMostOnce' /\ CursorCovers'
  BY DEF IngestInv, ClassifyAtMostOnce, CursorCovers, Covered
<1> QED BY <1>3, <1>4 DEF IngestInv, HandlerInv

(* An invocation that ends knows nothing, and nothing is claimed of it.      *)
LEMMA IdleStep ==
  ASSUME TypeInv, NEW w \in Workers, h' = [h EXCEPT ![w] = Idle]
  PROVE  HandlerInv(w)' /\ h'[w].stage # "publish"
<1>1. h'[w] = Idle
  BY DEF TypeInv, TypeOK
<1>2. \A m \in Passing : ~ (m <= NoCursor)
  BY DEF Mails, NoCursor
<1> QED BY <1>1, <1>2 DEF HandlerInv, RowInHand, BaseCovered, NextCovered, ListedFirst, ListRecorded,
           At, Idle, Fetched

(* A step that only moves a handler to a stage where nothing is in its hand. *)
LEMMA StageStep ==
  ASSUME TypeInv, IngestInv, NEW w \in Workers, NEW stage \in {"load", "reauth"},
         h' = [h EXCEPT ![w].stage = stage],
         UNCHANGED <<rows, classify, skipped, cursor>>
  PROVE  IngestInv'
<1>1. h'[w] = [h[w] EXCEPT !.stage = stage]
  BY DEF TypeInv, TypeOK
<1>2. h'[w].stage = stage /\ h'[w].base = h[w].base
  BY <1>1 DEF TypeInv, TypeOK, Invocation
<1>3. HandlerInv(w)'
  BY <1>2 DEF HandlerInv, IngestInv, RowInHand, BaseCovered, NextCovered, ListedFirst,
              ListRecorded,
              At, Fetched, Covered
<1>4. \A v \in Workers \ {w} : h'[v] = h[v]
  BY DEF TypeInv, TypeOK
<1> QED BY <1>2, <1>3, <1>4, LocalStep

-----------------------------------------------------------------------------
(* The steps of a handler, one lemma each.                                   *)
LEMMA LoadActiveStep ==
  ASSUME TypeInv, IngestInv, NEW w \in Workers, LoadActive(w) PROVE IngestInv'
<1>0. UNCHANGED <<rows, classify, skipped, cursor>>
  BY DEF LoadActive, accountVars, dbVars
<1>1. CASE status # "active"
  <2>1. h' = [h EXCEPT ![w] = Idle]
    BY <1>1 DEF LoadActive, Return
  <2> QED BY <1>0, <2>1, IdleStep, LocalStep DEF TypeInv, TypeOK
<1>2. CASE status = "active"
  <2> DEFINE stage == IF cursor = NoCursor THEN "resync" ELSE "list"
  <2>1. h' = [h EXCEPT ![w].base = cursor, ![w].resynced = (cursor = NoCursor),
                       ![w].stage = stage]
    BY <1>2 DEF LoadActive
  <2>2. /\ h'[w].base = cursor /\ h'[w].stage \in {"resync", "list"}
        /\ h'[w].stage = "resync" => h'[w].resynced
    BY <2>1 DEF TypeInv, TypeOK, Invocation
  <2>3. BaseCovered(w)'
    BY <1>0, <2>2 DEF BaseCovered, IngestInv, CursorCovers, Covered
  <2>4. HandlerInv(w)'
    BY <2>2, <2>3 DEF HandlerInv, RowInHand, NextCovered, ListedFirst, ListRecorded, At, Fetched
  <2>5. \A v \in Workers \ {w} : h'[v] = h[v]
    BY <2>1, SMTT(40) DEF TypeInv, TypeOK
  <2> QED BY <1>0, <2>2, <2>4, <2>5, LocalStep
<1> QED BY <1>1, <1>2

LEMMA ListHistoryStep ==
  ASSUME TypeInv, IngestInv, NEW w \in Workers, ListHistory(w) PROVE IngestInv'
<1>0. UNCHANGED <<rows, classify, skipped, cursor>>
  BY DEF ListHistory, accountVars, dbVars
<1>1. ASSUME h' = [h EXCEPT ![w].resynced = TRUE, ![w].stage = "resync"]
      PROVE  IngestInv'
  <2>1. h'[w].base = h[w].base /\ h'[w].stage = "resync" /\ h'[w].resynced
    BY <1>1 DEF TypeInv, TypeOK, Invocation
  <2>2. HandlerInv(w)'
    BY <1>0, <2>1 DEF IngestInv, HandlerInv, RowInHand, BaseCovered, Covered, NextCovered,
                ListedFirst, ListRecorded, At, Fetched
  <2>3. \A v \in Workers \ {w} : h'[v] = h[v]
    BY <1>1 DEF TypeInv, TypeOK
  <2> QED BY <1>0, <2>1, <2>2, <2>3, LocalStep
<1>2. ASSUME h[w].base >= horizon,
             NEW found, found = Oldest(Between(h[w].base, arrived)),
             h' = [h EXCEPT ![w].listed = found, ![w].todo = found,
                            ![w].next = arrived, ![w].stage = "metadata"]
      PROVE  IngestInv'
  <2>1. /\ h'[w].base = h[w].base /\ h'[w].next = arrived /\ h'[w].listed = found
        /\ h'[w].todo = found /\ h'[w].stage = "metadata"
    BY <1>2 DEF TypeInv, TypeOK, Invocation
  <2>2. h[w].base \in Int /\ h[w].base >= 0 /\ arrived \in Int
    BY <1>2, HistoryIds DEF TypeInv, TypeOK
  <2>3. BaseCovered(w)'
    BY <1>0, <2>1 DEF IngestInv, BaseCovered, Covered
  <2>4. NextCovered(w)'
    <3> SUFFICES ASSUME NEW m \in Passing, m <= arrived
                 PROVE  Covered(m)' \/ m \in found
                        \/ m \in Between(h[w].base, arrived) \ found
      BY <2>1 DEF NextCovered, Between
    <3>1. m \in Int /\ m \in Mails
      BY DEF Mails
    <3>2. CASE m <= h[w].base
      BY <3>2, <1>0 DEF IngestInv, BaseCovered, Covered
    <3>3. CASE ~ (m <= h[w].base)
      BY <3>3, <3>1, <2>2 DEF Between
    <3> QED BY <3>2, <3>3
  <2>5. ListedFirst(w)'
    <3>1. \A m \in Between(h[w].base, arrived) : m \in found <=> m <= h[w].base + MaxFetch
      BY <1>2, <2>2, OldestAreNext
    <3>2. Between(h'[w].base, h'[w].next) = Between(h[w].base, arrived)
      BY <2>1
    <3>3. Between(h[w].base, h[w].next)' = Between(h'[w].base, h'[w].next)
      BY DEF Between
    <3> QED BY <2>1, <3>1, <3>2, <3>3 DEF ListedFirst
  <2>6. HandlerInv(w)'
    BY <2>1, <2>3, <2>4, <2>5 DEF HandlerInv, RowInHand, ListRecorded, At
  <2>7. \A v \in Workers \ {w} : h'[v] = h[v]
    BY <1>2 DEF TypeInv, TypeOK
  <2> QED BY <1>0, <2>1, <2>6, <2>7, LocalStep
<1> QED BY <1>1, <1>2 DEF ListHistory

LEMMA ResyncStep ==
  ASSUME TypeInv, IngestInv, NEW w \in Workers, ListRecent(w) \/ GetProfile(w)
  PROVE  IngestInv'
<1>0. UNCHANGED <<rows, classify, skipped, cursor>>
  BY DEF ListRecent, GetProfile, accountVars, dbVars
<1>1. CASE ListRecent(w)
  <2> DEFINE found == Newest(Between(aged, arrived) \ gone)
  <2>1. h' = [h EXCEPT ![w].listed = found, ![w].todo = found, ![w].stage = "profile"]
    BY <1>1 DEF ListRecent
  <2> HIDE DEF found
  <2>2. /\ h'[w].base = h[w].base /\ h'[w].stage = "profile"
        /\ h'[w].todo = h'[w].listed /\ h'[w].resynced = h[w].resynced
    BY <2>1 DEF TypeInv, TypeOK, Invocation
  <2>3. HandlerInv(w)'
    BY <1>0, <1>1, <2>2 DEF ListRecent, IngestInv, HandlerInv, RowInHand, BaseCovered,
                      Covered, NextCovered, ListedFirst, ListRecorded, At, Fetched
  <2>4. \A v \in Workers \ {w} : h'[v] = h[v]
    BY <2>1 DEF TypeInv, TypeOK
  <2> QED BY <1>0, <2>2, <2>3, <2>4, LocalStep
<1>2. CASE GetProfile(w)
  <2>1. h' = [h EXCEPT ![w].next = arrived, ![w].stage = "metadata"]
    BY <1>2 DEF GetProfile
  <2>2. /\ h'[w].base = h[w].base /\ h'[w].next = arrived
        /\ h'[w].stage = "metadata" /\ h'[w].todo = h[w].todo
        /\ h'[w].listed = h[w].listed /\ h'[w].resynced = h[w].resynced
    BY <2>1 DEF TypeInv, TypeOK, Invocation
  <2>3. h[w].todo = h[w].listed
    BY <1>2 DEF GetProfile, IngestInv, NextCovered, At
  <2>4. BaseCovered(w)'
    BY <1>0, <2>2 DEF IngestInv, BaseCovered, Covered
  <2>5. NextCovered(w)'
    <3> SUFFICES ASSUME NEW m \in Passing, m <= arrived
                 PROVE  Covered(m)' \/ m \in h[w].listed
                        \/ m \in Between(h[w].base, arrived) \ h[w].listed
      BY <2>2, <2>3 DEF NextCovered, Between
    <3>1. m \in Int /\ m \in Mails /\ h[w].base \in Int
      BY HistoryIds DEF Mails, TypeInv
    <3>2. CASE m <= h[w].base
      BY <3>2, <1>0 DEF IngestInv, BaseCovered, Covered
    <3>3. CASE ~ (m <= h[w].base)
      BY <3>3, <3>1 DEF Between
    <3> QED BY <3>2, <3>3
  <2>6. ListedFirst(w)'
    BY <1>2, <2>2 DEF IngestInv, ListedFirst, GetProfile, At, Fetched
  <2>7. HandlerInv(w)'
    BY <2>2, <2>3, <2>4, <2>5, <2>6 DEF HandlerInv, RowInHand, ListRecorded, At
  <2>8. \A v \in Workers \ {w} : h'[v] = h[v]
    BY <2>1 DEF TypeInv, TypeOK
  <2> QED BY <1>0, <2>2, <2>7, <2>8, LocalStep
<1> QED BY <1>1, <1>2

LEMMA FetchMetadataStep ==
  ASSUME TypeInv, IngestInv, NEW w \in Workers, FetchMetadata(w) PROVE IngestInv'
<1>0. UNCHANGED <<rows, classify, skipped, cursor>>
  BY DEF FetchMetadata, accountVars, dbVars
<1>1. ASSUME Throw(w) PROVE IngestInv'
  <2>1. h' = [h EXCEPT ![w] = Idle]
    BY <1>1 DEF Throw
  <2> QED BY <1>0, <2>1, IdleStep, LocalStep DEF TypeInv, TypeOK
<1>2. ASSUME h' = [h EXCEPT ![w].stage = "record"] PROVE IngestInv'
  <2>1. h'[w] = [h[w] EXCEPT !.stage = "record"]
    BY <1>2 DEF TypeInv, TypeOK
  <2>2. /\ h'[w].base = h[w].base /\ h'[w].next = h[w].next
        /\ h'[w].stage = "record" /\ h'[w].todo = h[w].todo
        /\ h'[w].listed = h[w].listed /\ h'[w].resynced = h[w].resynced
    BY <2>1 DEF TypeInv, TypeOK, Invocation
  <2>3. h[w].stage = "metadata"
    BY DEF FetchMetadata, At
  <2>4. HandlerInv(w)'
    BY <1>0, <2>2, <2>3 DEF IngestInv, HandlerInv, RowInHand, BaseCovered, Covered,
                      NextCovered, ListedFirst, ListRecorded, At, Fetched, Between
  <2>5. \A v \in Workers \ {w} : h'[v] = h[v]
    BY <1>2 DEF TypeInv, TypeOK
  <2> QED BY <1>0, <2>2, <2>4, <2>5, LocalStep
<1> QED BY <1>1, <1>2 DEF FetchMetadata

LEMMA FindMailStep ==
  ASSUME TypeInv, IngestInv, NEW w \in Workers, FindMail(w) PROVE IngestInv'
<1>0. UNCHANGED <<rows, classify, skipped, cursor>>
  BY DEF FindMail, accountVars, dbVars
<1>1. PICK m \in h[w].todo :
        \/ /\ m \notin Passing \/ rows[m] > 0
           /\ h' = [h EXCEPT ![w].todo = @ \ {m}]
        \/ /\ m \in Passing /\ rows[m] = 0
           /\ h' = [h EXCEPT ![w].todo = @ \ {m}, ![w].mail = m, ![w].stage = "create"]
  BY DEF FindMail
<1>2. /\ h'[w].base = h[w].base /\ h'[w].next = h[w].next
      /\ h'[w].todo = h[w].todo \ {m}
      /\ h'[w].listed = h[w].listed /\ h'[w].resynced = h[w].resynced
      /\ h'[w].stage \in {"record", "create"}
      /\ h'[w].stage = "record" => m \notin Passing \/ rows[m] > 0
      /\ h'[w].stage = "create" => m \in Passing /\ h'[w].mail = m
  BY <1>1 DEF TypeInv, TypeOK, Invocation, FindMail, At
<1>3. h[w].stage = "record"
  BY DEF FindMail, At
<1>4. RowInHand(w)' /\ BaseCovered(w)' /\ ListedFirst(w)'
  BY <1>0, <1>2, <1>3 DEF IngestInv, RowInHand, BaseCovered, Covered, ListedFirst,
                      At, Fetched, Between
<1>5. NextCovered(w)'
  BY <1>0, <1>2, <1>3 DEF IngestInv, NextCovered, Covered, At, Fetched, Between
<1>6. ListRecorded(w)'
  BY <1>0, <1>2, <1>3 DEF IngestInv, ListRecorded, At, Fetched
<1>7. \A v \in Workers \ {w} : h'[v] = h[v]
  BY <1>1 DEF TypeInv, TypeOK
<1> QED BY <1>0, <1>2, <1>4, <1>5, <1>6, <1>7, LocalStep DEF HandlerInv

LEMMA CreateRowStep ==
  ASSUME TypeInv, IngestInv, NEW w \in Workers, CreateRow(w) PROVE IngestInv'
<1> DEFINE m == h[w].mail
<1>0. UNCHANGED <<classify, skipped, cursor>>
  BY DEF CreateRow, accountVars
<1>1. h[w].stage = "create" /\ m \in Passing /\ m \in Mails
  BY DEF CreateRow, At, IngestInv, RowInHand
<1>2. CASE rows[m] > 0
  <2>1. rows' = rows /\ h' = [h EXCEPT ![w].mail = 0, ![w].stage = "record"]
    BY <1>1, <1>2 DEF CreateRow, TypeInv, TypeOK
  <2>2. /\ h'[w].base = h[w].base /\ h'[w].next = h[w].next
        /\ h'[w].todo = h[w].todo /\ h'[w].stage = "record"
        /\ h'[w].listed = h[w].listed /\ h'[w].resynced = h[w].resynced
    BY <2>1 DEF TypeInv, TypeOK, Invocation
  <2>5. ListRecorded(w)'
    BY <1>1, <1>2, <2>1, <2>2 DEF IngestInv, ListRecorded, At, Fetched
  <2>3. HandlerInv(w)'
    BY <1>0, <1>1, <1>2, <2>1, <2>2, <2>5
       DEF IngestInv, HandlerInv, RowInHand, BaseCovered, Covered, NextCovered,
           ListedFirst, At, Fetched, Between
  <2>4. \A v \in Workers \ {w} : h'[v] = h[v]
    BY <2>1 DEF TypeInv, TypeOK
  <2> QED BY <1>0, <2>1, <2>2, <2>3, <2>4, LocalStep
<1>3. CASE ~ (rows[m] > 0)
  <2>1. rows[m] = 0 /\ classify[m] = 0
    BY <1>1, <1>3 DEF TypeInv, TypeOK, IngestInv, ClassifyAtMostOnce
  <2>2. rows' = [rows EXCEPT ![m] = @ + 1] /\ h' = [h EXCEPT ![w].stage = "publish"]
    BY <1>3 DEF CreateRow
  <2>3. /\ rows'[m] = 1
        /\ \A n \in Mails \ {m} : rows'[n] = rows[n]
    BY <1>1, <2>1, <2>2 DEF TypeInv, TypeOK
  <2>4. Grows
    BY <1>0, <2>1, <2>3 DEF Grows
  <2>5. /\ h'[w].base = h[w].base /\ h'[w].next = h[w].next /\ h'[w].mail = m
        /\ h'[w].todo = h[w].todo /\ h'[w].stage = "publish"
        /\ h'[w].listed = h[w].listed /\ h'[w].resynced = h[w].resynced
    BY <2>2 DEF TypeInv, TypeOK, Invocation
  <2>6. \A v \in Workers \ {w} : h'[v] = h[v]
    BY <2>2 DEF TypeInv, TypeOK
  <2>7. ASSUME NEW v \in Workers \ {w}
        PROVE  RowInHand(v)' /\ (h[v].stage = "publish" => h[v].mail # m)
    <3>1. h[v].stage = "publish" => h[v].mail # m /\ h[v].mail \in Mails
      BY <2>1 DEF IngestInv, RowInHand, At
    <3>2. h[v].stage = "publish" => rows'[h[v].mail] = 1 /\ classify'[h[v].mail] = 0
      BY <1>0, <2>3, <3>1 DEF IngestInv, RowInHand, At
    <3>3. ASSUME h[v].stage = "publish", NEW u \in Workers, h'[u].stage = "publish"
          PROVE  u = v \/ h'[u].mail # h[v].mail
      <4>1. CASE u = w
        BY <4>1, <3>1, <3>3, <2>5
      <4>2. CASE u # w
        BY <4>2, <3>3, <2>6 DEF IngestInv, RowInHand, At
      <4> QED BY <4>1, <4>2
    <3>4. h[v].stage \in {"create", "publish"} => h[v].mail \in Passing
      BY DEF IngestInv, RowInHand
    <3>5. h'[v] = h[v]
      BY <2>6
    <3> QED BY <3>1, <3>2, <3>3, <3>4, <3>5 DEF RowInHand, At
  <2>8. RowInHand(w)'
    BY <1>0, <1>1, <2>1, <2>3, <2>5, <2>6, <2>7 DEF RowInHand, At
  <2>9. BaseCovered(w)'
    BY <2>4, <2>5, CoveredGrows DEF IngestInv, BaseCovered
  <2>10. NextCovered(w)'
    <3>1. ASSUME NEW n \in Mails, n = m PROVE Covered(n)'
      BY <2>3, <3>1 DEF Covered
    <3>2. ASSUME NEW n \in Passing, n <= h[w].next
          PROVE  Covered(n)' \/ n \in h[w].todo
                 \/ n \in Between(h[w].base, h[w].next) \ h[w].listed
      <4>1. \/ Covered(n) \/ n \in h[w].todo \/ n = m
            \/ n \in Between(h[w].base, h[w].next) \ h[w].listed
        BY <1>1, <3>2 DEF IngestInv, NextCovered, Fetched
      <4>2. n \in Mails
        OBVIOUS
      <4> QED BY <2>4, <3>1, <4>1, <4>2, CoveredGrows
    <3> QED BY <2>5, <3>2 DEF NextCovered, Between
  <2>11. ListedFirst(w)'
    BY <1>1, <2>5 DEF IngestInv, ListedFirst, Fetched, Between
  <2>15. ListRecorded(w)'
    BY <1>1, <2>3, <2>4, <2>5 DEF IngestInv, ListRecorded, Fetched, At, Grows
  <2>12. \A v \in Workers : HandlerInv(v)'
    BY <2>4, <2>6, <2>7, <2>8, <2>9, <2>10, <2>11, <2>15, OthersFrame DEF HandlerInv
  <2>13. ClassifyAtMostOnce'
    BY <1>0, <2>1, <2>3 DEF IngestInv, ClassifyAtMostOnce
  <2>14. CursorCovers'
    BY <1>0, <2>4, CoveredGrows DEF IngestInv, CursorCovers
  <2> QED BY <2>12, <2>13, <2>14 DEF IngestInv, HandlerInv
<1> QED BY <1>2, <1>3

LEMMA PublishClassifyStep ==
  ASSUME TypeInv, IngestInv, NEW w \in Workers, PublishClassify(w) PROVE IngestInv'
<1> DEFINE m == h[w].mail
<1>0. UNCHANGED <<rows, skipped, cursor>>
  BY DEF PublishClassify, accountVars
<1>1. /\ h[w].stage = "publish" /\ m \in Mails
      /\ rows[m] = 1 /\ classify[m] = 0
  BY DEF PublishClassify, At, IngestInv, RowInHand
<1>2. /\ classify' = [classify EXCEPT ![m] = @ + 1]
      /\ h' = [h EXCEPT ![w].mail = 0, ![w].stage = "record"]
  BY DEF PublishClassify
<1>3. classify'[m] = 1 /\ \A n \in Mails \ {m} : classify'[n] = classify[n]
  BY <1>1, <1>2 DEF TypeInv, TypeOK
<1>4. Grows
  BY <1>0 DEF Grows
<1>5. /\ h'[w].base = h[w].base /\ h'[w].next = h[w].next
      /\ h'[w].todo = h[w].todo /\ h'[w].stage = "record"
      /\ h'[w].listed = h[w].listed /\ h'[w].resynced = h[w].resynced
  BY <1>2 DEF TypeInv, TypeOK, Invocation
<1>6. \A v \in Workers \ {w} : h'[v] = h[v]
  BY <1>2 DEF TypeInv, TypeOK
<1>7. ASSUME NEW v \in Workers \ {w} PROVE RowInHand(v)'
  <2>1. h[v].stage = "publish" => h[v].mail # m /\ h[v].mail \in Mails
    BY <1>1 DEF IngestInv, RowInHand, At
  <2> QED BY <1>0, <1>3, <1>5, <1>6, <2>1 DEF IngestInv, RowInHand, At
<1>8. HandlerInv(w)'
  BY <1>0, <1>1, <1>5 DEF IngestInv, HandlerInv, RowInHand, BaseCovered, Covered,
                      NextCovered, ListedFirst, ListRecorded, At, Fetched, Between
<1>9. \A v \in Workers : HandlerInv(v)'
  BY <1>4, <1>6, <1>7, <1>8, OthersFrame
<1>10. ClassifyAtMostOnce'
  BY <1>0, <1>1, <1>3 DEF IngestInv, ClassifyAtMostOnce
<1>11. CursorCovers'
  BY <1>0 DEF IngestInv, CursorCovers, Covered
<1> QED BY <1>9, <1>10, <1>11 DEF IngestInv, HandlerInv

LEMMA SaveCursorStep ==
  ASSUME TypeInv, IngestInv, NEW w \in Workers, SaveCursor(w) PROVE IngestInv'
<1> DEFINE reason == IF h[w].resynced THEN "resync" ELSE "truncated"
           missed == Between(h[w].base, h[w].next) \ h[w].listed
<1>0. UNCHANGED dbVars /\ rows' = rows
  BY DEF SaveCursor, dbVars
<1>1. /\ h[w].stage = "record" /\ h[w].todo = {}
      /\ cursor' = h[w].next
      /\ h' = [h EXCEPT ![w] = Idle]
  BY DEF SaveCursor, At, Return
<1>2. skipped' = [skipped EXCEPT ![reason] = @ \cup Unrecorded(missed)]
  BY DEF SaveCursor
<1>3. reason \in Reasons
  BY DEF Reasons
<1>4. /\ skipped'[reason] = skipped[reason] \cup Unrecorded(missed)
      /\ \A r \in Reasons \ {reason} : skipped'[r] = skipped[r]
  BY <1>2, <1>3 DEF TypeInv, TypeOK
<1>5. Grows
  BY <1>0, <1>4 DEF Grows
<1>6. CursorCovers'
  <2> SUFFICES ASSUME NEW m \in Passing, m <= h[w].next PROVE Covered(m)'
    BY <1>1 DEF CursorCovers
  <2>1. Covered(m) \/ m \in missed
    BY <1>1 DEF IngestInv, NextCovered, At, Fetched
  <2>2. rows[m] > 0 \/ rows[m] = 0
    BY DEF TypeInv, TypeOK
  <2>3. CASE m \in missed /\ rows[m] = 0
    BY <1>3, <1>4, <2>3 DEF Unrecorded, Covered
  <2> QED BY <1>5, <2>1, <2>2, <2>3, CoveredGrows DEF Covered
<1>8. ClassifyAtMostOnce'
  BY <1>0 DEF IngestInv, ClassifyAtMostOnce, dbVars
<1>9. HandlerInv(w)' /\ h'[w].stage # "publish"
  BY <1>1, IdleStep
<1>10. \A v \in Workers \ {w} : h'[v] = h[v]
  BY <1>1 DEF TypeInv, TypeOK
<1>11. \A v \in Workers : HandlerInv(v)'
  BY <1>0, <1>5, <1>9, <1>10, RowsFrame, OthersFrame DEF IngestInv
<1> QED BY <1>6, <1>8, <1>11 DEF IngestInv, HandlerInv

LEMMA SaveWatchStep ==
  ASSUME TypeInv, IngestInv, SaveWatch PROVE IngestInv'
<1>0. UNCHANGED dbVars /\ rows' = rows /\ h' = h
  BY DEF SaveWatch, dbVars
<1>1. /\ skipped'["watch"] = skipped["watch"] \cup Unrecorded(Between(cursor, watch))
      /\ \A r \in Reasons \ {"watch"} : skipped'[r] = skipped[r]
      /\ cursor' = watch
  BY DEF SaveWatch, TypeInv, TypeOK, Reasons
<1>2. Grows
  BY <1>0, <1>1 DEF Grows
<1>3. CursorCovers'
  <2> SUFFICES ASSUME NEW m \in Passing, m <= watch PROVE Covered(m)'
    BY <1>1 DEF CursorCovers
  <2>1. m \in Mails /\ m \in Int /\ cursor \in Int
    BY DEF Mails, TypeInv, TypeOK, Cursors, NoCursor
  <2>2. CASE m <= cursor
    BY <1>2, <2>1, <2>2, CoveredGrows DEF IngestInv, CursorCovers
  <2>3. CASE ~ (m <= cursor)
    <3>1. m \in Between(cursor, watch)
      BY <2>1, <2>3 DEF Between
    <3>2. rows[m] > 0 \/ m \in Unrecorded(Between(cursor, watch))
      BY <3>1, <2>1 DEF Unrecorded, TypeInv, TypeOK
    <3> QED BY <1>0, <1>1, <3>2 DEF Covered, Reasons
  <2> QED BY <2>2, <2>3
<1>4. ClassifyAtMostOnce'
  BY <1>0 DEF IngestInv, ClassifyAtMostOnce, dbVars
<1>5. \A v \in Workers : HandlerInv(v)'
  <2> SUFFICES ASSUME NEW v \in Workers PROVE HandlerInv(v)'
    OBVIOUS
  <2>1. RowInHand(v)'
    BY <1>0, RowsFrame DEF IngestInv
  <2> QED BY <1>0, <1>2, <2>1, HandlerFrame DEF IngestInv, HandlerInv
<1> QED BY <1>3, <1>4, <1>5 DEF IngestInv, HandlerInv

(* A step outside the handlers and the account's cursor.                     *)
LEMMA OutsideStep ==
  ASSUME IngestInv, UNCHANGED <<h, rows, classify, skipped, cursor>>
  PROVE  IngestInv'
  BY DEF IngestInv, ClassifyAtMostOnce, CursorCovers, Covered,
         RowInHand, BaseCovered, NextCovered, ListedFirst, ListRecorded, At, Between

-----------------------------------------------------------------------------
(* Every step of the worker preserves what the handlers know: the inductive  *)
(* argument behind the theorems below.                                       *)
LEMMA IngestInvStep == TypeInv /\ IngestInv /\ [Next]_vars => IngestInv'
<1> SUFFICES ASSUME TypeInv, IngestInv, [Next]_vars PROVE IngestInv'
  OBVIOUS
<1> USE DEF mailboxVars, accountVars, queueVars, dbVars
<1>1. CASE NewMail \/ DeleteMail \/ AgeMail \/ ExpireHistory
  BY <1>1, OutsideStep DEF NewMail, DeleteMail, AgeMail, ExpireHistory
<1>2. CASE ReceiveWebhook \/ SafetyPoll \/ AckDeadline \/ DeadLetter
  BY <1>2, OutsideStep DEF ReceiveWebhook, SafetyPoll, Publish, AckDeadline, DeadLetter
<1>3. CASE RegisterWatch \/ Reconnect
  BY <1>3, OutsideStep DEF RegisterWatch, Reconnect
<1>4. CASE SaveWatch
  BY <1>4, SaveWatchStep
<1>5. ASSUME NEW w \in Workers, Deliver(w) \/ RejectToken(w) PROVE IngestInv'
  BY <1>5, StageStep DEF Deliver, RejectToken
<1>6. ASSUME NEW w \in Workers, Fail(w) \/ MarkReauthRequired(w) PROVE IngestInv'
  <2>1. h' = [h EXCEPT ![w] = Idle] /\ UNCHANGED <<rows, classify, skipped, cursor>>
    BY <1>6 DEF Fail, MarkReauthRequired, Return, Throw
  <2> QED BY <2>1, IdleStep, LocalStep DEF TypeInv, TypeOK
<1>7. ASSUME NEW w \in Workers, Handler(w) PROVE IngestInv'
  BY <1>6, <1>7, LoadActiveStep, ListHistoryStep, ResyncStep, FetchMetadataStep,
     FindMailStep, CreateRowStep, PublishClassifyStep, SaveCursorStep DEF Handler
<1>8. CASE UNCHANGED vars
  BY <1>8, OutsideStep DEF vars
<1> QED BY <1>1, <1>2, <1>3, <1>4, <1>5, <1>6, <1>7, <1>8 DEF Next

LEMMA IngestInvInit == Init => IngestInv
  BY DEF Init, IngestInv, ClassifyAtMostOnce, CursorCovers,
         Covered, RowInHand, BaseCovered, NextCovered, ListedFirst, ListRecorded, At, Fetched, Idle,
         NoCursor, Reasons, Mails

(* What each handler knows at its stage stays true although the account, the *)
(* mailbox and the tables move under it (MailIngestService.handle).          *)
THEOREM IngestInvariant == Spec => []IngestInv
  BY TypeCorrect, IngestInvInit, IngestInvStep, PTL DEF Spec

(* A mail gets one row and is published at most once, for any number of      *)
(* handlers, redeliveries, failures and mails.                               *)
THEOREM ClassifyOnce == Spec => []ClassifyAtMostOnce
<1>1. IngestInv => ClassifyAtMostOnce
  BY DEF IngestInv
<1> QED BY <1>1, IngestInvariant, PTL

(* The stored cursor passes a passing mail without a row only where a watch  *)
(* response, a truncated fetch or a resync moved it.                         *)
THEOREM CursorNeverPassesUnrecorded == Spec => []CursorCovers
<1>1. IngestInv => CursorCovers
  BY DEF IngestInv
<1> QED BY <1>1, IngestInvariant, PTL

(* Of the steps of the worker only SaveCursor writes mail off as truncated.  *)
LEMMA TruncationStep ==
  ASSUME TypeInv, IngestInv, NEW w \in Workers, SaveCursor(w),
         NEW m \in skipped'["truncated"] \ skipped["truncated"]
  PROVE  /\ At(w, "record") /\ h'[w] = Idle
         /\ h[w].base + MaxFetch < m
         /\ \A x \in Passing \cap Between(h[w].base, h[w].base + MaxFetch) : rows[x] > 0
<1> DEFINE missed == Between(h[w].base, h[w].next) \ h[w].listed
<1>1. h[w].stage = "record" /\ h[w].todo = {} /\ At(w, "record") /\ h'[w] = Idle
  BY DEF SaveCursor, At, Return, TypeInv, TypeOK
<1>2. ~ h[w].resynced /\ m \in missed
  BY DEF SaveCursor, TypeInv, TypeOK, Reasons, Unrecorded
<1>3. \A x \in Between(h[w].base, h[w].next) : x \in h[w].listed <=> x <= h[w].base + MaxFetch
  BY <1>1, <1>2 DEF IngestInv, ListedFirst, Fetched
<1>4. h[w].base \in Int /\ h[w].next \in Int /\ m \in Int /\ m <= h[w].next
  BY <1>2 DEF TypeInv, TypeOK, Invocation, Cursors, NoCursor, Between, Mails
<1>5. h[w].base + MaxFetch < m
  BY <1>2, <1>3, <1>4
<1>6. ASSUME NEW x \in Passing \cap Between(h[w].base, h[w].base + MaxFetch)
      PROVE  rows[x] > 0
  <2>1. x \in Between(h[w].base, h[w].next) /\ x <= h[w].base + MaxFetch
    BY <1>4, <1>5 DEF Between, Mails
  <2> QED BY <1>1, <1>3, <2>1 DEF IngestInv, ListRecorded, Fetched, At
<1> QED BY <1>1, <1>5, <1>6

LEMMA TruncatedFrame ==
  ASSUME TypeInv, [Next]_vars, \A w \in Workers : ~ SaveCursor(w)
  PROVE  skipped'["truncated"] = skipped["truncated"]
<1>1. CASE SaveWatch
  BY <1>1 DEF SaveWatch, TypeInv, TypeOK, Reasons
<1>2. CASE UNCHANGED skipped
  BY <1>2
<1>3. CASE NewMail \/ DeleteMail \/ AgeMail \/ ExpireHistory \/ ReceiveWebhook \/ SafetyPoll
           \/ AckDeadline \/ DeadLetter \/ RegisterWatch \/ Reconnect
  BY <1>2, <1>3 DEF NewMail, DeleteMail, AgeMail, ExpireHistory, ReceiveWebhook, SafetyPoll,
         Publish, AckDeadline, DeadLetter, RegisterWatch, Reconnect, accountVars
<1>4. ASSUME NEW w \in Workers, Deliver(w) \/ Handler(w) \/ RejectToken(w) \/ Fail(w)
      PROVE  UNCHANGED skipped
  BY <1>4 DEF Deliver, Handler, LoadActive, ListHistory, ListRecent, GetProfile, FetchMetadata,
         FindMail, CreateRow, PublishClassify, MarkReauthRequired, RejectToken, Fail, accountVars
<1>5. CASE UNCHANGED vars
  BY <1>2, <1>5 DEF vars, accountVars
<1> QED BY <1>1, <1>2, <1>3, <1>4, <1>5 DEF Next

(* What a history fetch makes the cursor pass unrecorded lies behind the     *)
(* MaxFetch mails next to the cursor it read, and those are all recorded.    *)
THEOREM TruncationOnlyOnOverflow == Spec => TruncationNeedsOverflow
<1>1. TypeInv /\ IngestInv /\ [Next]_vars =>
        \A m \in skipped'["truncated"] \ skipped["truncated"] :
          \E w \in Workers :
             /\ At(w, "record") /\ h'[w] = Idle
             /\ h[w].base + MaxFetch < m
             /\ \A x \in Passing \cap Between(h[w].base, h[w].base + MaxFetch) :
                   rows[x] > 0
  BY TruncationStep, TruncatedFrame
<1> QED BY <1>1, TypeCorrect, IngestInvariant, PTL DEF Spec, TruncationNeedsOverflow

(* Ingestion implements MailLedger: each step records one mail, hands over   *)
(* one recorded mail, or changes nothing the classifier sees.                *)
THEOREM ImplementsLedger == Spec => LedgerSpec
<1>1. Init => Ledger!Init
  BY DEF Init, Ledger!Init
<1>2. TypeInv /\ IngestInv /\ [Next]_vars => [Ledger!Next]_(Ledger!ledgerVars)
  <2> SUFFICES ASSUME TypeInv, IngestInv, [Next]_vars, ~ UNCHANGED Ledger!ledgerVars
               PROVE  Ledger!Next
    BY SMTT(40)
  <2> USE DEF mailboxVars, accountVars, queueVars, dbVars, Ledger!ledgerVars
  <2>1. PICK w \in Workers : CreateRow(w) \/ PublishClassify(w)
    BY DEF Next, vars, NewMail, DeleteMail, AgeMail, ExpireHistory, ReceiveWebhook,
           SafetyPoll, Publish, AckDeadline, DeadLetter, RegisterWatch, SaveWatch,
           Reconnect, Deliver, Handler, LoadActive, ListHistory, ListRecent, GetProfile,
           FetchMetadata, FindMail, SaveCursor, MarkReauthRequired, RejectToken, Fail
  <2> DEFINE m == h[w].mail
  <2>2. CASE CreateRow(w)
    <3>1. rows[m] = 0 /\ rows' = [rows EXCEPT ![m] = 1] /\ UNCHANGED classify
      BY <2>2 DEF CreateRow
    <3>2. m \in Mails
      BY <2>2 DEF CreateRow, At, IngestInv, RowInHand
    <3> QED BY <3>1, <3>2 DEF Ledger!Next, Ledger!Record
  <2>3. CASE PublishClassify(w)
    <3>1. m \in Mails /\ rows[m] = 1 /\ classify[m] = 0
      BY <2>3 DEF PublishClassify, At, IngestInv, RowInHand
    <3>2. classify' = [classify EXCEPT ![m] = 1] /\ UNCHANGED rows
      BY <2>3, <3>1 DEF PublishClassify
    <3> QED BY <3>1, <3>2 DEF Ledger!Next, Ledger!HandOver
  <2> QED BY <2>1, <2>2, <2>3
<1> QED BY <1>1, <1>2, TypeCorrect, IngestInvariant, PTL DEF Spec, LedgerSpec, Ledger!Spec

-----------------------------------------------------------------------------
(* Orphans: which steps leave a recorded mail unpublished, and their number. *)
LEMMA OrphansFrame ==
  ASSUME UNCHANGED dbVars,
         \A v \in Workers : At(v, "publish") => h'[v] = h[v]
  PROVE  Orphans' \subseteq Orphans
  BY DEF Orphans, At, dbVars

LEMMA CreateRowOrphans ==
  ASSUME TypeInv, IngestInv, NEW w \in Workers, CreateRow(w)
  PROVE  Orphans' \subseteq Orphans
<1> DEFINE m == h[w].mail
<1>1. h[w].stage = "create" /\ m \in Mails /\ classify' = classify
  BY DEF CreateRow, At, IngestInv, RowInHand
<1>2. \A v \in Workers \ {w} : h'[v] = h[v]
  BY DEF CreateRow, TypeInv, TypeOK
<1>3. CASE rows' = rows
  BY <1>1, <1>2, <1>3, OrphansFrame DEF At, dbVars
<1>4. CASE rows' = [rows EXCEPT ![m] = @ + 1] /\ h' = [h EXCEPT ![w].stage = "publish"]
  <2>1. h'[w].stage = "publish" /\ h'[w].mail = m
    BY <1>4 DEF TypeInv, TypeOK, Invocation
  <2>2. \A n \in Mails \ {m} : rows'[n] = rows[n]
    BY <1>4 DEF TypeInv, TypeOK
  <2> QED BY <1>1, <1>2, <2>1, <2>2 DEF Orphans, At
<1> QED BY <1>3, <1>4 DEF CreateRow

LEMMA PublishOrphans ==
  ASSUME TypeInv, IngestInv, NEW w \in Workers, PublishClassify(w)
  PROVE  Orphans' \subseteq Orphans
<1> DEFINE m == h[w].mail
<1>1. m \in Mails /\ rows[m] = 1 /\ classify[m] = 0 /\ rows' = rows
  BY DEF PublishClassify, At, IngestInv, RowInHand
<1>2. classify'[m] = 1 /\ \A n \in Mails \ {m} : classify'[n] = classify[n]
  BY <1>1 DEF PublishClassify, TypeInv, TypeOK
<1>3. \A v \in Workers \ {w} : h'[v] = h[v]
  BY DEF PublishClassify, TypeInv, TypeOK
<1> QED BY <1>1, <1>2, <1>3 DEF Orphans, At

LEMMA FailOrphans ==
  ASSUME TypeInv, NEW w \in Workers, Fail(w)
  PROVE  /\ Orphans' \subseteq Orphans \cup {h[w].mail}
         /\ spent'["fail"] = spent["fail"] + 1
<1>1. UNCHANGED dbVars /\ \A v \in Workers \ {w} : h'[v] = h[v]
  BY DEF Fail, Throw, dbVars, TypeInv, TypeOK
<1>2. Orphans' \subseteq Orphans \cup {h[w].mail}
  BY <1>1 DEF Orphans, At, dbVars
<1> QED BY <1>2 DEF Fail, Spend, Faults, TypeInv, TypeOK

(* Failures are only ever counted up.                                        *)
LEMMA FaultsCount ==
  ASSUME TypeInv, [Next]_vars
  PROVE  spent'["fail"] >= spent["fail"]
<1>1. spent \in [Faults -> Nat] /\ "fail" \in Faults
  BY DEF TypeInv, TypeOK, Faults
<1>2. ASSUME NEW kind \in Faults, Spend(kind) PROVE spent'["fail"] >= spent["fail"]
  <2>1. CASE kind = "fail"
    BY <1>1, <1>2, <2>1 DEF Spend
  <2>2. CASE kind # "fail"
    BY <1>1, <1>2, <2>2 DEF Spend
  <2> QED BY <2>1, <2>2
<1>3. CASE UNCHANGED spent
  BY <1>1, <1>3
<1>4. CASE DeleteMail \/ AgeMail \/ ExpireHistory \/ AckDeadline \/ RegisterWatch
  BY <1>2, <1>4 DEF DeleteMail, AgeMail, ExpireHistory, AckDeadline, RegisterWatch, Faults
<1>5. ASSUME NEW w \in Workers, RejectToken(w) \/ Fail(w)
      PROVE  spent'["fail"] >= spent["fail"]
  BY <1>2, <1>5 DEF RejectToken, Fail, Faults
<1>6. CASE NewMail \/ ReceiveWebhook \/ SafetyPoll \/ DeadLetter \/ SaveWatch \/ Reconnect
  BY <1>3, <1>6, SMTT(40) DEF NewMail, ReceiveWebhook, SafetyPoll, Publish, DeadLetter, SaveWatch,
                    Reconnect
<1>7. ASSUME NEW w \in Workers, Deliver(w) \/ Handler(w)
      PROVE  spent'["fail"] >= spent["fail"]
  BY <1>3, <1>7 DEF Deliver, Handler, LoadActive, ListHistory, ListRecent, GetProfile,
         FetchMetadata, FindMail, CreateRow, PublishClassify, SaveCursor, MarkReauthRequired
<1>8. CASE UNCHANGED vars
  BY <1>3, <1>8 DEF vars
<1> QED BY <1>4, <1>5, <1>6, <1>7, <1>8 DEF Next

LEMMA OrphansOfStep ==
  ASSUME TypeInv, IngestInv, [Next]_vars
  PROVE  \/ Orphans' \subseteq Orphans
         \/ \E w \in Workers : /\ Orphans' \subseteq Orphans \cup {h[w].mail}
                               /\ spent'["fail"] = spent["fail"] + 1
<1>1. CASE UNCHANGED <<h, dbVars>>
  BY <1>1, OrphansFrame
<1>2. CASE NewMail \/ DeleteMail \/ AgeMail \/ ExpireHistory \/ ReceiveWebhook \/ SafetyPoll
           \/ AckDeadline \/ DeadLetter \/ RegisterWatch \/ SaveWatch \/ Reconnect
  BY <1>1, <1>2 DEF NewMail, DeleteMail, AgeMail, ExpireHistory, ReceiveWebhook, SafetyPoll,
         Publish, AckDeadline, DeadLetter, RegisterWatch, SaveWatch, Reconnect
<1>3. ASSUME NEW w \in Workers,
             \/ Deliver(w) \/ LoadActive(w) \/ ListHistory(w) \/ ListRecent(w) \/ GetProfile(w)
             \/ FetchMetadata(w) \/ FindMail(w) \/ SaveCursor(w) \/ MarkReauthRequired(w)
             \/ RejectToken(w)
      PROVE  Orphans' \subseteq Orphans
  <2>1. UNCHANGED dbVars /\ ~ At(w, "publish")
    BY <1>3 DEF Deliver, LoadActive, ListHistory, ListRecent, GetProfile, FetchMetadata,
           FindMail, SaveCursor, MarkReauthRequired, RejectToken, At, dbVars
  <2>2. \A v \in Workers \ {w} : h'[v] = h[v]
    BY <1>3 DEF Deliver, LoadActive, ListHistory, ListRecent, GetProfile, FetchMetadata,
           FindMail, SaveCursor, MarkReauthRequired, RejectToken, Return, Throw,
           TypeInv, TypeOK
  <2> QED BY <2>1, <2>2, OrphansFrame, SMTT(40)
<1>4. ASSUME NEW w \in Workers, CreateRow(w) \/ PublishClassify(w)
      PROVE  Orphans' \subseteq Orphans
  BY <1>4, CreateRowOrphans, PublishOrphans
<1>5. ASSUME NEW w \in Workers, Fail(w)
      PROVE  /\ Orphans' \subseteq Orphans \cup {h[w].mail}
             /\ spent'["fail"] = spent["fail"] + 1
  BY <1>5, FailOrphans
<1>6. CASE UNCHANGED vars
  BY <1>1, <1>6 DEF vars
<1> QED BY <1>2, <1>3, <1>4, <1>5, <1>6 DEF Next, Handler

(* However often deliveries are repeated or overrun, at most one recorded    *)
(* mail per failed handler is left unpublished.                              *)
THEOREM OrphansAreFailures == Spec => []OrphansBounded
<1>1. Init => OrphansBounded
  <2> SUFFICES ASSUME Init PROVE OrphansBounded
    OBVIOUS
  <2>1. Orphans = {}
    BY DEF Init, Orphans
  <2>2. spent["fail"] = 0
    BY DEF Init, Faults
  <2> QED BY <2>1, <2>2, FS_EmptySet DEF OrphansBounded
<1>2. TypeInv /\ TypeInv' /\ IngestInv /\ OrphansBounded /\ [Next]_vars => OrphansBounded'
  <2> SUFFICES ASSUME TypeInv, TypeInv', IngestInv, OrphansBounded, [Next]_vars
               PROVE  OrphansBounded'
    OBVIOUS
  <2>1. Orphans \subseteq Mails /\ IsFiniteSet(Mails)
    BY FS_Interval DEF Orphans, Mails
  <2>2. IsFiniteSet(Orphans) /\ Cardinality(Orphans) \in Nat
    BY <2>1, FS_Subset, FS_CardinalityType
  <2>3. spent["fail"] \in Nat /\ spent'["fail"] \in Nat /\ spent'["fail"] >= spent["fail"]
    BY FaultsCount DEF TypeInv, TypeOK, Faults
  <2>4. ASSUME NEW bound, IsFiniteSet(bound), Orphans' \subseteq bound,
               Cardinality(bound) <= spent'["fail"]
        PROVE  OrphansBounded'
    <3>1. IsFiniteSet(Orphans') /\ Cardinality(Orphans') <= Cardinality(bound)
      BY <2>4, FS_Subset
    <3>2. Cardinality(Orphans') \in Nat /\ Cardinality(bound) \in Nat
      BY <2>4, <3>1, FS_CardinalityType
    <3> QED BY <2>3, <2>4, <3>1, <3>2 DEF OrphansBounded
  <2>5. CASE Orphans' \subseteq Orphans
    BY <2>2, <2>3, <2>4, <2>5 DEF OrphansBounded
  <2>6. ASSUME NEW m, Orphans' \subseteq Orphans \cup {m}, spent'["fail"] = spent["fail"] + 1
        PROVE  OrphansBounded'
    <3>1. /\ IsFiniteSet(Orphans \cup {m})
          /\ Cardinality(Orphans \cup {m}) \in {Cardinality(Orphans), Cardinality(Orphans) + 1}
      BY <2>2, FS_AddElement
    <3>2. Cardinality(Orphans \cup {m}) <= spent'["fail"]
      BY <2>2, <2>3, <2>6, <3>1 DEF OrphansBounded
    <3> QED BY <2>4, <2>6, <3>1, <3>2
  <2> QED BY <2>5, <2>6, OrphansOfStep
<1> QED BY <1>1, <1>2, TypeCorrect, IngestInvariant, PTL DEF Spec

=============================================================================
