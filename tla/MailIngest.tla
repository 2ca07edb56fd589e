----------------------------- MODULE MailIngest -----------------------------
(***************************************************************************)
(* The mail-ingest worker of one Gmail account: a message of the ordered   *)
(* mail-ingest topic makes a handler read the account's cursor, list the   *)
(* mail that arrived since, record every mail the rule filter passes in    *)
(* processed_mails, publish it to coupon-classify and save the new cursor. *)
(*                                                                         *)
(* Accounts share nothing here (every query is keyed by mailAccountId), so *)
(* one account is modelled.  Mail m of the mailbox is the one that took    *)
(* the mailbox's history id from m-1 to m.                                 *)
(***************************************************************************)
EXTENDS Integers, FiniteSets

CONSTANTS
    Workers,              \* handler invocations that can be in flight at once
    MaxMails,             \* bound: mail that ever arrives
    Passing,              \* the mails RuleFilterService.apply lets through
    MaxFetch,             \* MAX_MESSAGES_PER_FETCH
    MaxDeliveryAttempts,  \* max_delivery_attempts of the subscription
    MaxPending,           \* bound: messages waiting in mail-ingest
    Budget                \* bound: how often each kind of fault may happen

Mails  == 1..MaxMails
Faults == {"fail", "lease", "reject", "watch", "horizon", "age", "delete"}

ASSUME IngestAssumption ==
    /\ MaxMails \in Nat /\ MaxFetch \in Nat /\ MaxPending \in Nat
    /\ MaxDeliveryAttempts \in Nat
    /\ Passing \subseteq Mails
    /\ Budget \in [Faults -> Nat]

NoCursor == -1                       \* cursor column without a historyId
NoWatch  == -1                       \* no watch response waiting to be stored
NoWorker == "none"                   \* the head message is not out for delivery

ASSUME WorkerAssumption == NoWorker \notin Workers

Cursors  == NoCursor..MaxMails
Stages   == {"idle", "load", "list", "resync", "profile", "metadata",
             "record", "create", "publish", "reauth"}
Reasons  == {"watch", "truncated", "resync"}

(* A handler invocation: where it is, the cursor it loaded, what its fetch   *)
(* returned (messages, nextCursor, resynced), which messages are left to     *)
(* record, and the one being recorded (0: none).                             *)
Invocation == [stage: Stages, base: Cursors, listed: SUBSET Mails, next: Cursors,
               resynced: BOOLEAN, todo: SUBSET Mails, mail: 0..MaxMails]
Idle == [stage |-> "idle", base |-> NoCursor, listed |-> {}, next |-> NoCursor,
         resynced |-> FALSE, todo |-> {}, mail |-> 0]

VARIABLES
    \* The mailbox at Gmail: mails so far, those the owner deleted, those
    \* older than 24 hours, and the oldest cursor history.list still accepts.
    arrived, gone, aged, horizon,
    \* mail_accounts.status and mail_accounts.cursor.historyId, and a
    \* users.watch response that saveWatch has not stored yet.
    status, cursor, watch,
    \* The ordered subscription: messages waiting, delivery attempts of the
    \* one at the head, and the handler that holds it.
    pending, attempts, lease,
    \* The handler invocations.
    h,
    \* processed_mails rows and coupon-classify messages, per mail.
    rows, classify,
    \* History: mails the stored cursor was moved past without a row, by
    \* what moved it; and the faults spent.
    skipped, spent

mailboxVars == <<arrived, gone, aged, horizon>>
accountVars == <<status, cursor, watch, skipped>>
queueVars   == <<pending, attempts, lease>>
dbVars      == <<rows, classify>>
vars == <<mailboxVars, accountVars, queueVars, h, dbVars, spent>>

TypeOK ==
    /\ arrived \in 0..MaxMails /\ aged \in 0..MaxMails /\ horizon \in 0..MaxMails
    /\ gone \subseteq Mails
    /\ status \in {"active", "reauth_required"}
    /\ cursor \in Cursors /\ watch \in Cursors
    /\ pending \in Nat /\ attempts \in Nat
    /\ lease \in Workers \cup {NoWorker}
    /\ h \in [Workers -> Invocation]
    /\ rows \in [Mails -> Nat] /\ classify \in [Mails -> Nat]
    /\ skipped \in [Reasons -> SUBSET Mails]
    /\ spent \in [Faults -> Nat]

-----------------------------------------------------------------------------
(* Mails with a history id in (lo, hi], and the two ends of such a set.     *)
Between(lo, hi) == {m \in Mails : lo < m /\ m <= hi}
Newest(S) == {m \in S : Cardinality({x \in S : x >= m}) <= MaxFetch}
Oldest(S) == {m \in S : Cardinality({x \in S : x <= m}) <= MaxFetch}

Spend(kind) == /\ spent[kind] < Budget[kind]
               /\ spent' = [spent EXCEPT ![kind] = @ + 1]

(* The mail-ingest subscription.  2xx acknowledges the message if the       *)
(* handler still holds it; an error or a lost instance gives it back.       *)
\* Mutant: the answer of an overrunning handler takes a message too.
AckAlways(w) == /\ lease' = IF lease = w THEN NoWorker ELSE lease
                /\ pending' = pending - 1
                /\ attempts' = IF lease = w THEN 0 ELSE attempts

Ack(w) == /\ lease' = IF lease = w THEN NoWorker ELSE lease
          /\ pending' = IF lease = w THEN pending - 1 ELSE pending
          /\ attempts' = IF lease = w THEN 0 ELSE attempts
Nack(w) == /\ lease' = IF lease = w THEN NoWorker ELSE lease
           /\ UNCHANGED <<pending, attempts>>

Return(w) == h' = [h EXCEPT ![w] = Idle] /\ Ack(w)
Throw(w)  == h' = [h EXCEPT ![w] = Idle] /\ Nack(w)

At(w, stage) == h[w].stage = stage

(* After connect: the watch was registered (cursor 0) or that call failed    *)
(* and the account has no cursor.                                            *)
Init ==
    /\ arrived = 0 /\ gone = {} /\ aged = 0 /\ horizon = 0
    /\ status = "active" /\ cursor \in {NoCursor, 0} /\ watch = NoWatch
    /\ pending = 0 /\ attempts = 0 /\ lease = NoWorker
    /\ h = [w \in Workers |-> Idle]
    /\ rows = [m \in Mails |-> 0] /\ classify = [m \in Mails |-> 0]
    /\ skipped = [r \in Reasons |-> {}]
    /\ spent = [k \in Faults |-> 0]

-----------------------------------------------------------------------------
(* The mailbox, outside the program.                                        *)
NewMail ==
    /\ arrived < MaxMails
    /\ arrived' = arrived + 1
    /\ UNCHANGED <<gone, aged, horizon, accountVars, queueVars, h,
                   dbVars, spent>>

DeleteMail ==
    /\ Spend("delete")
    /\ \E m \in Between(0, arrived) \ gone : gone' = gone \cup {m}
    /\ UNCHANGED <<arrived, aged, horizon, accountVars, queueVars, h,
                   dbVars>>

AgeMail ==
    /\ Spend("age")
    /\ \E a \in Between(aged, arrived) : aged' = a
    /\ UNCHANGED <<arrived, gone, horizon, accountVars, queueVars, h,
                   dbVars>>

ExpireHistory ==
    /\ Spend("horizon")
    /\ \E id \in Between(horizon, arrived) : horizon' = id
    /\ UNCHANGED <<arrived, gone, aged, accountVars, queueVars, h,
                   dbVars>>

-----------------------------------------------------------------------------
(* Producers of mail-ingest.  Gmail's notifications are lost and repeated,  *)
(* so once any mail arrived the webhook may run at any time.                *)
Publish ==
    /\ status = "active"
    /\ pending < MaxPending
    /\ pending' = pending + 1
    /\ UNCHANGED <<attempts, lease, mailboxVars, accountVars, h,
                   dbVars, spent>>

ReceiveWebhook == arrived > 0 /\ Publish
SafetyPoll == Publish

-----------------------------------------------------------------------------
(* The subscription: one message of the ordering key is out at a time, but   *)
(* a handler that overran the ack deadline goes on running.                  *)
Deliver(w) ==
    /\ pending > 0 /\ lease = NoWorker /\ attempts < MaxDeliveryAttempts
    /\ At(w, "idle")
    /\ lease' = w
    /\ attempts' = attempts + 1
    /\ h' = [h EXCEPT ![w].stage = "load"]
    /\ UNCHANGED <<pending, mailboxVars, accountVars, dbVars, spent>>

AckDeadline ==
    /\ lease # NoWorker
    /\ Spend("lease")
    /\ lease' = NoWorker
    /\ UNCHANGED <<pending, attempts, mailboxVars, accountVars, h, dbVars>>

DeadLetter ==
    /\ pending > 0 /\ lease = NoWorker /\ attempts >= MaxDeliveryAttempts
    /\ pending' = pending - 1
    /\ attempts' = 0
    /\ UNCHANGED <<lease, mailboxVars, accountVars, h, dbVars, spent>>

-----------------------------------------------------------------------------
(* MailIngestService.handle.                                                 *)
LoadActive(w) ==
    /\ At(w, "load")
    /\ \/ /\ status # "active"
          /\ Return(w)
       \/ /\ status = "active"
          /\ h' = [h EXCEPT
                     ![w].base = cursor,
                     ![w].resynced = (cursor = NoCursor),
                     ![w].stage = IF cursor = NoCursor THEN "resync" ELSE "list"]
          /\ UNCHANGED queueVars
    /\ UNCHANGED <<mailboxVars, accountVars, dbVars, spent>>

\* Mutant: an expired cursor is an error like any other.
ListHistoryOrThrow(w) ==
    /\ At(w, "list")
    /\ \/ h[w].base < horizon /\ Throw(w)
       \/ /\ h[w].base >= horizon
          /\ LET found == Oldest(Between(h[w].base, arrived))
             IN  h' = [h EXCEPT ![w].listed = found, ![w].todo = found,
                                ![w].next = arrived, ![w].stage = "metadata"]
          /\ UNCHANGED queueVars
    /\ UNCHANGED <<mailboxVars, accountVars, dbVars, spent>>

(* fetchNewMessages: the pages of history.list, up to MaxFetch messages,     *)
(* with the mailbox's own history id as the next cursor; 404 falls back to   *)
(* a resync.  Pages of one call are one step: the last page sees them all.   *)
ListHistory(w) ==
    /\ At(w, "list")
    /\ \/ /\ h[w].base < horizon
          /\ h' = [h EXCEPT ![w].resynced = TRUE, ![w].stage = "resync"]
       \/ /\ h[w].base >= horizon
          /\ LET found == Oldest(Between(h[w].base, arrived))
             IN  h' = [h EXCEPT ![w].listed = found, ![w].todo = found,
                                ![w].next = arrived, ![w].stage = "metadata"]
    /\ UNCHANGED <<mailboxVars, accountVars, queueVars, dbVars, spent>>

(* fetchMessagesSince: messages.list over the last 24 hours, newest first,   *)
(* and only then getProfile for the next cursor.                             *)
ListRecent(w) ==
    /\ At(w, "resync")
    /\ LET found == Newest(Between(aged, arrived) \ gone)
       IN  h' = [h EXCEPT ![w].listed = found, ![w].todo = found,
                          ![w].stage = "profile"]
    /\ UNCHANGED <<mailboxVars, accountVars, queueVars, dbVars, spent>>

GetProfile(w) ==
    /\ At(w, "profile")
    /\ h' = [h EXCEPT ![w].next = arrived, ![w].stage = "metadata"]
    /\ UNCHANGED <<mailboxVars, accountVars, queueVars, dbVars, spent>>

(* fetchMetadata: a listed mail deleted meanwhile is a 404 without a cursor, *)
(* which call() rethrows.                                                    *)
FetchMetadata(w) ==
    /\ At(w, "metadata")
    /\ \/ /\ h[w].listed \cap gone # {}
          /\ Throw(w)
       \/ /\ h[w].listed \cap gone = {}
          /\ h' = [h EXCEPT ![w].stage = "record"]
          /\ UNCHANGED queueVars
    /\ UNCHANGED <<mailboxVars, accountVars, dbVars, spent>>

\* Mutant: a mail that has a row is published again instead of passed over.
FindMailAndRepublish(w) ==
    /\ At(w, "record")
    /\ \E m \in h[w].todo :
         h' = [h EXCEPT ![w].todo = @ \ {m},
                        ![w].mail = IF m \in Passing THEN m ELSE 0,
                        ![w].stage = IF m \notin Passing THEN "record"
                                     ELSE IF rows[m] > 0 THEN "publish" ELSE "create"]
    /\ UNCHANGED <<mailboxVars, accountVars, queueVars, dbVars, spent>>

(* One turn of the loop of record: the rule filter and insertProcessedMail's *)
(* findUnique.  Gmail promises no order of the listed mails.                 *)
FindMail(w) ==
    /\ At(w, "record")
    /\ \E m \in h[w].todo :
         \/ /\ m \notin Passing \/ rows[m] > 0
            /\ h' = [h EXCEPT ![w].todo = @ \ {m}]
         \/ /\ m \in Passing /\ rows[m] = 0
            /\ h' = [h EXCEPT ![w].todo = @ \ {m}, ![w].mail = m,
                              ![w].stage = "create"]
    /\ UNCHANGED <<mailboxVars, accountVars, queueVars, dbVars, spent>>

\* Mutant: no unique constraint on processed_mails.
CreateRowUnchecked(w) ==
    /\ At(w, "create")
    /\ rows' = [rows EXCEPT ![h[w].mail] = @ + 1]
    /\ h' = [h EXCEPT ![w].stage = "publish"]
    /\ UNCHANGED <<mailboxVars, accountVars, queueVars, classify, spent>>

\* Mutant: a created row is taken for one that was there already.
CreateRowUnpublished(w) ==
    /\ At(w, "create")
    /\ rows' = [rows EXCEPT ![h[w].mail] = IF @ > 0 THEN @ ELSE 1]
    /\ h' = [h EXCEPT ![w].mail = 0, ![w].stage = "record"]
    /\ UNCHANGED <<mailboxVars, accountVars, queueVars, classify, spent>>

(* processedMail.create under the unique constraint; P2002 means another     *)
(* handler recorded the mail, and this one moves on.                         *)
CreateRow(w) ==
    /\ At(w, "create")
    /\ \/ /\ rows[h[w].mail] > 0
          /\ h' = [h EXCEPT ![w].mail = 0, ![w].stage = "record"]
          /\ UNCHANGED rows
       \/ /\ rows[h[w].mail] = 0
          /\ rows' = [rows EXCEPT ![h[w].mail] = @ + 1]
          /\ h' = [h EXCEPT ![w].stage = "publish"]
    /\ UNCHANGED <<mailboxVars, accountVars, queueVars, classify, spent>>

PublishClassify(w) ==
    /\ At(w, "publish")
    /\ classify' = [classify EXCEPT ![h[w].mail] = @ + 1]
    /\ h' = [h EXCEPT ![w].mail = 0, ![w].stage = "record"]
    /\ UNCHANGED <<mailboxVars, accountVars, queueVars, rows, spent>>

(* Passing mails of S that have no row.                                      *)
Unrecorded(S) == {m \in S \cap Passing : rows[m] = 0}

\* Mutant: record is not awaited before the cursor is saved.
SaveCursorEarly(w) ==
    /\ At(w, "record")
    /\ cursor' = h[w].next
    /\ skipped' = [skipped EXCEPT
                     ![IF h[w].resynced THEN "resync" ELSE "truncated"] =
                        @ \cup Unrecorded(Between(h[w].base, h[w].next) \ h[w].listed)]
    /\ Return(w)
    /\ UNCHANGED <<mailboxVars, status, watch, dbVars, spent>>

(* The loop is over: saveCursor, and the message is acknowledged.            *)
SaveCursor(w) ==
    /\ At(w, "record") /\ h[w].todo = {}
    /\ cursor' = h[w].next
    /\ skipped' = [skipped EXCEPT
                     ![IF h[w].resynced THEN "resync" ELSE "truncated"] =
                        @ \cup Unrecorded(Between(h[w].base, h[w].next) \ h[w].listed)]
    /\ Return(w)
    /\ UNCHANGED <<mailboxVars, status, watch, dbVars, spent>>

(* Gmail rejects the token (401, invalid_grant) in a call of the fetch or in *)
(* the token refresh of loadActive: the account is marked, the message acked.*)
RejectToken(w) ==
    /\ \/ At(w, "load") /\ status = "active"
       \/ \E s \in {"list", "resync", "profile", "metadata"} : At(w, s)
    /\ Spend("reject")
    /\ h' = [h EXCEPT ![w].stage = "reauth"]
    /\ UNCHANGED <<mailboxVars, accountVars, queueVars, dbVars>>

MarkReauthRequired(w) ==
    /\ At(w, "reauth")
    /\ status' = "reauth_required"
    /\ Return(w)
    /\ UNCHANGED <<mailboxVars, cursor, watch, skipped, dbVars, spent>>

(* Any awaited call throws (Gmail, database, publish), or the instance that  *)
(* runs the handler is replaced: the message is not acknowledged.            *)
Fail(w) ==
    /\ ~ At(w, "idle")
    /\ Spend("fail")
    /\ Throw(w)
    /\ UNCHANGED <<mailboxVars, accountVars, dbVars>>

-----------------------------------------------------------------------------
(* users.watch, by the renewal job or by connect, answers with the mailbox's *)
(* current history id; saveWatch makes it the account's cursor.              *)
RegisterWatch ==
    /\ status = "active" /\ watch = NoWatch
    /\ Spend("watch")
    /\ watch' = arrived
    /\ UNCHANGED <<mailboxVars, status, cursor, skipped, queueVars, h, dbVars>>

SaveWatch ==
    /\ watch # NoWatch
    /\ cursor' = watch
    /\ watch' = NoWatch
    /\ skipped' = [skipped EXCEPT
                     !["watch"] = @ \cup Unrecorded(Between(cursor, watch))]
    /\ UNCHANGED <<mailboxVars, status, queueVars, h, dbVars, spent>>

Reconnect ==
    /\ status = "reauth_required"
    /\ status' = "active"
    /\ UNCHANGED <<mailboxVars, cursor, watch, skipped, queueVars, h,
                   dbVars, spent>>

-----------------------------------------------------------------------------
Handler(w) ==
    \/ LoadActive(w) \/ ListHistory(w) \/ ListRecent(w) \/ GetProfile(w)
    \/ FetchMetadata(w) \/ FindMail(w) \/ CreateRow(w) \/ PublishClassify(w)
    \/ SaveCursor(w) \/ MarkReauthRequired(w)

Next ==
    \/ NewMail \/ DeleteMail \/ AgeMail \/ ExpireHistory
    \/ ReceiveWebhook \/ SafetyPoll \/ AckDeadline \/ DeadLetter
    \/ RegisterWatch \/ SaveWatch \/ Reconnect
    \/ \E w \in Workers : Deliver(w) \/ Handler(w) \/ RejectToken(w) \/ Fail(w)

Spec == Init /\ [][Next]_vars

(* Handlers make progress, the subscription delivers and dead-letters, and  *)
(* Cloud Scheduler runs the safety poll again and again.                    *)
Fairness ==
    /\ \A w \in Workers : WF_vars(Handler(w))
    /\ WF_vars(\E w \in Workers : Deliver(w))
    /\ WF_vars(DeadLetter)
    /\ WF_vars(SaveWatch)
    /\ WF_vars(SafetyPoll)

FairSpec == Spec /\ Fairness

-----------------------------------------------------------------------------
(* However deliveries, retries and overrunning handlers interleave, a mail   *)
(* gets one processed_mails row and is published to coupon-classify at most  *)
(* once, and only after its row exists (findUnique is not enough for that:   *)
(* two handlers pass it together, and the constraint must stop the second).  *)
ClassifyAtMostOnce == \A m \in Mails : rows[m] <= 1 /\ classify[m] <= rows[m]

(* Ingestion implements the promise made to the classifier.                  *)
Ledger == INSTANCE MailLedger WITH Mails <- Mails, rows <- rows, classify <- classify
LedgerSpec == Ledger!Spec

(* The stored cursor never passes a passing mail without a row, whichever    *)
(* handler stores it and however stale it is, except where a watch response, *)
(* a truncated history fetch or a resync moved it.                           *)
Covered(m) == rows[m] > 0 \/ \E r \in Reasons : m \in skipped[r]
CursorCovers == \A m \in Passing : m <= cursor => Covered(m)

(* What a history fetch makes the cursor pass unrecorded lies behind the     *)
(* MaxFetch mails next to the cursor that fetch read, and those are all      *)
(* recorded: a handler whose listing was not cut off loses nothing, whatever *)
(* the cursor was by then.                                                   *)
TruncationNeedsOverflow ==
    [][\A m \in skipped'["truncated"] \ skipped["truncated"] :
          \E w \in Workers :
             /\ At(w, "record") /\ h'[w] = Idle
             /\ h[w].base + MaxFetch < m
             /\ \A x \in Passing \cap Between(h[w].base, h[w].base + MaxFetch) :
                   rows[x] > 0]_vars

(* Every failed handler leaves at most one recorded mail unpublished: the    *)
(* one between processedMail.create and publish.  A redelivery or an         *)
(* overrunning handler never orphans a mail by itself.                       *)
Orphans == {m \in Mails : rows[m] > classify[m]
                          /\ \A w \in Workers : ~ (At(w, "publish") /\ h[w].mail = m)}
OrphansBounded == Cardinality(Orphans) <= spent["fail"]

(* With the safety poll running, every passing mail of an account that stays *)
(* active is recorded, unless the cursor was moved past it or a deleted mail *)
(* blocks the account's fetches.                                             *)
Settled(m) == Covered(m) \/ status # "active"
PollRecovers == \A m \in Passing : m <= arrived ~> Settled(m) \/ gone # {}

-----------------------------------------------------------------------------
(* What the documentation says, and the code does not do.                    *)

(* Re-registering the watch of an account that is collected already only     *)
(* restores real-time delivery: its cursor passes nothing unrecorded.        *)
CursorLosesNothing ==
    [][cursor # NoCursor =>
          \A m \in Passing \cap Between(cursor, cursor') : rows'[m] > 0]_vars

=============================================================================
