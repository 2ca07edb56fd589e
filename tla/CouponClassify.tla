--------------------------- MODULE CouponClassify ---------------------------
(***************************************************************************)
(* The coupon-classify worker: a message of the unordered coupon-classify  *)
(* topic makes a handler fetch the mail's body, extract and judge the      *)
(* coupon, and, if it is usable, create the coupon and enqueue its push    *)
(* and its expiry reminder in Cloud Tasks.                                 *)
(*                                                                         *)
(* The mails are those of one account.  processed_mails rows are deleted   *)
(* by nothing in the program, so the first lookup of a handler finds its   *)
(* row; what the extractors find in a mail is a constant of the mail.      *)
(***************************************************************************)
EXTENDS Integers, FiniteSets, Functions

CONSTANTS
    Workers,              \* handler invocations that can be in flight at once
    Mails,                \* recorded mails (processed_mails rows)
    Parsed,               \* what the extractor finds in each mail's text
    MaxDeliveryAttempts,  \* max_delivery_attempts of the subscription
    MaxClock,             \* bound: half-days that pass
    Budget,               \* bound: how often each kind of fault may happen
    MaxFaults             \* bound: faults of all kinds together

Faults == {"fail", "redeliver", "reject", "delete"}
Days   == 1..MaxClock
NoDate == 0                          \* no (plausible) expiry date was found

(* An extractor that returns null and one that returns no expiry date have   *)
(* the same outcome, so both are NoDate.                                     *)
Extraction == [spammy: BOOLEAN, expiry: Days \cup {NoDate}]

NoWorker == "none"
NoMail   == "nomail"

ASSUME ClassifyAssumption ==
    /\ MaxDeliveryAttempts \in Nat /\ MaxClock \in Nat \ {0, 1}
    /\ Parsed \in [Mails -> Extraction]
    /\ Budget \in [Faults -> Nat] /\ MaxFaults \in Nat
    /\ IsFiniteSet(Workers) /\ NoWorker \notin Workers /\ NoMail \notin Mails

(* Time in half-days: tick 2d is day d (KST) before 09:00, 2d+1 from 09:00.  *)
Ticks == 0..MaxClock
Day(t) == t \div 2

Stages == {"idle", "find", "account", "body", "update", "create", "push", "remind"}
Invocation == [stage: Stages, mail: Mails \cup {NoMail}, now: Ticks]
Idle == [stage |-> "idle", mail |-> NoMail, now |-> 0]

States == {"unpublished", "ready", "out", "acked", "dead"}

VARIABLES
    clock,
    active,     \* mail_accounts.status = 'active'
    gone,       \* mails the owner deleted from the mailbox
    msg,        \* the subscription: state, attempts and handler of each message
    h,          \* the handler invocations
    filterResult,                \* processed_mails.filter_result
    coupons, pushes, reminders,  \* per mail: coupon rows, tasks enqueued
    spent

outsideVars == <<clock, active, gone>>
storeVars   == <<filterResult, coupons, pushes, reminders>>
vars == <<outsideVars, msg, h, storeVars, spent>>

TypeOK ==
    /\ clock \in Ticks
    /\ active \in BOOLEAN
    /\ gone \subseteq Mails
    /\ msg \in [Mails -> [state: States, attempts: Nat, holder: Workers \cup {NoWorker}]]
    /\ h \in [Workers -> Invocation]
    /\ filterResult \in [Mails -> {"passed", "extraction_failed"}]
    /\ coupons \in [Mails -> Nat]
    /\ pushes \in [Mails -> Nat] /\ reminders \in [Mails -> Nat]
    /\ spent \in [Faults -> Nat]

-----------------------------------------------------------------------------
Spend(kind) == /\ spent[kind] < Budget[kind] /\ SumFunction(spent) < MaxFaults
               /\ spent' = [spent EXCEPT ![kind] = @ + 1]

At(w, stage) == h[w].stage = stage

(* The answer of a handler: 2xx acknowledges the message, an error or a lost *)
(* instance gives it back, unless it went to another handler meanwhile.      *)
Answer(w, state) ==
    /\ h' = [h EXCEPT ![w] = Idle]
    /\ msg' = [m \in Mails |->
                 IF msg[m].holder = w
                 THEN [state |-> state, attempts |-> msg[m].attempts, holder |-> NoWorker]
                 ELSE msg[m]]
Return(w) == Answer(w, "acked")
\* Mutant: the controller swallows the error and answers 2xx.
Swallow(w) == Answer(w, "acked")
Throw(w) == Answer(w, "ready")

Step(w, stage) == /\ h' = [h EXCEPT ![w].stage = stage]
                  /\ UNCHANGED msg

\* Mutant: a coupon is expired on its last day already.
VerdictBeforeLastDay(m, now) ==
    CASE Parsed[m].spammy             -> "spam"
      [] OTHER -> IF Parsed[m].expiry = NoDate        THEN "extraction_failed"
                  ELSE IF Parsed[m].expiry <= Day(now) THEN "expired"
                  ELSE "usable"

(* ValidityCheckerService.check.                                             *)
Verdict(m, now) ==
    CASE Parsed[m].spammy             -> "spam"
      [] OTHER -> IF Parsed[m].expiry = NoDate       THEN "extraction_failed"
                  ELSE IF Parsed[m].expiry < Day(now) THEN "expired"
                  ELSE "usable"

(* expiryReminderTime: 09:00 of the day before the expiry date, if it is     *)
(* still ahead.                                                              *)
ReminderAt(m) == 2 * (Parsed[m].expiry - 1) + 1
ReminderDue(m, now) == ReminderAt(m) > now

Init ==
    /\ clock = 2 /\ active = TRUE /\ gone = {}
    /\ msg = [m \in Mails |-> [state |-> "unpublished", attempts |-> 0, holder |-> NoWorker]]
    /\ h = [w \in Workers |-> Idle]
    /\ filterResult = [m \in Mails |-> "passed"]
    /\ coupons = [m \in Mails |-> 0]
    /\ pushes = [m \in Mails |-> 0] /\ reminders = [m \in Mails |-> 0]
    /\ spent = [k \in Faults |-> 0]

-----------------------------------------------------------------------------
(* Outside the program: time, the mailbox, and the subscription.             *)
Tick ==
    /\ clock < MaxClock
    /\ clock' = clock + 1
    /\ UNCHANGED <<active, gone, msg, h, storeVars, spent>>

DeleteMail(m) ==
    /\ m \notin gone
    /\ Spend("delete")
    /\ gone' = gone \cup {m}
    /\ UNCHANGED <<clock, active, msg, h, storeVars>>

\* mail-ingest publishes a mail at most once (MailIngest!ClassifyAtMostOnce).
Publish(m) ==
    /\ msg[m].state = "unpublished"
    /\ msg' = [msg EXCEPT ![m].state = "ready"]
    /\ UNCHANGED <<outsideVars, h, storeVars, spent>>

Deliver(w, m) ==
    /\ msg[m].state = "ready" /\ msg[m].attempts < MaxDeliveryAttempts
    /\ At(w, "idle")
    /\ msg' = [msg EXCEPT ![m] = [state |-> "out", attempts |-> @.attempts + 1,
                                  holder |-> w]]
    /\ h' = [h EXCEPT ![w] = [stage |-> "find", mail |-> m, now |-> clock]]
    /\ UNCHANGED <<outsideVars, storeVars, spent>>

\* The ack deadline passes under a running handler, or Pub/Sub repeats a
\* message it was given an ack for.
Redeliver(m) ==
    /\ msg[m].state \in {"out", "acked"}
    /\ Spend("redeliver")
    /\ msg' = [msg EXCEPT ![m].state = "ready", ![m].holder = NoWorker]
    /\ UNCHANGED <<outsideVars, h, storeVars>>

DeadLetter(m) ==
    /\ msg[m].state = "ready" /\ msg[m].attempts >= MaxDeliveryAttempts
    /\ msg' = [msg EXCEPT ![m].state = "dead"]
    /\ UNCHANGED <<outsideVars, h, storeVars, spent>>

\* The user connects the account again.
Reconnect ==
    /\ ~ active
    /\ active' = TRUE
    /\ UNCHANGED <<clock, gone, msg, h, storeVars, spent>>

\* Another handler found the account's token rejected.
LoseAccount ==
    /\ active
    /\ Spend("reject")
    /\ active' = FALSE
    /\ UNCHANGED <<clock, gone, msg, h, storeVars>>

-----------------------------------------------------------------------------
(* CouponClassifyService.handle, one await at a time.                        *)
\* Mutant: no look for a coupon of the mail.
FindNothing(w) ==
    /\ At(w, "find")
    /\ Step(w, "account")
    /\ UNCHANGED <<outsideVars, storeVars, spent>>

\* Mutant: the retry of a mail that has its coupon enqueues the push again.
FindExistingAndPush(w) ==
    /\ At(w, "find")
    /\ pushes' = IF coupons[h[w].mail] > 0 THEN [pushes EXCEPT ![h[w].mail] = @ + 1]
                                           ELSE pushes
    /\ IF coupons[h[w].mail] > 0 THEN Return(w) ELSE Step(w, "account")
    /\ UNCHANGED <<outsideVars, filterResult, coupons, reminders, spent>>

FindExisting(w) ==
    /\ At(w, "find")
    /\ IF coupons[h[w].mail] > 0 THEN Return(w) ELSE Step(w, "account")
    /\ UNCHANGED <<outsideVars, storeVars, spent>>

LoadActive(w) ==
    /\ At(w, "account")
    /\ IF active THEN Step(w, "body") ELSE Return(w)
    /\ UNCHANGED <<outsideVars, storeVars, spent>>

\* The token refresh inside loadActive is rejected: the account is marked and
\* the mail skipped.
RejectToken(w) ==
    /\ At(w, "account") /\ active
    /\ Spend("reject")
    /\ active' = FALSE
    /\ Return(w)
    /\ UNCHANGED <<clock, gone, storeVars>>

FetchMessageBody(w) ==
    /\ At(w, "body")
    /\ IF h[w].mail \in gone THEN Throw(w) ELSE Step(w, "update")
    /\ UNCHANGED <<outsideVars, storeVars, spent>>

\* Mutant: the validity verdict itself is written, against the CHECK of the
\* column.
UpdateWithVerdict(w) ==
    /\ At(w, "update")
    /\ LET verdict == Verdict(h[w].mail, h[w].now)
       IN  /\ filterResult' = [filterResult EXCEPT ![h[w].mail] = verdict]
           /\ IF verdict = "usable" THEN Step(w, "create") ELSE Return(w)
    /\ UNCHANGED <<outsideVars, coupons, pushes, reminders, spent>>

UpdateFilterResult(w) ==
    /\ At(w, "update")
    /\ LET m == h[w].mail
           verdict == Verdict(m, h[w].now)
       IN  /\ filterResult' = [filterResult EXCEPT ![m] =
                 IF verdict = "extraction_failed" THEN verdict ELSE "passed"]
           /\ IF verdict = "usable" THEN Step(w, "create") ELSE Return(w)
    /\ UNCHANGED <<outsideVars, coupons, pushes, reminders, spent>>

CreateCoupon(w) ==
    /\ At(w, "create")
    /\ coupons' = [coupons EXCEPT ![h[w].mail] = @ + 1]
    /\ Step(w, "push")
    /\ UNCHANGED <<outsideVars, filterResult, pushes, reminders, spent>>

\* Mutant: the handler returns before it schedules the reminder.
EnqueuePushAndReturn(w) ==
    /\ At(w, "push")
    /\ pushes' = [pushes EXCEPT ![h[w].mail] = @ + 1]
    /\ Return(w)
    /\ UNCHANGED <<outsideVars, filterResult, coupons, reminders, spent>>

EnqueuePush(w) ==
    /\ At(w, "push")
    /\ pushes' = [pushes EXCEPT ![h[w].mail] = @ + 1]
    /\ Step(w, "remind")
    /\ UNCHANGED <<outsideVars, filterResult, coupons, reminders, spent>>

ScheduleReminder(w) ==
    /\ At(w, "remind")
    /\ reminders' = IF ReminderDue(h[w].mail, h[w].now)
                    THEN [reminders EXCEPT ![h[w].mail] = @ + 1]
                    ELSE reminders
    /\ Return(w)
    /\ UNCHANGED <<outsideVars, filterResult, coupons, pushes, spent>>

\* Any awaited call throws (a 401 from Gmail among them: nothing catches it
\* here), or the instance is replaced.
Fail(w) ==
    /\ ~ At(w, "idle")
    /\ Spend("fail")
    /\ Throw(w)
    /\ UNCHANGED <<outsideVars, storeVars>>

Handler(w) ==
    \/ FindExisting(w) \/ LoadActive(w) \/ FetchMessageBody(w)
    \/ UpdateFilterResult(w) \/ CreateCoupon(w) \/ EnqueuePush(w)
    \/ ScheduleReminder(w)

Next ==
    \/ Tick \/ Reconnect \/ LoseAccount
    \/ \E m \in Mails : DeleteMail(m) \/ Publish(m) \/ Redeliver(m) \/ DeadLetter(m)
    \/ \E w \in Workers : Handler(w) \/ RejectToken(w) \/ Fail(w)
    \/ \E w \in Workers, m \in Mails : Deliver(w, m)

Spec == Init /\ [][Next]_vars

(* Handlers make progress, and the subscription delivers and dead-letters    *)
(* every message.                                                            *)
Fairness ==
    /\ \A w \in Workers : WF_vars(Handler(w))
    /\ \A m \in Mails : SF_vars(\E w \in Workers : Deliver(w, m)) /\ WF_vars(DeadLetter(m))

FairSpec == Spec /\ Fairness

-----------------------------------------------------------------------------
(* A mail gets a second coupon only if its message was delivered while a     *)
(* handler of it was still running: retries after a failure never make one.  *)
OneCouponPerDelivery == \A m \in Mails : coupons[m] <= 1 + spent["redeliver"]

(* Handlers of mail m at one of these stages.                                *)
InHand(m, stages) == Cardinality({w \in Workers : h[w].mail = m /\ h[w].stage \in stages})

(* Classification implements the promise made to the user.                   *)
Ledger == INSTANCE CouponLedger WITH Mails <- Mails, coupons <- coupons,
                                     pushes <- pushes, reminders <- reminders
CouponLedgerSpec == Ledger!Spec

(* A coupon is created without its push task, or without the reminder that   *)
(* was due when the mail was judged, only by a handler that failed between   *)
(* the two: at most one coupon per failure.                                  *)
LostTasksBounded == \A m \in Mails :
    /\ coupons[m] - pushes[m] - InHand(m, {"push"}) \in 0..spent["fail"]
    /\ ReminderDue(m, clock) =>
          coupons[m] - reminders[m] - InHand(m, {"push", "remind"}) \in 0..spent["fail"]

(* A mail's message is acknowledged without a coupon only for a reason: the  *)
(* mail holds no dated, non-spam coupon, its last day is over, or the        *)
(* account was not active.  In particular the last day itself counts as      *)
(* usable, and no failure or redelivery acknowledges a usable mail unhandled.*)
LastTick(m) == 2 * Parsed[m].expiry + 1
Usable(m) == ~ Parsed[m].spammy /\ Parsed[m].expiry # NoDate /\ clock <= LastTick(m)
AckNeedsReason == \A m \in Mails :
    msg[m].state = "acked" /\ Usable(m) /\ spent["reject"] = 0 => coupons[m] > 0

(* Every published mail is settled: its push is enqueued, or it is not       *)
(* usable, or the account was lost, or the message is in the dead letter     *)
(* topic, or a failed handler lost the push of its coupon.                   *)
Settled(m) ==
    \/ pushes[m] > 0 \/ ~ Usable(m) \/ spent["reject"] > 0
    \/ msg[m].state = "dead"
    \/ coupons[m] > 0 /\ spent["fail"] > 0
PublishedIsSettled == \A m \in Mails : msg[m].state # "unpublished" ~> Settled(m)

=============================================================================
