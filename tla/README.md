# Coupi: a TLA+ model of the coupon pipeline

Coupi reads the Gmail of its users, finds coupons that can be used now and pushes
them to their phones. The backend is a NestJS process on Cloud Run, driven by
at-least-once messages (Pub/Sub), tasks (Cloud Tasks) and scheduled jobs; the app is
written in React Native. There is hardly any shared memory besides two caches: what
can go wrong are overlapping and repeated deliveries, handlers that die between two
writes, answers that come late or not at all, and rows that change between an `await`
and the write behind it. That is what the modules here model.

Paths below are relative to `src/backend/src` unless they start with another
top-level directory of the repository.

## Inventory

    Gmail --push--> webhook --\                             /--> push-dispatch ----\
                               >- mail-ingest -> coupon-classify                    >- FCM -> devices
    Scheduler --> safety poll-/        |            |       \--> expiry-reminder --/
    Scheduler --> watch renewal ----> mail_accounts <---- connect / disconnect

| Component | State it keeps | Operations | Talks to |
| --- | --- | --- | --- |
| Mail ingestion (`mail-ingest/`, `jobs/gmail-safety-poll.job.ts`) | `processed_mails`, the account's cursor | `receive` (webhook), `run` (safety poll), `handle`, `record`, `insertProcessedMail` | Gmail, rule filter, ordered topic `mail-ingest` in, topic `coupon-classify` out |
| Gmail provider (`auth/gmail.provider.ts`) | none | list history and recent mail, metadata, bodies, `registerWatch`, refresh and revoke | Gmail, Google OAuth |
| Mail account (`auth/`) | `mail_accounts`: status, both token columns, cursor, `consecutive_failures` | `connect`, `disconnect`, `loadActive`, `refreshAndStore`, `markReauthRequired`, `saveCursor`, `saveWatch` | Google, every handler |
| Watch renewal (`jobs/gmail-watch-renewal.job.ts`) | none of its own | `run`, `renew` | mail account, Gmail |
| Coupon classification (`coupon-classifier/`) | `coupons`, `processed_mails.filter_result` | `handle`, `scheduleReminder`, `extractAndJudge`, `check`, `expiryReminderTime` | Gmail, Cloud Tasks queues `push-dispatch` and `coupon-expiry-reminder` |
| Rule filter (`coupon-classifier/rule-filter.service.ts`) | a five-minute cache of the rules | `apply`, `getRules`, `invalidateCache` | database |
| Extraction (`coupon-classifier/extractors/`) | none | `parseExpiryDate`, `inferYear`, `isPlausibleExpiry`, patterns | none |
| Push dispatch (`notification/`) | `notifications` | `dispatch`, `sentDeviceIds`, `FcmClient.send` | FCM, devices |
| Devices (`devices/`) | `devices` | `register` (upsert), `unregister` | database |
| Messaging (`common/messaging/`, `infra/terraform/`) | topic objects and their paused ordering keys | `publish`, `enqueue` | Pub/Sub, Cloud Tasks |
| Encryption (`common/encryption/`) | data-key caches | `encrypt`, `decrypt` | KMS or a local key |
| Coupon API, user settings, sessions | `users.notificationsEnabled`; sessions are signed tokens and kept nowhere | list, filter, toggle; issue and verify sessions and consent states | mobile app |
| Mobile app (`mobile/src`) | session token in the keychain and in a store, query cache, the state of its screens | `restore`, `signIn`, `signOut`, `connect`, `toggle`, `useMailAccounts`, `useDisconnectMailAccount` | API, Google's consent page |

What is hard in it, and what makes it correct:

* **Ingestion.** A message whose lease expired runs twice; a handler dies after it
  wrote a row and before it published it; history ids expire; a watch registration
  replaces the cursor; one fetch takes at most 500 mails; a listed mail may be gone
  by the time it is read. Correct: a mail is handed to the classifier at most once,
  and the cursor never passes mail that was not recorded.
* **Account.** Connect, disconnect, refreshes and jobs write one row without locks.
  Correct: no handler undoes a disconnect, no account is signed out for a stored grant
  that works, and a dead grant is noticed.
* **Classification.** Search, fetch and create are three steps. Correct: one coupon
  per mail, a push for each coupon, and no usable coupon acknowledged away.
* **Dispatch.** A loop over devices with a send and a write for each, repeated as a
  whole when one of them fails, while devices come and go. Correct: every device is
  served, none twice, and dead tokens hold up nobody.
* **Watch renewal.** A batch works on a snapshot of the accounts, while connects and
  ingest handlers merge and write back the cursor column it goes by; one account may
  end the batch for all. Correct: no account silently loses its notifications.
* **Rule filter.** Handlers load the two rule tables at once and overwrite each other's
  result. Correct: a change of the rules takes effect within a bounded time, and stays.
* **Encryption.** Calls that find the data key expired at once make one each, and the
  keys in memory are shared buffers. Correct: every envelope opens with the key it
  carries, whatever else was cached, and keys rotate.
* **App.** A request that was given up may still be served, and the app may be closed
  at any `await`. Correct: a user can sign in, the switch shows the flag the dispatches
  read, and no list fetched before a disconnect is shown after it.
* **Dates.** Four places turn an instant into a day, in the zones of the server, of
  Korea and of the phone, and a date may be printed without its year. Correct: a coupon
  expires on a day its mail prints, and verdict, list, reminder and badge agree on
  whether that day is over.

`PROJECT.json` lists the hazards with their lines.

## Modules

| Module | Models | State and actions |
| --- | --- | --- |
| `MailIngest` | ingestion of one account | the mailbox at Gmail, `status` and `cursor` of the account, the ordered subscription (`pending`, `attempts`, `lease`), the handler invocations `h`, and per mail the number of `rows` and of `classify` messages. One action per awaited call of `handle`: `LoadActive`, `ListHistory`, `ListRecent`, `GetProfile`, `FetchMetadata`, `FindMail`, `CreateRow`, `PublishClassify`, `SaveCursor`, `MarkReauthRequired` |
| `MailLedger` | what ingestion promises | rows and hand-overs: `Record`, `HandOver` |
| `MailAccount` | one `mail_accounts` row | `status`, the grant behind the stored tokens, `fresh`, `failures`, the grants Google accepts (`live`), requests `req` and invocations `h`. Connect: `ExchangeCode`, `ConnectFind`, `ConnectStore`. Disconnect: `DisconnectFind`, `DisconnectStop`, `DisconnectRevoke`, `DisconnectErase`. Handlers and renewal: `LoadActive`, `RefreshAccessToken`, `StoreToken`, `CallGmail`, `Save`, `RenewalError`, `CountFailure`, `MarkReauthRequired` |
| `CouponClassify` | the classify handler over several mails | a clock of two ticks a day (before and after 09:00 KST), the mails, the account, the message states, per mail the `coupons`, `pushes` and `reminders`. One action per awaited call, `FindExisting` to `ScheduleReminder` |
| `CouponLedger` | what classification promises the user | coupons, pushes and reminders of each mail: `Create`, `Announce`, `Remind` |
| `NotificationDispatch` | both dispatch tasks over the devices of one user | registered and installed tokens, notification rows per status, task states and attempts, invocations. `LoadCoupon`, `SkipDisabled`, `FindDevices`, `FindSentDevices`, `CreatePending`, `Send` with its five outcomes, `MarkSent`, `DeleteDevice`, `MarkFailed`, `Finish` |
| `CouponDates` | the dates of one coupon | the clock in hours, the mail's printed dates and `received`, what became of it (`outcome`, `expiry`), the scheduled `reminder` and what it `said`. `Classify` is the handler's date arithmetic in one step (its interleavings are in `CouponClassify`), `Remind` a reminder task on time or late; parser, verdict, reminder time, phrase, list filters and badge are operators |
| `WatchRenewal` | the daily batch over several accounts | per account `status`, the `recorded` expiry of its cursor, `failures`, and the `watch` Gmail really keeps, in days left; the batch `job` with its snapshot, and one `request` beside it (a connect's registration or a `saveCursor`). `FindAccounts`, `LoadActive`, `Register`, `Save`, `RegisterError`, `CountFailure`, `MarkReauthRequired`, `Finish`; `JobFails` and `MissDay` for Cloud Run and the scheduler; `SaveCursorRead`, `SaveCursorWrite` |
| `RuleFilter` | the rule filter of one process | the rows of both tables, the `cache`, the calls of `apply` (`h`) with the queries they wait for. `ApplyCached`, `StartLoad`, `ReadDomains`, `ReadKeywords`, `StoreRules`, `FailLoad`, `InvalidateCache`, `Restart`; the verdict is the operator `Filter` |
| `DataKeys` | envelope encryption in one process | `memory`, the buffers keys live in, which `currentDek`, `unwrapCache` and the calls refer to; the `envelopes` of the database. `EncryptCached`, `GenerateKey`, `StoreKey`, `Encrypt`; `DecryptCached`, `AskUnwrap`, `StoreUnwrapped`, `Decrypt`; `FailKeyCall`, `ClearKeyCache`, `Restart` |
| `MobileApp` | the app of one user with the endpoints it calls | of the backend the account's status, the flag, sessions and requests under way (`patches`, `delete`, `callback`); of the app the token `stored` and in memory, the sign-in `flow`, `leaving`, the `switch`, `cache` and `fetch` |
| `MailIngestProofs`, `MailAccountProofs`, `CouponClassifyProofs`, `NotificationDispatchProofs`, `WatchRenewalProofs`, `RuleFilterProofs`, `DataKeysProofs`, `MobileAppProofs` | the theorems of these modules; those of `CouponDates` are in `CouponClassifyProofs`, which relates the two | inductive invariants |
| `MC*` | instances for TLC | fault budgets, sample mails and rules, symmetry |

Conventions. Every `await` is a boundary between two actions, so everything another
handler can do in between is explored. A worker is an invocation in flight; there
are two where overlap matters. What the environment may do wrong (a crash, an
expired lease, a lost answer) is a *fault* that spends from
`Budget` (and `MaxFaults`, over all kinds), so each run names what it allows, and the properties that hold only up to
faults say how many they are worth. `Fail` is both a thrown call and an instance
replaced at any `await`: the message is not acknowledged in either case.
Variables called history in the modules (`skipped`, `stopped`, `erased`, `listed`,
`delivered`, `unregistered`, `unseen`, `since`, `version`, `changed`, `floor`, `born`)
record what happened and guard nothing but their own bounds.
Definitions headed *Mutant* are alternatives of the definition that follows them,
each with a plausible mistake; no specification uses them. They show that a property
of a run depends on the code it is about.

Abstractions. Accounts share nothing in ingestion, so one is modelled. Mail `m` is
the one that took the mailbox's history id from `m-1` to `m`. Which mails the rule
filter passes is the constant `Passing`, what extraction finds in a mail the constant
`Parsed`. The regular expressions, MIME decoding, texts and ciphertexts are not
modelled. Access and refresh token are one grant: both columns are written together.

## Runs

Runs that must hold:

| Run | Shows | Bounds |
| --- | --- | --- |
| `ingest_handlers` | `ClassifyAtMostOnce`, `CursorCovers`, `TruncationNeedsOverflow`, `OrphansBounded`, and the refinement of `MailLedger` (`LedgerSpec`) | 3 mails, the first of which the filter drops (so that a history fetch may start behind a mail), a fetch of 1, one waiting message, two handlers; one crash, one expired lease, one watch registration, one expired cursor |
| `ingest_recovery` | `PollRecovers`: every passing mail is recorded in the end, or accounted for | 2 mails, a fetch of 1, one handler; one crash, watch registration, expired cursor, mail older than a day, deletion and token rejection (one handler keeps its lease) |
| `account_races` | `DisconnectHolds`, `ReauthNeedsCause`, `DeadGrantIsNoticed` | two requests, one invocation, two grants withdrawn at any time, one failing call, a limit of 2 failed renewals which can be reached; the proofs cover any number of invocations for the first two |
| `classify_mails` | `OneCouponPerDelivery`, `LostTasksBounded`, `AckNeedsReason`, `PublishedIsSettled`, and the refinement of `CouponLedger` (`CouponLedgerSpec`) | a dated and an undated mail (the constant `Parsed` also knows spam, which is acknowledged like an expired coupon), two handlers, three days; any two of a crash, an overlap, a lost account and a deleted mail |
| `dispatch_devices` | `DuplicatesNeedFault`, `DeliveriesRecorded`, `DoneServesAll`, `WaitingTaskServes` | one task (the two kinds of task differ in their text and their attempts only), two tokens with two device ids each, two handlers, any three of the eight kinds of fault |
| `watch_renewal` | `LapseNeedsFaults`, `RecordedWatchIsReal` | two accounts, any number of days; a watch of four days renewed within three, so that a renewal is a day away instead of four; three faults (as many as the margin is worth), one disconnect or withdrawn grant, one retry of the job |
| `filter_rules` | `RulesTakeEffect`, `InvalidationHolds`, `RulesNeverGoBack` | two users with a domain of each kind, a keyword without a weight and one of weight 0, two handlers, two changes of a row, a cache of two ticks, queries of up to one, five ticks of time |
| `data_keys` | `EnvelopesCarryTheirKey`, `DecryptionsSucceed`, `KeysRotate` | two calls at once, four buffers, a cache of two ticks, provider calls of up to one, four ticks of time, one clearing of the caches, restarts without bound |
| `mobile_screens` | `SwitchShowsFlag`, `DisconnectIsShown` | two sessions, two requests of the switch under way at once, one lost answer or keychain error; restarts, sign-outs and expiring sessions without bound |
| `dates_days` | `ExpiryIsPrinted`, `JudgedLikeListed`, `ReminderSaysTomorrow`, `BadgeFitsTab` | nine days around a new year, the end of February in a common and a leap year and a month's end, four hours of each, 53 texts; two days of time in steps of three hours (all the boundaries are multiples of three); server in UTC, phone in Korea |

But for `ingest_recovery` and `dates_days`, each also checks its module's type invariant. The bounds are small because the
interactions are: a race needs two handlers of the same message, an overflow one mail
more than a fetch takes, a cursor bug a mail on either side of it, a partial
failure one device that works and one that does not. The code's own limits (500
mails, 5 delivery attempts, 3 failures, 4 and 3 task attempts) occur in guards only as
"reached" and "not yet reached", and are constants.

Runs that must find a violation. Each checks something a document or a comment
says of the program, and what TLC finds is how the code differs; the quotes are in
`PROJECT.json`:

| Run | The claim | What happens |
| --- | --- | --- |
| `ingest_watch_jump` | a renewal only restores real-time delivery | the watch response replaces the cursor; mail in between is never fetched |
| `mobile_signin` | the consent page is how one signs in | an active account is refused with 409, and there is no other way to a session |

Other places where the code and its documents part ways. No run of their own shows
them; the properties above carry the exception each of them needs:

* A handler cut short between `processedMail.create` and the publish leaves a mail
  its redelivery passes over (`mail-ingest.service.ts:161`), and one cut short behind
  `coupon.create` a coupon without its push (`coupon-classify.service.ts:81`), where
  `docs/08-에러처리및엣지케이스.md:52` asks for idempotent handlers that complete on
  redelivery: `spent["fail"]` in `OrphansBounded` and `LostTasksBounded`.
* A mail deleted after the history named it fails every later fetch of the account
  (`auth/gmail.provider.ts:277`), where `docs/01-메일연동.md:90` trusts the safety poll:
  `gone # {}` in `PollRecovers`.
* FCM is called before the `sent` row is written (`notification.service.ts:113`), so a
  retry may repeat a notification despite the comment at line 22: the sum in
  `DuplicatesNeedFault`.
* Two overlapping deliveries of a mail both find no coupon
  (`coupon-classifier/coupon-classify.service.ts:76`) and create one each, where the
  comment at line 35 says the second is noticed: `spent["redeliver"]` in
  `OneCouponPerDelivery`.
* A refresh under way stores both tokens again after a disconnect has erased them
  (`auth/mail-account-token.service.ts:155`), where `auth/mail-account.service.ts:27`
  calls them really removed: `erased` in `DisconnectHolds` is only set when none was.
* A date with an implausible year is read again without it when the word for "until"
  follows (`coupon-classifier/extractors/date-parser.ts:136`), and makes a coupon where
  `docs/02-쿠폰판별로직.md:157` and `:160` have the mail held: `ExpiryIsPrinted` leaves the
  year open.
* The comment at `auth/auth.service.ts:119` has the renewal batch try a failed
  registration again at its next run. That is so for a new account, which has no
  expiry; a reconnect keeps the cursor of the connection before, and the batch passes
  over the account until that expiry is three days away: `unregistered` in
  `LapseNeedsFaults` and `RecordedWatchIsReal`.
* One account whose load throws ends the renewal batch
  (`jobs/gmail-watch-renewal.job.ts:85`), day after day if the cause stays, and a job
  that is executed again counts the same failure twice. The faults of
  `LapseNeedsFaults` are those of all accounts together.
* An unwrapped data key is replaced, never removed
  (`common/encryption/encryption.service.ts:120`), so it stays in memory for the life of
  the process, where `docs/07-보안개인정보.md:12` gives it five minutes. Nothing calls
  `clearKeyCache`, made for the end of the process; if something did while calls run,
  they would go on with zeros: `cleared` in `EnvelopesCarryTheirKey`.
* Nothing calls `invalidateCache` of the rule filter either, so a changed rule always
  waits for the cache to expire.
* The settings screen and `mobile/src/api/mailAccounts.ts:35` say that the coupons of
  an account go when it is disconnected; the disconnect sets its status, and nothing
  deletes rows.
* The notification switch starts as on (`mobile/src/screens/SettingsScreen.tsx:29`)
  and is never loaded from the server: `known` in `SwitchShowsFlag`.
* A session that has expired is an error like any other to the app
  (`mobile/src/api/client.ts:34` has no reader), which stays signed in without one.
* The reminder's time is compared with the start of the handler
  (`coupon-classify.service.ts:147`): one that passes meanwhile goes out at once.
* `markReauthRequired` looks neither at the status nor at the grant
  (`mail-account-token.service.ts:100`). It overwrites `revoked`, so a disconnected
  account may be listed again: `DisconnectHolds` says only that it is not active, and
  `since` in `DisconnectIsShown` has every status since the disconnect. And a handler
  that loaded its grant before a reconnect, and is refused after it, signs out an account
  that works, the last case of `ReauthNeedsCause`; an update conditioned on the stored
  token would close it.
* The third failed renewal takes an account out of `active`
  (`jobs/gmail-watch-renewal.job.ts:109`), and so out of the safety poll to which
  `docs/08-에러처리및엣지케이스.md:14` would leave it: `spent["error"]`, all failures so far,
  in `ReauthNeedsCause`.
* A date without a year is looked for in the year the mail was received and the next,
  never in the one before (`coupon-classifier/extractors/date-parser.ts:87`): on
  1 January "until 12/31" is the end of the new year, where the day of tolerance in
  `docs/02-쿠폰판별로직.md:158` would have it expired. `ExpiryIsPrinted` leaves the year
  open.
* A reminder that arrives after the last day still says "tonight"
  (`notification/notification-message.util.ts:95`): the dispatch looks at a status
  nothing changes (`notification/notification.service.ts:53`) and not at the date.
  `ReminderSaysTomorrow` is about reminders sent within their day.
* A successful renewal does not reset `consecutive_failures`
  (`mail-account-token.service.ts:127`), so the failures counted need not be
  consecutive as `docs/01-메일연동.md:77` has it: `ReauthNeedsCause` counts them all.

Deadlock is checked for every module but three. Classification and dispatch end when
their messages and tasks are done, and dates when the days they follow are over; their
runs say so.

## Fairness

* A handler that has started takes its next step (`WF` on `Handler`, `Run`, `Serve`):
  Node resumes a settled `await`, and a call that never settles is ended by the
  request timeout, which is the fault `Fail`.
* Pub/Sub and Cloud Tasks deliver what is waiting. Deliveries of one message among
  others need strong fairness, because the workers may be taken each time; ingestion
  has one queue and weak fairness is enough.
* Cloud Scheduler runs the safety poll again and again (`WF` on `SafetyPoll`;
  `SF` on the start of an ingest in `MailAccount`, where an invocation may be busy).
* The batch, the caches and the app have safety properties only, and no fairness. That
  a lapsed watch is renewed in the end was left out: the graph of the days is too large
  for TLC's liveness check at a bound where the days matter.
* Nothing is assumed of users, of Google, of mail arriving or of time passing, and
  no fault is ever required.

## Proofs

TLC checks the instances above. TLAPS proves the invariants for every value of the
constants that the module's assumption admits: any number of workers, mails, devices,
rules, accounts and calls, every limit and every fault budget. Each inductive invariant
below was also checked by TLC on its run's instance before it was proved.
No property that a run checks of a state or of a step is without its theorem.

`MailIngestProofs`, from `IngestAssumption` and `WorkerAssumption`:

* `TypesHold`, `IngestInvariant`, and from it `ClassifyOnce`,
  `CursorNeverPassesUnrecorded`, `TruncationOnlyOnOverflow`;
* `OrphansAreFailures`: the mails left with a row and no message are no more than the
  handlers that failed. A step adds at most one to the set that is counted, and only a
  failure does;
* `ImplementsLedger`: every step of ingestion is a step of `MailLedger` or leaves it
  alone.

`CursorCovers` is not inductive: it says nothing of the cursor a handler is about to
store. `IngestInv` adds, for each handler, that what it will store is covered, still
on its list, or was never listed (`NextCovered`), that what it loaded stays covered
(`BaseCovered`), that a history fetch lists the `MaxFetch` mails next to its cursor
(`ListedFirst`), those no longer on the list having rows (`ListRecorded`), and that the
row in its hands is published by nobody else (`RowInHand`). Each is kept by the
handler's own step and, because rows are never removed and `skipped` only grows, by
every other. `TruncationOnlyOnOverflow` is a property of steps: it is what
`ListedFirst` and `ListRecorded` say at the step in which a handler is through with its
list and saves the cursor.

`MailAccountProofs`, from `AccountAssumption`:

* `TypeCorrect` needs that a request or handler that is about to store a token has one
  (`TokenInHand`);
* `DisconnectStays` rests on `DisconnectInv`: the one action that sets `active` also
  ends the disconnect, and while tokens erased with no refresh under way are gone, the
  account is not active, so that no handler loads a token to refresh;
* `ReauthCaused` is a property of steps too, and rests on `ReauthInv`: every grant
  somebody holds was issued, so that Google, which issues each once, never accepts a
  refused one again (`LiveGrants`); a failure counter, in the row or in a batch's
  snapshot, never exceeds the renewals that failed; and whoever is about to mark the
  account was refused a grant that is dead for good, or gives up after that many
  failures (`MarkHasReason`).

`CouponClassifyProofs`, from `ClassifyAssumption`. Its run ends within days; the
proofs hold for every length of time and number of mails.

* `CouponsPerDelivery` and `LostTasks` rest on `CountInv`. That a mail has one coupon
  says nothing of the handlers that looked before it was there and will create another,
  so `MadeInv` counts them in: coupons, handlers that may still create one and a
  delivery to come are at most one and the redeliveries. `LostInv` counts, beside the
  coupons without their tasks, those whose handler still has the tasks before it.
* `AcksHaveReasons` needs the types only (`AckInv`).
* `ImplementsCouponLedger`: every step of classification creates a coupon, announces
  one that has no push, reminds of one announced, or is none of the ledger's. That
  `EnqueuePush` finds a coupon without a push is `LostInv`, whose count includes the
  handler itself; for the reminder `RemindInv` counts the handlers about to schedule one
  among the pushes without a reminder.

The module also extends `CouponDates`, whose names are therefore its own (`DatesInit`,
`DatesSpec`, `VerdictOn`), and proves its properties from `DatesAssumption`, for every
set of texts, every horizon and clock, and all offsets of server and phone:

* `HalfDaysSuffice`: with the server in any zone, the two ticks a day by which
  `CouponClassify` judges a mail and decides on its reminder give the verdict and the
  decision that `CouponDates` computes from the hours;
* `ExpiriesArePrinted`, `VerdictsAgreeWithLists`, `RemindersSayTomorrow` and
  `BadgesFitTabs` rest on `DatesInv`: a coupon's expiry is what the parser found and was
  not over on the day of the verdict (`JudgedInv`), and a reminder is for the time its
  coupon's expiry gives, its phrase the one of the hour it was said at (`RemindedInv`);
* what the parser and the calendar compute is proved for every text and every day,
  without induction on either. The naturals are well-ordered (`LeastNat`), which gives
  the first plausible date of a text and the year of a day (`YearExists`); that a day
  lies in the year it was made from is arithmetic on the lengths of years and months.

`NotificationDispatchProofs`, from `DispatchAssumption`:

* `ClosedTasksServed` rests on `ServeInv`. A closed task is the last of many
  handlers, so the invariant follows each of them: a device that was listed stays before
  the handler in its loop, or the handler will ask for a retry (`failed`), until FCM
  took the notification or the device was unregistered;
* `DuplicatesAreFaults` rests on `PushInv`: what a token got, what handlers that
  outlived their task may still send it (`Strays`) and what the task itself owes it
  (`Owed`) are at most one and the faults that hide a send from the next attempt;
* `SentIsRecorded` rests on `RecordInv`: pushes are a set, numbered for each token,
  so that a message FCM accepts adds one element to a finite set, whatever the number
  of tokens; every step keeps the difference between that set and the sent rows, or a
  failed handler or a lost answer pays for it.

`WatchRenewalProofs`, from `RenewalAssumption`:

* `LapsesAreFaults` and `RecordedWatchesAreReal` rest on `RenewalInv`. That a watch
  has not lapsed today does not keep it from lapsing tomorrow: the invariant says that
  each day by which a watch is below the margin has cost a fault, today's included once
  the batch has passed the account by, and that every expiry the batch or a request is
  about to write is one that Gmail gave.

`RuleFilterProofs`, from `RuleAssumption`:

* `InvalidationsHold` and `ChangesTakeEffect` rest on `RulesInv`: the rows a load has
  read (`QueryInv`) and those of the cache (`CacheInv`) differ from the tables only in
  rows changed since that load began, and no load is older than its queries may take;
* `CacheNeverGoesBack` is the action property `RulesNeverGoBack`, from the same
  invariant.

`DataKeysProofs`, from `KeyAssumption`:

* `EnvelopesKeepTheirKey` and `DecryptionsNeverFail` rest on `KeyInv`. Buffers are
  shared, so an envelope is only as good as the buffer its call holds: that buffer has
  the key it was made for, or zeros where `clearKeyCache` hit the call, and a key still
  being wrapped is in no cache, where a clearing could reach it;
* `KeysAreRotated` rests on `AgeInv`: the age of the key of every call under way and of
  the cached one.

`MobileAppProofs`, from `MobileAssumption`:

* `SwitchIsTheFlag` rests on `SwitchInv`: the app waits for one PATCH at most, and
  what a PATCH under way will set is known until it is answered or given up;
* `DisconnectsAreShown` rests on `ListInv`: a delete under way has a cached list to
  invalidate, the account's status is one it has had since (`since`), and so is that of
  every answer on its way to the cache: the fetch that was under way when the app saw
  the disconnect succeed is ended there.

Each of these modules also proves its module's `TypeOK` (`TypesHold`, in
`MailAccountProofs` `TypeCorrect`). Where `TypeOK` does not follow from itself, `TypeInv`
adds what each handler holds at each of its stages.

What the assumptions ask of the constants, beyond their types, the code gives them: the
caches live for some time (`CACHE_TTL_MS`, `DEK_CACHE_TTL_MS`), a watch lives longer than
the margin it is renewed within, there is a task to dispatch, and the handlers of
classification and dispatch, which are counted, are finitely many. `MaxClock` is not
below 2, where the clock starts, and the mails of `CouponDates` are received after its
day 0, where the calendar of the model begins.

Left to TLC are the liveness properties (`PollRecovers`, `DeadGrantIsNoticed`,
`PublishedIsSettled`, `WaitingTaskServes`): fairness and `ENABLED` are beyond the prover.

## Plan

Done, in this order: the ingestion of one account with its abstract ledger, since
everything else depends on no mail being lost there; the account whose state every
handler reads; classification; dispatch; the dates of a coupon; the proofs of the
first two; then the rule filter, the data keys, the renewal batch and the app.

Then the proofs of every module: types, the inductive invariants behind each safety
property, and the two refinements.

What could follow: an abstract specification of dispatch (a notification and its
devices), whose implementation `PushInv` and `RecordInv` already contain, and models of
the parts listed as partly or not modelled.

Not modelled:

* The composition of classification and dispatch. They meet only in the tasks one
  enqueues and the other takes, whose loss and repetition both modules contain; the
  reminder that outlives a disconnect reads nothing that a disconnect writes.
* Paused ordering keys (`common/messaging/pubsub.publisher.ts:45`): which publishes of a
  key fail and which wait is up to the client library. A failed publish is a fault.
* The guard of internal callers, error formatting, health and configuration: they
  reject or format, and change no state.
* MIME decoding and the regular expressions: text in, text out, within the reach of
  unit tests.
* The app's coupon screens, which only read; layout; seeds, migrations and back-office
  scripts.
