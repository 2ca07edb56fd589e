---------------------------- MODULE WatchRenewal ----------------------------
(***************************************************************************)
(* Gmail ends a watch after seven days.  A daily batch renews, account by  *)
(* account, the watches that have less than three days left according to  *)
(* the expiry in the accounts' cursor column, which connects and ingest    *)
(* handlers write as well.                                                 *)
(*                                                                         *)
(* Expiries are counted in days left, so that time can pass for ever: on a *)
(* day with 0 left the watch ends, and Over is a day that has passed.      *)
(***************************************************************************)
EXTENDS Integers

CONSTANTS
    Accounts,
    None,
    WATCH_TTL_DAYS,            \* how long Gmail keeps a watch
    RENEW_WITHIN_DAYS,
    MAX_CONSECUTIVE_FAILURES,
    MaxAttempts,               \* how often Cloud Run executes a failing job
    MaxFaults,                 \* bound: faults of the batch and of Gmail's answers to it
    MaxEndings                 \* bound: disconnects and withdrawn grants

ASSUME RenewalAssumption ==
    /\ {WATCH_TTL_DAYS, RENEW_WITHIN_DAYS, MAX_CONSECUTIVE_FAILURES, MaxAttempts}
         \subseteq Nat \ {0}
    /\ RENEW_WITHIN_DAYS < WATCH_TTL_DAYS
    /\ {MaxFaults, MaxEndings} \subseteq Nat

Over == -1
DaysLeft == Over..WATCH_TTL_DAYS

VARIABLES
    status,     \* per account; "none": no row yet
    recorded,   \* the watchExpiresAt of its cursor; Over if it has none, too
    failures,   \* its consecutive_failures
    granted,    \* the accounts whose grant Google accepts
    watch,      \* the watches Gmail really keeps
    job,        \* the batch of the day
    request,    \* the connect or the saveCursor under way beside it
    \* History: the accounts whose last connect could not register a watch, and
    \* that have had none since; the faults and the endings so far.
    unregistered, faults, endings

rows == <<status, recorded, failures>>
gmail == <<granted, watch>>
vars == <<rows, gmail, job, request, unregistered, faults, endings>>

Statuses == {"none", "active", "reauth_required", "revoked"}
(* The batch: the accounts it has still to look at, with what its query      *)
(* found in their rows, and the account it is working on.                    *)
JobStages == {"waiting", "loop", "mark", "register", "save", "count", "done"}

Counts == [Accounts -> 0..MAX_CONSECUTIVE_FAILURES - 1]
Job == [stage: JobStages, attempt: 1..MaxAttempts, todo: SUBSET Accounts,
        at: Accounts \cup {None}, failures: Counts]

RequestStages == {"idle", "register", "save", "cursor"}

TypeOK ==
    /\ status \in [Accounts -> Statuses]
    /\ recorded \in [Accounts -> DaysLeft] /\ watch \in [Accounts -> DaysLeft]
    /\ failures \in Counts /\ job \in Job
    /\ granted \subseteq Accounts /\ unregistered \subseteq Accounts
    /\ request \in [stage: RequestStages, account: Accounts \cup {None}, read: DaysLeft]
    /\ faults \in 0..MaxFaults /\ endings \in 0..MaxEndings

Fault == faults < MaxFaults /\ faults' = faults + 1 /\ UNCHANGED endings
Ending == endings < MaxEndings /\ endings' = endings + 1 /\ UNCHANGED faults

-----------------------------------------------------------------------------
Waiting == [stage |-> "waiting", attempt |-> 1, todo |-> {},
            at |-> None, failures |-> [a \in Accounts |-> 0]]

NoRequest == [stage |-> "idle", account |-> None, read |-> Over]
Asks(stage) == request.stage = stage

Init ==
    /\ status = [a \in Accounts |-> "none"]
    /\ recorded = [a \in Accounts |-> Over]
    /\ failures = [a \in Accounts |-> 0]
    /\ granted = {} /\ watch = [a \in Accounts |-> Over]
    /\ job = Waiting
    /\ request = NoRequest
    /\ unregistered = {} /\ faults = 0 /\ endings = 0

Later(days) == IF days = Over THEN Over ELSE days - 1

(* Midnight.  Requests and batches take minutes.                             *)
NextDay ==
    /\ job.stage = "done"
    /\ request = NoRequest
    /\ recorded' = [a \in Accounts |-> Later(recorded[a])]
    /\ watch' = [a \in Accounts |-> Later(watch[a])]
    /\ job' = Waiting
    /\ UNCHANGED <<status, failures, granted, request, unregistered, faults, endings>>

-----------------------------------------------------------------------------
(* The user and Google.                                                      *)
\* AuthService.connect up to its own registerWatch.  The row keeps its cursor.
Connect(a) ==
    /\ request = NoRequest /\ status[a] # "active"
    /\ status' = [status EXCEPT ![a] = "active"]
    /\ failures' = [failures EXCEPT ![a] = 0]
    /\ granted' = granted \cup {a}
    /\ request' = [stage |-> "register", account |-> a, read |-> Over]
    /\ UNCHANGED <<recorded, watch, job, unregistered, faults, endings>>

RegisterWatch(a) == /\ watch' = [watch EXCEPT ![a] = WATCH_TTL_DAYS]
                    /\ unregistered' = unregistered \ {a}

SaveWatch(a) == recorded' = [recorded EXCEPT ![a] = WATCH_TTL_DAYS]

ConnectRegister ==
    /\ Asks("register") /\ request.account \in granted
    /\ RegisterWatch(request.account)
    /\ request' = [request EXCEPT !.stage = "save"]
    /\ UNCHANGED <<rows, granted, job, faults, endings>>

ConnectSave ==
    /\ Asks("save")
    /\ SaveWatch(request.account)
    /\ request' = NoRequest
    /\ UNCHANGED <<status, failures, gmail, job, unregistered, faults, endings>>

\* A failed registration is logged, and the connect succeeds.
ConnectUnregistered ==
    /\ Asks("register") \/ Asks("save")
    /\ request' = NoRequest
    /\ unregistered' = unregistered \cup {request.account}
    /\ UNCHANGED <<rows, gmail, job, faults, endings>>

\* Its steps are in MailAccount.  A revocation that fails leaves the watch.
Disconnect(a) ==
    /\ status[a] # "none"
    /\ Ending
    /\ status' = [status EXCEPT ![a] = "revoked"]
    /\ \/ /\ granted' = granted \ {a}
          /\ watch' = [watch EXCEPT ![a] = Over]
       \/ UNCHANGED gmail
    /\ UNCHANGED <<recorded, failures, job, request, unregistered>>

RevokeAtGoogle(a) ==
    /\ a \in granted
    /\ Ending
    /\ granted' = granted \ {a}
    /\ watch' = [watch EXCEPT ![a] = Over]
    /\ UNCHANGED <<rows, job, request, unregistered>>

-----------------------------------------------------------------------------
(* saveCursor of an ingest handler: the cursor is read, merged and written.  *)
SaveCursorRead(a) ==
    /\ request = NoRequest /\ status[a] # "none"
    /\ request' = [stage |-> "cursor", account |-> a, read |-> recorded[a]]
    /\ UNCHANGED <<rows, gmail, job, unregistered, faults, endings>>

SaveCursorWrite ==
    /\ Asks("cursor")
    /\ recorded' = [recorded EXCEPT ![request.account] = request.read]
    /\ failures' = [failures EXCEPT ![request.account] = 0]
    /\ request' = NoRequest
    /\ UNCHANGED <<status, gmail, job, unregistered, faults, endings>>

-----------------------------------------------------------------------------
(* GmailWatchRenewalJob.run.                                                 *)
On(stage) == job.stage = stage
Proceed(stage) == job' = [job EXCEPT !.stage = stage]

\* Mutant: a watch is due when it has ended.
DueWhenOver(a) == recorded[a] = Over

\* The hour of the registration decides the day when the limit is reached.
Due(a) == recorded[a] < RENEW_WITHIN_DAYS
MayBeDue(a) == recorded[a] <= RENEW_WITHIN_DAYS

\* findMany, and the expiries it found compared with the deadline.
FindAccounts ==
    /\ On("waiting")
    /\ \E found \in SUBSET {a \in Accounts : status[a] = "active" /\ MayBeDue(a)} :
          /\ {a \in Accounts : status[a] = "active" /\ Due(a)} \subseteq found
          /\ job' = [job EXCEPT !.stage = "loop", !.todo = found,
                       !.failures = [a \in Accounts |-> IF a \in found THEN failures[a] ELSE 0]]
    /\ UNCHANGED <<rows, gmail, request, unregistered, faults, endings>>

\* Back to the loop, or on with account a.
NextAccount == job' = [job EXCEPT !.stage = "loop", !.at = None,
                                  !.failures = [@ EXCEPT ![job.at] = 0]]

\* renew: loadActive, whose refresh may find the grant gone.
LoadActive(a) ==
    /\ On("loop") /\ a \in job.todo
    /\ \E next \in IF status[a] # "active" THEN {"loop"}
                   ELSE IF a \in granted THEN {"register"}
                   ELSE {"mark", "register"}    \* a refresh finds out, or the call
         : job' = [job EXCEPT !.todo = @ \ {a}, !.at = a, !.stage = next]
    /\ UNCHANGED <<rows, gmail, request, unregistered, faults, endings>>

Register ==
    /\ On("register")
    /\ IF job.at \in granted
       THEN RegisterWatch(job.at) /\ Proceed("save")
       ELSE UNCHANGED <<watch, unregistered>> /\ Proceed("mark")
    /\ UNCHANGED <<rows, granted, request, faults, endings>>

Save ==
    /\ On("save")
    /\ SaveWatch(job.at)
    /\ NextAccount
    /\ UNCHANGED <<status, failures, gmail, request, unregistered, faults, endings>>

\* Mutant: the failure that reaches the limit is counted as well.
RegisterErrorLate ==
    /\ On("register") \/ On("save")
    /\ Fault
    /\ Proceed(IF job.failures[job.at] + 1 > MAX_CONSECUTIVE_FAILURES
               THEN "mark" ELSE "count")
    /\ UNCHANGED <<rows, gmail, request, unregistered>>

\* Mutant: the new expiry was stored before the call.
RegisterErrorSaved ==
    /\ On("register") \/ On("save")
    /\ Fault
    /\ SaveWatch(job.at)
    /\ Proceed(IF job.failures[job.at] + 1 >= MAX_CONSECUTIVE_FAILURES
               THEN "mark" ELSE "count")
    /\ UNCHANGED <<status, failures, gmail, request, unregistered>>

\* Another error of users.watch or of the update behind it.
RegisterError ==
    /\ On("register") \/ On("save")
    /\ Fault
    /\ Proceed(IF job.failures[job.at] + 1 >= MAX_CONSECUTIVE_FAILURES
               THEN "mark" ELSE "count")
    /\ UNCHANGED <<rows, gmail, request, unregistered>>

CountFailure ==
    /\ On("count")
    /\ failures' = [failures EXCEPT ![job.at] = job.failures[job.at] + 1]
    /\ NextAccount
    /\ UNCHANGED <<status, recorded, gmail, request, unregistered, faults, endings>>

MarkReauthRequired ==
    /\ On("mark")
    /\ status' = [status EXCEPT ![job.at] = "reauth_required"]
    /\ NextAccount
    /\ UNCHANGED <<recorded, failures, gmail, request, unregistered, faults, endings>>

Finish ==
    /\ On("loop") /\ job.todo = {}
    /\ job' = [Waiting EXCEPT !.stage = "done"]
    /\ UNCHANGED <<rows, gmail, request, unregistered, faults, endings>>

\* A load that throws (the accounts still to do are left), or a killed job: it
\* is executed again while there are attempts.
JobFails ==
    /\ ~ On("waiting") /\ ~ On("done")
    /\ Fault
    /\ job' = IF job.attempt < MaxAttempts THEN [Waiting EXCEPT !.attempt = job.attempt + 1]
              ELSE [Waiting EXCEPT !.stage = "done"]
    /\ UNCHANGED <<rows, gmail, request, unregistered>>

\* The scheduler, or the start of the job, fails.
MissDay ==
    /\ On("waiting")
    /\ Fault
    /\ job' = [Waiting EXCEPT !.stage = "done"]
    /\ UNCHANGED <<rows, gmail, request, unregistered>>

-----------------------------------------------------------------------------
Batch ==
    \/ FindAccounts \/ Register \/ Save \/ CountFailure \/ MarkReauthRequired \/ Finish
    \/ \E a \in Accounts : LoadActive(a)
Serve == ConnectRegister \/ ConnectSave \/ ConnectUnregistered \/ SaveCursorWrite

Next ==
    \/ NextDay \/ Batch \/ Serve \/ RegisterError \/ JobFails \/ MissDay
    \/ \E a \in Accounts :
          Connect(a) \/ Disconnect(a) \/ RevokeAtGoogle(a) \/ SaveCursorRead(a)

Spec == Init /\ [][Next]_vars

-----------------------------------------------------------------------------
Connected(a) == /\ status[a] = "active" /\ a \in granted
                /\ ~ (Asks("register") /\ request.account = a)

(* The three days of margin are worth three failures: no account loses its   *)
(* notifications to fewer, whatever the order of the batch, the writers of   *)
(* its cursor and the failures of other accounts.  Only an account whose     *)
(* last connect could not register a watch may be without one.               *)
LapseNeedsFaults ==
    \A a \in Accounts :
       Connected(a) /\ watch[a] = Over => a \in unregistered \/ faults >= RENEW_WITHIN_DAYS

(* However connects, batches and ingest handlers overwrite each other's      *)
(* cursors, none promises a watch for longer than Gmail keeps it: the batch  *)
(* does not pass over an account that lost its watch.  Except, again, where  *)
(* a reconnect could not register one and left the old expiry.               *)
RecordedWatchIsReal ==
    \A a \in Accounts : Connected(a) => a \in unregistered \/ recorded[a] <= watch[a]

=============================================================================
