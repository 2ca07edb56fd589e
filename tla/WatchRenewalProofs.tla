------------------------- MODULE WatchRenewalProofs -------------------------
(* Theorems about WatchRenewal for every set of accounts, every lifetime and *)
(* margin of a watch, and every number of faults.                            *)
EXTENDS WatchRenewal, TLAPS

USE RenewalAssumption

Working == {"mark", "register", "save", "count"}

(* Whoever works on an account has one, and counts below the limit.          *)
TypeInv ==
    /\ TypeOK
    /\ job.stage \in Working => job.at \in Accounts
    /\ job.stage = "count" => job.failures[job.at] + 1 < MAX_CONSECUTIVE_FAILURES
    /\ request.stage # "idle" => request.account \in Accounts

(* A connected account whose watch is known to have been registered.         *)
Sound(a) == Connected(a) /\ a \notin unregistered

(* The batch of the day is over, or done with the account.                   *)
Passed(a) ==
    \/ job.stage = "done"
    \/ /\ job.stage # "waiting" /\ a \notin job.todo
       /\ ~ (job.stage = "register" /\ job.at = a)

(* Every day below the margin has cost a fault, today's when the batch has   *)
(* passed; and whoever is about to write an expiry writes one that is real.  *)
RenewedInv(a) ==
    /\ recorded[a] <= watch[a]
    /\ request.stage = "cursor" /\ request.account = a => request.read <= watch[a]
    /\ request.stage = "save" /\ request.account = a => watch[a] = WATCH_TTL_DAYS
    /\ job.stage = "save" /\ job.at = a => watch[a] = WATCH_TTL_DAYS
    /\ faults + watch[a] + 1 >= RENEW_WITHIN_DAYS
    /\ Passed(a) => faults + watch[a] >= RENEW_WITHIN_DAYS \/ watch[a] = Over

RenewalInv == \A a \in Accounts : Sound(a) => RenewedInv(a)

-----------------------------------------------------------------------------
(* The fields of the batch after its own kinds of updates.                   *)
LEMMA ProceedFacts ==
    ASSUME job \in Job, NEW s \in JobStages, Proceed(s)
    PROVE  /\ job' \in Job
           /\ job'.stage = s /\ job'.attempt = job.attempt /\ job'.todo = job.todo
           /\ job'.at = job.at /\ job'.failures = job.failures
BY DEF Job, Proceed

LEMMA NextAccountFacts ==
    ASSUME job \in Job, job.at \in Accounts, NextAccount
    PROVE  /\ job' \in Job
           /\ job'.stage = "loop" /\ job'.todo = job.todo /\ job'.at = None
<1> DEFINE rest == [job.failures EXCEPT ![job.at] = 0]
<1>1. rest \in Counts
  BY DEF Job, Counts
<1>2. job' = [job EXCEPT !.stage = "loop", !.at = None, !.failures = rest]
  BY DEF NextAccount
<1> HIDE DEF rest
<1> QED
  BY <1>1, <1>2 DEF Job, JobStages

LEMMA WaitingFacts ==
    /\ Waiting \in Job
    /\ Waiting.stage = "waiting" /\ Waiting.attempt = 1
    /\ [Waiting EXCEPT !.stage = "done"] \in Job
    /\ [Waiting EXCEPT !.stage = "done"].stage = "done"
    /\ \A n \in 1..MaxAttempts : /\ [Waiting EXCEPT !.attempt = n] \in Job
                                 /\ [Waiting EXCEPT !.attempt = n].stage = "waiting"
<1>1. [a \in Accounts |-> 0] \in Counts
  BY DEF Counts
<1> DEFINE zero == [a \in Accounts |-> 0]
<1>2. Waiting = [stage |-> "waiting", attempt |-> 1, todo |-> {},
                 at |-> None, failures |-> zero] /\ zero \in Counts
  BY <1>1 DEF Waiting
<1> HIDE DEF zero
<1> QED
  BY <1>2 DEF Job, JobStages

LEMMA FindFacts ==
    ASSUME TypeInv, FindAccounts
    PROVE  /\ job' \in Job /\ job'.stage = "loop"
           /\ \A a \in Accounts : status[a] = "active" /\ Due(a) => a \in job'.todo
<1>1. PICK found \in SUBSET {a \in Accounts : status[a] = "active" /\ MayBeDue(a)} :
         /\ {a \in Accounts : status[a] = "active" /\ Due(a)} \subseteq found
         /\ job' = [job EXCEPT !.stage = "loop", !.todo = found,
                      !.failures = [a \in Accounts |-> IF a \in found THEN failures[a] ELSE 0]]
  BY DEF FindAccounts
<1> DEFINE read == [a \in Accounts |-> IF a \in found THEN failures[a] ELSE 0]
<1>2. read \in Counts
  BY DEF TypeInv, TypeOK, Counts
<1>3. job' = [job EXCEPT !.stage = "loop", !.todo = found, !.failures = read]
  BY <1>1
<1> HIDE DEF read
<1> QED
  BY <1>1, <1>2, <1>3 DEF TypeInv, TypeOK, Job, JobStages

LEMMA LoadFacts ==
    ASSUME TypeInv, NEW a \in Accounts, LoadActive(a)
    PROVE  /\ job' \in Job
           /\ job'.stage \in {"loop", "mark", "register"}
           /\ job'.at = a /\ job'.todo = job.todo \ {a}
           /\ status[a] = "active" /\ a \in granted => job'.stage = "register"
<1>1. PICK next \in IF status[a] # "active" THEN {"loop"}
                    ELSE IF a \in granted THEN {"register"} ELSE {"mark", "register"} :
         job' = [job EXCEPT !.todo = job.todo \ {a}, !.at = a, !.stage = next]
  BY DEF LoadActive
<1>2. next \in {"loop", "mark", "register"}
      /\ (status[a] = "active" /\ a \in granted => next = "register")
  BY <1>1
<1> HIDE <1>1
<1> QED
  BY <1>1, <1>2 DEF TypeInv, TypeOK, Job, JobStages

(* What the types say of the fields.                                         *)
LEMMA FieldTypes ==
    ASSUME TypeInv
    PROVE  /\ job \in Job /\ job.stage \in JobStages /\ job.attempt \in 1..MaxAttempts
           /\ job.todo \subseteq Accounts /\ job.at \in Accounts \cup {None}
           /\ \A a \in Accounts : job.failures[a] \in 0..MAX_CONSECUTIVE_FAILURES - 1
           /\ \A a \in Accounts : recorded[a] \in DaysLeft /\ watch[a] \in DaysLeft
           /\ request.stage \in RequestStages /\ request.read \in DaysLeft
           /\ request.account \in Accounts \cup {None}
           /\ faults \in Nat
BY DEF TypeInv, TypeOK, Job, Counts

-----------------------------------------------------------------------------
LEMMA TypeInit == Init => TypeInv
<1> SUFFICES ASSUME Init PROVE TypeInv
  OBVIOUS
<1>1. job \in Job /\ job.stage = "waiting"
  BY WaitingFacts DEF Init
<1>2. failures \in Counts
  BY DEF Init, Counts
<1>3. request \in [stage: RequestStages, account: Accounts \cup {None}, read: DaysLeft]
      /\ request.stage = "idle"
  BY DEF Init, NoRequest, RequestStages, DaysLeft, Over
<1>4. recorded \in [Accounts -> DaysLeft] /\ watch \in [Accounts -> DaysLeft]
  BY DEF Init, DaysLeft, Over
<1> QED
  BY <1>1, <1>2, <1>3, <1>4 DEF Init, TypeInv, TypeOK, Statuses, Working

(* A day less is a day, too.                                                 *)
LEMMA LaterDays ==
    /\ \A d \in DaysLeft : /\ Later(d) \in DaysLeft
                           /\ Later(d) <= d /\ Later(d) + 1 >= d
                           /\ d # Over => Later(d) = d - 1
                           /\ d = Over => Later(d) = Over
    /\ \A d, e \in DaysLeft : d <= e => Later(d) <= Later(e)
    /\ WATCH_TTL_DAYS \in DaysLeft /\ Over \in DaysLeft
BY DEF Later, DaysLeft, Over

LEMMA RequestFacts ==
    /\ NoRequest \in [stage: RequestStages, account: Accounts \cup {None}, read: DaysLeft]
    /\ NoRequest.stage = "idle"
BY DEF NoRequest, RequestStages, DaysLeft, Over

LEMMA ConnectFacts ==
    ASSUME NEW a \in Accounts, Connect(a)
    PROVE  /\ request' \in [stage: RequestStages, account: Accounts \cup {None}, read: DaysLeft]
           /\ request'.stage = "register" /\ request'.account = a
BY DEF Connect, NoRequest, RequestStages, DaysLeft, Over

LEMMA TypeStep == TypeInv /\ [Next]_vars => TypeInv'
<1> SUFFICES ASSUME TypeInv, [Next]_vars PROVE TypeInv'
  OBVIOUS
<1> USE DEF TypeInv
<1>1. CASE UNCHANGED vars
  BY <1>1 DEF vars, rows, gmail, TypeOK
<1>2. CASE NextDay
  <2>1. recorded' \in [Accounts -> DaysLeft] /\ watch' \in [Accounts -> DaysLeft]
    BY <1>2, LaterDays DEF NextDay, TypeOK
  <2>2. job' \in Job /\ job'.stage = "waiting"
    BY <1>2, WaitingFacts DEF NextDay
  <2> QED
    BY <1>2, <2>1, <2>2 DEF NextDay, TypeOK, Working
<1>3. ASSUME NEW a \in Accounts, Connect(a) PROVE TypeInv'
  <2>1. request' \in [stage: RequestStages, account: Accounts \cup {None}, read: DaysLeft]
        /\ request'.account = a
    BY <1>3, ConnectFacts
  <2>2. failures' \in Counts
    BY <1>3 DEF Connect, TypeOK, Counts
  <2>3. status' \in [Accounts -> Statuses]
    BY <1>3 DEF Connect, TypeOK, Statuses
  <2> QED
    BY <1>3, <2>1, <2>2, <2>3 DEF Connect, TypeOK
<1>4. CASE ConnectRegister
  <2>1. request.account \in Accounts
    BY <1>4 DEF ConnectRegister, Asks
  <2>2. watch' \in [Accounts -> DaysLeft] /\ unregistered' \subseteq Accounts
    BY <1>4, LaterDays DEF ConnectRegister, RegisterWatch, TypeOK
  <2>3. request' \in [stage: RequestStages, account: Accounts \cup {None}, read: DaysLeft]
        /\ request'.account = request.account
    BY <1>4 DEF ConnectRegister, TypeOK, RequestStages
  <2> QED
    BY <1>4, <2>1, <2>2, <2>3 DEF ConnectRegister, rows, TypeOK
<1>5. CASE ConnectSave
  <2>1. recorded' \in [Accounts -> DaysLeft]
    BY <1>5, LaterDays DEF ConnectSave, SaveWatch, TypeOK
  <2> QED
    BY <1>5, <2>1, RequestFacts DEF ConnectSave, gmail, TypeOK
<1>6. CASE ConnectUnregistered
  <2>1. request.account \in Accounts
    BY <1>6 DEF ConnectUnregistered, Asks
  <2> QED
    BY <1>6, <2>1, RequestFacts DEF ConnectUnregistered, rows, gmail, TypeOK
<1>7. ASSUME NEW a \in Accounts, Disconnect(a) PROVE TypeInv'
  <2>1. watch' \in [Accounts -> DaysLeft] /\ granted' \subseteq Accounts
    BY <1>7, LaterDays DEF Disconnect, gmail, TypeOK
  <2>2. status' \in [Accounts -> Statuses] /\ endings' \in 0..MaxEndings
    BY <1>7 DEF Disconnect, Ending, TypeOK, Statuses
  <2> QED
    BY <1>7, <2>1, <2>2 DEF Disconnect, Ending, TypeOK
<1>8. ASSUME NEW a \in Accounts, RevokeAtGoogle(a) PROVE TypeInv'
  <2>1. watch' \in [Accounts -> DaysLeft] /\ granted' \subseteq Accounts
        /\ endings' \in 0..MaxEndings
    BY <1>8, LaterDays DEF RevokeAtGoogle, Ending, TypeOK
  <2> QED
    BY <1>8, <2>1 DEF RevokeAtGoogle, Ending, rows, TypeOK
<1>9. ASSUME NEW a \in Accounts, SaveCursorRead(a) PROVE TypeInv'
  <2>1. request' \in [stage: RequestStages, account: Accounts \cup {None}, read: DaysLeft]
        /\ request'.account = a
    BY <1>9 DEF SaveCursorRead, TypeOK, RequestStages
  <2> QED
    BY <1>9, <2>1 DEF SaveCursorRead, rows, gmail, TypeOK
<1>10. CASE SaveCursorWrite
  <2>1. recorded' \in [Accounts -> DaysLeft]
    BY <1>10 DEF SaveCursorWrite, TypeOK
  <2>2. failures' \in Counts
    <3>1. request.account \in Accounts
      BY <1>10 DEF SaveCursorWrite, Asks
    <3> QED
      BY <1>10, <3>1 DEF SaveCursorWrite, TypeOK, Counts
  <2> QED
    BY <1>10, <2>1, <2>2, RequestFacts DEF SaveCursorWrite, gmail, TypeOK
<1>11. CASE FindAccounts
  BY <1>11, FindFacts DEF FindAccounts, rows, gmail, TypeOK, Working
<1>12. ASSUME NEW a \in Accounts, LoadActive(a) PROVE TypeInv'
  BY <1>12, LoadFacts DEF LoadActive, rows, gmail, TypeOK, Working
<1>13. CASE Register
  <2>1. job.at \in Accounts
    BY <1>13 DEF Register, On, Working
  <2>2. watch' \in [Accounts -> DaysLeft] /\ unregistered' \subseteq Accounts
    BY <1>13, LaterDays DEF Register, RegisterWatch, TypeOK
  <2>3. job' \in Job /\ job'.stage \in {"save", "mark"} /\ job'.at = job.at
    <3>1. PICK s \in {"save", "mark"} : Proceed(s)
      BY <1>13 DEF Register
    <3> QED
      BY <3>1, ProceedFacts DEF JobStages, TypeOK
  <2> QED
    BY <1>13, <2>1, <2>2, <2>3 DEF Register, rows, TypeOK
<1>14. CASE Save
  <2>1. job.at \in Accounts
    BY <1>14 DEF Save, On, Working
  <2>2. recorded' \in [Accounts -> DaysLeft]
    BY <1>14, LaterDays DEF Save, SaveWatch, TypeOK
  <2> QED
    BY <1>14, <2>1, <2>2, NextAccountFacts DEF Save, gmail, TypeOK, Working
<1>15. CASE RegisterError
  <2>1. job.at \in Accounts /\ job.failures[job.at] \in 0..MAX_CONSECUTIVE_FAILURES - 1
    BY <1>15, FieldTypes DEF RegisterError, On, Working
  <2>2. PICK s \in {"mark", "count"} :
           Proceed(s) /\ (s = "count" => job.failures[job.at] + 1 < MAX_CONSECUTIVE_FAILURES)
    BY <1>15, <2>1 DEF RegisterError
  <2>3. /\ job' \in Job /\ job'.stage = s /\ job'.at = job.at /\ job'.failures = job.failures
    BY <2>2, ProceedFacts DEF JobStages, TypeOK
  <2>4. faults' \in 0..MaxFaults
    BY <1>15 DEF RegisterError, Fault, TypeOK
  <2> QED
    BY <1>15, <2>1, <2>2, <2>3, <2>4 DEF RegisterError, Fault, rows, gmail, TypeOK
<1>16. CASE CountFailure
  <2>1. job.at \in Accounts /\ job.failures[job.at] \in 0..MAX_CONSECUTIVE_FAILURES - 1
        /\ job.failures[job.at] + 1 < MAX_CONSECUTIVE_FAILURES
    BY <1>16, FieldTypes DEF CountFailure, On, Working
  <2>2. failures' \in Counts
    <3>1. job.failures[job.at] + 1 \in 0..MAX_CONSECUTIVE_FAILURES - 1
      BY <2>1
    <3> QED
      BY <1>16, <2>1, <3>1 DEF CountFailure, TypeOK, Counts
  <2> QED
    BY <1>16, <2>1, <2>2, NextAccountFacts DEF CountFailure, gmail, TypeOK, Working
<1>17. CASE MarkReauthRequired
  <2>1. job.at \in Accounts
    BY <1>17 DEF MarkReauthRequired, On, Working
  <2>2. status' \in [Accounts -> Statuses]
    BY <1>17 DEF MarkReauthRequired, TypeOK, Statuses
  <2> QED
    BY <1>17, <2>1, <2>2, NextAccountFacts DEF MarkReauthRequired, gmail, TypeOK, Working
<1>18. CASE Finish
  BY <1>18, WaitingFacts DEF Finish, rows, gmail, TypeOK, Working
<1>19. CASE JobFails
  <2>1. job' \in Job /\ job'.stage \in {"waiting", "done"}
    <3>1. CASE job.attempt < MaxAttempts
      <4>1. job.attempt + 1 \in 1..MaxAttempts
        BY <3>1, FieldTypes
      <4>2. job' = [Waiting EXCEPT !.attempt = job.attempt + 1]
        BY <1>19, <3>1 DEF JobFails
      <4> QED
        BY <4>1, <4>2, WaitingFacts
    <3>2. CASE ~ (job.attempt < MaxAttempts)
      BY <1>19, <3>2, WaitingFacts DEF JobFails
    <3> QED
      BY <3>1, <3>2
  <2>2. faults' \in 0..MaxFaults
    BY <1>19 DEF JobFails, Fault, TypeOK
  <2> QED
    BY <1>19, <2>1, <2>2 DEF JobFails, Fault, rows, gmail, TypeOK, Working
<1>20. CASE MissDay
  <2>1. faults' \in 0..MaxFaults
    BY <1>20 DEF MissDay, Fault, TypeOK
  <2> QED
    BY <1>20, <2>1, WaitingFacts DEF MissDay, Fault, rows, gmail, TypeOK, Working
<1> QED
  BY <1>1, <1>2, <1>3, <1>4, <1>5, <1>6, <1>7, <1>8, <1>9, <1>10, <1>11, <1>12, <1>13,
     <1>14, <1>15, <1>16, <1>17, <1>18, <1>19, <1>20
  DEF Next, Batch, Serve

(* Whoever works on an account has one, and no account's failures are        *)
(* counted up to the limit at which it is to be marked.                      *)
THEOREM TypeCorrect == Spec => []TypeInv
<1>1. Init => TypeInv
  BY TypeInit
<1>2. TypeInv /\ [Next]_vars => TypeInv'
  BY TypeStep
<1> QED
  BY <1>1, <1>2, PTL DEF Spec

(* The rows of the accounts, Gmail's watches, the batch and the requests     *)
(* beside it keep their types.                                               *)
THEOREM TypesHold == Spec => []TypeOK
<1>1. TypeInv => TypeOK
  BY DEF TypeInv
<1> QED
  BY <1>1, TypeCorrect, PTL

-----------------------------------------------------------------------------
(* An account whose watch is new has all that the invariant asks for.        *)
LEMMA NewWatch ==
    ASSUME TypeInv', NEW a \in Accounts, watch'[a] = WATCH_TTL_DAYS
    PROVE  RenewedInv(a)'
<1>1. /\ recorded'[a] \in DaysLeft /\ request'.read \in DaysLeft /\ faults' \in Nat
  BY DEF TypeInv, TypeOK
<1> QED
  BY <1>1 DEF RenewedInv, DaysLeft, Over

(* What a step may do beside an account without hurting it.                  *)
LEMMA SameWatch ==
    ASSUME TypeInv, TypeInv', NEW a \in Accounts, RenewedInv(a),
           watch'[a] = watch[a], recorded'[a] <= watch[a], faults' >= faults,
           request'.stage = "cursor" /\ request'.account = a => request'.read <= watch[a],
           request'.stage = "save" /\ request'.account = a => watch[a] = WATCH_TTL_DAYS,
           job'.stage = "save" /\ job'.at = a => watch[a] = WATCH_TTL_DAYS,
           Passed(a)' => Passed(a) \/ faults' > faults \/ watch[a] >= RENEW_WITHIN_DAYS
    PROVE  RenewedInv(a)'
<1>1. /\ watch[a] \in DaysLeft /\ faults \in Nat /\ faults' \in Nat
  BY DEF TypeInv, TypeOK
<1>2. faults' + watch[a] + 1 >= RENEW_WITHIN_DAYS
  BY <1>1 DEF RenewedInv, DaysLeft, Over
<1>3. ASSUME Passed(a)' PROVE faults' + watch[a] >= RENEW_WITHIN_DAYS \/ watch[a] = Over
  <2>1. CASE Passed(a)
    BY <1>1, <2>1 DEF RenewedInv, DaysLeft, Over
  <2>2. CASE faults' > faults
    BY <1>1, <2>2 DEF RenewedInv, DaysLeft, Over
  <2>3. CASE watch[a] >= RENEW_WITHIN_DAYS
    BY <1>1, <2>3 DEF DaysLeft, Over
  <2> QED
    BY <1>3, <2>1, <2>2, <2>3
<1> QED
  BY <1>2, <1>3 DEF RenewedInv

LEMMA RenewalInit == Init => RenewalInv
BY DEF Init, RenewalInv, Sound, Connected

-----------------------------------------------------------------------------
LEMMA NextDayStep ==
    ASSUME TypeInv, RenewalInv, NextDay, TypeInv', NEW a \in Accounts, Sound(a)'
    PROVE  RenewedInv(a)'
<1>1. Sound(a) /\ Passed(a)
  BY DEF NextDay, Sound, Connected, Asks, Passed
<1>2. RenewedInv(a)
  BY <1>1 DEF RenewalInv
<1>3. recorded'[a] = Later(recorded[a]) /\ watch'[a] = Later(watch[a])
  BY DEF NextDay
<1>4. recorded[a] \in DaysLeft /\ watch[a] \in DaysLeft /\ faults \in Nat
  BY DEF TypeInv, TypeOK
<1>5. recorded'[a] <= watch'[a]
  BY <1>2, <1>3, <1>4, LaterDays DEF RenewedInv
<1>6. request'.stage = "idle" /\ job'.stage = "waiting" /\ faults' = faults
  BY WaitingFacts, RequestFacts DEF NextDay
<1>7. faults' + watch'[a] + 1 >= RENEW_WITHIN_DAYS
  <2>1. CASE watch[a] = Over
    BY <1>2, <1>3, <1>4, <1>6, <2>1, LaterDays DEF RenewedInv
  <2>2. CASE watch[a] # Over
    <3>1. watch'[a] = watch[a] - 1
      BY <1>3, <1>4, <2>2, LaterDays
    <3>2. faults + watch[a] >= RENEW_WITHIN_DAYS
      BY <1>1, <1>2, <2>2 DEF RenewedInv
    <3> QED
      BY <1>4, <1>6, <3>1, <3>2 DEF DaysLeft, Over
  <2> QED
    BY <2>1, <2>2
<1> QED
  BY <1>5, <1>6, <1>7 DEF RenewedInv, Passed

(* The requests of the user and of the ingest handlers, and the end of       *)
(* grants.                                                                   *)
LEMMA RequestSteps ==
    ASSUME TypeInv, RenewalInv, TypeInv', NEW a \in Accounts, Sound(a)',
           \/ Serve
           \/ \E b \in Accounts :
                 Connect(b) \/ Disconnect(b) \/ RevokeAtGoogle(b) \/ SaveCursorRead(b)
    PROVE  RenewedInv(a)'
<1>1. UNCHANGED <<job, faults>> /\ (Passed(a)' => Passed(a))
  BY DEF Serve, Connect, ConnectRegister, ConnectSave, ConnectUnregistered, Disconnect,
         RevokeAtGoogle, SaveCursorRead, SaveCursorWrite, Ending, Passed
<1>2. /\ faults \in Nat /\ watch[a] \in DaysLeft /\ recorded[a] \in DaysLeft
      /\ request.stage # "idle" => request.account \in Accounts
  BY DEF TypeInv, TypeOK
<1>3. faults' >= faults
  BY <1>1, <1>2
<1>4. ASSUME Sound(a), watch'[a] = watch[a], recorded'[a] <= watch[a],
             request'.stage = "cursor" /\ request'.account = a => request'.read <= watch[a],
             request'.stage = "save" /\ request'.account = a => watch[a] = WATCH_TTL_DAYS
      PROVE  RenewedInv(a)'
  <2>1. RenewedInv(a)
    BY <1>4 DEF RenewalInv
  <2>2. job'.stage = "save" /\ job'.at = a => watch[a] = WATCH_TTL_DAYS
    BY <1>1, <2>1 DEF RenewedInv
  <2> QED
    BY <1>1, <1>3, <1>4, <2>1, <2>2, SameWatch
<1>5. ASSUME NEW b \in Accounts, Connect(b) PROVE RenewedInv(a)'
  <2>1. request'.stage = "register" /\ request'.account = b /\ request.stage = "idle"
    BY <1>5, RequestFacts, ConnectFacts DEF Connect
  <2>2. a # b
    BY <2>1 DEF Sound, Connected, Asks
  <2>3. Sound(a)
    BY <1>5, <2>1, <2>2 DEF Connect, Sound, Connected, Asks, TypeInv, TypeOK
  <2> QED
    BY <1>4, <1>5, <2>1, <2>3 DEF Connect, RenewalInv, RenewedInv
<1>6. CASE ConnectRegister
  <2>1. CASE a = request.account
    BY <1>6, <2>1, NewWatch DEF ConnectRegister, RegisterWatch, TypeInv, TypeOK
  <2>2. CASE a # request.account
    <3>1. Sound(a) /\ watch'[a] = watch[a] /\ recorded' = recorded
      BY <1>6, <2>2 DEF ConnectRegister, RegisterWatch, rows, Sound, Connected, Asks,
                        TypeInv, TypeOK
    <3>2. request'.stage = "save" /\ request'.account = request.account
      BY <1>6 DEF ConnectRegister, TypeInv, TypeOK
    <3> QED
      BY <1>4, <2>2, <3>1, <3>2 DEF RenewalInv, RenewedInv
  <2> QED
    BY <2>1, <2>2
<1>7. CASE ConnectSave
  <2>1. Sound(a) /\ request'.stage = "idle" /\ watch' = watch
    BY <1>7, RequestFacts DEF ConnectSave, Sound, Connected, Asks, gmail
  <2>2. CASE a = request.account
    BY <1>7, <2>1, <2>2, NewWatch DEF ConnectSave, Asks, RenewalInv, RenewedInv
  <2>3. CASE a # request.account
    <3>1. recorded'[a] = recorded[a]
      BY <1>7, <2>3 DEF ConnectSave, SaveWatch, TypeInv, TypeOK
    <3> QED
      BY <1>4, <2>1, <3>1 DEF RenewalInv, RenewedInv
  <2> QED
    BY <2>2, <2>3
<1>8. CASE ConnectUnregistered
  <2>1. Sound(a) /\ request'.stage = "idle"
    BY <1>8, RequestFacts DEF ConnectUnregistered, Sound, Connected, Asks, rows, gmail
  <2> QED
    BY <1>4, <1>8, <2>1 DEF ConnectUnregistered, rows, gmail, RenewalInv, RenewedInv
<1>9. ASSUME NEW b \in Accounts, Disconnect(b) \/ RevokeAtGoogle(b) PROVE RenewedInv(a)'
  <2>1. status[a] = "active" /\ a \in granted /\ watch'[a] = watch[a]
    BY <1>9 DEF Disconnect, RevokeAtGoogle, rows, gmail, Sound, Connected, TypeInv, TypeOK
  <2>2. Sound(a)
    BY <1>9, <2>1 DEF Disconnect, RevokeAtGoogle, Sound, Connected, Asks
  <2>3. recorded' = recorded /\ request' = request
    BY <1>9 DEF Disconnect, RevokeAtGoogle, rows
  <2> QED
    BY <1>4, <2>1, <2>2, <2>3 DEF RenewalInv, RenewedInv
<1>10. ASSUME NEW b \in Accounts, SaveCursorRead(b) PROVE RenewedInv(a)'
  <2>1. /\ request'.stage = "cursor" /\ request'.account = b /\ request'.read = recorded[b]
        /\ request.stage = "idle" /\ recorded' = recorded /\ watch' = watch
    BY <1>10, RequestFacts DEF SaveCursorRead, rows, gmail
  <2>2. Sound(a)
    BY <1>10, <2>1 DEF SaveCursorRead, rows, gmail, Sound, Connected, Asks
  <2> QED
    BY <1>4, <2>1, <2>2 DEF RenewalInv, RenewedInv
<1>11. CASE SaveCursorWrite
  <2>1. Sound(a) /\ request'.stage = "idle" /\ watch' = watch
    BY <1>11, RequestFacts DEF SaveCursorWrite, Sound, Connected, Asks, gmail
  <2>2. recorded'[a] <= watch[a]
    BY <1>11, <2>1 DEF SaveCursorWrite, Asks, RenewalInv, RenewedInv, TypeInv, TypeOK
  <2> QED
    BY <1>4, <2>1, <2>2
<1> QED
  BY <1>5, <1>6, <1>7, <1>8, <1>9, <1>10, <1>11 DEF Serve

(* The steps of the batch.                                                   *)
LEMMA BatchSteps ==
    ASSUME TypeInv, RenewalInv, TypeInv', NEW a \in Accounts, Sound(a)',
           Batch \/ RegisterError \/ JobFails \/ MissDay
    PROVE  RenewedInv(a)'
<1>1. /\ faults \in Nat /\ watch[a] \in DaysLeft /\ recorded[a] \in DaysLeft
      /\ job \in Job
      /\ job.stage \in Working => job.at \in Accounts
  BY DEF TypeInv, TypeOK
<1>2. request' = request /\ granted' = granted /\ faults' >= faults
  <2>1. CASE RegisterError \/ JobFails \/ MissDay
    BY <1>1, <2>1 DEF RegisterError, JobFails, MissDay, gmail, Fault
  <2>2. CASE FindAccounts \/ Finish \/ \E b \in Accounts : LoadActive(b)
    <3>1. UNCHANGED <<gmail, request, faults>>
      BY <2>2 DEF FindAccounts, LoadActive, Finish
    <3> QED
      BY <1>1, <3>1 DEF gmail
  <2>3. CASE Register \/ Save \/ CountFailure \/ MarkReauthRequired
    <3>1. UNCHANGED <<granted, request, faults>>
      BY <2>3 DEF Register, Save, CountFailure, MarkReauthRequired, gmail
    <3> QED
      BY <1>1, <3>1
  <2> QED
    BY <2>1, <2>2, <2>3 DEF Batch
<1>3. CASE Register
  <2>1. CASE a = job.at
    BY <1>1, <1>3, <2>1, NewWatch
    DEF Register, RegisterWatch, Sound, Connected, TypeInv, TypeOK
  <2>2. CASE a # job.at
    <3>1. Sound(a) /\ watch'[a] = watch[a] /\ recorded' = recorded
      BY <1>2, <1>3, <2>2 DEF Register, RegisterWatch, rows, Sound, Connected, Asks,
                              TypeInv, TypeOK
    <3>2. RenewedInv(a)
      BY <3>1 DEF RenewalInv
    <3>3. job'.at = job.at /\ job'.todo = job.todo /\ job'.stage \in {"save", "mark"}
      <4>1. PICK s \in {"save", "mark"} : Proceed(s)
        BY <1>3 DEF Register
      <4> QED
        BY <1>1, <4>1, ProceedFacts DEF JobStages
    <3>4. Passed(a)' => Passed(a)
      BY <1>3, <2>2, <3>3 DEF Register, On, Passed
    <3> QED
      BY <1>2, <2>2, <3>1, <3>2, <3>3, <3>4, SameWatch DEF RenewedInv
  <2> QED
    BY <2>1, <2>2
<1>4. CASE Save
  <2>1. job.at \in Accounts /\ job.stage = "save"
    BY <1>1, <1>4 DEF Save, On, Working
  <2>2. Sound(a) /\ watch' = watch
    BY <1>2, <1>4 DEF Save, gmail, Sound, Connected, Asks
  <2>3. RenewedInv(a)
    BY <2>2 DEF RenewalInv
  <2>4. CASE a = job.at
    BY <2>1, <2>2, <2>3, <2>4, NewWatch DEF RenewedInv
  <2>5. CASE a # job.at
    <3>1. recorded'[a] = recorded[a]
      BY <1>4, <2>5 DEF Save, SaveWatch, TypeInv, TypeOK
    <3>2. job'.stage = "loop" /\ job'.todo = job.todo
      BY <1>1, <1>4, <2>1, NextAccountFacts DEF Save
    <3>3. Passed(a)' => Passed(a)
      BY <2>1, <3>2 DEF Passed
    <3> QED
      BY <1>2, <2>2, <2>3, <3>1, <3>2, <3>3, SameWatch DEF RenewedInv
  <2> QED
    BY <2>4, <2>5
<1>5. ASSUME Sound(a), watch' = watch, recorded' = recorded, job'.stage # "save",
             Passed(a)' => Passed(a) \/ faults' > faults \/ watch[a] >= RENEW_WITHIN_DAYS
      PROVE  RenewedInv(a)'
  <2>1. RenewedInv(a)
    BY <1>5 DEF RenewalInv
  <2> QED
    BY <1>2, <1>5, <2>1, SameWatch DEF RenewedInv
<1>6. CASE FindAccounts
  <2>1. Sound(a) /\ watch' = watch /\ recorded' = recorded
    BY <1>2, <1>6 DEF FindAccounts, rows, gmail, Sound, Connected, Asks
  <2>2. job'.stage = "loop" /\ (Due(a) => a \in job'.todo)
    BY <1>6, <2>1, FindFacts DEF Sound, Connected
  <2>3. a \notin job'.todo => watch[a] >= RENEW_WITHIN_DAYS
    BY <1>1, <2>1, <2>2 DEF Due, RenewalInv, RenewedInv, DaysLeft, Over
  <2> QED
    BY <1>5, <2>1, <2>2, <2>3 DEF Passed
<1>7. ASSUME NEW b \in Accounts, LoadActive(b) PROVE RenewedInv(a)'
  <2>1. Sound(a) /\ watch' = watch /\ recorded' = recorded
    BY <1>2, <1>7 DEF LoadActive, rows, gmail, Sound, Connected, Asks
  <2>2. /\ job'.stage \in {"loop", "mark", "register"} /\ job'.at = b /\ job'.todo = job.todo \ {b}
        /\ a = b => job'.stage = "register"
    BY <1>7, <2>1, LoadFacts DEF Sound, Connected
  <2>3. Passed(a)' => Passed(a)
    BY <1>7, <2>2 DEF LoadActive, On, Passed
  <2> QED
    BY <1>5, <2>1, <2>2, <2>3
<1>8. CASE RegisterError
  <2>1. Sound(a) /\ watch' = watch /\ recorded' = recorded
    BY <1>2, <1>8 DEF RegisterError, rows, gmail, Sound, Connected, Asks
  <2>2. PICK s \in {"mark", "count"} : Proceed(s)
    BY <1>8 DEF RegisterError
  <2>3. job'.stage # "save" /\ faults' > faults
    BY <1>1, <1>8, <2>2, ProceedFacts DEF RegisterError, Fault, JobStages
  <2> QED
    BY <1>5, <2>1, <2>3
<1>9. CASE CountFailure
  <2>1. Sound(a) /\ watch' = watch /\ recorded' = recorded
    BY <1>2, <1>9 DEF CountFailure, gmail, Sound, Connected, Asks
  <2>2. job'.stage = "loop" /\ job'.todo = job.todo /\ job.stage = "count"
    BY <1>1, <1>9, NextAccountFacts DEF CountFailure, On, Working
  <2> QED
    BY <1>5, <2>1, <2>2 DEF Passed
<1>10. CASE MarkReauthRequired
  <2>1. job'.stage = "loop" /\ job'.todo = job.todo /\ job.stage = "mark" /\ job.at \in Accounts
    BY <1>1, <1>10, NextAccountFacts DEF MarkReauthRequired, On, Working
  <2>2. status[a] = "active"
    BY <1>10, <2>1 DEF MarkReauthRequired, Sound, Connected, TypeInv, TypeOK
  <2>3. Sound(a) /\ watch' = watch /\ recorded' = recorded
    BY <1>2, <1>10, <2>2 DEF MarkReauthRequired, gmail, Sound, Connected, Asks
  <2> QED
    BY <1>5, <2>1, <2>3 DEF Passed
<1>11. CASE Finish
  <2>1. Sound(a) /\ watch' = watch /\ recorded' = recorded
    BY <1>2, <1>11 DEF Finish, rows, gmail, Sound, Connected, Asks
  <2>2. job'.stage = "done" /\ Passed(a)
    BY <1>11, WaitingFacts DEF Finish, On, Passed
  <2> QED
    BY <1>5, <2>1, <2>2
<1>12. CASE JobFails \/ MissDay
  <2>1. Sound(a) /\ watch' = watch /\ recorded' = recorded
    BY <1>2, <1>12 DEF JobFails, MissDay, rows, gmail, Sound, Connected, Asks
  <2>2. faults' > faults
    BY <1>1, <1>12 DEF JobFails, MissDay, Fault
  <2>3. job'.stage # "save"
    <3>1. job'.stage \in {"waiting", "done"}
      <4>1. CASE JobFails /\ job.attempt < MaxAttempts
        <5>1. job.attempt + 1 \in 1..MaxAttempts
          BY <1>1, <4>1 DEF Job
        <5>2. job' = [Waiting EXCEPT !.attempt = job.attempt + 1]
          BY <4>1 DEF JobFails
        <5> QED
          BY <5>1, <5>2, WaitingFacts
      <4>2. CASE JobFails /\ ~ (job.attempt < MaxAttempts)
        BY <4>2, WaitingFacts DEF JobFails
      <4>3. CASE MissDay
        BY <4>3, WaitingFacts DEF MissDay
      <4> QED
        BY <1>12, <4>1, <4>2, <4>3
    <3> QED
      BY <3>1
  <2> QED
    BY <1>5, <2>1, <2>2, <2>3
<1> QED
  BY <1>3, <1>4, <1>6, <1>7, <1>8, <1>9, <1>10, <1>11, <1>12 DEF Batch

LEMMA RenewalStep == TypeInv /\ RenewalInv /\ [Next]_vars /\ TypeInv' => RenewalInv'
<1> SUFFICES ASSUME TypeInv, RenewalInv, [Next]_vars, TypeInv', NEW a \in Accounts, Sound(a)'
             PROVE  RenewedInv(a)'
  BY DEF RenewalInv
<1>1. CASE UNCHANGED vars
  BY <1>1 DEF vars, rows, gmail, RenewalInv, RenewedInv, Sound, Connected, Asks, Passed
<1>2. CASE Next
  BY <1>2, NextDayStep, RequestSteps, BatchSteps DEF Next
<1> QED
  BY <1>1, <1>2

(* The inductive invariant of the renewal: of an account whose last connect  *)
(* registered a watch, every day below the margin of RENEW_WITHIN_DAYS has   *)
(* cost a fault, and whoever holds an expiry to write holds a real one.      *)
THEOREM RenewalInvariant == Spec => []RenewalInv
<1>1. Init => RenewalInv
  BY RenewalInit
<1>2. TypeInv /\ RenewalInv /\ [Next]_vars /\ TypeInv' => RenewalInv'
  BY RenewalStep
<1> QED
  BY <1>1, <1>2, TypeCorrect, PTL DEF Spec

(* No connected account is without its watch before as many faults as the    *)
(* batch has days of margin, unless its last connect could not register it.  *)
THEOREM LapsesAreFaults == Spec => []LapseNeedsFaults
<1>1. TypeInv /\ RenewalInv => LapseNeedsFaults
  <2> SUFFICES ASSUME TypeInv, RenewalInv, NEW a \in Accounts, Connected(a), watch[a] = Over,
                      a \notin unregistered
               PROVE  faults >= RENEW_WITHIN_DAYS
    BY DEF LapseNeedsFaults
  <2>1. RenewedInv(a) /\ faults \in Nat
    BY DEF RenewalInv, Sound, TypeInv, TypeOK
  <2> QED
    BY <2>1 DEF RenewedInv, Over
<1> QED
  BY <1>1, TypeCorrect, RenewalInvariant, PTL

(* No expiry in a connected account's row is later than that of the watch    *)
(* Gmail keeps, whoever wrote it, with the same exception.                   *)
THEOREM RecordedWatchesAreReal == Spec => []RecordedWatchIsReal
<1>1. RenewalInv => RecordedWatchIsReal
  BY DEF RenewalInv, RecordedWatchIsReal, Sound, RenewedInv
<1> QED
  BY <1>1, RenewalInvariant, PTL

=============================================================================
