----------------------------- MODULE MailAccount -----------------------------
(***************************************************************************)
(* The life of one mail_accounts row.  Connect and disconnect requests     *)
(* write it while worker handlers (mail-ingest, coupon-classify) and the   *)
(* daily watch renewal load it, refresh its tokens, call Gmail and store   *)
(* what became of it.  Every await is a point where the others run.        *)
(*                                                                         *)
(* A grant is what one consent of the user gives: a refresh token and the  *)
(* access tokens made from it.  Google accepts both until the grant is     *)
(* revoked.  Both token columns are always written together.               *)
(***************************************************************************)
EXTENDS Integers

CONSTANTS
    Workers,                   \* handler and job invocations
    Requests,                  \* connect and disconnect requests
    MaxGrants,                 \* bound: consents the user gives
    MAX_CONSECUTIVE_FAILURES,
    Budget                     \* bound: how often calls and the renewal may fail

Faults == {"fail", "error"}

ASSUME AccountAssumption ==
    /\ MaxGrants \in Nat
    /\ MAX_CONSECUTIVE_FAILURES \in Nat \ {0}
    /\ Budget \in [Faults -> Nat]

NoToken == 0
Grants  == 1..MaxGrants
Tokens  == Grants \cup {NoToken}
Statuses == {"none", "active", "reauth_required", "revoked"}
Jobs     == {"ingest", "classify", "renewal"}

(* A request: the grant it brings or found, and whether it found the row.    *)
Request == [stage: {"idle", "find", "store", "stop", "revoke", "erase"},
            token: Tokens, existing: BOOLEAN]
(* An invocation: the refresh token it loaded and, in the renewal, the       *)
(* consecutiveFailures its account list held.                                *)
Invocation == [stage: {"idle", "load", "refresh", "storetoken", "call", "save",
                       "count", "giveup", "mark"},
               job: Jobs, token: Tokens, failures: Nat]
NoRequest == [stage |-> "idle", token |-> NoToken, existing |-> FALSE]
Idle      == [stage |-> "idle", job |-> "ingest", token |-> NoToken, failures |-> 0]

VARIABLES
    status,     \* "none": no row yet
    refresh,    \* grant of the stored tokens
    fresh,      \* the stored access token is not about to expire
    failures,   \* consecutive_failures
    issued,     \* grants given so far
    live,       \* grants Google accepts
    req, h,
    \* History: a disconnect set the status, and one erased the tokens while
    \* no refresh was under way; no connect stored the account since.
    stopped, erased,
    spent

rowVars == <<status, refresh, fresh, failures>>
googleVars == <<issued, live>>
history == <<stopped, erased>>
vars == <<rowVars, googleVars, req, h, history, spent>>

TypeOK ==
    /\ status \in Statuses
    /\ refresh \in Tokens /\ fresh \in BOOLEAN /\ failures \in Nat
    /\ fresh => refresh # NoToken
    /\ issued \in 0..MaxGrants /\ live \subseteq 1..issued
    /\ req \in [Requests -> Request] /\ h \in [Workers -> Invocation]
    /\ stopped \in BOOLEAN /\ erased \in BOOLEAN
    /\ spent \in [Faults -> Nat]

Spend(kind) == /\ spent[kind] < Budget[kind]
               /\ spent' = [spent EXCEPT ![kind] = @ + 1]

Init ==
    /\ status = "none" /\ refresh = NoToken /\ fresh = FALSE /\ failures = 0
    /\ issued = 0 /\ live = {}
    /\ req = [r \in Requests |-> NoRequest] /\ h = [w \in Workers |-> Idle]
    /\ stopped = FALSE /\ erased = FALSE
    /\ spent = [k \in Faults |-> 0]

-----------------------------------------------------------------------------
(* Google and time.                                                          *)
RevokeAtGoogle ==
    /\ \E g \in live : live' = live \ {g}
    /\ UNCHANGED <<rowVars, issued, req, h, history, spent>>

ExpireAccessToken ==
    /\ fresh
    /\ fresh' = FALSE
    /\ UNCHANGED <<status, refresh, failures, googleVars, req, h, history, spent>>

-----------------------------------------------------------------------------
(* AuthService.connect.  Its watch registration changes nothing here.        *)
Asks(r, stage) == req[r].stage = stage
Proceed(r, stage) == req' = [req EXCEPT ![r].stage = stage]
Reply(r) == req' = [req EXCEPT ![r] = NoRequest]

ExchangeCode(r) ==
    /\ Asks(r, "idle") /\ issued < MaxGrants
    /\ issued' = issued + 1
    /\ live' = live \cup {issued + 1}
    /\ req' = [req EXCEPT ![r] = [stage |-> "find", token |-> issued + 1, existing |-> FALSE]]
    /\ UNCHANGED <<rowVars, h, history, spent>>

ConnectFind(r) ==
    /\ Asks(r, "find")
    /\ IF status = "active"
       THEN Reply(r)                                     \* 409
       ELSE req' = [req EXCEPT ![r].existing = (status # "none"), ![r].stage = "store"]
    /\ UNCHANGED <<rowVars, googleVars, h, history, spent>>

\* update by id, or create, which a row made meanwhile fails (P2002).
ConnectStore(r) ==
    /\ Asks(r, "store")
    /\ IF req[r].existing \/ status = "none"
       THEN /\ status' = "active"
            /\ refresh' = req[r].token /\ fresh' = TRUE
            /\ failures' = 0
            /\ stopped' = FALSE /\ erased' = FALSE
       ELSE UNCHANGED <<rowVars, history>>
    /\ Reply(r)
    /\ UNCHANGED <<googleVars, h, spent>>

(* MailAccountService.disconnect.                                            *)
DisconnectFind(r) ==
    /\ Asks(r, "idle") /\ status # "none"
    /\ req' = [req EXCEPT ![r].token = refresh, ![r].stage = "stop"]
    /\ UNCHANGED <<rowVars, googleVars, h, history, spent>>

DisconnectStop(r) ==
    /\ Asks(r, "stop")
    /\ status' = "revoked"
    /\ stopped' = TRUE
    /\ Proceed(r, IF req[r].token = NoToken THEN "erase" ELSE "revoke")
    /\ UNCHANGED <<refresh, fresh, failures, googleVars, h, erased, spent>>

\* revokeToken swallows a failed call.
DisconnectRevoke(r) ==
    /\ Asks(r, "revoke")
    /\ live' = live \ {req[r].token} \/ UNCHANGED live
    /\ Proceed(r, "erase")
    /\ UNCHANGED <<rowVars, issued, h, history, spent>>

NoRefreshUnderWay == \A w \in Workers : h[w].stage \notin {"refresh", "storetoken"}

\* Mutant: only the refresh token is erased.
DisconnectEraseRefresh(r) ==
    /\ Asks(r, "erase")
    /\ refresh' = NoToken
    /\ erased' = (stopped /\ NoRefreshUnderWay)
    /\ Reply(r)
    /\ UNCHANGED <<status, fresh, failures, googleVars, h, stopped, spent>>

DisconnectErase(r) ==
    /\ Asks(r, "erase")
    /\ refresh' = NoToken /\ fresh' = FALSE
    /\ erased' = (stopped /\ NoRefreshUnderWay)
    /\ Reply(r)
    /\ UNCHANGED <<status, failures, googleVars, h, stopped, spent>>

RequestFails(r) ==
    /\ ~ Asks(r, "idle")
    /\ Spend("fail")
    /\ Reply(r)
    /\ UNCHANGED <<rowVars, googleVars, h, history>>

-----------------------------------------------------------------------------
(* The worker's handlers and the renewal job.                                *)
At(w, stage) == h[w].stage = stage
Step(w, stage) == h' = [h EXCEPT ![w].stage = stage]
\* The grant was refused, or none was there: the row will be marked.
Reject(w) == h' = [h EXCEPT ![w] = [Idle EXCEPT !.stage = "mark", !.token = h[w].token]]
End(w) == h' = [h EXCEPT ![w] = Idle]

Begin(w, job) ==
    /\ At(w, "idle") /\ status # "none"
    /\ h' = [h EXCEPT ![w] = [Idle EXCEPT !.stage = "load", !.job = job]]
    /\ UNCHANGED <<rowVars, googleVars, req, history, spent>>

StartIngest(w) == Begin(w, "ingest")
StartClassify(w) == Begin(w, "classify")

\* GmailWatchRenewalJob.run lists the active accounts with their counters.
StartRenewal(w) ==
    /\ At(w, "idle") /\ status = "active"
    /\ h' = [h EXCEPT ![w] = [Idle EXCEPT !.stage = "load", !.job = "renewal",
                                          !.failures = failures]]
    /\ UNCHANGED <<rowVars, googleVars, req, history, spent>>

LoadActive(w) ==
    /\ At(w, "load")
    /\ \/ status # "active" /\ End(w)
       \/ status = "active" /\ refresh = NoToken /\ Reject(w)
       \/ /\ status = "active" /\ refresh # NoToken
          /\ h' = [h EXCEPT ![w].token = refresh,
                            ![w].stage = IF fresh THEN "call" ELSE "refresh"]
    /\ UNCHANGED <<rowVars, googleVars, req, history, spent>>

\* refreshAndStore: Google answers with new tokens, or with invalid_grant.
RefreshAccessToken(w) ==
    /\ At(w, "refresh")
    /\ IF h[w].token \in live THEN Step(w, "storetoken") ELSE Reject(w)
    /\ UNCHANGED <<rowVars, googleVars, req, history, spent>>

\* Mutant: a stored token makes the account active.
StoreTokenAndActivate(w) ==
    /\ At(w, "storetoken")
    /\ status' = "active"
    /\ refresh' = h[w].token /\ fresh' = TRUE
    /\ Step(w, "call")
    /\ UNCHANGED <<failures, googleVars, req, history, spent>>

StoreToken(w) ==
    /\ At(w, "storetoken")
    /\ refresh' = h[w].token /\ fresh' = TRUE
    /\ Step(w, "call")
    /\ UNCHANGED <<status, failures, googleVars, req, history, spent>>

\* Mutant: a 401 is an error like any other.
CallGmailOrThrow(w) ==
    /\ At(w, "call")
    /\ IF h[w].token \in live
       THEN h' = [h EXCEPT ![w].token = NoToken, ![w].stage = "save"]
       ELSE End(w)
    /\ UNCHANGED <<rowVars, googleVars, req, history, spent>>

\* The job's calls to Gmail.  coupon-classify lets a 401 fail its message.
CallGmail(w) ==
    /\ At(w, "call")
    /\ IF h[w].token \in live
       THEN h' = [h EXCEPT ![w].token = NoToken, ![w].stage = "save"]
       ELSE IF h[w].job = "classify" THEN End(w) ELSE Reject(w)
    /\ UNCHANGED <<rowVars, googleVars, req, history, spent>>

\* Mutant: the failure limit is reached one failure early.
RenewalErrorEarly(w) ==
    /\ h[w].job = "renewal" /\ (At(w, "call") \/ At(w, "save"))
    /\ Spend("error")
    /\ Step(w, IF h[w].failures + 2 >= MAX_CONSECUTIVE_FAILURES THEN "giveup" ELSE "count")
    /\ UNCHANGED <<rowVars, googleVars, req, history>>

\* users.watch or the update after it fails for another reason.
RenewalError(w) ==
    /\ h[w].job = "renewal" /\ (At(w, "call") \/ At(w, "save"))
    /\ Spend("error")
    /\ Step(w, IF h[w].failures + 1 >= MAX_CONSECUTIVE_FAILURES THEN "giveup" ELSE "count")
    /\ UNCHANGED <<rowVars, googleVars, req, history>>

\* saveCursor resets the counter, saveWatch does not.
Save(w) ==
    /\ At(w, "save")
    /\ failures' = IF h[w].job = "ingest" THEN 0 ELSE failures
    /\ End(w)
    /\ UNCHANGED <<status, refresh, fresh, googleVars, req, history, spent>>

CountFailure(w) ==
    /\ At(w, "count")
    /\ failures' = h[w].failures + 1
    /\ End(w)
    /\ UNCHANGED <<status, refresh, fresh, googleVars, req, history, spent>>

MarkReauthRequired(w) ==
    /\ At(w, "mark") \/ At(w, "giveup")
    /\ status' = "reauth_required"
    /\ End(w)
    /\ UNCHANGED <<refresh, fresh, failures, googleVars, req, history, spent>>

HandlerFails(w) ==
    /\ ~ At(w, "idle")
    /\ Spend("fail")
    /\ End(w)
    /\ UNCHANGED <<rowVars, googleVars, req, history>>

Serve(r) ==
    \/ ConnectFind(r) \/ ConnectStore(r) \/ DisconnectStop(r)
    \/ DisconnectRevoke(r) \/ DisconnectErase(r)
Run(w) ==
    \/ LoadActive(w) \/ RefreshAccessToken(w) \/ StoreToken(w) \/ CallGmail(w)
    \/ Save(w) \/ CountFailure(w) \/ MarkReauthRequired(w)

Next ==
    \/ RevokeAtGoogle \/ ExpireAccessToken
    \/ \E r \in Requests : ExchangeCode(r) \/ DisconnectFind(r) \/ Serve(r) \/ RequestFails(r)
    \/ \E w \in Workers : StartIngest(w) \/ StartClassify(w) \/ StartRenewal(w)
                          \/ Run(w) \/ RenewalError(w) \/ HandlerFails(w)

Spec == Init /\ [][Next]_vars

(* Requests and invocations make progress, and the safety poll has the       *)
(* account ingested again and again.                                         *)
Fairness ==
    /\ \A r \in Requests : WF_vars(Serve(r))
    /\ \A w \in Workers : WF_vars(Run(w))
    /\ SF_vars(\E w \in Workers : StartIngest(w))

FairSpec == Spec /\ Fairness

-----------------------------------------------------------------------------
(* Once a disconnect has set the status, no handler or job that still runs   *)
(* on the tokens it loaded makes the account active again: only a connect    *)
(* does.  The tokens it erased stay gone too, unless a refresh was under way *)
(* when it erased them: that refresh stores them again, for good.            *)
DisconnectHolds ==
    /\ stopped => status # "active"
    /\ erased => refresh = NoToken

(* Whoever signs an account out (also a disconnected one: the mark does not  *)
(* look at the status) does it because Google no longer accepts the grant it *)
(* stores, because the renewal failed often enough, or, last, because of a   *)
(* refused grant that is not the stored one any more: a handler that loaded  *)
(* its token before a reconnect and is refused after it signs out an account *)
(* that works.  Nothing signs out an account for the grant it stores while   *)
(* Google accepts that: no refresh, no other error, no failed revocation.    *)
ReauthNeedsCause ==
    [][status # "reauth_required" /\ status' = "reauth_required" =>
          \E w \in Workers :
             /\ h[w].stage \in {"mark", "giveup"} /\ h'[w] = Idle
             /\ \/ refresh \notin live
                \/ At(w, "giveup") /\ spent["error"] >= MAX_CONSECUTIVE_FAILURES
                \/ At(w, "mark") /\ h[w].token \notin live \cup {refresh}]_vars

(* An active account whose stored grant Google no longer accepts (or whose   *)
(* tokens are gone) is found out.                                            *)
DeadGrantIsNoticed ==
    status = "active" /\ refresh \notin live ~> status # "active" \/ refresh \in live

=============================================================================
