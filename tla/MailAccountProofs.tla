------------------------- MODULE MailAccountProofs -------------------------
(* Theorems about MailAccount for every number of workers, requests, grants  *)
(* and faults.                                                               *)
EXTENDS MailAccount, TLAPS

USE AccountAssumption

LEMMA SpendType ==
  ASSUME TypeOK, NEW kind \in Faults, Spend(kind)
  PROVE  /\ spent' \in [Faults -> Nat]
         /\ \A k \in Faults : spent'[k] >= spent[k]
         /\ spent'[kind] = spent[kind] + 1
  BY DEF TypeOK, Spend

LEMMA NoFaultSpent ==
  ASSUME TypeOK, UNCHANGED spent
  PROVE  \A k \in Faults : spent'[k] >= spent[k]
  BY DEF TypeOK

LEMMA RecordTypes == Idle \in Invocation /\ NoRequest \in Request
  BY DEF Idle, NoRequest, Invocation, Request, Jobs, Tokens, NoToken

LEMMA FieldTypes ==
  ASSUME TypeOK
  PROVE  /\ \A w \in Workers : /\ h[w].token \in Tokens /\ h[w].failures \in Nat
                               /\ h[w].job \in Jobs
         /\ \A r \in Requests : req[r].token \in Tokens
  BY DEF TypeOK, Invocation, Request

LEMMA RejectType ==
  ASSUME TypeOK, NEW w \in Workers, Reject(w)
  PROVE  /\ h' \in [Workers -> Invocation]
         /\ h'[w].stage = "mark" /\ \A v \in Workers \ {w} : h'[v] = h[v]
<1>1. [Idle EXCEPT !.stage = "mark", !.token = h[w].token] \in Invocation
  BY RecordTypes, FieldTypes DEF Invocation
<1>2. [Idle EXCEPT !.stage = "mark", !.token = h[w].token].stage = "mark"
  BY DEF Idle
<1> QED BY <1>1, <1>2 DEF Reject, TypeOK

(* A handler or request at its stage: the grants it holds are real.          *)
TokenInHand ==
    /\ \A w \in Workers : h[w].stage \in {"refresh", "storetoken", "call"} => h[w].token # NoToken
    /\ \A r \in Requests : req[r].stage \in {"find", "store"} => req[r].token # NoToken
TypeInv == TypeOK /\ TokenInHand

LEMMA TypeInit == ASSUME Init PROVE TypeInv
<1>1. issued \in 0..MaxGrants /\ live \subseteq 1..issued
  BY DEF Init
<1>2. TypeOK
  BY <1>1, RecordTypes DEF Init, TypeOK, Statuses, Tokens, NoToken
<1>3. TokenInHand
  BY DEF Init, TokenInHand, Idle, NoRequest
<1> QED BY <1>2, <1>3 DEF TypeInv

LEMMA TypeStep == ASSUME TypeInv, [Next]_vars PROVE TypeInv'
<1> USE RecordTypes, FieldTypes DEF TypeInv, TypeOK, TokenInHand, rowVars, googleVars, history
<1>1. CASE RevokeAtGoogle
  BY <1>1 DEF RevokeAtGoogle
<1>2. CASE ExpireAccessToken
  BY <1>2 DEF ExpireAccessToken
<1>3. ASSUME NEW r \in Requests, ExchangeCode(r) PROVE TypeInv'
  <2>1. issued + 1 \in Grants
    BY <1>3 DEF ExchangeCode, Grants
  <2> QED BY <1>3, <2>1 DEF ExchangeCode, Request, Tokens, Grants, NoToken
<1>4. ASSUME NEW r \in Requests, DisconnectFind(r) PROVE TypeInv'
  BY <1>4 DEF DisconnectFind, Request
<1>5. ASSUME NEW r \in Requests, ConnectFind(r) PROVE TypeInv'
  <2>1. CASE status = "active"
    <3>1. req' = [req EXCEPT ![r] = NoRequest]
      BY <1>5, <2>1, Zenon DEF ConnectFind, Reply
    <3>2. UNCHANGED <<rowVars, googleVars, h, history, spent>>
      BY <1>5 DEF ConnectFind
    <3> QED BY <3>1, <3>2 DEF NoRequest
  <2>2. CASE status # "active"
    <3> DEFINE q == [req[r] EXCEPT !.existing = (status # "none"), !.stage = "store"]
    <3>1. req[r] \in Request /\ req[r].token # NoToken
      BY <1>5 DEF ConnectFind, Asks
    <3>2. q \in Request /\ q.token # NoToken
      BY <3>1 DEF Request
    <3>3. req' = [req EXCEPT ![r] = q]
      BY <1>5, <2>2 DEF ConnectFind
    <3> HIDE DEF q
    <3> QED BY <1>5, <3>2, <3>3 DEF ConnectFind
  <2> QED BY <2>1, <2>2
<1>6. ASSUME NEW r \in Requests, ConnectStore(r) PROVE TypeInv'
  <2>1. req' = [req EXCEPT ![r] = NoRequest] /\ UNCHANGED <<issued, live, h, spent>>
    BY <1>6 DEF ConnectStore, Reply
  <2>2. req[r].token # NoToken
    BY <1>6 DEF ConnectStore, Asks
  <2>3. CASE req[r].existing \/ status = "none"
    <3>1. /\ status' = "active" /\ refresh' = req[r].token /\ fresh' = TRUE /\ failures' = 0
          /\ stopped' = FALSE /\ erased' = FALSE
      BY <1>6, <2>3 DEF ConnectStore
    <3>2. TypeOK'
      BY <2>1, <2>2, <3>1 DEF Statuses
    <3>3. TokenInHand'
      BY <2>1 DEF NoRequest
    <3> QED BY <3>2, <3>3
  <2>4. CASE ~ (req[r].existing \/ status = "none")
    BY <1>6, <2>1, <2>4 DEF ConnectStore, NoRequest
  <2> QED BY <2>3, <2>4
<1>7. ASSUME NEW r \in Requests, DisconnectStop(r) PROVE TypeInv'
  BY <1>7 DEF DisconnectStop, Proceed, Asks, Statuses, Request
<1>8. ASSUME NEW r \in Requests, DisconnectRevoke(r) PROVE TypeInv'
  BY <1>8 DEF DisconnectRevoke, Proceed, Asks, Request
<1>9. ASSUME NEW r \in Requests, DisconnectErase(r) PROVE TypeInv'
  BY <1>9 DEF DisconnectErase, Reply, NoRequest, Asks, Tokens
<1>10. ASSUME NEW r \in Requests, RequestFails(r) PROVE TypeInv'
  BY <1>10, SpendType DEF RequestFails, Reply, NoRequest, Faults
<1>11. ASSUME NEW w \in Workers, StartIngest(w) \/ StartClassify(w) \/ StartRenewal(w)
       PROVE  TypeInv'
  <2>1. \E inv \in Invocation : inv.stage = "load" /\ h' = [h EXCEPT ![w] = inv]
    <3>1. CASE StartIngest(w)
      BY <3>1 DEF StartIngest, Begin, Idle, Invocation, Jobs
    <3>2. CASE StartClassify(w)
      BY <3>2 DEF StartClassify, Begin, Idle, Invocation, Jobs
    <3>3. CASE StartRenewal(w)
      BY <3>3 DEF StartRenewal, Idle, Invocation, Jobs
    <3> QED BY <1>11, <3>1, <3>2, <3>3
  <2>2. UNCHANGED <<rowVars, googleVars, req, history, spent>>
    BY <1>11 DEF StartIngest, StartClassify, StartRenewal, Begin
  <2>3. h' \in [Workers -> Invocation]
    BY <2>1
  <2>4. h'[w].stage = "load" /\ \A v \in Workers \ {w} : h'[v] = h[v]
    BY <2>1
  <2>5. TypeOK'
    BY <2>2, <2>3
  <2>6. TokenInHand'
    BY <2>2, <2>4
  <2> QED BY <2>5, <2>6
<1>12. ASSUME NEW w \in Workers, LoadActive(w) PROVE TypeInv'
  <2>1. CASE Reject(w)
    BY <1>12, <2>1, RejectType DEF LoadActive
  <2>2. CASE ~ Reject(w)
    BY <1>12, <2>2 DEF LoadActive, End, Idle, Invocation
  <2> QED BY <2>1, <2>2
<1>13. ASSUME NEW w \in Workers, RefreshAccessToken(w) PROVE TypeInv'
  <2>1. CASE Reject(w)
    BY <1>13, <2>1, RejectType DEF RefreshAccessToken
  <2>2. CASE ~ Reject(w)
    BY <1>13, <2>2 DEF RefreshAccessToken, Step, At, Invocation
  <2> QED BY <2>1, <2>2
<1>14. ASSUME NEW w \in Workers, StoreToken(w) PROVE TypeInv'
  BY <1>14 DEF StoreToken, Step, At, Invocation
<1>15. ASSUME NEW w \in Workers, CallGmail(w) PROVE TypeInv'
  <2>1. CASE Reject(w)
    BY <1>15, <2>1, RejectType DEF CallGmail
  <2>2. CASE ~ Reject(w)
    BY <1>15, <2>2 DEF CallGmail, End, Idle, Invocation, Tokens
  <2> QED BY <2>1, <2>2
<1>16. ASSUME NEW w \in Workers, RenewalError(w) PROVE TypeInv'
  BY <1>16, SpendType DEF RenewalError, Step, Invocation, Faults
<1>17. ASSUME NEW w \in Workers, Save(w) PROVE TypeInv'
  BY <1>17 DEF Save, End, Idle
<1>18. ASSUME NEW w \in Workers, CountFailure(w) PROVE TypeInv'
  BY <1>18 DEF CountFailure, End, Idle
<1>19. ASSUME NEW w \in Workers, MarkReauthRequired(w) PROVE TypeInv'
  BY <1>19 DEF MarkReauthRequired, End, Idle, Statuses
<1>20. ASSUME NEW w \in Workers, HandlerFails(w) PROVE TypeInv'
  BY <1>20, SpendType DEF HandlerFails, End, Idle, Faults
<1>21. CASE UNCHANGED vars
  BY <1>21 DEF vars
<1> QED
  BY <1>1, <1>2, <1>3, <1>4, <1>5, <1>6, <1>7, <1>8, <1>9, <1>10, <1>11, <1>12, <1>13,
     <1>14, <1>15, <1>16, <1>17, <1>18, <1>19, <1>20, <1>21
  DEF Next, Serve, Run

(* Requests, handlers and jobs keep every column within its type, write the  *)
(* two token columns together, and never store a token they do not have.     *)
THEOREM TypeCorrect == Spec => []TypeOK
<1>1. Init => TypeInv
  BY TypeInit
<1>2. TypeInv /\ [Next]_vars => TypeInv'
  BY TypeStep
<1>3. TypeInv => TypeOK
  BY DEF TypeInv
<1> QED BY <1>1, <1>2, <1>3, PTL DEF Spec

\* DisconnectHolds, and why the erased tokens stay gone: none is being
\* refreshed, and an account that is not active has none loaded.
DisconnectInv ==
    /\ stopped => status # "active"
    /\ erased => stopped /\ refresh = NoToken /\ NoRefreshUnderWay

LEMMA DisconnectServe ==
  ASSUME TypeOK, DisconnectInv, NEW r \in Requests,
         ExchangeCode(r) \/ DisconnectFind(r) \/ Serve(r) \/ RequestFails(r)
  PROVE  DisconnectInv'
<1> USE DEF DisconnectInv, NoRefreshUnderWay, rowVars, googleVars, history
<1>1. CASE ExchangeCode(r) \/ DisconnectFind(r) \/ ConnectFind(r) \/ RequestFails(r)
  BY <1>1 DEF ExchangeCode, DisconnectFind, ConnectFind, RequestFails
<1>2. CASE ConnectStore(r)
  BY <1>2 DEF ConnectStore
<1>3. CASE DisconnectStop(r) \/ DisconnectRevoke(r)
  BY <1>3 DEF DisconnectStop, DisconnectRevoke
<1>4. CASE DisconnectErase(r)
  <2>1. /\ refresh' = NoToken /\ UNCHANGED <<status, stopped, h>>
        /\ erased' => stopped /\ NoRefreshUnderWay
    BY <1>4 DEF DisconnectErase
  <2> QED BY <2>1
<1> QED BY <1>1, <1>2, <1>3, <1>4 DEF Serve

LEMMA DisconnectRun ==
  ASSUME TypeOK, DisconnectInv, NEW w \in Workers,
         \/ StartIngest(w) \/ StartClassify(w) \/ StartRenewal(w)
         \/ Run(w) \/ RenewalError(w) \/ HandlerFails(w)
  PROVE  DisconnectInv'
<1> USE DEF DisconnectInv, NoRefreshUnderWay, TypeOK, At, rowVars, googleVars, history
<1>1. CASE StartIngest(w) \/ StartClassify(w) \/ StartRenewal(w)
  <2>1. /\ UNCHANGED <<status, refresh, stopped, erased>>
        /\ h'[w].stage = "load" /\ \A v \in Workers \ {w} : h'[v] = h[v]
    BY <1>1, ZenonT(60) DEF StartIngest, StartClassify, StartRenewal, Begin, Idle, Invocation
  <2> QED BY <2>1
<1>2. CASE LoadActive(w)
  <2>1. UNCHANGED <<status, refresh, stopped, erased>>
    BY <1>2 DEF LoadActive
  <2>2. status # "active" => h' = [h EXCEPT ![w] = Idle]
    BY <1>2 DEF LoadActive, End
  <2>3. CASE status = "active"
    BY <2>1, <2>3
  <2>4. CASE status # "active"
    <3>1. NoRefreshUnderWay => NoRefreshUnderWay'
      BY <2>2, <2>4 DEF Idle
    <3> QED BY <2>1, <3>1
  <2> QED BY <2>3, <2>4
<1>3. CASE RefreshAccessToken(w) \/ StoreToken(w)
  BY <1>3 DEF RefreshAccessToken, StoreToken, Step, Reject, Idle
<1>4. CASE CallGmail(w)
  <2>1. /\ UNCHANGED <<status, refresh, stopped, erased>>
        /\ h'[w].stage \in {"save", "idle", "mark"} /\ \A v \in Workers \ {w} : h'[v] = h[v]
    <3>1. CASE Reject(w)
      BY <1>4, <3>1, RejectType DEF CallGmail
    <3>2. CASE ~ Reject(w)
      BY <1>4, <3>2 DEF CallGmail, End, Idle, Invocation
    <3> QED BY <3>1, <3>2
  <2> QED BY <2>1
<1>5. CASE Save(w) \/ CountFailure(w) \/ MarkReauthRequired(w) \/ HandlerFails(w)
  BY <1>5 DEF Save, CountFailure, MarkReauthRequired, HandlerFails, End, Idle
<1>6. CASE RenewalError(w)
  BY <1>6 DEF RenewalError, Step
<1> QED BY <1>1, <1>2, <1>3, <1>4, <1>5, <1>6 DEF Run

(* Whatever still runs when a disconnect has set the status, only a connect  *)
(* makes the account active again; and the tokens a disconnect erased with   *)
(* no refresh under way stay gone until then.                                *)
THEOREM DisconnectStays == Spec => []DisconnectHolds
<1>1. Init => DisconnectInv
  BY DEF Init, DisconnectInv
<1>2. TypeInv /\ DisconnectInv /\ [Next]_vars => DisconnectInv'
  <2> SUFFICES ASSUME TypeOK, DisconnectInv, [Next]_vars PROVE DisconnectInv'
    BY DEF TypeInv
  <2>1. CASE UNCHANGED vars
    BY <2>1 DEF vars, rowVars, history, DisconnectInv, NoRefreshUnderWay
  <2>2. CASE RevokeAtGoogle \/ ExpireAccessToken
    BY <2>2 DEF RevokeAtGoogle, ExpireAccessToken, rowVars, history, DisconnectInv,
       NoRefreshUnderWay
  <2> QED BY <2>1, <2>2, DisconnectServe, DisconnectRun DEF Next
<1>3. DisconnectInv => DisconnectHolds
  BY DEF DisconnectInv, DisconnectHolds
<1>4. Spec => []TypeInv
  BY TypeInit, TypeStep, PTL DEF Spec
<1> QED BY <1>1, <1>2, <1>3, <1>4, PTL DEF Spec

\* Every grant a column, a request or a handler holds was given.
HeldIsIssued ==
    /\ refresh \in 0..issued
    /\ \A r \in Requests : req[r].token \in 0..issued
    /\ \A w \in Workers : h[w].token \in 0..issued

\* A failure counter never exceeds the renewals that failed.
FailuresCounted ==
    /\ failures <= spent["error"]
    /\ \A w \in Workers :
        /\ h[w].failures <= spent["error"]
        /\ h[w].stage = "count" => h[w].failures + 1 <= spent["error"]

\* Who is about to mark the account was refused a grant that is dead for good,
\* or found none, or gives up after as many failures as that takes.
MarkHasReason ==
    \A w \in Workers :
        /\ h[w].stage = "load" => h[w].token = NoToken
        /\ h[w].stage = "mark" => h[w].token \notin live
        /\ h[w].stage = "giveup" => spent["error"] >= MAX_CONSECUTIVE_FAILURES

ReauthInv == TypeInv /\ HeldIsIssued /\ FailuresCounted /\ MarkHasReason

(* What a started and a running invocation may leave in the row and in its   *)
(* own record.                                                               *)
LEMMA StartFrame ==
  ASSUME TypeInv, NEW w \in Workers, StartIngest(w) \/ StartClassify(w) \/ StartRenewal(w)
  PROVE  /\ UNCHANGED <<rowVars, googleVars, req, history, spent>>
         /\ \A v \in Workers \ {w} : h'[v] = h[v]
         /\ h'[w].stage = "load" /\ h'[w].token = NoToken /\ h'[w].failures \in {0, failures}
<1> USE DEF TypeInv, TypeOK
<1>1. CASE StartIngest(w)
  BY <1>1 DEF StartIngest, Begin, Idle, Invocation
<1>2. CASE StartClassify(w)
  BY <1>2 DEF StartClassify, Begin, Idle, Invocation
<1>3. CASE StartRenewal(w)
  BY <1>3 DEF StartRenewal, Idle, Invocation
<1> QED BY <1>1, <1>2, <1>3

LEMMA Rejected ==
  ASSUME TypeInv, NEW w \in Workers, Reject(w)
  PROVE  /\ \A v \in Workers \ {w} : h'[v] = h[v]
         /\ h'[w].stage = "mark" /\ h'[w].token = h[w].token /\ h'[w].failures = 0
  BY DEF TypeInv, TypeOK, Reject, Idle, Invocation

LEMMA Ended ==
  ASSUME TypeInv, NEW w \in Workers, End(w)
  PROVE  /\ \A v \in Workers \ {w} : h'[v] = h[v]
         /\ h'[w].stage = "idle" /\ h'[w].token = NoToken /\ h'[w].failures = 0
  BY DEF TypeInv, TypeOK, End, Idle, Invocation

LEMMA Stepped ==
  ASSUME TypeInv, NEW w \in Workers, NEW stage, Step(w, stage)
  PROVE  /\ \A v \in Workers \ {w} : h'[v] = h[v]
         /\ h'[w].stage = stage /\ h'[w].token = h[w].token /\ h'[w].failures = h[w].failures
<1>1. h \in [Workers -> Invocation]
  BY DEF TypeInv, TypeOK
<1>2. h' = [h EXCEPT ![w].stage = stage]
  BY DEF Step
<1> QED BY <1>1, <1>2 DEF Invocation

LEMMA RunFrame ==
  ASSUME TypeInv, NEW w \in Workers, Run(w) \/ RenewalError(w) \/ HandlerFails(w)
  PROVE  /\ UNCHANGED <<googleVars, req>>
         /\ refresh' \in {refresh, h[w].token}
         /\ \A v \in Workers \ {w} : h'[v] = h[v]
         /\ h'[w].token \in {NoToken, refresh, h[w].token}
         /\ h'[w].failures \in {0, h[w].failures}
<1> USE DEF rowVars, history, googleVars
<1>1. CASE LoadActive(w)
  <2>1. CASE End(w) \/ Reject(w)
    BY <1>1, <2>1, Ended, Rejected DEF LoadActive
  <2>2. CASE ~ End(w) /\ ~ Reject(w)
    <3>1. h' = [h EXCEPT ![w].token = refresh, ![w].stage = IF fresh THEN "call" ELSE "refresh"]
      BY <1>1, <2>2 DEF LoadActive
    <3>2. h \in [Workers -> Invocation]
      BY DEF TypeInv, TypeOK
    <3>3. /\ \A v \in Workers \ {w} : h'[v] = h[v]
          /\ h'[w].token = refresh /\ h'[w].failures = h[w].failures
      BY <3>1, <3>2 DEF Invocation
    <3> QED BY <1>1, <3>3 DEF LoadActive
  <2> QED BY <2>1, <2>2
<1>2. CASE RefreshAccessToken(w)
  BY <1>2, Stepped, Rejected DEF RefreshAccessToken
<1>3. CASE StoreToken(w)
  BY <1>3, Stepped DEF StoreToken
<1>4. CASE CallGmail(w)
  <2>1. CASE End(w) \/ Reject(w)
    BY <1>4, <2>1, Ended, Rejected DEF CallGmail
  <2>2. CASE ~ End(w) /\ ~ Reject(w)
    <3>1. h' = [h EXCEPT ![w].token = NoToken, ![w].stage = "save"]
      BY <1>4, <2>2 DEF CallGmail
    <3>2. h \in [Workers -> Invocation]
      BY DEF TypeInv, TypeOK
    <3>3. /\ \A v \in Workers \ {w} : h'[v] = h[v]
          /\ h'[w].token = NoToken /\ h'[w].failures = h[w].failures
      BY <3>1, <3>2 DEF Invocation
    <3> QED BY <1>4, <3>3 DEF CallGmail
  <2> QED BY <2>1, <2>2
<1>5. CASE RenewalError(w)
  BY <1>5, Stepped DEF RenewalError
<1>6. CASE Save(w) \/ CountFailure(w) \/ MarkReauthRequired(w) \/ HandlerFails(w)
  BY <1>6, Ended DEF Save, CountFailure, MarkReauthRequired, HandlerFails
<1> QED BY <1>1, <1>2, <1>3, <1>4, <1>5, <1>6 DEF Run

LEMMA HeldStep == ASSUME TypeInv, HeldIsIssued, [Next]_vars PROVE HeldIsIssued'
<1> USE FieldTypes DEF TypeInv, TypeOK, HeldIsIssued, rowVars, googleVars, history, Tokens, Grants, NoToken
<1>1. CASE RevokeAtGoogle \/ ExpireAccessToken
  BY <1>1 DEF RevokeAtGoogle, ExpireAccessToken
<1>2. ASSUME NEW r \in Requests, ExchangeCode(r) PROVE HeldIsIssued'
  BY <1>2 DEF ExchangeCode
<1>3. ASSUME NEW r \in Requests, DisconnectFind(r) PROVE HeldIsIssued'
  BY <1>3 DEF DisconnectFind
<1>4. ASSUME NEW r \in Requests, Serve(r) \/ RequestFails(r) PROVE HeldIsIssued'
  <2>1. CASE ConnectFind(r)
    <3>1. CASE status = "active"
      BY <2>1, <3>1 DEF ConnectFind, Reply, NoRequest
    <3>2. CASE status # "active"
      <4> DEFINE q == [req[r] EXCEPT !.existing = (status # "none"), !.stage = "store"]
      <4>1. req[r] \in Request
        OBVIOUS
      <4>2. q.token = req[r].token
        BY <4>1 DEF Request
      <4>3. req' = [req EXCEPT ![r] = q]
        BY <2>1, <3>2 DEF ConnectFind
      <4> HIDE DEF q
      <4> QED BY <2>1, <4>2, <4>3 DEF ConnectFind
    <3> QED BY <3>1, <3>2
  <2>2. CASE ConnectStore(r)
    BY <2>2 DEF ConnectStore, Reply, NoRequest
  <2>3. CASE DisconnectStop(r)
    BY <2>3 DEF DisconnectStop, Proceed
  <2>4. CASE DisconnectRevoke(r)
    BY <2>4 DEF DisconnectRevoke, Proceed
  <2>5. CASE DisconnectErase(r) \/ RequestFails(r)
    BY <2>5 DEF DisconnectErase, RequestFails, Reply, NoRequest
  <2> QED BY <1>4, <2>1, <2>2, <2>3, <2>4, <2>5 DEF Serve
<1>5. ASSUME NEW w \in Workers, StartIngest(w) \/ StartClassify(w) \/ StartRenewal(w)
      PROVE  HeldIsIssued'
  BY <1>5, StartFrame
<1>6. ASSUME NEW w \in Workers, Run(w) \/ RenewalError(w) \/ HandlerFails(w)
      PROVE  HeldIsIssued'
  BY <1>6, RunFrame
<1>7. CASE UNCHANGED vars
  BY <1>7 DEF vars
<1> QED BY <1>1, <1>2, <1>3, <1>4, <1>5, <1>6, <1>7 DEF Next

LEMMA SpentGrows == ASSUME TypeInv, [Next]_vars PROVE \A k \in Faults : spent'[k] >= spent[k]
<1>1. ASSUME NEW kind \in Faults, Spend(kind) PROVE \A k \in Faults : spent'[k] >= spent[k]
  BY <1>1, SpendType DEF TypeInv
<1>2. CASE UNCHANGED spent
  BY <1>2, NoFaultSpent DEF TypeInv
<1>3. ASSUME NEW r \in Requests, Serve(r) \/ ExchangeCode(r) \/ DisconnectFind(r) \/ RequestFails(r)
      PROVE  UNCHANGED spent \/ \E kind \in Faults : Spend(kind)
  BY <1>3 DEF Serve, ExchangeCode, DisconnectFind, RequestFails, ConnectFind, ConnectStore,
     DisconnectStop, DisconnectRevoke, DisconnectErase, Faults
<1>4. ASSUME NEW w \in Workers,
             StartIngest(w) \/ StartClassify(w) \/ StartRenewal(w) \/ Run(w)
               \/ RenewalError(w) \/ HandlerFails(w)
      PROVE  UNCHANGED spent \/ \E kind \in Faults : Spend(kind)
  BY <1>4 DEF StartIngest, StartClassify, StartRenewal, Begin, Run, LoadActive, RefreshAccessToken,
     StoreToken, CallGmail, Save, CountFailure, MarkReauthRequired, RenewalError, HandlerFails, Faults
<1>5. CASE RevokeAtGoogle \/ ExpireAccessToken \/ UNCHANGED vars
  BY <1>1, <1>2, <1>5 DEF RevokeAtGoogle, ExpireAccessToken, vars, Faults
<1> QED BY <1>1, <1>2, <1>3, <1>4, <1>5 DEF Next

LEMMA CountStep == ASSUME TypeInv, FailuresCounted, [Next]_vars PROVE FailuresCounted'
<1> "error" \in Faults
  BY DEF Faults
<1>1. /\ spent["error"] \in Nat /\ spent'["error"] \in Nat /\ spent'["error"] >= spent["error"]
      /\ failures \in Nat /\ \A w \in Workers : h[w].failures \in Nat
  BY SpentGrows, TypeStep, FieldTypes DEF TypeInv, TypeOK
<1>2. SUFFICES /\ failures' <= spent'["error"]
               /\ \A w \in Workers :
                    \/ h'[w] = h[w]
                    \/ /\ h'[w].failures <= spent'["error"]
                       /\ h'[w].stage = "count" => h'[w].failures + 1 <= spent'["error"]
  BY <1>1 DEF FailuresCounted
<1>3. ASSUME UNCHANGED h, failures' \in {0, failures}
      PROVE  /\ failures' <= spent'["error"]
             /\ \A w \in Workers : h'[w] = h[w]
  BY <1>1, <1>3 DEF FailuresCounted
<1>4. CASE RevokeAtGoogle \/ ExpireAccessToken \/ UNCHANGED vars
  BY <1>3, <1>4 DEF RevokeAtGoogle, ExpireAccessToken, vars, rowVars
<1>5. ASSUME NEW r \in Requests, Serve(r) \/ ExchangeCode(r) \/ DisconnectFind(r) \/ RequestFails(r)
      PROVE  UNCHANGED h /\ failures' \in {0, failures}
  BY <1>5 DEF Serve, ExchangeCode, DisconnectFind, RequestFails, ConnectFind, ConnectStore,
     DisconnectStop, DisconnectRevoke, DisconnectErase, rowVars
<1>6. ASSUME NEW w \in Workers, StartIngest(w) \/ StartClassify(w) \/ StartRenewal(w)
      PROVE  /\ failures' = failures /\ \A v \in Workers \ {w} : h'[v] = h[v]
             /\ h'[w].failures \in {0, failures} /\ h'[w].stage = "load"
  BY <1>6, StartFrame DEF rowVars
<1>7. ASSUME NEW w \in Workers, Run(w) \/ RenewalError(w) \/ HandlerFails(w)
      PROVE  /\ failures' <= spent'["error"] /\ \A v \in Workers \ {w} : h'[v] = h[v]
             /\ h'[w].failures <= spent'["error"]
             /\ h'[w].stage = "count" => h'[w].failures + 1 <= spent'["error"]
  <2> USE DEF FailuresCounted, rowVars, Faults
  <2> h'[w].failures <= spent["error"] /\ \A v \in Workers \ {w} : h'[v] = h[v]
    BY <1>1, <1>7, RunFrame
  <2>1. CASE LoadActive(w) \/ RefreshAccessToken(w) \/ StoreToken(w) \/ CallGmail(w)
    <3>1. failures' = failures
      BY <2>1 DEF LoadActive, RefreshAccessToken, StoreToken, CallGmail
    <3>2. h'[w].stage # "count"
      <4>1. CASE Reject(w) \/ End(w) \/ Step(w, "storetoken") \/ Step(w, "call")
        BY <4>1, Rejected, Ended, Stepped
      <4> h \in [Workers -> Invocation]
        BY DEF TypeInv, TypeOK
      <4>2. ASSUME h' = [h EXCEPT ![w].token = refresh, ![w].stage = IF fresh THEN "call" ELSE "refresh"]
            PROVE  h'[w].stage # "count"
        BY <4>2 DEF Invocation
      <4>3. ASSUME h' = [h EXCEPT ![w].token = NoToken, ![w].stage = "save"]
            PROVE  h'[w].stage # "count"
        BY <4>3 DEF Invocation
      <4>4. CASE LoadActive(w)
        <5>1. \/ End(w) \/ Reject(w)
              \/ h' = [h EXCEPT ![w].token = refresh, ![w].stage = IF fresh THEN "call" ELSE "refresh"]
          BY <4>4, Zenon DEF LoadActive
        <5> QED BY <4>1, <4>2, <5>1
      <4>5. CASE CallGmail(w)
        <5>1. End(w) \/ Reject(w) \/ h' = [h EXCEPT ![w].token = NoToken, ![w].stage = "save"]
          BY <4>5, Zenon DEF CallGmail
        <5> QED BY <4>1, <4>3, <5>1
      <4>6. CASE RefreshAccessToken(w)
        BY <4>1, <4>6 DEF RefreshAccessToken
      <4>7. CASE StoreToken(w)
        BY <4>1, <4>7 DEF StoreToken
      <4> QED BY <2>1, <4>4, <4>5, <4>6, <4>7
    <3>3. failures' <= spent'["error"]
      BY <1>1, <3>1
    <3>4. h'[w].failures \in Nat
      BY TypeStep, FieldTypes DEF TypeInv, TypeOK, Invocation
    <3>5. h'[w].failures <= spent'["error"]
      BY <1>1, <3>4
    <3> QED BY <3>2, <3>3, <3>5
  <2>2. CASE RenewalError(w)
    <3>1. spent'["error"] = spent["error"] + 1
      BY <2>2, SpendType DEF RenewalError, TypeInv
    <3>2. failures' = failures /\ \E stage : Step(w, stage)
      BY <2>2 DEF RenewalError
    <3>3. h'[w].failures = h[w].failures
      BY <3>2, Stepped
    <3> QED BY <1>1, <3>1, <3>2, <3>3
  <2>3. CASE CountFailure(w)
    <3>1. h[w].failures + 1 <= spent["error"]
      BY <2>3 DEF CountFailure, At
    <3>2. failures' = h[w].failures + 1 /\ UNCHANGED spent /\ End(w)
      BY <2>3 DEF CountFailure
    <3> QED BY <1>1, <3>1, <3>2, Ended
  <2>4. CASE Save(w) \/ MarkReauthRequired(w) \/ HandlerFails(w)
    BY <1>1, <2>4, Ended DEF Save, MarkReauthRequired, HandlerFails
  <2> QED BY <1>7, <2>1, <2>2, <2>3, <2>4 DEF Run
<1> QED BY <1>1, <1>3, <1>4, <1>5, <1>6, <1>7 DEF Next, FailuresCounted

(* Google accepts no grant again, and only ever a new one beside those.      *)
LEMMA LiveGrants == ASSUME [Next]_vars PROVE live' \subseteq live \cup {issued + 1}
<1>1. CASE UNCHANGED googleVars
  BY <1>1 DEF googleVars
<1>2. CASE RevokeAtGoogle \/ ExpireAccessToken \/ UNCHANGED vars
  BY <1>2 DEF RevokeAtGoogle, ExpireAccessToken, vars, googleVars
<1>3. ASSUME NEW r \in Requests, Serve(r) \/ ExchangeCode(r) \/ DisconnectFind(r) \/ RequestFails(r)
      PROVE  live' \subseteq live \cup {issued + 1}
  BY <1>3 DEF Serve, ExchangeCode, DisconnectFind, RequestFails, ConnectFind, ConnectStore,
     DisconnectStop, DisconnectRevoke, DisconnectErase, googleVars
<1>4. ASSUME NEW w \in Workers,
             StartIngest(w) \/ StartClassify(w) \/ StartRenewal(w) \/ Run(w)
               \/ RenewalError(w) \/ HandlerFails(w)
      PROVE  UNCHANGED googleVars
  BY <1>4 DEF StartIngest, StartClassify, StartRenewal, Begin, Run, LoadActive, RefreshAccessToken,
     StoreToken, CallGmail, Save, CountFailure, MarkReauthRequired, RenewalError, HandlerFails,
     googleVars
<1> QED BY <1>1, <1>2, <1>3, <1>4 DEF Next

LEMMA MarkStep == ASSUME ReauthInv, [Next]_vars PROVE MarkHasReason'
<1> "error" \in Faults /\ h \in [Workers -> Invocation]
  BY DEF Faults, ReauthInv, TypeInv, TypeOK
<1>1. /\ spent["error"] \in Nat /\ spent'["error"] \in Nat /\ spent'["error"] >= spent["error"]
      /\ issued \in Nat /\ live \subseteq 1..issued
      /\ \A w \in Workers : h[w].failures \in Nat /\ h[w].token \in 0..issued
  BY SpentGrows, TypeStep, FieldTypes DEF ReauthInv, TypeInv, TypeOK, HeldIsIssued
<1>2. ASSUME NEW w \in Workers, h[w].token \notin live PROVE h[w].token \notin live'
  BY <1>1, <1>2, LiveGrants
<1>3. ASSUME NEW w \in Workers, h'[w] = h[w]
      PROVE  /\ h'[w].stage = "load" => h'[w].token = NoToken
             /\ h'[w].stage = "mark" => h'[w].token \notin live'
             /\ h'[w].stage = "giveup" => spent'["error"] >= MAX_CONSECUTIVE_FAILURES
  BY <1>1, <1>2, <1>3 DEF ReauthInv, MarkHasReason
<1>4. CASE UNCHANGED h
  BY <1>3, <1>4 DEF MarkHasReason
<1>5. CASE RevokeAtGoogle \/ ExpireAccessToken \/ UNCHANGED vars
  BY <1>4, <1>5 DEF RevokeAtGoogle, ExpireAccessToken, vars
<1>6. ASSUME NEW r \in Requests, Serve(r) \/ ExchangeCode(r) \/ DisconnectFind(r) \/ RequestFails(r)
      PROVE  UNCHANGED h
  BY <1>6 DEF Serve, ExchangeCode, DisconnectFind, RequestFails, ConnectFind, ConnectStore,
     DisconnectStop, DisconnectRevoke, DisconnectErase
<1>7. ASSUME NEW w \in Workers, StartIngest(w) \/ StartClassify(w) \/ StartRenewal(w)
      PROVE  MarkHasReason'
  BY <1>3, <1>7, StartFrame DEF ReauthInv, MarkHasReason
<1>8. ASSUME NEW w \in Workers, Run(w) \/ RenewalError(w) \/ HandlerFails(w)
      PROVE  MarkHasReason'
  <2>1. \A v \in Workers \ {w} : h'[v] = h[v]
    BY <1>8, RunFrame DEF ReauthInv
  <2>2. ASSUME h'[w].stage \notin {"load", "mark", "giveup"} PROVE MarkHasReason'
    BY <1>3, <2>1, <2>2 DEF MarkHasReason
  <2>3. ASSUME Reject(w), h[w].token \notin live PROVE MarkHasReason'
    <3>1. h'[w].stage = "mark" /\ h'[w].token = h[w].token
      BY <2>3, Rejected DEF ReauthInv
    <3>2. h[w].token \notin live'
      BY <1>2, <2>3
    <3> QED BY <1>3, <2>1, <3>1, <3>2 DEF MarkHasReason
  <2>4. ASSUME End(w) PROVE MarkHasReason'
    BY <2>2, <2>4, Ended DEF ReauthInv
  <2>5. ASSUME NEW stage \in {"storetoken", "call"}, Step(w, stage) PROVE MarkHasReason'
    BY <2>2, <2>5, Stepped DEF ReauthInv
  <2>6. CASE LoadActive(w)
    <3>1. h[w].token \notin live
      BY <1>1, <2>6 DEF LoadActive, At, ReauthInv, MarkHasReason, NoToken
    <3>2. \/ End(w) \/ Reject(w)
          \/ h' = [h EXCEPT ![w].token = refresh, ![w].stage = IF fresh THEN "call" ELSE "refresh"]
      BY <2>6, Zenon DEF LoadActive
    <3>3. ASSUME h' = [h EXCEPT ![w].token = refresh, ![w].stage = IF fresh THEN "call" ELSE "refresh"]
          PROVE  MarkHasReason'
      <4>1. h'[w].stage \notin {"load", "mark", "giveup"}
        BY <3>3 DEF Invocation
      <4> QED BY <2>2, <4>1
    <3> QED BY <2>3, <2>4, <3>1, <3>2, <3>3
  <2>7. CASE RefreshAccessToken(w)
    BY <2>3, <2>5, <2>7 DEF RefreshAccessToken
  <2>8. CASE StoreToken(w)
    BY <2>5, <2>8 DEF StoreToken
  <2>9. CASE CallGmail(w)
    <3>1. \/ End(w)
          \/ Reject(w) /\ h[w].token \notin live
          \/ h' = [h EXCEPT ![w].token = NoToken, ![w].stage = "save"]
      BY <2>9, Zenon DEF CallGmail
    <3>2. ASSUME h' = [h EXCEPT ![w].token = NoToken, ![w].stage = "save"] PROVE MarkHasReason'
      <4>1. h'[w].stage \notin {"load", "mark", "giveup"}
        BY <3>2 DEF Invocation
      <4> QED BY <2>2, <4>1
    <3> QED BY <2>3, <2>4, <3>1, <3>2
  <2>10. CASE Save(w) \/ CountFailure(w) \/ MarkReauthRequired(w) \/ HandlerFails(w)
    BY <2>4, <2>10 DEF Save, CountFailure, MarkReauthRequired, HandlerFails
  <2>11. CASE RenewalError(w)
    <3>1. spent'["error"] = spent["error"] + 1 /\ h[w].failures <= spent["error"]
      BY <2>11, SpendType DEF RenewalError, ReauthInv, TypeInv, FailuresCounted
    <3>2. CASE h[w].failures + 1 >= MAX_CONSECUTIVE_FAILURES
      <4>1. spent'["error"] >= MAX_CONSECUTIVE_FAILURES
        BY <1>1, <3>1, <3>2
      <4>2. h'[w].stage = "giveup"
        BY <2>11, <3>2, Stepped DEF RenewalError, ReauthInv
      <4> QED BY <1>3, <2>1, <4>1, <4>2 DEF MarkHasReason
    <3>3. CASE ~ (h[w].failures + 1 >= MAX_CONSECUTIVE_FAILURES)
      <4>1. h'[w].stage = "count"
        BY <2>11, <3>3, Stepped DEF RenewalError, ReauthInv
      <4> QED BY <2>2, <4>1
    <3> QED BY <3>2, <3>3
  <2> QED BY <1>8, <2>6, <2>7, <2>8, <2>9, <2>10, <2>11 DEF Run
<1> QED BY <1>4, <1>5, <1>6, <1>7, <1>8 DEF Next

(* Only MarkReauthRequired signs an account out.                             *)
LEMMA SignOutStep ==
  ASSUME TypeInv, [Next]_vars, status # "reauth_required", status' = "reauth_required"
  PROVE  \E w \in Workers : MarkReauthRequired(w)
<1>1. CASE RevokeAtGoogle \/ ExpireAccessToken \/ UNCHANGED vars
  BY <1>1 DEF RevokeAtGoogle, ExpireAccessToken, vars, rowVars
<1>2. ASSUME NEW r \in Requests, Serve(r) \/ ExchangeCode(r) \/ DisconnectFind(r) \/ RequestFails(r)
      PROVE  FALSE
  BY <1>2 DEF Serve, ExchangeCode, DisconnectFind, RequestFails, ConnectFind, ConnectStore,
     DisconnectStop, DisconnectRevoke, DisconnectErase, rowVars
<1>3. ASSUME NEW w \in Workers,
             StartIngest(w) \/ StartClassify(w) \/ StartRenewal(w) \/ Run(w)
               \/ RenewalError(w) \/ HandlerFails(w)
      PROVE  MarkReauthRequired(w)
  BY <1>3 DEF StartIngest, StartClassify, StartRenewal, Begin, Run, LoadActive, RefreshAccessToken,
     StoreToken, CallGmail, Save, CountFailure, RenewalError, HandlerFails, rowVars
<1> QED BY <1>1, <1>2, <1>3 DEF Next

(* An account is signed out because Google does not accept the grant it      *)
(* stores, because the renewal failed MAX_CONSECUTIVE_FAILURES times, or     *)
(* because of a refused grant that is not the stored one any more.  No order *)
(* of refreshes, requests and handlers does it for a stored grant that works.*)
THEOREM ReauthCaused == Spec => ReauthNeedsCause
<1>1. Init => ReauthInv
  <2> SUFFICES ASSUME Init PROVE ReauthInv
    OBVIOUS
  <2>1. 0 \in 0..issued
    BY DEF Init
  <2>2. HeldIsIssued
    BY <2>1 DEF Init, HeldIsIssued, Idle, NoRequest, NoToken
  <2>3. MarkHasReason
    BY DEF Init, MarkHasReason, Idle
  <2>4. FailuresCounted
    <3>1. failures = 0 /\ spent["error"] = 0 /\ \A w \in Workers : h[w] = Idle
      BY DEF Init, Faults
    <3> QED BY <3>1 DEF FailuresCounted, Idle
  <2> QED BY <2>2, <2>3, <2>4, TypeInit DEF ReauthInv
<1>2. ReauthInv /\ [Next]_vars => ReauthInv'
  BY TypeStep, HeldStep, CountStep, MarkStep DEF ReauthInv
<1>3. ReauthInv /\ [Next]_vars =>
        (status # "reauth_required" /\ status' = "reauth_required" =>
          \E w \in Workers :
             /\ h[w].stage \in {"mark", "giveup"} /\ h'[w] = Idle
             /\ \/ refresh \notin live
                \/ At(w, "giveup") /\ spent["error"] >= MAX_CONSECUTIVE_FAILURES
                \/ At(w, "mark") /\ h[w].token \notin live \cup {refresh})
  <2> SUFFICES ASSUME ReauthInv, [Next]_vars,
                      status # "reauth_required", status' = "reauth_required"
               PROVE  \E w \in Workers :
                         /\ h[w].stage \in {"mark", "giveup"} /\ h'[w] = Idle
                         /\ \/ refresh \notin live
                            \/ At(w, "giveup") /\ spent["error"] >= MAX_CONSECUTIVE_FAILURES
                            \/ At(w, "mark") /\ h[w].token \notin live \cup {refresh}
    OBVIOUS
  <2>1. PICK w \in Workers : MarkReauthRequired(w)
    BY SignOutStep DEF ReauthInv
  <2>2. h[w].stage \in {"mark", "giveup"} /\ h'[w] = Idle
    BY <2>1 DEF MarkReauthRequired, At, End, ReauthInv, TypeInv, TypeOK
  <2>3. \/ refresh \notin live
        \/ At(w, "giveup") /\ spent["error"] >= MAX_CONSECUTIVE_FAILURES
        \/ At(w, "mark") /\ h[w].token \notin live \cup {refresh}
    BY <2>2 DEF At, ReauthInv, MarkHasReason
  <2> QED BY <2>2, <2>3
<1> QED BY <1>1, <1>2, <1>3, PTL DEF Spec, ReauthNeedsCause

=============================================================================
