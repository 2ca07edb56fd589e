------------------------ MODULE CouponClassifyProofs ------------------------
(* Theorems about CouponClassify for every set of mails, every content of    *)
(* them, every finite number of handlers and every number of faults; and     *)
(* about CouponDates for every text, every zone and every length of time.    *)
EXTENDS CouponClassify, CouponDates, FiniteSetTheorems, SequenceTheorems,
        WellFoundedInduction, TLAPS

USE ClassifyAssumption

(* A running handler has a mail, which it took up at a time that has passed, *)
(* and a coupon of that mail once it has created one.                        *)
RunInv(w) ==
    h[w].stage # "idle" =>
        /\ h[w].mail \in Mails /\ h[w].now <= clock
        /\ h[w].stage \in {"push", "remind"} => coupons[h[w].mail] > 0

(* A message is held exactly while it is out, by a handler of its mail.      *)
HeldInv(m) ==
    /\ msg[m].state = "out" <=> msg[m].holder # NoWorker
    /\ msg[m].holder # NoWorker =>
          h[msg[m].holder].mail = m /\ h[msg[m].holder].stage # "idle"

TypeInv ==
    /\ TypeOK
    /\ \A w \in Workers : RunInv(w)
    /\ \A m \in Mails : HeldInv(m)
    /\ ~ active => spent["reject"] > 0

LEMMA IdleType == Idle \in Invocation
  BY DEF Idle, Invocation, Stages, Ticks

LEMMA TypeInit == ASSUME Init PROVE TypeInv
<1>1. TypeOK
  <2>1. clock \in Ticks
    BY DEF Init, Ticks
  <2> QED BY <2>1, IdleType DEF Init, TypeOK, States, Faults
<1> QED BY <1>1 DEF TypeInv, RunInv, HeldInv, Init, Idle

(* What the parts of the actions do, as plain facts.                         *)
LEMMA StepFacts ==
  ASSUME TypeOK, NEW w \in Workers, NEW stage \in Stages, Step(w, stage)
  PROVE  /\ h' \in [Workers -> Invocation] /\ \A v \in Workers \ {w} : h'[v] = h[v]
         /\ h'[w].stage = stage /\ h'[w].mail = h[w].mail /\ h'[w].now = h[w].now
         /\ msg' = msg
<1> DEFINE call == [h[w] EXCEPT !.stage = stage]
<1>1. h' = [h EXCEPT ![w] = call] /\ h[w] \in Invocation /\ msg' = msg
  BY DEF Step, TypeOK
<1>2. /\ call \in Invocation
      /\ call.stage = stage /\ call.mail = h[w].mail /\ call.now = h[w].now
  BY <1>1 DEF Invocation
<1> HIDE DEF call
<1> QED BY <1>1, <1>2 DEF TypeOK

LEMMA AnswerFacts ==
  ASSUME TypeOK, NEW w \in Workers, NEW state \in States, Answer(w, state)
  PROVE  /\ h' \in [Workers -> Invocation] /\ \A v \in Workers \ {w} : h'[v] = h[v]
         /\ h'[w].stage = "idle" /\ h'[w].mail = NoMail
         /\ msg' \in [Mails -> [state: States, attempts: Nat, holder: Workers \cup {NoWorker}]]
         /\ \A m \in Mails : IF msg[m].holder = w
                             THEN msg'[m].state = state /\ msg'[m].holder = NoWorker
                             ELSE msg'[m] = msg[m]
<1>1. h'[w] = Idle /\ h' \in [Workers -> Invocation] /\ \A v \in Workers \ {w} : h'[v] = h[v]
  BY IdleType DEF Answer, TypeOK
<1>2. h'[w].stage = "idle" /\ h'[w].mail = NoMail
  BY <1>1 DEF Idle
<1>3. msg' = [m \in Mails |->
                 IF msg[m].holder = w
                 THEN [state |-> state, attempts |-> msg[m].attempts, holder |-> NoWorker]
                 ELSE msg[m]]
  BY DEF Answer
<1>4. ASSUME NEW m \in Mails
      PROVE  msg[m] \in [state: States, attempts: Nat, holder: Workers \cup {NoWorker}]
  BY DEF TypeOK
<1>5. ASSUME NEW m \in Mails
      PROVE  /\ msg'[m] \in [state: States, attempts: Nat, holder: Workers \cup {NoWorker}]
             /\ IF msg[m].holder = w THEN msg'[m].state = state /\ msg'[m].holder = NoWorker
                                     ELSE msg'[m] = msg[m]
  BY <1>3, <1>4
<1> QED BY <1>1, <1>2, <1>3, <1>5

LEMMA SpendFacts ==
  ASSUME TypeOK, NEW kind \in Faults, Spend(kind)
  PROVE  /\ spent' \in [Faults -> Nat] /\ spent'[kind] = spent[kind] + 1
         /\ \A k \in Faults \ {kind} : spent'[k] = spent[k]
  BY DEF Spend, TypeOK

LEMMA DeliverFacts ==
  ASSUME TypeOK, NEW w \in Workers, NEW m \in Mails, Deliver(w, m)
  PROVE  /\ h' \in [Workers -> Invocation] /\ \A v \in Workers \ {w} : h'[v] = h[v]
         /\ h'[w] = [stage |-> "find", mail |-> m, now |-> clock] /\ h[w].stage = "idle"
         /\ msg' \in [Mails -> [state: States, attempts: Nat, holder: Workers \cup {NoWorker}]]
         /\ msg'[m].state = "out" /\ msg'[m].holder = w /\ msg[m].state = "ready"
         /\ \A n \in Mails \ {m} : msg'[n] = msg[n]
         /\ UNCHANGED <<outsideVars, storeVars, spent>>
<1>1. [stage |-> "find", mail |-> m, now |-> clock] \in Invocation
  BY DEF TypeOK, Invocation, Stages
<1>2. [state |-> "out", attempts |-> msg[m].attempts + 1, holder |-> w]
        \in [state: States, attempts: Nat, holder: Workers \cup {NoWorker}]
  BY DEF TypeOK, States
<1> QED BY <1>1, <1>2 DEF Deliver, TypeOK, At

(* The subscription moves a message that it holds itself.                    *)
LEMMA MoveFacts ==
  ASSUME TypeOK, NEW m \in Mails, Publish(m) \/ Redeliver(m) \/ DeadLetter(m)
  PROVE  /\ msg' \in [Mails -> [state: States, attempts: Nat, holder: Workers \cup {NoWorker}]]
         /\ msg'[m].state \in {"ready", "dead"} /\ \A n \in Mails \ {m} : msg'[n] = msg[n]
         /\ msg'[m].state = "dead" => msg[m].state = "ready"
         /\ msg'[m].holder = IF Redeliver(m) THEN NoWorker ELSE msg[m].holder
         /\ UNCHANGED <<outsideVars, h, storeVars>>
         /\ Redeliver(m) => Spend("redeliver") /\ msg[m].state \in {"out", "acked"}
         /\ ~ Redeliver(m) => UNCHANGED spent /\ msg[m].state \in {"unpublished", "ready"}
<1>1. CASE Publish(m)
  BY <1>1 DEF Publish, Redeliver, TypeOK, States
<1>2. CASE DeadLetter(m)
  BY <1>2 DEF DeadLetter, Redeliver, TypeOK, States
<1>3. CASE Redeliver(m)
  <2>1. msg' = [msg EXCEPT ![m] = [msg[m] EXCEPT !.state = "ready", !.holder = NoWorker]]
    BY <1>3 DEF Redeliver
  <2> QED BY <1>3, <2>1 DEF Redeliver, TypeOK, States
<1> QED BY <1>1, <1>2, <1>3

(* A handler goes on or answers; nothing it leaves behind is taken back.     *)
Works(w) ==
    /\ h[w].stage # "idle"
    /\ \/ \E stage \in Stages \ {"idle"} :
             Step(w, stage) /\ (stage \in {"push", "remind"} => coupons'[h[w].mail] > 0)
       \/ Answer(w, "acked") \/ Answer(w, "ready")

LEMMA WorkStep ==
  ASSUME TypeInv, NEW w \in Workers, Works(w), UNCHANGED <<clock, gone>>,
         active' \in BOOLEAN, filterResult' \in [Mails -> {"passed", "extraction_failed"}],
         coupons' \in [Mails -> Nat], pushes' \in [Mails -> Nat], reminders' \in [Mails -> Nat],
         spent' \in [Faults -> Nat], \A m \in Mails : coupons'[m] >= coupons[m],
         ~ active' => spent'["reject"] > 0
  PROVE  TypeInv'
<1> USE DEF TypeInv
<1>1. CASE \E stage \in Stages \ {"idle"} :
             Step(w, stage) /\ (stage \in {"push", "remind"} => coupons'[h[w].mail] > 0)
  <2>1. PICK stage \in Stages \ {"idle"} :
             Step(w, stage) /\ (stage \in {"push", "remind"} => coupons'[h[w].mail] > 0)
    BY <1>1
  <2>2. /\ h' \in [Workers -> Invocation] /\ \A v \in Workers \ {w} : h'[v] = h[v]
        /\ h'[w].stage = stage /\ h'[w].mail = h[w].mail /\ h'[w].now = h[w].now
        /\ msg' = msg
    BY <2>1, StepFacts
  <2>3. TypeOK'
    BY <2>2 DEF TypeOK
  <2>4. ASSUME NEW v \in Workers PROVE RunInv(v)'
    <3>1. CASE v = w
      BY <2>1, <2>2, <3>1 DEF RunInv, Works
    <3>2. CASE v # w
      BY <2>2, <3>2 DEF RunInv, TypeOK
    <3> QED BY <3>1, <3>2
  <2>5. ASSUME NEW m \in Mails PROVE HeldInv(m)'
    <3>1. msg[m].holder \in Workers \cup {NoWorker}
      BY DEF TypeOK
    <3> QED BY <2>1, <2>2, <3>1 DEF HeldInv
  <2> QED BY <2>3, <2>4, <2>5
<1>2. CASE Answer(w, "acked") \/ Answer(w, "ready")
  <2>1. PICK state \in {"acked", "ready"} : Answer(w, state)
    BY <1>2
  <2>2. /\ h' \in [Workers -> Invocation] /\ \A v \in Workers \ {w} : h'[v] = h[v]
        /\ h'[w].stage = "idle"
        /\ msg' \in [Mails -> [state: States, attempts: Nat, holder: Workers \cup {NoWorker}]]
        /\ \A m \in Mails : IF msg[m].holder = w
                            THEN msg'[m].state = state /\ msg'[m].holder = NoWorker
                            ELSE msg'[m] = msg[m]
    <3>1. state \in States
      BY DEF States
    <3> QED BY <2>1, <3>1, AnswerFacts
  <2>3. TypeOK'
    BY <2>2 DEF TypeOK
  <2>4. \A v \in Workers : RunInv(v)'
    BY <2>2 DEF RunInv, TypeOK
  <2>5. ASSUME NEW m \in Mails PROVE HeldInv(m)'
    <3>1. msg[m].holder \in Workers \cup {NoWorker} /\ HeldInv(m)
      BY DEF TypeOK
    <3>2. CASE msg[m].holder = w
      BY <2>2, <3>2 DEF HeldInv
    <3>3. CASE msg[m].holder # w
      BY <2>2, <3>1, <3>3 DEF HeldInv
    <3> QED BY <3>2, <3>3
  <2> QED BY <2>3, <2>4, <2>5
<1> QED BY <1>1, <1>2 DEF Works

LEMMA Shape ==
  ASSUME TypeInv, NEW w \in Workers, Handler(w) \/ RejectToken(w) \/ Fail(w)
  PROVE  Works(w)
<1>1. h[w].stage # "idle" => h[w].mail \in Mails /\ coupons[h[w].mail] \in Nat
  BY DEF TypeInv, TypeOK, RunInv
<1>2. CASE CreateCoupon(w)
  <2>1. h[w].mail \in Mails /\ coupons'[h[w].mail] = coupons[h[w].mail] + 1
    BY <1>1, <1>2 DEF CreateCoupon, At, TypeInv, TypeOK
  <2> QED BY <1>1, <1>2, <2>1 DEF CreateCoupon, Works, At, Stages
<1>3. CASE EnqueuePush(w)
  <2>1. coupons' = coupons /\ coupons[h[w].mail] > 0
    BY <1>3 DEF EnqueuePush, At, TypeInv, RunInv
  <2> QED BY <1>3, <2>1 DEF EnqueuePush, Works, At, Stages
<1> QED BY <1>2, <1>3 DEF Handler, FindExisting, LoadActive, RejectToken, FetchMessageBody,
      UpdateFilterResult, ScheduleReminder, Fail, Works, At, Stages, Return, Throw

(* The two CHECK values of filter_result are the only ones written, and the  *)
(* counts only grow.                                                         *)
LEMMA StoreFacts ==
  ASSUME TypeInv, NEW w \in Workers, Handler(w) \/ RejectToken(w) \/ Fail(w)
  PROVE  /\ filterResult' \in [Mails -> {"passed", "extraction_failed"}]
         /\ coupons' \in [Mails -> Nat] /\ pushes' \in [Mails -> Nat]
         /\ reminders' \in [Mails -> Nat]
         /\ \A m \in Mails : coupons'[m] >= coupons[m]
         /\ UNCHANGED <<clock, gone>> /\ active' \in BOOLEAN /\ spent' \in [Faults -> Nat]
         /\ ~ active' => spent'["reject"] > 0
<1>1. /\ filterResult \in [Mails -> {"passed", "extraction_failed"}]
      /\ coupons \in [Mails -> Nat] /\ pushes \in [Mails -> Nat] /\ reminders \in [Mails -> Nat]
      /\ active \in BOOLEAN /\ spent \in [Faults -> Nat] /\ (~ active => spent["reject"] > 0)
      /\ "reject" \in Faults /\ "fail" \in Faults
      /\ h[w].stage # "idle" => h[w].mail \in Mails
  BY DEF TypeInv, TypeOK, RunInv, Faults
<1>2. CASE FindExisting(w) \/ LoadActive(w) \/ FetchMessageBody(w)
  BY <1>1, <1>2 DEF FindExisting, LoadActive, FetchMessageBody, outsideVars, storeVars
<1>3. CASE UpdateFilterResult(w)
  <2>1. h[w].mail \in Mails
    BY <1>1, <1>3 DEF UpdateFilterResult, At
  <2>2. filterResult' = [filterResult EXCEPT ![h[w].mail] =
            IF Verdict(h[w].mail, h[w].now) = "extraction_failed"
            THEN Verdict(h[w].mail, h[w].now) ELSE "passed"]
        /\ UNCHANGED <<outsideVars, coupons, pushes, reminders, spent>>
    BY <1>3 DEF UpdateFilterResult
  <2> QED BY <1>1, <2>1, <2>2 DEF outsideVars
<1>4. CASE CreateCoupon(w)
  BY <1>1, <1>4 DEF CreateCoupon, At, outsideVars
<1>5. CASE EnqueuePush(w)
  BY <1>1, <1>5 DEF EnqueuePush, At, outsideVars
<1>6. CASE ScheduleReminder(w)
  BY <1>1, <1>6 DEF ScheduleReminder, At, outsideVars
<1>7. CASE RejectToken(w)
  <2>1. Spend("reject") /\ active' = FALSE /\ UNCHANGED <<clock, gone, storeVars>>
    BY <1>7 DEF RejectToken
  <2>2. spent' \in [Faults -> Nat] /\ spent'["reject"] > 0
    BY <1>1, <2>1, SpendFacts DEF TypeInv
  <2>3. UNCHANGED <<clock, gone, filterResult, coupons, pushes, reminders>>
    BY <2>1 DEF storeVars
  <2>4. \A m \in Mails : coupons'[m] >= coupons[m]
    BY <1>1, <2>3
  <2> QED BY <1>1, <2>1, <2>2, <2>3, <2>4
<1>8. CASE Fail(w)
  <2>1. Spend("fail") /\ UNCHANGED <<outsideVars, storeVars>>
    BY <1>8 DEF Fail
  <2>2. spent' \in [Faults -> Nat] /\ spent'["reject"] = spent["reject"]
    BY <1>1, <2>1, SpendFacts DEF TypeInv, Faults
  <2> QED BY <1>1, <2>1, <2>2 DEF storeVars, outsideVars
<1> QED BY <1>2, <1>3, <1>4, <1>5, <1>6, <1>7, <1>8 DEF Handler

LEMMA TypeStep == ASSUME TypeInv, [Next]_vars PROVE TypeInv'
<1> USE DEF TypeInv
<1>1. CASE Tick
  <2>1. clock' = clock + 1 /\ clock \in Int /\ clock' \in Ticks
        /\ UNCHANGED <<active, gone, msg, h, storeVars, spent>>
    BY <1>1 DEF Tick, TypeOK, Ticks
  <2>2. \A w \in Workers : h[w].now \in Int
    BY DEF TypeOK, Invocation, Ticks
  <2> QED BY <2>1, <2>2 DEF TypeOK, RunInv, HeldInv, storeVars
<1>2. CASE Reconnect \/ LoseAccount
  <2>1. /\ active' \in BOOLEAN /\ UNCHANGED <<clock, gone, msg, h, storeVars>>
        /\ spent' \in [Faults -> Nat] /\ (~ active' => spent'["reject"] > 0)
    <3>1. CASE Reconnect
      BY <3>1 DEF Reconnect, TypeOK
    <3>2. CASE LoseAccount
      <4>1. "reject" \in Faults /\ Spend("reject")
        BY <3>2 DEF LoseAccount, Faults
      <4>2. spent' \in [Faults -> Nat] /\ spent'["reject"] > 0
        BY <4>1, SpendFacts DEF TypeOK
      <4> QED BY <3>2, <4>2 DEF LoseAccount, TypeOK
    <3> QED BY <1>2, <3>1, <3>2
  <2> QED BY <2>1 DEF TypeOK, RunInv, HeldInv, storeVars
<1>3. ASSUME NEW m \in Mails, DeleteMail(m) PROVE TypeInv'
  <2>1. /\ gone' \subseteq Mails /\ UNCHANGED <<clock, active, msg, h, storeVars>>
        /\ "delete" \in Faults /\ Spend("delete")
    BY <1>3 DEF DeleteMail, Faults, TypeOK
  <2>2. spent' \in [Faults -> Nat] /\ spent'["reject"] = spent["reject"]
    BY <2>1, SpendFacts DEF Faults
  <2> QED BY <2>1, <2>2 DEF TypeOK, RunInv, HeldInv, storeVars
<1>4. ASSUME NEW m \in Mails, Publish(m) \/ Redeliver(m) \/ DeadLetter(m) PROVE TypeInv'
  <2>1. spent' \in [Faults -> Nat] /\ spent'["reject"] = spent["reject"]
    <3>1. "redeliver" \in Faults
      BY DEF Faults
    <3>2. CASE Redeliver(m)
      BY <1>4, <3>1, <3>2, MoveFacts, SpendFacts DEF Faults
    <3>3. CASE ~ Redeliver(m)
      BY <1>4, <3>3, MoveFacts DEF TypeOK
    <3> QED BY <3>2, <3>3
  <2>2. ASSUME NEW n \in Mails PROVE HeldInv(n)'
    <3>1. UNCHANGED h /\ HeldInv(n)
      BY <1>4, MoveFacts
    <3>2. CASE n = m
      BY <1>4, <3>1, <3>2, MoveFacts DEF HeldInv
    <3>3. CASE n # m
      BY <1>4, <3>1, <3>3, MoveFacts DEF HeldInv
    <3> QED BY <3>2, <3>3
  <2>3. TypeOK'
    BY <1>4, <2>1, MoveFacts DEF TypeOK, storeVars, outsideVars
  <2>4. \A w \in Workers : RunInv(w)'
    BY <1>4, MoveFacts DEF RunInv, storeVars, outsideVars
  <2>5. active' = active
    BY <1>4, MoveFacts DEF outsideVars
  <2> QED BY <2>1, <2>2, <2>3, <2>4, <2>5
<1>5. ASSUME NEW w \in Workers, Handler(w) \/ RejectToken(w) \/ Fail(w) PROVE TypeInv'
  BY <1>5, Shape, StoreFacts, WorkStep
<1>6. ASSUME NEW w \in Workers, NEW m \in Mails, Deliver(w, m) PROVE TypeInv'
  <2>0. /\ h' \in [Workers -> Invocation] /\ \A v \in Workers \ {w} : h'[v] = h[v]
        /\ h'[w] = [stage |-> "find", mail |-> m, now |-> clock] /\ h[w].stage = "idle"
        /\ msg' \in [Mails -> [state: States, attempts: Nat, holder: Workers \cup {NoWorker}]]
        /\ msg'[m].state = "out" /\ msg'[m].holder = w /\ msg[m].state = "ready"
        /\ \A n \in Mails \ {m} : msg'[n] = msg[n]
        /\ UNCHANGED <<outsideVars, storeVars, spent>>
    BY <1>6, DeliverFacts
  <2>1. TypeOK'
    BY <2>0 DEF TypeOK, storeVars, outsideVars
  <2>2. ASSUME NEW v \in Workers PROVE RunInv(v)'
    <3>1. clock <= clock /\ UNCHANGED <<outsideVars, storeVars>>
      BY <2>0 DEF TypeOK, Ticks
    <3>2. CASE v = w
      BY <2>0, <3>1, <3>2 DEF RunInv, outsideVars
    <3>3. CASE v # w
      BY <2>0, <3>1, <3>3 DEF RunInv, outsideVars, storeVars
    <3> QED BY <3>2, <3>3
  <2>3. ASSUME NEW n \in Mails PROVE HeldInv(n)'
    <3>1. CASE n = m
      BY <2>0, <3>1 DEF HeldInv
    <3>2. CASE n # m
      <4>1. msg'[n] = msg[n] /\ msg[n].holder # w
        BY <2>0, <3>2 DEF HeldInv
      <4>2. msg[n].holder \in Workers \cup {NoWorker}
        BY DEF TypeOK
      <4> QED BY <2>0, <4>1, <4>2 DEF HeldInv
    <3> QED BY <3>1, <3>2
  <2>4. UNCHANGED <<active, spent>>
    BY <2>0 DEF outsideVars
  <2> QED BY <2>1, <2>2, <2>3, <2>4
<1>7. CASE UNCHANGED vars
  BY <1>7 DEF TypeOK, RunInv, HeldInv, vars, storeVars, outsideVars
<1> QED BY <1>1, <1>2, <1>3, <1>4, <1>5, <1>6, <1>7 DEF Next

(* Every state of the worker is one its types describe, the values the CHECK *)
(* constraint of filter_result allows included.                              *)
THEOREM TypeCorrect == Spec => []TypeInv
<1>1. Init => TypeInv
  BY TypeInit
<1>2. TypeInv /\ [Next]_vars => TypeInv'
  BY TypeStep
<1> QED BY <1>1, <1>2, PTL DEF Spec

-----------------------------------------------------------------------------
(* Counting handlers: a step of one of them moves only it.                   *)
In(x, S) == IF x \in S THEN 1 ELSE 0

LEMMA OneMoves ==
  ASSUME NEW A \in SUBSET Workers, NEW B \in SUBSET Workers, NEW w, A \ {w} = B \ {w}
  PROVE  /\ Cardinality(A) \in Nat /\ Cardinality(B) \in Nat
         /\ Cardinality(B) = Cardinality(A) + In(w, B) - In(w, A)
<1>1. IsFiniteSet(A) /\ IsFiniteSet(B)
  BY FS_Subset
<1>2. Cardinality(A) \in Nat /\ Cardinality(B) \in Nat
  BY <1>1, FS_CardinalityType
<1>3. CASE w \in A /\ w \in B
  <2>1. A = B
    BY <1>3
  <2> QED BY <1>2, <1>3, <2>1 DEF In
<1>4. CASE w \in A /\ w \notin B
  <2>1. B = A \ {w}
    BY <1>4
  <2> QED BY <1>1, <1>2, <1>4, <2>1, FS_RemoveElement DEF In
<1>5. CASE w \notin A /\ w \in B
  <2>1. A = B \ {w}
    BY <1>5
  <2> QED BY <1>1, <1>2, <1>5, <2>1, FS_RemoveElement DEF In
<1>6. CASE w \notin A /\ w \notin B
  <2>1. A = B
    BY <1>6
  <2> QED BY <1>2, <1>6, <2>1 DEF In
<1> QED BY <1>3, <1>4, <1>5, <1>6

LEMMA InHandType == ASSUME NEW m, NEW S PROVE InHand(m, S) \in Nat
  BY FS_Subset, FS_CardinalityType DEF InHand

LEMMA InHandStep ==
  ASSUME NEW w \in Workers, \A v \in Workers \ {w} : h'[v] = h[v], NEW m, NEW S
  PROVE  InHand(m, S)' = InHand(m, S)
                          + (IF h'[w].mail = m THEN In(h'[w].stage, S) ELSE 0)
                          - (IF h[w].mail = m THEN In(h[w].stage, S) ELSE 0)
<1> DEFINE A == {v \in Workers : h[v].mail = m /\ h[v].stage \in S}
           B == {v \in Workers : h'[v].mail = m /\ h'[v].stage \in S}
<1>1. A \in SUBSET Workers /\ B \in SUBSET Workers /\ A \ {w} = B \ {w}
  OBVIOUS
<1>2. /\ In(w, A) = IF h[w].mail = m THEN In(h[w].stage, S) ELSE 0
      /\ In(w, B) = IF h'[w].mail = m THEN In(h'[w].stage, S) ELSE 0
  BY DEF In
<1>3. InHand(m, S) = Cardinality(A) /\ InHand(m, S)' = Cardinality(B)
  BY DEF InHand
<1> HIDE DEF A, B
<1> QED BY <1>1, <1>2, <1>3, OneMoves

LEMMA InHandKept ==
  ASSUME UNCHANGED h, NEW m, NEW S PROVE InHand(m, S)' = InHand(m, S)
  BY DEF InHand

(* A handler that goes on counts at its next stage, one that answers at none.*)
LEMMA StepCounts ==
  ASSUME TypeOK, NEW w \in Workers, NEW stage \in Stages, Step(w, stage),
         NEW m, m = h[w].mail, NEW S
  PROVE  InHand(m, S)' = InHand(m, S) + In(stage, S) - In(h[w].stage, S)
<1>1. /\ \A v \in Workers \ {w} : h'[v] = h[v]
      /\ h'[w].stage = stage /\ h'[w].mail = h[w].mail
  BY StepFacts
<1>2. InHand(m, S)' = InHand(m, S)
                          + (IF h'[w].mail = m THEN In(h'[w].stage, S) ELSE 0)
                          - (IF h[w].mail = m THEN In(h[w].stage, S) ELSE 0)
  BY <1>1, InHandStep
<1> QED BY <1>1, <1>2

LEMMA AnswerCounts ==
  ASSUME TypeOK, NEW w \in Workers, NEW state \in States, Answer(w, state),
         NEW m \in Mails, m = h[w].mail, NEW S
  PROVE  InHand(m, S)' = InHand(m, S) - In(h[w].stage, S)
<1>1. /\ \A v \in Workers \ {w} : h'[v] = h[v]
      /\ h'[w].stage = "idle" /\ h'[w].mail = NoMail
  BY AnswerFacts
<1>2. InHand(m, S)' = InHand(m, S)
                          + (IF h'[w].mail = m THEN In(h'[w].stage, S) ELSE 0)
                          - (IF h[w].mail = m THEN In(h[w].stage, S) ELSE 0)
  BY <1>1, InHandStep
<1>3. In(h[w].stage, S) \in Int /\ InHand(m, S) \in Int
  BY InHandType DEF In
<1> QED BY <1>1, <1>2, <1>3

(* The handlers, the message and the counts of other mails are left alone.   *)
LEMMA OtherMail ==
  ASSUME TypeInv, NEW w \in Workers, Works(w), NEW m \in Mails, m # h[w].mail
  PROVE  msg'[m] = msg[m] /\ \A S : InHand(m, S)' = InHand(m, S)
<1>0. TypeOK /\ HeldInv(m)
  BY DEF TypeInv
<1>1. CASE \E stage \in Stages : Step(w, stage)
  <2>1. PICK stage \in Stages : Step(w, stage)
    BY <1>1
  <2>2. /\ \A v \in Workers \ {w} : h'[v] = h[v]
        /\ h'[w].mail = h[w].mail /\ msg' = msg
    BY <1>0, <2>1, StepFacts
  <2>3. ASSUME NEW S PROVE InHand(m, S)' = InHand(m, S)
    <3>1. InHand(m, S)' = InHand(m, S)
                            + (IF h'[w].mail = m THEN In(h'[w].stage, S) ELSE 0)
                            - (IF h[w].mail = m THEN In(h[w].stage, S) ELSE 0)
      BY <2>2, InHandStep
    <3> QED BY <2>2, <3>1, InHandType
  <2> QED BY <2>2, <2>3
<1>2. CASE \E state \in {"acked", "ready"} : Answer(w, state)
  <2>1. PICK state \in {"acked", "ready"} : Answer(w, state)
    BY <1>2
  <2>2. /\ \A v \in Workers \ {w} : h'[v] = h[v]
        /\ h'[w].mail = NoMail /\ (msg[m].holder # w => msg'[m] = msg[m])
    <3>1. state \in States
      BY DEF States
    <3> QED BY <1>0, <2>1, <3>1, AnswerFacts
  <2>3. ASSUME NEW S PROVE InHand(m, S)' = InHand(m, S)
    <3>1. InHand(m, S)' = InHand(m, S)
                            + (IF h'[w].mail = m THEN In(h'[w].stage, S) ELSE 0)
                            - (IF h[w].mail = m THEN In(h[w].stage, S) ELSE 0)
      BY <2>2, InHandStep
    <3> QED BY <2>2, <3>1, InHandType
  <2>4. msg[m].holder # w
    BY <1>0 DEF HeldInv
  <2> QED BY <2>2, <2>3, <2>4
<1> QED BY <1>1, <1>2 DEF Works

-----------------------------------------------------------------------------
(* Coupons of a mail: those there are, those its handlers may still create   *)
(* (a handler that has yet to look creates none once there is one), and one  *)
(* a delivery that has yet to come may lead to.                              *)
Before == {"account", "body", "update", "create"}
Seeking == Before \cup {"find"}
Making(m) == IF coupons[m] = 0 THEN InHand(m, Seeking) ELSE InHand(m, Before)
Coming(m) == IF coupons[m] = 0 /\ msg[m].state \in {"unpublished", "ready"} THEN 1 ELSE 0
MadeInv(m) == coupons[m] + Making(m) + Coming(m) <= 1 + spent["redeliver"]

(* A coupon whose push or reminder is missing has a handler about to enqueue *)
(* it, or lost it to a failure.                                              *)
LostInv(m) ==
    /\ coupons[m] - pushes[m] - InHand(m, {"push"}) \in 0..spent["fail"]
    /\ ReminderDue(m, clock) =>
          coupons[m] - reminders[m] - InHand(m, {"push", "remind"}) \in 0..spent["fail"]

CountInv ==
    /\ TypeInv
    /\ \A m \in Mails : MadeInv(m) /\ LostInv(m)

LEMMA CountTypes ==
  ASSUME TypeInv
  PROVE  /\ \A m \in Mails : coupons[m] \in Nat /\ pushes[m] \in Nat /\ reminders[m] \in Nat
         /\ spent["redeliver"] \in Nat /\ spent["fail"] \in Nat /\ spent["reject"] \in Nat
         /\ clock \in Int /\ \A w \in Workers : h[w] \in Invocation /\ h[w].now \in Int
         /\ \A m \in Mails : ReminderAt(m) \in Int
<1>1. \A m \in Mails : Parsed[m].expiry \in Int
  BY DEF Extraction, Days, NoDate
<1> QED BY <1>1 DEF TypeInv, TypeOK, Faults, Ticks, Invocation, ReminderAt

LEMMA CountInit == ASSUME Init PROVE CountInv
<1>1. TypeInv
  BY TypeInit
<1>2. ASSUME NEW m, NEW S, "idle" \notin S PROVE InHand(m, S) = 0
  <2>1. {w \in Workers : h[w].mail = m /\ h[w].stage \in S} = {}
    BY <1>2 DEF Init, Idle
  <2> QED BY <2>1, FS_EmptySet DEF InHand
<1>3. /\ "idle" \notin Seeking /\ "idle" \notin Before /\ "idle" \notin {"push"}
      /\ "idle" \notin {"push", "remind"}
  BY DEF Seeking, Before
<1>4. ASSUME NEW m \in Mails PROVE MadeInv(m) /\ LostInv(m)
  <2>1. /\ InHand(m, Seeking) = 0 /\ InHand(m, Before) = 0 /\ InHand(m, {"push"}) = 0
        /\ InHand(m, {"push", "remind"}) = 0
    BY <1>2, <1>3
  <2>2. coupons[m] = 0 /\ pushes[m] = 0 /\ reminders[m] = 0 /\ spent["redeliver"] \in Nat
        /\ spent["fail"] \in Nat
    BY <1>1, CountTypes DEF Init
  <2> QED BY <2>1, <2>2 DEF MadeInv, LostInv, Making, Coming
<1> QED BY <1>1, <1>4 DEF CountInv

(* A step that leaves the mail's handlers and counts alone, and at most takes*)
(* its message away.                                                         *)
LEMMA CountKept ==
  ASSUME TypeInv, TypeInv', NEW m \in Mails, MadeInv(m), LostInv(m),
         \A S : InHand(m, S)' = InHand(m, S),
         coupons'[m] = coupons[m], pushes'[m] = pushes[m], reminders'[m] = reminders[m],
         msg'[m].state \in {"unpublished", "ready"} => msg[m].state \in {"unpublished", "ready"},
         spent'["redeliver"] >= spent["redeliver"], spent'["fail"] >= spent["fail"],
         clock' >= clock
  PROVE  MadeInv(m)' /\ LostInv(m)'
<1>1. /\ coupons[m] \in Nat /\ pushes[m] \in Nat /\ reminders[m] \in Nat
      /\ spent["redeliver"] \in Nat /\ spent["fail"] \in Nat /\ clock \in Int
      /\ ReminderAt(m) \in Int
  BY CountTypes
<1>0. spent'["redeliver"] \in Nat /\ spent'["fail"] \in Nat /\ clock' \in Int
  BY DEF TypeInv, TypeOK, Faults, Ticks
<1>2. \A S : InHand(m, S) \in Nat
  BY InHandType
<1>3. MadeInv(m)'
  BY <1>0, <1>1, <1>2 DEF MadeInv, Making, Coming
<1>4. ReminderDue(m, clock') => ReminderDue(m, clock)
  BY <1>0, <1>1 DEF ReminderDue
<1>5. LostInv(m)'
  <2>1. /\ InHand(m, {"push"})' = InHand(m, {"push"}) /\ InHand(m, {"push"}) \in Nat
        /\ InHand(m, {"push", "remind"})' = InHand(m, {"push", "remind"})
        /\ InHand(m, {"push", "remind"}) \in Nat
    BY <1>2
  <2>2. (coupons[m] - pushes[m] - InHand(m, {"push"}) \in 0..spent["fail"])'
    BY <1>0, <1>1, <2>1 DEF LostInv
  <2>3. ASSUME ReminderDue(m, clock')
        PROVE  (coupons[m] - reminders[m] - InHand(m, {"push", "remind"}) \in 0..spent["fail"])'
    BY <1>0, <1>1, <1>4, <2>1, <2>3 DEF LostInv
  <2> QED BY <2>2, <2>3 DEF LostInv, ReminderDue
<1> QED BY <1>3, <1>5

(* A step of the mail's own handler: what it leaves, enters and counts.      *)
LEMMA OwnMail ==
  ASSUME CountInv, NEW w \in Workers, Handler(w) \/ RejectToken(w) \/ Fail(w),
         NEW m \in Mails, m = h[w].mail
  PROVE  MadeInv(m)' /\ LostInv(m)'
<1>0. TypeInv /\ TypeOK /\ MadeInv(m) /\ LostInv(m)
  BY DEF CountInv, TypeInv
<1>1. /\ coupons[m] \in Nat /\ pushes[m] \in Nat /\ reminders[m] \in Nat
      /\ spent["redeliver"] \in Nat /\ spent["fail"] \in Nat
      /\ \A S : InHand(m, S) \in Nat
  BY <1>0, CountTypes, InHandType
<1>2. ASSUME NEW stage \in Stages, Step(w, stage)
      PROVE  \A S : InHand(m, S)' = InHand(m, S) + In(stage, S) - In(h[w].stage, S)
  BY <1>0, <1>2, StepCounts
<1>3. ASSUME NEW state \in {"acked", "ready"}, Answer(w, state)
      PROVE  \A S : InHand(m, S)' = InHand(m, S) - In(h[w].stage, S)
  <2>1. state \in States
    BY DEF States
  <2> QED BY <1>0, <1>3, <2>1, AnswerCounts
<1>4. ASSUME Step(w, "account") \/ Step(w, "body") \/ Step(w, "update") \/ Step(w, "create")
              \/ Step(w, "push") \/ Step(w, "remind")
      PROVE  msg'[m].state = msg[m].state
  BY <1>4 DEF Step
<1>5. ASSUME Answer(w, "acked")
      PROVE  msg'[m].state \in {"unpublished", "ready"} => msg[m].state \in {"unpublished", "ready"}
  <2>1. "acked" \in States
    BY DEF States
  <2> QED BY <1>0, <1>5, <2>1, AnswerFacts
<1>6. CASE FindExisting(w)
  <2>1. /\ h[w].stage = "find" /\ UNCHANGED <<outsideVars, storeVars, spent>>
        /\ IF coupons[m] > 0 THEN Answer(w, "acked") ELSE Step(w, "account")
    BY <1>6 DEF FindExisting, At, Return
  <2>2. /\ InHand(m, {"push"})' = InHand(m, {"push"})
        /\ InHand(m, {"push", "remind"})' = InHand(m, {"push", "remind"})
        /\ InHand(m, Before)' = InHand(m, Before) \/ coupons[m] = 0
        /\ InHand(m, Seeking)' = InHand(m, Seeking) \/ coupons[m] > 0
    BY <1>1, <1>2, <1>3, <2>1 DEF In, Before, Seeking, Stages
  <2>3. msg'[m].state \in {"unpublished", "ready"} => msg[m].state \in {"unpublished", "ready"}
    BY <1>4, <1>5, <2>1
  <2>4. MadeInv(m)'
    BY <1>0, <1>1, <2>1, <2>2, <2>3 DEF MadeInv, Making, Coming, storeVars
  <2>5. LostInv(m)'
    BY <1>0, <1>1, <2>1, <2>2 DEF LostInv, ReminderDue, storeVars, outsideVars
  <2> QED BY <2>4, <2>5
<1>7. CASE LoadActive(w) \/ RejectToken(w) \/ UpdateFilterResult(w)
  <2>1. /\ h[w].stage \in {"account", "update"}
        /\ UNCHANGED <<clock, coupons, pushes, reminders>>
        /\ \/ Answer(w, "acked") \/ Step(w, "body") \/ Step(w, "create")
    BY <1>7 DEF LoadActive, RejectToken, UpdateFilterResult, At, Return, storeVars, outsideVars
  <2>2. spent'["redeliver"] = spent["redeliver"] /\ spent'["fail"] = spent["fail"]
    <3>1. CASE RejectToken(w)
      <4>1. "reject" \in Faults /\ Spend("reject")
        BY <3>1 DEF RejectToken, Faults
      <4> QED BY <1>0, <4>1, SpendFacts DEF Faults
    <3>2. CASE LoadActive(w) \/ UpdateFilterResult(w)
      BY <3>2 DEF LoadActive, UpdateFilterResult
    <3> QED BY <1>7, <3>1, <3>2
  <2>3. /\ InHand(m, {"push"})' = InHand(m, {"push"})
        /\ InHand(m, {"push", "remind"})' = InHand(m, {"push", "remind"})
        /\ InHand(m, Before)' <= InHand(m, Before) /\ InHand(m, Before)' \in Int
        /\ InHand(m, Seeking)' <= InHand(m, Seeking) /\ InHand(m, Seeking)' \in Int
    BY <1>1, <1>2, <1>3, <2>1 DEF In, Before, Seeking, Stages
  <2>4. msg'[m].state \in {"unpublished", "ready"} => msg[m].state \in {"unpublished", "ready"}
    BY <1>4, <1>5, <2>1
  <2>5. MadeInv(m)'
    BY <1>0, <1>1, <2>1, <2>2, <2>3, <2>4 DEF MadeInv, Making, Coming
  <2>6. LostInv(m)'
    BY <1>0, <1>1, <2>1, <2>2, <2>3 DEF LostInv, ReminderDue
  <2> QED BY <2>5, <2>6
<1>8. CASE FetchMessageBody(w) \/ Fail(w)
  <2>1. /\ UNCHANGED <<clock, coupons, pushes, reminders>>
        /\ \/ Answer(w, "ready") /\ h[w].stage # "idle"
           \/ Step(w, "update") /\ h[w].stage = "body"
    BY <1>8 DEF FetchMessageBody, Fail, At, Throw, storeVars, outsideVars
  <2>2. /\ spent'["redeliver"] = spent["redeliver"]
        /\ spent'["fail"] = spent["fail"] \/ spent'["fail"] = spent["fail"] + 1
        /\ h[w].stage \in {"push", "remind"} => spent'["fail"] = spent["fail"] + 1
    <3>1. CASE Fail(w)
      <4>1. "fail" \in Faults /\ Spend("fail")
        BY <3>1 DEF Fail, Faults
      <4> QED BY <1>0, <4>1, SpendFacts DEF Faults
    <3>2. CASE FetchMessageBody(w)
      BY <3>2 DEF FetchMessageBody, At
    <3> QED BY <1>8, <3>1, <3>2
  <2>3. CASE Step(w, "update") /\ h[w].stage = "body"
    <3>1. /\ InHand(m, {"push"})' = InHand(m, {"push"})
          /\ InHand(m, {"push", "remind"})' = InHand(m, {"push", "remind"})
          /\ InHand(m, Before)' = InHand(m, Before)
          /\ InHand(m, Seeking)' = InHand(m, Seeking)
      BY <1>1, <1>2, <2>3 DEF In, Before, Seeking, Stages
    <3>2. msg'[m].state = msg[m].state
      BY <1>4, <2>3
    <3>3. MadeInv(m)'
      BY <1>0, <1>1, <2>1, <2>2, <3>1, <3>2 DEF MadeInv, Making, Coming
    <3>4. LostInv(m)'
      <4>1. spent'["fail"] \in Nat /\ spent'["fail"] >= spent["fail"]
        BY <1>1, <2>2
      <4> QED BY <1>0, <1>1, <2>1, <3>1, <4>1 DEF LostInv, ReminderDue
    <3> QED BY <3>3, <3>4
  <2>4. CASE Answer(w, "ready") /\ h[w].stage # "idle"
    <3>1. h[w].stage \in Stages /\ (h[w].stage \in {"push", "remind"} => coupons[m] > 0)
      BY <1>0, <2>4 DEF TypeInv, TypeOK, Invocation, RunInv
    <3>2. \A S : InHand(m, S)' = InHand(m, S) - In(h[w].stage, S)
      BY <1>3, <2>4
    <3>3. /\ In(h[w].stage, Before) >= 0 /\ In(h[w].stage, Before) \in Nat
          /\ In(h[w].stage, Seeking) = In(h[w].stage, Seeking) /\ In(h[w].stage, Seeking) \in Nat
          /\ coupons[m] = 0 => In(h[w].stage, Seeking) = 1
      BY <2>4, <3>1 DEF In, Before, Seeking, Stages
    <3>4. MadeInv(m)'
      BY <1>0, <1>1, <2>1, <2>2, <3>2, <3>3 DEF MadeInv, Making, Coming
    <3>5. /\ In(h[w].stage, {"push"}) \in {0, 1} /\ In(h[w].stage, {"push", "remind"}) \in {0, 1}
          /\ In(h[w].stage, {"push"}) = 1 => spent'["fail"] = spent["fail"] + 1
          /\ In(h[w].stage, {"push", "remind"}) = 1 => spent'["fail"] = spent["fail"] + 1
      BY <2>2 DEF In
    <3>6. (coupons[m] - pushes[m] - InHand(m, {"push"}) \in 0..spent["fail"])'
      BY <1>0, <1>1, <2>1, <2>2, <3>2, <3>5 DEF LostInv
    <3>7. ASSUME ReminderDue(m, clock)
          PROVE  (coupons[m] - reminders[m] - InHand(m, {"push", "remind"}) \in 0..spent["fail"])'
      BY <1>0, <1>1, <2>1, <2>2, <3>2, <3>5, <3>7 DEF LostInv
    <3> QED BY <2>1, <3>4, <3>6, <3>7 DEF LostInv, ReminderDue
  <2> QED BY <2>1, <2>3, <2>4
<1>9. CASE CreateCoupon(w)
  <2>1. /\ h[w].stage = "create" /\ UNCHANGED <<clock, pushes, reminders, spent>>
        /\ coupons'[m] = coupons[m] + 1 /\ Step(w, "push")
    BY <1>0, <1>9 DEF CreateCoupon, At, outsideVars, TypeOK
  <2>2. /\ InHand(m, {"push"})' = InHand(m, {"push"}) + 1
        /\ InHand(m, {"push", "remind"})' = InHand(m, {"push", "remind"}) + 1
        /\ InHand(m, Before)' = InHand(m, Before) - 1
    BY <1>1, <1>2, <2>1 DEF In, Before, Stages
  <2>3. InHand(m, Before) <= InHand(m, Seeking)
    <3>1. {v \in Workers : h[v].mail = m /\ h[v].stage \in Before}
            \subseteq {v \in Workers : h[v].mail = m /\ h[v].stage \in Seeking}
      BY DEF Seeking
    <3>2. IsFiniteSet({v \in Workers : h[v].mail = m /\ h[v].stage \in Seeking})
      BY FS_Subset
    <3> QED BY <3>1, <3>2, FS_Subset DEF InHand
  <2>4. MadeInv(m)'
    BY <1>0, <1>1, <2>1, <2>2, <2>3 DEF MadeInv, Making, Coming
  <2>5. LostInv(m)'
    BY <1>0, <1>1, <2>1, <2>2 DEF LostInv, ReminderDue
  <2> QED BY <2>4, <2>5
<1>10. CASE EnqueuePush(w)
  <2>1. /\ h[w].stage = "push" /\ UNCHANGED <<clock, coupons, reminders, spent>>
        /\ pushes'[m] = pushes[m] + 1 /\ Step(w, "remind")
    BY <1>0, <1>10 DEF EnqueuePush, At, outsideVars, TypeOK
  <2>2. /\ InHand(m, {"push"})' = InHand(m, {"push"}) - 1
        /\ InHand(m, {"push", "remind"})' = InHand(m, {"push", "remind"})
        /\ InHand(m, Before)' = InHand(m, Before)
        /\ InHand(m, Seeking)' = InHand(m, Seeking)
    BY <1>1, <1>2, <2>1 DEF In, Before, Seeking, Stages
  <2>3. msg'[m].state = msg[m].state
    BY <1>4, <2>1
  <2>4. MadeInv(m)'
    BY <1>0, <1>1, <2>1, <2>2, <2>3 DEF MadeInv, Making, Coming
  <2>5. LostInv(m)'
    BY <1>0, <1>1, <2>1, <2>2 DEF LostInv, ReminderDue
  <2> QED BY <2>4, <2>5
<1>11. CASE ScheduleReminder(w)
  <2>1. /\ h[w].stage = "remind" /\ UNCHANGED <<clock, coupons, pushes, spent>>
        /\ reminders'[m] = IF ReminderDue(m, h[w].now) THEN reminders[m] + 1 ELSE reminders[m]
        /\ Answer(w, "acked")
    BY <1>0, <1>11 DEF ScheduleReminder, At, outsideVars, TypeOK, Return
  <2>2. /\ InHand(m, {"push"})' = InHand(m, {"push"})
        /\ InHand(m, {"push", "remind"})' = InHand(m, {"push", "remind"}) - 1
        /\ InHand(m, Before)' = InHand(m, Before)
        /\ InHand(m, Seeking)' = InHand(m, Seeking)
    BY <1>1, <1>3, <2>1 DEF In, Before, Seeking
  <2>3. msg'[m].state \in {"unpublished", "ready"} => msg[m].state \in {"unpublished", "ready"}
    BY <1>5, <2>1
  <2>4. MadeInv(m)'
    BY <1>0, <1>1, <2>1, <2>2, <2>3 DEF MadeInv, Making, Coming
  <2>5. ReminderDue(m, clock) => ReminderDue(m, h[w].now)
    <3>1. h[w].now <= clock
      BY <1>0, <2>1 DEF TypeInv, RunInv
    <3> QED BY <1>0, <3>1, CountTypes DEF ReminderDue
  <2>6. LostInv(m)'
    BY <1>0, <1>1, <2>1, <2>2, <2>5 DEF LostInv, ReminderDue
  <2> QED BY <2>4, <2>6
<1> QED BY <1>6, <1>7, <1>8, <1>9, <1>10, <1>11 DEF Handler

LEMMA CountStep == ASSUME CountInv, [Next]_vars PROVE CountInv'
<1>0. TypeInv /\ TypeOK /\ TypeInv'
  BY TypeStep DEF CountInv, TypeInv
<1>1. ASSUME NEW m \in Mails PROVE MadeInv(m)' /\ LostInv(m)'
  <2>0. MadeInv(m) /\ LostInv(m) /\ spent["redeliver"] \in Int /\ spent["fail"] \in Int
        /\ clock \in Int
    BY <1>0, CountTypes DEF CountInv
  <2>1. CASE UNCHANGED <<h, coupons, pushes, reminders>>
             /\ (msg'[m].state \in {"unpublished", "ready"} => msg[m].state \in {"unpublished", "ready"})
             /\ spent'["redeliver"] >= spent["redeliver"] /\ spent'["fail"] >= spent["fail"]
             /\ clock' >= clock
    <3>1. \A S : InHand(m, S)' = InHand(m, S)
      BY <2>1, InHandKept
    <3> QED BY <1>0, <2>0, <2>1, <3>1, CountKept
  <2>2. CASE Tick \/ Reconnect \/ LoseAccount \/ UNCHANGED vars \/ \E n \in Mails : DeleteMail(n)
    <3>1. UNCHANGED <<h, msg, coupons, pushes, reminders>> /\ (clock' = clock \/ clock' = clock + 1)
      BY <2>2 DEF Tick, Reconnect, LoseAccount, DeleteMail, vars, outsideVars, storeVars
    <3>2. spent' = spent \/ \E k \in {"reject", "delete"} : Spend(k)
      BY <2>2 DEF Tick, Reconnect, LoseAccount, DeleteMail, vars
    <3>3. spent'["redeliver"] = spent["redeliver"] /\ spent'["fail"] = spent["fail"]
      <4>1. ASSUME NEW k \in {"reject", "delete"}, Spend(k)
            PROVE  spent'["redeliver"] = spent["redeliver"] /\ spent'["fail"] = spent["fail"]
        <5>1. k \in Faults
          BY DEF Faults
        <5> QED BY <1>0, <4>1, <5>1, SpendFacts DEF Faults
      <4> QED BY <3>2, <4>1
    <3> QED BY <2>0, <2>1, <3>1, <3>3
  <2>3. ASSUME NEW n \in Mails, Publish(n) \/ Redeliver(n) \/ DeadLetter(n)
        PROVE  MadeInv(m)' /\ LostInv(m)'
    <3>1. /\ UNCHANGED <<outsideVars, h, storeVars>>
          /\ n # m => msg'[m] = msg[m]
          /\ Redeliver(n) => Spend("redeliver")
          /\ ~ Redeliver(n) => UNCHANGED spent /\ msg[n].state \in {"unpublished", "ready"}
      BY <1>0, <2>3, MoveFacts
    <3>2. UNCHANGED <<h, coupons, pushes, reminders, clock>>
      BY <3>1 DEF outsideVars, storeVars
    <3>3. CASE ~ Redeliver(n)
      BY <2>0, <2>1, <3>1, <3>2, <3>3
    <3>4. CASE Redeliver(n)
      <4>1. spent'["redeliver"] = spent["redeliver"] + 1 /\ spent'["fail"] = spent["fail"]
        <5>1. "redeliver" \in Faults
          BY DEF Faults
        <5> QED BY <1>0, <3>1, <3>4, <5>1, SpendFacts DEF Faults
      <4>2. coupons[m] \in Nat /\ spent["redeliver"] \in Nat /\ spent["fail"] \in Nat
            /\ InHand(m, Seeking) \in Nat /\ InHand(m, Before) \in Nat
        BY <1>0, CountTypes, InHandType
      <4>3. \A S : InHand(m, S)' = InHand(m, S)
        BY <3>2, InHandKept
      <4>4. MadeInv(m)'
        BY <2>0, <3>2, <4>1, <4>2, <4>3 DEF MadeInv, Making, Coming
      <4>5. LostInv(m)'
        BY <2>0, <3>2, <4>1, <4>3 DEF LostInv, ReminderDue
      <4> QED BY <4>4, <4>5
    <3> QED BY <3>3, <3>4
  <2>4. ASSUME NEW w \in Workers, Handler(w) \/ RejectToken(w) \/ Fail(w)
        PROVE  MadeInv(m)' /\ LostInv(m)'
    <3>1. CASE m = h[w].mail
      BY <2>4, <3>1, OwnMail
    <3>2. CASE m # h[w].mail
      <4>1. msg'[m] = msg[m] /\ \A S : InHand(m, S)' = InHand(m, S)
        BY <1>0, <2>4, <3>2, Shape, OtherMail
      <4>2. coupons'[m] = coupons[m] /\ pushes'[m] = pushes[m] /\ reminders'[m] = reminders[m]
            /\ clock' = clock
        BY <1>0, <2>4, <3>2
           DEF Handler, FindExisting, LoadActive, RejectToken, FetchMessageBody, UpdateFilterResult,
               CreateCoupon, EnqueuePush, ScheduleReminder, Fail, outsideVars, storeVars, TypeOK
      <4>3. spent' = spent \/ \E k \in {"reject", "fail"} : Spend(k)
        BY <2>4 DEF Handler, FindExisting, LoadActive, RejectToken, FetchMessageBody,
             UpdateFilterResult, CreateCoupon, EnqueuePush, ScheduleReminder, Fail
      <4>4. spent'["redeliver"] >= spent["redeliver"] /\ spent'["fail"] >= spent["fail"]
        <5>1. ASSUME NEW k \in {"reject", "fail"}, Spend(k)
              PROVE  spent'["redeliver"] >= spent["redeliver"] /\ spent'["fail"] >= spent["fail"]
          <6>1. k \in Faults
            BY DEF Faults
          <6>2. spent'["redeliver"] = spent["redeliver"]
                /\ (spent'["fail"] = spent["fail"] \/ spent'["fail"] = spent["fail"] + 1)
            BY <1>0, <5>1, <6>1, SpendFacts DEF Faults
          <6> QED BY <2>0, <6>2
        <5> QED BY <2>0, <4>3, <5>1
      <4>5. clock' >= clock
        BY <2>0, <4>2
      <4> QED BY <1>0, <2>0, <4>1, <4>2, <4>4, <4>5, CountKept
    <3> QED BY <3>1, <3>2
  <2>5. ASSUME NEW w \in Workers, NEW n \in Mails, Deliver(w, n) PROVE MadeInv(m)' /\ LostInv(m)'
    <3>1. /\ \A v \in Workers \ {w} : h'[v] = h[v]
          /\ h'[w] = [stage |-> "find", mail |-> n, now |-> clock] /\ h[w].stage = "idle"
          /\ msg'[n].state = "out" /\ msg[n].state = "ready"
          /\ n # m => msg'[m] = msg[m]
          /\ UNCHANGED <<outsideVars, storeVars, spent>>
      BY <1>0, <2>5, DeliverFacts
    <3>2. h'[w].stage = "find" /\ h'[w].mail = n
      BY <3>1
    <3>3. ASSUME NEW S, "idle" \notin S
          PROVE  InHand(m, S)' = InHand(m, S) + (IF n = m THEN In("find", S) ELSE 0)
      <4>1. InHand(m, S)' = InHand(m, S)
                            + (IF h'[w].mail = m THEN In(h'[w].stage, S) ELSE 0)
                            - (IF h[w].mail = m THEN In(h[w].stage, S) ELSE 0)
        BY <3>1, InHandStep
      <4>2. In(h[w].stage, S) = 0 /\ In("find", S) \in Int /\ InHand(m, S) \in Int
        BY <3>1, <3>3, InHandType DEF In
      <4> QED BY <3>2, <4>1, <4>2
    <3>4. /\ InHand(m, {"push"})' = InHand(m, {"push"})
          /\ InHand(m, {"push", "remind"})' = InHand(m, {"push", "remind"})
          /\ InHand(m, Before)' = InHand(m, Before)
          /\ InHand(m, Seeking)' = InHand(m, Seeking) + (IF n = m THEN 1 ELSE 0)
      <4>1. In("find", {"push"}) = 0 /\ In("find", {"push", "remind"}) = 0
            /\ In("find", Before) = 0 /\ In("find", Seeking) = 1
        BY DEF In, Before, Seeking
      <4>2. "idle" \notin {"push"} /\ "idle" \notin {"push", "remind"}
            /\ "idle" \notin Before /\ "idle" \notin Seeking
        BY DEF Before, Seeking
      <4> QED BY <3>3, <4>1, <4>2, InHandType
    <3>5. UNCHANGED <<coupons, pushes, reminders, clock, spent>>
      BY <3>1 DEF outsideVars, storeVars
    <3>6. coupons[m] \in Nat /\ spent["redeliver"] \in Nat
          /\ InHand(m, Seeking) \in Nat /\ InHand(m, Before) \in Nat
      BY <1>0, CountTypes, InHandType
    <3>7. MadeInv(m)'
      BY <2>0, <3>1, <3>4, <3>5, <3>6 DEF MadeInv, Making, Coming
    <3>8. LostInv(m)'
      BY <2>0, <3>4, <3>5 DEF LostInv, ReminderDue
    <3> QED BY <3>7, <3>8
  <2> QED BY <2>2, <2>3, <2>4, <2>5 DEF Next
<1> QED BY <1>0, <1>1 DEF CountInv

(* The counts of coupons, handlers and tasks fit, whatever is delivered      *)
(* twice and whichever handlers fail (CouponClassifyService.handle).         *)
THEOREM CountInvariant == Spec => []CountInv
<1>1. Init => CountInv
  BY CountInit
<1>2. CountInv /\ [Next]_vars => CountInv'
  BY CountStep
<1> QED BY <1>1, <1>2, PTL DEF Spec

(* A mail gets a second coupon only from a redelivery that met a running     *)
(* handler: findUnique and create are two awaits of handle.                  *)
THEOREM CouponsPerDelivery == Spec => []OneCouponPerDelivery
<1>1. CountInv => OneCouponPerDelivery
  <2> SUFFICES ASSUME CountInv, NEW m \in Mails PROVE coupons[m] <= 1 + spent["redeliver"]
    BY DEF OneCouponPerDelivery
  <2>1. MadeInv(m) /\ TypeInv
    BY DEF CountInv
  <2>2. /\ coupons[m] \in Nat /\ spent["redeliver"] \in Nat
        /\ InHand(m, Seeking) \in Nat /\ InHand(m, Before) \in Nat
    BY <2>1, CountTypes, InHandType
  <2> QED BY <2>1, <2>2 DEF MadeInv, Making, Coming
<1> QED BY <1>1, CountInvariant, PTL

(* Each failure costs at most one coupon its push and its reminder.          *)
THEOREM LostTasks == Spec => []LostTasksBounded
<1>1. CountInv => LostTasksBounded
  BY DEF CountInv, LostInv, LostTasksBounded
<1> QED BY <1>1, CountInvariant, PTL

-----------------------------------------------------------------------------
(* The promise to the user: what is pushed about is there, what is reminded  *)
(* of was pushed about.                                                      *)
Unreminded(m) == pushes[m] - reminders[m] - InHand(m, {"remind"})
RemindInv == \A m \in Mails : Unreminded(m) >= 0

(* What a turn does to a mail's tasks.                                       *)
LEMMA TaskFacts ==
  ASSUME TypeInv, NEW w \in Workers, Handler(w) \/ RejectToken(w) \/ Fail(w)
  PROVE  /\ \A v \in Workers \ {w} : h'[v] = h[v]
         /\ h[w].mail \in Mails
         /\ \/ h'[w].stage # "remind" /\ UNCHANGED <<pushes, reminders>>
            \/ /\ h[w].stage = "push" /\ h'[w].stage = "remind" /\ h'[w].mail = h[w].mail
               /\ pushes' = [pushes EXCEPT ![h[w].mail] = @ + 1]
               /\ UNCHANGED <<coupons, reminders>>
            \/ /\ h[w].stage = "remind" /\ h'[w].stage # "remind"
               /\ reminders' = [reminders EXCEPT ![h[w].mail] = @ + 1]
               /\ UNCHANGED <<coupons, pushes>>
<1>0. TypeOK /\ Works(w) /\ h[w].mail \in Mails
  BY Shape DEF TypeInv, Works, RunInv
<1>1. \A state \in States : Answer(w, state) =>
         h'[w].stage = "idle" /\ \A v \in Workers \ {w} : h'[v] = h[v]
  BY <1>0, AnswerFacts
<1>2. \A stage \in Stages : Step(w, stage) =>
         /\ h'[w].stage = stage /\ h'[w].mail = h[w].mail
         /\ \A v \in Workers \ {w} : h'[v] = h[v]
  BY <1>0, StepFacts
<1>3. {"acked", "ready"} \subseteq States
      /\ {"account", "body", "update", "create", "push", "remind"} \subseteq Stages
  BY DEF States, Stages
<1>4. \A v \in Workers \ {w} : h'[v] = h[v]
  BY <1>0, <1>1, <1>2, <1>3 DEF Works
<1>5. CASE EnqueuePush(w)
  BY <1>0, <1>2, <1>3, <1>4, <1>5 DEF EnqueuePush, At
<1>6. CASE ScheduleReminder(w)
  <2>1. h[w].stage = "remind" /\ h'[w].stage # "remind" /\ UNCHANGED <<coupons, pushes>>
    BY <1>1, <1>3, <1>6 DEF ScheduleReminder, At, Return
  <2>2. \/ reminders' = reminders
        \/ reminders' = [reminders EXCEPT ![h[w].mail] = @ + 1]
    BY <1>6 DEF ScheduleReminder
  <2> QED BY <1>0, <1>4, <2>1, <2>2
<1>7. CASE FindExisting(w) \/ LoadActive(w) \/ FetchMessageBody(w) \/ UpdateFilterResult(w)
           \/ CreateCoupon(w) \/ RejectToken(w) \/ Fail(w)
  <2>1. \/ \E stage \in {"account", "body", "update", "create", "push"} : Step(w, stage)
        \/ \E state \in {"acked", "ready"} : Answer(w, state)
    BY <1>7 DEF FindExisting, LoadActive, FetchMessageBody, UpdateFilterResult, CreateCoupon,
                RejectToken, Fail, Return, Throw
  <2>2. h'[w].stage # "remind"
    BY <1>1, <1>2, <1>3, <2>1
  <2>3. UNCHANGED <<pushes, reminders>>
    BY <1>7 DEF FindExisting, LoadActive, FetchMessageBody, UpdateFilterResult, CreateCoupon,
                RejectToken, Fail, storeVars
  <2> QED BY <1>0, <1>4, <2>2, <2>3
<1> QED BY <1>5, <1>6, <1>7 DEF Handler

LEMMA RemindHandler ==
  ASSUME TypeInv, RemindInv, NEW w \in Workers, Handler(w) \/ RejectToken(w) \/ Fail(w)
  PROVE  RemindInv'
<1> SUFFICES ASSUME NEW m \in Mails PROVE Unreminded(m)' >= 0
  BY DEF RemindInv
<1> DEFINE inHand == InHand(m, {"remind"})
           before == IF h[w].mail = m THEN In(h[w].stage, {"remind"}) ELSE 0
           after  == IF h'[w].mail = m THEN In(h'[w].stage, {"remind"}) ELSE 0
<1>1. pushes[m] \in Nat /\ reminders[m] \in Nat
      /\ pushes \in [Mails -> Nat] /\ reminders \in [Mails -> Nat]
  BY DEF TypeInv, TypeOK
<1>2. /\ \A v \in Workers \ {w} : h'[v] = h[v]
      /\ h[w].mail \in Mails
      /\ \/ h'[w].stage # "remind" /\ UNCHANGED <<pushes, reminders>>
         \/ /\ h[w].stage = "push" /\ h'[w].stage = "remind" /\ h'[w].mail = h[w].mail
            /\ pushes' = [pushes EXCEPT ![h[w].mail] = @ + 1]
            /\ UNCHANGED <<coupons, reminders>>
         \/ /\ h[w].stage = "remind" /\ h'[w].stage # "remind"
            /\ reminders' = [reminders EXCEPT ![h[w].mail] = @ + 1]
            /\ UNCHANGED <<coupons, pushes>>
  BY TaskFacts
<1>3. inHand \in Nat /\ inHand' = inHand + after - before
  BY <1>2, InHandType, InHandStep
<1>4. /\ before = IF h[w].mail = m /\ h[w].stage = "remind" THEN 1 ELSE 0
      /\ after = IF h'[w].mail = m /\ h'[w].stage = "remind" THEN 1 ELSE 0
  BY DEF In
<1>5. pushes[m] - reminders[m] - inHand >= 0 /\ Unreminded(m)' = pushes'[m] - reminders'[m] - inHand'
  BY DEF RemindInv, Unreminded
<1> HIDE DEF inHand, before, after
<1>6. CASE h'[w].stage # "remind" /\ UNCHANGED <<pushes, reminders>>
  BY <1>1, <1>3, <1>4, <1>5, <1>6
<1>7. CASE /\ h[w].stage = "push" /\ h'[w].stage = "remind" /\ h'[w].mail = h[w].mail
           /\ pushes' = [pushes EXCEPT ![h[w].mail] = @ + 1]
           /\ UNCHANGED <<coupons, reminders>>
  <2>1. pushes'[m] = IF h[w].mail = m THEN pushes[m] + 1 ELSE pushes[m]
    BY <1>1, <1>7
  <2> QED BY <1>1, <1>3, <1>4, <1>5, <1>7, <2>1
<1>8. CASE /\ h[w].stage = "remind" /\ h'[w].stage # "remind"
           /\ reminders' = [reminders EXCEPT ![h[w].mail] = @ + 1]
           /\ UNCHANGED <<coupons, pushes>>
  <2>1. reminders'[m] = IF h[w].mail = m THEN reminders[m] + 1 ELSE reminders[m]
    BY <1>1, <1>8
  <2> QED BY <1>1, <1>3, <1>4, <1>5, <1>8, <2>1
<1> QED BY <1>2, <1>6, <1>7, <1>8

LEMMA RemindStep == ASSUME TypeInv, RemindInv, [Next]_vars PROVE RemindInv'
<1>1. ASSUME UNCHANGED <<h, pushes, reminders>> PROVE RemindInv'
  <2>1. \A m \in Mails : Unreminded(m)' = Unreminded(m)
    BY <1>1, InHandKept DEF Unreminded
  <2> QED BY <2>1 DEF RemindInv
<1>2. CASE \/ Tick \/ Reconnect \/ LoseAccount \/ UNCHANGED vars
           \/ \E m \in Mails : DeleteMail(m) \/ Publish(m) \/ Redeliver(m) \/ DeadLetter(m)
  BY <1>1, <1>2 DEF Tick, Reconnect, LoseAccount, DeleteMail, Publish, Redeliver, DeadLetter,
                    vars, storeVars
<1>3. ASSUME NEW w \in Workers, NEW n \in Mails, Deliver(w, n) PROVE RemindInv'
  <2>0. TypeOK
    BY DEF TypeInv
  <2>1. /\ \A v \in Workers \ {w} : h'[v] = h[v]
        /\ h'[w] = [stage |-> "find", mail |-> n, now |-> clock] /\ h[w].stage = "idle"
        /\ UNCHANGED storeVars
    BY <1>3, <2>0, DeliverFacts
  <2>2. ASSUME NEW m \in Mails PROVE Unreminded(m)' = Unreminded(m)
    <3>1. h[w].stage # "remind" /\ h'[w].stage # "remind"
      BY <2>1
    <3>2. {v \in Workers : h'[v].mail = m /\ h'[v].stage \in {"remind"}}
            = {v \in Workers : h[v].mail = m /\ h[v].stage \in {"remind"}}
      BY <2>1, <3>1
    <3>3. InHand(m, {"remind"})' = InHand(m, {"remind"})
      BY <3>2 DEF InHand
    <3> QED BY <2>1, <3>3 DEF Unreminded, storeVars
  <2> QED BY <2>2 DEF RemindInv
<1>4. ASSUME NEW w \in Workers, Handler(w) \/ RejectToken(w) \/ Fail(w) PROVE RemindInv'
  BY <1>4, RemindHandler
<1> QED BY <1>2, <1>3, <1>4 DEF Next

(* No mail has more reminders than pushes, those about to be scheduled       *)
(* included: handle enqueues the push first.                                 *)
THEOREM RemindInvariant == Spec => []RemindInv
<1>1. Init => RemindInv
  <2> SUFFICES ASSUME Init, NEW m \in Mails PROVE Unreminded(m) = 0
    BY DEF RemindInv
  <2>1. {w \in Workers : h[w].mail = m /\ h[w].stage \in {"remind"}} = {}
    BY DEF Init, Idle
  <2>2. InHand(m, {"remind"}) = 0
    BY <2>1, FS_EmptySet DEF InHand
  <2> QED BY <2>2 DEF Init, Unreminded
<1>2. TypeInv /\ RemindInv /\ [Next]_vars => RemindInv'
  BY RemindStep
<1> QED BY <1>1, <1>2, TypeCorrect, PTL DEF Spec

(* A handler at one of the stages is counted.                                *)
LEMMA InHandSome ==
  ASSUME NEW w \in Workers, NEW S, h[w].stage \in S PROVE InHand(h[w].mail, S) >= 1
<1> DEFINE A == {v \in Workers : h[v].mail = h[w].mail /\ h[v].stage \in S}
<1>1. IsFiniteSet(A) /\ A # {}
  BY FS_Subset
<1>2. Cardinality(A) \in Nat /\ Cardinality(A) # 0
  BY <1>1, FS_EmptySet, FS_CardinalityType
<1> QED BY <1>2 DEF InHand

(* Classification implements CouponLedger: each step creates one coupon,     *)
(* announces one that no push was enqueued for, reminds of one announced, or *)
(* changes nothing the user sees.                                            *)
THEOREM ImplementsCouponLedger == Spec => CouponLedgerSpec
<1>1. Init => Ledger!Init
  BY DEF Init, Ledger!Init
<1>2. CountInv /\ RemindInv /\ [Next]_vars => [Ledger!Next]_(Ledger!ledgerVars)
  <2> SUFFICES ASSUME CountInv, RemindInv, [Next]_vars,
                      ~ UNCHANGED <<coupons, pushes, reminders>>
               PROVE  Ledger!Next
    BY DEF Ledger!ledgerVars
  <2>1. PICK w \in Workers : CreateCoupon(w) \/ EnqueuePush(w) \/ ScheduleReminder(w)
    BY DEF Next, vars, Tick, Reconnect, LoseAccount, DeleteMail, Publish, Redeliver, DeadLetter,
           Deliver, Handler, FindExisting, LoadActive, FetchMessageBody, UpdateFilterResult,
           RejectToken, Fail, storeVars
  <2> DEFINE m == h[w].mail
  <2>2. m \in Mails /\ TypeInv /\ TypeOK /\ coupons[m] \in Int /\ pushes[m] \in Int
        /\ reminders[m] \in Int /\ spent["fail"] \in Int
    <3>1. TypeInv /\ TypeOK
      BY DEF CountInv, TypeInv
    <3>2. m \in Mails
      BY <2>1, <3>1 DEF TypeInv, RunInv, CreateCoupon, EnqueuePush, ScheduleReminder, At
    <3> QED BY <3>1, <3>2, CountTypes
  <2>3. CASE CreateCoupon(w)
    <3>1. Ledger!Create(m)
      BY <2>3 DEF CreateCoupon, Ledger!Create
    <3> QED BY <2>2, <3>1 DEF Ledger!Next
  <2>4. CASE EnqueuePush(w)
    <3>1. InHand(m, {"push"}) >= 1 /\ InHand(m, {"push"}) \in Int
      BY <2>4, InHandSome, InHandType DEF EnqueuePush, At
    <3>2. coupons[m] - pushes[m] - InHand(m, {"push"}) \in 0..spent["fail"]
      BY <2>2 DEF CountInv, LostInv
    <3>3. pushes[m] < coupons[m]
      BY <2>2, <3>1, <3>2
    <3>4. Ledger!Announce(m)
      BY <2>4, <3>3 DEF EnqueuePush, Ledger!Announce
    <3> QED BY <2>2, <3>4 DEF Ledger!Next
  <2>5. CASE ScheduleReminder(w)
    <3>1. InHand(m, {"remind"}) >= 1 /\ InHand(m, {"remind"}) \in Int
      BY <2>5, InHandSome, InHandType DEF ScheduleReminder, At
    <3>2. pushes[m] - reminders[m] - InHand(m, {"remind"}) >= 0
      BY <2>2 DEF RemindInv, Unreminded
    <3>3. reminders[m] < pushes[m]
      BY <2>2, <3>1, <3>2
    <3>4. Ledger!Remind(m)
      BY <2>5, <3>3 DEF ScheduleReminder, Ledger!Remind
    <3> QED BY <2>2, <3>4 DEF Ledger!Next
  <2> QED BY <2>1, <2>3, <2>4, <2>5
<1> QED BY <1>1, <1>2, CountInvariant, RemindInvariant, PTL
        DEF Spec, CouponLedgerSpec, Ledger!Spec

-----------------------------------------------------------------------------
(* A coupon usable now was usable when its handler took its message up.      *)
LEMMA UsableVerdict ==
  ASSUME NEW m \in Mails, NEW t \in Nat, clock \in Nat, t <= clock, Usable(m)
  PROVE  Verdict(m, t) = "usable"
<1>1. Parsed[m].expiry \in Nat
  BY DEF Extraction, Days, NoDate
<1>2. t <= 2 * Parsed[m].expiry + 1
  BY <1>1 DEF Usable, LastTick
<1>3. ~(Parsed[m].expiry < t \div 2)
  BY <1>1, <1>2
<1> QED BY <1>3 DEF Verdict, Usable, Day

AckInv == TypeInv /\ AckNeedsReason

LEMMA AckStep == ASSUME AckInv, [Next]_vars PROVE AckInv'
<1>0. TypeInv /\ TypeOK /\ TypeInv'
  BY TypeStep DEF AckInv, TypeInv
<1>1. ASSUME NEW m \in Mails, (msg[m].state = "acked" /\ Usable(m) /\ spent["reject"] = 0)'
      PROVE  coupons'[m] > 0
  <2>0. msg[m].state = "acked" /\ Usable(m) /\ spent["reject"] = 0 => coupons[m] > 0
    BY DEF AckInv, AckNeedsReason
  <2>1. coupons[m] \in Nat /\ spent["reject"] \in Nat /\ clock \in Nat /\ clock' \in Nat
    BY <1>0 DEF TypeInv, TypeOK, Faults, Ticks
  <2>2. clock' >= clock
    <3>1. ASSUME NEW w \in Workers, Handler(w) \/ RejectToken(w) \/ Fail(w) PROVE clock' = clock
      BY <1>0, <3>1, StoreFacts
    <3>2. ASSUME NEW n \in Mails, Publish(n) \/ Redeliver(n) \/ DeadLetter(n) PROVE clock' = clock
      BY <1>0, <3>2, MoveFacts DEF outsideVars
    <3>3. clock' = clock \/ clock' = clock + 1
      BY <3>1, <3>2 DEF Next, Tick, Reconnect, LoseAccount, DeleteMail, Deliver, vars, outsideVars
    <3> QED BY <2>1, <3>3
  <2>3. Usable(m)
    <3>1. LastTick(m) \in Int
      BY DEF LastTick, Extraction, Days, NoDate
    <3> QED BY <1>1, <2>1, <2>2, <3>1 DEF Usable
  <2>4. spent["reject"] = 0
    <3>1. ASSUME NEW k \in Faults, Spend(k) PROVE spent["reject"] = 0
      <4>1. spent'["reject"] = spent["reject"] \/ spent'["reject"] = spent["reject"] + 1
        BY <1>0, <3>1, SpendFacts DEF Faults
      <4> QED BY <1>1, <2>1, <4>1
    <3>2. spent' = spent \/ \E k \in Faults : Spend(k)
      BY DEF Next, Tick, Reconnect, LoseAccount, DeleteMail, Publish, Redeliver, DeadLetter,
         Deliver, Handler, FindExisting, LoadActive, RejectToken, FetchMessageBody,
         UpdateFilterResult, CreateCoupon, EnqueuePush, ScheduleReminder, Fail, vars, Faults
    <3> QED BY <1>1, <3>1, <3>2
  <2>5. CASE msg[m].state = "acked"
    <3>1. coupons[m] > 0
      BY <2>0, <2>3, <2>4, <2>5
    <3>2. coupons'[m] >= coupons[m]
      <4>1. ASSUME NEW w \in Workers, Handler(w) \/ RejectToken(w) \/ Fail(w)
            PROVE  coupons'[m] >= coupons[m]
        BY <1>0, <4>1, StoreFacts
      <4>2. CASE UNCHANGED coupons
        BY <2>1, <4>2
      <4> QED BY <4>1, <4>2 DEF Next, Tick, Reconnect, LoseAccount, DeleteMail, Publish, Redeliver,
                DeadLetter, Deliver, vars, storeVars
    <3>3. coupons'[m] \in Nat
      BY <1>0 DEF TypeInv, TypeOK
    <3> QED BY <2>1, <3>1, <3>2, <3>3
  <2>6. CASE msg[m].state # "acked"
    <3>1. msg'[m].state = "acked"
      BY <1>1
    <3>2. PICK w \in Workers : Handler(w) \/ RejectToken(w) \/ Fail(w)
      <4>1. ASSUME NEW n \in Mails, Publish(n) \/ Redeliver(n) \/ DeadLetter(n) PROVE FALSE
        BY <1>0, <2>6, <3>1, <4>1, MoveFacts
      <4>2. ASSUME NEW v \in Workers, NEW n \in Mails, Deliver(v, n) PROVE FALSE
        <5>1. msg'[n].state = "out" /\ \A x \in Mails \ {n} : msg'[x] = msg[x]
          BY <1>0, <4>2 DEF Deliver, TypeOK
        <5> QED BY <2>6, <3>1, <5>1
      <4>3. CASE UNCHANGED msg
        BY <2>6, <3>1, <4>3
      <4> QED BY <4>1, <4>2, <4>3 DEF Next, Tick, Reconnect, LoseAccount, DeleteMail, vars
    <3>3. ASSUME NEW stage \in Stages, Step(w, stage) PROVE FALSE
      BY <2>6, <3>1, <3>3 DEF Step
    <3>4. ASSUME NEW state \in {"acked", "ready"}, Answer(w, state)
          PROVE  state = "acked" /\ m = h[w].mail /\ h[w].stage # "idle"
      <4>1. state \in States
        BY DEF States
      <4>2. IF msg[m].holder = w THEN msg'[m].state = state ELSE msg'[m] = msg[m]
        BY <1>0, <3>4, <4>1, AnswerFacts
      <4>3. HeldInv(m)
        BY <1>0 DEF TypeInv
      <4> QED BY <2>6, <3>1, <4>2, <4>3 DEF HeldInv
    <3>5. Answer(w, "acked") /\ m = h[w].mail /\ h[w].stage # "idle"
      <4>1. Works(w)
        BY <1>0, <3>2, Shape
      <4> QED BY <3>3, <3>4, <4>1 DEF Works
    <3>6. /\ h[w].now \in Nat /\ h[w].now <= clock /\ (~ active => spent["reject"] > 0)
          /\ h[w].stage = "remind" => coupons[m] > 0
      BY <1>0, <3>5 DEF TypeInv, TypeOK, RunInv, Invocation, Ticks
    <3>7. CASE FindExisting(w)
      <4>1. coupons[m] > 0 /\ UNCHANGED coupons
        BY <3>3, <3>5, <3>7 DEF FindExisting, Stages, storeVars
      <4> QED BY <4>1
    <3>8. CASE LoadActive(w)
      <4>1. ASSUME active PROVE FALSE
        <5>1. Step(w, "body") /\ "body" \in Stages
          BY <3>8, <4>1 DEF LoadActive, Stages
        <5> QED BY <3>3, <5>1
      <4> QED BY <2>4, <3>6, <4>1
    <3>9. CASE RejectToken(w)
      <4>1. "reject" \in Faults /\ Spend("reject")
        BY <3>9 DEF RejectToken, Faults
      <4>2. spent'["reject"] = spent["reject"] + 1
        BY <1>0, <4>1, SpendFacts
      <4> QED BY <1>1, <2>1, <4>2
    <3>10. CASE UpdateFilterResult(w)
      <4>1. ASSUME Verdict(m, h[w].now) = "usable" PROVE FALSE
        <5>1. Step(w, "create") /\ "create" \in Stages
          BY <3>5, <3>10, <4>1 DEF UpdateFilterResult, Stages
        <5> QED BY <3>3, <5>1
      <4> QED BY <2>1, <2>3, <3>6, <4>1, UsableVerdict
    <3>11. CASE ScheduleReminder(w)
      <4>1. h[w].stage = "remind" /\ coupons' = coupons
        BY <3>11 DEF ScheduleReminder, At
      <4> QED BY <3>6, <4>1
    <3>12. CASE FetchMessageBody(w)
      <4>1. Answer(w, "ready")
        BY <3>3, <3>12 DEF FetchMessageBody, Throw, Stages
      <4> QED BY <3>4, <4>1
    <3>13. CASE Fail(w)
      <4>1. Answer(w, "ready")
        BY <3>13 DEF Fail, Throw
      <4> QED BY <3>4, <4>1
    <3>14. CASE CreateCoupon(w) \/ EnqueuePush(w)
      BY <3>3, <3>14 DEF CreateCoupon, EnqueuePush, Stages
    <3> QED BY <3>2, <3>7, <3>8, <3>9, <3>10, <3>11, <3>12, <3>13, <3>14 DEF Handler
  <2> QED BY <2>5, <2>6
<1> QED BY <1>0, <1>1 DEF AckInv, AckNeedsReason

(* A usable mail's message is acknowledged only once it has its coupon: no   *)
(* failure, redelivery or last-day verdict of handle drops one.              *)
THEOREM AcksHaveReasons == Spec => []AckNeedsReason
<1>1. Init => AckInv
  BY TypeInit DEF Init, AckInv, AckNeedsReason
<1>2. AckInv /\ [Next]_vars => AckInv'
  BY AckStep
<1>3. AckInv => AckNeedsReason
  BY DEF AckInv
<1> QED BY <1>1, <1>2, <1>3, PTL DEF Spec

(* Types, for the run that checks them.                                      *)
THEOREM TypesHold == Spec => []TypeOK
<1>1. TypeInv => TypeOK
  BY DEF TypeInv
<1> QED BY <1>1, TypeCorrect, PTL

-----------------------------------------------------------------------------
(* CouponDates: the dates of one mail, by the hour.                          *)

(* The half-day of CouponClassify an hour belongs to.                        *)
HalfDay(hour) == 2 * KstDay(hour) + IF (hour + KST_OFFSET) % 24 < 9 THEN 0 ELSE 1

(* The two ticks a day of CouponClassify are enough: in each, the verdict on *)
(* a mail and whether its reminder is due are those of every hour of it.     *)
THEOREM HalfDaysSuffice ==
  ASSUME NEW m \in Mails, ~ Parsed[m].spammy, NEW hour \in Nat
  PROVE  /\ Verdict(m, HalfDay(hour)) = VerdictOn(Parsed[m].expiry, hour)
         /\ Parsed[m].expiry # NoDate =>
               (ReminderDue(m, HalfDay(hour))
                  <=> ExpiryReminderTime(Parsed[m].expiry, hour) # NoHour)
<1> DEFINE e == Parsed[m].expiry
<1>1. e \in Nat
  BY DEF Extraction, Days, NoDate
<1>2. KstDay(hour) = (hour + 9) \div 24
  BY DEF KstDay, DayIn, KST_OFFSET
<1>3. HalfDay(hour) = 2 * ((hour + 9) \div 24) + IF (hour + 9) % 24 < 9 THEN 0 ELSE 1
  BY <1>2 DEF HalfDay, KST_OFFSET
<1>4. Day(HalfDay(hour)) = KstDay(hour)
  BY <1>2, <1>3 DEF Day
<1>5. Verdict(m, HalfDay(hour)) = VerdictOn(e, hour)
  BY <1>4 DEF Verdict, VerdictOn, NoDate, NoDay
<1>6. ReminderAt(m) = 2 * (e - 1) + 1 /\ ReminderHour(e) = 24 * (e - 1)
  BY <1>1 DEF ReminderAt, ReminderHour, REMINDER_HOUR_KST, KST_OFFSET
<1>7. ReminderDue(m, HalfDay(hour)) <=> ReminderHour(e) > hour
  <2> HIDE DEF e
  <2>1. 2 * (e - 1) + 1 > 2 * ((hour + 9) \div 24) + (IF (hour + 9) % 24 < 9 THEN 0 ELSE 1)
          <=> 24 * (e - 1) > hour
    BY <1>1
  <2> QED BY <1>3, <1>6, <2>1 DEF ReminderDue
<1>8. ExpiryReminderTime(e, hour) # NoHour <=> ReminderHour(e) > hour
  BY <1>1, <1>6 DEF ExpiryReminderTime, NoHour
<1> QED BY <1>5, <1>7, <1>8

(* Every set of natural numbers has a least one: what induction is made of.  *)
LEMMA LeastNat == ASSUME NEW T \in SUBSET Nat, T # {} PROVE \E x \in T : \A y \in T : x <= y
<1> DEFINE R == OpToRel(<, Nat)
<1>1. IsWellFoundedOn(R, Nat) BY NatLessThanWellFounded
<1>2. \A x, y \in Nat : <<x,y>> \in R <=> x < y
  BY DEF OpToRel
<1> HIDE DEF R
<1>3. PICK x \in T : \A y \in T : ~ (<<y, x>> \in R)
  BY <1>1, WFMin
<1>4. \A y \in T : ~ (y < x) BY <1>2, <1>3
<1> QED BY <1>3, <1>4

(* The calendar: the first day of a year, and how many days it has.          *)
NewYear(y) == DateUTC(y, 1, 1)
YearLength(y) == IF IsLeap(y) THEN 366 ELSE 365

LEMMA NewYearFacts ==
  ASSUME NEW y \in Nat
  PROVE  /\ NewYear(y) = 365 * y + (y - 1) \div 4 - (y - 1) \div 100 + (y - 1) \div 400 + 1
         /\ NewYear(y) \in Nat /\ 364 * y <= NewYear(y) /\ NewYear(y) <= 367 * y
BY DEF NewYear, DateUTC, DaysBeforeYear, DaysBeforeMonth

LEMMA NewYearType == \A y \in Nat : NewYear(y) \in Nat /\ NewYear(y + 1) \in Nat
<1> TAKE y \in Nat
<1>1. NewYear(y) \in Nat
  BY NewYearFacts
<1>2. NewYear(y + 1) \in Nat
  BY y + 1 \in Nat, NewYearFacts
<1> QED BY <1>1, <1>2

LEMMA NextYear ==
  ASSUME NEW y \in Nat
  PROVE  NewYear(y + 1) \in Nat /\ NewYear(y + 1) = NewYear(y) + YearLength(y)
<1>1. NewYear(y) = 365 * y + (y - 1) \div 4 - (y - 1) \div 100 + (y - 1) \div 400 + 1
  BY NewYearFacts
<1>2. NewYear(y + 1) = 365 * (y + 1) + y \div 4 - y \div 100 + y \div 400 + 1
  BY y + 1 \in Nat, y + 1 - 1 = y, NewYearFacts
<1>3. YearLength(y) = 365 + (y \div 4 - (y - 1) \div 4) - (y \div 100 - (y - 1) \div 100)
                      + (y \div 400 - (y - 1) \div 400)
  BY DEF YearLength, IsLeap
<1>4. NewYear(y + 1) \in Nat
  BY y + 1 \in Nat, NewYearFacts
<1> HIDE DEF NewYear, YearLength
<1> QED BY <1>1, <1>2, <1>3, <1>4

LEMMA NewYearGrows ==
  ASSUME NEW x \in Nat, NEW y \in Nat, x <= y
  PROVE  NewYear(x) <= NewYear(y)
<1>1. NewYear(x) = 365 * x + (x - 1) \div 4 - (x - 1) \div 100 + (x - 1) \div 400 + 1
  BY NewYearFacts
<1>2. NewYear(y) = 365 * y + (y - 1) \div 4 - (y - 1) \div 100 + (y - 1) \div 400 + 1
  BY NewYearFacts
<1> QED BY <1>1, <1>2

(* Every day belongs to exactly one year, which YearOf finds.                *)
LEMMA YearExists ==
  ASSUME NEW day \in Nat
  PROVE  \E y \in Nat : NewYear(y) <= day /\ day < NewYear(y + 1)
<1> DEFINE T == {y \in Nat : day < NewYear(y + 1)}
<1>1. day \in T
  <2>1. 364 * (day + 1) <= NewYear(day + 1) /\ NewYear(day + 1) \in Nat
    BY day + 1 \in Nat, NewYearFacts
  <2> QED BY <2>1
<1>2. PICK y \in T : \A z \in T : y <= z
  BY <1>1, LeastNat
<1>3. NewYear(y) <= day
  <2>1. CASE y = 0
    BY <2>1, NewYearFacts
  <2>2. CASE y # 0
    <3>1. y - 1 \in Nat /\ y - 1 \notin T
      BY <1>2, <2>2
    <3> QED BY <3>1, NewYearFacts
  <2> QED BY <2>1, <2>2
<1> QED BY <1>2, <1>3

LEMMA YearIs ==
  ASSUME NEW day \in Nat, NEW y \in Nat, NewYear(y) <= day, day < NewYear(y + 1)
  PROVE  YearOf(day) = y
<1> DEFINE Within(z) == NewYear(z) <= day /\ day < NewYear(z + 1)
<1>1. ASSUME NEW z \in Nat, Within(z) PROVE z = y
  <2>1. /\ NewYear(z) \in Nat /\ NewYear(z + 1) \in Nat
        /\ NewYear(y) \in Nat /\ NewYear(y + 1) \in Nat
    BY NewYearType
  <2>2. z + 1 <= y => NewYear(z + 1) <= NewYear(y)
    BY z + 1 \in Nat, NewYearGrows
  <2>3. y + 1 <= z => NewYear(y + 1) <= NewYear(z)
    BY y + 1 \in Nat, NewYearGrows
  <2> QED BY <1>1, <2>1, <2>2, <2>3
<1>2. y \in day \div 367 .. day \div 364
  <2>1. 364 * y <= NewYear(y) /\ NewYear(y) \in Nat
    BY NewYearFacts
  <2>2. NewYear(y + 1) <= 367 * (y + 1) /\ NewYear(y + 1) \in Nat
    BY y + 1 \in Nat, NewYearFacts
  <2> QED BY <2>1, <2>2
<1>3. \A z \in day \div 367 .. day \div 364 : z \in Nat
  OBVIOUS
<1>4. Within(y)
  OBVIOUS
<1> HIDE DEF Within
<1>5. (CHOOSE z \in day \div 367 .. day \div 364 : Within(z)) = y
  BY <1>1, <1>2, <1>3, <1>4
<1> QED BY <1>5 DEF YearOf, NewYear, Within

LEMMA YearOfType == ASSUME NEW day \in Nat PROVE YearOf(day) \in Nat
BY YearExists, YearIs

(* No month runs out of its year, so a day of the calendar is in its own.    *)
LEMMA MonthFacts ==
  ASSUME NEW y \in Nat, NEW m \in 1 .. 12
  PROVE  /\ DaysBeforeMonth[m] \in Nat /\ MonthLength(y, m) \in Nat
         /\ DaysBeforeMonth[m] + MonthLength(y, m)
              <= IF m > 2 THEN 365 ELSE YearLength(y)
BY DEF DaysBeforeMonth, MonthLength, YearLength

LEMMA DayInYear ==
  ASSUME NEW y \in Nat, NEW m, NEW d, IsValidYmd(y, m, d)
  PROVE  /\ DateUTC(y, m, d) \in Nat
         /\ NewYear(y) <= DateUTC(y, m, d) /\ DateUTC(y, m, d) < NewYear(y + 1)
<1>1. m \in 1 .. 12 /\ d \in 1 .. MonthLength(y, m)
  BY DEF IsValidYmd
<1>2. /\ DateUTC(y, m, d) = DaysBeforeYear(y) + DaysBeforeMonth[m]
                                  + (IF m > 2 /\ IsLeap(y) THEN 1 ELSE 0) + d
      /\ NewYear(y) = DaysBeforeYear(y) + 1 /\ DaysBeforeYear(y) \in Int
  BY NewYearFacts DEF DateUTC, DaysBeforeYear
<1>3. NewYear(y + 1) = NewYear(y) + YearLength(y) /\ NewYear(y) \in Nat
  BY NewYearFacts, NextYear
<1>4. /\ DaysBeforeMonth[m] \in Nat /\ MonthLength(y, m) \in Nat
      /\ DaysBeforeMonth[m] + MonthLength(y, m)
           <= IF m > 2 THEN 365 ELSE YearLength(y)
  BY <1>1, MonthFacts
<1>5. YearLength(y) = 365 + (IF IsLeap(y) THEN 1 ELSE 0)
  BY DEF YearLength
<1> QED BY <1>1, <1>2, <1>3, <1>4, <1>5

(* A day of the calendar whose month and day are printed.                    *)
Printed(p, day) == \E y \in Nat : /\ IsValidYmd(y, p.month, p.day)
                                  /\ day = DateUTC(y, p.month, p.day)

(* Whatever year a printed date is given, what is read is a day it prints.   *)
LEMMA ReadFacts ==
  ASSUME NEW p \in PrintedDate, NEW base \in Nat
  PROVE  /\ ReadDated(p) = NoDay \/ Printed(p, ReadDated(p))
         /\ ReadYearless(p, base) = NoDay \/ Printed(p, ReadYearless(p, base))
<1>1. p.year \in Nat
  BY DEF PrintedDate
<1>2. YearOf(base) \in Nat /\ YearOf(base) + 1 \in Nat
  BY YearOfType
<1>3. ReadDated(p) = NoDay \/ Printed(p, ReadDated(p))
  BY <1>1 DEF ReadDated, Printed
<1>4. InferYear(p, base) = NoDay \/ Printed(p, InferYear(p, base))
  BY <1>2 DEF InferYear, Printed
<1> QED BY <1>3, <1>4 DEF ReadYearless

(* parseExpiryDate: nothing, or a plausible day that the text prints.        *)
LEMMA ParseFacts ==
  ASSUME NEW t \in Seq(PrintedDate), NEW base \in Nat
  PROVE  LET day == ParseExpiryDate(t, base)
         IN  \/ day = NoDay
             \/ day \in Nat /\ day - base \in -1 .. 365 /\ \E i \in DOMAIN t : Printed(t[i], day)
<1> DEFINE read(i) == IF i <= Len(t) THEN ReadDated(t[i])
                      ELSE ReadYearless(t[i - Len(t)], base)
           found   == {i \in 1 .. 2 * Len(t) :
                          read(i) # NoDay /\ IsPlausibleExpiry(read(i), base)}
<1>1. ParseExpiryDate(t, base) = IF found = {} THEN NoDay ELSE read(Min(found))
  BY DEF ParseExpiryDate
<1>2. Len(t) \in Nat /\ DOMAIN t = 1 .. Len(t) /\ \A i \in DOMAIN t : t[i] \in PrintedDate
  BY ElementOfSeq, LenProperties
<1>3. found \in SUBSET Nat
  BY <1>2
<1>4. ASSUME found # {} PROVE Min(found) \in found
  <2> HIDE DEF found
  <2>1. \E i \in found : \A j \in found : i <= j
    BY <1>3, <1>4, LeastNat
  <2> QED BY <2>1 DEF Min
<1>5. ASSUME NEW i \in found
      PROVE  /\ read(i) \in Nat /\ read(i) - base \in -1 .. 365
             /\ \E j \in DOMAIN t : Printed(t[j], read(i))
  <2>1. read(i) # NoDay /\ IsPlausibleExpiry(read(i), base) /\ i \in 1 .. 2 * Len(t)
    OBVIOUS
  <2>2. \E j \in DOMAIN t : Printed(t[j], read(i))
    <3>1. CASE i <= Len(t)
      BY <1>2, <2>1, <3>1, ReadFacts
    <3>2. CASE ~ (i <= Len(t))
      <4>1. i - Len(t) \in DOMAIN t
        BY <1>2, <2>1, <3>2
      <4> QED BY <1>2, <2>1, <3>2, <4>1, ReadFacts
    <3> QED BY <3>1, <3>2
  <2>3. read(i) \in Nat
    BY <2>2, DayInYear DEF Printed
  <2> HIDE DEF read
  <2> QED BY <2>1, <2>2, <2>3 DEF IsPlausibleExpiry, MAX_EXPIRY_DAYS_BEHIND,
                                 MAX_EXPIRY_DAYS_AHEAD
<1> HIDE DEF read, found
<1> QED BY <1>1, <1>4, <1>5

-----------------------------------------------------------------------------
(* What the handler finds in the mail.                                       *)
ParsedDay == ParseExpiryDate(text, DayIn(ServerOffset, received))

DatesTypes ==
    /\ now \in Nat /\ judged \in Nat /\ received \in Starts /\ text \in Texts
    /\ outcome \in {"received", "held", "discarded", "coupon"}

(* A verdict is that of the day it was given, for what was found.            *)
JudgedInv ==
    /\ outcome = "coupon" => /\ expiry = ParsedDay /\ expiry # NoDay
                           /\ expiry >= KstDay(judged)
    /\ outcome = "discarded" => ParsedDay < KstDay(judged)

(* A reminder is of a coupon and for its time, and is not said before it.    *)
RemindedInv ==
    /\ reminder # NoHour => outcome = "coupon" /\ reminder = ReminderHour(expiry)
    /\ said # Unsaid =>
          /\ reminder # NoHour /\ said.at \in Nat /\ said.at >= reminder
          /\ said.phrase = Phrase(DaysUntilExpiry(expiry, said.at))

DatesInv == DatesTypes /\ JudgedInv /\ RemindedInv

LEMMA ParsedDayFacts ==
  ASSUME DatesTypes
  PROVE  /\ ParsedDay \in Nat
         /\ ParsedDay # NoDay =>
               /\ ParsedDay - DayIn(ServerOffset, received) \in -1 .. 365
               /\ \E i \in DOMAIN text : Printed(text[i], ParsedDay)
<1>1. text \in Seq(PrintedDate)
  BY DatesAssumption DEF DatesTypes
<1>2. DayIn(ServerOffset, received) \in Nat
  BY DatesAssumption DEF DatesTypes, DayIn
<1> QED BY <1>1, <1>2, ParseFacts DEF ParsedDay, NoDay

LEMMA DatesStart == ASSUME DatesInit PROVE DatesInv
BY DatesAssumption DEF DatesInit, DatesInv, DatesTypes, JudgedInv, RemindedInv, NoHour

LEMMA DatesStep ==
  ASSUME DatesInv, [DatesNext]_datesVars
  PROVE  DatesInv'
<1> USE DEF DatesInv
<1>1. CASE PassHours
  <2>1. /\ UNCHANGED <<received, text, outcome, expiry, judged, reminder, said>>
        /\ now' \in Nat
    BY <1>1, DatesAssumption DEF PassHours, DatesTypes
  <2> QED BY <2>1 DEF DatesTypes, JudgedInv, RemindedInv, ParsedDay
<1>2. CASE Classify
  <2>1. /\ outcome = "received" /\ judged' = now
        /\ UNCHANGED <<now, received, text, said>> /\ ParsedDay' = ParsedDay
        /\ reminder = NoHour /\ said = Unsaid
    BY <1>2 DEF Classify, RemindedInv, ParsedDay
  <2>2. \/ outcome' = "held" /\ UNCHANGED <<expiry, reminder>>
        \/ /\ VerdictOn(ParsedDay, now) = "expired"
           /\ outcome' = "discarded" /\ UNCHANGED <<expiry, reminder>>
        \/ /\ VerdictOn(ParsedDay, now) = "usable"
           /\ outcome' = "coupon" /\ expiry' = ParsedDay
           /\ reminder' = ExpiryReminderTime(ParsedDay, now)
    BY <1>2 DEF Classify, ParsedDay
  <2>3. KstDay(now) \in Int /\ ParsedDay \in Nat
    BY ParsedDayFacts DEF DatesTypes, KstDay, DayIn, KST_OFFSET
  <2>4. DatesTypes'
    BY <2>1, <2>2 DEF DatesTypes
  <2>5. JudgedInv'
    BY <2>1, <2>2, <2>3 DEF JudgedInv, VerdictOn, KstDay
  <2>6. RemindedInv'
    BY <2>1, <2>2 DEF RemindedInv, ExpiryReminderTime
  <2> QED BY <2>4, <2>5, <2>6
<1>3. CASE Remind
  <2>1. /\ reminder # NoHour /\ now >= reminder
        /\ said' = [phrase |-> Phrase(DaysUntilExpiry(expiry, now)), at |-> now]
        /\ UNCHANGED <<now, received, text, outcome, expiry, judged, reminder>>
    BY <1>3 DEF Remind
  <2>2. DatesTypes' /\ JudgedInv'
    BY <2>1 DEF DatesTypes, JudgedInv, ParsedDay
  <2>3. /\ said'.at = now /\ said'.phrase = Phrase(DaysUntilExpiry(expiry, now))
        /\ now \in Nat
    BY <2>1 DEF DatesTypes
  <2> QED BY <2>1, <2>2, <2>3 DEF RemindedInv
<1>4. CASE UNCHANGED datesVars
  BY <1>4 DEF datesVars, DatesTypes, JudgedInv, RemindedInv, ParsedDay
<1> QED BY <1>1, <1>2, <1>3, <1>4 DEF DatesNext

(* Coupons, discarded mails and reminders keep to the day that was found in  *)
(* the mail and to the hour of their handler.                                *)
THEOREM DatesInvariant == DatesSpec => []DatesInv
<1>1. DatesInit => DatesInv
  BY DatesStart
<1>2. DatesInv /\ [DatesNext]_datesVars => DatesInv'
  BY DatesStep
<1> QED BY <1>1, <1>2, PTL DEF DatesSpec

(* parseExpiryDate, for every text, mail date and zone: a coupon's expiry is *)
(* a day of the calendar whose month and day the mail prints, from a day     *)
(* before the mail to a year after it.                                       *)
THEOREM ExpiriesArePrinted == DatesSpec => []ExpiryIsPrinted
<1>1. DatesInv => ExpiryIsPrinted
  <2> SUFFICES ASSUME DatesInv, outcome = "coupon" PROVE ExpiryIsPrinted
    BY DEF ExpiryIsPrinted
  <2>1. /\ expiry \in Nat /\ expiry - DayIn(ServerOffset, received) \in -1 .. 365
        /\ \E i \in DOMAIN text : Printed(text[i], expiry)
    BY ParsedDayFacts DEF DatesInv, JudgedInv
  <2>2. PICK i \in DOMAIN text, y \in Nat :
           /\ IsValidYmd(y, text[i].month, text[i].day)
           /\ expiry = DateUTC(y, text[i].month, text[i].day)
    BY <2>1 DEF Printed
  <2>3. YearOf(expiry) = y
    BY <2>1, <2>2, DayInYear, YearIs
  <2>4. /\ text[i].month \in 1 .. 12
        /\ text[i].day <= MonthLength(y, text[i].month)
    BY <2>2, MonthFacts DEF IsValidYmd
  <2> QED BY <2>1, <2>2, <2>3, <2>4 DEF ExpiryIsPrinted
<1> QED BY <1>1, DatesInvariant, PTL

(* ValidityCheckerService and the filters of GET /coupons agree on the day.  *)
THEOREM VerdictsAgreeWithLists == DatesSpec => []JudgedLikeListed
<1>1. DatesInv => JudgedLikeListed
  <2> SUFFICES ASSUME DatesInv PROVE JudgedLikeListed
    OBVIOUS
  <2>1. KstDay(judged) \in Int /\ ParsedDay \in Nat
    BY ParsedDayFacts DEF DatesInv, DatesTypes, KstDay, DayIn, KST_OFFSET
  <2> QED BY <2>1 DEF DatesInv, JudgedInv, JudgedLikeListed, Listed, ParsedDay
<1> QED BY <1>1, DatesInvariant, PTL

(* expiryReminderTime and the wording of the message agree: a reminder sent  *)
(* within its day says "tomorrow".                                           *)
THEOREM RemindersSayTomorrow == DatesSpec => []ReminderSaysTomorrow
<1>1. DatesInv => ReminderSaysTomorrow
  <2> SUFFICES ASSUME DatesInv, said # Unsaid, said.at < reminder + 15
               PROVE  /\ said.phrase = "tomorrow"
                      /\ now = said.at =>
                            Listed("expiring") /\ expiry = KstDay(now) + 1
    BY DEF ReminderSaysTomorrow
  <2>1. /\ outcome = "coupon" /\ said.at \in Nat /\ expiry \in Nat
        /\ reminder = 24 * (expiry - 1) /\ said.at >= reminder
        /\ said.phrase = Phrase(expiry - KstDay(said.at))
    BY ParsedDayFacts DEF DatesInv, JudgedInv, RemindedInv, ReminderHour,
       REMINDER_HOUR_KST, KST_OFFSET, DaysUntilExpiry
  <2>2. KstDay(said.at) = expiry - 1
    BY <2>1 DEF KstDay, DayIn, KST_OFFSET
  <2>3. said.phrase = "tomorrow"
    BY <2>1, <2>2 DEF Phrase
  <2> QED BY <2>1, <2>2, <2>3 DEF Listed, EXPIRING_WITHIN_DAYS
<1> QED BY <1>1, DatesInvariant, PTL

(* On a phone in Korea, a card's badge fits the tab it is listed in.         *)
THEOREM BadgesFitTabs == DatesSpec => []BadgeFitsTab
<1>1. DatesInv => BadgeFitsTab
  <2> SUFFICES ASSUME DatesInv, DeviceOffset = KST_OFFSET, outcome = "coupon"
               PROVE  BadgeFitsTab
    BY DEF BadgeFitsTab
  <2>1. expiry \in Nat /\ KstDay(now) \in Int
    BY ParsedDayFacts DEF DatesInv, DatesTypes, JudgedInv, KstDay, DayIn,
       KST_OFFSET
  <2>2. DaysLeft = expiry - KstDay(now)
    BY DEF DaysLeft, KstDay
  <2> QED BY <2>1, <2>2 DEF BadgeFitsTab, Listed, EXPIRING_WITHIN_DAYS
<1> QED BY <1>1, DatesInvariant, PTL

=============================================================================
